-------------------------- MODULE DescriptorTables --------------------------
(***************************************************************************)
(* What exposing bind groups to shaders promises (spec 2, 4.5): a draw    *)
(* recorded for submission serial p that binds the groups S makes the GPU  *)
(* read, while p is not finished, exactly the descriptors each group of S  *)
(* was created with.  Heaps, slots and caching are not visible here.       *)
(***************************************************************************)
EXTENDS Naturals

CONSTANTS
    BindGroups,   \* bind groups the application created
    Types,        \* descriptor heap types
    Data(_, _)    \* Data(g, t): the descriptors of type t of group g

VARIABLES
    pending,      \* serial of the command lists being recorded
    completed,    \* last serial the GPU finished
    reads         \* the tables in-flight work reads, with what it reads

tablesVars == <<pending, completed, reads>>

Init ==
    /\ pending = 1
    /\ completed = 0
    /\ reads = {}

\* A draw binds the groups S: their tables of every non-empty type.
Draw(S) ==
    /\ S # {}
    /\ reads' = reads \cup
          {[group |-> gt[1], type |-> gt[2], serial |-> pending, data |-> Data(gt[1], gt[2])] :
             gt \in {gt \in S \X Types : Data(gt[1], gt[2]) # << >>}}
    /\ UNCHANGED <<pending, completed>>

Submit ==
    /\ pending' = pending + 1
    /\ UNCHANGED <<completed, reads>>

\* The GPU finishes the submissions up to c.
Complete(c) ==
    /\ completed < c /\ c < pending
    /\ completed' = c
    /\ reads' = {r \in reads : r.serial > c}
    /\ UNCHANGED pending

Next ==
    \/ \E S \in SUBSET BindGroups : Draw(S)
    \/ Submit
    \/ \E c \in completed + 1 .. pending - 1 : Complete(c)

Spec == Init /\ [][Next]_tablesVars

====
