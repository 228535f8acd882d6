---------------------- MODULE ShaderBindingTableProofs ----------------------
(***************************************************************************)
(* Proofs about ShaderBindingTable for every value of the constants: when *)
(* the application lists its shaders in role order, the offset            *)
(* GetOffsetImpl computes from the per-role counts of Initialize points   *)
(* at exactly the groups of that role, for lists of any length.           *)
(***************************************************************************)
EXTENDS ShaderBindingTable, FiniteSetTheorems, SequenceTheorems, TLAPS

(***************************************************************************)
(* Below(l, n) is the set of positions of l whose role comes before rank  *)
(* n; in a role-ordered list it is the prefix 1 .. B(l, n).                *)
(***************************************************************************)
Below(l, n) == {i \in DOMAIN l : RoleRank[l[i]] < n}
B(l, n) == Cardinality(Below(l, n))

LEMMA RoleRankType ==
    /\ RoleRank \in [Roles -> 0 .. 3]
    /\ \A r, q \in Roles : RoleRank[r] = RoleRank[q] => r = q
BY DEF RoleRank, Roles

\* Below is a finite set of positions, so B counts at most Len(l) of them.
LEMMA BelowFinite ==
    ASSUME NEW l \in Seq(Roles), NEW n \in Nat
    PROVE  /\ IsFiniteSet(Below(l, n))
           /\ B(l, n) \in 0 .. Len(l)
<1>1. Below(l, n) \subseteq 1 .. Len(l)
  BY DEF Below
<1>2. IsFiniteSet(1 .. Len(l)) /\ Cardinality(1 .. Len(l)) = Len(l)
  <2>1. Len(l) \in Nat
    BY LenProperties
  <2>2. IsFiniteSet(1 .. Len(l))
         /\ Cardinality(1 .. Len(l)) = IF 1 > Len(l) THEN 0 ELSE Len(l) - 1 + 1
    BY <2>1, FS_Interval
  <2>3. (IF 1 > Len(l) THEN 0 ELSE Len(l) - 1 + 1) = Len(l)
    BY <2>1
  <2> QED
    BY <2>2, <2>3
<1>3. IsFiniteSet(Below(l, n)) /\ Cardinality(Below(l, n)) <= Len(l)
  BY <1>1, <1>2, FS_Subset
<1>4. Cardinality(Below(l, n)) \in Nat
  BY <1>3, FS_CardinalityType
<1> QED
  BY <1>3, <1>4 DEF B

(***************************************************************************)
(* In a role-ordered list, position i has a role before rank n exactly    *)
(* when i is at most B(l, n): the positions before rank n are a prefix.   *)
(***************************************************************************)
LEMMA BelowPrefix ==
    ASSUME NEW l \in Seq(Roles), RoleOrdered(l), NEW n \in Nat,
           NEW i \in DOMAIN l
    PROVE  RoleRank[l[i]] < n <=> i <= B(l, n)
<1>0. IsFiniteSet(Below(l, n)) /\ B(l, n) \in Nat
  BY BelowFinite
<1>1. ASSUME RoleRank[l[i]] < n PROVE i <= B(l, n)
  <2>1. 1 .. i \subseteq Below(l, n)
    <3> SUFFICES ASSUME NEW j \in 1 .. i PROVE RoleRank[l[j]] < n
      BY DEF Below
    <3>1. j \in DOMAIN l
      OBVIOUS
    <3>2. RoleRank[l[j]] <= RoleRank[l[i]]
      BY <3>1, RoleRankType DEF RoleOrdered
    <3> QED
      BY <3>1, <3>2, <1>1, RoleRankType
  <2>2. Cardinality(1 .. i) = i
    <3>1. i \in Nat \ {0}
      BY LenProperties
    <3> QED
      BY <3>1, FS_Interval
  <2> QED
    BY <1>0, <2>1, <2>2, FS_Subset DEF B
<1>2. ASSUME ~(RoleRank[l[i]] < n) PROVE ~(i <= B(l, n))
  <2>1. Below(l, n) \subseteq 1 .. i - 1
    <3> SUFFICES ASSUME NEW j \in Below(l, n) PROVE j < i
      BY DEF Below
    <3>1. j \in DOMAIN l /\ RoleRank[l[j]] < n
      BY DEF Below
    <3>2. ~(i < j)
      BY <3>1, <1>2, RoleRankType DEF RoleOrdered
    <3>3. j # i
      BY <3>1, <1>2
    <3> QED
      BY <3>1, <3>2, <3>3
  <2>2. IsFiniteSet(1 .. i - 1) /\ Cardinality(1 .. i - 1) = i - 1
    <3>1. i - 1 \in Nat
      BY LenProperties
    <3>2. \A b \in Int : IsFiniteSet(1 .. b) /\ Cardinality(1 .. b) = IF 1 > b THEN 0 ELSE b
      BY FS_Interval
    <3> QED
      BY <3>1, <3>2
  <2>3. Cardinality(Below(l, n)) <= Cardinality(1 .. i - 1)
    BY <2>1, <2>2, FS_Subset
  <2> QED
    BY <2>2, <2>3, <1>0 DEF B
<1> QED
  BY <1>1, <1>2

\* The shaders of role r are the positions below rank(r) + 1 that are not
\* below rank(r), so Initialize's counter for r is the difference of the two.
LEMMA CountIsDifference ==
    ASSUME NEW l \in Seq(Roles), NEW r \in Roles
    PROVE  RoleCount(l, r) = B(l, RoleRank[r] + 1) - B(l, RoleRank[r])
<1> DEFINE n == RoleRank[r]
<1>0. n \in Nat
  BY RoleRankType
<1>1. {k \in DOMAIN l : l[k] = r} = Below(l, n + 1) \ Below(l, n)
  BY RoleRankType DEF Below
<1>2. Below(l, n + 1) \cap Below(l, n) = Below(l, n)
  BY <1>0, RoleRankType DEF Below
<1>3. IsFiniteSet(Below(l, n + 1))
  BY <1>0, BelowFinite
<1> QED
  BY <1>1, <1>2, <1>3, FS_Difference DEF RoleCount, B

\* With the counters of Initialize, the local offset of GetOffsetImpl for r
\* is the number of shaders whose role comes before r.
LEMMA OffsetIndexIsBelow ==
    ASSUME NEW l \in Seq(Roles), NEW r \in Roles
    PROVE  OffsetIndex([q \in Roles |-> RoleCount(l, q)], r) = B(l, RoleRank[r])
<1> DEFINE c == [q \in Roles |-> RoleCount(l, q)]
<1>0. B(l, 0) = 0
  <2>1. Below(l, 0) = {}
    BY RoleRankType DEF Below
  <2> QED
    BY <2>1, FS_EmptySet DEF B
<1>1. /\ c["RayGeneration"] = B(l, 1) - B(l, 0)
      /\ c["RayClosestHit"] = B(l, 2) - B(l, 1)
      /\ c["RayAnyHit"] = B(l, 3) - B(l, 2)
  BY CountIsDifference DEF RoleRank, Roles
<1>2. \A n \in 0 .. 3 : B(l, n) \in Nat
  BY BelowFinite
<1> QED
  BY <1>0, <1>1, <1>2 DEF OffsetIndex, RoleRank, Roles

(***************************************************************************)
(* The offset law for one list: in a role-ordered list the RoleCount(l, r) *)
(* handles from the byte offset of role r are the groups of role r.        *)
(***************************************************************************)
LEMMA OrderedOffsets ==
    ASSUME NEW l \in Seq(Roles), RoleOrdered(l), NEW r \in Roles,
           NEW k \in 1 .. RoleCount(l, r)
    PROVE  LET i == Offset([q \in Roles |-> RoleCount(l, q)], r) \div HandleSize + k
           IN  i \in DOMAIN l /\ l[i] = r
<1> DEFINE c == [q \in Roles |-> RoleCount(l, q)]
           n == RoleRank[r]
           i == Offset(c, r) \div HandleSize + k
<1>0. n \in Nat /\ B(l, n) \in 0 .. Len(l) /\ B(l, n + 1) \in 0 .. Len(l)
  <2>1. n \in Nat
    BY RoleRankType
  <2>2. B(l, n) \in 0 .. Len(l)
    BY <2>1, BelowFinite
  <2>3. B(l, n + 1) \in 0 .. Len(l)
    <3>1. n + 1 \in Nat
      BY <2>1
    <3> QED
      BY <3>1, BelowFinite
  <2> QED
    BY <2>1, <2>2, <2>3
<1>1. Offset(c, r) \div HandleSize = B(l, n)
  BY <1>0, OffsetIndexIsBelow, TablesAssumption DEF Offset
<1>2. RoleCount(l, r) = B(l, n + 1) - B(l, n)
  BY CountIsDifference
<1>3. i \in B(l, n) + 1 .. B(l, n + 1)
  BY <1>0, <1>1, <1>2
<1>4. i \in DOMAIN l
  BY <1>0, <1>3
<1>5. RoleRank[l[i]] < n + 1 /\ ~(RoleRank[l[i]] < n)
  BY <1>0, <1>3, <1>4, BelowPrefix
<1>6. RoleRank[l[i]] = n
  BY <1>4, <1>5, RoleRankType
<1> QED
  BY <1>4, <1>6, RoleRankType
-----------------------------------------------------------------------------
\* Initialize's counters are natural numbers.
LEMMA RoleCountType ==
    ASSUME NEW l \in Seq(Roles), NEW r \in Roles
    PROVE  RoleCount(l, r) \in Nat
<1>1. Len(l) \in Nat
  BY LenProperties
<1>2. IsFiniteSet(1 .. Len(l))
  BY <1>1, FS_Interval
<1>3. {k \in DOMAIN l : l[k] = r} \subseteq 1 .. Len(l)
  OBVIOUS
<1>4. IsFiniteSet({k \in DOMAIN l : l[k] = r})
  BY <1>2, <1>3, FS_Subset
<1> QED
  BY <1>4, FS_CardinalityType DEF RoleCount

(***************************************************************************)
(* The inductive invariant: a valid table holds a list the application    *)
(* may pass and, when the counters are the table's own, the counts        *)
(* Initialize computed for it.  The counters are written in the same step *)
(* as the stages, and never again.                                         *)
(***************************************************************************)
CountsInv ==
    \A s \in Tables : tableState[s] = "valid" =>
        /\ stages[s] \in ShaderLists
        /\ ~SharedCounters => counts[s] = [r \in Roles |-> RoleCount(stages[s], r)]

IInv == TypeOK /\ CountsInv

LEMMA InitIInv == Init => IInv
BY TablesAssumption DEF Init, IInv, TypeOK, CountsInv

LEMMA NextIInv == IInv /\ [Next]_vars => IInv'
<1> SUFFICES ASSUME IInv, [Next]_vars PROVE IInv'
  OBVIOUS
<1>1. CASE \E s \in Tables, list \in ShaderLists : CreateTable(s, list)
  <2>1. PICK s \in Tables, list \in ShaderLists : CreateTable(s, list)
    BY <1>1
  <2>2. list \in Seq(Roles)
    BY TablesAssumption
  <2>3. [r \in Roles |-> RoleCount(list, r)] \in [Roles -> Nat]
    BY <2>2, RoleCountType
  <2>4. CASE ~handlesAvailable
    <3>1. /\ tableState' = [tableState EXCEPT ![s] = "error"]
          /\ UNCHANGED <<handlesAvailable, tableDestroyed, stages, counts, tally, pipeState,
                         pipeTable>>
      BY <2>1, <2>4 DEF CreateTable
    <3> QED
      BY <3>1 DEF IInv, TypeOK, CountsInv
  <2>5. CASE handlesAvailable
    <3> DEFINE start == IF SharedCounters THEN tally ELSE [r \in Roles |-> 0]
               final == [r \in Roles |-> start[r] + RoleCount(list, r)]
    <3>1. /\ tableState' = [tableState EXCEPT ![s] = "valid"]
          /\ stages' = [stages EXCEPT ![s] = list]
          /\ counts' = [counts EXCEPT ![s] = final]
          /\ tally' = IF SharedCounters THEN final ELSE tally
          /\ UNCHANGED <<handlesAvailable, tableDestroyed, pipeState, pipeTable>>
      BY <2>1, <2>5 DEF CreateTable
    <3>2. start \in [Roles -> Nat]
      BY TablesAssumption DEF IInv, TypeOK
    <3>3. final \in [Roles -> Nat]
      BY <3>2, <2>3
    <3>4. ~SharedCounters => final = [r \in Roles |-> RoleCount(list, r)]
      BY <2>3
    <3>5. TypeOK'
      BY <3>1, <3>3, <2>2 DEF IInv, TypeOK
    <3>6. CountsInv'
      BY <3>1, <3>4 DEF IInv, TypeOK, CountsInv
    <3> QED
      BY <3>5, <3>6 DEF IInv
  <2> QED
    BY <2>4, <2>5
<1>2. CASE \E s \in Tables : DestroyTable(s)
  BY <1>2 DEF IInv, TypeOK, CountsInv, DestroyTable
<1>3. CASE \E p \in Pipelines, d \in PipelineDescriptors : CreatePipeline(p, d)
  <2>1. PICK p \in Pipelines, d \in PipelineDescriptors : CreatePipeline(p, d)
    BY <1>3
  <2>2. d.table \in Tables \cup {NoRef}
    BY DEF PipelineDescriptors
  <2>3. /\ pipeState' \in [Pipelines -> {"none", "valid", "error"}]
        /\ pipeTable' \in [Pipelines -> Tables \cup {NoRef}]
    BY <2>1, <2>2 DEF IInv, TypeOK, CreatePipeline
  <2>4. UNCHANGED <<handlesAvailable, tableState, tableDestroyed, stages, groups, counts, tally>>
    BY <2>1 DEF CreatePipeline
  <2> QED
    BY <2>3, <2>4 DEF IInv, TypeOK, CountsInv
<1>4. CASE UNCHANGED vars
  BY <1>4 DEF IInv, TypeOK, CountsInv, vars
<1> QED
  BY <1>1, <1>2, <1>3, <1>4 DEF Next

\* The invariant gives the offset law for every valid table once every
\* list the application may pass is role-ordered.
LEMMA IInvOffsets ==
    ASSUME \A l \in ShaderLists : RoleOrdered(l), ~SharedCounters, IInv
    PROVE  OffsetsPointAtRoles
<1> SUFFICES ASSUME NEW s \in Tables, tableState[s] = "valid", NEW r \in Roles,
                    NEW k \in 1 .. RoleCount(stages[s], r)
             PROVE  LET i == Offset(CountsOf(s), r) \div HandleSize + k
                    IN  i \in DOMAIN stages[s] /\ stages[s][i] = r
  BY DEF OffsetsPointAtRoles
<1>1. stages[s] \in ShaderLists /\ RoleOrdered(stages[s]) /\ stages[s] \in Seq(Roles)
  BY TablesAssumption DEF IInv, CountsInv
<1>2. CountsOf(s) = [q \in Roles |-> RoleCount(stages[s], q)]
  BY DEF IInv, CountsInv, CountsOf
<1> QED
  BY <1>1, <1>2, OrderedOffsets

(***************************************************************************)
(* Type correctness of the table and pipeline state.                       *)
(***************************************************************************)
THEOREM TypeCorrect == Spec => []TypeOK
<1>1. Init => IInv
  BY InitIInv
<1>2. IInv /\ [Next]_vars => IInv'
  BY NextIInv
<1>3. IInv => TypeOK
  BY DEF IInv
<1> QED
  BY <1>1, <1>2, <1>3, PTL DEF Spec

(***************************************************************************)
(* The offset law of GetOffsetImpl: when the application lists its shaders *)
(* in role order and every table has counters of its own, every handle a  *)
(* dispatch reads from the offset of role r is a group of role r, for      *)
(* every table, list length and handle size.                               *)
(***************************************************************************)
THEOREM OffsetsCorrect ==
    ASSUME \A l \in ShaderLists : RoleOrdered(l), ~SharedCounters
    PROVE  Spec => []OffsetsPointAtRoles
<1>1. Init => IInv
  BY InitIInv
<1>2. IInv /\ [Next]_vars => IInv'
  BY NextIInv
<1>3. IInv => OffsetsPointAtRoles
  BY IInvOffsets
<1> QED
  BY <1>1, <1>2, <1>3, PTL DEF Spec
====
