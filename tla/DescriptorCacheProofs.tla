----------------------- MODULE DescriptorCacheProofs -----------------------
(***************************************************************************)
(* Proof that, with the reuse test of spec 4.5, every descriptor table set *)
(* on a command list the GPU has not finished reads its bind group's       *)
(* descriptors, for every layout, heap size and bound.                     *)
(*                                                                         *)
(* The argument: a table in the current heap is covered by a request of    *)
(* its own serial, and the allocator only hands out slots no request       *)
(* covers, so no later Populate writes over it; a table in an older heap   *)
(* is never written again, since Populate writes the current heap only; a  *)
(* group Populate may skip is one whose copy in the current heap is still  *)
(* covered by a request of the pending serial.                             *)
(***************************************************************************)
EXTENDS DescriptorCache, FiniteSetTheorems, TLAPS

Cnt(g, t) == DescriptorCount(g, t)

\* the Cnt(g, t) slots from o of heap h of type t hold g's descriptors
HoldsAt(h, t, o, g) ==
    \A k \in 1 .. Cnt(g, t) :
        /\ o + k - 1 \in Slots
        /\ content[h][t][o + k - 1] = CpuDescriptors(g, t)[k]

\* a request of serial ser holds the Cnt(g, t) slots from o
Covered(t, o, g, ser) ==
    \E r \in requests[t] : r.start = o /\ r.size = Cnt(g, t) /\ r.serial = ser

\* the group's copy may be reused by Populate (StillValid, spec 4.5)
Reusable(g) == lastUsageSerial[g] = pendingSerial /\ groupHeapSerial[g] = heapSerial

Use == [group : BindGroups, type : Types, heap : Int, bound : Int, offset : Int,
        serial : Int]

TypeInv ==
    /\ pendingSerial \in Nat /\ completedSerial \in Nat
    /\ completedSerial < pendingSerial
    /\ heapSerial \in Heaps
    /\ phase \in {"idle", "first", "switch", "retry"}
    /\ phase \in {"first", "switch"} => heapSerial < MaxHeaps
    /\ requests \in [Types -> SUBSET [start : Int, size : Int, serial : Int]]
    /\ DOMAIN content = Heaps
    /\ \A h \in Heaps : DOMAIN content[h] = Types
                        /\ \A t \in Types : DOMAIN content[h][t] = Slots
    /\ lastUsageSerial \in [BindGroups -> 0 .. pendingSerial]
    /\ groupHeapSerial \in [BindGroups -> 0 .. heapSerial]
    /\ base \in [BindGroups -> [Types -> [heap : Int, offset : Int]]]
    /\ todo \subseteq groups /\ groups \subseteq BindGroups
    /\ uses \subseteq Use
    /\ fault \in BOOLEAN

UsesSafe ==
    \A u \in uses :
        /\ u.heap = u.bound /\ u.bound \in 0 .. heapSerial
        /\ completedSerial < u.serial /\ u.serial <= pendingSerial
        /\ HoldsAt(u.bound, u.type, u.offset, u.group)
        /\ u.bound = heapSerial => Covered(u.type, u.offset, u.group, u.serial)

CacheSafeAt(g) ==
    Reusable(g) =>
        \A t \in Types : Cnt(g, t) > 0 =>
            /\ base[g][t].heap = heapSerial
            /\ HoldsAt(heapSerial, t, base[g][t].offset, g)
            /\ Covered(t, base[g][t].offset, g, pendingSerial)

CacheSafe == \A g \in BindGroups : CacheSafeAt(g)

PassSafe ==
    phase \in {"first", "retry"} => \A g \in groups \ todo : Reusable(g)

IInv == TypeInv /\ UsesSafe /\ CacheSafe /\ PassSafe
-----------------------------------------------------------------------------
\* A layout's descriptor count is a natural number.
LEMMA CntNat ==
    ASSUME NEW g \in BindGroups, NEW t \in Types
    PROVE  Cnt(g, t) \in Nat
<1>1. Layout[g] \in Seq(Bindings)
  BY LayoutAssumption
<1>2. IsFiniteSet(DOMAIN Layout[g])
  BY <1>1, FS_Interval
<1> DEFINE S == {i \in DOMAIN Layout[g] : ~Layout[g][i].dynamic /\ Kind(Layout[g][i]) = t}
<1>3. IsFiniteSet(S)
  BY <1>2, FS_Subset
<1> QED
  BY <1>3, FS_CardinalityType DEF Cnt, DescriptorCount

\* What AllocateGPUDescriptors hands out is a run of free slots.
LEMMA AllocFits ==
    ASSUME NEW t \in Types, NEW n,
           AllocateGPUDescriptors(t, n) # NoOffset
    PROVE  /\ AllocateGPUDescriptors(t, n) \in Slots
           /\ Fits(t, AllocateGPUDescriptors(t, n), n)
<1>1. \E o \in Slots : Fits(t, o, n)
  BY DEF AllocateGPUDescriptors
<1> QED
  BY <1>1 DEF AllocateGPUDescriptors

\* Slots a request holds are never in a run the allocator hands out.
LEMMA CoveredNotFree ==
    ASSUME NEW t \in Types, NEW o \in Int, NEW g \in BindGroups, NEW ser,
           NEW off \in Int, NEW n,
           requests \in [Types -> SUBSET [start : Int, size : Int, serial : Int]],
           Covered(t, o, g, ser), Fits(t, off, n),
           NEW k \in 1 .. Cnt(g, t)
    PROVE  o + k - 1 \notin off .. off + n - 1
<1>1. PICK r \in requests[t] : r.start = o /\ r.size = Cnt(g, t) /\ r.serial = ser
  BY DEF Covered
<1>2. Cnt(g, t) \in Nat
  BY CntNat
<1>3. o + k - 1 \in r.start .. r.start + r.size - 1
  BY <1>1, <1>2
<1>4. ~Free(t, o + k - 1)
  BY <1>3 DEF Free
<1> QED
  BY <1>4 DEF Fits

(***************************************************************************)
(* What Copied does: it adds one request per type it copies, writes g's    *)
(* descriptors into the run it was handed in the current heap, and leaves  *)
(* every other slot alone.                                                 *)
(***************************************************************************)
CopyHyp(g, T, off) ==
    /\ g \in BindGroups /\ T \subseteq Types /\ off \in [Types -> Int]
    /\ \A t \in T : off[t] \in Slots /\ Fits(t, off[t], Cnt(g, t))

LEMMA CopiedEffect ==
    ASSUME TypeInv, CountsMatch, NEW g, NEW T, NEW off, CopyHyp(g, T, off),
           Copied(g, T, off)
    PROVE  /\ \A t \in Types : requests'[t] =
                 IF t \in T THEN requests[t] \cup {[start |-> off[t], size |-> Cnt(g, t),
                                                    serial |-> pendingSerial]}
                 ELSE requests[t]
           /\ DOMAIN content' = Heaps
           /\ \A h \in Heaps : DOMAIN content'[h] = Types
                               /\ \A t \in Types : DOMAIN content'[h][t] = Slots
           /\ \A h \in Heaps, t \in Types, s \in Slots :
                 (h # heapSerial \/ t \notin T \/ s \notin off[t] .. off[t] + Cnt(g, t) - 1)
                    => content'[h][t][s] = content[h][t][s]
           /\ \A t \in T : \A k \in 1 .. Cnt(g, t) :
                 content'[heapSerial][t][off[t] + k - 1] = CpuDescriptors(g, t)[k]
           /\ base' = [base EXCEPT ![g] = [t \in Types |->
                 IF t \in T THEN [heap |-> heapSerial, offset |-> off[t]] ELSE base[g][t]]]
<1> USE DEF CopyHyp
<1>0. \A t \in Types : Cnt(g, t) \in Nat
  BY CntNat
<1>1. \A t \in Types : requests'[t] =
          IF t \in T THEN requests[t] \cup {[start |-> off[t], size |-> Cnt(g, t),
                                             serial |-> pendingSerial]}
          ELSE requests[t]
  BY DEF Copied, Cnt
<1>2. content' = [content EXCEPT ![heapSerial] = [t \in Types |-> [s \in Slots |->
          IF t \in T /\ s - off[t] + 1 \in DOMAIN CpuDescriptors(g, t)
          THEN CpuDescriptors(g, t)[s - off[t] + 1] ELSE content[heapSerial][t][s]]]]
  BY DEF Copied, TypeInv
<1>3. /\ DOMAIN content' = Heaps
      /\ \A h \in Heaps : DOMAIN content'[h] = Types
                          /\ \A t \in Types : DOMAIN content'[h][t] = Slots
  BY <1>2 DEF TypeInv
<1>4. \A h \in Heaps, t \in Types, s \in Slots :
          (h # heapSerial \/ t \notin T \/ s \notin off[t] .. off[t] + Cnt(g, t) - 1)
             => content'[h][t][s] = content[h][t][s]
  <2> SUFFICES ASSUME NEW h \in Heaps, NEW t \in Types, NEW s \in Slots,
                      h # heapSerial \/ t \notin T \/ s \notin off[t] .. off[t] + Cnt(g, t) - 1
               PROVE  content'[h][t][s] = content[h][t][s]
    OBVIOUS
  <2>1. DOMAIN CpuDescriptors(g, t) = 1 .. Cnt(g, t)
    BY DEF CountsMatch, Cnt
  <2>2. t \in T /\ s \notin off[t] .. off[t] + Cnt(g, t) - 1
          => s - off[t] + 1 \notin DOMAIN CpuDescriptors(g, t)
    BY <2>1, <1>0 DEF Slots
  <2> QED
    BY <1>2, <2>2 DEF TypeInv
<1>5. \A t \in T : \A k \in 1 .. Cnt(g, t) :
          content'[heapSerial][t][off[t] + k - 1] = CpuDescriptors(g, t)[k]
  <2> SUFFICES ASSUME NEW t \in T, NEW k \in 1 .. Cnt(g, t)
               PROVE  content'[heapSerial][t][off[t] + k - 1] = CpuDescriptors(g, t)[k]
    OBVIOUS
  <2>1. DOMAIN CpuDescriptors(g, t) = 1 .. Cnt(g, t)
    BY DEF CountsMatch, Cnt
  <2>2. off[t] + k - 1 \in Slots
    BY <1>0 DEF Fits
  <2>3. (off[t] + k - 1) - off[t] + 1 = k
    BY <1>0, Slots \subseteq Int DEF Slots
  <2> QED
    BY <1>2, <2>1, <2>2, <2>3 DEF TypeInv
<1>6. base' = [base EXCEPT ![g] = [t \in Types |->
          IF t \in T THEN [heap |-> heapSerial, offset |-> off[t]] ELSE base[g][t]]]
  BY DEF Copied
<1> QED
  BY <1>1, <1>3, <1>4, <1>5, <1>6

\* Each slot of the run Copied was handed holds g's descriptor.
LEMMA CopiedWritten ==
    ASSUME TypeInv, CountsMatch, NEW g, NEW T, NEW off, CopyHyp(g, T, off),
           Copied(g, T, off), NEW t \in T, NEW k \in 1 .. Cnt(g, t)
    PROVE  content'[heapSerial][t][off[t] + k - 1] = CpuDescriptors(g, t)[k]
BY CopiedEffect

\* Slots that hold a group's descriptors still hold them after Copied, when
\* they are in an older heap or a request holds them.
LEMMA HoldsPreserved ==
    ASSUME TypeInv, CountsMatch, NEW g, NEW T, NEW off, CopyHyp(g, T, off),
           Copied(g, T, off),
           NEW h \in Heaps, NEW t \in Types, NEW o \in Int, NEW g2 \in BindGroups, NEW ser,
           HoldsAt(h, t, o, g2),
           h = heapSerial => Covered(t, o, g2, ser)
    PROVE  HoldsAt(h, t, o, g2)'
<1> SUFFICES ASSUME NEW k \in 1 .. Cnt(g2, t)
             PROVE  /\ o + k - 1 \in Slots
                    /\ content'[h][t][o + k - 1] = CpuDescriptors(g2, t)[k]
  BY DEF HoldsAt
<1>1. o + k - 1 \in Slots /\ content[h][t][o + k - 1] = CpuDescriptors(g2, t)[k]
  BY DEF HoldsAt
<1>2. h # heapSerial \/ t \notin T \/ o + k - 1 \notin off[t] .. off[t] + Cnt(g, t) - 1
  <2>1. CASE h = heapSerial /\ t \in T
    <3>1. Covered(t, o, g2, ser) /\ off[t] \in Int /\ Fits(t, off[t], Cnt(g, t))
      BY <2>1 DEF CopyHyp, Slots
    <3> QED
      BY <3>1, CoveredNotFree DEF TypeInv
  <2> QED
    BY <2>1
<1> QED
  BY <1>1, <1>2, CopiedEffect

\* A request stays held while no step removes it.
LEMMA CoveredMono ==
    ASSUME NEW t, NEW o, NEW g, NEW ser, Covered(t, o, g, ser),
           requests[t] \subseteq requests'[t]
    PROVE  Covered(t, o, g, ser)'
BY DEF Covered

-----------------------------------------------------------------------------
(***************************************************************************)
(* Each action preserves IInv.  Bind, SwitchHeaps, Submit and Tick do not  *)
(* write the heaps; SwitchHeaps and Submit make every cached copy stale.   *)
(***************************************************************************)
LEMMA InitIInv == Init => IInv
<1> SUFFICES ASSUME Init PROVE IInv
  OBVIOUS
<1>1. TypeInv
  <2>1. MaxHeaps \in Nat /\ heapSerial = 0
    BY LayoutAssumption DEF Init
  <2>2. requests \in [Types -> SUBSET [start : Int, size : Int, serial : Int]]
    BY DEF Init
  <2>3. /\ DOMAIN content = Heaps
        /\ \A h \in Heaps : DOMAIN content[h] = Types
                            /\ \A t \in Types : DOMAIN content[h][t] = Slots
    BY DEF Init
  <2>4. base \in [BindGroups -> [Types -> [heap : Int, offset : Int]]]
    BY DEF Init, NoHeap
  <2>5. lastUsageSerial \in [BindGroups -> 0 .. pendingSerial]
        /\ groupHeapSerial \in [BindGroups -> 0 .. heapSerial]
    BY DEF Init
  <2>6. /\ pendingSerial \in Nat /\ completedSerial \in Nat
        /\ completedSerial < pendingSerial
        /\ phase \in {"idle", "first", "switch", "retry"}
        /\ phase \in {"first", "switch"} => heapSerial < MaxHeaps
        /\ todo \subseteq groups /\ groups \subseteq BindGroups
        /\ uses \subseteq Use /\ fault \in BOOLEAN
    <3>1. pendingSerial = 1 /\ completedSerial = 0 /\ phase = "idle"
      BY DEF Init
    <3>2. groups = {} /\ todo = {} /\ uses = {} /\ fault = FALSE
      BY DEF Init
    <3>3. pendingSerial \in Nat /\ completedSerial \in Nat /\ completedSerial < pendingSerial
      BY <3>1, SMT
    <3>4. phase \in {"idle", "first", "switch", "retry"} /\ ~(phase \in {"first", "switch"})
      BY <3>1, Zenon
    <3>5. todo \subseteq groups /\ groups \subseteq BindGroups /\ uses \subseteq Use
          /\ fault \in BOOLEAN
      BY <3>2, Zenon
    <3> QED
      BY <3>3, <3>4, <3>5, Zenon
  <2>7. heapSerial \in Heaps
    BY <2>1 DEF Heaps
  <2> QED
    BY <2>2, <2>3, <2>4, <2>5, <2>6, <2>7 DEF TypeInv
<1>2. CacheSafe
  BY DEF Init, CacheSafe, CacheSafeAt, Reusable
<1> QED
  BY <1>1, <1>2 DEF Init, IInv, UsesSafe, PassSafe

LEMMA BindIInv ==
    ASSUME IInv, NEW S \in SUBSET BindGroups, Bind(S)
    PROVE  IInv'
<1>1. TypeInv'
  BY DEF IInv, TypeInv, Bind
<1>2. UsesSafe' /\ CacheSafe'
  BY DEF IInv, Bind, UsesSafe, CacheSafe, CacheSafeAt, HoldsAt, Covered, Reusable, Cnt
<1>3. PassSafe'
  BY DEF Bind, PassSafe
<1> QED
  BY <1>1, <1>2, <1>3 DEF IInv

LEMMA SwitchHeapsIInv ==
    ASSUME IInv, SwitchHeaps
    PROVE  IInv'
<1>1. TypeInv'
  BY LayoutAssumption DEF IInv, TypeInv, SwitchHeaps, Heaps
<1>2. UsesSafe'
  <2> SUFFICES ASSUME NEW u \in uses'
               PROVE  /\ u.heap = u.bound /\ u.bound \in 0 .. heapSerial'
                      /\ completedSerial' < u.serial /\ u.serial <= pendingSerial'
                      /\ HoldsAt(u.bound, u.type, u.offset, u.group)'
                      /\ u.bound = heapSerial' => Covered(u.type, u.offset, u.group, u.serial)'
    BY DEF UsesSafe
  <2>1. u \in uses /\ u.bound \in 0 .. heapSerial
    BY DEF SwitchHeaps, IInv, UsesSafe
  <2>2. heapSerial \in Nat /\ heapSerial' = heapSerial + 1
    BY LayoutAssumption DEF SwitchHeaps, IInv, TypeInv, Heaps
  <2>3. HoldsAt(u.bound, u.type, u.offset, u.group)'
    BY <2>1 DEF SwitchHeaps, IInv, UsesSafe, HoldsAt
  <2> QED
    BY <2>1, <2>2, <2>3 DEF SwitchHeaps, IInv, UsesSafe
<1>3. CacheSafe'
  <2>1. \A g \in BindGroups : ~Reusable(g)'
    BY LayoutAssumption DEF IInv, TypeInv, SwitchHeaps, Reusable, Heaps
  <2> QED
    BY <2>1 DEF CacheSafe, CacheSafeAt
<1>4. PassSafe'
  BY DEF SwitchHeaps, PassSafe
<1> QED
  BY <1>1, <1>2, <1>3, <1>4 DEF IInv

LEMMA SubmitIInv ==
    ASSUME IInv, Submit
    PROVE  IInv'
<1>1. TypeInv'
  BY DEF IInv, TypeInv, Submit
<1>2. UsesSafe'
  <2> SUFFICES ASSUME NEW u \in uses'
               PROVE  /\ u.heap = u.bound /\ u.bound \in 0 .. heapSerial'
                      /\ completedSerial' < u.serial /\ u.serial <= pendingSerial'
                      /\ HoldsAt(u.bound, u.type, u.offset, u.group)'
                      /\ u.bound = heapSerial' => Covered(u.type, u.offset, u.group, u.serial)'
    BY DEF UsesSafe
  <2>1. u \in uses
    BY DEF Submit
  <2>2. HoldsAt(u.bound, u.type, u.offset, u.group)'
    BY <2>1 DEF Submit, IInv, UsesSafe, HoldsAt
  <2>3. u.bound = heapSerial' => Covered(u.type, u.offset, u.group, u.serial)'
    BY <2>1 DEF Submit, IInv, UsesSafe, Covered
  <2>4. u.serial <= pendingSerial'
    BY <2>1 DEF Submit, IInv, UsesSafe, TypeInv, Use
  <2> QED
    BY <2>1, <2>2, <2>3, <2>4 DEF Submit, IInv, UsesSafe
<1>3. CacheSafe'
  <2>1. \A g \in BindGroups : ~Reusable(g)'
    BY DEF IInv, TypeInv, Submit, Reusable
  <2> QED
    BY <2>1 DEF CacheSafe, CacheSafeAt
<1>4. PassSafe'
  BY DEF Submit, PassSafe
<1> QED
  BY <1>1, <1>2, <1>3, <1>4 DEF IInv

LEMMA TickIInv ==
    ASSUME IInv, NEW c \in 1 .. MaxSerial, Tick(c)
    PROVE  IInv'
<1>1. TypeInv'
  BY DEF IInv, TypeInv, Tick
<1>2. UsesSafe'
  <2> SUFFICES ASSUME NEW u \in uses'
               PROVE  /\ u.heap = u.bound /\ u.bound \in 0 .. heapSerial'
                      /\ completedSerial' < u.serial /\ u.serial <= pendingSerial'
                      /\ HoldsAt(u.bound, u.type, u.offset, u.group)'
                      /\ u.bound = heapSerial' => Covered(u.type, u.offset, u.group, u.serial)'
    BY DEF UsesSafe
  <2>1. u \in uses /\ u.serial > c
    BY DEF Tick
  <2>2. HoldsAt(u.bound, u.type, u.offset, u.group)'
    BY <2>1 DEF Tick, IInv, UsesSafe, HoldsAt
  <2>3. u.bound = heapSerial' => Covered(u.type, u.offset, u.group, u.serial)'
    <3> HAVE u.bound = heapSerial'
    <3>1. PICK r \in requests[u.type] : r.start = u.offset /\ r.size = Cnt(u.group, u.type)
                                       /\ r.serial = u.serial
      BY <2>1 DEF Tick, IInv, UsesSafe, Covered
    <3>2. r \in requests'[u.type]
      BY <2>1, <3>1 DEF Tick, IInv, TypeInv, Use
    <3> QED
      BY <3>1, <3>2 DEF Covered
  <2> QED
    BY <2>1, <2>2, <2>3 DEF Tick, IInv, UsesSafe
<1>3. CacheSafe'
  <2> SUFFICES ASSUME NEW g \in BindGroups, Reusable(g)', NEW t \in Types, Cnt(g, t) > 0
               PROVE  /\ base'[g][t].heap = heapSerial'
                      /\ HoldsAt(heapSerial, t, base[g][t].offset, g)'
                      /\ Covered(t, base[g][t].offset, g, pendingSerial)'
    BY DEF CacheSafe, CacheSafeAt, Tick
  <2>1. Reusable(g)
    BY DEF Tick, Reusable
  <2>2. Covered(t, base[g][t].offset, g, pendingSerial)'
    BY <2>1 DEF Tick, IInv, CacheSafe, CacheSafeAt, Covered, TypeInv
  <2> QED
    BY <2>1, <2>2 DEF Tick, IInv, CacheSafe, CacheSafeAt, HoldsAt
<1>4. PassSafe'
  BY DEF Tick, PassSafe
<1> QED
  BY <1>1, <1>2, <1>3, <1>4 DEF IInv

-----------------------------------------------------------------------------
(***************************************************************************)
(* Populate.  A copy leaves every table in use and every other group's    *)
(* cached copy intact (HoldsPreserved); the group it copies becomes        *)
(* reusable only when both of its types were copied.                       *)
(***************************************************************************)
CopyStep(g, T, off) ==
    /\ CopyHyp(g, T, off) /\ Copied(g, T, off)
    /\ UNCHANGED <<pendingSerial, completedSerial, heapSerial, uses>>

LEMMA CopyRequestsGrow ==
    ASSUME TypeInv, CountsMatch, NEW g, NEW T, NEW off, CopyStep(g, T, off)
    PROVE  \A t \in Types : requests[t] \subseteq requests'[t]
BY DEF CopyStep, Copied

LEMMA CopyUses ==
    ASSUME IInv, CountsMatch, NEW g, NEW T, NEW off, CopyStep(g, T, off)
    PROVE  UsesSafe'
<1> SUFFICES ASSUME NEW u \in uses'
             PROVE  /\ u.heap = u.bound /\ u.bound \in 0 .. heapSerial'
                    /\ completedSerial' < u.serial /\ u.serial <= pendingSerial'
                    /\ HoldsAt(u.bound, u.type, u.offset, u.group)'
                    /\ u.bound = heapSerial' => Covered(u.type, u.offset, u.group, u.serial)'
  BY DEF UsesSafe
<1>1. u \in uses /\ u \in Use
  BY DEF CopyStep, IInv, TypeInv
<1>2. /\ u.heap = u.bound /\ u.bound \in 0 .. heapSerial
      /\ completedSerial < u.serial /\ u.serial <= pendingSerial
      /\ HoldsAt(u.bound, u.type, u.offset, u.group)
      /\ u.bound = heapSerial => Covered(u.type, u.offset, u.group, u.serial)
  BY <1>1 DEF IInv, UsesSafe
<1>3. u.type \in Types /\ u.offset \in Int /\ u.group \in BindGroups
  BY <1>1 DEF Use
<1>6. u.bound \in Heaps
  <2>1. heapSerial \in 0 .. MaxHeaps /\ MaxHeaps \in Nat
    BY LayoutAssumption DEF IInv, TypeInv, Heaps
  <2> QED
    BY <1>2, <2>1 DEF Heaps
<1>0. TypeInv /\ CopyHyp(g, T, off) /\ Copied(g, T, off)
  BY DEF CopyStep, IInv
<1>4. HoldsAt(u.bound, u.type, u.offset, u.group)'
  BY <1>0, <1>2, <1>3, <1>6, HoldsPreserved
<1>5. u.bound = heapSerial' => Covered(u.type, u.offset, u.group, u.serial)'
  <2>1. requests[u.type] \subseteq requests'[u.type]
    BY <1>3, CopyRequestsGrow DEF IInv
  <2> QED
    BY <1>2, <2>1, CoveredMono DEF CopyStep
<1> QED
  BY <1>2, <1>4, <1>5 DEF CopyStep

LEMMA CopyCacheOther ==
    ASSUME IInv, CountsMatch, NEW g, NEW T, NEW off, CopyStep(g, T, off),
           NEW h \in BindGroups, h # g,
           lastUsageSerial'[h] = lastUsageSerial[h],
           groupHeapSerial'[h] = groupHeapSerial[h]
    PROVE  CacheSafeAt(h)'
<1> SUFFICES ASSUME Reusable(h)', NEW t \in Types, Cnt(h, t) > 0
             PROVE  /\ base'[h][t].heap = heapSerial'
                    /\ HoldsAt(heapSerial, t, base[h][t].offset, h)'
                    /\ Covered(t, base[h][t].offset, h, pendingSerial)'
  BY DEF CacheSafeAt, CopyStep
<1>1. Reusable(h)
  BY DEF Reusable, CopyStep
<1>2. /\ base[h][t].heap = heapSerial
      /\ HoldsAt(heapSerial, t, base[h][t].offset, h)
      /\ Covered(t, base[h][t].offset, h, pendingSerial)
  BY <1>1 DEF IInv, CacheSafe, CacheSafeAt
<1>0. TypeInv /\ CopyHyp(g, T, off) /\ Copied(g, T, off)
  BY DEF CopyStep, IInv
<1>3. base'[h] = base[h]
  <2>1. base' = [base EXCEPT ![g] = [t2 \in Types |->
           IF t2 \in T THEN [heap |-> heapSerial, offset |-> off[t2]] ELSE base[g][t2]]]
    BY <1>0 DEF Copied
  <2> QED
    BY <2>1 DEF IInv, TypeInv
<1>4. heapSerial \in Heaps /\ base[h][t].offset \in Int
  BY DEF IInv, TypeInv
<1>7. PICK o \in Int : o = base[h][t].offset
  BY <1>4
<1>8. PICK ps \in Nat : ps = pendingSerial
  BY DEF IInv, TypeInv
<1>9. /\ heapSerial' = heapSerial /\ pendingSerial' = pendingSerial
      /\ base'[h][t].offset = o
  BY <1>3, <1>7 DEF CopyStep
<1>5. HoldsAt(heapSerial, t, base[h][t].offset, h)'
  <2>0. PICK hs \in Heaps : hs = heapSerial
    BY <1>4
  <2>1. HoldsAt(hs, t, o, h) /\ (hs = heapSerial => Covered(t, o, h, ps))
    BY <1>2, <1>7, <1>8, <2>0
  <2>2. HoldsAt(hs, t, o, h)'
    BY <1>0, <2>1, HoldsPreserved
  <2> QED
    BY <2>0, <2>2, <1>9 DEF HoldsAt
<1>6. Covered(t, base[h][t].offset, h, pendingSerial)'
  <2>1. requests[t] \subseteq requests'[t]
    BY CopyRequestsGrow DEF IInv
  <2>2. Covered(t, o, h, ps)'
    BY <1>2, <1>7, <1>8, <2>1, CoveredMono
  <2> QED
    BY <2>2, <1>8, <1>9 DEF Covered
<1> QED
  BY <1>2, <1>3, <1>5, <1>6 DEF CopyStep

\* the names of Populate's LET
Need(g) == {t \in Types : DescriptorCount(g, t) > 0}
Off(g) == [t \in Types |-> AllocateGPUDescriptors(t, DescriptorCount(g, t))]
ViewFailed(g) == "view" \in Need(g) /\ Off(g)["view"] = NoOffset
SamplerFailed(g) == "sampler" \in Need(g) /\ Off(g)["sampler"] = NoOffset

LEMMA PopulateCases ==
    ASSUME NEW g, Populate(g)
    PROVE  /\ PopulateGuard(g)
           /\ UNCHANGED <<pendingSerial, completedSerial, heapSerial, groups, uses>>
           /\ \/ /\ StillValid(g) /\ Returned(g, TRUE)
                 /\ UNCHANGED <<requests, content, base, lastUsageSerial, groupHeapSerial>>
              \/ /\ ~StillValid(g) /\ ViewFailed(g) /\ Returned(g, FALSE)
                 /\ UNCHANGED <<requests, content, base, lastUsageSerial, groupHeapSerial>>
              \/ /\ ~StillValid(g) /\ ~ViewFailed(g) /\ SamplerFailed(g)
                 /\ Copied(g, Need(g) \cap {"view"}, Off(g)) /\ Returned(g, FALSE)
                 /\ UNCHANGED <<lastUsageSerial, groupHeapSerial>>
              \/ /\ ~StillValid(g) /\ ~ViewFailed(g) /\ ~SamplerFailed(g)
                 /\ Copied(g, Need(g), Off(g))
                 /\ lastUsageSerial' = [lastUsageSerial EXCEPT ![g] = pendingSerial]
                 /\ groupHeapSerial' = [groupHeapSerial EXCEPT ![g] = heapSerial]
                 /\ Returned(g, TRUE)
BY DEF Populate, Need, Off, ViewFailed, SamplerFailed

\* An allocation that did not fail is a run of free slots of the heap.
LEMMA OffFacts ==
    ASSUME NEW g \in BindGroups
    PROVE  /\ Off(g) \in [Types -> Int]
           /\ \A t \in Types : Off(g)[t] # NoOffset =>
                 Off(g)[t] \in Slots /\ Fits(t, Off(g)[t], Cnt(g, t))
<1>1. \A t \in Types : Off(g)[t] # NoOffset =>
          Off(g)[t] \in Slots /\ Fits(t, Off(g)[t], Cnt(g, t))
  BY AllocFits DEF Off, Cnt
<1>2. \A t \in Types : Off(g)[t] \in Int
  BY <1>1 DEF NoOffset, Slots
<1> QED
  BY <1>1, <1>2 DEF Off

\* With the reuse test of spec 4.5, a group Populate skips is Reusable.
LEMMA StillValidIsReusable ==
    ASSUME ReuseRule = "pending", NEW g
    PROVE  StillValid(g) <=> Reusable(g)
BY DEF StillValid, Reusable

\* Populate returns without writing: the group is reused, or its view
\* allocation failed.
LEMMA PopulateNoCopy ==
    ASSUME IInv, ReuseRule = "pending", NEW g \in BindGroups,
           PopulateGuard(g),
           UNCHANGED <<pendingSerial, completedSerial, heapSerial, groups, uses,
                       requests, content, base, lastUsageSerial, groupHeapSerial>>,
           NEW ok \in BOOLEAN, Returned(g, ok), ok => StillValid(g)
    PROVE  IInv'
<1>1. TypeInv'
  <2>1. phase' \in {"idle", "first", "switch", "retry"}
        /\ (phase' \in {"first", "switch"} => heapSerial' < MaxHeaps)
    BY DEF Returned, PopulateGuard, IInv, TypeInv
  <2>2. todo' \subseteq groups' /\ fault' \in BOOLEAN
    BY DEF Returned, IInv, TypeInv
  <2> QED
    BY <2>1, <2>2 DEF IInv, TypeInv
<1>2. UsesSafe' /\ CacheSafe'
  BY DEF IInv, UsesSafe, CacheSafe, CacheSafeAt, HoldsAt, Covered, Reusable, Cnt
<1>3. PassSafe'
  <2> SUFFICES ASSUME phase' \in {"first", "retry"}, NEW h \in groups' \ todo'
               PROVE  Reusable(h)'
    BY DEF PassSafe
  <2>1. phase' = phase /\ phase \in {"first", "retry"}
    BY DEF Returned, PopulateGuard
  <2>2. h \in groups \ todo \/ (h = g /\ ok)
    BY DEF Returned
  <2>3. Reusable(h)
    BY <2>1, <2>2, StillValidIsReusable DEF IInv, PassSafe
  <2> QED
    BY <2>3 DEF Reusable
<1> QED
  BY <1>1, <1>2, <1>3 DEF IInv

\* The heap state a copy leaves is well typed.
LEMMA CopyTypes ==
    ASSUME TypeInv, CountsMatch, NEW g, NEW T, NEW off, CopyStep(g, T, off)
    PROVE  /\ requests' \in [Types -> SUBSET [start : Int, size : Int, serial : Int]]
           /\ DOMAIN content' = Heaps
           /\ \A h \in Heaps : DOMAIN content'[h] = Types
                               /\ \A t \in Types : DOMAIN content'[h][t] = Slots
           /\ base' \in [BindGroups -> [Types -> [heap : Int, offset : Int]]]
<1>0. CopyHyp(g, T, off) /\ Copied(g, T, off)
  BY DEF CopyStep
<1>1. \A t \in Types : Cnt(g, t) \in Nat
  BY <1>0, CntNat DEF CopyHyp
<1>2. requests' \in [Types -> SUBSET [start : Int, size : Int, serial : Int]]
  BY <1>0, <1>1 DEF Copied, CopyHyp, TypeInv, Cnt
<1>3. /\ DOMAIN content' = Heaps
      /\ \A h \in Heaps : DOMAIN content'[h] = Types
                          /\ \A t \in Types : DOMAIN content'[h][t] = Slots
  BY <1>0, CopiedEffect
<1>4. base' \in [BindGroups -> [Types -> [heap : Int, offset : Int]]]
  BY <1>0 DEF Copied, CopyHyp, TypeInv, Heaps
<1> QED
  BY <1>2, <1>3, <1>4, Zenon

\* Populate copies the view descriptors and then fails on the samplers: the
\* group stays dirty and is not reusable.
LEMMA PopulatePartial ==
    ASSUME IInv, CountsMatch, NEW g \in BindGroups, PopulateGuard(g), ~Reusable(g),
           NEW T, NEW off, CopyStep(g, T, off),
           UNCHANGED <<groups, lastUsageSerial, groupHeapSerial>>, Returned(g, FALSE)
    PROVE  IInv'
<1>1. TypeInv'
  <2>1. phase' \in {"idle", "first", "switch", "retry"}
        /\ (phase' \in {"first", "switch"} => heapSerial' < MaxHeaps)
    BY DEF Returned, PopulateGuard, IInv, TypeInv, CopyStep
  <2>2. todo' \subseteq groups' /\ fault' \in BOOLEAN
    BY DEF Returned, IInv, TypeInv
  <2>3. /\ requests' \in [Types -> SUBSET [start : Int, size : Int, serial : Int]]
        /\ DOMAIN content' = Heaps
        /\ \A h \in Heaps : DOMAIN content'[h] = Types
                            /\ \A t \in Types : DOMAIN content'[h][t] = Slots
        /\ base' \in [BindGroups -> [Types -> [heap : Int, offset : Int]]]
    BY CopyTypes DEF IInv
  <2> QED
    BY <2>1, <2>2, <2>3 DEF IInv, TypeInv, CopyStep
<1>2. UsesSafe'
  BY CopyUses
<1>3. CacheSafe'
  <2> SUFFICES ASSUME NEW h \in BindGroups PROVE CacheSafeAt(h)'
    BY DEF CacheSafe
  <2>1. CASE h = g
    BY <2>1 DEF CacheSafeAt, Reusable, CopyStep
  <2>2. CASE h # g
    BY <2>2, CopyCacheOther
  <2> QED
    BY <2>1, <2>2
<1>4. PassSafe'
  <2> SUFFICES ASSUME phase' \in {"first", "retry"}, NEW h \in groups' \ todo'
               PROVE  Reusable(h)'
    BY DEF PassSafe
  <2>1. phase' = phase /\ todo' = todo
    BY DEF Returned, PopulateGuard
  <2>2. Reusable(h)
    BY <2>1 DEF IInv, PassSafe
  <2> QED
    BY <2>2 DEF Reusable, CopyStep
<1> QED
  BY <1>1, <1>2, <1>3, <1>4 DEF IInv

\* Populate copies every type the group needs: the group becomes reusable,
\* and its new copy is held by a request of the pending serial.
LEMMA PopulateFull ==
    ASSUME IInv, CountsMatch, NEW g \in BindGroups, PopulateGuard(g),
           NEW T, NEW off, CopyStep(g, T, off),
           \A t \in Types : Cnt(g, t) > 0 => t \in T,
           UNCHANGED groups,
           lastUsageSerial' = [lastUsageSerial EXCEPT ![g] = pendingSerial],
           groupHeapSerial' = [groupHeapSerial EXCEPT ![g] = heapSerial],
           Returned(g, TRUE)
    PROVE  IInv'
<1>0. TypeInv /\ CopyHyp(g, T, off) /\ Copied(g, T, off)
  BY DEF CopyStep, IInv
<1>1. TypeInv'
  <2>1. phase' \in {"idle", "first", "switch", "retry"}
        /\ (phase' \in {"first", "switch"} => heapSerial' < MaxHeaps)
    BY DEF Returned, PopulateGuard, IInv, TypeInv, CopyStep
  <2>2. todo' \subseteq groups' /\ fault' \in BOOLEAN
    BY DEF Returned, IInv, TypeInv
  <2>3. /\ requests' \in [Types -> SUBSET [start : Int, size : Int, serial : Int]]
        /\ DOMAIN content' = Heaps
        /\ \A h \in Heaps : DOMAIN content'[h] = Types
                            /\ \A t \in Types : DOMAIN content'[h][t] = Slots
        /\ base' \in [BindGroups -> [Types -> [heap : Int, offset : Int]]]
    BY CopyTypes DEF IInv
  <2>4. lastUsageSerial' \in [BindGroups -> 0 .. pendingSerial']
        /\ groupHeapSerial' \in [BindGroups -> 0 .. heapSerial']
    BY DEF IInv, TypeInv, CopyStep, Heaps
  <2> QED
    BY <2>1, <2>2, <2>3, <2>4 DEF IInv, TypeInv, CopyStep
<1>2. UsesSafe'
  BY CopyUses
<1>3. Reusable(g)'
  BY DEF Reusable, CopyStep, IInv, TypeInv
<1>4. CacheSafeAt(g)'
  <2> SUFFICES ASSUME NEW t \in Types, Cnt(g, t) > 0
               PROVE  /\ base'[g][t].heap = heapSerial'
                      /\ HoldsAt(heapSerial, t, base[g][t].offset, g)'
                      /\ Covered(t, base[g][t].offset, g, pendingSerial)'
    BY DEF CacheSafeAt
  <2>1. t \in T
    OBVIOUS
  <2>2. base'[g][t] = [heap |-> heapSerial, offset |-> off[t]]
    BY <1>0, <2>1 DEF Copied, TypeInv
  <2>3. off[t] \in Slots /\ Fits(t, off[t], Cnt(g, t)) /\ Cnt(g, t) \in Nat
    BY <1>0, <2>1, CntNat DEF CopyHyp
  <2>4. \A k \in 1 .. Cnt(g, t) :
           content'[heapSerial][t][off[t] + k - 1] = CpuDescriptors(g, t)[k]
    <3> SUFFICES ASSUME NEW k \in 1 .. Cnt(g, t)
                 PROVE  content'[heapSerial][t][off[t] + k - 1] = CpuDescriptors(g, t)[k]
      OBVIOUS
    <3>1. TypeInv /\ CountsMatch /\ CopyHyp(g, T, off) /\ Copied(g, T, off) /\ t \in T
      BY <1>0, <2>1
    <3> QED
      BY <3>1, CopiedWritten
  <2>7. heapSerial' = heapSerial /\ pendingSerial' = pendingSerial
        /\ base'[g][t].offset = off[t] /\ base'[g][t].heap = heapSerial
    BY <2>2 DEF CopyStep
  <2>5. HoldsAt(heapSerial, t, base[g][t].offset, g)'
    <3>1. \A k \in 1 .. Cnt(g, t) : off[t] + k - 1 \in Slots
      <4> SUFFICES ASSUME NEW k \in 1 .. Cnt(g, t) PROVE off[t] + k - 1 \in Slots
        OBVIOUS
      <4>1. off[t] \in Int
        BY <2>3 DEF Slots
      <4>2. off[t] + k - 1 \in off[t] .. off[t] + Cnt(g, t) - 1
        BY <2>3, <4>1
      <4> QED
        BY <2>3, <4>2 DEF Fits
    <3> QED
      BY <2>4, <2>7, <3>1 DEF HoldsAt
  <2>6. Covered(t, base[g][t].offset, g, pendingSerial)'
    <3>1. [start |-> off[t], size |-> Cnt(g, t), serial |-> pendingSerial] \in requests'[t]
      BY <1>0, <2>1 DEF Copied, Cnt
    <3> QED
      BY <2>7, <3>1 DEF Covered
  <2> QED
    BY <2>5, <2>6, <2>7
<1>5. CacheSafe'
  <2> SUFFICES ASSUME NEW h \in BindGroups PROVE CacheSafeAt(h)'
    BY DEF CacheSafe
  <2>1. CASE h = g
    BY <2>1, <1>4
  <2>2. CASE h # g
    <3>1. lastUsageSerial'[h] = lastUsageSerial[h] /\ groupHeapSerial'[h] = groupHeapSerial[h]
      BY <2>2 DEF IInv, TypeInv
    <3> QED
      BY <2>2, <3>1, CopyCacheOther
  <2> QED
    BY <2>1, <2>2
<1>6. PassSafe'
  <2> SUFFICES ASSUME phase' \in {"first", "retry"}, NEW h \in groups' \ todo'
               PROVE  Reusable(h)'
    BY DEF PassSafe
  <2>1. phase' = phase /\ todo' = todo \ {g}
    BY DEF Returned, PopulateGuard
  <2>2. CASE h = g
    BY <2>2, <1>3
  <2>3. CASE h # g
    <3>1. Reusable(h)
      BY <2>1, <2>3 DEF IInv, PassSafe
    <3> QED
      BY <2>3, <3>1 DEF Reusable, CopyStep, IInv, TypeInv
  <2> QED
    BY <2>2, <2>3
<1> QED
  BY <1>1, <1>2, <1>5, <1>6 DEF IInv

LEMMA PopulateIInv ==
    ASSUME IInv, CountsMatch, ReuseRule = "pending", NEW g \in BindGroups, Populate(g)
    PROVE  IInv'
<1>0. /\ PopulateGuard(g)
      /\ UNCHANGED <<pendingSerial, completedSerial, heapSerial, groups, uses>>
  BY PopulateCases
<1>1. /\ Off(g) \in [Types -> Int]
      /\ \A t \in Types : Off(g)[t] # NoOffset =>
            Off(g)[t] \in Slots /\ Fits(t, Off(g)[t], Cnt(g, t))
  BY OffFacts
<1>2. CASE StillValid(g)
  <2>1. Returned(g, TRUE)
        /\ UNCHANGED <<requests, content, base, lastUsageSerial, groupHeapSerial>>
    BY <1>2, PopulateCases
  <2> QED
    BY <1>0, <1>2, <2>1, PopulateNoCopy
<1>3. CASE ~StillValid(g) /\ ViewFailed(g)
  <2>1. Returned(g, FALSE)
        /\ UNCHANGED <<requests, content, base, lastUsageSerial, groupHeapSerial>>
    BY <1>3, PopulateCases
  <2> QED
    BY <1>0, <2>1, PopulateNoCopy
<1>4. CASE ~StillValid(g) /\ ~ViewFailed(g) /\ SamplerFailed(g)
  <2>1. /\ Copied(g, Need(g) \cap {"view"}, Off(g)) /\ Returned(g, FALSE)
        /\ UNCHANGED <<lastUsageSerial, groupHeapSerial>>
    BY <1>4, PopulateCases
  <2>2. CopyHyp(g, Need(g) \cap {"view"}, Off(g))
    BY <1>1, <1>4 DEF CopyHyp, ViewFailed, Need
  <2>3. ~Reusable(g)
    BY <1>4, StillValidIsReusable
  <2> QED
    BY <1>0, <2>1, <2>2, <2>3, PopulatePartial DEF CopyStep
<1>5. CASE ~StillValid(g) /\ ~ViewFailed(g) /\ ~SamplerFailed(g)
  <2>1. /\ Copied(g, Need(g), Off(g))
        /\ lastUsageSerial' = [lastUsageSerial EXCEPT ![g] = pendingSerial]
        /\ groupHeapSerial' = [groupHeapSerial EXCEPT ![g] = heapSerial]
        /\ Returned(g, TRUE)
    BY <1>5, PopulateCases
  <2>2. \A t \in Need(g) : Off(g)[t] # NoOffset
    BY <1>5 DEF ViewFailed, SamplerFailed, Need, Types
  <2>3. CopyHyp(g, Need(g), Off(g))
    BY <1>1, <2>2 DEF CopyHyp, Need
  <2>4. \A t \in Types : Cnt(g, t) > 0 => t \in Need(g)
    BY DEF Need, Cnt
  <2> QED
    BY <1>0, <2>1, <2>3, <2>4, PopulateFull DEF CopyStep
<1> QED
  BY <1>2, <1>3, <1>4, <1>5

LEMMA SetTablesIInv ==
    ASSUME IInv, SetTables
    PROVE  IInv'
<1> DEFINE New == {[group |-> gt[1], type |-> gt[2], heap |-> base[gt[1]][gt[2]].heap,
                    bound |-> heapSerial, offset |-> base[gt[1]][gt[2]].offset,
                    serial |-> pendingSerial] :
                     gt \in {gt \in groups \X Types : DescriptorCount(gt[1], gt[2]) > 0}}
<1>0. uses' = uses \cup New
  BY DEF SetTables
<1>1. \A g \in groups : Reusable(g)
  BY DEF SetTables, IInv, PassSafe
<1>2. ASSUME NEW u \in New
      PROVE  /\ u \in Use
             /\ u.heap = u.bound /\ u.bound \in 0 .. heapSerial
             /\ completedSerial < u.serial /\ u.serial <= pendingSerial
             /\ HoldsAt(u.bound, u.type, u.offset, u.group)
             /\ u.bound = heapSerial => Covered(u.type, u.offset, u.group, u.serial)
  <2>1. PICK gt \in groups \X Types : DescriptorCount(gt[1], gt[2]) > 0 /\
               u = [group |-> gt[1], type |-> gt[2], heap |-> base[gt[1]][gt[2]].heap,
                    bound |-> heapSerial, offset |-> base[gt[1]][gt[2]].offset,
                    serial |-> pendingSerial]
    OBVIOUS
  <2>2. gt[1] \in BindGroups /\ gt[1] \in groups /\ gt[2] \in Types
    BY DEF IInv, TypeInv
  <2>3. /\ base[gt[1]][gt[2]].heap = heapSerial
        /\ HoldsAt(heapSerial, gt[2], base[gt[1]][gt[2]].offset, gt[1])
        /\ Covered(gt[2], base[gt[1]][gt[2]].offset, gt[1], pendingSerial)
    BY <1>1, <2>1, <2>2 DEF IInv, CacheSafe, CacheSafeAt, Cnt
  <2>4. u \in Use
    BY <2>1, <2>2 DEF IInv, TypeInv, Use, Heaps
  <2>5. /\ u.group = gt[1] /\ u.type = gt[2] /\ u.heap = base[gt[1]][gt[2]].heap
        /\ u.bound = heapSerial /\ u.offset = base[gt[1]][gt[2]].offset
        /\ u.serial = pendingSerial
    BY <2>1
  <2>6. /\ heapSerial \in 0 .. heapSerial /\ completedSerial < pendingSerial
        /\ pendingSerial <= pendingSerial
    BY DEF IInv, TypeInv, Heaps
  <2>7. HoldsAt(u.bound, u.type, u.offset, u.group)
        /\ Covered(u.type, u.offset, u.group, u.serial)
    BY <2>3, <2>5
  <2> QED
    BY <2>3, <2>4, <2>5, <2>6, <2>7
<1>3. TypeInv'
  <2>1. uses' \subseteq Use
    BY <1>0, <1>2 DEF IInv, TypeInv
  <2> QED
    BY <2>1 DEF SetTables, IInv, TypeInv
<1>4. UsesSafe'
  <2> SUFFICES ASSUME NEW u \in uses'
               PROVE  /\ u.heap = u.bound /\ u.bound \in 0 .. heapSerial'
                      /\ completedSerial' < u.serial /\ u.serial <= pendingSerial'
                      /\ HoldsAt(u.bound, u.type, u.offset, u.group)'
                      /\ u.bound = heapSerial' => Covered(u.type, u.offset, u.group, u.serial)'
    BY DEF UsesSafe
  <2>1. CASE u \in uses
    BY <2>1 DEF SetTables, IInv, UsesSafe, HoldsAt, Covered
  <2>2. CASE u \in New
    BY <2>2, <1>2 DEF SetTables, HoldsAt, Covered
  <2> QED
    BY <1>0, <2>1, <2>2
<1>5. CacheSafe'
  BY DEF SetTables, IInv, CacheSafe, CacheSafeAt, Reusable, HoldsAt, Covered
<1>6. PassSafe'
  BY DEF SetTables, PassSafe
<1> QED
  BY <1>3, <1>4, <1>5, <1>6 DEF IInv

-----------------------------------------------------------------------------
LEMMA NextIInv ==
    ASSUME ReuseRule = "pending", CountsMatch, IInv, [Next]_vars
    PROVE  IInv'
<1>1. CASE \E S \in SUBSET BindGroups : Bind(S)
  BY <1>1, BindIInv
<1>2. CASE \E g \in BindGroups : Populate(g)
  BY <1>2, PopulateIInv
<1>3. CASE SwitchHeaps
  BY <1>3, SwitchHeapsIInv
<1>4. CASE SetTables
  BY <1>4, SetTablesIInv
<1>5. CASE Submit
  BY <1>5, SubmitIInv
<1>6. CASE \E c \in 1 .. MaxSerial : Tick(c)
  BY <1>6, TickIInv
<1>7. CASE UNCHANGED vars
  <2>1. TypeInv'
    BY <1>7 DEF vars, IInv, TypeInv
  <2>2. UsesSafe'
    BY <1>7 DEF vars, IInv, UsesSafe, HoldsAt, Covered
  <2>3. CacheSafe'
    BY <1>7 DEF vars, IInv, CacheSafe, CacheSafeAt, HoldsAt, Covered, Reusable
  <2>4. PassSafe'
    BY <1>7 DEF vars, IInv, PassSafe, Reusable
  <2> QED
    BY <2>1, <2>2, <2>3, <2>4 DEF IInv
<1> QED
  BY <1>1, <1>2, <1>3, <1>4, <1>5, <1>6, <1>7 DEF Next, Recording

\* The tables in use read their groups' descriptors.
LEMMA IInvIntact ==
    ASSUME CountsMatch, IInv
    PROVE  DescriptorsIntact
<1> SUFFICES ASSUME NEW u \in uses
             PROVE  u.heap = u.bound /\ Fetched(u) = CpuDescriptors(u.group, u.type)
  BY DEF DescriptorsIntact
<1>1. u.group \in BindGroups /\ u.type \in Types
  BY DEF IInv, TypeInv, Use
<1>2. u.heap = u.bound /\ HoldsAt(u.bound, u.type, u.offset, u.group)
  BY DEF IInv, UsesSafe
<1>3. DOMAIN CpuDescriptors(u.group, u.type) = 1 .. Cnt(u.group, u.type)
  BY <1>1 DEF CountsMatch, Cnt
<1>4. CpuDescriptors(u.group, u.type) =
        [k \in DOMAIN CpuDescriptors(u.group, u.type) |-> CpuDescriptors(u.group, u.type)[k]]
  BY DEF CpuDescriptors
<1>5. \A k \in 1 .. Cnt(u.group, u.type) :
          Fetched(u)[k] = CpuDescriptors(u.group, u.type)[k]
  BY <1>2 DEF Fetched, HoldsAt, Cnt
<1> QED
  BY <1>2, <1>3, <1>4, <1>5 DEF Fetched, Cnt

(***************************************************************************)
(* With the reuse test of spec 4.5, every descriptor table set on a        *)
(* command list the GPU has not finished reads the descriptors its bind    *)
(* group's constructor wrote (BindGroup::Populate's cache hit and the      *)
(* ring allocator never leave it pointing at a reused slot), for every     *)
(* layout, heap size and bound.  CountsMatch, that the constructor writes  *)
(* as many descriptors as the layout counts, is evaluated by every run.    *)
(***************************************************************************)
THEOREM CacheIntact ==
    ASSUME ReuseRule = "pending", CountsMatch
    PROVE  Spec => []DescriptorsIntact
<1>1. Init => IInv
  BY InitIInv
<1>2. IInv /\ [Next]_vars => IInv'
  BY NextIInv
<1>3. IInv => DescriptorsIntact
  BY IInvIntact
<1> QED
  BY <1>1, <1>2, <1>3, PTL DEF Spec

-----------------------------------------------------------------------------
(***************************************************************************)
(* Refinement of DescriptorTables.  While DescriptorsIntact holds, what    *)
(* the GPU fetches for a table in use is its group's data, so the mapped   *)
(* reads are a function of uses alone: Populate and SwitchHeaps, which     *)
(* rewrite the heaps, are stuttering steps of DescriptorTables; SetTables  *)
(* is a Draw of the groups of the pass, Submit is Submit, Tick is Complete. *)
(***************************************************************************)
AbsReads == {[group |-> u.group, type |-> u.type, serial |-> u.serial,
              data |-> Fetched(u)] : u \in uses}

ReadOf(u) == [group |-> u.group, type |-> u.type, serial |-> u.serial,
              data |-> CpuDescriptors(u.group, u.type)]

LEMMA ReadsAreData ==
    ASSUME DescriptorsIntact
    PROVE  AbsReads = {ReadOf(u) : u \in uses}
BY DEF DescriptorsIntact, AbsReads, ReadOf

LEMMA ReadsAreDataNext ==
    ASSUME DescriptorsIntact'
    PROVE  AbsReads' = {ReadOf(u) : u \in uses'}
BY DEF DescriptorsIntact, AbsReads, ReadOf

\* A group's table of a type is non-empty exactly when the layout counts a
\* descriptor of that type.
LEMMA DataNonEmpty ==
    ASSUME CountsMatch, NEW g \in BindGroups, NEW t \in Types
    PROVE  CpuDescriptors(g, t) # << >> <=> Cnt(g, t) > 0
<1>1. DOMAIN CpuDescriptors(g, t) = 1 .. Cnt(g, t) /\ Cnt(g, t) \in Nat
  BY CntNat DEF CountsMatch, Cnt
<1>2. CpuDescriptors(g, t) =
        [k \in DOMAIN CpuDescriptors(g, t) |-> CpuDescriptors(g, t)[k]]
  BY DEF CpuDescriptors
<1>3. CASE Cnt(g, t) = 0
  <2>1. DOMAIN CpuDescriptors(g, t) = {}
    BY <1>1, <1>3
  <2> QED
    BY <1>2, <1>3, <2>1
<1>4. CASE Cnt(g, t) > 0
  <2>1. 1 \in DOMAIN CpuDescriptors(g, t)
    BY <1>1, <1>4
  <2> QED
    BY <1>4, <2>1
<1> QED
  BY <1>1, <1>3, <1>4

\* A step that leaves the serials and the tables in use alone is a
\* stuttering step of DescriptorTables.
LEMMA StutterRefines ==
    ASSUME DescriptorsIntact, DescriptorsIntact',
           UNCHANGED <<pendingSerial, completedSerial, uses>>
    PROVE  UNCHANGED Tables!tablesVars
<1>1. AbsReads' = AbsReads
  BY ReadsAreData, ReadsAreDataNext
<1> QED
  BY <1>1 DEF Tables!tablesVars, AbsReads

\* SetTables of a non-empty pass is a Draw of its groups.
LEMMA SetTablesRefines ==
    ASSUME CountsMatch, IInv, DescriptorsIntact, DescriptorsIntact', SetTables,
           groups # {}
    PROVE  Tables!Draw(groups)
<1> DEFINE New == {[group |-> gt[1], type |-> gt[2], heap |-> base[gt[1]][gt[2]].heap,
                    bound |-> heapSerial, offset |-> base[gt[1]][gt[2]].offset,
                    serial |-> pendingSerial] :
                     gt \in {gt \in groups \X Types : DescriptorCount(gt[1], gt[2]) > 0}}
           D == {[group |-> gt[1], type |-> gt[2], serial |-> pendingSerial,
                  data |-> CpuDescriptors(gt[1], gt[2])] :
                     gt \in {gt \in groups \X Types : CpuDescriptors(gt[1], gt[2]) # << >>}}
<1>1. uses' = uses \cup New
  BY DEF SetTables
<1>2. groups \subseteq BindGroups
  BY DEF IInv, TypeInv
<1>3. {ReadOf(u) : u \in New} = D
  <2>1. ASSUME NEW gt \in groups \X Types
        PROVE  DescriptorCount(gt[1], gt[2]) > 0 <=> CpuDescriptors(gt[1], gt[2]) # << >>
    BY <1>2, DataNonEmpty DEF Cnt
  <2>2. \A u \in New : ReadOf(u) \in D
    <3> SUFFICES ASSUME NEW u \in New PROVE ReadOf(u) \in D
      OBVIOUS
    <3>1. PICK gt \in groups \X Types :
                 /\ DescriptorCount(gt[1], gt[2]) > 0
                 /\ u = [group |-> gt[1], type |-> gt[2], heap |-> base[gt[1]][gt[2]].heap,
                         bound |-> heapSerial, offset |-> base[gt[1]][gt[2]].offset,
                         serial |-> pendingSerial]
      OBVIOUS
    <3>2. ReadOf(u) = [group |-> gt[1], type |-> gt[2], serial |-> pendingSerial,
                       data |-> CpuDescriptors(gt[1], gt[2])]
      BY <3>1 DEF ReadOf
    <3>3. CpuDescriptors(gt[1], gt[2]) # << >>
      BY <3>1, <2>1
    <3> QED
      BY <3>2, <3>3
  <2>3. \A r \in D : \E u \in New : r = ReadOf(u)
    <3> SUFFICES ASSUME NEW r \in D PROVE \E u \in New : r = ReadOf(u)
      OBVIOUS
    <3>0. PICK gt \in groups \X Types :
                 /\ CpuDescriptors(gt[1], gt[2]) # << >>
                 /\ r = [group |-> gt[1], type |-> gt[2], serial |-> pendingSerial,
                         data |-> CpuDescriptors(gt[1], gt[2])]
      OBVIOUS
    <3>1. DescriptorCount(gt[1], gt[2]) > 0
      BY <3>0, <2>1
    <3>2. gt \in {gt2 \in groups \X Types : DescriptorCount(gt2[1], gt2[2]) > 0}
      BY <3>1
    <3>3. [group |-> gt[1], type |-> gt[2], heap |-> base[gt[1]][gt[2]].heap,
           bound |-> heapSerial, offset |-> base[gt[1]][gt[2]].offset,
           serial |-> pendingSerial] \in New
      BY <3>2, Zenon
    <3> WITNESS [group |-> gt[1], type |-> gt[2], heap |-> base[gt[1]][gt[2]].heap,
                 bound |-> heapSerial, offset |-> base[gt[1]][gt[2]].offset,
                 serial |-> pendingSerial] \in New
    <3> QED
      BY <3>0 DEF ReadOf
  <2> QED
    BY <2>2, <2>3
<1>4. AbsReads' = AbsReads \cup D
  <2>1. AbsReads' = {ReadOf(u) : u \in uses \cup New}
    BY <1>1, ReadsAreDataNext
  <2>2. {ReadOf(u) : u \in uses \cup New} = {ReadOf(u) : u \in uses} \cup {ReadOf(u) : u \in New}
    OBVIOUS
  <2> QED
    BY <2>1, <2>2, <1>3, ReadsAreData
<1> QED
  BY <1>4 DEF Tables!Draw, AbsReads, SetTables

\* Tick(c) is Complete(c): the tables of the finished serials go away.
LEMMA TickRefines ==
    ASSUME DescriptorsIntact, DescriptorsIntact', NEW c \in 1 .. MaxSerial, Tick(c)
    PROVE  Tables!Complete(c)
<1>1. AbsReads' = {ReadOf(u) : u \in {u \in uses : u.serial > c}}
  BY ReadsAreDataNext DEF Tick
<1>2. {ReadOf(u) : u \in {u \in uses : u.serial > c}}
        = {r \in {ReadOf(u) : u \in uses} : r.serial > c}
  BY DEF ReadOf
<1>3. AbsReads' = {r \in AbsReads : r.serial > c}
  BY <1>1, <1>2, ReadsAreData
<1> QED
  BY <1>3 DEF Tables!Complete, Tick, AbsReads

LEMMA StepRefines ==
    ASSUME ReuseRule = "pending", CountsMatch, IInv, DescriptorsIntact,
           DescriptorsIntact', [Next]_vars
    PROVE  [Tables!Next]_Tables!tablesVars
<1>1. CASE \E S \in SUBSET BindGroups : Bind(S)
  BY <1>1, StutterRefines DEF Bind
<1>2. CASE \E g \in BindGroups : Populate(g)
  BY <1>2, StutterRefines, PopulateCases
<1>3. CASE SwitchHeaps
  BY <1>3, StutterRefines DEF SwitchHeaps
<1>4. CASE SetTables
  <2>1. CASE groups = {}
    <3>1. uses' = uses
      BY <1>4, <2>1 DEF SetTables
    <3> QED
      BY <1>4, <3>1, StutterRefines DEF SetTables
  <2>2. CASE groups # {}
    <3>1. Tables!Draw(groups) /\ groups \in SUBSET BindGroups
      BY <1>4, <2>2, SetTablesRefines DEF IInv, TypeInv
    <3>2. \E S \in SUBSET BindGroups : Tables!Draw(S)
      BY <3>1, Zenon DEF Tables!Draw
    <3>3. Tables!Next
      BY <3>2 DEF Tables!Next
    <3> QED
      BY <3>3
  <2> QED
    BY <2>1, <2>2
<1>5. CASE Submit
  <2>1. Tables!Submit
    <3>1. AbsReads' = AbsReads
      BY <1>5, ReadsAreData, ReadsAreDataNext DEF Submit
    <3> QED
      BY <1>5, <3>1 DEF Tables!Submit, Submit, AbsReads
  <2> QED
    BY <2>1 DEF Tables!Next
<1>6. CASE \E c \in 1 .. MaxSerial : Tick(c)
  <2>1. PICK c \in 1 .. MaxSerial : Tick(c)
    BY <1>6
  <2>2. Tables!Complete(c)
    BY <2>1, TickRefines
  <2>3. c \in completedSerial + 1 .. pendingSerial - 1
    BY <2>1 DEF Tick, IInv, TypeInv
  <2>4. Tables!Next
    BY <2>2, <2>3, Zenon DEF Tables!Next
  <2> QED
    BY <2>4
<1>7. CASE UNCHANGED vars
  BY <1>7, StutterRefines DEF vars
<1> QED
  BY <1>1, <1>2, <1>3, <1>4, <1>5, <1>6, <1>7 DEF Next, Recording

(***************************************************************************)
(* With the reuse test of spec 4.5, the D3D12 descriptor path implements   *)
(* DescriptorTables: every step of BindGroup::Populate, the heap switch,   *)
(* the recorder, Submit and Tick is a step of the abstract promise or      *)
(* leaves it alone, for every layout, heap size and bound.                 *)
(***************************************************************************)
THEOREM TablesRefined ==
    ASSUME ReuseRule = "pending", CountsMatch
    PROVE  Spec => RefinesTables
<1>1. Spec => [](IInv /\ DescriptorsIntact)
  <2>1. Init => IInv /\ DescriptorsIntact
    BY InitIInv, IInvIntact
  <2>2. IInv /\ [Next]_vars => IInv'
    BY NextIInv
  <2>3. IInv => DescriptorsIntact
    BY IInvIntact
  <2> QED
    BY <2>1, <2>2, <2>3, PTL DEF Spec
<1>2. Init => Tables!Init
  BY DEF Init, Tables!Init
<1>3. IInv /\ DescriptorsIntact /\ DescriptorsIntact' /\ [Next]_vars
        => [Tables!Next]_Tables!tablesVars
  BY StepRefines
<1> QED
  BY <1>1, <1>2, <1>3, PTL DEF Spec, RefinesTables, Tables!Spec
====
