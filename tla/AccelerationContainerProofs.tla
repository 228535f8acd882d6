--------------------- MODULE AccelerationContainerProofs ---------------------
(***************************************************************************)
(* Proofs about AccelerationContainer for every value of the constants:   *)
(* type correctness, and that a container never holds two references on   *)
(* one buffer or one instanced container.                                  *)
(***************************************************************************)
EXTENDS AccelerationContainer, SequenceTheorems, TLAPS

(***************************************************************************)
(* A descriptor that passes validation names no null instance when it is   *)
(* top-level: the check of instance i is entry 2 + i of the check list,    *)
(* after the geometry-count and instance-count tests.                      *)
(***************************************************************************)
LEMMA ValidTopInstancesNotNull ==
    ASSUME NEW d \in Descriptors,
           d.level = "Top",
           ValidDescriptor(d),
           destroyed \in [Containers -> BOOLEAN]
    PROVE  d.instances \in Seq(Containers)
<1> DEFINE pre == << Len(d.geometries) > 0, Len(d.instances) = 0 >>
           post == [i \in DOMAIN d.instances |->
                      d.instances[i] = NoRef \/ destroyed[d.instances[i]]]
           checks == pre \o post
<1>1. PICK k \in 0 .. MaxInstances :
          d.instances \in [1 .. k -> Containers \cup {NoRef}]
  BY DEF Descriptors, SeqsUpTo
<1>0. PICK n \in 0 .. MaxGeometries : d.geometries \in [1 .. n -> Geometries]
  BY DEF Descriptors, SeqsUpTo
<1>2. /\ pre \in Seq(BOOLEAN) /\ Len(pre) = 2
      /\ post \in Seq(BOOLEAN) /\ Len(post) = k
  <2>1. pre \in Seq(BOOLEAN) /\ Len(pre) = 2
    BY <1>0, <1>1, ConstantsAssumption DEF pre
  <2>2. post \in Seq(BOOLEAN) /\ Len(post) = k
    <3> DEFINE e(i) == d.instances[i] = NoRef \/ destroyed[d.instances[i]]
    <3>1. \A i \in 1 .. k : e(i) \in BOOLEAN
      BY <1>1
    <3>2. [i \in 1 .. k |-> e(i)] \in Seq(BOOLEAN)
      BY <3>1, ConstantsAssumption, IsASeq
    <3>3. post = [i \in 1 .. k |-> e(i)]
      BY <1>1 DEF post
    <3>4. Len(post) = k
      BY <3>2, <3>3, <1>1, ConstantsAssumption, LenProperties
    <3> QED
      BY <3>2, <3>3, <3>4
  <2> QED
    BY <2>1, <2>2
<1>3. \A j \in DOMAIN checks : ~checks[j]
  BY DEF ValidDescriptor, Rejected, DescriptorChecks
<1>4. /\ DOMAIN checks = 1 .. 2 + k
      /\ \A i \in 1 .. k : checks[2 + i] = post[i]
  BY <1>2, ConcatProperties
<1>5. \A i \in 1 .. k : d.instances[i] # NoRef
  <2>1. \A i \in 1 .. k : ~post[i]
    <3> SUFFICES ASSUME NEW i \in 1 .. k PROVE ~post[i]
      OBVIOUS
    <3>1. 2 + i \in DOMAIN checks
      BY <1>4, ConstantsAssumption
    <3> QED
      BY <3>1, <1>3, <1>4
  <2> QED
    BY <2>1, <1>1, ConstantsAssumption DEF post
<1> QED
  BY <1>1, <1>5, ConstantsAssumption

(***************************************************************************)
(* The buffers a bottom-level descriptor encodes are buffers.             *)
(***************************************************************************)
LEMMA EncodedBuffersType ==
    ASSUME NEW d \in Descriptors
    PROVE  EncodedBuffers(d.geometries) \subseteq Buffers
<1>1. PICK k \in 0 .. MaxGeometries : d.geometries \in [1 .. k -> Geometries]
  BY DEF Descriptors, SeqsUpTo
<1> QED
  BY <1>1, ConstantsAssumption
  DEF EncodedBuffers, Present, GeometryDescriptors, BufferRefs

-----------------------------------------------------------------------------
(***************************************************************************)
(* Every step keeps each variable in its type, in particular mInstances    *)
(* holds non-null containers only, because validation rejects a null      *)
(* instance before the constructor copies the list.                        *)
(***************************************************************************)
THEOREM TypeCorrect == Spec => []TypeOK
<1>1. Init => TypeOK
  BY DEF Init, TypeOK, NoBuffers, NoContainers, Call, Calls, Ops, Levels,
         NoLevel, Faults
<1>2. TypeOK /\ [Next]_vars => TypeOK'
  <2> SUFFICES ASSUME TypeOK, [Next]_vars PROVE TypeOK'
    OBVIOUS
  <2>1. ASSUME NEW c \in Containers, NEW d \in Descriptors, Create(c, d)
        PROVE  TypeOK'
    <3>1. ASSUME NEW L \in SUBSET Kinds, MakeError(c, L) PROVE TypeOK'
      BY <3>1 DEF MakeError, TypeOK, Call, Calls, Ops
    <3>2. ASSUME NEW k \in Faults, Fault(k) PROVE TypeOK'
      BY <3>2 DEF Fault, TypeOK
    <3>3. ASSUME NEW A \in SUBSET Kinds, ValidDescriptor(d), Construct(c, d, A)
          PROVE  TypeOK'
      <4>1. d.level = "Top" => d.instances \in Seq(Containers)
        BY <3>3, ValidTopInstancesNotNull DEF TypeOK
      <4>2. EncodedBuffers(d.geometries) \subseteq Buffers
        BY EncodedBuffersType
      <4>3. /\ \A F \in {"vertex", "index", "aabb"} :
                KeptBuffers(d.geometries, F) \in [Buffers -> Nat]
            /\ KeptContainers(d.instances) \in [Containers -> Nat]
            /\ NoBuffers \in [Buffers -> Nat]
            /\ NoContainers \in [Containers -> Nat]
        BY DEF KeptBuffers, KeptContainers, NoBuffers, NoContainers
      <4>4. d.level \in Levels
        BY DEF Descriptors
      <4>5. instances' \in [Containers -> Seq(Containers)]
        BY <3>3, <4>1, <4>4 DEF Construct, TypeOK, Levels
      <4>6. memory' \subseteq [owner : Containers, kind : Kinds]
        BY <3>3 DEF Construct, TypeOK
      <4>7. lastCall' \in Calls
        BY <3>3, ConstantsAssumption DEF Construct, Call, Calls, Ops
      <4>8. level' \in [Containers -> Levels \cup {NoLevel}]
        BY <3>3, <4>4 DEF Construct, TypeOK
      <4> QED
        BY <3>3, <4>2, <4>3, <4>5, <4>6, <4>7, <4>8 DEF Construct, TypeOK
    <3>4. \A upd \in BOOLEAN :
            /\ Range(AllocationOrder(upd)) \subseteq Kinds
            /\ \A k \in DOMAIN AllocationOrder(upd) : AllocatedBefore(upd, k) \subseteq Kinds
      BY DEF Range, AllocationOrder, AllocatedBefore, Kinds
    <3> QED
      BY <2>1, <3>1, <3>2, <3>3, <3>4 DEF Create, Faults
  <2>2. ASSUME NEW c \in Containers, Destroy(c) PROVE TypeOK'
    <3>1. Call("Destroy", c, TRUE) \in Calls
      BY DEF Call, Calls, Ops
    <3>2. "unreachable" \in Faults
      BY DEF Faults
    <3> QED
      BY <2>2, <3>1, <3>2 DEF Destroy, TypeOK
  <2>3. ASSUME NEW c \in Containers, NEW i \in 0 .. MaxInstances,
               NEW g \in Containers \cup {NoRef}, UpdateInstance(c, i, g)
        PROVE  TypeOK'
    <3>1. lastCall' \in Calls
      BY <2>3, ConstantsAssumption DEF UpdateInstance, Calls, Ops
    <3> QED
      BY <2>3, <3>1 DEF UpdateInstance, TypeOK
  <2>4. ASSUME NEW c \in Containers, NEW op \in {"build", "update"},
               Submit(c, op)
        PROVE  TypeOK'
    BY <2>4, ConstantsAssumption DEF Submit, TypeOK, Call, Calls, Ops
  <2>5. ASSUME NEW c \in Containers, Release(c) PROVE TypeOK'
    BY <2>5, ConstantsAssumption DEF Release, TypeOK, Call, Calls, Ops
  <2>6. ASSUME NEW b \in Buffers, ReleaseBuffer(b) PROVE TypeOK'
    BY <2>6, ConstantsAssumption DEF ReleaseBuffer, TypeOK, Call, Calls, Ops
  <2>7. CASE UNCHANGED vars
    BY <2>7 DEF vars, TypeOK
  <2> QED
    BY <2>1, <2>2, <2>3, <2>4, <2>5, <2>6, <2>7 DEF Next
<1> QED
  BY <1>1, <1>2, PTL DEF Spec

-----------------------------------------------------------------------------
(***************************************************************************)
(* The invariant behind EncodedObjectsAlive.  A valid container holds a   *)
(* reference on every buffer it encoded and on every container it         *)
(* instances, every container it holds a reference on is alive, and every *)
(* handle the application holds is alive.  Release frees only what no     *)
(* chain of references from a handle reaches, so it frees none of these. *)
(***************************************************************************)
KeptBufferCount(c, b) ==
    vertexBuffers[c][b] + indexBuffers[c][b] + aabbBuffers[c][b]

EncodedKept ==
    \A c \in Containers : state[c] = "valid" =>
        \A b \in encodedBuffers[c] : KeptBufferCount(c, b) > 0

InstancesKept ==
    \A c \in Containers : state[c] = "valid" =>
        \A i \in DOMAIN instances[c] : geometryContainers[c][instances[c][i]] > 0

KeptAlive ==
    \A c \in Containers : state[c] = "valid" =>
        \A x \in Containers : geometryContainers[c][x] > 0 => ContainerAlive(x)

HandlesAlive == \A x \in Containers : appRef[x] => ContainerAlive(x)

AliveInv == HandlesAlive /\ EncodedKept /\ InstancesKept /\ KeptAlive

IInv == TypeOK /\ AliveInv

(***************************************************************************)
(* The containers Release keeps are the roots and everything a kept valid  *)
(* container references.                                                   *)
(***************************************************************************)
LEMMA ClosureHasRoots ==
    ASSUME NEW R \in SUBSET Containers
    PROVE  R \subseteq Closure(R)
  BY DEF Closure

LEMMA ClosureClosed ==
    ASSUME NEW R \in SUBSET Containers, NEW t \in Closure(R)
    PROVE  Refs(t) \subseteq Closure(R)
<1> SUFFICES ASSUME NEW x \in Refs(t) PROVE x \in Closure(R)
  OBVIOUS
<1>1. x \in Containers
  BY DEF Refs
<1>2. \A S \in SUBSET Containers : R \subseteq S /\ Closed(S) => x \in S
  BY DEF Closure, Closed
<1> QED
  BY <1>1, <1>2 DEF Closure

\* With the extension enabled, every step keeps AliveInv.
LEMMA AliveStep ==
    ASSUME ExtensionEnabled
    PROVE  TypeOK /\ AliveInv /\ [Next]_vars => AliveInv'
<1>2. TypeOK /\ AliveInv /\ [Next]_vars => AliveInv'
  <2> SUFFICES ASSUME TypeOK, AliveInv, [Next]_vars PROVE AliveInv'
    OBVIOUS
  <2>1. ASSUME NEW c \in Containers, NEW d \in Descriptors, Create(c, d)
        PROVE  AliveInv'
    <3>1. ASSUME NEW L, MakeError(c, L) PROVE AliveInv'
      BY <2>1, <3>1 DEF Create, MakeError, AliveInv, HandlesAlive, EncodedKept,
         InstancesKept, KeptAlive, ContainerAlive, KeptBufferCount, TypeOK
    <3>2. ASSUME NEW k, Fault(k) PROVE AliveInv'
      BY <3>2 DEF Fault, AliveInv, HandlesAlive, EncodedKept, InstancesKept,
         KeptAlive, ContainerAlive, KeptBufferCount
    <3>3. ASSUME NEW A, ValidDescriptor(d), Construct(c, d, A) PROVE AliveInv'
      <4>0. /\ state[c] = "none"
            /\ Held(d)
            /\ d.level \in Levels
            /\ d.level = "Top" => d.instances \in Seq(Containers)
        BY <2>1, <3>3, ValidTopInstancesNotNull DEF Create, Descriptors, TypeOK
      <4>1. HandlesAlive'
        BY <3>3, <4>0 DEF Construct, HandlesAlive, ContainerAlive, AliveInv, TypeOK
      <4>2. EncodedKept'
        <5> SUFFICES ASSUME NEW t \in Containers, state'[t] = "valid",
                            NEW b \in encodedBuffers'[t]
                     PROVE  KeptBufferCount(t, b)' > 0
          BY DEF EncodedKept
        <5>1. CASE t = c
          <6>1. d.level = "Bottom" /\ b \in EncodedBuffers(d.geometries)
            BY <3>3, <5>1, <4>0 DEF Construct, Levels, TypeOK
          <6>2. PICK F \in {"vertex", "index", "aabb"} :
                    \E i \in Present(d.geometries, F) : d.geometries[i][F].buffer = b
            BY <6>1 DEF EncodedBuffers
          <6>3. b \in Buffers
            BY <6>1, EncodedBuffersType
          <6>4. KeptBuffers(d.geometries, F)[b] = 1
            BY <6>2, <6>3 DEF KeptBuffers
          <6>5. \A G \in {"vertex", "index", "aabb"} :
                    KeptBuffers(d.geometries, G)[b] \in {0, 1}
            BY <6>3 DEF KeptBuffers
          <6> QED
            BY <3>3, <5>1, <6>1, <6>4, <6>5
            DEF Construct, KeptBufferCount, TypeOK
        <5>2. CASE t # c
          BY <3>3, <5>2 DEF Construct, AliveInv, EncodedKept, KeptBufferCount
        <5> QED
          BY <5>1, <5>2
      <4>3. InstancesKept'
        <5> SUFFICES ASSUME NEW t \in Containers, state'[t] = "valid",
                            NEW i \in DOMAIN instances'[t]
                     PROVE  geometryContainers'[t][instances'[t][i]] > 0
          BY DEF InstancesKept
        <5>1. CASE t = c
          <6>1. d.level = "Top" /\ instances'[c] = d.instances
                /\ geometryContainers'[c] = KeptContainers(d.instances)
            BY <3>3, <5>1, <4>0 DEF Construct, Levels, TypeOK
          <6>2. d.instances[i] \in Containers
            BY <6>1, <5>1, <4>0
          <6> QED
            BY <6>1, <6>2, <5>1 DEF KeptContainers
        <5>2. CASE t # c
          BY <3>3, <5>2 DEF Construct, AliveInv, InstancesKept
        <5> QED
          BY <5>1, <5>2
      <4>4. KeptAlive'
        <5> SUFFICES ASSUME NEW t \in Containers, state'[t] = "valid",
                            NEW x \in Containers, geometryContainers'[t][x] > 0
                     PROVE  ContainerAlive(x)'
          BY DEF KeptAlive
        <5>1. ContainerAlive(x) /\ x # c => ContainerAlive(x)'
          BY <3>3 DEF Construct, ContainerAlive, TypeOK
        <5>2. ContainerAlive(x) => x # c
          BY <4>0 DEF ContainerAlive
        <5>3. CASE t = c
          <6>4. geometryContainers'[c] =
                    IF ExtensionEnabled /\ d.level # "Bottom"
                    THEN KeptContainers(d.instances) ELSE NoContainers
            BY <3>3 DEF Construct, TypeOK
          <6>5. d.level # "Bottom"
            BY <6>4, <5>3 DEF NoContainers
          <6>1. d.level = "Top" /\ geometryContainers'[c] = KeptContainers(d.instances)
            BY <6>4, <6>5, <4>0 DEF Levels
          <6>2. \E i \in DOMAIN d.instances : d.instances[i] = x
            BY <6>1, <5>3 DEF KeptContainers
          <6>3. appRef[x]
            BY <6>2, <4>0, ConstantsAssumption DEF Held
          <6> QED
            BY <6>3, <5>1, <5>2 DEF AliveInv, HandlesAlive
        <5>4. CASE t # c
          BY <3>3, <5>4, <5>1, <5>2 DEF Construct, AliveInv, KeptAlive, TypeOK
        <5> QED
          BY <5>3, <5>4
      <4> QED
        BY <4>1, <4>2, <4>3, <4>4 DEF AliveInv
    <3> QED
      BY <2>1, <3>1, <3>2, <3>3 DEF Create
  <2>2. ASSUME NEW c \in Containers, Release(c) PROVE AliveInv'
    <3> DEFINE roots == {x \in Containers : appRef'[x]}
               live == Closure(roots)
               freed == {x \in Containers : state[x] \in {"valid", "error"}} \ live
    <3>1. /\ state' = [x \in Containers |-> IF x \in freed THEN "freed" ELSE state[x]]
          /\ appRef' = [appRef EXCEPT ![c] = FALSE]
          /\ UNCHANGED <<geometryContainers, encodedBuffers, instances,
                         vertexBuffers, indexBuffers, aabbBuffers>>
      BY <2>2 DEF Release
    \* what Release keeps alive stays as it was
    <3>2. \A x \in live : state'[x] = state[x]
      BY <3>1, ClosureHasRoots DEF Closure
    <3>3. \A x \in Containers : state'[x] = "valid" => state[x] = "valid" /\ x \in live
      BY <3>1
    <3>4. roots \subseteq live
      BY ClosureHasRoots
    <3>5. HandlesAlive'
      BY <3>1, <3>2, <3>4 DEF AliveInv, HandlesAlive, ContainerAlive, TypeOK
    <3>6. EncodedKept' /\ InstancesKept'
      BY <3>1, <3>3 DEF AliveInv, EncodedKept, InstancesKept, KeptBufferCount
    <3>7. KeptAlive'
      <4> SUFFICES ASSUME NEW t \in Containers, state'[t] = "valid",
                          NEW x \in Containers, geometryContainers'[t][x] > 0
                   PROVE  ContainerAlive(x)'
        BY DEF KeptAlive
      <4>1. state[t] = "valid" /\ t \in live
        BY <3>3
      <4>2. x \in Refs(t)
        BY <4>1, <3>1 DEF Refs
      <4>3. x \in live
        BY <4>1, <4>2, ClosureClosed
      <4> QED
        BY <4>3, <3>2, <3>1, <4>1 DEF AliveInv, KeptAlive, ContainerAlive
    <3> QED
      BY <3>5, <3>6, <3>7 DEF AliveInv
  <2>3. CASE \/ \E c \in Containers : Destroy(c)
             \/ \E c \in Containers, i \in 0 .. MaxInstances,
                   g \in Containers \cup {NoRef} : UpdateInstance(c, i, g)
             \/ \E c \in Containers, op \in {"build", "update"} : Submit(c, op)
             \/ \E b \in Buffers : ReleaseBuffer(b)
             \/ UNCHANGED vars
    BY <2>3 DEF Destroy, UpdateInstance, Submit, ReleaseBuffer, vars,
       AliveInv, HandlesAlive, EncodedKept, InstancesKept, KeptAlive,
       ContainerAlive, KeptBufferCount
  <2> QED
    BY <2>1, <2>2, <2>3 DEF Next
<1> QED
  BY <1>2

(***************************************************************************)
(* With the extension enabled, every buffer address a live container      *)
(* encoded and every instanced container whose result memory it points at *)
(* stays alive, whatever the application releases and in which order:    *)
(* the references taken by the base constructor and the reachability rule *)
(* of Release together keep them.                                          *)
(***************************************************************************)
THEOREM EncodedAlive == ExtensionEnabled => (Spec => []EncodedObjectsAlive)
<1> SUFFICES ASSUME ExtensionEnabled PROVE Spec => []EncodedObjectsAlive
  OBVIOUS
<1>1. Init => AliveInv
  BY DEF Init, AliveInv, HandlesAlive, EncodedKept, InstancesKept, KeptAlive
<1>2. TypeOK /\ AliveInv /\ [Next]_vars => AliveInv'
  BY AliveStep
<1>3. TypeOK /\ AliveInv => EncodedObjectsAlive
  BY DEF AliveInv, EncodedKept, InstancesKept, KeptAlive, EncodedObjectsAlive,
     BufferAlive, KeptBufferCount, TypeOK
<1> QED
  BY <1>1, <1>2, <1>3, TypeCorrect, PTL DEF Spec

-----------------------------------------------------------------------------
(***************************************************************************)
(* UpdateInstance accepts only a valid top-level container.  The check    *)
(* reads GetLevel() of the container, which is assigned for every valid   *)
(* container when the extension is enabled, and ValidateObject(this) has  *)
(* rejected an error container; a handle the application still holds is   *)
(* alive (AliveInv), so a container that is not an error one is valid.    *)
(***************************************************************************)
LevelAssigned == \A c \in Containers : state[c] = "valid" => level[c] \in Levels

\* Create records a Create call, or faults and records nothing.
LEMMA CreateCall ==
    ASSUME NEW c \in Containers, NEW d \in Descriptors, Create(c, d)
    PROVE  \/ lastCall'.op = "Create"
           \/ UNCHANGED <<lastCall, state, level>>
<1>1. ASSUME NEW S, NEW ok, MakeError(c, S) PROVE lastCall'.op = "Create"
  BY <1>1 DEF MakeError, Call
<1>2. ASSUME NEW S, Construct(c, d, S) PROVE lastCall'.op = "Create"
  BY <1>2 DEF Construct, Call
<1>3. ASSUME NEW k, Fault(k) PROVE UNCHANGED <<lastCall, state, level>>
  BY <1>3 DEF Fault
<1> QED
  BY <1>1, <1>2, <1>3 DEF Create

\* The steps other than UpdateInstance record another call or keep the
\* state, the levels and the last call.
LEMMA OtherCallsKeepUpdate ==
    ASSUME TypeOK, UpdateOnlyOnTopLevel, [Next]_vars,
           ~\E c \in Containers, i \in 0 .. MaxInstances,
              g \in Containers \cup {NoRef} : UpdateInstance(c, i, g)
    PROVE  UpdateOnlyOnTopLevel'
<1>1. CASE \E c \in Containers, d \in Descriptors : Create(c, d)
  BY <1>1, CreateCall DEF UpdateOnlyOnTopLevel
<1>2. CASE \E c \in Containers : Destroy(c)
  BY <1>2 DEF Destroy, Call, UpdateOnlyOnTopLevel
<1>3. CASE \E c \in Containers, op \in {"build", "update"} : Submit(c, op)
  BY <1>3 DEF Submit, Call, UpdateOnlyOnTopLevel
<1>4. CASE \E c \in Containers : Release(c)
  BY <1>4 DEF Release, Call, UpdateOnlyOnTopLevel
<1>5. CASE \E b \in Buffers : ReleaseBuffer(b)
  BY <1>5 DEF ReleaseBuffer, Call, UpdateOnlyOnTopLevel
<1>6. CASE UNCHANGED vars
  BY <1>6 DEF vars, UpdateOnlyOnTopLevel
<1> QED
  BY <1>1, <1>2, <1>3, <1>4, <1>5, <1>6 DEF Next

\* With the extension enabled, every UpdateInstance call that returns
\* without an error was made on a valid top-level container.
THEOREM UpdateTopOnly == ExtensionEnabled => (Spec => []UpdateOnlyOnTopLevel)
<1> SUFFICES ASSUME ExtensionEnabled PROVE Spec => []UpdateOnlyOnTopLevel
  OBVIOUS
<1> DEFINE Inv == AliveInv /\ LevelAssigned /\ UpdateOnlyOnTopLevel
<1>1. Init => Inv
  BY DEF Init, AliveInv, HandlesAlive, EncodedKept, InstancesKept, KeptAlive,
     LevelAssigned, UpdateOnlyOnTopLevel, Call
<1>2. TypeOK /\ Inv /\ [Next]_vars => Inv'
  <2> SUFFICES ASSUME TypeOK, AliveInv, LevelAssigned, UpdateOnlyOnTopLevel, [Next]_vars
               PROVE  Inv'
    OBVIOUS
  <2>1. AliveInv'
    BY AliveStep
  <2>2. LevelAssigned'
    <3>1. CASE \E c \in Containers, d \in Descriptors : Create(c, d)
      <4>1. PICK c \in Containers, d \in Descriptors : Create(c, d)
        BY <3>1
      <4>2. d.level \in Levels
        BY DEF Descriptors
      <4> QED
        BY <4>1, <4>2 DEF Create, MakeError, Construct, Fault, LevelAssigned, TypeOK
    <3>2. CASE \E c \in Containers : Release(c)
      BY <3>2 DEF Release, LevelAssigned
    <3>3. CASE \E c \in Containers : Destroy(c)
      BY <3>3 DEF Destroy, LevelAssigned
    <3>4. CASE \E c \in Containers, i \in 0 .. MaxInstances,
                  g \in Containers \cup {NoRef} : UpdateInstance(c, i, g)
      BY <3>4 DEF UpdateInstance, LevelAssigned
    <3>5. CASE \E c \in Containers, op \in {"build", "update"} : Submit(c, op)
      BY <3>5 DEF Submit, LevelAssigned
    <3>6. CASE \E b \in Buffers : ReleaseBuffer(b)
      BY <3>6 DEF ReleaseBuffer, LevelAssigned
    <3>7. CASE UNCHANGED vars
      BY <3>7 DEF vars, LevelAssigned
    <3> QED
      BY <3>1, <3>2, <3>3, <3>4, <3>5, <3>6, <3>7 DEF Next
  <2>3. UpdateOnlyOnTopLevel'
    <3>1. CASE \E c \in Containers, i \in 0 .. MaxInstances,
                  g \in Containers \cup {NoRef} : UpdateInstance(c, i, g)
      <4>1. PICK c \in Containers, i \in 0 .. MaxInstances,
                 g \in Containers \cup {NoRef} : UpdateInstance(c, i, g)
        BY <3>1
      <4>2. PICK lc \in ReadLevel(c),
                 lg \in IF g = NoRef THEN {NoLevel} ELSE ReadLevel(g) :
              lastCall' = [op |-> "UpdateInstance", target |-> c, index |-> i,
                           geometry |-> g,
                           ok |-> /\ state[c] # "error"
                                  /\ lc = "Top"
                                  /\ g # NoRef
                                  /\ lg = "Bottom"
                                  /\ ~destroyed[g]]
        BY <4>1 DEF UpdateInstance
      <4> SUFFICES ASSUME lastCall'.ok PROVE state[c] = "valid" /\ level[c] = "Top"
        BY <4>1, <4>2 DEF UpdateInstance, UpdateOnlyOnTopLevel
      <4>3. state[c] = "valid"
        BY <4>1, <4>2 DEF UpdateInstance, AliveInv, HandlesAlive, ContainerAlive
      <4>4. level[c] \in Levels
        BY <4>3 DEF LevelAssigned
      <4> QED
        BY <4>2, <4>3, <4>4 DEF ReadLevel, Levels, NoLevel
    <3>2. CASE ~\E c \in Containers, i \in 0 .. MaxInstances,
                  g \in Containers \cup {NoRef} : UpdateInstance(c, i, g)
      BY <3>2, OtherCallsKeepUpdate
    <3> QED
      BY <3>1, <3>2
  <2> QED
    BY <2>1, <2>2, <2>3
<1> QED
  BY <1>1, <1>2, TypeCorrect, PTL DEF Spec
=============================================================================
