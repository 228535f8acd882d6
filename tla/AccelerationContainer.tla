------------------------- MODULE AccelerationContainer -------------------------
(***************************************************************************)
(* Ray-tracing acceleration containers of the D3D12 backend: descriptor   *)
(* validation (ValidateRayTracingAccelerationContainerDescriptor), the    *)
(* base constructor that keeps unique references to the buffers and the   *)
(* bottom-level containers a descriptor names, the D3D12 Initialize that   *)
(* encodes the build inputs and allocates the result/build/update scratch  *)
(* memory, Destroy, UpdateInstance, the use of a container in a submit,    *)
(* and the reference-counted release of containers and buffers.            *)
(*                                                                         *)
(* A slot of Containers is one application handle.  A buffer or a         *)
(* container is a model value; its GPU address is the object itself.      *)
(***************************************************************************)
EXTENDS Naturals, Sequences, FiniteSets, Functions

CONSTANTS
    Containers,         \* container handles the application may create
    Buffers,            \* buffers the application created beforehand
    NoRef,              \* nullptr
    ZeroSizeBuffers,    \* buffers whose GetSize() is 0
    RayTracingBuffers,  \* buffers created with wgpu::BufferUsage::RayTracing
    Geometries,         \* geometry descriptors the application may pass
    MaxGeometries,      \* bound on descriptor->geometryCount
    MaxInstances,       \* bound on descriptor->instanceCount
    ExtensionEnabled,   \* device->IsExtensionEnabled(Extension::RayTracing)
    AllocationCanFail   \* device memory allocation may return an error

Levels == {"Top", "Bottom"}
NoLevel == "NoLevel"    \* mLevel never assigned: error objects, extension off
Kinds == {"result", "build", "update"}
Faults == {"none", "nullDeref", "unreachable", "badCast"}
Ops == {"none", "Create", "Destroy", "UpdateInstance", "build", "update",
        "Release", "ReleaseBuffer"}

BufferRefs == [buffer : Buffers, count : {0, 1}]
GeometryDescriptors ==
    [type : {"Triangles", "Aabbs"},
     vertex : BufferRefs \cup {NoRef},
     index : BufferRefs \cup {NoRef},
     aabb : BufferRefs \cup {NoRef}]

SeqsUpTo(S, n) == UNION {[1 .. k -> S] : k \in 0 .. n}

Descriptors ==
    [level : Levels,
     geometries : SeqsUpTo(Geometries, MaxGeometries),
     instances : SeqsUpTo(Containers \cup {NoRef}, MaxInstances)]

Calls == [op : Ops, target : Containers \cup {NoRef}, index : Nat,
          geometry : Containers \cup {NoRef}, ok : BOOLEAN]

ASSUME ConstantsAssumption ==
    /\ NoRef \notin Buffers \cup Containers
    /\ ZeroSizeBuffers \subseteq Buffers
    /\ RayTracingBuffers \subseteq Buffers
    /\ Geometries \subseteq GeometryDescriptors
    /\ MaxGeometries \in Nat /\ MaxInstances \in Nat
    /\ ExtensionEnabled \in BOOLEAN
    /\ AllocationCanFail \in BOOLEAN

VARIABLES
    state,              \* "none" | "valid" | "error" | "freed" per handle
    appRef,             \* the application still holds the handle
    level,              \* mLevel
    destroyed,          \* mIsDestroyed
    built,              \* mIsBuilt
    updated,            \* mIsUpdated
    vertexBuffers,      \* mVertexBuffers: references held, per buffer
    indexBuffers,       \* mIndexBuffers
    aabbBuffers,        \* mAABBBuffers
    geometryContainers, \* mGeometryContainers: references held, per container
    encodedBuffers,     \* buffers whose address mGeometries holds
    instances,          \* mInstances: the container each instance points at
    memory,             \* scratch allocations not handed back to the device
    bufferRef,          \* the application still holds the buffer
    fault,              \* crash or undefined behaviour met so far
    lastCall,           \* last API call and whether it raised no error
    rayTracingToggle    \* Toggle::UseD3D12RayTracing of the device

vars == <<state, appRef, level, destroyed, built, updated, vertexBuffers,
          indexBuffers, aabbBuffers, geometryContainers, encodedBuffers,
          instances, memory, bufferRef, fault, lastCall, rayTracingToggle>>

-----------------------------------------------------------------------------
(***************************************************************************)
(* Validation.  The code runs its tests in order and returns a validation *)
(* error at the first one that fails; the error text is abstracted away,  *)
(* so a list of tests, in the code's order, rejects when one of them      *)
(* fails.  The order still matters: a test reads only what the tests      *)
(* before it made safe to read (an instance is tested for null before its *)
(* IsDestroyed() is read).                                                 *)
(***************************************************************************)
Rejected(checks) == \E i \in DOMAIN checks : checks[i]

\* size, count and usage tests of one vertex, index or aabb input
BufferChecks(ref) ==
    << ref.buffer \in ZeroSizeBuffers,
       ref.count = 0,
       ref.buffer \notin RayTracingBuffers >>

OptionalChecks(ref) == IF ref = NoRef THEN << >> ELSE BufferChecks(ref)

\* The test "Index data requires vertex data" re-tests geometry.index and
\* can never fail, so an index without vertex data is not rejected by it.
GeometryChecks(g) ==
    << g.type = "Triangles" /\ g.vertex = NoRef,
       g.type = "Aabbs" /\ g.aabb = NoRef >>
    \o OptionalChecks(g.vertex)
    \o OptionalChecks(g.index)
    \o (IF g.aabb = NoRef THEN << >>
        ELSE << g.vertex # NoRef, g.index # NoRef >> \o BufferChecks(g.aabb))
    \o << g.vertex = NoRef /\ g.index = NoRef /\ g.aabb = NoRef >>

DescriptorChecks(d) ==
    IF d.level = "Top"
    THEN << Len(d.geometries) > 0, Len(d.instances) = 0 >>
         \o [i \in DOMAIN d.instances |->
               d.instances[i] = NoRef \/ destroyed[d.instances[i]]]
    ELSE << Len(d.instances) > 0, Len(d.geometries) = 0 >>
         \o [i \in DOMAIN d.geometries |-> Rejected(GeometryChecks(d.geometries[i]))]

ValidDescriptor(d) == ~Rejected(DescriptorChecks(d))

-----------------------------------------------------------------------------
(***************************************************************************)
(* Construction.  The base constructor keeps one reference per distinct   *)
(* buffer (per vertex, index and aabb list) and per distinct instanced     *)
(* container: VectorReferenceAlreadyExists skips an object already held.   *)
(* A list of Ref<> is abstracted to the number of references it holds on   *)
(* each object.                                                            *)
(***************************************************************************)
Present(gs, F) == {i \in DOMAIN gs : gs[i][F] # NoRef}

\* mutant: the dedup loop stops one geometry short (ii < geometryCount - 1)
KeptBuffersSkipLast(gs, F) ==
    [b \in Buffers |-> IF \E i \in Present(gs, F) \ {Len(gs)} : gs[i][F].buffer = b
                       THEN 1 ELSE 0]

KeptBuffers(gs, F) ==
    [b \in Buffers |-> IF \E i \in Present(gs, F) : gs[i][F].buffer = b
                       THEN 1 ELSE 0]

KeptContainers(is) ==
    [x \in Containers |-> IF \E i \in DOMAIN is : is[i] = x THEN 1 ELSE 0]

NoBuffers == [b \in Buffers |-> 0]
NoContainers == [x \in Containers |-> 0]

\* buffers whose GPU address Initialize writes into mGeometries
EncodedBuffers(gs) ==
    UNION {{gs[i][F].buffer : i \in Present(gs, F)} : F \in {"vertex", "index", "aabb"}}

\* Initialize sets the AABB stride from geometry.vertex->stride; validation
\* has made sure that an AABB geometry has no vertex data.
AabbStrideFault(gs) ==
    \E i \in Present(gs, "aabb") : gs[i].vertex = NoRef

\* GetD3D12AccelerationInstance casts the instanced container to the D3D12
\* class and reads its scratch memory; an error container is not one.
InstanceCastFault(is) == \E i \in DOMAIN is : state[is[i]] = "error"

\* Scratch allocations in the order Initialize makes them.
AllocationOrder(upd) ==
    IF upd THEN <<"result", "build", "update">> ELSE <<"result", "build">>

\* allocations made before the one at position k failed
AllocatedBefore(upd, k) == {AllocationOrder(upd)[j] : j \in 1 .. k - 1}

Held(d) ==
    /\ \A i \in DOMAIN d.geometries :
          \A F \in {"vertex", "index", "aabb"} :
             d.geometries[i][F] # NoRef => bufferRef[d.geometries[i][F].buffer]
    /\ \A i \in DOMAIN d.instances :
          d.instances[i] # NoRef => appRef[d.instances[i]]

Call(op, c, ok) ==
    [op |-> op, target |-> c, index |-> 0, geometry |-> NoRef, ok |-> ok]

Fault(kind) ==
    /\ fault' = kind
    /\ UNCHANGED <<state, appRef, level, destroyed, built, updated,
                   vertexBuffers, indexBuffers, aabbBuffers,
                   geometryContainers, encodedBuffers, instances, memory,
                   bufferRef, lastCall, rayTracingToggle>>

\* The device hands out an error container: RayTracingAccelerationContainer
\* Base::MakeError.  Allocations made before the failure stay in memory.
MakeError(c, leaked) ==
    /\ state' = [state EXCEPT ![c] = "error"]
    /\ appRef' = [appRef EXCEPT ![c] = TRUE]
    /\ memory' = memory \cup {[owner |-> c, kind |-> k] : k \in leaked}
    /\ lastCall' = Call("Create", c, FALSE)
    /\ UNCHANGED <<level, destroyed, built, updated, vertexBuffers,
                   indexBuffers, aabbBuffers, geometryContainers,
                   encodedBuffers, instances, bufferRef, fault,
                   rayTracingToggle>>

\* A successful Create: base constructor, then D3D12 Initialize.
Construct(c, d, allocated) ==
    LET keep == ExtensionEnabled
        bottom == d.level = "Bottom"
    IN
    /\ state' = [state EXCEPT ![c] = "valid"]
    /\ appRef' = [appRef EXCEPT ![c] = TRUE]
    /\ level' = [level EXCEPT ![c] = IF keep THEN d.level ELSE NoLevel]
    /\ vertexBuffers' = [vertexBuffers EXCEPT ![c] =
          IF keep /\ bottom THEN KeptBuffers(d.geometries, "vertex") ELSE NoBuffers]
    /\ indexBuffers' = [indexBuffers EXCEPT ![c] =
          IF keep /\ bottom THEN KeptBuffers(d.geometries, "index") ELSE NoBuffers]
    /\ aabbBuffers' = [aabbBuffers EXCEPT ![c] =
          IF keep /\ bottom THEN KeptBuffers(d.geometries, "aabb") ELSE NoBuffers]
    /\ geometryContainers' = [geometryContainers EXCEPT ![c] =
          IF keep /\ ~bottom THEN KeptContainers(d.instances) ELSE NoContainers]
    /\ encodedBuffers' = [encodedBuffers EXCEPT ![c] =
          IF bottom THEN EncodedBuffers(d.geometries) ELSE {}]
    /\ instances' = [instances EXCEPT ![c] =
          IF bottom THEN << >> ELSE d.instances]
    /\ memory' = memory \cup {[owner |-> c, kind |-> k] : k \in allocated}
    \* the constructor consumes "extension is not enabled" but goes on
    /\ lastCall' = Call("Create", c, keep)
    /\ UNCHANGED <<destroyed, built, updated, bufferRef, fault,
                   rayTracingToggle>>

Create(c, d) ==
    /\ fault = "none"
    /\ state[c] = "none"
    /\ Held(d)
    /\ LET valid == ValidDescriptor(d)
           bottom == d.level = "Bottom"
       IN
       \/ /\ ~valid
          /\ MakeError(c, {})
       \/ /\ valid
          /\ ~rayTracingToggle
          /\ MakeError(c, {})
       \/ /\ valid /\ rayTracingToggle
          /\ bottom /\ AabbStrideFault(d.geometries)
          /\ Fault("nullDeref")
       \/ /\ valid /\ rayTracingToggle
          /\ ~bottom /\ InstanceCastFault(d.instances)
          /\ Fault("badCast")
       \/ /\ valid /\ rayTracingToggle
          /\ IF bottom THEN ~AabbStrideFault(d.geometries)
                       ELSE ~InstanceCastFault(d.instances)
          /\ \E upd \in BOOLEAN :
             LET order == AllocationOrder(upd)
             IN
             \/ Construct(c, d, Range(order))
             \* CreateBuffer of the instance buffer returns an error buffer
             \* whose resource is dereferenced
             \/ /\ AllocationCanFail /\ ~bottom
                /\ Fault("nullDeref")
             \* DAWN_TRY returns at the failing AllocateScratchMemory
             \/ /\ AllocationCanFail
                /\ \E k \in DOMAIN order : MakeError(c, AllocatedBefore(upd, k))

-----------------------------------------------------------------------------
(***************************************************************************)
(* Destroy: DestroyInternal calls DestroyImpl on the first call only; the  *)
(* D3D12 DestroyImpl is empty.  On an error container DestroyImpl is       *)
(* UNREACHABLE(): a debug build aborts, a release build goes on.           *)
(***************************************************************************)
Destroy(c) ==
    /\ fault = "none"
    /\ appRef[c]
    /\ \/ /\ state[c] = "valid" \/ destroyed[c]
          /\ destroyed' = [destroyed EXCEPT ![c] = TRUE]
          /\ lastCall' = Call("Destroy", c, TRUE)
          /\ UNCHANGED fault
       \/ /\ state[c] = "error" /\ ~destroyed[c]
          /\ \/ /\ fault' = "unreachable"
                /\ UNCHANGED <<destroyed, lastCall>>
             \/ /\ destroyed' = [destroyed EXCEPT ![c] = TRUE]
                /\ lastCall' = Call("Destroy", c, TRUE)
                /\ UNCHANGED fault
    /\ UNCHANGED <<state, appRef, level, built, updated, vertexBuffers,
                   indexBuffers, aabbBuffers, geometryContainers,
                   encodedBuffers, instances, memory, bufferRef,
                   rayTracingToggle>>

\* GetLevel() of an object whose mLevel was never assigned reads an
\* uninitialised value: any level may come back.
ReadLevel(x) == IF level[x] = NoLevel THEN Levels \cup {NoLevel} ELSE {level[x]}

(***************************************************************************)
(* UpdateInstance: ValidateUpdateInstance, then the D3D12                  *)
(* UpdateInstanceImpl, which returns without touching mInstances.          *)
(***************************************************************************)
\* mutant: ValidateUpdateInstance without DAWN_TRY(ValidateObject(this))
UpdateInstanceNoObjectCheck(c, i, g) ==
    /\ fault = "none"
    /\ appRef[c]
    /\ g # NoRef => appRef[g]
    /\ \E lc \in ReadLevel(c),
          lg \in IF g = NoRef THEN {NoLevel} ELSE ReadLevel(g) :
          lastCall' = [op |-> "UpdateInstance", target |-> c, index |-> i,
                       geometry |-> g,
                       ok |-> lc = "Top" /\ g # NoRef /\ lg = "Bottom" /\ ~destroyed[g]]
    /\ UNCHANGED <<state, appRef, level, destroyed, built, updated,
                   vertexBuffers, indexBuffers, aabbBuffers,
                   geometryContainers, encodedBuffers, instances, memory,
                   bufferRef, fault, rayTracingToggle>>

UpdateInstance(c, i, g) ==
    /\ fault = "none"
    /\ appRef[c]
    /\ g # NoRef => appRef[g]
    /\ \E lc \in ReadLevel(c),
          lg \in IF g = NoRef THEN {NoLevel} ELSE ReadLevel(g) :
          lastCall' = [op |-> "UpdateInstance", target |-> c, index |-> i,
                       geometry |-> g,
                       ok |-> /\ state[c] # "error"
                              /\ lc = "Top"
                              /\ g # NoRef
                              /\ lg = "Bottom"
                              /\ ~destroyed[g]]
    /\ UNCHANGED <<state, appRef, level, destroyed, built, updated,
                   vertexBuffers, indexBuffers, aabbBuffers,
                   geometryContainers, encodedBuffers, instances, memory,
                   bufferRef, fault, rayTracingToggle>>

(***************************************************************************)
(* A recorded build or update of the container reaches a queue submit,    *)
(* which calls ValidateCanUseInSubmitNow; an accepted one sets mIsBuilt or *)
(* mIsUpdated through SetBuildState / SetUpdateState.                      *)
(***************************************************************************)
Submit(c, op) ==
    /\ fault = "none"
    /\ appRef[c]
    /\ state[c] = "valid"
    /\ lastCall' = Call(op, c, ~destroyed[c])
    /\ built' = IF op = "build" /\ ~destroyed[c]
                THEN [built EXCEPT ![c] = TRUE] ELSE built
    /\ updated' = IF op = "update" /\ ~destroyed[c]
                  THEN [updated EXCEPT ![c] = TRUE] ELSE updated
    /\ UNCHANGED <<state, appRef, level, destroyed, vertexBuffers,
                   indexBuffers, aabbBuffers, geometryContainers,
                   encodedBuffers, instances, memory, bufferRef, fault,
                   rayTracingToggle>>

-----------------------------------------------------------------------------
(***************************************************************************)
(* Release of the application's reference.  An object lives while a chain *)
(* of references from a handle the application holds reaches it; the      *)
(* objects no chain reaches any more run their destructor, which calls     *)
(* DestroyInternal and drops the references they hold.                     *)
(***************************************************************************)
Refs(t) ==
    IF state[t] = "valid" THEN {x \in Containers : geometryContainers[t][x] > 0}
    ELSE {}

\* the smallest set of containers that holds R and the references of its members
Closed(S) == \A t \in S : Refs(t) \subseteq S

Closure(R) ==
    {x \in Containers : \A S \in SUBSET Containers : R \subseteq S /\ Closed(S) => x \in S}

Release(c) ==
    /\ fault = "none"
    /\ appRef[c]
    /\ appRef' = [appRef EXCEPT ![c] = FALSE]
    /\ LET live == Closure({x \in Containers : appRef'[x]})
           freed == {x \in Containers : state[x] \in {"valid", "error"}} \ live
       IN  /\ state' = [x \in Containers |->
                           IF x \in freed THEN "freed" ELSE state[x]]
           /\ destroyed' = [x \in Containers |->
                    IF x \in freed /\ state[x] = "valid" THEN TRUE ELSE destroyed[x]]
    /\ lastCall' = Call("Release", c, TRUE)
    /\ UNCHANGED <<level, built, updated, vertexBuffers, indexBuffers,
                   aabbBuffers, geometryContainers, encodedBuffers, instances,
                   memory, bufferRef, fault, rayTracingToggle>>

ReleaseBuffer(b) ==
    /\ fault = "none"
    /\ bufferRef[b]
    /\ bufferRef' = [bufferRef EXCEPT ![b] = FALSE]
    /\ lastCall' = Call("ReleaseBuffer", NoRef, TRUE)
    /\ UNCHANGED <<state, appRef, level, destroyed, built, updated,
                   vertexBuffers, indexBuffers, aabbBuffers,
                   geometryContainers, encodedBuffers, instances, memory,
                   fault, rayTracingToggle>>

-----------------------------------------------------------------------------
Init ==
    /\ state = [x \in Containers |-> "none"]
    /\ appRef = [x \in Containers |-> FALSE]
    /\ level = [x \in Containers |-> NoLevel]
    /\ destroyed = [x \in Containers |-> FALSE]
    /\ built = [x \in Containers |-> FALSE]
    /\ updated = [x \in Containers |-> FALSE]
    /\ vertexBuffers = [x \in Containers |-> NoBuffers]
    /\ indexBuffers = [x \in Containers |-> NoBuffers]
    /\ aabbBuffers = [x \in Containers |-> NoBuffers]
    /\ geometryContainers = [x \in Containers |-> NoContainers]
    /\ encodedBuffers = [x \in Containers |-> {}]
    /\ instances = [x \in Containers |-> << >>]
    /\ memory = {}
    /\ bufferRef = [b \in Buffers |-> TRUE]
    /\ fault = "none"
    /\ lastCall = Call("none", NoRef, TRUE)
    /\ rayTracingToggle \in BOOLEAN

Next ==
    \/ \E c \in Containers, d \in Descriptors : Create(c, d)
    \/ \E c \in Containers : Destroy(c)
    \/ \E c \in Containers, i \in 0 .. MaxInstances,
          g \in Containers \cup {NoRef} : UpdateInstance(c, i, g)
    \/ \E c \in Containers, op \in {"build", "update"} : Submit(c, op)
    \/ \E c \in Containers : Release(c)
    \/ \E b \in Buffers : ReleaseBuffer(b)

Spec == Init /\ [][Next]_vars

-----------------------------------------------------------------------------
TypeOK ==
    /\ state \in [Containers -> {"none", "valid", "error", "freed"}]
    /\ appRef \in [Containers -> BOOLEAN]
    /\ level \in [Containers -> Levels \cup {NoLevel}]
    /\ destroyed \in [Containers -> BOOLEAN]
    /\ built \in [Containers -> BOOLEAN]
    /\ updated \in [Containers -> BOOLEAN]
    /\ vertexBuffers \in [Containers -> [Buffers -> Nat]]
    /\ indexBuffers \in [Containers -> [Buffers -> Nat]]
    /\ aabbBuffers \in [Containers -> [Buffers -> Nat]]
    /\ geometryContainers \in [Containers -> [Containers -> Nat]]
    /\ encodedBuffers \in [Containers -> SUBSET Buffers]
    /\ instances \in [Containers -> Seq(Containers)]
    /\ memory \subseteq [owner : Containers, kind : Kinds]
    /\ bufferRef \in [Buffers -> BOOLEAN]
    /\ fault \in Faults
    /\ lastCall \in Calls
    /\ rayTracingToggle \in BOOLEAN

\* A buffer lives while the application or a live container holds it.
BufferAlive(b) ==
    \/ bufferRef[b]
    \/ \E c \in Containers :
          /\ state[c] = "valid"
          /\ vertexBuffers[c][b] + indexBuffers[c][b] + aabbBuffers[c][b] > 0

ContainerAlive(x) == state[x] \in {"valid", "error"}

(***************************************************************************)
(* Every GPU address a live container's build inputs hold is that of a    *)
(* live object: the buffers encoded in mGeometries and the bottom-level    *)
(* containers whose result memory mInstances points at are kept alive by  *)
(* the references the constructor took, through any order of releases of  *)
(* buffers, containers and the top-level containers holding them.          *)
(***************************************************************************)
EncodedObjectsAlive ==
    \A c \in Containers : state[c] = "valid" =>
        /\ \A b \in encodedBuffers[c] : BufferAlive(b)
        /\ \A i \in DOMAIN instances[c] : ContainerAlive(instances[c][i])

(***************************************************************************)
(* Spec 7: UpdateInstance is accepted only on a top-level container.  The *)
(* level of an error container was never assigned, so GetLevel() of one   *)
(* may return Top; the call is safe only because ValidateObject(this)      *)
(* rejects the error container before its level is read.                   *)
(***************************************************************************)
UpdateOnlyOnTopLevel ==
    lastCall.op = "UpdateInstance" /\ lastCall.ok =>
        /\ state[lastCall.target] = "valid"
        /\ level[lastCall.target] = "Top"

-----------------------------------------------------------------------------
(***************************************************************************)
(* What the spec says of the program and the code does not do; each is    *)
(* checked by a run that expects a violation.                              *)
(***************************************************************************)

\* No API call dereferences a null pointer: here the AABB stride that
\* Initialize reads from geometry.vertex of an AABB-only geometry, and the
\* resource of an instance buffer whose CreateBuffer failed.
NoNullDeref == fault # "nullDeref"

\* Spec 4.1 and 7: an error container fails, and never crashes, on every
\* later operation; Destroy() on one reaches UNREACHABLE() in DestroyImpl.
NoUnreachable == fault # "unreachable"

\* Initializing a top-level container never reinterprets an instanced
\* object as a D3D12 container that it is not (spec 3: instances reference
\* live bottom-level containers); validation never calls ValidateObject on
\* the instanced container, so an error container gets through.
NoBadCast == fault # "badCast"

\* Spec 3: every instance of a top-level container references a
\* bottom-level container; creation validation only tests null and
\* IsDestroyed(), never the level of the instanced container.
InstancesAreBottom ==
    \A c \in Containers : state[c] = "valid" =>
        \A i \in DOMAIN instances[c] : level[instances[c][i]] = "Bottom"

\* Spec 4.1: Destroy tears down the result, build and update allocations,
\* and a failed Initialize is a clean error; scratch memory is held only by
\* live, not destroyed containers.  The D3D12 DestroyImpl is empty.
NoLeakedScratch ==
    \A m \in memory : state[m.owner] = "valid" /\ ~destroyed[m.owner]

\* Spec 4.1: UpdateInstance on a destroyed container is an error;
\* ValidateUpdateInstance never tests IsDestroyed() of the container itself.
UpdateOnlyLiveContainer ==
    lastCall.op = "UpdateInstance" /\ lastCall.ok => ~destroyed[lastCall.target]

\* Spec 4.1: an accepted UpdateInstance(index, descriptor) re-encodes
\* instance index to point at the descriptor's geometry container; the
\* D3D12 UpdateInstanceImpl returns without doing anything.
UpdatePatchesInstance ==
    lastCall.op = "UpdateInstance" /\ lastCall.ok =>
        /\ lastCall.index + 1 \in DOMAIN instances[lastCall.target]
        /\ instances[lastCall.target][lastCall.index + 1] = lastCall.geometry

\* Spec 3: an instance's geometry container must be a bottom-level
\* container.  ValidateUpdateInstance reads the linked container's
\* GetLevel() without ValidateObject, and an error container's mLevel was
\* never assigned.
UpdateLinksBottom ==
    lastCall.op = "UpdateInstance" /\ lastCall.ok =>
        /\ state[lastCall.geometry] = "valid"
        /\ level[lastCall.geometry] = "Bottom"

\* Spec 8: a build or update of a top-level container whose bottom-level
\* container was destroyed fails validation; ValidateCanUseInSubmitNow only
\* tests the container itself.
SubmitUsesLiveInstances ==
    lastCall.op \in {"build", "update"} /\ lastCall.ok =>
        \A i \in DOMAIN instances[lastCall.target] :
            LET x == instances[lastCall.target][i]
            IN  ContainerAlive(x) /\ ~destroyed[x]

=============================================================================
