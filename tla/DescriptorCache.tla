--------------------------- MODULE DescriptorCache ---------------------------
(***************************************************************************)
(* The D3D12 path that exposes bind groups to shaders: the BindGroup      *)
(* constructor writes a bind group's descriptors into CPU heaps, and       *)
(* BindGroup::Populate copies them into the shader-visible heaps at record *)
(* time, unless the copy it made earlier is still valid by the serial pair *)
(* (mLastUsageSerial, mHeapSerial).                                        *)
(*                                                                         *)
(* The collaborators outside src/ are modelled from the spec (4.5, 5):     *)
(* the shader-visible allocator (slots of the current heap held per        *)
(* submission serial, heap switches), the command recorder that Populates  *)
(* the bound groups, switches heaps and retries once when one fails, and   *)
(* the device's pending and completed serials.                            *)
(***************************************************************************)
EXTENDS Integers, Sequences, FiniteSets

CONSTANTS
    BindGroups,    \* bind groups the application created
    Layout,        \* Layout[g]: its layout's bindings, dynamic buffers first
    HeapSize,      \* descriptors per shader-visible heap, of either type
    MaxHeaps,      \* bound on heap switches
    MaxSerial,     \* bound on submitted serials
    ReuseRule      \* the reuse test of IsAllocationStillValid, see StillValid

Types == {"view", "sampler"}
ViewBindings == {"UniformBuffer", "StorageBuffer", "ReadonlyStorageBuffer",
                 "SampledTexture", "AccelerationContainer"}
SamplerBindings == {"Sampler", "ComparisonSampler"}
Bindings == [type : ViewBindings \cup SamplerBindings, dynamic : BOOLEAN]
Slots == 0 .. HeapSize - 1
Heaps == 0 .. MaxHeaps
NoHeap == -1
Empty == <<>>

ASSUME LayoutAssumption ==
    /\ Layout \in [BindGroups -> Seq(Bindings)]
    /\ HeapSize \in Nat \ {0} /\ MaxHeaps \in Nat /\ MaxSerial \in Nat \ {0}
    /\ ReuseRule \in {"pending", "notCompleted"}

Kind(b) == IF b.type \in SamplerBindings THEN "sampler" ELSE "view"

\* BindGroupLayout: descriptors of a type in the shader-visible tables;
\* dynamic buffers are root descriptors and take none.
DescriptorCount(g, t) ==
    Cardinality({i \in DOMAIN Layout[g] : ~Layout[g][i].dynamic /\ Kind(Layout[g][i]) = t})

\* The constructor skips the first GetDynamicBufferCount() bindings and
\* writes one descriptor per remaining binding, at its offset in the view
\* or sampler allocation: the descriptor of binding i of g is <<g, i>>.
CpuDescriptors(g, t) ==
    LET dynamicCount == Cardinality({i \in DOMAIN Layout[g] : Layout[g][i].dynamic})
        written == SelectSeq([i \in 1 .. Len(Layout[g]) |-> i],
                             LAMBDA i : i > dynamicCount /\ Kind(Layout[g][i]) = t)
    IN  [k \in DOMAIN written |-> <<g, written[k]>>]

\* The constructor writes as many descriptors of a type as the layout
\* counts and Populate copies: the dynamic buffers are packed first.
CountsMatch ==
    \A g \in BindGroups, t \in Types : DOMAIN CpuDescriptors(g, t) = 1 .. DescriptorCount(g, t)

VARIABLES
    pendingSerial,    \* device->GetPendingCommandSerial()
    completedSerial,  \* device->GetCompletedCommandSerial()
    heapSerial,       \* allocator->GetShaderVisibleHeapsSerial(): the current heap
    requests,         \* requests[t]: slots of the current heap held, per serial
    content,          \* content[h][t][s]: descriptor in slot s of heap h
    lastUsageSerial,  \* BindGroup::mLastUsageSerial
    groupHeapSerial,  \* BindGroup::mHeapSerial
    base,             \* mBaseViewDescriptor / mBaseSamplerDescriptor
    phase,            \* where the recorder's Apply is
    groups,           \* the bind groups the current Apply binds
    todo,             \* those not populated yet in this pass
    uses,             \* descriptor tables set on recorded command lists
    fault             \* ASSERT(didCreateBindGroups) failed

vars == <<pendingSerial, completedSerial, heapSerial, requests, content,
          lastUsageSerial, groupHeapSerial, base, phase, groups, todo, uses,
          fault>>

-----------------------------------------------------------------------------
(***************************************************************************)
(* The shader-visible allocator (spec 4.5).  AllocateGPUDescriptors hands  *)
(* out a run of slots no held request covers (one fixed choice; TLC takes  *)
(* the lowest, so the first fit), or an invalid allocation when none is    *)
(* left; Tick frees the requests of completed serials.                     *)
(***************************************************************************)
Free(t, s) == \A r \in requests[t] : s \notin r.start .. r.start + r.size - 1
Fits(t, o, n) == \A s \in o .. o + n - 1 : s \in Slots /\ Free(t, s)
NoOffset == -1
AllocateGPUDescriptors(t, n) ==
    IF \E o \in Slots : Fits(t, o, n)
    THEN CHOOSE o \in Slots : Fits(t, o, n)
    ELSE NoOffset

\* IsAllocationStillValid.  Spec 4.5: the recorded usage serial is the
\* pending serial and the heap has not switched.  Spec 5: no submission
\* completed since and the heap has not switched.
StillValid(g) ==
    /\ groupHeapSerial[g] = heapSerial
    /\ IF ReuseRule = "pending" THEN lastUsageSerial[g] = pendingSerial
                                ELSE lastUsageSerial[g] > completedSerial

-----------------------------------------------------------------------------
(***************************************************************************)
(* BindGroup::Populate, and the recorder's reaction to what it returns.    *)
(***************************************************************************)
\* mutant: CopyDescriptorsSimple of the view descriptors is dropped
CopiedNoViewCopy(g, T, off) ==
    /\ requests' = [t \in Types |->
          IF t \in T THEN requests[t] \cup {[start |-> off[t], size |-> DescriptorCount(g, t),
                                             serial |-> pendingSerial]}
          ELSE requests[t]]
    /\ content' = [content EXCEPT ![heapSerial] = [t \in Types |-> [s \in Slots |->
          IF t \in T \ {"view"} /\ s - off[t] + 1 \in DOMAIN CpuDescriptors(g, t)
          THEN CpuDescriptors(g, t)[s - off[t] + 1] ELSE @[t][s]]]]
    /\ base' = [base EXCEPT ![g] = [t \in Types |->
          IF t \in T THEN [heap |-> heapSerial, offset |-> off[t]] ELSE @[t]]]

\* Allocate and copy the descriptors of g of the types in T at the offsets
\* off[t] of the current heap: AllocateGPUDescriptors, CopyDescriptorsSimple
\* and the assignment of mBaseViewDescriptor / mBaseSamplerDescriptor.
Copied(g, T, off) ==
    /\ requests' = [t \in Types |->
          IF t \in T THEN requests[t] \cup {[start |-> off[t], size |-> DescriptorCount(g, t),
                                             serial |-> pendingSerial]}
          ELSE requests[t]]
    /\ content' = [content EXCEPT ![heapSerial] = [t \in Types |-> [s \in Slots |->
          IF t \in T /\ s - off[t] + 1 \in DOMAIN CpuDescriptors(g, t)
          THEN CpuDescriptors(g, t)[s - off[t] + 1] ELSE @[t][s]]]]
    /\ base' = [base EXCEPT ![g] = [t \in Types |->
          IF t \in T THEN [heap |-> heapSerial, offset |-> off[t]] ELSE @[t]]]

\* BindGroupStateTracker::Apply: on false the first pass breaks off to
\* switch the heaps; after the switch ASSERT(didCreateBindGroups).
Returned(g, ok) ==
    /\ todo' = IF ok THEN todo \ {g} ELSE todo
    /\ phase' = IF ~ok /\ phase = "first" THEN "switch" ELSE phase
    /\ fault' = (~ok /\ phase = "retry")

PopulateGuard(g) == phase \in {"first", "retry"} /\ g \in todo /\ ~fault

\* mutant: the sampler allocation's IsInvalid() early return is dropped
PopulateIgnoresSamplerFailure(g) ==
    /\ PopulateGuard(g)
    /\ LET need == {t \in Types : DescriptorCount(g, t) > 0}
           off == [t \in Types |-> AllocateGPUDescriptors(t, DescriptorCount(g, t))]
           viewFailed == "view" \in need /\ off["view"] = NoOffset
       IN  \/ /\ StillValid(g)
              /\ Returned(g, TRUE)
              /\ UNCHANGED <<requests, content, base, lastUsageSerial, groupHeapSerial>>
           \/ /\ ~StillValid(g) /\ viewFailed
              /\ Returned(g, FALSE)
              /\ UNCHANGED <<requests, content, base, lastUsageSerial, groupHeapSerial>>
           \/ /\ ~StillValid(g) /\ ~viewFailed
              /\ Copied(g, {t \in need : off[t] # NoOffset}, off)
              /\ lastUsageSerial' = [lastUsageSerial EXCEPT ![g] = pendingSerial]
              /\ groupHeapSerial' = [groupHeapSerial EXCEPT ![g] = heapSerial]
              /\ Returned(g, TRUE)
    /\ UNCHANGED <<pendingSerial, completedSerial, heapSerial, groups, uses>>

Populate(g) ==
    /\ PopulateGuard(g)
    /\ LET need == {t \in Types : DescriptorCount(g, t) > 0}
           off == [t \in Types |-> AllocateGPUDescriptors(t, DescriptorCount(g, t))]
           viewFailed == "view" \in need /\ off["view"] = NoOffset
           samplerFailed == "sampler" \in need /\ off["sampler"] = NoOffset
       IN  \/ /\ StillValid(g)
              /\ Returned(g, TRUE)
              /\ UNCHANGED <<requests, content, base, lastUsageSerial, groupHeapSerial>>
           \/ /\ ~StillValid(g) /\ viewFailed
              /\ Returned(g, FALSE)
              /\ UNCHANGED <<requests, content, base, lastUsageSerial, groupHeapSerial>>
           \/ /\ ~StillValid(g) /\ ~viewFailed /\ samplerFailed
              /\ Copied(g, need \cap {"view"}, off)
              /\ Returned(g, FALSE)
              /\ UNCHANGED <<lastUsageSerial, groupHeapSerial>>
           \/ /\ ~StillValid(g) /\ ~viewFailed /\ ~samplerFailed
              /\ Copied(g, need, off)
              /\ lastUsageSerial' = [lastUsageSerial EXCEPT ![g] = pendingSerial]
              /\ groupHeapSerial' = [groupHeapSerial EXCEPT ![g] = heapSerial]
              /\ Returned(g, TRUE)
    /\ UNCHANGED <<pendingSerial, completedSerial, heapSerial, groups, uses>>

-----------------------------------------------------------------------------
(***************************************************************************)
(* The recorder and the device (spec 4.5, 5).                              *)
(***************************************************************************)
\* the descriptors of a type that the groups S put in the heap
TableSize(S, t) ==
    Cardinality(UNION {{CpuDescriptors(g, t)[k] : k \in DOMAIN CpuDescriptors(g, t)} : g \in S})

\* A draw or dispatch binds the groups S and Apply starts its first pass.
\* The groups of one pipeline fit in one heap (the API's binding limits),
\* and a heap switch is left within the bound.
Bind(S) ==
    /\ phase = "idle" /\ ~fault
    /\ S # {}
    /\ \A t \in Types : TableSize(S, t) <= HeapSize
    /\ heapSerial < MaxHeaps
    /\ phase' = "first" /\ groups' = S /\ todo' = S
    /\ UNCHANGED <<pendingSerial, completedSerial, heapSerial, requests, content,
                   lastUsageSerial, groupHeapSerial, base, uses, fault>>

\* AllocateAndSwitchShaderVisibleHeaps: a fresh heap of each type with a new
\* serial; every bound group becomes dirty and is populated again.
SwitchHeaps ==
    /\ phase = "switch"
    /\ heapSerial' = heapSerial + 1
    /\ requests' = [t \in Types |-> {}]
    /\ phase' = "retry" /\ todo' = groups
    /\ UNCHANGED <<pendingSerial, completedSerial, content, lastUsageSerial,
                   groupHeapSerial, base, groups, uses, fault>>

\* Every group populated: SetGraphicsRootDescriptorTable with the bases
\* the groups return, on a command list bound to the current heaps.
SetTables ==
    /\ phase \in {"first", "retry"} /\ todo = {} /\ ~fault
    /\ uses' = uses \cup
          {[group |-> gt[1], type |-> gt[2], heap |-> base[gt[1]][gt[2]].heap,
            bound |-> heapSerial, offset |-> base[gt[1]][gt[2]].offset,
            serial |-> pendingSerial] :
             gt \in {gt \in groups \X Types : DescriptorCount(gt[1], gt[2]) > 0}}
    /\ phase' = "idle"
    /\ UNCHANGED <<pendingSerial, completedSerial, heapSerial, requests, content,
                   lastUsageSerial, groupHeapSerial, base, groups, todo, fault>>

\* Queue::Submit executes the recorded command lists: the pending serial
\* advances.
Submit ==
    /\ phase = "idle" /\ ~fault
    /\ pendingSerial < MaxSerial
    /\ pendingSerial' = pendingSerial + 1
    /\ UNCHANGED <<completedSerial, heapSerial, requests, content, lastUsageSerial,
                   groupHeapSerial, base, phase, groups, todo, uses, fault>>

\* Device::Tick reads the fence: the GPU has finished the submissions up to
\* c, and the allocator frees the requests of those serials.
Tick(c) ==
    /\ phase = "idle" /\ ~fault
    /\ completedSerial < c /\ c < pendingSerial
    /\ completedSerial' = c
    /\ requests' = [t \in Types |-> {r \in requests[t] : r.serial > c}]
    /\ uses' = {u \in uses : u.serial > c}
    /\ UNCHANGED <<pendingSerial, heapSerial, content, lastUsageSerial,
                   groupHeapSerial, base, phase, groups, todo, fault>>

-----------------------------------------------------------------------------
Init ==
    /\ pendingSerial = 1
    /\ completedSerial = 0
    /\ heapSerial = 0
    /\ requests = [t \in Types |-> {}]
    /\ content = [h \in Heaps |-> [t \in Types |-> [s \in Slots |-> Empty]]]
    /\ lastUsageSerial = [g \in BindGroups |-> 0]
    /\ groupHeapSerial = [g \in BindGroups |-> 0]
    /\ base = [g \in BindGroups |-> [t \in Types |-> [heap |-> NoHeap, offset |-> 0]]]
    /\ phase = "idle"
    /\ groups = {}
    /\ todo = {}
    /\ uses = {}
    /\ fault = FALSE

Recording ==
    \/ \E g \in BindGroups : Populate(g)
    \/ SwitchHeaps
    \/ SetTables

Next ==
    \/ \E S \in SUBSET BindGroups : Bind(S)
    \/ Recording
    \/ Submit
    \/ \E c \in 1 .. MaxSerial : Tick(c)

Spec == Init /\ [][Next]_vars

-----------------------------------------------------------------------------
Descriptor == BindGroups \X Nat

TypeOK ==
    /\ pendingSerial \in 1 .. MaxSerial /\ completedSerial \in 0 .. pendingSerial - 1
    /\ heapSerial \in Heaps
    /\ requests \in [Types -> SUBSET [start : Slots, size : 1 .. HeapSize, serial : Nat]]
    /\ content \in [Heaps -> [Types -> [Slots -> Descriptor \cup {Empty}]]]
    /\ lastUsageSerial \in [BindGroups -> Nat] /\ groupHeapSerial \in [BindGroups -> Heaps]
    /\ base \in [BindGroups -> [Types -> [heap : Heaps \cup {NoHeap}, offset : Nat]]]
    /\ phase \in {"idle", "first", "switch", "retry"}
    /\ todo \subseteq groups /\ groups \subseteq BindGroups
    /\ fault \in BOOLEAN

\* What the GPU reads for the table u: the slots from u.offset of the heap
\* bound on its command list.
Fetched(u) ==
    [k \in 1 .. DescriptorCount(u.group, u.type) |->
        IF u.offset + k - 1 \in Slots THEN content[u.bound][u.type][u.offset + k - 1] ELSE Empty]

\* Every descriptor table set on a command list that the GPU has not
\* finished reads the descriptors its bind group's constructor wrote, in
\* the heap the command list is bound to: neither a cache hit in Populate
\* nor a later allocation of the ring can leave it pointing at another
\* heap or at slots that were handed out again.
DescriptorsIntact ==
    \A u \in uses : u.heap = u.bound /\ Fetched(u) = CpuDescriptors(u.group, u.type)

\* The detailed specification implements DescriptorTables: what the GPU
\* fetches for every in-flight table is, at every step, the data of its
\* group's constructor, and it changes only when a draw sets tables or the
\* GPU finishes a serial.
Tables == INSTANCE DescriptorTables WITH
    pending <- pendingSerial,
    completed <- completedSerial,
    reads <- {[group |-> u.group, type |-> u.type, serial |-> u.serial,
               data |-> Fetched(u)] : u \in uses},
    Types <- Types,
    Data <- CpuDescriptors

\* Bind groups are exposed to shaders as DescriptorTables promises, through
\* Populate's cache, heap switches and the reuse of freed slots.
RefinesTables == Tables!Spec

====
