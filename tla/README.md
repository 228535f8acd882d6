# Formal model of Dawn's ray-tracing additions

This directory holds TLA+ models of the ray-tracing additions to Dawn's
`dawn_native` (`src/src/dawn_native`). It also holds the TLC configurations
that model-check them and TLAPS proofs of their main invariants.

## The system and its parts

An application creates acceleration containers from a descriptor.

- **Bottom level.** A bottom-level container holds geometries: triangle
  vertex and index buffers, or AABB buffers.
- **Top level.** A top-level container holds instances, and each instance
  points at a bottom-level container.

Creation goes through these steps in order:

1. `ValidateRayTracingAccelerationContainerDescriptor`
   (`RayTracingAccelerationContainer.cpp:57-167`) checks the descriptor. On
   failure the device returns an *error container*
   (`ErrorRayTracingAccelerationContainer`, lines 38-54).
2. The base constructor (lines 169-212) keeps one `Ref<>` per distinct
   buffer or container that the descriptor names. It returns before doing
   so, and before assigning `mLevel`, when the ray-tracing extension is
   disabled.
3. The D3D12 `Initialize` (`d3d12/RayTracingAccelerationContainerD3D12.cpp:72-191`):
   - encodes GPU addresses of those buffers, and of the instanced
     containers' result memory, into the build inputs;
   - for a top-level container, creates and fills an instance buffer;
   - allocates the result, build and (if nonzero) update scratch memory.

After creation:

- `Destroy` runs `DestroyImpl`, which is empty on D3D12.
- `UpdateInstance` validates its arguments and calls `UpdateInstanceImpl`,
  which is a no-op on D3D12.
- A recorded build or update reaches `ValidateCanUseInSubmitNow` when it is
  submitted.
- Containers and buffers are reference-counted. Releasing the last
  reference runs the destructor, which calls `DestroyInternal`.

Other consumers of a container:

- **Bind groups.** `BindGroupD3D12.cpp` binds a container's result buffer
  and caches shader-visible descriptors between submits.
- **Pipelines.** The Vulkan shader binding table
  (`vulkan/RayTracingShaderBindingTableVk.cpp`) and the pipeline validation
  (`RayTracingPipeline.cpp`) consume shader lists.

## Modules

| Module | Models |
|---|---|
| `AccelerationContainer` | Container validation, construction, D3D12 initialisation, destroy, update, submit and release |
| `MCAccelerationContainer` | Model values and geometry descriptors for TLC, symmetry and the view |
| `AccelerationContainerProofs` | TLAPS proofs about `AccelerationContainer` |
| `DescriptorCache` | The D3D12 bind group's CPU descriptors and `BindGroup::Populate`, with the shader-visible allocator, the recorder's `Apply` and the device serials |
| `DescriptorTables` | The abstract promise of the descriptor path: each in-flight table reads its bind group's descriptors |
| `MCDescriptorCache` | Two bind groups with their layouts for TLC |
| `ShaderBindingTable` | The Vulkan binding table's `Create`/`Initialize` and `GetOffsetImpl`, and the pipeline's validation and construction |
| `MCShaderBindingTable` | Two tables, one pipeline and shader lists of up to 3 shaders for TLC |
| `ShaderBindingTableProofs` | TLAPS proofs of the offset law for shader lists of any length |
| `DescriptorCacheProofs` | TLAPS proofs that the descriptor tables in use stay intact under the reuse test of spec 4.5, and that the cache refines `DescriptorTables` |

### State of `AccelerationContainer`

Each variable is a function over container slots, and each slot is one
application handle. The variables map to the code as follows:

| Variable | Code |
|---|---|
| `state` | none, valid object, error object, or freed (destructor has run) |
| `appRef` | the application holds the handle |
| `level` | `mLevel`, with `NoLevel` where it was never assigned |
| `destroyed`, `built`, `updated` | `mIsDestroyed`, `mIsBuilt`, `mIsUpdated` |
| `vertexBuffers`, `indexBuffers`, `aabbBuffers`, `geometryContainers` | the counts of `Ref<>`s in `mVertexBuffers`, `mIndexBuffers`, `mAabbBuffers`, `mGeometryContainers` |
| `encodedBuffers` | buffers whose GPU address `Initialize` wrote into `mGeometries` |
| `instances` | the instance list the D3D12 instance buffer was filled from |
| `memory` | scratch allocations that are held (container, kind) |
| `bufferRef` | the application still holds the buffer |
| `fault` | a crash: null dereference, `UNREACHABLE()`, or a cast of an error object |
| `lastCall` | the last API call, with its target and whether it was accepted |
| `rayTracingToggle` | `Toggle::UseD3D12RayTracing` |

### Actions

Each action is one whole API call, with everything it does.

- **`Create(c, d)`** covers validation, then `MakeError` or the constructor
  (`Construct`), then `Initialize`. `Initialize` includes:
  - the toggle check;
  - the AABB stride read (`AabbStrideFault`);
  - the instance cast (`InstanceCastFault`);
  - instance buffer creation;
  - the three scratch allocations in the code's order (`AllocationOrder`).

  Any of them may fail, and the allocations made before the failure stay
  held.
- **`Destroy`**: on an error object it either reaches `UNREACHABLE()` or
  continues, because `UNREACHABLE` is undefined behaviour in release builds.
- **`UpdateInstance`**, **`Submit`**, **`Release`** and **`ReleaseBuffer`**
  model the calls of the same names.

`GetLevel()` on an unassigned `mLevel` returns any level (`ReadLevel`).

Validation is modelled as a sequence of rejection conditions:
`BufferChecks`, `OptionalChecks`, `GeometryChecks` and `DescriptorChecks`
follow the early returns of the validation function. Buffers, containers and
geometries are model values or small records: addresses, strides, formats and
transforms are abstracted away.

Reference counting (`RefCounted`, `Ref<>`) lives outside `src/`. It is
modelled from the spec. A container is freed when no chain of references from
a handle the application holds reaches it (`Closure`, written without
recursion so that it can be proved about). A buffer's memory is alive while
the application or a container holds a reference to it.

## The bind group descriptor cache (`DescriptorCache`)

The constructor (`BindGroupD3D12.cpp:34-162`) skips the dynamic buffers,
which are packed first, and writes one CPU descriptor per remaining binding
into the view or the sampler allocation. `CpuDescriptors(g, t)` is that
sequence: the descriptor of binding `i` of `g` is the pair `<<g, i>>`.
`DescriptorCount` is the layout's count of non-dynamic bindings of a type.
It stands for `GetCbvUavSrvDescriptorCount` and `GetSamplerDescriptorCount`,
whose bodies are in `BindGroupLayoutD3D12.cpp`. That file is not in the
repository, so this definition is modelled from the spec.

`Populate(g)` (`:171-229`) is one action with four outcomes, in the code's
order:
- the cached copy is still valid (`StillValid`, line 174): return true;
- the view allocation is invalid (line 195): return false;
- the views are allocated and copied, then the sampler allocation is invalid
  (line 212): return false, with the views' slots held and the serials not
  recorded;
- both copied (`Copied`), `mLastUsageSerial` and `mHeapSerial` recorded:
  return true.

The collaborators are outside `src/` and are modelled from spec sections 4.5
and 5:
- the shader-visible allocator hands out some free run of slots of the
  current heap (a `CHOOSE`, so that the proof holds whatever run the ring
  picks; TLC takes the lowest), tagged with the pending serial (`AllocateGPUDescriptors`);
  `Tick(c)` frees the requests of serials up to `c`;
- `Bind(S)` starts `BindGroupStateTracker::Apply` for the groups `S`.
  `Returned` is what `Apply` does with the result: the first pass stops at
  the first false, `SwitchHeaps` moves to a fresh heap with a new serial and
  every group is populated again, and a false after the switch is the
  `ASSERT(didCreateBindGroups)` failing (`fault`);
- `SetTables` sets each group's tables at the bases `Populate` recorded, on a
  command list bound to the current heap (`uses`); `Submit` advances the
  pending serial.

`ReuseRule` selects the test of `IsAllocationStillValid`: `"pending"` is spec
4.5 (the usage serial is the pending serial), `"notCompleted"` is spec 5 (no
submission completed since).

### Refinement

`DescriptorTables` states what the path promises: a draw adds, for each bound
group and type, a table that reads the group's descriptors; `Submit` and
`Complete` move the serials and drop finished tables. `DescriptorCache`
implements it under the mapping `reads <- {... data |-> Fetched(u) ...}`,
where `Fetched(u)` is what the GPU reads from the heap the command list is
bound to. `Populate`, `SwitchHeaps` and `Bind` are stutters of the abstract
specification, `SetTables` is `Draw`, and `Tick` is `Complete`.

`Spec` has no fairness, because no liveness property is checked. Whether a
started `Apply` completes depends on the `Bind` guard `TableSize <= HeapSize`
and on `SwitchHeaps` giving a fresh heap. Both are taken from the spec, so a
liveness check would only restate them.

## The shader binding table and the pipeline (`ShaderBindingTable`)

`CreateTable(s, list)` is `RayTracingShaderBindingTable::Create` with
`Initialize`. If the device did not load `GetRayTracingShaderGroupHandlesNV`
(`handlesAvailable`, chosen in `Init`), `Initialize` fails and the table is an
error object. Otherwise each shader gets one group (`Group`) with the index
`mGroups.size()`, one stage, and one count in its role's counter.
`OffsetIndex` and `Offset` are `GetOffsetImpl`. `DestroyTable` is the base
class's `Destroy`. `CreatePipeline(p, d)` is the validation (`:22-42`), then
the constructor, which keeps the table, or `MakeError`. A shader module is
abstracted to its stage.

The declarations of the role counters (`mRayGenerationCount` and the others)
are not in the repository. The constant `SharedCounters` selects how they are
read.
- `FALSE`: each table has counters of its own (`counts[s]`). The `m` prefix
  suggests this reading, and every run uses it.
- `TRUE`: the counters are the shared static tallies that spec section 9
  describes (`tally`). Each `Initialize` adds to them.

`CountsOf(s)` is the counters that `GetOffsetImpl` reads for table `s`.

`ShaderLists` holds sequences of the four ray-tracing roles only. A shader of
any other stage falls through the switch at `:61-82` and still pushes a
group that no counter counts. That case is assumed to be rejected by
descriptor validation, which is outside the repository.

## Runs

There are two passing runs for the acceleration containers.

- **`containers`** (`MCAccelerationContainer.cfg`). The instance has 2
  containers and 3 buffers (one of them zero-sized, one without the
  ray-tracing usage). Descriptors have up to 2 geometries or 2 instances, and
  allocation may fail. It checks `EncodedObjectsAlive`: every buffer a
  container encoded, and every container it instances, is still alive while
  the container is, under every order of `Destroy` and `Release`. It reaches
  about 41,000 distinct states. `VIEW MCView` drops `lastCall`, which the
  property does not read.

  The run has no AABB geometry. A valid AABB geometry always has
  `vertex == nullptr`, so encoding it dereferences null at D3D12.cpp:120
  (the `aabb_null_deref` run). The AABB reference path at
  `RayTracingAccelerationContainer.cpp:193-197` therefore has no behaviour
  beyond that crash.
- **`calls`** (`MCAccelerationContainer_Calls.cfg`). This run keeps
  `lastCall` and uses bounds of 1 and 1. It checks `UpdateOnlyOnTopLevel`: an
  accepted `UpdateInstance` targets a valid top-level container. This holds
  only because `ValidateObject(this)` comes before `GetLevel()`, since an
  error object's level is garbage. The run reaches about 296,000 distinct
  states.

Two more runs pass.

- **`descriptor_cache`** (`MCDescriptorCache.cfg`). Two bind groups: `g1` has
  a dynamic uniform buffer, a sampled texture and two samplers; `g2` has a
  storage buffer, an acceleration container and a sampler. Heaps hold 3
  descriptors of each type; there are up to 2 heap switches and 3 serials.
  It checks:
  - `DescriptorsIntact`: every in-flight table reads, in the heap its command
    list is bound to, exactly the descriptors its group's constructor wrote;
  - `RefinesTables`: the refinement above.

  It reaches about 5,300 distinct states.
- **`sbt_offsets`** (`MCShaderBindingTable.cfg`). Two tables, one pipeline,
  and every role-ordered list of up to 3 shaders. It checks
  `OffsetsPointAtRoles`: the `counts[r]` handles from the offset of role `r`
  are groups of role `r`. It reaches about 20,000 distinct states.

Each violation run checks one property that the spec (`spec.md`) or the code
itself states, and that TLC finds broken. Each one is recorded as a finding in
`PROJECT.json`. Two of them (`descriptor_reuse`, `sbt_unordered`) show the
spec disagreeing with itself, so the code cannot satisfy both parts.

| Run | Property | What TLC finds |
|---|---|---|
| `aabb_null_deref` | `NoNullDeref` | a valid AABB geometry reads `geometry.vertex->stride` with `vertex == nullptr` (D3D12.cpp:120) |
| `error_instance` | `NoBadCast` | an error container is accepted as an instance and cast to the D3D12 class |
| `top_instances_top` | `InstancesAreBottom` | creation accepts a top-level container as an instance. This needs 3 containers: a top-level one must exist before another instances it |
| `scratch_leak` | `NoLeakedScratch` | a failed scratch allocation leaves the earlier ones held, and `Destroy` frees nothing |
| `descriptor_reuse` | `DescriptorsIntact` | under the reuse rule of spec section 5, a cache hit at serial 2 keeps slots requested at serial 1; `Tick(1)` frees them and another group's copy overwrites them while the serial-2 table is in flight |
| `sbt_unordered` | `OffsetsPointAtRoles` | a list not in role order, such as miss then generation, makes an offset point at a group of another role |
| `pipeline_destroyed_table` | `PipelineTableAlive` | a destroyed table passes validation, because line 37 repeats the nullptr test of line 33 |
| `extension_off` | `EncodedObjectsAlive` | with the extension off, the constructor keeps no references but addresses are still encoded, so they dangle |

Nine more configurations each check one such property, which TLC also finds
violated. They are not in the run list of `PROJECT.json`, and their hazards
there name them:

| Configuration | Property | What TLC finds |
|---|---|---|
| `MCAccelerationContainer_ErrorDestroy.cfg` | `NoUnreachable` | `Destroy()` on an error container reaches `UNREACHABLE()` |
| `MCAccelerationContainer_UpdateDestroyed.cfg` | `UpdateOnlyLiveContainer` | `UpdateInstance` is accepted on a destroyed container |
| `MCAccelerationContainer_UpdateNoop.cfg` | `UpdatePatchesInstance` | an accepted `UpdateInstance` changes no instance |
| `MCAccelerationContainer_Submit.cfg` | `SubmitUsesLiveInstances` | a build is accepted after its bottom-level container was destroyed |
| `MCShaderBindingTable_PipelineTableValid.cfg` | `PipelineTableValid` | an error table passes validation, because no `ValidateObject` is called on it |
| `MCAccelerationContainer_UpdateErrorGeometry.cfg` | `UpdateLinksBottom` | with three containers, `UpdateInstance` on a top container accepts an error container as its geometry, because line 264 reads that container's unassigned level without `ValidateObject` |
| `MCAccelerationContainer_UpdateExtensionOff.cfg` | `UpdateOnlyOnTopLevel` | with the extension off, `mLevel` is never assigned, and `UpdateInstance` is accepted on a container that is not top-level |
| `MCAccelerationContainer_InstanceBuffer.cfg` | `NoNullDeref` | with triangle geometries and failing allocations, a top-level `Create` gets an error instance buffer and dereferences its resource (D3D12.cpp:146-149). The `aabb_null_deref` run never reaches this, because its allocations cannot fail |
| `MCShaderBindingTable_SharedCounters.cfg` | `OffsetsPointAtRoles` | with the shared counters of spec section 9, a table `<<RayClosestHit>>` created after a table `<<RayGeneration>>` gets closest-hit offset 1, past its only group |

### Bounds

Two containers are enough for every single-level hazard: one bottom-level
container instanced by one top-level container, each destroyed or released
in any order. The top-over-top case needs a third container.

Three buffers give the validation its three buffer cases: ray-tracing usage,
missing usage, and zero size. Descriptors of two geometries, or two
instances, naming the same object are what deduplication is about, so the
main run has bounds of 2. With those bounds, releasing a duplicated object
once is among the behaviours `EncodedObjectsAlive` is checked against.

The geometry set covers:
- triangles;
- indexed triangles;
- a zero-sized buffer;
- for the separate runs, geometries without vertex data, mixed geometries
  and AABB-only geometries.

For the descriptor cache, two bind groups of which one has views and
samplers and the other a sampler after its views are the least that reach
the hazards. Three slots per heap make a second group's allocation fail, so
the partial failure and the heap switch happen. Three serials let a cache
hit happen at serial 2 on slots requested at serial 1, with `Tick(1)` in
between, which is the reuse hazard. For the binding table, lists of 3
shaders contain every pair of roles in both orders, which is what an offset
mix-up needs.

### Fairness and deadlock

The acceleration container model assumes no fairness and checks no liveness
property. Every action is an API call the application may or may not make,
and the application may release everything and stop. The binding-table model
is the same, and so is the descriptor cache: the application may stop
binding and submitting. So deadlock checking is off (`CHECK_DEADLOCK FALSE`)
in every run.

### Mutants

Each property of a passing run has a mutant that breaks it:

| Property | Mutant | Change |
|---|---|---|
| `EncodedObjectsAlive` | `KeptBuffersSkipLast` | the constructor's loop skips the last geometry |
| `UpdateOnlyOnTopLevel` | `UpdateInstanceNoObjectCheck` | `ValidateUpdateInstance` omits `ValidateObject(this)` |
| `DescriptorsIntact` | `PopulateIgnoresSamplerFailure` | `Populate` omits the sampler allocation's `IsInvalid()` return |
| `RefinesTables` | `CopiedNoViewCopy` | `Populate` omits `CopyDescriptorsSimple` of the views |
| `OffsetsPointAtRoles` | `OffsetIndexSwapped` | the closest-hit and any-hit cases of `GetOffsetImpl` swapped |

## Proofs

`AccelerationContainerProofs` proves three theorems. Each holds for every
value of the constants that satisfies `ConstantsAssumption`.

- **`TypeCorrect`**: `Spec => []TypeOK`. The key lemma is
  `ValidTopInstancesNotNull`: a valid top-level descriptor's instances are
  all containers, none null. The model's `instances` variable depends on this.
- **`EncodedAlive`**: `ExtensionEnabled => (Spec => []EncodedObjectsAlive)`.
  The invariant is not inductive on its own. The strengthening `IInv` is
  `TypeOK` together with `AliveInv`, which says:
  - every live handle is a non-freed container (`HandlesAlive`);
  - what was encoded is covered by references the container holds
    (`EncodedKept`, `InstancesKept`);
  - whatever a live container references is itself alive (`KeptAlive`).

  `Release` preserves `KeptAlive` because the objects it frees are exactly
  those outside `Closure` of the held handles. The lemmas `ClosureHasRoots`
  and `ClosureClosed` give the two facts about `Closure` that the argument
  needs. `IInv` was checked with TLC on the main run's instance before it
  was proved. The step lemma `AliveStep` (`AliveInv` is preserved by every
  step) is shared with the next theorem.
- **`UpdateTopOnly`**: `ExtensionEnabled => (Spec => []UpdateOnlyOnTopLevel)`.
  `ValidateUpdateInstance` calls `ValidateObject(this)` (line 254) before it
  reads `GetLevel()` (line 256), so an error container is rejected before its
  unassigned level is compared. The invariant is
  strengthened with `AliveInv` and `LevelAssigned`: every valid container
  has a level in `Levels`. An `UpdateInstance` that succeeds has a target
  that is not an error container and is still held by the application.
  `HandlesAlive` makes that target valid, and `LevelAssigned` makes the
  level read its real one, which must then be `"Top"`. `OtherCallsKeepUpdate`
  covers the other calls: each records a different call or changes nothing.
  The hypothesis is needed: with the extension disabled, `Construct` leaves
  the level unassigned, so `LevelAssigned` fails. The strengthening was
  checked with TLC on the `calls` instance before it was proved (about
  296,000 distinct states).

`ShaderBindingTableProofs` proves two theorems for every value of the
constants that satisfies `TablesAssumption`.

- **`TypeCorrect`**: `Spec => []TypeOK`.
- **`OffsetsCorrect`**: if every list in `ShaderLists` is role-ordered and
  `SharedCounters` is `FALSE`, then
  `Spec => []OffsetsPointAtRoles`, for lists of any length and any handle
  size. The inductive invariant `IInv` adds `CountsInv` to `TypeOK`: a valid
  table holds a list of `ShaderLists` and, when its counters are its own,
  the counts `Initialize` computed for it. The hypothesis on
  `SharedCounters` is needed: with shared counters, the
  `MCShaderBindingTable_SharedCounters.cfg` configuration violates the
  property. The offset law for one list rests on these lemmas:
  - `BelowPrefix`: in a role-ordered list, the positions whose role comes
    before rank `n` are exactly `1 .. B(l, n)`;
  - `CountIsDifference`: a role's counter is `B(l, n+1) - B(l, n)`;
  - `OffsetIndexIsBelow`: `GetOffsetImpl`'s local offset for a role is
    `B(l, rank)`.

`DescriptorCacheProofs` proves **`CacheIntact`**: with `ReuseRule =
"pending"` (the reuse test of spec 4.5) and `CountsMatch`, `Spec =>
[]DescriptorsIntact`, for every layout, heap size, number of heaps and
serial bound. `CountsMatch` says that the constructor writes as many
descriptors of a type as the layout counts (`CpuDescriptors` against
`DescriptorCount`); it is a property of `Layout` alone, and
`MCDescriptorCache` states it as an `ASSUME`, so every run evaluates it.
The hypothesis on `ReuseRule` is needed: under spec section 5's rule
the `descriptor_reuse` run violates `DescriptorsIntact`, because `Tick` can
free the requests behind a reusable copy, so `CacheSafe` fails.

`DescriptorsIntact` is not inductive: it says nothing about the slots the
allocator may hand out next. The strengthening `IInv` is `TypeInv` together
with three conjuncts.
- `UsesSafe`: every table in use holds its group's descriptors in the heap
  its command list is bound to (`HoldsAt`). While that heap is current, a
  request of the table's serial covers its slots (`Covered`).
- `CacheSafe`: a group that `Populate` may reuse (`Reusable`: usage serial =
  pending serial, same heap) has its copy in the current heap, covered by a
  request of the pending serial.
- `PassSafe`: during an `Apply` pass, every group the pass has finished is
  reusable. This is what `SetTables` needs.

The argument for `Populate` follows the code's four outcomes
(`PopulateCases`).
- The allocator only hands out slots no request covers (`AllocFits`,
  `CoveredNotFree`).
- So a copy leaves every covered run, and every run in an older heap,
  unchanged (`CopiedEffect`, `HoldsPreserved`).
- `SwitchHeaps` and `Submit` make every group non-reusable.
- `Tick` frees only requests of serials no table in use still has.

`DescriptorCacheProofs` also proves a theorem from the same invariant,
under the same hypotheses.
- **`TablesRefined`**: `Spec => RefinesTables`. The initial states map to
  `DescriptorTables!Init`. While `DescriptorsIntact` holds on both sides of a
  step, the mapped `reads` depend on `uses` alone (`ReadsAreData`). So each
  step maps as follows:
  - `Populate`, `SwitchHeaps` and `Bind` are stuttering steps
    (`StutterRefines`);
  - `SetTables` is a `Draw` of the pass's groups (`SetTablesRefines`), or a
    stutter when the pass is empty;
  - `Submit` is `Submit`;
  - `Tick` is `Complete` (`TickRefines`).
  `DataNonEmpty` matches the abstract `Data(gt) # <<>>` filter with the
  concrete test `DescriptorCount > 0`.

Outside TLAPS's reach, and so checked by TLC only:
- the violation runs, and the configurations outside the run list that the
  hazards name. Their properties fail, so there is nothing to prove.

## Not modelled yet

- **The content of instance records.** Not modelled: transforms (left
  uninitialised when neither form is given), and 24-bit truncation of
  `instanceId` and `instanceOffset`.
- **The bind group's destructor and error returns.**
  `DeallocateBindGroup` and the CPU heaps live outside `src/`.
  `AllocateGPUDescriptors` errors (`DAWN_TRY_ASSIGN`) are not modelled.
  Storage textures reach `UNREACHABLE()`, which the layout's validation
  (outside `src/`) excludes.
- **How the layout counts acceleration containers.**
  `GetCbvUavSrvDescriptorCount` is in `BindGroupLayoutD3D12.cpp`, which is
  not in the repository.
- **Headers and the Vulkan container.** These are declarations only.
