------------------------- MODULE ShaderBindingTable -------------------------
(***************************************************************************)
(* The Vulkan shader binding table and the ray-tracing pipeline that uses *)
(* it.  RayTracingShaderBindingTable::Initialize turns the application's  *)
(* shader list into one shader group and one stage per shader, in list    *)
(* order, counting the shaders of each role; GetOffsetImpl gives the byte *)
(* offset of a role's groups from those counts in the fixed order         *)
(* generation, closest hit, any hit, miss.  A pipeline is validated by    *)
(* ValidateRayTracingPipelineDescriptor and keeps a reference to its      *)
(* table.  A shader module is abstracted to its stage.                    *)
(***************************************************************************)
EXTENDS Naturals, Sequences, FiniteSets

CONSTANTS
    Tables,            \* binding-table handles the application may create
    Pipelines,         \* pipeline handles the application may create
    NoRef,             \* nullptr
    ShaderLists,       \* descriptor->shaders lists the application may pass
    HandleSize,        \* shaderGroupHandleSize of the device
    SharedCounters     \* the role counters are one static tally (spec 9)

Roles == {"RayGeneration", "RayClosestHit", "RayAnyHit", "RayMiss"}
Unused == "VK_SHADER_UNUSED_NV"

ASSUME TablesAssumption ==
    /\ NoRef \notin Tables
    /\ ShaderLists \subseteq Seq(Roles)
    /\ HandleSize \in Nat \ {0}
    /\ SharedCounters \in BOOLEAN

\* The group the ingestion loop pushes for a shader of role r when
\* mGroups.size() is i: general groups for generation and miss shaders,
\* triangle hit groups for closest-hit and any-hit shaders.
Group(r, i) ==
    [type |-> IF r \in {"RayGeneration", "RayMiss"} THEN "General" ELSE "TrianglesHitGroup",
     generalShader |-> IF r \in {"RayGeneration", "RayMiss"} THEN i ELSE Unused,
     closestHitShader |-> IF r = "RayClosestHit" THEN i ELSE Unused,
     anyHitShader |-> IF r = "RayAnyHit" THEN i ELSE Unused,
     intersectionShader |-> Unused]

GroupsOf(list) == [k \in DOMAIN list |-> Group(list[k], k - 1)]

\* mRayGenerationCount, mRayClosestHitCount, ... after the loop
RoleCount(list, r) == Cardinality({k \in DOMAIN list : list[k] = r})

\* mutant: the closest-hit and any-hit cases of GetOffsetImpl swapped
OffsetIndexSwapped(count, r) ==
    CASE r = "RayGeneration" -> 0
      [] r = "RayAnyHit" -> count["RayGeneration"]
      [] r = "RayClosestHit" -> count["RayGeneration"] + count["RayAnyHit"]
      [] r = "RayMiss" -> count["RayGeneration"] + count["RayClosestHit"] + count["RayAnyHit"]

\* The local offset of GetOffsetImpl(stageKind): the number of groups of
\* the roles that come before stageKind.
OffsetIndex(count, r) ==
    CASE r = "RayGeneration" -> 0
      [] r = "RayClosestHit" -> count["RayGeneration"]
      [] r = "RayAnyHit" -> count["RayGeneration"] + count["RayClosestHit"]
      [] r = "RayMiss" -> count["RayGeneration"] + count["RayClosestHit"] + count["RayAnyHit"]

\* The byte offset GetOffsetImpl returns.
Offset(count, r) == OffsetIndex(count, r) * HandleSize

\* The fixed order of the roles in a table, and the shader lists that list
\* their shaders in that order.
RoleRank == [r \in Roles |-> CASE r = "RayGeneration" -> 0
                              [] r = "RayClosestHit" -> 1
                              [] r = "RayAnyHit" -> 2
                              [] r = "RayMiss" -> 3]

RoleOrdered(list) ==
    \A i, j \in DOMAIN list : i < j => RoleRank[list[i]] <= RoleRank[list[j]]

VARIABLES
    handlesAvailable,  \* fn.GetRayTracingShaderGroupHandlesNV != nullptr
    tableState,      \* "none", "valid" or "error" per table handle
    tableDestroyed,  \* IsDestroyed() of the table
    stages,          \* mStages: the stage of each shader, in list order
    groups,          \* mGroups
    counts,          \* the per-role counters of each table after its Initialize
    tally,           \* the counters when they are shared by every table
    pipeState,       \* "none", "valid" or "error" per pipeline handle
    pipeTable        \* mShaderBindingTable of a valid pipeline

vars == <<handlesAvailable, tableState, tableDestroyed, stages, groups, counts, tally,
          pipeState, pipeTable>>

\* The counters GetOffsetImpl of table s reads.  Their declaration is not in
\* the repository: as members (the m prefix) they are the table's own; as
\* the shared static state spec section 9 describes they are the tally
\* every Initialize so far has added to.
CountsOf(s) == IF SharedCounters THEN tally ELSE counts[s]

-----------------------------------------------------------------------------
\* RayTracingShaderBindingTable::Create: construct, then Initialize; an
\* Initialize that fails makes the device hand out an error table.  The
\* loop increments the counters from the values they hold when it starts.
CreateTable(s, list) ==
    /\ tableState[s] = "none"
    /\ \/ /\ ~handlesAvailable
          /\ tableState' = [tableState EXCEPT ![s] = "error"]
          /\ UNCHANGED <<stages, groups, counts, tally>>
       \/ /\ handlesAvailable
          /\ LET start == IF SharedCounters THEN tally ELSE [r \in Roles |-> 0]
                 final == [r \in Roles |-> start[r] + RoleCount(list, r)]
             IN  /\ counts' = [counts EXCEPT ![s] = final]
                 /\ tally' = IF SharedCounters THEN final ELSE tally
          /\ tableState' = [tableState EXCEPT ![s] = "valid"]
          /\ stages' = [stages EXCEPT ![s] = list]
          /\ groups' = [groups EXCEPT ![s] = GroupsOf(list)]
    /\ UNCHANGED <<handlesAvailable, tableDestroyed, pipeState, pipeTable>>

\* Destroy() of the base object
DestroyTable(s) ==
    /\ tableState[s] # "none"
    /\ tableDestroyed' = [tableDestroyed EXCEPT ![s] = TRUE]
    /\ UNCHANGED <<handlesAvailable, tableState, stages, groups, counts, tally, pipeState,
                   pipeTable>>

PipelineDescriptors ==
    [layout : {"none", "valid", "error"}, hasState : BOOLEAN, table : Tables \cup {NoRef}]

\* ValidateRayTracingPipelineDescriptor: the layout's ValidateObject, a
\* ray-tracing state, and a table, tested for nullptr twice.
ValidPipelineDescriptor(d) ==
    /\ d.layout # "error"
    /\ d.hasState
    /\ d.table # NoRef
    /\ d.table # NoRef

\* CreateRayTracingPipeline: the constructor keeps the table; a rejected
\* descriptor gives RayTracingPipelineBase::MakeError.
CreatePipeline(p, d) ==
    /\ pipeState[p] = "none"
    /\ d.table # NoRef => tableState[d.table] # "none"
    /\ \/ /\ ValidPipelineDescriptor(d)
          /\ pipeState' = [pipeState EXCEPT ![p] = "valid"]
          /\ pipeTable' = [pipeTable EXCEPT ![p] = d.table]
       \/ /\ ~ValidPipelineDescriptor(d)
          /\ pipeState' = [pipeState EXCEPT ![p] = "error"]
          /\ UNCHANGED pipeTable
    /\ UNCHANGED <<handlesAvailable, tableState, tableDestroyed, stages, groups, counts, tally>>

\* The device either loaded the NV ray-tracing entry points or did not.
Init ==
    /\ handlesAvailable \in BOOLEAN
    /\ tableState = [s \in Tables |-> "none"]
    /\ tableDestroyed = [s \in Tables |-> FALSE]
    /\ stages = [s \in Tables |-> << >>]
    /\ groups = [s \in Tables |-> << >>]
    /\ counts = [s \in Tables |-> [r \in Roles |-> 0]]
    /\ tally = [r \in Roles |-> 0]
    /\ pipeState = [p \in Pipelines |-> "none"]
    /\ pipeTable = [p \in Pipelines |-> NoRef]

Next ==
    \/ \E s \in Tables, list \in ShaderLists : CreateTable(s, list)
    \/ \E s \in Tables : DestroyTable(s)
    \/ \E p \in Pipelines, d \in PipelineDescriptors : CreatePipeline(p, d)

Spec == Init /\ [][Next]_vars

-----------------------------------------------------------------------------
TypeOK ==
    /\ handlesAvailable \in BOOLEAN
    /\ tableState \in [Tables -> {"none", "valid", "error"}]
    /\ tableDestroyed \in [Tables -> BOOLEAN]
    /\ stages \in [Tables -> Seq(Roles)]
    /\ counts \in [Tables -> [Roles -> Nat]]
    /\ tally \in [Roles -> Nat]
    /\ pipeState \in [Pipelines -> {"none", "valid", "error"}]
    /\ pipeTable \in [Pipelines -> Tables \cup {NoRef}]

\* For every valid table, the handles from the offset that GetOffsetImpl
\* gives for role r, one per shader of role r in the table's list, are the
\* groups of those shaders: a ray dispatched with that offset runs a shader
\* of the role it asks for.
OffsetsPointAtRoles ==
    \A s \in Tables : tableState[s] = "valid" =>
        \A r \in Roles : \A k \in 1 .. RoleCount(stages[s], r) :
            LET i == Offset(CountsOf(s), r) \div HandleSize + k
            IN  i \in DOMAIN stages[s] /\ stages[s][i] = r

\* A pipeline is only created over a table that has not been destroyed:
\* the second nullptr test in the validation was meant to reject one.
PipelineTableAlive ==
    \A p \in Pipelines : pipeState[p] = "valid" =>
        ~tableDestroyed[pipeTable[p]]

\* A pipeline is only created over a table that was created successfully:
\* validation never calls ValidateObject on the table.
PipelineTableValid ==
    \A p \in Pipelines : pipeState[p] = "valid" =>
        tableState[pipeTable[p]] = "valid"

====
