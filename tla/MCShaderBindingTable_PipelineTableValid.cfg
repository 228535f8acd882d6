CONSTANTS
    t1 = t1
    t2 = t2
    p1 = p1
    null = null
    Tables = {t1, t2}
    Pipelines = {p1}
    NoRef = null
    ShaderLists <- RoleOrderedLists
    HandleSize <- MCHandleSize
    SharedCounters = FALSE
SPECIFICATION Spec
\* every call is one the application may stop making
CHECK_DEADLOCK FALSE
INVARIANTS
    PipelineTableValid
