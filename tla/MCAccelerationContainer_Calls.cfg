\* The API calls themselves: lastCall stays in the state, so the instance
\* is kept to one geometry and one instance per descriptor.
CONSTANTS
    Containers = {c1, c2}
    b1 = b1
    b2 = b2
    b3 = b3
    Buffers = {b1, b2, b3}
    NoRef = NoRef
    ZeroSizeBuffers = {b3}
    RayTracingBuffers = {b1, b2}
    Geometries <- MCGeometries
    MaxGeometries = 1
    MaxInstances = 1
    ExtensionEnabled = TRUE
    AllocationCanFail = TRUE
SYMMETRY MCSymmetry
SPECIFICATION Spec
\* Once the application has released every handle and buffer no call is left.
CHECK_DEADLOCK FALSE
INVARIANT
    UpdateOnlyOnTopLevel
