CONSTANTS
    Containers = {c1, c2}
    b1 = b1
    b2 = b2
    b3 = b3
    Buffers = {b1, b2, b3}
    NoRef = NoRef
    ZeroSizeBuffers = {b3}
    RayTracingBuffers = {b1, b2}
    Geometries <- MCAabbGeometries
    MaxGeometries = 2
    MaxInstances = 2
    ExtensionEnabled = TRUE
    AllocationCanFail = FALSE
SYMMETRY MCSymmetry
SPECIFICATION Spec
\* Once the application has released every handle and buffer no call is left.
CHECK_DEADLOCK FALSE
INVARIANT
    NoNullDeref
