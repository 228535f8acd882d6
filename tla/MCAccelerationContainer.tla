----------------------- MODULE MCAccelerationContainer -----------------------
(***************************************************************************)
(* Small instances of AccelerationContainer for TLC.  b1 and b2 are       *)
(* ray-tracing buffers of nonzero size; b3 has size 0 and lacks the        *)
(* RayTracing usage.                                                       *)
(***************************************************************************)
EXTENDS AccelerationContainer, TLC

CONSTANTS b1, b2, b3

Vertex(b) == [buffer |-> b, count |-> 1]

\* triangles from b1
TriangleGeometry ==
    [type |-> "Triangles", vertex |-> Vertex(b1), index |-> NoRef, aabb |-> NoRef]
\* indexed triangles: vertices in b1, indices in b2
IndexedGeometry ==
    [type |-> "Triangles", vertex |-> Vertex(b1), index |-> Vertex(b2), aabb |-> NoRef]
\* rejected: b3 has size 0
ZeroSizeGeometry ==
    [type |-> "Triangles", vertex |-> Vertex(b3), index |-> NoRef, aabb |-> NoRef]
\* rejected: vertex count 0
NoVertexGeometry ==
    [type |-> "Triangles", vertex |-> [buffer |-> b2, count |-> 0], index |-> NoRef, aabb |-> NoRef]
\* rejected: AABBs combined with vertex data
MixedGeometry ==
    [type |-> "Aabbs", vertex |-> Vertex(b1), index |-> NoRef, aabb |-> Vertex(b2)]
\* a valid AABB geometry
AabbGeometry ==
    [type |-> "Aabbs", vertex |-> NoRef, index |-> NoRef, aabb |-> Vertex(b2)]

MCGeometries == {TriangleGeometry, IndexedGeometry, ZeroSizeGeometry}
MCTriangleGeometries == {TriangleGeometry, IndexedGeometry, NoVertexGeometry}
MCAabbGeometries == {TriangleGeometry, AabbGeometry}

MCSymmetry == Permutations(Containers)

\* lastCall is a history variable no action reads: states that differ only
\* in it have the same successors, so runs whose properties do not mention
\* it fingerprint states without it.
MCView == <<state, appRef, level, destroyed, built, updated, vertexBuffers,
            indexBuffers, aabbBuffers, geometryContainers, encodedBuffers,
            instances, memory, bufferRef, fault, rayTracingToggle>>
=============================================================================
