-------------------------- MODULE MCDescriptorCache --------------------------
(***************************************************************************)
(* Two bind groups over heaps of three slots.  g1 has a dynamic uniform   *)
(* buffer (a root descriptor), a sampled texture and two samplers; g2 a    *)
(* storage buffer, an acceleration container and a sampler.  Together     *)
(* they fill both heaps, and g1's samplers cannot be placed twice in one   *)
(* heap: a second submission finds the heaps full or half full.           *)
(***************************************************************************)
EXTENDS DescriptorCache, TLC

CONSTANTS g1, g2

MCLayout ==
    g1 :> << [type |-> "UniformBuffer", dynamic |-> TRUE],
             [type |-> "SampledTexture", dynamic |-> FALSE],
             [type |-> "Sampler", dynamic |-> FALSE],
             [type |-> "ComparisonSampler", dynamic |-> FALSE] >>
    @@ g2 :> << [type |-> "StorageBuffer", dynamic |-> FALSE],
                [type |-> "AccelerationContainer", dynamic |-> FALSE],
                [type |-> "Sampler", dynamic |-> FALSE] >>

\* The layouts above pack their dynamic buffers first, so the constructor
\* writes as many descriptors as the layout counts.
ASSUME MCCountsMatch == CountsMatch
====
