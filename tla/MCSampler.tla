----------------------------- MODULE MCSampler -----------------------------
(***************************************************************************)
(* Small instances of the sampler for TLC.                                 *)
(***************************************************************************)
EXTENDS SamplerFeed, TLC

Symmetry == Permutations(Clients) \cup Permutations(Iterators)
=============================================================================
