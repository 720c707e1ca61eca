------------------------- MODULE MCGenerationOwnership -------------------------
(* Two sessions over one patchset, one lens that must draft a board.          *)
EXTENDS GenerationOwnership, TLC
CONSTANTS s1, s2, sequence
MCSessions == {s1, s2}
SessionSymmetry == Permutations(MCSessions)
================================================================================
