------------------------- MODULE MCGenerationStore -------------------------
(* Two Patches and two testers on one Operation with two inputs.           *)
EXTENDS GenerationStore, TLC

CONSTANTS i1, i2, plain, value, resource

MCInitial == [i \in {i1, i2} |-> plain]
StoreSymmetry == Permutations(Patchers)
=============================================================================
