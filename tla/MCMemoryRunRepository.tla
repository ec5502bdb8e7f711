----------------------- MODULE MCMemoryRunRepository -----------------------
(***************************************************************************)
(* Small instances of the service over the memory repository.              *)
(***************************************************************************)
EXTENDS MemoryRunRepository, RunScenarios, TLC

CallerSymmetry == Permutations(Callers)
=============================================================================
