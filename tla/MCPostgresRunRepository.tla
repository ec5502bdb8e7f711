---------------------- MODULE MCPostgresRunRepository ----------------------
(***************************************************************************)
(* Small instances of the service over the PostgreSQL repository.          *)
(***************************************************************************)
EXTENDS PostgresRunRepository, RunScenarios, TLC

CallerSymmetry == Permutations(Callers)
=============================================================================
