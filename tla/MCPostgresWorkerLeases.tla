----------------------- MODULE MCPostgresWorkerLeases -----------------------
\* Small instances of PostgresWorkerLeases: two callers.  In TwoWorkers each worker
\* has a claim id of its own; Mistaken is a claim under the id of the other.  In
\* SameWorker one worker claims twice, so that its proofs differ in nothing but the
\* claim, the attempt and the token.
EXTENDS PostgresWorkerLeases, TLC

CONSTANTS c1, c2, r1, r2, k1, k2, w1, w2

Claim(k, w, d) == [op |-> "claim", claim |-> k, worker |-> w, duration |-> d]

IssuedInTurn == (k1 :> 0) @@ (k2 :> 1)
TwoWorkers == {Claim(k1, w1, 1), Claim(k2, w2, 1)}
Mistaken == {Claim(k1, w2, 1)}
SameWorker == {Claim(k1, w1, 1), Claim(k2, w1, 1)}

Symmetry == Permutations(Callers)
=============================================================================
