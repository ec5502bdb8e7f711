---------------------------- MODULE WorkerLeases ----------------------------
(***************************************************************************)
(* What PostgreSQL keeps about worker leases of one tenant, and the        *)
(* decisions the repositories take on it, as functions of a lease, a proof *)
(* and one reading of the clock: the records of domain/worker_leases, the  *)
(* eligibility of a run, the age of a claim id, the evaluation of          *)
(* authority, and the effects of claim, renew and release on a lease row.  *)
(*                                                                         *)
(* Times are ticks.  A token is told apart by the caller that drew it: the *)
(* generator never repeats one, and no two transactions of one caller for  *)
(* one claim id both leave a trace.                                        *)
(***************************************************************************)
EXTENDS Integers

CONSTANTS
  Runs,           \* run ids
  Claims,         \* claim ids
  Workers,        \* worker ids
  Tokens,         \* lease tokens
  Durations,      \* lease durations, in ticks
  IssuedAt,       \* IssuedAt[k]: the time in the claim id k
  FutureSkew,     \* how far ahead of the clock a claim id may be (60 s)
  ReplayWindow,   \* how long a claim id may be used (24 h)
  None            \* a model value

ASSUME LeasesAssumption ==
  /\ Durations \subseteq Nat \ {0}
  /\ IssuedAt \in [Claims -> Nat]
  /\ FutureSkew \in Nat /\ ReplayWindow \in Nat
  /\ None \notin Runs \cup Nat

\* What domain/runs says of statuses that leases do not tell apart is left out.
RunStatuses == {"queued", "running", "waiting", "ended"}
Workable == {"queued", "running"}

\* A run as its row: what moves it is decided by the aggregate.
Run == [status : RunStatuses, version : Nat]

\* The statuses the transition table of the aggregate admits next; a charge
\* leaves a running run running.
Follows ==
  [queued  |-> {"running", "ended"},
   running |-> {"running", "waiting", "ended"},
   waiting |-> {"running", "ended"},
   ended   |-> {}]

Lease == [worker : Workers, claim : Claims, token : Tokens,
          attempt : Nat, version : Nat,
          acquired : Nat, heartbeat : Nat, expires : Nat,
          released : Nat \cup {None}]

\* The complete proof of a grant; lease version and times are no part of it.
Proof == [run : Runs, worker : Workers, claim : Claims, attempt : Nat, token : Tokens]

\* A receipt holds the intent (worker, duration) and the outcome of a claim.
Receipt ==
  [outcome : {"no_work"}, worker : Workers, duration : Durations]
    \cup
  [outcome : {"claimed"}, worker : Workers, duration : Durations,
   run : Runs, attempt : Nat, version : Nat, acquired : Nat, expires : Nat, token : Tokens]

\* MUTANTS of ProofMatches, Lapsed and NextLease.
ProofMatchesAnyAttempt(p, lease) == p.worker = lease.worker
LapsedEarly(lease, at) == lease.expires <= at + 1
AttemptsStartAgain(old, request, token, at) ==
  [worker |-> request.worker, claim |-> request.claim, token |-> token,
   attempt |-> 1, version |-> 1, acquired |-> at, heartbeat |-> at,
   expires |-> at + request.duration, released |-> None]

\* _validate_claim_age, in this order: too far ahead, then too old.
ClaimAge(k, at) ==
  IF IssuedAt[k] > at + FutureSkew         THEN "invalid_input"
  ELSE IF IssuedAt[k] + ReplayWindow <= at THEN "idempotency_expired"
  ELSE "valid"

\* lease_expires_at <= platform_now: the end of a lease is not in the lease.
Lapsed(lease, at) == lease.expires <= at

\* A queued run may be claimed when nobody holds it.
MayBeClaimed(lease, at) == \/ lease = None
                           \/ lease.released # None
                           \/ Lapsed(lease, at)

\* _proof_matches; run and tenant are matched by the key of the row.
ProofMatches(p, lease) ==
  /\ p.worker = lease.worker /\ p.claim = lease.claim
  /\ p.attempt = lease.attempt /\ p.token = lease.token

\* MUTANT of Authority: the status of the run does not matter.
AuthorityIgnoresStatus(p, lease, status, at) ==
  IF lease = None \/ ~ProofMatches(p, lease) \/ lease.released # None
  THEN "lease_not_current"
  ELSE IF Lapsed(lease, at) THEN "lease_expired" ELSE "authoritative"

\* _evaluate_authority.
Authority(p, lease, status, at) ==
  IF lease = None                                       THEN "lease_not_current"
  ELSE IF ~ProofMatches(p, lease)                       THEN "lease_not_current"
  ELSE IF lease.released # None \/ status \notin Workable THEN "lease_not_current"
  ELSE IF Lapsed(lease, at)                             THEN "lease_expired"
  ELSE "authoritative"

\* The row a claim leaves: attempt and version go on from the row it replaces.
NextLease(old, request, token, at) ==
  [worker    |-> request.worker,
   claim     |-> request.claim,
   token     |-> token,
   attempt   |-> IF old = None THEN 1 ELSE old.attempt + 1,
   version   |-> IF old = None THEN 1 ELSE old.version + 1,
   acquired  |-> at,
   heartbeat |-> at,
   expires   |-> at + request.duration,
   released  |-> None]

RenewedLease(lease, duration, at) ==
  [lease EXCEPT !.version = @ + 1, !.heartbeat = at, !.expires = at + duration]

ReleasedLease(lease, at) ==
  [lease EXCEPT !.version = @ + 1, !.released = at]

\* The CHECK constraints of worker_leases that a clock stepping back can break.
RowAllowed(lease) ==
  /\ lease.acquired <= lease.heartbeat
  /\ lease.heartbeat < lease.expires
  /\ lease.released # None => lease.acquired <= lease.released

\* renew applies: authority, and the version its sender has seen.
MayRenew(p, expected, lease, status, at) ==
  /\ Authority(p, lease, status, at) = "authoritative"
  /\ expected = lease.version

\* release applies: as renew, or to clean up after a run that needs no worker.
MayRelease(p, expected, lease, status, at) ==
  /\ ProofMatches(p, lease)
  /\ lease.released = None
  /\ expected = lease.version
  /\ status \notin Workable \/ Authority(p, lease, status, at) = "authoritative"

ClaimedReceipt(request, run, lease) ==
  [outcome |-> "claimed", worker |-> request.worker, duration |-> request.duration,
   run |-> run, attempt |-> lease.attempt, version |-> lease.version,
   acquired |-> lease.acquired, expires |-> lease.expires, token |-> lease.token]

NoWorkReceipt(request) ==
  [outcome |-> "no_work", worker |-> request.worker, duration |-> request.duration]

\* The normalized intent: what a claim id may be used again for.
SameIntent(receipt, request) ==
  receipt.worker = request.worker /\ receipt.duration = request.duration

\* The proof a claimed receipt hands out, first and replayed.
ProofOf(k, receipt) ==
  [run |-> receipt.run, worker |-> receipt.worker, claim |-> k,
   attempt |-> receipt.attempt, token |-> receipt.token]
=============================================================================
