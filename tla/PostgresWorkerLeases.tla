------------------------ MODULE PostgresWorkerLeases ------------------------
(***************************************************************************)
(* PostgreSQLWorkerLeaseRepository, and the commits of                     *)
(* PostgreSQLRunRepository that it must keep apart: claim, renew, release, *)
(* get_authority, commit_with_lease and the commit that needs no lease, as *)
(* READ COMMITTED transactions in which each await is a step.              *)
(*                                                                         *)
(* The transaction of a call is in the record of that call: held are the   *)
(* run rows it has locked (a lease row is only ever locked by a            *)
(* transaction that holds its run row), pc says which unique keys it has   *)
(* inserted, lease is the row it will leave.  Statements fail, connections *)
(* are lost and coroutines cancelled as in PostgresRunRepository: orphans  *)
(* are the transactions the server still has in hand.                      *)
(*                                                                         *)
(* now is the latest time the clock of the database has shown.  It is a    *)
(* wall clock: a reading lies up to StepBack behind it.                    *)
(***************************************************************************)
EXTENDS WorkerLeases, FiniteSets

CONSTANTS
  Callers,        \* coroutines that use the repositories
  Commands,       \* command ids of commits
  ClaimRequests,  \* the claim commands an instance sends
  Mistakes,       \* bound: those it sends only under an id that was answered before
  Ops,            \* the operations an instance uses
  Remembered,     \* the operations whose answers it keeps
  Faults,         \* the faults it has: failing transactions, commits in doubt
  StepBack,       \* how far the wall clock may step back
  MaxTime,        \* bound: the clock stops there
  MaxVersion,     \* bound: leases are not renewed or released beyond
  MaxOrphans      \* bound: transactions left behind at one time

ASSUME CallsAssumption ==
  /\ StepBack \in Nat /\ MaxTime \in Nat /\ MaxVersion \in Nat /\ MaxOrphans \in Nat
  /\ Callers \subseteq Tokens
  /\ ClaimRequests \cup Mistakes \subseteq
       [op : {"claim"}, claim : Claims, worker : Workers, duration : Durations]
  /\ Ops \subseteq {"claim", "renew", "release", "get_authority",
                    "commit_with_lease", "commit"}
  /\ Remembered \subseteq Ops
  /\ Faults \subseteq {"fail", "in_doubt"}

VARIABLES
  now,       \* the latest time the clock has shown
  runs,      \* runs[r]: the row of a run
  leases,    \* leases[r]: its current or latest lease, or None
  receipts,  \* receipts[k]: what a claim was answered, or None
  done,      \* done[q]: the receipt of a commit, or None
  call,      \* call[c]: what caller c is doing
  orphans    \* transactions whose clients are gone, each as its call was

store == <<runs, leases, receipts, done>>
vars == <<now, runs, leases, receipts, done, call, orphans>>

\* One reading of clock_timestamp().
Readings == {t \in 0 .. now : t >= now - StepBack}

CommandReceipt == [run : Runs, status : RunStatuses, version : Nat, attempt : Nat]

\* None is distinct from every record the tables hold, and from their abstraction.
ASSUME RowsAssumption ==
  /\ None \notin Lease
  /\ None \notin Receipt
  /\ None \notin CommandReceipt
  /\ None \notin [claim : Claims, attempt : Nat, until : Nat, ended : BOOLEAN]

CommitRequest ==
  [op : {"commit_with_lease"}, proof : Proof, command : Commands, run : Runs,
   expected : Nat, status : RunStatuses]
    \cup
  [op : {"commit"}, command : Commands, run : Runs, expected : Nat, status : RunStatuses]

Requests ==
  ClaimRequests \cup Mistakes
    \cup [op : {"renew"}, proof : Proof, expected : Nat, duration : Durations]
    \cup [op : {"release"}, proof : Proof, expected : Nat]
    \cup [op : {"get_authority"}, proof : Proof]
    \cup CommitRequest

IsCommit(req) == req.op \in {"commit", "commit_with_lease"}

AtRest == [pc |-> "idle", req |-> None, run |-> None, held |-> {}, seen |-> {},
           at |-> 0, lease |-> None, reply |-> None]

\* may_start_new_work of the outcome, what it names, and the claim it answers.
Answer(req, code, may_start, grant) ==
  [code |-> code, may_start |-> may_start, grant |-> grant,
   claim |-> IF req.op = "claim" THEN req.claim ELSE None]

\* The call has its answer; its transaction, if any, has ended.
Reply(c, code, may_start, grant) ==
  call' = [call EXCEPT ![c] =
             [AtRest EXCEPT !.reply = IF call[c].req.op \in Remembered
                                      THEN Answer(call[c].req, code, may_start, grant)
                                      ELSE None]]

Refuse(c, code) == Reply(c, code, FALSE, None)

Goto(c, pc) == call' = [call EXCEPT ![c].pc = pc]

\* What a grant tells its holder.
GrantOf(run, attempt, version, expires) ==
  [run |-> run, attempt |-> attempt, version |-> version, expires |-> expires]

GrantOfLease(run, lease) == GrantOf(run, lease.attempt, lease.version, lease.expires)
-----------------------------------------------------------------------------
(***************************************************************************)
(* Locks.                                                                  *)
(***************************************************************************)
Others(c) == {call[d] : d \in Callers \ {c}} \cup orphans

\* What a transaction has inserted and not yet committed.
HoldsLeaseKey(x, k) ==
  x.pc \in {"receipt", "write", "sent"} /\ x.lease # None
    /\ x.req.op = "claim" /\ x.req.claim = k

HoldsReceiptKey(x, k) ==
  x.pc \in {"write", "sent"} /\ x.req.op = "claim" /\ x.req.claim = k

HoldsCommandKey(x, q) ==
  x.pc \in {"lock", "write", "sent"} /\ IsCommit(x.req) /\ x.req.command = q

\* MUTANT of RunFree: row locks are not waited for.
NoRunWait(c, r) == TRUE

\* FOR UPDATE waits for the row, INSERT and UPDATE for an uncommitted unique key.
RunFree(c, r) == \A x \in Others(c) : r \notin x.held
LeaseKeyFree(c, k) == \A x \in Others(c) : ~HoldsLeaseKey(x, k)
ReceiptKeyFree(c, k) == \A x \in Others(c) : ~HoldsReceiptKey(x, k)
CommandKeyFree(c, q) == \A x \in Others(c) : ~HoldsCommandKey(x, q)
-----------------------------------------------------------------------------
(***************************************************************************)
(* Requests.  A caller may know the proof of every grant stored so far; a  *)
(* commit carries what the aggregate decided on the run as it is now, and  *)
(* is sent again as it was.                                                *)
(***************************************************************************)
KnownProofs ==
  {ProofOf(k, receipts[k]) :
     k \in {j \in Claims : receipts[j] # None /\ receipts[j].outcome = "claimed"}}

RenewRequests ==
  {[op |-> "renew", proof |-> p, expected |-> v, duration |-> d] :
     p \in KnownProofs, v \in 1 .. MaxVersion, d \in Durations}

ReleaseRequests ==
  {[op |-> "release", proof |-> p, expected |-> v] :
     p \in KnownProofs, v \in 1 .. MaxVersion}

\* A version its run's lease has had, so that its sender may have been told it.
VersionWasTold(req) ==
  req.op \in {"renew", "release"} =>
    /\ req.expected <= leases[req.proof.run].version
    /\ leases[req.proof.run].version < MaxVersion

AuthorityRequests == {[op |-> "get_authority", proof |-> p] : p \in KnownProofs}

FreshCommits ==
  {[op |-> "commit", command |-> q, run |-> r, expected |-> runs[r].version, status |-> s] :
     q \in Commands, r \in Runs, s \in RunStatuses}

Repeats ==
  {[op |-> "commit", command |-> q, run |-> done[q].run,
    expected |-> done[q].version - 1, status |-> done[q].status] :
     q \in {p \in Commands : done[p] # None}}

CommitRequests ==
  {req \in FreshCommits : req.status \in Follows[runs[req.run].status]} \cup Repeats

\* The same commit under a proof of its run.
Guarded(req, p) ==
  [op |-> "commit_with_lease", proof |-> p, command |-> req.command, run |-> req.run,
   expected |-> req.expected, status |-> req.status]

GuardedRequests ==
  {Guarded(req, p) : req \in CommitRequests, p \in KnownProofs}

Sendable ==
  ClaimRequests \cup {m \in Mistakes : receipts[m.claim] # None}
    \cup RenewRequests \cup ReleaseRequests \cup AuthorityRequests
    \cup CommitRequests \cup {req \in GuardedRequests : req.proof.run = req.run}

FirstStep(req) ==
  CASE req.op = "claim"             -> "clock"
    [] req.op = "get_authority"     -> "clock"
    [] req.op \in {"renew", "release"} -> "lock"
    [] IsCommit(req)                -> "arbitrate"

Request(c) ==
  /\ call[c].pc = "idle"
  /\ \E req \in Sendable :
       /\ req.op \in Ops
       /\ VersionWasTold(req)
       /\ call' = [call EXCEPT ![c] = [AtRest EXCEPT !.pc = FirstStep(req), !.req = req]]
  /\ UNCHANGED <<now, store, orphans>>

-----------------------------------------------------------------------------
(***************************************************************************)
(* claim.                                                                  *)
(***************************************************************************)
\* The clock is read, and the age of the claim id judged by it.  A call that
\* lost a race comes here again, on a new connection.
ReadClock(c) ==
  LET req == call[c].req
      lost == call[c].pc = "race"
  IN /\ call[c].pc \in {"clock", "race"}
     /\ \E t \in Readings :
          LET age == IF req.op = "claim" THEN ClaimAge(req.claim, t) ELSE "valid"
          IN IF age # "valid"
             THEN Refuse(c, age)
             ELSE call' = [call EXCEPT ![c].at = t,
                                       ![c].pc = IF req.op = "claim"
                                                 THEN (IF lost THEN "reload" ELSE "load")
                                                 ELSE "evaluate"]
     /\ UNCHANGED <<now, store, orphans>>

\* _load_receipt: a known claim id is replayed or refused; a new one goes on.
\* After a race there must be a receipt.
LoadReceipt(c) ==
  LET req == call[c].req
      stored == receipts[req.claim]
  IN /\ call[c].pc \in {"load", "reload"}
     /\ \/ /\ stored = None /\ call[c].pc = "load"
           /\ Goto(c, "select")
        \/ /\ stored = None /\ call[c].pc = "reload"
           /\ Refuse(c, "data_corruption")
        \/ /\ stored # None /\ ~SameIntent(stored, req)
           /\ Refuse(c, "idempotency_conflict")
        \/ /\ stored # None /\ SameIntent(stored, req)
           /\ Goto(c, "replay")
     /\ UNCHANGED <<now, store, orphans>>

\* _outcome_from_receipt: the outcome of then, its authority of now.
ReplayClaim(c) ==
  LET k == call[c].req.claim
      stored == receipts[k]
      grant == GrantOf(stored.run, stored.attempt, stored.version, stored.expires)
      authority == Authority(ProofOf(k, stored), leases[stored.run],
                             runs[stored.run].status, call[c].at)
  IN /\ call[c].pc = "replay"
     /\ IF stored.outcome = "no_work"
        THEN Refuse(c, "no_work")
        ELSE Reply(c, "claimed", authority = "authoritative", grant)
     /\ UNCHANGED <<now, store, orphans>>

\* Runs a statement sees as eligible, the oldest of them first in the queue.
Eligible(at) ==
  {r \in Runs : runs[r].status = "queued" /\ MayBeClaimed(leases[r], at)}

\* MUTANT of Lock: the row is selected without FOR UPDATE.
LookAtRow(c, r) ==
  call' = [call EXCEPT ![c].pc = "recheck", ![c].run = r, ![c].seen = {}]

\* The row lock is taken; the lease is looked at next.
Lock(c, r) ==
  call' = [call EXCEPT ![c].pc = "recheck", ![c].run = r, ![c].held = @ \cup {r},
                       ![c].seen = {}]

\* Both queries begin with what they see.
Select(c) ==
  LET eligible == Eligible(call[c].at)
  IN /\ call[c].pc \in {"select", "probe"}
     /\ \/ /\ call[c].pc = "select"
           /\ call' = [call EXCEPT ![c].pc = "skip_locked", ![c].seen = eligible]
        \/ /\ call[c].pc = "probe" /\ eligible = {}
           /\ Goto(c, "no_work")
        \/ /\ call[c].pc = "probe"
           /\ \E r \in eligible :
                call' = [call EXCEPT ![c].pc = "wait", ![c].run = r,
                                     ![c].seen = eligible \ {r}]
     /\ UNCHANGED <<now, store, orphans>>

\* MUTANT of SkipLocked: there is no second query.
SkipLockedOnly(c) ==
  LET unlocked == {r \in call[c].seen : RunFree(c, r) /\ runs[r].status = "queued"}
  IN /\ call[c].pc = "skip_locked"
     /\ IF unlocked # {} THEN \E r \in unlocked : Lock(c, r) ELSE Goto(c, "no_work")
     /\ UNCHANGED <<now, store, orphans>>

\* The fast path takes a row that nobody has locked and whose run is still
\* queued, if there is one: else the query is made again without SKIP LOCKED.
SkipLocked(c) ==
  LET unlocked == {r \in call[c].seen : RunFree(c, r) /\ runs[r].status = "queued"}
  IN /\ call[c].pc = "skip_locked"
     /\ IF unlocked # {}
        THEN \E r \in unlocked : Lock(c, r)
        ELSE call' = [call EXCEPT ![c].pc = "probe", ![c].seen = {}]
     /\ UNCHANGED <<now, store, orphans>>

\* The row the probe waits for is released.  If its run has left the queue
\* meanwhile the statement goes on to the next row it saw.
ProbeGetsRow(c) ==
  LET r == call[c].run
      rest == call[c].seen
  IN /\ call[c].pc = "wait"
     /\ RunFree(c, r)
     /\ IF runs[r].status = "queued"
        THEN Lock(c, r)
        ELSE IF rest = {}
        THEN Goto(c, "no_work")
        ELSE \E next \in rest :
               call' = [call EXCEPT ![c].run = next, ![c].seen = rest \ {next}]
     /\ UNCHANGED <<now, store, orphans>>

\* Under the row lock the lease is read again and the clock too.  A run that was
\* taken meanwhile stays locked, and the selection starts again.
Recheck(c) ==
  LET req == call[c].req
      r == call[c].run
  IN /\ call[c].pc = "recheck"
     /\ \E t \in Readings :
          IF MayBeClaimed(leases[r], t)
          THEN call' = [call EXCEPT ![c].pc = "store", ![c].at = 0,
                                    ![c].lease = NextLease(leases[r], req, c, t)]
          ELSE call' = [call EXCEPT ![c].pc = "select", ![c].at = t, ![c].run = None]
     /\ UNCHANGED <<now, store, orphans>>

\* MUTANT of LoseRace: the loser selects again instead of asking for the receipt.
LosersTryAgain(c) ==
  call' = [call EXCEPT ![c] = [AtRest EXCEPT !.pc = "select", !.req = call[c].req]]

\* _ClaimRaceLost: everything is rolled back, and the receipt of the winner read.
LoseRace(c) ==
  call' = [call EXCEPT ![c] = [AtRest EXCEPT !.pc = "race", !.req = call[c].req]]

\* MUTANT of StoreLease: a key that is not committed yet loses the race too.
StoreLeaseWithoutWaiting(c) ==
  LET k == call[c].req.claim
  IN /\ call[c].pc = "store"
     /\ IF ~LeaseKeyFree(c, k)
           \/ \E r \in Runs \ {call[c].run} : leases[r] # None /\ leases[r].claim = k
        THEN LoseRace(c)
        ELSE Goto(c, "receipt")
     /\ UNCHANGED <<now, store, orphans>>

\* _store_lease: uq_worker_leases_tenant_claim may know the claim id already.  A row
\* that carries it counts at once here; while somebody replaces the row PostgreSQL
\* waits, then lets the insert pass, and the receipt of that claim loses the race.
StoreLease(c) ==
  LET k == call[c].req.claim
  IN /\ call[c].pc = "store"
     /\ LeaseKeyFree(c, k)
     /\ IF \E r \in Runs \ {call[c].run} : leases[r] # None /\ leases[r].claim = k
        THEN LoseRace(c)
        ELSE Goto(c, "receipt")
     /\ UNCHANGED <<now, store, orphans>>

\* _insert_claim_receipt, of either outcome: the last word on a claim id.
InsertReceipt(c) ==
  LET k == call[c].req.claim
  IN /\ call[c].pc \in {"receipt", "no_work"}
     /\ ReceiptKeyFree(c, k)
     /\ IF receipts[k] # None THEN LoseRace(c) ELSE Goto(c, "write")
     /\ UNCHANGED <<now, store, orphans>>
-----------------------------------------------------------------------------
(***************************************************************************)
(* get_authority, renew and release.                                       *)
(***************************************************************************)
ReplyAuthority(c, code, lease) ==
  LET p == call[c].req.proof
  IN Reply(c, code, code = "authoritative",
           IF lease # None /\ ProofMatches(p, lease) THEN GrantOfLease(p.run, lease) ELSE None)

\* One statement reads lease and run without a lock.
Evaluate(c) ==
  LET p == call[c].req.proof
      lease == leases[p.run]
  IN /\ call[c].pc = "evaluate"
     /\ ReplyAuthority(c, Authority(p, lease, runs[p.run].status, call[c].at), lease)
     /\ UNCHANGED <<now, store, orphans>>

\* _conditional_mutation up to its UPDATE: run and lease are locked, then the
\* clock is read.  The status that comes with a missing lease is not the one of
\* the run, and a row the table does not admit is refused by the server.
DecideMutation(c) ==
  LET req == call[c].req
      p == req.proof
      lease == leases[p.run]
      status == runs[p.run].status
      Write(row) ==
        IF RowAllowed(row)
        THEN call' = [call EXCEPT ![c].pc = "write", ![c].run = p.run,
                                  ![c].held = {p.run}, ![c].lease = row]
        ELSE Refuse(c, "storage_unavailable")
  IN /\ call[c].pc = "lock" /\ req.op \in {"renew", "release"}
     /\ RunFree(c, p.run)
     /\ IF lease = None
        THEN Refuse(c, "data_corruption")
        ELSE \E t \in Readings :
               IF req.op = "renew" /\ MayRenew(p, req.expected, lease, status, t)
               THEN Write(RenewedLease(lease, req.duration, t))
               ELSE IF req.op = "release" /\ MayRelease(p, req.expected, lease, status, t)
               THEN Write(ReleasedLease(lease, t))
               ELSE ReplyAuthority(c, Authority(p, lease, status, t), lease)
     /\ UNCHANGED <<now, store, orphans>>
-----------------------------------------------------------------------------
(***************************************************************************)
(* commit and commit_with_lease.                                           *)
(***************************************************************************)
\* MUTANT of ArbitrateCommit: a guarded commit locks its run before the receipt.
RunBeforeReceipt(c) ==
  LET req == call[c].req
  IN /\ call[c].pc = "arbitrate"
     /\ \/ /\ req.op = "commit_with_lease" /\ call[c].held = {}
           /\ RunFree(c, req.run)
           /\ call' = [call EXCEPT ![c].held = {req.run}]
        \/ /\ req.op = "commit" \/ call[c].held # {}
           /\ CommandKeyFree(c, req.command)
           /\ IF done[req.command] = None THEN Goto(c, "lock") ELSE Refuse(c, "replayed")
     /\ UNCHANGED <<now, store, orphans>>

\* The receipt is inserted, or the one that is there replayed, whoever holds
\* the run now.
ArbitrateCommit(c) ==
  LET req == call[c].req
      stored == done[req.command]
  IN /\ call[c].pc = "arbitrate"
     /\ CommandKeyFree(c, req.command)
     /\ IF stored = None
        THEN Goto(c, "lock")
        ELSE IF <<stored.run, stored.status>> # <<req.run, req.status>>
        THEN Refuse(c, "idempotency_conflict")
        ELSE Refuse(c, "replayed")
     /\ UNCHANGED <<now, store, orphans>>

\* _validate_current_lease of the locked lease, at some reading of the clock.
Verdicts(req) ==
  IF req.op = "commit" THEN {"authoritative"}
  ELSE {Authority(req.proof, leases[req.run], runs[req.run].status, t) : t \in Readings}

\* Run and lease are locked, the clock is read, the lease judged before the
\* version of the run.
LockForCommit(c) ==
  LET req == call[c].req
      r == req.run
  IN /\ call[c].pc = "lock" /\ IsCommit(req)
     /\ RunFree(c, r)
     /\ \E authority \in Verdicts(req) :
          IF authority # "authoritative"
          THEN Refuse(c, authority)
          ELSE IF runs[r].version # req.expected
          THEN Refuse(c, "version_conflict")
          ELSE call' = [call EXCEPT ![c].pc = "write", ![c].run = r, ![c].held = {r}]
     /\ UNCHANGED <<now, store, orphans>>
-----------------------------------------------------------------------------
(***************************************************************************)
(* COMMIT, failures and what is left of them.                              *)
(***************************************************************************)
\* Everything is written, and COMMIT is sent.
SendCommit(c) ==
  /\ call[c].pc = "write"
  /\ Goto(c, "sent")
  /\ UNCHANGED <<now, store, orphans>>

AttemptOf(req) == IF req.op = "commit_with_lease" THEN req.proof.attempt ELSE 0

\* The effect of the transaction x.
Apply(x) ==
  LET req == x.req
  IN /\ leases' = IF x.lease = None THEN leases ELSE [leases EXCEPT ![x.run] = x.lease]
     /\ receipts' = IF req.op # "claim" THEN receipts
                    ELSE [receipts EXCEPT ![req.claim] =
                            IF x.lease = None THEN NoWorkReceipt(req)
                            ELSE ClaimedReceipt(req, x.run, x.lease)]
     /\ runs' = IF ~IsCommit(req) THEN runs
                ELSE [runs EXCEPT ![x.run] = [status  |-> req.status,
                                              version |-> req.expected + 1]]
     /\ done' = IF ~IsCommit(req) THEN done
                ELSE [done EXCEPT ![req.command] =
                        [run |-> req.run, status |-> req.status,
                         version |-> req.expected + 1, attempt |-> AttemptOf(req)]]

\* COMMIT is acknowledged.
Complete(c) ==
  LET x == call[c]
  IN /\ x.pc = "sent"
     /\ Apply(x)
     /\ CASE x.req.op = "claim" /\ x.lease = None -> Refuse(c, "no_work")
          [] x.req.op = "claim" /\ x.lease # None ->
               Reply(c, "claimed", TRUE, GrantOfLease(x.run, x.lease))
          [] x.req.op = "renew" ->
               Reply(c, "authoritative", TRUE, GrantOfLease(x.run, x.lease))
          [] x.req.op = "release" ->
               Reply(c, "released", FALSE, GrantOfLease(x.run, x.lease))
          [] IsCommit(x.req) -> Refuse(c, "committed")
     /\ UNCHANGED <<now, orphans>>

\* classify_storage_failure.
FailureCode(pc, rolled_back) ==
  IF pc = "sent" /\ ~rolled_back THEN "commit_outcome_unknown" ELSE "storage_unavailable"

\* The server has rolled everything back, and reports an error.
RollBack(c) ==
  /\ call[c].pc # "idle"
  /\ Refuse(c, FailureCode(call[c].pc, TRUE))
  /\ UNCHANGED <<now, store, orphans>>

\* A statement fails, or a connection is lost or a coroutine cancelled before COMMIT:
\* that the locks stay a little longer then is no more than a late failure.
Fail(c) == "fail" \in Faults /\ RollBack(c)

\* The connection is lost or the coroutine cancelled while COMMIT is under way: the
\* caller does not know whether it takes effect (of a cancelled one nobody asks).
LoseCommit(c) ==
  /\ "in_doubt" \in Faults /\ call[c].pc = "sent"
  /\ Cardinality(orphans) < MaxOrphans
  /\ Refuse(c, FailureCode("sent", FALSE))
  /\ orphans' = orphans \cup {call[c]}
  /\ UNCHANGED <<now, store>>

\* The server ends a transaction left behind; what it was sent to commit it may
\* have committed.
Resolve(o) ==
  /\ orphans' = orphans \ {o}
  /\ UNCHANGED store \/ Apply(o)
  /\ UNCHANGED <<now, call>>

\* Whose locks a call waits for.
WaitsFor(c, x) ==
  LET y == call[c]
  IN \/ y.pc = "wait" /\ y.run \in x.held
     \/ y.pc = "lock" /\ IsCommit(y.req) /\ y.req.run \in x.held
     \/ y.pc = "lock" /\ ~IsCommit(y.req) /\ y.req.proof.run \in x.held
     \/ y.pc = "store" /\ HoldsLeaseKey(x, y.req.claim)
     \/ y.pc \in {"receipt", "no_work"} /\ HoldsReceiptKey(x, y.req.claim)
     \/ y.pc = "arbitrate" /\ HoldsCommandKey(x, y.req.command)

\* c waits for itself by way of others: no set without c holds whomever c and the
\* members of the set wait for.
InCircle(c) ==
  ~\E S \in SUBSET (Callers \ {c}) :
     \A d \in S \cup {c} : \A e \in Callers \ {d} : WaitsFor(d, call[e]) => e \in S

\* A circle of waiting calls is found by the server, and one of them is failed.
DetectDeadlock(c) == InCircle(c) /\ RollBack(c)

Tick ==
  /\ now < MaxTime
  /\ now' = now + 1
  /\ UNCHANGED <<store, call, orphans>>

Progress(c) ==
  \/ ReadClock(c) \/ LoadReceipt(c) \/ ReplayClaim(c)
  \/ Select(c) \/ SkipLocked(c) \/ ProbeGetsRow(c) \/ Recheck(c)
  \/ StoreLease(c) \/ InsertReceipt(c)
  \/ Evaluate(c) \/ DecideMutation(c)
  \/ ArbitrateCommit(c) \/ LockForCommit(c)
  \/ SendCommit(c) \/ Complete(c)

Init ==
  /\ now = 0
  /\ runs = [r \in Runs |-> [status |-> "queued", version |-> 1]]
  /\ leases = [r \in Runs |-> None]
  /\ receipts = [k \in Claims |-> None]
  /\ done = [q \in Commands |-> None]
  /\ call = [c \in Callers |-> AtRest]
  /\ orphans = {}

Next ==
  \/ \E c \in Callers : Request(c) \/ Progress(c)
  \/ \E c \in Callers : Fail(c) \/ LoseCommit(c) \/ DetectDeadlock(c)
  \/ \E o \in orphans : Resolve(o)
  \/ Tick

Spec == Init /\ [][Next]_vars

\* Locks are granted in the order of their requests, so a call that could go on
\* again and again does; the server breaks circles of waiting transactions and ends
\* every transaction left behind.  No other failure and no timeout is assumed to
\* happen.
Fairness ==
  /\ \A c \in Callers : SF_vars(Progress(c) \/ DetectDeadlock(c))
  /\ WF_vars(\E o \in orphans : Resolve(o))

FairSpec == Spec /\ Fairness
-----------------------------------------------------------------------------
(***************************************************************************)
(* Properties.                                                             *)
(***************************************************************************)
ReplyCodes ==
  {"invalid_input", "idempotency_expired", "idempotency_conflict", "data_corruption",
   "no_work", "claimed", "lease_not_current", "lease_expired", "authoritative",
   "released", "version_conflict", "replayed", "committed",
   "storage_unavailable", "commit_outcome_unknown"}

Calls == [pc : {"idle", "clock", "race", "load", "reload", "replay", "select",
                "skip_locked", "probe", "wait", "recheck", "store", "receipt", "no_work", "evaluate",
                "arbitrate", "lock", "write", "sent"},
          req : Requests \cup {None}, run : Runs \cup {None},
          held : SUBSET Runs, seen : SUBSET Runs, at : Nat,
          lease : Lease \cup {None},
          reply : [code : ReplyCodes, may_start : BOOLEAN, claim : Claims \cup {None},
                   grant : {None} \cup
                     [run : Runs, attempt : Nat, version : Nat, expires : Nat]] \cup {None}]

\* What the tables hold, and what each call has read and locked at its await:
\* a transaction that is about to write holds the row of its run.
LeaseTypeOK ==
  /\ now \in Nat
  /\ runs \in [Runs -> Run]
  /\ leases \in [Runs -> Lease \cup {None}]
  /\ receipts \in [Claims -> Receipt \cup {None}]
  /\ done \in [Commands -> CommandReceipt \cup {None}]
  /\ call \in [Callers -> Calls]
  /\ orphans \subseteq Calls
  /\ \A x \in {call[c] : c \in Callers} \cup orphans :
       /\ x.pc \in {"recheck", "store", "receipt"} => x.run \in x.held
       /\ x.pc \in {"write", "sent"} /\ (x.lease # None \/ IsCommit(x.req))
            => x.run \in x.held /\ (x.lease # None => RowAllowed(x.lease))

\* The promise of worker leases (specs/006 contract): whatever calls, failures and
\* late commits do, the tables move as LeaseAuthority allows.
Authorities == INSTANCE LeaseAuthority WITH
  status <- [r \in Runs |-> runs[r].status],
  holder <- [r \in Runs |->
               IF leases[r] = None THEN None
               ELSE [claim |-> leases[r].claim, attempt |-> leases[r].attempt,
                     until |-> leases[r].expires, ended |-> leases[r].released # None]],
  answer <- [k \in Claims |->
               IF receipts[k] = None THEN None
               ELSE IF receipts[k].outcome = "no_work" THEN "no_work"
               ELSE [run |-> receipts[k].run, attempt |-> receipts[k].attempt]],
  done <- [q \in Commands |->
             IF done[q] = None THEN None
             ELSE [run |-> done[q].run, attempt |-> done[q].attempt]]

ImplementsAuthority == Authorities!AuthoritySpec

\* Leases and claim receipts tell one story, although they are written by
\* different statements and leases are replaced: the lease of a run is the grant
\* of its claim's receipt, no other claim was granted the same attempt, and every
\* earlier attempt belongs to some claim (claim, _ClaimRaceLost).
Granted(k) == receipts[k] # None /\ receipts[k].outcome = "claimed"
ClaimsAreHonest ==
  /\ \A r \in Runs : leases[r] # None =>
       LET k == leases[r].claim
       IN /\ Granted(k)
          /\ receipts[k].run = r
          /\ ProofMatches(ProofOf(k, receipts[k]), leases[r])
          /\ \A a \in 1 .. leases[r].attempt :
               \E j \in Claims : Granted(j) /\ receipts[j].run = r /\ receipts[j].attempt = a
  /\ \A j, k \in Claims :
       (Granted(j) /\ Granted(k) /\ receipts[j].run = receipts[k].run
          /\ receipts[j].attempt = receipts[k].attempt) => j = k
  /\ \A k \in Claims : Granted(k) =>
       leases[receipts[k].run] # None /\ receipts[k].attempt <= leases[receipts[k].run].attempt

\* A grant is only moved by its holder, one version at a time: a renewal or release
\* decided long before it commits, or whose client is gone, misses the grant that came
\* after and overwrites no other change (the UPDATE under the row locks, _proof_matches).
HolderMovesItsLease ==
  [][\A r \in Runs :
       (leases[r] # None /\ leases'[r] # leases[r]) =>
         /\ leases'[r] # None /\ leases'[r].version = leases[r].version + 1
         /\ \/ leases'[r].attempt = leases[r].attempt + 1
            \/ /\ leases'[r].attempt = leases[r].attempt
               /\ \E x \in {call[c] : c \in Callers} \cup orphans :
                    /\ x.pc = "sent" /\ x.req.op \in {"renew", "release"}
                    /\ x.req.proof.run = r /\ ProofMatches(x.req.proof, leases[r])]_vars

\* Two workers are never both told to work on one run under different grants, as
\* long as each keeps to the expiry it was told: with a clock that does not step
\* back, one duration, and nobody releasing (may_start_new_work).
Believes(c, run) ==
  /\ call[c].reply # None
  /\ call[c].reply.may_start
  /\ call[c].reply.grant.run = run
  /\ call[c].reply.grant.expires > now
WorkersDoNotOverlap ==
  \A c, d \in Callers : \A r \in Runs :
    Believes(c, r) /\ Believes(d, r) =>
      call[c].reply.grant.attempt = call[d].reply.grant.attempt

\* A guarded commit changes a run under the current, unreleased grant only, also
\* when its proof was checked long before it commits (commit_with_lease).
WorkIsFenced ==
  [][\A q \in Commands :
       (done[q] = None /\ done'[q] # None /\ done'[q].attempt # 0) =>
         LET lease == leases[done'[q].run]
         IN lease.attempt = done'[q].attempt /\ lease.released = None]_vars

\* A claim is answered from what is stored: never corrupt data after a lost race,
\* the same run and attempt each time it is asked.
ClaimRepliesAreStored ==
  \A c \in Callers :
    (call[c].reply # None /\ call[c].reply.claim # None) =>
      LET reply == call[c].reply
          stored == receipts[reply.claim]
      IN /\ reply.code # "data_corruption"
         /\ reply.code = "no_work" => stored # None /\ stored.outcome = "no_work"
         /\ reply.code = "claimed" =>
              /\ stored # None /\ stored.outcome = "claimed"
              /\ reply.grant.run = stored.run /\ reply.grant.attempt = stored.attempt

\* Transactions lock in one order (receipt of a command, run, lease): none but
\* claims, which keep the runs they looked at in vain, ever wait in a circle.
OnlyClaimsDeadlock ==
  \A c \in Callers : InCircle(c) => call[c].req.op = "claim" /\ call[c].held # {}

\* Every call is answered, whoever it waits for.
EveryCallReturns == \A c \in Callers : call[c].pc # "idle" ~> call[c].pc = "idle"
=============================================================================
