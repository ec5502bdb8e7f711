# Verification of the ZHIYI Run kernel

TLA+ modules, TLC configurations and TLAPS proofs about the Python program under
`src/src/zhiyi`: a kernel that keeps the life of agent *runs* (states, budget,
event log, idempotent commands), stores it in memory or in PostgreSQL, hands
queued runs to workers under leases, and calls language models through a gateway.

## 1. The system

| Component | State it keeps | Operations | How it interacts |
|---|---|---|---|
| Run aggregate, `domain/runs/aggregate.py`, `events.py`, `results.py` | an immutable `Run` snapshot | `create`, `start`, `wait_for_*`, `resume`, `succeed`, `fail`, `cancel`, `consume_budget`, `enforce_deadline` | pure; returns a new snapshot and at most one event |
| Budget, `domain/runs/budget.py` | usage and the fingerprint of each charge | `BudgetSnapshot.apply` | called by the aggregate |
| Lifecycle service, `application/services/run_lifecycle.py` | none; the locals of one coroutine | one method per command, `get_run`, `list_events` | find_command, load, clock, aggregate, commit: several awaits |
| Commit validator, `application/ports/run_repository_validation.py` | none | `validate_commit_candidate` | called by both repositories under their lock |
| Memory repository | runs, events, receipts, one `asyncio.Lock` | `load`, `list_events`, `find_command`, `commit` | copy, validate, swap |
| PostgreSQL repository | three tables | the same, and `commit_with_lease` | one READ COMMITTED transaction per commit: receipt, run row, event |
| Worker leases, `domain/worker_leases`, `postgresql_worker_lease_repository.py` | one lease per run, one receipt per claim id | `claim`, `renew`, `release`, `get_authority`, queries of inactive runs | lock run then lease; guarded commits lock receipt, run, lease |
| Model gateway, `application/services/model_gateway.py` | the locals of one call, one breaker and one bucket per target | `complete`, `stream` | admission, secret, provider, retry, fallback, under one deadline |
| Circuit breaker, `circuit_breaker.py` | state, failures, probe slot | `before_call`, `record_*` | shared by all calls of a target |
| Token bucket, `rate_limiter.py` | tokens, an `asyncio.Lock` | `acquire` | its lock is held while its holder sleeps |
| Codecs, schema check, engine, migrations, adapters, secrets, scripts | none that the kernel decides on | | |

What is hard in it:

* a snapshot is read in one await and used in another, so every command is a race
  with every other command of its run;
* commands are retried, by callers that do not know whether they took effect, and
  concurrently with the first attempt;
* a commit is several statements, each of which can fail, be cancelled, or be
  followed by a lost connection; a lost COMMIT acknowledgement leaves a doubt;
* several kinds of locks (receipt keys, claim ids, run rows, lease rows) are held
  across statements, and claims pass over rows others have locked;
* leases end by a clock, with no statement that says so, between the check of a
  proof and the commit of the work done under it;
* a claim races with other claims for one run, and with itself under one claim id;
* calls share the breaker of a target and report to it late, when it has moved on;
* a streaming provider may fail or fall silent after part of its answer was shown,
  and its consumer may walk away at any chunk;
* clocks of several machines stamp one log, and may step back;
* the transition table, the table of previous statuses of events and the table of
  event types of commands are three tables kept by hand.

What makes each component correct is stated as properties in section 4; the
`hazards` of `PROJECT.json` list the lines where it could fail, the ones not yet
covered included.

## 2. Modules

```
RunAggregate           pure: transition table, budget, one decision per command
  RunStore             snapshots, logs, receipts; validator; Record = one commit
    RunHistory         ABSTRACT: accepted commands take effect one at a time
      RunLifecycle     the service: one step per await, callers interleaved
        MemoryRunRepository     commit is one step under a lock
        PostgresRunRepository   commit is a transaction of statements
    RunScenarios       commands and budget of the small instances

LeaseAuthority         ABSTRACT: one claim at a time works on a run
WorkerLeases           pure: lease rows, proofs, one decision per operation
  PostgresWorkerLeases      claims, renewals, releases, commits as transactions

CircuitBreaker         pure: one breaker
  ModelGateway         complete: calls that share breakers, timers, cancellation
    ModelStream        stream: chunks, consumer, iterator
RateLimit              ABSTRACT: credit flows in, calls take tokens of it
TokenBucket            the bucket, its lock, its sleepers

MC*                    instances for TLC
RunHistoryProofs, RunLifecycleProofs, MemoryRunRepositoryProofs,
PostgresRunRepositoryProofs, PostgresWorkerLeasesProofs,
ModelGatewayProofs, ModelStreamProofs, TokenBucketProofs       theorems
```

**RunAggregate** translates the aggregate. `Change` is `_change`, the one place
where successors are built; `Moves` lists what the seven status commands differ
in: the guard of the method, the target it asks the table for, its event, and the
previous statuses this event accepts. `Move` keeps the order of the code: the
method and the table raise `illegal_transition`, `Run.fail` raises `ValueError` for an
error that does not belong to FAILED (`OtherError`), and so does the event constructor
for a previous status it does not accept. `ConsumeBudget` keeps the order status, charge lookup, deadline,
limits. A datetime and a Decimal are natural numbers, a charge fingerprint is
the charge, answers, references and identifiers' spelling are left out: no
decision looks at them.

**RunStore** is what both adapters keep for one tenant (all keys start with the
tenant). A command is an id and an *intent*; like the fingerprint in the code,
the intent holds neither id nor expected version. Event ids never repeat, so an
event is named by its place in the log. `Record` is the effect of a commit.

**RunHistory** is the abstract specification: an accepted command takes effect
atomically, once, as the decision of the aggregate on the run as it is *now*. It
has no callers, versions, locks or failures.

**RunLifecycle** is the service. `call[c]` is the coroutine of caller `c`: its
`pc` names the await it is in, its other fields are its locals. `Request` may
send any command with any expected version; `LoadAndDecide` is `_mutate` from
`load` to `commit` (no await lies in between once load has returned), with
`DeadlineAllows` the early return of `enforce_deadline`. The wall clock returns
any element of `Times`, at any time. Expected version 0 stands for creation, as
in the code. `BuildRun` gets a run id that nobody else uses: that is the contract
of `IdentifierGenerator`.

**MemoryRunRepository**: `find_command` and `commit`. Between taking and leaving
the lock `commit` does not await, so it is one action; `swap_failed` is the
exception `before_swap` may raise.

**PostgresRunRepository** cuts the commit at its awaits: `Arbitrate` (insert the
receipt, or wait for the key and replay), `LockRow` (`SELECT ... FOR UPDATE`,
version, validator), `SendCommit`, `Complete`. `KeyFree` and `RowFree` are what
the two statements wait for. `Fail` is a reported error after which nothing is
left of the transaction; `Drop` is a lost connection or a cancelled coroutine,
after which the server still holds the transaction: it moves to `orphans` with
its locks, and `Resolve` later rolls it back or, if COMMIT was sent, may commit
it. Isolation, unique keys and rollback are modelled as PostgreSQL documents them
and as the code relies on them (`Resolve` and `Reserved` are marked external).
A lost acknowledgement after a commit and one before it followed by the commit
are the same to every other caller, so only the second is an action.

**LeaseAuthority** is the second abstract specification: a queued run that nobody
holds is granted to a claim that was not answered before, work is recorded for the
attempt that holds the run at that moment, and only somebody who needs no lease may
change it otherwise. `Refuse` lets a claim hear that there is no work only when every
queued run has been given to somebody. It has no callers, rows, locks or failures.

**WorkerLeases** has the rows and, as functions of a row, a proof and one reading of
the clock, what the code decides: `ClaimAge`, `MayBeClaimed`, `Authority`
(`_evaluate_authority`, in its order), `MayRenew`, `MayRelease`, `NextLease`. A run is
its status and version; `Follows` is the transition table as far as leases tell
statuses apart. A token is the caller that drew it, a claim id has the time in it
(`IssuedAt`). `RowAllowed` are the CHECK constraints a clock can break.

**PostgresWorkerLeases** runs the six operations that take part in the protocol:
`claim`, `renew`, `release`, `get_authority`, `commit_with_lease` and the plain
`commit`. `call[c]` is a coroutine with its transaction: `held` are the run rows it has
locked (a lease row is only locked behind its run row, so it needs no lock of its own),
`pc` says which unique keys it has inserted, `lease` is the row it will leave. A claim
goes `ReadClock`, `LoadReceipt`, `Select`, `SkipLocked`, `ProbeGetsRow`, `Recheck`,
`StoreLease`, `InsertReceipt`, `SendCommit`, `Complete`; both queries are a snapshot
(`Select`) followed by locks, so that what they saw may be stale. `LoseRace` is
`_ClaimRaceLost`: rollback, and the receipt of the winner on another connection. Row
locks of rejected candidates stay until the transaction ends, as in the loop of
`_claim_transaction`. `DetectDeadlock` is the server's detector: one call of a circle
of waiters fails. `LoseCommit` is a COMMIT in doubt: its transaction becomes an orphan
with its locks, and `Resolve` applies or drops it. A lost connection or a cancelled
coroutine *before* COMMIT is `Fail`: the server rolls back, and locks that stay a little
longer differ from a failure that comes later in nothing. `StoreLease` meets a committed
lease row with its own claim id at once; PostgreSQL would first wait for a transaction
that is replacing this row. Either way the claim has lost and answers from the receipt of
its id, which was committed with that row and stays. The clock is a wall clock,
read separately by each statement (`Readings`).

**CircuitBreaker** is a record and what the methods make of it. **ModelGateway** is
`complete`. asyncio runs one task until it waits: `running` is that task, and every step
between two waits belongs to it. `left` is what remains of the total deadline, `due`
the `asyncio.timeout` or sleep the task waits under, in ticks; `Tick` needs that nothing
is due, so no timer is passed over, while a timer and an answer of the same moment may
come in either order. Rate limiter, secret store and provider answer, fail or stay
silent. `FailAttempt` is all that follows an error: the breaker, the record, then
`BackOff`, `FallBack` or `Raise`. **ModelStream** extends it to `stream`, with the
shared admission, secret and back-off steps: `part[c]` holds the locals of an attempt,
`out[c]` what the consumer was given, `iterator[c]` the provider iterator that is open.
`Emit` yields one part of a chunk and then the generator is in the consumer's hands: no
timer runs, and `ConsumerStops` closes it there. A chunk may hold text, tool deltas,
usage and structured output at once, as the port allows. Secret stores and providers
fail with any code of `Raised`, which holds `unknown` for errors the gateway does not
know, when they are called, opened, read or closed. Two liberties: a `ModelError` that
overrides what its code says of retries or fallback is left out (no adapter raises one),
and an error of `aclose` after the consumer closed the stream ends it like any other
error, while Python would refuse the chunk the generator then yields. The numbers in
usage, costs, finish reasons and
telemetry are left out, since nothing is decided by them.

**TokenBucket** is `acquire`, with a token of `Token` units so that rates are whole
numbers; the head of `queue` holds the `asyncio.Lock`. **RateLimit** is what a caller
relies on. In ModelGateway the bucket is a wait of any length: it adds no order among
callers that the bucket could forbid.

## 3. Runs

| Run | Question | Result |
|---|---|---|
| `memory_budget` | one budget, charges repeated under other ids, reused charge ids, an overrun of the derived total, a deadline | holds |
| `memory_lifecycle` | waiting, resuming, racing endings, a failure with an error that is none, ids reused for another intent | holds |
| `postgres_race` | creation, start, charge, deadline and cancel as transactions, one left behind on the server | holds |
| `postgres_liveness` | does every call return although calls wait for keys, rows and lost clients | holds |
| `lease_claims` | two callers, two runs, two claim ids, one of them also used by the wrong worker, a commit in doubt; leases and the replay window end | holds |
| `lease_work` | all six operations on one run, failures, a commit in doubt | holds |
| `gateway_calls` | two calls share two breakers: retries, fallback, deadlines, cancellation | holds |
| `streams` | one stream, every kind of chunk, silence, failures, a consumer that stops | holds |
| `token_bucket` | three tasks at a bucket that holds two tokens and takes two ticks for one | holds |
| `one_probe` | does a half-open circuit admit one probe at a time (specs/003) | **violated** |
| `start_from_waiting` | is every illegal move a stable conflict error (specs/004) | **violated** |
| `postgres_replay` | is a replay ever called corrupt data (specs/005) | **violated** |

Bounds, and why they are enough to be worth something:

* **two callers**: a race needs two; one caller repeats itself by sending one
  command again, and everything sent earlier is in the store. The callers are
  interchangeable, hence the symmetry (the liveness run does without it);
* **one run that commands aim at, two run ids**: a creation that is sent twice can
  leave a second run id behind; commands never touch two runs;
* **three to five command ids**, several of them used for two intents, so that
  idempotency conflicts happen;
* **`Times`**: where deadlines matter, two instants, so that the clock reads before
  or at `Deadline` and steps back; the lifecycle instances keep one instant, before
  the deadline;
* **`Versions` 1..4**: current, stale and future versions of runs that reach version
  4; logs end because command ids do;
* **budget**: two steps, three tokens each way, four in total; a charge reaches the
  limit, exceeds it, and one exceeds only the total;
* **`MaxOrphans` = 1**: one transaction left behind at a time, next to the
  transactions of two callers. The proof has no such bound.

* **leases**: two callers (a race needs two), claims for one tick and a clock that shows
  two instants, so that a lease is current, then over; `lease_claims` has a second run,
  because SKIP LOCKED and circles of claims need one, and claims only. A circle needs
  two claims that each keep a run they were refused, and a third that took those runs:
  the third is a commit in doubt (`MaxOrphans` = 1). `Mistakes` are claims under an id of
  another worker's, sent once that id was answered. `lease_work` has one run and one
  worker that claims twice, so that its proofs differ in claim, attempt and token alone,
  and renewals for one or two ticks, so that one prolongs a lease; leases are renewed or released up to version 2 (`MaxVersion`), claimed beyond;
  `Remembered` keeps the answers of the operations whose answers a property reads.
  Claim ids are issued at different times, so that one is refused as too old while the
  other still counts. `StepBack` = 0: what a clock stepping back does is listed under
  hazards;
* **gateway**: a route of two targets, one retry each, a total of two ticks and an
  attempt of one, so that the deadline passes in attempts, back-offs and waits for
  tokens or secrets; a threshold of two failures and one tick of recovery, so that
  circuits open, cool down and probe; one error worth a retry (`unavailable`) and one that
is none (`unknown`), since the gateway tells errors apart by that alone. In
  `one_probe` a threshold of one and a single target are enough;
* **streams**: chunks of each kind, text together with a tool delta among them, at most
  two per attempt, a contradicting tool delta and a second structured output included; one caller, because breakers
  shared between callers are the subject of `gateway_calls`.

CHECK_DEADLOCK is on everywhere.

**Fairness.** `lease_claims`: strong fairness of each call's next step or of the deadlock
detector failing it, weak fairness of the server ending orphans; no failure and no
lock timeout is assumed. `gateway_calls` and `streams`: a task that can run again and
again does, timers fire, and time passes; providers, secret stores and the rate limiter
need not answer. `streams` also assumes that closing an iterator ends (nothing in the code
bounds `aclose`, although `specs/003-llm-provider/spec.md:70` asks that a call that ran
into a timeout end in finite time) and that a consumer goes on or closes its stream. `token_bucket`: the
lock is handed on, sleeps end, time passes. `postgres_liveness`: strong fairness of `Progress(c)` for each
caller: a call that can go on again and again does, because PostgreSQL grants
locks in the order of the requests and the event loop is fair. Weak fairness of
`Resolve`: the server ends every transaction whose client is gone. No failure and
no timeout is assumed, so the result says that lock timeouts are not what makes
calls return.

**The three violations.** (1) `Run.start` relies on the transition table, which
admits `waiting_* -> running`; the `run.started` event accepts only `queued` as
its previous status, so a start of a waiting run escapes as `ValueError` instead
of `illegal_transition`. Nothing is stored. (2) `consume_budget` on an exhausted
budget commits a receipt whose event is `run.limit_exceeded`; the PostgreSQL
adapter expects `run.budget_consumed` of every such receipt, and answers each
replay of the command with `data_corruption`. The memory adapter replays it. (3) A call
admitted while the circuit was closed may be cancelled after it opened and became half
open for the probe of another call: `record_cancelled` asks for the state of the breaker
only, frees the slot that is not its own, and a second probe is let through. Late
successes and failures of stale calls also move the breaker, which the documents leave
open.

**Seen while modelling, without a run** (the case lies outside of the runs, or no document
says otherwise; of `aclose` spec.md:70 of specs/003 does, which asks for a bounded end): a fallback begun after the total deadline is admitted and counted
as a failure of a target that was never called; `aclose` has no timeout; the time of a
slow consumer is charged to the provider; a renewal after the clock stepped back before
the acquisition is refused by a CHECK constraint as `storage_unavailable`; `renew` and
`release` of a run without any lease answer `data_corruption` instead of not current.

## 4. Properties

* `LifecycleTypeOK`: types of the store (`StoreTypeOK`) and of the calls, and the shape of
  a call at each await.
* `HistoryMatchesRun`: log and snapshot tell one story (numbering, legal
  transitions, status, result).
* `ReceiptsExplainHistory`: every event belongs to exactly one receipt, and receipts
  name events their command may leave.
* `BudgetIsSpentOnce`: usage is the sum of the recorded charges, each once, within
  every limit.
* `TimeMovesForward`: logs never step back, no charge after the deadline.
* `TerminalFrozen`, `AppendOnly`: what no step may do to ended runs, events, receipts.
* `SnapshotsAgree`: equal versions mean equal snapshots, so that comparing versions
  is enough to detect a stale read.
* `RepliesAreStored`: receipts given to callers, first or replayed, are the stored
  ones.
* `NeverInvariantViolation`: no race reaches the validator with a bad candidate.
* `ImplementsHistory`: the refinement; the abstract variables are the store itself,
  so the mapping is the identity, and calls, locks and doubts are hidden.
* `FailureMeansNoEffect`: a call that ends in a definite failure changed nothing and
  left no COMMIT in the server's hands.
* `InDoubtStillApplies`: a COMMIT in doubt still extends the current state of its run.
* `EveryCallReturns`: lock waits never close a circle; for leases, where claims may
  close one, every call is answered all the same.

Leases:

* `LeaseTypeOK`: types, and that a transaction that is about to write holds its rows.
* `ImplementsAuthority`: the refinement of LeaseAuthority. The mapping forgets workers,
  tokens, versions and calls, and keeps holder, attempt and expiry of each run, the
  answer of each claim, and the attempt each command was done for.
* `ClaimsAreHonest`: leases and claim receipts, written by different statements, tell
  one story: the lease of a run is the grant of its claim's receipt, attempts are
  numbered without gaps and given once.
* `HolderMovesItsLease`: only the next claim or a call with the proof of the grant that
  is there changes a lease, one version at a time, late commits included.
* `WorkIsFenced`: a guarded commit takes effect under the current grant only.
* `WorkersDoNotOverlap`: no two workers are told to work on one run under different
  grants while both keep to the expiry they were told.
* `ClaimRepliesAreStored`: a claim is answered from what is stored, and never
  `data_corruption` after a lost race.
* `OnlyClaimsDeadlock`: the lock order receipt, run, lease keeps everything but claims
  out of circles. With one run `lease_work` has no circle of claims to show: that is
  `EveryCallReturns` in `lease_claims`, and for all instances `OnlyClaimsAreDeadlocked`.

Gateway:

* `GatewayTypeOK`: types, and that a call that waits for its target was admitted by it.
* `ReturnsByDeadline`: no call outlives its total deadline.
* `AttemptsFollowTheRoute`: the recorded attempts are a legal walk along the route.
* `CircuitsReadmit`: no target is shut off for good, however its probes end.
* `ProbeSlotIsOwned`: a taken probe slot belongs to a call that is under way.
* `NothingIsReplayed`, `StreamEndsOnce`: what a consumer saw is neither shown again nor
  lost, and its stream ends by one last chunk.
* `IteratorsAreClosed`: no provider iterator is left open.
* `EveryStreamEnds`: timeouts end the stream of a silent provider.
* `ImplementsRateLimit`: lazily refilled tokens, queueing and cancelling amount to a
  bucket that fills all the time. `EveryWaiterIsServed`: whoever stays gets a token.

## 5. Proofs

All proofs hold for any callers, runs, commands, budgets, routes, timeouts and clock
readings. They rest on the named assumptions about constants only, which TLC evaluates
in the runs: commands are commands, numbers are natural, a route names its targets once,
and `None` is none of the records it stands beside (`StoreAssumption`,
`TimesAssumption`, `LifecycleAssumption`, `OrphansAssumption`, `LeasesAssumption`,
`CallsAssumption`, `RowsAssumption`, `GatewayAssumption`, `NoneAssumption`,
`StreamAssumption`, `BucketAssumption`). One theorem assumes more, and says so:
`WorkersStayApart`. Every safety invariant and every action property that a passing run
checks is a theorem, and so are the three refinements.

### Runs

* `RunHistoryProofs`. `IInv` is `StoreTypeOK`, `HistoryMatchesRun`,
  `TimeMovesForward` and `BudgetIsSpentOnce` together: none of them is inductive
  alone, since the next event must be legal for the snapshot, and the snapshot's
  usage and time are those of the last event. `Extends` says what any decision may
  do to a snapshot; `DecideExtends` shows it of every command, and
  `ExtendsKeepsLogOK` that appending such an event keeps a log right. From these:
  `TypeCorrect`, `HistoryIsTold`, `TimeIsMonotone`, `ChargesAreSpentOnce`,
  `EndedRunsAreFrozen`, `HistoryIsAppendOnly`. `ReceiptsAccountForEvents` is inductive
  beside `IInv`: `DecideLeaves` shows which events a command may leave, hence what its
  receipt says (`Explains`); the event of a step has a number that was not in the log,
  while all earlier receipts name numbers that were, so it is claimed once.
* `RunLifecycleProofs`. `LifecycleInv` adds the shape of calls (what is about to be
  committed *is* the decision of its command on the loaded snapshot) and
  `SnapshotsAgree`. `RecordIsHistoryStep` is the core of the refinement: with the
  expected version still current, the loaded snapshot is the current one, hence the
  decision is the decision of now. `PendingIsValid` shows of the same decision that the
  commit validator accepts it. `RepliesStand` is what callers were told: it survives
  because receipts stay, and every step leaves a reply that stands (`Answers`).
* `MemoryRunRepositoryProofs`. `MemoryImplementsHistory`, and through it the
  promises of RunHistory, receipts included; `MemoryRepliesAreStored` and
  `MemoryNeverInvariantViolation`.
* `PostgresRunRepositoryProofs`. `PgInv` adds what the locks are for: transactions
  that hold keys or rows hold different ones (`Apart`), and what such a transaction
  relies on stays true until it ends (`Undisturbed`: its command has no receipt, its
  expected version is current), also for those whose client is gone.
  `RecordDisturbsNobody` is where the locks pay. From it: `PostgresImplementsHistory`,
  the same consequences as for memory, `PostgresInDoubtStillApplies`, and
  `PostgresFailureMeansNoEffect`, which needs of the invariant only that one call moves
  at a time: a definite failure is never the answer to a COMMIT that was sent.

### Leases

`LeaseInv` of `PostgresWorkerLeasesProofs` is `LeaseTypeOK`, `ClaimsAreHonest`,
`ClaimRepliesAreStored`, `RecordsOK` (a recorded command is one its run has left
behind) and `TransactionsOK`. The last is the interesting one and has three parts for
each transaction, orphans included: `Shaped`, what a call at this statement has in hand;
`Stands`, what it relies on in the tables as they are *now* (a claim that will write
holds a queued row whose lease is over or not there, a renewal holds the lease its proof
was compared with, a claim that will say "no work" knows every queued run given away, a
commit knows its command unrecorded and its version not behind); and `Apart`, that
transactions hold different rows, receipt keys and command keys. What a call saw without a lock
is in `Stands` only as far as it lasts: a run once given to somebody stays given, so
"no work" may be answered from an old snapshot, while a lease must be read again under
the lock (`Recheck`), which is why that step exists.

The refinement then needs one remark: the tables move only by `Apply` of a transaction
that was sent, and such a transaction may rely on its `Stands`, whether its caller still
waits or is long gone. So a claim maps to a grant of LeaseAuthority, a guarded commit to
work under the grant that is there, and everything else to a stutter, a renewal or a
release (`LeasesImplementAuthority`). `OnlyHoldersMoveLeases` and `GuardedWorkIsFenced`
read the same facts at the two places where they matter. `OnlyClaimsAreDeadlocked` is
the lock order: a command key is taken before the run row and the run row before the
lease, and only a claim keeps a run while it waits for something else, so that a circle
of waiting calls cannot close through anything but claims that hold runs.

`WorkersStayApart` assumes `SteadyLeases`: a clock that does not step back, leases of one
length, and no releases. Each is needed. A stepped back clock grants a run whose old
holder still reads a time before its expiry; a renewal for a shorter time takes back
what was promised; a release ends a grant whose expiry somebody may still keep to.
`OverlapInv` says that a lease is never promised for longer than one granted now would
be, and that whatever a worker was told is the current attempt or over.

### Gateway, streams, bucket

* `ModelGatewayProofs`. `GatewayInv` describes a call at each of its waits
  (`CallStands`): which timer it has, that it was admitted by the breaker of the target
  it waits for, that `running` is the one call that waits for nothing, and that its failed
  attempts are a `Walk`: so many tries of the target it stands at, none of the later
  ones, and the reason why it came there. `Walk` is what makes `AttemptsFollowTheRoute`
  inductive, because back-off and fallback need to know the last error, not only the
  list. `CompleteInv` adds that a call of `complete` only ever waits under a timer no
  later than its deadline. Theorems: `CallsStayInOrder`, `GatewayTypeCorrect`,
  `CallsReturnByDeadline`, `ProbesAreOwned`, `AttemptsAreWalks`.
* `ModelStreamProofs`. `StreamInv` adds `StreamCall`, the agreement of what the
  consumer was given, what the attempt collected and where the call stands: a visible
  chunk belongs to the attempt under way, collected text is shown text, and once
  something was shown a call never gets back to a phase before the provider
  (`Early`), from where it could start again. Theorems: `StreamsStayInOrder`,
  `VisibleChunksAreFinal`, `StreamsEndOnce`, `IteratorsGetClosed`,
  `StreamProbesAreOwned`, `StreamAttemptsAreWalks`.
* `TokenBucketProofs`. `BucketImplementsRateLimit`: the abstract credit is what the
  bucket would hold if it were refilled now; refilling is then a stutter, and time adds
  what it should (`Amounts` has the products of rates and times, which the provers take
  as opaque numbers elsewhere).

### What the proofs changed

Proving found three places where a model said something else than was meant.
`InCircle` looked for callers that wait for each other in a way that is right for two
callers and wrong for three or more, where a caller that waits for a circle without
being in it could be failed; it now asks that no set of other callers is closed under
waiting without coming back. `None` was not said to differ from replies and from the
rows as the refinement mapping sees them, and a route was not said to be a sequence of
targets. No property had to be weakened and no code was found wrong.

### Only model-checked

`EveryCallReturns`, `EveryStreamEnds`, `EveryWaiterIsServed` and `CircuitsReadmit`:
liveness, which needs ENABLED, and the prover has neither. The runs that check them are
small, but fairness is stated per step of the code, so each says which step would starve.
What recursive definitions compute for every input would need induction theorems the
installed provers cannot instantiate; there is no recursion in these modules. The three
violations are counterexamples, to be found by TLC.

## 6. Not modelled, and the plan

Not modelled at all, because nothing in them decides on state: the translation of
messages in the provider adapters, telemetry, token generation, the governance scripts
and the documentation site. Of the leases, the queries of inactive runs
(`get_inactive_running`, `list_inactive_running`), which change nothing, are missing; of
the gateway, usage, costs and the validation of requests. A conditional mutation that is
not applied commits an empty transaction, which the models take as a read. The bucket
compares its float with a tolerance, the model exactly.

1. `WorkersStayApart` with releases, once it is said who of a worker's tasks still
   believes in a grant that one of them gave back.
2. **InactiveRunning** and **EventPages**: cursors against moving data. (The run that
   `DeadlineOutcome` carries beside a replayed receipt may have another version than the
   receipt, or never have been stored; no document promises more, hence no property.)
3. Pure algorithms against reference definitions: exact decimals and their canonical
   text, record codecs, schema comparison.
