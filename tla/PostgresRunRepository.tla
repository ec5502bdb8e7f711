----------------------- MODULE PostgresRunRepository -----------------------
(***************************************************************************)
(* The lifecycle service over PostgreSQLRunRepository: commit is one       *)
(* READ COMMITTED transaction of several statements, in which each await   *)
(* is a step.  The transaction of a call is in the pc of that call:        *)
(*   "commit"  before the INSERT of the receipt, the arbiter of a command; *)
(*   "lock"    the receipt is inserted: its key is locked until the end;   *)
(*   "write"   the run row is locked too, and the candidate is valid;      *)
(*   "sent"    everything is written and COMMIT is on its way.             *)
(* A statement may fail, a connection may be lost and a coroutine may be   *)
(* cancelled at each of them.  A call that ends so may leave a transaction *)
(* behind on the server; orphans is the set of those, each as its call was *)
(* when the client went away.                                              *)
(*                                                                         *)
(* An acknowledgement that is lost after the server committed is the same  *)
(* as one lost before, followed by the commit: no other caller can tell.   *)
(***************************************************************************)
EXTENDS RunLifecycle, FiniteSets

CONSTANT MaxOrphans   \* bound: transactions left behind at one time

ASSUME OrphansAssumption == MaxOrphans \in Nat

VARIABLE orphans

allVars == <<runs, events, commands, call, orphans>>

\* MUTANT of RowPhases: load() already locks the row, in share mode.
RowPhasesFromLoad == {"commit", "lock", "write", "sent"}

\* Where a call holds the key of its command, and where the row of its run.
KeyPhases == {"lock", "write", "sent"}
RowPhases == {"write", "sent"}

\* MUTANTS of KeyFree and RowFree: the lock is not waited for.
NoKeyWait(c) == TRUE
NoRowWait(c) == TRUE

Key(x) == x.command.command_id

\* INSERT ... ON CONFLICT DO NOTHING waits for an uncommitted row with its key.
KeyFree(c) ==
  /\ \A d \in Callers \ {c} : call[d].pc \in KeyPhases => Key(call[d]) # Key(call[c])
  /\ \A o \in orphans : Key(o) # Key(call[c])

\* SELECT ... FOR UPDATE waits for the transaction that holds the run row.
RowFree(c) ==
  /\ \A d \in Callers \ {c} : call[d].pc \in RowPhases => call[d].run_id # call[c].run_id
  /\ \A o \in orphans : o.pc \in RowPhases => o.run_id # call[c].run_id

\* _COMMAND_EVENT_TYPES: the one event type a receipt is expected to name.
CommandEventType(type) ==
  CASE type = "create_run"       -> "run.created"
    [] type \in MoveTypes        -> Moves[type].event
    [] type = "consume_budget"   -> "run.budget_consumed"
    [] type = "enforce_deadline" -> "run.limit_exceeded"

\* _validate_replay_event on the event a receipt names.
ReplayEventValid(receipt) ==
  \A s \in receipt.event_ids :
    LET event == events[receipt.run_id][s]
    IN /\ event.type = CommandEventType(receipt.intent.type)
       /\ event.sequence = receipt.resulting_version
       /\ event.status = receipt.resulting_status
       /\ event.run_version = receipt.resulting_version

Accepted(c) == commands[Key(call[c])] # None

\* _find_command once the receipt is there: conflict, replay, or an event that
\* does not look like the one the command must have left.
ReplayOrConflict(c) ==
  LET stored == commands[Key(call[c])]
  IN IF stored.intent # call[c].command.intent THEN Reply(c, "idempotency_conflict", None)
     ELSE IF ~ReplayEventValid(stored)         THEN Reply(c, "data_corruption", None)
     ELSE Reply(c, "replayed", stored)

\* find_command sees committed receipts only and waits for nobody.
Find(c) ==
  /\ call[c].pc = "find"
  /\ IF Accepted(c) THEN ReplayOrConflict(c) ELSE AfterFind(c)
  /\ UNCHANGED <<store, orphans>>

\* arbitrate_complete_receipt: the command is new, or it is replayed.
Arbitrate(c) ==
  /\ call[c].pc = "commit"
  /\ KeyFree(c)
  /\ IF Accepted(c) THEN ReplayOrConflict(c)
                    ELSE Goto(c, "lock")
  /\ UNCHANGED <<store, orphans>>

\* The run row is locked, then version and candidate are checked against it; a
\* refusal rolls back.  A creation locks no row: its conflict is pk_runs.
LockRow(c) ==
  LET expected == call[c].expected
      run_id   == call[c].run_id
  IN /\ call[c].pc = "lock"
     /\ RowFree(c)
     /\ IF ~VersionMatches(run_id, expected)
        THEN Reply(c, "version_conflict", None)
        ELSE IF ~ValidCandidate(expected, runs[run_id], call[c].decision, CallReceipt(c))
        THEN Reply(c, "invariant_violation", None)
        ELSE Goto(c, "write")
     /\ UNCHANGED <<store, orphans>>

\* Run and event are written under the lock, and COMMIT is sent.
SendCommit(c) ==
  /\ call[c].pc = "write"
  /\ Goto(c, "sent")
  /\ UNCHANGED <<store, orphans>>

\* COMMIT is acknowledged.
Complete(c) ==
  /\ call[c].pc = "sent"
  /\ Record(Key(call[c]), call[c].run_id, call[c].decision, CallReceipt(c))
  /\ Reply(c, "committed", CallReceipt(c))
  /\ UNCHANGED orphans

DatabasePhases == {"find", "load", "commit", "lock", "write", "sent"}

\* MUTANT of FailureCode: the phase in which the failure came is not considered.
FailureCodeOfAnyPhase(pc, rolled_back) == "storage_unavailable"

\* classify_storage_failure.
FailureCode(pc, rolled_back) ==
  IF pc = "sent" /\ ~rolled_back THEN "commit_outcome_unknown" ELSE "storage_unavailable"

\* The database reports an error after which nothing of the transaction is
\* left: a lock or statement timeout, a serialization failure, a refused COMMIT.
Fail(c) ==
  /\ call[c].pc \in DatabasePhases
  /\ Reply(c, FailureCode(call[c].pc, TRUE), None)
  /\ UNCHANGED <<store, orphans>>

\* The connection is lost, or the coroutine is cancelled: the client stops
\* there, while the server still holds the locks and may have COMMIT in hand.
Drop(c) ==
  /\ call[c].pc \in DatabasePhases
  /\ \E code \in {FailureCode(call[c].pc, FALSE), "cancelled"} : Reply(c, code, None)
  /\ IF call[c].pc \in KeyPhases
     THEN Cardinality(orphans) < MaxOrphans /\ orphans' = orphans \cup {call[c]}
     ELSE UNCHANGED orphans
  /\ UNCHANGED store

\* The server ends a transaction left behind; it may commit only if COMMIT was
\* sent, and then exactly what was written.
Resolve(o) ==
  /\ o \in orphans
  /\ orphans' = orphans \ {o}
  /\ \/ UNCHANGED store
     \/ /\ o.pc = "sent"
        /\ Record(Key(o), o.run_id, o.decision,
                  ReceiptOf(o.command.intent, o.run_id, o.decision))
  /\ UNCHANGED call

Reserved == {o.run_id : o \in orphans}

\* The steps a call takes towards its reply when nothing fails.
Progress(c) ==
  \/ (BuildRun(c, Reserved) \/ LoadAndDecide(c)) /\ UNCHANGED orphans
  \/ Find(c) \/ Arbitrate(c) \/ LockRow(c) \/ SendCommit(c) \/ Complete(c)

Init == LifecycleInit /\ orphans = {}

Next ==
  \/ \E c \in Callers : Request(c) /\ UNCHANGED orphans
  \/ \E c \in Callers : Progress(c) \/ Fail(c) \/ Drop(c)
  \/ \E o \in orphans : Resolve(o)

Spec == Init /\ [][Next]_allVars

\* Locks are granted in the order of their requests, so a call that could go on
\* again and again does; the server ends every transaction left behind.  No
\* failure and no timeout is assumed to happen.
Fairness ==
  /\ \A c \in Callers : SF_allVars(Progress(c))
  /\ WF_allVars(\E o \in orphans : Resolve(o))

FairSpec == Spec /\ Fairness
-----------------------------------------------------------------------------
\* A call that ends in a definite failure changed nothing and leaves nothing
\* behind that could still change something: only commit_outcome_unknown and a
\* cancelled COMMIT leave the caller in doubt.
Definite == {"version_conflict", "invariant_violation", "idempotency_conflict",
             "data_corruption", "not_found", "storage_unavailable", "value_error",
             "illegal_transition", "allowed"}
InDoubt == {o \in orphans : o.pc = "sent"}
FailureMeansNoEffectStep ==
  \A c \in Callers :
    (call[c].pc # "idle" /\ call'[c].pc = "idle" /\ call'[c].reply.code \in Definite)
      => UNCHANGED store /\ InDoubt' \subseteq InDoubt
FailureMeansNoEffect == [][FailureMeansNoEffectStep]_allVars

\* An uncommitted transaction never commits on top of another: whatever is in
\* the server's hands still extends the current state of its run, and its
\* command has no receipt yet.
InDoubtStillApplies ==
  \A o \in InDoubt :
    /\ commands[Key(o)] = None
    /\ CurrentVersion(o.run_id) + Len(o.decision.events) = o.decision.run.version

\* Every call returns, although calls wait for each other and for transactions
\* whose clients are gone: the waits of keys and rows never close a circle.
EveryCallReturns == \A c \in Callers : call[c].pc # "idle" ~> call[c].pc = "idle"

\* "Matching fingerprint returns the original receipt and zero/one original
\* events" (specs/005 contract, find_command): a replay of what the service
\* itself stored is never reported as corrupt data.
ReplayIsNotCorruption == \A c \in Callers : call[c].reply.code # "data_corruption"
=============================================================================
