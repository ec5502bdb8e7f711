----------------------------- MODULE RunStore -----------------------------
(***************************************************************************)
(* What a RunRepository keeps for one tenant (every key of every adapter   *)
(* carries the tenant, so tenants never meet): the current snapshot of     *)
(* each Run, its event log and the receipt of each accepted command.       *)
(*                                                                         *)
(* Abstractions.  The intent fingerprint of a command is the intent        *)
(* itself; like the fingerprint it holds neither the expected version nor  *)
(* the command id.  The IdentifierGenerator never repeats an event id, so  *)
(* an event is named by its place in the log of its run: event_ids holds   *)
(* sequences.                                                              *)
(***************************************************************************)
EXTENDS RunAggregate

CONSTANTS
  RunIds,      \* run ids the IdentifierGenerator hands out
  CommandIds,  \* command ids callers use
  Commands     \* the commands callers may send, a set of Command

Intent ==
       [type : {"create_run"},                      run_id : {None}, arg : Budget]
  \cup [type : MoveTypes \cup {"enforce_deadline"}, run_id : RunIds, arg : {None}]
  \cup [type : {"fail_run"},                        run_id : RunIds, arg : {OtherError}]
  \cup [type : {"consume_budget"},                  run_id : RunIds, arg : Charge]

Command == [command_id : CommandIds, intent : Intent]

Receipt == [intent            : Intent,
            run_id            : RunIds,
            resulting_status  : Statuses,
            resulting_version : Nat \ {0},
            event_ids         : SUBSET (Nat \ {0})]

\* None is distinct from every record the store holds.
ASSUME StoreAssumption ==
  /\ Commands \subseteq Command
  /\ None \notin Run
  /\ None \notin Receipt
  /\ None \notin Result
  /\ None \notin RunIds
  /\ None # OtherError

VARIABLES
  runs,      \* the current snapshot of each run, or None
  events,    \* the event log of each run
  commands   \* the receipt of each accepted command id, or None

store == <<runs, events, commands>>

StoreTypeOK ==
  /\ runs     \in [RunIds -> Run \cup {None}]
  /\ events   \in [RunIds -> Seq(Event)]
  /\ commands \in [CommandIds -> Receipt \cup {None}]

EmptyStore ==
  /\ runs     = [r \in RunIds |-> None]
  /\ events   = [r \in RunIds |-> <<>>]
  /\ commands = [k \in CommandIds |-> None]

\* The mutation a command on an existing run makes of a snapshot of it.
Decide(intent, run, now) ==
  CASE intent.type \in MoveTypes         -> Move(intent.type, intent.arg, run, now)
    [] intent.type = "consume_budget"    -> ConsumeBudget(intent.arg, run, now)
    [] intent.type = "enforce_deadline"  -> EnforceDeadline(run, now)

EventIds(evs) == {evs[i].sequence : i \in DOMAIN evs}

ReceiptOf(intent, run_id, decision) ==
  [intent            |-> intent,
   run_id            |-> run_id,
   resulting_status  |-> decision.run.status,
   resulting_version |-> decision.run.version,
   event_ids         |-> EventIds(decision.events)]

CurrentVersion(run_id) == IF runs[run_id] = None THEN 0 ELSE runs[run_id].version

\* MUTANT of VersionMatches: the expected version is not compared.
AnyVersion(run_id, expected) == TRUE

VersionMatches(run_id, expected) == CurrentVersion(run_id) = expected

\* validate_commit_candidate, run once the expected version has been matched.
ValidCandidate(expected, current, decision, receipt) ==
  LET updated == decision.run
      evs     == decision.events
      first   == IF expected = 0 THEN 1 ELSE current.next_event_sequence
  IN /\ Len(evs) <= 1
     /\ receipt.resulting_status = updated.status
     /\ receipt.resulting_version = updated.version
     /\ receipt.event_ids = EventIds(evs)
     /\ IF expected = 0
        THEN current = None /\ updated.version = 1 /\ Len(evs) = 1
        ELSE current # None
     /\ IF evs = <<>> THEN updated = current ELSE updated.version = expected + 1
     /\ \A i \in DOMAIN evs : evs[i].sequence = first
     /\ updated.next_event_sequence = first + Len(evs)

\* MUTANTS of Record: the new events replace the log; a command that left no
\* event leaves no receipt.
RecordReplacingLog(command_id, run_id, decision, receipt) ==
  /\ runs'     = [runs EXCEPT ![run_id] = decision.run]
  /\ events'   = [events EXCEPT ![run_id] = decision.events]
  /\ commands' = [commands EXCEPT ![command_id] = receipt]

RecordEventfulOnly(command_id, run_id, decision, receipt) ==
  /\ runs'     = [runs EXCEPT ![run_id] = decision.run]
  /\ events'   = [events EXCEPT ![run_id] = events[run_id] \o decision.events]
  /\ commands' = IF decision.events = <<>> THEN commands
                 ELSE [commands EXCEPT ![command_id] = receipt]

\* One commit: snapshot, zero or one event and receipt change together.
Record(command_id, run_id, decision, receipt) ==
  /\ runs'     = [runs EXCEPT ![run_id] = decision.run]
  /\ events'   = [events EXCEPT ![run_id] = events[run_id] \o decision.events]
  /\ commands' = [commands EXCEPT ![command_id] = receipt]
-----------------------------------------------------------------------------
(* Properties of the store, the same for every adapter. *)

\* The statuses a log may go through: the transition table, and the only
\* self-transition, a running run that records a charge.
LegalStep(before, after) ==
  \/ after.status \in AllowedTransitions[before.status]
  \/ /\ after.type = "run.budget_consumed"
     /\ before.status = "running" /\ after.status = "running"

\* The result of a run exists exactly when the run has ended, with its usage.
ResultMatches(run) ==
  IF run.status \in Terminal
  THEN /\ run.result # None
       /\ run.result.status = run.status
       /\ run.result.usage = run.usage
  ELSE run.result = None

LogMatches(run, log) ==
  /\ Len(log) = run.version
  /\ run.next_event_sequence = run.version + 1
  /\ log[1].type = "run.created" /\ log[1].status = "queued"
  /\ log[run.version].status = run.status
  /\ \A i \in DOMAIN log : log[i].sequence = i /\ log[i].run_version = i
  /\ \A i \in DOMAIN log : i > 1 => LegalStep(log[i-1], log[i])
  /\ ResultMatches(run)

\* The event log of a run and its snapshot tell the same story: one event per
\* version, numbered without gap or duplicate, along legal transitions, ending
\* in the status of the snapshot, whose result exists exactly when it is
\* terminal.  Racing commits that both extend one version would break it.
HistoryMatchesRun ==
  \A r \in RunIds :
    IF runs[r] = None THEN events[r] = <<>> ELSE LogMatches(runs[r], events[r])

\* The event a command may leave in the log of its run.
EventTypesOf(type) ==
  CASE type = "create_run"       -> {"run.created"}
    [] type \in MoveTypes        -> {Moves[type].event}
    [] type = "consume_budget"   -> {"run.budget_consumed", "run.limit_exceeded"}
    [] type = "enforce_deadline" -> {"run.limit_exceeded"}

\* Receipts and events pair up: a receipt names the event its command left, of
\* the run it was sent to, and every event is claimed by exactly one receipt.  A
\* command applied twice, or a receipt of work that was lost, would break it.
ReceiptsExplainHistory ==
  /\ \A k \in CommandIds : commands[k] # None =>
       LET receipt == commands[k]
           log     == events[receipt.run_id]
       IN /\ receipt.intent.type # "create_run" => receipt.run_id = receipt.intent.run_id
          /\ receipt.resulting_version \in DOMAIN log
          /\ log[receipt.resulting_version].status = receipt.resulting_status
          /\ \A s \in receipt.event_ids :
               /\ s = receipt.resulting_version
               /\ log[s].type \in EventTypesOf(receipt.intent.type)
          /\ receipt.intent.type # "consume_budget" => receipt.event_ids # {}
  /\ \A r \in RunIds : \A i \in DOMAIN events[r] :
       \E k \in CommandIds :
         \A j \in CommandIds :
           (commands[j] # None /\ commands[j].run_id = r /\ i \in commands[j].event_ids)
             <=> j = k

Spent(log) == {i \in DOMAIN log : log[i].type = "run.budget_consumed"}

UsageMatches(run, log) ==
  /\ \A i, j \in Spent(log) :
       log[i].charge.charge_id = log[j].charge.charge_id => i = j
  /\ run.usage.charges = {log[i].charge : i \in Spent(log)}
  /\ log[1].used = NoUsage.used
  /\ run.usage.used = log[run.version].used
  /\ \A i \in DOMAIN log : i > 1 =>
       log[i].used = IF i \in Spent(log)
                     THEN [c \in Counters |-> log[i-1].used[c] + log[i].charge.amount[c]]
                     ELSE log[i-1].used
  /\ \A d \in Dimensions \ {"deadline"} : Consumed(run.usage.used, d) <= run.budget.maximum[d]

\* A charge is spent once: the usage of a run is what its log added up, charge
\* by charge, with no charge id twice, within every limit of the budget.
BudgetIsSpentOnce ==
  \A r \in RunIds : runs[r] # None => UsageMatches(runs[r], events[r])

TimeMatches(run, log) ==
  /\ \A i \in DOMAIN log : i > 1 => log[i-1].occurred_at <= log[i].occurred_at
  /\ run.last_observed_at = log[run.version].occurred_at
  /\ \A i \in Spent(log) : log[i].occurred_at < run.budget.deadline_at

\* The log of a run never steps back in time, whatever the clocks that stamped
\* it did, and no charge is recorded at or after the deadline.
TimeMovesForward ==
  \A r \in RunIds : runs[r] # None => TimeMatches(runs[r], events[r])

\* A run that has ended never changes again and its log gets no further event.
TerminalFrozenStep ==
  \A r \in RunIds :
    (runs[r] # None /\ runs[r].status \in Terminal)
      => runs'[r] = runs[r] /\ events'[r] = events[r]
TerminalFrozen == [][TerminalFrozenStep]_store

\* Receipts and events are immutable once stored, and the budget of a run is
\* the one it was created with.
AppendOnlyStep ==
  /\ \A r \in RunIds : runs[r] # None => runs'[r] # None /\ runs'[r].budget = runs[r].budget
  /\ \A r \in RunIds : \A i \in DOMAIN events[r] :
       i \in DOMAIN events'[r] /\ events'[r][i] = events[r][i]
  /\ \A k \in CommandIds : commands[k] # None => commands'[k] = commands[k]
AppendOnly == [][AppendOnlyStep]_store
=============================================================================
