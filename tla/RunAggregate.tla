--------------------------- MODULE RunAggregate ---------------------------
(***************************************************************************)
(* The immutable Run aggregate of src/zhiyi/domain/runs: the transition    *)
(* table, the hard budget and the decision every lifecycle command takes   *)
(* on one Run snapshot.  Pure operators: no variables, no effects.         *)
(*                                                                         *)
(* Abstractions.  Identifiers are opaque values.  A datetime is a natural  *)
(* number.  An exact Decimal cost is a natural number of its smallest      *)
(* unit.  The fingerprint of a charge is the charge itself.  updated_at    *)
(* and last_observed_at are assigned together on every path and are one    *)
(* field; created_at is the occurred_at of event 1.  Result drafts, agent  *)
(* versions and task ids never influence a decision and are left out.      *)
(***************************************************************************)
EXTENDS Integers, Sequences

CONSTANTS
  ChargeIds,   \* identifiers a BudgetCharge may carry
  OtherError,  \* a SafeRunError whose code is not FAILED
  None         \* Python's None

Statuses == {"queued", "running", "waiting_approval", "waiting_resolution",
             "succeeded", "failed", "cancelled", "limit_exceeded"}

Terminal == {"succeeded", "failed", "cancelled", "limit_exceeded"}

\* MUTANT of AllowedTransitions: a run that succeeded can still be cancelled.
TransitionsFromSucceeded ==
  [s \in Statuses |->
     CASE s = "queued"  -> {"running", "cancelled", "limit_exceeded"}
       [] s = "running" -> {"waiting_approval", "waiting_resolution"} \cup Terminal
       [] s \in {"waiting_approval", "waiting_resolution"}
                        -> {"running", "cancelled", "limit_exceeded"}
       [] s = "succeeded" -> {"cancelled"}
       [] s \in Terminal \ {"succeeded"} -> {}]

\* The single transition table of the aggregate.
AllowedTransitions ==
  [s \in Statuses |->
     CASE s = "queued"  -> {"running", "cancelled", "limit_exceeded"}
       [] s = "running" -> {"waiting_approval", "waiting_resolution"} \cup Terminal
       [] s \in {"waiting_approval", "waiting_resolution"}
                        -> {"running", "cancelled", "limit_exceeded"}
       [] s \in Terminal -> {}]

-----------------------------------------------------------------------------
(* The hard budget. *)

Counters == {"steps", "model_calls", "tool_calls",
             "input_tokens", "output_tokens", "cost"}

\* The budget dimensions in the order in which apply() checks them.
Checks == <<"steps", "model_calls", "tool_calls", "input_tokens",
            "output_tokens", "total_tokens", "cost">>

Dimensions == Counters \cup {"total_tokens", "deadline"}

Amounts == [Counters -> Nat]
Charge  == [charge_id : ChargeIds, amount : Amounts]
Budget  == [deadline_at : Nat, maximum : [Counters \cup {"total_tokens"} -> Nat]]
Usage   == [used : Amounts, charges : SUBSET Charge]

NoUsage == [used |-> [c \in Counters |-> 0], charges |-> {}]

\* What a dimension has consumed: total_tokens is derived, the rest are counted.
Consumed(used, dimension) ==
  IF dimension = "total_tokens"
  THEN used["input_tokens"] + used["output_tokens"]
  ELSE used[dimension]

\* The snapshot that would result from recording a new charge.
Candidate(usage, charge) ==
  [used    |-> [c \in Counters |-> usage.used[c] + charge.amount[c]],
   charges |-> usage.charges \cup {charge}]

\* MUTANT of SameCharge: the charges already recorded are not looked up.
NoSameCharge(usage, charge) == {}

\* The charge already recorded under this charge id, if any.
SameCharge(usage, charge) ==
  {k \in usage.charges : k.charge_id = charge.charge_id}

\* MUTANT of Exceeds: the limit of the derived dimension is not looked at.
ExceedsIgnoringTotal(used, budget, dimension) ==
  /\ dimension # "total_tokens"
  /\ Consumed(used, dimension) > budget.maximum[dimension]

\* A usage equal to the maximum is still within the budget.
Exceeds(used, budget, dimension) ==
  Consumed(used, dimension) > budget.maximum[dimension]

ExceededChecks(usage, budget) ==
  {i \in DOMAIN Checks : Exceeds(usage.used, budget, Checks[i])}

\* The dimension reported: the first one exceeded in the order of Checks.
FirstExceeded(usage, budget) ==
  Checks[CHOOSE i \in ExceededChecks(usage, budget) :
           \A j \in ExceededChecks(usage, budget) : i <= j]

-----------------------------------------------------------------------------
(* The aggregate. *)

Result == [status : Terminal, usage : Usage,
           error  : {"none", "failed", "cancelled"} \cup Dimensions]

Run == [status              : Statuses,
        version             : Nat \ {0},
        next_event_sequence : Nat \ {0},
        budget              : Budget,
        usage               : Usage,
        last_observed_at    : Nat,
        result              : Result \cup {None}]

EventTypes == {"run.created", "run.started", "run.waiting_approval",
               "run.waiting_resolution", "run.resumed", "run.budget_consumed",
               "run.succeeded", "run.failed", "run.cancelled",
               "run.limit_exceeded"}

\* payload: run_version and status of every event, and of a budget event the
\* charge it records and the totals after it.
Event == [sequence    : Nat \ {0},
          type        : EventTypes,
          run_version : Nat \ {0},
          status      : Statuses,
          occurred_at : Nat,
          charge      : Charge \cup {None},
          used        : Amounts]

\* What a command decides on a snapshot: the mutation, or the error it raises.
Mutation(run, event) == [code |-> "ok", run |-> run, events |-> <<event>>]
Unchanged(run)       == [code |-> "ok", run |-> run, events |-> <<>>]
Rejected(code)       == [code |-> code, run |-> None, events |-> <<>>]

\* MUTANT of EffectiveTime: an event is stamped with the clock as read.
ClockTime(run, now) == now

\* The wall clock may be behind what the run has already seen.
EffectiveTime(run, now) ==
  IF now > run.last_observed_at THEN now ELSE run.last_observed_at

\* _change: the one constructor of a successor Run and of its event.
Change(run, target, type, now, usage, charge, error) ==
  LET at == EffectiveTime(run, now)
  IN Mutation(
       [status              |-> target,
        version             |-> run.version + 1,
        next_event_sequence |-> run.next_event_sequence + 1,
        budget              |-> run.budget,
        usage               |-> usage,
        last_observed_at    |-> at,
        result              |-> IF target \in Terminal
                                THEN [status |-> target, usage |-> usage, error |-> error]
                                ELSE None],
       [sequence    |-> run.next_event_sequence,
        type        |-> type,
        run_version |-> run.version + 1,
        status      |-> target,
        occurred_at |-> at,
        charge      |-> charge,
        used        |-> usage.used])

\* Run.create; a budget whose deadline has passed is a ValueError.
Create(budget, now) ==
  IF budget.deadline_at <= now
  THEN Rejected("value_error")
  ELSE Mutation([status |-> "queued", version |-> 1, next_event_sequence |-> 2,
                 budget |-> budget, usage |-> NoUsage, last_observed_at |-> now,
                 result |-> None],
                [sequence |-> 1, type |-> "run.created", run_version |-> 1,
                 status |-> "queued", occurred_at |-> now, charge |-> None,
                 used |-> NoUsage.used])

\* The seven commands that only move the status: the guard the method itself
\* has (from), what it asks of the table (target), and the previous_status its
\* event accepts (previous, of _validate_payload_schema in events.py; a command
\* whose event carries none accepts all).
Moves ==
  [start_run           |-> [from |-> Statuses, target |-> "running",
                            event |-> "run.started", previous |-> {"queued"}],
   wait_for_approval   |-> [from |-> {"running"}, target |-> "waiting_approval",
                            event |-> "run.waiting_approval", previous |-> {"running"}],
   wait_for_resolution |-> [from |-> {"running"}, target |-> "waiting_resolution",
                            event |-> "run.waiting_resolution", previous |-> {"running"}],
   resume_run          |-> [from |-> {"waiting_approval", "waiting_resolution"},
                            target |-> "running", event |-> "run.resumed",
                            previous |-> {"waiting_approval", "waiting_resolution"}],
   succeed_run         |-> [from |-> {"running"}, target |-> "succeeded",
                            event |-> "run.succeeded", previous |-> Statuses],
   fail_run            |-> [from |-> {"running"}, target |-> "failed",
                            event |-> "run.failed", previous |-> Statuses],
   cancel_run          |-> [from |-> Statuses, target |-> "cancelled",
                            event |-> "run.cancelled", previous |-> Statuses]]

MoveTypes == DOMAIN Moves

\* The safe error a terminal result carries; a success carries none.
ErrorOf(target) == IF target \in {"failed", "cancelled"} THEN target ELSE "none"

\* Run.fail raises ValueError for an error that is not FAILED, and so does the event
\* constructor when the table admits a move whose event does not accept the previous
\* status.  error is None in every other command.
Move(type, error, run, now) ==
  LET m == Moves[type]
  IN IF run.status \notin m.from \/ m.target \notin AllowedTransitions[run.status]
     THEN Rejected("illegal_transition")
     ELSE IF error = OtherError \/ run.status \notin m.previous
     THEN Rejected("value_error")
     ELSE Change(run, m.target, m.event, now, run.usage, None, ErrorOf(m.target))

\* _limit: the run ends without recording the candidate charge.
Limit(run, dimension, now) ==
  Change(run, "limit_exceeded", "run.limit_exceeded", now, run.usage, None, dimension)

\* BudgetSnapshot.apply and Run.consume_budget.
ConsumeBudget(charge, run, now) ==
  LET known == SameCharge(run.usage, charge)
      next  == Candidate(run.usage, charge)
  IN IF run.status # "running" THEN Rejected("illegal_transition")
     ELSE IF known # {} THEN
       IF charge \in known THEN Unchanged(run) ELSE Rejected("idempotency_conflict")
     ELSE IF EffectiveTime(run, now) >= run.budget.deadline_at
       THEN Limit(run, "deadline", now)
     ELSE IF ExceededChecks(next, run.budget) # {}
       THEN Limit(run, FirstExceeded(next, run.budget), now)
     ELSE Change(run, "running", "run.budget_consumed", now, next, charge, "none")

\* Run.enforce_deadline: nothing to do in a terminal state or before the deadline.
EnforceDeadline(run, now) ==
  IF run.status \in Terminal \/ EffectiveTime(run, now) < run.budget.deadline_at
  THEN Unchanged(run)
  ELSE Limit(run, "deadline", now)
=============================================================================
