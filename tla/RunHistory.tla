---------------------------- MODULE RunHistory ----------------------------
(***************************************************************************)
(* What the Run kernel promises, with no callers, clocks or transactions   *)
(* in sight: commands take effect one at a time, each at most once, each   *)
(* as the decision of the aggregate on the run as it then is.  Memory and  *)
(* PostgreSQL repositories implement this specification.                   *)
(***************************************************************************)
EXTENDS RunStore

CONSTANT Times   \* what a reading of the wall clock may return

ASSUME TimesAssumption == Times \subseteq Nat

\* A command that was never accepted before creates a run of its own ...
AcceptCreate(command, run_id, now) ==
  LET decision == Create(command.intent.arg, now)
  IN /\ command.intent.type = "create_run"
     /\ commands[command.command_id] = None
     /\ runs[run_id] = None
     /\ decision.code = "ok"
     /\ Record(command.command_id, run_id, decision,
               ReceiptOf(command.intent, run_id, decision))

\* ... or moves the run it names; a deadline check that finds nothing to
\* enforce leaves no receipt.
AcceptChange(command, now) ==
  LET run_id   == command.intent.run_id
      decision == Decide(command.intent, runs[run_id], now)
  IN /\ command.intent.type # "create_run"
     /\ commands[command.command_id] = None
     /\ runs[run_id] # None
     /\ decision.code = "ok"
     /\ command.intent.type = "enforce_deadline" => decision.events # <<>>
     /\ Record(command.command_id, run_id, decision,
               ReceiptOf(command.intent, run_id, decision))

HistoryInit == EmptyStore

HistoryNext ==
  \E command \in Commands, now \in Times :
    \/ \E run_id \in RunIds : AcceptCreate(command, run_id, now)
    \/ AcceptChange(command, now)

HistorySpec == HistoryInit /\ [][HistoryNext]_store
=============================================================================
