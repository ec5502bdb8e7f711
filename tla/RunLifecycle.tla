---------------------------- MODULE RunLifecycle ----------------------------
(***************************************************************************)
(* RunLifecycleService: what a caller's coroutine does between the awaits  *)
(* of one lifecycle call.  Callers run in different processes, so between  *)
(* any two steps of one call any step of another may fall; the repository  *)
(* adapters extend this module with find_command and commit.               *)
(*                                                                         *)
(* call[c] is the call caller c has in flight: pc "idle" is no call,       *)
(* "find" before find_command returns, "load" before load returns,         *)
(* "create" before a new run is built, "commit" before commit begins.      *)
(***************************************************************************)
EXTENDS RunHistory

CONSTANTS
  Callers,    \* concurrent callers of the service
  Versions    \* expected versions a caller may send for an existing run

ASSUME LifecycleAssumption == Versions \subseteq Nat \ {0}

VARIABLE call

vars == <<runs, events, commands, call>>

NoCommand  == [command_id |-> None, intent |-> None]
NoDecision == Rejected("none")

NoReply    == [code |-> "none", command |-> NoCommand, receipt |-> None]

\* A call in flight, and none: only the reply of the last one is left.
Call(pc, command, expected, run_id, loaded, decision) ==
  [pc |-> pc, command |-> command, expected |-> expected, run_id |-> run_id,
   loaded |-> loaded, decision |-> decision, reply |-> NoReply]

AtRest(reply) ==
  [pc |-> "idle", command |-> NoCommand, expected |-> 0, run_id |-> None,
   loaded |-> None, decision |-> NoDecision, reply |-> reply]

\* Calls end with a code, and with the receipt when the command took effect.
Reply(c, code, receipt) ==
  call' = [call EXCEPT ![c] =
             AtRest([code |-> code, command |-> call[c].command, receipt |-> receipt])]

\* The call goes on to its next await.
Goto(c, pc) ==
  call' = [call EXCEPT ![c] =
             Call(pc, call[c].command, call[c].expected, call[c].run_id,
                  call[c].loaded, call[c].decision)]

\* The decision is made; what is left is to commit it.
GotoCommit(c, run_id, loaded, decision) ==
  call' = [call EXCEPT ![c] =
             Call("commit", call[c].command, call[c].expected, run_id, loaded, decision)]

\* A caller sends a command; create carries no expected version (it is 0).
Request(c) ==
  /\ call[c].pc = "idle"
  /\ \E command \in Commands :
       \E v \in IF command.intent.type = "create_run" THEN {0} ELSE Versions :
         call' = [call EXCEPT ![c] = Call("find", command, v, None, None, NoDecision)]
  /\ UNCHANGED store

\* Where a call goes when find_command knows nothing of its command.
AfterFind(c) ==
  Goto(c, IF call[c].command.intent.type = "create_run" THEN "create" ELSE "load")

\* The IdentifierGenerator gives a run id that no run has and no call in flight
\* (or a transaction it left behind: reserved) may still give to one.
Fresh(run_id, reserved) ==
  /\ runs[run_id] = None
  /\ run_id \notin reserved
  /\ \A c \in Callers : call[c].run_id # run_id

\* create_run builds version 1 and commits it against expected version 0.
BuildRun(c, reserved) ==
  /\ call[c].pc = "create"
  /\ \E now \in Times, run_id \in RunIds :
       LET decision == Create(call[c].command.intent.arg, now)
       IN /\ Fresh(run_id, reserved)
          /\ IF decision.code # "ok"
             THEN Reply(c, decision.code, None)
             ELSE GotoCommit(c, run_id, None, decision)
  /\ UNCHANGED store

\* MUTANT of Loaded: decoding the snapshot loses the charges recorded in it.
LoadedWithoutCharges(run_id) ==
  IF runs[run_id] = None THEN None ELSE [runs[run_id] EXCEPT !.usage.charges = {}]

\* The snapshot load() returns.
Loaded(run_id) == runs[run_id]

\* MUTANT of DeadlineAllows: a deadline check is committed whatever it found.
DeadlineNeverAllows(intent, decision) == FALSE

\* enforce_deadline found nothing to enforce, and leaves no receipt.
DeadlineAllows(intent, decision) ==
  intent.type = "enforce_deadline" /\ decision.events = <<>>

\* _mutate and enforce_deadline: load, compare the version, read the clock and
\* let the aggregate decide.  A deadline that does not bite ends the call here.
LoadAndDecide(c) ==
  /\ call[c].pc = "load"
  /\ \E now \in Times :
       LET intent   == call[c].command.intent
           current  == Loaded(intent.run_id)
           decision == Decide(intent, current, now)
       IN IF current = None
          THEN Reply(c, "not_found", None)
          ELSE IF current.version # call[c].expected
          THEN Reply(c, "version_conflict", None)
          ELSE IF decision.code # "ok"
          THEN Reply(c, decision.code, None)
          ELSE IF DeadlineAllows(intent, decision)
          THEN Reply(c, "allowed", None)
          ELSE GotoCommit(c, intent.run_id, current, decision)
  /\ UNCHANGED store

\* The receipt a call asks the repository to store.
CallReceipt(c) == ReceiptOf(call[c].command.intent, call[c].run_id, call[c].decision)

LifecycleInit == EmptyStore /\ call = [c \in Callers |-> AtRest(NoReply)]
-----------------------------------------------------------------------------
(* Properties of the calls. *)

Decision == [code : {"none", "ok"}, run : Run \cup {None}, events : Seq(Event)]

ReplyCodes ==
  {"none", "committed", "replayed", "allowed", "not_found", "version_conflict",
   "idempotency_conflict", "illegal_transition", "value_error", "invariant_violation",
   "swap_failed", "data_corruption", "storage_unavailable", "commit_outcome_unknown",
   "cancelled"}

CallRecord ==
  [pc       : {"idle", "find", "load", "create", "commit", "lock", "write", "sent"},
   command  : Commands \cup {NoCommand},
   expected : Nat,
   run_id   : RunIds \cup {None},
   loaded   : Run \cup {None},
   decision : Decision,
   reply    : [code : ReplyCodes, command : Commands \cup {NoCommand},
               receipt : Receipt \cup {None}]]

\* What a call x is about to commit is the decision of its command: on nothing
\* for a creation, on the snapshot of the expected version for any other.
Pending(x) ==
  LET intent == x.command.intent
  IN /\ x.run_id \in RunIds
     /\ x.decision.code = "ok"
     /\ IF intent.type = "create_run"
        THEN /\ x.loaded = None
             /\ \E now \in Times : x.decision = Create(intent.arg, now)
        ELSE /\ x.run_id = intent.run_id
             /\ x.loaded # None
             /\ x.loaded.version = x.expected
             /\ \E now \in Times : x.decision = Decide(intent, x.loaded, now)
             /\ intent.type = "enforce_deadline" => x.decision.events # <<>>

WellFormed(x) ==
  /\ x.pc # "idle" =>
       /\ x.command \in Commands
       /\ (x.command.intent.type = "create_run") <=> (x.expected = 0)
  /\ x.pc = "create" => x.command.intent.type = "create_run"
  /\ x.pc = "load" => x.command.intent.type # "create_run"
  /\ x.pc \in {"idle", "find", "create", "load"} => x.loaded = None
  /\ x.pc \in {"commit", "lock", "write", "sent"} => Pending(x)

\* Types, and the shape of a call at each of its awaits.
LifecycleTypeOK ==
  /\ StoreTypeOK
  /\ call \in [Callers -> CallRecord]
  /\ \A c \in Callers : WellFormed(call[c])

\* Whatever the interleaving of calls, the store only ever moves as if accepted
\* commands took effect one at a time on the latest state: a decision made on a
\* snapshot read earlier is committed only if it is the decision of now.
ImplementsHistory == HistorySpec

PastOf(old, current) ==
  /\ current # None
  /\ old.version <= current.version
  /\ old.version = current.version => old = current

\* A snapshot a call holds across awaits is the past of the run, and equal
\* versions mean equal snapshots: the version check decides staleness alone.
SnapshotsAgree ==
  \A c \in Callers : call[c].loaded # None =>
    PastOf(call[c].loaded, runs[call[c].run_id])

\* A caller who holds a receipt, first or replayed, holds the one stored for its
\* command: two callers of one command never hold different receipts.
RepliesAreStored ==
  \A c \in Callers : LET reply == call[c].reply
                     IN reply.receipt # None =>
                          commands[reply.command.command_id] = reply.receipt

\* The shared commit validator is a last defence: no candidate the service
\* builds, in any race, is ever reported as an invariant violation.
NeverInvariantViolation ==
  \A c \in Callers : call[c].reply.code # "invariant_violation"

\* "Given any illegal state transition ... the Run keeps its state and version
\* and a stable conflict error is returned" (specs/004 spec.md): no lifecycle
\* move is refused with an untyped ValueError, but for the error of a failure.
IllegalMoveIsStableError ==
  \A c \in Callers : LET reply == call[c].reply
                     IN (/\ reply.command # NoCommand
                         /\ reply.command.intent.type \in MoveTypes
                         /\ reply.command.intent.arg = None)
                          => reply.code # "value_error"
=============================================================================
