------------------------ MODULE MemoryRunRepository ------------------------
(***************************************************************************)
(* The lifecycle service over MemoryRunRepository, whose commit is one     *)
(* copy-validate-swap under a lock: the reference adapter, and the         *)
(* orchestration with an atomic repository.                                *)
(***************************************************************************)
EXTENDS RunLifecycle

\* MUTANTS of Accepted: no receipt is ever looked up; receipts are keyed by
\* command id and fingerprint, so another intent is not recognised.
NeverAccepted(c)        == FALSE
AcceptedWithIntent(c)   == /\ commands[call[c].command.command_id] # None
                           /\ commands[call[c].command.command_id].intent
                                = call[c].command.intent

\* The repository already holds a receipt for the command of the call.
Accepted(c) == commands[call[c].command.command_id] # None

\* A caller learns of a command already accepted, from find_command or commit.
ReplayOrConflict(c) ==
  LET stored == commands[call[c].command.command_id]
  IN /\ Accepted(c)
     /\ IF stored.intent # call[c].command.intent
        THEN Reply(c, "idempotency_conflict", None)
        ELSE Reply(c, "replayed", stored)

Find(c) ==
  /\ call[c].pc = "find"
  /\ \/ ReplayOrConflict(c)
     \/ ~Accepted(c) /\ AfterFind(c)
  /\ UNCHANGED store

\* Commit decides everything again under the lock: the command first, then the
\* version, then the candidate; before_swap may still raise, and then nothing
\* of the copy is published.
Commit(c) ==
  LET run_id  == call[c].run_id
      matches == VersionMatches(run_id, call[c].expected)
      valid   == ValidCandidate(call[c].expected, runs[run_id],
                                call[c].decision, CallReceipt(c))
  IN /\ call[c].pc = "commit"
     /\ \/ ReplayOrConflict(c) /\ UNCHANGED store
        \/ /\ ~Accepted(c)
           /\ Reply(c, IF ~matches THEN "version_conflict"
                       ELSE IF ~valid THEN "invariant_violation"
                       ELSE "swap_failed", None)
           /\ UNCHANGED store
        \/ /\ ~Accepted(c) /\ matches /\ valid
           /\ Record(call[c].command.command_id, run_id, call[c].decision, CallReceipt(c))
           /\ Reply(c, "committed", CallReceipt(c))

Init == LifecycleInit
Next ==
  \E c \in Callers :
    Request(c) \/ BuildRun(c, {}) \/ LoadAndDecide(c) \/ Find(c) \/ Commit(c)
Spec == Init /\ [][Next]_vars
=============================================================================
