---------------------- MODULE MemoryRunRepositoryProofs ----------------------
(***************************************************************************)
(* The service over the memory repository implements RunHistory, for any   *)
(* number of callers, runs and commands.                                   *)
(***************************************************************************)
EXTENDS MemoryRunRepository, RunLifecycleProofs

\* find_command or commit answer from the stored receipt.
LEMMA ReplayKeepsInv ==
  ASSUME LifecycleInv, NEW c \in Callers, call[c].pc # "idle",
         ReplayOrConflict(c), UNCHANGED store
  PROVE  LifecycleInv'
<1>1. call[c].command.command_id \in CommandIds
  BY CommandFacts DEF LifecycleInv, LifecycleTypeOK, WellFormed
<1>2. commands[call[c].command.command_id] \in Receipt \cup {None}
  BY <1>1 DEF LifecycleInv, IInv, StoreTypeOK
<1>3. {"idempotency_conflict", "replayed"} \subseteq ReplyCodes
  BY DEF ReplyCodes
<1> QED BY <1>2, <1>3, ReplyKeepsInv DEF ReplayOrConflict

LEMMA FindKeepsInv ==
  ASSUME LifecycleInv, NEW c \in Callers, Find(c)
  PROVE  LifecycleInv'
<1>1. call[c].pc = "find" /\ UNCHANGED store
  BY DEF Find
<1>2. CASE ReplayOrConflict(c)
  BY <1>1, <1>2, ReplayKeepsInv
<1>3. CASE AfterFind(c)
  BY <1>1, <1>3, AfterFindKeepsInv
<1> QED BY <1>2, <1>3 DEF Find

\* Commit either changes nothing but the call, or is one step of RunHistory.
LEMMA CommitStep ==
  ASSUME LifecycleInv, NEW c \in Callers, Commit(c)
  PROVE  [HistoryNext]_store /\ LifecycleInv'
<1> DEFINE x == call[c]
           k == x.command.command_id
<1>1. x.pc = "commit"
  BY DEF Commit
<1>2. x \in CallRecord /\ WellFormed(x)
  BY DEF LifecycleInv, LifecycleTypeOK
<1>3. x.command \in Commands /\ Pending(x) /\ k \in CommandIds
  BY <1>1, <1>2, CommandFacts DEF WellFormed
<1>4. {"version_conflict", "invariant_violation", "swap_failed", "committed"} \subseteq ReplyCodes
  BY DEF ReplyCodes
<1>5. CASE ReplayOrConflict(c) /\ UNCHANGED store
  BY <1>1, <1>5, ReplayKeepsInv
<1>6. ASSUME UNCHANGED store,
             NEW code \in {"version_conflict", "invariant_violation", "swap_failed"},
             Reply(c, code, None)
      PROVE  [HistoryNext]_store /\ LifecycleInv'
  BY <1>4, <1>6, ReplyKeepsInv
<1>7. CASE /\ ~Accepted(c)
           /\ VersionMatches(x.run_id, x.expected)
           /\ Record(k, x.run_id, x.decision, CallReceipt(c))
           /\ Reply(c, "committed", CallReceipt(c))
  <2>1. x.loaded # None => PastOf(x.loaded, runs[x.run_id])
    BY DEF LifecycleInv, SnapshotsAgree
  <2>2. commands[k] = None
    BY <1>7 DEF Accepted
  <2>3. HistoryNext
    BY <1>1, <1>2, <1>7, <2>1, <2>2, RecordIsHistoryStep DEF CallReceipt
  <2>4. CallReceipt(c) \in Receipt \cup {None}
    <3>1. IInv'
      BY <2>3, IInvStep DEF LifecycleInv
    <3>2. commands' = [commands EXCEPT ![k] = CallReceipt(c)]
      BY <1>7 DEF Record
    <3>3. commands'[k] = CallReceipt(c)
      BY <1>3, <3>2 DEF LifecycleInv, IInv, StoreTypeOK
    <3> QED BY <1>3, <3>1, <3>3 DEF IInv, StoreTypeOK
  <2> QED BY <1>4, <1>7, <2>3, <2>4, ReplyKeepsInv
<1> QED BY <1>5, <1>6, <1>7 DEF Commit

LEMMA InitLifecycleInv == Init => LifecycleInv
BY LifecycleInvInit DEF Init

LEMMA NextStep ==
  LifecycleInv /\ [Next]_vars => LifecycleInv' /\ [HistoryNext]_store
<1> SUFFICES ASSUME LifecycleInv, [Next]_vars
             PROVE  LifecycleInv' /\ [HistoryNext]_store
  OBVIOUS
<1>1. ASSUME NEW c \in Callers, Request(c)
      PROVE  LifecycleInv' /\ [HistoryNext]_store
  BY <1>1, RequestKeepsInv DEF Request
<1>2. ASSUME NEW c \in Callers, BuildRun(c, {})
      PROVE  LifecycleInv' /\ [HistoryNext]_store
  BY <1>2, BuildRunKeepsInv DEF BuildRun
<1>3. ASSUME NEW c \in Callers, LoadAndDecide(c)
      PROVE  LifecycleInv' /\ [HistoryNext]_store
  BY <1>3, LoadAndDecideKeepsInv DEF LoadAndDecide
<1>4. ASSUME NEW c \in Callers, Find(c)
      PROVE  LifecycleInv' /\ [HistoryNext]_store
  BY <1>4, FindKeepsInv DEF Find
<1>5. ASSUME NEW c \in Callers, Commit(c)
      PROVE  LifecycleInv' /\ [HistoryNext]_store
  BY <1>5, CommitStep
<1>6. CASE UNCHANGED vars
  <2>1. UNCHANGED store /\ call' = call
    BY <1>6 DEF vars, store
  <2> QED
    BY <2>1 DEF store, LifecycleInv, IInv, StoreTypeOK, HistoryMatchesRun,
       TimeMovesForward, BudgetIsSpentOnce, LifecycleTypeOK, SnapshotsAgree
<1> QED BY <1>1, <1>2, <1>3, <1>4, <1>5, <1>6 DEF Next

\* Calls in any number and any interleaving move the store only as RunHistory
\* does: one accepted command at a time, decided on the run as it then is.
THEOREM MemoryImplementsHistory == Spec => ImplementsHistory
<1>1. Init => HistoryInit
  BY DEF Init, LifecycleInit, HistoryInit
<1> QED BY <1>1, InitLifecycleInv, NextStep, PTL DEF Spec, ImplementsHistory, HistorySpec

\* Calls and store are well-formed at every await of every caller.
THEOREM MemoryTypeCorrect == Spec => []LifecycleTypeOK
<1>1. LifecycleInv => LifecycleTypeOK
  BY DEF LifecycleInv
<1> QED BY <1>1, InitLifecycleInv, NextStep, PTL DEF Spec

\* The version check alone decides whether a snapshot is stale.
THEOREM MemorySnapshotsAgree == Spec => []SnapshotsAgree
<1>1. LifecycleInv => SnapshotsAgree
  BY DEF LifecycleInv
<1> QED BY <1>1, InitLifecycleInv, NextStep, PTL DEF Spec

\* What RunHistory promises of every run holds under the service: snapshots and
\* logs agree, charges are spent once, time moves forward.
THEOREM MemoryKeepsPromises ==
  Spec => [](HistoryMatchesRun /\ BudgetIsSpentOnce /\ TimeMovesForward)
<1>1. LifecycleInv => HistoryMatchesRun /\ BudgetIsSpentOnce /\ TimeMovesForward
  BY DEF LifecycleInv, IInv
<1> QED BY <1>1, InitLifecycleInv, NextStep, PTL DEF Spec

\* Ended runs stay as they are, and nothing stored is ever taken back.
THEOREM MemoryFreezesAndAppends == Spec => TerminalFrozen /\ AppendOnly
BY MemoryImplementsHistory, EndedRunsAreFrozen, HistoryIsAppendOnly, PTL DEF ImplementsHistory

\* What callers are told over the memory repository.
LEMMA MemoryReplayAnswers ==
  ASSUME LifecycleInv, NEW c \in Callers, call[c].pc # "idle",
         ReplayOrConflict(c), UNCHANGED store
  PROVE  Answers(c)
<1>1. call[c].command \in Commands
  BY DEF LifecycleInv, LifecycleTypeOK, WellFormed
<1>2. commands' = commands
  BY DEF store
<1> QED BY <1>1, <1>2, ReplyAnswers DEF ReplayOrConflict

\* The validator never refuses what the service built: PendingIsValid.
LEMMA MemoryCommitAnswers ==
  ASSUME LifecycleInv, NEW c \in Callers, Commit(c)
  PROVE  Answers(c)
<1> DEFINE x == call[c]
           k == x.command.command_id
<1>1. x.pc = "commit"
  BY DEF Commit
<1>2. x \in CallRecord /\ WellFormed(x)
  BY DEF LifecycleInv, LifecycleTypeOK
<1>3. x.command \in Commands /\ k \in CommandIds
  BY <1>1, <1>2, CommandFacts DEF WellFormed
<1>4. CASE ReplayOrConflict(c) /\ UNCHANGED store
  BY <1>1, <1>4, MemoryReplayAnswers
<1>5. CASE /\ Record(k, x.run_id, x.decision, CallReceipt(c))
           /\ Reply(c, "committed", CallReceipt(c))
  <2>1. commands'[k] = CallReceipt(c)
    BY <1>3, <1>5 DEF Record, LifecycleInv, IInv, StoreTypeOK
  <2> QED BY <1>3, <1>5, <2>1, ReplyAnswers
<1>6. VersionMatches(x.run_id, x.expected)
        => ValidCandidate(x.expected, runs[x.run_id], x.decision, CallReceipt(c))
  <2>1. x.loaded # None => PastOf(x.loaded, runs[x.run_id])
    BY DEF LifecycleInv, SnapshotsAgree
  <2> QED BY <1>1, <1>2, <2>1, PendingIsValid DEF CallReceipt
<1>7. \A code : Reply(c, code, None) /\ code # "invariant_violation" => Answers(c)
  BY ReplyAnswers
<1>8. CASE Reply(c, IF ~VersionMatches(x.run_id, x.expected) THEN "version_conflict"
                    ELSE IF ~ValidCandidate(x.expected, runs[x.run_id], x.decision,
                                            CallReceipt(c)) THEN "invariant_violation"
                    ELSE "swap_failed", None)
  BY <1>6, <1>7, <1>8
<1> QED BY <1>4, <1>5, <1>8 DEF Commit

LEMMA MemoryRepliesStep ==
  LifecycleInv /\ RepliesStand /\ [Next]_vars => RepliesStand'
<1> SUFFICES ASSUME LifecycleInv, RepliesStand, [Next]_vars
             PROVE  RepliesStand'
  OBVIOUS
<1>1. [HistoryNext]_store
  BY NextStep
<1>2. ASSUME NEW c \in Callers,
             Request(c) \/ BuildRun(c, {}) \/ LoadAndDecide(c) \/ Find(c) \/ Commit(c)
      PROVE  Answers(c)
  <2>1. CASE Request(c) \/ BuildRun(c, {}) \/ LoadAndDecide(c)
    BY <2>1, ServiceAnswers
  <2>2. CASE Find(c)
    <3>1. call[c].pc = "find" /\ UNCHANGED store
      BY <2>2 DEF Find
    <3>2. CASE ReplayOrConflict(c)
      BY <3>1, <3>2, MemoryReplayAnswers
    <3>3. CASE AfterFind(c)
      BY <3>3, GotoAnswers DEF AfterFind
    <3> QED BY <2>2, <3>2, <3>3 DEF Find
  <2>3. CASE Commit(c)
    BY <2>3, MemoryCommitAnswers
  <2> QED BY <1>2, <2>1, <2>2, <2>3
<1>3. CASE Next
  BY <1>1, <1>2, <1>3, AnswersKeepReplies DEF Next
<1>4. CASE UNCHANGED vars
  BY <1>4 DEF vars, RepliesStand
<1> QED BY <1>3, <1>4

\* Every receipt a caller holds, first or replayed, is the one stored for its
\* command, whatever the interleaving of the calls that sent it.
THEOREM MemoryRepliesAreStored == Spec => []RepliesAreStored
<1>1. RepliesStand => RepliesAreStored
  BY DEF RepliesStand, Stands, RepliesAreStored
<1>2. Init => RepliesStand
  BY InitRepliesStand DEF Init
<1> QED BY <1>1, <1>2, InitLifecycleInv, NextStep, MemoryRepliesStep, PTL DEF Spec

\* No race of calls ever hands the commit validator a candidate it refuses.
THEOREM MemoryNeverInvariantViolation == Spec => []NeverInvariantViolation
<1>1. RepliesStand => NeverInvariantViolation
  BY DEF RepliesStand, Stands, NeverInvariantViolation
<1>2. Init => RepliesStand
  BY InitRepliesStand DEF Init
<1> QED BY <1>1, <1>2, InitLifecycleInv, NextStep, MemoryRepliesStep, PTL DEF Spec

\* Receipts and events pair up under the service: no command is applied twice
\* and no accepted work is lost, however many callers race.
THEOREM MemoryReceiptsExplainHistory == Spec => []ReceiptsExplainHistory
BY MemoryImplementsHistory, ReceiptsAccountForEvents, PTL DEF ImplementsHistory
=============================================================================
