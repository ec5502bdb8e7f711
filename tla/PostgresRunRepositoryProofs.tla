--------------------- MODULE PostgresRunRepositoryProofs ---------------------
(***************************************************************************)
(* The service over the PostgreSQL repository implements RunHistory, for   *)
(* any number of callers, runs and commands, with transactions cut short   *)
(* at any statement and commits left in doubt.                             *)
(***************************************************************************)
EXTENDS PostgresRunRepository, RunLifecycleProofs

\* What transaction x relies on until it ends: its command has no receipt yet,
\* and once it holds the row the expected version is the current one.
Undisturbed(x, receipt, run) ==
  /\ receipt = None
  /\ x.pc \in RowPhases => (IF run = None THEN 0 ELSE run.version) = x.expected

\* What the locks keep apart.
Apart(x, y) ==
  /\ Key(x) # Key(y)
  /\ (x.pc \in RowPhases /\ y.pc \in RowPhases) => x.run_id # y.run_id

OrphansOK ==
  \A o \in orphans :
    /\ o \in CallRecord /\ o.pc \in KeyPhases /\ WellFormed(o)
    /\ o.loaded # None => PastOf(o.loaded, runs[o.run_id])
    /\ Undisturbed(o, commands[Key(o)], runs[o.run_id])

TransactionsOK ==
  /\ \A c \in Callers : call[c].pc \in KeyPhases =>
       Undisturbed(call[c], commands[Key(call[c])], runs[call[c].run_id])
  /\ \A c, d \in Callers :
       (c # d /\ call[c].pc \in KeyPhases /\ call[d].pc \in KeyPhases)
         => Apart(call[c], call[d])
  /\ \A c \in Callers : \A o \in orphans :
       call[c].pc \in KeyPhases => Apart(call[c], o)
  /\ \A o, p \in orphans : o # p => Apart(o, p)

\* The inductive invariant: locks keep transactions apart, so that each of them
\* may still commit what it decided, however long it stays in doubt.
PgInv == LifecycleInv /\ OrphansOK /\ TransactionsOK

LEMMA ApartSymmetric == \A x, y : Apart(x, y) => Apart(y, x)
BY DEF Apart

LEMMA TransactionFacts ==
  ASSUME NEW x \in CallRecord, WellFormed(x), x.pc \in KeyPhases
  PROVE  /\ x.command \in Commands /\ Key(x) \in CommandIds
         /\ x.run_id \in RunIds
         /\ x.loaded \in Run \cup {None}
BY CommandFacts DEF WellFormed, Pending, KeyPhases, CallRecord, Key

\* A step that leaves the store alone and moves one call.
LEMMA CallStepKeepsInv ==
  ASSUME PgInv, LifecycleInv', UNCHANGED store, orphans' = orphans, NEW c \in Callers,
         \A d \in Callers \ {c} : call'[d] = call[d],
         call'[c].pc \in KeyPhases =>
           /\ Undisturbed(call'[c], commands[Key(call'[c])], runs[call'[c].run_id])
           /\ \A d \in Callers \ {c} : call[d].pc \in KeyPhases => Apart(call'[c], call[d])
           /\ \A o \in orphans : Apart(call'[c], o)
  PROVE  PgInv'
<1>1. runs' = runs /\ commands' = commands
  BY DEF store
<1>2. OrphansOK'
  BY <1>1 DEF PgInv, OrphansOK
<1>3. \A d \in Callers : call'[d].pc \in KeyPhases =>
        Undisturbed(call'[d], commands'[Key(call'[d])], runs'[call'[d].run_id])
  BY <1>1 DEF PgInv, TransactionsOK
<1>4. \A d, e \in Callers :
        (d # e /\ call'[d].pc \in KeyPhases /\ call'[e].pc \in KeyPhases)
          => Apart(call'[d], call'[e])
  BY ApartSymmetric DEF PgInv, TransactionsOK
<1>5. \A d \in Callers : \A o \in orphans :
        call'[d].pc \in KeyPhases => Apart(call'[d], o)
  BY DEF PgInv, TransactionsOK
<1>6. \A o, p \in orphans : o # p => Apart(o, p)
  BY DEF PgInv, TransactionsOK
<1>7. TransactionsOK'
  BY <1>3, <1>4, <1>5, <1>6 DEF TransactionsOK
<1> QED BY <1>2, <1>7 DEF PgInv

\* A commit of t disturbs nobody whom the locks kept apart from it.
LEMMA RecordDisturbsNobody ==
  ASSUME StoreTypeOK, NEW t, NEW y, NEW decision, NEW receipt,
         Key(t) \in CommandIds, t.run_id \in RunIds, t.pc \in RowPhases,
         Key(y) \in CommandIds, y.run_id \in RunIds,
         Record(Key(t), t.run_id, decision, receipt), Apart(t, y),
         Undisturbed(y, commands[Key(y)], runs[y.run_id])
  PROVE  Undisturbed(y, commands'[Key(y)], runs'[y.run_id])
<1>1. commands'[Key(y)] = commands[Key(y)]
  BY DEF Record, Apart, StoreTypeOK
<1>2. y.pc \in RowPhases => runs'[y.run_id] = runs[y.run_id]
  BY DEF Record, Apart, StoreTypeOK
<1> QED BY <1>1, <1>2 DEF Undisturbed

\* The commit of a transaction, by its own call or left behind, is one step of
\* RunHistory: what it decided is still the decision of now.
LEMMA CommitIsHistoryStep ==
  ASSUME LifecycleInv, NEW x \in CallRecord, WellFormed(x), x.pc = "sent",
         x.loaded # None => PastOf(x.loaded, runs[x.run_id]),
         Undisturbed(x, commands[Key(x)], runs[x.run_id]),
         Record(Key(x), x.run_id, x.decision,
                ReceiptOf(x.command.intent, x.run_id, x.decision))
  PROVE  HistoryNext
<1>1. commands[x.command.command_id] = None /\ VersionMatches(x.run_id, x.expected)
  BY DEF Undisturbed, RowPhases, VersionMatches, CurrentVersion, Key
<1> QED BY <1>1, RecordIsHistoryStep DEF Key

\* One call moves to a phase outside of any transaction.
MovesOutside(c) ==
  /\ call'[c].pc \notin KeyPhases
  /\ \A d \in Callers \ {c} : call'[d] = call[d]

LEMMA CallOutsideKeepsInv ==
  ASSUME PgInv, LifecycleInv', UNCHANGED store, orphans' = orphans, NEW c \in Callers,
         MovesOutside(c)
  PROVE  PgInv'
BY CallStepKeepsInv DEF MovesOutside

\* Each way to move a call, when it leads outside of any transaction.
LEMMA OutsideMoves ==
  ASSUME call \in [Callers -> CallRecord], NEW c \in Callers
  PROVE  /\ \A code, receipt : Reply(c, code, receipt) => MovesOutside(c)
         /\ \A r, l, d : GotoCommit(c, r, l, d) => MovesOutside(c)
         /\ \A pc : Goto(c, pc) /\ pc \notin KeyPhases => MovesOutside(c)
         /\ Request(c) => MovesOutside(c)
<1>1. ASSUME NEW x, x.pc \notin KeyPhases, call' = [call EXCEPT ![c] = x]
      PROVE  MovesOutside(c)
  BY <1>1 DEF MovesOutside
<1>2. \A reply : AtRest(reply).pc \notin KeyPhases
  BY DEF AtRest, KeyPhases
<1>3. ASSUME NEW pc, NEW k, NEW v, NEW r, NEW l, NEW d, pc \notin KeyPhases,
             call' = [call EXCEPT ![c] = Call(pc, k, v, r, l, d)]
      PROVE  MovesOutside(c)
  <2>1. Call(pc, k, v, r, l, d).pc = pc
    BY DEF Call
  <2> QED BY <1>1, <1>3, <2>1
<1>4. "commit" \notin KeyPhases /\ "find" \notin KeyPhases
  BY DEF KeyPhases
<1>5. ASSUME NEW code, NEW receipt, Reply(c, code, receipt)
      PROVE  MovesOutside(c)
  BY <1>1, <1>2, <1>5 DEF Reply
<1>6. ASSUME NEW r, NEW l, NEW d, GotoCommit(c, r, l, d)
      PROVE  MovesOutside(c)
  BY <1>3, <1>4, <1>6 DEF GotoCommit
<1>7. ASSUME NEW pc, Goto(c, pc), pc \notin KeyPhases
      PROVE  MovesOutside(c)
  BY <1>3, <1>7 DEF Goto
<1>8. ASSUME Request(c)
      PROVE  MovesOutside(c)
  <2>1. PICK command \in Commands :
          \E v \in IF command.intent.type = "create_run" THEN {0} ELSE Versions :
            call' = [call EXCEPT ![c] = Call("find", command, v, None, None, NoDecision)]
    BY <1>8 DEF Request
  <2>2. PICK v \in IF command.intent.type = "create_run" THEN {0} ELSE Versions :
          call' = [call EXCEPT ![c] = Call("find", command, v, None, None, NoDecision)]
    BY <2>1
  <2> QED BY <1>3, <1>4, <2>2
<1> QED BY <1>5, <1>6, <1>7, <1>8

LEMMA ReplyStep ==
  ASSUME PgInv, NEW c \in Callers, NEW code \in ReplyCodes,
         NEW receipt \in Receipt \cup {None}, Reply(c, code, receipt),
         UNCHANGED store, orphans' = orphans
  PROVE  PgInv'
<1>1. LifecycleInv'
  BY ReplyKeepsInv DEF PgInv
<1>2. call \in [Callers -> CallRecord]
  BY DEF PgInv, LifecycleInv, LifecycleTypeOK
<1> QED BY <1>1, <1>2, OutsideMoves, CallOutsideKeepsInv

\* The steps of the service itself hold no lock.
LEMMA ServiceStep ==
  ASSUME PgInv, NEW c \in Callers, orphans' = orphans,
         Request(c) \/ BuildRun(c, Reserved) \/ LoadAndDecide(c)
  PROVE  PgInv' /\ UNCHANGED store
<1>1. UNCHANGED store
  BY DEF Request, BuildRun, LoadAndDecide
<1>2. LifecycleInv'
  BY RequestKeepsInv, BuildRunKeepsInv, LoadAndDecideKeepsInv DEF PgInv
<1>3. call \in [Callers -> CallRecord]
  BY DEF PgInv, LifecycleInv, LifecycleTypeOK
<1>4. MovesOutside(c)
  <2>1. CASE Request(c)
    BY <1>3, <2>1, OutsideMoves
  <2>2. CASE BuildRun(c, Reserved)
    BY <1>3, <2>2, OutsideMoves DEF BuildRun
  <2>3. CASE LoadAndDecide(c)
    BY <1>3, <2>3, OutsideMoves DEF LoadAndDecide
  <2> QED BY <2>1, <2>2, <2>3
<1> QED BY <1>1, <1>2, <1>4, CallOutsideKeepsInv

LEMMA ReplayStep ==
  ASSUME PgInv, NEW c \in Callers, call[c].pc # "idle",
         ReplayOrConflict(c), UNCHANGED store, orphans' = orphans
  PROVE  PgInv'
<1>1. Key(call[c]) \in CommandIds
  BY CommandFacts DEF PgInv, LifecycleInv, LifecycleTypeOK, WellFormed, Key
<1>2. commands[Key(call[c])] \in Receipt \cup {None}
  BY <1>1 DEF PgInv, LifecycleInv, IInv, StoreTypeOK
<1>3. {"idempotency_conflict", "data_corruption", "replayed"} \subseteq ReplyCodes
  BY DEF ReplyCodes
<1> QED BY <1>2, <1>3, ReplyStep DEF ReplayOrConflict

LEMMA FindStep ==
  ASSUME PgInv, NEW c \in Callers, Find(c)
  PROVE  PgInv'
<1>1. call[c].pc = "find" /\ UNCHANGED store /\ orphans' = orphans
  BY DEF Find, store
<1>2. CASE ReplayOrConflict(c)
  BY <1>1, <1>2, ReplayStep
<1>3. CASE AfterFind(c)
  <2>1. LifecycleInv'
    BY <1>1, <1>3, AfterFindKeepsInv DEF PgInv
  <2>2. MovesOutside(c)
    <3>1. call \in [Callers -> CallRecord]
      BY DEF PgInv, LifecycleInv, LifecycleTypeOK
    <3>2. "create" \notin KeyPhases /\ "load" \notin KeyPhases
      BY DEF KeyPhases
    <3> QED BY <1>3, <3>1, <3>2, OutsideMoves DEF AfterFind
  <2> QED BY <1>1, <2>1, <2>2, CallOutsideKeepsInv
<1> QED BY <1>2, <1>3 DEF Find

\* A call in flight before or in its transaction, and what Goto makes of it.
LEMMA GotoFacts ==
  ASSUME PgInv, NEW c \in Callers, NEW pc \in KeyPhases, Goto(c, pc),
         call[c].pc \in {"commit", "lock", "write"}, UNCHANGED store
  PROVE  /\ LifecycleInv'
         /\ \A d \in Callers \ {c} : call'[d] = call[d]
         /\ call'[c].pc = pc
         /\ Key(call'[c]) = Key(call[c])
         /\ call'[c].run_id = call[c].run_id
         /\ call'[c].expected = call[c].expected
<1>1. call \in [Callers -> CallRecord] /\ WellFormed(call[c])
  BY DEF PgInv, LifecycleInv, LifecycleTypeOK
<1>2. Pending(call[c])
  BY <1>1 DEF WellFormed
<1>3. LifecycleInv'
  BY <1>2, GotoKeepsInv DEF PgInv, KeyPhases
<1> QED BY <1>1, <1>3 DEF Goto, Call, Key

\* The receipt is inserted: nobody else holds its key.
LEMMA ArbitrateStep ==
  ASSUME PgInv, NEW c \in Callers, Arbitrate(c)
  PROVE  PgInv'
<1>1. call[c].pc = "commit" /\ KeyFree(c) /\ UNCHANGED store /\ orphans' = orphans
  BY DEF Arbitrate, store
<1>2. CASE ReplayOrConflict(c)
  BY <1>1, <1>2, ReplayStep
<1>3. CASE ~Accepted(c) /\ Goto(c, "lock")
  <2>1. /\ LifecycleInv'
        /\ \A d \in Callers \ {c} : call'[d] = call[d]
        /\ call'[c].pc = "lock" /\ "lock" \notin RowPhases
        /\ Key(call'[c]) = Key(call[c])
    BY <1>1, <1>3, GotoFacts DEF KeyPhases, RowPhases
  <2>2. Undisturbed(call'[c], commands[Key(call'[c])], runs[call'[c].run_id])
    BY <1>3, <2>1 DEF Undisturbed, Accepted
  <2>3. \A d \in Callers \ {c} : call[d].pc \in KeyPhases => Apart(call'[c], call[d])
    BY <1>1, <2>1 DEF KeyFree, Apart
  <2>4. \A o \in orphans : Apart(call'[c], o)
    BY <1>1, <2>1 DEF KeyFree, Apart
  <2> QED BY <1>1, <2>1, <2>2, <2>3, <2>4, CallStepKeepsInv
<1> QED BY <1>2, <1>3 DEF Arbitrate

\* The row is locked: nobody else holds it, and its version is the expected one.
LEMMA LockRowStep ==
  ASSUME PgInv, NEW c \in Callers, LockRow(c)
  PROVE  PgInv'
<1>1. call[c].pc = "lock" /\ RowFree(c) /\ UNCHANGED store /\ orphans' = orphans
  BY DEF LockRow, store
<1>2. {"version_conflict", "invariant_violation"} \subseteq ReplyCodes
  BY DEF ReplyCodes
<1>3. ASSUME NEW code \in ReplyCodes, Reply(c, code, None)
      PROVE  PgInv'
  BY <1>1, <1>3, ReplyStep
<1>4. CASE VersionMatches(call[c].run_id, call[c].expected) /\ Goto(c, "write")
  <2>1. /\ LifecycleInv'
        /\ \A d \in Callers \ {c} : call'[d] = call[d]
        /\ call'[c].pc = "write"
        /\ Key(call'[c]) = Key(call[c])
        /\ call'[c].run_id = call[c].run_id
        /\ call'[c].expected = call[c].expected
    BY <1>1, <1>4, GotoFacts DEF KeyPhases
  <2>2. Undisturbed(call'[c], commands[Key(call'[c])], runs[call'[c].run_id])
    BY <1>1, <1>4, <2>1
    DEF Undisturbed, PgInv, TransactionsOK, KeyPhases, VersionMatches, CurrentVersion
  <2>3. \A d \in Callers \ {c} : call[d].pc \in KeyPhases => Apart(call'[c], call[d])
    BY <1>1, <2>1 DEF RowFree, Apart, PgInv, TransactionsOK, KeyPhases
  <2>4. \A o \in orphans : Apart(call'[c], o)
    BY <1>1, <2>1 DEF RowFree, Apart, PgInv, TransactionsOK, KeyPhases
  <2> QED BY <1>1, <2>1, <2>2, <2>3, <2>4, CallStepKeepsInv
<1> QED BY <1>2, <1>3, <1>4 DEF LockRow

LEMMA SendCommitStep ==
  ASSUME PgInv, NEW c \in Callers, SendCommit(c)
  PROVE  PgInv'
<1>1. call[c].pc = "write" /\ Goto(c, "sent") /\ UNCHANGED store /\ orphans' = orphans
  BY DEF SendCommit, store
<1>2. /\ LifecycleInv'
      /\ \A d \in Callers \ {c} : call'[d] = call[d]
      /\ call'[c].pc = "sent"
      /\ Key(call'[c]) = Key(call[c])
      /\ call'[c].run_id = call[c].run_id
      /\ call'[c].expected = call[c].expected
  BY <1>1, GotoFacts DEF KeyPhases
<1>3. Undisturbed(call'[c], commands[Key(call'[c])], runs[call'[c].run_id])
  BY <1>1, <1>2 DEF Undisturbed, PgInv, TransactionsOK, KeyPhases, RowPhases
<1>4. \A d \in Callers \ {c} : call[d].pc \in KeyPhases => Apart(call'[c], call[d])
  BY <1>1, <1>2 DEF Apart, PgInv, TransactionsOK, KeyPhases, RowPhases
<1>5. \A o \in orphans : Apart(call'[c], o)
  BY <1>1, <1>2 DEF Apart, PgInv, TransactionsOK, KeyPhases, RowPhases
<1> QED BY <1>1, <1>2, <1>3, <1>4, <1>5, CallStepKeepsInv

\* A transaction is cut short: its call ends, and the server may keep the rest.
LEMMA DropStep ==
  ASSUME PgInv, NEW c \in Callers, Drop(c)
  PROVE  PgInv' /\ UNCHANGED store
<1>1. UNCHANGED store
  BY DEF Drop
<1>2. PICK code \in ReplyCodes : Reply(c, code, None)
  BY DEF Drop, FailureCode, ReplyCodes
<1>3. call \in [Callers -> CallRecord] /\ call[c] \in CallRecord /\ WellFormed(call[c])
  BY DEF PgInv, LifecycleInv, LifecycleTypeOK
<1>4. LifecycleInv'
  BY <1>1, <1>2, ReplyKeepsInv DEF PgInv
<1>5. MovesOutside(c)
  BY <1>2, <1>3, OutsideMoves
<1>6. CASE call[c].pc \notin KeyPhases
  <2>1. orphans' = orphans
    BY <1>6 DEF Drop
  <2> QED BY <1>1, <1>4, <1>5, <2>1, CallOutsideKeepsInv
<1>7. CASE call[c].pc \in KeyPhases
  <2>1. orphans' = orphans \cup {call[c]}
    BY <1>7 DEF Drop
  <2>2. runs' = runs /\ commands' = commands
    BY <1>1 DEF store
  <2>3. call[c].loaded # None => PastOf(call[c].loaded, runs[call[c].run_id])
    BY DEF PgInv, LifecycleInv, SnapshotsAgree
  <2>4. Undisturbed(call[c], commands[Key(call[c])], runs[call[c].run_id])
    BY <1>7 DEF PgInv, TransactionsOK
  <2>5. OrphansOK'
    BY <1>3, <1>7, <2>1, <2>2, <2>3, <2>4 DEF OrphansOK, PgInv
  <2>6. \A d \in Callers : call'[d].pc \in KeyPhases => d # c /\ call'[d] = call[d]
    BY <1>5 DEF MovesOutside
  <2>7. \A d \in Callers : call'[d].pc \in KeyPhases =>
          Undisturbed(call'[d], commands'[Key(call'[d])], runs'[call'[d].run_id])
    BY <2>2, <2>6 DEF PgInv, TransactionsOK
  <2>8. \A d, e \in Callers :
          (d # e /\ call'[d].pc \in KeyPhases /\ call'[e].pc \in KeyPhases)
            => Apart(call'[d], call'[e])
    BY <2>6 DEF PgInv, TransactionsOK
  <2>9. \A d \in Callers : \A o \in orphans' :
          call'[d].pc \in KeyPhases => Apart(call'[d], o)
    BY <1>7, <2>1, <2>6 DEF PgInv, TransactionsOK
  <2>10. \A o, p \in orphans' : o # p => Apart(o, p)
    BY <1>7, <2>1, ApartSymmetric DEF PgInv, TransactionsOK
  <2>11. TransactionsOK'
    BY <2>7, <2>8, <2>9, <2>10 DEF TransactionsOK
  <2> QED BY <1>1, <1>4, <2>5, <2>11 DEF PgInv
<1> QED BY <1>6, <1>7

LEMMA FailStep ==
  ASSUME PgInv, NEW c \in Callers, Fail(c)
  PROVE  PgInv' /\ UNCHANGED store
<1>1. UNCHANGED store /\ orphans' = orphans
  BY DEF Fail, store
<1>2. PICK code \in ReplyCodes : Reply(c, code, None)
  BY DEF Fail, FailureCode, ReplyCodes
<1> QED BY <1>1, <1>2, ReplyStep

\* What a transaction left behind relies on, when another one, x, commits.
LEMMA OrphansSurvive ==
  ASSUME PgInv, [HistoryNext]_store, NEW x \in CallRecord, WellFormed(x), x.pc = "sent",
         NEW receipt, Record(Key(x), x.run_id, x.decision, receipt),
         NEW o \in orphans, Apart(x, o)
  PROVE  /\ o.loaded # None => PastOf(o.loaded, runs'[o.run_id])
         /\ Undisturbed(o, commands'[Key(o)], runs'[o.run_id])
<1>1. /\ o \in CallRecord /\ o.pc \in KeyPhases /\ WellFormed(o)
      /\ o.loaded # None => PastOf(o.loaded, runs[o.run_id])
      /\ Undisturbed(o, commands[Key(o)], runs[o.run_id])
  BY DEF PgInv, OrphansOK
<1>2. IInv /\ StoreTypeOK
  BY DEF PgInv, LifecycleInv, IInv
<1>3. /\ x.pc \in RowPhases /\ Key(x) \in CommandIds /\ x.run_id \in RunIds
      /\ Key(o) \in CommandIds /\ o.run_id \in RunIds /\ o.loaded \in Run \cup {None}
  <2>1. x.pc \in KeyPhases /\ x.pc \in RowPhases
    BY DEF KeyPhases, RowPhases
  <2> QED BY <1>1, <2>1, TransactionFacts
<1>4. o.loaded # None => PastOf(o.loaded, runs'[o.run_id])
  BY <1>1, <1>2, <1>3, PastOfSurvives
<1>5. Undisturbed(o, commands'[Key(o)], runs'[o.run_id])
  BY <1>1, <1>2, <1>3, RecordDisturbsNobody
<1> QED BY <1>4, <1>5

\* The same for the transaction of a call.
LEMMA CallsSurvive ==
  ASSUME PgInv, NEW x \in CallRecord, WellFormed(x), x.pc = "sent",
         NEW receipt, Record(Key(x), x.run_id, x.decision, receipt),
         NEW d \in Callers, call[d].pc \in KeyPhases, Apart(x, call[d])
  PROVE  Undisturbed(call[d], commands'[Key(call[d])], runs'[call[d].run_id])
<1>1. call[d] \in CallRecord /\ WellFormed(call[d])
  BY DEF PgInv, LifecycleInv, LifecycleTypeOK
<1>2. Undisturbed(call[d], commands[Key(call[d])], runs[call[d].run_id])
  BY DEF PgInv, TransactionsOK
<1>3. StoreTypeOK
  BY DEF PgInv, LifecycleInv, IInv
<1>4. x.pc \in KeyPhases /\ x.pc \in RowPhases
  BY DEF KeyPhases, RowPhases
<1>5. /\ Key(x) \in CommandIds /\ x.run_id \in RunIds
      /\ Key(call[d]) \in CommandIds /\ call[d].run_id \in RunIds
  BY <1>1, <1>4, TransactionFacts
<1> QED BY <1>2, <1>3, <1>4, <1>5, RecordDisturbsNobody

LEMMA CompleteStep ==
  ASSUME PgInv, NEW c \in Callers, Complete(c)
  PROVE  PgInv' /\ HistoryNext
<1> DEFINE x == call[c]
<1>1. /\ x.pc = "sent" /\ orphans' = orphans
      /\ Record(Key(x), x.run_id, x.decision, CallReceipt(c))
      /\ Reply(c, "committed", CallReceipt(c))
  BY DEF Complete
<1>2. /\ call \in [Callers -> CallRecord] /\ x \in CallRecord /\ WellFormed(x)
      /\ LifecycleInv /\ IInv /\ StoreTypeOK
  BY DEF PgInv, LifecycleInv, LifecycleTypeOK
<1>3. x.loaded # None => PastOf(x.loaded, runs[x.run_id])
  BY <1>2 DEF LifecycleInv, SnapshotsAgree
<1>4. x.pc \in KeyPhases
  BY <1>1 DEF KeyPhases
<1>5. Undisturbed(x, commands[Key(x)], runs[x.run_id])
  BY <1>4 DEF PgInv, TransactionsOK
<1>6. HistoryNext
  BY <1>1, <1>2, <1>3, <1>5, CommitIsHistoryStep DEF CallReceipt
<1>7. CallReceipt(c) \in Receipt \cup {None}
  <2>1. Key(x) \in CommandIds
    BY <1>2, <1>4, TransactionFacts
  <2>2. StoreTypeOK'
    BY <1>2, <1>6, IInvStep DEF IInv
  <2>3. commands'[Key(x)] = CallReceipt(c)
    BY <1>1, <1>2, <2>1 DEF Record, StoreTypeOK
  <2> QED BY <2>1, <2>2, <2>3 DEF StoreTypeOK
<1>8. LifecycleInv'
  <2>1. "committed" \in ReplyCodes
    BY DEF ReplyCodes
  <2> QED BY <1>1, <1>2, <1>6, <1>7, <2>1, ReplyKeepsInv
<1>9. \A d \in Callers : call'[d].pc \in KeyPhases =>
        /\ d # c /\ call'[d] = call[d] /\ Apart(x, call[d])
  <2>1. MovesOutside(c)
    BY <1>1, <1>2, OutsideMoves
  <2> QED BY <1>4, <2>1 DEF MovesOutside, PgInv, TransactionsOK
<1>10. \A o \in orphans : Apart(x, o)
  BY <1>4 DEF PgInv, TransactionsOK
<1>11. OrphansOK'
  <2>1. \A o \in orphans : o \in CallRecord /\ o.pc \in KeyPhases /\ WellFormed(o)
    BY DEF PgInv, OrphansOK
  <2>2. \A o \in orphans :
          /\ o.loaded # None => PastOf(o.loaded, runs'[o.run_id])
          /\ Undisturbed(o, commands'[Key(o)], runs'[o.run_id])
    <3> HIDE DEF x
    <3> QED BY <1>1, <1>2, <1>6, <1>10, OrphansSurvive
  <2> QED BY <1>1, <2>1, <2>2 DEF OrphansOK
<1>12. TransactionsOK'
  <2>1. \A d \in Callers : call'[d].pc \in KeyPhases =>
          Undisturbed(call'[d], commands'[Key(call'[d])], runs'[call'[d].run_id])
    <3> SUFFICES ASSUME NEW d \in Callers, call'[d].pc \in KeyPhases
                 PROVE  Undisturbed(call'[d], commands'[Key(call'[d])], runs'[call'[d].run_id])
      OBVIOUS
    <3>1. call'[d] = call[d] /\ Apart(x, call[d]) /\ call[d].pc \in KeyPhases
      BY <1>9
    <3>2. Undisturbed(call[d], commands'[Key(call[d])], runs'[call[d].run_id])
      <4> HIDE DEF x
      <4> QED BY <1>1, <1>2, <3>1, CallsSurvive
    <3> QED BY <3>1, <3>2
  <2>2. /\ \A d, e \in Callers :
             (d # e /\ call'[d].pc \in KeyPhases /\ call'[e].pc \in KeyPhases)
               => Apart(call'[d], call'[e])
        /\ \A d \in Callers : \A o \in orphans' :
             call'[d].pc \in KeyPhases => Apart(call'[d], o)
        /\ \A o, p \in orphans' : o # p => Apart(o, p)
    BY <1>1, <1>9 DEF PgInv, TransactionsOK
  <2> QED BY <2>1, <2>2 DEF TransactionsOK
<1> QED BY <1>6, <1>8, <1>11, <1>12 DEF PgInv

\* The server rolls a transaction left behind back, or commits what it wrote.
LEMMA ResolveStep ==
  ASSUME PgInv, NEW o \in orphans, Resolve(o)
  PROVE  PgInv' /\ [HistoryNext]_store
<1>1. /\ orphans' = orphans \ {o} /\ call' = call
      /\ o \in CallRecord /\ o.pc \in KeyPhases /\ WellFormed(o)
      /\ o.loaded # None => PastOf(o.loaded, runs[o.run_id])
      /\ Undisturbed(o, commands[Key(o)], runs[o.run_id])
  BY DEF Resolve, PgInv, OrphansOK
<1>2. LifecycleInv /\ IInv /\ call \in [Callers -> CallRecord]
  BY DEF PgInv, LifecycleInv, LifecycleTypeOK
<1>3. ASSUME [HistoryNext]_store
      PROVE  LifecycleInv'
  <2>1. IInv'
    BY <1>2, <1>3, IInvStep
  <2>2. \A d \in Callers : WellFormed(call'[d])
    BY <1>1, <1>2 DEF LifecycleInv, LifecycleTypeOK
  <2>3. LifecycleTypeOK'
    BY <1>1, <1>2, <2>1, <2>2 DEF LifecycleTypeOK, IInv
  <2>4. SnapshotsAgree'
    <3> SUFFICES ASSUME NEW d \in Callers, call[d].loaded # None
                 PROVE  PastOf(call[d].loaded, runs'[call[d].run_id])
      BY <1>1 DEF SnapshotsAgree
    <3>1. call[d].loaded \in Run /\ call[d].run_id \in RunIds
      BY <1>2, LoadedFacts DEF LifecycleInv
    <3>2. PastOf(call[d].loaded, runs[call[d].run_id])
      BY <1>2 DEF LifecycleInv, SnapshotsAgree
    <3> QED BY <1>2, <1>3, <3>1, <3>2, PastOfSurvives
  <2> QED BY <2>1, <2>3, <2>4 DEF LifecycleInv
<1>4. /\ \A d \in Callers : call[d].pc \in KeyPhases => Apart(o, call[d])
      /\ \A p \in orphans' : p \in orphans /\ Apart(o, p)
  BY <1>1, ApartSymmetric DEF PgInv, TransactionsOK
<1>5. /\ \A d, e \in Callers :
           (d # e /\ call'[d].pc \in KeyPhases /\ call'[e].pc \in KeyPhases)
             => Apart(call'[d], call'[e])
      /\ \A d \in Callers : \A p \in orphans' :
           call'[d].pc \in KeyPhases => Apart(call'[d], p)
      /\ \A p, q \in orphans' : p # q => Apart(p, q)
  BY <1>1, <1>4 DEF PgInv, TransactionsOK
<1>6. CASE UNCHANGED store
  <2>1. runs' = runs /\ commands' = commands
    BY <1>6 DEF store
  <2>2. OrphansOK'
    BY <1>4, <2>1 DEF PgInv, OrphansOK
  <2>3. TransactionsOK'
    BY <1>1, <1>5, <2>1 DEF PgInv, TransactionsOK
  <2> QED BY <1>3, <1>6, <2>2, <2>3 DEF PgInv
<1>7. CASE /\ o.pc = "sent"
           /\ Record(Key(o), o.run_id, o.decision,
                     ReceiptOf(o.command.intent, o.run_id, o.decision))
  <2>1. HistoryNext
    BY <1>1, <1>2, <1>7, CommitIsHistoryStep
  <2>2. OrphansOK'
    <3>1. \A p \in orphans : p \in CallRecord /\ p.pc \in KeyPhases /\ WellFormed(p)
      BY DEF PgInv, OrphansOK
    <3>2. \A p \in orphans' :
            /\ p.loaded # None => PastOf(p.loaded, runs'[p.run_id])
            /\ Undisturbed(p, commands'[Key(p)], runs'[p.run_id])
      BY <1>1, <1>4, <1>7, <2>1, OrphansSurvive
    <3> QED BY <1>4, <3>1, <3>2 DEF OrphansOK
  <2>3. \A d \in Callers : call'[d].pc \in KeyPhases =>
          Undisturbed(call'[d], commands'[Key(call'[d])], runs'[call'[d].run_id])
    BY <1>1, <1>4, <1>7, CallsSurvive
  <2>4. TransactionsOK'
    BY <1>5, <2>3 DEF TransactionsOK
  <2> QED BY <1>3, <2>1, <2>2, <2>4 DEF PgInv
<1> QED BY <1>6, <1>7 DEF Resolve

LEMMA InitPgInv == Init => PgInv
<1>1. Init => LifecycleInv
  BY LifecycleInvInit DEF Init
<1>2. Init => orphans = {} /\ \A c \in Callers : call[c].pc \notin KeyPhases
  BY DEF Init, LifecycleInit, AtRest, KeyPhases
<1> QED BY <1>1, <1>2 DEF PgInv, OrphansOK, TransactionsOK

LEMMA NextStep ==
  PgInv /\ [Next]_allVars => PgInv' /\ [HistoryNext]_store
<1> SUFFICES ASSUME PgInv, [Next]_allVars
             PROVE  PgInv' /\ [HistoryNext]_store
  OBVIOUS
<1>1. ASSUME NEW c \in Callers, orphans' = orphans,
             Request(c) \/ BuildRun(c, Reserved) \/ LoadAndDecide(c)
      PROVE  PgInv' /\ [HistoryNext]_store
  BY <1>1, ServiceStep
<1>2. ASSUME NEW c \in Callers, Find(c)
      PROVE  PgInv' /\ [HistoryNext]_store
  BY <1>2, FindStep DEF Find
<1>3. ASSUME NEW c \in Callers, Arbitrate(c)
      PROVE  PgInv' /\ [HistoryNext]_store
  BY <1>3, ArbitrateStep DEF Arbitrate
<1>4. ASSUME NEW c \in Callers, LockRow(c)
      PROVE  PgInv' /\ [HistoryNext]_store
  BY <1>4, LockRowStep DEF LockRow
<1>5. ASSUME NEW c \in Callers, SendCommit(c)
      PROVE  PgInv' /\ [HistoryNext]_store
  BY <1>5, SendCommitStep DEF SendCommit
<1>6. ASSUME NEW c \in Callers, Complete(c)
      PROVE  PgInv' /\ [HistoryNext]_store
  BY <1>6, CompleteStep
<1>7. ASSUME NEW c \in Callers, Fail(c) \/ Drop(c)
      PROVE  PgInv' /\ [HistoryNext]_store
  BY <1>7, FailStep, DropStep
<1>8. ASSUME NEW o \in orphans, Resolve(o)
      PROVE  PgInv' /\ [HistoryNext]_store
  BY <1>8, ResolveStep
<1>9. CASE UNCHANGED allVars
  <2>1. UNCHANGED store /\ runs' = runs /\ commands' = commands
        /\ events' = events /\ call' = call /\ orphans' = orphans
    BY <1>9 DEF allVars, store
  <2>2. LifecycleInv'
    BY <2>1 DEF PgInv, LifecycleInv, IInv, StoreTypeOK, HistoryMatchesRun,
       TimeMovesForward, BudgetIsSpentOnce, LifecycleTypeOK, SnapshotsAgree
  <2>3. OrphansOK' /\ TransactionsOK'
    BY <2>1 DEF PgInv, OrphansOK, TransactionsOK
  <2> QED BY <2>1, <2>2, <2>3 DEF PgInv
<1> QED
  BY <1>1, <1>2, <1>3, <1>4, <1>5, <1>6, <1>7, <1>8, <1>9 DEF Next, Progress

\* With the commit cut into statements, failing and in doubt at any of them, the
\* store still moves only as RunHistory does.
THEOREM PostgresImplementsHistory == Spec => ImplementsHistory
<1>1. Init => HistoryInit
  BY DEF Init, LifecycleInit, HistoryInit
<1> QED BY <1>1, InitPgInv, NextStep, PTL DEF Spec, ImplementsHistory, HistorySpec

\* The version check alone decides whether a snapshot is stale.
THEOREM PostgresSnapshotsAgree == Spec => []SnapshotsAgree
<1>1. PgInv => SnapshotsAgree
  BY DEF PgInv, LifecycleInv
<1> QED BY <1>1, InitPgInv, NextStep, PTL DEF Spec

\* What RunHistory promises of every run holds over PostgreSQL too.
THEOREM PostgresKeepsPromises ==
  Spec => [](HistoryMatchesRun /\ BudgetIsSpentOnce /\ TimeMovesForward)
<1>1. PgInv => HistoryMatchesRun /\ BudgetIsSpentOnce /\ TimeMovesForward
  BY DEF PgInv, LifecycleInv, IInv
<1> QED BY <1>1, InitPgInv, NextStep, PTL DEF Spec

\* What a well-formed call is about to commit adds its events to the version it
\* expects.
LEMMA DecisionCounts ==
  ASSUME NEW x \in CallRecord, WellFormed(x), x.pc \in KeyPhases
  PROVE  x.expected + Len(x.decision.events) = x.decision.run.version
<1> DEFINE intent == x.command.intent
           d      == x.decision
<1>1. x.command \in Commands /\ Pending(x) /\ ((intent.type = "create_run") <=> (x.expected = 0))
  BY DEF WellFormed, KeyPhases
<1>2. CASE intent.type = "create_run"
  <2>1. PICK now \in Times : d = Create(intent.arg, now)
    BY <1>1, <1>2 DEF Pending
  <2>2. intent.arg \in Budget /\ now \in Nat
    BY <1>1, <1>2, CommandFacts, TimesAssumption
  <2>3. d.code = "ok"
    BY <1>1 DEF Pending
  <2>4. LogOK(d.run, d.events) /\ Len(d.events) = 1
    BY <2>1, <2>2, <2>3, CreateStarts
  <2>5. d.run.version = 1
    BY <2>4 DEF LogOK, LogMatches
  <2> QED BY <1>1, <1>2, <2>4, <2>5
<1>3. CASE intent.type # "create_run"
  <2>1. PICK now \in Times : d = Decide(intent, x.loaded, now)
    BY <1>1, <1>3 DEF Pending
  <2>2. /\ x.loaded \in Run /\ x.loaded.version = x.expected /\ d.code = "ok"
        /\ intent \in Intent /\ now \in Nat
    BY <1>1, <1>3, CommandFacts, TimesAssumption DEF Pending, CallRecord
  <2>3. Extends(x.loaded, d.run, d.events)
    BY <1>3, <2>1, <2>2, DecideExtends
  <2>4. x.expected \in Nat
    BY DEF CallRecord
  <2>5. \/ d.run = x.loaded /\ d.events = <<>>
        \/ d.run.version = x.loaded.version + 1 /\ \E e \in Event : d.events = <<e>>
    BY <2>3 DEF Extends, ExtendsBy
  <2>6. \/ d.run = x.loaded /\ Len(d.events) = 0
        \/ d.run.version = x.loaded.version + 1 /\ Len(d.events) = 1
    <3>1. Len(<<>>) = 0 /\ \A e : Len(<<e>>) = 1
      OBVIOUS
    <3> HIDE DEF d
    <3> QED BY <2>5, <3>1
  <2>7. x.expected + Len(d.events) = d.run.version
    <3>1. CASE d.run = x.loaded /\ Len(d.events) = 0
      BY <2>2, <2>4, <3>1
    <3>2. CASE d.run.version = x.loaded.version + 1 /\ Len(d.events) = 1
      BY <2>2, <2>4, <3>2
    <3> QED BY <2>6, <3>1, <3>2
  <2> QED BY <2>7
<1> QED BY <1>2, <1>3

\* A commit in doubt still extends the current state of its run, however long
\* the server keeps it.
THEOREM PostgresInDoubtStillApplies == Spec => []InDoubtStillApplies
<1>1. ASSUME PgInv, NEW o \in InDoubt
      PROVE  /\ commands[Key(o)] = None
             /\ CurrentVersion(o.run_id) + Len(o.decision.events) = o.decision.run.version
  <2>1. o \in orphans /\ o.pc = "sent"
    BY <1>1 DEF InDoubt
  <2>2. /\ o \in CallRecord /\ o.pc \in KeyPhases /\ WellFormed(o)
        /\ Undisturbed(o, commands[Key(o)], runs[o.run_id])
    BY <1>1, <2>1 DEF PgInv, OrphansOK
  <2>3. commands[Key(o)] = None /\ CurrentVersion(o.run_id) = o.expected
    BY <2>1, <2>2 DEF Undisturbed, RowPhases, CurrentVersion
  <2> QED BY <2>2, <2>3, DecisionCounts
<1>2. PgInv => InDoubtStillApplies
  BY <1>1 DEF InDoubtStillApplies
<1> QED BY <1>2, InitPgInv, NextStep, PTL DEF Spec

\* What callers are told over PostgreSQL.
LEMMA PostgresReplayAnswers ==
  ASSUME PgInv, NEW c \in Callers, call[c].pc # "idle",
         ReplayOrConflict(c), UNCHANGED store
  PROVE  Answers(c)
<1>1. call[c].command \in Commands
  BY DEF PgInv, LifecycleInv, LifecycleTypeOK, WellFormed
<1>2. commands' = commands
  BY DEF store
<1>3. \/ Reply(c, "idempotency_conflict", None)
      \/ Reply(c, "data_corruption", None)
      \/ Reply(c, "replayed", commands[call[c].command.command_id])
  BY DEF ReplayOrConflict, Key
<1> QED BY <1>1, <1>2, <1>3, ReplyAnswers

LEMMA PostgresStepAnswers ==
  ASSUME PgInv, NEW c \in Callers, Progress(c) \/ Fail(c) \/ Drop(c)
  PROVE  Answers(c)
<1> DEFINE x == call[c]
<1>1. /\ LifecycleInv /\ x \in CallRecord /\ WellFormed(x)
  BY DEF PgInv, LifecycleInv, LifecycleTypeOK
<1>2. \A code : Reply(c, code, None) /\ code # "invariant_violation" => Answers(c)
  BY ReplyAnswers
<1>3. \A pc : Goto(c, pc) => Answers(c)
  BY GotoAnswers
<1>4. CASE BuildRun(c, Reserved) \/ LoadAndDecide(c)
  BY <1>1, <1>4, ServiceAnswers
<1>5. CASE Find(c) \/ Arbitrate(c)
  <2>1. x.pc # "idle" /\ UNCHANGED store
    BY <1>5 DEF Find, Arbitrate, store
  <2>2. CASE ReplayOrConflict(c)
    BY <2>1, <2>2, PostgresReplayAnswers
  <2>3. CASE AfterFind(c)
    BY <1>3, <2>3 DEF AfterFind
  <2>4. CASE Goto(c, "lock")
    BY <1>3, <2>4
  <2> QED BY <1>5, <2>2, <2>3, <2>4 DEF Find, Arbitrate
<1>6. CASE LockRow(c)
  <2>1. x.pc = "lock"
    BY <1>6 DEF LockRow
  <2>2. x.loaded # None => PastOf(x.loaded, runs[x.run_id])
    BY <1>1 DEF LifecycleInv, SnapshotsAgree
  <2>3. VersionMatches(x.run_id, x.expected)
          => ValidCandidate(x.expected, runs[x.run_id], x.decision, CallReceipt(c))
    BY <1>1, <2>1, <2>2, PendingIsValid DEF CallReceipt
  <2>4. Reply(c, "version_conflict", None) \/ Goto(c, "write")
    BY <1>6, <2>3 DEF LockRow
  <2> QED BY <1>2, <1>3, <2>4
<1>7. CASE SendCommit(c)
  BY <1>3, <1>7 DEF SendCommit
<1>8. CASE Complete(c)
  <2>1. /\ x.pc = "sent"
        /\ Record(Key(x), x.run_id, x.decision, CallReceipt(c))
        /\ Reply(c, "committed", CallReceipt(c))
    BY <1>8 DEF Complete
  <2>2. x.command \in Commands /\ Key(x) \in CommandIds
    <3>1. x.pc \in KeyPhases
      BY <2>1 DEF KeyPhases
    <3> QED BY <1>1, <3>1, TransactionFacts
  <2>3. commands'[Key(x)] = CallReceipt(c)
    BY <1>1, <2>1, <2>2 DEF Record, LifecycleInv, IInv, StoreTypeOK
  <2> QED BY <2>1, <2>2, <2>3, ReplyAnswers DEF Key
<1>9. CASE Fail(c) \/ Drop(c)
  <2>1. PICK code \in {"storage_unavailable", "commit_outcome_unknown", "cancelled"} :
          Reply(c, code, None)
    BY <1>9 DEF Fail, Drop, FailureCode
  <2> QED BY <1>2, <2>1
<1> QED BY <1>4, <1>5, <1>6, <1>7, <1>8, <1>9 DEF Progress

LEMMA PostgresRepliesStep ==
  PgInv /\ RepliesStand /\ [Next]_allVars => RepliesStand'
<1> SUFFICES ASSUME PgInv, RepliesStand, [Next]_allVars
             PROVE  RepliesStand'
  OBVIOUS
<1>1. [HistoryNext]_store /\ LifecycleInv /\ IInv
  BY NextStep DEF PgInv, LifecycleInv
<1>2. ASSUME NEW c \in Callers, Request(c) \/ Progress(c) \/ Fail(c) \/ Drop(c)
      PROVE  RepliesStand'
  <2>1. Answers(c)
    BY <1>1, <1>2, ServiceAnswers, PostgresStepAnswers
  <2> QED BY <1>1, <2>1, AnswersKeepReplies
<1>3. ASSUME NEW o \in orphans, Resolve(o)
      PROVE  RepliesStand'
  <2>1. call' = call
    BY <1>3 DEF Resolve
  <2> QED BY <1>1, <2>1, StandingSurvives DEF RepliesStand
<1>4. CASE UNCHANGED allVars
  BY <1>4 DEF allVars, RepliesStand
<1> QED BY <1>2, <1>3, <1>4 DEF Next

\* Two callers of one command never hold different receipts, even when one of
\* them learns of a commit that was in doubt.
THEOREM PostgresRepliesAreStored == Spec => []RepliesAreStored
<1>1. RepliesStand => RepliesAreStored
  BY DEF RepliesStand, Stands, RepliesAreStored
<1>2. Init => RepliesStand
  BY InitRepliesStand DEF Init
<1> QED BY <1>1, <1>2, InitPgInv, NextStep, PostgresRepliesStep, PTL DEF Spec

\* The validator, run under the row lock, never refuses what the service built.
THEOREM PostgresNeverInvariantViolation == Spec => []NeverInvariantViolation
<1>1. RepliesStand => NeverInvariantViolation
  BY DEF RepliesStand, Stands, NeverInvariantViolation
<1>2. Init => RepliesStand
  BY InitRepliesStand DEF Init
<1> QED BY <1>1, <1>2, InitPgInv, NextStep, PostgresRepliesStep, PTL DEF Spec

\* Receipts and events pair up although commits are lost, cut short and in doubt.
THEOREM PostgresReceiptsExplainHistory == Spec => []ReceiptsExplainHistory
BY PostgresImplementsHistory, ReceiptsAccountForEvents, PTL DEF ImplementsHistory

\* A call that ends in a definite failure changed nothing and leaves no commit
\* in doubt behind.
THEOREM PostgresFailureMeansNoEffect == Spec => FailureMeansNoEffect
<1>1. PgInv /\ [Next]_allVars => [FailureMeansNoEffectStep]_allVars
  <2> SUFFICES ASSUME PgInv, Next,
                      NEW e \in Callers, call[e].pc # "idle", call'[e].pc = "idle",
                      call'[e].reply.code \in Definite
               PROVE  UNCHANGED store /\ InDoubt' \subseteq InDoubt
    BY DEF FailureMeansNoEffectStep
  <2>1. call \in [Callers -> CallRecord]
    BY DEF PgInv, LifecycleInv, LifecycleTypeOK
  <2>2. ASSUME NEW c \in Callers, NEW code, NEW receipt, Reply(c, code, receipt)
        PROVE  e = c /\ call'[e].reply.code = code
    <3> DEFINE reply == [code |-> code, command |-> call[c].command, receipt |-> receipt]
    <3>1. call' = [call EXCEPT ![c] = AtRest(reply)] /\ reply.code = code
      BY <2>2 DEF Reply
    <3>2. AtRest(reply).reply = reply
      BY DEF AtRest
    <3> HIDE DEF reply
    <3> QED BY <2>1, <3>1, <3>2
  <2>3. CASE UNCHANGED store /\ orphans' = orphans
    BY <2>3 DEF InDoubt
  <2>4. ASSUME NEW c \in Callers, Complete(c) PROVE FALSE
    <3>1. Reply(c, "committed", CallReceipt(c))
      BY <2>4 DEF Complete
    <3> QED BY <2>2, <3>1 DEF Definite
  <2>5. ASSUME NEW c \in Callers, Drop(c)
        PROVE  UNCHANGED store /\ InDoubt' \subseteq InDoubt
    <3>1. /\ UNCHANGED store
          /\ orphans' \subseteq orphans \cup {call[c]}
      BY <2>5 DEF Drop
    <3>2. PICK code \in {FailureCode(call[c].pc, FALSE), "cancelled"} : Reply(c, code, None)
      BY <2>5 DEF Drop
    <3>3. call'[e].reply.code = code
      BY <2>2, <3>2
    <3>4. call[c].pc # "sent"
      BY <3>2, <3>3 DEF Definite, FailureCode
    <3> QED BY <3>1, <3>4 DEF InDoubt
  <2>6. ASSUME NEW o \in orphans, Resolve(o) PROVE FALSE
    BY <2>6 DEF Resolve
  <2>7. ASSUME NEW c \in Callers,
               \/ Request(c) /\ UNCHANGED orphans
               \/ (BuildRun(c, Reserved) \/ LoadAndDecide(c)) /\ UNCHANGED orphans
               \/ Find(c) \/ Arbitrate(c) \/ LockRow(c) \/ SendCommit(c) \/ Fail(c)
        PROVE  UNCHANGED store /\ orphans' = orphans
    BY <2>7 DEF Request, BuildRun, LoadAndDecide, Find, Arbitrate, LockRow, SendCommit,
                Fail, store
  <2> QED BY <2>3, <2>4, <2>5, <2>6, <2>7 DEF Next, Progress
<1> QED BY <1>1, InitPgInv, NextStep, PTL DEF Spec, FailureMeansNoEffect
=============================================================================
