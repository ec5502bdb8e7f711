------------------------- MODULE RunLifecycleProofs -------------------------
(***************************************************************************)
(* What every step of a lifecycle call preserves, whichever repository     *)
(* adapter it runs on.                                                     *)
(***************************************************************************)
EXTENDS RunLifecycle, RunHistoryProofs

\* The inductive invariant of the service: the store explains itself, and every
\* call in flight still knows what it was about and what it saw.
LifecycleInv ==
  /\ IInv
  /\ LifecycleTypeOK
  /\ SnapshotsAgree

LEMMA LifecycleInvInit == LifecycleInit => LifecycleInv
<1> SUFFICES ASSUME LifecycleInit PROVE LifecycleInv
  OBVIOUS
<1>1. IInv
  BY IInvInit DEF LifecycleInit, HistoryInit
<1>2. AtRest(NoReply) \in CallRecord
  <2>1. <<>> \in Seq(Event)
    OBVIOUS
  <2>2. NoDecision \in Decision
    BY <2>1 DEF NoDecision, Rejected, Decision
  <2>3. NoReply \in [code : ReplyCodes, command : Commands \cup {NoCommand},
                     receipt : Receipt \cup {None}]
    BY DEF NoReply, ReplyCodes
  <2> HIDE DEF NoReply, NoDecision, NoCommand
  <2> QED BY <2>2, <2>3 DEF AtRest, CallRecord
<1>3. WellFormed(AtRest(NoReply))
  BY DEF WellFormed, AtRest
<1>4. \A c \in Callers : call[c] = AtRest(NoReply)
  BY DEF LifecycleInit
<1>5. call \in [Callers -> CallRecord]
  BY <1>2 DEF LifecycleInit
<1>6. SnapshotsAgree
  BY <1>4 DEF SnapshotsAgree, AtRest
<1> QED BY <1>1, <1>3, <1>4, <1>5, <1>6 DEF LifecycleInv, LifecycleTypeOK, IInv

\* The past of a run stays its past, whatever a step of any call does to it.
LEMMA PastOfSurvives ==
  ASSUME IInv, [HistoryNext]_store, NEW r \in RunIds, NEW old \in Run,
         PastOf(old, runs[r])
  PROVE  PastOf(old, runs'[r])
<1>1. /\ runs'[r] # None
      /\ runs'[r] = runs[r] \/ runs'[r].version > runs[r].version
  BY RunsGrow DEF PastOf
<1>2. IInv'
  BY IInvStep
<1>3. runs[r] \in Run /\ runs'[r] \in Run
  BY <1>1, <1>2 DEF IInv, StoreTypeOK, PastOf
<1> QED BY <1>1, <1>3 DEF PastOf, Run

\* The snapshot of a call is one of a run there is.
LEMMA LoadedFacts ==
  ASSUME LifecycleTypeOK, NEW c \in Callers, call[c].loaded # None
  PROVE  call[c].loaded \in Run /\ call[c].run_id \in RunIds
<1>1. call[c] \in CallRecord /\ WellFormed(call[c])
  BY DEF LifecycleTypeOK
<1> QED BY <1>1 DEF CallRecord, WellFormed, Pending

\* One call moves to a well-formed record x whose snapshot is the past of its run.
LEMMA OneCallMoves ==
  ASSUME LifecycleInv, [HistoryNext]_store, NEW c \in Callers, NEW x \in CallRecord,
         call' = [call EXCEPT ![c] = x], WellFormed(x),
         x.loaded # None => PastOf(x.loaded, runs'[x.run_id])
  PROVE  LifecycleInv'
<1>1. IInv /\ IInv'
  BY IInvStep DEF LifecycleInv
<1>2. call \in [Callers -> CallRecord] /\ \A d \in Callers : WellFormed(call[d])
  BY DEF LifecycleInv, LifecycleTypeOK
<1>3. call' \in [Callers -> CallRecord] /\ \A d \in Callers : WellFormed(call'[d])
  BY <1>2
<1>4. SnapshotsAgree'
  <2> SUFFICES ASSUME NEW d \in Callers, call'[d].loaded # None
               PROVE  PastOf(call'[d].loaded, runs'[call'[d].run_id])
    BY DEF SnapshotsAgree
  <2>1. CASE d = c
    BY <1>2, <2>1
  <2>2. CASE d # c
    <3>1. call'[d] = call[d]
      BY <1>2, <2>2
    <3>2. call[d].loaded \in Run /\ call[d].run_id \in RunIds
      BY <3>1, LoadedFacts DEF LifecycleInv
    <3>3. PastOf(call[d].loaded, runs[call[d].run_id])
      BY <3>1 DEF LifecycleInv, SnapshotsAgree
    <3> QED BY <1>1, <3>1, <3>2, <3>3, PastOfSurvives
  <2> QED BY <2>1, <2>2
<1>5. LifecycleTypeOK'
  BY <1>1, <1>3 DEF LifecycleTypeOK, IInv
<1> QED BY <1>1, <1>4, <1>5 DEF LifecycleInv

\* A decision is made, or is one of three errors.
LEMMA DecisionCodes ==
  /\ \A budget, now : Create(budget, now).code \in {"ok", "value_error"}
  /\ \A intent \in Intent : \A run, now :
       intent.type # "create_run" =>
         Decide(intent, run, now).code
           \in {"ok", "illegal_transition", "value_error", "idempotency_conflict"}
<1>1. \A budget, now : Create(budget, now).code \in {"ok", "value_error"}
  BY DEF Create, Mutation, Rejected
<1>2. \A run, target, type, now, usage, charge, error :
        Change(run, target, type, now, usage, charge, error).code = "ok"
  BY DEF Change, Mutation
<1>3. \A run, dimension, now : Limit(run, dimension, now).code = "ok"
  BY <1>2 DEF Limit
<1>4. ASSUME NEW intent \in Intent, NEW run, NEW now, intent.type # "create_run"
      PROVE  Decide(intent, run, now).code
               \in {"ok", "illegal_transition", "value_error", "idempotency_conflict"}
  <2>1. CASE intent.type \in MoveTypes
    <3>1. intent.type \notin {"consume_budget", "enforce_deadline"}
      BY <2>1 DEF MoveTypes, Moves
    <3>2. Decide(intent, run, now) = Move(intent.type, intent.arg, run, now)
      BY <2>1, <3>1 DEF Decide
    <3> QED BY <1>2, <3>2 DEF Move, Rejected
  <2>2. CASE intent.type = "consume_budget"
    <3>1. intent.type \notin MoveTypes
      BY <2>2 DEF MoveTypes, Moves
    <3>2. Decide(intent, run, now) = ConsumeBudget(intent.arg, run, now)
      BY <2>2, <3>1 DEF Decide
    <3> QED BY <1>2, <1>3, <3>2 DEF ConsumeBudget, Rejected, Unchanged
  <2>3. CASE intent.type = "enforce_deadline"
    <3>1. intent.type \notin MoveTypes
      BY <2>3 DEF MoveTypes, Moves
    <3>2. Decide(intent, run, now) = EnforceDeadline(run, now)
      BY <2>3, <3>1 DEF Decide
    <3> QED BY <1>3, <3>2 DEF EnforceDeadline, Unchanged
  <2>4. "fail_run" \in MoveTypes
    BY DEF MoveTypes, Moves
  <2> QED BY <1>4, <2>1, <2>2, <2>3, <2>4 DEF Intent
<1> QED BY <1>1, <1>4

\* Every decision is a record of three fields.
LEMMA DecisionShape ==
  ASSUME NEW intent \in Intent, NEW run, NEW now, intent.type # "create_run"
  PROVE  LET d == Decide(intent, run, now)
         IN d = [code |-> d.code, run |-> d.run, events |-> d.events]
<1> DEFINE Shaped(d) == d = [code |-> d.code, run |-> d.run, events |-> d.events]
<1>1. /\ \A code : Shaped(Rejected(code))
      /\ \A r : Shaped(Unchanged(r))
      /\ \A r, e : Shaped(Mutation(r, e))
  BY DEF Rejected, Unchanged, Mutation
<1>2. \A r, target, type, t, usage, charge, error :
        Shaped(Change(r, target, type, t, usage, charge, error))
  <2> HIDE DEF Shaped
  <2> QED BY <1>1 DEF Change
<1>3. \A r, dimension, t : Shaped(Limit(r, dimension, t))
  <2> HIDE DEF Shaped
  <2> QED BY <1>2 DEF Limit
<1> HIDE DEF Shaped
<1>4. CASE intent.type \in MoveTypes
  <2>1. intent.type \notin {"consume_budget", "enforce_deadline"}
    BY <1>4 DEF MoveTypes, Moves
  <2>2. Decide(intent, run, now) = Move(intent.type, intent.arg, run, now)
    BY <1>4, <2>1 DEF Decide
  <2>3. Shaped(Move(intent.type, intent.arg, run, now))
    BY <1>1, <1>2 DEF Move
  <2> QED BY <2>2, <2>3 DEF Shaped
<1>5. CASE intent.type = "consume_budget"
  <2>1. intent.type \notin MoveTypes
    BY <1>5 DEF MoveTypes, Moves
  <2>2. Decide(intent, run, now) = ConsumeBudget(intent.arg, run, now)
    BY <1>5, <2>1 DEF Decide
  <2>3. Shaped(ConsumeBudget(intent.arg, run, now))
    BY <1>1, <1>2, <1>3 DEF ConsumeBudget
  <2> QED BY <2>2, <2>3 DEF Shaped
<1>6. CASE intent.type = "enforce_deadline"
  <2>1. intent.type \notin MoveTypes
    BY <1>6 DEF MoveTypes, Moves
  <2>2. Decide(intent, run, now) = EnforceDeadline(run, now)
    BY <1>6, <2>1 DEF Decide
  <2>3. Shaped(EnforceDeadline(run, now))
    BY <1>1, <1>3 DEF EnforceDeadline
  <2> QED BY <2>2, <2>3 DEF Shaped
<1>7. "fail_run" \in MoveTypes
  BY DEF MoveTypes, Moves
<1> QED BY <1>4, <1>5, <1>6, <1>7 DEF Intent

\* A call may end at any time, with any code and a stored receipt.
LEMMA ReplyKeepsInv ==
  ASSUME LifecycleInv, [HistoryNext]_store, NEW c \in Callers, NEW code \in ReplyCodes,
         NEW receipt \in Receipt \cup {None}, Reply(c, code, receipt)
  PROVE  LifecycleInv'
<1> DEFINE reply == [code |-> code, command |-> call[c].command, receipt |-> receipt]
           x     == AtRest(reply)
<1>1. call[c].command \in Commands \cup {NoCommand}
  BY DEF LifecycleInv, LifecycleTypeOK, CallRecord
<1>2. reply \in [code : ReplyCodes, command : Commands \cup {NoCommand},
                receipt : Receipt \cup {None}]
  BY <1>1
<1>3. <<>> \in Seq(Event)
  OBVIOUS
<1>4. NoDecision \in Decision
  BY <1>3 DEF NoDecision, Rejected, Decision
<1>5. x \in CallRecord
  <2> HIDE DEF reply
  <2> QED BY <1>2, <1>4 DEF AtRest, CallRecord
<1>6. WellFormed(x) /\ x.loaded = None
  BY DEF WellFormed, AtRest
<1>7. call' = [call EXCEPT ![c] = x]
  BY DEF Reply
<1> HIDE DEF x
<1> QED BY <1>5, <1>6, <1>7, OneCallMoves

\* A call goes on with another await, keeping all it knows.
LEMMA GotoKeepsInv ==
  ASSUME LifecycleInv, [HistoryNext]_store, NEW c \in Callers,
         NEW pc \in {"create", "load", "lock", "write", "sent"}, Goto(c, pc),
         call[c].pc # "idle",
         pc = "create" => call[c].command.intent.type = "create_run" /\ call[c].loaded = None,
         pc = "load" => call[c].command.intent.type # "create_run" /\ call[c].loaded = None,
         pc \notin {"create", "load"} => Pending(call[c])
  PROVE  LifecycleInv'
<1> DEFINE y == call[c]
           x == Call(pc, y.command, y.expected, y.run_id, y.loaded, y.decision)
<1>1. y \in CallRecord /\ WellFormed(y)
  BY DEF LifecycleInv, LifecycleTypeOK
<1>2. NoReply \in [code : ReplyCodes, command : Commands \cup {NoCommand},
                  receipt : Receipt \cup {None}]
  BY DEF NoReply, ReplyCodes
<1>3. x \in CallRecord
  <2> HIDE DEF y
  <2> QED BY <1>1, <1>2 DEF Call, CallRecord
<1>4. WellFormed(x)
  BY <1>1 DEF WellFormed, Pending, Call
<1>5. call' = [call EXCEPT ![c] = x]
  BY DEF Goto
<1>6. x.loaded = y.loaded /\ x.run_id = y.run_id
  BY DEF Call
<1>7. y.loaded # None => PastOf(y.loaded, runs'[y.run_id])
  BY LoadedFacts, PastOfSurvives DEF LifecycleInv, SnapshotsAgree
<1> HIDE DEF x, y
<1> QED BY <1>3, <1>4, <1>5, <1>6, <1>7, OneCallMoves

LEMMA NoDecisionType == NoDecision \in Decision
<1>1. <<>> \in Seq(Event)
  OBVIOUS
<1> QED BY <1>1 DEF NoDecision, Rejected, Decision

LEMMA NoReplyType ==
  NoReply \in [code : ReplyCodes, command : Commands \cup {NoCommand},
              receipt : Receipt \cup {None}]
BY DEF NoReply, ReplyCodes

LEMMA RequestKeepsInv ==
  ASSUME LifecycleInv, NEW c \in Callers, Request(c)
  PROVE  LifecycleInv'
<1>1. PICK command \in Commands :
        \E v \in IF command.intent.type = "create_run" THEN {0} ELSE Versions :
          call' = [call EXCEPT ![c] = Call("find", command, v, None, None, NoDecision)]
  BY DEF Request
<1>2. PICK v \in IF command.intent.type = "create_run" THEN {0} ELSE Versions :
        call' = [call EXCEPT ![c] = Call("find", command, v, None, None, NoDecision)]
  BY <1>1
<1>3. v \in Nat /\ ((command.intent.type = "create_run") <=> (v = 0))
  BY LifecycleAssumption
<1> DEFINE x == Call("find", command, v, None, None, NoDecision)
<1>4. x \in CallRecord
  <2> HIDE DEF NoDecision, NoReply
  <2> QED BY <1>3, NoDecisionType, NoReplyType DEF Call, CallRecord
<1>5. WellFormed(x) /\ x.loaded = None
  BY <1>3 DEF WellFormed, Call
<1>6. UNCHANGED store
  BY DEF Request
<1> HIDE DEF x
<1>7. call' = [call EXCEPT ![c] = x]
  BY <1>2 DEF x
<1> QED BY <1>4, <1>5, <1>6, <1>7, OneCallMoves

LEMMA AfterFindKeepsInv ==
  ASSUME LifecycleInv, NEW c \in Callers, call[c].pc = "find", AfterFind(c), UNCHANGED store
  PROVE  LifecycleInv'
<1>1. WellFormed(call[c])
  BY DEF LifecycleInv, LifecycleTypeOK
<1>2. call[c].loaded = None
  BY <1>1 DEF WellFormed
<1>3. CASE call[c].command.intent.type = "create_run"
  BY <1>2, <1>3, GotoKeepsInv DEF AfterFind
<1>4. CASE call[c].command.intent.type # "create_run"
  BY <1>2, <1>4, GotoKeepsInv DEF AfterFind
<1> QED BY <1>3, <1>4

\* A decision that is to be committed makes a well-formed call.
LEMMA GotoCommitKeepsInv ==
  ASSUME LifecycleInv, NEW c \in Callers, UNCHANGED store, call[c].pc # "idle",
         NEW run_id \in RunIds, NEW loaded \in Run \cup {None}, NEW decision \in Decision,
         GotoCommit(c, run_id, loaded, decision),
         Pending(Call("commit", call[c].command, call[c].expected, run_id, loaded, decision)),
         loaded # None => loaded = runs[run_id]
  PROVE  LifecycleInv'
<1> DEFINE y == call[c]
           x == Call("commit", y.command, y.expected, run_id, loaded, decision)
<1>1. y \in CallRecord /\ WellFormed(y)
  BY DEF LifecycleInv, LifecycleTypeOK
<1>2. x \in CallRecord
  <2> HIDE DEF y, NoReply
  <2> QED BY <1>1, NoReplyType DEF Call, CallRecord
<1>3. WellFormed(x)
  <2> HIDE DEF NoReply
  <2>1. x.pc = "commit" /\ x.command = y.command /\ x.expected = y.expected
    BY DEF Call
  <2>2. Pending(x)
    OBVIOUS
  <2> HIDE DEF x
  <2> QED BY <1>1, <2>1, <2>2 DEF WellFormed
<1>4. call' = [call EXCEPT ![c] = x]
  BY DEF GotoCommit
<1>5. x.loaded = loaded /\ x.run_id = run_id /\ runs' = runs
  BY DEF Call, store
<1>6. x.loaded # None => PastOf(x.loaded, runs'[x.run_id])
  BY <1>5 DEF PastOf, Run
<1> HIDE DEF x, y
<1> QED BY <1>2, <1>3, <1>4, <1>6, OneCallMoves

LEMMA BuildRunKeepsInv ==
  ASSUME LifecycleInv, NEW c \in Callers, NEW reserved, BuildRun(c, reserved)
  PROVE  LifecycleInv'
<1> DEFINE budget == call[c].command.intent.arg
<1>1. PICK now \in Times, run_id \in RunIds :
        IF Create(budget, now).code # "ok"
        THEN Reply(c, Create(budget, now).code, None)
        ELSE GotoCommit(c, run_id, None, Create(budget, now))
  BY DEF BuildRun
<1>2. call[c].pc = "create" /\ UNCHANGED store
  BY DEF BuildRun
<1>3. call[c].command \in Commands /\ call[c].command.intent.type = "create_run"
  BY <1>2 DEF LifecycleInv, LifecycleTypeOK, WellFormed
<1>4. budget \in Budget /\ now \in Nat
  BY <1>3, CommandFacts, TimesAssumption
<1> DEFINE d == Create(budget, now)
<1>5. CASE d.code # "ok"
  <2>1. d.code \in ReplyCodes
    BY DecisionCodes, <1>5 DEF ReplyCodes
  <2> QED BY <1>1, <1>2, <1>5, <2>1, ReplyKeepsInv
<1>6. CASE d.code = "ok"
  <2>1. d.run \in Run /\ d.events \in Seq(Event)
    BY <1>4, <1>6, CreateStarts
  <2>2. d = [code |-> "ok", run |-> d.run, events |-> d.events]
    BY <1>6 DEF Create, Mutation, Rejected
  <2>3. d \in Decision
    <3> HIDE DEF d
    <3> QED BY <2>1, <2>2 DEF Decision
  <2>4. Pending(Call("commit", call[c].command, call[c].expected, run_id, None, d))
    <3> HIDE DEF NoReply
    <3>1. \E t \in Times : d = Create(budget, t)
      OBVIOUS
    <3> HIDE DEF d
    <3> QED BY <1>3, <1>6, <3>1 DEF Pending, Call
  <2>5. GotoCommit(c, run_id, None, d)
    BY <1>1, <1>6
  <2> HIDE DEF d
  <2> QED BY <1>2, <2>3, <2>4, <2>5, GotoCommitKeepsInv
<1> QED BY <1>5, <1>6

LEMMA LoadAndDecideKeepsInv ==
  ASSUME LifecycleInv, NEW c \in Callers, LoadAndDecide(c)
  PROVE  LifecycleInv'
<1> DEFINE intent  == call[c].command.intent
           current == runs[intent.run_id]
<1>1. PICK now \in Times :
        IF current = None
        THEN Reply(c, "not_found", None)
        ELSE IF current.version # call[c].expected
        THEN Reply(c, "version_conflict", None)
        ELSE IF Decide(intent, current, now).code # "ok"
        THEN Reply(c, Decide(intent, current, now).code, None)
        ELSE IF intent.type = "enforce_deadline" /\ Decide(intent, current, now).events = <<>>
        THEN Reply(c, "allowed", None)
        ELSE GotoCommit(c, intent.run_id, current, Decide(intent, current, now))
  BY DEF LoadAndDecide, Loaded, DeadlineAllows
<1>2. call[c].pc = "load" /\ UNCHANGED store
  BY DEF LoadAndDecide
<1>3. call[c].command \in Commands /\ intent.type # "create_run"
  BY <1>2 DEF LifecycleInv, LifecycleTypeOK, WellFormed
<1>4. intent \in Intent /\ intent.run_id \in RunIds /\ now \in Nat
  BY <1>3, CommandFacts, TimesAssumption
<1> DEFINE d == Decide(intent, current, now)
<1>5. ASSUME NEW code \in ReplyCodes, Reply(c, code, None)
      PROVE  LifecycleInv'
  BY <1>2, <1>5, ReplyKeepsInv
<1>6. d.code # "ok" => d.code \in ReplyCodes
  BY <1>3, <1>4, DecisionCodes DEF ReplyCodes
<1>7. {"not_found", "version_conflict", "allowed"} \subseteq ReplyCodes
  BY SMTT(30) DEF ReplyCodes
<1>8. CASE /\ current # None /\ current.version = call[c].expected /\ d.code = "ok"
           /\ ~(intent.type = "enforce_deadline" /\ d.events = <<>>)
           /\ GotoCommit(c, intent.run_id, current, d)
  <2>1. current \in Run /\ LogOK(current, events[intent.run_id])
        /\ events[intent.run_id] \in Seq(Event)
    BY <1>4, <1>8 DEF LifecycleInv, IInv, StoreTypeOK, LogOK, HistoryMatchesRun,
                      TimeMovesForward, BudgetIsSpentOnce
  <2>2. Extends(current, d.run, d.events)
    BY <1>3, <1>4, <1>8, <2>1, DecideExtends
  <2>3. d.run \in Run
    <3> HIDE DEF d
    <3> QED BY <2>2 DEF Extends
  <2>4. d.events \in Seq(Event)
    <3> HIDE DEF d, current
    <3> QED BY <2>1, <2>2, ExtendsKeepsLogOK
  <2>5. d = [code |-> d.code, run |-> d.run, events |-> d.events]
    BY <1>3, <1>4, DecisionShape
  <2>6. d \in Decision
    <3> HIDE DEF d
    <3> QED BY <1>8, <2>3, <2>4, <2>5 DEF Decision
  <2>7. Pending(Call("commit", call[c].command, call[c].expected, intent.run_id, current, d))
    <3> HIDE DEF NoReply
    <3>1. \E t \in Times : d = Decide(intent, current, t)
      OBVIOUS
    <3> HIDE DEF d, current
    <3> QED BY <1>3, <1>4, <1>8, <3>1 DEF Pending, Call
  <2> HIDE DEF d, current
  <2> QED BY <1>2, <1>4, <1>8, <2>1, <2>6, <2>7, GotoCommitKeepsInv, SMTT(30) DEF current
<1> HIDE DEF d, current
<1> QED BY <1>1, <1>5, <1>6, <1>7, <1>8 DEF d

\* A pending decision recorded while its expected version is still the current
\* one, for a command never accepted before, is one step of RunHistory.
LEMMA RecordIsHistoryStep ==
  ASSUME LifecycleInv, NEW x \in CallRecord, WellFormed(x),
         x.pc \in {"commit", "lock", "write", "sent"},
         x.loaded # None => PastOf(x.loaded, runs[x.run_id]),
         commands[x.command.command_id] = None,
         VersionMatches(x.run_id, x.expected),
         Record(x.command.command_id, x.run_id, x.decision,
                ReceiptOf(x.command.intent, x.run_id, x.decision))
  PROVE  HistoryNext
<1> DEFINE intent == x.command.intent
<1>1. /\ x.command \in Commands /\ Pending(x) /\ x.run_id \in RunIds
      /\ (intent.type = "create_run") <=> (x.expected = 0)
  BY DEF WellFormed, Pending
<1>2. runs[x.run_id] \in Run \cup {None}
  BY <1>1 DEF LifecycleInv, IInv, StoreTypeOK
<1>3. (IF runs[x.run_id] = None THEN 0 ELSE runs[x.run_id].version) = x.expected
  BY DEF VersionMatches, CurrentVersion
<1>4. CASE intent.type = "create_run"
  <2>1. runs[x.run_id] = None
    BY <1>1, <1>2, <1>3, <1>4 DEF Run
  <2>2. PICK now \in Times : x.decision = Create(intent.arg, now)
    BY <1>1, <1>4 DEF Pending
  <2>3. x.decision.code = "ok"
    BY <1>1 DEF Pending
  <2>4. AcceptCreate(x.command, x.run_id, now)
    BY <1>4, <2>1, <2>2, <2>3 DEF AcceptCreate
  <2> QED BY <1>1, <2>4 DEF HistoryNext
<1>5. CASE intent.type # "create_run"
  <2>1. /\ x.run_id = intent.run_id /\ x.loaded # None
        /\ x.loaded.version = x.expected /\ x.decision.code = "ok"
        /\ intent.type = "enforce_deadline" => x.decision.events # <<>>
    BY <1>1, <1>5 DEF Pending
  <2>2. runs[x.run_id] # None /\ x.loaded = runs[x.run_id]
    BY <1>3, <2>1 DEF PastOf
  <2>3. PICK now \in Times : x.decision = Decide(intent, x.loaded, now)
    BY <1>1, <1>5 DEF Pending
  <2>4. x.decision = Decide(intent, runs[intent.run_id], now)
    BY <2>1, <2>2, <2>3
  <2>5. AcceptChange(x.command, now)
    BY <1>5, <2>1, <2>2, <2>4 DEF AcceptChange
  <2> QED BY <1>1, <2>5 DEF HistoryNext
<1> QED BY <1>4, <1>5
-----------------------------------------------------------------------------
(* What callers are told. *)

\* Under the version check, a pending decision is a candidate the validator
\* accepts: its run and its event are the next ones of the run as it is now.
LEMMA PendingIsValid ==
  ASSUME LifecycleInv, NEW x \in CallRecord, WellFormed(x),
         x.pc \in {"commit", "lock", "write", "sent"},
         x.loaded # None => PastOf(x.loaded, runs[x.run_id]),
         VersionMatches(x.run_id, x.expected)
  PROVE  ValidCandidate(x.expected, runs[x.run_id], x.decision,
                        ReceiptOf(x.command.intent, x.run_id, x.decision))
<1> DEFINE intent  == x.command.intent
           d       == x.decision
           current == runs[x.run_id]
           receipt == ReceiptOf(intent, x.run_id, d)
<1>1. /\ x.command \in Commands /\ Pending(x) /\ x.run_id \in RunIds
      /\ (intent.type = "create_run") <=> (x.expected = 0)
  BY DEF WellFormed, Pending
<1>2. current \in Run \cup {None}
  BY <1>1 DEF LifecycleInv, IInv, StoreTypeOK
<1>3. (IF current = None THEN 0 ELSE current.version) = x.expected
  BY DEF VersionMatches, CurrentVersion
<1>4. /\ receipt.resulting_status = d.run.status
      /\ receipt.resulting_version = d.run.version
      /\ receipt.event_ids = EventIds(d.events)
  BY DEF ReceiptOf
<1>5. /\ Len(<<>>) = 0 /\ DOMAIN <<>> = {}
      /\ \A e : Len(<<e>>) = 1 /\ DOMAIN <<e>> = {1} /\ <<e>>[1] = e /\ <<e>> # <<>>
  OBVIOUS
<1>6. d.code = "ok"
  BY <1>1 DEF Pending
<1>7. CASE intent.type = "create_run"
  <2>1. PICK now \in Times : d = Create(intent.arg, now)
    BY <1>1, <1>7 DEF Pending
  <2>2. current = None /\ x.expected = 0
    BY <1>1, <1>2, <1>3, <1>7 DEF Run
  <2>3. /\ d.run.version = 1 /\ d.run.next_event_sequence = 2
        /\ \E e : d.events = <<e>> /\ e.sequence = 1
    BY <1>6, <2>1 DEF Create, Mutation, Rejected
  <2> HIDE DEF d, current, receipt
  <2>4. PICK e : d.events = <<e>> /\ e.sequence = 1
    BY <2>3
  <2>5. /\ Len(d.events) = 1 /\ d.events # <<>>
        /\ \A i \in DOMAIN d.events : d.events[i].sequence = 1
    BY <1>5, <2>4
  <2> QED BY <1>4, <2>2, <2>3, <2>5 DEF ValidCandidate, d, current, receipt
<1>8. CASE intent.type # "create_run"
  <2>1. PICK now \in Times : d = Decide(intent, x.loaded, now)
    BY <1>1, <1>8 DEF Pending
  <2>2. /\ x.loaded # None /\ x.loaded.version = x.expected
        /\ intent \in Intent /\ now \in Nat
    BY <1>1, <1>8, CommandFacts, TimesAssumption DEF Pending
  <2>3. x.loaded = current /\ current # None /\ current \in Run
    BY <1>2, <1>3, <2>2 DEF PastOf
  <2>4. Extends(current, d.run, d.events)
    BY <1>6, <1>8, <2>1, <2>2, <2>3, DecideExtends
  <2>5. /\ x.expected = current.version /\ x.expected # 0
        /\ current.version \in Nat /\ current.next_event_sequence \in Nat
    BY <2>2, <2>3 DEF Run
  <2> HIDE DEF d, current, receipt
  <2>6. CASE d.run = current /\ d.events = <<>>
    <3>1. Len(d.events) = 0 /\ \A i \in DOMAIN d.events : FALSE
      BY <1>5, <2>6
    <3> QED BY <1>4, <2>3, <2>5, <2>6, <3>1 DEF ValidCandidate, d, current, receipt
  <2>7. CASE \E e \in Event : d.events = <<e>> /\ ExtendsBy(current, d.run, e)
    <3>1. PICK e \in Event : d.events = <<e>> /\ ExtendsBy(current, d.run, e)
      BY <2>7
    <3>2. /\ Len(d.events) = 1 /\ d.events # <<>>
          /\ \A i \in DOMAIN d.events : d.events[i] = e
      BY <1>5, <3>1
    <3>3. /\ d.run.version = current.version + 1
          /\ d.run.next_event_sequence = current.next_event_sequence + 1
          /\ e.sequence = current.next_event_sequence
      BY <3>1 DEF ExtendsBy
    <3> QED BY <1>4, <2>3, <2>5, <3>2, <3>3 DEF ValidCandidate, d, current, receipt
  <2> QED BY <2>4, <2>6, <2>7 DEF Extends
<1> QED BY <1>7, <1>8

\* What a reply may say, given the receipts there are.
Stands(reply, receipts) ==
  /\ reply.code # "invariant_violation"
  /\ reply.receipt # None => /\ reply.command \in Commands
                             /\ receipts[reply.command.command_id] = reply.receipt

RepliesStand == \A c \in Callers : Stands(call[c].reply, commands)

\* A step of caller c leaves a reply that stands.
Answers(c) == \E x : call' = [call EXCEPT ![c] = x] /\ Stands(x.reply, commands')

LEMMA InitRepliesStand == LifecycleInit => RepliesStand
BY DEF LifecycleInit, RepliesStand, AtRest, NoReply, Stands

\* A receipt, once stored, is stored for good.
LEMMA ReceiptsStay ==
  ASSUME IInv, [HistoryNext]_store, NEW k \in CommandIds, commands[k] # None
  PROVE  commands'[k] = commands[k]
<1>1. CASE UNCHANGED store
  BY <1>1 DEF store
<1>2. CASE HistoryNext
  <2>1. PICK j \in CommandIds, r \in RunIds :
          \E run2, evs, receipt : Accepts(j, r, run2, evs, receipt)
    BY <1>2, StepAccepts
  <2>2. PICK run2, evs, receipt : Accepts(j, r, run2, evs, receipt)
    BY <2>1
  <2>3. commands' = [commands EXCEPT ![j] = receipt] /\ commands[j] = None
    BY <2>2, AcceptsFacts DEF Accepts
  <2> QED BY <2>3 DEF IInv, StoreTypeOK
<1> QED BY <1>1, <1>2

LEMMA StandingSurvives ==
  ASSUME IInv, [HistoryNext]_store, NEW reply, Stands(reply, commands)
  PROVE  Stands(reply, commands')
<1>1. CASE reply.receipt = None
  BY <1>1 DEF Stands
<1>2. CASE reply.receipt # None
  <2>1. /\ reply.command \in Commands
        /\ commands[reply.command.command_id] = reply.receipt
    BY <1>2 DEF Stands
  <2>2. reply.command.command_id \in CommandIds
    BY <2>1, CommandFacts
  <2>3. commands'[reply.command.command_id] = reply.receipt
    BY <1>2, <2>1, <2>2, ReceiptsStay
  <2> QED BY <2>1, <2>3 DEF Stands
<1> QED BY <1>1, <1>2

LEMMA AnswersKeepReplies ==
  ASSUME LifecycleInv, RepliesStand, [HistoryNext]_store, NEW c \in Callers, Answers(c)
  PROVE  RepliesStand'
<1>1. PICK x : call' = [call EXCEPT ![c] = x] /\ Stands(x.reply, commands')
  BY DEF Answers
<1>2. /\ call'[c] = x
      /\ \A d \in Callers \ {c} : call'[d] = call[d]
  BY <1>1 DEF LifecycleInv, LifecycleTypeOK
<1>3. \A d \in Callers : Stands(call[d].reply, commands')
  BY StandingSurvives DEF LifecycleInv, RepliesStand
<1> QED BY <1>1, <1>2, <1>3 DEF RepliesStand

\* A reply stands that holds no receipt, or the one that is stored.
LEMMA ReplyAnswers ==
  ASSUME NEW c \in Callers, NEW code, NEW receipt, Reply(c, code, receipt),
         code # "invariant_violation",
         receipt # None => /\ call[c].command \in Commands
                           /\ commands'[call[c].command.command_id] = receipt
  PROVE  Answers(c)
<1> DEFINE x == AtRest([code |-> code, command |-> call[c].command, receipt |-> receipt])
<1>1. call' = [call EXCEPT ![c] = x]
  BY DEF Reply
<1>2. Stands(x.reply, commands')
  BY DEF AtRest, Stands
<1> HIDE DEF x
<1> QED BY <1>1, <1>2 DEF Answers

\* A call that goes on has said nothing yet.
LEMMA CallAnswers ==
  ASSUME NEW c \in Callers
  PROVE  \A pc, command, expected, run_id, loaded, decision :
           call' = [call EXCEPT ![c] = Call(pc, command, expected, run_id, loaded, decision)]
             => Answers(c)
<1> SUFFICES ASSUME NEW pc, NEW command, NEW expected, NEW run_id, NEW loaded, NEW decision,
                    call' = [call EXCEPT ![c] =
                               Call(pc, command, expected, run_id, loaded, decision)]
             PROVE  Answers(c)
  OBVIOUS
<1> DEFINE x == Call(pc, command, expected, run_id, loaded, decision)
<1>1. Stands(x.reply, commands')
  BY DEF Call, NoReply, Stands
<1>2. call' = [call EXCEPT ![c] = x]
  OBVIOUS
<1> HIDE DEF x
<1> QED BY <1>1, <1>2 DEF Answers

LEMMA GotoAnswers ==
  ASSUME NEW c \in Callers, NEW pc, Goto(c, pc)
  PROVE  Answers(c)
<1>1. call' = [call EXCEPT ![c] = Call(pc, call[c].command, call[c].expected, call[c].run_id,
                                       call[c].loaded, call[c].decision)]
  BY DEF Goto
<1> QED BY <1>1, CallAnswers

LEMMA LoadAnswers ==
  ASSUME LifecycleInv, NEW c \in Callers, LoadAndDecide(c)
  PROVE  Answers(c)
<1> DEFINE intent  == call[c].command.intent
           current == runs[intent.run_id]
<1>1. PICK now \in Times :
        IF current = None
        THEN Reply(c, "not_found", None)
        ELSE IF current.version # call[c].expected
        THEN Reply(c, "version_conflict", None)
        ELSE IF Decide(intent, current, now).code # "ok"
        THEN Reply(c, Decide(intent, current, now).code, None)
        ELSE IF DeadlineAllows(intent, Decide(intent, current, now))
        THEN Reply(c, "allowed", None)
        ELSE GotoCommit(c, intent.run_id, current, Decide(intent, current, now))
  BY DEF LoadAndDecide, Loaded
<1>2. call[c].command \in Commands /\ intent.type # "create_run"
  BY DEF LoadAndDecide, LifecycleInv, LifecycleTypeOK, WellFormed
<1>3. Decide(intent, current, now).code
        \in {"ok", "illegal_transition", "value_error", "idempotency_conflict"}
  BY <1>2, CommandFacts, DecisionCodes
<1>4. \A code : Reply(c, code, None) /\ code # "invariant_violation" => Answers(c)
  BY ReplyAnswers
<1>5. \A run_id, loaded, decision : GotoCommit(c, run_id, loaded, decision) => Answers(c)
  BY CallAnswers DEF GotoCommit
<1> HIDE DEF current, intent
<1> QED BY <1>1, <1>3, <1>4, <1>5

LEMMA ServiceAnswers ==
  ASSUME LifecycleInv, NEW c \in Callers, NEW reserved,
         Request(c) \/ BuildRun(c, reserved) \/ LoadAndDecide(c)
  PROVE  Answers(c)
<1>1. \A code : Reply(c, code, None) /\ code # "invariant_violation" => Answers(c)
  BY ReplyAnswers
<1>2. \A run_id, loaded, decision : GotoCommit(c, run_id, loaded, decision) => Answers(c)
  BY CallAnswers DEF GotoCommit
<1>3. CASE Request(c)
  <2>1. PICK command \in Commands :
          \E v \in IF command.intent.type = "create_run" THEN {0} ELSE Versions :
            call' = [call EXCEPT ![c] = Call("find", command, v, None, None, NoDecision)]
    BY <1>3 DEF Request
  <2>2. PICK v : call' = [call EXCEPT ![c] = Call("find", command, v, None, None, NoDecision)]
    BY <2>1
  <2> QED BY <2>2, CallAnswers
<1>4. CASE BuildRun(c, reserved)
  <2> DEFINE Made(now) == Create(call[c].command.intent.arg, now)
  <2>1. PICK now \in Times, run_id \in RunIds :
          IF Made(now).code # "ok" THEN Reply(c, Made(now).code, None)
                                   ELSE GotoCommit(c, run_id, None, Made(now))
    BY <1>4 DEF BuildRun
  <2>2. Made(now).code \in {"ok", "value_error"}
    BY DecisionCodes
  <2> HIDE DEF Made
  <2> QED BY <1>1, <1>2, <2>1, <2>2
<1>5. CASE LoadAndDecide(c)
  BY <1>5, LoadAnswers
<1> QED BY <1>3, <1>4, <1>5
=============================================================================
