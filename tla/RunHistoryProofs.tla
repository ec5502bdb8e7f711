-------------------------- MODULE RunHistoryProofs --------------------------
(***************************************************************************)
(* Theorems about RunHistory, for every value of its constants.            *)
(***************************************************************************)
EXTENDS RunHistory, SequenceTheorems, TLAPS

\* What an event says of the usage: a new charge within the budget and before the
\* deadline is added, and nothing else changes it.
Accounts(run, usage, e) ==
  IF e.type = "run.budget_consumed"
  THEN /\ e.charge \in Charge
       /\ SameCharge(run.usage, e.charge) = {}
       /\ usage = Candidate(run.usage, e.charge)
       /\ ExceededChecks(usage, run.budget) = {}
       /\ e.occurred_at < run.budget.deadline_at
  ELSE usage = run.usage

\* One event that takes run to run2.
ExtendsBy(run, run2, e) ==
  /\ run.status \notin Terminal
  /\ run2.version = run.version + 1
  /\ run2.next_event_sequence = run.next_event_sequence + 1
  /\ ResultMatches(run2)
  /\ e.sequence = run.next_event_sequence
  /\ e.run_version = run.version + 1
  /\ e.status = run2.status
  /\ LegalStep(run, e)
  /\ Accounts(run, run2.usage, e)
  /\ e.used = run2.usage.used
  /\ e.occurred_at = run2.last_observed_at
  /\ run.last_observed_at <= e.occurred_at

\* What one decision may do to a run: nothing, or one legal step with one event.
Extends(run, run2, evs) ==
  /\ run2 \in Run
  /\ run2.budget = run.budget
  /\ \/ run2 = run /\ evs = <<>>
     \/ \E e \in Event : evs = <<e>> /\ ExtendsBy(run, run2, e)

LEMMA MoveFacts ==
  ASSUME NEW type \in MoveTypes
  PROVE  /\ Moves[type].target \in Statuses
         /\ Moves[type].event \in EventTypes
         /\ Moves[type].event # "run.budget_consumed"
BY DEF MoveTypes, Moves, Statuses, EventTypes

LEMMA TableFacts ==
  /\ \A s \in Statuses : AllowedTransitions[s] \subseteq Statuses
  /\ \A s \in Terminal : AllowedTransitions[s] = {}
  /\ Terminal \subseteq Statuses
  /\ \A s \in Statuses \ Terminal : "limit_exceeded" \in AllowedTransitions[s]
  /\ "running" \in Statuses \ Terminal
BY DEF Statuses, Terminal, AllowedTransitions

Errors == {"none", "failed", "cancelled"} \cup Dimensions

\* _change builds one successor with one event.
LEMMA ChangeExtends ==
  ASSUME NEW run \in Run, NEW target \in Statuses, NEW type \in EventTypes, NEW now \in Nat,
         NEW usage \in Usage, NEW charge \in Charge \cup {None}, NEW error \in Errors,
         run.status \notin Terminal,
         \/ target \in AllowedTransitions[run.status]
         \/ type = "run.budget_consumed" /\ run.status = "running" /\ target = "running",
         IF type = "run.budget_consumed"
         THEN /\ charge \in Charge
              /\ SameCharge(run.usage, charge) = {}
              /\ usage = Candidate(run.usage, charge)
              /\ ExceededChecks(usage, run.budget) = {}
              /\ EffectiveTime(run, now) < run.budget.deadline_at
         ELSE usage = run.usage
  PROVE  LET d == Change(run, target, type, now, usage, charge, error)
         IN d.code = "ok" /\ Extends(run, d.run, d.events)
<1> DEFINE at == EffectiveTime(run, now)
           result == IF target \in Terminal
                     THEN [status |-> target, usage |-> usage, error |-> error] ELSE None
           run2 == [status |-> target, version |-> run.version + 1,
                    next_event_sequence |-> run.next_event_sequence + 1,
                    budget |-> run.budget, usage |-> usage,
                    last_observed_at |-> at, result |-> result]
           e == [sequence    |-> run.next_event_sequence,
                 type        |-> type,
                 run_version |-> run.version + 1,
                 status      |-> target,
                 occurred_at |-> at,
                 charge      |-> charge,
                 used        |-> usage.used]
<1>1. at \in Nat /\ run.last_observed_at <= at
  BY DEF EffectiveTime, Run
<1>2. result \in Result \cup {None}
  BY DEF Result, Errors
<1>3. run2 \in Run
  <2> HIDE DEF at, result
  <2> QED BY <1>1, <1>2 DEF Run
<1>4. e \in Event
  <2> HIDE DEF at
  <2> QED BY <1>1 DEF Run, Event, Usage
<1>5. target \in Terminal => result # None
  BY StoreAssumption DEF Result, Errors
<1>6. Accounts(run, usage, e)
  BY DEF Accounts
<1>7. ResultMatches(run2)
  BY <1>5 DEF ResultMatches
<1>8. LegalStep(run, e)
  BY DEF LegalStep
<1>9. ExtendsBy(run, run2, e)
  <2> HIDE DEF at, result
  <2> QED BY <1>1, <1>6, <1>7, <1>8 DEF ExtendsBy
<1>10. Change(run, target, type, now, usage, charge, error)
         = [code |-> "ok", run |-> run2, events |-> <<e>>]
  BY DEF Change, Mutation
<1> HIDE DEF run2, e
<1>11. run2.budget = run.budget
  BY DEF run2
<1> QED
  BY <1>3, <1>4, <1>9, <1>10, <1>11 DEF Extends

\* The seven commands that only move the status.
LEMMA MoveExtends ==
  ASSUME NEW run \in Run, NEW type \in MoveTypes, NEW error, NEW now \in Nat,
         Move(type, error, run, now).code = "ok"
  PROVE  Extends(run, Move(type, error, run, now).run, Move(type, error, run, now).events)
<1> DEFINE m == Moves[type]
<1>1. run.status \in m.from /\ m.target \in AllowedTransitions[run.status]
      /\ run.status \in m.previous /\ error # OtherError
  BY DEF Move, Rejected
<1>2. Move(type, error, run, now)
        = Change(run, m.target, m.event, now, run.usage, None, ErrorOf(m.target))
  BY <1>1 DEF Move
<1>3. m.target \in Statuses /\ m.event \in EventTypes
  BY MoveFacts
<1>4. run.status \in Statuses /\ run.usage \in Usage
  BY DEF Run
<1>5. run.status \notin Terminal
  BY <1>1, <1>4, TableFacts
<1>6. ErrorOf(m.target) \in Errors
  BY DEF ErrorOf, Errors
<1>7. m.event # "run.budget_consumed"
  BY MoveFacts
<1> HIDE DEF m
<1> QED
  BY <1>1, <1>2, <1>3, <1>4, <1>5, <1>6, <1>7, ChangeExtends

\* A run that ends at a limit records nothing.
LEMMA LimitExtends ==
  ASSUME NEW run \in Run, NEW dimension \in Dimensions, NEW now \in Nat,
         run.status \notin Terminal
  PROVE  /\ Limit(run, dimension, now).code = "ok"
         /\ Extends(run, Limit(run, dimension, now).run, Limit(run, dimension, now).events)
<1>1. run.status \in Statuses /\ run.usage \in Usage
  BY DEF Run
<1>2. "limit_exceeded" \in Statuses /\ "limit_exceeded" \in AllowedTransitions[run.status]
  BY <1>1, TableFacts
<1>3. "run.limit_exceeded" \in EventTypes /\ dimension \in Errors
  BY DEF EventTypes, Errors
<1> QED
  BY <1>1, <1>2, <1>3, ChangeExtends DEF Limit

LEMMA EnforceDeadlineExtends ==
  ASSUME NEW run \in Run, NEW now \in Nat
  PROVE  /\ EnforceDeadline(run, now).code = "ok"
         /\ Extends(run, EnforceDeadline(run, now).run, EnforceDeadline(run, now).events)
<1>1. CASE run.status \in Terminal \/ EffectiveTime(run, now) < run.budget.deadline_at
  BY <1>1 DEF EnforceDeadline, Unchanged, Extends
<1>2. CASE ~(run.status \in Terminal \/ EffectiveTime(run, now) < run.budget.deadline_at)
  BY <1>2, LimitExtends DEF EnforceDeadline, Dimensions
<1> QED
  BY <1>1, <1>2

\* The dimension a limit reports is one of the budget's.
LEMMA FirstExceededFacts ==
  ASSUME NEW usage, NEW budget, ExceededChecks(usage, budget) # {}
  PROVE  /\ FirstExceeded(usage, budget) \in Dimensions
         /\ Exceeds(usage.used, budget, FirstExceeded(usage, budget))
<1> DEFINE S == ExceededChecks(usage, budget)
<1>1. S \subseteq 1..7 /\ \A i \in S : Exceeds(usage.used, budget, Checks[i])
  BY DEF ExceededChecks, Checks
<1>2. \E i \in S : \A j \in S : i <= j
  <2> HIDE DEF S
  <2> SUFFICES ASSUME \A i \in S : \E j \in S : j < i PROVE FALSE
    BY <1>1, S \subseteq Int
  <2>1. 1 \notin S
    BY <1>1
  <2>2. 2 \notin S
    BY <1>1, <2>1
  <2>3. 3 \notin S
    BY <1>1, <2>1, <2>2
  <2>4. 4 \notin S /\ 5 \notin S
    BY <1>1, <2>1, <2>2, <2>3
  <2>5. 6 \notin S /\ 7 \notin S
    BY <1>1, <2>1, <2>2, <2>3, <2>4
  <2>6. PICK k \in S : TRUE
    BY DEF S
  <2>7. k \in 1..7 /\ k \notin {1, 2, 3, 4, 5, 6, 7}
    BY <1>1, <2>1, <2>2, <2>3, <2>4, <2>5, <2>6
  <2> QED
    BY <2>7
<1>3. \A i \in 1..7 : Checks[i] \in Dimensions
  BY DEF Checks, Dimensions, Counters
<1> DEFINE i0 == CHOOSE i \in S : \A j \in S : i <= j
<1>4. i0 \in S
  BY <1>2
<1>5. FirstExceeded(usage, budget) = Checks[i0]
  BY DEF FirstExceeded
<1> HIDE DEF S, i0
<1> QED
  BY <1>1, <1>3, <1>4, <1>5

LEMMA CandidateType ==
  ASSUME NEW usage \in Usage, NEW charge \in Charge
  PROVE  Candidate(usage, charge) \in Usage
BY DEF Candidate, Usage, Charge, Amounts

LEMMA ConsumeBudgetExtends ==
  ASSUME NEW run \in Run, NEW charge \in Charge, NEW now \in Nat,
         ConsumeBudget(charge, run, now).code = "ok"
  PROVE  Extends(run, ConsumeBudget(charge, run, now).run,
                 ConsumeBudget(charge, run, now).events)
<1> DEFINE d     == ConsumeBudget(charge, run, now)
           known == SameCharge(run.usage, charge)
           next  == Candidate(run.usage, charge)
<1>1. run.status = "running"
  BY DEF ConsumeBudget, Rejected
<1>2. run.status \notin Terminal
  BY <1>1 DEF Terminal
<1>3. CASE known # {}
  <2>1. d = Unchanged(run)
    BY <1>1, <1>3 DEF ConsumeBudget, Rejected
  <2> QED
    BY <2>1 DEF Unchanged, Extends
<1>4. CASE known = {} /\ EffectiveTime(run, now) >= run.budget.deadline_at
  <2>1. d = Limit(run, "deadline", now)
    BY <1>1, <1>4 DEF ConsumeBudget
  <2> QED
    BY <1>2, <2>1, LimitExtends DEF Dimensions
<1>5. CASE /\ known = {}
           /\ ~(EffectiveTime(run, now) >= run.budget.deadline_at)
           /\ ExceededChecks(next, run.budget) # {}
  <2>1. d = Limit(run, FirstExceeded(next, run.budget), now)
    BY <1>1, <1>5 DEF ConsumeBudget
  <2>2. FirstExceeded(next, run.budget) \in Dimensions
    BY <1>5, FirstExceededFacts
  <2> QED
    BY <1>2, <2>1, <2>2, LimitExtends
<1>6. CASE /\ known = {}
           /\ ~(EffectiveTime(run, now) >= run.budget.deadline_at)
           /\ ExceededChecks(next, run.budget) = {}
  <2>1. d = Change(run, "running", "run.budget_consumed", now, next, charge, "none")
    BY <1>1, <1>6 DEF ConsumeBudget
  <2>2. next \in Usage
    BY CandidateType DEF Run
  <2>3. "running" \in Statuses /\ "run.budget_consumed" \in EventTypes /\ "none" \in Errors
    BY DEF Statuses, EventTypes, Errors
  <2>4. EffectiveTime(run, now) < run.budget.deadline_at
    BY <1>6 DEF EffectiveTime, Run, Budget
  <2> HIDE DEF next, known
  <2>5. Extends(run, Change(run, "running", "run.budget_consumed", now, next, charge, "none").run,
                Change(run, "running", "run.budget_consumed", now, next, charge, "none").events)
    BY <1>1, <1>2, <1>6, <2>2, <2>3, <2>4, ChangeExtends DEF next, known
  <2> QED
    BY <2>1, <2>5
<1> QED
  BY <1>3, <1>4, <1>5, <1>6

\* Whatever the command, an accepted decision extends the run it was made on.
LEMMA DecideExtends ==
  ASSUME NEW run \in Run, NEW intent \in Intent, NEW now \in Nat,
         intent.type # "create_run", Decide(intent, run, now).code = "ok"
  PROVE  Extends(run, Decide(intent, run, now).run, Decide(intent, run, now).events)
<1>1. CASE intent.type \in MoveTypes
  <2>1. intent.type \notin {"consume_budget", "enforce_deadline"}
    BY <1>1 DEF MoveTypes, Moves
  <2>2. Decide(intent, run, now) = Move(intent.type, intent.arg, run, now)
    BY <1>1, <2>1 DEF Decide
  <2> QED
    BY <1>1, <2>2, MoveExtends
<1>2. CASE intent.type = "consume_budget"
  <2>1. intent.type \notin MoveTypes /\ intent.arg \in Charge
    BY <1>2 DEF MoveTypes, Moves, Intent
  <2> QED
    BY <1>2, <2>1, ConsumeBudgetExtends DEF Decide
<1>3. CASE intent.type = "enforce_deadline"
  <2>1. intent.type \notin MoveTypes
    BY <1>3 DEF MoveTypes, Moves
  <2> QED
    BY <1>3, <2>1, EnforceDeadlineExtends DEF Decide
<1>4. "fail_run" \in MoveTypes
  BY DEF MoveTypes, Moves
<1> QED
  BY <1>1, <1>2, <1>3, <1>4 DEF Intent
-----------------------------------------------------------------------------
(* A run and its log, taken together. *)

\* The three per-run parts of the inductive invariant.
LogOK(run, log) ==
  LogMatches(run, log) /\ TimeMatches(run, log) /\ UsageMatches(run, log)

LEMMA CreateStarts ==
  ASSUME NEW budget \in Budget, NEW now \in Nat, Create(budget, now).code = "ok"
  PROVE  LET d == Create(budget, now)
         IN /\ d.run \in Run /\ d.events \in Seq(Event)
            /\ LogOK(d.run, d.events)
            /\ Len(d.events) = 1
<1> DEFINE run == [status |-> "queued", version |-> 1, next_event_sequence |-> 2,
                   budget |-> budget, usage |-> NoUsage, last_observed_at |-> now,
                   result |-> None]
           e   == [sequence |-> 1, type |-> "run.created", run_version |-> 1,
                   status |-> "queued", occurred_at |-> now, charge |-> None,
                   used |-> NoUsage.used]
<1>1. Create(budget, now) = [code |-> "ok", run |-> run, events |-> <<e>>]
  BY DEF Create, Rejected, Mutation
<1>2. NoUsage \in Usage /\ NoUsage.used \in Amounts
  BY DEF NoUsage, Usage, Amounts
<1>3. run \in Run
  BY <1>2 DEF Run, Statuses
<1>4. e \in Event
  BY <1>2 DEF Event, Statuses, EventTypes
<1>5. <<e>> \in Seq(Event) /\ Len(<<e>>) = 1 /\ DOMAIN <<e>> = {1} /\ <<e>>[1] = e
  BY <1>4
<1>6. Spent(<<e>>) = {}
  BY <1>5 DEF Spent
<1>7. LogMatches(run, <<e>>)
  BY <1>5 DEF LogMatches, ResultMatches, Terminal
<1>8. TimeMatches(run, <<e>>)
  BY <1>5, <1>6 DEF TimeMatches
<1>9. UsageMatches(run, <<e>>)
  <2>1. run.usage.charges = {<<e>>[i].charge : i \in Spent(<<e>>)}
    BY <1>6 DEF NoUsage
  <2>2. \A d \in Dimensions \ {"deadline"} :
          Consumed(run.usage.used, d) <= run.budget.maximum[d]
    <3>1. \A d \in Dimensions \ {"deadline"} : budget.maximum[d] \in Nat
      BY DEF Budget, Dimensions
    <3>2. \A d \in Dimensions \ {"deadline"} : Consumed(NoUsage.used, d) = 0
      BY DEF Consumed, NoUsage, Dimensions, Counters
    <3> QED BY <3>1, <3>2
  <2>3. \A i, j \in Spent(<<e>>) :
          <<e>>[i].charge.charge_id = <<e>>[j].charge.charge_id => i = j
    BY <1>6
  <2>4. /\ <<e>>[1].used = NoUsage.used
        /\ run.usage.used = <<e>>[run.version].used
        /\ \A i \in DOMAIN <<e>> : ~(i > 1)
    BY <1>5
  <2> QED BY <2>1, <2>2, <2>3, <2>4 DEF UsageMatches
<1> HIDE DEF run, e
<1> QED
  BY <1>1, <1>3, <1>5, <1>7, <1>8, <1>9 DEF LogOK

\* Appending one event to a log.
LEMMA AppendFacts ==
  ASSUME NEW log \in Seq(Event), NEW e \in Event
  PROVE  LET log2 == log \o <<e>>
             n    == Len(log)
         IN /\ log2 \in Seq(Event)
            /\ n \in Nat /\ Len(log2) = n + 1
            /\ DOMAIN log = 1..n /\ DOMAIN log2 = 1..(n+1)
            /\ \A i \in 1..n : log2[i] = log[i]
            /\ log2[n+1] = e
<1>1. <<e>> \in Seq(Event) /\ Len(<<e>>) = 1 /\ <<e>>[1] = e
  OBVIOUS
<1>2. /\ log \o <<e>> \in Seq(Event)
      /\ Len(log \o <<e>>) = Len(log) + 1
      /\ \A i \in 1 .. Len(log) + 1 :
           (log \o <<e>>)[i] = IF i <= Len(log) THEN log[i] ELSE <<e>>[i - Len(log)]
  BY <1>1, ConcatProperties
<1>3. Len(log) \in Nat /\ DOMAIN log = 1..Len(log)
  BY LenProperties
<1>4. DOMAIN (log \o <<e>>) = 1..(Len(log) + 1)
  BY <1>2, LenProperties
<1> QED
  BY <1>1, <1>2, <1>3, <1>4

\* A usage that exceeds no check is within every limit.
LEMMA NothingExceeded ==
  ASSUME NEW usage \in Usage, NEW budget \in Budget, ExceededChecks(usage, budget) = {}
  PROVE  \A d \in Dimensions \ {"deadline"} :
           Consumed(usage.used, d) <= budget.maximum[d]
<1> TAKE d \in Dimensions \ {"deadline"}
<1>1. PICK i \in DOMAIN Checks : Checks[i] = d
  <2>1. /\ DOMAIN Checks = 1..7
        /\ Checks[1] = "steps" /\ Checks[2] = "model_calls" /\ Checks[3] = "tool_calls"
        /\ Checks[4] = "input_tokens" /\ Checks[5] = "output_tokens"
        /\ Checks[6] = "total_tokens" /\ Checks[7] = "cost"
    BY DEF Checks
  <2>2. d \in {"steps", "model_calls", "tool_calls", "input_tokens", "output_tokens",
               "total_tokens", "cost"}
    BY DEF Dimensions, Counters
  <2> QED BY <2>1, <2>2
<1>2. ~(Consumed(usage.used, d) > budget.maximum[d])
  BY <1>1 DEF ExceededChecks, Exceeds
<1>3. budget.maximum[d] \in Nat
  BY DEF Budget, Dimensions
<1>4. Consumed(usage.used, d) \in Nat
  BY DEF Consumed, Usage, Amounts, Dimensions, Counters
<1> QED BY <1>2, <1>3, <1>4

\* One legal step keeps snapshot and log in agreement.
LEMMA OneEventKeepsLogOK ==
  ASSUME NEW run \in Run, NEW run2 \in Run, NEW log \in Seq(Event), NEW e \in Event,
         run2.budget = run.budget, LogOK(run, log), ExtendsBy(run, run2, e)
  PROVE  LogOK(run2, log \o <<e>>)
<1> DEFINE log2 == log \o <<e>>
           n    == Len(log)
<1>1. /\ log2 \in Seq(Event)
      /\ n \in Nat /\ Len(log2) = n + 1
      /\ DOMAIN log = 1..n /\ DOMAIN log2 = 1..(n+1)
      /\ \A i \in 1..n : log2[i] = log[i]
      /\ log2[n+1] = e
  BY AppendFacts
<1>2. /\ n = run.version /\ run.version \in Nat \ {0}
      /\ run2.version = n + 1
      /\ run.next_event_sequence = n + 1
  BY DEF LogOK, LogMatches, ExtendsBy, Run
<1>3. n \in 1..n /\ n \in Nat \ {0} /\ 1 \in 1..n
  BY <1>2
<1>4. \A i \in 1..(n+1) : i \in 1..n \/ i = n + 1
  BY <1>1
<1>5. /\ \A i \in 1..(n+1) : i > 1 => i-1 \in 1..n
      /\ (n + 1) - 1 = n
  BY <1>1
<1> HIDE DEF log2, n
<1>6. LogMatches(run2, log2)
  <2>1. log2[1] = log[1] /\ log2[n+1].status = run2.status
    BY <1>1, <1>3 DEF ExtendsBy
  <2>2. \A i \in 1..(n+1) : log2[i].sequence = i /\ log2[i].run_version = i
    BY <1>1, <1>2, <1>4 DEF ExtendsBy, LogOK, LogMatches
  <2>3. ASSUME NEW i \in 1..(n+1), i > 1
        PROVE  LegalStep(log2[i-1], log2[i])
    <3>1. CASE i \in 1..n
      BY <1>1, <1>5, <2>3, <3>1 DEF LogOK, LogMatches
    <3>2. CASE i = n + 1
      <4>1. log2[i-1] = log[n] /\ log2[i] = e /\ log[n].status = run.status
        BY <1>1, <1>2, <1>3, <1>5, <3>2 DEF LogOK, LogMatches
      <4>2. LegalStep(run, e)
        BY DEF ExtendsBy
      <4> QED BY <4>1, <4>2 DEF LegalStep
    <3> QED BY <1>4, <3>1, <3>2
  <2>4. run2.next_event_sequence = run2.version + 1
    BY <1>2 DEF ExtendsBy
  <2>5. ResultMatches(run2) /\ log[1].type = "run.created" /\ log[1].status = "queued"
    BY DEF ExtendsBy, LogOK, LogMatches
  <2> QED
    BY <1>1, <1>2, <2>1, <2>2, <2>3, <2>4, <2>5 DEF LogMatches
<1>7. Spent(log2) = IF e.type = "run.budget_consumed" THEN Spent(log) \cup {n+1}
                    ELSE Spent(log)
  BY <1>1, <1>4 DEF Spent
<1>8. Spent(log) \subseteq 1..n /\ n + 1 \notin Spent(log)
  BY <1>1 DEF Spent
<1>9. \A i \in Spent(log) : log2[i] = log[i]
  BY <1>1, <1>8
<1>10. TimeMatches(run2, log2)
  <2>1. run2.last_observed_at = log2[n+1].occurred_at
    BY <1>1 DEF ExtendsBy
  <2>2. ASSUME NEW i \in 1..(n+1), i > 1
        PROVE  log2[i-1].occurred_at <= log2[i].occurred_at
    <3>1. CASE i \in 1..n
      BY <1>1, <1>5, <2>2, <3>1 DEF LogOK, TimeMatches
    <3>2. CASE i = n + 1
      BY <1>1, <1>2, <1>3, <1>5, <3>2 DEF LogOK, TimeMatches, ExtendsBy
    <3> QED BY <1>4, <3>1, <3>2
  <2>3. \A i \in Spent(log2) : log2[i].occurred_at < run2.budget.deadline_at
    BY <1>1, <1>7, <1>9 DEF LogOK, TimeMatches, ExtendsBy, Accounts
  <2> QED
    BY <1>1, <1>2, <2>1, <2>2, <2>3 DEF TimeMatches
<1>11. UsageMatches(run2, log2)
  <2>1. log2[1].used = NoUsage.used
    BY <1>1, <1>3 DEF LogOK, UsageMatches
  <2>2. run2.usage.used = log2[run2.version].used
    BY <1>1, <1>2 DEF ExtendsBy
  <2>3. run.usage.used = log[n].used
    BY <1>2 DEF LogOK, UsageMatches
  <2>4. run.usage.charges = {log[i].charge : i \in Spent(log)}
    BY DEF LogOK, UsageMatches
  <2>5. \A i, j \in Spent(log) :
          log[i].charge.charge_id = log[j].charge.charge_id => i = j
    BY DEF LogOK, UsageMatches
  <2>6. \A i \in 1..n : i > 1 =>
          log[i].used = IF i \in Spent(log)
                        THEN [c \in Counters |-> log[i-1].used[c] + log[i].charge.amount[c]]
                        ELSE log[i-1].used
    BY <1>1 DEF LogOK, UsageMatches
  <2>7. \A d \in Dimensions \ {"deadline"} :
          Consumed(run.usage.used, d) <= run.budget.maximum[d]
    BY DEF LogOK, UsageMatches
  <2>8. CASE e.type = "run.budget_consumed"
    <3>1. /\ e.charge \in Charge /\ SameCharge(run.usage, e.charge) = {}
          /\ run2.usage = Candidate(run.usage, e.charge)
          /\ ExceededChecks(run2.usage, run2.budget) = {}
          /\ e.used = run2.usage.used
      BY <2>8 DEF ExtendsBy, Accounts
    <3>2. Spent(log2) = Spent(log) \cup {n+1}
      BY <1>7, <2>8
    <3>3. \A i \in Spent(log) : log[i].charge.charge_id # e.charge.charge_id
      <4>1. \A k \in run.usage.charges : k.charge_id # e.charge.charge_id
        BY <3>1 DEF SameCharge
      <4> QED BY <2>4, <4>1
    <3>4. \A i, j \in Spent(log2) :
            log2[i].charge.charge_id = log2[j].charge.charge_id => i = j
      BY <1>1, <1>9, <2>5, <3>2, <3>3
    <3>5. run2.usage.charges = {log2[i].charge : i \in Spent(log2)}
      BY <1>1, <1>9, <2>4, <3>1, <3>2 DEF Candidate
    <3>6. ASSUME NEW i \in 1..(n+1), i > 1
          PROVE  log2[i].used = IF i \in Spent(log2)
                   THEN [c \in Counters |-> log2[i-1].used[c] + log2[i].charge.amount[c]]
                   ELSE log2[i-1].used
      <4>1. CASE i \in 1..n
        BY <1>1, <1>5, <1>8, <2>6, <3>2, <3>6, <4>1
      <4>2. CASE i = n + 1
        <5>1. log2[i] = e /\ log2[i-1].used = run.usage.used /\ i \in Spent(log2)
          BY <1>1, <1>3, <1>5, <2>3, <3>2, <4>2
        <5>2. e.used = [c \in Counters |-> run.usage.used[c] + e.charge.amount[c]]
          BY <3>1 DEF Candidate
        <5> QED BY <5>1, <5>2
      <4> QED BY <1>4, <4>1, <4>2
    <3>7. \A d \in Dimensions \ {"deadline"} :
            Consumed(run2.usage.used, d) <= run2.budget.maximum[d]
      BY <3>1, NothingExceeded DEF Run
    <3> QED
      BY <1>1, <2>1, <2>2, <3>4, <3>5, <3>6, <3>7 DEF UsageMatches
  <2>9. CASE e.type # "run.budget_consumed"
    <3>1. run2.usage = run.usage /\ e.used = run.usage.used /\ Spent(log2) = Spent(log)
      BY <1>7, <2>9 DEF ExtendsBy, Accounts
    <3>2. \A i, j \in Spent(log2) :
            log2[i].charge.charge_id = log2[j].charge.charge_id => i = j
      BY <1>9, <2>5, <3>1
    <3>3. run2.usage.charges = {log2[i].charge : i \in Spent(log2)}
      BY <1>9, <2>4, <3>1
    <3>4. ASSUME NEW i \in 1..(n+1), i > 1
          PROVE  log2[i].used = IF i \in Spent(log2)
                   THEN [c \in Counters |-> log2[i-1].used[c] + log2[i].charge.amount[c]]
                   ELSE log2[i-1].used
      <4>1. CASE i \in 1..n
        BY <1>1, <1>5, <2>6, <3>1, <3>4, <4>1
      <4>2. CASE i = n + 1
        BY <1>1, <1>3, <1>5, <1>8, <2>3, <3>1, <4>2
      <4> QED BY <1>4, <4>1, <4>2
    <3> QED
      BY <1>1, <2>1, <2>2, <2>7, <3>1, <3>2, <3>3, <3>4 DEF UsageMatches
  <2> QED BY <2>8, <2>9
<1> QED
  BY <1>6, <1>10, <1>11 DEF LogOK, log2

\* An accepted decision, with zero or one event, keeps them in agreement, and
\* what was in the log stays in it.
LEMMA ExtendsKeepsLogOK ==
  ASSUME NEW run \in Run, NEW log \in Seq(Event), NEW run2, NEW evs,
         LogOK(run, log), Extends(run, run2, evs)
  PROVE  /\ evs \in Seq(Event) /\ log \o evs \in Seq(Event)
         /\ LogOK(run2, log \o evs)
         /\ \A i \in DOMAIN log : i \in DOMAIN (log \o evs) /\ (log \o evs)[i] = log[i]
         /\ evs = <<>> => log \o evs = log
<1>1. CASE run2 = run /\ evs = <<>>
  <2>1. log \o <<>> = log /\ <<>> \in Seq(Event)
    BY ConcatEmptySeq
  <2> QED BY <1>1, <2>1
<1>2. CASE \E e \in Event : evs = <<e>> /\ ExtendsBy(run, run2, e)
  <2>1. PICK e \in Event : evs = <<e>> /\ ExtendsBy(run, run2, e)
    BY <1>2
  <2>2. LogOK(run2, log \o <<e>>)
    BY <2>1, OneEventKeepsLogOK DEF Extends
  <2>3. <<e>> \in Seq(Event) /\ <<e>> # <<>>
    OBVIOUS
  <2> QED BY <2>1, <2>2, <2>3, AppendFacts
<1> QED BY <1>1, <1>2 DEF Extends
-----------------------------------------------------------------------------
(* The state machine. *)

\* The inductive invariant: the log of a run explains its snapshot completely.
IInv ==
  /\ StoreTypeOK
  /\ HistoryMatchesRun
  /\ TimeMovesForward
  /\ BudgetIsSpentOnce

\* What one step does to run r under the command id k.
Accepts(k, r, run2, evs, receipt) ==
  /\ commands[k] = None
  /\ Record(k, r, [code |-> "ok", run |-> run2, events |-> evs], receipt)
  /\ run2 \in Run /\ evs \in Seq(Event) /\ receipt \in Receipt
  /\ \/ runs[r] = None /\ LogOK(run2, evs)
     \/ runs[r] # None /\ Extends(runs[r], run2, evs)

LEMMA CommandFacts ==
  ASSUME NEW command \in Commands
  PROVE  /\ command.command_id \in CommandIds
         /\ command.intent \in Intent
         /\ command.intent.type = "create_run" => command.intent.arg \in Budget
         /\ command.intent.type # "create_run" => command.intent.run_id \in RunIds
<1>1. command.command_id \in CommandIds /\ command.intent \in Intent
  BY StoreAssumption DEF Command
<1>2. "create_run" \notin MoveTypes \cup {"enforce_deadline", "consume_budget"}
  BY DEF MoveTypes, Moves
<1> QED BY <1>1, <1>2 DEF Intent

LEMMA ReceiptType ==
  ASSUME NEW intent \in Intent, NEW r \in RunIds, NEW d, d.run \in Run,
         d.events \in Seq(Event)
  PROVE  ReceiptOf(intent, r, d) \in Receipt
<1>1. EventIds(d.events) \in SUBSET (Nat \ {0})
  <2>1. \A i \in DOMAIN d.events : d.events[i] \in Event
    BY LenProperties, ElementOfSeq
  <2> QED BY <2>1 DEF EventIds, Event
<1> QED BY <1>1 DEF ReceiptOf, Receipt, Run

LEMMA StepAccepts ==
  ASSUME IInv, HistoryNext
  PROVE  \E k \in CommandIds, r \in RunIds :
           \E run2, evs, receipt : Accepts(k, r, run2, evs, receipt)
<1> USE DEF IInv
<1>1. PICK command \in Commands, now \in Times :
        (\E r \in RunIds : AcceptCreate(command, r, now)) \/ AcceptChange(command, now)
  BY DEF HistoryNext
<1>2. now \in Nat
  BY TimesAssumption
<1> DEFINE k == command.command_id
           intent == command.intent
<1>3. k \in CommandIds /\ intent \in Intent
  BY CommandFacts
<1>4. ASSUME NEW r \in RunIds, AcceptCreate(command, r, now)
      PROVE  \E run2, evs, receipt : Accepts(k, r, run2, evs, receipt)
  <2> DEFINE d == Create(intent.arg, now)
  <2>1. intent.arg \in Budget /\ d.code = "ok"
    BY <1>4, CommandFacts DEF AcceptCreate
  <2>2. d.run \in Run /\ d.events \in Seq(Event) /\ LogOK(d.run, d.events)
    BY <1>2, <2>1, CreateStarts
  <2>3. ReceiptOf(intent, r, d) \in Receipt
    BY <1>3, <2>2, ReceiptType
  <2>4. /\ commands[k] = None /\ runs[r] = None
        /\ Record(k, r, d, ReceiptOf(intent, r, d))
    BY <1>4 DEF AcceptCreate
  <2> HIDE DEF d, k, intent
  <2>5. Accepts(k, r, d.run, d.events, ReceiptOf(intent, r, d))
    BY <2>2, <2>3, <2>4 DEF Accepts, Record
  <2> QED BY <2>5
<1>5. ASSUME AcceptChange(command, now)
      PROVE  \E r \in RunIds : \E run2, evs, receipt : Accepts(k, r, run2, evs, receipt)
  <2> DEFINE r == intent.run_id
             d == Decide(intent, runs[r], now)
  <2>1. /\ intent.type # "create_run" /\ commands[k] = None /\ runs[r] # None
        /\ d.code = "ok" /\ Record(k, r, d, ReceiptOf(intent, r, d))
    BY <1>5 DEF AcceptChange
  <2>2. r \in RunIds
    BY <2>1, CommandFacts
  <2>3. runs[r] \in Run /\ events[r] \in Seq(Event) /\ LogOK(runs[r], events[r])
    BY <2>1, <2>2
    DEF StoreTypeOK, LogOK, HistoryMatchesRun, TimeMovesForward, BudgetIsSpentOnce
  <2>4. Extends(runs[r], d.run, d.events)
    BY <1>2, <1>3, <2>1, <2>3, DecideExtends
  <2>5. d.run \in Run /\ d.events \in Seq(Event)
    <3> HIDE DEF d
    <3>1. d.run \in Run
      BY <2>4 DEF Extends
    <3>2. d.events \in Seq(Event)
      BY <2>3, <2>4, ExtendsKeepsLogOK
    <3> QED BY <3>1, <3>2
  <2>6. ReceiptOf(intent, r, d) \in Receipt
    BY <1>3, <2>2, <2>5, ReceiptType
  <2> HIDE DEF d, k, intent, r
  <2>7. Accepts(k, r, d.run, d.events, ReceiptOf(intent, r, d))
    BY <2>1, <2>4, <2>5, <2>6 DEF Accepts, Record
  <2> QED BY <2>2, <2>7
<1> QED BY <1>1, <1>3, <1>4, <1>5

\* What a step means for the run it touches.
LEMMA AcceptsFacts ==
  ASSUME IInv, NEW k \in CommandIds, NEW r \in RunIds, NEW run2, NEW evs, NEW receipt,
         Accepts(k, r, run2, evs, receipt)
  PROVE  /\ runs' = [runs EXCEPT ![r] = run2]
         /\ events' = [events EXCEPT ![r] = events[r] \o evs]
         /\ commands' = [commands EXCEPT ![k] = receipt]
         /\ run2 \in Run /\ receipt \in Receipt
         /\ events[r] \in Seq(Event) /\ events[r] \o evs \in Seq(Event)
         /\ LogOK(run2, events[r] \o evs)
         /\ \A i \in DOMAIN events[r] : i \in DOMAIN (events[r] \o evs)
                                        /\ (events[r] \o evs)[i] = events[r][i]
         /\ runs[r] # None => run2.budget = runs[r].budget
         /\ (runs[r] # None /\ runs[r].status \in Terminal)
              => run2 = runs[r] /\ events[r] \o evs = events[r]
<1>1. /\ runs' = [runs EXCEPT ![r] = run2]
      /\ events' = [events EXCEPT ![r] = events[r] \o evs]
      /\ commands' = [commands EXCEPT ![k] = receipt]
      /\ run2 \in Run /\ evs \in Seq(Event) /\ receipt \in Receipt
  BY DEF Accepts, Record
<1>2. events[r] \in Seq(Event)
  BY DEF IInv, StoreTypeOK
<1>3. CASE runs[r] = None /\ LogOK(run2, evs)
  <2>1. events[r] = <<>>
    BY <1>3 DEF IInv, HistoryMatchesRun
  <2>2. <<>> \o evs = evs /\ DOMAIN <<>> = {}
    BY <1>1, ConcatEmptySeq
  <2> QED BY <1>1, <1>2, <1>3, <2>1, <2>2
<1>4. CASE runs[r] # None /\ Extends(runs[r], run2, evs)
  <2>1. runs[r] \in Run /\ LogOK(runs[r], events[r])
    BY <1>4 DEF IInv, StoreTypeOK, LogOK, HistoryMatchesRun, TimeMovesForward,
                BudgetIsSpentOnce
  <2>2. /\ events[r] \o evs \in Seq(Event)
        /\ LogOK(run2, events[r] \o evs)
        /\ \A i \in DOMAIN events[r] : i \in DOMAIN (events[r] \o evs)
                                       /\ (events[r] \o evs)[i] = events[r][i]
        /\ evs = <<>> => events[r] \o evs = events[r]
    BY <1>2, <1>4, <2>1, ExtendsKeepsLogOK
  <2>3. run2.budget = runs[r].budget
    BY <1>4 DEF Extends
  <2>4. runs[r].status \in Terminal => run2 = runs[r] /\ evs = <<>>
    BY <1>4 DEF Extends, ExtendsBy
  <2> QED BY <1>1, <1>2, <1>4, <2>2, <2>3, <2>4
<1> QED BY <1>3, <1>4 DEF Accepts

LEMMA IInvInit == HistoryInit => IInv
<1> SUFFICES ASSUME HistoryInit PROVE IInv
  OBVIOUS
<1>1. /\ \A r \in RunIds : runs[r] = None /\ events[r] = <<>>
      /\ runs \in [RunIds -> {None}] /\ events \in [RunIds -> {<<>>}]
      /\ commands \in [CommandIds -> {None}]
  BY DEF HistoryInit, EmptyStore
<1>2. <<>> \in Seq(Event)
  OBVIOUS
<1>3. StoreTypeOK
  BY <1>1, <1>2 DEF StoreTypeOK
<1> QED BY <1>1, <1>3 DEF IInv, HistoryMatchesRun, TimeMovesForward, BudgetIsSpentOnce

LEMMA IInvStep == IInv /\ [HistoryNext]_store => IInv'
<1> SUFFICES ASSUME IInv, [HistoryNext]_store PROVE IInv'
  OBVIOUS
<1>1. CASE HistoryNext
  <2>1. PICK k \in CommandIds, r \in RunIds :
          \E run2, evs, receipt : Accepts(k, r, run2, evs, receipt)
    BY <1>1, StepAccepts
  <2>2. PICK run2, evs, receipt : Accepts(k, r, run2, evs, receipt)
    BY <2>1
  <2> DEFINE log2 == events[r] \o evs
  <2>3. /\ runs' = [runs EXCEPT ![r] = run2]
        /\ events' = [events EXCEPT ![r] = log2]
        /\ commands' = [commands EXCEPT ![k] = receipt]
        /\ run2 \in Run /\ receipt \in Receipt
        /\ log2 \in Seq(Event)
        /\ LogOK(run2, log2)
    BY <2>2, AcceptsFacts
  <2> HIDE DEF log2
  <2>4. StoreTypeOK /\ run2 # None
    BY <2>3, StoreAssumption DEF IInv
  <2>5. StoreTypeOK'
    BY <2>3, <2>4 DEF StoreTypeOK
  <2>6. /\ runs'[r] = run2 /\ events'[r] = log2
        /\ \A q \in RunIds \ {r} : runs'[q] = runs[q] /\ events'[q] = events[q]
    BY <2>3, <2>4 DEF StoreTypeOK
  <2>7. HistoryMatchesRun'
    BY <2>3, <2>4, <2>6 DEF IInv, HistoryMatchesRun, LogOK
  <2>8. TimeMovesForward'
    BY <2>3, <2>4, <2>6 DEF IInv, TimeMovesForward, LogOK
  <2>9. BudgetIsSpentOnce'
    BY <2>3, <2>4, <2>6 DEF IInv, BudgetIsSpentOnce, LogOK
  <2> QED BY <2>5, <2>7, <2>8, <2>9 DEF IInv
<1>2. CASE UNCHANGED store
  BY <1>2 DEF store, IInv, StoreTypeOK, HistoryMatchesRun, TimeMovesForward,
              BudgetIsSpentOnce
<1> QED BY <1>1, <1>2

\* A run never disappears, and it changes only by gaining a version.
LEMMA RunsGrow ==
  ASSUME IInv, [HistoryNext]_store, NEW r \in RunIds, runs[r] # None
  PROVE  /\ runs'[r] # None
         /\ runs'[r] = runs[r] \/ runs'[r].version > runs[r].version
<1>1. runs[r] \in Run /\ StoreTypeOK
  BY DEF IInv, StoreTypeOK
<1>2. CASE HistoryNext
  <2>1. PICK k \in CommandIds, q \in RunIds :
          \E run2, evs, receipt : Accepts(k, q, run2, evs, receipt)
    BY <1>2, StepAccepts
  <2>2. PICK run2, evs, receipt : Accepts(k, q, run2, evs, receipt)
    BY <2>1
  <2>3. runs' = [runs EXCEPT ![q] = run2] /\ run2 \in Run
    BY <2>2, AcceptsFacts
  <2>4. q = r => run2 = runs[r] \/ run2.version = runs[r].version + 1
    BY <2>2 DEF Accepts, Extends, ExtendsBy
  <2> QED BY <1>1, <2>3, <2>4, StoreAssumption DEF StoreTypeOK, Run
<1>3. CASE UNCHANGED store
  BY <1>3 DEF store
<1> QED BY <1>2, <1>3

\* The store only ever holds well-formed snapshots, events and receipts.
THEOREM TypeCorrect == HistorySpec => []StoreTypeOK
<1>1. IInv => StoreTypeOK
  BY DEF IInv
<1> QED BY <1>1, IInvInit, IInvStep, PTL DEF HistorySpec

\* Snapshot and event log of every run tell the same story, in every state.
THEOREM HistoryIsTold == HistorySpec => []HistoryMatchesRun
<1>1. IInv => HistoryMatchesRun
  BY DEF IInv
<1> QED BY <1>1, IInvInit, IInvStep, PTL DEF HistorySpec

\* No history ever steps back in time, however wrong the clocks that stamp it.
THEOREM TimeIsMonotone == HistorySpec => []TimeMovesForward
<1>1. IInv => TimeMovesForward
  BY DEF IInv
<1> QED BY <1>1, IInvInit, IInvStep, PTL DEF HistorySpec

\* No charge is ever spent twice and no limit of a budget is ever exceeded.
THEOREM ChargesAreSpentOnce == HistorySpec => []BudgetIsSpentOnce
<1>1. IInv => BudgetIsSpentOnce
  BY DEF IInv
<1> QED BY <1>1, IInvInit, IInvStep, PTL DEF HistorySpec

\* A run that has ended never changes again.
THEOREM EndedRunsAreFrozen == HistorySpec => TerminalFrozen
<1>1. IInv /\ [HistoryNext]_store => [TerminalFrozenStep]_store
  <2> SUFFICES ASSUME IInv, HistoryNext PROVE TerminalFrozenStep
    OBVIOUS
  <2>1. PICK k \in CommandIds, r \in RunIds :
          \E run2, evs, receipt : Accepts(k, r, run2, evs, receipt)
    BY StepAccepts
  <2>2. PICK run2, evs, receipt : Accepts(k, r, run2, evs, receipt)
    BY <2>1
  <2>3. StoreTypeOK
    BY DEF IInv
  <2> QED BY <2>2, <2>3, AcceptsFacts DEF TerminalFrozenStep, StoreTypeOK
<1> QED BY <1>1, IInvInit, IInvStep, PTL DEF HistorySpec, TerminalFrozen

\* Events, receipts and budgets are immutable once stored.
THEOREM HistoryIsAppendOnly == HistorySpec => AppendOnly
<1>1. IInv /\ [HistoryNext]_store => [AppendOnlyStep]_store
  <2> SUFFICES ASSUME IInv, HistoryNext PROVE AppendOnlyStep
    OBVIOUS
  <2>1. PICK k \in CommandIds, r \in RunIds :
          \E run2, evs, receipt : Accepts(k, r, run2, evs, receipt)
    BY StepAccepts
  <2>2. PICK run2, evs, receipt : Accepts(k, r, run2, evs, receipt)
    BY <2>1
  <2>3. StoreTypeOK /\ commands[k] = None
    BY <2>2 DEF IInv, Accepts
  <2>4. \A q \in RunIds : runs[q] # None =>
          runs'[q] # None /\ runs'[q].budget = runs[q].budget
    BY <2>2, <2>3, AcceptsFacts, StoreAssumption DEF StoreTypeOK
  <2>5. \A q \in RunIds : \A i \in DOMAIN events[q] :
          i \in DOMAIN events'[q] /\ events'[q][i] = events[q][i]
    BY <2>2, <2>3, AcceptsFacts, ZenonT(60) DEF StoreTypeOK
  <2>6. \A j \in CommandIds : commands[j] # None => commands'[j] = commands[j]
    BY <2>2, <2>3, AcceptsFacts DEF StoreTypeOK
  <2> QED BY <2>4, <2>5, <2>6 DEF AppendOnlyStep
<1> QED BY <1>1, IInvInit, IInvStep, PTL DEF HistorySpec, AppendOnly
-----------------------------------------------------------------------------
(* Receipts. *)

\* A decision that leaves one event, of one of these types.
Leaves(evs, types) == \E e : evs = <<e>> /\ e.type \in types

\* What an accepted command leaves in the log is an event of its own, and only a
\* repeated charge or a deadline that does not bite leave none.
LEMMA DecideLeaves ==
  ASSUME NEW run, NEW intent \in Intent, NEW now,
         intent.type # "create_run", Decide(intent, run, now).code = "ok"
  PROVE  \/ Leaves(Decide(intent, run, now).events, EventTypesOf(intent.type))
         \/ /\ Decide(intent, run, now).events = <<>>
            /\ intent.type \in {"consume_budget", "enforce_deadline"}
<1> DEFINE d == Decide(intent, run, now)
<1>1. \A target, type, usage, charge, error :
        Leaves(Change(run, target, type, now, usage, charge, error).events, {type})
  BY DEF Leaves, Change, Mutation
<1>2. \A dimension : Leaves(Limit(run, dimension, now).events, {"run.limit_exceeded"})
  BY <1>1 DEF Limit
<1>3. \A evs, A, B : Leaves(evs, A) /\ A \subseteq B => Leaves(evs, B)
  BY DEF Leaves
<1>4. CASE intent.type \in MoveTypes
  <2> DEFINE m == Moves[intent.type]
  <2>1. intent.type \notin {"create_run", "consume_budget", "enforce_deadline"}
    BY <1>4 DEF MoveTypes, Moves
  <2>2. d = Move(intent.type, intent.arg, run, now)
    BY <1>4, <2>1 DEF Decide
  <2>3. d = Change(run, m.target, m.event, now, run.usage, None, ErrorOf(m.target))
    BY <2>2 DEF Move, Rejected
  <2>4. EventTypesOf(intent.type) = {m.event}
    BY <1>4, <2>1 DEF EventTypesOf
  <2>5. Leaves(Change(run, m.target, m.event, now, run.usage, None, ErrorOf(m.target)).events,
               {m.event})
    BY <1>1
  <2> HIDE DEF d, m
  <2>6. Leaves(d.events, EventTypesOf(intent.type))
    BY <2>3, <2>4, <2>5
  <2> QED BY <2>6 DEF d
<1>5. CASE intent.type = "consume_budget"
  <2>1. intent.type \notin MoveTypes
    BY <1>5 DEF MoveTypes, Moves
  <2>2. d = ConsumeBudget(intent.arg, run, now)
    BY <1>5, <2>1 DEF Decide
  <2>3. EventTypesOf(intent.type) = {"run.budget_consumed", "run.limit_exceeded"}
    BY <1>5, <2>1 DEF EventTypesOf
  <2> DEFINE next == Candidate(run.usage, intent.arg)
  <2>4. \/ d = Unchanged(run)
        \/ d = Limit(run, "deadline", now)
        \/ d = Limit(run, FirstExceeded(next, run.budget), now)
        \/ d = Change(run, "running", "run.budget_consumed", now, next, intent.arg, "none")
    BY <2>2 DEF ConsumeBudget, Rejected
  <2>5. Unchanged(run).events = <<>>
    BY DEF Unchanged
  <2> HIDE DEF d, next
  <2>6. d.events = <<>> \/ Leaves(d.events, {"run.limit_exceeded"})
        \/ Leaves(d.events, {"run.budget_consumed"})
    BY <1>1, <1>2, <2>4, <2>5
  <2>7. d.events = <<>> \/ Leaves(d.events, EventTypesOf(intent.type))
    BY <1>3, <2>3, <2>6
  <2> QED BY <1>5, <2>7 DEF d
<1>6. CASE intent.type = "enforce_deadline"
  <2>1. intent.type \notin MoveTypes
    BY <1>6 DEF MoveTypes, Moves
  <2>2. d = EnforceDeadline(run, now)
    BY <1>6, <2>1 DEF Decide
  <2>3. EventTypesOf(intent.type) = {"run.limit_exceeded"}
    BY <1>6, <2>1 DEF EventTypesOf
  <2>4. d = Unchanged(run) \/ d = Limit(run, "deadline", now)
    BY <2>2 DEF EnforceDeadline
  <2>5. Unchanged(run).events = <<>>
    BY DEF Unchanged
  <2> HIDE DEF d
  <2>6. d.events = <<>> \/ Leaves(d.events, EventTypesOf(intent.type))
    BY <1>2, <2>3, <2>4, <2>5
  <2> QED BY <1>6, <2>6 DEF d
<1>7. "fail_run" \in MoveTypes
  BY DEF MoveTypes, Moves
<1> QED BY <1>4, <1>5, <1>6, <1>7 DEF Intent

\* What the receipt of a step that takes run r to run2 says of it.
Explains(r, run2, evs, receipt) ==
  /\ receipt.run_id = r
  /\ receipt.intent.type # "create_run" => receipt.intent.run_id = r
  /\ receipt.resulting_version = run2.version
  /\ receipt.resulting_status = run2.status
  /\ receipt.event_ids = EventIds(evs)
  /\ \/ Leaves(evs, EventTypesOf(receipt.intent.type))
     \/ evs = <<>> /\ receipt.intent.type = "consume_budget"

LEMMA StepExplains ==
  ASSUME IInv, HistoryNext
  PROVE  \E k \in CommandIds, r \in RunIds :
           \E run2, evs, receipt :
             Accepts(k, r, run2, evs, receipt) /\ Explains(r, run2, evs, receipt)
<1> USE DEF IInv
<1>1. PICK command \in Commands, now \in Times :
        (\E r \in RunIds : AcceptCreate(command, r, now)) \/ AcceptChange(command, now)
  BY DEF HistoryNext
<1>2. now \in Nat
  BY TimesAssumption
<1> DEFINE k == command.command_id
           intent == command.intent
<1>3. k \in CommandIds /\ intent \in Intent
  BY CommandFacts
<1>4. ASSUME NEW r \in RunIds, AcceptCreate(command, r, now)
      PROVE  \E run2, evs, receipt :
               Accepts(k, r, run2, evs, receipt) /\ Explains(r, run2, evs, receipt)
  <2> DEFINE d == Create(intent.arg, now)
             receipt == ReceiptOf(intent, r, d)
  <2>1. intent.arg \in Budget /\ d.code = "ok"
    BY <1>4, CommandFacts DEF AcceptCreate
  <2>2. d.run \in Run /\ d.events \in Seq(Event) /\ LogOK(d.run, d.events)
    BY <1>2, <2>1, CreateStarts
  <2>3. receipt \in Receipt
    BY <1>3, <2>2, ReceiptType
  <2>4. /\ commands[k] = None /\ runs[r] = None /\ intent.type = "create_run"
        /\ Record(k, r, d, receipt)
    BY <1>4 DEF AcceptCreate
  <2>5. Leaves(d.events, {"run.created"})
    BY <2>1 DEF Create, Mutation, Rejected, Leaves
  <2>6. EventTypesOf("create_run") = {"run.created"}
    BY DEF EventTypesOf, MoveTypes, Moves
  <2>7. /\ receipt.run_id = r /\ receipt.intent = intent
        /\ receipt.resulting_version = d.run.version
        /\ receipt.resulting_status = d.run.status
        /\ receipt.event_ids = EventIds(d.events)
    BY DEF ReceiptOf
  <2> HIDE DEF d, k, intent, receipt
  <2>8. Accepts(k, r, d.run, d.events, receipt)
    BY <2>2, <2>3, <2>4 DEF Accepts, Record
  <2>9. Explains(r, d.run, d.events, receipt)
    BY <2>4, <2>5, <2>6, <2>7 DEF Explains
  <2> QED BY <2>8, <2>9
<1>5. ASSUME AcceptChange(command, now)
      PROVE  \E r \in RunIds : \E run2, evs, receipt :
               Accepts(k, r, run2, evs, receipt) /\ Explains(r, run2, evs, receipt)
  <2> DEFINE r == intent.run_id
             d == Decide(intent, runs[r], now)
             receipt == ReceiptOf(intent, r, d)
  <2>1. /\ intent.type # "create_run" /\ commands[k] = None /\ runs[r] # None
        /\ d.code = "ok" /\ Record(k, r, d, receipt)
        /\ intent.type = "enforce_deadline" => d.events # <<>>
    BY <1>5 DEF AcceptChange
  <2>2. r \in RunIds
    BY <2>1, CommandFacts
  <2>3. runs[r] \in Run /\ events[r] \in Seq(Event) /\ LogOK(runs[r], events[r])
    BY <2>1, <2>2
    DEF StoreTypeOK, LogOK, HistoryMatchesRun, TimeMovesForward, BudgetIsSpentOnce
  <2>4. Extends(runs[r], d.run, d.events)
    BY <1>2, <1>3, <2>1, <2>3, DecideExtends
  <2>5. d.run \in Run /\ d.events \in Seq(Event)
    <3> HIDE DEF d
    <3>1. d.run \in Run
      BY <2>4 DEF Extends
    <3>2. d.events \in Seq(Event)
      BY <2>3, <2>4, ExtendsKeepsLogOK
    <3> QED BY <3>1, <3>2
  <2>6. receipt \in Receipt
    BY <1>3, <2>2, <2>5, ReceiptType
  <2>7. \/ Leaves(d.events, EventTypesOf(intent.type))
        \/ d.events = <<>> /\ intent.type \in {"consume_budget", "enforce_deadline"}
    BY <1>3, <2>1, DecideLeaves
  <2>8. /\ receipt.run_id = r /\ receipt.intent = intent
        /\ receipt.resulting_version = d.run.version
        /\ receipt.resulting_status = d.run.status
        /\ receipt.event_ids = EventIds(d.events)
    BY DEF ReceiptOf
  <2>9. intent.run_id = r
    OBVIOUS
  <2> HIDE DEF d, k, intent, r, receipt
  <2>10. Accepts(k, r, d.run, d.events, receipt)
    BY <2>1, <2>4, <2>5, <2>6 DEF Accepts, Record
  <2>11. Explains(r, d.run, d.events, receipt)
    BY <2>1, <2>7, <2>8, <2>9 DEF Explains
  <2> QED BY <2>2, <2>10, <2>11
<1> QED BY <1>1, <1>3, <1>4, <1>5

\* The two halves of ReceiptsExplainHistory: what a receipt says of a log, and
\* who claims the event i of run r.
Fits(receipt, log) ==
  /\ receipt.intent.type # "create_run" => receipt.run_id = receipt.intent.run_id
  /\ receipt.resulting_version \in DOMAIN log
  /\ log[receipt.resulting_version].status = receipt.resulting_status
  /\ \A s \in receipt.event_ids :
       /\ s = receipt.resulting_version
       /\ log[s].type \in EventTypesOf(receipt.intent.type)
  /\ receipt.intent.type # "consume_budget" => receipt.event_ids # {}

Claims(receipt, r, i) == receipt # None /\ receipt.run_id = r /\ i \in receipt.event_ids

LEMMA ReceiptsInTwoHalves ==
  ReceiptsExplainHistory <=>
    /\ \A k \in CommandIds : commands[k] # None =>
         Fits(commands[k], events[commands[k].run_id])
    /\ \A r \in RunIds : \A i \in DOMAIN events[r] :
         \E k \in CommandIds : \A j \in CommandIds : Claims(commands[j], r, i) <=> j = k
BY DEF ReceiptsExplainHistory, Fits, Claims

\* A log that grows still fits the receipts it fitted.
LEMMA FitsSurvives ==
  ASSUME NEW receipt, NEW log, NEW log2, Fits(receipt, log),
         \A i \in DOMAIN log : i \in DOMAIN log2 /\ log2[i] = log[i]
  PROVE  Fits(receipt, log2)
BY DEF Fits

\* The receipt of a step fits the log it leaves, and claims its new event alone.
LEMMA NewReceiptFits ==
  ASSUME IInv, NEW k \in CommandIds, NEW r \in RunIds, NEW run2, NEW evs, NEW receipt,
         Accepts(k, r, run2, evs, receipt), Explains(r, run2, evs, receipt)
  PROVE  /\ Fits(receipt, events[r] \o evs)
         /\ \A i : i \in receipt.event_ids
                     <=> i \in DOMAIN (events[r] \o evs) /\ i \notin DOMAIN events[r]
<1> DEFINE log  == events[r]
           log2 == log \o evs
<1>1. /\ log \in Seq(Event) /\ log2 \in Seq(Event) /\ LogOK(run2, log2)
      /\ run2 \in Run /\ evs \in Seq(Event)
  BY AcceptsFacts DEF Accepts
<1>2. /\ Len(log2) = run2.version /\ run2.version \in DOMAIN log2
      /\ log2[run2.version].status = run2.status
      /\ \A i \in DOMAIN log2 : log2[i].sequence = i
  <2> HIDE DEF log2
  <2>1. DOMAIN log2 = 1..Len(log2) /\ Len(log2) = run2.version /\ run2.version \in Nat \ {0}
    BY <1>1, LenProperties DEF LogOK, LogMatches, Run
  <2> QED BY <1>1, <2>1 DEF LogOK, LogMatches
<1>3. CASE evs = <<>> /\ receipt.intent.type = "consume_budget"
  <2>1. log2 = log
    BY <1>1, <1>3, ConcatEmptySeq
  <2>2. receipt.event_ids = {}
    BY <1>3 DEF Explains, EventIds
  <2> HIDE DEF log, log2
  <2>3. Fits(receipt, log2)
    BY <1>2, <1>3, <2>2 DEF Fits, Explains
  <2> QED BY <2>1, <2>2, <2>3 DEF log, log2
<1>4. CASE Leaves(evs, EventTypesOf(receipt.intent.type))
  <2>1. PICK e : evs = <<e>> /\ e.type \in EventTypesOf(receipt.intent.type)
    BY <1>4 DEF Leaves
  <2>2. e \in Event
    <3>1. evs[1] \in Event
      BY <1>1, <2>1, ElementOfSeq
    <3> QED BY <2>1, <3>1
  <2> DEFINE n == Len(log)
  <2>3. /\ n \in Nat /\ Len(log2) = n + 1
        /\ DOMAIN log = 1..n /\ DOMAIN log2 = 1..(n+1)
        /\ log2[n+1] = e
    BY <1>1, <2>1, <2>2, AppendFacts
  <2>4. receipt.event_ids = {e.sequence}
    <3>1. EventIds(<<e>>) = {e.sequence}
      BY DEF EventIds
    <3> QED BY <2>1, <3>1 DEF Explains
  <2> HIDE DEF log, log2, n
  <2>5. run2.version = n + 1 /\ e.sequence = n + 1
    BY <1>2, <2>3
  <2>6. Fits(receipt, log2)
    BY <1>2, <2>1, <2>3, <2>4, <2>5 DEF Fits, Explains
  <2>7. \A i : i \in {n+1} <=> i \in 1..(n+1) /\ i \notin 1..n
    BY <2>3
  <2> QED BY <2>3, <2>4, <2>5, <2>6, <2>7 DEF log, log2
<1> QED BY <1>3, <1>4 DEF Explains

\* IInv with ReceiptsExplainHistory is inductive: a step adds one receipt, and an
\* event no earlier receipt can name, because theirs were in the log already.
LEMMA ReceiptsStep ==
  IInv /\ ReceiptsExplainHistory /\ [HistoryNext]_store => ReceiptsExplainHistory'
<1> SUFFICES ASSUME IInv, ReceiptsExplainHistory, [HistoryNext]_store
             PROVE  ReceiptsExplainHistory'
  OBVIOUS
<1>1. CASE UNCHANGED store
  BY <1>1 DEF store, ReceiptsExplainHistory
<1>2. CASE HistoryNext
  <2>1. PICK k \in CommandIds, r \in RunIds :
          \E run2, evs, receipt :
            Accepts(k, r, run2, evs, receipt) /\ Explains(r, run2, evs, receipt)
    BY <1>2, StepExplains
  <2>2. PICK run2, evs, receipt :
          Accepts(k, r, run2, evs, receipt) /\ Explains(r, run2, evs, receipt)
    BY <2>1
  <2> DEFINE log2 == events[r] \o evs
  <2>3. /\ events' = [events EXCEPT ![r] = log2]
        /\ commands' = [commands EXCEPT ![k] = receipt]
        /\ receipt \in Receipt
        /\ \A i \in DOMAIN events[r] : i \in DOMAIN log2 /\ log2[i] = events[r][i]
    BY <2>2, AcceptsFacts
  <2>4. commands[k] = None
    BY <2>2 DEF Accepts
  <2>5. /\ Fits(receipt, log2)
        /\ \A i : i \in receipt.event_ids <=> i \in DOMAIN log2 /\ i \notin DOMAIN events[r]
    BY <2>2, NewReceiptFits
  <2>6. receipt.run_id = r /\ receipt # None
    BY <2>2, <2>3, StoreAssumption DEF Explains
  <2> HIDE DEF log2
  <2>7. /\ events'[r] = log2 /\ \A q \in RunIds \ {r} : events'[q] = events[q]
        /\ commands'[k] = receipt
        /\ \A j \in CommandIds \ {k} : commands'[j] = commands[j]
    BY <2>3 DEF IInv, StoreTypeOK
  <2>8. /\ \A j \in CommandIds : commands[j] # None =>
             Fits(commands[j], events[commands[j].run_id])
        /\ \A q \in RunIds : \A i \in DOMAIN events[q] :
             \E j0 \in CommandIds : \A j \in CommandIds : Claims(commands[j], q, i) <=> j = j0
    BY ReceiptsInTwoHalves
  <2>9. \A j \in CommandIds : commands[j] # None => commands[j].run_id \in RunIds
    BY DEF IInv, StoreTypeOK, Receipt
  <2>10. ASSUME NEW j \in CommandIds, commands'[j] # None
         PROVE  Fits(commands'[j], events'[commands'[j].run_id])
    <3>1. CASE j = k
      BY <2>5, <2>6, <2>7, <3>1
    <3>2. CASE j # k
      <4>1. commands'[j] = commands[j]
        BY <2>7, <3>2
      <4>2. Fits(commands[j], events[commands[j].run_id]) /\ commands[j].run_id \in RunIds
        BY <2>8, <2>9, <2>10, <4>1
      <4>3. CASE commands[j].run_id = r
        BY <2>3, <2>7, <4>1, <4>2, <4>3, FitsSurvives
      <4>4. CASE commands[j].run_id # r
        BY <2>7, <4>1, <4>2, <4>4
      <4> QED BY <4>3, <4>4
    <3> QED BY <3>1, <3>2
  <2>11. ASSUME NEW q \in RunIds, NEW i \in DOMAIN events'[q]
         PROVE  \E j0 \in CommandIds : \A j \in CommandIds : Claims(commands'[j], q, i) <=> j = j0
    <3>1. ~Claims(commands[k], q, i)
      BY <2>4 DEF Claims
    <3>2. CASE i \in DOMAIN events[q]
      <4>1. ~Claims(receipt, q, i)
        BY <2>5, <2>6, <3>2 DEF Claims
      <4>2. \A j \in CommandIds : Claims(commands'[j], q, i) <=> Claims(commands[j], q, i)
        BY <2>7, <3>1, <4>1
      <4> QED BY <2>8, <3>2, <4>2
    <3>3. CASE i \notin DOMAIN events[q]
      <4>1. q = r /\ i \in DOMAIN log2
        BY <2>7, <2>11, <3>3
      <4>2. Claims(commands'[k], q, i)
        BY <2>5, <2>6, <2>7, <3>3, <4>1 DEF Claims
      <4>3. ASSUME NEW j \in CommandIds, j # k
            PROVE  ~Claims(commands'[j], q, i)
        <5>1. SUFFICES ASSUME Claims(commands[j], q, i) PROVE FALSE
          BY <2>7, <4>3
        <5>2. commands[j] # None /\ commands[j].run_id = q /\ i \in commands[j].event_ids
          BY <5>1 DEF Claims
        <5>3. Fits(commands[j], events[q])
          BY <2>8, <5>2
        <5>4. i \in DOMAIN events[q]
          BY <5>2, <5>3 DEF Fits
        <5> QED BY <3>3, <5>4
      <4> QED BY <4>2, <4>3
    <3> QED BY <3>2, <3>3
  <2> QED BY <2>10, <2>11, ReceiptsInTwoHalves DEF ReceiptsExplainHistory, Fits, Claims
<1> QED BY <1>1, <1>2

LEMMA ReceiptsInit == HistoryInit => ReceiptsExplainHistory
BY DEF HistoryInit, EmptyStore, ReceiptsExplainHistory

\* Receipts and events pair up, in every state: no command is applied twice, and
\* no accepted work is lost.
THEOREM ReceiptsAccountForEvents == HistorySpec => []ReceiptsExplainHistory
BY IInvInit, IInvStep, ReceiptsInit, ReceiptsStep, PTL DEF HistorySpec
=============================================================================
