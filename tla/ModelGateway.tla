---------------------------- MODULE ModelGateway ----------------------------
(***************************************************************************)
(* DefaultModelGateway.complete: calls that share the breakers of their    *)
(* targets, each with its route, its retries and its total deadline.       *)
(*                                                                         *)
(* Calls are tasks of one event loop.  The task that runs keeps the loop   *)
(* until it really waits: for a token of the rate limiter, a credential,   *)
(* the provider, or the end of a back-off.  running is that task; nothing  *)
(* else moves and no time passes meanwhile.  Timers are kept as what is    *)
(* left of them, and fire before the clock goes on.                        *)
(*                                                                         *)
(* The rate limiter is TokenBucket; here a wait for it ends at any time.   *)
(* Requests, messages and texts are not modelled.                          *)
(***************************************************************************)
EXTENDS CircuitBreaker, Sequences, FiniteSets

CONSTANTS
  Callers,        \* tasks that call the gateway
  Targets,        \* (provider, model) keys
  Routes,         \* the routes in use: sequences of targets
  Limited,        \* targets with a rate limit
  Secret,         \* targets with a credential
  MaxRetries,     \* max_retries of every target
  TotalTimeout,   \* total_timeout_seconds
  AttemptTimeout, \* attempt_timeout_seconds
  Delays,         \* what a back-off may sleep
  ProviderCodes,  \* the codes errors from outside have; a TimeoutError is "timeout"
  None            \* a model value

Suspended == {"rate", "resolve", "provider", "backoff"}
Timed == Suspended \cup {"chunk"}  \* a stream waits for its provider
Codes == Transient \cup {"circuit_open", "authentication", "malformed_response",
                         "structured_output_invalid", "capability_mismatch",
                         "unknown", "cancelled"}

ASSUME GatewayAssumption ==
  /\ MaxRetries \in Nat
  /\ TotalTimeout \in Nat \ {0} /\ AttemptTimeout \in Nat \ {0}
  /\ Delays # {} /\ Delays \subseteq Nat
  /\ ProviderCodes \subseteq Codes \ {"circuit_open", "cancelled"}
  /\ Limited \subseteq Targets /\ Secret \subseteq Targets
  /\ Routes \subseteq Seq(Targets)
  /\ \A route \in Routes :
       /\ Len(route) > 0
       /\ \A i, j \in 1 .. Len(route) : route[i] = route[j] => i = j

\* What a call of something external ends with when it raises: whatever is neither a
\* ModelError nor a TimeoutError is unknown.
Raised == ProviderCodes \cup {"unknown"}

\* Errors a gateway goes on after, with another target or not.  ModelError lets a
\* single error override both sets; no adapter does, and the model leaves it out.
Retryable == Transient
FallbackCodes == Retryable \cup {"circuit_open"}

\* What AttemptRecord admits.
Attempts ==
  {x \in [target : Targets, outcome : {"succeeded", "failed", "cancelled"},
          code : Codes \cup {None}, fallback : FallbackCodes \cup {None}] :
     /\ x.outcome = "succeeded" <=> x.code = None
     /\ x.outcome = "cancelled" => x.code = "cancelled"}

\* What calls return or raise; the response of a stream has a text (ModelStream).
Replies ==
  LET kinds == {"response", "raised", "cancelled"}
  IN [kind : kinds, code : Codes \cup {None}, tried : Seq(Attempts)]
       \cup
     [kind : kinds, code : Codes \cup {None}, tried : Seq(Attempts), text : Nat]

ASSUME NoneAssumption == None \notin Callers \cup Targets \cup Codes \cup Replies

VARIABLES
  breakers,   \* breakers[t]: the circuit of a target
  call,       \* call[c]: what a task is doing
  running,    \* the task that has the event loop, or None
  invoked     \* the targets whose providers were called so far

gatewayVars == <<breakers, call, running, invoked>>

\* An answer: the response of the last attempt, or the error raised, with the
\* attempts of the call.
Reply(kind, code, tried) == [kind |-> kind, code |-> code, tried |-> tried]

AtRest == [pc |-> "idle", route |-> <<>>, target |-> 1, retry |-> 0, left |-> 0,
           due |-> 0, wake |-> 0, admitted |-> FALSE, probing |-> FALSE, code |-> None,
           fallback |-> None, tried |-> <<>>, reply |-> None]

TargetOf(c) == call[c].route[call[c].target]

\* _remaining raises.
DeadlinePassed(c) == call[c].left <= 0

Lesser(a, b) == IF a < b THEN a ELSE b

\* The task goes on to pc without waiting.
Continue(c, pc) ==
  /\ call' = [call EXCEPT ![c].pc = pc]
  /\ running' = c

\* The task waits, at most until due.
Wait(c, pc, due) ==
  /\ call' = [call EXCEPT ![c].pc = pc, ![c].due = due]
  /\ running' = None

\* The attempt has failed with an error code.
Break(c, code) ==
  /\ call' = [call EXCEPT ![c].pc = "failed", ![c].code = code]
  /\ running' = c

\* The call ends.
End(c, reply) ==
  /\ call' = [call EXCEPT ![c] = [AtRest EXCEPT !.reply = reply]]
  /\ running' = None

\* _attempt: the record of the attempt that has ended.
Attempt(c, outcome, code) ==
  [target |-> TargetOf(c), outcome |-> outcome, code |-> code, fallback |-> call[c].fallback]

Tried(c, outcome, code) == Append(call[c].tried, Attempt(c, outcome, code))

\* complete is called.  _preflight_route may find that some target does not do
\* what the request needs; nothing has happened then.
Begin(c) ==
  /\ running = None /\ call[c].pc = "idle"
  /\ \/ \E route \in Routes :
          /\ call' = [call EXCEPT ![c] = [AtRest EXCEPT !.pc = "attempt", !.route = route,
                                                        !.left = TotalTimeout]]
          /\ running' = c
     \/ End(c, Reply("raised", "capability_mismatch", <<>>))
  /\ UNCHANGED <<breakers, invoked>>
-----------------------------------------------------------------------------
(***************************************************************************)
(* One attempt: _admit, _credential, the provider.                         *)
(***************************************************************************)
\* The rate limiter, if there is one, grants a token at once or makes wait.
Admission(c) ==
  /\ running = c /\ call[c].pc = "attempt"
  /\ IF TargetOf(c) \notin Limited
     THEN Continue(c, "admit")
     ELSE IF DeadlinePassed(c)
     THEN Break(c, "timeout")
     ELSE Continue(c, "admit") \/ Wait(c, "rate", call[c].left)
  /\ UNCHANGED <<breakers, invoked>>

TokenGranted(c) ==
  /\ running = None /\ call[c].pc = "rate"
  /\ Continue(c, "admit")
  /\ UNCHANGED <<breakers, invoked>>

\* before_call.  probing is history: the call was let through as a probe.
AskBreaker(c) ==
  LET t == TargetOf(c)
  IN /\ running = c /\ call[c].pc = "admit"
     /\ IF Rejects(breakers[t])
        THEN Break(c, "circuit_open") /\ UNCHANGED breakers
        ELSE /\ breakers' = [breakers EXCEPT ![t] = Admitted(@)]
             /\ call' = [call EXCEPT ![c].admitted = TRUE,
                                     ![c].probing = Admitted(breakers[t]).probe,
                                     ![c].pc = IF t \in Secret THEN "credential" ELSE "call"]
             /\ UNCHANGED running
     /\ UNCHANGED invoked

\* _credential of a target that needs one.
AskSecret(c) ==
  /\ running = c /\ call[c].pc = "credential"
  /\ IF DeadlinePassed(c) THEN Break(c, "timeout") ELSE Wait(c, "resolve", call[c].left)
  /\ UNCHANGED <<breakers, invoked>>

SecretResolved(c) ==
  /\ running = None /\ call[c].pc = "resolve"
  /\ \/ Continue(c, "call")
     \/ \E code \in Raised \cup {"authentication"} : Break(c, code)
  /\ UNCHANGED <<breakers, invoked>>

\* MUTANT of CallProvider: the total deadline does not bound the attempt.
AttemptTimeoutOnly(c) ==
  /\ running = c /\ call[c].pc = "call"
  /\ Wait(c, "provider", AttemptTimeout)
  /\ invoked' = invoked \cup {TargetOf(c)}
  /\ UNCHANGED breakers

\* The provider is called, for min(attempt timeout, what remains).
CallProvider(c) ==
  /\ running = c /\ call[c].pc = "call"
  /\ IF DeadlinePassed(c)
     THEN Break(c, "timeout") /\ UNCHANGED invoked
     ELSE /\ Wait(c, "provider", Lesser(AttemptTimeout, call[c].left))
          /\ invoked' = invoked \cup {TargetOf(c)}
  /\ UNCHANGED breakers

\* The provider answers and _response accepts the answer.
Respond(c) ==
  /\ running = None /\ call[c].pc = "provider"
  /\ End(c, Reply("response", None, Tried(c, "succeeded", None)))
  /\ breakers' = [breakers EXCEPT ![TargetOf(c)] = RecordSuccess(@)]
  /\ UNCHANGED invoked

\* It raises, or its answer is refused.
ProviderFails(c) ==
  /\ running = None /\ call[c].pc = "provider"
  /\ \E code \in Raised : Break(c, code)
  /\ UNCHANGED <<breakers, invoked>>

\* asyncio.timeout around a wait that is part of an attempt.
TimesOut(c) ==
  /\ running = None /\ call[c].pc \in Suspended \ {"backoff"}
  /\ call[c].due <= 0
  /\ Break(c, "timeout")
  /\ UNCHANGED <<breakers, invoked>>
-----------------------------------------------------------------------------
(***************************************************************************)
(* After an attempt: retry, fall back, give up.                            *)
(***************************************************************************)
Raise(c, code, tried) == End(c, Reply("raised", code, tried))

\* _backoff sleeps, but not beyond the deadline.
BackOff(c, tried) ==
  IF DeadlinePassed(c)
  THEN Raise(c, "timeout", tried)
  ELSE \E delay \in Delays :
         /\ call' = [call EXCEPT ![c] = [@ EXCEPT !.pc = "backoff", !.admitted = FALSE,
                                                  !.probing = FALSE, !.code = None, !.tried = tried,
                                                  !.wake = delay,
                                                  !.due = Lesser(delay, call[c].left)]]
         /\ running' = None

\* MUTANT of FallBack: the next attempt starts as admitted.
AdmittedIsKept(c, code, tried) ==
  IF code \in FallbackCodes /\ call[c].target < Len(call[c].route)
  THEN /\ call' = [call EXCEPT ![c].pc = "attempt", ![c].target = @ + 1, ![c].retry = 0,
                               ![c].fallback = code, ![c].code = None, ![c].tried = tried]
       /\ UNCHANGED running
  ELSE Raise(c, code, tried)

\* The next target is tried, if the error allows it and there is one.
FallBack(c, code, tried) ==
  IF code \in FallbackCodes /\ call[c].target < Len(call[c].route)
  THEN /\ call' = [call EXCEPT ![c].pc = "attempt", ![c].target = @ + 1, ![c].retry = 0,
                               ![c].admitted = FALSE, ![c].probing = FALSE,
                               ![c].fallback = code, ![c].code = None, ![c].tried = tried]
       /\ UNCHANGED running
  ELSE Raise(c, code, tried)

\* MUTANT of FailAttempt: one retry too many.
OneRetryTooMany(c) ==
  LET code == call[c].code
      tried == Tried(c, "failed", code)
  IN /\ running = c /\ call[c].pc = "failed"
     /\ breakers' = IF call[c].admitted
                    THEN [breakers EXCEPT ![TargetOf(c)] = RecordFailure(@, code)] ELSE breakers
     /\ IF code \in Retryable /\ call[c].retry <= MaxRetries
        THEN BackOff(c, tried) ELSE FallBack(c, code, tried)
     /\ UNCHANGED invoked

\* record_failure for an attempt that was admitted, its record, and what next.
FailAttempt(c) ==
  LET code == call[c].code
      tried == Tried(c, "failed", code)
  IN /\ running = c /\ call[c].pc = "failed"
     /\ breakers' = IF call[c].admitted
                    THEN [breakers EXCEPT ![TargetOf(c)] = RecordFailure(@, code)]
                    ELSE breakers
     /\ IF code \in Retryable /\ call[c].retry < MaxRetries
        THEN BackOff(c, tried)
        ELSE FallBack(c, code, tried)
     /\ UNCHANGED invoked

\* The sleep is over, or the deadline is; at one moment either may come first.
WakeUp(c) ==
  /\ running = None /\ call[c].pc = "backoff"
  /\ call[c].due <= 0
  /\ \/ /\ call[c].wake <= 0
        /\ call' = [call EXCEPT ![c].pc = "attempt", ![c].retry = @ + 1]
        /\ running' = c
     \/ /\ DeadlinePassed(c)
        /\ Raise(c, "timeout", call[c].tried)
  /\ UNCHANGED <<breakers, invoked>>

\* The caller cancels the task where it waits.  A back-off is no attempt.
Cancel(c) ==
  LET t == TargetOf(c)
  IN /\ running = None /\ call[c].pc \in Suspended
     /\ IF call[c].pc = "backoff"
        THEN End(c, Reply("cancelled", "cancelled", call[c].tried))
        ELSE End(c, Reply("cancelled", "cancelled", Tried(c, "cancelled", "cancelled")))
     /\ breakers' = IF call[c].admitted
                    THEN [breakers EXCEPT ![t] = RecordCancelled(@)]
                    ELSE breakers
     /\ UNCHANGED invoked
-----------------------------------------------------------------------------
Less(timer) == IF timer > -1 THEN timer - 1 ELSE -1

\* A tick: no timer is due.  -1 stands for any time after.
Aged(x) == IF x.pc = "idle" THEN x
           ELSE [x EXCEPT !.left = Less(@), !.due = Less(@), !.wake = Less(@)]

NothingIsDue == \A c \in Callers : call[c].pc \in Timed => call[c].due > 0

Tick ==
  /\ running = None
  /\ NothingIsDue
  /\ call' = [c \in Callers |-> Aged(call[c])]
  /\ breakers' = [t \in Targets |-> Cooled(breakers[t])]
  /\ UNCHANGED <<running, invoked>>

GatewayInit ==
  /\ breakers = [t \in Targets |-> Closed]
  /\ call = [c \in Callers |-> AtRest]
  /\ running = None
  /\ invoked = {}

\* What needs no answer from outside.
Proceed(c) ==
  \/ Admission(c) \/ AskBreaker(c) \/ AskSecret(c) \/ CallProvider(c) \/ FailAttempt(c)
Fires(c) == TimesOut(c) \/ WakeUp(c)

Arrives(c) ==
  \/ TokenGranted(c) \/ SecretResolved(c) \/ Respond(c) \/ ProviderFails(c)

GatewayNext ==
  \/ \E c \in Callers : Begin(c) \/ Proceed(c) \/ Arrives(c) \/ Fires(c) \/ Cancel(c)
  \/ Tick

GatewaySpec == GatewayInit /\ [][GatewayNext]_gatewayVars

\* The loop runs what is ready and time goes on; providers need not answer.
GatewayFairness ==
  /\ \A c \in Callers : SF_gatewayVars(Proceed(c) \/ Fires(c))
  /\ SF_gatewayVars(Tick)

FairGatewaySpec == GatewaySpec /\ GatewayFairness
-----------------------------------------------------------------------------
(***************************************************************************)
(* Properties.                                                             *)
(***************************************************************************)
\* The state of a call fits where it waits: whoever waits for an answer of its
\* target was admitted by its breaker, and nobody waits without a timer.
GatewayTypeOK ==
  /\ breakers \in [Targets -> Breaker]
  /\ invoked \subseteq Targets
  /\ running \in Callers \cup {None}
  /\ \A c \in Callers :
       LET x == call[c]
       IN /\ x.pc \in Suspended \cup {"idle", "attempt", "admit", "credential", "call", "failed"}
          /\ x.pc # "idle" => x.route \in Routes /\ x.target \in 1 .. Len(x.route)
          /\ x.retry \in 0 .. MaxRetries
          /\ \A i \in DOMAIN x.tried : x.tried[i] \in Attempts
          /\ (running = c) <=> (x.pc \notin Suspended \cup {"idle"})
          /\ x.pc \in {"credential", "call", "resolve", "provider"} => x.admitted
          /\ x.pc \in {"attempt", "rate", "admit", "backoff"} => ~x.admitted
          /\ x.probing => x.admitted
          /\ x.pc \in Suspended => x.due >= 0

\* No call outlives its total deadline, whatever its limiter, its secrets, its
\* providers and its back-offs do (FR-009, "the deadline is a hard limit").
ReturnsByDeadline == \A c \in Callers : call[c].pc # "idle" => call[c].left >= 0

\* The slot of a probe belongs to a call that is still under way: a slot that
\* nobody frees any more would keep the target out of use for ever
\* (record_cancelled, the except clauses of complete).
ProbeSlotIsOwned ==
  \A t \in Targets : breakers[t].probe =>
    /\ breakers[t].state = "half_open"
    /\ \E c \in Callers : call[c].admitted /\ TargetOf(c) = t

\* The attempts of a call, also of one that has ended, tell how the route was
\* walked: a target is tried again after an error worth a retry and not more than
\* MaxRetries times, left for the next one in order after an error that allows it,
\* and nothing comes after a success, a cancellation or any other error.
TriesOf(tried, t) == {i \in DOMAIN tried : tried[i].target = t}
WellTried(tried) ==
  /\ \A i \in 1 .. Len(tried) - 1 :
       LET this == tried[i]
           next == tried[i + 1]
       IN /\ this.outcome = "failed"
          /\ IF next.target = this.target
             THEN this.code \in Retryable /\ next.fallback = this.fallback
             ELSE /\ this.code \in FallbackCodes /\ next.fallback = this.code
                  /\ \E route \in Routes : \E j \in 1 .. Len(route) - 1 :
                       route[j] = this.target /\ route[j + 1] = next.target
                  /\ this.code \in Retryable =>
                       Cardinality(TriesOf(tried, this.target)) = MaxRetries + 1
  /\ \A t \in Targets : Cardinality(TriesOf(tried, t)) <= MaxRetries + 1
AttemptsFollowTheRoute ==
  \A c \in Callers :
    /\ WellTried(call[c].tried)
    /\ call[c].reply # None =>
         LET reply == call[c].reply
         IN /\ WellTried(reply.tried)
            /\ reply.kind = "response" => reply.tried[Len(reply.tried)].outcome = "succeeded"
            /\ reply.kind = "raised" => \A i \in DOMAIN reply.tried :
                                         reply.tried[i].outcome = "failed"

\* No circuit stays closed to its target for ever: an open one cools down, and the
\* probe of a half-open one ends, in whatever way.
CircuitsReadmit == \A t \in Targets : []<>~Rejects(breakers[t])

\* "HALF_OPEN: only one probe is allowed" (specs/003 data-model, test_circuit_breaker).
Probes(t) == {c \in Callers : call[c].probing /\ TargetOf(c) = t}
OneProbeAtATime == \A t \in Targets : Cardinality(Probes(t)) <= 1
=============================================================================
