-------------------------- MODULE ModelGatewayProofs --------------------------
(***************************************************************************)
(* What complete promises of its calls, for any number of them, any        *)
(* targets and routes and any timeouts.                                    *)
(*                                                                         *)
(* Four things are inductive together (GatewayInv): the shape of a call at *)
(* each of its phases, the walk its attempts describe, the order of its    *)
(* timers, and the owner of a probe slot.  The first lemmas and GatewayInv *)
(* do not mention the provider's answer: ModelStreamProofs uses them for   *)
(* stream, whose further phases are among Phases for this reason.          *)
(***************************************************************************)
EXTENDS ModelGateway, FiniteSetTheorems, TLAPS

(***************************************************************************)
(* Walks along a route.                                                    *)
(***************************************************************************)
\* tried are the failed attempts of a call that stands at the k-th target of its
\* route, has tried it n times, and came there for the error in fallback.
Walk(route, k, n, fallback, tried) ==
  /\ WellTried(tried)
  /\ \A i \in 1 .. Len(tried) : tried[i].outcome = "failed"
  /\ Cardinality(TriesOf(tried, route[k])) = n
  /\ \A j \in k + 1 .. Len(route) : TriesOf(tried, route[j]) = {}
  /\ tried = <<>> => k = 1 /\ n = 0
  /\ tried # <<>> =>
       LET last == tried[Len(tried)]
       IN \/ /\ n > 0 /\ last.target = route[k]
             /\ last.fallback = fallback /\ last.code \in Retryable
          \/ /\ n = 0 /\ k > 1 /\ last.target = route[k - 1]
             /\ last.code = fallback /\ last.code \in FallbackCodes
             /\ last.code \in Retryable =>
                  Cardinality(TriesOf(tried, last.target)) = MaxRetries + 1

\* The attempts at a target are finitely many.
LEMMA TriesFinite ==
  ASSUME NEW tried \in Seq(Attempts), NEW t
  PROVE  /\ IsFiniteSet(TriesOf(tried, t)) /\ Cardinality(TriesOf(tried, t)) \in Nat
         /\ TriesOf(tried, t) \subseteq 1 .. Len(tried)
<1>1. Len(tried) \in Nat /\ TriesOf(tried, t) \in SUBSET (1 .. Len(tried))
  BY DEF TriesOf
<1>2. IsFiniteSet(1 .. Len(tried))
  BY <1>1, FS_Interval
<1> QED BY <1>1, <1>2, FS_Subset, FS_CardinalityType

\* One more attempt counts for its target and for no other.
LEMMA TriesAppend ==
  ASSUME NEW tried \in Seq(Attempts), NEW a \in Attempts, NEW t
  PROVE  /\ a.target = t => Cardinality(TriesOf(Append(tried, a), t))
                              = Cardinality(TriesOf(tried, t)) + 1
         /\ a.target # t => TriesOf(Append(tried, a), t) = TriesOf(tried, t)
<1> DEFINE more == Append(tried, a)
<1>1. /\ Len(tried) \in Nat /\ more \in Seq(Attempts) /\ Len(more) = Len(tried) + 1
      /\ \A i \in 1 .. Len(tried) : more[i] = tried[i]
      /\ more[Len(more)] = a
  OBVIOUS
<1> HIDE DEF more
<1>2. DOMAIN more = 1 .. Len(tried) + 1 /\ DOMAIN tried = 1 .. Len(tried)
  BY <1>1
<1>3. CASE a.target = t
  <2>1. TriesOf(more, t) = TriesOf(tried, t) \cup {Len(tried) + 1}
    BY <1>1, <1>2, <1>3 DEF TriesOf
  <2>2. Len(tried) + 1 \notin TriesOf(tried, t)
    BY <1>1, <1>2 DEF TriesOf
  <2>3. Cardinality(TriesOf(more, t)) = Cardinality(TriesOf(tried, t)) + 1
    BY <2>1, <2>2, TriesFinite, FS_AddElement
  <2> QED BY <1>3, <2>3 DEF more
<1>4. CASE a.target # t
  <2>1. TriesOf(more, t) = TriesOf(tried, t)
    BY <1>1, <1>2, <1>4 DEF TriesOf
  <2> QED BY <1>4, <2>1 DEF more
<1> QED BY <1>3, <1>4

\* No attempt at all is a walk, whether or not there is a route.
LEMMA NothingTried == WellTried(<<>>)
<1>1. \A t : TriesOf(<<>>, t) = {}
  BY DEF TriesOf
<1>2. Cardinality({}) = 0
  BY FS_EmptySet
<1>3. Len(<<>>) = 0 /\ MaxRetries \in Nat
  BY GatewayAssumption
<1> QED BY <1>1, <1>2, <1>3 DEF WellTried

\* A call that begins has walked nowhere.
LEMMA WalkBegins ==
  ASSUME NEW route \in Routes
  PROVE  Walk(route, 1, 0, None, <<>>)
<1>1. (\A t : TriesOf(<<>>, t) = {}) /\ Cardinality({}) = 0 /\ Len(<<>>) = 0
  BY FS_EmptySet DEF TriesOf
<1> QED BY <1>1, NothingTried DEF Walk

\* The attempt that follows a walk, however it ends, is well placed.
LEMMA WalkEnds ==
  ASSUME NEW route \in Routes, NEW k \in 1 .. Len(route), NEW n \in 0 .. MaxRetries,
         NEW fallback, NEW tried \in Seq(Attempts), Walk(route, k, n, fallback, tried),
         NEW a \in Attempts, a.target = route[k], a.fallback = fallback
  PROVE  /\ WellTried(Append(tried, a))
         /\ Cardinality(TriesOf(Append(tried, a), route[k])) = n + 1
         /\ \A j \in k + 1 .. Len(route) : TriesOf(Append(tried, a), route[j]) = {}
<1> DEFINE more == Append(tried, a)
<1>1. /\ Len(tried) \in Nat /\ more \in Seq(Attempts) /\ Len(more) = Len(tried) + 1
      /\ \A i \in 1 .. Len(tried) : more[i] = tried[i]
      /\ more[Len(tried) + 1] = a
  OBVIOUS
<1>2. /\ MaxRetries \in Nat /\ k \in Nat /\ Len(route) \in Nat
      /\ \A i, j \in 1 .. Len(route) : route[i] = route[j] => i = j
      /\ \A j \in 1 .. Len(route) : route[j] \in Targets
  BY GatewayAssumption
<1>3. ASSUME NEW t
      PROVE  /\ t = route[k] => Cardinality(TriesOf(more, t)) = n + 1
             /\ t # route[k] => TriesOf(more, t) = TriesOf(tried, t)
  BY TriesAppend DEF Walk
<1> HIDE DEF more
<1>4. \A t \in Targets : Cardinality(TriesOf(more, t)) <= MaxRetries + 1
  BY <1>2, <1>3 DEF Walk, WellTried
<1>5. ASSUME NEW j \in k + 1 .. Len(route)
      PROVE  TriesOf(more, route[j]) = {}
  <2>1. j \in 1 .. Len(route) /\ route[j] # route[k]
    BY <1>2
  <2> QED BY <1>3, <2>1 DEF Walk
<1>6. ASSUME NEW i \in 1 .. Len(more) - 1
      PROVE  LET this == more[i]
                 next == more[i + 1]
             IN /\ this.outcome = "failed"
                /\ IF next.target = this.target
                   THEN this.code \in Retryable /\ next.fallback = this.fallback
                   ELSE /\ this.code \in FallbackCodes /\ next.fallback = this.code
                        /\ \E r \in Routes : \E j \in 1 .. Len(r) - 1 :
                             r[j] = this.target /\ r[j + 1] = next.target
                        /\ this.code \in Retryable =>
                             Cardinality(TriesOf(more, this.target)) = MaxRetries + 1
  <2>1. i \in 1 .. Len(tried) /\ more[i] = tried[i] /\ tried # <<>>
    BY <1>1
  <2>2. CASE i = Len(tried)
    <3> DEFINE last == tried[Len(tried)]
    <3>1. more[i] = last /\ more[i + 1] = a /\ last.outcome = "failed"
      BY <1>1, <2>1, <2>2 DEF Walk
    <3>2. CASE last.target = route[k]
      <4>1. ~(last.target = route[k - 1] /\ k > 1)
        BY <1>2, <3>2
      <4> QED BY <2>1, <3>1, <3>2, <4>1 DEF Walk
    <3>3. CASE last.target # route[k]
      <4>1. /\ k > 1 /\ last.target = route[k - 1] /\ last.code = fallback
            /\ last.code \in FallbackCodes
            /\ last.code \in Retryable =>
                 Cardinality(TriesOf(tried, last.target)) = MaxRetries + 1
        BY <2>1, <3>3 DEF Walk
      <4>2. k - 1 \in 1 .. Len(route) - 1 /\ route[(k - 1) + 1] = route[k]
        BY <1>2, <4>1
      <4>3. \E r \in Routes : \E j \in 1 .. Len(r) - 1 :
              r[j] = last.target /\ r[j + 1] = a.target
        BY <4>1, <4>2
      <4>4. TriesOf(more, last.target) = TriesOf(tried, last.target)
        BY <1>3, <3>3
      <4> QED BY <3>1, <3>3, <4>1, <4>3, <4>4
    <3> QED BY <3>2, <3>3
  <2>3. CASE i # Len(tried)
    <3>1. i \in 1 .. Len(tried) - 1 /\ more[i + 1] = tried[i + 1]
      BY <1>1, <2>1, <2>3
    <3>2. \A t \in Targets : Cardinality(TriesOf(tried, t)) = MaxRetries + 1 =>
            TriesOf(more, t) = TriesOf(tried, t)
      BY <1>2, <1>3 DEF Walk
    <3>3. tried[i].target \in Targets
      BY <2>1 DEF Attempts
    <3> QED BY <2>1, <3>1, <3>2, <3>3 DEF Walk, WellTried
  <2> QED BY <2>2, <2>3
<1>7. WellTried(more)
  BY <1>4, <1>6 DEF WellTried
<1> QED BY <1>3, <1>5, <1>7 DEF more

\* A failed attempt worth a retry continues the walk at its target.
LEMMA WalkRetries ==
  ASSUME NEW route \in Routes, NEW k \in 1 .. Len(route), NEW n \in 0 .. MaxRetries,
         NEW fallback, NEW tried \in Seq(Attempts), Walk(route, k, n, fallback, tried),
         NEW a \in Attempts, a.target = route[k], a.fallback = fallback,
         a.outcome = "failed", a.code \in Retryable
  PROVE  Walk(route, k, n + 1, fallback, Append(tried, a))
<1> DEFINE more == Append(tried, a)
<1>1. /\ Len(tried) \in Nat /\ more \in Seq(Attempts) /\ Len(more) = Len(tried) + 1
      /\ \A i \in 1 .. Len(tried) : more[i] = tried[i]
      /\ more[Len(tried) + 1] = a /\ more # <<>>
  OBVIOUS
<1>2. /\ WellTried(Append(tried, a))
      /\ Cardinality(TriesOf(Append(tried, a), route[k])) = n + 1
      /\ \A j \in k + 1 .. Len(route) : TriesOf(Append(tried, a), route[j]) = {}
  <2> HIDE DEF more
  <2> QED BY WalkEnds, Zenon
<1>3. /\ WellTried(more) /\ Cardinality(TriesOf(more, route[k])) = n + 1
      /\ \A j \in k + 1 .. Len(route) : TriesOf(more, route[j]) = {}
  BY <1>2
<1> HIDE DEF more
<1>4. \A i \in 1 .. Len(more) : more[i].outcome = "failed"
  BY <1>1 DEF Walk
<1>5. n + 1 > 0 /\ more[Len(more)] = a
  BY <1>1, GatewayAssumption
<1>6. Walk(route, k, n + 1, fallback, more)
  BY <1>1, <1>3, <1>4, <1>5 DEF Walk
<1> QED BY <1>6 DEF more

\* One that allows it leads on to the next target of the route.
LEMMA WalkFallsBack ==
  ASSUME NEW route \in Routes, NEW k \in 1 .. Len(route), NEW n \in 0 .. MaxRetries,
         NEW fallback, NEW tried \in Seq(Attempts), Walk(route, k, n, fallback, tried),
         NEW a \in Attempts, a.target = route[k], a.fallback = fallback,
         a.outcome = "failed", a.code \in FallbackCodes, k < Len(route),
         a.code \in Retryable => n = MaxRetries
  PROVE  Walk(route, k + 1, 0, a.code, Append(tried, a))
<1> DEFINE more == Append(tried, a)
<1>1. /\ Len(tried) \in Nat /\ more \in Seq(Attempts) /\ Len(more) = Len(tried) + 1
      /\ \A i \in 1 .. Len(tried) : more[i] = tried[i]
      /\ more[Len(tried) + 1] = a /\ more # <<>>
  OBVIOUS
<1>2. /\ WellTried(Append(tried, a))
      /\ Cardinality(TriesOf(Append(tried, a), route[k])) = n + 1
      /\ \A j \in k + 1 .. Len(route) : TriesOf(Append(tried, a), route[j]) = {}
  <2> HIDE DEF more
  <2> QED BY WalkEnds, Zenon
<1>3. /\ WellTried(more) /\ Cardinality(TriesOf(more, route[k])) = n + 1
      /\ \A j \in k + 1 .. Len(route) : TriesOf(more, route[j]) = {}
  BY <1>2
<1> HIDE DEF more
<1>4. \A i \in 1 .. Len(more) : more[i].outcome = "failed"
  BY <1>1 DEF Walk
<1>5. /\ k \in Nat /\ Len(route) \in Nat /\ k + 1 \in k + 1 .. Len(route)
      /\ (k + 1) + 1 .. Len(route) \subseteq k + 1 .. Len(route)
      /\ k + 1 > 1 /\ (k + 1) - 1 = k /\ more[Len(more)] = a
  BY <1>1, GatewayAssumption
<1>6. Cardinality(TriesOf(more, route[k + 1])) = 0
  BY <1>3, <1>5, FS_EmptySet
<1>7. a.code \in Retryable => Cardinality(TriesOf(more, a.target)) = MaxRetries + 1
  BY <1>3
<1>8. Walk(route, k + 1, 0, a.code, more)
  BY <1>1, <1>3, <1>4, <1>5, <1>6, <1>7 DEF Walk
<1> QED BY <1>8 DEF more

(***************************************************************************)
(* The inductive invariant.                                                *)
(***************************************************************************)
\* The phases of complete and of stream; those in which a task leaves the loop to
\* others; those before its breaker lets a call through, and after.
Waiting == Timed \cup {"idle", "yield", "closing"}
Unadmitted == {"idle", "attempt", "rate", "admit", "backoff"}
Holding == {"credential", "call", "resolve", "provider", "read", "chunk", "emit", "yield",
            "close", "closing", "cancelled", "build"}
Phases == Unadmitted \cup Holding \cup {"failed"}

Calls ==
  [pc : Phases, route : Seq(Targets), target : Nat, retry : 0 .. MaxRetries,
   left : Int, due : Int, wake : Int, admitted : BOOLEAN, probing : BOOLEAN,
   code : Codes \cup {None}, fallback : FallbackCodes \cup {None},
   tried : Seq(Attempts), reply : Replies \cup {None}]

\* A retry is counted when the back-off before it is over.
Tries(x) == IF x.pc = "backoff" THEN x.retry + 1 ELSE x.retry

ReplyStands(reply) ==
  reply # None =>
    /\ WellTried(reply.tried)
    /\ reply.kind = "response" => reply.tried[Len(reply.tried)].outcome = "succeeded"
    /\ reply.kind = "raised" =>
         \A i \in DOMAIN reply.tried : reply.tried[i].outcome = "failed"

CallStands(x) ==
  /\ x.pc = "idle" => x.tried = <<>> /\ ReplyStands(x.reply)
  /\ x.pc # "idle" =>
       /\ x.reply = None
       /\ x.route \in Routes /\ x.target \in 1 .. Len(x.route)
       /\ Walk(x.route, x.target, Tries(x), x.fallback, x.tried)
  /\ x.pc = "backoff" => x.retry < MaxRetries
  /\ x.pc \in Unadmitted => ~x.admitted
  /\ x.pc \in Holding => x.admitted
  /\ x.probing => x.admitted
  /\ x.pc \in Timed => 0 <= x.due /\ x.due <= x.left
  /\ x.pc = "failed" => x.code \in Codes

GatewayInv ==
  /\ breakers \in [Targets -> Breaker]
  /\ call \in [Callers -> Calls]
  /\ running \in Callers \cup {None}
  /\ invoked \subseteq Targets
  /\ \A c \in Callers : CallStands(call[c]) /\ (running = c <=> call[c].pc \notin Waiting)
  /\ ProbeSlotIsOwned

\* No caller, code or reply is None.
LEMMA NoneFacts == None \notin Callers /\ None \notin Targets /\ None \notin Codes
                     /\ None \notin Replies
BY NoneAssumption

\* Where its call stands, the target of a call is one.
LEMMA TargetFacts ==
  ASSUME GatewayInv, NEW c \in Callers, call[c].pc # "idle"
  PROVE  TargetOf(c) \in Targets
<1>1. call[c].route \in Routes /\ call[c].target \in 1 .. Len(call[c].route)
  BY DEF GatewayInv, CallStands
<1> QED BY <1>1, GatewayAssumption DEF TargetOf

\* One call moves.  A probe slot stays owned if no breaker keeps the slot of the call
\* that it does not hold any more.
LEMMA CallMoves ==
  ASSUME GatewayInv, NEW c \in Callers, NEW y \in Calls, CallStands(y),
         call' = [call EXCEPT ![c] = y],
         running \in {None, c}, running' = IF y.pc \in Waiting THEN None ELSE c,
         breakers' \in [Targets -> Breaker], invoked' \subseteq Targets,
         \A t \in Targets : breakers'[t].probe =>
           /\ breakers'[t].state = "half_open"
           /\ \/ breakers[t].probe /\ ~(call[c].admitted /\ TargetOf(c) = t)
              \/ y.admitted /\ y.route[y.target] = t
  PROVE  GatewayInv'
<1>1. /\ call' \in [Callers -> Calls] /\ call'[c] = y
      /\ \A d \in Callers \ {c} : call'[d] = call[d]
  BY DEF GatewayInv
<1>2. running' \in Callers \cup {None}
  OBVIOUS
<1>3. ASSUME NEW d \in Callers
      PROVE  CallStands(call'[d]) /\ (running' = d <=> call'[d].pc \notin Waiting)
  <2>1. CASE d = c
    BY <1>1, <2>1, NoneFacts
  <2>2. CASE d # c
    <3>1. call[d].pc \in Waiting /\ CallStands(call[d])
      BY <2>2, NoneFacts DEF GatewayInv
    <3> QED BY <1>1, <2>2, <3>1, NoneFacts
  <2> QED BY <2>1, <2>2
<1>4. ASSUME NEW t \in Targets, breakers'[t].probe
      PROVE  \E d \in Callers : call'[d].admitted /\ call'[d].route[call'[d].target] = t
  <2>1. CASE y.admitted /\ y.route[y.target] = t
    BY <1>1, <2>1
  <2>2. CASE breakers[t].probe /\ ~(call[c].admitted /\ TargetOf(c) = t)
    <3>1. PICK d \in Callers : call[d].admitted /\ TargetOf(d) = t
      BY <2>2 DEF GatewayInv, ProbeSlotIsOwned
    <3>2. d # c
      BY <2>2, <3>1
    <3> QED BY <1>1, <3>1, <3>2 DEF TargetOf
  <2> QED BY <1>4, <2>1, <2>2
<1>5. ProbeSlotIsOwned'
  BY <1>4 DEF ProbeSlotIsOwned, TargetOf
<1> QED BY <1>1, <1>2, <1>3, <1>5 DEF GatewayInv

\* A call goes on from one phase of an attempt to another; its breaker is not told.
LEMMA PhaseMoves ==
  ASSUME GatewayInv, NEW c \in Callers, NEW p \in Phases \ {"idle", "backoff"},
         NEW d \in Int, NEW e \in Codes \cup {None},
         call[c].pc \notin {"idle", "backoff"},
         call' = [call EXCEPT ![c] = [@ EXCEPT !.pc = p, !.due = d, !.code = e]],
         running \in {None, c}, running' = IF p \in Waiting THEN None ELSE c,
         p \in Holding => call[c].admitted,
         p \in Unadmitted => ~call[c].admitted,
         p \in Timed => 0 <= d /\ d <= call[c].left,
         p = "failed" => e \in Codes,
         UNCHANGED breakers, invoked' \subseteq Targets
  PROVE  GatewayInv'
<1> DEFINE x == call[c]
           y == [x EXCEPT !.pc = p, !.due = d, !.code = e]
<1>1. x \in Calls /\ CallStands(x)
  BY DEF GatewayInv
<1>2. /\ y \in Calls /\ y.pc = p /\ y.due = d /\ y.code = e
      /\ y.route = x.route /\ y.target = x.target /\ y.retry = x.retry /\ y.left = x.left
      /\ y.admitted = x.admitted /\ y.probing = x.probing /\ y.fallback = x.fallback
      /\ y.tried = x.tried /\ y.reply = x.reply
  BY <1>1 DEF Calls
<1>3. call' = [call EXCEPT ![c] = y]
  BY DEF GatewayInv
<1> HIDE DEF y
<1>4. Tries(y) = Tries(x)
  BY <1>2 DEF Tries
<1>5. CallStands(y)
  BY <1>1, <1>2, <1>4 DEF CallStands
<1>6. ASSUME NEW t \in Targets, breakers'[t].probe
      PROVE  /\ breakers'[t].state = "half_open"
             /\ \/ breakers[t].probe /\ ~(call[c].admitted /\ TargetOf(c) = t)
                \/ y.admitted /\ y.route[y.target] = t
  BY <1>2, <1>6 DEF GatewayInv, ProbeSlotIsOwned, TargetOf
<1>7. breakers' \in [Targets -> Breaker]
  BY DEF GatewayInv
<1> QED BY <1>2, <1>3, <1>5, <1>6, <1>7, CallMoves

\* The three ways of going on, Continue, Wait and Break.
LEMMA ContinueMoves ==
  ASSUME GatewayInv, NEW c \in Callers, NEW p \in Phases \ {"idle", "backoff", "failed"},
         p \notin Waiting, call[c].pc \notin {"idle", "backoff"},
         Continue(c, p), running \in {None, c},
         p \in Holding => call[c].admitted, p \in Unadmitted => ~call[c].admitted,
         UNCHANGED breakers, invoked' \subseteq Targets
  PROVE  GatewayInv'
<1>1. call[c] \in Calls /\ call[c].due \in Int /\ call[c].code \in Codes \cup {None}
  BY DEF GatewayInv, Calls
<1>2. call' = [call EXCEPT ![c] = [@ EXCEPT !.pc = p, !.due = call[c].due,
                                            !.code = call[c].code]]
  BY <1>1 DEF Continue, GatewayInv, Calls
<1>3. p \notin Timed /\ running' = c
  BY DEF Waiting, Continue
<1> QED BY <1>1, <1>2, <1>3, PhaseMoves

LEMMA WaitMoves ==
  ASSUME GatewayInv, NEW c \in Callers, NEW p \in Waiting \ {"idle", "backoff"}, NEW d \in Int,
         call[c].pc \notin {"idle", "backoff"},
         Wait(c, p, d), running \in {None, c},
         p \in Holding => call[c].admitted, p \in Unadmitted => ~call[c].admitted,
         p \in Timed => 0 <= d /\ d <= call[c].left,
         UNCHANGED breakers, invoked' \subseteq Targets
  PROVE  GatewayInv'
<1>1. call[c] \in Calls /\ call[c].code \in Codes \cup {None}
  BY DEF GatewayInv, Calls
<1>2. call' = [call EXCEPT ![c] = [@ EXCEPT !.pc = p, !.due = d, !.code = call[c].code]]
  BY <1>1 DEF Wait, GatewayInv, Calls
<1>3. /\ p \in Phases \ {"idle", "backoff"} /\ p # "failed"
      /\ running' = None
  BY DEF Waiting, Timed, Suspended, Phases, Unadmitted, Holding, Wait
<1> QED BY <1>1, <1>2, <1>3, PhaseMoves

LEMMA BreakMoves ==
  ASSUME GatewayInv, NEW c \in Callers, NEW e \in Codes,
         call[c].pc \notin {"idle", "backoff"},
         Break(c, e), running \in {None, c},
         UNCHANGED breakers, invoked' \subseteq Targets
  PROVE  GatewayInv'
<1>1. call[c] \in Calls /\ call[c].due \in Int
  BY DEF GatewayInv, Calls
<1>2. call' = [call EXCEPT ![c] = [@ EXCEPT !.pc = "failed", !.due = call[c].due, !.code = e]]
  BY <1>1 DEF Break, GatewayInv, Calls
<1>3. /\ "failed" \in Phases \ {"idle", "backoff"}
      /\ "failed" \notin Holding \cup Unadmitted \cup Timed \cup Waiting
      /\ running' = c
  BY DEF Waiting, Timed, Suspended, Phases, Unadmitted, Holding, Break
<1> QED BY <1>1, <1>2, <1>3, PhaseMoves

(***************************************************************************)
(* What breakers are told, and what attempts leave behind.                 *)
(***************************************************************************)
\* Each method makes a breaker of a breaker; whatever a call reports, no probe is
\* under way any more.
LEMMA BreakerFacts ==
  \A b \in Breaker, code \in Codes : (b.probe => b.state = "half_open") =>
         /\ Admitted(b) \in Breaker
         /\ Admitted(b).probe => Admitted(b).state = "half_open"
         /\ Closed \in Breaker /\ ~Closed.probe
         /\ RecordFailure(b, code) \in Breaker /\ ~RecordFailure(b, code).probe
         /\ RecordCancelled(b) \in Breaker /\ ~RecordCancelled(b).probe
         /\ Cooled(b) \in Breaker /\ Cooled(b).probe = b.probe /\ Cooled(b).state = b.state
<1> SUFFICES ASSUME NEW b \in Breaker, NEW code \in Codes, b.probe => b.state = "half_open"
             PROVE  /\ Admitted(b) \in Breaker
                    /\ Admitted(b).probe => Admitted(b).state = "half_open"
                    /\ Closed \in Breaker /\ ~Closed.probe
                    /\ RecordFailure(b, code) \in Breaker /\ ~RecordFailure(b, code).probe
                    /\ RecordCancelled(b) \in Breaker /\ ~RecordCancelled(b).probe
                    /\ Cooled(b) \in Breaker /\ Cooled(b).probe = b.probe
                    /\ Cooled(b).state = b.state
  OBVIOUS
<1>1. Threshold \in Nat \ {0} /\ Recovery \in Nat \ {0}
  BY BreakerAssumption
<1>2. /\ b.state \in {"closed", "open", "half_open"} /\ b.failures \in 0 .. Threshold
      /\ b.cooling \in 0 .. Recovery /\ b.probe \in BOOLEAN
  BY DEF Breaker
<1>3. Admitted(b) \in Breaker /\ (Admitted(b).probe => Admitted(b).state = "half_open")
  <2>1. CASE b.state = "closed"
    BY <2>1 DEF Admitted
  <2>2. CASE b.state # "closed"
    <3> DEFINE z == [b EXCEPT !.state = "half_open", !.cooling = 0, !.probe = TRUE]
    <3>1. "half_open" \in {"closed", "open", "half_open"} /\ 0 \in 0 .. Recovery
      BY <1>1
    <3>2. z \in Breaker
      BY <3>1, Zenon DEF Breaker
    <3>3. z.state = "half_open"
      BY DEF Breaker
    <3> QED BY <2>2, <3>2, <3>3 DEF Admitted
  <2> QED BY <2>1, <2>2
<1>4. Closed \in Breaker /\ ~Closed.probe
  BY <1>1 DEF Closed, Breaker
<1>5. RecordCancelled(b) \in Breaker /\ ~RecordCancelled(b).probe
  BY <1>2 DEF RecordCancelled, Breaker
<1>6. Cooled(b) \in Breaker /\ Cooled(b).probe = b.probe /\ Cooled(b).state = b.state
  BY <1>1, <1>2 DEF Cooled, Breaker
<1>7. RecordFailure(b, code) \in Breaker /\ ~RecordFailure(b, code).probe
  <2> DEFINE counted == [b EXCEPT !.failures = IF @ < Threshold THEN @ + 1 ELSE @]
  <2>1. counted \in Breaker /\ counted.probe = b.probe
    BY <1>1, <1>2 DEF Breaker
  <2>2. ASSUME NEW a \in Breaker
        PROVE  Opened(a) \in Breaker /\ ~Opened(a).probe
    <3>1. /\ "open" \in {"closed", "open", "half_open"} /\ Recovery \in 0 .. Recovery
          /\ FALSE \in BOOLEAN
      BY <1>1
    <3> QED BY <3>1, Zenon DEF Opened, Breaker
  <2>3. RecordFailure(b, code) =
          CASE code \notin Transient /\ b.state = "half_open" -> Closed
            [] code \notin Transient /\ b.state # "half_open" -> b
            [] code \in Transient /\ b.state = "half_open"    -> Opened(b)
            [] code \in Transient /\ b.state # "half_open"    ->
                 IF counted.failures = Threshold THEN Opened(counted) ELSE counted
    BY DEF RecordFailure
  <2> HIDE DEF counted
  <2>4. CASE b.state = "half_open"
    BY <1>4, <2>2, <2>3, <2>4
  <2>5. CASE b.state # "half_open"
    BY <1>2, <2>1, <2>2, <2>3, <2>5
  <2> QED BY <2>4, <2>5
<1> QED BY <1>3, <1>4, <1>5, <1>6, <1>7

\* A breaker that hears of its call keeps no slot for it.
LEMMA BreakerHears ==
  ASSUME GatewayInv, NEW c \in Callers, call[c].pc # "idle",
         NEW b \in Breaker, ~b.probe,
         breakers' = IF call[c].admitted THEN [breakers EXCEPT ![TargetOf(c)] = b]
                     ELSE breakers
  PROVE  /\ breakers' \in [Targets -> Breaker]
         /\ \A t \in Targets : breakers'[t].probe =>
              /\ breakers'[t].state = "half_open"
              /\ breakers[t].probe /\ ~(call[c].admitted /\ TargetOf(c) = t)
<1>1. TargetOf(c) \in Targets /\ breakers \in [Targets -> Breaker]
  BY TargetFacts DEF GatewayInv
<1>2. \A t \in Targets : breakers[t].probe => breakers[t].state = "half_open"
  BY DEF GatewayInv, ProbeSlotIsOwned
<1> QED BY <1>1, <1>2

\* The record of an attempt, and the attempts with it.
LEMMA AttemptFacts ==
  ASSUME GatewayInv, NEW c \in Callers, call[c].pc \notin {"idle", "backoff"},
         NEW outcome \in {"succeeded", "failed", "cancelled"}, NEW code \in Codes \cup {None},
         outcome = "succeeded" <=> code = None, outcome = "cancelled" => code = "cancelled"
  PROVE  LET a == Attempt(c, outcome, code)
             more == Tried(c, outcome, code)
         IN /\ a \in Attempts /\ a.target = TargetOf(c) /\ a.outcome = outcome
            /\ a.code = code /\ a.fallback = call[c].fallback
            /\ more = Append(call[c].tried, a) /\ more \in Seq(Attempts)
            /\ more[Len(more)] = a /\ Len(more) = Len(call[c].tried) + 1
            /\ \A i \in 1 .. Len(call[c].tried) : more[i].outcome = "failed"
            /\ WellTried(more)
<1> DEFINE x == call[c]
           a == Attempt(c, outcome, code)
<1>1. x \in Calls /\ CallStands(x)
  BY DEF GatewayInv
<1>2. TargetOf(c) \in Targets /\ x.fallback \in FallbackCodes \cup {None}
  BY <1>1, TargetFacts DEF Calls
<1>3. /\ a.target = TargetOf(c) /\ a.outcome = outcome /\ a.code = code
      /\ a.fallback = x.fallback
      /\ a \in [target : Targets, outcome : {"succeeded", "failed", "cancelled"},
                code : Codes \cup {None}, fallback : FallbackCodes \cup {None}]
  BY <1>2 DEF Attempt
<1> HIDE DEF a
<1>4. a \in Attempts
  BY <1>3 DEF Attempts
<1>5. Tried(c, outcome, code) = Append(x.tried, a)
  BY DEF Tried, a
<1>6. /\ x.tried \in Seq(Attempts) /\ x.retry \in 0 .. MaxRetries /\ Tries(x) = x.retry
      /\ x.route \in Routes /\ x.target \in 1 .. Len(x.route)
      /\ Walk(x.route, x.target, Tries(x), x.fallback, x.tried)
  BY <1>1 DEF CallStands, Calls, Tries
<1>7. WellTried(Append(x.tried, a))
  BY <1>3, <1>4, <1>6, WalkEnds DEF TargetOf
<1>8. \A i \in 1 .. Len(x.tried) : x.tried[i].outcome = "failed"
  BY <1>6 DEF Walk
<1>9. /\ Append(x.tried, a) \in Seq(Attempts)
      /\ Len(Append(x.tried, a)) = Len(x.tried) + 1
      /\ Append(x.tried, a)[Len(x.tried) + 1] = a
      /\ \A i \in 1 .. Len(x.tried) : Append(x.tried, a)[i] = x.tried[i]
  BY <1>4, <1>6
<1> QED BY <1>3, <1>4, <1>5, <1>7, <1>8, <1>9 DEF a

\* A call at rest is a call.
LEMMA RestFacts ==
  /\ AtRest \in Calls /\ AtRest.pc = "idle" /\ AtRest.tried = <<>> /\ AtRest.retry = 0
  /\ AtRest.target = 1 /\ AtRest.fallback = None /\ AtRest.reply = None
  /\ AtRest.admitted = FALSE /\ AtRest.probing = FALSE
<1>1. /\ 0 \in 0 .. MaxRetries /\ <<>> \in Seq(Targets) /\ <<>> \in Seq(Attempts)
      /\ "idle" \in Phases
  BY GatewayAssumption DEF Phases, Unadmitted
<1>2. AtRest \in Calls
  BY <1>1 DEF AtRest, Calls
<1> QED BY <1>2 DEF AtRest

\* A call ends.
LEMMA EndMoves ==
  ASSUME GatewayInv, NEW c \in Callers, NEW reply \in Replies, ReplyStands(reply),
         End(c, reply), running \in {None, c},
         breakers' \in [Targets -> Breaker], invoked' \subseteq Targets,
         \A t \in Targets : breakers'[t].probe =>
           /\ breakers'[t].state = "half_open"
           /\ breakers[t].probe /\ ~(call[c].admitted /\ TargetOf(c) = t)
  PROVE  GatewayInv'
<1> DEFINE y == [AtRest EXCEPT !.reply = reply]
<1>1. AtRest \in Calls /\ AtRest.pc = "idle" /\ AtRest.tried = <<>>
      /\ AtRest.admitted = FALSE /\ AtRest.probing = FALSE
  BY RestFacts
<1>2. /\ y \in Calls /\ y.pc = "idle" /\ y.tried = <<>> /\ y.reply = reply
      /\ ~y.admitted /\ ~y.probing
  BY <1>1 DEF Calls
<1>3. call' = [call EXCEPT ![c] = y] /\ running' = None
  BY DEF End
<1> HIDE DEF y
<1>4. CallStands(y) /\ y.pc \in Waiting
  BY <1>2 DEF CallStands, Waiting, Unadmitted, Holding, Timed, Suspended
<1> QED BY <1>2, <1>3, <1>4, CallMoves

\* A reply that ends a call well is one that stands.
LEMMA ReplyFacts ==
  ASSUME NEW kind \in {"response", "raised", "cancelled"}, NEW code \in Codes \cup {None},
         NEW tried \in Seq(Attempts), WellTried(tried),
         kind = "response" => tried[Len(tried)].outcome = "succeeded",
         kind = "raised" => \A i \in 1 .. Len(tried) : tried[i].outcome = "failed"
  PROVE  Reply(kind, code, tried) \in Replies /\ ReplyStands(Reply(kind, code, tried))
<1> DEFINE reply == Reply(kind, code, tried)
<1>1. reply.kind = kind /\ reply.code = code /\ reply.tried = tried /\ reply \in Replies
  BY DEF Reply, Replies
<1> HIDE DEF reply
<1>2. ReplyStands(reply)
  BY <1>1 DEF ReplyStands
<1> QED BY <1>1, <1>2 DEF reply

(***************************************************************************)
(* The steps that complete and stream have in common.                      *)
(***************************************************************************)
\* Of the task that has the loop, and of one that waits.
LEMMA WhoRuns ==
  ASSUME GatewayInv, NEW c \in Callers
  PROVE  /\ running = c => running \in {None, c}
         /\ running = None => running \in {None, c}
         /\ call[c] \in Calls /\ CallStands(call[c])
         /\ (call[c].left \in Int /\ call[c].due \in Int /\ call[c].wake \in Int)
         /\ UNCHANGED breakers => breakers' \in [Targets -> Breaker]
         /\ UNCHANGED invoked => invoked' \subseteq Targets
BY DEF GatewayInv, Calls

LEMMA BeginStep ==
  ASSUME GatewayInv, NEW c \in Callers, Begin(c)
  PROVE  GatewayInv'
<1>1. /\ running = None /\ call[c].pc = "idle" /\ UNCHANGED <<breakers, invoked>>
      /\ breakers' \in [Targets -> Breaker] /\ invoked' \subseteq Targets
  BY WhoRuns DEF Begin
<1>2. ~call[c].admitted
  BY <1>1 DEF GatewayInv, CallStands, Unadmitted
<1>3. \A t \in Targets : breakers'[t].probe =>
        /\ breakers'[t].state = "half_open"
        /\ breakers[t].probe /\ ~(call[c].admitted /\ TargetOf(c) = t)
  BY <1>1, <1>2 DEF GatewayInv, ProbeSlotIsOwned
<1>4. ASSUME NEW route \in Routes, running' = c,
             call' = [call EXCEPT ![c] = [AtRest EXCEPT !.pc = "attempt", !.route = route,
                                                        !.left = TotalTimeout]]
      PROVE  GatewayInv'
  <2> DEFINE y == [AtRest EXCEPT !.pc = "attempt", !.route = route, !.left = TotalTimeout]
  <2>1. /\ route \in Seq(Targets) /\ TotalTimeout \in Int /\ "attempt" \in Phases
        /\ 1 \in 1 .. Len(route)
    BY GatewayAssumption DEF Phases, Unadmitted
  <2>2. /\ y \in Calls /\ y.pc = "attempt" /\ y.route = route /\ y.target = 1 /\ y.retry = 0
        /\ y.admitted = FALSE /\ y.probing = FALSE /\ y.fallback = None /\ y.tried = <<>>
        /\ y.reply = None
    BY <2>1, RestFacts DEF Calls
  <2>3. call' = [call EXCEPT ![c] = y]
    BY <1>4
  <2> HIDE DEF y
  <2>4. /\ y.pc \in Unadmitted /\ y.pc \notin Holding \cup Waiting
        /\ y.pc \notin {"idle", "backoff", "failed"} /\ Tries(y) = 0
    BY <2>2 DEF Unadmitted, Holding, Waiting, Timed, Suspended, Tries
  <2>5. CallStands(y)
    BY <2>1, <2>2, <2>4, WalkBegins DEF CallStands, Waiting
  <2> QED BY <1>1, <1>3, <1>4, <2>2, <2>3, <2>4, <2>5, CallMoves
<1>5. ASSUME End(c, Reply("raised", "capability_mismatch", <<>>))
      PROVE  GatewayInv'
  <2>1. /\ "capability_mismatch" \in Codes \cup {None} /\ <<>> \in Seq(Attempts)
        /\ \A i \in 1 .. Len(<<>>) : <<>>[i].outcome = "failed"
    BY DEF Codes
  <2>2. LET reply == Reply("raised", "capability_mismatch", <<>>)
        IN reply \in Replies /\ ReplyStands(reply)
    BY <2>1, NothingTried, ReplyFacts
  <2> QED BY <1>1, <1>3, <1>5, <2>2, EndMoves
<1> QED BY <1>4, <1>5 DEF Begin

\* A wait under the total deadline.
LEMMA WaitWhatRemains ==
  ASSUME GatewayInv, NEW c \in Callers, ~DeadlinePassed(c)
  PROVE  0 <= call[c].left /\ call[c].left \in Int
BY DEF GatewayInv, Calls, DeadlinePassed

LEMMA AdmissionStep ==
  ASSUME GatewayInv, NEW c \in Callers, Admission(c)
  PROVE  GatewayInv'
<1>1. /\ running = c /\ call[c].pc = "attempt" /\ UNCHANGED breakers
      /\ invoked' \subseteq Targets /\ ~call[c].admitted
  BY WhoRuns DEF Admission, CallStands, Unadmitted
<1>2. CASE Continue(c, "admit")
  <2>1. "admit" \in Phases /\ "admit" \notin Waiting \cup Holding
    BY DEF Phases, Unadmitted, Waiting, Timed, Suspended, Holding
  <2> QED BY <1>1, <1>2, <2>1, ContinueMoves
<1>3. CASE Break(c, "timeout")
  <2>1. "timeout" \in Codes
    BY DEF Codes, Transient
  <2> QED BY <1>1, <1>3, <2>1, BreakMoves
<1>4. CASE ~DeadlinePassed(c) /\ Wait(c, "rate", call[c].left)
  <2>1. "rate" \in Waiting \ {"idle", "backoff"} /\ "rate" \notin Holding
    BY DEF Waiting, Timed, Suspended, Holding
  <2> QED BY <1>1, <1>4, <2>1, WaitWhatRemains, WaitMoves
<1> QED BY <1>2, <1>3, <1>4 DEF Admission

LEMMA TokenGrantedStep ==
  ASSUME GatewayInv, NEW c \in Callers, TokenGranted(c)
  PROVE  GatewayInv'
<1>1. /\ running = None /\ call[c].pc = "rate" /\ UNCHANGED breakers /\ Continue(c, "admit")
      /\ invoked' \subseteq Targets /\ ~call[c].admitted
  BY WhoRuns DEF TokenGranted, CallStands, Unadmitted
<1>2. "admit" \in Phases /\ "admit" \notin Waiting \cup Holding
  BY DEF Phases, Unadmitted, Waiting, Timed, Suspended, Holding
<1> QED BY <1>1, <1>2, ContinueMoves

LEMMA AskBreakerStep ==
  ASSUME GatewayInv, NEW c \in Callers, AskBreaker(c)
  PROVE  GatewayInv'
<1> DEFINE t == TargetOf(c)
           x == call[c]
           b == Admitted(breakers[t])
           y == [x EXCEPT !.admitted = TRUE, !.probing = b.probe,
                          !.pc = IF t \in Secret THEN "credential" ELSE "call"]
<1>1. /\ running = c /\ x.pc = "admit" /\ x \in Calls /\ CallStands(x) /\ ~x.admitted
      /\ t \in Targets /\ breakers \in [Targets -> Breaker] /\ invoked' \subseteq Targets
  BY WhoRuns, TargetFacts DEF AskBreaker, CallStands, Unadmitted, GatewayInv
<1>2. CASE Rejects(breakers[t])
  <2>1. Break(c, "circuit_open") /\ UNCHANGED breakers
    BY <1>2 DEF AskBreaker
  <2>2. "circuit_open" \in Codes
    BY DEF Codes
  <2> QED BY <1>1, <2>1, <2>2, BreakMoves
<1>3. CASE ~Rejects(breakers[t])
  <2>1. /\ breakers' = [breakers EXCEPT ![t] = b] /\ UNCHANGED running
        /\ call' = [call EXCEPT ![c].admitted = TRUE, ![c].probing = b.probe,
                                ![c].pc = IF t \in Secret THEN "credential" ELSE "call"]
    BY <1>3 DEF AskBreaker
  <2>2. breakers[t] \in Breaker /\ (breakers[t].probe => breakers[t].state = "half_open")
    BY <1>1 DEF GatewayInv, ProbeSlotIsOwned
  <2>3. b \in Breaker /\ (b.probe => b.state = "half_open") /\ b.probe \in BOOLEAN
    <3>1. b \in Breaker /\ (b.probe => b.state = "half_open")
      <4>1. "unknown" \in Codes
        BY DEF Codes
      <4> QED BY <2>2, <4>1, BreakerFacts
    <3> QED BY <3>1 DEF Breaker
  <2> HIDE DEF b
  <2>4. {"credential", "call"} \subseteq Phases /\ {"credential", "call"} \subseteq Holding
    BY DEF Phases, Holding
  <2>5. /\ y \in Calls /\ y.pc \in {"credential", "call"} /\ y.admitted = TRUE
        /\ y.probing = b.probe /\ y.route = x.route /\ y.target = x.target
        /\ y.retry = x.retry /\ y.left = x.left /\ y.due = x.due /\ y.fallback = x.fallback
        /\ y.tried = x.tried /\ y.reply = x.reply
    BY <1>1, <2>3, <2>4 DEF Calls
  <2>6. call' = [call EXCEPT ![c] = y]
    BY <2>1 DEF GatewayInv
  <2> HIDE DEF y
  <2>7. /\ y.pc \notin Unadmitted \cup Waiting /\ y.pc \notin {"idle", "backoff", "failed"}
        /\ Tries(y) = x.retry /\ Tries(x) = x.retry
    BY <1>1, <2>5 DEF Unadmitted, Waiting, Timed, Suspended, Tries
  <2>8. CallStands(y)
    BY <1>1, <2>5, <2>7 DEF CallStands, Waiting
  <2>9. breakers' \in [Targets -> Breaker]
    BY <1>1, <2>1, <2>3
  <2>10. ASSUME NEW u \in Targets, breakers'[u].probe
         PROVE  /\ breakers'[u].state = "half_open"
                /\ \/ breakers[u].probe /\ ~(x.admitted /\ TargetOf(c) = u)
                   \/ y.admitted /\ y.route[y.target] = u
    BY <1>1, <2>1, <2>3, <2>5, <2>10 DEF GatewayInv, ProbeSlotIsOwned, TargetOf
  <2> QED BY <1>1, <2>1, <2>5, <2>6, <2>7, <2>8, <2>9, <2>10, CallMoves
<1> QED BY <1>2, <1>3

LEMMA AskSecretStep ==
  ASSUME GatewayInv, NEW c \in Callers, AskSecret(c)
  PROVE  GatewayInv'
<1>1. /\ running = c /\ call[c].pc = "credential" /\ UNCHANGED breakers
      /\ invoked' \subseteq Targets /\ call[c].admitted
  BY WhoRuns DEF AskSecret, CallStands, Holding
<1>2. CASE Break(c, "timeout")
  <2>1. "timeout" \in Codes
    BY DEF Codes, Transient
  <2> QED BY <1>1, <1>2, <2>1, BreakMoves
<1>3. CASE ~DeadlinePassed(c) /\ Wait(c, "resolve", call[c].left)
  <2>1. "resolve" \in Waiting \ {"idle", "backoff"} /\ "resolve" \notin Unadmitted
    BY DEF Waiting, Timed, Suspended, Unadmitted
  <2> QED BY <1>1, <1>3, <2>1, WaitWhatRemains, WaitMoves
<1> QED BY <1>2, <1>3 DEF AskSecret

LEMMA SecretResolvedStep ==
  ASSUME GatewayInv, NEW c \in Callers, SecretResolved(c)
  PROVE  GatewayInv'
<1>1. /\ running = None /\ call[c].pc = "resolve" /\ UNCHANGED breakers
      /\ invoked' \subseteq Targets /\ call[c].admitted
  BY WhoRuns DEF SecretResolved, CallStands, Holding
<1>2. CASE Continue(c, "call")
  <2>1. "call" \in Phases /\ "call" \notin Waiting \cup Unadmitted
    BY DEF Phases, Unadmitted, Waiting, Timed, Suspended, Holding
  <2> QED BY <1>1, <1>2, <2>1, ContinueMoves
<1>3. ASSUME NEW code \in Raised \cup {"authentication"}, Break(c, code)
      PROVE  GatewayInv'
  <2>1. code \in Codes
    BY GatewayAssumption DEF Raised, Codes
  <2> QED BY <1>1, <1>3, <2>1, BreakMoves
<1> QED BY <1>2, <1>3 DEF SecretResolved

LEMMA TimesOutStep ==
  ASSUME GatewayInv, NEW c \in Callers, TimesOut(c)
  PROVE  GatewayInv'
<1>1. /\ running = None /\ call[c].pc \notin {"idle", "backoff"} /\ UNCHANGED breakers
      /\ invoked' \subseteq Targets /\ Break(c, "timeout")
  BY WhoRuns DEF TimesOut, Suspended
<1>2. "timeout" \in Codes
  BY DEF Codes, Transient
<1> QED BY <1>1, <1>2, BreakMoves

\* After a failure, when the breaker has heard of it: retry, fall back or give up.
LEMMA OnwardStep ==
  ASSUME GatewayInv, NEW c \in Callers, running = c, call[c].pc = "failed",
         breakers' \in [Targets -> Breaker], UNCHANGED invoked,
         \A t \in Targets : breakers'[t].probe =>
           /\ breakers'[t].state = "half_open"
           /\ breakers[t].probe /\ ~(call[c].admitted /\ TargetOf(c) = t),
         LET code == call[c].code
             tried == Tried(c, "failed", code)
         IN IF code \in Retryable /\ call[c].retry < MaxRetries
            THEN BackOff(c, tried) ELSE FallBack(c, code, tried)
  PROVE  GatewayInv'
<1> DEFINE x == call[c]
           code == x.code
           tried == Tried(c, "failed", code)
           a == Attempt(c, "failed", code)
<1>1. /\ x \in Calls /\ CallStands(x) /\ x.pc = "failed" /\ code \in Codes
      /\ invoked' \subseteq Targets
  BY WhoRuns DEF CallStands
<1>2. /\ a \in Attempts /\ a.target = TargetOf(c) /\ a.outcome = "failed"
      /\ a.code = code /\ a.fallback = x.fallback
      /\ tried = Append(x.tried, a) /\ tried \in Seq(Attempts)
      /\ tried[Len(tried)] = a /\ Len(tried) = Len(x.tried) + 1
      /\ \A i \in 1 .. Len(x.tried) : tried[i].outcome = "failed"
      /\ WellTried(tried)
  <2>1. code \in Codes \cup {None} /\ code # None
    BY <1>1, NoneFacts
  <2> QED BY <1>1, <2>1, AttemptFacts
<1>3. /\ x.route \in Routes /\ x.target \in 1 .. Len(x.route) /\ x.retry \in 0 .. MaxRetries
      /\ x.tried \in Seq(Attempts) /\ Walk(x.route, x.target, x.retry, x.fallback, x.tried)
      /\ a.target = x.route[x.target] /\ x.reply = None
  BY <1>1, <1>2 DEF CallStands, Tries, Calls, TargetOf
<1>4. \A i \in 1 .. Len(tried) : tried[i].outcome = "failed"
  <2>1. Len(x.tried) \in Nat
    BY <1>3
  <2> QED BY <1>2, <2>1
<1>5. IF code \in Retryable /\ x.retry < MaxRetries
      THEN BackOff(c, tried) ELSE FallBack(c, code, tried)
  OBVIOUS
<1>6. "failed" \notin Waiting /\ running \in {None, c}
  BY DEF Waiting, Timed, Suspended
<1> HIDE DEF tried, a
<1>7. ASSUME NEW e \in Codes, Raise(c, e, tried)
      PROVE  GatewayInv'
  <2>1. LET reply == Reply("raised", e, tried)
        IN reply \in Replies /\ ReplyStands(reply)
    BY <1>2, <1>4, ReplyFacts
  <2>2. End(c, Reply("raised", e, tried))
    BY <1>7 DEF Raise
  <2> QED BY <1>1, <1>6, <2>1, <2>2, EndMoves
<1>8. ASSUME code \in Retryable, x.retry < MaxRetries, BackOff(c, tried)
      PROVE  GatewayInv'
  <2>1. CASE DeadlinePassed(c)
    <3>1. "timeout" \in Codes /\ Raise(c, "timeout", tried)
      BY <1>8, <2>1 DEF BackOff, Codes, Transient
    <3> QED BY <1>7, <3>1
  <2>2. CASE ~DeadlinePassed(c)
    <3>1. PICK delay \in Delays :
            /\ call' = [call EXCEPT ![c] = [@ EXCEPT !.pc = "backoff", !.admitted = FALSE,
                                                     !.probing = FALSE, !.code = None,
                                                     !.tried = tried, !.wake = delay,
                                                     !.due = Lesser(delay, call[c].left)]]
            /\ running' = None
      BY <1>8, <2>2 DEF BackOff
    <3> DEFINE due == Lesser(delay, x.left)
               y == [x EXCEPT !.pc = "backoff", !.admitted = FALSE, !.probing = FALSE,
                              !.code = None, !.tried = tried, !.wake = delay, !.due = due]
    <3>2. /\ delay \in Nat /\ x.left \in Int /\ due \in Int /\ 0 <= due /\ due <= x.left
          /\ "backoff" \in Phases
      BY <2>2, WaitWhatRemains, GatewayAssumption
         DEF Lesser, DeadlinePassed, Phases, Unadmitted
    <3> HIDE DEF due
    <3>3. /\ y.pc = "backoff" /\ y.admitted = FALSE /\ y.probing = FALSE
          /\ y.tried = tried /\ y.due = due /\ y.route = x.route /\ y.target = x.target
          /\ y.retry = x.retry /\ y.left = x.left /\ y.fallback = x.fallback
          /\ y.reply = x.reply
      BY <1>1 DEF Calls
    <3>4. call' = [call EXCEPT ![c] = y]
      BY <3>1 DEF GatewayInv, due
    <3>8. y \in Calls
      <4>1. delay \in Int /\ None \in Codes \cup {None} /\ FALSE \in BOOLEAN
        BY <3>2
      <4> QED BY <1>1, <1>2, <3>2, <4>1, Zenon DEF Calls
    <3> HIDE DEF y
    <3>5. Walk(x.route, x.target, x.retry + 1, x.fallback, tried)
      BY <1>2, <1>3, <1>8, WalkRetries
    <3>6. /\ y.pc \in Waiting /\ y.pc \notin Holding /\ y.pc \notin {"idle", "failed"}
          /\ Tries(y) = x.retry + 1
      BY <3>3 DEF Waiting, Timed, Suspended, Holding, Tries
    <3>7. CallStands(y)
      BY <1>3, <1>8, <3>2, <3>3, <3>5, <3>6, SMTT(30) DEF CallStands
    <3> QED BY <1>1, <1>6, <3>1, <3>3, <3>4, <3>6, <3>7, <3>8, CallMoves
  <2> QED BY <2>1, <2>2
<1>9. ASSUME ~(code \in Retryable /\ x.retry < MaxRetries), FallBack(c, code, tried)
      PROVE  GatewayInv'
  <2>1. CASE ~(code \in FallbackCodes /\ x.target < Len(x.route))
    <3>1. Raise(c, code, tried)
      BY <1>9, <2>1 DEF FallBack
    <3> QED BY <1>1, <1>7, <3>1
  <2>2. CASE code \in FallbackCodes /\ x.target < Len(x.route)
    <3> DEFINE y == [x EXCEPT !.pc = "attempt", !.target = @ + 1, !.retry = 0,
                              !.admitted = FALSE, !.probing = FALSE, !.fallback = code,
                              !.code = None, !.tried = tried]
    <3>1. call' = [call EXCEPT ![c] = y] /\ UNCHANGED running
      BY <1>9, <2>2, ZenonT(60) DEF FallBack, GatewayInv
    <3>2. /\ x.target \in Nat /\ x.target + 1 \in Nat /\ 0 \in 0 .. MaxRetries
          /\ x.target + 1 \in 1 .. Len(x.route) /\ "attempt" \in Phases
      BY <1>3, <2>2, GatewayAssumption DEF Phases, Unadmitted
    <3>3. /\ y \in Calls /\ y.pc = "attempt" /\ y.admitted = FALSE /\ y.probing = FALSE
          /\ y.tried = tried /\ y.route = x.route /\ y.target = x.target + 1
          /\ y.retry = 0 /\ y.fallback = code /\ y.reply = x.reply
      BY <1>1, <1>2, <2>2, <3>2 DEF Calls
    <3> HIDE DEF y
    <3>5. Walk(x.route, x.target + 1, 0, code, tried)
      <4>1. code \in Retryable => x.retry = MaxRetries
        BY <1>3, <1>9, GatewayAssumption
      <4> QED BY <1>2, <1>3, <2>2, <4>1, WalkFallsBack
    <3>6. /\ y.pc \notin Waiting \cup Holding /\ y.pc \notin {"idle", "failed", "backoff"}
          /\ Tries(y) = 0
      BY <3>3 DEF Waiting, Timed, Suspended, Holding, Tries
    <3>7. CallStands(y)
      BY <1>3, <3>2, <3>3, <3>5, <3>6 DEF CallStands, Waiting
    <3> QED BY <1>1, <1>6, <3>1, <3>3, <3>6, <3>7, CallMoves
  <2> QED BY <2>1, <2>2
<1> QED BY <1>5, <1>8, <1>9

LEMMA WakeUpStep ==
  ASSUME GatewayInv, NEW c \in Callers, WakeUp(c)
  PROVE  GatewayInv'
<1> DEFINE x == call[c]
<1>1. /\ running = None /\ x.pc = "backoff" /\ x \in Calls /\ CallStands(x) /\ ~x.admitted
      /\ UNCHANGED breakers /\ breakers' \in [Targets -> Breaker] /\ invoked' \subseteq Targets
  BY WhoRuns DEF WakeUp, CallStands, Unadmitted
<1>2. \A t \in Targets : breakers'[t].probe =>
        /\ breakers'[t].state = "half_open"
        /\ breakers[t].probe /\ ~(x.admitted /\ TargetOf(c) = t)
  BY <1>1 DEF GatewayInv, ProbeSlotIsOwned
<1>3. /\ x.route \in Routes /\ x.target \in 1 .. Len(x.route) /\ x.retry < MaxRetries
      /\ Walk(x.route, x.target, x.retry + 1, x.fallback, x.tried) /\ x.reply = None
      /\ x.tried \in Seq(Attempts) /\ x.retry \in 0 .. MaxRetries
  BY <1>1 DEF CallStands, Tries, Calls
<1>4. ASSUME running' = c,
             call' = [call EXCEPT ![c].pc = "attempt", ![c].retry = @ + 1]
      PROVE  GatewayInv'
  <2> DEFINE y == [x EXCEPT !.pc = "attempt", !.retry = @ + 1]
  <2>1. x.retry + 1 \in 0 .. MaxRetries /\ "attempt" \in Phases
    BY <1>3, GatewayAssumption DEF Phases, Unadmitted
  <2>2. /\ y \in Calls /\ y.pc = "attempt" /\ y.retry = x.retry + 1
        /\ y.admitted = x.admitted /\ y.probing = x.probing /\ y.tried = x.tried
        /\ y.route = x.route /\ y.target = x.target /\ y.fallback = x.fallback
        /\ y.reply = x.reply
    BY <1>1, <2>1 DEF Calls
  <2>3. call' = [call EXCEPT ![c] = y]
    BY <1>4 DEF GatewayInv
  <2> HIDE DEF y
  <2>4. /\ y.pc \notin Waiting \cup Holding /\ y.pc \notin {"idle", "failed", "backoff"}
        /\ Tries(y) = x.retry + 1
    BY <2>2 DEF Waiting, Timed, Suspended, Holding, Tries
  <2>5. CallStands(y)
    BY <1>1, <1>3, <2>2, <2>4 DEF CallStands, Waiting
  <2> QED BY <1>1, <1>2, <1>4, <2>2, <2>3, <2>4, <2>5, CallMoves
<1>5. ASSUME Raise(c, "timeout", x.tried)
      PROVE  GatewayInv'
  <2>1. /\ "timeout" \in Codes /\ WellTried(x.tried)
        /\ \A i \in 1 .. Len(x.tried) : x.tried[i].outcome = "failed"
    BY <1>3 DEF Codes, Transient, Walk
  <2>2. LET reply == Reply("raised", "timeout", x.tried)
        IN reply \in Replies /\ ReplyStands(reply)
    BY <1>3, <2>1, ReplyFacts
  <2>3. End(c, Reply("raised", "timeout", x.tried))
    BY <1>5 DEF Raise
  <2> QED BY <1>1, <1>2, <2>2, <2>3, EndMoves
<1> QED BY <1>4, <1>5 DEF WakeUp

LEMMA CancelStep ==
  ASSUME GatewayInv, NEW c \in Callers, Cancel(c)
  PROVE  GatewayInv'
<1> DEFINE x == call[c]
           t == TargetOf(c)
<1>1. /\ running = None /\ x.pc \in Suspended /\ x.pc # "idle" /\ x \in Calls
      /\ CallStands(x) /\ invoked' \subseteq Targets /\ TargetOf(c) \in Targets
  BY WhoRuns, TargetFacts DEF Cancel, Suspended
<1>2. breakers[t] \in Breaker /\ (breakers[t].probe => breakers[t].state = "half_open")
  BY <1>1 DEF GatewayInv, ProbeSlotIsOwned
<1>3. RecordCancelled(breakers[t]) \in Breaker /\ ~RecordCancelled(breakers[t]).probe
  <2>1. "unknown" \in Codes
    BY DEF Codes
  <2> QED BY <1>2, <2>1, BreakerFacts
<1>4. breakers' = IF x.admitted THEN [breakers EXCEPT ![t] = RecordCancelled(breakers[t])]
                  ELSE breakers
  BY <1>1 DEF Cancel, GatewayInv
<1>5. /\ breakers' \in [Targets -> Breaker]
      /\ \A u \in Targets : breakers'[u].probe =>
           /\ breakers'[u].state = "half_open"
           /\ breakers[u].probe /\ ~(x.admitted /\ TargetOf(c) = u)
  BY <1>1, <1>3, <1>4, BreakerHears
<1>6. "cancelled" \in Codes /\ "cancelled" # None
  BY NoneFacts DEF Codes
<1>7. CASE x.pc = "backoff"
  <2>1. x.tried \in Seq(Attempts) /\ WellTried(x.tried)
    BY <1>1, <1>7 DEF CallStands, Calls, Walk
  <2>2. LET reply == Reply("cancelled", "cancelled", x.tried)
        IN reply \in Replies /\ ReplyStands(reply)
    BY <1>6, <2>1, ReplyFacts
  <2>3. End(c, Reply("cancelled", "cancelled", x.tried))
    BY <1>7 DEF Cancel
  <2> QED BY <1>1, <1>5, <2>2, <2>3, EndMoves
<1>8. CASE x.pc # "backoff"
  <2> DEFINE tried == Tried(c, "cancelled", "cancelled")
  <2>1. tried \in Seq(Attempts) /\ WellTried(tried)
    BY <1>1, <1>6, <1>8, AttemptFacts
  <2>2. End(c, Reply("cancelled", "cancelled", tried))
    BY <1>8 DEF Cancel
  <2> HIDE DEF tried
  <2>3. LET reply == Reply("cancelled", "cancelled", tried)
        IN reply \in Replies /\ ReplyStands(reply)
    BY <1>6, <2>1, ReplyFacts
  <2> QED BY <1>1, <1>5, <2>2, <2>3, EndMoves
<1> QED BY <1>7, <1>8

\* Time passes for everybody who waits, and for the breakers that cool down.
LEMMA TickStep ==
  ASSUME GatewayInv, Tick
  PROVE  GatewayInv'
<1>1. /\ running = None /\ running' = None /\ invoked' \subseteq Targets
      /\ call' = [c \in Callers |-> Aged(call[c])]
      /\ breakers' = [t \in Targets |-> Cooled(breakers[t])]
      /\ \A c \in Callers : call[c].pc \in Timed => call[c].due > 0
  BY DEF Tick, NothingIsDue, GatewayInv
<1>2. /\ breakers' \in [Targets -> Breaker]
      /\ \A t \in Targets : /\ breakers'[t].probe = breakers[t].probe
                            /\ breakers'[t].state = breakers[t].state
  <2>1. "unknown" \in Codes
    BY DEF Codes
  <2>2. \A t \in Targets :
          breakers[t] \in Breaker /\ (breakers[t].probe => breakers[t].state = "half_open")
    BY DEF GatewayInv, ProbeSlotIsOwned
  <2> QED BY <1>1, <2>1, <2>2, BreakerFacts
<1>3. ASSUME NEW c \in Callers
      PROVE  /\ call'[c] \in Calls /\ CallStands(call'[c]) /\ call'[c].pc = call[c].pc
             /\ call'[c].admitted = call[c].admitted /\ call'[c].route = call[c].route
             /\ call'[c].target = call[c].target
  <2> DEFINE x == call[c]
             y == [x EXCEPT !.left = Less(@), !.due = Less(@), !.wake = Less(@)]
  <2>1. x \in Calls /\ CallStands(x) /\ call'[c] = Aged(x)
    BY <1>1 DEF GatewayInv
  <2>2. CASE x.pc = "idle"
    BY <2>1, <2>2 DEF Aged
  <2>3. CASE x.pc # "idle"
    <3>1. \A n \in Int : Less(n) \in Int /\ (n > 0 => Less(n) = n - 1)
      BY DEF Less
    <3>2. /\ x.left \in Int /\ x.due \in Int /\ x.wake \in Int /\ call'[c] = y
      BY <2>1, <2>3 DEF Calls, Aged
    <3>3. /\ y \in Calls /\ y.pc = x.pc /\ y.left = Less(x.left) /\ y.due = Less(x.due)
          /\ y.route = x.route /\ y.target = x.target /\ y.retry = x.retry /\ y.code = x.code
          /\ y.admitted = x.admitted /\ y.probing = x.probing /\ y.fallback = x.fallback
          /\ y.tried = x.tried /\ y.reply = x.reply
      BY <2>1, <3>1, <3>2 DEF Calls
    <3> HIDE DEF y
    <3>4. x.pc \in Timed => 0 <= y.due /\ y.due <= y.left
      <4>1. x.pc \in Timed => x.due > 0 /\ x.due <= x.left
        BY <1>1, <2>1 DEF CallStands
      <4> QED BY <3>1, <3>2, <3>3, <4>1
    <3>5. Tries(y) = Tries(x)
      BY <3>3 DEF Tries
    <3>6. CallStands(y)
      BY <2>1, <2>3, <3>3, <3>4, <3>5 DEF CallStands
    <3> QED BY <3>2, <3>3, <3>6
  <2> QED BY <2>2, <2>3
<1>4. call' \in [Callers -> Calls]
  BY <1>1, <1>3
<1>5. \A c \in Callers : CallStands(call'[c]) /\ (running' = c <=> call'[c].pc \notin Waiting)
  BY <1>1, <1>3 DEF GatewayInv
<1>6. ProbeSlotIsOwned'
  <2>1. ASSUME NEW t \in Targets, breakers'[t].probe
        PROVE  /\ breakers'[t].state = "half_open"
               /\ \E c \in Callers : call'[c].admitted /\ call'[c].route[call'[c].target] = t
    <3>1. breakers[t].probe /\ breakers[t].state = "half_open"
      BY <1>2, <2>1 DEF GatewayInv, ProbeSlotIsOwned
    <3>2. PICK c \in Callers : call[c].admitted /\ TargetOf(c) = t
      BY <3>1 DEF GatewayInv, ProbeSlotIsOwned
    <3> QED BY <1>2, <1>3, <3>1, <3>2 DEF TargetOf
  <2> QED BY <2>1 DEF ProbeSlotIsOwned, TargetOf
<1> QED BY <1>1, <1>2, <1>4, <1>5, <1>6 DEF GatewayInv

LEMMA InitGatewayInv == GatewayInit => GatewayInv
<1> SUFFICES ASSUME GatewayInit PROVE GatewayInv
  OBVIOUS
<1>1. /\ breakers = [t \in Targets |-> Closed] /\ call = [c \in Callers |-> AtRest]
      /\ running = None /\ invoked = {}
  BY DEF GatewayInit
<1>2. Closed \in Breaker /\ Closed.probe = FALSE
  BY BreakerAssumption DEF Closed, Breaker
<1>3. CallStands(AtRest) /\ AtRest.pc \in Waiting
  BY RestFacts DEF CallStands, ReplyStands, Waiting, Unadmitted, Holding, Timed, Suspended
<1>4. ProbeSlotIsOwned
  BY <1>1, <1>2 DEF ProbeSlotIsOwned
<1> QED BY <1>1, <1>2, <1>3, <1>4, RestFacts, NoneFacts DEF GatewayInv

LEMMA UnchangedStep == GatewayInv /\ UNCHANGED gatewayVars => GatewayInv'
BY DEF GatewayInv, gatewayVars, ProbeSlotIsOwned, TargetOf
-----------------------------------------------------------------------------
(***************************************************************************)
(* complete.                                                               *)
(***************************************************************************)
LEMMA CallProviderStep ==
  ASSUME GatewayInv, NEW c \in Callers, CallProvider(c)
  PROVE  GatewayInv'
<1>1. /\ running = c /\ call[c].pc = "call" /\ UNCHANGED breakers /\ call[c].admitted
      /\ TargetOf(c) \in Targets
  BY WhoRuns, TargetFacts DEF CallProvider, CallStands, Holding
<1>2. CASE Break(c, "timeout") /\ UNCHANGED invoked
  <2>1. "timeout" \in Codes
    BY DEF Codes, Transient
  <2> QED BY <1>1, <1>2, <2>1, WhoRuns, BreakMoves
<1>3. CASE /\ ~DeadlinePassed(c)
           /\ Wait(c, "provider", Lesser(AttemptTimeout, call[c].left))
           /\ invoked' = invoked \cup {TargetOf(c)}
  <2> DEFINE due == Lesser(AttemptTimeout, call[c].left)
  <2>1. due \in Int /\ 0 <= due /\ due <= call[c].left
    BY <1>3, WaitWhatRemains, GatewayAssumption DEF Lesser, DeadlinePassed
  <2>2. "provider" \in Waiting \ {"idle", "backoff"} /\ "provider" \notin Unadmitted
    BY DEF Waiting, Timed, Suspended, Unadmitted
  <2>3. invoked' \subseteq Targets
    BY <1>1, <1>3 DEF GatewayInv
  <2>4. Wait(c, "provider", due)
    BY <1>3
  <2> HIDE DEF due
  <2> QED BY <1>1, <2>1, <2>2, <2>3, <2>4, WaitMoves
<1> QED BY <1>2, <1>3 DEF CallProvider

LEMMA RespondStep ==
  ASSUME GatewayInv, NEW c \in Callers, Respond(c)
  PROVE  GatewayInv'
<1> DEFINE tried == Tried(c, "succeeded", None)
<1>1. /\ running = None /\ call[c].pc = "provider" /\ call[c].admitted
      /\ invoked' \subseteq Targets /\ End(c, Reply("response", None, tried))
      /\ breakers' = [breakers EXCEPT ![TargetOf(c)] = RecordSuccess(breakers[TargetOf(c)])]
  BY WhoRuns DEF Respond, CallStands, Holding, GatewayInv
<1>2. /\ tried \in Seq(Attempts) /\ WellTried(tried)
      /\ tried[Len(tried)].outcome = "succeeded"
  BY <1>1, AttemptFacts
<1> HIDE DEF tried
<1>3. LET reply == Reply("response", None, tried)
      IN reply \in Replies /\ ReplyStands(reply)
  BY <1>2, ReplyFacts
<1>4. Closed \in Breaker /\ ~Closed.probe
  BY BreakerAssumption DEF Closed, Breaker
<1>5. breakers' = IF call[c].admitted THEN [breakers EXCEPT ![TargetOf(c)] = Closed]
                  ELSE breakers
  BY <1>1 DEF RecordSuccess
<1>6. /\ breakers' \in [Targets -> Breaker]
      /\ \A t \in Targets : breakers'[t].probe =>
           /\ breakers'[t].state = "half_open"
           /\ breakers[t].probe /\ ~(call[c].admitted /\ TargetOf(c) = t)
  BY <1>1, <1>4, <1>5, BreakerHears
<1> QED BY <1>1, <1>3, <1>6, EndMoves

LEMMA ProviderFailsStep ==
  ASSUME GatewayInv, NEW c \in Callers, ProviderFails(c)
  PROVE  GatewayInv'
<1>1. /\ running = None /\ call[c].pc = "provider" /\ UNCHANGED breakers
      /\ invoked' \subseteq Targets
  BY WhoRuns DEF ProviderFails
<1>2. PICK code \in Raised : Break(c, code)
  BY DEF ProviderFails
<1>3. code \in Codes
  BY GatewayAssumption DEF Raised, Codes
<1> QED BY <1>1, <1>2, <1>3, BreakMoves

\* A breaker that is told of a failure, if it let the call through.
LEMMA FailureIsHeard ==
  ASSUME GatewayInv, NEW c \in Callers, call[c].pc = "failed",
         breakers' = IF call[c].admitted
                     THEN [breakers EXCEPT ![TargetOf(c)] = RecordFailure(@, call[c].code)]
                     ELSE breakers
  PROVE  /\ breakers' \in [Targets -> Breaker]
         /\ \A t \in Targets : breakers'[t].probe =>
              /\ breakers'[t].state = "half_open"
              /\ breakers[t].probe /\ ~(call[c].admitted /\ TargetOf(c) = t)
<1> DEFINE b == breakers[TargetOf(c)]
           told == RecordFailure(b, call[c].code)
<1>1. TargetOf(c) \in Targets /\ call[c].code \in Codes
  BY TargetFacts, WhoRuns DEF CallStands
<1>2. b \in Breaker /\ (b.probe => b.state = "half_open")
  BY <1>1 DEF GatewayInv, ProbeSlotIsOwned
<1>3. told \in Breaker /\ ~told.probe
  BY <1>1, <1>2, BreakerFacts
<1>4. breakers' = IF call[c].admitted THEN [breakers EXCEPT ![TargetOf(c)] = told]
                  ELSE breakers
  OBVIOUS
<1> HIDE DEF told
<1> QED BY <1>3, <1>4, BreakerHears

LEMMA FailAttemptStep ==
  ASSUME GatewayInv, NEW c \in Callers, FailAttempt(c)
  PROVE  GatewayInv'
BY FailureIsHeard, OnwardStep DEF FailAttempt

(***************************************************************************)
(* Theorems.                                                               *)
(***************************************************************************)
CompletePhases == Suspended \cup {"idle", "attempt", "admit", "credential", "call", "failed"}

\* The invariant of complete: every wait of it has a timer, which is why time never
\* passes the total deadline of a call that is under way.
CompleteInv ==
  /\ GatewayInv
  /\ \A c \in Callers : call[c].pc \in CompletePhases
  /\ ReturnsByDeadline

\* A step of one call leaves the others alone and the deadline as it is.
MovesAlone(c) ==
  /\ \A d \in Callers \ {c} : call'[d] = call[d]
  /\ call'[c].pc \in CompletePhases
  /\ \/ call'[c].pc = "idle"
     \/ call[c].pc # "idle" /\ call'[c].left = call[c].left
     \/ call'[c].left = TotalTimeout

\* Its call does not end with a response.
Unanswered(c) == call'[c].pc = "idle" => call'[c].reply.kind # "response"

LEMMA EndsAlone ==
  ASSUME GatewayInv, NEW c \in Callers, NEW reply, End(c, reply)
  PROVE  MovesAlone(c) /\ call'[c].pc = "idle" /\ call'[c].reply = reply
<1>1. [AtRest EXCEPT !.reply = reply].pc = "idle" /\ [AtRest EXCEPT !.reply = reply].reply = reply
  BY RestFacts DEF Calls
<1> QED BY <1>1 DEF End, CompletePhases, GatewayInv, MovesAlone

LEMMA RaisesAlone ==
  ASSUME GatewayInv, NEW c \in Callers, NEW code, NEW tried, Raise(c, code, tried)
  PROVE  MovesAlone(c) /\ Unanswered(c)
<1>1. End(c, Reply("raised", code, tried)) /\ Reply("raised", code, tried).kind = "raised"
  BY DEF Raise, Reply
<1> QED BY <1>1, EndsAlone DEF Unanswered

\* After a failure.
LEMMA GoesOnAlone ==
  ASSUME GatewayInv, NEW c \in Callers, call[c].pc = "failed", NEW code, NEW tried,
         BackOff(c, tried) \/ FallBack(c, code, tried)
  PROVE  MovesAlone(c) /\ Unanswered(c)
<1>1. call \in [Callers -> Calls] /\ call[c] \in Calls
  BY DEF GatewayInv
<1>2. {"backoff", "attempt"} \subseteq CompletePhases
  BY DEF CompletePhases, Suspended
<1>3. CASE BackOff(c, tried)
  <2>1. ASSUME NEW delay \in Delays,
               call' = [call EXCEPT ![c] = [@ EXCEPT !.pc = "backoff", !.admitted = FALSE,
                                                     !.probing = FALSE, !.code = None,
                                                     !.tried = tried, !.wake = delay,
                                                     !.due = Lesser(delay, call[c].left)]]
        PROVE  MovesAlone(c) /\ Unanswered(c)
    BY <1>1, <1>2, <2>1 DEF Calls, MovesAlone, Unanswered
  <2> QED BY <1>3, <2>1, RaisesAlone DEF BackOff
<1>4. CASE FallBack(c, code, tried)
  <2>1. CASE call' = [call EXCEPT ![c].pc = "attempt", ![c].target = @ + 1, ![c].retry = 0,
                             ![c].admitted = FALSE, ![c].probing = FALSE,
                             ![c].fallback = code, ![c].code = None, ![c].tried = tried]
    BY <1>1, <1>2, <2>1 DEF Calls, MovesAlone, Unanswered
  <2> QED BY <1>4, <2>1, RaisesAlone DEF FallBack
<1> QED BY <1>3, <1>4

\* Every step of one call but Respond.
LEMMA StepOfOne ==
  ASSUME GatewayInv, NEW c \in Callers,
         \/ Begin(c) \/ Proceed(c) \/ Fires(c) \/ Cancel(c)
         \/ TokenGranted(c) \/ SecretResolved(c) \/ ProviderFails(c)
  PROVE  MovesAlone(c) /\ Unanswered(c)
<1>1. call \in [Callers -> Calls] /\ call[c] \in Calls
  BY DEF GatewayInv
<1>2. ASSUME NEW kind, NEW code, NEW tried, End(c, Reply(kind, code, tried)),
             kind # "response"
      PROVE  MovesAlone(c) /\ Unanswered(c)
  <2>1. Reply(kind, code, tried).kind = kind
    BY DEF Reply
  <2> QED BY <1>2, <2>1, EndsAlone DEF Unanswered
<1>3. ASSUME NEW p \in CompletePhases, p # "idle", Continue(c, p), call[c].pc # "idle"
      PROVE  MovesAlone(c) /\ Unanswered(c)
  BY <1>1, <1>3 DEF Continue, Calls, MovesAlone, Unanswered
<1>4. ASSUME NEW p \in CompletePhases, NEW d, p # "idle", Wait(c, p, d), call[c].pc # "idle"
      PROVE  MovesAlone(c) /\ Unanswered(c)
  BY <1>1, <1>4 DEF Wait, Calls, MovesAlone, Unanswered
<1>5. ASSUME NEW e, Break(c, e), call[c].pc # "idle"
      PROVE  MovesAlone(c) /\ Unanswered(c)
  BY <1>1, <1>5 DEF Break, Calls, CompletePhases, MovesAlone, Unanswered
<1>6. {"admit", "rate", "resolve", "call", "provider", "attempt", "credential", "backoff"}
        \subseteq CompletePhases \ {"idle"}
  BY DEF CompletePhases, Suspended
<1>7. CASE Begin(c)
  <2>1. ASSUME NEW route,
               call' = [call EXCEPT ![c] = [AtRest EXCEPT !.pc = "attempt", !.route = route,
                                                          !.left = TotalTimeout]]
        PROVE  MovesAlone(c) /\ Unanswered(c)
    <3> DEFINE y == [AtRest EXCEPT !.pc = "attempt", !.route = route, !.left = TotalTimeout]
    <3>1. y.pc = "attempt" /\ y.left = TotalTimeout
      BY RestFacts DEF Calls
    <3> QED BY <1>1, <1>6, <2>1, <3>1 DEF MovesAlone, Unanswered
  <2>2. ASSUME End(c, Reply("raised", "capability_mismatch", <<>>))
        PROVE  MovesAlone(c) /\ Unanswered(c)
    BY <1>2, <2>2
  <2> QED BY <1>7, <2>1, <2>2 DEF Begin
<1>8. CASE Admission(c)
  BY <1>3, <1>4, <1>5, <1>6, <1>8 DEF Admission
<1>9. CASE AskBreaker(c)
  <2>1. CASE Break(c, "circuit_open")
    BY <1>5, <1>9, <2>1 DEF AskBreaker
  <2>2. ASSUME NEW s,
               call' = [call EXCEPT ![c].admitted = TRUE, ![c].probing = s,
                          ![c].pc = IF TargetOf(c) \in Secret THEN "credential" ELSE "call"]
        PROVE  MovesAlone(c) /\ Unanswered(c)
    BY <1>1, <1>6, <1>9, <2>2 DEF AskBreaker, Calls, MovesAlone, Unanswered
  <2> QED BY <1>9, <2>1, <2>2 DEF AskBreaker
<1>10. CASE AskSecret(c)
  BY <1>4, <1>5, <1>6, <1>10 DEF AskSecret
<1>11. CASE CallProvider(c)
  BY <1>4, <1>5, <1>6, <1>11 DEF CallProvider
<1>12. CASE FailAttempt(c)
  BY <1>12, GoesOnAlone DEF FailAttempt
<1>13. CASE TokenGranted(c) \/ SecretResolved(c) \/ ProviderFails(c)
  BY <1>3, <1>5, <1>6, <1>13 DEF TokenGranted, SecretResolved, ProviderFails
<1>14. CASE TimesOut(c)
  BY <1>5, <1>14 DEF TimesOut, Suspended
<1>15. CASE WakeUp(c)
  <2>1. CASE call' = [call EXCEPT ![c].pc = "attempt", ![c].retry = @ + 1]
    BY <1>1, <1>6, <1>15, <2>1 DEF WakeUp, Calls, MovesAlone, Unanswered
  <2> QED BY <1>15, <2>1, RaisesAlone DEF WakeUp
<1>16. CASE Cancel(c)
  BY <1>2, <1>16 DEF Cancel
<1> QED BY <1>7, <1>8, <1>9, <1>10, <1>11, <1>12, <1>13, <1>14, <1>15, <1>16
        DEF Proceed, Fires

LEMMA InitCompleteInv == GatewayInit => CompleteInv
BY InitGatewayInv, RestFacts
   DEF CompleteInv, GatewayInit, ReturnsByDeadline, CompletePhases

LEMMA CompleteStep == CompleteInv /\ [GatewayNext]_gatewayVars => CompleteInv'
<1> SUFFICES ASSUME CompleteInv, [GatewayNext]_gatewayVars PROVE CompleteInv'
  OBVIOUS
<1>1. GatewayInv /\ ReturnsByDeadline /\ \A c \in Callers : call[c].pc \in CompletePhases
  BY DEF CompleteInv
<1>2. ASSUME NEW c \in Callers,
             Begin(c) \/ Proceed(c) \/ Arrives(c) \/ Fires(c) \/ Cancel(c)
      PROVE  CompleteInv'
  <2>1. GatewayInv'
    BY <1>1, <1>2, BeginStep, AdmissionStep, AskBreakerStep, AskSecretStep, CallProviderStep,
       FailAttemptStep, TokenGrantedStep, SecretResolvedStep, RespondStep, ProviderFailsStep,
       TimesOutStep, WakeUpStep, CancelStep DEF Proceed, Arrives, Fires
  <2>2. TotalTimeout >= 0
    BY GatewayAssumption
  <2>3. \A d \in Callers : /\ call'[d].pc \in CompletePhases
                           /\ call'[d].pc # "idle" => call'[d].left >= 0
    <3>1. MovesAlone(c)
      BY <1>1, <1>2, StepOfOne, EndsAlone DEF Arrives, Respond
    <3> QED BY <1>1, <2>2, <3>1 DEF MovesAlone, ReturnsByDeadline
  <2> QED BY <2>1, <2>3 DEF CompleteInv, ReturnsByDeadline
<1>3. CASE Tick
  <2>1. GatewayInv'
    BY <1>1, <1>3, TickStep
  <2>2. ASSUME NEW c \in Callers
        PROVE  /\ call'[c].pc \in CompletePhases
               /\ call'[c].pc # "idle" => call'[c].left >= 0
    <3> DEFINE x == call[c]
    <3>1. /\ x \in Calls /\ CallStands(x) /\ x.left \in Int /\ x.due \in Int
          /\ x.pc \in CompletePhases
      BY <1>1, WhoRuns
    <3>2. call'[c] = Aged(x) /\ running = None /\ (x.pc \in Timed => x.due > 0)
      BY <1>3 DEF Tick, NothingIsDue
    <3>3. CASE x.pc = "idle"
      BY <3>1, <3>2, <3>3 DEF Aged
    <3>4. CASE x.pc # "idle"
      <4>1. x.pc \in Waiting
        BY <1>1, <3>2, NoneFacts DEF GatewayInv
      <4>2. x.pc \in Timed
        BY <3>1, <3>4, <4>1 DEF Waiting, CompletePhases, Timed, Suspended
      <4>3. x.left > 0
        BY <3>1, <3>2, <4>2 DEF CallStands
      <4>4. call'[c].pc = x.pc /\ call'[c].left = x.left - 1
        BY <3>1, <3>2, <3>4, <4>3 DEF Aged, Less, Calls
      <4> QED BY <3>1, <4>3, <4>4
    <3> QED BY <3>3, <3>4
  <2> QED BY <2>1, <2>2 DEF CompleteInv, ReturnsByDeadline
<1>4. CASE UNCHANGED gatewayVars
  BY <1>1, <1>4, UnchangedStep DEF CompleteInv, gatewayVars, ReturnsByDeadline
<1> QED BY <1>2, <1>3, <1>4 DEF GatewayNext

\* The invariant that the theorems about complete rest on.
THEOREM CallsStayInOrder == GatewaySpec => []CompleteInv
BY InitCompleteInv, CompleteStep, PTL DEF GatewaySpec

\* GatewayTypeOK: the state of a call fits where it waits, and who has the loop does not
\* wait (complete).
THEOREM GatewayTypeCorrect == GatewaySpec => []GatewayTypeOK
<1>1. CompleteInv => GatewayTypeOK
  <2> SUFFICES ASSUME CompleteInv PROVE GatewayTypeOK
    OBVIOUS
  <2>1. ASSUME NEW c \in Callers
        PROVE  LET x == call[c]
               IN /\ x.pc \in CompletePhases
                  /\ x.pc # "idle" => x.route \in Routes /\ x.target \in 1 .. Len(x.route)
                  /\ x.retry \in 0 .. MaxRetries
                  /\ \A i \in DOMAIN x.tried : x.tried[i] \in Attempts
                  /\ (running = c) <=> (x.pc \notin Suspended \cup {"idle"})
                  /\ x.pc \in {"credential", "call", "resolve", "provider"} => x.admitted
                  /\ x.pc \in {"attempt", "rate", "admit", "backoff"} => ~x.admitted
                  /\ x.probing => x.admitted
                  /\ x.pc \in Suspended => x.due >= 0
    <3> DEFINE x == call[c]
    <3>1. /\ x \in Calls /\ CallStands(x) /\ x.pc \in CompletePhases
          /\ (running = c <=> x.pc \notin Waiting)
      BY DEF CompleteInv, GatewayInv
    <3>2. x.retry \in 0 .. MaxRetries /\ x.tried \in Seq(Attempts) /\ x.due \in Int
      BY <3>1 DEF Calls
    <3>3. x.pc \notin Waiting <=> x.pc \notin Suspended \cup {"idle"}
      BY <3>1 DEF CompletePhases, Waiting, Timed, Suspended
    <3>4. \A i \in DOMAIN x.tried : x.tried[i] \in Attempts
      BY <3>2
    <3> QED BY <3>1, <3>2, <3>3, <3>4 DEF CallStands, Holding, Unadmitted, Timed, Suspended
  <2> QED BY <2>1 DEF CompleteInv, GatewayInv, GatewayTypeOK, CompletePhases
<1> QED BY <1>1, CallsStayInOrder, PTL

\* ReturnsByDeadline: no call is under way after its total deadline, however its limiter,
\* secrets, providers and back-offs behave (_remaining, asyncio.timeout, _backoff).
THEOREM CallsReturnByDeadline == GatewaySpec => []ReturnsByDeadline
BY CallsStayInOrder, PTL DEF CompleteInv

\* ProbeSlotIsOwned: a taken probe slot belongs to a call that is under way and will
\* report to its breaker (before_call, record_*).
THEOREM ProbesAreOwned == GatewaySpec => []ProbeSlotIsOwned
BY CallsStayInOrder, PTL DEF CompleteInv, GatewayInv

LEMMA AttemptsStand == GatewayInv => AttemptsFollowTheRoute
<1> SUFFICES ASSUME GatewayInv, NEW c \in Callers
             PROVE  /\ WellTried(call[c].tried)
                    /\ call[c].reply # None => ReplyStands(call[c].reply)
  BY DEF AttemptsFollowTheRoute, ReplyStands
<1>1. CASE call[c].pc = "idle"
  BY <1>1, NothingTried DEF GatewayInv, CallStands
<1>2. CASE call[c].pc # "idle"
  BY <1>2 DEF GatewayInv, CallStands, Walk
<1> QED BY <1>1, <1>2

\* AttemptsFollowTheRoute: the attempts of every call and of every answer are a legal
\* walk along its route, with retries and fallback as the policy has them (_attempt).
THEOREM AttemptsAreWalks == GatewaySpec => []AttemptsFollowTheRoute
BY CallsStayInOrder, AttemptsStand, PTL DEF CompleteInv
=============================================================================
