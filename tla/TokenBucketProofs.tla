-------------------------- MODULE TokenBucketProofs --------------------------
(***************************************************************************)
(* The token bucket implements RateLimit for any number of tasks, any      *)
(* rate and any burst.                                                     *)
(*                                                                         *)
(* The mapped credit is what _refill would compute now.  It is a step of   *)
(* the credit only when a token is taken or a tick fills the bucket: the   *)
(* invariant needed is that what was stored at the last refill fits the    *)
(* bucket.                                                                 *)
(***************************************************************************)
EXTENDS TokenBucket, TLAPS

BucketInv == tokens \in Nat /\ tokens <= Capacity /\ elapsed \in Nat

\* The capacity of the bucket, and what goes into it in a time, are numbers.
LEMMA Amounts ==
  /\ Capacity \in Nat
  /\ \A t \in Nat : t * Rate \in Nat /\ (t + 1) * Rate = t * Rate + Rate
  /\ 0 * Rate = 0
<1>1. \A m, n \in Nat : m * n \in Nat /\ (m + 1) * n = m * n + n /\ 0 * n = 0
  BY SMT
<1> QED BY <1>1, BucketAssumption DEF Capacity

LEMMA InitBucketInv == Init => BucketInv
BY Amounts DEF Init, BucketInv

\* A round of the loop in acquire takes one token of the credit, or none.
LEMMA RoundStep ==
  ASSUME BucketInv, NEW rest, Round(rest)
  PROVE  BucketInv' /\ [Limit!LetThrough]_(Lesser(Capacity, tokens + elapsed * Rate))
<1> DEFINE flow == elapsed * Rate
<1>1. /\ flow \in Nat /\ Capacity \in Nat /\ Token \in Nat \ {0}
      /\ tokens \in Nat /\ elapsed' = 0 /\ elapsed' * Rate = 0
  BY Amounts, BucketAssumption DEF BucketInv, Round
<1>2. Refilled = Lesser(Capacity, tokens + flow)
  BY DEF Refilled
<1>3. tokens' = IF Refilled >= Token THEN Refilled - Token ELSE Refilled
  BY DEF Round
<1> HIDE DEF flow
<1>4. Refilled \in Nat /\ Refilled <= Capacity
  BY <1>1, <1>2 DEF Lesser
<1>5. tokens' \in Nat /\ tokens' <= Capacity
  BY <1>1, <1>3, <1>4
<1>6. Lesser(Capacity, tokens' + elapsed' * Rate) = tokens'
  BY <1>1, <1>5 DEF Lesser
<1>7. BucketInv'
  BY <1>1, <1>5 DEF BucketInv, Capacity
<1>8. \/ Refilled >= Token /\ tokens' = Refilled - Token
      \/ tokens' = Refilled
  BY <1>3
<1> QED BY <1>2, <1>6, <1>7, <1>8 DEF Limit!LetThrough, flow, Capacity

\* A tick lets the credit of a tick flow in, up to the capacity.
LEMMA TickStep ==
  ASSUME BucketInv, Tick
  PROVE  BucketInv' /\ [Limit!FlowsIn]_(Lesser(Capacity, tokens + elapsed * Rate))
<1>1. /\ tokens \in Nat /\ elapsed \in Nat /\ Capacity \in Nat /\ Rate \in Nat
      /\ elapsed * Rate \in Nat /\ (elapsed + 1) * Rate = elapsed * Rate + Rate
      /\ tokens' = tokens
  BY Amounts, BucketAssumption DEF BucketInv, Tick
<1>2. CASE tokens + elapsed * Rate < Capacity
  <2>1. elapsed' = elapsed + 1 /\ elapsed' * Rate = elapsed * Rate + Rate
    BY <1>1, <1>2 DEF Tick
  <2>2. Lesser(Capacity, tokens + elapsed * Rate) = tokens + elapsed * Rate
    BY <1>1, <1>2 DEF Lesser
  <2>3. Lesser(Capacity, tokens' + elapsed' * Rate)
          = IF tokens + elapsed * Rate + Rate < Capacity
            THEN tokens + elapsed * Rate + Rate ELSE Capacity
    BY <1>1, <2>1 DEF Lesser
  <2>4. Limit!FlowsIn
    BY <2>2, <2>3 DEF Limit!FlowsIn, Capacity
  <2> QED BY <1>1, <2>1, <2>4 DEF BucketInv, Capacity
<1>3. CASE ~(tokens + elapsed * Rate < Capacity)
  BY <1>1, <1>3 DEF Tick, BucketInv, Capacity
<1> QED BY <1>2, <1>3

LEMMA NextStep ==
  BucketInv /\ [Next]_vars
    => BucketInv' /\ [Limit!FlowsIn \/ Limit!LetThrough]_(Lesser(Capacity, tokens + elapsed * Rate))
<1> SUFFICES ASSUME BucketInv, [Next]_vars
             PROVE  /\ BucketInv'
                    /\ [Limit!FlowsIn \/ Limit!LetThrough]_(Lesser(Capacity, tokens + elapsed * Rate))
  OBVIOUS
<1>1. ASSUME UNCHANGED <<tokens, elapsed>>
      PROVE  BucketInv' /\ UNCHANGED Lesser(Capacity, tokens + elapsed * Rate)
  BY <1>1 DEF BucketInv, Capacity
<1>2. ASSUME NEW c \in Callers, Acquire(c)
      PROVE  (\E rest : Round(rest)) \/ UNCHANGED <<tokens, elapsed>>
  BY <1>2 DEF Acquire
<1>3. ASSUME NEW c \in Callers, Cancel(c)
      PROVE  UNCHANGED <<tokens, elapsed>>
  BY <1>3 DEF Cancel
<1>4. ASSUME LockHandedOn \/ WakeUp
      PROVE  \E rest : Round(rest)
  BY <1>4 DEF LockHandedOn, WakeUp
<1>5. CASE UNCHANGED vars
  BY <1>5, <1>1 DEF vars
<1> QED BY <1>1, <1>2, <1>3, <1>4, <1>5, RoundStep, TickStep DEF Next

\* Refilling when somebody looks, sleeping with the lock, queueing, waking early and
\* being cancelled never let more calls through than the rate and the burst allow,
\* and never lose a token (_refill and acquire of AsyncTokenBucket).
THEOREM BucketImplementsRateLimit == Spec => ImplementsRateLimit
<1>1. Init => Lesser(Capacity, tokens + elapsed * Rate) = Capacity
  BY Amounts DEF Init, Lesser
<1> QED
  BY <1>1, InitBucketInv, NextStep, PTL DEF Spec, ImplementsRateLimit, Limit!RateLimitSpec

\* The bucket never holds more than its burst, nor a debt.
THEOREM BucketStaysInBounds == Spec => [](tokens \in Nat /\ tokens <= Capacity)
<1>1. BucketInv => tokens \in Nat /\ tokens <= Capacity
  BY DEF BucketInv
<1> QED BY <1>1, InitBucketInv, NextStep, PTL DEF Spec
=============================================================================
