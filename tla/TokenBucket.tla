----------------------------- MODULE TokenBucket -----------------------------
(***************************************************************************)
(* AsyncTokenBucket of application/services/rate_limiter.py: tasks that    *)
(* acquire one token each under an asyncio.Lock, whose holder sleeps for   *)
(* its token with the lock in hand.                                        *)
(*                                                                         *)
(* A task runs until it waits, so the lock and the tokens change in one    *)
(* step.  Time is kept as what went by since the last refill and what is   *)
(* left to sleep; a token is Token units, so that rates below one token a  *)
(* tick are whole numbers.                                                 *)
(***************************************************************************)
EXTENDS Integers, Sequences

CONSTANTS
  Callers,   \* tasks
  Token,     \* units of one token
  Rate,      \* rate_per_second: units per tick
  Burst      \* burst: tokens the bucket holds

ASSUME BucketAssumption == Token \in Nat \ {0} /\ Rate \in Nat \ {0} /\ Burst \in Nat \ {0}

VARIABLES
  tokens,    \* _tokens, in units
  elapsed,   \* the time since _updated_at, as far as it matters
  queue,     \* who is in acquire: the holder of the lock, then its waiters
  sleeping,  \* the head of queue has gone to sleep
  left       \* what is left of its sleep

vars == <<tokens, elapsed, queue, sleeping, left>>

Capacity == Burst * Token
Lesser(a, b) == IF a < b THEN a ELSE b

\* _refill.
Refilled == Lesser(Capacity, tokens + elapsed * Rate)

\* Ticks until a token is there: (1 - tokens) / rate, rounded up.
Delay(have) == (Token - have + Rate - 1) \div Rate

\* One round of the loop in acquire by the holder of the lock, who is the head of
\* rest: a token is taken, or it goes to sleep.  Whoever leaves hands the lock to
\* the next, who begins its round in a later step.
Round(rest) ==
  /\ elapsed' = 0
  /\ IF Refilled >= Token
     THEN /\ tokens' = Refilled - Token
          /\ queue' = Tail(rest)
          /\ sleeping' = FALSE /\ left' = 0
     ELSE /\ tokens' = Refilled
          /\ queue' = rest
          /\ sleeping' = TRUE /\ left' = Delay(Refilled)

Waiting == {queue[i] : i \in DOMAIN queue}

\* acquire: the lock is free, or one waits for it behind all others.
Acquire(c) ==
  /\ c \notin Waiting
  /\ IF queue = <<>>
     THEN Round(<<c>>)
     ELSE /\ queue' = Append(queue, c)
          /\ UNCHANGED <<tokens, elapsed, sleeping, left>>

\* The lock was handed on.
LockHandedOn ==
  /\ queue # <<>> /\ ~sleeping
  /\ Round(queue)

\* MUTANT of WakeUp: who wakes up takes its token without looking again.
WakesIntoToken ==
  /\ sleeping
  /\ tokens' = IF Refilled >= Token THEN Refilled - Token ELSE 0
  /\ elapsed' = 0 /\ queue' = Tail(queue) /\ sleeping' = FALSE /\ left' = 0

\* The sleep is over; a sleeper may also return early, and finds no token then.
WakeUp ==
  /\ sleeping
  /\ Round(queue)

\* MUTANT of Cancel: the lock stays with a task that is gone and will not wake up.
LockIsLost(c) ==
  /\ c \in Waiting
  /\ queue' = IF queue[1] = c THEN queue ELSE SelectSeq(queue, LAMBDA d : d # c)
  /\ left' = IF queue[1] = c THEN -1 ELSE left
  /\ sleeping' = (sleeping \/ queue[1] = c)
  /\ UNCHANGED <<tokens, elapsed>>

\* The task is cancelled, or asyncio.timeout of _admit does it: the sleep, if it is
\* the sleeper, and its place in the queue are given up, and nothing else.
Cancel(c) ==
  /\ c \in Waiting
  /\ queue' = SelectSeq(queue, LAMBDA d : d # c)
  /\ sleeping' = (sleeping /\ queue[1] # c)
  /\ left' = IF queue[1] = c THEN 0 ELSE left
  /\ UNCHANGED <<tokens, elapsed>>

\* A tick, when no task is ready to go on.
Tick ==
  /\ queue = <<>> \/ (sleeping /\ left > 0)
  /\ elapsed' = IF tokens + elapsed * Rate < Capacity THEN elapsed + 1 ELSE elapsed
  /\ left' = IF left > 0 THEN left - 1 ELSE 0
  /\ UNCHANGED <<tokens, queue, sleeping>>

Init ==
  /\ tokens = Capacity /\ elapsed = 0
  /\ queue = <<>> /\ sleeping = FALSE /\ left = 0

Next ==
  \/ \E c \in Callers : Acquire(c) \/ Cancel(c)
  \/ LockHandedOn \/ WakeUp \/ Tick

Spec == Init /\ [][Next]_vars

SleepIsOver == left = 0 /\ WakeUp

\* Ready tasks run, sleeps end, time goes on.
FairSpec == Spec /\ WF_vars(LockHandedOn) /\ WF_vars(SleepIsOver) /\ SF_vars(Tick)
-----------------------------------------------------------------------------
(***************************************************************************)
(* Properties.                                                             *)
(***************************************************************************)
\* Refilling only when somebody looks, sleeping, queueing and giving up do not show:
\* the bucket is one that fills all the time (a cancelled wait costs no token).
Limit == INSTANCE RateLimit WITH credit <- Lesser(Capacity, tokens + elapsed * Rate)
ImplementsRateLimit == Limit!RateLimitSpec

\* A task that is not cancelled gets its token, however many are before it and
\* whoever of them gives up.
EveryWaiterIsServed == \A c \in Callers : c \in Waiting ~> c \notin Waiting
=============================================================================
