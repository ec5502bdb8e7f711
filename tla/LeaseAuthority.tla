--------------------------- MODULE LeaseAuthority ---------------------------
(***************************************************************************)
(* ABSTRACT.  What worker leases promise, without transactions, callers,   *)
(* locks or failures: a queued run is given to one claim at a time, a      *)
(* claim is answered once, work done under a lease is done by the claim    *)
(* that holds the run at that very moment, and whoever lost a run never    *)
(* gets it back under the same claim.                                      *)
(***************************************************************************)
EXTENDS Integers

CONSTANTS
  Runs,         \* the runs workers compete for
  Claims,       \* claim ids
  Commands,     \* command ids of commits
  Durations,    \* the durations of leases
  None          \* a model value

VARIABLES
  now,          \* the latest time the clock of the database has shown
  status,       \* status[r]: what a worker may do with the run
  holder,       \* holder[r]: the claim that holds or last held the run
  answer,       \* answer[k]: what a claim was answered
  done          \* done[q]: the run a command changed, and for which attempt

authorityVars == <<now, status, holder, answer, done>>

\* The moves of a run as far as leases tell its statuses apart.
Follows ==
  [queued  |-> {"running", "ended"},
   running |-> {"running", "waiting", "ended"},
   waiting |-> {"running", "ended"},
   ended   |-> {}]

\* A worker has something to do in these statuses only.
Workable == {"queued", "running"}

\* A lease ends one duration after some time the clock has shown.
Promises == {t + d : t \in 0 .. now, d \in Durations}

Unclaimed(r) == \/ holder[r] = None
                \/ holder[r].ended
                \/ holder[r].until <= now

NextAttempt(r) == IF holder[r] = None THEN 1 ELSE holder[r].attempt + 1

\* A claim that was not answered before is given a queued run nobody holds.
Grant(k, r) ==
  /\ answer[k] = None
  /\ status[r] = "queued"
  /\ Unclaimed(r)
  /\ \E until \in Promises :
       holder' = [holder EXCEPT ![r] = [claim   |-> k,
                                        attempt |-> NextAttempt(r),
                                        until   |-> until,
                                        ended   |-> FALSE]]
  /\ answer' = [answer EXCEPT ![k] = [run |-> r, attempt |-> NextAttempt(r)]]
  /\ UNCHANGED <<now, status, done>>

\* A claim may be told that there is no work, as long as every queued run has
\* been given to somebody at some time.
Refuse(k) ==
  /\ answer[k] = None
  /\ \A r \in Runs : status[r] = "queued" => holder[r] # None
  /\ answer' = [answer EXCEPT ![k] = "no_work"]
  /\ UNCHANGED <<now, status, holder, done>>

Held(r) == holder[r] # None /\ ~holder[r].ended

\* The holder keeps the run for longer (or for shorter).
Extend(r) ==
  /\ Held(r) /\ status[r] \in Workable
  /\ \E until \in Promises :
       holder' = [holder EXCEPT ![r].until = until]
  /\ UNCHANGED <<now, status, answer, done>>

\* The holder gives the run up, for good.
End(r) ==
  /\ Held(r)
  /\ holder' = [holder EXCEPT ![r].ended = TRUE]
  /\ UNCHANGED <<now, status, answer, done>>

Change(q, r, attempt) ==
  /\ done[q] = None
  /\ \E s \in Follows[status[r]] : status' = [status EXCEPT ![r] = s]
  /\ done' = [done EXCEPT ![q] = [run |-> r, attempt |-> attempt]]
  /\ UNCHANGED <<now, holder, answer>>

\* A worker changes the run it holds.
Work(q, r) == Held(r) /\ status[r] \in Workable /\ Change(q, r, holder[r].attempt)

\* Somebody who needs no lease changes a run: a user, an approval, a timer.
Intervene(q, r) == Change(q, r, 0)

\* Time passes.  It matters to Unclaimed only.
Pass == now' > now /\ UNCHANGED <<status, holder, answer, done>>

AuthorityInit ==
  /\ now = 0
  /\ status = [r \in Runs |-> "queued"]
  /\ holder = [r \in Runs |-> None]
  /\ answer = [k \in Claims |-> None]
  /\ done = [q \in Commands |-> None]

AuthorityNext ==
  \/ \E r \in Runs : \/ \E k \in Claims : Grant(k, r)
                     \/ \E q \in Commands : Work(q, r) \/ Intervene(q, r)
                     \/ Extend(r) \/ End(r)
  \/ \E k \in Claims : Refuse(k)
  \/ Pass

AuthoritySpec == AuthorityInit /\ [][AuthorityNext]_authorityVars
=============================================================================
