---------------------------- MODULE RunScenarios ----------------------------
(***************************************************************************)
(* The commands of the small instances: one run r1 that commands aim at,   *)
(* with a budget of two steps, and other run ids that a racing create may  *)
(* end up with instead.                                                    *)
(***************************************************************************)
EXTENDS RunStore

CONSTANTS r1, r2, r3, k1, k2, k3, k4, k5, ch1, ch2, Deadline

Zero == [c \in Counters |-> 0]
Steps(id, n) == [charge_id |-> id, amount |-> [Zero EXCEPT !["steps"] = n]]
Tokens(id, i, o) == [charge_id |-> id,
                     amount |-> [Zero EXCEPT !["input_tokens"] = i, !["output_tokens"] = o]]

\* Two steps; three tokens each way but four in total; the deadline is a constant.
SmallBudget ==
  [deadline_at |-> Deadline,
   maximum |-> [d \in Dimensions \ {"deadline"} |->
                  CASE d = "steps" -> 2
                    [] d \in {"input_tokens", "output_tokens"} -> 3
                    [] d = "total_tokens" -> 4
                    [] OTHER -> 0]]

To(id, type)       == [command_id |-> id, intent |-> [type |-> type, run_id |-> r1, arg |-> None]]
FailWith(id, error) == [command_id |-> id,
                        intent |-> [type |-> "fail_run", run_id |-> r1, arg |-> error]]
Spend(id, charge)  == [command_id |-> id,
                       intent |-> [type |-> "consume_budget", run_id |-> r1, arg |-> charge]]
Open(id)           == [command_id |-> id,
                       intent |-> [type |-> "create_run", run_id |-> None, arg |-> SmallBudget]]

\* The budget instance: one charge sent under two command ids, a charge id
\* reused for another amount, and a charge that only overruns the total.
BudgetCommands ==
  {Open(k1), To(k2, "start_run"),
   Spend(k3, Steps(ch1, 1)), Spend(k4, Steps(ch1, 1)), Spend(k4, Tokens(ch2, 3, 2)),
   Spend(k5, Steps(ch1, 2)), To(k5, "enforce_deadline")}

\* The lifecycle instance: waiting and resuming, a start where none is legal,
\* a failure that tells of another error, and ends that race; three of the ids are
\* used for several intents.
LifecycleCommands ==
  {Open(k1), To(k2, "start_run"),
   To(k3, "wait_for_approval"), To(k3, "wait_for_resolution"),
   To(k4, "resume_run"), To(k4, "fail_run"), To(k4, "cancel_run"),
   To(k5, "start_run"), To(k5, "succeed_run"), FailWith(k5, OtherError)}

\* The transaction instance: a start and a charge racing for one run row, and a
\* deadline check that arrives under the id of the start.
RaceCommands ==
  {Open(k1), To(k2, "start_run"), To(k2, "enforce_deadline"),
   Spend(k3, Steps(ch1, 1)), To(k4, "cancel_run")}

\* The smallest race: two commands for one run, one of them sent twice.
TwoCommands == {Open(k1), To(k2, "start_run"), To(k3, "cancel_run")}

\* A charge that ends the run, and is sent again.
OverrunCommands == {Open(k1), To(k2, "start_run"), Spend(k3, Steps(ch1, 3))}
=============================================================================
