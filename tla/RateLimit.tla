------------------------------ MODULE RateLimit ------------------------------
(***************************************************************************)
(* ABSTRACT.  What a token bucket promises: credit flows in all the time   *)
(* up to a capacity, and each call it lets through takes one token of it.  *)
(* Who waits, who gives up and when anybody looks make no difference.      *)
(***************************************************************************)
EXTENDS Integers

CONSTANTS
  Token,     \* the credit of one call
  Rate,      \* credit per tick
  Capacity   \* burst, as credit

VARIABLE credit

FlowsIn == credit' = IF credit + Rate < Capacity THEN credit + Rate ELSE Capacity

LetThrough == credit >= Token /\ credit' = credit - Token

RateLimitSpec == credit = Capacity /\ [][FlowsIn \/ LetThrough]_credit
=============================================================================
