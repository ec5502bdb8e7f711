SPECIFICATION FairSpec
CONSTANTS
  c1 = c1
  c2 = c2
  c3 = c3
  Callers = {c1, c2, c3}
  Token = 2
  Rate = 1
  Burst = 2
PROPERTIES ImplementsRateLimit EveryWaiterIsServed
