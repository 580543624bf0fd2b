SPECIFICATION FairSpec
CONSTANTS
  p = p
  q = q
  t1 = t1
  t2 = t2
  t3 = t3
  Peer = {p, q}
  Turn = {t1, t2, t3}
  From <- TwoOfOne
  MaxSteps = 2
  MaxCalls = 2
INVARIANTS
  TypeOK
  OneSystemPrompt
  CallsAnsweredInOrder
  RefusedOnlyIfInterrupted
PROPERTIES
  EveryTurnEnds
\* A behaviour stops when every task is done.
CHECK_DEADLOCK FALSE
