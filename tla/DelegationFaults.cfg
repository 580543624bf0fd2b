SPECIFICATION FairSpec
CONSTANTS
  a = a
  b = b
  c = c
  s = s
  Bot = {a, b, s}
  Id = {i1, i2}
  Peers <- MutualPeers
  Headless = {s}
  Requester = {s}
  LlmIds = {i1}
  MaxAct = 4
  MaxCalls = 1
  MaxInject = 1
  MaxFaults = 1
  MaxCrash = 1
  NoId = NoId
  NoMsg = NoMsg
INVARIANTS
  SlotsExact
  PendingOwned
  NoEcho
  ReturnRunOnlyAfterRestart
PROPERTIES
  EveryTaskEnds
\* A behaviour may stop: outside requests and accepted tasks are bounded.
CHECK_DEADLOCK FALSE
