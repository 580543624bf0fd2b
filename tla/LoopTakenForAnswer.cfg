SPECIFICATION Spec
CONSTANTS
  a = a
  b = b
  c = c
  s = s
  Bot = {a, b, c, s}
  Id = {i1, i2}
  Peers <- RingPeers
  Headless = {s}
  Requester = {s}
  LlmIds = {}
  MaxAct = 4
  MaxCalls = 1
  MaxInject = 1
  MaxFaults = 0
  MaxCrash = 0
  NoId = NoId
  NoMsg = NoMsg
INVARIANTS
  LoopIsRefused
\* A behaviour may stop: outside requests and accepted tasks are bounded.
CHECK_DEADLOCK FALSE
