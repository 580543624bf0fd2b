SPECIFICATION Spec
CONSTANTS
  a = a
  b = b
  c = c
  s = s
  Bot = {a, b, s}
  Id = {i1, i2}
  Peers <- OneWayIn
  Headless = {s}
  Requester = {s}
  LlmIds = {}
  MaxAct = 3
  MaxCalls = 2
  MaxInject = 2
  MaxFaults = 0
  MaxCrash = 0
  NoId = NoId
  NoMsg = NoMsg
INVARIANTS
  TypeOK
  AnswersOwnId
PROPERTIES
  SlotsPromise
\* A behaviour may stop: outside requests and accepted tasks are bounded.
CHECK_DEADLOCK FALSE
