SPECIFICATION Spec
CONSTANTS
    old = old
    new = new
    V1 = {old}
    V2 = {new}
    Threshold = 3
    Overhead = 1
    MaxMsgs = 6
    MaxCrashes = 2
INVARIANTS TypeOK RememberedIfAnswered
\* A behaviour may stop: the messages are bounded.
CHECK_DEADLOCK FALSE
