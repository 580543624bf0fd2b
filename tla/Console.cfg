SPECIFICATION Spec
CONSTANTS
    q1 = q1
    q2 = q2
    c1 = c1
    v1 = v1
    Question = {q1, q2}
    Chat = {c1}
    Workers = 2
    Failing = {q1}
    MaxAnswers = 2
    Viewer = {v1}
    DispatcherSize = 1
    ViewerSize = 1
    MaxViews = 2
    MaxEvents = 3
INVARIANTS TypeOK StreamInOrder AnswerIsFresh AnswerNotMissed
\* A behaviour may stop: when all answers have come and are handled, or when a viewer that
\* left holds the lock of the store for good.
CHECK_DEADLOCK FALSE
