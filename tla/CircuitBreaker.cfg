SPECIFICATION Spec
CONSTANTS
    Calls = {c1, c2, c3}
    FailureThreshold = 3
    SuccessThreshold = 2
    Timeout = 3
    ResetTimeout = 5
    MaxFailures = 5
INVARIANTS
    CountersFitState
PROPERTIES
    ImplementsContract
    OpenIsLeft
    Recovers
