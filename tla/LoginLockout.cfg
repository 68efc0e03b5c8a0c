SPECIFICATION Spec
CONSTANTS
    Calls = {c1, c2, c3}
    MaxAttempts = 5
    LockoutDuration = 2
    MaxFaults = 2
INVARIANTS
    AttemptsBound
    CounterWillExpire
PROPERTY LockoutEnds
