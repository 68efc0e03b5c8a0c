SPECIFICATION Spec
CONSTANTS
    Checks = {c1}
    MaxAttempts = 2
    AttemptsLife = 2
    MaxFaults = 0
INVARIANT
    MailedCodeVerifies
