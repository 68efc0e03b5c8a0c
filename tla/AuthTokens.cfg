SPECIFICATION Spec
CONSTANTS
    Calls = {c1, c2}
    MaxTokens = 4
    MaxChanges = 1
    MaxFaults = 1
SYMMETRY Symmetry
INVARIANTS
    LogoutAllSticks
    PasswordChangeCutsOff
    SuccessorBound
    LoginSurvives
