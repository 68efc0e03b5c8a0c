SPECIFICATION Spec
CONSTANTS
    AlertIds = {a1, a2}
    Keys = {k1}
    Prices = {95, 100, 105}
    Requests = {r1}
    Passes = {p1, p2}
    NoKey = NoKey
    NoAlert = NoAlert
    NoRequest = NoRequest
    MaxFaults = 1
INVARIANT MailOnlyWhenReached
