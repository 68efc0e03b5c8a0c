SPECIFICATION Spec
CONSTANTS
    AlertIds = {a1, a2}
    Keys = {k1}
    Prices = {90, 99}
    Requests = {r1}
    Passes = {p1, p2}
    NoKey = NoKey
    NoAlert = NoAlert
    NoRequest = NoRequest
    MaxFaults = 1
INVARIANTS
    MarkedAfterMail
    LateMailBound
    MailedOncePerFault
PROPERTIES
    NoMailAfterMark
    JobKeepsScanning
