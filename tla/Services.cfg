SPECIFICATION Spec
CONSTANTS
    Parts = {"email", "factor", "owner", "backup", "dump", "history", "favorites", "monitor"}
    Checks = {c1, c2}
    MaxAttempts = 3
    AttemptsLife = 2
    VerifyFaults = 1
    Uses = {u1, u2}
    NCodes = 2
    MaxLists = 2
    Calls = {o1, o2}
    SessionLife = 2
    Jobs = {j1, j2}
    MaxKept = 1
    MaxMade = 3
    BackupFaults = 1
    Users = {v1, v2}
    DumpFaults = 1
    Tracked = {t1}
    Prices = {90, 100, 110}
    None = None
    HistoryFaults = 1
    Products = {f1, f2, f3, f4}
    PageLimit = 2
    MaxChanges = 2
    Rounds = {r1, r2}
    AlertType = "ddos_attack"
    AlertLife = 2
    EmergencyLife = 2
    MonitorFaults = 1
INVARIANTS
    GuessBound
    AcceptedBound
    RegenerationSticks
    DeactivationSticks
    RowHasFile
    NewestKept
    DumpIsClosed
    LagBound
    MissedBound
    AlertBound
PROPERTIES
    LockEnds
    NewestIsPrice
    EmergencyEnds
\* An owner session that was given out and has expired is never used again, and
\* the number of backups is bounded.
CHECK_DEADLOCK FALSE
