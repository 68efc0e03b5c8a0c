SPECIFICATION Spec
CONSTANTS
    Jobs = {check, maintenance}
    Eager = {check}
    Http = http
    Startup = startup
    PoolSize = 2
    Shutdowns = {s1, s2}
INVARIANT ShutdownIsClean
CHECK_DEADLOCK FALSE
