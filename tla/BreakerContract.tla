-------------------------- MODULE BreakerContract --------------------------
(***************************************************************************)
(* What utils/circuitBreaker.ts promises the callers of a breaker, without *)
(* its counters: the circuit opens from either other state, stays open for *)
(* at least Timeout, is then tested in HALF_OPEN and only from there       *)
(* closes by itself.  A manual reset closes it at any time.                *)
(***************************************************************************)
EXTENDS Integers

CONSTANT Timeout

VARIABLES
    mode,       \* the CircuitState
    age,        \* time since the circuit last opened, counted up to Timeout
    epoch       \* flips with every manual reset, which makes resets visible

vars == <<mode, age, epoch>>

Init == mode = "CLOSED" /\ age = 0 /\ epoch = 0

Open ==
    /\ mode' = "OPEN"
    /\ age' = 0
    /\ UNCHANGED epoch

Test ==
    /\ mode = "OPEN"
    /\ age >= Timeout
    /\ mode' = "HALF_OPEN"
    /\ UNCHANGED <<age, epoch>>

Recover ==
    /\ mode = "HALF_OPEN"
    /\ mode' = "CLOSED"
    /\ UNCHANGED <<age, epoch>>

Reset ==
    /\ mode' = "CLOSED"
    /\ epoch' = 1 - epoch
    /\ UNCHANGED age

Age ==
    /\ age < Timeout
    /\ age' = age + 1
    /\ UNCHANGED <<mode, epoch>>

Next == Open \/ Test \/ Recover \/ Reset \/ Age

Spec == Init /\ [][Next]_vars
=============================================================================
