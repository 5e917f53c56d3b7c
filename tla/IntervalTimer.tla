---------------------------- MODULE IntervalTimer ----------------------------
(***************************************************************************)
(* What PrecisionUpdateRate promises, in plain numbers of nanoseconds: the *)
(* deadline moves on by one corrected period per step; a deadline that has *)
(* been missed is reported with the time it was missed by, and the next    *)
(* one is a full period after now; a sleep ends neither before the         *)
(* deadline nor more than Oversleep after it.  UpdateRate implements this. *)
(***************************************************************************)
EXTENDS Integers

CONSTANTS
    TimeStep,  \* the period
    Oversleep  \* how long after the deadline a sleep may end

VARIABLES
    now, deadline,
    lastDelay, totalDelay, overruns,  \* the statistics
    correction,                       \* what the next step adds to the period
    sleeping

statistics == <<lastDelay, totalDelay, overruns>>
timerVars == <<now, deadline, statistics, correction, sleeping>>

TimerInit ==
    /\ now \in Nat /\ deadline = now
    /\ lastDelay = 0 /\ totalDelay = 0 /\ overruns = 0
    /\ correction = 0 /\ ~sleeping

TimePasses == now' \in Nat /\ now' >= now

\* The caller works, for any time, and decides on the next correction.
Work ==
    /\ ~sleeping
    /\ TimePasses /\ correction' \in Int
    /\ UNCHANGED <<deadline, statistics, sleeping>>

\* A step whose deadline is yet to come.
Advance ==
    /\ ~sleeping /\ sleeping'
    /\ deadline' = deadline + TimeStep + correction /\ deadline' >= now
    /\ lastDelay' = 0
    /\ UNCHANGED <<now, totalDelay, overruns, correction>>

\* A step whose deadline has been missed.
CatchUp ==
    /\ ~sleeping /\ sleeping'
    /\ lastDelay' = now - (deadline + TimeStep + correction) /\ lastDelay' > 0
    /\ totalDelay' = totalDelay + lastDelay'
    /\ overruns' = overruns + 1
    /\ deadline' = now + TimeStep
    /\ UNCHANGED <<now, correction>>

Sleep ==
    /\ sleeping
    /\ TimePasses /\ now' <= deadline + Oversleep
    /\ UNCHANGED <<deadline, statistics, correction, sleeping>>

WakeUp ==
    /\ sleeping /\ ~sleeping'
    /\ deadline <= now /\ now <= deadline + Oversleep
    /\ UNCHANGED <<now, deadline, statistics, correction>>

\* reset(): the deadline is the time of the call, and the statistics start anew.
Restart ==
    /\ ~sleeping
    /\ TimePasses /\ deadline' = now'
    /\ lastDelay' = 0 /\ totalDelay' = 0 /\ overruns' = 0
    /\ UNCHANGED <<correction, sleeping>>

TimerNext == Work \/ Advance \/ CatchUp \/ Sleep \/ WakeUp \/ Restart

TimerSpec == TimerInit /\ [][TimerNext]_timerVars
=============================================================================
