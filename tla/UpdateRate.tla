----------------------------- MODULE UpdateRate -----------------------------
(***************************************************************************)
(* The timing of the RT thread: PrecisionUpdateRate, which sleeps until    *)
(* periodic deadlines and accounts for the ones it misses, with the        *)
(* correction DCSyncController computes from the distributed clock, in the *)
(* order in which the loop of the executor calls them.  Times are the      *)
(* timespecs of the code, with C++'s division that truncates towards zero; *)
(* the doubles of the controller are exact fractions here.                 *)
(***************************************************************************)
EXTENDS Integers

CONSTANTS
    Billion,     \* billion: nanoseconds in a second
    EarlyStop,   \* sleep_early_stop_ns
    TimeStep,    \* dc_cycle_time, the period
    SyncOffset,  \* master_send_offset
    PGain, IGain, Scale,  \* p_gain_ = PGain/Scale, i_gain_ = IGain/Scale
    Starts,      \* nanoseconds of the clock when the object is constructed
    DcPhases,    \* possible distances of the distributed from the local clock
    Durations,   \* what an update_rt(), or a pause before it, may take
    MaxJitter,   \* bound: how late clock_nanosleep() returns
    MaxSteps     \* bound: calls of step() and reset()

ASSUME ClockAssumption == /\ Billion \in Nat \ {0} /\ EarlyStop \in 0..Billion
                          /\ Starts \subseteq 0..(Billion - 1)
ASSUME PeriodAssumption == TimeStep \in Nat \ {0}
ASSUME GainAssumption == PGain \in Nat /\ IGain \in Nat /\ Scale \in Nat \ {0}
ASSUME DcAssumption == SyncOffset \in Int /\ \A p \in DcPhases : p \in Int /\ p >= SyncOffset
ASSUME BoundAssumption == Durations \subseteq Nat /\ MaxJitter \in Nat /\ MaxSteps \in Nat

VARIABLES
    now,          \* CLOCK_MONOTONIC
    sleepEnd,     \* sleep_end_
    lastDelay,    \* last_delay_ns_
    accumulated,  \* accumulated_delay_ns_
    overruns,     \* overrun_count_
    dcEnabled, dcPhase,   \* the distributed clock of this execution
    integral, lastError,  \* DCSyncController
    correction,   \* what update_rt() has returned, 0 for std::nullopt
    pc,           \* step of the RT thread
    calls,        \* number of calls of step() and reset()
    started, steps, corrections,  \* history since the last reset(): its time, steps, sum of corrections
    dcSample      \* history: the DC time of the last update

rate == <<sleepEnd, lastDelay, accumulated, overruns>>
dc == <<dcEnabled, dcPhase, integral, lastError, correction, dcSample>>
history == <<started, steps, corrections>>
vars == <<now, rate, dc, pc, calls, history>>

-----------------------------------------------------------------------------
(* Arithmetic.                                                             *)

\* n / d and n % d of C++.
Quotient(n, d) == IF n >= 0 THEN n \div d ELSE -((-n) \div d)
Remainder(n, d) == n - d * Quotient(n, d)

SmallerThan(s, t) == s.sec < t.sec \/ (s.sec = t.sec /\ s.nsec < t.nsec)

DiffNs(s, t) == (s.sec - t.sec) * Billion + (s.nsec - t.nsec)

\* Mutant: a negative remainder is not normalized.
AddNsKeepsNegative(t, n) ==
    LET sec == t.sec + Quotient(n, Billion)
        nsec == t.nsec + Remainder(n, Billion)
    IN IF nsec >= Billion THEN [sec |-> sec + 1, nsec |-> nsec - Billion]
       ELSE [sec |-> sec, nsec |-> nsec]

AddNs(t, n) ==
    LET sec == t.sec + Quotient(n, Billion)
        nsec == t.nsec + Remainder(n, Billion)
    IN IF nsec >= Billion THEN [sec |-> sec + 1, nsec |-> nsec - Billion]
       ELSE IF nsec < 0 THEN [sec |-> sec - 1, nsec |-> nsec + Billion]
       ELSE [sec |-> sec, nsec |-> nsec]

\* The error the controller works on: the way from the DC time to the nearest boundary of
\* a DC cycle.  Mutant: to the boundary before it.
ErrorToPrevious(t) == -Remainder(t - SyncOffset, TimeStep)

TimeError(t) ==
    LET delta == Remainder(t - SyncOffset, TimeStep)
    IN -(IF delta > TimeStep \div 2 THEN delta - TimeStep ELSE delta)

-----------------------------------------------------------------------------
Init ==
    /\ now \in [sec : {1}, nsec : Starts]
    /\ sleepEnd = now
    /\ lastDelay = 0 /\ accumulated = 0 /\ overruns = 0
    /\ dcEnabled \in BOOLEAN
    /\ dcPhase \in DcPhases
    /\ integral = 0 /\ lastError = 0 /\ correction = 0
    /\ pc = "update"
    /\ calls = 0 /\ started = now /\ steps = 0 /\ corrections = 0
    /\ dcSample = SyncOffset

\* update_rt() takes some time; before the first one, that is since the construction of
\* the executor.  At its end the DC time is fed to the controller.
Update ==
    /\ pc = "update" /\ calls < MaxSteps
    /\ \E d \in Durations : now' = AddNs(now, d)
    /\ IF dcEnabled
       THEN /\ dcSample' = DiffNs(now', [sec |-> 0, nsec |-> 0]) + dcPhase
            /\ lastError' = TimeError(dcSample')
            /\ integral' = integral + lastError'
            /\ correction' = Quotient(lastError' * PGain + integral' * IGain, Scale)
       ELSE UNCHANGED <<dcSample, lastError, integral, correction>>
    /\ pc' = "step"
    /\ UNCHANGED <<rate, dcEnabled, dcPhase, calls, history>>

\* Mutant: after an overrun the next deadline follows the one that was missed.
OverrunKeepsDeadline(deadline) ==
    /\ overruns' = overruns + 1
    /\ lastDelay' = DiffNs(now, deadline)
    /\ accumulated' = accumulated + lastDelay'
    /\ sleepEnd' = AddNs(deadline, TimeStep)

\* Mutant: the delay replaces the sum of the delays.
OverrunForgets(deadline) ==
    /\ overruns' = overruns + 1
    /\ lastDelay' = DiffNs(now, deadline)
    /\ accumulated' = lastDelay'
    /\ sleepEnd' = AddNs(now, TimeStep)

Overrun(deadline) ==
    /\ overruns' = overruns + 1
    /\ lastDelay' = DiffNs(now, deadline)
    /\ accumulated' = accumulated + lastDelay'
    /\ sleepEnd' = AddNs(now, TimeStep)

\* Mutant: the delay of an earlier overrun is still reported.
PunctualKeepsDelay(deadline) ==
    sleepEnd' = deadline /\ UNCHANGED <<lastDelay, accumulated, overruns>>

Punctual(deadline) ==
    sleepEnd' = deadline /\ lastDelay' = 0 /\ UNCHANGED <<accumulated, overruns>>

\* step() up to the sleep.
Step ==
    /\ pc = "step"
    /\ LET deadline == AddNs(sleepEnd, TimeStep + correction)
       IN IF SmallerThan(deadline, now) THEN Overrun(deadline) ELSE Punctual(deadline)
    /\ pc' = "sleep"
    /\ calls' = calls + 1 /\ steps' = steps + 1 /\ corrections' = corrections + correction
    /\ UNCHANGED <<now, dc, started>>

\* high_precision_sleep(): clock_nanosleep() until shortly before the deadline.  It returns
\* at once for a time in the past, with an error for a malformed one, and whenever a signal
\* interrupts it (EINTR is not looked at): the busy waiting then does all of the rest, and
\* goes through every moment at which a later signal could have come.
Early == AddNs(sleepEnd, -EarlyStop)
NanoSleep ==
    /\ pc = "sleep"
    /\ \/ UNCHANGED now
       \/ /\ SmallerThan(now, Early) /\ Early.nsec \in 0..(Billion - 1)
          /\ \E j \in 0..MaxJitter : now' = AddNs(Early, j)
    /\ pc' = "poll"
    /\ UNCHANGED <<rate, dc, calls, history>>

\* The busy waiting for the remaining time; each look at the clock takes a nanosecond.
Poll ==
    /\ pc = "poll"
    /\ IF SmallerThan(now, sleepEnd)
       THEN now' = AddNs(now, 1) /\ UNCHANGED pc
       ELSE pc' = "awake" /\ UNCHANGED now
    /\ UNCHANGED <<rate, dc, calls, history>>

Return ==
    /\ pc = "awake"
    /\ pc' = "update"
    /\ UNCHANGED <<now, rate, dc, calls, history>>

\* reset(), for a resynchronization after a pause; the constructor calls it, the executor
\* does not.
Reset ==
    /\ pc = "update" /\ calls < MaxSteps
    /\ \E d \in Durations : now' = AddNs(now, d)
    /\ sleepEnd' = now'
    /\ lastDelay' = 0 /\ accumulated' = 0 /\ overruns' = 0
    /\ calls' = calls + 1
    /\ started' = now' /\ steps' = 0 /\ corrections' = 0
    /\ UNCHANGED <<dc, pc>>

Next == Update \/ Step \/ NanoSleep \/ Poll \/ Return \/ Reset

Spec == Init /\ [][Next]_vars

-----------------------------------------------------------------------------
\* Types: every timespec, also the one given to clock_nanosleep(), is well-formed.
Timespec == [sec : Int, nsec : 0..(Billion - 1)]
TypeOK ==
    /\ now \in Timespec /\ sleepEnd \in Timespec /\ Early \in Timespec /\ started \in Timespec
    /\ lastDelay \in Nat /\ accumulated \in Nat /\ overruns \in Nat
    /\ dcEnabled \in BOOLEAN
    /\ {dcPhase, integral, lastError, correction, corrections, dcSample} \subseteq Int
    /\ pc \in {"update", "step", "sleep", "poll", "awake"}
    /\ calls \in 0..MaxSteps /\ steps \in 0..calls

\* No drift: since the last reset the deadline has moved by one period and one correction
\* for each step, and by nothing else than the delays step() reports and one period more
\* for each of the overruns it reports.
DeadlineIsAccounted ==
    DiffNs(sleepEnd, started) =
        (steps + overruns) * TimeStep + corrections + accumulated

\* "adjusts the deadline to the current time plus one time step": before it sleeps, step()
\* has a deadline that is not in the past, whatever was missed and whatever the
\* correction, and at most one corrected period ahead.
DeadlineIsAhead ==
    pc = "sleep" =>
        /\ DiffNs(sleepEnd, now) >= 0
        /\ DiffNs(sleepEnd, now) <= TimeStep + (IF correction > 0 THEN correction ELSE 0)

\* How far the clock may be beyond the deadline when a sleep ends.
Oversleep == IF MaxJitter > EarlyStop THEN MaxJitter - EarlyStop ELSE 0

\* "sleeps until that deadline is reached": step() never returns early, and late only by
\* what clock_nanosleep() oversleeps beyond the time kept for busy waiting.
WakesOnTime ==
    pc = "awake" =>
        /\ DiffNs(now, sleepEnd) >= 0
        /\ DiffNs(now, sleepEnd) <= Oversleep

\* The controller steers the DC time to the nearest boundary of a DC cycle (shifted by
\* master_send_offset), never over more than half a cycle.
SteersToNearestBoundary ==
    /\ (dcSample - SyncOffset + lastError) % TimeStep = 0
    /\ 2 * lastError \in -TimeStep..TimeStep

-----------------------------------------------------------------------------
\* A timespec as a number of nanoseconds.
Ns(t) == t.sec * Billion + t.nsec

\* The promise of the class, in plain numbers of nanoseconds.
Timer == INSTANCE IntervalTimer
    WITH now        <- Ns(now),
         deadline   <- Ns(sleepEnd),
         totalDelay <- accumulated,
         sleeping   <- pc \in {"sleep", "poll"}

\* The two-digit arithmetic of the code, its sleep in two stages and its order of calls
\* amount to the ideal timer: each step() moves the deadline, reports what was missed since
\* the last one and nothing else, and returns when it should.
ImplementsTimer == Timer!TimerSpec

-----------------------------------------------------------------------------
(* The inductive invariant behind the properties.                          *)

\* Where the clock and the deadline are at each step of the RT thread: the deadline has
\* been reached whenever step() has returned.
ClockAndDeadline ==
    /\ Ns(now) >= 0
    /\ pc \in {"update", "step", "awake"} => Ns(sleepEnd) <= Ns(now)
    /\ pc = "sleep" =>
         /\ Ns(now) <= Ns(sleepEnd)
         /\ Ns(sleepEnd) <= Ns(now) + TimeStep + (IF correction > 0 THEN correction ELSE 0)
    /\ pc \in {"poll", "awake"} => Ns(now) <= Ns(sleepEnd) + Oversleep

\* DeadlineIsAccounted in nanoseconds.
Accounted ==
    Ns(sleepEnd) = Ns(started) + (steps + overruns) * TimeStep + corrections + accumulated

\* The distributed clock is never behind its offset, and the bound on the calls.
InRange ==
    /\ dcPhase \in DcPhases
    /\ pc = "step" => calls < MaxSteps

\* Types, where the clock and the deadline are at each step, the account of the deadline and
\* the error of the controller agree with each other, however late the RT thread is.
IInv == TypeOK /\ InRange /\ ClockAndDeadline /\ Accounted /\ SteersToNearestBoundary
=============================================================================
