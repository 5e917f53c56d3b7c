-------------------------- MODULE UpdateRate_proofs --------------------------
(***************************************************************************)
(* Theorems of UpdateRate for every period, second, gain and jitter.  Once *)
(* the three operations of the code on timespecs are shown to be addition, *)
(* subtraction and comparison of numbers of nanoseconds, the rest is       *)
(* linear arithmetic.                                                      *)
(***************************************************************************)
EXTENDS UpdateRate, TLAPS

-----------------------------------------------------------------------------
(* Arithmetic.                                                             *)

\* Multiplication distributes over the sums that occur.
LEMMA Distributes ==
    ASSUME NEW a \in Int, NEW b \in Int, NEW k \in Int
    PROVE  /\ a * k \in Int
           /\ (a + b) * k = (a * k) + (b * k)
           /\ (a - b) * k = (a * k) - (b * k)
           /\ k * (-a) = -(k * a)
           /\ (a + 1) * k = (a * k) + k
           /\ (a - 1) * k = (a * k) - k
           /\ k * a = a * k
  BY SMT

\* What a division leaves.
LEMMA DivisionBounds ==
    ASSUME NEW n \in Nat, NEW d \in Nat \ {0}
    PROVE  /\ n \div d \in Nat
           /\ d * (n \div d) <= n
           /\ n < d * (n \div d) + d
  BY SMT

\* C++'s division and remainder: they belong together, and the remainder is smaller than
\* the divisor and has the sign of the dividend.
LEMMA RemainderBounds ==
    ASSUME NEW n \in Int, NEW d \in Nat \ {0}
    PROVE  /\ Quotient(n, d) \in Int
           /\ Remainder(n, d) \in Int
           /\ -d < Remainder(n, d) /\ Remainder(n, d) < d
           /\ n >= 0 => Remainder(n, d) >= 0
           /\ d * Quotient(n, d) + Remainder(n, d) = n
<1>1. CASE n >= 0
  <2> DEFINE q == n \div d
  <2>1. /\ q \in Nat /\ d * q <= n /\ n < d * q + d  BY <1>1, DivisionBounds
  <2>2. Quotient(n, d) = q BY <1>1 DEF Quotient
  <2> HIDE DEF q
  <2>3. d * q \in Int BY <2>1
  <2> QED BY <1>1, <2>1, <2>2, <2>3 DEF Remainder
<1>2. CASE n < 0
  <2> DEFINE q == (-n) \div d
  <2>1. /\ q \in Nat /\ d * q <= -n /\ -n < d * q + d  BY <1>2, DivisionBounds
  <2>2. Quotient(n, d) = -q BY <1>2 DEF Quotient
  <2> HIDE DEF q
  <2>3. d * q \in Int /\ d * (-q) = -(d * q) BY <2>1
  <2> QED BY <1>2, <2>1, <2>2, <2>3 DEF Remainder
<1> QED BY <1>1, <1>2

\* What is known of a timespec.
LEMMA TimespecFields ==
    ASSUME NEW t \in Timespec
    PROVE  /\ t.sec \in Int /\ t.nsec \in Int /\ 0 <= t.nsec /\ t.nsec < Billion
           /\ Billion \in Nat \ {0} /\ t.sec * Billion \in Int /\ Ns(t) \in Int
<1>1. Billion \in Nat \ {0}  BY ClockAssumption
<1>2. t.sec \in Int /\ t.nsec \in 0..(Billion - 1)  BY DEF Timespec
<1>3. t.sec * Billion \in Int  BY <1>1, <1>2, Distributes
<1> QED BY <1>1, <1>2, <1>3 DEF Ns

\* The three cases of addNs().
LEMMA AddNsCases ==
    ASSUME NEW t, NEW n
    PROVE  LET x == t.sec + Quotient(n, Billion)
               y == t.nsec + Remainder(n, Billion)
           IN /\ y >= Billion => AddNs(t, n) = [sec |-> x + 1, nsec |-> y - Billion]
              /\ ~(y >= Billion) /\ y < 0 => AddNs(t, n) = [sec |-> x - 1, nsec |-> y + Billion]
              /\ ~(y >= Billion) /\ ~(y < 0) => AddNs(t, n) = [sec |-> x, nsec |-> y]
  BY Zenon DEF AddNs

\* addNs() yields a timespec and adds.
LEMMA AddNsAdds ==
    ASSUME NEW t \in Timespec, NEW n \in Int
    PROVE  AddNs(t, n) \in Timespec /\ Ns(AddNs(t, n)) = Ns(t) + n
<1> DEFINE q == Quotient(n, Billion)
           r == Remainder(n, Billion)
           x == t.sec + q
           y == t.nsec + r
           B == Billion
<1>1. /\ y >= B => AddNs(t, n) = [sec |-> x + 1, nsec |-> y - B]
      /\ ~(y >= B) /\ y < 0 => AddNs(t, n) = [sec |-> x - 1, nsec |-> y + B]
      /\ ~(y >= B) /\ ~(y < 0) => AddNs(t, n) = [sec |-> x, nsec |-> y]
  BY Zenon, AddNsCases
<1>2. /\ B \in Nat \ {0} /\ t.sec \in Int /\ t.nsec \in Int /\ 0 <= t.nsec /\ t.nsec < B
  BY TimespecFields
<1>3. /\ q \in Int /\ r \in Int /\ -B < r /\ r < B /\ B * q + r = n
  BY <1>2, RemainderBounds
<1>4. x \in Int /\ y \in Int /\ -B < y /\ y < B + B  BY <1>2, <1>3
<1>5. x * B + y = Ns(t) + n
  <2> HIDE DEF q, r, B
  <2>1. (t.sec + q) * B = t.sec * B + q * B /\ B * q = q * B  BY <1>2, <1>3, Distributes
  <2>2. t.sec * B \in Int /\ q * B \in Int  BY <1>2, <1>3, Distributes
  <2>3. Ns(t) = t.sec * B + t.nsec  BY DEF Ns, B
  <2> QED BY <1>2, <1>3, <2>1, <2>2, <2>3
<1>6. \A a, b : Ns([sec |-> a, nsec |-> b]) = a * B + b  BY DEF Ns
<1>7. \A a \in Int, b \in Int : 0 <= b /\ b < B => [sec |-> a, nsec |-> b] \in Timespec
  BY <1>2 DEF Timespec
<1> HIDE DEF q, r, x, y, B
<1>8. /\ x * B \in Int /\ (x + 1) * B = x * B + B /\ (x - 1) * B = x * B - B
  BY <1>2, <1>4, Distributes
<1>9. CASE y >= B
  <2>1. (x + 1) * B + (y - B) = Ns(t) + n  BY <1>2, <1>4, <1>5, <1>8
  <2>2. x + 1 \in Int /\ y - B \in Int /\ 0 <= y - B /\ y - B < B  BY <1>2, <1>4, <1>9
  <2>3. AddNs(t, n) = [sec |-> x + 1, nsec |-> y - B]  BY <1>1, <1>9
  <2> QED BY <2>1, <2>2, <2>3, <1>6, <1>7
<1>10. CASE ~(y >= B) /\ y < 0
  <2>1. (x - 1) * B + (y + B) = Ns(t) + n  BY <1>2, <1>4, <1>5, <1>8
  <2>2. x - 1 \in Int /\ y + B \in Int /\ 0 <= y + B /\ y + B < B  BY <1>2, <1>4, <1>10
  <2>3. AddNs(t, n) = [sec |-> x - 1, nsec |-> y + B]  BY <1>1, <1>10
  <2> QED BY <2>1, <2>2, <2>3, <1>6, <1>7
<1>11. CASE ~(y >= B) /\ ~(y < 0)
  <2>1. x \in Int /\ y \in Int /\ 0 <= y /\ y < B  BY <1>2, <1>4, <1>11
  <2>2. AddNs(t, n) = [sec |-> x, nsec |-> y]  BY <1>1, <1>11
  <2> QED BY <2>1, <2>2, <1>5, <1>6, <1>7
<1> QED BY <1>9, <1>10, <1>11

\* diffNs() subtracts.
LEMMA DiffNsSubtracts ==
    ASSUME NEW s \in Timespec, NEW t \in Timespec
    PROVE  DiffNs(s, t) = Ns(s) - Ns(t)
<1> DEFINE a == s.sec
           b == t.sec
<1>1. /\ a \in Int /\ b \in Int /\ s.nsec \in Int /\ t.nsec \in Int
      /\ Billion \in Int /\ a * Billion \in Int /\ b * Billion \in Int
  BY TimespecFields
<1>2. /\ DiffNs(s, t) = (a - b) * Billion + (s.nsec - t.nsec)
      /\ Ns(s) = a * Billion + s.nsec /\ Ns(t) = b * Billion + t.nsec
  BY DEF DiffNs, Ns
<1> HIDE DEF a, b
<1>3. (a - b) * Billion = a * Billion - b * Billion  BY <1>1, Distributes
<1> QED BY <1>1, <1>2, <1>3

\* smallerThan() compares.
LEMMA SmallerThanCompares ==
    ASSUME NEW s \in Timespec, NEW t \in Timespec
    PROVE  SmallerThan(s, t) <=> Ns(s) < Ns(t)
<1> DEFINE a == s.sec
           b == t.sec
           B == Billion
<1>1. /\ a \in Int /\ b \in Int /\ s.nsec \in Int /\ t.nsec \in Int
      /\ B \in Nat \ {0} /\ a * B \in Int /\ b * B \in Int
      /\ 0 <= s.nsec /\ s.nsec < B /\ 0 <= t.nsec /\ t.nsec < B
  BY TimespecFields
<1>2. /\ SmallerThan(s, t) <=> a < b \/ (a = b /\ s.nsec < t.nsec)
      /\ Ns(s) = a * B + s.nsec /\ Ns(t) = b * B + t.nsec
  BY DEF SmallerThan, Ns
<1> HIDE DEF a, b, B
<1>3. \A m \in Int, n \in Int : m < n => m * B + B <= n * B
  <2> TAKE m \in Int, n \in Int
  <2> HAVE m < n
  <2>1. \E k \in Nat : n = m + 1 + k
    <3>1. n - m - 1 \in Nat /\ n = m + 1 + (n - m - 1)  OBVIOUS
    <3> QED BY <3>1
  <2>2. PICK k \in Nat : n = m + 1 + k  BY <2>1
  <2>3. n * B = (m + 1) * B + k * B /\ (m + 1) * B = m * B + B  BY <1>1, <2>2, Distributes
  <2>4. k * B \in Nat /\ m * B \in Int BY <1>1
  <2> QED BY <1>1, <2>3, <2>4
<1>4. CASE a < b  BY <1>1, <1>2, <1>3, <1>4
<1>5. CASE a = b  BY <1>1, <1>2, <1>5
<1>6. CASE b < a  BY <1>1, <1>2, <1>3, <1>6
<1> QED BY <1>1, <1>4, <1>5, <1>6

\* A multiple of the period has no remainder.
LEMMA MultipleOfPeriod ==
    ASSUME NEW k \in Int, NEW d \in Nat \ {0}
    PROVE  (d * k) % d = 0
  BY SMT

\* The error is the way to the nearest boundary, if the clock is not behind the offset.
LEMMA TimeErrorIsNearest ==
    ASSUME NEW t \in Int, t >= SyncOffset
    PROVE  /\ TimeError(t) \in Int
           /\ (t - SyncOffset + TimeError(t)) % TimeStep = 0
           /\ 2 * TimeError(t) \in -TimeStep..TimeStep
<1> DEFINE x == t - SyncOffset
           q == Quotient(x, TimeStep)
           r == Remainder(x, TimeStep)
           h == TimeStep \div 2
<1>1. TimeStep \in Nat \ {0} /\ x \in Nat  BY PeriodAssumption, DcAssumption
<1>2. q \in Int /\ r \in Int /\ 0 <= r /\ r < TimeStep /\ TimeStep * q + r = x
  BY <1>1, RemainderBounds
<1>3. h \in Nat /\ 2 * h <= TimeStep /\ TimeStep < 2 * h + 2  BY <1>1
<1>4. TimeError(t) = -(IF r > h THEN r - TimeStep ELSE r)  BY DEF TimeError
<1> HIDE DEF q, r, h
<1>5. CASE r > h
  <2>1. TimeError(t) = TimeStep - r  BY <1>1, <1>2, <1>4, <1>5
  <2>2. x + (TimeStep - r) = TimeStep * (q + 1)  BY <1>1, <1>2
  <2>3. (TimeStep * (q + 1)) % TimeStep = 0  BY <1>1, <1>2, MultipleOfPeriod
  <2> QED BY <2>1, <2>2, <2>3, <1>1, <1>2, <1>3, <1>5
<1>6. CASE ~(r > h)
  <2>1. TimeError(t) = -r  BY <1>1, <1>2, <1>4, <1>6
  <2>2. x + (-r) = TimeStep * q  BY <1>1, <1>2
  <2>3. (TimeStep * q) % TimeStep = 0  BY <1>1, <1>2, MultipleOfPeriod
  <2> QED BY <2>1, <2>2, <2>3, <1>1, <1>2, <1>3, <1>6
<1> QED BY <1>5, <1>6

-----------------------------------------------------------------------------
(* The invariant.                                                          *)

LEMMA InitEstablishesIInv == Init => IInv
<1> SUFFICES ASSUME Init PROVE IInv  OBVIOUS
<1> USE ClockAssumption, PeriodAssumption, DcAssumption, BoundAssumption
<1>1. now \in Timespec /\ sleepEnd = now /\ started = now /\ now.sec = 1
  <2>1. now \in [sec : {1}, nsec : Starts] /\ sleepEnd = now /\ started = now  BY DEF Init
  <2>2. now = [sec |-> now.sec, nsec |-> now.nsec] /\ now.sec = 1 /\ now.nsec \in Starts  BY <2>1
  <2>3. now.nsec \in 0..(Billion - 1)  BY <2>2, ClockAssumption
  <2> QED BY <2>1, <2>2, <2>3 DEF Timespec
<1>2. Ns(now) \in Int /\ Ns(now) >= 0
  <2>1. now.sec * Billion = Billion /\ now.nsec \in Nat  BY <1>1 DEF Timespec
  <2> QED BY <2>1 DEF Ns
<1>3. Early \in Timespec  BY <1>1, AddNsAdds DEF Early
<1>4. TypeOK  BY <1>1, <1>3 DEF Init, TypeOK
<1>5. InRange  BY DEF Init, InRange
<1>6. ClockAndDeadline  BY <1>1, <1>2 DEF Init, ClockAndDeadline
<1>7. Accounted
  <2>1. (steps + overruns) * TimeStep = 0  BY DEF Init
  <2> QED BY <1>1, <1>2, <2>1 DEF Init, Accounted
<1>8. SteersToNearestBoundary
  <2>1. dcSample - SyncOffset + lastError = 0 /\ lastError = 0  BY DEF Init
  <2> QED BY <2>1 DEF SteersToNearestBoundary
<1> QED BY <1>4, <1>5, <1>6, <1>7, <1>8 DEF IInv

\* What the steps use of the invariant and of the assumptions.
LEMMA Facts ==
    ASSUME TypeOK
    PROVE  /\ now \in Timespec /\ sleepEnd \in Timespec /\ started \in Timespec /\ Early \in Timespec
           /\ Ns(now) \in Int /\ Ns(sleepEnd) \in Int /\ Ns(started) \in Int
           /\ Ns(Early) = Ns(sleepEnd) - EarlyStop
           /\ EarlyStop \in Nat /\ TimeStep \in Nat \ {0} /\ SyncOffset \in Int
           /\ MaxJitter \in Nat /\ Durations \subseteq Nat /\ MaxSteps \in Nat
           /\ Oversleep \in Nat
<1> USE ClockAssumption, PeriodAssumption, DcAssumption, BoundAssumption
<1>1. EarlyStop \in Nat /\ MaxJitter \in Nat  OBVIOUS
<1>2. now \in Timespec /\ sleepEnd \in Timespec /\ started \in Timespec /\ Early \in Timespec
  BY DEF TypeOK
<1>3. Ns(now) \in Int /\ Ns(sleepEnd) \in Int /\ Ns(started) \in Int  BY <1>2, TimespecFields
<1>4. Ns(Early) = Ns(sleepEnd) - EarlyStop  BY <1>1, <1>2, <1>3, AddNsAdds DEF Early
<1>5. Oversleep \in Nat  BY <1>1 DEF Oversleep
<1> QED BY <1>1, <1>2, <1>3, <1>4, <1>5

LEMMA UpdatePreserves == IInv /\ Update => IInv'
<1> SUFFICES ASSUME IInv, Update PROVE IInv'  OBVIOUS
<1> USE DEF IInv
<1>1. PICK d \in Durations : now' = AddNs(now, d)  BY DEF Update
<1>2. /\ pc = "update" /\ pc' = "step" /\ calls < MaxSteps
      /\ UNCHANGED <<sleepEnd, lastDelay, accumulated, overruns, dcEnabled, dcPhase, calls,
                     started, steps, corrections>>
  BY DEF Update, rate, history
<1>3. d \in Nat  BY <1>1, Facts
<1>4. now' \in Timespec /\ Ns(now') = Ns(now) + d  BY <1>1, <1>3, Facts, AddNsAdds
<1>5. /\ {dcPhase, integral, lastError, correction, dcSample}' \subseteq Int
      /\ SteersToNearestBoundary'
  <2>1. CASE ~dcEnabled
    <3>1. UNCHANGED <<dcSample, lastError, integral, correction>>  BY <2>1 DEF Update
    <3> QED BY <1>2, <3>1 DEF TypeOK, SteersToNearestBoundary
  <2>2. CASE dcEnabled
    <3> DEFINE zero == [sec |-> 0, nsec |-> 0]
    <3>1. /\ dcSample' = DiffNs(now', zero) + dcPhase
          /\ lastError' = TimeError(dcSample')
          /\ integral' = integral + lastError'
          /\ correction' = Quotient(lastError' * PGain + integral' * IGain, Scale)
      BY <2>2 DEF Update
    <3>2. zero \in Timespec /\ Ns(zero) = 0  BY ClockAssumption DEF Timespec, Ns
    <3>3. DiffNs(now', zero) = Ns(now) + d  BY <1>3, <1>4, <3>2, Facts, DiffNsSubtracts
    <3>4. Ns(now) + d \in Nat  BY <1>3, Facts DEF ClockAndDeadline
    <3>5. dcPhase \in Int /\ dcPhase >= SyncOffset /\ SyncOffset \in Int
      BY DcAssumption DEF InRange
    <3>6. dcSample' \in Int /\ dcSample' >= SyncOffset  BY <3>1, <3>3, <3>4, <3>5
    <3>7. lastError' \in Int /\ SteersToNearestBoundary'
      BY <3>1, <3>6, TimeErrorIsNearest DEF SteersToNearestBoundary
    <3>8. integral' \in Int  BY <3>1, <3>7 DEF TypeOK
    <3>9. lastError' * PGain + integral' * IGain \in Int  BY <3>7, <3>8, GainAssumption
    <3>10. correction' \in Int  BY <3>1, <3>9, GainAssumption, RemainderBounds
    <3> QED BY <1>2, <3>5, <3>6, <3>7, <3>8, <3>10
  <2> QED BY <2>1, <2>2
<1>6. Early' = Early  BY <1>2 DEF Early
<1>7. TypeOK'  BY <1>2, <1>4, <1>5, <1>6 DEF TypeOK
<1>8. InRange'  BY <1>2 DEF InRange
<1>9. Ns(sleepEnd)' = Ns(sleepEnd) /\ Ns(started)' = Ns(started) /\ Ns(now)' = Ns(now')
  BY <1>2 DEF Ns
<1>10. ClockAndDeadline'  BY <1>2, <1>3, <1>4, <1>9, Facts DEF ClockAndDeadline
<1>11. Accounted'  BY <1>2, <1>9 DEF Accounted
<1> QED BY <1>5, <1>7, <1>8, <1>10, <1>11

LEMMA StepPreserves == IInv /\ Step => IInv'
<1> SUFFICES ASSUME IInv, Step PROVE IInv'  OBVIOUS
<1> USE DEF IInv
<1> DEFINE deadline == AddNs(sleepEnd, TimeStep + correction)
<1>1. /\ pc = "step" /\ pc' = "sleep" /\ calls' = calls + 1 /\ steps' = steps + 1
      /\ corrections' = corrections + correction
      /\ UNCHANGED <<now, dcEnabled, dcPhase, integral, lastError, correction, dcSample, started>>
  BY DEF Step, dc
<1>2. /\ correction \in Int /\ corrections \in Int /\ accumulated \in Nat /\ overruns \in Nat
      /\ calls \in 0..MaxSteps /\ steps \in 0..calls /\ calls < MaxSteps /\ steps \in Nat
  <2>1. calls < MaxSteps  BY <1>1 DEF InRange
  <2>2. calls \in 0..MaxSteps /\ steps \in 0..calls /\ MaxSteps \in Nat  BY Facts DEF TypeOK
  <2>3. calls \in Nat /\ steps \in Nat  BY <2>2
  <2>4. correction \in Int /\ corrections \in Int /\ accumulated \in Nat /\ overruns \in Nat
    BY DEF TypeOK
  <2> QED BY <2>1, <2>2, <2>3, <2>4
<1>3. deadline \in Timespec /\ Ns(deadline) = Ns(sleepEnd) + TimeStep + correction
  <2>1. TimeStep + correction \in Int /\ sleepEnd \in Timespec /\ Ns(sleepEnd) \in Int
        /\ TimeStep \in Int /\ correction \in Int
    BY <1>2, Facts
  <2>2. deadline \in Timespec /\ Ns(deadline) = Ns(sleepEnd) + (TimeStep + correction)
    BY <2>1, AddNsAdds
  <2> HIDE DEF deadline
  <2> QED BY <2>1, <2>2
<1>4. IF Ns(deadline) < Ns(now)
      THEN Overrun(deadline)
      ELSE Punctual(deadline)
  BY <1>3, Facts, SmallerThanCompares DEF Step
<1> HIDE DEF deadline
<1>5. Ns(now)' = Ns(now) /\ Ns(started)' = Ns(started) /\ Ns(sleepEnd)' = Ns(sleepEnd')
  BY <1>1 DEF Ns
<1>6. Ns(sleepEnd) <= Ns(now) /\ Ns(now) >= 0  BY <1>1 DEF ClockAndDeadline
<1>7. SteersToNearestBoundary'  BY <1>1 DEF SteersToNearestBoundary
<1>8. InRange'  BY <1>1 DEF InRange
<1>9. sleepEnd' \in Timespec /\ lastDelay' \in Nat /\ accumulated' \in Nat /\ overruns' \in Nat
      => TypeOK'
  <2>1. sleepEnd' \in Timespec => Early' \in Timespec  BY Facts, AddNsAdds DEF Early
  <2>2. calls' \in 0..MaxSteps /\ steps' \in 0..calls' /\ corrections' \in Int  BY <1>1, <1>2, Facts
  <2> QED BY <1>1, <2>1, <2>2 DEF TypeOK
<1>10. (steps' + overruns) * TimeStep = (steps + overruns) * TimeStep + TimeStep
  <2>1. (steps + overruns) \in Int /\ steps' + overruns = (steps + overruns) + 1  BY <1>1, <1>2
  <2> QED BY <2>1, Facts, Distributes
<1>11. (steps + overruns) * TimeStep \in Int  BY <1>2, Facts, Distributes
<1>12. CASE Ns(deadline) < Ns(now)
  <2>1. /\ overruns' = overruns + 1 /\ lastDelay' = Ns(now) - Ns(deadline)
        /\ accumulated' = accumulated + lastDelay' /\ sleepEnd' = AddNs(now, TimeStep)
    BY <1>3, <1>4, <1>12, Facts, DiffNsSubtracts DEF Overrun
  <2>2. sleepEnd' \in Timespec /\ Ns(sleepEnd') = Ns(now) + TimeStep
    BY <2>1, Facts, AddNsAdds
  <2>3. lastDelay' \in Nat /\ accumulated' \in Nat /\ overruns' \in Nat
    BY <1>2, <1>3, <1>12, <2>1, Facts
  <2>4. TypeOK'  BY <1>9, <2>2, <2>3
  <2>5. ClockAndDeadline'  BY <1>1, <1>2, <1>5, <1>6, <2>2, Facts DEF ClockAndDeadline
  <2>6. (steps' + overruns') * TimeStep = (steps + overruns) * TimeStep + TimeStep + TimeStep
    <3>1. (steps' + overruns) \in Int /\ steps' + overruns' = (steps' + overruns) + 1
      BY <1>1, <1>2, <2>1
    <3> QED BY <3>1, <1>10, Facts, Distributes
  <2>7. Accounted'
    BY <1>1, <1>2, <1>3, <1>5, <1>11, <2>1, <2>2, <2>6, Facts DEF Accounted
  <2> QED BY <1>7, <1>8, <2>4, <2>5, <2>7
<1>13. CASE ~(Ns(deadline) < Ns(now))
  <2>1. sleepEnd' = deadline /\ lastDelay' = 0 /\ UNCHANGED <<accumulated, overruns>>
    BY <1>4, <1>13 DEF Punctual
  <2>2. TypeOK'  BY <1>2, <1>3, <1>9, <2>1
  <2>3. ClockAndDeadline'
    BY <1>1, <1>2, <1>3, <1>5, <1>6, <1>13, <2>1, Facts DEF ClockAndDeadline
  <2>4. Accounted'
    BY <1>1, <1>2, <1>3, <1>5, <1>10, <1>11, <2>1, Facts DEF Accounted
  <2> QED BY <1>7, <1>8, <2>2, <2>3, <2>4
<1> QED BY <1>12, <1>13

LEMMA NanoSleepPreserves == IInv /\ NanoSleep => IInv'
<1> SUFFICES ASSUME IInv, NanoSleep PROVE IInv'  OBVIOUS
<1> USE DEF IInv
<1>1. pc = "sleep" /\ pc' = "poll" /\ UNCHANGED <<rate, dc, calls, history>>  BY DEF NanoSleep
<1>2. now' \in Timespec /\ Ns(now') >= 0 /\ Ns(now') \in Int /\ Ns(now') <= Ns(sleepEnd) + Oversleep
  <2>1. Ns(now) <= Ns(sleepEnd) /\ Ns(now) >= 0  BY <1>1 DEF ClockAndDeadline
  <2>2. CASE UNCHANGED now  BY <2>1, <2>2, Facts
  <2>3. ASSUME SmallerThan(now, Early), NEW j \in 0..MaxJitter, now' = AddNs(Early, j)
        PROVE  now' \in Timespec /\ Ns(now') >= 0 /\ Ns(now') \in Int /\ Ns(now') <= Ns(sleepEnd) + Oversleep
    <3>1. Ns(now) < Ns(Early)  BY <2>3, Facts, SmallerThanCompares
    <3>2. j \in Nat /\ j <= MaxJitter  BY Facts
    <3>3. now' \in Timespec /\ Ns(now') = Ns(sleepEnd) - EarlyStop + j
      BY <2>3, <3>2, Facts, AddNsAdds
    <3>4. j - EarlyStop <= Oversleep  BY <3>2, Facts DEF Oversleep
    <3> QED BY <2>1, <3>1, <3>2, <3>3, <3>4, Facts
  <2> QED BY <2>2, <2>3 DEF NanoSleep
<1>3. Ns(now)' = Ns(now') /\ Ns(started)' = Ns(started) /\ Ns(sleepEnd)' = Ns(sleepEnd)
  BY <1>1 DEF Ns, rate, history
<1>4. Early' = Early  BY <1>1 DEF Early, rate
<1>5. TypeOK' /\ InRange'  BY <1>1, <1>2, <1>4 DEF TypeOK, InRange, rate, dc, history
<1>6. ClockAndDeadline'  BY <1>1, <1>2, <1>3 DEF ClockAndDeadline
<1>7. Accounted' /\ SteersToNearestBoundary'
  BY <1>1, <1>3 DEF Accounted, SteersToNearestBoundary, rate, dc, history
<1> QED BY <1>5, <1>6, <1>7

LEMMA PollPreserves == IInv /\ Poll => IInv'
<1> SUFFICES ASSUME IInv, Poll PROVE IInv'  OBVIOUS
<1> USE DEF IInv
<1>1. pc = "poll" /\ UNCHANGED <<rate, dc, calls, history>>  BY DEF Poll
<1>2. IF Ns(now) < Ns(sleepEnd) THEN now' = AddNs(now, 1) /\ pc' = "poll"
                                ELSE now' = now /\ pc' = "awake"
  BY <1>1, Facts, SmallerThanCompares DEF Poll
<1>3. /\ Ns(now) >= 0 /\ Ns(now) <= Ns(sleepEnd) + Oversleep
  BY <1>1 DEF ClockAndDeadline
<1>4. /\ now' \in Timespec /\ Ns(now') >= 0 /\ Ns(now') <= Ns(sleepEnd) + Oversleep
      /\ pc' = "poll" \/ (pc' = "awake" /\ Ns(sleepEnd) <= Ns(now'))
  <2>1. now' = AddNs(now, 1) => now' \in Timespec /\ Ns(now') = Ns(now) + 1  BY Facts, AddNsAdds
  <2> QED BY <1>2, <1>3, <2>1, Facts
<1>5. Ns(now)' = Ns(now') /\ Ns(started)' = Ns(started) /\ Ns(sleepEnd)' = Ns(sleepEnd)
  BY <1>1 DEF Ns, rate, history
<1>6. Early' = Early  BY <1>1 DEF Early, rate
<1>7. TypeOK' /\ InRange'  BY <1>1, <1>4, <1>6 DEF TypeOK, InRange, rate, dc, history
<1>8. ClockAndDeadline'  BY <1>4, <1>5 DEF ClockAndDeadline
<1>9. Accounted' /\ SteersToNearestBoundary'
  BY <1>1, <1>5 DEF Accounted, SteersToNearestBoundary, rate, dc, history
<1> QED BY <1>7, <1>8, <1>9

LEMMA ReturnPreserves == IInv /\ (Return \/ UNCHANGED vars) => IInv'
<1> SUFFICES ASSUME IInv, Return \/ UNCHANGED vars PROVE IInv'  OBVIOUS
<1> USE DEF IInv
<1>1. /\ UNCHANGED <<now, rate, dc, calls, history>>
      /\ pc' = pc \/ (pc = "awake" /\ pc' = "update")
  BY DEF Return, vars
<1>2. Ns(now)' = Ns(now) /\ Ns(started)' = Ns(started) /\ Ns(sleepEnd)' = Ns(sleepEnd) /\ Early' = Early
  BY <1>1 DEF Ns, Early, rate, history
<1>3. TypeOK' /\ InRange'  BY <1>1, <1>2 DEF TypeOK, InRange, rate, dc, history
<1>4. ClockAndDeadline'  BY <1>1, <1>2 DEF ClockAndDeadline, dc
<1>5. Accounted' /\ SteersToNearestBoundary'
  BY <1>1, <1>2 DEF Accounted, SteersToNearestBoundary, rate, dc, history
<1> QED BY <1>3, <1>4, <1>5

LEMMA ResetPreserves == IInv /\ Reset => IInv'
<1> SUFFICES ASSUME IInv, Reset PROVE IInv'  OBVIOUS
<1> USE DEF IInv
<1>1. PICK d \in Durations : now' = AddNs(now, d)  BY DEF Reset
<1>2. /\ pc = "update" /\ pc' = "update" /\ calls < MaxSteps /\ calls' = calls + 1
      /\ sleepEnd' = now' /\ started' = now'
      /\ lastDelay' = 0 /\ accumulated' = 0 /\ overruns' = 0 /\ steps' = 0 /\ corrections' = 0
      /\ UNCHANGED <<dcEnabled, dcPhase, integral, lastError, correction, dcSample>>
  BY DEF Reset, dc
<1>3. now' \in Timespec /\ Ns(now') = Ns(now) + d /\ d \in Nat  BY <1>1, Facts, AddNsAdds
<1>4. Ns(now') \in Nat  BY <1>3, Facts DEF ClockAndDeadline
<1>5. Ns(now)' = Ns(now') /\ Ns(started)' = Ns(now') /\ Ns(sleepEnd)' = Ns(now')
  BY <1>2 DEF Ns
<1>6. Early' \in Timespec
  <2>1. -EarlyStop \in Int  BY Facts
  <2> QED BY <1>2, <1>3, <2>1, AddNsAdds DEF Early
<1>7. TypeOK'
  <2>1. calls' \in 0..MaxSteps /\ steps' \in 0..calls'  BY <1>2, Facts DEF TypeOK
  <2> QED BY <1>2, <1>3, <1>6, <2>1 DEF TypeOK
<1>8. InRange'  BY <1>2 DEF InRange
<1>9. ClockAndDeadline'  BY <1>2, <1>4, <1>5 DEF ClockAndDeadline
<1>10. Accounted'
  <2>1. (steps' + overruns') * TimeStep = 0  BY <1>2, Facts
  <2> QED BY <1>2, <1>4, <1>5, <2>1 DEF Accounted
<1>11. SteersToNearestBoundary'  BY <1>2 DEF SteersToNearestBoundary
<1> QED BY <1>7, <1>8, <1>9, <1>10, <1>11

\* The clock, the deadline and its account agree with each other at every moment.
THEOREM IInvHolds == Spec => []IInv
<1>1. Init => IInv  BY InitEstablishesIInv
<1>2. IInv /\ [Next]_vars => IInv'
  BY UpdatePreserves, StepPreserves, NanoSleepPreserves, PollPreserves, ReturnPreserves,
     ResetPreserves DEF Next
<1> QED BY <1>1, <1>2, PTL DEF Spec

-----------------------------------------------------------------------------
(* The properties.                                                         *)

\* TypeOK: every timespec that addNs() computes is well-formed, the one that is given to
\* clock_nanosleep() included.
THEOREM RateTypeCorrect == Spec => []TypeOK
<1>1. IInv => TypeOK  BY DEF IInv
<1> QED BY <1>1, IInvHolds, PTL

\* DeadlineIsAccounted: step() reports every delay, so that there is no drift.
THEOREM NoDrift == Spec => []DeadlineIsAccounted
<1>1. IInv => DeadlineIsAccounted
  <2> SUFFICES ASSUME IInv PROVE DeadlineIsAccounted  OBVIOUS
  <2>1. DiffNs(sleepEnd, started) = Ns(sleepEnd) - Ns(started)
    BY Facts, DiffNsSubtracts DEF IInv
  <2>2. (steps + overruns) * TimeStep + corrections + accumulated \in Int
    <3>1. (steps + overruns) \in Int  BY DEF IInv, TypeOK
    <3>2. (steps + overruns) * TimeStep \in Int  BY <3>1, Facts, Distributes DEF IInv
    <3> QED BY <3>2 DEF IInv, TypeOK
  <2>3. Ns(sleepEnd) = Ns(started) + ((steps + overruns) * TimeStep + corrections + accumulated)
    <3>1. (steps + overruns) * TimeStep \in Int /\ corrections \in Int /\ accumulated \in Int
      <4>1. (steps + overruns) \in Int  BY DEF IInv, TypeOK
      <4>2. (steps + overruns) * TimeStep \in Int  BY <4>1, Facts, Distributes DEF IInv
      <4> QED BY <4>2 DEF IInv, TypeOK
    <3> QED BY <3>1, Facts DEF IInv, Accounted
  <2> QED BY <2>1, <2>2, <2>3, Facts DEF IInv, DeadlineIsAccounted
<1> QED BY <1>1, IInvHolds, PTL

\* DeadlineIsAhead: step() never sleeps until a deadline in the past, nor more than one
\* corrected period.
THEOREM NeverBehind == Spec => []DeadlineIsAhead
<1>1. IInv => DeadlineIsAhead
  <2> SUFFICES ASSUME IInv, pc = "sleep"
               PROVE  /\ DiffNs(sleepEnd, now) >= 0
                      /\ DiffNs(sleepEnd, now) <= TimeStep + (IF correction > 0 THEN correction ELSE 0)
    BY DEF DeadlineIsAhead
  <2>1. DiffNs(sleepEnd, now) = Ns(sleepEnd) - Ns(now)
    BY Facts, DiffNsSubtracts DEF IInv
  <2>2. correction \in Int  BY DEF IInv, TypeOK
  <2> QED BY <2>1, <2>2, Facts DEF IInv, ClockAndDeadline
<1> QED BY <1>1, IInvHolds, PTL

\* WakesOnTime: step() never returns early, and late only by what clock_nanosleep()
\* oversleeps beyond the time kept for busy waiting.
THEOREM OnTime == Spec => []WakesOnTime
<1>1. IInv => WakesOnTime
  <2> SUFFICES ASSUME IInv, pc = "awake"
               PROVE  DiffNs(now, sleepEnd) >= 0 /\ DiffNs(now, sleepEnd) <= Oversleep
    BY DEF WakesOnTime, Oversleep
  <2>1. DiffNs(now, sleepEnd) = Ns(now) - Ns(sleepEnd)
    BY Facts, DiffNsSubtracts DEF IInv
  <2> QED BY <2>1, Facts DEF IInv, ClockAndDeadline
<1> QED BY <1>1, IInvHolds, PTL

\* SteersToNearestBoundary: the controller aims at the nearest boundary of a DC cycle.
THEOREM NearestBoundary == Spec => []SteersToNearestBoundary
<1>1. IInv => SteersToNearestBoundary  BY DEF IInv
<1> QED BY <1>1, IInvHolds, PTL

-----------------------------------------------------------------------------
(* The refinement.                                                         *)

\* A step of the class is a step of the ideal timer: with a deadline that is yet to come,
\* or with one that has been missed.
LEMMA StepRefines == IInv /\ Step => Timer!Advance \/ Timer!CatchUp
<1> SUFFICES ASSUME IInv, Step PROVE Timer!Advance \/ Timer!CatchUp  OBVIOUS
<1> DEFINE deadline == AddNs(sleepEnd, TimeStep + correction)
           D == Ns(sleepEnd) + TimeStep + correction
<1>1. pc = "step" /\ pc' = "sleep" /\ UNCHANGED <<now, correction>>  BY DEF Step, dc
<1>2. correction \in Int /\ D \in Int  BY Facts DEF IInv, TypeOK
<1>3. deadline \in Timespec /\ Ns(deadline) = D
  <2>1. TimeStep + correction \in Int /\ sleepEnd \in Timespec /\ Ns(sleepEnd) \in Int
        /\ TimeStep \in Int
    BY <1>2, Facts DEF IInv
  <2>2. deadline \in Timespec /\ Ns(deadline) = Ns(sleepEnd) + (TimeStep + correction)
    BY <2>1, AddNsAdds
  <2> HIDE DEF deadline
  <2> QED BY <1>2, <2>1, <2>2
<1>4. IF D < Ns(now) THEN Overrun(deadline) ELSE Punctual(deadline)
  BY <1>3, Facts, SmallerThanCompares DEF Step, IInv
<1>5. Ns(now)' = Ns(now) /\ Ns(sleepEnd)' = Ns(sleepEnd')  BY <1>1 DEF Ns
<1>6. Ns(now) \in Int /\ TimeStep \in Nat /\ now \in Timespec  BY Facts DEF IInv
<1> HIDE DEF deadline
<1>7. CASE D < Ns(now)
  <2>1. /\ overruns' = overruns + 1 /\ lastDelay' = Ns(now) - D
        /\ accumulated' = accumulated + lastDelay' /\ sleepEnd' = AddNs(now, TimeStep)
    BY <1>3, <1>4, <1>6, <1>7, DiffNsSubtracts DEF Overrun
  <2>2. Ns(sleepEnd') = Ns(now) + TimeStep  BY <1>6, <2>1, AddNsAdds
  <2>3. lastDelay' > 0  BY <1>2, <1>6, <1>7, <2>1
  <2>4. Timer!CatchUp  BY <1>1, <1>5, <2>1, <2>2, <2>3 DEF Timer!CatchUp
  <2> QED BY <2>4
<1>8. CASE ~(D < Ns(now))
  <2>1. sleepEnd' = deadline /\ lastDelay' = 0 /\ UNCHANGED <<accumulated, overruns>>
    BY <1>4, <1>8 DEF Punctual
  <2>2. Ns(sleepEnd') = D /\ D >= Ns(now)  BY <1>2, <1>3, <1>6, <1>8, <2>1
  <2>3. Timer!Advance  BY <1>1, <1>5, <2>1, <2>2 DEF Timer!Advance
  <2> QED BY <2>3
<1> QED BY <1>7, <1>8

\* Both stages of the sleep are a sleep, and the end of the second wakes up: never before
\* the deadline, and never more than Oversleep after it.
LEMMA SleepRefines ==
    IInv /\ IInv' /\ (NanoSleep \/ Poll) => Timer!Sleep \/ Timer!WakeUp
<1> SUFFICES ASSUME IInv, IInv', NanoSleep \/ Poll PROVE Timer!Sleep \/ Timer!WakeUp  OBVIOUS
<1>1. /\ pc \in {"sleep", "poll"}
      /\ UNCHANGED <<sleepEnd, lastDelay, accumulated, overruns, correction>>
  BY DEF NanoSleep, Poll, rate, dc
<1>2. Ns(now)' = Ns(now') /\ Ns(sleepEnd)' = Ns(sleepEnd)  BY <1>1 DEF Ns
<1>3. /\ Ns(now) \in Int /\ Ns(sleepEnd) \in Int /\ Oversleep \in Nat /\ EarlyStop \in Nat
      /\ now \in Timespec /\ Early \in Timespec /\ Ns(now) >= 0
  BY Facts DEF IInv, ClockAndDeadline
<1>4. Ns(now') \in Int /\ Ns(now') >= Ns(now)
  <2>1. CASE UNCHANGED now  BY <1>3, <2>1
  <2>2. ASSUME SmallerThan(now, Early), NEW j \in 0..MaxJitter, now' = AddNs(Early, j)
        PROVE  Ns(now') \in Int /\ Ns(now') >= Ns(now)
    <3>1. j \in Nat  BY Facts DEF IInv
    <3>2. Ns(now) < Ns(Early) /\ Ns(Early) \in Int
      BY <1>3, <2>2, SmallerThanCompares, TimespecFields
    <3>3. Ns(now') = Ns(Early) + j  BY <1>3, <2>2, <3>1, AddNsAdds
    <3> QED BY <1>3, <3>1, <3>2, <3>3
  <2>3. CASE now' = AddNs(now, 1)
    <3>1. Ns(now') = Ns(now) + 1  BY <1>3, <2>3, AddNsAdds
    <3> QED BY <1>3, <3>1
  <2> QED BY <2>1, <2>2, <2>3 DEF NanoSleep, Poll
<1>5. CASE pc' = "poll"
  <2>1. Ns(now') <= Ns(sleepEnd) + Oversleep
    BY <1>2, <1>5 DEF IInv, ClockAndDeadline, Oversleep
  <2>2. Timer!Sleep
    BY <1>1, <1>2, <1>3, <1>4, <1>5, <2>1 DEF Timer!Sleep, Timer!TimePasses, Timer!statistics
  <2> QED BY <2>2
<1>6. CASE pc' = "awake"
  <2>1. now' = now  BY <1>6 DEF NanoSleep, Poll
  <2>2. Ns(sleepEnd) <= Ns(now) /\ Ns(now) <= Ns(sleepEnd) + Oversleep
    BY <1>2, <1>6, <2>1 DEF IInv, ClockAndDeadline, Oversleep
  <2>3. Timer!WakeUp
    BY <1>1, <1>2, <1>6, <2>1, <2>2 DEF Timer!WakeUp, Timer!statistics
  <2> QED BY <2>3
<1> QED BY <1>1, <1>5, <1>6 DEF NanoSleep, Poll

\* Between two steps the timer is left alone, or restarted by reset().
LEMMA WorkRefines ==
    IInv /\ IInv' => /\ Update => Timer!Work
                     /\ Reset => Timer!Restart
<1> SUFFICES ASSUME IInv, IInv', Update \/ Reset
             PROVE  (Update => Timer!Work) /\ (Reset => Timer!Restart)
  OBVIOUS
<1>1. PICK d \in Durations : now' = AddNs(now, d)  BY DEF Update, Reset
<1>2. pc = "update" /\ pc' \in {"update", "step"}  BY DEF Update, Reset
<1>3. d \in Nat /\ now \in Timespec /\ Ns(now) \in Int /\ Ns(now) >= 0 /\ correction' \in Int
  BY Facts DEF IInv, ClockAndDeadline, TypeOK
<1>4. Ns(now') = Ns(now) + d  BY <1>1, <1>3, AddNsAdds
<1>5. Ns(now)' = Ns(now') /\ Ns(sleepEnd)' = Ns(sleepEnd')  BY DEF Ns
<1>6. Ns(now)' \in Nat /\ Ns(now)' >= Ns(now)  BY <1>3, <1>4, <1>5
<1>7. Update => Timer!Work
  <2> SUFFICES ASSUME Update PROVE Timer!Work  OBVIOUS
  <2>1. UNCHANGED <<sleepEnd, lastDelay, accumulated, overruns>> /\ pc' = "step"
    BY DEF Update, rate
  <2> QED BY <1>2, <1>3, <1>5, <1>6, <2>1
      DEF Timer!Work, Timer!TimePasses, Timer!statistics
<1>8. Reset => Timer!Restart
  <2> SUFFICES ASSUME Reset PROVE Timer!Restart  OBVIOUS
  <2>1. /\ sleepEnd' = now' /\ lastDelay' = 0 /\ accumulated' = 0 /\ overruns' = 0
        /\ correction' = correction /\ pc' = pc
    BY DEF Reset, dc
  <2> QED BY <1>2, <1>5, <1>6, <2>1 DEF Timer!Restart, Timer!TimePasses
<1> QED BY <1>7, <1>8

LEMMA StutterRefines == (Return \/ UNCHANGED vars) => UNCHANGED Timer!timerVars
<1> SUFFICES ASSUME Return \/ UNCHANGED vars PROVE UNCHANGED Timer!timerVars  OBVIOUS
<1>1. UNCHANGED <<now, sleepEnd, lastDelay, accumulated, overruns, correction>>
  BY DEF Return, vars, rate, dc
<1>2. (pc \in {"sleep", "poll"})' = (pc \in {"sleep", "poll"})  BY DEF Return, vars
<1>3. Ns(now)' = Ns(now) /\ Ns(sleepEnd)' = Ns(sleepEnd)  BY <1>1 DEF Ns
<1> QED BY <1>1, <1>2, <1>3 DEF Timer!timerVars, Timer!statistics

\* ImplementsTimer: whatever the period, the length of a second, the correction and the
\* jitter, the class is the ideal timer.
THEOREM TimerImplemented == Spec => ImplementsTimer
<1>1. Init => Timer!TimerInit
  <2> SUFFICES ASSUME Init PROVE Timer!TimerInit  OBVIOUS
  <2>1. IInv  BY InitEstablishesIInv
  <2>2. Ns(now) \in Nat  BY <2>1, Facts DEF IInv, ClockAndDeadline
  <2> QED BY <2>2 DEF Init, Timer!TimerInit
<1>2. IInv /\ IInv' /\ [Next]_vars => [Timer!TimerNext]_(Timer!timerVars)
  BY StepRefines, SleepRefines, WorkRefines, StutterRefines DEF Next, Timer!TimerNext
<1> QED BY <1>1, <1>2, IInvHolds, PTL DEF Spec, ImplementsTimer, Timer!TimerSpec
=============================================================================
