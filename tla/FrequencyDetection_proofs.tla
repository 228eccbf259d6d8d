----------------------- MODULE FrequencyDetection_proofs -----------------------
(***************************************************************************)
(* The detection needs at most one retry, for every rate, license, period   *)
(* and lateness: once the queue is empty the counter only goes down. What   *)
(* it measures is the rate, but for the rounding and the lateness.          *)
(***************************************************************************)
EXTENDS FrequencyDetection, TLAPS

Counts ==
  /\ rate \in Nat \ {0}
  /\ counter \in Nat /\ queued \in Nat /\ start \in Nat /\ end \in Nat

\* No license can be loaded any more, or none has been: what was sampled first
\* is not below what is sampled next.
GoesDown ==
  attempts = 2 \/ queued > 0 =>
    /\ pc \in {"spin", "second", "stamp", "sleep"} => counter <= start
    /\ pc = "judge" => end <= start

IInv ==
  /\ Counts
  /\ attempts \in {2, 3}
  /\ attempts = 2 => queued = 0
  /\ GoesDown

THEOREM Initially == Init => IInv
<1> SUFFICES ASSUME Init PROVE IInv
  OBVIOUS
<1> USE DetectionAssumption
<1>1. Counts
  BY DEF Init, Counts
<1>2. QED BY <1>1 DEF Init, IInv, GoesDown

\* The clock: with an empty queue the counter goes down.
LEMMA CountsDown ==
  ASSUME Counts, CountDown
  PROVE  /\ counter' \in Nat /\ queued' \in Nat
         /\ queued' > 0 => queued > 0
         /\ queued = 0 \/ queued' > 0 => counter' <= counter
  BY DEF Counts, CountDown

THEOREM Preserved == IInv /\ [Next]_vars => IInv'
<1> SUFFICES ASSUME IInv, [Next]_vars PROVE IInv'
  OBVIOUS
<1>1. CASE Tick
  <2>1. /\ CountDown /\ rate' = rate /\ pc' = pc /\ attempts' = attempts
        /\ start' = start /\ end' = end
    BY <1>1 DEF Tick
  <2>2. Counts'
    BY <2>1, CountsDown DEF IInv, Counts
  <2>3. attempts = 2 => queued' = 0
    BY <2>1, CountsDown DEF IInv, Counts
  <2>4. GoesDown'
    <3>1. ASSUME attempts = 2 \/ queued' > 0
          PROVE  (attempts = 2 \/ queued > 0) /\ counter' <= counter
      BY <2>1, <3>1, CountsDown DEF IInv, Counts
    <3>2. counter \in Nat /\ counter' \in Nat /\ start \in Nat
      BY <2>2 DEF IInv, Counts
    <3>3. QED BY <2>1, <3>1, <3>2 DEF IInv, GoesDown
  <2>5. QED BY <2>1, <2>2, <2>3, <2>4 DEF IInv
<1>2. CASE FirstSample \/ SecondSample
  BY <1>2 DEF FirstSample, SecondSample, Step, hwVars, IInv, Counts, GoesDown
<1>3. CASE Spin \/ Stamp
  BY <1>3 DEF Spin, Stamp, Step, hwVars, sampleVars, IInv, Counts, GoesDown
<1>4. CASE EndSample
  BY <1>4 DEF EndSample, Step, hwVars, IInv, Counts, GoesDown
<1>5. CASE Unlicensed \/ Measure \/ Exit
  BY <1>5 DEF Unlicensed, Measure, Exit, Step, hwVars, sampleVars, IInv, Counts, GoesDown
<1>6. CASE Resample
  \* The samples went up, so a license was loaded and no other is queued.
  <2>1. attempts = 3 /\ queued = 0
    <3>1. pc = "judge" /\ ~(end <= start)
      <4>1. pc = "judge" /\ end > start
        BY <1>6 DEF Resample, Step
      <4>2. end \in Nat /\ start \in Nat
        BY DEF IInv, Counts
      <4>3. QED BY <4>1, <4>2
    <3>2. ~(attempts = 2 \/ queued > 0)
      BY <3>1 DEF IInv, GoesDown
    <3>3. QED BY <3>2 DEF IInv, Counts
  <2>2. QED BY <1>6, <2>1 DEF Resample, Step, hwVars, sampleVars, IInv, Counts, GoesDown
<1>7. CASE Fail
  BY <1>7 DEF Fail, Step, hwVars, sampleVars, IInv, Counts, GoesDown
<1>8. CASE UNCHANGED vars
  BY <1>8 DEF vars, hwVars, sampleVars, IInv, Counts, GoesDown
<1>9. QED BY <1>1, <1>2, <1>3, <1>4, <1>5, <1>6, <1>7, <1>8 DEF Next, ThreadStep

THEOREM Invariance == Spec => []IInv
  BY Initially, Preserved, PTL DEF Spec

\* The detection never gives up: a second attempt is the last one needed.
THEOREM OneRetryIsEnough == Spec => []OneRetry
<1>1. IInv => OneRetry
  BY DEF IInv, OneRetry
<1>2. QED BY <1>1, Invariance, PTL

-----------------------------------------------------------------------------
(* What is measured. The second sample and the end sample are compared over  *)
(* a time that the thread knows but for its lateness.                        *)

\* The time since the second sample, by what the thread has counted of it.
AtLeast == IF pc = "stamp" THEN late ELSE span
AtMost  == IF pc = "stamp" THEN late ELSE span + MaxLate

\* The counter went down all the time; or a license was loaded and cannot come
\* down to the sample in the time there is; or the last license has ended.
Falling == rate * AtLeast <= start - counter /\ start - counter <= rate * AtMost
Loaded  == counter - start > rate * (Period + 2 * MaxLate - AtMost)
Ended   == counter = 0 /\ queued = 0

Between == pc \in {"stamp", "sleep"} => Falling \/ Loaded \/ Ended

Slept == pc = "sleep" => span = Period - nap + late /\ (nap > 0 => late = 0)

\* When the end sample has been taken, for the time slept.
FellFor(slept) ==
  /\ Period <= slept /\ slept <= Period + MaxLate
  /\ rate * slept <= start - end /\ start - end <= rate * (slept + MaxLate)

Sampled == pc = "judge" => FellFor(span - late) \/ end > start \/ end = 0

RealInv == TypeOK /\ Between /\ Slept /\ Sampled /\ MeasuredIsReal

\* A product grows with its factor.
LEMMA Grows ==
  ASSUME NEW r \in Nat, NEW a \in Int, NEW b \in Int, a <= b
  PROVE  r * a <= r * b
<1>1. PICK d \in Nat : b = a + d
  <2>1. b - a \in Nat /\ b = a + (b - a)
    OBVIOUS
  <2>2. QED BY <2>1
<1>2. r * b = r * a + r * d /\ r * d \in Nat
  BY <1>1
<1>3. QED BY <1>2

\* A quotient that is rounded up.
LEMMA RoundedUp ==
  ASSUME NEW n \in Nat, NEW s \in Nat \ {0}
  PROVE  LET q == (n + s - 1) \div s
         IN  q \in Nat /\ n <= q * s /\ q * s <= n + s - 1
  OBVIOUS

\* The estimate from a difference that is right but for the lateness: at most
\* that of the counts too many, at least that of the time too long.
LEMMA Estimated ==
  ASSUME NEW r \in Nat, NEW P \in Nat \ {0}, NEW M \in Nat, NEW slept \in Nat, NEW l \in 0..M,
         P <= slept, NEW n \in Nat, r * slept <= n, n <= r * (slept + M),
         NEW q \in Nat, n <= q * (slept + l), q * (slept + l) <= n + (slept + l) - 1
  PROVE  (q - r) * P <= r * M + P /\ (r - q) * P <= r * M
<1> DEFINE s == slept + l
<1>1. s \in Nat /\ P <= s /\ slept <= s /\ r * M \in Nat
  OBVIOUS
<1>2. (q - r) * P <= r * M + P
  <2>1. CASE q <= r + 1
    <3>1. P * (q - r) <= P * 1
      <4>1. q - r <= 1 /\ q - r \in Int
        BY <2>1
      <4>2. QED BY <4>1, Grows
    <3>2. QED BY <3>1, <1>1
  <2>2. CASE q > r + 1
    <3>1. q - r - 1 \in Nat
      BY <2>2
    <3>2. (q - r - 1) * P <= (q - r - 1) * s
      BY <3>1, <1>1, Grows
    <3>3. r * (slept + M) <= r * (s + M)
      BY <1>1, Grows
    <3>4. r * (s + M) = r * s + r * M
      BY <1>1
    <3>5. (q - r - 1) * s = q * s - r * s - s
      BY <1>1
    <3>6. (q - r - 1) * P = (q - r) * P - P
      OBVIOUS
    <3>7. q * s \in Int /\ r * s \in Int /\ (q - r) * P \in Int /\ r * (s + M) \in Int
          /\ r * (slept + M) \in Int
      BY <1>1
    <3>8. q * s <= n + s - 1
      OBVIOUS
    <3>9. QED BY <1>1, <3>2, <3>3, <3>4, <3>5, <3>6, <3>7, <3>8
  <2>3. QED BY <2>1, <2>2
<1>3. (r - q) * P <= r * M
  <2>1. CASE r <= q
    <3>1. P * (r - q) <= P * 0
      <4>1. r - q <= 0 /\ r - q \in Int
        BY <2>1
      <4>2. QED BY <4>1, Grows
    <3>2. QED BY <3>1, <1>1
  <2>2. CASE r > q
    <3>1. r - q \in Nat
      BY <2>2
    <3>2. (r - q) * P <= (r - q) * s
      BY <3>1, <1>1, Grows
    <3>3. r * l <= r * M
      BY Grows
    <3>4. (r - q) * s = r * slept + r * l - q * s
      OBVIOUS
    <3>5. q * s \in Int /\ r * slept \in Int /\ r * l \in Int /\ (r - q) * P \in Int
      BY <1>1
    <3>6. n <= q * s /\ r * slept <= n
      OBVIOUS
    <3>7. QED BY <1>1, <3>2, <3>3, <3>4, <3>5, <3>6
  <2>3. QED BY <2>1, <2>2
<1>4. QED BY <1>2, <1>3

LEMMA ConstantsAre ==
  /\ Period \in Nat \ {0} /\ MaxLate \in Nat /\ Modulus \in Nat \ {0} /\ Configured \in Nat
  /\ Rates \subseteq Nat \ {0} /\ Licenses \subseteq Nat \ {0}
  BY DetectionAssumption

\* The clock, between the samples: a tick is one more for either bound.
LEMMA BetweenTicks ==
  ASSUME RealInv, Tick, pc \in {"stamp", "sleep"}
  PROVE  Between'
<1> DEFINE least == AtLeast
           most  == AtMost
           limit == Period + 2 * MaxLate
<1>1. /\ rate \in Nat \ {0} /\ counter \in Nat /\ start \in Nat /\ span \in Nat
      /\ late \in 0..MaxLate /\ nap \in 0..Period /\ queued \in Licenses \cup {0}
  BY ConstantsAre DEF RealInv, TypeOK
<1>2. least \in Nat /\ most \in Nat /\ limit \in Nat
  BY <1>1, ConstantsAre DEF AtLeast, AtMost
<1>3. /\ AtLeast' = least + 1 /\ AtMost' = most + 1
      /\ rate' = rate /\ start' = start /\ pc' = pc
  <2>1. pc = "stamp" => late' = late + 1
    BY DEF Tick, Asleep
  <2>2. pc = "sleep" => span' = span + 1
    BY DEF Tick
  <2>3. QED BY <1>1, <2>1, <2>2, ConstantsAre DEF Tick, AtLeast, AtMost
<1>4. most + 1 <= limit
  <2>1. CASE pc = "stamp"
    <3>1. late < MaxLate
      BY <2>1 DEF Tick, Asleep
    <3>2. QED BY <1>1, <2>1, <3>1, ConstantsAre DEF AtMost
  <2>2. CASE pc = "sleep"
    <3>1. span = Period - nap + late /\ (nap > 0 => late = 0)
      BY <2>2 DEF RealInv, Slept
    <3>2. ~(nap > 0) => late < MaxLate
      BY DEF Tick, Asleep
    <3>3. QED BY <1>1, <2>2, <3>1, <3>2, ConstantsAre DEF AtMost
  <2>3. QED BY <2>1, <2>2
<1>5. /\ rate * (least + 1) = rate * least + rate
      /\ rate * (most + 1) = rate * most + rate
      /\ rate * (limit - (most + 1)) = rate * (limit - most) - rate
      /\ rate * least \in Nat /\ rate * most \in Nat /\ rate * (limit - most) \in Int
  BY <1>1, <1>2
<1>6. rate <= rate * (limit - most)
  BY <1>1, <1>2, <1>4, Grows
<1>7. Falling \/ Loaded \/ Ended
  BY DEF RealInv, Between
<1>8. CASE counter > rate
  <2>1. counter' = counter - rate /\ queued' = queued
    BY <1>8 DEF Tick, CountDown
  <2>2. CASE Falling
    <3>1. rate * least <= start - counter /\ start - counter <= rate * most
      BY <2>2 DEF Falling
    <3>2. /\ rate' * AtLeast' <= start' - counter'
          /\ start' - counter' <= rate' * AtMost'
      <4>1. /\ rate * (least + 1) <= start - (counter - rate)
            /\ start - (counter - rate) <= rate * (most + 1)
        BY <1>1, <1>5, <3>1
      <4>2. QED BY <1>3, <2>1, <4>1
    <3>3. QED BY <3>2 DEF Falling, Between
  <2>3. CASE Loaded
    <3>1. counter - start > rate * (limit - most)
      BY <1>1, <1>2, <2>3, ConstantsAre DEF Loaded
    <3>2. (counter - rate) - start > rate * (limit - (most + 1))
      BY <1>1, <1>5, <3>1
    <3>3. Loaded'
      BY <1>1, <1>2, <1>3, <2>1, <3>2, ConstantsAre DEF Loaded
    <3>4. QED BY <3>3 DEF Between
  <2>4. CASE Ended
    BY <1>1, <1>8, <2>4 DEF Ended
  <2>5. QED BY <1>7, <2>2, <2>3, <2>4
<1>9. CASE ~(counter > rate)
  <2>1. counter' = queued /\ queued' = 0
    BY <1>9 DEF Tick, CountDown
  <2>2. CASE queued = 0
    BY <2>1, <2>2 DEF Ended, Between
  <2>3. CASE queued # 0
    <3>1. queued \in Licenses
      BY <1>1, <2>3
    <3>2. queued > 2 * rate * (Period + 3 * MaxLate) /\ queued \in Nat
      BY <3>1, DetectionAssumption DEF RealInv, TypeOK
    <3>3. start <= rate * (most + 1)
      <4>1. CASE Falling
        BY <1>1, <1>5, <1>9, <4>1 DEF Falling
      <4>2. CASE Loaded
        <5>1. counter - start > rate * (limit - most)
          BY <1>1, <1>2, <4>2, ConstantsAre DEF Loaded
        <5>2. QED BY <1>1, <1>5, <1>6, <1>9, <5>1
      <4>3. CASE Ended
        BY <2>3, <4>3 DEF Ended
      <4>4. QED BY <1>7, <4>1, <4>2, <4>3
    <3>4. /\ rate * (limit - (most + 1)) = rate * limit - rate * (most + 1)
          /\ rate * limit \in Int
      BY <1>1, <1>2
    <3>5. rate * limit <= 2 * rate * (Period + 3 * MaxLate)
      <4>1. limit <= 2 * (Period + 3 * MaxLate) /\ 2 * (Period + 3 * MaxLate) \in Int
        BY ConstantsAre
      <4>2. rate * limit <= rate * (2 * (Period + 3 * MaxLate))
        BY <1>1, <1>2, <4>1, Grows
      <4>3. rate * (2 * (Period + 3 * MaxLate)) = 2 * rate * (Period + 3 * MaxLate)
        BY <1>1, ConstantsAre
      <4>4. QED BY <4>2, <4>3
    <3>6. 2 * rate * (Period + 3 * MaxLate) \in Int
      BY <1>1, ConstantsAre
    <3>7. queued - start > rate * (limit - (most + 1))
      BY <1>1, <1>5, <3>2, <3>3, <3>4, <3>5, <3>6
    <3>8. Loaded'
      BY <1>1, <1>2, <1>3, <2>1, <3>1, <3>7, ConstantsAre DEF Loaded
    <3>9. QED BY <3>8 DEF Between
  <2>4. QED BY <2>2, <2>3
<1>10. QED BY <1>8, <1>9

\* The frequency that is measured, when the difference is the one slept for.
LEMMA MeasureIsReal ==
  ASSUME RealInv, Measure
  PROVE  measured' \in Nat /\ frequency' \in Nat /\ MeasuredIsReal'
<1> DEFINE slept == span - late
           n == start - end
<1>1. /\ rate \in Nat \ {0} /\ start \in Nat /\ end \in Nat /\ span \in Nat
      /\ late \in 0..MaxLate /\ frequency \in Nat /\ rate \in Rates
  BY ConstantsAre DEF RealInv, TypeOK
<1>2. n \in Nat
  BY <1>1 DEF Measure
<1>3. FellFor(slept)
  <2>1. pc = "judge" /\ ~(end > start) /\ end # 0
    BY <1>1 DEF Measure, Step
  <2>2. QED BY <2>1 DEF RealInv, Sampled
<1>4. /\ Period <= slept /\ slept <= Period + MaxLate /\ slept \in Nat
      /\ rate * slept <= n /\ n <= rate * (slept + MaxLate)
  BY <1>1, <1>3, ConstantsAre DEF FellFor
<1>5. n % Modulus = n
  <2>1. slept + MaxLate <= Period + 2 * MaxLate
    BY <1>1, <1>4, ConstantsAre
  <2>2. rate * (slept + MaxLate) <= rate * (Period + 2 * MaxLate)
    BY <1>1, <1>4, <2>1, ConstantsAre, Grows
  <2>3. rate * (Period + 2 * MaxLate) < Modulus
    BY <1>1, DetectionAssumption
  <2>4. rate * (slept + MaxLate) \in Int /\ rate * (Period + 2 * MaxLate) \in Int
    BY <1>1, <1>4, ConstantsAre
  <2>5. n < Modulus
    BY <1>2, <1>4, <2>2, <2>3, <2>4, ConstantsAre
  <2>6. QED BY <1>2, <2>5, ConstantsAre
<1>6. span \in Nat \ {0} /\ span = slept + late
  BY <1>1, <1>4, ConstantsAre
<1>7. Estimate = (n + span - 1) \div span
  BY <1>5 DEF Estimate
<1>8. /\ Estimate \in Nat /\ n <= Estimate * span /\ Estimate * span <= n + span - 1
  BY <1>2, <1>6, <1>7, RoundedUp
<1>9. /\ (Estimate - rate) * Period <= rate * MaxLate + Period
      /\ (rate - Estimate) * Period <= rate * MaxLate
  <2>1. /\ Estimate \in Nat /\ n <= Estimate * (slept + late)
        /\ Estimate * (slept + late) <= n + (slept + late) - 1
    BY <1>6, <1>8
  <2>2. PICK q \in Nat : q = Estimate
    BY <2>1
  <2>3. (q - rate) * Period <= rate * MaxLate + Period /\ (rate - q) * Period <= rate * MaxLate
    BY <1>1, <1>2, <1>4, <2>1, <2>2, ConstantsAre, Estimated
  <2>4. QED BY <2>2, <2>3
<1>10. measured' = Estimate /\ rate' = rate /\ frequency' \in {frequency, Estimate}
  BY DEF Measure, Step, hwVars
<1>11. QED BY <1>1, <1>8, <1>9, <1>10 DEF MeasuredIsReal

THEOREM RealInitially == Init => RealInv
<1> SUFFICES ASSUME Init PROVE RealInv
  OBVIOUS
<1>1. TypeOK
  BY ConstantsAre DEF Init, TypeOK, Running
<1>2. QED BY <1>1 DEF Init, RealInv, Between, Slept, Sampled, MeasuredIsReal

THEOREM RealPreserved == IInv /\ RealInv /\ [Next]_vars => RealInv'
<1> SUFFICES ASSUME IInv, RealInv, [Next]_vars PROVE RealInv'
  OBVIOUS
<1> USE ConstantsAre
<1>1. /\ rate \in Nat \ {0} /\ counter \in Nat /\ start \in Nat /\ end \in Nat /\ span \in Nat
      /\ late \in 0..MaxLate /\ nap \in 0..Period /\ queued \in Licenses \cup {0}
  BY DEF RealInv, TypeOK
<1>2. CASE Tick
  <2>1. TypeOK'
    <3>1. counter' \in Nat /\ queued' \in Licenses \cup {0}
      BY <1>1, <1>2 DEF Tick, CountDown
    <3>2. nap' \in 0..Period /\ late' \in 0..MaxLate
      BY <1>1, <1>2 DEF Tick, Asleep
    <3>3. span' \in Nat
      BY <1>1, <1>2 DEF Tick
    <3>4. QED BY <1>2, <3>1, <3>2, <3>3 DEF Tick, RealInv, TypeOK
  <2>2. Between'
    BY <1>2, BetweenTicks DEF Tick, Between
  <2>3. Slept'
    <3>1. SUFFICES ASSUME pc = "sleep"
                   PROVE  span' = Period - nap' + late' /\ (nap' > 0 => late' = 0)
      BY <1>2 DEF Tick, Slept
    <3>2. span = Period - nap + late /\ (nap > 0 => late = 0) /\ span' = span + 1
      BY <1>2, <3>1 DEF Tick, RealInv, Slept
    <3>3. \/ nap > 0 /\ nap' = nap - 1 /\ late' = late
          \/ ~(nap > 0) /\ nap' = nap /\ late' = late + 1
      BY <1>2, <3>1 DEF Tick, Asleep
    <3>4. QED BY <1>1, <3>2, <3>3
  <2>4. Sampled'
    <3>1. SUFFICES ASSUME pc = "judge" PROVE Sampled'
      BY <1>2 DEF Tick, Sampled
    <3>2. span' = span + 1 /\ late' = late + 1
      BY <1>2, <3>1 DEF Tick, Asleep
    <3>3. span' - late' = span - late
      BY <1>1, <3>2
    <3>4. start' = start /\ end' = end /\ rate' = rate
      BY <1>2 DEF Tick
    <3>5. QED BY <3>1, <3>3, <3>4 DEF RealInv, Sampled, FellFor
  <2>5. MeasuredIsReal'
    BY <1>2 DEF Tick, RealInv, MeasuredIsReal
  <2>6. QED BY <2>1, <2>2, <2>3, <2>4, <2>5 DEF RealInv
<1>3. CASE FirstSample \/ Spin \/ Resample \/ Unlicensed \/ Fail \/ Exit
  <2>1. /\ pc' \in {"first", "spin", "second"} \cup Outcomes /\ late' = 0
        /\ UNCHANGED <<rate, counter, queued, end, span, nap, measured, frequency>>
        /\ start' \in {start, counter} /\ attempts' \in {attempts, attempts - 1}
        /\ attempts' # attempts => pc = "judge"
    BY <1>3 DEF FirstSample, Spin, Resample, Unlicensed, Fail, Exit, Step, hwVars, sampleVars,
      Outcomes
  <2>2. attempts' \in 0..3
    BY <2>1 DEF IInv
  <2>3. TypeOK'
    BY <1>1, <2>1, <2>2 DEF RealInv, TypeOK, Running
  <2>4. pc' \notin {"stamp", "sleep", "judge"}
    BY <2>1 DEF Outcomes
  <2>5. QED BY <2>1, <2>3, <2>4 DEF RealInv, Between, Slept, Sampled, MeasuredIsReal
<1>4. CASE SecondSample
  <2>1. /\ pc' = "stamp" /\ late' = 0 /\ start' = counter /\ counter' = counter
        /\ UNCHANGED <<rate, queued, attempts, end, span, nap, measured, frequency>>
    BY <1>4 DEF SecondSample, Step, hwVars
  <2>2. TypeOK'
    BY <1>1, <2>1 DEF RealInv, TypeOK, Running
  <2>3. rate * 0 = 0 /\ counter - counter = 0
    BY <1>1
  <2>4. Falling'
    BY <2>1, <2>3 DEF Falling, AtLeast, AtMost
  <2>5. QED BY <2>1, <2>2, <2>4 DEF RealInv, Between, Slept, Sampled, MeasuredIsReal
<1>5. CASE Stamp
  <2>1. /\ pc = "stamp" /\ pc' = "sleep" /\ late' = 0 /\ span' = 0 /\ nap' = Period
        /\ UNCHANGED <<rate, counter, queued, attempts, start, end, measured, frequency>>
    BY <1>5 DEF Stamp, Step, hwVars
  <2>2. TypeOK'
    BY <1>1, <2>1 DEF RealInv, TypeOK, Running
  <2>3. Slept'
    BY <2>1 DEF Slept
  <2>4. /\ AtLeast = late /\ AtMost = late /\ AtLeast' = 0 /\ AtMost' = MaxLate
    BY <2>1 DEF AtLeast, AtMost
  <2>5. /\ rate * 0 <= rate * late /\ rate * late <= rate * MaxLate
        /\ rate * (Period + 2 * MaxLate - MaxLate) <= rate * (Period + 2 * MaxLate - late)
    BY <1>1, Grows
  <2>6. /\ rate * 0 \in Int /\ rate * late \in Int /\ rate * MaxLate \in Int
        /\ rate * (Period + 2 * MaxLate - MaxLate) \in Int
        /\ rate * (Period + 2 * MaxLate - late) \in Int
    BY <1>1
  <2>7. Falling \/ Loaded \/ Ended
    BY <2>1 DEF RealInv, Between
  <2>8. Falling => Falling'
    BY <1>1, <2>1, <2>4, <2>5, <2>6 DEF Falling
  <2>9. Loaded => Loaded'
    BY <1>1, <2>1, <2>4, <2>5, <2>6 DEF Loaded
  <2>10. Ended => Ended'
    BY <2>1 DEF Ended
  <2>11. QED BY <2>1, <2>2, <2>3, <2>7, <2>8, <2>9, <2>10
            DEF RealInv, Between, Sampled, MeasuredIsReal
<1>6. CASE EndSample
  <2>1. /\ pc = "sleep" /\ nap = 0 /\ pc' = "judge" /\ late' = 0 /\ end' = counter
        /\ UNCHANGED <<rate, counter, queued, attempts, start, span, nap, measured, frequency>>
    BY <1>6 DEF EndSample, Step, hwVars
  <2>2. TypeOK'
    BY <1>1, <2>1 DEF RealInv, TypeOK, Running
  <2>3. span = Period + late /\ AtLeast = span /\ AtMost = span + MaxLate /\ span' - late' = span
    BY <1>1, <2>1 DEF RealInv, Slept, AtLeast, AtMost
  <2>4. Falling \/ Loaded \/ Ended
    BY <2>1 DEF RealInv, Between
  <2>5. CASE Falling
    <3>1. FellFor(span)'
      BY <1>1, <2>1, <2>3, <2>5 DEF Falling, FellFor
    <3>2. QED BY <2>1, <2>2, <2>3, <3>1
      DEF RealInv, Between, Slept, Sampled, FellFor, MeasuredIsReal
  <2>6. CASE Loaded
    <3>1. counter > start
      <4>1. Period + 2 * MaxLate - AtMost = MaxLate - late
        BY <1>1, <2>3
      <4>2. rate * (MaxLate - late) \in Nat
        BY <1>1
      <4>3. counter - start > rate * (MaxLate - late)
        BY <2>6, <4>1 DEF Loaded
      <4>4. QED BY <1>1, <4>2, <4>3
    <3>2. QED BY <2>1, <2>2, <3>1 DEF RealInv, Between, Slept, Sampled, MeasuredIsReal
  <2>7. CASE Ended
    BY <2>1, <2>2, <2>7 DEF Ended, RealInv, Between, Slept, Sampled, MeasuredIsReal
  <2>8. QED BY <2>4, <2>5, <2>6, <2>7
<1>7. CASE Measure
  <2>1. measured' \in Nat /\ frequency' \in Nat /\ MeasuredIsReal'
    BY <1>7, MeasureIsReal
  <2>2. /\ pc' \in Outcomes /\ late' = 0
        /\ UNCHANGED <<rate, counter, queued, attempts, start, end, span, nap>>
    BY <1>7 DEF Measure, Step, hwVars, sampleVars, Outcomes
  <2>3. TypeOK'
    BY <1>1, <2>1, <2>2 DEF RealInv, TypeOK
  <2>4. QED BY <2>1, <2>2, <2>3 DEF RealInv, Between, Slept, Sampled, Outcomes
<1>8. CASE UNCHANGED vars
  <2>1. TypeOK' /\ MeasuredIsReal' /\ Slept'
    BY <1>8 DEF vars, hwVars, sampleVars, RealInv, TypeOK, MeasuredIsReal, Slept
  <2>2. Between'
    BY <1>8 DEF vars, hwVars, sampleVars, RealInv, Between, Falling, Loaded, Ended, AtLeast, AtMost
  <2>3. Sampled'
    BY <1>8 DEF vars, hwVars, sampleVars, RealInv, Sampled, FellFor
  <2>4. QED BY <2>1, <2>2, <2>3 DEF RealInv
<1>9. QED BY <1>2, <1>3, <1>4, <1>5, <1>6, <1>7, <1>8 DEF Next, ThreadStep

THEOREM RealInvariance == Spec => []RealInv
  BY Invariance, RealInitially, RealPreserved, PTL DEF Spec

\* The measured frequency is the one of the controller but for the rounding and the
\* lateness of the thread, whatever the period, the lateness and the licenses are.
THEOREM MeasuredFrequencyIsReal == Spec => []MeasuredIsReal
<1>1. RealInv => MeasuredIsReal
  BY DEF RealInv
<1>2. QED BY <1>1, RealInvariance, PTL
=============================================================================
