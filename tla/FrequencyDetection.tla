-------------------------- MODULE FrequencyDetection --------------------------
(***************************************************************************)
(* detectDrmFrequency, the first thing the background thread does: it waits *)
(* for the license timer counter to move, sleeps for a period, and divides  *)
(* what the counter lost by the time between its two looks at the clock.    *)
(* mDrmControllerMutex is held from the first to the last step, so that no  *)
(* license is installed meanwhile; a license that was queued before is      *)
(* loaded into the counter when the current one ends.                       *)
(*                                                                         *)
(* The thread may be late: up to MaxLate units of time pass between two of  *)
(* its steps. Frequencies are in counts per unit.                           *)
(***************************************************************************)
EXTENDS Integers

CONSTANTS
  Rates,      \* the frequencies the controller can run at
  Configured, \* frequency_mhz
  Threshold,  \* mFrequencyDetectionThreshold, in percent
  Period,     \* mFrequencyDetectionPeriod
  MaxLate,    \* the longest the thread is held up between two steps
  Licenses,   \* the counter values of whole licenses
  Modulus     \* 2^32: the width of the difference of two samples

\* set() checks none of this: a license lasts longer than two samples, and the
\* counts of one fit in 32 bits.
ASSUME DetectionAssumption ==
  /\ {Period, Modulus, Configured} \subseteq Nat \ {0} /\ {MaxLate, Threshold} \subseteq Nat
  /\ Rates \subseteq Nat \ {0} /\ Licenses \subseteq Nat \ {0}
  /\ \A r \in Rates :
       /\ r * (Period + 2 * MaxLate) < Modulus
       /\ \A l \in Licenses : l > 2 * r * (Period + 3 * MaxLate)

VARIABLES
  rate,      \* the frequency of the controller
  counter,   \* the license timer counter
  queued,    \* the license in the queue, 0 if there is none
  pc,        \* where detectDrmFrequency is
  attempts,  \* max_attempts
  start,     \* counterStart
  end,       \* counterEnd
  span,      \* the time since timeStart
  nap,       \* what is left of the sleep
  late,      \* the time since the last step of the thread
  measured,  \* measuredFrequency, 0 before
  frequency  \* mFrequencyCurr

hwVars     == <<rate, counter, queued>>
sampleVars == <<start, end, span, nap>>
vars       == <<hwVars, pc, attempts, sampleVars, late, measured, frequency>>

Running == {"first", "spin", "second", "stamp", "sleep", "judge"}
Outcomes == {"accepted", "corrected", "unlicensed", "given up", "failed", "exit"}

Init ==
  /\ rate \in Rates
  /\ queued \in Licenses \cup {0}
  /\ counter \in UNION {0..l : l \in Licenses}
  /\ queued > 0 => counter > 0
  /\ pc = "first" /\ attempts = 3
  /\ start = 0 /\ end = 0 /\ span = 0 /\ nap = 0 /\ late = 0
  /\ measured = 0 /\ frequency = Configured

-----------------------------------------------------------------------------
\* The clock of the controller: at its end a license gives way to the queued one.
CountDown ==
  IF counter > rate THEN counter' = counter - rate /\ UNCHANGED queued
                    ELSE counter' = queued /\ queued' = 0

Asleep == pc = "sleep" /\ nap > 0

Tick ==
  /\ pc \in Running
  /\ CountDown
  /\ IF Asleep THEN nap' = nap - 1 /\ UNCHANGED late
               ELSE late < MaxLate /\ late' = late + 1 /\ UNCHANGED nap
  /\ span' = IF pc \in {"sleep", "judge"} THEN span + 1 ELSE span
  /\ UNCHANGED <<rate, pc, attempts, start, end, measured, frequency>>

Step(from, to) ==
  /\ pc = from /\ pc' = to /\ late' = 0
  /\ UNCHANGED hwVars

FirstSample ==
  /\ Step("first", "spin")
  /\ start' = counter
  /\ UNCHANGED <<attempts, end, span, nap, measured, frequency>>

\* Mutant: the counter is expected to go up.
SpinUpwards ==
  /\ Step("spin", IF counter > start THEN "second" ELSE "spin")
  /\ UNCHANGED <<attempts, sampleVars, measured, frequency>>

\* Without a limit: while the counter does not go below the first sample.
Spin ==
  /\ Step("spin", IF counter < start THEN "second" ELSE "spin")
  /\ UNCHANGED <<attempts, sampleVars, measured, frequency>>

SecondSample ==
  /\ Step("second", "stamp")
  /\ start' = counter
  /\ UNCHANGED <<attempts, end, span, nap, measured, frequency>>

Stamp ==
  /\ Step("stamp", "sleep")
  /\ span' = 0 /\ nap' = Period
  /\ UNCHANGED <<attempts, start, end, measured, frequency>>

EndSample ==
  /\ nap = 0 /\ Step("sleep", "judge")
  /\ end' = counter
  /\ UNCHANGED <<attempts, start, span, nap, measured, frequency>>

-----------------------------------------------------------------------------
Unlicensed ==
  /\ end = 0 /\ Step("judge", "unlicensed")
  /\ UNCHANGED <<attempts, sampleVars, measured, frequency>>

\* Mutant: the next attempt keeps the sample of the one before.
ResampleEndOnly ==
  /\ end > start
  /\ Step("judge", IF attempts > 1 THEN "stamp" ELSE "given up")
  /\ attempts' = attempts - 1
  /\ UNCHANGED <<sampleVars, measured, frequency>>

\* A license was loaded between the samples.
Resample ==
  /\ end > start
  /\ Step("judge", IF attempts > 1 THEN "first" ELSE "given up")
  /\ attempts' = attempts - 1
  /\ UNCHANGED <<sampleVars, measured, frequency>>

\* The difference is cut to 32 bits, the quotient rounded up.
Estimate == (((start - end) % Modulus) + span - 1) \div span

Distance(x, y) == IF x > y THEN x - y ELSE y - x

WithinThreshold(m) == 100 * Distance(m, frequency) < Threshold * frequency

\* Mutant: a counter that went up is measured as well.
MeasureAnyway ==
  /\ end > 0
  /\ Step("judge", IF WithinThreshold(Estimate) THEN "accepted" ELSE "corrected")
  /\ measured' = Estimate
  /\ frequency' = IF WithinThreshold(Estimate) THEN frequency ELSE Estimate
  /\ UNCHANGED <<attempts, sampleVars>>

\* A frequency too far from the configured one replaces it, and is reported.
Measure ==
  /\ end > 0 /\ end <= start
  /\ Step("judge", IF WithinThreshold(Estimate) THEN "accepted" ELSE "corrected")
  /\ measured' = Estimate
  /\ frequency' = IF WithinThreshold(Estimate) THEN frequency ELSE Estimate
  /\ UNCHANGED <<attempts, sampleVars>>

\* The sample of the counter fails.
Fail ==
  /\ \E from \in {"first", "spin", "second", "sleep"} : Step(from, "failed")
  /\ nap = 0
  /\ UNCHANGED <<attempts, sampleVars, measured, frequency>>

\* The stop request cuts the sleep short.
Exit ==
  /\ Step("sleep", "exit")
  /\ UNCHANGED <<attempts, sampleVars, measured, frequency>>

ThreadStep ==
  \/ FirstSample \/ Spin \/ SecondSample \/ Stamp \/ EndSample
  \/ Unlicensed \/ Resample \/ Measure

Next == Tick \/ ThreadStep \/ Fail \/ Exit

\* The clock and the thread go on; nothing has to fail.
Spec == Init /\ [][Next]_vars /\ WF_vars(Tick) /\ WF_vars(ThreadStep)

-----------------------------------------------------------------------------
TypeOK ==
  /\ rate \in Rates /\ counter \in Nat /\ queued \in Licenses \cup {0}
  /\ pc \in Running \cup Outcomes
  /\ attempts \in 0..3
  /\ {start, end, span, measured, frequency} \subseteq Nat
  /\ nap \in 0..Period /\ late \in 0..MaxLate

\* What is measured is the frequency of the controller but for the rounding and
\* the lateness of the thread, although a license may end between the samples.
MeasuredIsReal ==
  measured > 0 =>
    /\ (measured - rate) * Period <= rate * MaxLate + Period
    /\ (rate - measured) * Period <= rate * MaxLate

\* One retry is enough: the queue holds one license, and no other arrives while
\* the mutex is held. The detection never gives up.
OneRetry == attempts >= 2

\* The wait for the counter ends when there was a license to count down, even if
\* another is loaded meanwhile. It does not end on a counter that is at 0.
SpinEnds == (pc = "spin" /\ start > 0) ~> pc # "spin"
=============================================================================
