------------------------- MODULE LicenseRenewal_proofs -------------------------
(***************************************************************************)
(* Proofs about getLicense, and about the background loop that calls it, in *)
(* time, for all callers, license durations, retry periods and token        *)
(* lifetimes: how long a call may take, that the thread asks for a license  *)
(* exactly as long as it has one, and that the hardware is without a        *)
(* license only when this time has run out.                                 *)
(***************************************************************************)
EXTENDS LicenseRenewal, TLAPS

-----------------------------------------------------------------------------
(* The request of a license.                                                *)


(***************************************************************************)
(* The inductive invariant: outside a sleep the deadline is at most         *)
(* reached or was crossed by the last, short, sleep; inside one, what is    *)
(* left of the sleep fits into what is left of the budget.                  *)
(***************************************************************************)
BudgetInv ==
  /\ pc = "ready" => left + prof.short >= 0
  /\ pc = "sent" => left >= 0
  /\ pc = "failed" => left + prof.short >= 0
  /\ pc = "waiting" => /\ wait <= left + prof.short
                       /\ wait <= left \/ wait <= prof.short

\* Every step keeps the variables in their types.
LEMMA TypeStep == TypeOK /\ [Next]_vars => TypeOK'
<1> SUFFICES ASSUME TypeOK, [Next]_vars
             PROVE  TypeOK'
  OBVIOUS
<1> USE DEF TypeOK, Outcomes
<1>1. ASSUME NEW p \in Profiles, Call(p)
      PROVE  TypeOK'
  <2>1. stop' \in BOOLEAN
    BY <1>1, Zenon DEF Call
  <2> QED
    BY <1>1, <2>1, ProfilesAssumption DEF Call
<1>2. CASE KeepToken \/ Perform \/ AnswerToken
  BY <1>2, ValiditiesAssumption DEF KeepToken, Perform, AnswerToken, Goto
<1>3. ASSUME NEW how \in Outcomes, Return(how)
      PROVE  TypeOK'
  <2>1. stop' \in BOOLEAN
    BY <1>3, Zenon DEF Return
  <2> QED
    BY <1>3, <2>1 DEF Return
<1>4. ASSUME NEW p \in {"ready", "failed"}, Goto(p)
      PROVE  TypeOK'
  BY <1>4 DEF Goto
<1>5. CASE AnswerLicense \/ AnswerError \/ ExitRequested
  BY <1>5, <1>3 DEF AnswerLicense, AnswerError, ExitRequested
<1>6. CASE AnswerRetry \/ Wake
  BY <1>6, <1>4 DEF AnswerRetry, Wake
<1>7. CASE Retry
  <2>1. CASE Return("timeout") \/ Return("notRetried")
    BY <1>3, <2>1
  <2>2. CASE /\ pc' = "waiting" /\ wait' \in Waits
             /\ UNCHANGED <<stage, prof, left, outcome, stop, token>>
    <3>1. Waits \subseteq Nat
      BY DEF Waits
    <3> QED
      BY <2>2, <3>1
  <2> QED
    BY <1>7, <2>1, <2>2 DEF Retry
<1>8. CASE StopRequest
  BY <1>8 DEF StopRequest
<1>9. CASE Tick
  BY <1>9 DEF Tick
<1>10. CASE UNCHANGED vars
  BY <1>10 DEF vars, callVars
<1> QED
  BY <1>1, <1>2, <1>5, <1>6, <1>7, <1>8, <1>9, <1>10 DEF Next, CallStep

\* The variables keep their types.
THEOREM TypeCorrect == Spec => []TypeOK
<1>1. Init => TypeOK
  <2>1. Init => stop \in BOOLEAN
    BY Zenon DEF Init
  <2> QED
    BY <2>1, ProfilesAssumption DEF Init, TypeOK, Outcomes
<1> QED
  BY <1>1, TypeStep, PTL DEF Spec

\* Every step keeps the time left above the overrun, and the waits within it.
LEMMA BudgetStep == TypeOK /\ BudgetInv /\ [Next]_vars => BudgetInv'
<1> SUFFICES ASSUME TypeOK, BudgetInv, [Next]_vars
             PROVE  BudgetInv'
  OBVIOUS
<1> USE DEF TypeOK, BudgetInv
<1>1. ASSUME NEW p \in Profiles, Call(p)
      PROVE  BudgetInv'
  BY <1>1, ProfilesAssumption DEF Call
<1>2. CASE KeepToken \/ Perform \/ AnswerToken
  BY <1>2 DEF KeepToken, Perform, AnswerToken, Goto
<1>3. CASE AnswerLicense \/ AnswerError \/ AnswerRetry
  BY <1>3 DEF AnswerLicense, AnswerError, AnswerRetry, Return, Goto
<1>4. CASE Retry
  BY <1>4 DEF Retry, Return, Waits
<1>5. CASE Wake \/ ExitRequested \/ StopRequest
  BY <1>5 DEF Wake, ExitRequested, StopRequest, Return, Goto
<1>6. CASE Tick
  BY <1>6 DEF Tick
<1>7. CASE UNCHANGED vars
  BY <1>7 DEF vars, callVars
<1> QED
  BY <1>1, <1>2, <1>3, <1>4, <1>5, <1>6, <1>7 DEF Next, CallStep

\* The inductive invariant holds in every behaviour.
LEMMA Invariant == Spec => [](TypeOK /\ BudgetInv)
<1>1. Init => BudgetInv
  BY DEF Init, BudgetInv
<1> QED
  BY <1>1, BudgetStep, TypeCorrect, PTL DEF Spec

\* activate, deactivate and the thread never wait for a license longer than
\* their timeout and one short retry period.
THEOREM OverrunIsBounded == Spec => []OverrunBounded
<1>1. TypeOK /\ BudgetInv => OverrunBounded
  BY DEF TypeOK, BudgetInv, OverrunBounded
<1> QED
  BY <1>1, Invariant, PTL

\* No long retry period crosses the deadline.
THEOREM LongWaitsFit == Spec => []LongWaitFits
<1>1. TypeOK /\ BudgetInv => LongWaitFits
  BY DEF BudgetInv, LongWaitFits
<1> QED
  BY <1>1, Invariant, PTL

-----------------------------------------------------------------------------
(* getLicense implements the timed call.                                   *)

\* Every step of getLicense is a step of the timed call or changes nothing there.
LEMMA StepRefines == TypeOK /\ BudgetInv /\ [Next]_vars => [Timed!Next]_Timed!vars
<1> SUFFICES ASSUME TypeOK, BudgetInv, [Next]_vars
             PROVE  [Timed!Next]_Timed!vars
  OBVIOUS
<1> USE DEF TypeOK, BudgetInv, Timed!Next, Timed!vars
<1>1. ASSUME NEW p \in Profiles, Call(p)
      PROVE  Timed!Begin
  BY <1>1, ProfilesAssumption DEF Call, Timed!Begin
<1>2. CASE KeepToken \/ Perform \/ AnswerToken \/ AnswerRetry \/ Wake \/ StopRequest
  <2>1. pc # "idle" /\ pc' # "idle" /\ UNCHANGED <<prof, left>>
    BY <1>2 DEF KeepToken, Perform, AnswerToken, AnswerRetry, Wake, StopRequest, Goto
  <2> QED
    BY <2>1
<1>3. CASE AnswerLicense \/ AnswerError \/ ExitRequested
  BY <1>3 DEF AnswerLicense, AnswerError, ExitRequested, Return, Timed!Finish
<1>4. CASE Retry
  BY <1>4 DEF Retry, Return, Timed!Finish
<1>5. CASE Tick
  <2>1. CASE pc = "idle"
    BY <1>5, <2>1 DEF Tick
  <2>2. CASE pc # "idle"
    <3>1. left + prof.short > 0 /\ left' = left - 1 /\ UNCHANGED <<pc, prof>>
      BY <1>5, <2>2 DEF Tick
    <3> QED
      BY <2>2, <3>1 DEF Timed!Elapse
  <2> QED
    BY <2>1, <2>2
<1>6. CASE UNCHANGED vars
  BY <1>6 DEF vars, callVars
<1> QED
  BY <1>1, <1>2, <1>3, <1>4, <1>5, <1>6 DEF Next, CallStep

\* Every behaviour of the retry loops is one of the timed call.
THEOREM RequestIsTimedCall == Spec => IsTimedCall
<1>1. Init => Timed!Init
  BY DEF Init, Timed!Init
<1> QED
  BY <1>1, StepRefines, Invariant, PTL DEF Spec, IsTimedCall, Timed!Spec

-----------------------------------------------------------------------------
(* The background loop.                                                     *)


(***************************************************************************)
(* The inductive invariant ties the duration the manager remembers to the   *)
(* license that is the last to run out: it is the queued one, or the        *)
(* current one, which has been counting for at most the second the thread   *)
(* oversleeps.                                                              *)
(***************************************************************************)
CheckInv ==
  tpc = "check" => IF queued > 0 THEN duration = queued ELSE duration - current \in {0, 1}

SleepInv ==
  tpc = "sleep" =>
    \/ queued > 0 /\ duration = queued /\ nap = current + 1
    \/ queued = 0 /\ nap \in {0, 1} /\ current = duration - 1 + nap

CallInv ==
  tpc = "call" =>
    /\ queued = 0
    /\ pc # "idle" => IF current > 0 THEN left - current \in {0, 1} ELSE left <= 1

Licensed == tpc \in {"check", "sleep"} => pc = "idle" /\ current > 0

IInv ==
  /\ RenewalTypeOK
  /\ duration \in Durations
  /\ CheckInv /\ SleepInv /\ CallInv /\ Licensed

\* Two seconds are the shortest license.
LEMMA ShortestLicense == \A d \in Durations : d \in Nat /\ d >= 2
  BY DurationsAssumption

\* A call of the thread has a profile of its own: it keeps the types too.
LEMMA CallTyped ==
  ASSUME TypeOK, NEW p \in [timeout : Nat, short : Nat, long : Nat], Call(p)
  PROVE  TypeOK'
<1>1. stop' \in BOOLEAN
  BY Zenon DEF Call
<1>2. QED BY <1>1 DEF Call, TypeOK, Outcomes

\* What happens inside a call neither leaves it nor moves its deadline, but for
\* its end.
LEMMA StepInCall ==
  ASSUME CallStep
  PROVE  pc # "idle" /\ (pc' = "idle" \/ left' = left)
<1>1. CASE KeepToken \/ Perform \/ AnswerToken \/ AnswerRetry \/ Wake
  BY <1>1 DEF KeepToken, Perform, AnswerToken, AnswerRetry, Wake, Goto
<1>2. CASE AnswerLicense \/ AnswerError \/ ExitRequested
  BY <1>2 DEF AnswerLicense, AnswerError, ExitRequested, Return
<1>3. CASE Retry
  BY <1>3 DEF Retry, Return
<1>4. QED BY <1>1, <1>2, <1>3 DEF CallStep

LEMMA RenewalInitially == ~ResumeElsewhere /\ RenewalInit => IInv
<1> SUFFICES ASSUME ~ResumeElsewhere, RenewalInit PROVE IInv
  OBVIOUS
<1>1. TypeOK
  <2>1. stop \in BOOLEAN
    BY Zenon DEF RenewalInit, Init
  <2>2. QED BY <2>1, ProfilesAssumption DEF RenewalInit, Init, TypeOK, Outcomes
<1>2. PICK d \in Durations :
        \/ duration = d /\ current = d /\ queued = 0
        \/ duration = d /\ queued = d /\ \E c \in Durations : current \in 1..c
  BY DEF RenewalInit
<1>3. d \in Nat /\ d >= 2
  BY ShortestLicense
<1>4. current \in Nat /\ current > 0
  BY <1>2, <1>3, ShortestLicense
<1>5. tpc = "check" /\ nap = 0 /\ pc = "idle"
  BY DEF RenewalInit, Init
<1>6. QED BY <1>1, <1>2, <1>3, <1>4, <1>5
         DEF IInv, RenewalTypeOK, CheckInv, SleepInv, CallInv, Licensed

\* A second of the controller.
LEMMA Counted ==
  ASSUME current \in Nat, queued \in Nat, queued > 0 => current > 0, CountDown
  PROVE  /\ current' \in Nat /\ queued' \in Nat
         /\ current > 1 => current' = current - 1 /\ queued' = queued
         /\ current <= 1 => current' = queued /\ queued' = 0
         /\ queued' > 0 => current' > 0
  BY DEF CountDown

LEMMA RenewalStep == IInv /\ [RenewalNext]_<<vars, renewalVars>> => IInv'
<1> SUFFICES ASSUME IInv, [RenewalNext]_<<vars, renewalVars>> PROVE IInv'
  OBVIOUS
<1>1. /\ duration \in Nat /\ duration >= 2 /\ current \in Nat /\ queued \in Nat
      /\ nap \in Nat /\ left \in Int /\ (queued > 0 => current > 0)
  BY ShortestLicense DEF IInv, RenewalTypeOK, TypeOK
<1>2. CASE SleepUntilRoom \/ WakeUp
  <2>1. UNCHANGED vars
    BY <1>2 DEF SleepUntilRoom, WakeUp
  <2>2. TypeOK' /\ UNCHANGED <<pc, left>>
    BY <2>1, TypeStep DEF IInv, RenewalTypeOK, vars, callVars
  <2>3. QED BY <1>1, <1>2, <2>2
           DEF SleepUntilRoom, WakeUp, IInv, RenewalTypeOK, CheckInv, SleepInv, CallInv, Licensed
<1>3. CASE RequestLicense
  <2> DEFINE p == [timeout |-> duration, short |-> ShortPeriod, long |-> LongPeriod]
  <2>1. p \in [timeout : Nat, short : Nat, long : Nat]
    BY <1>1, DurationsAssumption
  <2>2. Call(p)
    BY <1>3 DEF RequestLicense
  <2>3. TypeOK'
    BY <2>1, <2>2, CallTyped DEF IInv, RenewalTypeOK
  <2>4. left' = duration
    BY <2>2 DEF Call
  <2>5. QED BY <1>1, <1>3, <2>3, <2>4
           DEF RequestLicense, IInv, RenewalTypeOK, CheckInv, SleepInv, CallInv, Licensed
<1>4. CASE Requesting
  <2>1. CallStep /\ tpc = "call" /\ UNCHANGED <<tpc, nap, duration, current, queued>>
    BY <1>4 DEF Requesting, renewalVars
  <2>2. TypeOK'
    BY <2>1, TypeStep DEF IInv, RenewalTypeOK, Next
  <2>3. QED BY <1>1, <2>1, <2>2, StepInCall
           DEF IInv, RenewalTypeOK, CheckInv, SleepInv, CallInv, Licensed
<1>5. CASE InstallLicense \/ EndThread
  <2>1. UNCHANGED vars /\ tpc = "call" /\ pc = "idle"
    BY <1>5 DEF InstallLicense, EndThread
  <2>2. TypeOK' /\ pc' = "idle"
    BY <2>1, TypeStep DEF IInv, RenewalTypeOK, vars, callVars
  <2>3. CASE EndThread
    BY <1>1, <2>1, <2>2, <2>3
       DEF EndThread, IInv, RenewalTypeOK, CheckInv, SleepInv, CallInv, Licensed
  <2>4. CASE InstallLicense
    <3>1. PICK d \in Durations :
            /\ duration' = d
            /\ IF current = 0 THEN current' = d /\ UNCHANGED queued
                              ELSE queued' = d /\ UNCHANGED current
      BY <2>4 DEF InstallLicense
    <3>2. tpc' = "check" /\ nap' = nap /\ queued = 0 /\ d \in Nat /\ d >= 2
      BY <2>1, <2>4, ShortestLicense DEF InstallLicense, IInv, CallInv
    <3>3. QED BY <1>1, <2>2, <3>1, <3>2
             DEF IInv, RenewalTypeOK, CheckInv, SleepInv, CallInv, Licensed
  <2>5. QED BY <1>5, <2>3, <2>4
<1>6. CASE RenewalTick
  <2>1. /\ UNCHANGED <<tpc, duration, pc>> /\ current' \in Nat /\ queued' \in Nat
        /\ current > 1 => current' = current - 1 /\ queued' = queued
        /\ current <= 1 => current' = queued /\ queued' = 0
        /\ queued' > 0 => current' > 0
    BY <1>1, <1>6, Counted DEF RenewalTick, Tick, callVars
  <2>2. CASE tpc = "sleep"
    <3>1. nap > 0 /\ nap' = nap - 1 /\ UNCHANGED callVars /\ token' \in Nat
      BY <1>6, <2>2 DEF RenewalTick, IInv, RenewalTypeOK, TypeOK
    <3>2. TypeOK'
      BY <3>1 DEF IInv, RenewalTypeOK, TypeOK, callVars
    <3>3. current > 0 /\ pc' = "idle"
      BY <2>1, <2>2 DEF IInv, Licensed
    <3>4. SleepInv'
      <4>1. CASE queued > 0
        <5>1. duration = queued /\ nap = current + 1
          BY <2>2, <4>1 DEF IInv, SleepInv
        <5>2. CASE current > 1
          <6>1. queued' = queued /\ nap' = current' + 1
            BY <1>1, <2>1, <3>1, <5>1, <5>2
          <6>2. QED BY <2>1, <4>1, <5>1, <6>1 DEF SleepInv
        <5>3. CASE current = 1
          <6>1. current' = duration /\ queued' = 0 /\ nap' = 1
            BY <1>1, <2>1, <3>1, <5>1, <5>3
          <6>2. QED BY <1>1, <2>1, <6>1 DEF SleepInv
        <5>4. QED BY <1>1, <3>3, <5>2, <5>3
      <4>2. CASE queued = 0
        <5>1. nap = 1 /\ current = duration
          BY <1>1, <2>2, <3>1, <4>2 DEF IInv, SleepInv
        <5>2. current' = duration - 1 /\ queued' = 0 /\ nap' = 0
          BY <1>1, <2>1, <3>1, <4>2, <5>1
        <5>3. QED BY <1>1, <2>1, <5>2 DEF SleepInv
      <4>3. QED BY <1>1, <4>1, <4>2
    <3>5. Licensed'
      <4>1. current' > 0
        BY <1>1, <2>1, <2>2, <3>1, <3>3 DEF IInv, SleepInv
      <4>2. QED BY <3>3, <4>1 DEF Licensed
    <3>6. QED BY <1>1, <2>1, <2>2, <3>1, <3>2, <3>4, <3>5
             DEF IInv, RenewalTypeOK, CheckInv, CallInv
  <2>3. CASE tpc = "call"
    <3>1. Tick /\ pc # "idle" /\ nap' = nap
      BY <1>6, <2>3 DEF RenewalTick
    <3>2. left' = left - 1
      BY <3>1 DEF Tick
    <3>3. TypeOK'
      BY <3>1, TypeStep DEF IInv, RenewalTypeOK, Next
    <3>4. CallInv'
      <4>1. queued = 0 /\ IF current > 0 THEN left - current \in {0, 1} ELSE left <= 1
        BY <2>3, <3>1 DEF IInv, CallInv
      <4>2. queued' = 0
        BY <1>1, <2>1, <4>1
      <4>3. CASE current > 1
        <5>1. current' = current - 1
          BY <2>1, <4>3
        <5>2. current' > 0 /\ left' - current' \in {0, 1}
          BY <1>1, <3>2, <4>1, <4>3, <5>1
        <5>3. QED BY <4>2, <5>2 DEF CallInv
      <4>4. CASE current <= 1
        <5>1. current' = 0
          BY <2>1, <4>1, <4>4
        <5>2. left' <= 1
          BY <1>1, <3>2, <4>1, <4>4
        <5>3. QED BY <4>2, <5>1, <5>2 DEF CallInv
      <4>5. QED BY <1>1, <4>3, <4>4
    <3>5. QED BY <1>1, <2>1, <2>3, <3>1, <3>3, <3>4
             DEF IInv, RenewalTypeOK, CheckInv, SleepInv, Licensed
  <2>4. QED BY <1>6, <2>2, <2>3 DEF RenewalTick
<1>7. CASE UNCHANGED <<vars, renewalVars>>
  BY <1>7 DEF vars, callVars, renewalVars, IInv, RenewalTypeOK, TypeOK, CheckInv, SleepInv,
              CallInv, Licensed
<1>8. QED BY <1>2, <1>3, <1>4, <1>5, <1>6, <1>7 DEF RenewalNext

LEMMA RenewalInvariant == ASSUME ~ResumeElsewhere PROVE RenewalSpec => []IInv
  BY RenewalInitially, RenewalStep, PTL DEF RenewalSpec

-----------------------------------------------------------------------------
\* The variables keep their types, and a license is queued only behind another.
THEOREM RenewalTyped == ASSUME ~ResumeElsewhere PROVE RenewalSpec => []RenewalTypeOK
<1>1. IInv => RenewalTypeOK
  BY DEF IInv
<1>2. QED BY <1>1, RenewalInvariant, PTL

\* The thread retries until the license ends, or a second longer, in a process
\* that has set the licenses it runs on.
THEOREM RetriesLastAsTheLicense ==
  ASSUME ~ResumeElsewhere PROVE RenewalSpec => []DeadlineIsExpiry
<1>1. IInv => DeadlineIsExpiry
  BY DEF IInv, CallInv, DeadlineIsExpiry
<1>2. QED BY <1>1, RenewalInvariant, PTL

\* The hardware is locked under a living thread only when its retries have
\* filled the time of a whole license.
THEOREM LockedAtDeadlineOnly ==
  ASSUME ~ResumeElsewhere PROVE RenewalSpec => []LockedOnlyAtDeadline
<1>1. IInv => LockedOnlyAtDeadline
  BY DEF IInv, RenewalTypeOK, CallInv, Licensed, LockedOnlyAtDeadline
<1>2. QED BY <1>1, RenewalInvariant, PTL
=============================================================================
