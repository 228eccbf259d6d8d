--------------------------- MODULE LicenseRenewal ---------------------------
(***************************************************************************)
(* The loop of the background thread in time: the two licenses of the      *)
(* controller count down, the thread sleeps while the queue is full, and    *)
(* calls getLicense when there is room, with the duration of the license it *)
(* knows of as timeout. One call is the machine of LicenseRequest.          *)
(*                                                                         *)
(* The thread starts after activate(): on the license this process has set, *)
(* or, when it resumes with a full queue, on licenses it has not.           *)
(***************************************************************************)
EXTENDS LicenseRequest

CONSTANTS
  Durations,     \* the license durations the web service grants, in seconds
  ShortPeriod,   \* mWSRetryPeriodShort
  LongPeriod,    \* mWSRetryPeriodLong
  ResumeElsewhere  \* may a new process resume the session of an earlier one?

\* A license lasts longer than the second the thread sleeps beyond it.
ASSUME DurationsAssumption ==
  /\ Durations \subseteq Nat \ {0, 1}
  /\ ShortPeriod \in Nat /\ LongPeriod \in Nat /\ ShortPeriod < LongPeriod
  /\ ResumeElsewhere \in BOOLEAN

VARIABLES
  tpc,       \* the thread: check the queue, sleep, in a call, or ended
  nap,       \* what is left of its sleep
  duration,  \* mLicenseDuration
  current,   \* what is left of the license that counts down
  queued     \* the length of the license in the queue, 0 if there is none

renewalVars == <<tpc, nap, duration, current, queued>>

RenewalTypeOK ==
  /\ TypeOK
  /\ tpc \in {"check", "sleep", "call", "ended"}
  /\ nap \in Nat /\ duration \in Nat /\ current \in Nat /\ queued \in Nat
  /\ queued > 0 => current > 0

\* The thread as activate() starts it.
RenewalInit ==
  /\ Init
  /\ tpc = "check" /\ nap = 0
  /\ \E d \in Durations :
       \/ duration = d /\ current = d /\ queued = 0
       \/ duration = d /\ queued = d /\ \E c \in Durations : current \in 1..c
       \/ ResumeElsewhere /\ duration = 0 /\ queued = d /\ current \in 1..d

\* Mutant: the thread sleeps over the queued license as well.
SleepTooLong ==
  /\ tpc = "check" /\ queued > 0
  /\ tpc' = "sleep" /\ nap' = current + queued + 1
  /\ UNCHANGED <<vars, duration, current, queued>>

\* The queue is full: sleep for the time left of the current license, and 1 s.
SleepUntilRoom ==
  /\ tpc = "check" /\ queued > 0
  /\ tpc' = "sleep" /\ nap' = current + 1
  /\ UNCHANGED <<vars, duration, current, queued>>

\* Mutant: the thread does not look at the queue again.
SleepAgain ==
  /\ tpc = "sleep" /\ nap = 0
  /\ nap' = current + 1
  /\ UNCHANGED <<vars, tpc, duration, current, queued>>

WakeUp ==
  /\ tpc = "sleep" /\ nap = 0
  /\ tpc' = "check"
  /\ UNCHANGED <<vars, nap, duration, current, queued>>

\* There is room: getLicense, with mLicenseDuration as timeout.
RequestLicense ==
  /\ tpc = "check" /\ queued = 0
  /\ tpc' = "call"
  /\ Call([timeout |-> duration, short |-> ShortPeriod, long |-> LongPeriod])
  /\ UNCHANGED <<nap, duration, current, queued>>

Requesting == tpc = "call" /\ CallStep /\ UNCHANGED renewalVars

\* Mutant: setLicense does not keep the duration of the new license.
InstallOldDuration ==
  /\ tpc = "call" /\ pc = "idle" /\ outcome = "license"
  /\ \E d \in Durations :
       IF current = 0
       THEN current' = d /\ UNCHANGED queued
       ELSE queued' = d /\ UNCHANGED current
  /\ tpc' = "check"
  /\ UNCHANGED <<vars, nap, duration>>

\* setLicense: the license counts down at once or waits for the current one.
InstallLicense ==
  /\ tpc = "call" /\ pc = "idle" /\ outcome = "license"
  /\ \E d \in Durations :
       /\ duration' = d
       /\ IF current = 0
          THEN current' = d /\ UNCHANGED queued
          ELSE queued' = d /\ UNCHANGED current
  /\ tpc' = "check"
  /\ UNCHANGED <<vars, nap>>

\* getLicense has thrown: the thread reports the error and ends.
EndThread ==
  /\ tpc = "call" /\ pc = "idle" /\ outcome # "license"
  /\ tpc' = "ended"
  /\ UNCHANGED <<vars, nap, duration, current, queued>>

\* Mutant: the queued license is not started at the end of the current one.
CountDownOnly ==
  current' = (IF current > 0 THEN current - 1 ELSE 0) /\ UNCHANGED queued

\* The controller counts one second down and starts the queued license when the
\* current one is over.
CountDown ==
  IF current > 1
  THEN current' = current - 1 /\ UNCHANGED queued
  ELSE current' = queued /\ queued' = 0

\* A second of the thread's life: in a sleep or in a call.
RenewalTick ==
  /\ \/ tpc = "sleep" /\ nap > 0 /\ nap' = nap - 1
        /\ token' = (IF token > 0 THEN token - 1 ELSE 0)
        /\ UNCHANGED callVars
     \/ tpc = "call" /\ pc # "idle" /\ Tick /\ UNCHANGED nap
  /\ CountDown
  /\ UNCHANGED <<tpc, duration>>

RenewalNext ==
  \/ SleepUntilRoom \/ WakeUp
  \/ RequestLicense \/ Requesting \/ InstallLicense \/ EndThread
  \/ RenewalTick

RenewalSpec == RenewalInit /\ [][RenewalNext]_<<vars, renewalVars>>

RenewalFairSpec ==
  RenewalSpec /\ WF_<<vars, renewalVars>>(RenewalNext)

-----------------------------------------------------------------------------
(* Properties.                                                             *)

\* "The retry period starts when the DRM Controller is ready to receive a new
\* license and lasts until the license expires": while there is a license, the
\* call's deadline is its end, or the second after.
DeadlineIsExpiry ==
  tpc = "call" /\ pc # "idle" /\ current > 0 => left - current \in {0, 1}

\* The hardware is without license only when the retries of a whole license
\* have run out: never while the thread sleeps or checks, and in a call only
\* around its deadline.
LockedOnlyAtDeadline ==
  current = 0 /\ tpc # "ended" => tpc = "call" /\ (pc # "idle" => left <= 1)

\* A thread that goes on installs licenses again and again: it never sleeps for
\* ever.
KeepsRenewing == []<>(tpc \in {"call", "ended"})
=============================================================================
