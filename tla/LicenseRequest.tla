--------------------------- MODULE LicenseRequest ---------------------------
(***************************************************************************)
(* One call of DrmManager::Impl::getLicense with the retries, waits and    *)
(* deadline of its two loops (first an OAuth2 token, then the license) and *)
(* of DrmWSClient under it.                                                *)
(*                                                                         *)
(* Time is counted in seconds and kept relative, so that it needs no bound: *)
(* "left" is the time to the deadline rounded up. At left = 0 the deadline  *)
(* is reached, exactly or by less than a second: the comparisons of the     *)
(* code that tell the two apart go either way there.                        *)
(***************************************************************************)
EXTENDS Integers

CONSTANTS
  Profiles,     \* the callers: their timeout, short and long retry periods
  Validities    \* "expires_in", the lifetimes the web service gives to tokens

ASSUME ProfilesAssumption == Profiles \subseteq [timeout : Nat, short : Nat, long : Nat]
ASSUME ValiditiesAssumption == Validities \subseteq Nat

VARIABLES
  pc,        \* where the call is
  stage,     \* the loop it is in: "token" or "license"
  prof,      \* the timeout and retry periods it was called with
  left,      \* deadline - now
  wait,      \* what is left of the sleep between two attempts
  token,     \* the remaining lifetime of mOAuth2Token, 0 when empty or expired
  outcome,   \* how the last call ended
  stop       \* mThreadStopRequest

callVars == <<pc, stage, prof, left, wait, outcome, stop>>
vars     == <<callVars, token>>

Outcomes == {"none", "license", "error", "denied", "timeout", "notRetried", "exit"}

TypeOK ==
  /\ pc \in {"idle", "ready", "sent", "failed", "waiting"}
  /\ stage \in {"token", "license"}
  /\ prof \in [timeout : Nat, short : Nat, long : Nat]
  /\ left \in Int
  /\ wait \in Nat
  /\ token \in Nat
  /\ outcome \in Outcomes
  /\ stop \in BOOLEAN

Init ==
  /\ pc = "idle" /\ stage = "token" /\ outcome = "none" /\ stop = FALSE
  /\ prof \in Profiles
  /\ left = 0 /\ wait = 0 /\ token = 0

-----------------------------------------------------------------------------
\* getLicense( request, deadline, short_retry_period, long_retry_period )
Call(p) ==
  /\ pc = "idle"
  /\ pc' = "ready" /\ stage' = "token" /\ prof' = p
  /\ left' = p.timeout /\ wait' = 0
  /\ outcome' = "none" /\ stop' = FALSE
  /\ UNCHANGED token

\* The call returns, or an exception leaves it.
Return(how) ==
  /\ pc' = "idle" /\ outcome' = how
  /\ left' = 0 /\ wait' = 0 /\ stop' = FALSE
  /\ UNCHANGED <<stage, prof, token>>

\* The current step of the call is over, the clock has not moved.
Goto(p) ==
  /\ pc' = p
  /\ UNCHANGED <<stage, prof, left, wait, outcome, stop, token>>

\* requestOAuth2token returns at once while the token it has is not expired.
KeepToken ==
  /\ pc = "ready" /\ stage = "token" /\ token > 0
  /\ stage' = "license"
  /\ UNCHANGED <<pc, prof, left, wait, outcome, stop, token>>

\* CurlEasyPost::perform: no request is made once the deadline is reached.
Perform ==
  /\ pc = "ready"
  /\ stage = "token" => token = 0
  /\ Goto(IF left > 0 THEN "sent" ELSE "failed")

\* A new token.
AnswerToken ==
  /\ pc = "sent" /\ stage = "token"
  /\ token' \in Validities
  /\ stage' = "license" /\ pc' = "ready"
  /\ UNCHANGED <<prof, left, wait, outcome, stop>>

\* A license: only for a token that is valid when the request is served.
AnswerLicense ==
  /\ pc = "sent" /\ stage = "license"
  /\ Return(IF token > 0 THEN "license" ELSE "denied")

\* An error the code does not retry, or an answer it cannot read.
AnswerError == pc = "sent" /\ Return("error")

\* An error it may retry, or curl could not connect or timed out.
AnswerRetry == pc = "sent" /\ Goto("failed")

\* Mutant: the deadline is not looked at between two attempts.
RetryForever ==
  /\ pc = "failed"
  /\ pc' = "waiting" /\ wait' = prof.short
  /\ UNCHANGED <<stage, prof, left, outcome, stop, token>>

\* The waits the code may choose: the long period as long as it ends before the
\* deadline, then the short one.
Waits ==
  {w \in {prof.short, prof.long} :
     \/ w = prof.short /\ (prof.long = 0 \/ left <= prof.long)
     \/ w = prof.long /\ prof.long > 0 /\ left >= prof.long}

\* The catch clause of both loops: give up after the deadline or when no retry
\* is asked for, else choose how long to wait.
Retry ==
  /\ pc = "failed"
  /\ \/ left <= 0 /\ Return("timeout")
     \/ left >= 0 /\ prof.short = 0 /\ Return("notRetried")
     \/ /\ left >= 0 /\ prof.short > 0
        /\ pc' = "waiting" /\ wait' \in Waits
        /\ UNCHANGED <<stage, prof, left, outcome, stop, token>>

\* sleepOrExit: the time is over, or the thread is asked to stop.
Wake == pc = "waiting" /\ wait = 0 /\ ~stop /\ Goto("ready")
ExitRequested == pc = "waiting" /\ stop /\ Return("exit")

\* stopThread, while the background thread, the only caller that has a long
\* retry period, is inside getLicense.
StopRequest ==
  /\ pc # "idle" /\ prof.long > 0 /\ ~stop
  /\ stop' = TRUE
  /\ UNCHANGED <<pc, stage, prof, left, wait, outcome, token>>

\* A second passes, during an exchange (curl's timeout ends it at the deadline)
\* or a sleep; between two calls only the token gets older.
Tick ==
  /\ \/ pc = "idle" /\ token > 0 /\ UNCHANGED <<left, wait>>
     \/ pc = "sent" /\ left > 0 /\ left' = left - 1 /\ UNCHANGED wait
     \/ pc = "waiting" /\ wait > 0 /\ left' = left - 1 /\ wait' = wait - 1
  /\ token' = IF token > 0 THEN token - 1 ELSE 0
  /\ UNCHANGED <<pc, stage, prof, outcome, stop>>

CallStep ==
  \/ KeepToken \/ Perform
  \/ AnswerToken \/ AnswerLicense \/ AnswerError \/ AnswerRetry
  \/ Retry \/ Wake \/ ExitRequested

Next == (\E p \in Profiles : Call(p)) \/ CallStep \/ StopRequest \/ Tick

Spec == Init /\ [][Next]_vars

\* Time passes, and a call goes on when it can: curl ends every exchange at the
\* latest with its timeout, and wait_for returns at the end of the sleep.
FairSpec == Spec /\ WF_vars(CallStep \/ Tick)

-----------------------------------------------------------------------------
(* Properties.                                                             *)

\* No call outlasts its deadline by more than one short retry period: that is
\* how long activate() and deactivate() may block beyond ws_request_timeout,
\* and the background thread beyond the license.
OverrunBounded == pc # "idle" => left + prof.short >= 0

\* The code never sleeps through the deadline in a long period: a sleep ends
\* before the deadline, or within the short period.
LongWaitFits == pc = "waiting" => wait <= left \/ wait <= prof.short

\* The call refines a timed call with a budget of timeout + short period.
Timed == INSTANCE TimedCall WITH
  Budgets <- {p.timeout + p.short : p \in Profiles},
  busy    <- pc # "idle",
  budget  <- IF pc = "idle" THEN 0 ELSE left + prof.short

IsTimedCall == Timed!Spec

\* Every call ends: no retry loop goes on for ever.
IsFairTimedCall == Timed!FairSpec
=============================================================================
