----------------------------- MODULE DrmSession -----------------------------
(***************************************************************************)
(* The metered (floating) licensing session of DrmManager::Impl: the       *)
(* application thread inside activate(), deactivate() or the destructor,   *)
(* the background thread that keeps the hardware licensed, the DRM         *)
(* controller they share, and the license web service.                     *)
(*                                                                         *)
(* One step of this module is one section the code runs under              *)
(* mDrmControllerMutex, one web service exchange, or one step of the       *)
(* stop flag / condition variable / future protocol between the threads.   *)
(* detectDrmFrequency keeps the mutex from its first look at the counter    *)
(* to its last, over a loop without a limit and a sleep: in these control   *)
(* states ("sample", "spin", "measure") no other register access can start. *)
(***************************************************************************)
EXTENDS Naturals

CONSTANTS
  Ids,       \* the session identifiers the web service can hand out
  NoId,      \* the empty mSessionID
  MayCrash,  \* may the process be killed and started again?
  HwFaults   \* the controller operations that may time out or report an error

ASSUME IdsAssumption == NoId \notin Ids
ASSUME FaultsAssumption ==
  /\ MayCrash \in BOOLEAN
  /\ HwFaults \subseteq {"extract", "end", "key", "timer", "read"}

VARIABLES
  apc,           \* where the application thread is
  op,            \* the API call it is executing
  areq, aid,     \* its web request, and the session id in the request/answer
  bpc, bid,      \* the background thread: where it is, and the id in its answer
  sample,        \* the licenses there were when it last took counterStart
  sessionId,     \* mSessionID
  securityStop,  \* mSecurityStop
  future,        \* mThreadKeepAlive.valid()
  stopReq,       \* mThreadStopRequest
  asyncErr,      \* f_asynch_error was called since the current API call began
  hwRunning,     \* status bit "session running" of the controller
  hwId,          \* session id of the license in the controller
  hwLic,         \* licenses in the controller: 1 counting down, 2 one queued too
  cut,           \* activate() failed to end the session that runs, and went on
  wsOpen         \* the sessions open on the web service

appVars == <<apc, op, areq, aid>>
bgVars  == <<bpc, bid, sample>>
mgrVars == <<sessionId, securityStop, future, stopReq, asyncErr>>
hwVars  == <<hwRunning, hwId, hwLic, cut>>
vars    == <<appVars, bgVars, mgrVars, hwVars, wsOpen>>

Calls == {"activate", "resume", "deactivate", "pause", "destroy"}
Gone  == {"exited", "crashed"}

ThreadsTypeOK ==
  /\ apc \in {"idle", "check", "wait", "stop", "join", "end", "start",
              "request", "install", "spawn"} \cup Gone
  /\ op \in Calls \cup {"none", "quit"}
  /\ areq \in {"none", "open", "running", "close"}
  /\ bpc \in {"none", "start", "sample", "spin", "measure", "check", "sleep",
              "request", "backoff", "install", "done"}
  /\ sample \in 0..2
  /\ aid \in Ids \cup {NoId} /\ bid \in Ids \cup {NoId}

ManagerTypeOK ==
  /\ sessionId \in Ids \cup {NoId}
  /\ securityStop \in BOOLEAN /\ future \in BOOLEAN
  /\ stopReq \in BOOLEAN /\ asyncErr \in BOOLEAN

OutsideTypeOK ==
  /\ hwRunning \in BOOLEAN /\ hwId \in Ids \cup {NoId} /\ hwLic \in 0..2
  /\ cut \in BOOLEAN
  /\ wsOpen \subseteq Ids

TypeOK == ThreadsTypeOK /\ ManagerTypeOK /\ OutsideTypeOK

\* The lambda of startLicenseContinuityThread has started and not returned.
BgLive == bpc \notin {"none", "done"}

\* mDrmControllerMutex can be taken by the other thread.
MutexFree == bpc \notin {"sample", "spin", "measure"}

\* A session id nobody holds: what the web service answers to "open".
FreshIds == Ids \ (wsOpen \cup {sessionId, hwId, aid, bid})

Init ==
  /\ apc = "idle" /\ op = "none" /\ areq = "none" /\ aid = NoId
  /\ bpc = "none" /\ bid = NoId /\ sample = 0
  /\ sessionId = NoId /\ securityStop = FALSE
  /\ future = FALSE /\ stopReq = FALSE /\ asyncErr = FALSE
  /\ hwRunning = FALSE /\ hwId = NoId /\ hwLic = 0 /\ cut = FALSE
  /\ wsOpen = {}

-----------------------------------------------------------------------------
(* How a call of the application ends or goes on.                          *)

Goto(pc) == apc' = pc /\ UNCHANGED <<op, areq, aid>>

Return == apc' = "idle" /\ op' = "none" /\ areq' = "none" /\ aid' = NoId

Exit(how) == apc' = how /\ op' = "none" /\ areq' = "none" /\ aid' = NoId

\* The process is gone with everything it held; the controller and the web
\* service keep their state.
ProcessLost ==
  /\ Exit("crashed")
  /\ bpc' = "none" /\ bid' = NoId /\ sample' = 0
  /\ sessionId' = NoId /\ securityStop' = FALSE
  /\ future' = FALSE /\ stopReq' = FALSE /\ asyncErr' = FALSE

\* An exception ends the call. Out of the destructor, which is noexcept, it is
\* std::terminate.
FailCall ==
  IF op = "destroy"
  THEN ProcessLost
  ELSE /\ Return
       /\ UNCHANGED <<bgVars, mgrVars>>

-----------------------------------------------------------------------------
(* API calls.                                                              *)

\* Mutant: activate( false ) on a running session does not stop it first.
ActivateWithoutStop ==
  /\ apc = "idle" /\ MutexFree
  /\ \E resume \in BOOLEAN :
       /\ op' = IF resume THEN "resume" ELSE "activate"
       /\ apc' = IF hwRunning /\ resume THEN "check" ELSE "start"
  /\ securityStop' = TRUE
  /\ asyncErr' = FALSE
  /\ UNCHANGED <<areq, aid, bgVars, sessionId, future, stopReq, hwVars, wsOpen>>

\* activate( resume_session_request ): reads the session status, then takes
\* one of the three routes. The reads are separate locked sections in the
\* code; nothing the background thread does changes what they read.
ActivateCall ==
  /\ apc = "idle" /\ MutexFree
  /\ \E resume \in BOOLEAN :
       /\ op' = IF resume THEN "resume" ELSE "activate"
       /\ apc' = IF ~hwRunning THEN "start" ELSE IF resume THEN "check" ELSE "stop"
  /\ securityStop' = TRUE
  /\ asyncErr' = FALSE
  /\ UNCHANGED <<areq, aid, bgVars, sessionId, future, stopReq, hwVars, wsOpen>>

\* Mutant: pausing does not stop the background thread.
PauseWithoutStop ==
  /\ apc = "idle" /\ MutexFree
  /\ \E pause \in BOOLEAN :
       IF hwRunning /\ ~pause
       THEN op' = "deactivate" /\ apc' = "stop" /\ UNCHANGED securityStop
       ELSE UNCHANGED <<op, apc>> /\ securityStop' = (securityStop /\ ~pause)
  /\ asyncErr' = FALSE
  /\ UNCHANGED <<areq, aid, bgVars, sessionId, future, stopReq, hwVars, wsOpen>>

\* deactivate( pause_session_request ): a call without a running session
\* returns at once.
DeactivateCall ==
  /\ apc = "idle" /\ MutexFree
  /\ \E pause \in BOOLEAN :
       IF hwRunning
       THEN /\ op' = IF pause THEN "pause" ELSE "deactivate"
            /\ apc' = "stop"
       ELSE UNCHANGED <<op, apc>>
  /\ asyncErr' = FALSE
  /\ UNCHANGED <<areq, aid, bgVars, sessionId, securityStop, future, stopReq,
                 hwVars, wsOpen>>

\* Mutant: the destructor only stops the thread.
DestroyWithoutClose ==
  /\ apc = "idle"
  /\ op' = "quit" /\ apc' = "stop"
  /\ asyncErr' = FALSE
  /\ UNCHANGED <<areq, aid, bgVars, sessionId, securityStop, future, stopReq,
                 hwVars, wsOpen>>

\* ~Impl: close the session if the manager was left activated, else only stop
\* the thread.
DestroyCall ==
  /\ apc = "idle"
  /\ securityStop => MutexFree
  /\ op' = IF securityStop /\ hwRunning THEN "destroy" ELSE "quit"
  /\ apc' = "stop"
  /\ asyncErr' = FALSE
  /\ UNCHANGED <<areq, aid, bgVars, sessionId, securityStop, future, stopReq,
                 hwVars, wsOpen>>

\* A new process constructs its manager; the constructor only reads.
NewProcess ==
  /\ apc \in Gone
  /\ apc' = "idle"
  /\ securityStop' = FALSE /\ sessionId' = NoId /\ asyncErr' = FALSE
  /\ UNCHANGED <<op, areq, aid, bgVars, future, stopReq, hwVars, wsOpen>>

\* The process is killed between any two steps.
Crash ==
  /\ MayCrash /\ apc \notin Gone
  /\ ProcessLost
  /\ UNCHANGED <<hwVars, wsOpen>>

-----------------------------------------------------------------------------
(* stopThread: set the flag and notify, join, reset the flag.              *)

\* Mutant: a pause ends the session like a stop.
AfterStopEndsPaused ==
  IF op = "quit"
  THEN Exit("exited") /\ UNCHANGED <<sessionId, securityStop>>
  ELSE Goto("end") /\ UNCHANGED <<sessionId, securityStop>>

\* What the caller of stopThread does next: stopSession goes on to end the
\* session, pauseSession clears mSecurityStop and returns, the destructor ends.
AfterStop ==
  CASE op = "pause" -> Return /\ securityStop' = FALSE /\ UNCHANGED sessionId
    [] op = "quit"  -> Exit("exited") /\ UNCHANGED <<sessionId, securityStop>>
    [] OTHER        -> Goto("end") /\ UNCHANGED <<sessionId, securityStop>>

\* Mutant: the flag is set but nobody waits for the thread.
StopThreadNoJoin ==
  /\ apc = "stop"
  /\ stopReq' = future
  /\ AfterStop
  /\ UNCHANGED <<bgVars, future, asyncErr, hwVars, wsOpen>>

\* Mutant: the thread is joined without having been told to stop.
StopThreadNoFlag ==
  /\ apc = "stop"
  /\ IF future
     THEN Goto("join") /\ UNCHANGED <<sessionId, securityStop>>
     ELSE AfterStop
  /\ UNCHANGED <<bgVars, future, stopReq, asyncErr, hwVars, wsOpen>>

StopThread ==
  /\ apc = "stop"
  /\ IF future
     THEN /\ stopReq' = TRUE
          /\ Goto("join")
          /\ UNCHANGED <<sessionId, securityStop>>
     ELSE AfterStop /\ UNCHANGED stopReq
  /\ UNCHANGED <<bgVars, future, asyncErr, hwVars, wsOpen>>

\* Mutant: the flag stays up after the join.
JoinThreadFlagUp ==
  /\ apc = "join" /\ bpc = "done"
  /\ bpc' = "none" /\ bid' = NoId
  /\ future' = FALSE /\ UNCHANGED stopReq
  /\ AfterStop
  /\ UNCHANGED <<sample, asyncErr, hwVars, wsOpen>>

JoinThread ==
  /\ apc = "join" /\ bpc = "done"
  /\ bpc' = "none" /\ bid' = NoId
  /\ future' = FALSE /\ stopReq' = FALSE
  /\ AfterStop
  /\ UNCHANGED <<sample, asyncErr, hwVars, wsOpen>>

-----------------------------------------------------------------------------
(* The requests to the web service: what is read from the controller for   *)
(* them, under the mutex, before they are sent.                            *)

\* checkSessionIDFromDRM, checkSessionIDFromWS.
SessionIdOk(id) == sessionId \in {NoId, id}

Send(request, id) ==
  apc' = "request" /\ areq' = request /\ aid' = id /\ UNCHANGED op

\* An exception inside stopSession: activate() swallows it and opens a new
\* session all the same.
StopFailed ==
  IF op = "activate"
  THEN /\ apc' = "start" /\ areq' = "none" /\ aid' = NoId
       /\ UNCHANGED <<op, bgVars, mgrVars>>
  ELSE FailCall

\* getMeteringStart
MeteringStart ==
  /\ apc = "start" /\ MutexFree
  /\ \/ Send("open", NoId) /\ UNCHANGED <<bgVars, mgrVars>>
     \/ "extract" \in HwFaults /\ FailCall
  /\ UNCHANGED <<hwVars, wsOpen>>

\* Mutant: the queue is not looked at.
ResumeUnchecked ==
  /\ apc = "check" /\ MutexFree
  /\ Goto("wait")
  /\ UNCHANGED <<bgVars, mgrVars, hwVars, wsOpen>>

\* isReadyForNewLicense in resumeSession: no request if the queue is full.
ResumeCheck ==
  /\ apc = "check" /\ MutexFree
  /\ \/ /\ Goto(IF hwLic = 2 THEN "spawn" ELSE "wait")
        /\ UNCHANGED <<bgVars, mgrVars>>
     \/ "read" \in HwFaults /\ FailCall
  /\ UNCHANGED <<hwVars, wsOpen>>

\* getMeteringWait, called by resumeSession
MeteringWait ==
  /\ apc = "wait" /\ MutexFree
  /\ \/ SessionIdOk(hwId) /\ Send("running", hwId) /\ UNCHANGED <<bgVars, mgrVars>>
     \/ ~SessionIdOk(hwId) /\ FailCall
     \/ "extract" \in HwFaults /\ FailCall
  /\ UNCHANGED <<hwVars, wsOpen>>

\* Mutant: the end-session command is not waited for and has no effect yet.
HwEndIgnored == UNCHANGED hwVars

\* What the end-session command does in the controller.
HwEnd == hwRunning' = FALSE /\ hwId' = NoId /\ hwLic' = 0 /\ cut' = FALSE

\* getMeteringStop. The command may have taken effect when it fails: with a
\* timeout, a std::exception which activate() does not swallow, or with an error
\* code of the controller or the bus, an Exception which it does.
MeteringStop ==
  /\ apc = "end" /\ MutexFree
  /\ \/ /\ HwEnd
        /\ IF SessionIdOk(hwId)
           THEN Send("close", hwId) /\ UNCHANGED <<bgVars, mgrVars>>
           ELSE StopFailed
     \/ /\ "end" \in HwFaults
        /\ \/ (HwEnd \/ UNCHANGED hwVars) /\ FailCall
           \/ HwEnd /\ StopFailed
           \/ /\ op = "activate" /\ StopFailed
              /\ cut' = TRUE /\ UNCHANGED <<hwRunning, hwId, hwLic>>
  /\ UNCHANGED wsOpen

-----------------------------------------------------------------------------
(* The web service and getLicense. A retry leaves getLicense where it is;  *)
(* the retries end with an answer or with the timeout of the deadline.     *)

AnswerOpen ==
  /\ areq = "open"
  /\ \E id \in FreshIds :
       /\ wsOpen' = wsOpen \cup {id}
       /\ aid' = id
  /\ apc' = "install"
  /\ UNCHANGED <<op, areq, bgVars, mgrVars>>

AnswerRunning ==
  /\ areq = "running" /\ aid \in wsOpen
  /\ Goto("install")
  /\ UNCHANGED <<bgVars, mgrVars, wsOpen>>

\* The end of stopSession: check the answer, clear mSessionID, and return to
\* whoever called it.
AnswerClose ==
  /\ areq = "close"
  /\ wsOpen' = wsOpen \ {aid}
  /\ IF SessionIdOk(aid)
     THEN /\ sessionId' = NoId
          /\ CASE op = "activate" -> /\ apc' = "start" /\ areq' = "none" /\ aid' = NoId
                                     /\ UNCHANGED op
               [] op = "destroy"  -> Exit("exited")
               [] OTHER           -> Return
          /\ UNCHANGED <<bgVars, securityStop, future, stopReq, asyncErr>>
     ELSE StopFailed

AppAnswerOk ==
  /\ apc = "request"
  /\ AnswerOpen \/ AnswerRunning \/ AnswerClose
  /\ UNCHANGED hwVars

\* An error that is not retried, or the deadline passed.
AppAnswerFail ==
  /\ apc = "request"
  /\ IF areq = "close" THEN StopFailed ELSE FailCall
  /\ UNCHANGED <<hwVars, wsOpen>>

\* The web service served the request but the answer was lost: the client
\* sees a timeout and tries again.
AnswerLost ==
  /\ apc = "request"
  /\ \/ areq = "open" /\ \E id \in FreshIds : wsOpen' = wsOpen \cup {id}
     \/ areq = "close" /\ wsOpen' = wsOpen \ {aid}
  /\ UNCHANGED <<appVars, bgVars, mgrVars, hwVars>>

-----------------------------------------------------------------------------
(* setLicense, called by both threads under the mutex.                     *)

\* Mutant: the queue is unbounded.
QueueMore == hwLic + 1

\* A timer sent while a license is already queued takes the place of that one.
QueueLicense == IF hwLic = 2 THEN 2 ELSE hwLic + 1

\* The license is activated and its timer loaded.
LicenseSet(id) ==
  /\ SessionIdOk(id)
  /\ sessionId' = id
  /\ hwRunning' = TRUE /\ hwId' = id /\ cut' = FALSE
  /\ hwLic' = QueueLicense

\* The answer is for another session; or it has no key or the controller refuses
\* the key, when mSessionID is already saved; or the license timer is missing or
\* refused, or the mode is not the expected one, when the license may be active.
LicenseRefused(id) ==
  \/ ~SessionIdOk(id) /\ UNCHANGED <<sessionId, hwVars>>
  \/ /\ "key" \in HwFaults /\ SessionIdOk(id)
     /\ sessionId' = id /\ UNCHANGED hwVars
  \/ /\ "timer" \in HwFaults /\ SessionIdOk(id)
     /\ sessionId' = id /\ hwRunning' = TRUE /\ hwId' = id /\ cut' = FALSE
     /\ hwLic' \in {hwLic, QueueLicense}

AppInstall ==
  /\ apc = "install" /\ MutexFree
  /\ \/ /\ LicenseSet(aid)
        /\ apc' = "spawn" /\ areq' = "none" /\ aid' = NoId /\ UNCHANGED op
     \/ LicenseRefused(aid) /\ Return
  /\ UNCHANGED <<bgVars, securityStop, future, stopReq, asyncErr, wsOpen>>

\* startLicenseContinuityThread: nothing is started while the future is valid.
SpawnThread ==
  /\ apc = "spawn"
  /\ IF future
     THEN UNCHANGED <<future, bpc>>
     ELSE future' = TRUE /\ bpc' = "start"
  /\ Return
  /\ UNCHANGED <<bid, sample, sessionId, securityStop, stopReq, asyncErr, hwVars, wsOpen>>

-----------------------------------------------------------------------------
(* The background thread.                                                  *)

\* Nothing but the thread's own control state changes, and what it holds of the
\* counter.
BgHold(pc, licenses) ==
  /\ bpc' = pc /\ sample' = licenses
  /\ UNCHANGED <<appVars, bid, mgrVars, hwVars, wsOpen>>

BgGoto(pc) == BgHold(pc, 0)

BgDone == bpc' = "done" /\ bid' = NoId /\ sample' = 0

\* DRM_Exit, or isStopRequested: the thread returns without a report.
BgLeave ==
  /\ stopReq /\ BgDone
  /\ UNCHANGED <<appVars, mgrVars, hwVars, wsOpen>>

\* Mutant: the thread swallows the exception.
BgFailSilently ==
  /\ BgDone
  /\ UNCHANGED <<appVars, sessionId, securityStop, future, stopReq, asyncErr, wsOpen>>

\* Any other exception is reported through f_asynch_error.
BgFail ==
  /\ BgDone /\ asyncErr' = TRUE
  /\ UNCHANGED <<appVars, sessionId, securityStop, future, stopReq, wsOpen>>

\* detectDrmFrequency takes the mutex,
BgStart == bpc = "start" /\ BgGoto("sample")

\* reads the counter,
BgSample == bpc = "sample" /\ BgHold("spin", hwLic)

\* and again until it is lower, without a limit. A counter that is above 0 gets
\* lower in time, the license being replaced or not: nobody can install one now.
\* A counter at 0 never does.
BgSpin == bpc = "spin" /\ sample > 0 /\ BgHold("measure", hwLic)

\* sleepOrExit, and the last look at the counter: an exit request; no license; a
\* frequency, which may be off; or, if a queued license took over since, one more
\* attempt, of which there are enough (FrequencyDetection).
BgMeasure ==
  /\ bpc = "measure"
  /\ \/ BgLeave
     \/ BgFail /\ UNCHANGED hwVars
     \/ hwLic > 0 /\ BgGoto("check")
     \/ hwLic > 0 /\ hwLic < sample /\ BgGoto("sample")

\* A read of the counter or of the license queue fails: the thread's own failure,
\* to which nothing obliges the controller.
BgReadFails ==
  /\ "read" \in HwFaults
  /\ bpc \in {"sample", "spin", "measure", "check"}
  /\ BgFail /\ UNCHANGED hwVars

\* Mutant: the thread asks for a license when there is no room for one, and
\* sleeps when there is.
BgCheckInverted ==
  /\ bpc = "check"
  /\ IF hwLic < 2
     THEN BgGoto("sleep")
     ELSE \/ BgLeave
          \/ /\ ~stopReq /\ SessionIdOk(hwId)
             /\ bpc' = "request" /\ bid' = hwId
             /\ UNCHANGED <<appVars, sample, mgrVars, hwVars, wsOpen>>

\* isReadyForNewLicense; if so isStopRequested and getMeteringWait.
BgCheck ==
  /\ bpc = "check"
  /\ IF hwLic = 2
     THEN BgGoto("sleep")
     ELSE \/ BgLeave
          \/ /\ ~stopReq /\ SessionIdOk(hwId)
             /\ bpc' = "request" /\ bid' = hwId
             /\ UNCHANGED <<appVars, sample, mgrVars, hwVars, wsOpen>>
          \/ /\ ~stopReq
             /\ ~SessionIdOk(hwId) \/ "extract" \in HwFaults
             /\ BgFail /\ UNCHANGED hwVars

\* Mutant: the wait for the end of the license cannot be interrupted.
BgSleepDeaf == bpc = "sleep" /\ BgGoto("check")

\* sleepOrExit until the current license has run out.
BgSleep ==
  /\ bpc = "sleep"
  /\ IF stopReq THEN BgLeave ELSE BgGoto("check")

\* getLicense in the background thread: an answer, a retry, or an error.
BgAnswer ==
  /\ bpc = "request"
  /\ \/ bid \in wsOpen /\ BgGoto("install")
     \/ BgFail /\ UNCHANGED hwVars

BgRetry == bpc = "request" /\ BgGoto("backoff")

\* sleepOrExit between two attempts.
BgBackoff ==
  /\ bpc = "backoff"
  /\ IF stopReq THEN BgLeave ELSE BgGoto("request")

BgInstall ==
  /\ bpc = "install"
  /\ \/ /\ LicenseSet(bid)
        /\ bpc' = "check" /\ bid' = NoId
        /\ UNCHANGED <<appVars, sample, securityStop, future, stopReq, asyncErr, wsOpen>>
     \/ /\ LicenseRefused(bid)
        /\ BgDone /\ asyncErr' = TRUE
        /\ UNCHANGED <<appVars, securityStop, future, stopReq, wsOpen>>

-----------------------------------------------------------------------------
\* The controller: the current license runs out and the queued one, if any,
\* takes over. The session goes on either way.
Expire ==
  /\ hwLic > 0
  /\ hwLic' = hwLic - 1
  /\ UNCHANGED <<appVars, bgVars, mgrVars, hwRunning, hwId, cut, wsOpen>>

AppStep ==
  \/ StopThread \/ JoinThread
  \/ MeteringStart \/ ResumeCheck \/ MeteringWait \/ MeteringStop
  \/ AppAnswerOk \/ AppAnswerFail
  \/ AppInstall \/ SpawnThread

BgStep ==
  \/ BgStart \/ BgSample \/ BgSpin \/ BgMeasure
  \/ BgCheck \/ BgSleep
  \/ BgAnswer \/ BgBackoff \/ BgInstall

Next ==
  \/ ActivateCall \/ DeactivateCall \/ DestroyCall
  \/ NewProcess \/ Crash
  \/ AppStep \/ AnswerLost
  \/ BgStep \/ BgRetry \/ BgReadFails
  \/ Expire

Spec == Init /\ [][Next]_vars

\* The code schedules both threads, so an enabled step of either is taken; the
\* loop of BgSpin ends because a license in the controller counts down. The
\* application's request ends because curl and the retry loop have the deadline
\* of ws_request_timeout. The background thread alternates between request and
\* backoff until its own deadline, hence the strong fairness of its answer.
\* Nothing obliges the application to call, a license to run out, or an answer
\* to be positive.
Fairness ==
  /\ WF_vars(AppStep)
  /\ WF_vars(BgStep)
  /\ SF_vars(BgAnswer)

FairSpec == Spec /\ Fairness

-----------------------------------------------------------------------------
(* Safety.                                                                 *)

\* The background thread only lives while a session runs in the controller, and
\* the manager's session id, once known, is that session's: stopSession joins
\* the thread before it ends the session, startSession starts it after the
\* license is in. On a session activate() failed to end and went on, the thread is
\* started too, but the id may be that of a new session that was refused.
ThreadHasSession ==
  BgLive => hwRunning /\ (cut \/ sessionId \in {NoId, hwId})

\* While a session runs, mSessionID is empty (a new process has not learnt it
\* yet) or names that session: the check in getMeteringWait and getMeteringStop
\* never fails, and no metering is sent under another session's id. It can only
\* name another one after activate() swallowed the failure to end this one.
SessionIdAgrees ==
  hwRunning /\ ~cut => sessionId \in {NoId, hwId}

\* The controller ends its session before the web service is told to close it,
\* so a session that runs in the controller is always open at the web service:
\* the hardware is never metered on a session the service has forgotten.
RunningSessionIsOpen ==
  hwRunning => hwId \in wsOpen

\* sleepOrExit is shared: the application's own retries wait on the flag that
\* stops the background thread. The flag is up only while the application is
\* joining a thread, so no API call aborts itself with DRM_Exit, and a new
\* thread never finds the flag of an earlier stop.
StopFlagOnlyInJoin ==
  stopReq => apc = "join" /\ future

\* mSessionID is read by the background thread and cleared by the application
\* with no common lock: from the end of the session in the controller to the
\* clearing there is no background thread.
NoThreadWhileClosing ==
  apc = "end" \/ areq = "close" => bpc = "none" /\ ~future

\* deactivate( pause ) joins the thread: between a pause and the next activate,
\* no thread asks for licenses behind the application's back.
QuietWhenPaused ==
  apc = "idle" /\ ~securityStop => bpc = "none" /\ ~future

\* Security stop: a manager that was activated and not paused leaves no running
\* session when its destructor returns.
CleanExitClosesSession ==
  apc = "exited" /\ securityStop => ~hwRunning

\* mSessionID is read and written in sections with no common lock: a session
\* id is never replaced by another one, it goes back to empty first,
\* at the end of a stopSession or with the process.
SessionIdNotReplaced ==
  [][sessionId # NoId /\ sessionId' # NoId => sessionId' = sessionId]_sessionId

\* A resume looks at the license queue under the mutex and installs the license
\* after a web request without it. When the application has started no thread since
\* its last join, the room it saw is still there. With a thread that is alive,
\* or was when it looked, the license may come to a full queue.
RoomWhenAlone ==
  [][AppInstall /\ areq = "running" /\ ~future => hwLic < 2]_vars

\* The background thread only ends because it was asked to or with a call of
\* f_asynch_error: it never gives up silently.
ThreadEndIsReported ==
  [][BgLive /\ bpc' = "done" => stopReq \/ asyncErr']_vars

\* From the call to the return of deactivate( pause ), the session, its id and
\* its place at the web service stay as they are: what resume needs.
PauseKeepsSession ==
  [][op = "pause" /\ apc' \notin Gone =>
       UNCHANGED <<hwRunning, hwId, wsOpen>> /\ (sessionId # NoId => sessionId' = sessionId)]_vars

-----------------------------------------------------------------------------
(* Liveness, under FairSpec.                                               *)

\* The thread is in the loop of detectDrmFrequency with a counter that was at 0
\* when it looked first. It stays there, with the mutex, unless a read fails.
Stuck == bpc = "spin" /\ sample = 0

\* A stopped thread stops: deactivate and the destructor only ever stay in the
\* join with a thread that began its detection on a counter at 0.
StopTerminates == apc = "join" ~> apc # "join" \/ Stuck

\* Every API call returns, or the process is gone, or a thread that began its
\* detection on a counter at 0 keeps the mutex or the join.
CallsReturn == apc \notin Gone \cup {"idle"} ~> apc \in Gone \cup {"idle"} \/ Stuck

\* When the license has run out while the thread lives, it is renewed, or the
\* thread ends (and ThreadEndIsReported says how), or it ran out before the thread
\* first looked.
ExpiredIsRenewed == hwLic = 0 /\ BgLive ~> hwLic > 0 \/ ~BgLive \/ Stuck

-----------------------------------------------------------------------------
(* What the documentation says and the code does not do.                   *)

\* activate: "Otherwise the session is closed and a new session is created."
\* When the license of a new session arrives, no id of an old session is held.
NewSessionIsAccepted ==
  apc = "install" /\ areq = "open" => sessionId = NoId

\* activate: "This function will start a thread that keeps the hardware
\* unlocked". When activate returns with success the thread is there, or has
\* reported an error during the call.
ActivateLeavesThread ==
  [][SpawnThread => BgLive' \/ asyncErr]_vars
=============================================================================
