-------------------------- MODULE DrmSession_proofs --------------------------
(***************************************************************************)
(* Proofs about the licensing session, for every set of session ids, with  *)
(* or without crashes, and whatever controller operations may fail.        *)
(***************************************************************************)
EXTENDS DrmSession, TLAPS

Licensing == {"activate", "resume"}

(***************************************************************************)
(* The inductive invariant. The safety properties speak of the moments at  *)
(* which something could go wrong; to be inductive they need to know what   *)
(* each control state of the application and of the thread guarantees.      *)
(***************************************************************************)

\* The future is valid exactly while a thread has been started and not joined,
\* and that only happens inside an activated, running session.
FutureInv ==
  /\ bpc # "none" <=> future
  /\ future => hwRunning /\ securityStop
  /\ stopReq => apc = "join"
  /\ bpc \in {"request", "backoff", "install"} => bid = hwId

\* The session the controller runs is open, and the manager's, unless activate()
\* swallowed the failure to end it.
SessionInv ==
  hwRunning => (cut \/ sessionId \in {NoId, hwId}) /\ hwId \in wsOpen

\* Where the application is, and what it may then count on.
AppInv ==
  /\ apc = "join" => future
  /\ apc \in {"end", "start"} \cup Gone => ~future
  /\ apc \in {"check", "wait", "spawn"} => hwRunning
  /\ apc \in {"check", "wait", "start", "install", "spawn"} => op \in Licensing
  /\ apc = "start" => ~hwRunning \/ cut
  /\ areq # "none" <=> apc \in {"request", "install"}
  /\ op \in Licensing => securityStop
  /\ op = "quit" => ~securityStop \/ ~hwRunning
  /\ apc = "exited" => ~securityStop \/ ~hwRunning
  /\ apc \in Gone \cup {"idle"} <=> op = "none"
  /\ op = "pause" => apc \in {"stop", "join"}

\* What the request in flight is about.
RequestInv ==
  /\ areq = "open" => (~hwRunning \/ cut) /\ ~future /\ op \in Licensing
  /\ areq = "running" => hwRunning /\ aid = hwId /\ op \in Licensing
  /\ areq = "close" => ~hwRunning /\ ~future /\ apc = "request"
  /\ apc = "install" => aid \in wsOpen

IInv == TypeOK /\ FutureInv /\ SessionInv /\ AppInv /\ RequestInv

-----------------------------------------------------------------------------
(* Type correctness.                                                       *)

USE DEF appVars, bgVars, mgrVars, hwVars, vars

\* Every action keeps every variable in its type: what TypeOK says of one step.
LEMMA TypeStep == TypeOK /\ [Next]_vars => TypeOK'
<1> SUFFICES ASSUME TypeOK, [Next]_vars
             PROVE  TypeOK'
  OBVIOUS
<1> USE DEF Calls, Gone, BgGoto, BgHold, BgDone, ThreadsTypeOK, ManagerTypeOK, OutsideTypeOK
<1> ThreadsTypeOK /\ ManagerTypeOK /\ OutsideTypeOK
  BY DEF TypeOK
<1>0. QueueLicense \in 0..2
  BY DEF QueueLicense
<1>1. CASE ActivateCall
  <2>1. ThreadsTypeOK'
    BY <1>1 DEF ActivateCall
  <2>2. ManagerTypeOK'
    BY <1>1 DEF ActivateCall
  <2>3. OutsideTypeOK'
    BY <1>1 DEF ActivateCall
  <2> QED
    BY <2>1, <2>2, <2>3 DEF TypeOK
<1>2. CASE DeactivateCall
  <2>1. ThreadsTypeOK'
    BY <1>2 DEF DeactivateCall
  <2>2. ManagerTypeOK'
    BY <1>2 DEF DeactivateCall
  <2>3. OutsideTypeOK'
    BY <1>2 DEF DeactivateCall
  <2> QED
    BY <2>1, <2>2, <2>3 DEF TypeOK
<1>3. CASE DestroyCall
  <2>1. ThreadsTypeOK'
    BY <1>3 DEF DestroyCall
  <2>2. ManagerTypeOK'
    BY <1>3 DEF DestroyCall
  <2>3. OutsideTypeOK'
    BY <1>3 DEF DestroyCall
  <2> QED
    BY <2>1, <2>2, <2>3 DEF TypeOK
<1>4. CASE NewProcess
  <2>1. ThreadsTypeOK'
    BY <1>4 DEF NewProcess
  <2>2. ManagerTypeOK'
    BY <1>4 DEF NewProcess
  <2>3. OutsideTypeOK'
    BY <1>4 DEF NewProcess
  <2> QED
    BY <2>1, <2>2, <2>3 DEF TypeOK
<1>5. CASE Crash
  <2>1. ThreadsTypeOK'
    BY <1>5 DEF Crash, ProcessLost, Exit
  <2>2. ManagerTypeOK'
    BY <1>5 DEF Crash, ProcessLost, Exit
  <2>3. OutsideTypeOK'
    BY <1>5 DEF Crash, ProcessLost, Exit
  <2> QED
    BY <2>1, <2>2, <2>3 DEF TypeOK
<1>6. CASE StopThread
  <2>1. ThreadsTypeOK'
    BY <1>6 DEF StopThread, AfterStop, Goto, Return, Exit
  <2>2. ManagerTypeOK'
    BY <1>6 DEF StopThread, AfterStop, Goto, Return, Exit
  <2>3. OutsideTypeOK'
    BY <1>6 DEF StopThread, AfterStop, Goto, Return, Exit
  <2> QED
    BY <2>1, <2>2, <2>3 DEF TypeOK
<1>7. CASE JoinThread
  <2>1. ThreadsTypeOK'
    BY <1>7 DEF JoinThread, AfterStop, Goto, Return, Exit
  <2>2. ManagerTypeOK'
    BY <1>7 DEF JoinThread, AfterStop, Goto, Return, Exit
  <2>3. OutsideTypeOK'
    BY <1>7 DEF JoinThread, AfterStop, Goto, Return, Exit
  <2> QED
    BY <2>1, <2>2, <2>3 DEF TypeOK
<1>8. CASE MeteringStart
  <2>1. ThreadsTypeOK'
    BY <1>8 DEF MeteringStart, Send, FailCall, ProcessLost, Exit, Return
  <2>2. ManagerTypeOK'
    BY <1>8 DEF MeteringStart, Send, FailCall, ProcessLost, Exit, Return
  <2>3. OutsideTypeOK'
    BY <1>8 DEF MeteringStart, Send, FailCall, ProcessLost, Exit, Return
  <2> QED
    BY <2>1, <2>2, <2>3 DEF TypeOK
<1>9. CASE ResumeCheck
  <2>1. ThreadsTypeOK'
    BY <1>9 DEF ResumeCheck, Goto, FailCall, ProcessLost, Exit, Return
  <2>2. ManagerTypeOK'
    BY <1>9 DEF ResumeCheck, Goto, FailCall, ProcessLost, Exit, Return
  <2>3. OutsideTypeOK'
    BY <1>9 DEF ResumeCheck, Goto, FailCall, ProcessLost, Exit, Return
  <2> QED
    BY <2>1, <2>2, <2>3 DEF TypeOK
<1>10. CASE MeteringWait
  <2>1. ThreadsTypeOK'
    BY <1>10 DEF MeteringWait, Send, FailCall, ProcessLost, Exit, Return
  <2>2. ManagerTypeOK'
    BY <1>10 DEF MeteringWait, Send, FailCall, ProcessLost, Exit, Return
  <2>3. OutsideTypeOK'
    BY <1>10 DEF MeteringWait, Send, FailCall, ProcessLost, Exit, Return
  <2> QED
    BY <2>1, <2>2, <2>3 DEF TypeOK
<1>11. CASE MeteringStop
  <2>1. ThreadsTypeOK'
    BY <1>11 DEF MeteringStop, HwEnd, Send, StopFailed, FailCall,
       ProcessLost, Exit, Return
  <2>2. ManagerTypeOK'
    BY <1>11 DEF MeteringStop, HwEnd, Send, StopFailed, FailCall,
       ProcessLost, Exit, Return
  <2>3. \/ HwEnd
        \/ UNCHANGED hwVars
        \/ cut' = TRUE /\ UNCHANGED <<hwRunning, hwId, hwLic>>
    BY <1>11 DEF MeteringStop
  <2>4. UNCHANGED wsOpen
    BY <1>11 DEF MeteringStop
  <2>5. hwRunning' \in BOOLEAN /\ cut' \in BOOLEAN
    BY <2>3, Zenon DEF HwEnd
  <2>6. hwId' \in Ids \cup {NoId} /\ hwLic' \in 0..2
    BY <2>3 DEF HwEnd
  <2> QED
    BY <2>1, <2>2, <2>4, <2>5, <2>6 DEF TypeOK
<1>12. CASE AppAnswerOk
  <2>1. ThreadsTypeOK'
    BY <1>12 DEF AppAnswerOk, AnswerOpen, AnswerRunning, AnswerClose,
       FreshIds, Goto, StopFailed, FailCall, ProcessLost, Exit, Return
  <2>2. ManagerTypeOK'
    BY <1>12 DEF AppAnswerOk, AnswerOpen, AnswerRunning, AnswerClose,
       FreshIds, Goto, StopFailed, FailCall, ProcessLost, Exit, Return
  <2>3. OutsideTypeOK'
    BY <1>12 DEF AppAnswerOk, AnswerOpen, AnswerRunning, AnswerClose,
       FreshIds, Goto, StopFailed, FailCall, ProcessLost, Exit, Return
  <2> QED
    BY <2>1, <2>2, <2>3 DEF TypeOK
<1>13. CASE AppAnswerFail
  <2>1. ThreadsTypeOK'
    BY <1>13 DEF AppAnswerFail, StopFailed, FailCall, ProcessLost, Exit,
       Return
  <2>2. ManagerTypeOK'
    BY <1>13 DEF AppAnswerFail, StopFailed, FailCall, ProcessLost, Exit,
       Return
  <2>3. OutsideTypeOK'
    BY <1>13 DEF AppAnswerFail, StopFailed, FailCall, ProcessLost, Exit,
       Return
  <2> QED
    BY <2>1, <2>2, <2>3 DEF TypeOK
<1>14. CASE AnswerLost
  <2>1. ThreadsTypeOK'
    BY <1>14 DEF AnswerLost, FreshIds
  <2>2. ManagerTypeOK'
    BY <1>14 DEF AnswerLost, FreshIds
  <2>3. OutsideTypeOK'
    BY <1>14 DEF AnswerLost, FreshIds
  <2> QED
    BY <2>1, <2>2, <2>3 DEF TypeOK
<1>15. CASE AppInstall
  <2>1. ThreadsTypeOK'
    BY <1>15 DEF AppInstall, LicenseSet, LicenseRefused, QueueLicense,
       Return
  <2>2. ManagerTypeOK'
    BY <1>15 DEF AppInstall, LicenseSet, LicenseRefused, QueueLicense,
       Return
  <2>3. \/ UNCHANGED hwVars
        \/ /\ hwRunning' = TRUE /\ hwId' = aid /\ cut' = FALSE
           /\ hwLic' \in {hwLic, QueueLicense}
    BY <1>15 DEF AppInstall, LicenseSet, LicenseRefused
  <2>4. UNCHANGED wsOpen
    BY <1>15 DEF AppInstall
  <2>5. OutsideTypeOK'
    <3>1. hwRunning' \in BOOLEAN /\ cut' \in BOOLEAN
      BY <2>3, Zenon
    <3> QED
      BY <1>0, <2>3, <2>4, <3>1
  <2> QED
    BY <2>1, <2>2, <2>5 DEF TypeOK
<1>16. CASE SpawnThread
  <2>1. ThreadsTypeOK'
    BY <1>16 DEF SpawnThread, Return
  <2>2. ManagerTypeOK'
    BY <1>16 DEF SpawnThread, Return
  <2>3. OutsideTypeOK'
    BY <1>16 DEF SpawnThread, Return
  <2> QED
    BY <2>1, <2>2, <2>3 DEF TypeOK
<1>17. CASE BgStart \/ BgSample \/ BgSpin
  <2>1. ThreadsTypeOK'
    BY <1>17 DEF BgStart, BgSample, BgSpin
  <2>2. ManagerTypeOK'
    BY <1>17 DEF BgStart, BgSample, BgSpin
  <2>3. OutsideTypeOK'
    BY <1>17 DEF BgStart, BgSample, BgSpin
  <2> QED
    BY <2>1, <2>2, <2>3 DEF TypeOK
<1>18. CASE BgMeasure \/ BgReadFails
  <2>1. ThreadsTypeOK'
    BY <1>18 DEF BgMeasure, BgReadFails, BgLeave, BgFail
  <2>2. ManagerTypeOK'
    BY <1>18 DEF BgMeasure, BgReadFails, BgLeave, BgFail
  <2>3. OutsideTypeOK'
    BY <1>18 DEF BgMeasure, BgReadFails, BgLeave, BgFail
  <2> QED
    BY <2>1, <2>2, <2>3 DEF TypeOK
<1>19. CASE BgCheck
  <2>1. ThreadsTypeOK'
    BY <1>19 DEF BgCheck, BgGoto, BgLeave, BgFail
  <2>2. ManagerTypeOK'
    BY <1>19 DEF BgCheck, BgGoto, BgLeave, BgFail
  <2>3. OutsideTypeOK'
    BY <1>19 DEF BgCheck, BgGoto, BgLeave, BgFail
  <2> QED
    BY <2>1, <2>2, <2>3 DEF TypeOK
<1>20. CASE BgSleep
  <2>1. ThreadsTypeOK'
    BY <1>20 DEF BgSleep, BgGoto, BgLeave
  <2>2. ManagerTypeOK'
    BY <1>20 DEF BgSleep, BgGoto, BgLeave
  <2>3. OutsideTypeOK'
    BY <1>20 DEF BgSleep, BgGoto, BgLeave
  <2> QED
    BY <2>1, <2>2, <2>3 DEF TypeOK
<1>21. CASE BgAnswer
  <2>1. ThreadsTypeOK'
    BY <1>21 DEF BgAnswer, BgGoto, BgFail
  <2>2. ManagerTypeOK'
    BY <1>21 DEF BgAnswer, BgGoto, BgFail
  <2>3. OutsideTypeOK'
    BY <1>21 DEF BgAnswer, BgGoto, BgFail
  <2> QED
    BY <2>1, <2>2, <2>3 DEF TypeOK
<1>22. CASE BgRetry
  <2>1. ThreadsTypeOK'
    BY <1>22 DEF BgRetry, BgGoto
  <2>2. ManagerTypeOK'
    BY <1>22 DEF BgRetry, BgGoto
  <2>3. OutsideTypeOK'
    BY <1>22 DEF BgRetry, BgGoto
  <2> QED
    BY <2>1, <2>2, <2>3 DEF TypeOK
<1>23. CASE BgBackoff
  <2>1. ThreadsTypeOK'
    BY <1>23 DEF BgBackoff, BgGoto, BgLeave
  <2>2. ManagerTypeOK'
    BY <1>23 DEF BgBackoff, BgGoto, BgLeave
  <2>3. OutsideTypeOK'
    BY <1>23 DEF BgBackoff, BgGoto, BgLeave
  <2> QED
    BY <2>1, <2>2, <2>3 DEF TypeOK
<1>24. CASE BgInstall
  <2>1. ThreadsTypeOK'
    BY <1>24 DEF BgInstall, LicenseSet, LicenseRefused, QueueLicense
  <2>2. ManagerTypeOK'
    BY <1>24 DEF BgInstall, LicenseSet, LicenseRefused, QueueLicense
  <2>3. \/ UNCHANGED hwVars
        \/ /\ hwRunning' = TRUE /\ hwId' = bid /\ cut' = FALSE
           /\ hwLic' \in {hwLic, QueueLicense}
    BY <1>24 DEF BgInstall, LicenseSet, LicenseRefused
  <2>4. UNCHANGED wsOpen
    BY <1>24 DEF BgInstall
  <2>5. OutsideTypeOK'
    <3>1. hwRunning' \in BOOLEAN /\ cut' \in BOOLEAN
      BY <2>3, Zenon
    <3> QED
      BY <1>0, <2>3, <2>4, <3>1
  <2> QED
    BY <2>1, <2>2, <2>5 DEF TypeOK
<1>25. CASE Expire
  <2>1. ThreadsTypeOK'
    BY <1>25 DEF Expire
  <2>2. ManagerTypeOK'
    BY <1>25 DEF Expire
  <2>3. OutsideTypeOK'
    BY <1>25 DEF Expire
  <2> QED
    BY <2>1, <2>2, <2>3 DEF TypeOK
<1>26. CASE UNCHANGED vars
  BY <1>26 DEF TypeOK
<1> QED
  BY <1>1, <1>2, <1>3, <1>4, <1>5, <1>6, <1>7, <1>8, <1>9, <1>10, <1>11,
     <1>12, <1>13, <1>14, <1>15, <1>16, <1>17, <1>18, <1>19, <1>20, <1>21,
     <1>22, <1>23, <1>24, <1>25, <1>26 DEF Next, AppStep, BgStep

\* The initial values are in their types.
LEMMA InitType == Init => TypeOK
<1> USE DEF Init, Calls, Gone
<1>1. Init => ThreadsTypeOK
  BY DEF ThreadsTypeOK
<1>2. Init => ManagerTypeOK
  BY Zenon DEF ManagerTypeOK
<1>3. Init => OutsideTypeOK
  <2>1. Init => hwRunning \in BOOLEAN /\ cut \in BOOLEAN
      BY Zenon
  <2> QED
      BY <2>1 DEF OutsideTypeOK
<1> QED
  BY <1>1, <1>2, <1>3 DEF TypeOK

\* The variables keep their types in every behaviour, whatever the ids are.
THEOREM TypeCorrect == Spec => []TypeOK
<1> QED
  BY InitType, TypeStep, PTL DEF Spec

-----------------------------------------------------------------------------
(* The inductive invariant.                                                *)

\* Every action keeps the invariant.
LEMMA InvStep == IInv /\ [Next]_vars => IInv'
<1> SUFFICES ASSUME IInv, [Next]_vars
             PROVE  IInv'
  OBVIOUS
<1> USE DEF IInv
<1>0. TypeOK'
  BY TypeStep
<1> USE DEF Gone, Licensing, ThreadsTypeOK, ManagerTypeOK, OutsideTypeOK, TypeOK,
            FutureInv, SessionInv, AppInv, RequestInv, BgGoto, BgHold, BgDone
<1>1. CASE ActivateCall
  <2>1. FutureInv'
    BY <1>1 DEF ActivateCall
  <2>2. SessionInv'
    BY <1>1 DEF ActivateCall
  <2>3. AppInv'
    BY <1>1 DEF ActivateCall
  <2>4. RequestInv'
    BY <1>1 DEF ActivateCall
  <2> QED
    BY <1>0, <2>1, <2>2, <2>3, <2>4
<1>2. CASE DeactivateCall
  <2>1. FutureInv'
    BY <1>2 DEF DeactivateCall
  <2>2. SessionInv'
    BY <1>2 DEF DeactivateCall
  <2>3. AppInv'
    BY <1>2 DEF DeactivateCall
  <2>4. RequestInv'
    BY <1>2 DEF DeactivateCall
  <2> QED
    BY <1>0, <2>1, <2>2, <2>3, <2>4
<1>3. CASE DestroyCall
  <2>1. FutureInv'
    BY <1>3 DEF DestroyCall
  <2>2. SessionInv'
    BY <1>3 DEF DestroyCall
  <2>3. AppInv'
    BY <1>3 DEF DestroyCall
  <2>4. RequestInv'
    BY <1>3 DEF DestroyCall
  <2> QED
    BY <1>0, <2>1, <2>2, <2>3, <2>4
<1>4. CASE Crash
  <2>1. FutureInv'
    BY <1>4 DEF Crash, ProcessLost, Exit
  <2>2. SessionInv'
    BY <1>4 DEF Crash, ProcessLost, Exit
  <2>3. AppInv'
    BY <1>4 DEF Crash, ProcessLost, Exit
  <2>4. RequestInv'
    BY <1>4 DEF Crash, ProcessLost, Exit
  <2> QED
    BY <1>0, <2>1, <2>2, <2>3, <2>4
<1>5. CASE StopThread
  <2>1. FutureInv'
    BY <1>5 DEF StopThread, AfterStop, Goto, Return, Exit
  <2>2. SessionInv'
    BY <1>5 DEF StopThread, AfterStop, Goto, Return, Exit
  <2>3. AppInv'
    BY <1>5 DEF StopThread, AfterStop, Goto, Return, Exit
  <2>4. RequestInv'
    BY <1>5 DEF StopThread, AfterStop, Goto, Return, Exit
  <2> QED
    BY <1>0, <2>1, <2>2, <2>3, <2>4
<1>6. CASE JoinThread
  <2>1. FutureInv'
    BY <1>6 DEF JoinThread, AfterStop, Goto, Return, Exit
  <2>2. SessionInv'
    BY <1>6 DEF JoinThread, AfterStop, Goto, Return, Exit
  <2>3. AppInv'
    BY <1>6 DEF JoinThread, AfterStop, Goto, Return, Exit
  <2>4. RequestInv'
    BY <1>6 DEF JoinThread, AfterStop, Goto, Return, Exit
  <2> QED
    BY <1>0, <2>1, <2>2, <2>3, <2>4
<1>7. CASE MeteringStart
  <2>1. FutureInv'
    BY <1>7 DEF MeteringStart, Send, FailCall, ProcessLost, Exit, Return
  <2>2. SessionInv'
    BY <1>7 DEF MeteringStart, Send, FailCall, ProcessLost, Exit, Return
  <2>3. AppInv'
    BY <1>7 DEF MeteringStart, Send, FailCall, ProcessLost, Exit, Return
  <2>4. RequestInv'
    BY <1>7 DEF MeteringStart, Send, FailCall, ProcessLost, Exit, Return
  <2> QED
    BY <1>0, <2>1, <2>2, <2>3, <2>4
<1>8. CASE ResumeCheck
  <2>1. FutureInv'
    BY <1>8 DEF ResumeCheck, Goto, FailCall, ProcessLost, Exit, Return
  <2>2. SessionInv'
    BY <1>8 DEF ResumeCheck, Goto, FailCall, ProcessLost, Exit, Return
  <2>3. AppInv'
    BY <1>8 DEF ResumeCheck, Goto, FailCall, ProcessLost, Exit, Return
  <2>4. RequestInv'
    BY <1>8 DEF ResumeCheck, Goto, FailCall, ProcessLost, Exit, Return
  <2> QED
    BY <1>0, <2>1, <2>2, <2>3, <2>4
<1>9. CASE MeteringWait
  <2>1. FutureInv'
    BY <1>9 DEF MeteringWait, Send, FailCall, ProcessLost, Exit, Return
  <2>2. SessionInv'
    BY <1>9 DEF MeteringWait, Send, FailCall, ProcessLost, Exit, Return
  <2>3. AppInv'
    BY <1>9 DEF MeteringWait, Send, FailCall, ProcessLost, Exit, Return
  <2>4. RequestInv'
    BY <1>9 DEF MeteringWait, Send, FailCall, ProcessLost, Exit, Return
  <2> QED
    BY <1>0, <2>1, <2>2, <2>3, <2>4
<1>10. CASE MeteringStop
  <2>1. FutureInv'
    BY <1>10 DEF MeteringStop, HwEnd, Send, StopFailed, FailCall,
       ProcessLost, Exit, Return
  <2>2. SessionInv'
    <3>1. CASE HwEnd
      BY <3>1 DEF HwEnd
    <3>2. CASE UNCHANGED hwVars /\ FailCall
      BY <1>10, <3>2 DEF MeteringStop, FailCall, ProcessLost
    <3>3. CASE cut' = TRUE /\ UNCHANGED <<hwRunning, hwId, hwLic>>
      BY <1>10, <3>3 DEF MeteringStop
    <3> QED
      BY <1>10, <3>1, <3>2, <3>3 DEF MeteringStop
  <2>3. AppInv'
    BY <1>10 DEF MeteringStop, HwEnd, Send, StopFailed, FailCall,
       ProcessLost, Exit, Return
  <2>4. RequestInv'
    BY <1>10 DEF MeteringStop, HwEnd, Send, StopFailed, FailCall,
       ProcessLost, Exit, Return
  <2> QED
    BY <1>0, <2>1, <2>2, <2>3, <2>4
<1>11. CASE AppAnswerOk
  <2>1. FutureInv'
    BY <1>11 DEF AppAnswerOk, AnswerOpen, AnswerRunning, AnswerClose,
       FreshIds, Goto, StopFailed, FailCall, ProcessLost, Exit, Return
  <2>2. SessionInv'
    BY <1>11 DEF AppAnswerOk, AnswerOpen, AnswerRunning, AnswerClose,
       FreshIds, Goto, StopFailed, FailCall, ProcessLost, Exit, Return
  <2>3. AppInv'
    BY <1>11 DEF AppAnswerOk, AnswerOpen, AnswerRunning, AnswerClose,
       FreshIds, Goto, StopFailed, FailCall, ProcessLost, Exit, Return
  <2>4. RequestInv'
    BY <1>11 DEF AppAnswerOk, AnswerOpen, AnswerRunning, AnswerClose,
       FreshIds, Goto, StopFailed, FailCall, ProcessLost, Exit, Return
  <2> QED
    BY <1>0, <2>1, <2>2, <2>3, <2>4
<1>12. CASE AppAnswerFail
  <2>1. FutureInv'
    BY <1>12 DEF AppAnswerFail, StopFailed, FailCall, ProcessLost, Exit,
       Return
  <2>2. SessionInv'
    BY <1>12 DEF AppAnswerFail, StopFailed, FailCall, ProcessLost, Exit,
       Return
  <2>3. AppInv'
    BY <1>12 DEF AppAnswerFail, StopFailed, FailCall, ProcessLost, Exit,
       Return
  <2>4. RequestInv'
    BY <1>12 DEF AppAnswerFail, StopFailed, FailCall, ProcessLost, Exit,
       Return
  <2> QED
    BY <1>0, <2>1, <2>2, <2>3, <2>4
<1>13. CASE AnswerLost
  <2>1. FutureInv'
    BY <1>13 DEF AnswerLost, FreshIds
  <2>2. SessionInv'
    BY <1>13 DEF AnswerLost, FreshIds
  <2>3. AppInv'
    BY <1>13 DEF AnswerLost, FreshIds
  <2>4. RequestInv'
    BY <1>13 DEF AnswerLost, FreshIds
  <2> QED
    BY <1>0, <2>1, <2>2, <2>3, <2>4
<1>14. CASE AppInstall
  <2>1. FutureInv'
    BY <1>14 DEF AppInstall, LicenseSet, LicenseRefused, SessionIdOk,
       Return
  <2>2. SessionInv'
    <3>1. aid \in wsOpen /\ wsOpen' = wsOpen
      BY <1>14 DEF AppInstall
    <3>2. areq = "running" => hwRunning /\ aid = hwId
      OBVIOUS
    <3>3. areq = "open" => ~hwRunning \/ cut
      OBVIOUS
    <3>4. areq \in {"open", "running"}
      BY <1>14 DEF AppInstall
    <3>5. \/ UNCHANGED <<sessionId, hwVars>>
          \/ sessionId' = aid /\ UNCHANGED hwVars
          \/ sessionId' = aid /\ hwId' = aid
      BY <1>14 DEF AppInstall, LicenseSet, LicenseRefused
    <3> QED
      BY <3>1, <3>2, <3>3, <3>4, <3>5
  <2>3. AppInv'
    BY <1>14 DEF AppInstall, LicenseSet, LicenseRefused, SessionIdOk,
       Return
  <2>4. RequestInv'
    BY <1>14 DEF AppInstall, LicenseSet, LicenseRefused, SessionIdOk,
       Return
  <2> QED
    BY <1>0, <2>1, <2>2, <2>3, <2>4
<1>15. CASE SpawnThread
  <2>1. FutureInv'
    BY <1>15 DEF SpawnThread, Return
  <2>2. SessionInv'
    BY <1>15 DEF SpawnThread, Return
  <2>3. AppInv'
    BY <1>15 DEF SpawnThread, Return
  <2>4. RequestInv'
    BY <1>15 DEF SpawnThread, Return
  <2> QED
    BY <1>0, <2>1, <2>2, <2>3, <2>4
<1>16. CASE Expire
  <2>1. FutureInv'
    BY <1>16 DEF Expire
  <2>2. SessionInv'
    BY <1>16 DEF Expire
  <2>3. AppInv'
    BY <1>16 DEF Expire
  <2>4. RequestInv'
    BY <1>16 DEF Expire
  <2> QED
    BY <1>0, <2>1, <2>2, <2>3, <2>4
<1>17. CASE NewProcess
  <2>1. /\ apc \in Gone /\ apc' = "idle"
        /\ sessionId' = NoId /\ UNCHANGED <<op, areq, aid, bgVars, future, stopReq, hwVars, wsOpen>>
    BY <1>17 DEF NewProcess
  <2>2. ~future /\ areq = "none" /\ op \notin Licensing
    BY <2>1
  <2>3. FutureInv' /\ SessionInv' /\ RequestInv'
    BY <2>1, <2>2
  <2>4. AppInv'
    BY <2>1, <2>2
  <2> QED
    BY <1>0, <2>3, <2>4
<1>18. CASE \/ BgStart \/ BgSample \/ BgSpin \/ BgMeasure \/ BgReadFails
          \/ BgCheck \/ BgSleep \/ BgAnswer \/ BgRetry \/ BgBackoff
  <2>1. /\ UNCHANGED <<appVars, sessionId, securityStop, future, stopReq, hwVars, wsOpen>>
        /\ bpc # "none" /\ bpc' # "none"
        /\ bpc' \in {"request", "backoff", "install"} => bid' = hwId
    <3>1. CASE BgStart \/ BgSample \/ BgSpin
      BY <3>1 DEF BgStart, BgSample, BgSpin
    <3>2. CASE BgMeasure \/ BgReadFails
      BY <3>2 DEF BgMeasure, BgReadFails, BgLeave, BgFail
    <3>3. CASE BgCheck
      BY <3>3 DEF BgCheck, BgGoto, BgLeave, BgFail
    <3>4. CASE BgSleep
      BY <3>4 DEF BgSleep, BgGoto, BgLeave
    <3>5. CASE BgAnswer
      BY <3>5 DEF BgAnswer, BgGoto, BgFail
    <3>6. CASE BgRetry
      BY <3>6 DEF BgRetry, BgGoto
    <3>7. CASE BgBackoff
      BY <3>7 DEF BgBackoff, BgGoto, BgLeave
    <3> QED
      BY <1>18, <3>1, <3>2, <3>3, <3>4, <3>5, <3>6, <3>7
  <2>2. FutureInv'
    BY <2>1
  <2>3. SessionInv'
    BY <2>1
  <2>4. AppInv' /\ RequestInv'
    BY <2>1
  <2> QED
    BY <1>0, <2>2, <2>3, <2>4
<1>19. CASE BgInstall
  <2>1. /\ UNCHANGED <<appVars, securityStop, future, stopReq, wsOpen>>
        /\ bpc = "install" /\ bpc' \in {"check", "done"}
    BY <1>19 DEF BgInstall
  <2>2. hwRunning /\ bid = hwId
    BY <2>1
  <2>3. /\ UNCHANGED hwId /\ hwRunning' /\ sessionId' \in {sessionId, hwId}
        /\ UNCHANGED cut \/ sessionId' = hwId
    <3>1. LicenseSet(hwId) \/ LicenseRefused(hwId)
      BY <1>19, <2>2 DEF BgInstall
    <3> QED
      BY <2>2, <3>1 DEF LicenseSet, LicenseRefused
  <2>4. FutureInv'
    BY <2>1, <2>2, <2>3
  <2>5. SessionInv'
    BY <2>1, <2>2, <2>3
  <2>6. AppInv' /\ RequestInv'
    BY <2>1, <2>2, <2>3
  <2> QED
    BY <1>0, <2>4, <2>5, <2>6
<1>20. CASE UNCHANGED vars
  BY <1>0, <1>20
<1> QED
  BY <1>1, <1>2, <1>3, <1>4, <1>5, <1>6, <1>7, <1>8, <1>9, <1>10, <1>11,
     <1>12, <1>13, <1>14, <1>15, <1>16, <1>17, <1>18, <1>19, <1>20 DEF Next,
     AppStep, BgStep

\* The invariant holds in every behaviour.
THEOREM Invariant == Spec => []IInv
<1>1. Init => IInv
  <2>1. Init => TypeOK
    BY InitType
  <2>2. Init => FutureInv /\ SessionInv /\ AppInv /\ RequestInv
    BY DEF Init, FutureInv, SessionInv, AppInv, RequestInv, Gone, Licensing
  <2> QED
    BY <2>1, <2>2 DEF IInv
<1> QED
  BY <1>1, InvStep, PTL DEF Spec

-----------------------------------------------------------------------------
(* The safety properties.                                                  *)

\* The background thread only lives in a running session, its own if activate()
\* did not swallow the failure to end it.
THEOREM ThreadSafe == Spec => []ThreadHasSession
<1>1. IInv => ThreadHasSession
  BY DEF IInv, FutureInv, SessionInv, ThreadHasSession, BgLive
<1> QED
  BY <1>1, Invariant, PTL

\* The manager and the controller agree on the session, unless activate() went on
\* after it had failed to end it.
THEOREM SessionSafe == Spec => []SessionIdAgrees
<1>1. IInv => SessionIdAgrees
  BY DEF IInv, SessionInv, SessionIdAgrees
<1> QED
  BY <1>1, Invariant, PTL

\* A session that runs in the controller is open at the web service, however
\* many crashes, lost answers and refused licenses there were.
THEOREM RunningIsOpen == Spec => []RunningSessionIsOpen
<1>1. IInv => RunningSessionIsOpen
  BY DEF IInv, SessionInv, RunningSessionIsOpen
<1> QED
  BY <1>1, Invariant, PTL

\* The stop flag never outlives the join it was raised for.
THEOREM StopFlagSafe == Spec => []StopFlagOnlyInJoin
<1>1. IInv => StopFlagOnlyInJoin
  BY DEF IInv, FutureInv, AppInv, StopFlagOnlyInJoin
<1> QED
  BY <1>1, Invariant, PTL

\* There is no thread while the application ends the session and clears its id.
THEOREM CloseIsExclusive == Spec => []NoThreadWhileClosing
<1>1. IInv => NoThreadWhileClosing
  BY DEF IInv, FutureInv, AppInv, RequestInv, NoThreadWhileClosing
<1> QED
  BY <1>1, Invariant, PTL

\* A paused manager has no thread.
THEOREM PauseIsQuiet == Spec => []QuietWhenPaused
<1>1. IInv => QuietWhenPaused
  BY DEF IInv, FutureInv, AppInv, QuietWhenPaused
<1> QED
  BY <1>1, Invariant, PTL

\* Security stop: no session survives an orderly destruction, unless paused.
THEOREM SecurityStopSafe == Spec => []CleanExitClosesSession
<1>1. IInv => CleanExitClosesSession
  BY DEF IInv, AppInv, CleanExitClosesSession
<1> QED
  BY <1>1, Invariant, PTL

-----------------------------------------------------------------------------
(* The action properties.                                                  *)

\* A step may clear mSessionID or set it when it is empty, never replace it.
LEMMA SessionIdStep ==
  TypeOK /\ [Next]_vars =>
    (sessionId # NoId /\ sessionId' # NoId => sessionId' = sessionId)
<1> SUFFICES ASSUME TypeOK, [Next]_vars, sessionId # NoId, sessionId' # NoId
             PROVE  sessionId' = sessionId
  OBVIOUS
<1> USE DEF SessionIdOk, BgGoto, BgHold, BgDone
<1>1. CASE \/ ActivateCall \/ DeactivateCall \/ DestroyCall
           \/ NewProcess \/ Crash
  BY <1>1 DEF ActivateCall, DeactivateCall, DestroyCall, NewProcess, Crash,
     ProcessLost, Exit
<1>2. CASE StopThread \/ JoinThread
  BY <1>2 DEF StopThread, AfterStop, Goto, Return, Exit, JoinThread
<1>3. CASE \/ MeteringStart \/ ResumeCheck \/ MeteringWait
           \/ MeteringStop \/ AppAnswerFail
  BY <1>3 DEF MeteringStart, Send, FailCall, ProcessLost, Exit, Return,
     ResumeCheck, Goto, MeteringWait, MeteringStop, HwEnd, StopFailed,
     AppAnswerFail
<1>4. CASE AppAnswerOk \/ AnswerLost
  BY <1>4 DEF AppAnswerOk, AnswerOpen, AnswerRunning, AnswerClose, FreshIds,
     Goto, StopFailed, FailCall, ProcessLost, Exit, Return, AnswerLost
<1>5. CASE AppInstall \/ SpawnThread
  BY <1>5 DEF AppInstall, LicenseSet, LicenseRefused, SessionIdOk, Return,
     SpawnThread
<1>6. CASE \/ BgStart \/ BgSample \/ BgSpin \/ BgMeasure \/ BgReadFails
           \/ BgSleep \/ BgBackoff \/ BgRetry
  BY <1>6 DEF BgStart, BgSample, BgSpin, BgMeasure, BgReadFails, BgLeave,
     BgFail, BgSleep, BgBackoff, BgRetry
<1>7. CASE BgCheck \/ BgAnswer
  BY <1>7 DEF BgCheck, BgGoto, BgLeave, BgFail, BgAnswer
<1>8. CASE BgInstall
  BY <1>8 DEF BgInstall, LicenseSet, LicenseRefused, SessionIdOk
<1>9. CASE Expire
  BY <1>9 DEF Expire
<1>10. CASE UNCHANGED vars
  BY <1>10
<1> QED
  BY <1>1, <1>2, <1>3, <1>4, <1>5, <1>6, <1>7, <1>8, <1>9, <1>10 DEF Next,
     AppStep, BgStep

\* The id the manager knows is only ever set when empty and cleared at the end.
THEOREM SessionIdStable == Spec => SessionIdNotReplaced
<1>1. TypeOK /\ [Next]_vars =>
        [sessionId # NoId /\ sessionId' # NoId => sessionId' = sessionId]_sessionId
  BY SessionIdStep
<1> QED
  BY <1>1, TypeCorrect, PTL DEF Spec, SessionIdNotReplaced

\* The thread leaves its loop when it is told to, or with an error reported.
LEMMA ThreadEndStep ==
  TypeOK /\ [Next]_vars => (BgLive /\ bpc' = "done" => stopReq \/ asyncErr')
<1> SUFFICES ASSUME TypeOK, [Next]_vars, BgLive, bpc' = "done"
             PROVE  stopReq \/ asyncErr'
  OBVIOUS
<1> USE DEF BgLive, TypeOK, ManagerTypeOK, BgGoto, BgHold, BgDone
<1>1. CASE \/ ActivateCall \/ DeactivateCall \/ DestroyCall
           \/ NewProcess \/ Crash
  BY <1>1 DEF ActivateCall, DeactivateCall, DestroyCall, NewProcess, Crash,
     ProcessLost, Exit
<1>2. CASE StopThread \/ JoinThread
  BY <1>2 DEF StopThread, AfterStop, Goto, Return, Exit, JoinThread
<1>3. CASE \/ MeteringStart \/ ResumeCheck \/ MeteringWait
           \/ MeteringStop \/ AppAnswerFail
  BY <1>3 DEF MeteringStart, Send, FailCall, ProcessLost, Exit, Return,
     ResumeCheck, Goto, MeteringWait, MeteringStop, HwEnd, StopFailed,
     AppAnswerFail
<1>4. CASE AppAnswerOk \/ AnswerLost
  BY <1>4 DEF AppAnswerOk, AnswerOpen, AnswerRunning, AnswerClose, FreshIds,
     Goto, StopFailed, FailCall, ProcessLost, Exit, Return, AnswerLost
<1>5. CASE AppInstall \/ SpawnThread
  BY <1>5 DEF AppInstall, LicenseSet, LicenseRefused, SessionIdOk, Return,
     SpawnThread
<1>6. CASE \/ BgStart \/ BgSample \/ BgSpin \/ BgMeasure \/ BgReadFails
           \/ BgSleep \/ BgBackoff \/ BgRetry
  BY <1>6 DEF BgStart, BgSample, BgSpin, BgMeasure, BgReadFails, BgLeave,
     BgFail, BgSleep, BgBackoff, BgRetry
<1>7. CASE BgCheck \/ BgAnswer
  BY <1>7 DEF BgCheck, BgGoto, BgLeave, BgFail, BgAnswer
<1>8. CASE BgInstall
  BY <1>8 DEF BgInstall, LicenseSet, LicenseRefused, SessionIdOk
<1>9. CASE Expire
  BY <1>9 DEF Expire
<1>10. CASE UNCHANGED vars
  BY <1>10
<1> QED
  BY <1>1, <1>2, <1>3, <1>4, <1>5, <1>6, <1>7, <1>8, <1>9, <1>10 DEF Next,
     AppStep, BgStep

\* The background thread never ends silently.
THEOREM ThreadEndReported == Spec => ThreadEndIsReported
<1>1. TypeOK /\ [Next]_vars =>
        [BgLive /\ bpc' = "done" => stopReq \/ asyncErr']_vars
  BY ThreadEndStep
<1> QED
  BY <1>1, TypeCorrect, PTL DEF Spec, ThreadEndIsReported

\* A call of deactivate( pause ) touches neither the session nor its id. Of the
\* background thread, which goes on until it is joined, only the license it is
\* about to install could: the license is of the session that runs.
LEMMA PauseStep ==
  IInv /\ [Next]_vars /\ op = "pause" /\ apc' \notin Gone =>
    UNCHANGED <<hwRunning, hwId, wsOpen>> /\ (sessionId # NoId => sessionId' = sessionId)
<1> SUFFICES ASSUME IInv, [Next]_vars, op = "pause", apc' \notin Gone
             PROVE  UNCHANGED <<hwRunning, hwId, wsOpen>> /\
                    (sessionId # NoId => sessionId' = sessionId)
  OBVIOUS
<1>0. apc \in {"stop", "join"} /\ areq = "none"
  BY DEF IInv, AppInv
<1>1. CASE StopThread
  BY <1>1 DEF StopThread, AfterStop, Goto, Return
<1>2. CASE JoinThread
  BY <1>2 DEF JoinThread, AfterStop, Goto, Return
<1>3. CASE \/ BgStart \/ BgSample \/ BgSpin \/ BgMeasure \/ BgReadFails
           \/ BgCheck \/ BgSleep \/ BgAnswer \/ BgRetry \/ BgBackoff
  BY <1>3 DEF BgStart, BgSample, BgSpin, BgMeasure, BgReadFails, BgCheck, BgSleep,
     BgAnswer, BgRetry, BgBackoff, BgGoto, BgHold, BgLeave, BgFail
<1>4. CASE BgInstall
  <2>1. hwRunning /\ bid = hwId
    BY <1>4 DEF BgInstall, IInv, FutureInv
  <2>2. UNCHANGED wsOpen
    BY <1>4 DEF BgInstall
  <2>3. LicenseSet(hwId) \/ LicenseRefused(hwId)
    BY <1>4, <2>1 DEF BgInstall
  <2>4. TypeOK
    BY DEF IInv
  <2>5. hwRunning' = TRUE /\ hwRunning = TRUE
    BY <2>1, <2>3, <2>4 DEF LicenseSet, LicenseRefused, TypeOK, OutsideTypeOK
  <2> QED
    BY <2>1, <2>2, <2>3, <2>5 DEF LicenseSet, LicenseRefused, SessionIdOk
<1>5. CASE Crash
  BY <1>5 DEF Crash, ProcessLost, Exit, Gone
<1>6. CASE Expire
  BY <1>6 DEF Expire
<1>7. CASE UNCHANGED vars
  BY <1>7
<1>8. ~ \/ ActivateCall \/ DeactivateCall \/ DestroyCall \/ NewProcess
        \/ MeteringStart \/ ResumeCheck \/ MeteringWait \/ MeteringStop
        \/ AppAnswerOk \/ AppAnswerFail \/ AppInstall \/ SpawnThread
        \/ AnswerLost
  BY <1>0 DEF ActivateCall, DeactivateCall, DestroyCall, NewProcess, Gone,
     MeteringStart, ResumeCheck, MeteringWait, MeteringStop, AppAnswerOk,
     AppAnswerFail, AppInstall, SpawnThread, AnswerLost
<1> QED
  BY <1>1, <1>2, <1>3, <1>4, <1>5, <1>6, <1>7, <1>8 DEF Next, AppStep, BgStep

\* A paused session can be resumed: deactivate( pause ) leaves it alone.
THEOREM PauseIsTransparent == Spec => PauseKeepsSession
<1>1. IInv /\ [Next]_vars =>
        [op = "pause" /\ apc' \notin Gone =>
           UNCHANGED <<hwRunning, hwId, wsOpen>> /\
           (sessionId # NoId => sessionId' = sessionId)]_vars
  BY PauseStep
<1> QED
  BY <1>1, Invariant, PTL DEF Spec, PauseKeepsSession

-----------------------------------------------------------------------------
(* The room in the license queue.                                          *)

\* A controller without a session holds no license, and an application that
\* asks for one more license with no thread beside it has room for it.
RoomInv ==
  /\ ~hwRunning => hwLic = 0
  /\ (apc = "wait" \/ areq = "running") /\ ~future => hwLic < 2

LEMMA RoomStep == IInv /\ RoomInv /\ [Next]_vars => RoomInv'
<1> SUFFICES ASSUME IInv, RoomInv, [Next]_vars
             PROVE  RoomInv'
  OBVIOUS
<1> USE DEF RoomInv
<1>0. hwLic \in 0..2 /\ TypeOK
  BY DEF IInv, TypeOK, OutsideTypeOK
<1>1. CASE \/ ActivateCall \/ DeactivateCall \/ DestroyCall
           \/ NewProcess \/ Crash
  BY <1>1 DEF ActivateCall, DeactivateCall, DestroyCall, NewProcess, Crash,
     ProcessLost, Exit, IInv, AppInv
<1>2. CASE StopThread \/ JoinThread
  BY <1>2 DEF StopThread, AfterStop, Goto, Return, Exit, JoinThread, IInv, AppInv
<1>3. CASE MeteringStart \/ AppAnswerFail
  BY <1>3 DEF MeteringStart, Send, FailCall, ProcessLost, Exit, Return, StopFailed,
     AppAnswerFail
<1>4. CASE ResumeCheck
  <2>1. UNCHANGED hwVars /\ areq = "none"
    BY <1>4 DEF ResumeCheck, IInv, AppInv
  <2>2. CASE FailCall
    BY <2>1, <2>2 DEF FailCall, ProcessLost, Exit, Return
  <2>3. CASE Goto(IF hwLic = 2 THEN "spawn" ELSE "wait")
    BY <1>0, <2>1, <2>3 DEF Goto
  <2> QED
    BY <1>4, <2>2, <2>3 DEF ResumeCheck
<1>5. CASE MeteringWait
  BY <1>5 DEF MeteringWait, Send, FailCall, ProcessLost, Exit, Return
<1>6. CASE MeteringStop
  BY <1>6 DEF MeteringStop, HwEnd, Send, StopFailed, FailCall, ProcessLost, Exit, Return,
     IInv, AppInv
<1>7. CASE AppAnswerOk \/ AnswerLost
  BY <1>7 DEF AppAnswerOk, AnswerOpen, AnswerRunning, AnswerClose,
     Goto, StopFailed, FailCall, ProcessLost, Exit, Return, AnswerLost
<1>8. CASE AppInstall
  BY <1>8 DEF AppInstall, LicenseSet, LicenseRefused, Return
<1>9. CASE SpawnThread
  BY <1>9 DEF SpawnThread, Return
<1>10. CASE \/ BgStart \/ BgSample \/ BgSpin \/ BgMeasure \/ BgReadFails
            \/ BgSleep \/ BgBackoff \/ BgRetry \/ BgCheck \/ BgAnswer
  BY <1>10 DEF BgStart, BgSample, BgSpin, BgMeasure, BgReadFails, BgGoto, BgHold,
     BgLeave, BgFail, BgSleep, BgBackoff, BgRetry, BgCheck, BgAnswer
<1>11. CASE BgInstall
  <2>1. future
    BY <1>11 DEF BgInstall, IInv, FutureInv
  <2>2. future' /\ (hwRunning' \/ UNCHANGED hwVars)
    BY <1>11, <2>1 DEF BgInstall, LicenseSet, LicenseRefused
  <2> QED
    BY <2>2
<1>12. CASE Expire
  BY <1>0, <1>12 DEF Expire
<1>13. CASE UNCHANGED vars
  BY <1>13
<1> QED
  BY <1>1, <1>2, <1>3, <1>4, <1>5, <1>6, <1>7, <1>8, <1>9, <1>10, <1>11, <1>12, <1>13
     DEF Next, AppStep, BgStep

\* An application that resumes with no thread beside it never installs a license
\* on a full queue.
THEOREM RoomIsKept == Spec => RoomWhenAlone
<1>1. Init => RoomInv
  BY DEF Init, RoomInv
<1>2. RoomInv => (AppInstall /\ areq = "running" /\ ~future => hwLic < 2)
  BY DEF RoomInv
<1>3. RoomInv /\ [Next]_vars =>
        [AppInstall /\ areq = "running" /\ ~future => hwLic < 2]_vars
  BY <1>2
<1> QED
  BY <1>1, <1>3, RoomStep, Invariant, PTL DEF Spec, RoomWhenAlone
=============================================================================
