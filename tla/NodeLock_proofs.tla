--------------------------- MODULE NodeLock_proofs ---------------------------
(***************************************************************************)
(* Theorems about NodeLock, for every set of licenses. The inductive        *)
(* invariant adds to the types what the session id of a manager says of the *)
(* license file, and that a running session has set the mode of the         *)
(* controller.                                                              *)
(***************************************************************************)
EXTENDS NodeLock, TLAPS

\* While a license is on its way, mSessionID is empty.
Asking == pc \in {"look", "request", "save", "write license"}

\* A session id comes with a license that was installed: the file has that
\* license, or lost it while it was written.
IdOfFile ==
  pc \notin {"off", "pending", "close", "request file", "write request"} =>
    /\ sessionId # "none" => licFile \in {sessionId, "partial"}
    /\ Asking => sessionId = "none"

\* A license to be installed is the one in the file, or the file lost it.
LicenseOfFile ==
  /\ pc \in {"save", "write license", "install"} => lic \in Licenses
  /\ pc = "install" => licFile \in {lic, "partial"}

\* Before the manager is constructed it holds no id.
NoIdYet ==
  pc \in {"pending", "close", "request file", "write request"} => sessionId = "none"

\* A session runs only since a metered license set the mode.
RunningHasMode == hwRunning => hwMode # "none"

\* A metered manager is never in the middle of a node-locked call.
MeteredIsReady == mode = "metered" => pc \in {"off", "ready"}

\* An existing license file is not asked for again.
AskingHasNoFile == Asking => licFile \notin Licenses

IInv ==
  /\ TypeOK
  /\ IdOfFile
  /\ LicenseOfFile
  /\ NoIdYet
  /\ RunningHasMode
  /\ MeteredIsReady
  /\ AskingHasNoFile
  /\ PendingSessionEnded
  /\ LicenseIdAccepted

\* No manager, no file, nothing in the controller: the invariant holds initially.
LEMMA InvInit == Init => IInv
BY LicensesAssumption DEF Init, IInv, TypeOK, IdOfFile, Asking, LicenseOfFile,
   NoIdYet, RunningHasMode, MeteredIsReady, AskingHasNoFile, PendingSessionEnded,
   LicenseIdAccepted

\* Every step keeps the invariant: one case per action.
LEMMA InvStep == IInv /\ [Next]_vars => IInv'
<1> SUFFICES ASSUME IInv, [Next]_vars PROVE IInv'
  OBVIOUS
<1> USE LicensesAssumption DEF IInv, TypeOK, IdOfFile, Asking, LicenseOfFile,
      NoIdYet, RunningHasMode, MeteredIsReady, AskingHasNoFile,
      PendingSessionEnded, LicenseIdAccepted, confVars, mgrVars, fileVars,
      hwVars, Goto
<1>1. CASE Construct BY <1>1 DEF Construct
<1>2. CASE ConstructFails 
  <2>1. CASE UNCHANGED hwRunning BY <1>2, <2>1 DEF ConstructFails
  <2>2. CASE hwRunning' = FALSE BY <1>2, <2>2, ZenonT(30) DEF ConstructFails
  <2> QED BY <1>2, <2>1, <2>2 DEF ConstructFails
<1>3. CASE EndPendingSession BY <1>3 DEF EndPendingSession
<1>4. CASE ClosePendingSession BY <1>4 DEF ClosePendingSession
<1>5. CASE OpenRequestFile BY <1>5 DEF OpenRequestFile
<1>6. CASE WriteRequestFile BY <1>6 DEF WriteRequestFile
<1>7. CASE Activate BY <1>7 DEF Activate
<1>8. CASE ReadRequestFile BY <1>8 DEF ReadRequestFile
<1>9. CASE AnswerLicense BY <1>9 DEF AnswerLicense
<1>10. CASE ActivateFails BY <1>10 DEF ActivateFails
<1>11. CASE OpenLicenseFile BY <1>11 DEF OpenLicenseFile
<1>12. CASE WriteLicenseFile BY <1>12 DEF WriteLicenseFile
<1>13. CASE InstallLicense BY <1>13 DEF InstallLicense
<1>14. CASE MeteredActivate BY <1>14 DEF MeteredActivate
<1>15. CASE MeteredDeactivate BY <1>15 DEF MeteredDeactivate
<1>16. CASE Destroy 
  <2>1. CASE UNCHANGED hwRunning BY <1>16, <2>1 DEF Destroy
  <2>2. CASE hwRunning' = FALSE BY <1>16, <2>2, ZenonT(30) DEF Destroy
  <2> QED BY <1>16, <2>1, <2>2 DEF Destroy
<1>17. CASE Crash
  <2>1. pc' = "off" /\ UNCHANGED <<mgrVars, fileVars, hwVars>>
    BY <1>17 DEF Crash
  <2>2. TypeOK' /\ RunningHasMode' BY <2>1, ZenonT(30)
  <2>3. /\ IdOfFile' /\ LicenseOfFile' /\ NoIdYet' /\ MeteredIsReady'
        /\ AskingHasNoFile' /\ PendingSessionEnded' /\ LicenseIdAccepted'
    BY <2>1
  <2> QED BY <2>2, <2>3
<1>18. CASE Reprogram BY <1>18 DEF Reprogram
<1>19. CASE UserCopiesLicense BY <1>19 DEF UserCopiesLicense
<1>20. CASE UserCleans BY <1>20 DEF UserCleans
<1>21. CASE UNCHANGED vars
  <2>0. UNCHANGED <<pc, mode, server, cut, sessionId, lic, reqFile, licFile, hwMode, hwRunning>>
    BY <1>21, Zenon DEF vars
  <2>1. TypeOK'
    <3>1. (cut \in BOOLEAN)' /\ (server \in BOOLEAN)' /\ (hwRunning \in BOOLEAN)'
      BY <2>0, Zenon
    <3> QED BY <2>0, <3>1
  <2>2. IdOfFile' /\ LicenseOfFile' /\ NoIdYet' BY <1>21, Zenon DEF vars
  <2>3. RunningHasMode' /\ MeteredIsReady' /\ AskingHasNoFile'
    BY <1>21, Zenon DEF vars
  <2>4. PendingSessionEnded' /\ LicenseIdAccepted' BY <1>21, Zenon DEF vars
  <2> QED BY <2>1, <2>2, <2>3, <2>4
<1> QED
  BY <1>1, <1>2, <1>3, <1>4, <1>5, <1>6, <1>7, <1>8, <1>9, <1>10, <1>11, <1>12,
     <1>13, <1>14, <1>15, <1>16, <1>17, <1>18, <1>19, <1>20, <1>21 DEF Next

\* The inductive invariant holds in every reachable state.
THEOREM Invariance == Spec => []IInv
BY InvInit, InvStep, PTL DEF Spec

\* The variables keep their types, for every set of licenses: a license to be
\* installed is a license, never the remains of a truncated file.
THEOREM TypeCorrect == Spec => []TypeOK
<1>1. IInv => TypeOK BY DEF IInv
<1> QED BY <1>1, Invariance, PTL

\* No license is refused for the session id of an earlier one.
THEOREM LicenseIdSafe == Spec => []LicenseIdAccepted
<1>1. IInv => LicenseIdAccepted BY DEF IInv
<1> QED BY <1>1, Invariance, PTL

\* A manager with a web service never node-locks a controller in a session, if the
\* end of the pending one was not cut short by an error the constructor swallows.
THEOREM SwitchIsSafe == Spec => []PendingSessionEnded
<1>1. IInv => PendingSessionEnded BY DEF IInv
<1> QED BY <1>1, Invariance, PTL

\* No manager overwrites a license file that can be read: it opens the file for
\* writing only while it asks, and it asks only without one.
THEOREM LicenseSafe == Spec => LicenseKept
<1>1. IInv /\ [Next]_vars => [pc # "off" /\ licFile \in Licenses => licFile' = licFile]_vars
  <2> SUFFICES ASSUME IInv, [Next]_vars, pc # "off", licFile \in Licenses
               PROVE  licFile' = licFile
    OBVIOUS
  <2>1. CASE OpenLicenseFile
    BY <2>1 DEF OpenLicenseFile, IInv, AskingHasNoFile, Asking
  <2>2. CASE WriteLicenseFile
    BY <2>2 DEF WriteLicenseFile, IInv, AskingHasNoFile, Asking
  <2>3. CASE UserCopiesLicense
    BY <2>3, LicensesAssumption DEF UserCopiesLicense
  <2>4. CASE ~(OpenLicenseFile \/ WriteLicenseFile \/ UserCopiesLicense)
    BY <2>4 DEF Next, vars, fileVars, Goto, Construct, ConstructFails,
       EndPendingSession, ClosePendingSession, OpenRequestFile, WriteRequestFile,
       Activate, ReadRequestFile, AnswerLicense, ActivateFails, InstallLicense,
       MeteredActivate, MeteredDeactivate, Destroy, Crash, Reprogram, UserCleans
  <2> QED BY <2>1, <2>2, <2>3, <2>4
<1> QED BY <1>1, Invariance, PTL DEF Spec, LicenseKept

=============================================================================
