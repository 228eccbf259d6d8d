------------------------------ MODULE NodeLock ------------------------------
(***************************************************************************)
(* Node-locked licensing: the constructor of DrmManager::Impl that ends a   *)
(* pending metered session and writes the license request file, activate()  *)
(* that installs the license file or requests one, and the managers in      *)
(* metered mode that come before and after on the same controller.          *)
(*                                                                          *)
(* There is one manager at a time. Both files live longer than it, and a    *)
(* process can be killed between any two steps, the two steps of writing a  *)
(* file included. What a metered manager does inside one session is the     *)
(* matter of DrmSession; here each of its calls is one step on the          *)
(* controller.                                                              *)
(***************************************************************************)
EXTENDS Naturals

CONSTANTS
  Licenses,  \* the licenses the web service can issue; each has a session id of its own
  Refused    \* the ones that are malformed or that the controller refuses

ASSUME LicensesAssumption ==
  /\ Refused \subseteq Licenses
  /\ "none" \notin Licenses /\ "partial" \notin Licenses

VARIABLES
  pc,         \* where the manager is
  mode,       \* mLicenseType
  server,     \* the configuration lets DrmWSClient be constructed
  cut,        \* ending the pending session failed with an error, and was swallowed
  sessionId,  \* mSessionID, named by the license it came with
  lic,        \* license_json in installNodelockedLicense
  reqFile,    \* the license request file
  licFile,    \* the license file
  hwMode,     \* status bits of the controller: license metering, license node-lock
  hwRunning   \* status bit session running

confVars == <<mode, server, cut>>
mgrVars  == <<confVars, sessionId, lic>>
fileVars == <<reqFile, licFile>>
hwVars   == <<hwMode, hwRunning>>
vars     == <<pc, mgrVars, fileVars, hwVars>>

TypeOK ==
  /\ pc \in {"off", "pending", "close", "request file", "write request", "ready",
             "look", "request", "save", "write license", "install"}
  /\ mode \in {"metered", "nodelocked"} /\ server \in BOOLEAN /\ cut \in BOOLEAN
  /\ sessionId \in Licenses \cup {"none"} /\ lic \in Licenses \cup {"none"}
  /\ reqFile \in {"none", "partial", "whole"}
  /\ licFile \in Licenses \cup {"none", "partial"}
  /\ hwMode \in {"none", "metered", "nodelocked"} /\ hwRunning \in BOOLEAN

Init ==
  /\ pc = "off" /\ mode = "metered" /\ server = TRUE /\ cut = FALSE
  /\ sessionId = "none" /\ lic = "none"
  /\ reqFile = "none" /\ licFile = "none"
  /\ hwMode = "none" /\ hwRunning = FALSE

\* The manager goes on to its next step, and nothing else changes.
Goto(next) == pc' = next /\ UNCHANGED <<mgrVars, fileVars, hwVars>>

-----------------------------------------------------------------------------
(* The constructor.                                                        *)

\* The configuration file says which license type, and may lack what the web
\* service client needs.
Construct ==
  /\ pc = "off"
  /\ mode' \in {"metered", "nodelocked"} /\ server' \in BOOLEAN /\ cut' = FALSE
  /\ IF mode' = "metered"
     THEN server' /\ pc' = "ready"
     ELSE pc' = "pending"
  /\ sessionId' = "none" /\ lic' = "none"
  /\ UNCHANGED <<fileVars, hwVars>>

\* The constructor throws: there is no manager. A timeout of the end-session
\* command is not swallowed, and the command may have taken effect.
ConstructFails ==
  /\ pc \in {"pending", "request file", "write request"}
  /\ pc' = "off"
  /\ \/ UNCHANGED hwRunning
     \/ pc = "pending" /\ hwMode = "metered" /\ server /\ hwRunning' = FALSE
  /\ UNCHANGED <<mgrVars, fileVars, hwMode>>

\* Mutant: a session left by a metered manager is not looked for.
PendingIgnored == pc = "pending" /\ Goto("request file")

\* isDrmCtrlInMetering and isSessionRunning: end the session in the controller
\* if there is a web service to tell; a missing one is swallowed. So is the
\* Exception for an error code of the controller or the bus, whether the command
\* took effect or not.
EndPendingSession ==
  /\ pc = "pending"
  /\ IF hwMode = "metered" /\ hwRunning /\ server
     THEN /\ \/ pc' = "close" /\ hwRunning' = FALSE /\ UNCHANGED cut
             \/ pc' = "request file" /\ hwRunning' \in BOOLEAN /\ cut' = TRUE
          /\ UNCHANGED <<mode, server, sessionId, lic, fileVars, hwMode>>
     ELSE Goto("request file")

\* The rest of stopSession: the web service closes the session, and mSessionID
\* is cleared; or it fails, which is swallowed too.
ClosePendingSession ==
  /\ pc = "close"
  /\ pc' = "request file"
  /\ sessionId' \in {"none", sessionId}
  /\ UNCHANGED <<confVars, lic, fileVars, hwVars>>

\* createNodelockedLicenseRequestFile: an existing file is kept as it is. Else
\* getMeteringStart, and saveJsonToFile truncates the file.
OpenRequestFile ==
  /\ pc = "request file"
  /\ IF reqFile # "none"
     THEN Goto("ready")
     ELSE /\ pc' = "write request" /\ reqFile' = "partial"
          /\ UNCHANGED <<mgrVars, licFile, hwVars>>

\* saveJsonToFile writes and closes it. The result of the close, where the
\* buffer goes to the disk, is not looked at.
WriteRequestFile ==
  /\ pc = "write request"
  /\ pc' = "ready"
  /\ reqFile' \in {"whole", "partial"}
  /\ UNCHANGED <<mgrVars, licFile, hwVars>>

-----------------------------------------------------------------------------
(* activate() in node-locked mode: installNodelockedLicense. deactivate()   *)
(* does nothing in this mode.                                               *)

\* Mutant: the license is always asked for.
ActivateAsksAgain ==
  /\ pc = "ready" /\ mode = "nodelocked"
  /\ pc' = "look" /\ lic' = "none" /\ sessionId' = "none"
  /\ UNCHANGED <<confVars, fileVars, hwVars>>

\* Mutant: the session id of the last license is kept for the new one.
ActivateKeepsId ==
  /\ pc = "ready" /\ mode = "nodelocked"
  /\ IF licFile \in Licenses
     THEN pc' = "install" /\ lic' = licFile
     ELSE pc' = "look" /\ lic' = "none"
  /\ UNCHANGED <<confVars, sessionId, fileVars, hwVars>>

\* A license file that can be parsed is installed. Otherwise mSessionID is
\* cleared and a license is requested.
Activate ==
  /\ pc = "ready" /\ mode = "nodelocked"
  /\ IF licFile \in Licenses
     THEN pc' = "install" /\ lic' = licFile /\ UNCHANGED sessionId
     ELSE pc' = "look" /\ lic' = "none" /\ sessionId' = "none"
  /\ UNCHANGED <<confVars, fileVars, hwVars>>

\* The web service client is constructed and the request file parsed.
ReadRequestFile ==
  /\ pc = "look"
  /\ Goto(IF server /\ reqFile = "whole" THEN "request" ELSE "ready")

\* getLicense (LicenseRequest) comes back with a new license,
AnswerLicense ==
  /\ pc = "request"
  /\ pc' = "save"
  /\ lic' \in Licenses \ {sessionId, licFile}
  /\ UNCHANGED <<confVars, sessionId, fileVars, hwVars>>

\* or activate() throws: no license, or the file cannot be opened or written.
ActivateFails ==
  /\ pc \in {"request", "save", "write license"}
  /\ Goto("ready")

OpenLicenseFile ==
  /\ pc = "save"
  /\ pc' = "write license" /\ licFile' = "partial"
  /\ UNCHANGED <<mgrVars, reqFile, hwVars>>

WriteLicenseFile ==
  /\ pc = "write license"
  /\ pc' = "install"
  /\ licFile' \in {lic, "partial"}
  /\ UNCHANGED <<mgrVars, reqFile, hwVars>>

\* setLicense, with checkSessionIDFromWS.
InstallLicense ==
  /\ pc = "install"
  /\ pc' = "ready"
  /\ \/ /\ sessionId \notin {"none", lic}
        /\ UNCHANGED <<sessionId, hwMode>>
     \/ /\ sessionId \in {"none", lic} /\ lic \in Refused
        /\ sessionId' \in {sessionId, lic}
        /\ UNCHANGED hwMode
     \/ /\ sessionId \in {"none", lic} /\ lic \notin Refused
        /\ sessionId' = lic /\ hwMode' = "nodelocked"
  /\ UNCHANGED <<confVars, lic, fileVars, hwRunning>>

-----------------------------------------------------------------------------
(* A metered manager.                                                      *)

\* activate() is refused when the controller is node-locked. Otherwise a session
\* is resumed or opened, or the pending one ended and none opened.
MeteredActivate ==
  /\ pc = "ready" /\ mode = "metered" /\ hwMode # "nodelocked"
  /\ hwRunning' \in BOOLEAN
  /\ hwMode' = IF hwRunning' THEN "metered" ELSE hwMode
  /\ UNCHANGED <<pc, mgrVars, fileVars>>

\* deactivate() ends the session; a pause leaves it.
MeteredDeactivate ==
  /\ pc = "ready" /\ mode = "metered" /\ hwRunning
  /\ hwRunning' = FALSE
  /\ UNCHANGED <<pc, mgrVars, fileVars, hwMode>>

\* The destructor: a metered manager ends its session unless it was paused. A
\* node-locked one never sets mSecurityStop.
Destroy ==
  /\ pc = "ready"
  /\ pc' = "off"
  /\ \/ UNCHANGED hwRunning
     \/ mode = "metered" /\ hwRunning' = FALSE
  /\ UNCHANGED <<mgrVars, fileVars, hwMode>>

-----------------------------------------------------------------------------
(* Around the process.                                                     *)

\* The process is killed; the controller and the files stay.
Crash == pc # "off" /\ Goto("off")

\* The board is programmed again.
Reprogram ==
  /\ pc = "off"
  /\ hwMode' = "none" /\ hwRunning' = FALSE
  /\ UNCHANGED <<pc, mgrVars, fileVars>>

\* The user puts the license file there by hand, or cleans the directory
\* between two managers.
UserCopiesLicense ==
  /\ pc \in {"off", "ready"} /\ licFile = "none"
  /\ licFile' \in Licenses
  /\ UNCHANGED <<pc, mgrVars, reqFile, hwVars>>

UserCleans ==
  /\ pc = "off"
  /\ reqFile' = "none" /\ licFile' = "none"
  /\ UNCHANGED <<pc, mgrVars, hwVars>>

Next ==
  \/ Construct \/ ConstructFails \/ EndPendingSession \/ ClosePendingSession
  \/ OpenRequestFile \/ WriteRequestFile
  \/ Activate \/ ReadRequestFile \/ AnswerLicense \/ ActivateFails
  \/ OpenLicenseFile \/ WriteLicenseFile \/ InstallLicense
  \/ MeteredActivate \/ MeteredDeactivate \/ Destroy
  \/ Crash \/ Reprogram \/ UserCopiesLicense \/ UserCleans

Spec == Init /\ [][Next]_vars

-----------------------------------------------------------------------------
\* installNodelockedLicense clears mSessionID before it asks for a new license:
\* no license, from the file or the web service, is refused because an earlier
\* license of the same manager had another session id.
LicenseIdAccepted ==
  pc = "install" => sessionId \in {"none", lic}

\* A license file that can be read is never overwritten nor lost by a manager:
\* its license was bought for this board, the web service may not give another.
LicenseKept ==
  [][pc # "off" /\ licFile \in Licenses => licFile' = licFile]_vars

\* A node-locked manager that can reach a web service never switches the
\* controller to node-lock within a metered session, whatever the manager before
\* left there: until the switch, no session runs. After an error of the
\* end-session command, which the constructor swallows, one may.
PendingSessionEnded ==
  /\ mode = "nodelocked" /\ server /\ ~cut
  /\ pc \notin {"off", "pending"} /\ hwMode # "nodelocked"
  => ~hwRunning

\* What the tests of node-lock expect of the request file of a manager: it is
\* there and complete. The manager that writes it may fail and say so; one that
\* finds it there and keeps it finds the whole request.
KeptRequestIsWhole ==
  [][OpenRequestFile /\ pc' = "ready" => reqFile = "whole"]_vars
=============================================================================
