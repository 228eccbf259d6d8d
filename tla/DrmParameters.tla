---------------------------- MODULE DrmParameters ----------------------------
(***************************************************************************)
(* The settings of a manager: read from the configuration file by its      *)
(* constructor, changed by set() and reported by get(), with what they      *)
(* govern at once: the log sinks and the mailbox of the controller.         *)
(*                                                                         *)
(* set() is given a JSON object and applies its members one after the       *)
(* other, in the order of their names; an exception leaves the earlier ones *)
(* applied. The calls come from one application thread. A mailbox access is *)
(* made with mDrmControllerMutex held and is one step.                      *)
(***************************************************************************)
EXTENDS Integers, Sequences, FiniteSets

CONSTANTS
  Periods,       \* seconds: retry periods and request timeouts
  Levels,        \* log verbosities, 0 the most talkative
  Paths,         \* paths of the service log
  Words,         \* what a word of the mailbox can hold
  MailboxSize,   \* the read-write words of the mailbox
  MaxKeys        \* bound: members of one set()

\* eMailboxOffset
LockWord   == 0
CustomWord == 1
UserWord   == 2

DefaultLevel == 4   \* of sLogger and of the console: err

ASSUME ParametersAssumption ==
  /\ Periods \subseteq Nat /\ Levels \subseteq Nat /\ Paths \subseteq Nat
  /\ MailboxSize \in Nat /\ MailboxSize > UserWord /\ MaxKeys \in Nat

VARIABLES
  up,        \* there is a manager
  setting,   \* its settings
  sinks,     \* the sinks of sLogger: what each logs, from which level, where
  logger,    \* the level of sLogger itself, which messages pass first
  mailbox,   \* the read-write words; they outlive the manager
  todo,      \* the members (in Keys) that the set() in progress has not applied yet
  result     \* of the last set()

logVars == <<sinks, logger>>
vars    == <<up, setting, logVars, mailbox, todo, result>>

\* The members set() accepts and this module follows, in the order of their names.
Keys == <<"custom_field", "log_file_verbosity", "log_service_create", "log_service_path",
          "log_service_verbosity", "log_verbosity", "mailbox_data", "session_id",
          "ws_request_timeout", "ws_retry_period_long", "ws_retry_period_short">>

Sink(log, level, path) == [log |-> log, level |-> level, path |-> path]

Lower(a, b) == IF a < b THEN a ELSE b

Init ==
  /\ up = FALSE
  /\ setting = [long |-> 60, short |-> 2, timeout |-> 10,
                console |-> DefaultLevel, file |-> 2, service |-> 2, path |-> 0]
  /\ sinks = <<>> /\ logger = DefaultLevel
  /\ mailbox \in [0..(MailboxSize - 1) -> Words]
  /\ mailbox[LockWord] = 0       \* lockDrmToInstance, which would set it, returns at once
  /\ todo = {} /\ result = "none"

-----------------------------------------------------------------------------
\* initLog and updateLog make the first n sinks: a file that spdlog cannot open
\* ends updateLog with a message on the console, without the sinks from there on,
\* and the service log is only made when the configuration asks for it.
LogSinks(s, n) ==
  [i \in 1..n |-> CASE i = 1 -> Sink("console", s.console, 0)
                    [] i = 2 -> Sink("file", s.file, 0)
                    [] i = 3 -> Sink("service", s.service, s.path)]

\* Each of them lowers the level of sLogger to its own.
LoggerLevel(s, n) ==
  LET console == Lower(DefaultLevel, s.console)
      file    == IF n >= 2 THEN Lower(console, s.file) ELSE console
  IN  IF n = 3 THEN Lower(file, s.service) ELSE file

\* The constructor refuses a configuration file with settings that do not fit
\* together; a log directory that cannot be made ends it as well.
NewManager ==
  /\ ~up
  /\ \E long, short, timeout \in Periods, console, file, service \in Levels, path \in Paths :
       /\ timeout # 0 /\ long > short
       /\ setting' = [long |-> long, short |-> short, timeout |-> timeout,
                      console |-> console, file |-> file, service |-> service, path |-> path]
  /\ \E n \in 1..3 :
       /\ sinks' = LogSinks(setting', n)
       /\ logger' = LoggerLevel(setting', n)
  /\ up' = TRUE
  /\ result' = "none"
  /\ UNCHANGED <<mailbox, todo>>

\* The manager is destroyed or its process ends, not in a call.
EndManager ==
  /\ up /\ todo = {}
  /\ up' = FALSE /\ result' = "none"
  /\ UNCHANGED <<setting, logVars, mailbox, todo>>

-----------------------------------------------------------------------------
SetCall ==
  /\ up /\ todo = {}
  /\ \E given \in SUBSET DOMAIN Keys :
       /\ Cardinality(given) \in 1..MaxKeys
       /\ todo' = given
  /\ result' = "running"
  /\ UNCHANGED <<up, setting, logVars, mailbox>>

\* The member the loop of set() has come to.
Current == CHOOSE i \in todo : \A j \in todo : i <= j

At(keys) == todo # {} /\ Keys[Current] \in keys

Applied ==
  /\ todo' = todo \ {Current}
  /\ result' = IF todo' = {} THEN "done" ELSE "running"
  /\ UNCHANGED up

\* An exception leaves set(): the members after this one are not looked at.
Thrown ==
  /\ todo' = {} /\ result' = "refused"
  /\ UNCHANGED up

ServiceLogInUse == Len(sinks) = 3

\* A member that set() does not write, or a value of another type. The values for
\* a service log in use are not looked at.
Refuse ==
  /\ todo # {}
  /\ ServiceLogInUse => ~At({"log_service_create", "log_service_path"})
  /\ Thrown
  /\ UNCHANGED <<setting, logVars, mailbox>>

-----------------------------------------------------------------------------
\* Mutant: the value is assigned before it is compared, as in SetTimeout.
SetLongFirst ==
  /\ At({"ws_retry_period_long"})
  /\ \E p \in Periods :
       /\ setting' = [setting EXCEPT !.long = p]
       /\ IF p > setting.short THEN Applied ELSE Thrown
  /\ UNCHANGED <<logVars, mailbox>>

SetLong ==
  /\ At({"ws_retry_period_long"})
  /\ \E p \in Periods :
       IF p > setting.short THEN Applied /\ setting' = [setting EXCEPT !.long = p]
                            ELSE Thrown /\ UNCHANGED setting
  /\ UNCHANGED <<logVars, mailbox>>

\* Mutant: equal periods are let through.
SetShortUpToLong ==
  /\ At({"ws_retry_period_short"})
  /\ \E p \in Periods :
       IF p <= setting.long THEN Applied /\ setting' = [setting EXCEPT !.short = p]
                            ELSE Thrown /\ UNCHANGED setting
  /\ UNCHANGED <<logVars, mailbox>>

SetShort ==
  /\ At({"ws_retry_period_short"})
  /\ \E p \in Periods :
       IF p < setting.long THEN Applied /\ setting' = [setting EXCEPT !.short = p]
                           ELSE Thrown /\ UNCHANGED setting
  /\ UNCHANGED <<logVars, mailbox>>

\* The value is assigned, then refused when it is 0.
SetTimeout ==
  /\ At({"ws_request_timeout"})
  /\ \E p \in Periods :
       /\ setting' = [setting EXCEPT !.timeout = p]
       /\ IF p = 0 THEN Thrown ELSE Applied
  /\ UNCHANGED <<logVars, mailbox>>

-----------------------------------------------------------------------------
\* A sink takes a level; the logger lets at least as much through.
SinkLevel(i, level) ==
  /\ sinks' = [sinks EXCEPT ![i].level = level]
  /\ logger' = Lower(logger, level)

SetConsoleLevel ==
  /\ At({"log_verbosity"})
  /\ \E l \in Levels :
       /\ setting' = [setting EXCEPT !.console = l]
       /\ SinkLevel(1, l)
  /\ Applied /\ UNCHANGED mailbox

\* The second sink is taken for the log file without a look at how many there
\* are. Where there is one only, the access is out of range: it does nothing
\* that shows, or it ends the process.
SetFileLevel ==
  /\ At({"log_file_verbosity"})
  /\ \E l \in Levels :
       /\ setting' = [setting EXCEPT !.file = l]
       /\ IF Len(sinks) > 1
            THEN SinkLevel(2, l) /\ Applied
            ELSE /\ UNCHANGED logVars
                 /\ Applied \/ (up' = FALSE /\ todo' = {} /\ result' = "none")
  /\ UNCHANGED mailbox

\* Mutant: the level of the logger stays where it is.
SetServiceSinkOnly ==
  /\ At({"log_service_verbosity"})
  /\ \E l \in Levels :
       /\ setting' = [setting EXCEPT !.service = l]
       /\ IF ServiceLogInUse
            THEN sinks' = [sinks EXCEPT ![3].level = l] /\ UNCHANGED logger
            ELSE UNCHANGED logVars
  /\ Applied /\ UNCHANGED mailbox

SetServiceLevel ==
  /\ At({"log_service_verbosity"})
  /\ \E l \in Levels :
       /\ setting' = [setting EXCEPT !.service = l]
       /\ IF ServiceLogInUse THEN SinkLevel(3, l) ELSE UNCHANGED logVars
  /\ Applied /\ UNCHANGED mailbox

\* Mutant: the path of a log that is in use is taken as well.
SetServicePathAlways ==
  /\ At({"log_service_path"})
  /\ \E p \in Paths : setting' = [setting EXCEPT !.path = p]
  /\ Applied /\ UNCHANGED <<logVars, mailbox>>

\* With three sinks the service log is in use: its settings stay, with a warning.
SetServicePath ==
  /\ At({"log_service_path"})
  /\ \E p \in Paths :
       setting' = IF ServiceLogInUse THEN setting ELSE [setting EXCEPT !.path = p]
  /\ Applied /\ UNCHANGED <<logVars, mailbox>>

\* log_service_create comes before the settings of the log in the order of names:
\* in one call with them it uses the old ones.
CreateServiceLog ==
  /\ At({"log_service_create"})
  /\ \/ /\ ~ServiceLogInUse
        /\ sinks' = Append(sinks, Sink("service", setting.service, setting.path))
        /\ logger' = Lower(logger, setting.service)
        /\ Applied
     \/ /\ ~ServiceLogInUse          \* the file cannot be made
        /\ Thrown /\ UNCHANGED logVars
     \/ /\ ServiceLogInUse
        /\ Applied /\ UNCHANGED logVars
  /\ UNCHANGED <<setting, mailbox>>

-----------------------------------------------------------------------------
\* writeMailbox reads all the words, changes its own and writes all of them
\* back; a bus error ends the call before or among the words.
WriteMailbox(first, words) ==
  LET wanted == [w \in DOMAIN mailbox |->
                   IF w \in first..(first + Len(words) - 1) THEN words[w - first + 1]
                                                            ELSE mailbox[w]]
  IN  \/ first + Len(words) > MailboxSize /\ Thrown /\ UNCHANGED mailbox
      \/ first + Len(words) <= MailboxSize /\ Applied /\ mailbox' = wanted
      \/ /\ first + Len(words) <= MailboxSize
         /\ \E done \in 0..(MailboxSize - 1) :
              mailbox' = [w \in DOMAIN mailbox |-> IF w < done THEN wanted[w] ELSE mailbox[w]]
         /\ todo' = {} /\ result' = "bus error" /\ UNCHANGED up

SetCustomField ==
  /\ At({"custom_field"})
  /\ \E word \in Words : WriteMailbox(CustomWord, <<word>>)
  /\ UNCHANGED <<setting, logVars>>

SetMailboxData ==
  /\ At({"mailbox_data"})
  /\ \E n \in 0..(MailboxSize - UserWord + 1) :
       \E words \in [1..n -> Words] : WriteMailbox(UserWord, words)
  /\ UNCHANGED <<setting, logVars>>

-----------------------------------------------------------------------------
SetMember ==
  \/ Refuse
  \/ SetLong \/ SetShort \/ SetTimeout
  \/ SetConsoleLevel \/ SetFileLevel
  \/ SetServiceLevel \/ SetServicePath \/ CreateServiceLog
  \/ SetCustomField \/ SetMailboxData

Next == NewManager \/ EndManager \/ SetCall \/ SetMember

Spec == Init /\ [][Next]_vars

-----------------------------------------------------------------------------
Settings == [long : Nat, short : Nat, timeout : Nat,
             console : Nat, file : Nat, service : Nat, path : Nat]

SinkType == [log : {"console", "file", "service"}, level : Nat, path : Nat]

\* There is a member to apply only in a manager, and never a fourth sink.
TypeOK ==
  /\ up \in BOOLEAN /\ setting \in Settings
  /\ sinks \in Seq(SinkType)
  /\ Len(sinks) \in 0..3 /\ (up => Len(sinks) > 0)
  /\ logger \in Nat
  /\ todo \subseteq DOMAIN Keys /\ (todo # {} => up)

\* The retry periods stay in their order, in whatever order and combination
\* set() is given them and whatever it refuses: getLicense tells a long wait
\* from a short one by it.
PeriodsOrdered == up => setting.long > setting.short

\* A member that set() refuses has no effect, whatever went before it in the
\* same call, but for one: a request timeout of 0 is refused and stays.
RefusedHasNoEffect ==
  [][todo # {} /\ result' = "refused" =>
       /\ UNCHANGED <<logVars, mailbox>>
       /\ \/ UNCHANGED setting
          \/ /\ At({"ws_request_timeout"})
             /\ setting' = [setting EXCEPT !.timeout = 0]]_vars

\* No message that a sink is to log is held back by the logger before it.
LoggerPassesAll == \A i \in DOMAIN sinks : logger <= sinks[i].level

\* get() on the log settings, for the sink they are about
Reported(log) ==
  CASE log = "console" -> Sink(log, setting.console, 0)
    [] log = "file"    -> Sink(log, setting.file, 0)
    [] log = "service" -> Sink(log, setting.service, setting.path)

\* What get() says of a log is what its sink does, unless the log file could not
\* be opened: then the sinks are not where set() looks for them.
LogIsAsReported ==
  up /\ (Len(sinks) > 1 => sinks[2].log = "file") =>
    \A i \in DOMAIN sinks : sinks[i] = Reported(sinks[i].log)
=============================================================================
