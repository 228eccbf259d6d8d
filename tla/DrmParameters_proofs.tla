------------------------- MODULE DrmParameters_proofs -------------------------
(***************************************************************************)
(* The settings for any configuration file, any set() calls and any         *)
(* failures: the order of the retry periods, the level of the logger, what  *)
(* a refused member leaves behind, and what get() says of the logs.         *)
(***************************************************************************)
EXTENDS DrmParameters, TLAPS

\* An exception in set(), the end of a member, and the members of Keys.
LEMMA TodoStep ==
  ASSUME TypeOK, todo # {}, Applied \/ Thrown
  PROVE  todo' \subseteq DOMAIN Keys /\ (todo' # {} => up') /\ up' \in BOOLEAN /\ up' = up
  BY DEF TypeOK, Applied, Thrown

\* A level below zero is not made by taking the lower of two.
LEMMA LowerIsNat ==
  ASSUME NEW a \in Nat, NEW b \in Nat
  PROVE  Lower(a, b) \in Nat /\ Lower(a, b) <= a /\ Lower(a, b) <= b
  BY DEF Lower

\* The sinks of a new manager are well formed, and its logger lets through what
\* any of them logs.
LEMMA NewSinks ==
  ASSUME NEW s \in Settings, NEW n \in 1..3
  PROVE  /\ LogSinks(s, n) \in Seq(SinkType) /\ Len(LogSinks(s, n)) = n
         /\ LoggerLevel(s, n) \in Nat
         /\ \A i \in DOMAIN LogSinks(s, n) : LoggerLevel(s, n) <= LogSinks(s, n)[i].level
<1> DEFINE list == LogSinks(s, n)
<1>1. s.console \in Nat /\ s.file \in Nat /\ s.service \in Nat /\ s.path \in Nat
  BY DEF Settings
<1>2. \A i \in 1..n : list[i] \in SinkType
  BY <1>1 DEF LogSinks, Sink, SinkType
<1>3. list \in Seq(SinkType) /\ Len(list) = n /\ DOMAIN list = 1..n
  BY <1>2 DEF LogSinks
<1>4. DefaultLevel \in Nat
  BY DEF DefaultLevel
<1>5. LoggerLevel(s, n) \in Nat
  BY <1>1, <1>4, LowerIsNat DEF LoggerLevel
<1>6. ASSUME NEW i \in 1..n
      PROVE  LoggerLevel(s, n) <= list[i].level
  <2>1. CASE i = 1
    <3>1. list[i].level = s.console
      BY <2>1 DEF LogSinks, Sink
    <3>2. QED BY <3>1, <1>1, <1>4 DEF LoggerLevel, Lower
  <2>2. CASE i = 2
    <3>1. list[i].level = s.file
      BY <2>2 DEF LogSinks, Sink
    <3>2. QED BY <2>2, <3>1, <1>1, <1>4 DEF LoggerLevel, Lower
  <2>3. CASE i = 3
    <3>1. list[i].level = s.service
      BY <2>3 DEF LogSinks, Sink
    <3>2. QED BY <2>3, <3>1, <1>1, <1>4 DEF LoggerLevel, Lower
  <2>4. QED BY <2>1, <2>2, <2>3
<1>7. QED BY <1>3, <1>5, <1>6

\* A sink that takes a level stays a sink, and the logger follows it.
LEMMA LevelStep ==
  ASSUME TypeOK, LoggerPassesAll, NEW l \in Nat, NEW i \in 1..Len(sinks), SinkLevel(i, l)
  PROVE  /\ sinks' \in Seq(SinkType) /\ Len(sinks') = Len(sinks)
         /\ logger' \in Nat /\ LoggerPassesAll'
<1>1. logger \in Nat /\ logger' \in Nat /\ logger' <= logger /\ logger' <= l
  BY LowerIsNat DEF TypeOK, SinkLevel
<1>2. sinks \in Seq(SinkType) /\ sinks' = [sinks EXCEPT ![i].level = l]
  BY DEF TypeOK, SinkLevel
<1>3. \A j \in 1..Len(sinks) : sinks[j] \in SinkType
  BY <1>2
<1>4. \A j \in 1..Len(sinks) :
        sinks'[j] = IF j = i THEN [sinks[i] EXCEPT !.level = l] ELSE sinks[j]
  BY <1>2
<1>5. [sinks[i] EXCEPT !.level = l] \in SinkType /\ [sinks[i] EXCEPT !.level = l].level = l
  BY <1>3 DEF SinkType
<1>6. sinks' \in Seq(SinkType) /\ Len(sinks') = Len(sinks) /\ DOMAIN sinks' = 1..Len(sinks)
  BY <1>2, <1>3, <1>4, <1>5
<1>7. \A j \in 1..Len(sinks) : logger <= sinks[j].level /\ sinks[j].level \in Nat
  BY <1>3, <1>2 DEF LoggerPassesAll, SinkType
<1>8. \A j \in 1..Len(sinks) : logger' <= sinks'[j].level
  <2> TAKE j \in 1..Len(sinks)
  <2>1. CASE j = i
    BY <2>1, <1>1, <1>4, <1>5
  <2>2. CASE j # i
    <3>1. sinks'[j].level = sinks[j].level
      BY <2>2, <1>4
    <3>2. QED BY <3>1, <1>1, <1>7
  <2>3. QED BY <2>1, <2>2
<1>9. QED BY <1>1, <1>6, <1>8 DEF LoggerPassesAll

\* The inductive invariant.
IInv == TypeOK /\ LoggerPassesAll /\ PeriodsOrdered

THEOREM Initially == Init => IInv
<1> SUFFICES ASSUME Init PROVE IInv
  OBVIOUS
<1>1. setting \in Settings
  BY DEF Init, Settings, DefaultLevel
<1>2. sinks \in Seq(SinkType) /\ Len(sinks) = 0 /\ DOMAIN sinks = {}
  BY DEF Init
<1>3. up \in BOOLEAN /\ ~up /\ todo \subseteq DOMAIN Keys /\ todo = {}
  BY DEF Init
<1>4. logger \in Nat
  BY DEF Init, DefaultLevel
<1>5. TypeOK
  BY <1>1, <1>2, <1>3, <1>4 DEF TypeOK
<1>6. QED BY <1>2, <1>5 DEF Init, IInv, LoggerPassesAll, PeriodsOrdered

\* A step of set() that touches neither sinks nor the order of the periods.
LEMMA QuietStep ==
  ASSUME IInv, todo # {}, UNCHANGED logVars, setting' \in Settings,
         setting'.long > setting'.short,
         todo' \subseteq DOMAIN Keys, todo' # {} => up', up' \in {up, FALSE}
  PROVE  IInv'
  BY DEF IInv, TypeOK, LoggerPassesAll, PeriodsOrdered, logVars

\* The settings have all their fields, so replacing one leaves a record.
LEMMA FieldSet ==
  ASSUME NEW s \in Settings, NEW v \in Nat
  PROVE  /\ [s EXCEPT !.long = v] \in Settings /\ [s EXCEPT !.long = v].long = v
         /\ [s EXCEPT !.long = v].short = s.short
         /\ [s EXCEPT !.short = v] \in Settings /\ [s EXCEPT !.short = v].short = v
         /\ [s EXCEPT !.short = v].long = s.long
         /\ [s EXCEPT !.timeout = v] \in Settings /\ [s EXCEPT !.timeout = v].long = s.long
         /\ [s EXCEPT !.timeout = v].short = s.short
         /\ [s EXCEPT !.console = v] \in Settings /\ [s EXCEPT !.console = v].long = s.long
         /\ [s EXCEPT !.console = v].short = s.short
         /\ [s EXCEPT !.file = v] \in Settings /\ [s EXCEPT !.file = v].long = s.long
         /\ [s EXCEPT !.file = v].short = s.short
         /\ [s EXCEPT !.service = v] \in Settings /\ [s EXCEPT !.service = v].long = s.long
         /\ [s EXCEPT !.service = v].short = s.short
         /\ [s EXCEPT !.path = v] \in Settings /\ [s EXCEPT !.path = v].long = s.long
         /\ [s EXCEPT !.path = v].short = s.short
  BY DEF Settings

THEOREM Preserved == IInv /\ [Next]_vars => IInv'
<1> SUFFICES ASSUME IInv, [Next]_vars PROVE IInv'
  OBVIOUS
<1> USE ParametersAssumption
<1>1. setting \in Settings /\ (up => setting.long > setting.short)
  BY DEF IInv, TypeOK, PeriodsOrdered
<1>2. CASE NewManager
  <2>1. setting' \in Settings /\ setting'.long > setting'.short
    BY <1>2 DEF NewManager, Settings
  <2>2. /\ sinks' \in Seq(SinkType) /\ Len(sinks') \in 1..3
        /\ logger' \in Nat /\ LoggerPassesAll'
    BY <1>2, <2>1, NewSinks DEF NewManager, LoggerPassesAll
  <2>3. todo' \subseteq DOMAIN Keys /\ up' /\ up' \in BOOLEAN
    BY <1>2 DEF NewManager, IInv, TypeOK
  <2>4. TypeOK'
    BY <2>1, <2>2, <2>3 DEF TypeOK
  <2>5. QED BY <2>1, <2>2, <2>4 DEF IInv, PeriodsOrdered
<1>3. CASE EndManager
  BY <1>3 DEF EndManager, IInv, TypeOK, LoggerPassesAll, PeriodsOrdered, logVars
<1>4. CASE SetCall
  BY <1>4 DEF SetCall, IInv, TypeOK, LoggerPassesAll, PeriodsOrdered, logVars
<1>5. CASE SetMember
  <2>1. todo # {}
    BY <1>5 DEF SetMember, Refuse, SetLong, SetShort, SetTimeout, SetConsoleLevel, SetFileLevel,
      SetServiceLevel, SetServicePath, CreateServiceLog, SetCustomField, SetMailboxData, At
  <2>2. TypeOK /\ up /\ setting.long > setting.short
    BY <2>1, <1>1 DEF IInv, TypeOK
  <2>3. CASE Refuse
    BY <2>1, <2>2, <2>3, <1>1, QuietStep, TodoStep DEF Refuse
  <2>4. CASE SetLong
    <3>1. setting' \in Settings /\ setting'.long > setting'.short /\ (Applied \/ Thrown)
      <4>1. PICK q \in Periods :
              IF q > setting.short THEN Applied /\ setting' = [setting EXCEPT !.long = q]
                                   ELSE Thrown /\ UNCHANGED setting
        BY <2>4 DEF SetLong
      <4>2. q \in Nat
        OBVIOUS
      <4>3. CASE q > setting.short
        <5>1. Applied /\ setting' = [setting EXCEPT !.long = q]
          BY <4>1, <4>3
        <5>2. QED BY <5>1, <4>2, <4>3, <1>1, FieldSet
      <4>4. CASE ~(q > setting.short)
        BY <4>1, <4>4, <1>1, <2>2
      <4>5. QED BY <4>3, <4>4
    <3>2. QED BY <2>1, <2>2, <2>4, <3>1, QuietStep, TodoStep DEF SetLong
  <2>5. CASE SetShort
    <3>1. setting' \in Settings /\ setting'.long > setting'.short /\ (Applied \/ Thrown)
      BY <2>2, <2>5, <1>1, FieldSet DEF SetShort, Settings
    <3>2. QED BY <2>1, <2>2, <2>5, <3>1, QuietStep, TodoStep DEF SetShort
  <2>6. CASE SetTimeout
    <3>1. setting' \in Settings /\ setting'.long > setting'.short /\ (Applied \/ Thrown)
      <4>1. PICK q \in Periods : /\ setting' = [setting EXCEPT !.timeout = q]
                                 /\ IF q = 0 THEN Thrown ELSE Applied
        BY <2>6 DEF SetTimeout
      <4>2. QED BY <4>1, <2>2, <1>1, FieldSet
    <3>2. QED BY <2>1, <2>2, <2>6, <3>1, QuietStep, TodoStep DEF SetTimeout
  <2>7. CASE SetServicePath
    <3>1. setting' \in Settings /\ setting'.long > setting'.short /\ Applied
      <4>1. PICK q \in Paths :
              setting' = IF ServiceLogInUse THEN setting ELSE [setting EXCEPT !.path = q]
        BY <2>7 DEF SetServicePath
      <4>2. QED BY <4>1, <2>2, <2>7, <1>1, FieldSet DEF SetServicePath
    <3>2. QED BY <2>1, <2>2, <2>7, <3>1, QuietStep, TodoStep DEF SetServicePath
  <2>8. CASE SetCustomField \/ SetMailboxData
    <3>1. Applied \/ Thrown \/ (todo' = {} /\ up' = up)
      BY <2>8 DEF SetCustomField, SetMailboxData, WriteMailbox
    <3>2. setting' = setting /\ UNCHANGED logVars
      BY <2>8 DEF SetCustomField, SetMailboxData
    <3>3. QED BY <2>1, <2>2, <1>1, <3>1, <3>2, QuietStep, TodoStep
  <2>9. ASSUME NEW i \in 1..Len(sinks), NEW l \in Levels, SinkLevel(i, l), Applied,
               setting' \in Settings, setting'.long = setting.long, setting'.short = setting.short
        PROVE  IInv'
    <3>1. /\ sinks' \in Seq(SinkType) /\ Len(sinks') = Len(sinks)
          /\ logger' \in Nat /\ LoggerPassesAll'
      BY <2>2, <2>9, LevelStep DEF IInv
    <3>2. TypeOK'
      BY <2>1, <2>2, <2>9, <3>1, TodoStep DEF TypeOK
    <3>3. QED BY <3>1, <3>2, <2>2, <2>9 DEF IInv, PeriodsOrdered
  <2>10. CASE SetConsoleLevel
    <3>1. 1 \in 1..Len(sinks)
      BY <2>2 DEF TypeOK
    <3>2. PICK l \in Levels : setting' = [setting EXCEPT !.console = l] /\ SinkLevel(1, l)
      BY <2>10 DEF SetConsoleLevel
    <3>3. setting' \in Settings /\ setting'.long = setting.long /\ setting'.short = setting.short
      BY <3>2, <1>1, FieldSet
    <3>4. Applied
      BY <2>10 DEF SetConsoleLevel
    <3>5. QED BY <2>9, <3>1, <3>2, <3>3, <3>4
  <2>11. CASE SetFileLevel
    <3>1. PICK l \in Levels :
            /\ setting' = [setting EXCEPT !.file = l]
            /\ IF Len(sinks) > 1
                 THEN SinkLevel(2, l) /\ Applied
                 ELSE /\ UNCHANGED logVars
                      /\ Applied \/ (up' = FALSE /\ todo' = {} /\ result' = "none")
      BY <2>11 DEF SetFileLevel
    <3>2. setting' \in Settings /\ setting'.long = setting.long /\ setting'.short = setting.short
      BY <3>1, <1>1, FieldSet
    <3>3. CASE Len(sinks) > 1
      <4>1. 2 \in 1..Len(sinks)
        BY <3>3, <2>2 DEF TypeOK
      <4>2. QED BY <3>1, <3>2, <3>3, <4>1, <2>9
    <3>4. CASE ~(Len(sinks) > 1)
      BY <3>1, <3>2, <3>4, <2>1, <2>2, QuietStep, TodoStep
    <3>5. QED BY <3>3, <3>4
  <2>12. CASE SetServiceLevel
    <3>1. PICK l \in Levels :
            /\ setting' = [setting EXCEPT !.service = l]
            /\ IF ServiceLogInUse THEN SinkLevel(3, l) ELSE UNCHANGED logVars
      BY <2>12 DEF SetServiceLevel
    <3>2. setting' \in Settings /\ setting'.long = setting.long /\ setting'.short = setting.short
      BY <3>1, <1>1, FieldSet
    <3>3. Applied
      BY <2>12 DEF SetServiceLevel
    <3>4. CASE ServiceLogInUse
      <4>1. 3 \in 1..Len(sinks)
        BY <3>4 DEF ServiceLogInUse
      <4>2. QED BY <3>1, <3>2, <3>3, <3>4, <4>1, <2>9
    <3>5. CASE ~ServiceLogInUse
      BY <3>1, <3>2, <3>3, <3>5, <2>1, <2>2, QuietStep, TodoStep
    <3>6. QED BY <3>4, <3>5
  <2>13. CASE CreateServiceLog
    <3>1. setting' = setting
      BY <2>13 DEF CreateServiceLog
    <3>2. CASE UNCHANGED logVars /\ (Applied \/ Thrown)
      BY <3>1, <3>2, <1>1, <2>1, <2>2, QuietStep, TodoStep
    <3>3. CASE /\ ~ServiceLogInUse /\ Applied
               /\ sinks' = Append(sinks, Sink("service", setting.service, setting.path))
               /\ logger' = Lower(logger, setting.service)
      <4>1. /\ Sink("service", setting.service, setting.path) \in SinkType
            /\ Sink("service", setting.service, setting.path).level = setting.service
        BY <1>1 DEF Sink, SinkType, Settings
      <4>2. sinks \in Seq(SinkType) /\ Len(sinks) < 3 /\ logger \in Nat
        BY <2>2, <3>3 DEF TypeOK, ServiceLogInUse
      <4>3. /\ sinks' \in Seq(SinkType) /\ Len(sinks') = Len(sinks) + 1
            /\ \A j \in 1..Len(sinks) : sinks'[j] = sinks[j]
            /\ sinks'[Len(sinks) + 1].level = setting.service
        BY <3>3, <4>1, <4>2
      <4>4. /\ logger' \in Nat /\ logger' <= logger /\ logger' <= setting.service
        BY <3>3, <4>2, <1>1, LowerIsNat DEF Settings
      <4>5. \A j \in 1..Len(sinks) : logger <= sinks[j].level /\ sinks[j].level \in Nat
        <5>1. \A j \in 1..Len(sinks) : sinks[j] \in SinkType /\ j \in DOMAIN sinks
          BY <4>2
        <5>2. QED BY <5>1 DEF IInv, LoggerPassesAll, SinkType
      <4>6. \A j \in 1..Len(sinks) : logger' <= sinks'[j].level
        BY <4>2, <4>3, <4>4, <4>5
      <4>7. LoggerPassesAll'
        BY <4>2, <4>3, <4>4, <4>6 DEF LoggerPassesAll
      <4>8. TypeOK'
        <5>1. todo' \subseteq DOMAIN Keys /\ up' \in BOOLEAN /\ up'
          BY <2>1, <2>2, <3>3, TodoStep
        <5>2. setting' \in Settings /\ Len(sinks') \in 1..3
          BY <3>1, <1>1, <4>2, <4>3
        <5>3. QED BY <5>1, <5>2, <4>3, <4>4 DEF TypeOK
      <4>9. QED BY <3>1, <4>7, <4>8, <2>2 DEF IInv, PeriodsOrdered
    <3>4. QED BY <2>13, <3>2, <3>3 DEF CreateServiceLog
  <2>14. QED BY <1>5, <2>3, <2>4, <2>5, <2>6, <2>7, <2>8, <2>10, <2>11, <2>12, <2>13 DEF SetMember
<1>6. CASE UNCHANGED vars
  BY <1>6 DEF vars, logVars, IInv, TypeOK, LoggerPassesAll, PeriodsOrdered
<1>7. QED BY <1>2, <1>3, <1>4, <1>5, <1>6 DEF Next

-----------------------------------------------------------------------------
THEOREM Invariance == Spec => []IInv
  BY Initially, Preserved, PTL DEF Spec

\* The retry periods stay in their order for all configurations and set() calls.
THEOREM PeriodsStayOrdered == Spec => []PeriodsOrdered
<1>1. IInv => PeriodsOrdered
  BY DEF IInv
<1>2. QED BY <1>1, Invariance, PTL

\* No message a sink is to log is held back, whatever the verbosities.
THEOREM LoggerPassesThrough == Spec => []LoggerPassesAll
<1>1. IInv => LoggerPassesAll
  BY DEF IInv
<1>2. QED BY <1>1, Invariance, PTL

\* A refused member leaves everything as it was, but for the timeout of 0.
THEOREM RefusedWithoutEffect == Spec => RefusedHasNoEffect
<1> DEFINE Effect ==
      todo # {} /\ result' = "refused" =>
        /\ UNCHANGED <<logVars, mailbox>>
        /\ \/ UNCHANGED setting
           \/ At({"ws_request_timeout"}) /\ setting' = [setting EXCEPT !.timeout = 0]
<1>1. [Next]_vars => [Effect]_vars
  <2> SUFFICES ASSUME [Next]_vars, todo # {}, result' = "refused", vars' # vars PROVE Effect
    OBVIOUS
  <2>1. ~Applied
    BY DEF Applied
  <2>2. ASSUME NEW first, NEW words, WriteMailbox(first, words)
        PROVE  UNCHANGED mailbox
    BY <2>1, <2>2 DEF WriteMailbox
  <2>3. CASE NewManager \/ EndManager \/ SetCall
    BY <2>3 DEF NewManager, EndManager, SetCall
  <2>4. CASE SetMember
    <3>1. CASE SetCustomField \/ SetMailboxData
      BY <3>1, <2>2 DEF SetCustomField, SetMailboxData
    <3>2. CASE SetTimeout
      BY <3>2, <2>1 DEF SetTimeout
    <3>3. CASE Refuse \/ SetLong \/ SetShort \/ CreateServiceLog
      BY <3>3, <2>1 DEF Refuse, SetLong, SetShort, CreateServiceLog, logVars
    <3>4. CASE SetConsoleLevel \/ SetFileLevel \/ SetServiceLevel \/ SetServicePath
      BY <3>4, <2>1 DEF SetConsoleLevel, SetFileLevel, SetServiceLevel, SetServicePath
    <3>5. QED BY <2>4, <3>1, <3>2, <3>3, <3>4 DEF SetMember
  <2>5. QED BY <2>3, <2>4 DEF Next
<1>2. QED BY <1>1, PTL DEF Spec, RefusedHasNoEffect

-----------------------------------------------------------------------------
(* What get() reports of the logs. A log file that was opened is the second  *)
(* sink, and then every sink is what the settings make of it, by its place.  *)

FileInPlace == Len(sinks) > 1 => sinks[2].log = "file"

SinksInv == up /\ FileInPlace => \A i \in 1..Len(sinks) : sinks[i] = LogSinks(setting, 3)[i]

\* The sink at each place.
LEMMA SinkAt ==
  ASSUME NEW s
  PROVE  /\ LogSinks(s, 3)[1] = Sink("console", s.console, 0)
         /\ LogSinks(s, 3)[2] = Sink("file", s.file, 0)
         /\ LogSinks(s, 3)[3] = Sink("service", s.service, s.path)
  BY DEF LogSinks

\* There are three places.
LEMMA PlacesAre ==
  ASSUME IInv
  PROVE  /\ Len(sinks) \in {0, 1, 2, 3} /\ DOMAIN sinks = 1..Len(sinks)
         /\ \A i \in 1..Len(sinks) : i = 1 \/ (i = 2 /\ Len(sinks) > 1) \/ (i = 3 /\ Len(sinks) > 2)
<1>1. sinks \in Seq(SinkType) /\ Len(sinks) \in 0..3
  BY DEF IInv, TypeOK
<1>2. DOMAIN sinks = 1..Len(sinks)
  BY <1>1
<1>3. PICK n \in 0..3 : n = Len(sinks)
  BY <1>1
<1>4. n \in {0, 1, 2, 3} /\ \A i \in 1..n : i = 1 \/ (i = 2 /\ n > 1) \/ (i = 3 /\ n > 2)
  OBVIOUS
<1>5. QED BY <1>2, <1>3, <1>4

\* The setting of a log that is changed leaves the others as they are.
LEMMA OtherLogs ==
  ASSUME NEW s \in Settings, NEW v
  PROVE  /\ [s EXCEPT !.console = v].file = s.file /\ [s EXCEPT !.console = v].service = s.service
         /\ [s EXCEPT !.console = v].path = s.path /\ [s EXCEPT !.console = v].console = v
         /\ [s EXCEPT !.file = v].console = s.console /\ [s EXCEPT !.file = v].service = s.service
         /\ [s EXCEPT !.file = v].path = s.path /\ [s EXCEPT !.file = v].file = v
         /\ [s EXCEPT !.service = v].console = s.console /\ [s EXCEPT !.service = v].file = s.file
         /\ [s EXCEPT !.service = v].path = s.path /\ [s EXCEPT !.service = v].service = v
         /\ [s EXCEPT !.path = v].console = s.console /\ [s EXCEPT !.path = v].file = s.file
         /\ [s EXCEPT !.path = v].service = s.service
  BY DEF Settings

\* The sinks stay, and so do the settings of those there are.
LEMMA SinksStay ==
  ASSUME IInv, SinksInv, sinks' = sinks, up' => up,
         setting'.console = setting.console,
         Len(sinks) > 1 => setting'.file = setting.file,
         Len(sinks) > 2 => setting'.service = setting.service /\ setting'.path = setting.path
  PROVE  SinksInv'
<1>2. SUFFICES ASSUME up, FileInPlace, NEW i \in 1..Len(sinks)
               PROVE  sinks[i] = LogSinks(setting', 3)[i]
  BY DEF SinksInv, FileInPlace
<1>3. sinks[i] = LogSinks(setting, 3)[i]
  BY <1>2 DEF SinksInv
<1>4. i = 1 \/ (i = 2 /\ Len(sinks) > 1) \/ (i = 3 /\ Len(sinks) > 2)
  BY <1>2, PlacesAre
<1>5. QED BY <1>3, <1>4, SinkAt

\* A sink and its setting take a level.
LEMMA SinkFollows ==
  ASSUME IInv, SinksInv, up, NEW k \in 1..Len(sinks), NEW l, SinkLevel(k, l),
         \A i \in 1..Len(sinks) :
           i # k => LogSinks(setting', 3)[i] = LogSinks(setting, 3)[i],
         LogSinks(setting', 3)[k] = [LogSinks(setting, 3)[k] EXCEPT !.level = l]
  PROVE  SinksInv'
<1>1. sinks \in Seq(SinkType) /\ sinks' = [sinks EXCEPT ![k].level = l]
  BY DEF IInv, TypeOK, SinkLevel
<1>2. /\ Len(sinks') = Len(sinks)
      /\ \A i \in 1..Len(sinks) :
           sinks'[i] = IF i = k THEN [sinks[i] EXCEPT !.level = l] ELSE sinks[i]
  BY <1>1
<1>3. \A i \in 1..Len(sinks) : sinks'[i].log = sinks[i].log
  <2>1. \A i \in 1..Len(sinks) : sinks[i] \in SinkType
    BY <1>1
  <2>2. QED BY <1>2, <2>1 DEF SinkType
<1>4. FileInPlace' => FileInPlace
  BY <1>1, <1>2, <1>3 DEF FileInPlace
<1>5. QED BY <1>2, <1>4 DEF SinksInv

THEOREM ReportPreserved == IInv /\ SinksInv /\ [Next]_vars => SinksInv'
<1> SUFFICES ASSUME IInv, SinksInv, [Next]_vars PROVE SinksInv'
  OBVIOUS
<1>1. setting \in Settings /\ sinks \in Seq(SinkType) /\ Len(sinks) \in 0..3
  BY DEF IInv, TypeOK
<1>2. CASE NewManager
  <2>1. PICK n \in 1..3 : sinks' = LogSinks(setting', n)
    BY <1>2 DEF NewManager
  <2>2. /\ Len(sinks') = n
        /\ \A i \in 1..n : sinks'[i] = LogSinks(setting', 3)[i]
    BY <2>1 DEF LogSinks
  <2>3. QED BY <2>2 DEF SinksInv
<1>3. CASE EndManager
  BY <1>3 DEF EndManager, SinksInv
<1>4. CASE SetCall
  BY <1>4, SinksStay DEF SetCall, logVars
<1>5. CASE SetMember
  <2>1. up
    BY <1>5 DEF SetMember, Refuse, SetLong, SetShort, SetTimeout, SetConsoleLevel, SetFileLevel,
      SetServiceLevel, SetServicePath, CreateServiceLog, SetCustomField, SetMailboxData, At,
      IInv, TypeOK
  <2>2. CASE Refuse \/ SetCustomField \/ SetMailboxData
    BY <2>1, <2>2, SinksStay DEF Refuse, SetCustomField, SetMailboxData, logVars
  <2>3. CASE SetLong \/ SetShort \/ SetTimeout
    <3>1. sinks' = sinks
      BY <2>3 DEF SetLong, SetShort, SetTimeout, logVars
    <3>2. /\ setting'.console = setting.console /\ setting'.file = setting.file
          /\ setting'.service = setting.service /\ setting'.path = setting.path
      <4>1. \/ setting' = setting
            \/ \E q \in Periods : \/ setting' = [setting EXCEPT !.long = q]
                                  \/ setting' = [setting EXCEPT !.short = q]
                                  \/ setting' = [setting EXCEPT !.timeout = q]
        BY <2>3 DEF SetLong, SetShort, SetTimeout
      <4>2. CASE setting' = setting
        BY <4>2
      <4>3. ASSUME NEW q \in Periods,
                   \/ setting' = [setting EXCEPT !.long = q]
                   \/ setting' = [setting EXCEPT !.short = q]
                   \/ setting' = [setting EXCEPT !.timeout = q]
            PROVE  /\ setting'.console = setting.console /\ setting'.file = setting.file
                   /\ setting'.service = setting.service /\ setting'.path = setting.path
        BY <4>3, <1>1 DEF Settings
      <4>4. QED BY <4>1, <4>2, <4>3
    <3>3. QED BY <2>1, <3>1, <3>2, SinksStay
  <2>4. CASE SetConsoleLevel
    <3>1. PICK l \in Levels : setting' = [setting EXCEPT !.console = l] /\ SinkLevel(1, l)
      BY <2>4 DEF SetConsoleLevel
    <3>2. 1 \in 1..Len(sinks)
      BY <2>1, <1>1 DEF IInv, TypeOK
    <3>3. /\ setting'.file = setting.file /\ setting'.service = setting.service
          /\ setting'.path = setting.path /\ setting'.console = l
      BY <1>1, <3>1, OtherLogs
    <3>4. LogSinks(setting', 3)[1] = [LogSinks(setting, 3)[1] EXCEPT !.level = l]
      <4>1. LogSinks(setting', 3)[1] = Sink("console", l, 0)
        BY <3>3, SinkAt
      <4>2. LogSinks(setting, 3)[1] = Sink("console", setting.console, 0)
        BY SinkAt
      <4>3. QED BY <4>1, <4>2 DEF Sink
    <3>5. \A i \in 1..Len(sinks) : i # 1 => LogSinks(setting', 3)[i] = LogSinks(setting, 3)[i]
      BY PlacesAre, <3>3, SinkAt
    <3>6. QED BY <2>1, <3>1, <3>2, <3>4, <3>5, SinkFollows
  <2>5. CASE SetFileLevel
    <3>1. PICK l \in Levels :
            /\ setting' = [setting EXCEPT !.file = l]
            /\ IF Len(sinks) > 1 THEN SinkLevel(2, l) ELSE UNCHANGED logVars
      BY <2>5 DEF SetFileLevel
    <3>2. /\ setting'.console = setting.console /\ setting'.service = setting.service
          /\ setting'.path = setting.path /\ setting'.file = l
      BY <1>1, <3>1, OtherLogs
    <3>3. CASE Len(sinks) > 1
      <4>1. 2 \in 1..Len(sinks)
        BY <3>3, <1>1
      <4>2. LogSinks(setting', 3)[2] = [LogSinks(setting, 3)[2] EXCEPT !.level = l]
        <5>1. LogSinks(setting', 3)[2] = Sink("file", l, 0)
          BY <3>2, SinkAt
        <5>2. LogSinks(setting, 3)[2] = Sink("file", setting.file, 0)
          BY SinkAt
        <5>3. QED BY <5>1, <5>2 DEF Sink
      <4>3. \A i \in 1..Len(sinks) : i # 2 => LogSinks(setting', 3)[i] = LogSinks(setting, 3)[i]
        BY PlacesAre, <3>2, SinkAt
      <4>4. QED BY <2>1, <3>1, <3>3, <4>1, <4>2, <4>3, SinkFollows
    <3>4. CASE ~(Len(sinks) > 1)
      <4>1. ~(Len(sinks) > 2)
        BY <3>4, <1>1
      <4>2. QED BY <2>1, <3>1, <3>2, <3>4, <4>1, SinksStay DEF logVars
    <3>5. QED BY <3>3, <3>4
  <2>6. CASE SetServiceLevel
    <3>1. PICK l \in Levels :
            /\ setting' = [setting EXCEPT !.service = l]
            /\ IF ServiceLogInUse THEN SinkLevel(3, l) ELSE UNCHANGED logVars
      BY <2>6 DEF SetServiceLevel
    <3>2. /\ setting'.console = setting.console /\ setting'.file = setting.file
          /\ setting'.path = setting.path /\ setting'.service = l
      BY <1>1, <3>1, OtherLogs
    <3>3. CASE ServiceLogInUse
      <4>1. 3 \in 1..Len(sinks)
        BY <3>3 DEF ServiceLogInUse
      <4>2. LogSinks(setting', 3)[3] = [LogSinks(setting, 3)[3] EXCEPT !.level = l]
        <5>1. LogSinks(setting', 3)[3] = Sink("service", l, setting.path)
          BY <3>2, SinkAt
        <5>2. LogSinks(setting, 3)[3] = Sink("service", setting.service, setting.path)
          BY SinkAt
        <5>3. QED BY <5>1, <5>2 DEF Sink
      <4>3. \A i \in 1..Len(sinks) : i # 3 => LogSinks(setting', 3)[i] = LogSinks(setting, 3)[i]
        BY PlacesAre, <3>2, SinkAt
      <4>4. QED BY <2>1, <3>1, <3>3, <4>1, <4>2, <4>3, SinkFollows
    <3>4. CASE ~ServiceLogInUse
      <4>1. ~(Len(sinks) > 2)
        BY <3>4, PlacesAre DEF ServiceLogInUse
      <4>2. QED BY <2>1, <3>1, <3>2, <3>4, <4>1, SinksStay DEF logVars
    <3>5. QED BY <3>3, <3>4
  <2>7. CASE SetServicePath
    <3>1. PICK q \in Paths :
            setting' = IF ServiceLogInUse THEN setting ELSE [setting EXCEPT !.path = q]
      BY <2>7 DEF SetServicePath
    <3>2. ~ServiceLogInUse => ~(Len(sinks) > 2)
      BY PlacesAre DEF ServiceLogInUse
    <3>3. sinks' = sinks
      BY <2>7 DEF SetServicePath, logVars
    <3>4. QED BY <1>1, <2>1, <3>1, <3>2, <3>3, OtherLogs, SinksStay
  <2>8. CASE CreateServiceLog
    <3>1. setting' = setting
      BY <2>8 DEF CreateServiceLog
    <3>2. CASE UNCHANGED logVars
      BY <2>1, <3>1, <3>2, SinksStay DEF logVars
    <3>3. CASE /\ ~ServiceLogInUse
               /\ sinks' = Append(sinks, Sink("service", setting.service, setting.path))
      <4>1. Sink("service", setting.service, setting.path) \in SinkType
        BY <1>1 DEF Sink, SinkType, Settings
      <4>2. Len(sinks) \in 1..2
        BY <1>1, <2>1, <3>3 DEF IInv, TypeOK, ServiceLogInUse
      <4>3. /\ Len(sinks') = Len(sinks) + 1
            /\ \A j \in 1..Len(sinks) : sinks'[j] = sinks[j]
            /\ sinks'[Len(sinks) + 1] = Sink("service", setting.service, setting.path)
        BY <1>1, <3>3, <4>1
      <4>4. CASE Len(sinks) = 1
        BY <4>3, <4>4 DEF SinksInv, FileInPlace, Sink
      <4>5. CASE Len(sinks) = 2
        <5>1. FileInPlace' => FileInPlace
          BY <4>3, <4>5 DEF FileInPlace
        <5>2. \A j \in 1..Len(sinks') : j \in 1..Len(sinks) \/ j = 3
          BY <4>3, <4>5
        <5>3. QED BY <2>1, <3>1, <4>3, <4>5, <5>1, <5>2, SinkAt DEF SinksInv
      <4>6. QED BY <4>2, <4>4, <4>5
    <3>4. QED BY <2>8, <3>2, <3>3 DEF CreateServiceLog
  <2>9. QED BY <1>5, <2>2, <2>3, <2>4, <2>5, <2>6, <2>7, <2>8 DEF SetMember
<1>6. CASE UNCHANGED vars
  BY <1>6, SinksStay DEF vars, logVars
<1>7. QED BY <1>2, <1>3, <1>4, <1>5, <1>6 DEF Next

\* What get() says of a log is what its sink does, whatever set() was given.
THEOREM LogsAreAsReported == Spec => []LogIsAsReported
<1>1. Init => SinksInv
  BY DEF Init, SinksInv
<1>2. IInv /\ SinksInv => LogIsAsReported
  <2> SUFFICES ASSUME IInv, SinksInv, up, FileInPlace, NEW i \in DOMAIN sinks
               PROVE  sinks[i] = Reported(sinks[i].log)
    BY DEF LogIsAsReported, FileInPlace
  <2>1. i \in 1..Len(sinks) /\ (i = 1 \/ i = 2 \/ i = 3)
    BY PlacesAre
  <2>2. sinks[i] = LogSinks(setting, 3)[i]
    BY <2>1 DEF SinksInv
  <2>3. \/ sinks[i] = Sink("console", setting.console, 0)
        \/ sinks[i] = Sink("file", setting.file, 0)
        \/ sinks[i] = Sink("service", setting.service, setting.path)
    BY <2>1, <2>2, SinkAt
  <2>4. QED BY <2>3 DEF Reported, Sink
<1>3. QED BY <1>1, <1>2, Invariance, ReportPreserved, PTL DEF Spec
=============================================================================
