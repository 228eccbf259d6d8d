----------------------------- MODULE DrmRegisters -----------------------------
(***************************************************************************)
(* DrmControllerRegisters with its five strategies: the constructor that    *)
(* picks the one of the controller at hand, the detection of the heart beat *)
(* mode by DrmControllerOperations, the check of the HDK version by the     *)
(* manager, and then any accesses, one after the other.                     *)
(***************************************************************************)
EXTENDS RegisterAccess, Functions

CONSTANTS NumberOfIps, LicenseFileSize, ReadOnlyWords, ReadWriteWords

VARIABLES
  hw,        \* the controller: its version, and whether it is in heart beat mode
  up,        \* its status bits that change while it starts
  phase,     \* "versions", "detect", "hdk", then "open" or "refused"
  untried,   \* the strategies whose version register is still to be read
  strategy,  \* the selected one, or "none"
  step,      \* where the detection is
  seen,      \* the field of the status word it read last
  auto,      \* autoEnabled of the detection
  heartBeat, \* mHeartBeatModeEnabled
  cut        \* a callback returned an error to the detection

startVars == <<hw, up, phase, untried, strategy, step, seen, auto, heartBeat, cut>>
V300 == INSTANCE Strategy_v3_0_0
V310 == INSTANCE Strategy_v3_1_0
V320 == INSTANCE Strategy_v3_2_0
V321 == INSTANCE Strategy_v3_2_1
V322 == INSTANCE Strategy_v3_2_2

Strategies ==
  [s \in {"3.0.0", "3.1.0", "3.2.0", "3.2.1", "3.2.2"} |->
     CASE s = "3.0.0" -> V300!Methods
       [] s = "3.1.0" -> V310!Methods
       [] s = "3.2.0" -> V320!Methods
       [] s = "3.2.1" -> V321!Methods
       [] OTHER       -> V322!Methods]

\* The order in which the dictionary of strategies is gone through.
Latest == <<"3.2.2", "3.2.1", "3.2.0", "3.1.0", "3.0.0">>

V(major, minor) == [major |-> major, minor |-> minor]
VersionOf(s) == V(3, CASE s = "3.0.0" -> 0 [] s = "3.1.0" -> 1 [] OTHER -> 2)

-----------------------------------------------------------------------------
(* The methods of DrmControllerRegisters call the ones of its strategy m.   *)

PageRegister(m)    == m.pages
CommandRegister(m) == m.commands
AddressAndTimer(m) == m.timer
StatusRegister(m)  == m.status
ErrorRegister(m)   == m.errors
DataRegisters(m)   == m.registers
Files(m)           == m.files
Mailbox(m)         == m.mailbox

\* The manager selects the page of the mailbox itself, and checks that it did,
\* before it reads the mailbox, or writes it after it has read it. It reads all of
\* it twice before a write, to change it and to compare: once here.
Checked(a) == [a EXCEPT !.selects = <<TRUE>> \o a.selects]

ManagerMailbox(mailbox) ==
  {Checked(mailbox.readMailboxFileSize), Checked(mailbox.readMailboxFile),
   [mailbox.writeMailboxFile EXCEPT !.selects = <<TRUE, FALSE, FALSE>>]}

\* The page is written blindly, and neither this nor the reads are checked. The
\* first of the 32 registers is the page register itself.
DrmPageLines == 31
GetDrmPage(p) ==
  [page |-> p, selects |-> <<FALSE>>, blind |-> TRUE,
   reads |-> Lines(0, DrmPageLines), writes |-> NoLines]

\* The accesses in the methods of a strategy.
AccessesIn(m) ==
  {r.bus : r \in Range(StatusRegister(m)) \cup Range(ErrorRegister(m))}
  \cup UNION {Range(PageRegister(m)), Range(CommandRegister(m)), Range(AddressAndTimer(m)),
             Range(DataRegisters(m)), Range(Files(m)), Range(Mailbox(m))}

\* All accesses with a strategy. Among them is the one of getDesignInfo, which
\* reads the mailbox with the method of the strategy alone.
AccessesWith(m) ==
  (AccessesIn(m) \ {Unsupported}) \cup {GetDrmPage(p) : p \in 0..5}
  \cup (IF Unsupported \in Range(Mailbox(m)) THEN {} ELSE ManagerMailbox(Mailbox(m)))

AccessesOf == [s \in DOMAIN Strategies |-> AccessesWith(Strategies[s])]

AllPages == 0..5
AllAccesses == UNION Range(AccessesOf)

\* The accesses run by RegisterAccess are these.
ASSUME TablesAssumption == Accesses = AllAccesses /\ Pages = AllPages

\* A license file has a header and a license of one IP at least: a shorter one is
\* refused before the bus is touched.
ASSUME SizesAssumption ==
  /\ {NumberOfIps, LicenseFileSize, ReadOnlyWords, ReadWriteWords} \subseteq Nat
  /\ V320!LicenseFits

vars == <<accessVars, startVars>>

-----------------------------------------------------------------------------
(* The controller.                                                         *)

Hardware == {V(3, 0), V(3, 1), V(3, 2), V(3, 3)}

\* The strategy with the registers of a controller, "none" for unknown ones.
Home(v) ==
  CASE v = V(3, 0) -> "3.0.0" [] v = V(3, 1) -> "3.1.0" [] v = V(3, 2) -> "3.2.0"
    [] OTHER -> "none"

\* The version register is at the same line since 3.1.0. At that line a
\* controller 3.0.0 has a log word, of IPs it would need more than 32 of; where
\* a 3.0.0 has the version, later ones have a word of the license timer counter.
WordShown(s) == IF (s = "3.0.0") = (hw.version = V(3, 0)) THEN hw.version ELSE hw.foreign

\* The bits a controller shows a field of the status word at: from its LSB to its
\* MSB, by the table of positions. The masks have no part in it.
StatusBits(s, f) ==
  IF s = "3.0.0" THEN V300!StatusLsb[f]..V300!StatusMsb[f]
                 ELSE V322!StatusLsb[f]..V322!StatusMsb[f]

StatusWord ==
  UNION {StatusBits("3.2.2", f) :
           f \in up \cup (IF hw.autoEnabled THEN {"autoEnabled"} ELSE {})
                 \cup (IF hw.heartBeat /\ hw.version # V(3, 0)
                       THEN {"heartBeatModeEnabled"} ELSE {})}

\* The autonomous controller activates by itself. It stays busy in heart beat
\* mode, which is how a controller 3.0.0 tells.
HwActivated ==
  /\ phase \in {"versions", "detect"}
  /\ hw.autoEnabled /\ "activationDone" \notin up
  /\ up' = {"activationDone"} \cup (IF hw.heartBeat THEN {"autoBusy"} ELSE {})
  /\ UNCHANGED <<accessVars, hw, phase, untried, strategy, step, seen, auto, heartBeat, cut>>

-----------------------------------------------------------------------------
(* The selection of the strategy: DrmControllerRegisters.                   *)

Init ==
  /\ access = DataRegisters(Strategies[Latest[1]]).drmVersion
  /\ AccessInit
  /\ hw \in [version : Hardware, foreign : {V(3, 0), V(0, 0)},
             autoEnabled : BOOLEAN, heartBeat : BOOLEAN]
  /\ hw.version = V(3, 0) => hw.foreign = V(0, 0)
  /\ hw.heartBeat => hw.autoEnabled
  /\ up = IF hw.autoEnabled THEN {"autoBusy"} ELSE {}
  /\ phase = "versions" /\ untried = Latest /\ strategy = "none"
  /\ step = "auto" /\ seen = {} /\ auto = FALSE /\ heartBeat = FALSE /\ cut = FALSE

Supported(s, v) == VersionOf(s) = v

ReadVersion ==
  /\ phase = "versions" /\ untried # <<>> /\ result = "none"
  /\ Begin(DataRegisters(Strategies[Head(untried)]).drmVersion)
  /\ UNCHANGED startVars

\* A strategy whose register could not be read is left out.
Tried ==
  /\ phase = "versions" /\ untried # <<>> /\ result # "none" /\ Forget
  /\ untried' = Tail(untried)
  /\ strategy' = IF /\ strategy = "none" /\ result = "ok"
                    /\ Supported(Head(untried), WordShown(Head(untried)))
                 THEN Head(untried) ELSE strategy
  /\ UNCHANGED <<hw, up, phase, step, seen, auto, heartBeat, cut>>

SelectStrategy ==
  /\ phase = "versions" /\ untried = <<>>
  /\ phase' = IF strategy = "none" THEN "refused" ELSE "detect"
  /\ UNCHANGED <<accessVars, hw, up, untried, strategy, step, seen, auto, heartBeat, cut>>

-----------------------------------------------------------------------------
(* waitAutonomousControllerDone.                                            *)

FieldAt ==
  CASE step = "auto"                         -> "autoEnabled"
    [] step = "mode"                         -> "heartBeatModeEnabled"
    [] step \in {"wait done", "wait done 3.0.0"} -> "activationDone"
    [] OTHER                                 -> "autoBusy"

FieldRead == StatusRegister(Strategies[strategy])[FieldAt]

\* The bit is up.
Is == seen = {0}

DetectionVars == <<hw, up, untried, strategy>>

\* Mutant: the register is read also by a strategy that does not support it.
ReadStatusAnyway ==
  /\ phase = "detect" /\ result = "none" /\ Begin(FieldRead.bus)
  /\ UNCHANGED startVars

ReadStatus ==
  /\ phase = "detect" /\ result = "none"
  /\ \E a \in {FieldRead.bus} \ {Unsupported} : Begin(a)
  /\ UNCHANGED startVars

Finish  == phase' = "hdk" /\ step' = "auto"
Goto(s) == step' = s /\ UNCHANGED phase

\* The exception for an unsupported feature is caught.
ModeUnsupported ==
  /\ phase = "detect" /\ step = "mode" /\ result = "none" /\ pc = "idle"
  /\ FieldRead.bus = Unsupported
  /\ IF auto THEN Goto("wait done 3.0.0") ELSE Finish
  /\ UNCHANGED <<accessVars, DetectionVars, seen, auto, heartBeat, cut>>

Answered(s) == phase = "detect" /\ step = s /\ result = "ok" /\ Forget

AutoRead ==
  /\ Answered("auto")
  /\ auto' = Is /\ Goto("mode")
  /\ UNCHANGED <<DetectionVars, seen, heartBeat, cut>>

ModeRead ==
  /\ Answered("mode")
  /\ heartBeat' = Is
  /\ IF Is THEN Goto("wait done")
     ELSE IF auto THEN Goto("wait not busy") ELSE Finish
  /\ UNCHANGED <<DetectionVars, seen, auto, cut>>

\* Mutant: the busy bit is looked at before the activation is done.
WaitedNotAtAll ==
  /\ \/ Answered("wait done")       /\ IF Is THEN Finish ELSE Goto(step)
     \/ Answered("wait not busy")   /\ IF Is THEN Goto(step) ELSE Finish
     \/ Answered("wait done 3.0.0") /\ Goto("busy")
  /\ UNCHANGED <<DetectionVars, seen, auto, heartBeat, cut>>

\* The bit is not as expected: it is read again.
Waited ==
  /\ \/ Answered("wait done")       /\ IF Is THEN Finish ELSE Goto(step)
     \/ Answered("wait not busy")   /\ IF Is THEN Goto(step) ELSE Finish
     \/ Answered("wait done 3.0.0") /\ Goto(IF Is THEN "busy" ELSE step)
  /\ UNCHANGED <<DetectionVars, seen, auto, heartBeat, cut>>

BusyRead ==
  /\ Answered("busy")
  /\ heartBeat' = Is /\ Finish
  /\ UNCHANGED <<DetectionVars, seen, auto, cut>>

\* DrmControllerTimeOutException leaves the constructor.
DetectionTimeOut ==
  /\ phase = "detect" /\ result = "ok"
  /\ step \in {"wait done", "wait not busy", "wait done 3.0.0"}
  /\ phase' = "refused" /\ Forget
  /\ UNCHANGED <<DetectionVars, step, seen, auto, heartBeat, cut>>

\* The constructor does not look at the error of the detection.
DetectionCut ==
  /\ phase = "detect" /\ result = "error" /\ Forget
  /\ cut' = TRUE /\ Finish
  /\ UNCHANGED <<DetectionVars, seen, auto, heartBeat>>

-----------------------------------------------------------------------------
(* checkHdkCompatibility of the manager, by the strategy that was selected. *)

HdkLimit == V(3, 1)

ReadHdkVersion ==
  /\ phase = "hdk" /\ result = "none"
  /\ Begin(DataRegisters(Strategies[strategy]).drmVersion)
  /\ UNCHANGED startVars

\* Mutant: a controller of the right major version is compatible.
CompatibleMajor(v) == v.major >= HdkLimit.major

Compatible(v) == v.major >= HdkLimit.major /\ v.minor >= HdkLimit.minor

CheckHdk ==
  /\ phase = "hdk" /\ result # "none" /\ Forget
  /\ phase' = IF result = "ok" /\ Compatible(WordShown(strategy)) THEN "open" ELSE "refused"
  /\ seen' = {} /\ auto' = FALSE
  /\ UNCHANGED <<DetectionVars, step, heartBeat, cut>>

-----------------------------------------------------------------------------
(* The accesses, once the manager has its controller.                       *)

Access ==
  /\ phase = "open"
  /\ \E a \in AccessesOf[strategy] : Begin(a)
  /\ UNCHANGED startVars

\* The word a line of the status register holds is the one at the time it is read.
Step ==
  /\ BusStep
  /\ seen' = IF phase = "detect" /\ bus' # bus
             THEN StatusValue(FieldRead.field, StatusWord) ELSE seen
  /\ UNCHANGED <<hw, up, phase, untried, strategy, step, auto, heartBeat, cut>>

Next ==
  \/ ReadVersion \/ Tried \/ SelectStrategy
  \/ ReadStatus \/ ModeUnsupported \/ AutoRead \/ ModeRead \/ Waited \/ BusyRead
  \/ DetectionTimeOut \/ DetectionCut
  \/ ReadHdkVersion \/ CheckHdk \/ Access \/ Step \/ HwActivated

Spec == Init /\ [][Next]_vars

-----------------------------------------------------------------------------
TypeOK ==
  /\ AccessTypeOK
  /\ phase \in {"versions", "detect", "hdk", "open", "refused"}
  /\ strategy \in DOMAIN Strategies \cup {"none"}
  /\ step \in {"auto", "mode", "wait done", "wait not busy", "wait done 3.0.0", "busy"}
  /\ seen \subseteq WordBits
  /\ up \subseteq {"autoBusy", "activationDone"}
  /\ {auto, heartBeat, cut} \subseteq BOOLEAN

\* A controller the manager accepts is accessed with its own registers, all of
\* which it has: a strategy that took a foreign word for a version is refused.
AcceptedFits ==
  phase = "open" =>
    /\ Home(hw.version) # "none"
    /\ Strategies[strategy] = Strategies[Home(hw.version)]
    /\ Unsupported \notin AccessesIn(Strategies[strategy])

\* The library takes a controller to be in heart beat mode only when it is, and
\* knows that it is unless a callback failed while it looked.
HeartBeatKnown ==
  phase \in {"hdk", "open"} /\ Home(hw.version) = Home(VersionOf(strategy)) =>
    /\ heartBeat => hw.heartBeat
    /\ heartBeat \/ cut \/ ~hw.heartBeat

\* The strategies whose fields are the ones of the controller s is made for:
\* no bit of another field gets in, and the number is counted from its LSB.
Decodes(s, m) ==
  /\ \A f \in DOMAIN StatusRegister(m) : \A b \in WordBits :
       LET own == StatusBits(s, f)
           lsb == CHOOSE l \in own : \A c \in own : l <= c
       IN  StatusRegister(m)[f] # UnsupportedStatus =>
             StatusValue(StatusRegister(m)[f].field, {b})
               = IF b \in own THEN {b - lsb} ELSE {}
  /\ \A code \in Range(m.codes) : \A others \in {{}, 8..31} :
       ErrorValue(ErrorRegister(m).activation.field, code \cup others) = code
  /\ \A part \in DOMAIN m.sizes : \A b \in WordBits :
       Bits(m.sizes[part].lsb, m.sizes[part].mask, {b})
         = IF (b < 16) = (part = "readWriteWordNumber") THEN {b % 16} ELSE {}

RightDecoders == {s \in DOMAIN Strategies : Decodes(s, Strategies[s])}

\* The report cuts a metering file 3.2.x into its sections by position: each
\* lies in the file that is read, none takes a word of another, and what is left
\* for the IPs is one metering word for each of them.
SectionsFit ==
  LET sections == V322!MeteringSections
      words(s) == sections[s].from..sections[s].to
      header == V322!MeteringHeader
      apart(A, set(_)) == \A x, y \in A : x = y \/ set(x) \cap set(y) = {}
  IN  /\ \A s \in DOMAIN sections :
           /\ words(s) \subseteq 0..(V322!MeteringFileWords - 1)
           /\ \A t \in DOMAIN sections \ {s} : words(s) \cap words(t) = {}
      /\ Cardinality(words("ips")) = V320!WordsOf("metering") * NumberOfIps
      /\ \A w \in header.words : w.from \in words("header") /\ w.to \in words("header")
      /\ apart(header.words, LAMBDA w : w.from..w.to)
      /\ apart(header.flags, LAMBDA f : {b \in WordBits : Bits(f.lsb, f.mask, {b}) # {}})

\* The table of the positions and the table of the masks of the status word were
\* written apart, and agree: a field decoded with both is the field that a
\* controller shows at these positions. The error of an activation and the sizes
\* of the mailbox, decoded with a position and a mask of their own too, are what
\* they should be: bit by bit, and nothing else. The sections of a metering file
\* are cut at its words.
FieldIsOwn ==
  phase = "open" =>
    /\ strategy \in RightDecoders
    /\ VersionOf(strategy) = V(3, 2) => SectionsFit

-----------------------------------------------------------------------------
\* DrmControllerRegistersStrategy_v3_2_2.cpp: "Read the error register and get
\* the error code related to dna extraction."
ErrorCodeIsRead ==
  phase = "open" =>
    \A code \in Range(Strategies[strategy].codes) :
      ErrorValue(ErrorRegister(Strategies[strategy]).dnaExtract.field, {8 + b : b \in code})
        = code
=============================================================================
