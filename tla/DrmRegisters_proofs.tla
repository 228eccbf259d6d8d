-------------------------- MODULE DrmRegisters_proofs --------------------------
(***************************************************************************)
(* The controller registers as a whole, for all numbers of IPs, license     *)
(* files and mailboxes: all that is run on the bus are accesses of          *)
(* RegisterAccess, so that what is proved there holds here; the strategy    *)
(* that is open is the one of the controller; the heart beat mode is known; *)
(* the fields are decoded from their own bits.                              *)
(***************************************************************************)
EXTENDS DrmRegisters, RegisterAccess_proofs, FiniteSetTheorems

Names == {"3.0.0", "3.1.0", "3.2.0", "3.2.1", "3.2.2"}

LEMMA StrategyTable ==
  /\ DOMAIN Strategies = Names
  /\ Strategies["3.0.0"] = V300!Methods /\ Strategies["3.1.0"] = V310!Methods
  /\ Strategies["3.2.0"] = V320!Methods /\ Strategies["3.2.1"] = V321!Methods
  /\ Strategies["3.2.2"] = V322!Methods
  BY Zenon DEF Strategies, Names

\* The versions the strategies are for, and the controllers they belong to.
LEMMA VersionTable ==
  /\ VersionOf("3.0.0") = V(3, 0) /\ VersionOf("3.1.0") = V(3, 1)
  /\ VersionOf("3.2.0") = V(3, 2) /\ VersionOf("3.2.1") = V(3, 2) /\ VersionOf("3.2.2") = V(3, 2)
  BY DEF VersionOf

LEMMA HomeTable ==
  /\ Home(V(3, 0)) = "3.0.0" /\ Home(V(3, 1)) = "3.1.0" /\ Home(V(3, 2)) = "3.2.0"
  /\ Home(V(3, 3)) = "none"
  BY DEF Home, V

\* The classes 3.1.0, 3.2.1 and 3.2.2 have the tables of 3.2.0: definition by
\* definition, what their modules instantiate is what Strategy_v3_2_0 says.
LEMMA Copies ==
  /\ V310!V320!Methods = V320!Methods
  /\ V321!V320!Methods = V320!Methods
  /\ V322!V320!Methods = V320!Methods
<1> USE DEF
      V320!Methods, V320!WritePageRegister, V320!PageNumber, V320!Select, V320!Read,
      V320!NoLines, V320!Lines, V320!WriteCommandRegister, V320!CommandCode, V320!Write,
      V320!RegisterLines, V320!StartIndex, V320!FirstLines, V320!NumberOfWords,
      V320!RegisterOrder, V320!SizeOf, V320!LicenseAddressAndTimer, V320!StatusRegister,
      V320!ReadyStatus, V320!AutonomousStatus, V320!MeteringStatus, V320!TimerStatus,
      V320!SampleStatus, V320!SessionStatus, V320!LicenseTypeStatus, V320!CountStatus,
      V320!StatusRead, V320!Field, V320!StatusLsb, V320!StatusMask, V320!ErrorRegister,
      V320!ErrorPosition, V320!ErrorMask, V320!ErrorCodes, V320!ReadRegisters, V320!Both,
      V320!VlnvFile, V320!FileLines, V320!WordsOf, V320!WordSizeOf, V320!AdditionalWords,
      V320!LicenseFile, V320!LicenseFits, V320!LicenseFileMinimumWordNumber, V320!LicenseBlocks,
      V320!Unsupported, V320!TraceFile, V320!NumberOfTracesPerIp, V320!MeteringFile,
      V320!MeteringFileWords, V320!MailboxSize, V320!Unchecked, V320!ReadMailbox,
      V320!MailboxLines, V320!WriteMailbox, V320!MailboxLsb, V320!MailboxMask
<1>1. V310!V320!Methods = V320!Methods
  BY DEF
      V310!V320!Methods, V310!V320!WritePageRegister, V310!V320!PageNumber, V310!V320!Select,
      V310!V320!Read, V310!V320!NoLines, V310!V320!Lines, V310!V320!WriteCommandRegister,
      V310!V320!CommandCode, V310!V320!Write, V310!V320!RegisterLines, V310!V320!StartIndex,
      V310!V320!FirstLines, V310!V320!NumberOfWords, V310!V320!RegisterOrder, V310!V320!SizeOf,
      V310!V320!LicenseAddressAndTimer, V310!V320!StatusRegister, V310!V320!ReadyStatus,
      V310!V320!AutonomousStatus, V310!V320!MeteringStatus, V310!V320!TimerStatus,
      V310!V320!SampleStatus, V310!V320!SessionStatus, V310!V320!LicenseTypeStatus,
      V310!V320!CountStatus, V310!V320!StatusRead, V310!V320!Field, V310!V320!StatusLsb,
      V310!V320!StatusMask, V310!V320!ErrorRegister, V310!V320!ErrorPosition,
      V310!V320!ErrorMask, V310!V320!ErrorCodes, V310!V320!ReadRegisters, V310!V320!Both,
      V310!V320!VlnvFile, V310!V320!FileLines, V310!V320!WordsOf, V310!V320!WordSizeOf,
      V310!V320!AdditionalWords, V310!V320!LicenseFile, V310!V320!LicenseFits,
      V310!V320!LicenseFileMinimumWordNumber, V310!V320!LicenseBlocks, V310!V320!Unsupported,
      V310!V320!TraceFile, V310!V320!NumberOfTracesPerIp, V310!V320!MeteringFile,
      V310!V320!MeteringFileWords, V310!V320!MailboxSize, V310!V320!Unchecked,
      V310!V320!ReadMailbox, V310!V320!MailboxLines, V310!V320!WriteMailbox,
      V310!V320!MailboxLsb, V310!V320!MailboxMask
<1>2. V321!V320!Methods = V320!Methods
  BY DEF
      V321!V320!Methods, V321!V320!WritePageRegister, V321!V320!PageNumber, V321!V320!Select,
      V321!V320!Read, V321!V320!NoLines, V321!V320!Lines, V321!V320!WriteCommandRegister,
      V321!V320!CommandCode, V321!V320!Write, V321!V320!RegisterLines, V321!V320!StartIndex,
      V321!V320!FirstLines, V321!V320!NumberOfWords, V321!V320!RegisterOrder, V321!V320!SizeOf,
      V321!V320!LicenseAddressAndTimer, V321!V320!StatusRegister, V321!V320!ReadyStatus,
      V321!V320!AutonomousStatus, V321!V320!MeteringStatus, V321!V320!TimerStatus,
      V321!V320!SampleStatus, V321!V320!SessionStatus, V321!V320!LicenseTypeStatus,
      V321!V320!CountStatus, V321!V320!StatusRead, V321!V320!Field, V321!V320!StatusLsb,
      V321!V320!StatusMask, V321!V320!ErrorRegister, V321!V320!ErrorPosition,
      V321!V320!ErrorMask, V321!V320!ErrorCodes, V321!V320!ReadRegisters, V321!V320!Both,
      V321!V320!VlnvFile, V321!V320!FileLines, V321!V320!WordsOf, V321!V320!WordSizeOf,
      V321!V320!AdditionalWords, V321!V320!LicenseFile, V321!V320!LicenseFits,
      V321!V320!LicenseFileMinimumWordNumber, V321!V320!LicenseBlocks, V321!V320!Unsupported,
      V321!V320!TraceFile, V321!V320!NumberOfTracesPerIp, V321!V320!MeteringFile,
      V321!V320!MeteringFileWords, V321!V320!MailboxSize, V321!V320!Unchecked,
      V321!V320!ReadMailbox, V321!V320!MailboxLines, V321!V320!WriteMailbox,
      V321!V320!MailboxLsb, V321!V320!MailboxMask
<1>3. V322!V320!Methods = V320!Methods
  BY DEF
      V322!V320!Methods, V322!V320!WritePageRegister, V322!V320!PageNumber, V322!V320!Select,
      V322!V320!Read, V322!V320!NoLines, V322!V320!Lines, V322!V320!WriteCommandRegister,
      V322!V320!CommandCode, V322!V320!Write, V322!V320!RegisterLines, V322!V320!StartIndex,
      V322!V320!FirstLines, V322!V320!NumberOfWords, V322!V320!RegisterOrder, V322!V320!SizeOf,
      V322!V320!LicenseAddressAndTimer, V322!V320!StatusRegister, V322!V320!ReadyStatus,
      V322!V320!AutonomousStatus, V322!V320!MeteringStatus, V322!V320!TimerStatus,
      V322!V320!SampleStatus, V322!V320!SessionStatus, V322!V320!LicenseTypeStatus,
      V322!V320!CountStatus, V322!V320!StatusRead, V322!V320!Field, V322!V320!StatusLsb,
      V322!V320!StatusMask, V322!V320!ErrorRegister, V322!V320!ErrorPosition,
      V322!V320!ErrorMask, V322!V320!ErrorCodes, V322!V320!ReadRegisters, V322!V320!Both,
      V322!V320!VlnvFile, V322!V320!FileLines, V322!V320!WordsOf, V322!V320!WordSizeOf,
      V322!V320!AdditionalWords, V322!V320!LicenseFile, V322!V320!LicenseFits,
      V322!V320!LicenseFileMinimumWordNumber, V322!V320!LicenseBlocks, V322!V320!Unsupported,
      V322!V320!TraceFile, V322!V320!NumberOfTracesPerIp, V322!V320!MeteringFile,
      V322!V320!MeteringFileWords, V322!V320!MailboxSize, V322!V320!Unchecked,
      V322!V320!ReadMailbox, V322!V320!MailboxLines, V322!V320!WriteMailbox,
      V322!V320!MailboxLsb, V322!V320!MailboxMask
<1> HIDE DEF V320!Methods
<1>4. QED BY <1>1, <1>2, <1>3

LEMMA MethodsTable ==
  /\ Strategies["3.2.0"] = V320!Methods /\ Strategies["3.2.1"] = V320!Methods
  /\ Strategies["3.2.2"] = V320!Methods
  /\ Strategies["3.1.0"] = [V320!Methods EXCEPT !.files = V310!Methods.files]
  /\ Strategies["3.0.0"] = V300!Methods
<1>1. V310!Methods = [V320!Methods EXCEPT !.files = V310!Methods.files]
  <2>1. V320!Methods.files = V320!Methods.files /\ "files" \in DOMAIN V320!Methods
    BY DEF V320!Methods
  <2>2. QED BY <2>1, Copies DEF V310!Methods
<1>2. QED BY <1>1, StrategyTable, Copies DEF V321!Methods, V322!Methods

-----------------------------------------------------------------------------
(* The bits the detection reads.                                           *)

Detected == {"autoEnabled", "heartBeatModeEnabled", "activationDone", "autoBusy"}

BitOf == [autoEnabled |-> 3, heartBeatModeEnabled |-> 11, activationDone |-> 2, autoBusy |-> 4]

\* A read of one line of the status register, and a field of one bit.
OneBit(r, b) ==
  /\ r.field = Field(b, {b})
  /\ r.bus.reads.to = r.bus.reads.from + 1 - 1
  /\ r.bus.writes = NoLines /\ r.bus.selects = <<TRUE>> /\ r.bus # Unsupported

LEMMA ReadIs ==
  \A p, lines :
    /\ Read(p, lines).page = p /\ Read(p, lines).reads = lines
    /\ Read(p, lines).writes = NoLines /\ Read(p, lines).selects = <<TRUE>>
  BY DEF Read

LEMMA OneBitRead ==
  ASSUME NEW p, p # -1, NEW line, NEW b, NEW r, r = StatusRead(p, line, Field(b, {b}))
  PROVE  OneBit(r, b)
<1>1. r.bus = Read(p, Lines(line, 1)) /\ r.field = Field(b, {b})
  BY DEF StatusRead
<1>2. /\ r.bus.page = p /\ r.bus.reads = Lines(line, 1)
      /\ r.bus.writes = NoLines /\ r.bus.selects = <<TRUE>>
  <2>1. PICK lines, a : lines = Lines(line, 1) /\ a = r.bus
    OBVIOUS
  <2>2. a = Read(p, lines)
    BY <1>1, <2>1
  <2>3. /\ a.page = p /\ a.reads = lines
        /\ a.writes = NoLines /\ a.selects = <<TRUE>>
    BY <2>2, ReadIs
  <2>4. QED BY <2>1, <2>3
<1>3. r.bus.reads.from = line /\ r.bus.reads.to = line + 1 - 1
  BY <1>2 DEF Lines
<1>4. r.bus # Unsupported
  <2>1. Unsupported.page = -1
    BY DEF Unsupported, Select, Read
  <2>2. QED BY <1>2, <2>1
<1>5. QED BY <1>1, <1>2, <1>3, <1>4 DEF OneBit

LEMMA StatusTable320 ==
  ASSUME NEW f \in Detected
  PROVE  f \in DOMAIN V320!StatusRegister /\ OneBit(V320!StatusRegister[f], BitOf[f])
<1>1. /\ V320!StatusMask["autoEnabled"] = {3} /\ V320!StatusMask["heartBeatModeEnabled"] = {11}
      /\ V320!StatusMask["activationDone"] = {2} /\ V320!StatusMask["autoBusy"] = {4}
  BY DEF V320!StatusMask
<1>2. V320!StatusMask[f] = {BitOf[f]} /\ V320!StatusLsb[f] = BitOf[f]
  BY <1>1 DEF Detected, BitOf, V320!StatusLsb
<1>3. /\ f \in DOMAIN V320!StatusRegister
      /\ V320!StatusRegister[f]
           = V320!StatusRead(0, V320!StartIndex.status, V320!Field(BitOf[f], {BitOf[f]}))
  BY <1>2 DEF Detected, V320!StatusRegister, V320!ReadyStatus, V320!AutonomousStatus,
    V320!TimerStatus, V320!PageNumber
<1>4. V320!StatusRegister[f] = StatusRead(0, V320!StartIndex.status, Field(BitOf[f], {BitOf[f]}))
  BY <1>3 DEF V320!StatusRead, V320!Field, V320!Read, V320!Lines, V320!NoLines,
    StatusRead, Field, Read, Lines, NoLines
<1>5. PICK p : p = 0
  OBVIOUS
<1>6. V320!StatusRegister[f] = StatusRead(p, V320!StartIndex.status, Field(BitOf[f], {BitOf[f]}))
  BY <1>4, <1>5
<1>7. p # -1
  BY <1>5
<1>8. QED BY <1>3, <1>6, <1>7, OneBitRead

LEMMA StatusTable300 ==
  ASSUME NEW f \in Detected
  PROVE  /\ f \in DOMAIN V300!StatusRegister
         /\ IF f = "heartBeatModeEnabled"
            THEN V300!StatusRegister[f] = UnsupportedStatus
            ELSE OneBit(V300!StatusRegister[f], BitOf[f])
<1>1. /\ DOMAIN V300!StatusLsb \cap Detected = Detected \ {"heartBeatModeEnabled"}
      /\ V300!StatusLsb["autoEnabled"] = 3 /\ V300!StatusMask["autoEnabled"] = {3}
      /\ V300!StatusLsb["activationDone"] = 2 /\ V300!StatusMask["activationDone"] = {2}
      /\ V300!StatusLsb["autoBusy"] = 4 /\ V300!StatusMask["autoBusy"] = {4}
  BY DEF V300!StatusLsb, V300!StatusMask, Detected
<1>2. f \in DOMAIN V300!StatusRegister
  BY DEF Detected, V300!StatusRegister, V300!ReadyStatus, V300!AutonomousStatus, V300!TimerStatus
<1>3. CASE f = "heartBeatModeEnabled"
  <2>1. f \notin DOMAIN V300!StatusLsb
    BY <1>1, <1>3
  <2>2. V300!StatusRegister[f] = V300!UnsupportedStatus
    BY <1>2, <2>1 DEF V300!StatusRegister
  <2>3. V300!UnsupportedStatus = UnsupportedStatus
    BY DEF V300!UnsupportedStatus, V300!Unsupported, V300!Field, V300!Select, V300!Read,
      V300!NoLines, V300!Lines, UnsupportedStatus, Unsupported, Field, Select, Read, NoLines, Lines
  <2>4. QED BY <1>2, <1>3, <2>2, <2>3
<1>4. CASE f # "heartBeatModeEnabled"
  <2>1. f \in DOMAIN V300!StatusLsb
    BY <1>1, <1>4 DEF Detected
  <2>2. V300!StatusMask[f] = {BitOf[f]} /\ V300!StatusLsb[f] = BitOf[f]
    BY <1>1, <1>4 DEF Detected, BitOf
  <2>3. V300!PageNumber.registers = 0
    BY DEF V300!PageNumber
  <2>4. V300!StatusRegister[f]
          = V300!StatusRead(0, V300!StartIndex.status, V300!Field(BitOf[f], {BitOf[f]}))
    BY <1>2, <2>1, <2>2, <2>3 DEF V300!StatusRegister
  <2>5. V300!StatusRegister[f] = StatusRead(0, V300!StartIndex.status, Field(BitOf[f], {BitOf[f]}))
    BY <2>4 DEF V300!StatusRead, V300!Field, V300!Read, V300!Lines, V300!NoLines,
      StatusRead, Field, Read, Lines, NoLines
  <2>6. PICK p : p = 0
    OBVIOUS
  <2>7. V300!StatusRegister[f] = StatusRead(p, V300!StartIndex.status, Field(BitOf[f], {BitOf[f]}))
    BY <2>5, <2>6
  <2>8. p # -1
    BY <2>6
  <2>9. QED BY <1>2, <1>4, <2>7, <2>8, OneBitRead
<1>5. QED BY <1>3, <1>4

\* What the detection reads with each strategy.
LEMMA StatusTable ==
  ASSUME NEW s \in Names, NEW f \in Detected
  PROVE  LET status == StatusRegister(Strategies[s])
         IN  /\ f \in DOMAIN status
             /\ IF s = "3.0.0" /\ f = "heartBeatModeEnabled"
                THEN status[f] = UnsupportedStatus
                ELSE OneBit(status[f], BitOf[f])
<1>1. V300!Methods.status = V300!StatusRegister
  BY DEF V300!Methods
<1>2. V320!Methods.status = V320!StatusRegister
  BY DEF V320!Methods
<1>3. CASE s = "3.0.0"
  BY <1>1, <1>3, StatusTable300, MethodsTable DEF StatusRegister
<1>4. CASE s # "3.0.0"
  <2>1. [V320!Methods EXCEPT !.files = V310!Methods.files].status = V320!Methods.status
    BY DEF V320!Methods
  <2>2. Strategies[s].status = V320!StatusRegister
    BY <1>2, <1>4, <2>1, MethodsTable DEF Names
  <2>3. QED BY <1>4, <2>2, StatusTable320 DEF StatusRegister
<1>5. QED BY <1>3, <1>4

\* A field of one bit is 1 when the bit is up in the word, else 0.
LEMMA ValueOfOne ==
  ASSUME NEW b \in Int, NEW word
  PROVE  StatusValue(Field(b, {b}), word) = IF b \in word THEN {0} ELSE {}
<1>1. Bits(b, {b}, word) = IF b \in word THEN {0} ELSE {}
  <2>1. {c \in word \cap {b} : c >= b} = IF b \in word THEN {b} ELSE {}
    OBVIOUS
  <2>2. b - b = 0
    OBVIOUS
  <2>3. CASE b \in word
    BY <2>1, <2>2, <2>3 DEF Bits
  <2>4. CASE b \notin word
    BY <2>1, <2>4 DEF Bits
  <2>5. QED BY <2>3, <2>4
<1>2. Field(b, {b}).lsb = b /\ Field(b, {b}).mask = {b}
  BY DEF Field
<1>3. QED BY <1>1, <1>2 DEF StatusValue

LEMMA ValueOfNone == ASSUME NEW word PROVE StatusValue(UnsupportedStatus.field, word) = {}
  BY DEF StatusValue, UnsupportedStatus, Field, Bits

LEMMA BitOfInt == ASSUME NEW f \in Detected PROVE BitOf[f] \in Int
  BY DEF Detected, BitOf

\* The controller shows the four bits of the detection where they are looked for.
LEMMA WordOfController ==
  ASSUME up \subseteq {"autoBusy", "activationDone"}
  PROVE  /\ 3 \in StatusWord <=> hw.autoEnabled
         /\ 11 \in StatusWord <=> hw.heartBeat /\ hw.version # V(3, 0)
         /\ 2 \in StatusWord <=> "activationDone" \in up
         /\ 4 \in StatusWord <=> "autoBusy" \in up
<1>1. \A f \in Detected : V322!StatusLsb[f] = BitOf[f]
  BY DEF V322!StatusLsb, V322!V320!StatusLsb, Detected, BitOf
<1>2. \A f \in Detected : V322!StatusMsb[f] = BitOf[f]
  <2>1. V322!StatusMsb = [V322!StatusLsb EXCEPT !.licenseTimerLoadedNumber = 20,
                                                !.ipActivatorNumber = 31]
    BY DEF V322!StatusMsb, V322!V320!StatusMsb, V322!StatusLsb
  <2>2. Detected \subseteq DOMAIN V322!StatusLsb
    BY DEF V322!StatusLsb, V322!V320!StatusLsb, Detected
  <2>3. \A f \in Detected : f # "licenseTimerLoadedNumber" /\ f # "ipActivatorNumber"
    BY DEF Detected
  <2>4. QED BY <1>1, <2>1, <2>2, <2>3
<1>3. \A f \in Detected : StatusBits("3.2.2", f) = BitOf[f]..BitOf[f]
  BY <1>1, <1>2 DEF StatusBits
<1>4. \A f \in Detected : StatusBits("3.2.2", f) = {BitOf[f]}
  BY <1>3, BitOfInt
<1> DEFINE shown == up \cup (IF hw.autoEnabled THEN {"autoEnabled"} ELSE {})
                      \cup (IF hw.heartBeat /\ hw.version # V(3, 0)
                            THEN {"heartBeatModeEnabled"} ELSE {})
<1>5. shown \subseteq Detected
  BY DEF Detected
<1>6. StatusWord = {BitOf[f] : f \in shown}
  BY <1>4, <1>5 DEF StatusWord
<1>7. \A b : b \in StatusWord <=> \E f \in shown : BitOf[f] = b
  BY <1>6
<1>8. /\ 3 \in StatusWord <=> "autoEnabled" \in shown
      /\ 11 \in StatusWord <=> "heartBeatModeEnabled" \in shown
      /\ 2 \in StatusWord <=> "activationDone" \in shown
      /\ 4 \in StatusWord <=> "autoBusy" \in shown
  BY <1>5, <1>7 DEF BitOf, Detected
<1>9. QED BY <1>8

-----------------------------------------------------------------------------
(* The first lines of the registers: those of a recursive function, which a *)
(* witness shows to exist.                                                  *)

\* The first lines are what the recursion says, when there is such a function.
IsFirst(f, order, size) ==
  f = [i \in DOMAIN order |->
         IF i = 1 THEN 0 ELSE f[i - 1] + NumberOfWords(size[order[i - 1]])]

LineOf(f, order) ==
  [r \in {order[i] : i \in DOMAIN order} |-> f[CHOOSE i \in DOMAIN order : order[i] = r]]

LEMMA FirstLinesAre ==
  ASSUME NEW order, NEW size, NEW g, IsFirst(g, order, size)
  PROVE  \E f : IsFirst(f, order, size) /\ FirstLines(order, size) = LineOf(f, order)
<1> DEFINE first[i \in DOMAIN order] ==
             IF i = 1 THEN 0 ELSE first[i - 1] + NumberOfWords(size[order[i - 1]])
<1>1. first = CHOOSE f : IsFirst(f, order, size)
  BY DEF first, IsFirst
<1>2. FirstLines(order, size) = LineOf(first, order)
  BY Zenon DEF FirstLines, LineOf
<1> HIDE DEF first
<1>3. IsFirst(first, order, size)
  BY Zenon, <1>1
<1>4. QED BY Zenon, <1>2, <1>3

LEMMA WordsAreNat == \A n \in Nat : NumberOfWords(n) \in Nat
  BY DEF NumberOfWords

\* All first lines are lines, of ten registers at most.
LEMMA FirstAreLines ==
  ASSUME NEW order, NEW size, NEW f, IsFirst(f, order, size),
         NEW n \in 9..10, DOMAIN order = 1..n,
         \A i \in 1..(n - 1) : size[order[i]] \in Nat
  PROVE  \A i \in 1..n : f[i] \in Nat
<1> DEFINE w(i) == NumberOfWords(size[order[i]])
<1>1. \A i \in 1..n : f[i] = IF i = 1 THEN 0 ELSE f[i - 1] + w(i - 1)
  BY DEF IsFirst
<1>2. \A i \in 1..(n - 1) : w(i) \in Nat
  BY WordsAreNat
<1> HIDE DEF w
<1>3. f[1] \in Nat
  BY <1>1
<1>4. \A i \in 1..(n - 1) : f[i] \in Nat => f[i + 1] \in Nat
  <2>1. TAKE i \in 1..(n - 1)
  <2>2. i + 1 \in 1..n /\ i + 1 # 1 /\ (i + 1) - 1 = i
    OBVIOUS
  <2>3. f[i + 1] = f[i] + w(i)
    BY <1>1, <2>2
  <2>4. QED BY <1>2, <2>3
<1>5. f[2] \in Nat /\ f[3] \in Nat /\ f[4] \in Nat /\ f[5] \in Nat /\ f[6] \in Nat
  BY <1>3, <1>4
<1>6. f[7] \in Nat /\ f[8] \in Nat /\ f[9] \in Nat /\ (n = 10 => f[10] \in Nat)
  BY <1>4, <1>5
<1>7. \A i \in 1..n : i \in 1..9 \/ (i = 10 /\ n = 10)
  OBVIOUS
<1>8. \A i \in 1..9 : i = 1 \/ i = 2 \/ i = 3 \/ i = 4 \/ i = 5 \/ i = 6 \/ i = 7 \/ i = 8 \/ i = 9
  OBVIOUS
<1>9. SUFFICES ASSUME NEW i \in 1..n PROVE f[i] \in Nat
  OBVIOUS
<1>10. CASE i = 10 /\ n = 10
  BY <1>6, <1>10
<1>11. CASE i \in 1..9
  BY Zenon, <1>3, <1>5, <1>6, <1>8, <1>11
<1>12. QED BY <1>7, <1>10, <1>11

LEMMA LineOfNat ==
  ASSUME NEW order, NEW f, \A i \in DOMAIN order : f[i] \in Nat
  PROVE  \A i \in DOMAIN order : LineOf(f, order)[order[i]] \in Nat
<1>1. TAKE i \in DOMAIN order
<1> DEFINE j == CHOOSE k \in DOMAIN order : order[k] = order[i]
<1>2. j \in DOMAIN order
  OBVIOUS
<1>3. LineOf(f, order)[order[i]] = f[j]
  BY DEF LineOf
<1>4. QED BY <1>2, <1>3

LEMMA LinesAreNat ==
  ASSUME NEW order, NEW size, NEW g, IsFirst(g, order, size),
         NEW n \in 9..10, DOMAIN order = 1..n,
         \A i \in 1..(n - 1) : size[order[i]] \in Nat
  PROVE  \A i \in 1..n : FirstLines(order, size)[order[i]] \in Nat
<1>1. PICK f : IsFirst(f, order, size) /\ FirstLines(order, size) = LineOf(f, order)
  BY FirstLinesAre
<1>2. \A i \in DOMAIN order : f[i] \in Nat
  BY <1>1, FirstAreLines
<1>3. QED BY <1>1, <1>2, LineOfNat

LEMMA WordsOfSizes ==
  /\ NumberOfWords(7) = 1 /\ NumberOfWords(9) = 1 /\ NumberOfWords(24) = 1
  /\ NumberOfWords(32) = 1 /\ NumberOfWords(64) = 2 /\ NumberOfWords(128) = 4
  /\ NumberOfWords(384) = 12
  BY DEF NumberOfWords

LEMMA OrderIs320 ==
  LET order == V320!RegisterOrder
      size  == V320!SizeOf
  IN  /\ DOMAIN order = 1..10
      /\ size[order[1]] = 9   /\ size[order[2]] = 64  /\ size[order[3]] = 384
      /\ size[order[4]] = 32  /\ size[order[5]] = 32  /\ size[order[6]] = 128
      /\ size[order[7]] = 128 /\ size[order[8]] = 64  /\ size[order[9]] = 24
  BY DEF V320!RegisterOrder, V320!SizeOf

LEMMA OrderIs300 ==
  LET order == V300!RegisterOrder
      size  == V300!SizeOf
  IN  /\ DOMAIN order = 1..9
      /\ size[order[1]] = 7   /\ size[order[2]] = 64  /\ size[order[3]] = 384
      /\ size[order[4]] = 32  /\ size[order[5]] = 32  /\ size[order[6]] = 128
      /\ size[order[7]] = 128 /\ size[order[8]] = 24
  BY DEF V300!RegisterOrder, V300!SizeOf

\* The first lines the recursion comes to.
LEMMA First320 ==
  IsFirst(<<0, 1, 3, 15, 16, 17, 21, 25, 27, 28>>, V320!RegisterOrder, V320!SizeOf)
<1> DEFINE order == V320!RegisterOrder
           w(i)  == NumberOfWords(V320!SizeOf[order[i]])
           g     == <<0, 1, 3, 15, 16, 17, 21, 25, 27, 28>>
<1>1. /\ w(1) = 1 /\ w(2) = 2 /\ w(3) = 12 /\ w(4) = 1 /\ w(5) = 1
      /\ w(6) = 4 /\ w(7) = 4 /\ w(8) = 2 /\ w(9) = 1
  BY OrderIs320, WordsOfSizes
<1> HIDE DEF w
<1>2. \A i \in 1..10 : g[i] = IF i = 1 THEN 0 ELSE g[i - 1] + w(i - 1)
  BY <1>1
<1>3. g = [i \in 1..10 |-> IF i = 1 THEN 0 ELSE g[i - 1] + w(i - 1)]
  BY <1>2
<1>4. DOMAIN order = 1..10
  BY OrderIs320
<1>5. QED BY <1>3, <1>4 DEF IsFirst, w

LEMMA First300 ==
  IsFirst(<<0, 1, 3, 15, 16, 17, 21, 25, 26>>, V300!RegisterOrder, V300!SizeOf)
<1> DEFINE order == V300!RegisterOrder
           w(i)  == NumberOfWords(V300!SizeOf[order[i]])
           g     == <<0, 1, 3, 15, 16, 17, 21, 25, 26>>
<1>1. /\ w(1) = 1 /\ w(2) = 2 /\ w(3) = 12 /\ w(4) = 1 /\ w(5) = 1
      /\ w(6) = 4 /\ w(7) = 4 /\ w(8) = 1
  BY OrderIs300, WordsOfSizes
<1> HIDE DEF w
<1>2. \A i \in 1..9 : g[i] = IF i = 1 THEN 0 ELSE g[i - 1] + w(i - 1)
  BY <1>1
<1>3. g = [i \in 1..9 |-> IF i = 1 THEN 0 ELSE g[i - 1] + w(i - 1)]
  BY <1>2
<1>4. DOMAIN order = 1..9
  BY OrderIs300
<1>5. QED BY <1>3, <1>4 DEF IsFirst, w

LEMMA Index320 == \A i \in 1..10 : V320!StartIndex[V320!RegisterOrder[i]] \in Nat
<1> DEFINE order == V320!RegisterOrder
           size  == V320!SizeOf
<1>1. V320!StartIndex = FirstLines(order, size)
  BY Zenon DEF V320!StartIndex, V320!FirstLines, FirstLines, V320!NumberOfWords, NumberOfWords
<1>2. \A i \in 1..9 : size[order[i]] \in Nat
  BY OrderIs320
<1> HIDE DEF size, order
<1>3. PICK g, n : IsFirst(g, order, size) /\ n = 10
  BY First320 DEF order, size
<1>4. DOMAIN order = 1..n /\ n \in 9..10 /\ \A i \in 1..(n - 1) : size[order[i]] \in Nat
  BY <1>2, <1>3, OrderIs320 DEF order
<1>5. \A i \in 1..n : FirstLines(order, size)[order[i]] \in Nat
  BY <1>3, <1>4, LinesAreNat
<1>6. QED BY <1>1, <1>3, <1>5 DEF order

LEMMA Index300 == \A i \in 1..9 : V300!StartIndex[V300!RegisterOrder[i]] \in Nat
<1> DEFINE order == V300!RegisterOrder
           size  == V300!SizeOf
<1>1. V300!StartIndex = FirstLines(order, size)
  BY Zenon DEF V300!StartIndex, V300!FirstLines, FirstLines, V300!NumberOfWords, NumberOfWords
<1>2. \A i \in 1..8 : size[order[i]] \in Nat
  BY OrderIs300
<1> HIDE DEF size, order
<1>3. PICK g, n : IsFirst(g, order, size) /\ n = 9
  BY First300 DEF order, size
<1>4. DOMAIN order = 1..n /\ n \in 9..10 /\ \A i \in 1..(n - 1) : size[order[i]] \in Nat
  BY <1>2, <1>3, OrderIs300 DEF order
<1>5. \A i \in 1..n : FirstLines(order, size)[order[i]] \in Nat
  BY <1>3, <1>4, LinesAreNat
<1>6. QED BY <1>1, <1>3, <1>5 DEF order

LEMMA IndexesAreNat ==
  /\ \A r \in {"command", "licenseStartAddress", "licenseTimer", "status", "error", "dna",
               "saasChallenge", "version", "logs"} :
       V320!StartIndex[r] \in Nat /\ V300!StartIndex[r] \in Nat
  /\ V320!StartIndex["licenseTimerCounter"] \in Nat
<1>1. LET o == V320!RegisterOrder
      IN /\ o[1] = "command" /\ o[2] = "licenseStartAddress" /\ o[3] = "licenseTimer"
         /\ o[4] = "status" /\ o[5] = "error" /\ o[6] = "dna" /\ o[7] = "saasChallenge"
         /\ o[8] = "licenseTimerCounter" /\ o[9] = "version" /\ o[10] = "logs"
  BY DEF V320!RegisterOrder
<1>2. LET o == V300!RegisterOrder
      IN /\ o[1] = "command" /\ o[2] = "licenseStartAddress" /\ o[3] = "licenseTimer"
         /\ o[4] = "status" /\ o[5] = "error" /\ o[6] = "dna" /\ o[7] = "saasChallenge"
         /\ o[8] = "version" /\ o[9] = "logs"
  BY DEF V300!RegisterOrder
<1>3. QED BY <1>1, <1>2, Index320, Index300

-----------------------------------------------------------------------------
(* The tables make accesses.                                                *)

AccessSet == [page : AllPages, selects : Seq(BOOLEAN), blind : BOOLEAN,
              reads : LineRange, writes : LineRange]

\* No method of the group throws, and all make accesses.
Made(group) == \A m \in DOMAIN group : group[m] \in AccessSet

LEMMA MadeBoth ==
  ASSUME NEW f, NEW g, Made(f), Made(g) PROVE Made(Both(f, g))
  BY DEF Made, Both

LEMMA NotMade == Unsupported \notin AccessSet
<1>1. Unsupported.page = -1
  BY DEF Unsupported, Select, Read
<1>2. QED BY <1>1 DEF AccessSet, AllPages

LEMMA LinesMade == \A from \in Nat, n \in Int : Lines(from, n) \in LineRange
  BY DEF Lines, LineRange

LEMMA NoLinesMade == NoLines \in LineRange
  BY LinesMade DEF NoLines

LEMMA ReadMade == \A p \in AllPages, lines \in LineRange : Read(p, lines) \in AccessSet
<1>1. \A t \in BOOLEAN : <<t>> \in Seq(BOOLEAN)
  OBVIOUS
<1>2. QED BY <1>1, NoLinesMade DEF Read, AccessSet

LEMMA SelectMade == \A p \in AllPages : Select(p) \in AccessSet
  BY ReadMade, NoLinesMade DEF Select

LEMMA WriteMade == \A p \in AllPages, lines \in LineRange : Write(p, lines) \in AccessSet
<1>1. \A a \in AccessSet, s \in Seq(BOOLEAN), w \in LineRange :
        [a EXCEPT !.selects = s, !.writes = w] \in AccessSet
  BY DEF AccessSet
<1>2. <<TRUE, TRUE>> \in Seq(BOOLEAN)
  OBVIOUS
<1>3. QED BY <1>1, <1>2, ReadMade DEF Write

LEMMA UncheckedMade ==
  \A p \in AllPages, r \in LineRange, w \in LineRange : Unchecked(p, r, w) \in AccessSet
<1>1. \A a \in AccessSet, s \in Seq(BOOLEAN), w \in LineRange :
        [a EXCEPT !.selects = s, !.writes = w] \in AccessSet
  BY DEF AccessSet
<1>2. <<FALSE>> \in Seq(BOOLEAN)
  OBVIOUS
<1>3. QED BY <1>1, <1>2, ReadMade DEF Unchecked

LEMMA StatusMade ==
  \A field : \A p \in AllPages, line \in Nat : StatusRead(p, line, field).bus \in AccessSet
  BY LinesMade, ReadMade DEF StatusRead

\* What the modules of the strategies make of it is the same.
LEMMA Made320 ==
  /\ \A p \in AllPages, lines \in LineRange :
       V320!Read(p, lines) \in AccessSet /\ V320!Write(p, lines) \in AccessSet
  /\ \A p \in AllPages : V320!Select(p) \in AccessSet
  /\ \A p \in AllPages, r \in LineRange, w \in LineRange : V320!Unchecked(p, r, w) \in AccessSet
  /\ \A field : \A p \in AllPages, line \in Nat : V320!StatusRead(p, line, field).bus \in AccessSet
  /\ \A from \in Nat, n \in Int : V320!Lines(from, n) \in LineRange
  /\ V320!NoLines \in LineRange
<1> USE DEF V320!Read, V320!NoLines, V320!Lines, Read, NoLines, Lines
<1>1. \A p \in AllPages, lines \in LineRange : V320!Read(p, lines) \in AccessSet
  BY ReadMade
<1>2. \A p \in AllPages, lines \in LineRange : V320!Write(p, lines) \in AccessSet
  BY WriteMade DEF V320!Write, Write
<1>3. \A p \in AllPages : V320!Select(p) \in AccessSet
  BY SelectMade DEF V320!Select, Select
<1>4. \A p \in AllPages, r \in LineRange, w \in LineRange : V320!Unchecked(p, r, w) \in AccessSet
  BY UncheckedMade DEF V320!Unchecked, Unchecked
<1>5. \A field : \A p \in AllPages, line \in Nat : V320!StatusRead(p, line, field).bus \in AccessSet
  BY StatusMade DEF V320!StatusRead, StatusRead
<1>6. \A from \in Nat, n \in Int : V320!Lines(from, n) \in LineRange
  BY LinesMade
<1>7. V320!NoLines \in LineRange
  BY NoLinesMade
<1>8. QED BY <1>1, <1>2, <1>3, <1>4, <1>5, <1>6, <1>7

LEMMA Made300 ==
  /\ \A p \in AllPages, lines \in LineRange :
       V300!Read(p, lines) \in AccessSet /\ V300!Write(p, lines) \in AccessSet
  /\ \A p \in AllPages : V300!Select(p) \in AccessSet
  /\ \A field : \A p \in AllPages, line \in Nat : V300!StatusRead(p, line, field).bus \in AccessSet
  /\ \A from \in Nat, n \in Int : V300!Lines(from, n) \in LineRange
  /\ V300!Unsupported = Unsupported /\ V300!UnsupportedStatus.bus = Unsupported
<1> USE DEF V300!Read, V300!NoLines, V300!Lines, Read, NoLines, Lines
<1>1. \A p \in AllPages, lines \in LineRange : V300!Read(p, lines) \in AccessSet
  BY ReadMade
<1>2. \A p \in AllPages, lines \in LineRange : V300!Write(p, lines) \in AccessSet
  BY WriteMade DEF V300!Write, Write
<1>3. \A p \in AllPages : V300!Select(p) \in AccessSet
  BY SelectMade DEF V300!Select, Select
<1>4. \A field : \A p \in AllPages, line \in Nat : V300!StatusRead(p, line, field).bus \in AccessSet
  BY StatusMade DEF V300!StatusRead, StatusRead
<1>5. \A from \in Nat, n \in Int : V300!Lines(from, n) \in LineRange
  BY LinesMade
<1>6. V300!Unsupported = Unsupported
  BY DEF V300!Unsupported, V300!Select, Unsupported, Select
<1>7. V300!UnsupportedStatus.bus = Unsupported
  BY <1>6 DEF V300!UnsupportedStatus
<1>8. QED BY <1>1, <1>2, <1>3, <1>4, <1>5, <1>6, <1>7

LEMMA Pages320 ==
  /\ \A q \in DOMAIN V320!PageNumber : V320!PageNumber[q] \in AllPages
  /\ V320!PageNumber.registers \in AllPages /\ V320!PageNumber.vlnv \in AllPages
  /\ V320!PageNumber.license \in AllPages /\ V320!PageNumber.trace \in AllPages
  /\ V320!PageNumber.metering \in AllPages /\ V320!PageNumber.mailbox \in AllPages
  BY DEF V320!PageNumber, AllPages

LEMMA Pages300 ==
  /\ \A q \in DOMAIN V300!PageNumber : V300!PageNumber[q] \in AllPages
  /\ V300!PageNumber.registers \in AllPages /\ V300!PageNumber.vlnv \in AllPages
  /\ V300!PageNumber.license \in AllPages /\ V300!PageNumber.trace \in AllPages
  /\ V300!PageNumber.metering \in AllPages
  BY DEF V300!PageNumber, AllPages

\* The lines of the registers, and of the files.
Registers == {"command", "licenseStartAddress", "licenseTimer", "status", "error", "dna",
              "saasChallenge", "version"}

LEMMA Registers320 ==
  /\ \A r \in Registers \cup {"licenseTimerCounter"} : V320!RegisterLines(r) \in LineRange
  /\ V320!Lines(V320!StartIndex.version, 1) \in LineRange
  /\ V320!Lines(V320!StartIndex.logs, V320!NumberOfWords(NumberOfIps)) \in LineRange
<1>1. \A n \in Nat : V320!NumberOfWords(n) \in Nat
  BY DEF V320!NumberOfWords
<1>2. \A r \in Registers \cup {"licenseTimerCounter"} :
        V320!SizeOf[r] \in Nat /\ V320!StartIndex[r] \in Nat
  BY IndexesAreNat DEF V320!SizeOf, Registers
<1>3. \A n \in Nat : n \in Int
  OBVIOUS
<1>4. NumberOfIps \in Nat /\ 1 \in Int
  BY SizesAssumption
<1>5. QED BY <1>1, <1>2, <1>3, <1>4, Made320, IndexesAreNat DEF V320!RegisterLines

LEMMA Registers300 ==
  /\ \A r \in Registers : V300!RegisterLines(r) \in LineRange
  /\ V300!Lines(V300!StartIndex.version, 1) \in LineRange
  /\ V300!Lines(V300!StartIndex.logs, V300!NumberOfWords(NumberOfIps)) \in LineRange
<1>1. \A n \in Nat : V300!NumberOfWords(n) \in Nat
  BY DEF V300!NumberOfWords
<1>2. \A r \in Registers : V300!SizeOf[r] \in Nat /\ V300!StartIndex[r] \in Nat
  BY IndexesAreNat DEF V300!SizeOf, Registers
<1>3. \A n \in Nat : n \in Int
  OBVIOUS
<1>4. NumberOfIps \in Nat /\ 1 \in Int
  BY SizesAssumption
<1>5. QED BY <1>1, <1>2, <1>3, <1>4, Made300, IndexesAreNat DEF V300!RegisterLines

LEMMA Files320 ==
  \A file \in {"vlnv", "license", "trace", "metering"}, n \in Int :
    /\ V320!FileLines(file, n) \in LineRange
    /\ V320!Lines(0, V320!WordsOf(file) * n) \in LineRange
<1>1. \A file \in {"vlnv", "license", "trace", "metering"} : V320!WordsOf(file) \in Nat
  BY DEF V320!WordsOf, V320!WordSizeOf, V320!NumberOfWords
<1>2. \A k \in Nat, n \in Int : k * n \in Int
  OBVIOUS
<1>3. QED BY <1>1, <1>2, Made320 DEF V320!FileLines

LEMMA Files300 ==
  \A file \in {"vlnv", "license", "trace", "metering"}, n \in Int :
    /\ V300!FileLines(file, n) \in LineRange
    /\ V300!Lines(0, V300!WordsOf(file) * n) \in LineRange
<1>1. \A file \in {"vlnv", "license", "trace", "metering"} : V300!WordsOf(file) \in Nat
  BY DEF V300!WordsOf, V300!WordSizeOf, V300!NumberOfWords
<1>2. \A k \in Nat, n \in Int : k * n \in Int
  OBVIOUS
<1>3. QED BY <1>1, <1>2, Made300 DEF V300!FileLines

\* The groups of 3.2.0.
LEMMA Groups320 ==
  /\ Made(V320!WritePageRegister) /\ Made(V320!WriteCommandRegister)
  /\ Made(V320!LicenseAddressAndTimer) /\ Made(V320!ReadRegisters)
  /\ Made(V320!VlnvFile) /\ Made(V320!LicenseFile) /\ Made(V320!TraceFile)
  /\ Made(V320!MeteringFile)
<1> USE Made320, Pages320 DEF Made
<1>1. Made(V320!WritePageRegister)
  BY DEF V320!WritePageRegister
<1>2. Made(V320!WriteCommandRegister)
  BY Registers320 DEF V320!WriteCommandRegister, Registers
<1>3. Made(V320!LicenseAddressAndTimer)
  BY Registers320 DEF V320!LicenseAddressAndTimer, Registers
<1>4. Made(V320!ReadRegisters)
  BY Registers320 DEF V320!ReadRegisters, Registers
<1>5. Made(V320!VlnvFile)
  <2>1. NumberOfIps + V320!AdditionalWords.vlnv \in Int
    BY SizesAssumption DEF V320!AdditionalWords
  <2>2. QED BY <2>1, Files320 DEF V320!VlnvFile
<1>6. Made(V320!LicenseFile)
  <2>1. LicenseFileSize \in Int
    BY SizesAssumption
  <2>2. QED BY <2>1, Files320, SizesAssumption DEF V320!LicenseFile
<1>7. Made(V320!TraceFile)
  <2>1. NumberOfIps * V320!NumberOfTracesPerIp \in Int
    BY SizesAssumption DEF V320!NumberOfTracesPerIp
  <2>2. QED BY <2>1, Files320 DEF V320!TraceFile
<1>8. Made(V320!MeteringFile)
  <2>1. NumberOfIps + V320!AdditionalWords.metering \in Int
    BY SizesAssumption DEF V320!AdditionalWords
  <2>2. QED BY <2>1, Files320 DEF V320!MeteringFile, V320!MeteringFileWords
<1>9. QED BY <1>1, <1>2, <1>3, <1>4, <1>5, <1>6, <1>7, <1>8

\* The mailbox of 3.2.0, the method of the manager included.
LEMMA Mailbox320 ==
  /\ Made(V320!MailboxSize) /\ Made(V320!ReadMailbox) /\ Made(V320!WriteMailbox)
<1>1. ReadOnlyWords \in Nat /\ ReadWriteWords \in Nat
  BY SizesAssumption
<1>2. V320!AdditionalWords.mailbox = 1
  BY DEF V320!AdditionalWords
<1>3. 1 + ReadOnlyWords \in Nat /\ 1 + ReadOnlyWords + ReadWriteWords \in Int
  BY <1>1
<1>4. /\ V320!Lines(0, 1) \in LineRange /\ V320!MailboxLines \in LineRange
      /\ V320!Lines(V320!AdditionalWords.mailbox + ReadOnlyWords, ReadWriteWords) \in LineRange
  BY <1>1, <1>2, <1>3, Made320 DEF V320!MailboxLines
<1>5. QED BY <1>4, Made320, Pages320
  DEF Made, V320!MailboxSize, V320!ReadMailbox, V320!WriteMailbox

LEMMA Fields320 ==
  /\ \A f \in DOMAIN V320!StatusRegister : V320!StatusRegister[f].bus \in AccessSet
  /\ \A e \in DOMAIN V320!ErrorRegister : V320!ErrorRegister[e].bus \in AccessSet
  BY Made320, Pages320, IndexesAreNat DEF V320!StatusRegister, V320!ErrorRegister

\* The class 3.1.0 has the files of 3.2.0, but one.
LEMMA SameFiles310 ==
  /\ V310!VlnvFile = V320!VlnvFile /\ V310!LicenseFile = V320!LicenseFile
  /\ V310!TraceFile = V320!TraceFile
<1> USE DEF V320!PageNumber, V320!Read, V320!Write, V320!Select, V320!NoLines, V320!Lines,
  V320!WordsOf, V320!WordSizeOf, V320!NumberOfWords, V320!AdditionalWords, V320!FileLines,
  V310!V320!PageNumber, V310!V320!Read, V310!V320!Write, V310!V320!Select,
  V310!V320!NoLines, V310!V320!Lines, V310!V320!WordsOf, V310!V320!WordSizeOf,
  V310!V320!NumberOfWords, V310!V320!AdditionalWords, V310!V320!FileLines
<1>1. V310!VlnvFile = V320!VlnvFile
  BY DEF V310!VlnvFile, V310!V320!VlnvFile, V320!VlnvFile
<1>2. V310!LicenseFile = V320!LicenseFile
  BY DEF V310!LicenseFile, V310!V320!LicenseFile, V320!LicenseFile, V320!LicenseFits,
    V310!V320!LicenseFits, V320!LicenseFileMinimumWordNumber, V320!LicenseBlocks,
    V310!V320!LicenseFileMinimumWordNumber, V310!V320!LicenseBlocks, V320!Unsupported,
    V310!V320!Unsupported
<1>3. V310!TraceFile = V320!TraceFile
  BY DEF V310!TraceFile, V310!V320!TraceFile, V320!TraceFile, V320!NumberOfTracesPerIp,
    V310!V320!NumberOfTracesPerIp
<1>4. QED BY <1>1, <1>2, <1>3

LEMMA Metering310 == Made(V310!MeteringFile)
<1>1. V310!V320!WordsOf("metering") \in Nat
  BY DEF V310!V320!WordsOf, V310!V320!WordSizeOf, V310!V320!NumberOfWords
<1>2. NumberOfIps + V310!AdditionalWords.metering \in Int
  BY SizesAssumption DEF V310!AdditionalWords
<1>3. \A k \in Nat, n \in Int : k * n \in Int
  OBVIOUS
<1>4. V310!MeteringFileWords \in Int
  BY <1>1, <1>2, <1>3 DEF V310!MeteringFileWords
<1>5. V310!Lines(0, V310!MeteringFileWords) \in LineRange
  BY <1>4, LinesMade DEF V310!Lines, Lines
<1>6. V310!V320!PageNumber.metering \in AllPages
  BY DEF V310!V320!PageNumber, AllPages
<1>7. \A p \in AllPages, lines \in LineRange : V310!Read(p, lines) \in AccessSet
  BY ReadMade DEF V310!Read, V310!NoLines, V310!Lines, Read, NoLines, Lines
<1>8. QED BY <1>5, <1>6, <1>7 DEF Made, V310!MeteringFile

LEMMA FilesMade == Made(V320!Methods.files) /\ Made(V310!Methods.files)
<1>1. \A f, g : V320!Both(f, g) = Both(f, g) /\ V310!Both(f, g) = Both(f, g)
  BY DEF V320!Both, V310!Both, Both
<1>2. V320!Methods.files
        = Both(Both(V320!VlnvFile, V320!LicenseFile), Both(V320!TraceFile, V320!MeteringFile))
  BY <1>1 DEF V320!Methods
<1>3. V310!Methods.files
        = Both(Both(V310!VlnvFile, V310!LicenseFile), Both(V310!TraceFile, V310!MeteringFile))
  <2>1. V310!V320!Methods = V320!Methods /\ "files" \in DOMAIN V320!Methods
    BY Copies DEF V320!Methods
  <2>2. QED BY <1>1, <2>1 DEF V310!Methods
<1>4. QED BY <1>2, <1>3, Groups320, SameFiles310, Metering310, MadeBoth

MailboxMethods == {"readMailboxFileSize", "readMailboxFile", "writeMailboxFile"}

\* The groups of a class from 3.1.0 on.
Complete(m) ==
  /\ Made(m.pages) /\ Made(m.commands) /\ Made(m.timer)
  /\ Made(m.registers) /\ Made(m.files) /\ Made(m.mailbox)
  /\ \A f \in DOMAIN m.status : m.status[f].bus \in AccessSet
  /\ \A e \in DOMAIN m.errors : m.errors[e].bus \in AccessSet
  /\ MailboxMethods \subseteq DOMAIN m.mailbox

LEMMA LaterIsComplete ==
  ASSUME NEW s \in Names, s # "3.0.0"
  PROVE  Complete(Strategies[s])
<1>1. Complete(V320!Methods)
  <2>1. Made(V320!Methods.mailbox) /\ MailboxMethods \subseteq DOMAIN V320!Methods.mailbox
    <3>1. V320!Methods.mailbox = Both(V320!MailboxSize, Both(V320!ReadMailbox, V320!WriteMailbox))
      BY DEF V320!Methods, V320!Both, Both
    <3>2. MailboxMethods \subseteq DOMAIN V320!Methods.mailbox
      BY <3>1 DEF Both, MailboxMethods, V320!MailboxSize, V320!ReadMailbox, V320!WriteMailbox
    <3>3. QED BY <3>1, <3>2, Mailbox320, MadeBoth
  <2>2. /\ V320!Methods.pages = V320!WritePageRegister
        /\ V320!Methods.commands = V320!WriteCommandRegister
        /\ V320!Methods.timer = V320!LicenseAddressAndTimer
        /\ V320!Methods.registers = V320!ReadRegisters
        /\ V320!Methods.status = V320!StatusRegister
        /\ V320!Methods.errors = V320!ErrorRegister
    BY DEF V320!Methods
  <2>3. QED BY <2>1, <2>2, Groups320, Fields320, FilesMade DEF Complete
<1>2. Complete([V320!Methods EXCEPT !.files = V310!Methods.files])
  <2> DEFINE m == [V320!Methods EXCEPT !.files = V310!Methods.files]
  <2>1. /\ m.pages = V320!Methods.pages /\ m.commands = V320!Methods.commands
        /\ m.timer = V320!Methods.timer /\ m.registers = V320!Methods.registers
        /\ m.status = V320!Methods.status /\ m.errors = V320!Methods.errors
        /\ m.mailbox = V320!Methods.mailbox /\ m.files = V310!Methods.files
    BY DEF V320!Methods
  <2> HIDE DEF m
  <2>2. QED BY <1>1, <2>1, FilesMade DEF Complete
<1>3. QED BY <1>1, <1>2, MethodsTable DEF Names

\* A class of which some methods throw.
Partial(group) == \A m \in DOMAIN group : group[m] \in AccessSet \cup {Unsupported}

LEMMA Groups300 ==
  /\ Partial(V300!WritePageRegister) /\ Partial(V300!WriteCommandRegister)
  /\ Partial(V300!LicenseAddressAndTimer) /\ Partial(V300!ReadRegisters)
  /\ Partial(V300!VlnvFile) /\ Partial(V300!LicenseFile) /\ Partial(V300!TraceFile)
  /\ Partial(V300!MeteringFile) /\ Partial(V300!MailboxFile)
<1> USE Made300, Pages300 DEF Partial
<1>1. Partial(V300!WritePageRegister)
  BY DEF V300!WritePageRegister, V300!Both
<1>2. Partial(V300!WriteCommandRegister)
  BY Registers300 DEF V300!WriteCommandRegister, V300!Both, Registers
<1>3. Partial(V300!LicenseAddressAndTimer)
  BY Registers300 DEF V300!LicenseAddressAndTimer, Registers
<1>4. Partial(V300!ReadRegisters)
  BY Registers300 DEF V300!ReadRegisters, Registers
<1>5. Partial(V300!VlnvFile)
  <2>1. NumberOfIps + V300!AdditionalWords.vlnv \in Int
    BY SizesAssumption DEF V300!AdditionalWords
  <2>2. QED BY <2>1, Files300 DEF V300!VlnvFile
<1>6. Partial(V300!LicenseFile)
  <2>1. LicenseFileSize \in Int
    BY SizesAssumption
  <2>2. QED BY <2>1, Files300 DEF V300!LicenseFile
<1>7. Partial(V300!TraceFile)
  <2>1. NumberOfIps * V300!NumberOfTracesPerIp \in Int
    BY SizesAssumption DEF V300!NumberOfTracesPerIp
  <2>2. QED BY <2>1, Files300 DEF V300!TraceFile
<1>8. Partial(V300!MeteringFile)
  <2>1. NumberOfIps + V300!AdditionalWords.metering \in Int
    BY SizesAssumption DEF V300!AdditionalWords
  <2>2. QED BY <2>1, Files300 DEF V300!MeteringFile, V300!MeteringFileWords
<1>9. Partial(V300!MailboxFile)
  BY DEF V300!MailboxFile
<1>10. QED BY <1>1, <1>2, <1>3, <1>4, <1>5, <1>6, <1>7, <1>8, <1>9

LEMMA Fields300 ==
  /\ \A f \in DOMAIN V300!StatusRegister :
       V300!StatusRegister[f].bus \in AccessSet \cup {Unsupported}
  /\ \A e \in DOMAIN V300!ErrorRegister :
       V300!ErrorRegister[e].bus \in AccessSet \cup {Unsupported}
  BY Made300, Pages300, IndexesAreNat DEF V300!StatusRegister, V300!ErrorRegister

LEMMA RangeOfGroup ==
  ASSUME NEW group
  PROVE  /\ Made(group) => Range(group) \subseteq AccessSet
         /\ Partial(group) => Range(group) \subseteq AccessSet \cup {Unsupported}
  BY DEF Made, Partial, Range

LEMMA CompleteAccesses ==
  ASSUME NEW m, Complete(m)
  PROVE  AccessesIn(m) \subseteq AccessSet
<1>1. UNION {Range(m.pages), Range(m.commands), Range(m.timer), Range(m.registers),
             Range(m.files), Range(m.mailbox)} \subseteq AccessSet
  BY RangeOfGroup DEF Complete
<1>2. {r.bus : r \in Range(m.status) \cup Range(m.errors)} \subseteq AccessSet
  BY DEF Complete, Range
<1>3. QED BY <1>1, <1>2 DEF AccessesIn, StatusRegister, ErrorRegister, PageRegister,
  CommandRegister, AddressAndTimer, DataRegisters, Files, Mailbox

LEMMA ManagerMade ==
  ASSUME NEW mailbox, Made(mailbox), MailboxMethods \subseteq DOMAIN mailbox
  PROVE  ManagerMailbox(mailbox) \subseteq AccessSet
<1>1. \A a \in AccessSet, s \in Seq(BOOLEAN) : [a EXCEPT !.selects = s] \in AccessSet
  BY DEF AccessSet
<1>2. <<TRUE, FALSE, FALSE>> \in Seq(BOOLEAN) /\ <<TRUE>> \in Seq(BOOLEAN)
  OBVIOUS
<1>3. \A a \in AccessSet : <<TRUE>> \o a.selects \in Seq(BOOLEAN)
  <2>1. TAKE a \in AccessSet
  <2>2. a.selects \in Seq(BOOLEAN)
    BY DEF AccessSet
  <2>3. QED BY <1>2, <2>2, ConcatProperties
<1>4. \A a \in AccessSet : Checked(a) \in AccessSet
  BY <1>1, <1>3 DEF Checked
<1>5. /\ mailbox.readMailboxFileSize \in AccessSet /\ mailbox.readMailboxFile \in AccessSet
      /\ mailbox.writeMailboxFile \in AccessSet
  BY DEF Made, MailboxMethods
<1>6. [mailbox.writeMailboxFile EXCEPT !.selects = <<TRUE, FALSE, FALSE>>] \in AccessSet
  BY <1>1, <1>2, <1>5
<1>7. QED BY <1>4, <1>5, <1>6 DEF ManagerMailbox

LEMMA GetDrmPageMade == \A p \in 0..5 : GetDrmPage(p) \in AccessSet
<1>1. Lines(0, DrmPageLines) \in LineRange
  BY LinesMade DEF DrmPageLines
<1>2. <<FALSE>> \in Seq(BOOLEAN)
  OBVIOUS
<1>3. QED BY <1>1, <1>2, NoLinesMade DEF GetDrmPage, AccessSet, AllPages

\* The methods of 3.0.0, which has no mailbox.
LEMMA Accesses300 ==
  /\ AccessesIn(V300!Methods) \subseteq AccessSet \cup {Unsupported}
  /\ Unsupported \in Range(Mailbox(V300!Methods))
<1> DEFINE m == V300!Methods
<1>1. /\ m.pages = V300!WritePageRegister /\ m.commands = V300!WriteCommandRegister
      /\ m.timer = V300!LicenseAddressAndTimer /\ m.registers = V300!ReadRegisters
      /\ m.status = V300!StatusRegister /\ m.errors = V300!ErrorRegister
      /\ m.mailbox = V300!MailboxFile
  BY DEF V300!Methods
<1>2. Partial(m.files)
  <2>1. m.files = V300!Both(V300!Both(V300!VlnvFile, V300!LicenseFile),
                            V300!Both(V300!TraceFile, V300!MeteringFile))
    BY DEF V300!Methods
  <2>2. \A f, g : Partial(f) /\ Partial(g) => Partial(V300!Both(f, g))
    BY DEF Partial, V300!Both
  <2>3. QED BY <2>1, <2>2, Groups300
<1> HIDE DEF m
<1>3. UNION {Range(m.pages), Range(m.commands), Range(m.timer), Range(m.registers),
             Range(m.files), Range(m.mailbox)} \subseteq AccessSet \cup {Unsupported}
  BY <1>1, <1>2, Groups300, RangeOfGroup
<1>4. {r.bus : r \in Range(m.status) \cup Range(m.errors)} \subseteq AccessSet \cup {Unsupported}
  BY <1>1, Fields300 DEF Range
<1>5. AccessesIn(m) \subseteq AccessSet \cup {Unsupported}
  BY <1>3, <1>4 DEF AccessesIn, StatusRegister, ErrorRegister, PageRegister,
    CommandRegister, AddressAndTimer, DataRegisters, Files, Mailbox
<1>6. Unsupported \in Range(m.mailbox)
  <2>1. "readMailboxFile" \in DOMAIN V300!MailboxFile
        /\ V300!MailboxFile["readMailboxFile"] = Unsupported
    BY Made300 DEF V300!MailboxFile
  <2>2. QED BY <1>1, <2>1 DEF Range
<1>7. QED BY <1>5, <1>6 DEF Mailbox, m

\* All accesses of all five strategies are typed, whatever the number of IPs and
\* the sizes of the license file and of the mailbox: pages 0 to 5, lines from 0 on.
THEOREM TablesAreTyped == AccessesAreTyped
<1>1. \A s \in Names : AccessesWith(Strategies[s]) \subseteq AccessSet
  <2>1. TAKE s \in Names
  <2>2. {GetDrmPage(p) : p \in 0..5} \subseteq AccessSet
    BY GetDrmPageMade
  <2>3. CASE s = "3.0.0"
    BY <2>2, <2>3, Accesses300, MethodsTable DEF AccessesWith
  <2>4. CASE s # "3.0.0"
    <3>1. Complete(Strategies[s])
      BY <2>4, LaterIsComplete
    <3>2. ManagerMailbox(Mailbox(Strategies[s])) \subseteq AccessSet
      BY <3>1, ManagerMade DEF Complete, Mailbox
    <3>3. QED BY <2>2, <3>1, <3>2, CompleteAccesses DEF AccessesWith
  <2>5. QED BY <2>3, <2>4
<1>2. AllAccesses \subseteq AccessSet
  BY <1>1, StrategyTable DEF AllAccesses, AccessesOf, Range
<1>3. QED BY <1>2, TablesAssumption DEF AccessesAreTyped, AccessSet

-----------------------------------------------------------------------------
(* What runs on the bus are accesses of the strategies.                     *)

LEMMA AccessesAreAll ==
  ASSUME NEW s \in Names
  PROVE  AccessesOf[s] = AccessesWith(Strategies[s]) /\ AccessesOf[s] \subseteq Accesses
<1>1. AccessesOf[s] = AccessesWith(Strategies[s]) /\ s \in DOMAIN AccessesOf
  BY StrategyTable DEF AccessesOf
<1>2. AccessesOf[s] \in Range(AccessesOf)
  BY <1>1 DEF Range
<1>3. QED BY <1>1, <1>2, TablesAssumption DEF AllAccesses

LEMMA VersionAccess ==
  ASSUME NEW s \in Names
  PROVE  DataRegisters(Strategies[s]).drmVersion \in Accesses
<1> DEFINE m == Strategies[s]
           a == DataRegisters(m).drmVersion
<1>1. a.page = 0 /\ "drmVersion" \in DOMAIN DataRegisters(m)
  <2>1. /\ V320!Methods.registers.drmVersion.page = 0
        /\ "drmVersion" \in DOMAIN V320!Methods.registers
    BY DEF V320!Methods, V320!ReadRegisters, V320!Read, V320!PageNumber
  <2>2. /\ V300!Methods.registers.drmVersion.page = 0
        /\ "drmVersion" \in DOMAIN V300!Methods.registers
    BY DEF V300!Methods, V300!ReadRegisters, V300!Read, V300!PageNumber
  <2>3. [V320!Methods EXCEPT !.files = V310!Methods.files].registers = V320!Methods.registers
    BY DEF V320!Methods
  <2>4. QED BY <2>1, <2>2, <2>3, MethodsTable DEF Names, DataRegisters
<1>2. a # Unsupported
  <2>1. Unsupported.page = -1
    BY DEF Unsupported, Select, Read
  <2>2. QED BY <1>1, <2>1
<1>3. a \in AccessesIn(m)
  <2>1. a \in Range(DataRegisters(m))
    BY <1>1 DEF Range
  <2>2. QED BY <2>1 DEF AccessesIn
<1>4. QED BY <1>2, <1>3, AccessesAreAll DEF AccessesWith

LEMMA StatusAccess ==
  ASSUME NEW s \in Names, NEW f \in Detected,
         StatusRegister(Strategies[s])[f].bus # Unsupported
  PROVE  StatusRegister(Strategies[s])[f].bus \in Accesses
<1> DEFINE m == Strategies[s]
           a == StatusRegister(m)[f].bus
<1>1. f \in DOMAIN StatusRegister(m)
  BY StatusTable
<1>2. a \in {r.bus : r \in Range(StatusRegister(m)) \cup Range(ErrorRegister(m))}
  BY <1>1 DEF Range
<1>3. a \in AccessesIn(m)
  BY <1>2 DEF AccessesIn
<1>4. QED BY <1>3, AccessesAreAll DEF AccessesWith

-----------------------------------------------------------------------------
(* The stages of the constructor.                                          *)

Steps == {"auto", "mode", "wait done", "wait not busy", "wait done 3.0.0", "busy"}

StageInv ==
  /\ phase \in {"versions", "detect", "hdk", "open", "refused"}
  /\ untried \in Seq(Names) /\ strategy \in Names \cup {"none"} /\ step \in Steps
  /\ phase \in {"detect", "hdk", "open"} => strategy # "none"
  /\ auto \in BOOLEAN /\ heartBeat \in BOOLEAN /\ cut \in BOOLEAN

LEMMA StrategyNamed ==
  ASSUME StageInv, phase \in {"detect", "hdk", "open"}
  PROVE  strategy \in Names
  BY DEF StageInv

LEMMA FieldDetected == ASSUME StageInv PROVE FieldAt \in Detected
<1>1. FieldAt \in Detected
  BY Zenon DEF FieldAt, Detected
<1>2. QED BY <1>1

THEOREM StageInitially == Init => StageInv
<1> SUFFICES ASSUME Init PROVE StageInv
  OBVIOUS
<1>1. Latest \in Seq(Names)
  BY DEF Latest, Names
<1>2. QED BY <1>1 DEF Init, StageInv, Steps

THEOREM StagePreserved == StageInv /\ [Next]_vars => StageInv'
<1> SUFFICES ASSUME StageInv, [Next]_vars PROVE StageInv'
  OBVIOUS
<1> USE DEF StageInv, Steps
<1>1. CASE UNCHANGED startVars
  BY <1>1 DEF startVars
<1>2. CASE Tried
  <2>1. untried # <<>> /\ untried' = Tail(untried)
    BY <1>2 DEF Tried
  <2>2. Head(untried) \in Names /\ Tail(untried) \in Seq(Names)
    BY <2>1, HeadTailProperties
  <2>3. QED BY <1>2, <2>1, <2>2 DEF Tried
<1>3. CASE SelectStrategy
  BY <1>3 DEF SelectStrategy
<1>4. CASE ModeUnsupported
  BY <1>4 DEF ModeUnsupported, Goto, Finish, DetectionVars
<1>5. CASE AutoRead
  BY <1>5 DEF AutoRead, Answered, Goto, DetectionVars, Is
<1>6. CASE ModeRead
  BY <1>6 DEF ModeRead, Answered, Goto, Finish, DetectionVars, Is
<1>7. CASE Waited
  BY <1>7 DEF Waited, Answered, Goto, Finish, DetectionVars
<1>8. CASE BusyRead
  BY <1>8 DEF BusyRead, Answered, Finish, DetectionVars, Is
<1>9. CASE DetectionTimeOut \/ DetectionCut
  BY <1>9 DEF DetectionTimeOut, DetectionCut, Finish, DetectionVars
<1>10. CASE CheckHdk
  BY <1>10 DEF CheckHdk, DetectionVars
<1>11. CASE Step \/ HwActivated
  BY <1>11 DEF Step, HwActivated
<1>12. QED
  BY <1>1, <1>2, <1>3, <1>4, <1>5, <1>6, <1>7, <1>8, <1>9, <1>10, <1>11
     DEF Next, vars, ReadVersion, ReadStatus, ReadHdkVersion, Access

THEOREM StageInvariance == Spec => []StageInv
  BY StageInitially, StagePreserved, PTL DEF Spec

-----------------------------------------------------------------------------
(* The constructor, the check and all that follows run accesses, one after  *)
(* the other: what is proved of RegisterAccess holds here.                  *)

LEMMA StepIsAccess == StageInv /\ [Next]_vars => [AccessNext]_accessVars
<1> SUFFICES ASSUME StageInv, [Next]_vars PROVE [AccessNext]_accessVars
  OBVIOUS
<1>1. CASE ReadVersion
  <2>1. untried # <<>> /\ untried \in Seq(Names)
    BY <1>1 DEF ReadVersion, StageInv
  <2>2. Head(untried) \in Names
    BY <2>1, HeadTailProperties
  <2>3. QED BY <1>1, <2>2, VersionAccess DEF ReadVersion, AccessNext
<1>2. CASE ReadStatus
  <2>1. strategy \in Names /\ FieldAt \in Detected
    BY <1>2, StrategyNamed, FieldDetected DEF ReadStatus
  <2>2. FieldRead = StatusRegister(Strategies[strategy])[FieldAt]
    BY DEF FieldRead
  <2>3. PICK a \in {FieldRead.bus} \ {Unsupported} : Begin(a)
    BY <1>2 DEF ReadStatus
  <2>4. a \in Accesses
    BY <2>1, <2>2, <2>3, StatusAccess
  <2>5. QED BY <2>3, <2>4 DEF AccessNext
<1>3. CASE ReadHdkVersion
  <2>1. strategy \in Names
    BY <1>3, StrategyNamed DEF ReadHdkVersion
  <2>2. QED BY <1>3, <2>1, VersionAccess DEF ReadHdkVersion, AccessNext
<1>4. CASE Access
  <2>1. strategy \in Names
    BY <1>4, StrategyNamed DEF Access
  <2>2. PICK a \in AccessesOf[strategy] : Begin(a)
    BY <1>4 DEF Access
  <2>3. a \in Accesses
    BY <2>1, <2>2, AccessesAreAll
  <2>4. QED BY <2>2, <2>3 DEF AccessNext
<1>5. CASE Step
  BY <1>5 DEF Step, AccessNext
<1>6. CASE Tried \/ AutoRead \/ ModeRead \/ Waited \/ BusyRead \/ DetectionTimeOut
           \/ DetectionCut \/ CheckHdk
  BY <1>6 DEF Tried, AutoRead, ModeRead, Waited, BusyRead, DetectionTimeOut, DetectionCut,
    CheckHdk, Answered, AccessNext
<1>7. CASE SelectStrategy \/ ModeUnsupported \/ HwActivated \/ UNCHANGED vars
  BY <1>7 DEF SelectStrategy, ModeUnsupported, HwActivated, vars
<1>8. QED BY <1>1, <1>2, <1>3, <1>4, <1>5, <1>6, <1>7 DEF Next

THEOREM RunsAccesses == Spec => AccessSpec
<1>1. Init => AccessInit
  BY DEF Init
<1>2. QED BY <1>1, StepIsAccess, StageInvariance, PTL DEF Spec, AccessSpec

\* The library as a whole touches the registers of the page it has selected.
THEOREM LibraryOnOwnPage == Spec => []OwnPage
  BY RunsAccesses, OwnPageOnly, TablesAreTyped, PTL

\* The library as a whole sees registers without pages.
THEOREM LibraryIsFlat == Spec => IsFlat
  BY RunsAccesses, StrategiesAreFlat, TablesAreTyped, PTL

-----------------------------------------------------------------------------
(* The controller, and the strategy that is selected.                       *)

HwInv ==
  /\ hw \in [version : Hardware, foreign : {V(3, 0), V(0, 0)},
             autoEnabled : BOOLEAN, heartBeat : BOOLEAN]
  /\ hw.version = V(3, 0) => hw.foreign = V(0, 0)
  /\ hw.heartBeat => hw.autoEnabled
  /\ up \subseteq {"autoBusy", "activationDone"}
  /\ "activationDone" \in up => ("autoBusy" \in up <=> hw.heartBeat)

\* The selected strategy has read its own version, and an open controller is
\* one of the versions from the limit of the HDK on.
SelectInv ==
  /\ strategy # "none" => VersionOf(strategy) = WordShown(strategy)
  /\ phase = "open" => Compatible(WordShown(strategy))
  /\ phase = "versions" /\ untried = <<>> => pc = "idle" /\ result = "none"

LEMMA HwInitially == Init => HwInv
  BY DEF Init, HwInv

LEMMA HwPreserved == HwInv /\ [Next]_vars => HwInv'
<1> SUFFICES ASSUME HwInv, [Next]_vars PROVE HwInv'
  OBVIOUS
<1>1. CASE HwActivated
  <2>1. up' = {"activationDone"} \cup (IF hw.heartBeat THEN {"autoBusy"} ELSE {}) /\ hw' = hw
    BY <1>1 DEF HwActivated
  <2>2. up' \subseteq {"autoBusy", "activationDone"} /\ ("autoBusy" \in up' <=> hw.heartBeat)
    BY <2>1
  <2>3. QED BY <2>1, <2>2 DEF HwInv
<1>2. CASE UNCHANGED <<hw, up>>
  BY <1>2 DEF HwInv
<1>3. CASE UNCHANGED vars
  BY <1>3 DEF vars, startVars, HwInv
<1>4. QED BY <1>1, <1>2, <1>3
  DEF Next, startVars, DetectionVars, ReadVersion, Tried, SelectStrategy, ReadStatus,
    ModeUnsupported, AutoRead, ModeRead, Waited, BusyRead, DetectionTimeOut, DetectionCut,
    ReadHdkVersion, CheckHdk, Access, Step

LEMMA SelectInitially == Init => SelectInv
<1> SUFFICES ASSUME Init PROVE SelectInv
  OBVIOUS
<1>1. untried # <<>>
  BY DEF Init, Latest
<1>2. QED BY <1>1 DEF Init, SelectInv

LEMMA SelectPreserved == SelectInv /\ StageInv /\ [Next]_vars => SelectInv'
<1> SUFFICES ASSUME SelectInv, StageInv, [Next]_vars PROVE SelectInv'
  OBVIOUS
<1>1. \A s : hw' = hw => WordShown(s)' = WordShown(s)
  BY DEF WordShown
<1>2. CASE ReadVersion
  BY <1>1, <1>2 DEF ReadVersion, startVars, SelectInv
<1>3. CASE Tried
  <2>1. /\ phase' = "versions" /\ hw' = hw /\ pc' = "idle" /\ result' = "none"
    BY <1>3 DEF Tried, Forget
  <2>2. strategy' = strategy \/ Supported(strategy', WordShown(strategy'))
    BY <1>3 DEF Tried
  <2>3. strategy' # "none" => VersionOf(strategy') = WordShown(strategy')
    BY <2>2 DEF SelectInv, Supported
  <2>4. QED BY <1>1, <2>1, <2>3 DEF SelectInv
<1>4. CASE CheckHdk
  BY <1>1, <1>4 DEF CheckHdk, DetectionVars, SelectInv
<1>5. CASE Step
  <2>1. phase = "versions" /\ untried = <<>> => FALSE
    BY <1>5 DEF SelectInv, Step, BusStep, SamePage, OtherPage, WritePage, ReadLine, ReadsDone,
      Same, Different, WriteLine, WritesDone, Fail, Touch, CallsBack, Selecting
  <2>2. UNCHANGED <<hw, phase, untried, strategy>>
    BY <1>5 DEF Step
  <2>3. QED BY <1>1, <2>1, <2>2 DEF SelectInv
<1>6. CASE HwActivated \/ UNCHANGED vars
  <2>1. UNCHANGED <<hw, phase, untried, strategy, pc, result>>
    BY <1>6 DEF HwActivated, vars, startVars, accessVars
  <2>2. QED BY <1>1, <2>1 DEF SelectInv
<1>7. CASE UNCHANGED <<hw, strategy>> /\ phase' \in {"detect", "hdk", "refused"}
  BY <1>1, <1>7 DEF SelectInv
<1>8. CASE Access
  BY <1>1, <1>8 DEF Access, startVars, SelectInv
<1>9. CASE ReadStatus \/ ReadHdkVersion \/ SelectStrategy \/ ModeUnsupported \/ AutoRead
           \/ ModeRead \/ Waited \/ BusyRead \/ DetectionTimeOut \/ DetectionCut
  <2>1. UNCHANGED <<hw, strategy>>
    BY <1>9 DEF ReadStatus, ReadHdkVersion, SelectStrategy, ModeUnsupported, AutoRead, ModeRead,
      Waited, BusyRead, DetectionTimeOut, DetectionCut, DetectionVars, startVars
  <2>2. phase' \in {"detect", "hdk", "refused"}
    BY <1>9 DEF ReadStatus, ReadHdkVersion, SelectStrategy, ModeUnsupported, AutoRead, ModeRead,
      Waited, BusyRead, DetectionTimeOut, DetectionCut, Answered, Goto, Finish, startVars
  <2>3. QED BY <1>7, <2>1, <2>2
<1>10. QED BY <1>2, <1>3, <1>4, <1>5, <1>6, <1>8, <1>9 DEF Next

-----------------------------------------------------------------------------
(* The detection of the heart beat mode.                                    *)

\* What the value read last says of the controller.
Fresh ==
  /\ step = "auto" => (Is <=> hw.autoEnabled)
  /\ step = "mode" => (Is <=> hw.heartBeat /\ hw.version # V(3, 0))
  /\ step \in {"wait done", "wait done 3.0.0"} /\ Is => "activationDone" \in up
  /\ step = "busy" => (Is <=> "autoBusy" \in up)

\* The field is read once in an access, and is then what it says.
DetectInv ==
  phase = "detect" =>
    /\ pc # "idle" \/ result # "none" => access = FieldRead.bus /\ access # Unsupported
    /\ pc \in {"idle", "read page", "write page", "read"}
    /\ pc \in {"read page", "write page"} => next = access.reads.from
    /\ pc = "read" => next >= access.reads.from
    /\ pc \in {"read page", "write page"} \/ (pc = "read" /\ next <= access.reads.to) =>
         bus = Quiet
    /\ (pc = "read" /\ next > access.reads.to) \/ result = "ok" => Fresh

\* What the detection knows at its steps.
KnownInv ==
  /\ phase = "versions" => ~heartBeat /\ step = "auto"
  /\ phase = "detect" =>
       /\ step # "auto" => auto = hw.autoEnabled
       /\ step \in {"auto", "mode", "wait done 3.0.0", "busy"} => ~heartBeat
       /\ step \in {"wait done", "wait not busy"} =>
            /\ heartBeat = (hw.heartBeat /\ hw.version # V(3, 0))
            /\ strategy # "3.0.0"
       /\ step = "busy" => "activationDone" \in up

LibraryInv == IInv /\ StageInv /\ HwInv /\ SelectInv /\ DetectInv /\ KnownInv /\ HeartBeatKnown

\* The field that is read has one bit and one line.
LEMMA FieldIsOneBit ==
  ASSUME StageInv, phase = "detect", FieldRead.bus # Unsupported
  PROVE  /\ OneBit(FieldRead, BitOf[FieldAt]) /\ FieldAt \in Detected
         /\ FieldRead.bus.reads.from \in Nat /\ FieldRead.bus.reads.to = FieldRead.bus.reads.from
         /\ strategy = "3.0.0" => step # "mode"
<1>1. strategy \in Names /\ FieldAt \in Detected
  BY StrategyNamed, FieldDetected
<1>2. FieldRead = StatusRegister(Strategies[strategy])[FieldAt]
  BY DEF FieldRead
<1>3. FieldRead # UnsupportedStatus
  BY DEF UnsupportedStatus
<1>4. OneBit(FieldRead, BitOf[FieldAt]) /\ ~(strategy = "3.0.0" /\ FieldAt = "heartBeatModeEnabled")
  BY <1>1, <1>2, <1>3, StatusTable
<1>5. FieldRead.bus \in Accesses
  BY <1>1, <1>2, StatusAccess
<1>6. FieldRead.bus.reads.from \in Nat
  BY <1>5, AccessTyped, TablesAreTyped
<1>7. FieldRead.bus.reads.to = FieldRead.bus.reads.from + 1 - 1
  BY <1>4 DEF OneBit
<1>8. step = "mode" => FieldAt = "heartBeatModeEnabled"
  BY Zenon DEF FieldAt
<1>9. QED BY <1>1, <1>4, <1>6, <1>7, <1>8

LEMMA FieldOfStep ==
  /\ step = "auto" => FieldAt = "autoEnabled"
  /\ step = "mode" => FieldAt = "heartBeatModeEnabled"
  /\ step \in {"wait done", "wait done 3.0.0"} => FieldAt = "activationDone"
  /\ step \in {"wait not busy", "busy"} => FieldAt = "autoBusy"
<1>1. step = "auto" => FieldAt = "autoEnabled"
  BY Zenon DEF FieldAt
<1>2. step = "mode" => FieldAt = "heartBeatModeEnabled"
  BY Zenon DEF FieldAt
<1>3. step \in {"wait done", "wait done 3.0.0"} => FieldAt = "activationDone"
  BY Zenon DEF FieldAt
<1>4. step \in {"wait not busy", "busy"} => FieldAt = "autoBusy"
  BY Zenon DEF FieldAt
<1>5. QED BY <1>1, <1>2, <1>3, <1>4

LEMMA FreshWhenRead ==
  ASSUME StageInv, HwInv, phase = "detect", FieldRead.bus # Unsupported,
         seen' = StatusValue(FieldRead.field, StatusWord), UNCHANGED <<hw, up, step>>
  PROVE  Fresh'
<1>1. FieldRead.field = Field(BitOf[FieldAt], {BitOf[FieldAt]}) /\ FieldAt \in Detected
  BY FieldIsOneBit DEF OneBit
<1>2. seen' = IF BitOf[FieldAt] \in StatusWord THEN {0} ELSE {}
  BY <1>1, BitOfInt, ValueOfOne
<1>3. Is' <=> BitOf[FieldAt] \in StatusWord
  BY <1>2 DEF Is
<1>4. /\ 3 \in StatusWord <=> hw.autoEnabled
      /\ 11 \in StatusWord <=> hw.heartBeat /\ hw.version # V(3, 0)
      /\ 2 \in StatusWord <=> "activationDone" \in up
      /\ 4 \in StatusWord <=> "autoBusy" \in up
  BY WordOfController DEF HwInv
<1>5. /\ BitOf["autoEnabled"] = 3 /\ BitOf["heartBeatModeEnabled"] = 11
      /\ BitOf["activationDone"] = 2 /\ BitOf["autoBusy"] = 4
  BY DEF BitOf
<1>6. QED BY <1>3, <1>4, <1>5, FieldOfStep DEF Fresh

LEMMA SameField ==
  ASSUME UNCHANGED <<step, strategy>> PROVE FieldRead' = FieldRead
  BY DEF FieldRead, FieldAt

\* An access of the detection goes on.
LEMMA DetectStep ==
  ASSUME IInv, StageInv, HwInv, DetectInv, phase = "detect", Step
  PROVE  DetectInv'
<1>1. UNCHANGED <<hw, up, phase, strategy, step>>
  BY DEF Step
<1>2. FieldRead' = FieldRead
  BY <1>1, SameField
<1>3. pc # "idle"
  BY DEF Step, BusStep, SamePage, OtherPage, WritePage, ReadLine, ReadsDone, Same, Different,
    WriteLine, WritesDone, Fail, Touch, CallsBack, Selecting
<1>4. access = FieldRead.bus /\ FieldRead.bus # Unsupported
  BY <1>3 DEF DetectInv
<1>5. /\ access.reads.from \in Nat /\ access.reads.to = access.reads.from
      /\ access.writes.from = 0 /\ access.writes.to = 0 + 0 - 1
  BY <1>4, FieldIsOneBit DEF OneBit, NoLines, Lines
<1>6. next \in Nat
  BY DEF IInv, AccessTypeOK
<1>7. Fresh /\ UNCHANGED seen => Fresh'
  BY <1>1 DEF Fresh, Is
<1>8. CASE ReadLine
  <2>1. /\ pc = "read" /\ next <= access.reads.to /\ next' = next + 1
        /\ UNCHANGED <<page, pc, access, todo, result>> /\ bus'.op = "read"
    BY <1>8 DEF ReadLine, Touch
  <2>2. bus = Quiet
    BY <2>1 DEF DetectInv
  <2>3. Quiet.op = "none"
    BY DEF Quiet
  <2>4. bus' # bus
    BY <2>1, <2>2, <2>3
  <2>5. seen' = StatusValue(FieldRead.field, StatusWord)
    BY <2>4 DEF Step
  <2>6. Fresh'
    BY <1>1, <1>4, <2>5, FreshWhenRead
  <2>7. next >= access.reads.from
    BY <2>1 DEF DetectInv
  <2>8. next' > access.reads.to /\ next' >= access.reads.from
    BY <1>5, <1>6, <2>1, <2>7
  <2>9. ~(next' <= access.reads.to)
    BY <1>5, <1>6, <2>1, <2>8
  <2>10. QED BY <1>1, <1>2, <1>3, <1>4, <2>1, <2>6, <2>8, <2>9 DEF DetectInv
<1>9. CASE SamePage \/ OtherPage \/ WritePage \/ (Fail /\ Selecting)
  <2>1. pc \in {"read page", "write page"} /\ bus' = bus /\ UNCHANGED <<access, next>>
    BY <1>9 DEF SamePage, OtherPage, WritePage, Fail, Selecting, Selected, End
  <2>2. UNCHANGED seen
    BY <2>1 DEF Step
  <2>3. /\ pc' \in {"idle", "read page", "write page", "read"}
        /\ result' \in {result, "error"}
    BY <1>9 DEF SamePage, OtherPage, WritePage, Fail, Selecting, Selected, End
  <2>4. next = access.reads.from /\ bus = Quiet
    BY <2>1 DEF DetectInv
  <2>5. ~(next' > access.reads.to) /\ next' >= access.reads.from
    <3>1. PICK line \in Nat : line = access.reads.from
      BY <1>5
    <3>2. next' = line /\ access.reads.to = line
      BY <1>5, <2>1, <2>4, <3>1
    <3>3. QED BY <3>1, <3>2
  <2>6. result' = "ok" => Fresh'
    BY <1>7, <2>2, <2>3 DEF DetectInv
  <2>7. QED BY <1>1, <1>2, <1>4, <2>1, <2>3, <2>4, <2>5, <2>6 DEF DetectInv
<1>10. CASE ReadsDone
  <2>1. pc = "read" /\ next > access.reads.to
    BY <1>10 DEF ReadsDone
  <2>2. Fresh
    BY <2>1 DEF DetectInv
  <2>3. access.writes.from > access.writes.to
    BY <1>5
  <2>4. End("ok")
    BY <1>10, <2>3 DEF ReadsDone
  <2>5. UNCHANGED seen
    BY <2>4 DEF Step, End
  <2>6. pc' = "idle" /\ result' = "ok" /\ access' = access
    BY <2>4 DEF End
  <2>7. QED BY <1>1, <1>2, <1>4, <1>7, <2>2, <2>5, <2>6 DEF DetectInv
<1>11. CASE Fail /\ ~Selecting
  <2>1. End("error")
    BY <1>11 DEF Fail
  <2>2. pc' = "idle" /\ result' = "error" /\ access' = access
    BY <2>1 DEF End
  <2>3. QED BY <1>1, <1>2, <1>4, <2>2 DEF DetectInv
<1>12. pc \notin {"compare", "write"}
  BY DEF DetectInv
<1>13. ~(Same \/ Different \/ WriteLine \/ WritesDone)
  BY <1>12 DEF Same, Different, WriteLine, WritesDone, Touch
<1>14. QED BY <1>8, <1>9, <1>10, <1>11, <1>13 DEF Step, BusStep

LEMMA DetectPreserved ==
  IInv /\ StageInv /\ HwInv /\ SelectInv /\ DetectInv /\ KnownInv /\ [Next]_vars => DetectInv'
<1> SUFFICES ASSUME IInv, StageInv, HwInv, SelectInv, DetectInv, KnownInv, [Next]_vars,
                    phase' = "detect"
             PROVE  DetectInv'
  BY DEF DetectInv
<1>1. CASE Step
  <2>1. phase = "detect"
    BY <1>1 DEF Step
  <2>2. QED BY <1>1, <2>1, DetectStep
<1>2. CASE pc' = "idle" /\ result' = "none"
  BY <1>2 DEF DetectInv
<1>3. CASE SelectStrategy
  <2>1. pc = "idle" /\ result = "none" /\ UNCHANGED <<pc, result>>
    BY <1>3 DEF SelectStrategy, SelectInv, accessVars
  <2>2. QED BY <1>2, <2>1
<1>4. CASE ModeUnsupported
  <2>1. pc' = "idle" /\ result' = "none"
    BY <1>4 DEF ModeUnsupported, accessVars
  <2>2. QED BY <1>2, <2>1
<1>5. CASE AutoRead \/ ModeRead \/ Waited \/ BusyRead \/ DetectionTimeOut \/ DetectionCut
  <2>1. pc' = "idle" /\ result' = "none"
    BY <1>5 DEF AutoRead, ModeRead, Waited, BusyRead, DetectionTimeOut, DetectionCut, Answered,
      Forget
  <2>2. QED BY <1>2, <2>1
<1>6. CASE ReadStatus
  <2>1. FieldRead' = FieldRead /\ phase = "detect"
    BY <1>6, SameField DEF ReadStatus, startVars
  <2>2. FieldRead.bus # Unsupported /\ Begin(FieldRead.bus)
    BY <1>6 DEF ReadStatus
  <2>3. FieldRead.bus.reads.from \in Nat /\ FieldRead.bus.reads.to = FieldRead.bus.reads.from
    BY <2>1, <2>2, FieldIsOneBit
  <2>4. /\ access' = FieldRead.bus /\ next' = FieldRead.bus.reads.from /\ bus' = Quiet
        /\ result' = "none" /\ pc' \in {"read", "read page", "write page"}
    BY <2>2 DEF Begin
  <2>5. ~(next' > access'.reads.to) /\ next' >= access'.reads.from
    <3>1. PICK line \in Nat : line = FieldRead.bus.reads.from
      BY <2>3
    <3>2. next' = line /\ access'.reads.to = line /\ access'.reads.from = line
      BY <2>3, <2>4, <3>1
    <3>3. QED BY <3>1, <3>2
  <2>6. QED BY <2>1, <2>2, <2>4, <2>5 DEF DetectInv
<1>7. CASE HwActivated
  <2>1. /\ UNCHANGED <<accessVars, hw, phase, strategy, step, seen>>
        /\ "activationDone" \notin up /\ "activationDone" \in up'
    BY <1>7 DEF HwActivated
  <2>2. FieldRead' = FieldRead
    BY <2>1, SameField
  <2>3. phase = "detect" /\ step # "busy"
    BY <2>1 DEF KnownInv
  <2>4. Fresh => Fresh'
    BY <2>1, <2>3 DEF Fresh, Is
  <2>5. UNCHANGED <<pc, access, next, bus, result>>
    BY <2>1 DEF accessVars
  <2>6. QED BY <2>1, <2>2, <2>3, <2>4, <2>5 DEF DetectInv
<1>8. CASE UNCHANGED vars
  <2>1. UNCHANGED <<pc, access, next, bus, result, hw, up, phase, strategy, step, seen>>
    BY <1>8 DEF vars, accessVars, startVars
  <2>2. FieldRead' = FieldRead
    BY <2>1, SameField
  <2>3. Fresh => Fresh'
    BY <2>1 DEF Fresh, Is
  <2>4. QED BY <2>1, <2>2, <2>3 DEF DetectInv
<1>9. CASE ReadVersion \/ Tried \/ ReadHdkVersion \/ CheckHdk \/ Access
  BY <1>9 DEF ReadVersion, Tried, ReadHdkVersion, CheckHdk, Access, startVars
<1>10. QED BY <1>1, <1>3, <1>4, <1>5, <1>6, <1>7, <1>8, <1>9 DEF Next

\* An answer is the one of the controller.
LEMMA AnswerIsFresh ==
  ASSUME StageInv, DetectInv, NEW s, Answered(s)
  PROVE  /\ phase = "detect" /\ step = s /\ Fresh /\ (step = "mode" => strategy # "3.0.0")
         /\ UNCHANGED pc /\ result' = "none"
<1>1. phase = "detect" /\ step = s /\ result = "ok" /\ Forget
  BY DEF Answered
<1>2. Fresh /\ FieldRead.bus # Unsupported
  BY <1>1 DEF DetectInv
<1>3. step = "mode" => strategy # "3.0.0"
  BY <1>1, <1>2, FieldIsOneBit
<1>4. QED BY <1>1, <1>2, <1>3 DEF Forget

LEMMA KnownPreserved ==
  StageInv /\ HwInv /\ DetectInv /\ KnownInv /\ [Next]_vars => KnownInv'
<1> SUFFICES ASSUME StageInv, HwInv, DetectInv, KnownInv, [Next]_vars PROVE KnownInv'
  OBVIOUS
<1>1. CASE phase' \in {"hdk", "open", "refused"}
  BY <1>1 DEF KnownInv
<1>2. CASE UNCHANGED <<hw, up, phase, strategy, step, auto, heartBeat>>
  BY <1>2 DEF KnownInv
<1>3. CASE Tried
  BY <1>3 DEF Tried, KnownInv
<1>4. CASE SelectStrategy
  BY <1>4 DEF SelectStrategy, KnownInv
<1>5. CASE HwActivated
  <2>1. UNCHANGED <<hw, phase, strategy, step, auto, heartBeat>> /\ "activationDone" \in up'
    BY <1>5 DEF HwActivated
  <2>2. QED BY <2>1 DEF KnownInv
<1>6. CASE ModeUnsupported
  BY <1>1, <1>6 DEF ModeUnsupported, Goto, Finish, DetectionVars, KnownInv
<1>7. CASE AutoRead
  <2>1. /\ Fresh /\ step = "auto" /\ phase = "detect" /\ auto' = Is /\ step' = "mode"
        /\ UNCHANGED <<hw, up, phase, strategy, heartBeat>>
    BY <1>7, AnswerIsFresh DEF AutoRead, Goto, DetectionVars
  <2>2. hw.autoEnabled \in BOOLEAN
    BY DEF HwInv
  <2>3. auto' = hw.autoEnabled
    BY Zenon, <2>1, <2>2 DEF Fresh, Is
  <2>4. QED BY <2>1, <2>3 DEF KnownInv
<1>8. CASE ModeRead
  <2>1. /\ Fresh /\ step = "mode" /\ phase = "detect" /\ heartBeat' = Is
        /\ strategy # "3.0.0" /\ UNCHANGED <<hw, up, strategy, auto>>
    BY <1>8, AnswerIsFresh DEF ModeRead, DetectionVars
  <2>2. \/ phase' = "hdk"
        \/ phase' = phase /\ step' \in {"wait done", "wait not busy"}
    BY <1>8 DEF ModeRead, Goto, Finish
  <2>3. heartBeat' = (hw.heartBeat /\ hw.version # V(3, 0))
    BY Zenon, <2>1 DEF Fresh, Is
  <2>4. CASE phase' = "hdk"
    BY <1>1, <2>4
  <2>5. CASE phase' = phase /\ step' \in {"wait done", "wait not busy"}
    BY <2>1, <2>3, <2>5 DEF KnownInv
  <2>6. QED BY <2>2, <2>4, <2>5
<1>9. CASE Waited
  <2>1. /\ Fresh /\ phase = "detect" /\ UNCHANGED <<hw, up, strategy, auto, heartBeat>>
        /\ step \in {"wait done", "wait not busy", "wait done 3.0.0"}
    BY <1>9, AnswerIsFresh DEF Waited, DetectionVars
  <2>2. CASE phase' = "hdk"
    BY <1>1, <2>2
  <2>3. CASE phase' = phase /\ step' = step
    BY <1>2, <2>1, <2>3
  <2>4. CASE step = "wait done 3.0.0" /\ Is /\ step' = "busy" /\ phase' = phase
    BY <2>1, <2>4 DEF KnownInv, Fresh
  <2>5. QED BY <1>9, <2>2, <2>3, <2>4 DEF Waited, Answered, Goto, Finish
<1>10. CASE BusyRead \/ DetectionTimeOut \/ DetectionCut \/ CheckHdk
  BY <1>1, <1>10 DEF BusyRead, DetectionTimeOut, DetectionCut, CheckHdk, Finish
<1>11. CASE ReadVersion \/ ReadStatus \/ ReadHdkVersion \/ Access \/ Step \/ UNCHANGED vars
  <2>1. UNCHANGED <<hw, up, phase, strategy, step, auto, heartBeat>>
    BY <1>11 DEF ReadVersion, ReadStatus, ReadHdkVersion, Access, Step, vars, startVars
  <2>2. QED BY <1>2, <2>1
<1>12. QED BY <1>3, <1>4, <1>5, <1>6, <1>7, <1>8, <1>9, <1>10, <1>11 DEF Next

\* The strategy of a controller 3.0.0 is the only one that has its version.
LEMMA HomeOfOldest ==
  ASSUME NEW s \in Names, Home(V(3, 0)) = Home(VersionOf(s)) PROVE s = "3.0.0"
<1>1. s # "3.0.0" => VersionOf(s) \in {V(3, 1), V(3, 2)}
  BY VersionTable DEF Names
<1>2. QED BY <1>1, HomeTable

LEMMA HeartBeatPreserved ==
  StageInv /\ HwInv /\ DetectInv /\ KnownInv /\ HeartBeatKnown /\ [Next]_vars => HeartBeatKnown'
<1> SUFFICES ASSUME StageInv, HwInv, DetectInv, KnownInv, HeartBeatKnown, [Next]_vars,
                    phase' \in {"hdk", "open"}, Home(hw'.version) = Home(VersionOf(strategy'))
             PROVE  (heartBeat' => hw'.heartBeat) /\ (heartBeat' \/ cut' \/ ~hw'.heartBeat)
  BY DEF HeartBeatKnown, Home, VersionOf
<1>1. hw' = hw /\ (phase = "detect" \/ phase \in {"hdk", "open"}) /\ strategy' = strategy
  BY DEF Next, vars, startVars, DetectionVars, ReadVersion, Tried, SelectStrategy, ReadStatus,
    ModeUnsupported, AutoRead, ModeRead, Waited, BusyRead, DetectionTimeOut, DetectionCut,
    ReadHdkVersion, CheckHdk, Access, Step, HwActivated, Answered
<1>2. CASE phase \in {"hdk", "open"}
  <2>1. UNCHANGED <<heartBeat, cut>>
    BY <1>2 DEF Next, vars, startVars, DetectionVars, ReadVersion, Tried, SelectStrategy,
      ReadStatus, ModeUnsupported, AutoRead, ModeRead, Waited, BusyRead, DetectionTimeOut,
      DetectionCut, ReadHdkVersion, CheckHdk, Access, Step, HwActivated, Answered
  <2>2. QED BY <1>1, <1>2, <2>1 DEF HeartBeatKnown
<1>3. CASE phase = "detect"
  <2>1. strategy \in Names
    BY <1>3, StrategyNamed
  <2>2. hw.version = V(3, 0) => strategy = "3.0.0"
    BY <1>1, <2>1, HomeOfOldest
  <2>3. CASE ModeUnsupported
    <3>1. step = "mode" /\ ~auto /\ heartBeat' = heartBeat
      BY <2>3 DEF ModeUnsupported, Goto
    <3>2. ~heartBeat /\ auto = hw.autoEnabled
      BY <1>3, <3>1 DEF KnownInv
    <3>3. QED BY <1>1, <3>1, <3>2 DEF HwInv
  <2>4. CASE ModeRead
    <3>1. Fresh /\ step = "mode" /\ heartBeat' = Is /\ strategy # "3.0.0" /\ ~Is /\ ~auto
      BY <1>3, <2>4, AnswerIsFresh DEF ModeRead, Goto
    <3>2. auto = hw.autoEnabled
      BY <1>3, <3>1 DEF KnownInv
    <3>3. QED BY <1>1, <3>1, <3>2 DEF HwInv
  <2>5. CASE Waited
    <3>1. step \in {"wait done", "wait not busy"} /\ heartBeat' = heartBeat
      BY <1>3, <2>5 DEF Waited, Answered, Goto
    <3>2. heartBeat = (hw.heartBeat /\ hw.version # V(3, 0)) /\ strategy # "3.0.0"
      BY <1>3, <3>1 DEF KnownInv
    <3>3. QED BY <1>1, <2>2, <3>1, <3>2
  <2>6. CASE BusyRead
    <3>1. Fresh /\ step = "busy" /\ heartBeat' = Is
      BY <2>6, AnswerIsFresh DEF BusyRead
    <3>2. "activationDone" \in up
      BY <1>3, <3>1 DEF KnownInv
    <3>3. QED BY <1>1, <3>1, <3>2 DEF Fresh, HwInv
  <2>7. CASE DetectionCut
    <3>1. cut' = TRUE /\ heartBeat' = heartBeat
      BY <2>7 DEF DetectionCut
    <3>2. heartBeat => hw.heartBeat
      BY <1>3 DEF KnownInv, StageInv, Steps
    <3>3. QED BY <1>1, <3>1, <3>2
  <2>8. QED BY <1>3, <2>3, <2>4, <2>5, <2>6, <2>7
    DEF Next, vars, startVars, ReadVersion, Tried, SelectStrategy, ReadStatus,
      AutoRead, DetectionTimeOut, ReadHdkVersion, CheckHdk, Access, Step, HwActivated,
      Goto
<1>4. QED BY <1>1, <1>2, <1>3

THEOREM LibraryInitially == Init => LibraryInv
<1> SUFFICES ASSUME Init PROVE LibraryInv
  OBVIOUS
<1>1. IInv
  BY Initially, TablesAreTyped DEF Init
<1>2. StageInv /\ HwInv /\ SelectInv
  BY StageInitially, HwInitially, SelectInitially
<1>3. DetectInv /\ KnownInv /\ HeartBeatKnown
  BY DEF Init, DetectInv, KnownInv, HeartBeatKnown
<1>4. QED BY <1>1, <1>2, <1>3 DEF LibraryInv

THEOREM LibraryPreserved == LibraryInv /\ [Next]_vars => LibraryInv'
<1> SUFFICES ASSUME LibraryInv, [Next]_vars PROVE LibraryInv'
  OBVIOUS
<1>1. IInv /\ StageInv /\ HwInv /\ SelectInv /\ DetectInv /\ KnownInv /\ HeartBeatKnown
  BY DEF LibraryInv
<1>2. IInv'
  BY <1>1, StepIsAccess, Preserved, TablesAreTyped
<1>3. StageInv' /\ HwInv' /\ SelectInv'
  BY <1>1, StagePreserved, HwPreserved, SelectPreserved
<1>4. DetectInv' /\ KnownInv' /\ HeartBeatKnown'
  BY <1>1, DetectPreserved, KnownPreserved, HeartBeatPreserved
<1>5. QED BY <1>2, <1>3, <1>4 DEF LibraryInv

THEOREM LibraryInvariance == Spec => []LibraryInv
  BY LibraryInitially, LibraryPreserved, PTL DEF Spec

\* The library knows whether the controller is in heart beat mode.
THEOREM HeartBeatIsKnown == Spec => []HeartBeatKnown
<1>1. LibraryInv => HeartBeatKnown
  BY DEF LibraryInv
<1>2. QED BY <1>1, LibraryInvariance, PTL

-----------------------------------------------------------------------------
(* All states are typed.                                                    *)

SeenInv == seen \subseteq {0}

LEMMA SeenPreserved == StageInv /\ SeenInv /\ [Next]_vars => SeenInv'
<1> SUFFICES ASSUME StageInv, SeenInv, [Next]_vars PROVE SeenInv'
  OBVIOUS
<1>1. CASE UNCHANGED seen \/ seen' = {}
  BY <1>1 DEF SeenInv
<1>2. CASE Step /\ phase = "detect"
  <2>1. strategy \in Names /\ FieldAt \in Detected
    BY <1>2, StrategyNamed, FieldDetected
  <2>2. FieldRead = UnsupportedStatus \/ OneBit(FieldRead, BitOf[FieldAt])
    BY <2>1, StatusTable DEF FieldRead
  <2>3. FieldRead = UnsupportedStatus
          \/ FieldRead.field = Field(BitOf[FieldAt], {BitOf[FieldAt]})
    BY <2>2 DEF OneBit
  <2>4. StatusValue(FieldRead.field, StatusWord) \in {{}, {0}}
    BY <2>1, <2>3, BitOfInt, ValueOfOne, ValueOfNone
  <2>5. QED BY <1>2, <2>4 DEF Step, SeenInv
<1>3. CASE Step /\ phase # "detect"
  BY <1>1, <1>3 DEF Step
<1>4. QED BY <1>1, <1>2, <1>3 DEF Next, vars, startVars, ReadVersion, Tried, SelectStrategy,
  ReadStatus, ModeUnsupported, AutoRead, ModeRead, Waited, BusyRead, DetectionTimeOut,
  DetectionCut, ReadHdkVersion, CheckHdk, Access, HwActivated

\* Every state of the library is typed.
THEOREM LibraryTyped == Spec => []TypeOK
<1>1. Init => SeenInv
  BY DEF Init, SeenInv
<1>2. LibraryInv => StageInv
  BY DEF LibraryInv
<1>3. LibraryInv /\ SeenInv => TypeOK
  <2>1. SUFFICES ASSUME LibraryInv, SeenInv PROVE TypeOK
    OBVIOUS
  <2>2. AccessTypeOK /\ StageInv /\ up \subseteq {"autoBusy", "activationDone"}
    BY <2>1 DEF LibraryInv, IInv, HwInv
  <2>3. seen \subseteq WordBits
    BY <2>1 DEF SeenInv, WordBits
  <2>4. {auto, heartBeat, cut} \subseteq BOOLEAN
    BY <2>2 DEF StageInv
  <2>5. /\ phase \in {"versions", "detect", "hdk", "open", "refused"}
        /\ strategy \in DOMAIN Strategies \cup {"none"} /\ step \in Steps
    BY <2>2, StrategyTable DEF StageInv
  <2>6. QED BY <2>2, <2>3, <2>4, <2>5 DEF TypeOK, Steps
<1>4. QED BY <1>1, <1>2, <1>3, SeenPreserved, LibraryInvariance, PTL DEF Spec

-----------------------------------------------------------------------------
(* The controller that is accepted has the registers of its strategy.       *)

\* The controller is of the version of the strategy that is open.
LEMMA OpenIsHome ==
  ASSUME LibraryInv, phase = "open"
  PROVE  /\ strategy \in Names \ {"3.0.0"}
         /\ hw.version = VersionOf(strategy)
<1>1. strategy \in Names /\ StageInv /\ HwInv /\ SelectInv /\ strategy # "none"
  BY StrategyNamed DEF LibraryInv, StageInv
<1>2. Compatible(VersionOf(strategy)) /\ VersionOf(strategy) = WordShown(strategy)
  BY <1>1 DEF SelectInv
<1>3. strategy # "3.0.0"
  <2>1. ~Compatible(V(3, 0))
    BY DEF Compatible, HdkLimit, V
  <2>2. QED BY <1>2, <2>1, VersionTable
<1>4. hw.version = VersionOf(strategy)
  <2>1. hw.version = V(3, 0) => WordShown(strategy) = V(0, 0)
    BY <1>1, <1>3 DEF WordShown, HwInv
  <2>2. hw.version # V(3, 0) => WordShown(strategy) = hw.version
    BY <1>3 DEF WordShown
  <2>3. ~Compatible(V(0, 0))
    BY DEF Compatible, HdkLimit, V
  <2>4. QED BY <1>2, <2>1, <2>2, <2>3
<1>5. QED BY <1>1, <1>3, <1>4

\* A controller the manager accepts is accessed with its own registers, all of
\* which it has.
THEOREM AcceptedControllerFits == Spec => []AcceptedFits
<1>1. LibraryInv => AcceptedFits
  <2> SUFFICES ASSUME LibraryInv, phase = "open"
               PROVE  /\ Home(hw.version) # "none"
                      /\ Strategies[strategy] = Strategies[Home(hw.version)]
                      /\ Unsupported \notin AccessesIn(Strategies[strategy])
    BY DEF AcceptedFits
  <2>1. strategy \in {"3.1.0", "3.2.0", "3.2.1", "3.2.2"} /\ hw.version = VersionOf(strategy)
    BY OpenIsHome DEF Names
  <2>2. Home(hw.version) = IF strategy = "3.1.0" THEN "3.1.0" ELSE "3.2.0"
    BY <2>1, VersionTable, HomeTable
  <2>3. Strategies[strategy] = Strategies[Home(hw.version)]
    BY <2>1, <2>2, MethodsTable
  <2>4. Unsupported \notin AccessesIn(Strategies[strategy])
    BY <2>1, LaterIsComplete, CompleteAccesses, NotMade DEF Names
  <2>5. QED BY <2>2, <2>3, <2>4
<1>2. QED BY <1>1, LibraryInvariance, PTL

-----------------------------------------------------------------------------
(* The decoding of the fields.                                              *)

\* The bits of a field that lies from a bit to another are counted from the first.
LEMMA BitsOfRange ==
  ASSUME NEW l \in Int, NEW h \in Int, NEW b \in Int
  PROVE  Bits(l, l..h, {b}) = IF b \in l..h THEN {b - l} ELSE {}
<1>1. {c \in {b} \cap (l..h) : c >= l} = IF b \in l..h THEN {b} ELSE {}
  OBVIOUS
<1>2. CASE b \in l..h
  BY <1>1, <1>2 DEF Bits
<1>3. CASE b \notin l..h
  BY <1>1, <1>3 DEF Bits
<1>4. QED BY <1>2, <1>3

LEMMA FirstOfRange ==
  ASSUME NEW l \in Int, NEW h \in Int, l <= h
  PROVE  (CHOOSE x \in l..h : \A c \in l..h : x <= c) = l
<1> DEFINE P(x) == x \in l..h /\ \A c \in l..h : x <= c
<1>1. P(l)
  OBVIOUS
<1>2. \A x : P(x) => x = l
  OBVIOUS
<1>3. QED BY <1>1, <1>2

\* The flags of the status word, and its two numbers, from 3.1.0 on.
LEMMA PositionsAre ==
  /\ V320!StatusMsb = [V320!StatusLsb EXCEPT !.licenseTimerLoadedNumber = 20,
                                            !.ipActivatorNumber = 31]
  /\ V320!StatusLsb["licenseTimerLoadedNumber"] = 19
  /\ V320!StatusLsb["ipActivatorNumber"] = 21
  /\ \A f \in DOMAIN V320!StatusLsb : V320!StatusLsb[f] \in Int
  /\ {"licenseTimerLoadedNumber", "ipActivatorNumber"} \subseteq DOMAIN V320!StatusLsb
<1>1. V320!StatusMsb = [V320!StatusLsb EXCEPT !.licenseTimerLoadedNumber = 20,
                                              !.ipActivatorNumber = 31]
  BY DEF V320!StatusMsb
<1>2. /\ V320!StatusLsb["licenseTimerLoadedNumber"] = 19
      /\ V320!StatusLsb["ipActivatorNumber"] = 21
  BY DEF V320!StatusLsb
<1>3. \A f \in DOMAIN V320!StatusLsb : V320!StatusLsb[f] \in Int
  BY DEF V320!StatusLsb
<1>4. {"licenseTimerLoadedNumber", "ipActivatorNumber"} \subseteq DOMAIN V320!StatusLsb
  BY DEF V320!StatusLsb
<1>5. QED BY <1>1, <1>2, <1>3, <1>4

\* The masks of the second table, flag by flag, are at the positions of the first.
LEMMA MasksAre ==
  /\ DOMAIN V320!StatusMask = DOMAIN V320!StatusLsb
  /\ V320!StatusMask["licenseTimerLoadedNumber"] = {19, 20}
  /\ V320!StatusMask["ipActivatorNumber"] = 21..31
  /\ \A f \in DOMAIN V320!StatusLsb \ {"licenseTimerLoadedNumber", "ipActivatorNumber"} :
       V320!StatusMask[f] = {V320!StatusLsb[f]}
  BY DEF V320!StatusMask, V320!StatusLsb

LEMMA FieldsLie ==
  /\ DOMAIN V320!StatusRegister = DOMAIN V320!StatusLsb
  /\ V322!StatusLsb = V320!StatusLsb /\ V322!StatusMsb = V320!StatusMsb
  /\ \A f \in DOMAIN V320!StatusLsb :
       /\ V320!StatusLsb[f] \in Int /\ V320!StatusMsb[f] \in Int
       /\ V320!StatusLsb[f] <= V320!StatusMsb[f]
<1>1. DOMAIN V320!StatusRegister = DOMAIN V320!StatusLsb
  BY DEF V320!StatusLsb, V320!StatusRegister, V320!ReadyStatus, V320!AutonomousStatus,
    V320!MeteringStatus, V320!TimerStatus, V320!SampleStatus, V320!SessionStatus,
    V320!LicenseTypeStatus, V320!CountStatus
<1>2. V322!StatusLsb = V320!StatusLsb
  BY DEF V320!StatusLsb, V322!StatusLsb, V322!V320!StatusLsb
<1>3. V322!V320!StatusLsb = V320!StatusLsb
  BY DEF V320!StatusLsb, V322!V320!StatusLsb
<1>4. V322!StatusMsb = V320!StatusMsb
  BY <1>3 DEF V320!StatusMsb, V322!StatusMsb, V322!V320!StatusMsb
<1>5. \A f \in DOMAIN V320!StatusLsb :
        /\ V320!StatusLsb[f] \in Int /\ V320!StatusMsb[f] \in Int
        /\ V320!StatusLsb[f] <= V320!StatusMsb[f]
  <2> SUFFICES ASSUME NEW f \in DOMAIN V320!StatusLsb
               PROVE  /\ V320!StatusLsb[f] \in Int /\ V320!StatusMsb[f] \in Int
                      /\ V320!StatusLsb[f] <= V320!StatusMsb[f]
    OBVIOUS
  <2>1. CASE f = "licenseTimerLoadedNumber"
    <3>1. V320!StatusLsb[f] = 19 /\ V320!StatusMsb[f] = 20
      BY <2>1, PositionsAre
    <3>2. QED BY <3>1
  <2>2. CASE f = "ipActivatorNumber"
    <3>1. V320!StatusLsb[f] = 21 /\ V320!StatusMsb[f] = 31
      BY <2>2, PositionsAre
    <3>2. QED BY <3>1
  <2>3. CASE f # "licenseTimerLoadedNumber" /\ f # "ipActivatorNumber"
    <3>1. V320!StatusMsb[f] = V320!StatusLsb[f] /\ V320!StatusLsb[f] \in Int
      BY <2>3, PositionsAre
    <3>2. QED BY <3>1
  <2>4. QED BY <2>1, <2>2, <2>3
<1>6. QED BY <1>1, <1>2, <1>4, <1>5

LEMMA RangesOfFields ==
  ASSUME NEW f \in DOMAIN V320!StatusLsb, NEW s \in Names, s # "3.0.0"
  PROVE  /\ StatusBits(s, f) = V320!StatusLsb[f]..V320!StatusMsb[f]
         /\ V320!StatusMask[f] = V320!StatusLsb[f]..V320!StatusMsb[f]
<1>1. StatusBits(s, f) = V320!StatusLsb[f]..V320!StatusMsb[f]
  BY FieldsLie DEF StatusBits
<1>2. CASE f = "licenseTimerLoadedNumber"
  <2>1. V320!StatusLsb[f] = 19 /\ V320!StatusMsb[f] = 20
    BY <1>2, PositionsAre
  <2>2. V320!StatusMask[f] = {19, 20}
    BY <1>2, MasksAre
  <2>3. {19, 20} = 19..20
    OBVIOUS
  <2>4. QED BY <1>1, <2>1, <2>2, <2>3
<1>3. CASE f = "ipActivatorNumber"
  <2>1. V320!StatusLsb[f] = 21 /\ V320!StatusMsb[f] = 31
    BY <1>3, PositionsAre
  <2>2. V320!StatusMask[f] = 21..31
    BY <1>3, MasksAre
  <2>3. QED BY <1>1, <2>1, <2>2
<1>4. CASE f # "licenseTimerLoadedNumber" /\ f # "ipActivatorNumber"
  <2>1. V320!StatusMsb[f] = V320!StatusLsb[f] /\ V320!StatusLsb[f] \in Int
    BY <1>4, PositionsAre
  <2>2. V320!StatusMask[f] = {V320!StatusLsb[f]}
    BY <1>4, MasksAre
  <2>3. V320!StatusLsb[f]..V320!StatusMsb[f] = {V320!StatusLsb[f]}
    BY <2>1
  <2>4. QED BY <1>1, <2>2, <2>3
<1>5. QED BY <1>2, <1>3, <1>4

\* The fields of the status word are decoded as the controller shows them.
LEMMA StatusDecoded ==
  ASSUME NEW s \in Names, s # "3.0.0", NEW f \in DOMAIN V320!StatusLsb, NEW b \in WordBits
  PROVE  LET own == StatusBits(s, f)
             lsb == CHOOSE l \in own : \A c \in own : l <= c
         IN  StatusValue(V320!StatusRegister[f].field, {b}) = IF b \in own THEN {b - lsb} ELSE {}
<1> DEFINE l == V320!StatusLsb[f]
           h == V320!StatusMsb[f]
<1>1. l \in Int /\ h \in Int /\ l <= h /\ f \in DOMAIN V320!StatusRegister
  BY FieldsLie
<1>2. StatusBits(s, f) = l..h /\ V320!StatusMask[f] = l..h
  BY RangesOfFields
<1>3. (CHOOSE x \in l..h : \A c \in l..h : x <= c) = l
  BY <1>1, FirstOfRange
<1>4. V320!StatusRegister[f].field = V320!Field(l, l..h)
  BY <1>1, <1>2 DEF V320!StatusRegister, V320!StatusRead
<1>5. V320!StatusRegister[f].field.lsb = l /\ V320!StatusRegister[f].field.mask = l..h
  BY <1>4 DEF V320!Field
<1>6. StatusValue(V320!StatusRegister[f].field, {b}) = Bits(l, l..h, {b})
  BY <1>5 DEF StatusValue
<1>7. b \in Int
  BY DEF WordBits
<1>8. Bits(l, l..h, {b}) = IF b \in l..h THEN {b - l} ELSE {}
  BY <1>1, <1>7, BitsOfRange
<1>9. QED BY <1>2, <1>3, <1>6, <1>8

\* The byte of the error of an activation.
LEMMA ErrorDecoded ==
  ASSUME NEW code, code \subseteq 0..7, NEW others, others \subseteq 8..31
  PROVE  ErrorValue(V320!ErrorRegister.activation.field, code \cup others) = code
<1>1. V320!ErrorRegister.activation.field = V320!Field(0, 0..7)
  BY DEF V320!ErrorRegister, V320!StatusRead, V320!ErrorPosition, V320!ErrorMask
<1>2. /\ V320!ErrorRegister.activation.field.lsb = 0
      /\ V320!ErrorRegister.activation.field.mask = 0..7
  BY <1>1 DEF V320!Field
<1>3. {c \in (code \cup others) \cap (0..7) : c >= 0} = code
  <2>1. \A c \in code : c \in 0..7 /\ c >= 0
    OBVIOUS
  <2>2. \A c \in others : c \notin 0..7
    OBVIOUS
  <2>3. QED BY <2>1, <2>2
<1>4. Bits(0, 0..7, code \cup others) = {c - 0 : c \in code}
  BY <1>3 DEF Bits
<1>5. {c - 0 : c \in code} = code
  <2>1. \A c \in code : c - 0 = c
    OBVIOUS
  <2>2. QED BY <2>1
<1>6. QED BY <1>2, <1>4, <1>5 DEF ErrorValue

\* The two halves of the word with the sizes of the mailbox.
LEMMA SizesDecoded ==
  ASSUME NEW part \in DOMAIN V320!Methods.sizes, NEW b \in WordBits
  PROVE  Bits(V320!Methods.sizes[part].lsb, V320!Methods.sizes[part].mask, {b})
           = IF (b < 16) = (part = "readWriteWordNumber") THEN {b % 16} ELSE {}
<1>1. /\ DOMAIN V320!Methods.sizes = {"readWriteWordNumber", "readOnlyWordNumber"}
      /\ V320!Methods.sizes["readWriteWordNumber"] = V320!Field(0, 0..15)
      /\ V320!Methods.sizes["readOnlyWordNumber"] = V320!Field(16, 16..31)
  BY DEF V320!Methods, V320!MailboxLsb, V320!MailboxMask
<1>2. b \in 0..31 /\ b \in Int
  BY DEF WordBits
<1>3. CASE part = "readWriteWordNumber"
  <2>1. Bits(0, 0..15, {b}) = IF b \in 0..15 THEN {b - 0} ELSE {}
    <3>1. PICK from \in Int, to \in Int : from = 0 /\ to = 15
      OBVIOUS
    <3>2. Bits(from, from..to, {b}) = IF b \in from..to THEN {b - from} ELSE {}
      <4>1. b \in Int
        BY <1>2
      <4>2. QED BY <3>1, <4>1, BitsOfRange
    <3>3. QED BY <3>1, <3>2
  <2>2. b \in 0..15 => b - 0 = b % 16
    BY <1>2
  <2>3. V320!Methods.sizes[part].lsb = 0 /\ V320!Methods.sizes[part].mask = 0..15
    BY <1>1, <1>3 DEF V320!Field
  <2>4. b < 16 <=> b \in 0..15
    BY <1>2
  <2>5. QED BY <1>3, <2>1, <2>2, <2>3, <2>4
<1>4. CASE part = "readOnlyWordNumber"
  <2>1. Bits(16, 16..31, {b}) = IF b \in 16..31 THEN {b - 16} ELSE {}
    <3>1. PICK from \in Int, to \in Int : from = 16 /\ to = 31
      OBVIOUS
    <3>2. Bits(from, from..to, {b}) = IF b \in from..to THEN {b - from} ELSE {}
      <4>1. b \in Int
        BY <1>2
      <4>2. QED BY <3>1, <4>1, BitsOfRange
    <3>3. QED BY <3>1, <3>2
  <2>2. b \in 16..31 => b - 16 = b % 16
    BY <1>2
  <2>3. V320!Methods.sizes[part].lsb = 16 /\ V320!Methods.sizes[part].mask = 16..31
    BY <1>1, <1>4 DEF V320!Field
  <2>4. ((b < 16) = (part = "readWriteWordNumber")) <=> b \in 16..31
    BY <1>2, <1>4
  <2>5. QED BY <2>1, <2>2, <2>3, <2>4
<1>5. QED BY <1>1, <1>3, <1>4

LEMMA LaterDecode ==
  ASSUME NEW s \in Names, s # "3.0.0" PROVE s \in RightDecoders
<1> DEFINE m == Strategies[s]
<1>1. /\ m.status = V320!StatusRegister /\ m.errors = V320!ErrorRegister
      /\ m.codes = V320!ErrorCodes /\ m.sizes = V320!Methods.sizes
  <2>1. [V320!Methods EXCEPT !.files = V310!Methods.files].status = V320!Methods.status
    BY DEF V320!Methods
  <2>2. [V320!Methods EXCEPT !.files = V310!Methods.files].errors = V320!Methods.errors
    BY DEF V320!Methods
  <2>3. [V320!Methods EXCEPT !.files = V310!Methods.files].codes = V320!Methods.codes
    BY DEF V320!Methods
  <2>4. [V320!Methods EXCEPT !.files = V310!Methods.files].sizes = V320!Methods.sizes
    BY DEF V320!Methods
  <2>5. /\ V320!Methods.status = V320!StatusRegister /\ V320!Methods.errors = V320!ErrorRegister
        /\ V320!Methods.codes = V320!ErrorCodes
    BY DEF V320!Methods
  <2>6. QED BY <2>1, <2>2, <2>3, <2>4, <2>5, MethodsTable DEF Names
<1>2. \A code \in Range(m.codes) : code \subseteq 0..7
  BY <1>1 DEF V320!ErrorCodes, Range
<1> HIDE DEF m
<1>3. \A code \in Range(m.codes) : \A others \in {{}, 8..31} :
        ErrorValue(ErrorRegister(m).activation.field, code \cup others) = code
  BY <1>1, <1>2, ErrorDecoded DEF ErrorRegister
<1>4. \A part \in DOMAIN m.sizes : \A b \in WordBits :
        Bits(m.sizes[part].lsb, m.sizes[part].mask, {b})
          = IF (b < 16) = (part = "readWriteWordNumber") THEN {b % 16} ELSE {}
  BY <1>1, SizesDecoded
<1>5. DOMAIN StatusRegister(m) = DOMAIN V320!StatusLsb
  BY <1>1, FieldsLie DEF StatusRegister
<1>6. \A f \in DOMAIN StatusRegister(m) : \A b \in WordBits :
        LET own == StatusBits(s, f)
            lsb == CHOOSE l \in own : \A c \in own : l <= c
        IN  StatusRegister(m)[f] # UnsupportedStatus =>
              StatusValue(StatusRegister(m)[f].field, {b})
                = IF b \in own THEN {b - lsb} ELSE {}
  BY <1>1, <1>5, StatusDecoded DEF StatusRegister
<1>7. Decodes(s, m)
  BY Zenon, <1>3, <1>4, <1>6 DEF Decodes
<1>8. QED BY <1>7, StrategyTable DEF RightDecoders, m

-----------------------------------------------------------------------------
(* The sections of a metering file.                                         *)

\* The words of a metering file 3.2.x, and where its sections are.
LEMMA SectionsAre ==
  LET sections == V322!MeteringSections
  IN  /\ DOMAIN sections = {"header", "timer", "ips", "mac"}
      /\ sections["header"].from = 0 /\ sections["header"].to = 3
      /\ sections["timer"].from = 6 /\ sections["timer"].to = 7
      /\ sections["ips"].from = 8 /\ sections["ips"].to = 4 * NumberOfIps + 7
      /\ sections["mac"].from = 4 * NumberOfIps + 8 /\ sections["mac"].to = 4 * NumberOfIps + 11
      /\ V322!MeteringFileWords = 4 * NumberOfIps + 12
      /\ V320!WordsOf("metering") = 4
<1>1. V322!V320!WordsOf("metering") = 4 /\ V320!WordsOf("metering") = 4
  <2>1. V322!V320!WordSizeOf["metering"] = 128 /\ V320!WordSizeOf["metering"] = 128
    BY DEF V322!V320!WordSizeOf, V320!WordSizeOf
  <2>2. V322!V320!NumberOfWords(128) = 4 /\ V320!NumberOfWords(128) = 4
    BY DEF V322!V320!NumberOfWords, V320!NumberOfWords
  <2>3. QED BY <2>1, <2>2 DEF V322!V320!WordsOf, V320!WordsOf
<1>2. V322!V320!NumberOfWords(V322!V320!SizeOf.licenseTimerCounter) = 2
  BY DEF V322!V320!NumberOfWords, V322!V320!SizeOf
<1>3. /\ V322!MeteringFileWords = 4 * NumberOfIps + 12
      /\ V322!V320!MeteringFileWords = 4 * NumberOfIps + 12
  BY <1>1, SizesAssumption
     DEF V322!MeteringFileWords, V322!V320!MeteringFileWords, V322!V320!AdditionalWords
<1>4. /\ V322!V320!MeteringPosition.header = 0 /\ V322!V320!MeteringPosition.timer = 1
      /\ V322!V320!MeteringPosition.firstIp = 2 /\ V322!V320!MeteringPosition.macFromEnd = 0
  BY DEF V322!V320!MeteringPosition
<1>5. \A from, n : V322!V320!Lines(from, n) = [from |-> from, to |-> from + n - 1]
  BY DEF V322!V320!Lines
<1>6. V322!MeteringSections = [header |-> [from |-> 0, to |-> 3],
        timer |-> [from |-> 6, to |-> 7],
        ips |-> [from |-> 8, to |-> 4 * NumberOfIps + 7],
        mac |-> [from |-> 4 * NumberOfIps + 8, to |-> 4 * NumberOfIps + 11]]
  <2>1. 4 * NumberOfIps + 12 - (0 + 1) * 4 = 4 * NumberOfIps + 8
    BY SizesAssumption
  <2>2. /\ 4 * NumberOfIps + 8 + 4 - 1 = 4 * NumberOfIps + 11
        /\ 4 * NumberOfIps + 8 - 1 = 4 * NumberOfIps + 7
    BY SizesAssumption
  <2>3. QED BY <1>1, <1>2, <1>3, <1>4, <1>5, <2>1, <2>2, SizesAssumption
    DEF V322!MeteringSections, V322!V320!MeteringSections
<1>7. QED BY <1>1, <1>3, <1>6

LEMMA HeaderIs ==
  LET header == V322!MeteringHeader
  IN  /\ header.words = {[from |-> 0, to |-> 1], [from |-> 2, to |-> 2], [from |-> 3, to |-> 3]}
      /\ header.flags = {Field(17, 17..17), Field(16, 16..16), Field(0, 0..15)}
<1>1. V322!V320!WordsOf("metering") = 4
  <2>1. V322!V320!WordSizeOf["metering"] = 128
    BY DEF V322!V320!WordSizeOf
  <2>2. V322!V320!NumberOfWords(128) = 4
    BY DEF V322!V320!NumberOfWords
  <2>3. QED BY <2>1, <2>2 DEF V322!V320!WordsOf
<1>2. V322!MeteringHeader.words
        = {[from |-> 0, to |-> 1], [from |-> 2, to |-> 2], [from |-> 3, to |-> 3]}
  <2>1. V322!MeteringHeader.words = {[from |-> 0, to |-> 0 + 2 - 1],
          [from |-> 4 - 2, to |-> 4 - 2 + 1 - 1], [from |-> 4 - 1, to |-> 4 - 1 + 1 - 1]}
    BY <1>1 DEF V322!MeteringHeader, V322!V320!MeteringHeader, V322!V320!Lines
  <2>2. QED BY <2>1
<1>3. V322!MeteringHeader.flags = {Field(17, 17..17), Field(16, 16..16), Field(0, 0..15)}
  <2>1. 17..17 = {17} /\ 16..16 = {16}
    OBVIOUS
  <2>2. V322!MeteringHeader.flags = {Field(17, {17}), Field(16, {16}), Field(0, 0..15)}
    BY DEF V322!MeteringHeader, V322!V320!MeteringHeader, V322!V320!Field, Field
  <2>3. QED BY <2>1, <2>2
<1>4. QED BY <1>2, <1>3

\* The bits a field of the header takes.
LEMMA TakenBits ==
  ASSUME NEW l \in Int, NEW h \in Int
  PROVE  {b \in WordBits : Bits(Field(l, l..h).lsb, Field(l, l..h).mask, {b}) # {}}
           = WordBits \cap (l..h)
<1>1. Field(l, l..h).lsb = l /\ Field(l, l..h).mask = l..h
  BY DEF Field
<1>2. \A b \in WordBits : Bits(l, l..h, {b}) # {} <=> b \in l..h
  <2>1. \A b \in WordBits : b \in Int
    BY DEF WordBits
  <2>2. QED BY <2>1, BitsOfRange
<1>3. QED BY <1>1, <1>2

\* The report cuts a metering file at its words.
LEMMA SectionsAreCut == SectionsFit
<1> DEFINE N == NumberOfIps
           sections == V322!MeteringSections
           words(s) == sections[s].from..sections[s].to
           header == V322!MeteringHeader
           taken(f) == {b \in WordBits : Bits(f.lsb, f.mask, {b}) # {}}
<1>1. N \in Nat
  BY SizesAssumption
<1>2. /\ DOMAIN sections = {"header", "timer", "ips", "mac"}
      /\ words("header") = 0..3 /\ words("timer") = 6..7 /\ words("ips") = 8..(4 * N + 7)
      /\ words("mac") = (4 * N + 8)..(4 * N + 11)
      /\ V322!MeteringFileWords = 4 * N + 12 /\ V320!WordsOf("metering") = 4
  BY SectionsAre
<1> HIDE DEF sections, words
<1>3. \A s \in DOMAIN sections : words(s) \subseteq 0..(V322!MeteringFileWords - 1)
  <2>1. /\ 0..3 \subseteq 0..(4 * N + 12 - 1) /\ 6..7 \subseteq 0..(4 * N + 12 - 1)
        /\ 8..(4 * N + 7) \subseteq 0..(4 * N + 12 - 1)
        /\ (4 * N + 8)..(4 * N + 11) \subseteq 0..(4 * N + 12 - 1)
    BY <1>1
  <2>2. PICK all : all = 0..(4 * N + 12 - 1)
    OBVIOUS
  <2>3. all = 0..(V322!MeteringFileWords - 1)
    <3>1. V322!MeteringFileWords = 4 * N + 12
      BY <1>2
    <3>2. QED BY <1>1, <2>2, <3>1
  <2>4. /\ words("header") \subseteq all /\ words("timer") \subseteq all
        /\ words("ips") \subseteq all /\ words("mac") \subseteq all
    BY <1>2, <2>1, <2>2
  <2>5. QED BY <1>2, <2>3, <2>4
<1>4. \A s \in DOMAIN sections : \A t \in DOMAIN sections \ {s} : words(s) \cap words(t) = {}
  <2>1. /\ (0..3) \cap (6..7) = {} /\ (0..3) \cap (8..(4 * N + 7)) = {}
        /\ (0..3) \cap ((4 * N + 8)..(4 * N + 11)) = {}
        /\ (6..7) \cap (8..(4 * N + 7)) = {} /\ (6..7) \cap ((4 * N + 8)..(4 * N + 11)) = {}
        /\ (8..(4 * N + 7)) \cap ((4 * N + 8)..(4 * N + 11)) = {}
    BY <1>1
  <2>2. /\ words("header") \cap words("timer") = {} /\ words("header") \cap words("ips") = {}
        /\ words("header") \cap words("mac") = {} /\ words("timer") \cap words("ips") = {}
        /\ words("timer") \cap words("mac") = {} /\ words("ips") \cap words("mac") = {}
    BY <1>2, <2>1
  <2>3. \A A, B : A \cap B = B \cap A
    OBVIOUS
  <2>4. QED BY <1>2, <2>2, <2>3
<1>5. Cardinality(words("ips")) = 4 * N
  <2>1. PICK a \in Int, b \in Int : a = 8 /\ b = 4 * N + 7
    BY <1>1
  <2>2. Cardinality(a..b) = IF a > b THEN 0 ELSE b - a + 1
    BY FS_Interval
  <2>3. Cardinality(a..b) = 4 * N
    BY <1>1, <2>1, <2>2
  <2>4. words("ips") = a..b
    BY <1>2, <2>1
  <2>5. QED BY <2>3, <2>4
<1>6. \A w \in header.words : w.from \in words("header") /\ w.to \in words("header")
  BY <1>2, HeaderIs
<1>7. \A x, y \in header.words : x = y \/ (x.from..x.to) \cap (y.from..y.to) = {}
  BY HeaderIs
<1>8. \A x, y \in header.flags : x = y \/ taken(x) \cap taken(y) = {}
  <2>1. /\ taken(Field(17, 17..17)) = WordBits \cap (17..17)
        /\ taken(Field(16, 16..16)) = WordBits \cap (16..16)
        /\ taken(Field(0, 0..15)) = WordBits \cap (0..15)
    <3>1. \A l, h \in Int : taken(Field(l, l..h)) = WordBits \cap (l..h)
      BY TakenBits
    <3> HIDE DEF taken
    <3>2. taken(Field(17, 17..17)) = WordBits \cap (17..17)
      <4>1. 17 \in Int /\ 17 \in Int
        OBVIOUS
      <4>2. QED BY Zenon, <3>1, <4>1
    <3>3. taken(Field(16, 16..16)) = WordBits \cap (16..16)
      <4>1. 16 \in Int /\ 16 \in Int
        OBVIOUS
      <4>2. QED BY Zenon, <3>1, <4>1
    <3>4. taken(Field(0, 0..15)) = WordBits \cap (0..15)
      <4>1. 0 \in Int /\ 15 \in Int
        OBVIOUS
      <4>2. QED BY Zenon, <3>1, <4>1
    <3>5. QED BY <3>2, <3>3, <3>4
  <2> HIDE DEF taken
  <2>2. QED BY <2>1, HeaderIs
<1>9. QED BY <1>2, <1>3, <1>4, <1>5, <1>6, <1>7, <1>8 DEF SectionsFit, sections, words

\* A field is decoded with its mask from the bits of its positions, which are two
\* tables, and the sections of a metering file are cut at its words, for all numbers
\* of IPs.
THEOREM FieldsAreOwn == Spec => []FieldIsOwn
<1>1. LibraryInv => FieldIsOwn
  <2> SUFFICES ASSUME LibraryInv, phase = "open"
               PROVE  strategy \in RightDecoders /\ SectionsFit
    BY DEF FieldIsOwn
  <2>1. QED BY OpenIsHome, LaterDecode, SectionsAreCut
<1>2. QED BY <1>1, LibraryInvariance, PTL
=============================================================================
