--------------------------- MODULE Strategy_v3_2_0 ---------------------------
(***************************************************************************)
(* DrmControllerRegistersStrategy_v3_2_0: where the registers of a DRM      *)
(* controller 3.2.0 are, and the bus accesses of each method.               *)
(***************************************************************************)
EXTENDS RegisterTables

CONSTANTS
  NumberOfIps,      \* the IPs the controller has detected
  LicenseFileSize,  \* the license words of a license file
  ReadOnlyWords,    \* the sizes of the two parts of the mailbox
  ReadWriteWords

SizeOf ==
  [command |-> 9, licenseStartAddress |-> 64, licenseTimer |-> 384,
   status |-> 32, error |-> 32, dna |-> 128, saasChallenge |-> 128,
   licenseTimerCounter |-> 64, version |-> 24]

WordSizeOf ==
  [vlnv |-> 64, license |-> 128, trace |-> 64, metering |-> 128, mailbox |-> 32]

NumberOfTracesPerIp == 3
AdditionalWords     == [vlnv |-> 1, metering |-> 3, mailbox |-> 1]
LicenseBlocks       == [header |-> 7, ip |-> 4]
MeteringPosition    == [header |-> 0, timer |-> 1, firstIp |-> 2, macFromEnd |-> 0]

PageNumber ==
  [registers |-> 0, vlnv |-> 1, license |-> 2, trace |-> 3, metering |-> 4,
   mailbox |-> 5]

\* The bits of the codes. Heart beat init and finish are never written.
CommandCode ==
  [nop |-> {5}, extractDna |-> {0}, extractVlnv |-> {1}, activate |-> {2},
   endSessionExtractMetering |-> {6}, extractMetering |-> {7},
   sampleLicenseTimerCounter |-> {8}]

StatusLsb ==
  [dnaReady |-> 0, vlnvReady |-> 1, activationDone |-> 2, autoEnabled |-> 3,
   autoBusy |-> 4, meteringEnabled |-> 5, meteringReady |-> 6,
   saasChallengeReady |-> 7, licenseTimerEnabled |-> 8,
   licenseTimerInitLoaded |-> 9, endSessionMeteringReady |-> 10,
   heartBeatModeEnabled |-> 11, asynchronousMeteringReady |-> 12,
   licenseTimerSampleReady |-> 13, licenseTimerCountEmpty |-> 14,
   sessionRunning |-> 15, activationCodesTransmitted |-> 16,
   licenseNodeLock |-> 17, licenseMetering |-> 18,
   licenseTimerLoadedNumber |-> 19, ipActivatorNumber |-> 21]

\* A field of several bits has a position for its LSB and one for its MSB.
StatusMsb == [StatusLsb EXCEPT !.licenseTimerLoadedNumber = 20, !.ipActivatorNumber = 31]

\* Mutant: the mask of one bit is the one of the bit before it.
SlippedStatusMask ==
  [f \in DOMAIN StatusLsb |->
     IF f = "sessionRunning" THEN {14} ELSE StatusLsb[f]..StatusMsb[f]]

\* The masks are constants of their own: nothing derives them from the positions.
StatusMask ==
  [dnaReady |-> {0}, vlnvReady |-> {1}, activationDone |-> {2}, autoEnabled |-> {3},
   autoBusy |-> {4}, meteringEnabled |-> {5}, meteringReady |-> {6},
   saasChallengeReady |-> {7}, licenseTimerEnabled |-> {8},
   licenseTimerInitLoaded |-> {9}, endSessionMeteringReady |-> {10},
   heartBeatModeEnabled |-> {11}, asynchronousMeteringReady |-> {12},
   licenseTimerSampleReady |-> {13}, licenseTimerCountEmpty |-> {14},
   sessionRunning |-> {15}, activationCodesTransmitted |-> {16},
   licenseNodeLock |-> {17}, licenseMetering |-> {18},
   licenseTimerLoadedNumber |-> {19, 20}, ipActivatorNumber |-> 21..31]

\* The bits of the codes the operations look for; the other codes name failures.
ErrorCodes == [notReady |-> 0..7, noError |-> {}]

\* The number of the byte, not of its first bit.
ErrorPosition ==
  [activation |-> 0, dnaExtract |-> 1, vlnvExtract |-> 2, licenseTimerLoad |-> 3]

ErrorMask ==
  [activation |-> 0..7, dnaExtract |-> 8..15, vlnvExtract |-> 16..23,
   licenseTimerLoad |-> 24..31]

MailboxLsb  == [readWriteWordNumber |-> 0, readOnlyWordNumber |-> 16]
MailboxMask == [readWriteWordNumber |-> 0..15, readOnlyWordNumber |-> 16..31]

-----------------------------------------------------------------------------
WordsOf(file) == NumberOfWords(WordSizeOf[file])

\* The registers page, from its first line. A file starts at line 0 of its page.
RegisterOrder ==
  <<"command", "licenseStartAddress", "licenseTimer", "status", "error",
    "dna", "saasChallenge", "licenseTimerCounter", "version", "logs">>

StartIndex == FirstLines(RegisterOrder, SizeOf)

LicenseFileMinimumWordNumber ==
  (LicenseBlocks.header + LicenseBlocks.ip) * WordsOf("license")

RegisterLines(r) == Lines(StartIndex[r], NumberOfWords(SizeOf[r]))
FileLines(file, words) == Lines(0, WordsOf(file) * words)

WritePageRegister == [p \in DOMAIN PageNumber |-> Select(PageNumber[p])]

WriteCommandRegister ==
  [c \in DOMAIN CommandCode |-> Write(PageNumber.registers, RegisterLines("command"))]

LicenseAddressAndTimer ==
  [readLicenseStartAddress  |-> Read(PageNumber.registers, RegisterLines("licenseStartAddress")),
   writeLicenseStartAddress |-> Write(PageNumber.registers, RegisterLines("licenseStartAddress")),
   readLicenseTimerInit     |-> Read(PageNumber.registers, RegisterLines("licenseTimer")),
   writeLicenseTimerInit    |-> Write(PageNumber.registers, RegisterLines("licenseTimer"))]

\* The fields of the status register that have methods to read them and, most of
\* them, to wait for a value, by what they tell.
ReadyStatus       == {"dnaReady", "vlnvReady", "activationDone"}
AutonomousStatus  == {"autoEnabled", "autoBusy"}
MeteringStatus    == {"meteringEnabled", "meteringReady", "saasChallengeReady"}
TimerStatus       == {"licenseTimerEnabled", "licenseTimerInitLoaded",
                      "endSessionMeteringReady", "heartBeatModeEnabled"}
SampleStatus      == {"asynchronousMeteringReady", "licenseTimerSampleReady",
                      "licenseTimerCountEmpty"}
SessionStatus     == {"sessionRunning", "activationCodesTransmitted"}
LicenseTypeStatus == {"licenseNodeLock", "licenseMetering"}
CountStatus       == {"licenseTimerLoadedNumber", "ipActivatorNumber"}

StatusRegister ==
  [f \in ReadyStatus \cup AutonomousStatus \cup MeteringStatus \cup TimerStatus
         \cup SampleStatus \cup SessionStatus \cup LicenseTypeStatus \cup CountStatus |->
     StatusRead(PageNumber.registers, StartIndex.status,
                Field(StatusLsb[f], StatusMask[f]))]

\* The field of an error: its position is passed on as the bit to shift to.
ErrorRegister ==
  [e \in DOMAIN ErrorPosition |->
     StatusRead(PageNumber.registers, StartIndex.error,
                Field(ErrorPosition[e], ErrorMask[e]))]

ReadRegisters ==
  [dna                 |-> Read(PageNumber.registers, RegisterLines("dna")),
   saasChallenge       |-> Read(PageNumber.registers, RegisterLines("saasChallenge")),
   licenseTimerCounter |-> Read(PageNumber.registers, RegisterLines("licenseTimerCounter")),
   drmVersion          |-> Read(PageNumber.registers, Lines(StartIndex.version, 1)),
   logs                |-> Read(PageNumber.registers,
                                Lines(StartIndex.logs, NumberOfWords(NumberOfIps)))]

VlnvFile ==
  [readVlnvFile |-> Read(PageNumber.vlnv,
                         FileLines("vlnv", NumberOfIps + AdditionalWords.vlnv))]

\* checkLicenseFileSize throws before the bus is touched.
LicenseFits == WordsOf("license") * LicenseFileSize >= LicenseFileMinimumWordNumber

LicenseFile ==
  [readLicenseFile  |-> Read(PageNumber.license, FileLines("license", LicenseFileSize)),
   writeLicenseFile |-> IF LicenseFits
                        THEN Write(PageNumber.license, FileLines("license", LicenseFileSize))
                        ELSE Unsupported]

TraceFile ==
  [readTraceFile |-> Read(PageNumber.trace,
                          FileLines("trace", NumberOfIps * NumberOfTracesPerIp))]

MeteringFileWords == WordsOf("metering") * (NumberOfIps + AdditionalWords.metering)

MeteringFile == [readMeteringFile |-> Read(PageNumber.metering, Lines(0, MeteringFileWords))]

\* The first word has the sizes of both parts, and the parts follow it.
MailboxSize == [readMailboxFileSize |-> Unchecked(PageNumber.mailbox, Lines(0, 1), NoLines)]

MailboxLines == Lines(0, AdditionalWords.mailbox + ReadOnlyWords + ReadWriteWords)

ReadMailbox == [readMailboxFile |-> Unchecked(PageNumber.mailbox, MailboxLines, NoLines)]

WriteMailbox ==
  [writeMailboxFile |->
     Unchecked(PageNumber.mailbox, MailboxLines,
               Lines(AdditionalWords.mailbox + ReadOnlyWords, ReadWriteWords))]

\* The words of the sections of a metering file, as the report cuts it.
MeteringSections ==
  LET w    == WordsOf("metering")
      mac  == MeteringFileWords - (MeteringPosition.macFromEnd + 1) * w
      from == MeteringPosition.timer * w + NumberOfWords(SizeOf.licenseTimerCounter)
  IN  [header |-> Lines(MeteringPosition.header * w, w),
       timer  |-> [from |-> from, to |-> (MeteringPosition.timer + 1) * w - 1],
       ips    |-> [from |-> MeteringPosition.firstIp * w, to |-> mac - 1],
       mac    |-> Lines(mac, w)]

\* The parts of the header, and the fields of its third word.
MeteringHeader ==
  [words |-> {Lines(0, 2), Lines(WordsOf("metering") - 2, 1), Lines(WordsOf("metering") - 1, 1)},
   flags |-> {Field(17, {17}), Field(16, {16}), Field(0, 0..15)}]
-----------------------------------------------------------------------------
\* The methods of the class, and the fields they decode.
Methods ==
  [pages     |-> WritePageRegister,
   commands  |-> WriteCommandRegister,
   timer     |-> LicenseAddressAndTimer,
   status    |-> StatusRegister,
   errors    |-> ErrorRegister,
   codes     |-> ErrorCodes,
   registers |-> ReadRegisters,
   files     |-> Both(Both(VlnvFile, LicenseFile), Both(TraceFile, MeteringFile)),
   mailbox   |-> Both(MailboxSize, Both(ReadMailbox, WriteMailbox)),
   sizes     |-> [part \in DOMAIN MailboxLsb |-> Field(MailboxLsb[part], MailboxMask[part])]]
=============================================================================
