--------------------------- MODULE Strategy_v3_1_0 ---------------------------
(***************************************************************************)
(* DrmControllerRegistersStrategy_v3_1_0: the registers of 3.2.0, with a    *)
(* metering file of one word less and no parsing of it in the report.       *)
(***************************************************************************)
EXTENDS RegisterTables

CONSTANTS NumberOfIps, LicenseFileSize, ReadOnlyWords, ReadWriteWords

V320 == INSTANCE Strategy_v3_2_0

AdditionalWords == [vlnv |-> 1, metering |-> 2, mailbox |-> 1]

MeteringFileWords == V320!WordsOf("metering") * (NumberOfIps + AdditionalWords.metering)

MeteringFile == [readMeteringFile |-> Read(V320!PageNumber.metering, Lines(0, MeteringFileWords))]

SizeOf                       == V320!SizeOf
WordSizeOf                   == V320!WordSizeOf
LicenseBlocks                == V320!LicenseBlocks
PageNumber                   == V320!PageNumber
CommandCode                  == V320!CommandCode
StatusLsb                    == V320!StatusLsb
StatusMsb                    == V320!StatusMsb
StatusMask                   == V320!StatusMask
ErrorCodes                   == V320!ErrorCodes
ErrorPosition                == V320!ErrorPosition
ErrorMask                    == V320!ErrorMask
MailboxLsb                   == V320!MailboxLsb
MailboxMask                  == V320!MailboxMask

StartIndex                   == V320!StartIndex
LicenseFileMinimumWordNumber == V320!LicenseFileMinimumWordNumber
WritePageRegister            == V320!WritePageRegister
WriteCommandRegister         == V320!WriteCommandRegister
LicenseAddressAndTimer       == V320!LicenseAddressAndTimer
ReadyStatus                  == V320!ReadyStatus
AutonomousStatus             == V320!AutonomousStatus
MeteringStatus               == V320!MeteringStatus
TimerStatus                  == V320!TimerStatus
SampleStatus                 == V320!SampleStatus
SessionStatus                == V320!SessionStatus
LicenseTypeStatus            == V320!LicenseTypeStatus
CountStatus                  == V320!CountStatus
StatusRegister               == V320!StatusRegister
ErrorRegister                == V320!ErrorRegister
ReadRegisters                == V320!ReadRegisters
VlnvFile                     == V320!VlnvFile
LicenseFits                  == V320!LicenseFits
LicenseFile                  == V320!LicenseFile
TraceFile                    == V320!TraceFile
MailboxSize                  == V320!MailboxSize
MailboxLines                 == V320!MailboxLines
ReadMailbox                  == V320!ReadMailbox
WriteMailbox                 == V320!WriteMailbox
Methods                      ==
  [V320!Methods EXCEPT !.files = Both(Both(VlnvFile, LicenseFile), Both(TraceFile, MeteringFile))]
=============================================================================
