--------------------------- MODULE Strategy_v3_2_1 ---------------------------
(***************************************************************************)
(* DrmControllerRegistersStrategy_v3_2_1: the class is a copy of the one of   *)
(* 3.2.0, register for register.                                            *)
(***************************************************************************)
EXTENDS RegisterTables

CONSTANTS NumberOfIps, LicenseFileSize, ReadOnlyWords, ReadWriteWords

V320 == INSTANCE Strategy_v3_2_0

SizeOf                       == V320!SizeOf
WordSizeOf                   == V320!WordSizeOf
AdditionalWords              == V320!AdditionalWords
LicenseBlocks                == V320!LicenseBlocks
MeteringPosition             == V320!MeteringPosition
PageNumber                   == V320!PageNumber
CommandCode                  == V320!CommandCode
StatusLsb                    == V320!StatusLsb
StatusMsb                    == V320!StatusMsb
StatusMask                   == V320!StatusMask
ErrorCodes                   == V320!ErrorCodes
ErrorPosition                == V320!ErrorPosition
ErrorMask                    == V320!ErrorMask
MailboxLsb                   == V320!MailboxLsb
MailboxMask                  == V320!MailboxMask

StartIndex                   == V320!StartIndex
LicenseFileMinimumWordNumber == V320!LicenseFileMinimumWordNumber
WritePageRegister            == V320!WritePageRegister
WriteCommandRegister         == V320!WriteCommandRegister
LicenseAddressAndTimer       == V320!LicenseAddressAndTimer
ReadyStatus                  == V320!ReadyStatus
AutonomousStatus             == V320!AutonomousStatus
MeteringStatus               == V320!MeteringStatus
TimerStatus                  == V320!TimerStatus
SampleStatus                 == V320!SampleStatus
SessionStatus                == V320!SessionStatus
LicenseTypeStatus            == V320!LicenseTypeStatus
CountStatus                  == V320!CountStatus
StatusRegister               == V320!StatusRegister
ErrorRegister                == V320!ErrorRegister
ReadRegisters                == V320!ReadRegisters
VlnvFile                     == V320!VlnvFile
LicenseFits                  == V320!LicenseFits
LicenseFile                  == V320!LicenseFile
TraceFile                    == V320!TraceFile
MeteringFileWords            == V320!MeteringFileWords
MeteringFile                 == V320!MeteringFile
MailboxSize                  == V320!MailboxSize
MailboxLines                 == V320!MailboxLines
ReadMailbox                  == V320!ReadMailbox
WriteMailbox                 == V320!WriteMailbox
MeteringSections             == V320!MeteringSections
MeteringHeader               == V320!MeteringHeader
Methods                      == V320!Methods
=============================================================================
