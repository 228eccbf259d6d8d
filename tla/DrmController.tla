---------------------------- MODULE DrmController ----------------------------
(***************************************************************************)
(* The command handshake of DrmControllerOperations with the DRM            *)
(* controller: one command register, one ready bit per command, waits with  *)
(* a timeout. Operations are serialised by mDrmControllerMutex of the       *)
(* manager. The heart-beat mode, in which no command is written, is left    *)
(* out.                                                                     *)
(*                                                                          *)
(* Two kinds of operations: the ones that write NOP before their command    *)
(* and leave the command in the register (extractDna, extractVlnvFile,      *)
(* activate), and the ones that write their command first, and NOP after it *)
(* with a wait for the ready bit to fall.                                   *)
(***************************************************************************)
EXTENDS Naturals

VARIABLES
  pc,         \* where the operation is
  op,         \* the operation that runs, or ran last
  cmd,        \* the command register
  ready,      \* the ready bits
  own,        \* the commands completed while the running operation waits for it
  unfinished  \* the operations whose last call ended before its end

vars == <<pc, op, cmd, ready, own, unfinished>>

NopFirst == {"dna", "vlnv", "activate"}
NopAfter == {"end session", "metering", "sample"}
Ops      == NopFirst \cup NopAfter

TypeOK ==
  /\ pc \in {"idle", "nop", "command", "wait ready", "data", "nop after", "wait not ready"}
  /\ op \in Ops /\ cmd \in Ops \cup {"nop"}
  /\ ready \subseteq Ops /\ own \subseteq Ops /\ unfinished \subseteq Ops

Init ==
  /\ pc = "idle" /\ op = "dna" /\ cmd = "nop"
  /\ ready = {} /\ own = {} /\ unfinished = {}

-----------------------------------------------------------------------------
(* The operations.                                                         *)

Goto(next) == pc' = next /\ UNCHANGED <<op, own, unfinished>>

\* Mutant: no command is preceded by NOP.
CallWithoutNop ==
  /\ pc = "idle"
  /\ op' \in Ops
  /\ pc' = "command"
  /\ own' = {}
  /\ UNCHANGED <<cmd, ready, unfinished>>

Call ==
  /\ pc = "idle"
  /\ op' \in Ops
  /\ pc' = IF op' \in NopFirst THEN "nop" ELSE "command"
  /\ own' = {}
  /\ UNCHANGED <<cmd, ready, unfinished>>

\* writeCommandRegister: nothing is written when the register reads the same.
\* The controller takes the bits of NopFirst down as soon as another command is
\* in the register, and the others in its own time.
WriteCommand(c) ==
  /\ cmd' = c
  /\ ready' = IF c = cmd THEN ready ELSE ready \ NopFirst

WriteNop == pc = "nop" /\ WriteCommand("nop") /\ Goto("command")

WriteOp == pc = "command" /\ WriteCommand(op) /\ Goto("wait ready")

WaitReady ==
  /\ pc = "wait ready" /\ op \in ready
  /\ Goto("data")
  /\ UNCHANGED <<cmd, ready>>

\* The values are read. An operation of NopFirst is done.
ReadData ==
  /\ pc = "data"
  /\ pc' = IF op \in NopFirst THEN "idle" ELSE "nop after"
  /\ unfinished' = IF op \in NopFirst THEN unfinished \ {op} ELSE unfinished
  /\ UNCHANGED <<op, own, cmd, ready>>

WriteNopAfter ==
  /\ pc = "nop after"
  /\ WriteCommand("nop") /\ Goto("wait not ready")

\* Mutant: the operation does not wait for its ready bit to fall.
WaitNotReadyNot ==
  /\ pc = "wait not ready"
  /\ pc' = "idle" /\ unfinished' = unfinished \ {op}
  /\ UNCHANGED <<op, own, cmd, ready>>

WaitNotReady ==
  /\ pc = "wait not ready" /\ op \notin ready
  /\ pc' = "idle" /\ unfinished' = unfinished \ {op}
  /\ UNCHANGED <<op, own, cmd, ready>>

\* Mutant: the wait for the ready bit to fall has no timeout.
TimeOutOfReadyOnly ==
  /\ pc \in {"wait ready", "data"}
  /\ pc' = "idle" /\ unfinished' = unfinished \cup {op}
  /\ UNCHANGED <<op, own, cmd, ready>>

\* A wait throws DrmControllerTimeOutException: for the ready bit or the error
\* code, for the metering file and the challenge among the values, or for the
\* ready bit to fall. The time is looked at before the bit, so a wait can end in
\* a timeout with the bit as expected.
TimeOut ==
  /\ pc \in {"wait ready", "data", "wait not ready"}
  /\ pc' = "idle" /\ unfinished' = unfinished \cup {op}
  /\ UNCHANGED <<op, own, cmd, ready>>

\* A register callback returns an error, or the process is killed and the next
\* one goes on with the controller as it is.
Abort ==
  /\ pc # "idle"
  /\ pc' = "idle" /\ unfinished' = unfinished \cup {op}
  /\ UNCHANGED <<op, own, cmd, ready>>

-----------------------------------------------------------------------------
(* The controller.                                                         *)

\* The command in the register is completed, once.
HwComplete ==
  /\ cmd # "nop" /\ cmd \notin ready
  /\ ready' = ready \cup {cmd}
  /\ own' = IF pc = "wait ready" /\ cmd = op THEN own \cup {cmd} ELSE own
  /\ UNCHANGED <<pc, op, cmd, unfinished>>

\* The ready bit of an earlier command falls.
HwFall ==
  /\ \E o \in (ready \cap NopAfter) \ {cmd} : ready' = ready \ {o}
  /\ UNCHANGED <<pc, op, cmd, own, unfinished>>

SdkStep ==
  \/ WriteNop \/ WriteOp \/ WaitReady \/ ReadData
  \/ WriteNopAfter \/ WaitNotReady \/ TimeOut

Next == Call \/ SdkStep \/ Abort \/ HwComplete \/ HwFall

Spec == Init /\ [][Next]_vars

\* The thread that called runs on, and its clock with it. The controller is
\* under no obligation.
FairSpec == Spec /\ WF_vars(SdkStep)

-----------------------------------------------------------------------------
\* The values an operation reads were produced by its own command, completed
\* while it waits: for dna, vlnv and activate always, so that the outcome of an
\* activation is never that of the license before; for the others unless their
\* last call ended early.
ResultIsOwn ==
  pc = "data" /\ op \notin unfinished \cap NopAfter => op \in own

\* Between two operations no ready bit is up but of operations that left their
\* command in the register or ended early: the next operation finds a clean
\* handshake, whatever it is.
BitsAreDown ==
  pc = "idle" => ready \subseteq {cmd} \cup unfinished

\* Every operation ends, with a controller that never answers too.
OperationsEnd == pc # "idle" ~> pc = "idle"

=============================================================================
