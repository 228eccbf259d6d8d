------------------------- MODULE DrmController_proofs -------------------------
(***************************************************************************)
(* Safety of the command handshake, whatever the controller's speed and      *)
(* whichever waits time out, callbacks fail or processes are killed.          *)
(***************************************************************************)
EXTENDS DrmController, TLAPS

\* What the place in the operation says of the command register.
CommandInv ==
  /\ pc = "nop" => op \in NopFirst
  /\ pc = "command" /\ op \in NopFirst => cmd = "nop"
  /\ pc \in {"wait ready", "data", "nop after"} => cmd = op
  /\ pc \in {"nop after", "wait not ready"} => op \in NopAfter
  /\ pc = "wait not ready" => cmd = "nop"

\* A command of NopAfter is only in the register during its operation, or when
\* that ended early.
LeftInv ==
  cmd \in NopAfter =>
    \/ cmd \in unfinished
    \/ cmd = op /\ pc \in {"wait ready", "data", "nop after"}

\* Where a ready bit can be up.
BitsInv ==
  \A o \in ready :
    \/ o = cmd
    \/ o \in NopAfter /\ o \in unfinished
    \/ o \in NopAfter /\ o = op /\ pc = "wait not ready"

\* The ready bit an operation sees is that of its own command.
OwnInv ==
  /\ pc \in {"wait ready", "data"}
  /\ op \in ready
  /\ op \notin unfinished \cap NopAfter
  => op \in own

\* The values are only read after the ready bit was seen.
SeenInv == pc = "data" => op \in ready

IInv == TypeOK /\ CommandInv /\ LeftInv /\ BitsInv /\ OwnInv /\ SeenInv

\* No bit is up and no command written initially.
LEMMA InvInit == Init => IInv
BY DEF Init, IInv, TypeOK, CommandInv, LeftInv, BitsInv, OwnInv, SeenInv, Ops,
   NopFirst, NopAfter

\* Every step of the library and of the controller keeps the invariant.
LEMMA InvStep == IInv /\ [Next]_vars => IInv'
<1> SUFFICES ASSUME IInv, [Next]_vars PROVE IInv'
  OBVIOUS
<1> USE DEF IInv, TypeOK, CommandInv, LeftInv, BitsInv, OwnInv, SeenInv, Ops,
      NopFirst, NopAfter, Goto, WriteCommand
<1>1. CASE Call BY <1>1 DEF Call
<1>2. CASE WriteNop BY <1>2 DEF WriteNop
<1>3. CASE WriteOp BY <1>3 DEF WriteOp
<1>4. CASE WaitReady BY <1>4 DEF WaitReady
<1>5. CASE ReadData BY <1>5 DEF ReadData
<1>6. CASE WriteNopAfter BY <1>6 DEF WriteNopAfter
<1>7. CASE WaitNotReady BY <1>7 DEF WaitNotReady
<1>8. CASE TimeOut BY <1>8 DEF TimeOut
<1>9. CASE HwComplete BY <1>9 DEF HwComplete
<1>10. CASE HwFall BY <1>10 DEF HwFall
<1>11. CASE Abort BY <1>11 DEF Abort
<1>12. CASE UNCHANGED vars BY <1>12 DEF vars
<1> QED
  BY <1>1, <1>2, <1>3, <1>4, <1>5, <1>6, <1>7, <1>8, <1>9, <1>10, <1>11, <1>12
  DEF Next, SdkStep

\* The inductive invariant holds in every reachable state.
THEOREM Invariance == Spec => []IInv
BY InvInit, InvStep, PTL DEF Spec

\* The variables keep their types.
THEOREM TypeCorrect == Spec => []TypeOK
<1>1. IInv => TypeOK BY DEF IInv
<1> QED BY <1>1, Invariance, PTL

\* Unless its last call ended early, no operation reads the values of an earlier
\* command: an activation in particular never reports an earlier license.
THEOREM ResultSafe == Spec => []ResultIsOwn
<1>1. IInv => ResultIsOwn BY DEF IInv, OwnInv, SeenInv, ResultIsOwn
<1> QED BY <1>1, Invariance, PTL

\* Each operation leaves a clean handshake unless it ends early.
THEOREM HandshakeSafe == Spec => []BitsAreDown
<1>1. IInv => BitsAreDown BY DEF IInv, BitsInv, BitsAreDown
<1> QED BY <1>1, Invariance, PTL
=============================================================================
