---------------------------- MODULE FlatRegisters ----------------------------
(***************************************************************************)
(* What the register strategies promise to the operations above them:       *)
(* registers that are addressed by page and line, as if there were no page  *)
(* register to select. An access reads its lines one after the other, then  *)
(* writes its lines one after the other or finds that it need not; it can   *)
(* end with an error at any point, and ends without one when all is done.   *)
(* Nothing is promised of the page of an access that is not Disciplined.    *)
(***************************************************************************)
EXTENDS RegisterTables

CONSTANTS
  Accesses,  \* the accesses, as RegisterTables makes them
  Pages      \* what the page register can hold

VARIABLES
  phase,   \* "idle", "read" or "write"
  access,  \* the access that runs, or ran last
  next,    \* the line to read or write next
  bus,     \* what the access did last: [op, page, line]
  result   \* how the last access ended: "none" while it runs

vars == <<phase, access, next, bus, result>>

Init ==
  /\ phase = "idle" /\ access \in Accesses /\ next = 0
  /\ bus = Quiet /\ result = "none"

Begin ==
  /\ phase = "idle"
  /\ access' \in Accesses
  /\ phase' = "read" /\ next' = access'.reads.from
  /\ bus' = Quiet /\ result' = "none"

Touch(lines) ==
  /\ next <= lines.to
  /\ \E p \in Pages :
       /\ Disciplined(access) => p = access.page
       /\ bus' = [op |-> phase, page |-> p, line |-> next]
  /\ next' = next + 1
  /\ UNCHANGED <<phase, access, result>>

ReadLine  == phase = "read"  /\ Touch(access.reads)
WriteLine == phase = "write" /\ Touch(access.writes)

StartWrite ==
  /\ phase = "read" /\ next > access.reads.to
  /\ phase' = "write" /\ next' = access.writes.from
  /\ UNCHANGED <<access, bus, result>>

\* The values that were read are the ones to write, or all are written.
End ==
  /\ \/ phase = "read"  /\ next > access.reads.to
     \/ phase = "write" /\ next > access.writes.to
  /\ phase' = "idle" /\ result' = "ok"
  /\ UNCHANGED <<access, next, bus>>

Fail ==
  /\ phase # "idle"
  /\ phase' = "idle" /\ result' = "error"
  /\ UNCHANGED <<access, next, bus>>

\* The caller has looked at the result.
Forget == phase = "idle" /\ result' = "none" /\ UNCHANGED <<phase, access, next, bus>>

Next == Begin \/ ReadLine \/ WriteLine \/ StartWrite \/ End \/ Fail \/ Forget

Spec == Init /\ [][Next]_vars
=============================================================================
