---------------------------- MODULE RegisterAccess ----------------------------
(***************************************************************************)
(* One access of a register strategy, bus access by bus access. The         *)
(* registers of all pages have the same names ("DrmRegisterLine<i>"): which *)
(* one is touched depends on the page register. writePageRegister reads it  *)
(* and writes it only when it differs. Each bus access is a call of the     *)
(* user's callbacks, which may return an error; a write that returns one    *)
(* may have happened or not. Accesses are serialised by mDrmControllerMutex *)
(* within a manager.                                                        *)
(***************************************************************************)
EXTENDS RegisterTables

CONSTANTS
  Accesses,   \* the accesses (see RegisterTables)
  Pages       \* what the page register can hold

LineRange == [from : Nat, to : Int]

\* What the tables make.
AccessesAreTyped ==
  Accesses \subseteq [page : Pages, selects : Seq(BOOLEAN), blind : BOOLEAN,
                      reads : LineRange, writes : LineRange]

VARIABLES
  page,    \* the page register
  pc,      \* where the access is
  access,  \* the access that runs, or ran last
  todo,    \* the selections of the page it still has to make
  next,    \* the line it reads or writes next
  bus,     \* the line it touched last, with the page the controller was on
  result   \* how it ended: "none" while it runs

accessVars == <<page, pc, access, todo, next, bus, result>>

AccessTypeOK ==
  /\ page \in Pages
  /\ pc \in {"idle", "read page", "write page", "read", "compare", "write"}
  /\ access \in Accesses
  /\ todo \in Seq(BOOLEAN)
  /\ next \in Nat
  /\ bus = Quiet \/ bus \in [op : {"read", "write"}, page : Pages, line : Nat]
  /\ result \in {"none", "ok", "error"}

AccessInit ==
  /\ page \in Pages /\ pc = "idle" /\ access \in Accesses
  /\ todo = <<>> /\ next = 0 /\ bus = Quiet /\ result = "none"

-----------------------------------------------------------------------------
Begin(a) ==
  /\ pc = "idle"
  /\ access' = a /\ todo' = a.selects /\ next' = a.reads.from
  /\ pc' = IF a.selects = <<>> THEN "read"
           ELSE IF a.blind THEN "write page" ELSE "read page"
  /\ bus' = Quiet /\ result' = "none"
  /\ UNCHANGED page

\* One selection is made: the next one, or the lines.
Selected ==
  /\ todo' = Tail(todo)
  /\ pc' = IF Tail(todo) = <<>> THEN "read" ELSE "read page"
  /\ UNCHANGED <<access, next, bus, result>>

End(outcome) ==
  /\ pc' = "idle" /\ result' = outcome
  /\ UNCHANGED <<access, todo, next, bus>>

SamePage ==
  /\ pc = "read page" /\ page = access.page
  /\ Selected /\ UNCHANGED page

OtherPage ==
  /\ pc = "read page" /\ page # access.page
  /\ pc' = "write page"
  /\ UNCHANGED <<page, access, todo, next, bus, result>>

WritePage ==
  /\ pc = "write page"
  /\ page' = access.page
  /\ Selected

Touch(op) ==
  /\ pc = op
  /\ bus' = [op |-> op, page |-> page, line |-> next]
  /\ next' = next + 1
  /\ UNCHANGED <<page, pc, access, todo, result>>

ReadLine  == next <= access.reads.to  /\ Touch("read")
WriteLine == next <= access.writes.to /\ Touch("write")

\* All lines are read: a writer compares them with what it has to write.
ReadsDone ==
  /\ pc = "read" /\ next > access.reads.to
  /\ IF access.writes.from > access.writes.to
     THEN End("ok")
     ELSE pc' = "compare" /\ UNCHANGED <<access, todo, next, bus, result>>
  /\ UNCHANGED page

Same == pc = "compare" /\ End("ok") /\ UNCHANGED page

Different ==
  /\ pc = "compare"
  /\ pc' = "write" /\ next' = access.writes.from
  /\ UNCHANGED <<page, access, todo, bus, result>>

WritesDone ==
  /\ pc = "write" /\ next > access.writes.to
  /\ End("ok") /\ UNCHANGED page

Selecting == pc \in {"read page", "write page"}

\* The calls whose error is looked at, or dropped with the selection. A blind
\* access goes on after a line that failed as after one that did not.
CallsBack ==
  \/ Selecting
  \/ pc = "read"  /\ next <= access.reads.to /\ ~access.blind
  \/ pc = "write" /\ next <= access.writes.to

\* A page write that fails may have written.
PageAfterFailure == IF pc = "write page" THEN {page, access.page} ELSE {page}

\* Mutant: the error of a selection is dropped by all accesses.
FailAndGoOn ==
  /\ CallsBack /\ page' \in PageAfterFailure
  /\ IF Selecting THEN Selected ELSE End("error")

\* A callback returns an error.
Fail ==
  /\ CallsBack /\ page' \in PageAfterFailure
  /\ IF Selecting /\ ~Head(todo) THEN Selected ELSE End("error")

\* The caller has looked at the result.
Forget ==
  /\ pc = "idle" /\ result' = "none"
  /\ UNCHANGED <<page, pc, access, todo, next, bus>>

BusStep ==
  \/ SamePage \/ OtherPage \/ WritePage
  \/ ReadLine \/ ReadsDone \/ Same \/ Different \/ WriteLine \/ WritesDone
  \/ Fail

AccessNext == (\E a \in Accesses : Begin(a)) \/ BusStep \/ Forget

AccessSpec == AccessInit /\ [][AccessNext]_accessVars

-----------------------------------------------------------------------------
\* A disciplined access touches the registers of its own page only, whatever
\* happened to the page register before it, and whichever callback failed.
OwnPage ==
  pc \in {"read", "compare", "write"} /\ Disciplined(access) => page = access.page

\* The strategies give the operations registers without pages.
Flat == INSTANCE FlatRegisters WITH
  phase <- CASE pc = "idle"                -> "idle"
             [] pc = "write"               -> "write"
             [] OTHER                      -> "read"

IsFlat == Flat!Spec
=============================================================================
