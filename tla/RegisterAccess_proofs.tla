------------------------- MODULE RegisterAccess_proofs -------------------------
(***************************************************************************)
(* An access finds its own page selected, and the strategies keep the       *)
(* promise of registers without pages, for all accesses, pages, failures of *)
(* callbacks and whatever the page register held before.                    *)
(***************************************************************************)
EXTENDS RegisterAccess, SequenceTheorems, TLAPS

\* Where the access is, by the selections it still has to make.
TodoInv ==
  /\ Len(todo) <= Len(access.selects)
  /\ Len(todo) = Len(access.selects) => todo = access.selects
  /\ pc \in {"read page", "write page"} => todo # <<>>
  /\ pc \in {"read", "compare", "write"} => todo = <<>>

\* After its first selection a disciplined access is on its page.
PageInv ==
  pc # "idle" /\ Disciplined(access) /\ Len(todo) < Len(access.selects) =>
    page = access.page

\* The lines are compared when all have been read.
ReadInv == pc = "compare" => next > access.reads.to

IInv == AccessTypeOK /\ TodoInv /\ PageInv /\ ReadInv

LEMMA TodoTail ==
  ASSUME NEW s \in Seq(BOOLEAN), s # <<>>
  PROVE  /\ Tail(s) \in Seq(BOOLEAN) /\ Len(Tail(s)) = Len(s) - 1 /\ Len(s) \in Nat
         /\ Head(s) = s[1] /\ (Tail(s) = <<>> <=> Len(s) = 1)
<1>1. Tail(s) \in Seq(BOOLEAN) /\ Len(Tail(s)) = Len(s) - 1
  BY HeadTailProperties
<1>2. Len(s) \in Nat /\ Head(s) = s[1]
  BY LenProperties
<1>3. Tail(s) = <<>> <=> Len(Tail(s)) = 0
  BY <1>1, EmptySeq
<1>4. QED BY <1>1, <1>2, <1>3

LEMMA AccessTyped ==
  ASSUME AccessesAreTyped, NEW a \in Accesses
  PROVE  /\ a.page \in Pages /\ a.selects \in Seq(BOOLEAN) /\ a.blind \in BOOLEAN
         /\ a.reads.from \in Nat /\ a.reads.to \in Int
         /\ a.writes.from \in Nat /\ a.writes.to \in Int
  BY DEF AccessesAreTyped, LineRange

THEOREM Initially == ASSUME AccessesAreTyped PROVE AccessInit => IInv
<1> SUFFICES ASSUME AccessInit PROVE IInv
  OBVIOUS
<1>1. access.selects \in Seq(BOOLEAN)
  BY AccessTyped DEF AccessInit
<1>2. AccessTypeOK
  BY DEF AccessInit, AccessTypeOK
<1>3. todo = <<>> /\ Len(todo) = 0
  BY DEF AccessInit
<1>4. TodoInv
  BY <1>1, <1>3, EmptySeq, LenProperties DEF AccessInit, TodoInv
<1>5. QED BY <1>2, <1>4 DEF AccessInit, IInv, PageInv, ReadInv

\* A selection that has put the controller on the page of the access, or one
\* whose error is dropped and that is not the first of a disciplined access.
LEMMA SelectedStep ==
  ASSUME AccessesAreTyped, IInv, Selecting, Selected, page' \in Pages,
         Disciplined(access) => page' = access.page
  PROVE  IInv'
<1>1. todo \in Seq(BOOLEAN) /\ todo # <<>> /\ access \in Accesses
  BY DEF IInv, AccessTypeOK, TodoInv, Selecting
<1>2. access.selects \in Seq(BOOLEAN) /\ Len(access.selects) \in Nat
  BY <1>1, AccessTyped, LenProperties
<1>3. /\ todo' \in Seq(BOOLEAN) /\ Len(todo') = Len(todo) - 1 /\ Len(todo) \in Nat
  BY <1>1, TodoTail DEF Selected
<1>4. AccessTypeOK'
  BY <1>1, <1>3 DEF IInv, AccessTypeOK, Selected
<1>5. TodoInv'
  <2>1. Len(todo) <= Len(access.selects)
    BY DEF IInv, TodoInv
  <2>2. Len(todo') < Len(access.selects) /\ Len(todo') \in Nat
    BY <1>2, <1>3, <2>1, LenProperties
  <2>3. access' = access /\ todo' = Tail(todo)
        /\ pc' = IF Tail(todo) = <<>> THEN "read" ELSE "read page"
    BY DEF Selected
  <2>4. Len(todo') <= Len(access.selects) /\ Len(todo') # Len(access.selects)
    BY <1>2, <2>2
  <2>5. QED BY <2>3, <2>4 DEF TodoInv
<1>6. PageInv'
  BY DEF PageInv, Selected
<1>7. QED BY <1>4, <1>5, <1>6 DEF IInv, ReadInv, Selected

\* A step that ends the access or leaves the selections alone.
LEMMA LineStep ==
  ASSUME AccessesAreTyped, IInv, UNCHANGED <<access, todo>>, page' = page,
         pc' = "idle" \/ pc' = pc \/ (pc \in {"read", "compare", "write"}
                                      /\ pc' \in {"read", "compare", "write"}),
         AccessTypeOK', ReadInv'
  PROVE  IInv'
  BY DEF IInv, TodoInv, PageInv

THEOREM Preserved == ASSUME AccessesAreTyped PROVE IInv /\ [AccessNext]_accessVars => IInv'
<1> SUFFICES ASSUME IInv, [AccessNext]_accessVars PROVE IInv'
  OBVIOUS
<1>1. access \in Accesses /\ page \in Pages /\ next \in Nat
  BY DEF IInv, AccessTypeOK
<1>2. CASE \E a \in Accesses : Begin(a)
  <2>1. PICK a \in Accesses : Begin(a)
    BY <1>2
  <2>2. a.selects \in Seq(BOOLEAN) /\ a.reads.from \in Nat /\ Len(a.selects) \in Nat
    BY AccessTyped, LenProperties
  <2>3. AccessTypeOK'
    BY <2>1, <2>2 DEF Begin, IInv, AccessTypeOK
  <2>4. todo' = a.selects /\ access' = a
    BY <2>1 DEF Begin
  <2>5. TodoInv'
    <3>1. Len(todo') <= Len(access'.selects)
      BY <2>2, <2>4
    <3>2. pc' \in {"read page", "write page"} => todo' # <<>>
      BY <2>1 DEF Begin
    <3>3. pc' \in {"read", "compare", "write"} => todo' = <<>>
      BY <2>1 DEF Begin
    <3>4. QED BY <2>4, <3>1, <3>2, <3>3 DEF TodoInv
  <2>6. ~(Len(todo') < Len(access'.selects))
    BY <2>2, <2>4
  <2>7. PageInv' /\ ReadInv'
    BY <2>1, <2>6 DEF Begin, PageInv, ReadInv
  <2>8. QED BY <2>3, <2>5, <2>7 DEF IInv
<1>3. CASE SamePage
  BY <1>1, <1>3, SelectedStep DEF SamePage, Selecting
<1>4. CASE OtherPage
  BY <1>4 DEF OtherPage, IInv, AccessTypeOK, TodoInv, PageInv, ReadInv
<1>5. CASE WritePage
  <2>1. access.page \in Pages
    BY <1>1, AccessTyped
  <2>2. QED BY <2>1, <1>5, SelectedStep DEF WritePage, Selecting
<1>6. CASE ReadLine \/ WriteLine
  <2>1. AccessTypeOK'
    <3>1. /\ bus' \in [op : {"read", "write"}, page : Pages, line : Nat]
          /\ next' \in Nat /\ UNCHANGED <<page, pc, access, todo, result>>
      BY <1>1, <1>6 DEF ReadLine, WriteLine, Touch
    <3>2. QED BY <3>1 DEF IInv, AccessTypeOK
  <2>2. UNCHANGED <<access, todo, page, pc>> /\ pc # "compare"
    BY <1>6 DEF ReadLine, WriteLine, Touch
  <2>3. QED BY <2>1, <2>2, LineStep DEF ReadInv
<1>7. CASE ReadsDone \/ Same \/ Different \/ WritesDone
  <2>1. AccessTypeOK'
    BY <1>1, <1>7, AccessTyped
       DEF ReadsDone, Same, Different, WritesDone, End, IInv, AccessTypeOK
  <2>2. UNCHANGED <<access, todo, page>>
    BY <1>7 DEF ReadsDone, Same, Different, WritesDone, End
  <2>3. ReadInv'
    BY <1>7 DEF ReadsDone, Same, Different, WritesDone, End, ReadInv
  <2>4. pc' = "idle" \/ (pc \in {"read", "compare", "write"} /\ pc' \in {"read", "compare", "write"})
    BY <1>7 DEF ReadsDone, Same, Different, WritesDone, End
  <2>5. QED BY <2>1, <2>2, <2>3, <2>4, LineStep
<1>8. CASE Fail
  <2>1. access.page \in Pages
    BY <1>1, AccessTyped
  <2>2. page' \in Pages /\ page' \in {page, access.page}
    BY <1>1, <1>8, <2>1 DEF Fail, PageAfterFailure
  <2>3. CASE Selecting /\ ~Head(todo)
    <3>1. Selected
      BY <1>8, <2>3 DEF Fail
    <3>2. Disciplined(access) => page' = access.page
      <4>1. SUFFICES ASSUME Disciplined(access) PROVE page = access.page
        BY <2>2
      <4>2. todo \in Seq(BOOLEAN) /\ todo # <<>> /\ pc # "idle"
        BY <2>3 DEF IInv, AccessTypeOK, TodoInv, Selecting
      <4>3. Head(todo) = todo[1]
        BY <4>2, TodoTail
      <4>4. todo # access.selects
        BY <4>1, <4>3, <2>3 DEF Disciplined
      <4>5. Len(todo) < Len(access.selects)
        <5>1. Len(todo) \in Nat /\ Len(access.selects) \in Nat
          BY <4>2, <1>1, AccessTyped, LenProperties
        <5>2. Len(todo) <= Len(access.selects) /\ Len(todo) # Len(access.selects)
          BY <4>4 DEF IInv, TodoInv
        <5>3. QED BY <5>1, <5>2
      <4>6. QED BY <4>1, <4>2, <4>5 DEF IInv, PageInv
    <3>3. QED BY <2>2, <2>3, <3>1, <3>2, SelectedStep
  <2>4. CASE ~(Selecting /\ ~Head(todo))
    <3>1. End("error")
      BY <1>8, <2>4 DEF Fail
    <3>2. QED BY <2>2, <3>1 DEF End, IInv, AccessTypeOK, TodoInv, PageInv, ReadInv
  <2>5. QED BY <2>3, <2>4
<1>9. CASE Forget
  BY <1>9 DEF Forget, IInv, AccessTypeOK, TodoInv, PageInv, ReadInv
<1>10. CASE UNCHANGED accessVars
  BY <1>10 DEF accessVars, IInv, AccessTypeOK, TodoInv, PageInv, ReadInv
<1>11. QED BY <1>2, <1>3, <1>4, <1>5, <1>6, <1>7, <1>8, <1>9, <1>10 DEF AccessNext, BusStep

-----------------------------------------------------------------------------
THEOREM Invariance == ASSUME AccessesAreTyped PROVE AccessSpec => []IInv
  BY Initially, Preserved, PTL DEF AccessSpec

\* A disciplined access is on its page while it reads, compares and writes.
LEMMA OnOwnPage == ASSUME AccessesAreTyped PROVE IInv => OwnPage
<1> SUFFICES ASSUME IInv, pc \in {"read", "compare", "write"}, Disciplined(access)
             PROVE  page = access.page
  BY DEF OwnPage
<1>1. access.selects \in Seq(BOOLEAN) /\ access.selects # <<>>
  BY AccessTyped DEF IInv, AccessTypeOK, Disciplined
<1>2. Len(access.selects) > 0
  BY <1>1, EmptySeq, LenProperties
<1>3. todo = <<>> /\ Len(todo) = 0
  BY DEF IInv, TodoInv
<1>4. QED BY <1>2, <1>3 DEF IInv, PageInv

\* An access touches the registers of its own page only.
THEOREM OwnPageOnly == ASSUME AccessesAreTyped PROVE AccessSpec => []OwnPage
  BY OnOwnPage, Invariance, PTL

-----------------------------------------------------------------------------
\* The accesses implement FlatRegisters.
THEOREM FlatInitially == AccessInit => Flat!Init
<1> SUFFICES ASSUME AccessInit PROVE Flat!Init
  OBVIOUS
<1>1. pc = "idle"
  BY DEF AccessInit
<1>2. QED BY <1>1 DEF AccessInit, Flat!Init, Quiet, Flat!Quiet

LEMMA FlatStep ==
  ASSUME AccessesAreTyped, IInv, [AccessNext]_accessVars
  PROVE  [Flat!Next]_(Flat!vars)
<1>1. access \in Accesses /\ page \in Pages
  BY DEF IInv, AccessTypeOK
<1>2. CASE \E a \in Accesses : Begin(a)
  <2>1. PICK a \in Accesses : Begin(a)
    BY <1>2
  <2>2. pc' \in {"read", "read page", "write page"}
    BY <2>1 DEF Begin
  <2>3. Flat!Begin
    BY <2>1, <2>2 DEF Begin, Flat!Begin, Quiet, Flat!Quiet
  <2>4. QED BY <2>3 DEF Flat!Next
<1>3. CASE SamePage \/ OtherPage \/ WritePage
  BY <1>3 DEF SamePage, OtherPage, WritePage, Selected, Flat!vars
<1>4. CASE ReadLine
  <2>1. Disciplined(access) => page = access.page
    BY <1>4, OnOwnPage DEF ReadLine, Touch, OwnPage
  <2>2. /\ pc = "read" /\ bus' = [op |-> "read", page |-> page, line |-> next]
        /\ next <= access.reads.to /\ next' = next + 1 /\ UNCHANGED <<pc, access, result>>
    BY <1>4 DEF ReadLine, Touch
  <2>3. Flat!Disciplined(access) => page = access.page
    BY <2>1 DEF Disciplined, Flat!Disciplined
  <2>4. Flat!Touch(access.reads)
    BY <1>1, <2>2, <2>3 DEF Flat!Touch
  <2>5. Flat!ReadLine
    BY <2>2, <2>4 DEF Flat!ReadLine
  <2>6. QED BY <2>5 DEF Flat!Next
<1>5. CASE WriteLine
  <2>1. Disciplined(access) => page = access.page
    BY <1>5, OnOwnPage DEF WriteLine, Touch, OwnPage
  <2>2. /\ pc = "write" /\ bus' = [op |-> "write", page |-> page, line |-> next]
        /\ next <= access.writes.to /\ next' = next + 1 /\ UNCHANGED <<pc, access, result>>
    BY <1>5 DEF WriteLine, Touch
  <2>3. Flat!Disciplined(access) => page = access.page
    BY <2>1 DEF Disciplined, Flat!Disciplined
  <2>4. Flat!Touch(access.writes)
    BY <1>1, <2>2, <2>3 DEF Flat!Touch
  <2>5. Flat!WriteLine
    BY <2>2, <2>4 DEF Flat!WriteLine
  <2>6. QED BY <2>5 DEF Flat!Next
<1>6. CASE ReadsDone
  BY <1>6 DEF ReadsDone, End, Flat!Next, Flat!End, Flat!vars
<1>7. CASE Same
  BY <1>7 DEF Same, End, IInv, ReadInv, Flat!Next, Flat!End
<1>8. CASE Different
  BY <1>8 DEF Different, IInv, ReadInv, Flat!Next, Flat!StartWrite
<1>9. CASE WritesDone
  BY <1>9 DEF WritesDone, End, Flat!Next, Flat!End
<1>10. CASE Fail
  <2>1. pc # "idle" /\ pc \in {"read page", "write page", "read", "write"}
    BY <1>10 DEF Fail, CallsBack, Selecting
  <2>2. CASE Selected /\ Selecting
    BY <2>2 DEF Selected, Selecting, Flat!vars
  <2>3. CASE End("error")
    BY <2>1, <2>3 DEF End, Flat!Next, Flat!Fail
  <2>4. QED BY <1>10, <2>2, <2>3 DEF Fail
<1>11. CASE Forget
  BY <1>11 DEF Forget, Flat!Next, Flat!Forget
<1>12. CASE UNCHANGED accessVars
  BY <1>12 DEF accessVars, Flat!vars
<1>13. QED BY <1>2, <1>3, <1>4, <1>5, <1>6, <1>7, <1>8, <1>9, <1>10, <1>11, <1>12
          DEF AccessNext, BusStep

\* The register strategies give the operations registers without pages.
THEOREM StrategiesAreFlat == ASSUME AccessesAreTyped PROVE AccessSpec => IsFlat
  BY FlatInitially, FlatStep, Invariance, PTL DEF AccessSpec, IsFlat, Flat!Spec
=============================================================================
