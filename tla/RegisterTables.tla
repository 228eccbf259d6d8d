---------------------------- MODULE RegisterTables ----------------------------
(***************************************************************************)
(* The vocabulary the register strategies are described in: what            *)
(* DrmControllerRegistersBase and DrmControllerRegistersStrategyInterface   *)
(* give to all of them. A register word is the set of its bits that are up. *)
(***************************************************************************)
EXTENDS Integers, Sequences, FiniteSets

WordBits == 0..31

NumberOfWords(size) ==
  IF size <= 32 THEN 1
  ELSE IF size % 32 = 0 THEN size \div 32
  ELSE size \div 32 + 1

\* The registers of a page follow one another: the first line of each.
FirstLines(order, size) ==
  LET first[i \in DOMAIN order] ==
        IF i = 1 THEN 0 ELSE first[i - 1] + NumberOfWords(size[order[i - 1]])
  IN  [r \in {order[i] : i \in DOMAIN order} |->
         first[CHOOSE i \in DOMAIN order : order[i] = r]]

\* (value & mask) >> lsb
Bits(lsb, mask, value) ==
  {b - lsb : b \in {c \in value \cap mask : c >= lsb}}

\* A field of the status register. Its value is the number its bits make.
Field(lsb, mask) == [lsb |-> lsb, mask |-> mask]

StatusValue(field, status) == Bits(field.lsb, field.mask, status)

\* The byte that is left when the bits are assigned to an unsigned char.
ErrorValue(field, errors) == Bits(field.lsb, field.mask, errors) \cap 0..7

-----------------------------------------------------------------------------
(* Accesses. "selects" has an element for each selection of the page the    *)
(* access makes before it reads; the element is FALSE when the error of the *)
(* selection is dropped. A blind access writes the page without reading it  *)
(* first, and drops the errors of its lines. "reads" and "writes" are the   *)
(* lines, in the order of the bus.                                          *)

Lines(from, n) == [from |-> from, to |-> from + n - 1]
NoLines == Lines(0, 0)

Read(p, lines) ==
  [page |-> p, selects |-> <<TRUE>>, blind |-> FALSE,
   reads |-> lines, writes |-> NoLines]

Select(p) == Read(p, NoLines)

\* The writers select the page, read the lines, which selects it again, and
\* write them when they differ.
Write(p, lines) ==
  [Read(p, lines) EXCEPT !.selects = <<TRUE, TRUE>>, !.writes = lines]

\* The selection of the page of a mailbox: its error is overwritten.
Unchecked(p, reads, writes) ==
  [Read(p, reads) EXCEPT !.selects = <<FALSE>>, !.writes = writes]

\* The strategy throws DrmControllerUnsupportedFeatureException.
Unsupported == Select(-1)

\* The access selects its page first, and goes on only when it could.
Disciplined(a) == a.selects # <<>> /\ a.selects[1] /\ ~a.blind

\* The methods of two groups, which have different names. The provers know this
\* and not the @@ of TLC.
Both(f, g) == [m \in DOMAIN f \cup DOMAIN g |-> IF m \in DOMAIN f THEN f[m] ELSE g[m]]

\* Before the first line is touched.
Quiet == [op |-> "none", page |-> 0, line |-> 0]

\* A wait is its read, made again until the field has the expected value: the
\* page is selected before the first one once more.
StatusRead(p, line, field) == [bus |-> Read(p, Lines(line, 1)), field |-> field]
UnsupportedStatus == [bus |-> Unsupported, field |-> Field(0, {})]
=============================================================================
