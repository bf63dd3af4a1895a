------------------------------ MODULE Console ------------------------------
(***************************************************************************)
(* Text output: the VGA text driver of src/kernel/x86/vgatext.c, the       *)
(* routines that print through it or to the port of the host console       *)
(* (kearly_printf, kpanic, the log of the kernel and of applications), and *)
(* the console calls of applications.                                      *)
(*                                                                         *)
(* Characters are one-letter strings and CR, LF, TAB. Beside the display   *)
(* the model keeps a page that never scrolls, on which the same text is    *)
(* typed: what the display shows must be the end of the page.              *)
(***************************************************************************)
EXTENDS Printf, Integers

CONSTANTS
  VGA_ROWS, VGA_COLUMNS, TABSTOP,
  LIMIT,          \* MAX_PRINTABLE_STRING_LENGTH, the size of the buffers
  Screens,        \* how many characters the boot loader has left on the screen
  Messages,       \* messages, sequences of parts of Printf
  PanicMessages,  \* those of panics, without a %
  Colours,        \* <<background, foreground>> that applications set
  Positions,      \* <<row, column>> that applications set
  MaxCalls

ASSUME GridAssumption == /\ VGA_ROWS \in Nat \ {0} /\ VGA_COLUMNS \in Nat \ {0}
                         /\ TABSTOP \in Nat \ {0} /\ LIMIT \in Nat \ {0}

VARIABLES
  scr,      \* the display and the state of its driver
  page,     \* ghost: the lines typed so far, and the position on them
  said,     \* the last text put into a buffer, what it should have been, the pieces of
            \* the fullest buffer, and whether any was written behind its buffer
  out,      \* what s_prnstr has still to put on the display
  phase,    \* "boot", "ready", "halted"
  calls

consoleVars == <<scr, page, said, out, phase, calls>>

CR == "CR"
LF == "LF"
TAB == "TAB"
LIGHT_GRAY == 7
UNSET == -1   \* the cursor has not been moved by the driver
Index == 0..(VGA_ROWS * VGA_COLUMNS - 1)
Columns == 0..(VGA_COLUMNS - 1)

(* The driver *)

s_updateCursor(s) == [s EXCEPT !.cursor = s.row * VGA_COLUMNS + s.column]

Blank(attr) == <<attr % 256, " ">>

\* The last line is left as it was.
Mut_kdisp_scrollDown(s) ==
  s_updateCursor([s EXCEPT
    !.vgab = [i \in Index |-> IF i + VGA_COLUMNS \in Index THEN s.vgab[i + VGA_COLUMNS] ELSE s.vgab[i]],
    !.row = IF @ > 0 THEN @ - 1 ELSE @, !.column = 0])

kdisp_scrollDown(s) ==
  s_updateCursor([s EXCEPT
    !.vgab = [i \in Index |-> IF i + VGA_COLUMNS \in Index THEN s.vgab[i + VGA_COLUMNS]
                              ELSE Blank(s.attr)],
    !.row = IF @ > 0 THEN @ - 1 ELSE @, !.column = 0])

\* The character and the move it makes; a place outside the buffer is written wildly.
Placed(s, c) ==
  LET index == s.row * VGA_COLUMNS + s.column
  IN  CASE c = CR -> [s EXCEPT !.column = 0]
        [] c = LF -> [s EXCEPT !.column = 0, !.row = @ + 1]
        [] c = TAB -> [s EXCEPT !.column = @ + (TABSTOP - (@ % TABSTOP))]
        [] OTHER -> [s EXCEPT !.vgab = IF index \in Index
                                       THEN [@ EXCEPT ![index] = <<s.attr % 256, c>>] ELSE @,
                              !.wild = @ \/ index \notin Index,
                              !.column = @ + 1]

Wrapped(s) == IF s.column >= VGA_COLUMNS THEN [s EXCEPT !.row = @ + 1, !.column = 0] ELSE s

kdisp_putc(s, c) ==
  LET moved == Wrapped(Placed(s, c))
  IN  s_updateCursor(IF moved.row >= VGA_ROWS THEN kdisp_scrollDown(moved) ELSE moved)

\* DISP_SETATTR and DISP_SETCOORDS store first and check afterwards. Without blinking
\* the high bit is dropped.
kdisp_setattr(s, attr) ==
  [s EXCEPT !.attr = IF attr > 255 \/ s.blink THEN attr ELSE attr % 128]

kdisp_setcoords(s, row, column) ==
  LET stored == [s EXCEPT !.row = row, !.column = column]
  IN  IF row > VGA_ROWS \/ column > VGA_COLUMNS THEN stored ELSE s_updateCursor(stored)

(* The page: text is typed where the position is; lines are added, never moved. *)

BlankLine(attr) == [c \in Columns |-> Blank(attr)]

Advance(p, c) ==
  LET column == CASE c \in {CR, LF} -> 0
                  [] c = TAB -> p.column + TABSTOP - (p.column % TABSTOP)
                  [] OTHER -> p.column + 1
      down == c = LF \/ column >= VGA_COLUMNS
  IN  [p EXCEPT !.column = IF down THEN 0 ELSE column, !.line = IF down THEN @ + 1 ELSE @]

Typed(p, c, attr) ==
  LET inked == IF c \in {CR, LF, TAB} THEN p
               ELSE [p EXCEPT !.lines[p.line][p.column] = <<attr % 256, c>>]
      moved == Advance(inked, c)
  IN  IF moved.line > Len(moved.lines)
      THEN [moved EXCEPT !.lines = Append(@, BlankLine(attr))] ELSE moved
-----------------------------------------------------------------------------
LoaderScreen(n) == [i \in Index |-> <<LIGHT_GRAY, IF i < n THEN "L" ELSE " ">>]

Nothing == [got |-> <<>>, due |-> <<>>, pieces |-> <<>>, over |-> FALSE]

ConsoleInit ==
  /\ \E n \in Screens, blink \in BOOLEAN :
       scr = [vgab |-> LoaderScreen(n), row |-> 0, column |-> 0, attr |-> 0, cursor |-> UNSET,
              wild |-> FALSE, blink |-> blink]
  /\ page = [lines |-> <<>>, line |-> 1, column |-> 0]
  /\ said = Nothing
  /\ out = <<>> /\ phase = "boot" /\ calls = 0

\* The place behind the last character on the screen, or the second one of an empty
\* screen. The cursor is moved before the port of its registers is known.
LastIndex(s) ==
  LET used == {i \in Index : s.vgab[i][2] # " "}
  IN  IF used = {} THEN 0 ELSE CHOOSE i \in used : \A j \in used : j <= i

Lines(s) == [r \in 1..VGA_ROWS |-> [c \in Columns |-> s.vgab[(r - 1) * VGA_COLUMNS + c]]]

kdisp_init ==
  LET h == LastIndex(scr) + 1
      s == IF h \in Index THEN scr ELSE kdisp_scrollDown(scr)
  IN  /\ phase = "boot" /\ phase' = "ready"
      /\ scr' = [s EXCEPT !.row = h \div VGA_COLUMNS, !.column = h % VGA_COLUMNS, !.attr = LIGHT_GRAY,
                           !.cursor = UNSET]
      /\ page' = [lines |-> Lines(s), line |-> h \div VGA_COLUMNS + 1, column |-> h % VGA_COLUMNS]
      /\ UNCHANGED <<said, out, calls>>

\* One turn of the loop.
s_prnstr ==
  /\ out # <<>> /\ out' = Tail(out)
  /\ scr' = kdisp_putc(scr, Head(out))
  /\ page' = Typed(page, Head(out), scr.attr)
  /\ UNCHANGED <<said, phase, calls>>

Call == phase = "ready" /\ out = <<>> /\ calls < MaxCalls /\ calls' = calls + 1

(* Messages are put together in a buffer on the stack: each piece is written where the
   one before ended by the count of the routine, with the size of the whole buffer as its
   limit. Text and NUL must be inside the buffer; what is behind it is overwritten, and
   the routine may not return. *)

Empty == [text |-> <<>>, len |-> 0, over |-> FALSE]

Behind(buffer, piece) ==
  [text |-> IF buffer.len = Len(buffer.text) THEN buffer.text \o piece.text ELSE buffer.text,
   len  |-> buffer.len + piece.len,
   over |-> buffer.over \/ buffer.len + Len(piece.text) >= LIMIT]

Assembled(pieces) ==
  FoldLeft(LAMBDA buffer, parts : Behind(buffer, kearly_vsnprintf(LIMIT, Format(parts), Args(parts))),
           Empty, pieces)

Said(buffer, parts, pieces, over) ==
  said' = [got |-> [text |-> buffer.text, len |-> buffer.len], due |-> Promised(LIMIT, parts),
           pieces |-> pieces, over |-> over]
Returns(over) == phase' = phase \/ (over /\ phase' = "halted")

kearly_printf(parts) ==
  LET buffer == Assembled(<<parts>>)
  IN  /\ Call
      /\ Said(buffer, parts, <<parts>>, buffer.over)
      /\ out' = buffer.text
      /\ Returns(buffer.over)
      /\ UNCHANGED <<scr, page>>

ksys_console_setcolor(bg, fg) ==
  /\ Call
  /\ scr' = kdisp_setattr(scr, bg * 16 + fg)
  /\ UNCHANGED <<page, said, out, phase>>

ksys_console_setposition(row, column) ==
  /\ Call
  /\ scr' = kdisp_setcoords(scr, row, column)
  /\ page' = [page EXCEPT !.line = Len(page.lines) - VGA_ROWS + row + 1, !.column = column]
  /\ UNCHANGED <<said, out, phase>>

Prefix == <<Literal("["), Integer(<<>>, "u", 3)>>
Panicked(parts) == << <<Literal("!"), Integer(<<>>, "x", 1)>>, parts, <<Literal("#")>> >>

\* kdebug_log_ndu and cm_debug_log_ndu write to the port of the host console.
kdebug_log_ndu(parts) ==
  LET pieces == <<Prefix, parts>>
      buffer == Assembled(pieces)
  IN  /\ Call
      /\ Said(buffer, Prefix \o parts, pieces, buffer.over)
      /\ Returns(buffer.over)
      /\ UNCHANGED <<scr, page, out>>

cm_debug_log_ndu(parts) ==
  LET first == Behind(Empty, cm_vsnprintf(LIMIT, Format(Prefix), Args(Prefix)))
      buffer == Behind(first, cm_vsnprintf(LIMIT, Format(parts), Args(parts)))
  IN  /\ Call
      /\ Said(buffer, Prefix \o parts, <<Prefix, parts>>, buffer.over)
      /\ Returns(buffer.over)
      /\ UNCHANGED <<scr, page, out>>

\* A panic that has parts to say, of which message may be what a buffer holds already. It
\* is logged as well, behind the prefix of the log.
PanicSaid(buffer, parts, over) ==
  LET logged == Assembled(<<Prefix, <<String(buffer.text)>> >>)
  IN  Said(buffer, FlattenSeq(Panicked(parts)), <<Prefix>> \o Panicked(parts),
           over \/ buffer.over \/ logged.over)

\* The buffer is printed as a format of its own.
Panic(message, parts, over) ==
  LET buffer == Assembled(Panicked(message))
  IN  /\ Call
      /\ PanicSaid(buffer, parts, over)
      /\ out' = kearly_vsnprintf(LIMIT, buffer.text, <<>>).text
      /\ phase' = "halted"
      /\ UNCHANGED <<scr, page>>

kpanic_ndu(parts) == Panic(parts, parts, FALSE)

\* An exception: the message and the interrupt frame, for which the rest of the buffer
\* is the limit, an unsigned word.
Frame == <<Literal("@"), Integer(<<"l">>, "h", 5)>>

s_callPanic(parts) ==
  LET first == Assembled(<<parts>>)
      buffer == Behind(first, kearly_vsnprintf((LIMIT - first.len) % WORD, Format(Frame), Args(Frame)))
  IN  Panic(<<String(buffer.text)>>, parts \o Frame, buffer.over)

ConsoleNext ==
  \/ kdisp_init \/ s_prnstr
  \/ \E parts \in Messages :
       \/ kearly_printf(parts)
       \/ kdebug_log_ndu(parts) \/ cm_debug_log_ndu(parts)
  \/ \E parts \in PanicMessages : kpanic_ndu(parts) \/ s_callPanic(parts)
  \/ \E c \in Colours : ksys_console_setcolor(c[1], c[2])
  \/ \E p \in Positions : ksys_console_setposition(p[1], p[2])
-----------------------------------------------------------------------------
\* The screen that the loader leaves has room for a character more, and applications ask
\* for places on the screen, which the driver does not check (see kdisp_setcoords).
WithinScreen ==
  /\ VGA_ROWS * VGA_COLUMNS > 1 /\ Screens \subseteq 0..(VGA_ROWS * VGA_COLUMNS - 1)
  /\ Positions \subseteq (0..(VGA_ROWS - 1)) \X Columns
  /\ Colours \subseteq Nat \X Nat

\* What kearly_vsnprintf documents: the buffer holds the output of all conversions, cut
\* before the place of the NUL, and the value returned is the length without the cut. A
\* message of one format without %% is never written behind its buffer, however long its
\* output. %% is written without a look at the room left, and the pieces of logs and panics
\* each have the whole buffer as their limit: these leave the buffer, but only if all that
\* they have to say does not fit into it; when they stay inside, they are whole.
Formatted ==
  IF said.over
  THEN /\ Len(Output(FlattenSeq(said.pieces))) >= LIMIT
       /\ Len(said.pieces) = 1 => Percent \in Range(said.pieces[1])
  ELSE said.got = said.due

\* The screen shows the last lines of all that was ever typed: text that reaches the
\* end of a row goes on in the next one, the last row scrolls away no other text than
\* the first row, and nothing is written outside the buffer. The next character goes
\* where the position on the page is, and after any output the cursor is there.
ScreenShowsPage ==
  phase # "boot" =>
    /\ ~scr.wild
    /\ Lines(scr) = SubSeq(page.lines, Len(page.lines) - VGA_ROWS + 1, Len(page.lines))
    /\ scr.row = page.line - (Len(page.lines) - VGA_ROWS) - 1 /\ scr.column = page.column
    /\ scr.cursor # UNSET => scr.cursor = scr.row * VGA_COLUMNS + scr.column
=============================================================================
