------------------------------- MODULE Printf -------------------------------
(***************************************************************************)
(* Formatting into a buffer of limited size: kearly_vsnprintf of           *)
(* src/kernel/printk.c, and cm_vsnprintf of src/cm/printf.c, which is the  *)
(* same routine for applications.                                          *)
(*                                                                         *)
(* A format is a sequence of characters without its terminating NUL, and   *)
(* no conversion of it is left open at the end. Arguments are machine      *)
(* words, a long long takes two, or strings.                               *)
(***************************************************************************)
EXTENDS Naturals, Sequences, SequencesExt

CONSTANT WORD   \* number of values of a machine word

ASSUME WordAssumption == WORD \in Nat \ {0, 1}

\* What has been written, the room that is left by the count of the routine, the
\* arguments that are left, and the index in the format to go on from.
Start(size, args) == [text |-> <<>>, left |-> size, args |-> args, next |-> 1]

\* No room is kept for the terminating NUL.
Mut_Put(st, c) ==
  [st EXCEPT !.text = IF st.left > 0 THEN Append(@, c) ELSE @, !.left = @ - 1]

\* One character, dropped when only the place of the NUL is left, but counted.
Put(st, c) ==
  [st EXCEPT !.text = IF st.left > 1 THEN Append(@, c) ELSE @, !.left = @ - 1]

PutAll(st, s) == FoldLeft(Put, st, s)

s_addBaseIdentifier(st, conv) ==
  PutAll(st, CASE conv = "x" -> <<"h">> [] conv = "b" -> <<"b">> [] conv = "o" -> <<"o">>
               [] OTHER -> <<>>)

Char(d) == <<"0", "1", "2", "3", "4", "5", "6", "7", "8", "9", "A", "B", "C", "D", "E", "F">>[d + 1]
Base(conv) == CASE conv = "u" -> 10 [] conv = "b" -> 2 [] conv = "o" -> 8 [] OTHER -> 16

\* The remainders, last one first.
Digits(num, base) ==
  LET output[n \in 0..num] ==
        IF n < base THEN <<Char(n)>>
        ELSE Append(output[n \div base], Char(n % base))
  IN  output[num]

s_itoa(st, num, base) == PutAll(st, Digits(num, base))

\* The index of the conversion that the % at i starts, behind its modifiers.
Conversion(fmt, i) ==
  CHOOSE j \in (i + 1)..Len(fmt) :
    fmt[j] \notin {"l", "p"} /\ \A k \in (i + 1)..(j - 1) : fmt[k] \in {"l", "p"}

s_readtype(fmt, i) ==
  FoldLeft(LAMBDA type, c : IF c = "p" THEN "ADDRESS"
                            ELSE IF type = "INTEGER" THEN "LONGINT" ELSE "LONGLONGINT",
           "INTEGER", SubSeq(fmt, i + 1, Conversion(fmt, i) - 1))

Words(type) == IF type = "LONGLONGINT" THEN 2 ELSE 1

s_readint(type, args) ==
  args[1] + (IF Words(type) = 2 THEN WORD * args[2] ELSE 0)

Used(st, n) == [st EXCEPT !.args = SubSeq(@, n + 1, Len(@))]

\* The % at i. An unknown conversion is copied with its modifiers; the character
\* of %% is written whatever room is left.
s_convert(st, fmt, i) ==
  LET conv == fmt[Conversion(fmt, i)]
      type == s_readtype(fmt, i)
  IN  CASE conv \in {"u", "h", "x", "b", "o"} ->
             s_addBaseIdentifier(
               s_itoa(Used(st, Words(type)), s_readint(type, st.args), Base(conv)), conv)
        [] conv = "s" -> PutAll(Used(st, 1), st.args[1])
        [] conv = "%" -> [st EXCEPT !.text = Append(@, "%"), !.left = @ - 1]
        [] OTHER -> PutAll(st, SubSeq(fmt, i, Conversion(fmt, i)))

\* One turn of the loop; the indices of a conversion that was done are passed over.
Turn(fmt, st, i) ==
  IF i < st.next THEN st
  ELSE IF fmt[i] # "%" THEN [Put(st, fmt[i]) EXCEPT !.next = i + 1]
  ELSE [s_convert(st, fmt, i) EXCEPT !.next = Conversion(fmt, i) + 1]

\* The text that ends up before the NUL, and the value returned.
kearly_vsnprintf(size, fmt, args) ==
  LET end == FoldLeftDomain(LAMBDA st, i : Turn(fmt, st, i), Start(size, args), fmt)
  IN  [text |-> end.text, len |-> size - end.left]

cm_vsnprintf(size, fmt, args) == kearly_vsnprintf(size, fmt, args)
-----------------------------------------------------------------------------
(* Reference: a message is a sequence of parts, each one printed in its own way. *)

Literal(c) == [fmt |-> <<c>>, args |-> <<>>, out |-> <<c>>]
Verbatim(s) == [fmt |-> s, args |-> <<>>, out |-> s]
Percent == [fmt |-> <<"%", "%">>, args |-> <<>>, out |-> <<"%">>]
String(s) == [fmt |-> <<"%", "s">>, args |-> <<s>>, out |-> s]

\* A numeral by its positions: the fewest digits that hold the value.
Numeral(value, base) ==
  LET width == CHOOSE w \in 1..(value + 1) :
                 value < base^w /\ (w > 1 => value >= base^(w - 1))
  IN  [i \in 1..width |-> Char((value \div base^(width - i)) % base)]

Suffix == [u |-> <<>>, h |-> <<>>, x |-> <<"h">>, b |-> <<"b">>, o |-> <<"o">>]
Bases == [u |-> 10, h |-> 16, x |-> 16, b |-> 2, o |-> 8]

Integer(mods, conv, value) ==
  [fmt  |-> <<"%">> \o mods \o <<conv>>,
   args |-> IF mods = <<"l", "l">> THEN <<value % WORD, value \div WORD>> ELSE <<value>>,
   out  |-> Numeral(value, Bases[conv]) \o Suffix[conv]]

Format(parts) == FlattenSeq([i \in 1..Len(parts) |-> parts[i].fmt])
Args(parts) == FlattenSeq([i \in 1..Len(parts) |-> parts[i].args])
Output(parts) == FlattenSeq([i \in 1..Len(parts) |-> parts[i].out])

\* What the documentation of the routine promises: the output cut at the size, with
\* room for the NUL, and the length it would have had.
Promised(size, parts) ==
  [text |-> SubSeq(Output(parts), 1, Min({Len(Output(parts)), size - 1})), len |-> Len(Output(parts))]
=============================================================================
