----------------------------- MODULE MCScreen -----------------------------
(* Instances of Screen for TLC. *)
EXTENDS Screen

ASSUME ScreenAssumption == WithinScreen

L(c) == Literal(c)

\* Every conversion and modifier, zero and two-digit values, formats that end at, before
\* and behind the limit, %% at the last place and behind it, line feeds, tabs and carriage
\* returns.
Eight == <<"a", "b", "c", "d", "e", "f", "g", "h">>
MCMessages ==
  { <<L("a"), L(LF), L("b")>>, <<L(LF), L(LF)>>,
    <<L("a"), L(TAB), L("c"), L(CR), L("d")>>,
    <<String(Eight), L("i"), L("j"), L("k")>>,
    <<String(Eight), Percent>>, <<L("y"), String(Eight), Percent, L("z")>>,
    <<L("v"), Integer(<<>>, "u", 15), Integer(<<"l">>, "x", 10), String(<<"s", "t">>)>>,
    <<Integer(<<"l", "l">>, "o", 201), Integer(<<>>, "b", 0), String(<<"m", "n">>), L("z")>>,
    <<L("w"), Integer(<<"l", "l">>, "b", 131)>>,
    <<Integer(<<"l", "l">>, "u", 100), Percent, Integer(<<"p">>, "h", 0), Integer(<<"p">>, "x", 12)>>,
    <<Verbatim(<<"%", "l", "q">>), String(<<>>), L(LF), String(<<"n">>)>> }
MCPanicMessages ==
  {<<String(<<"k">>)>>, <<L("a"), L(TAB), L("c"), L(CR), L("d")>>,
   <<String(Eight), Integer(<<>>, "u", 1), L("j"), L("k")>>}
MCColours == {<<0, 2>>, <<9, 1>>, <<17, 1>>}
MCPositions == {<<0, 0>>, <<1, 2>>, <<2, 3>>}

MCFont == <<1, 2>>
\* Titles that end with the buffer, and behind it.
MCTitles == {<<"c", NEWLINE>> \o [i \in 1..15 |-> "c"], <<"c", NEWLINE, NEWLINE, "c">>}
MCMouse == {<<100, -100>>, <<-100, 100>>}
MCRectangles == {<<0, 0, 2, 3>>}
MCImages == {[buffer |-> 0, width |-> 2, height |-> 2,
              px |-> [p \in 0..3 |-> IF p < 2 THEN "image" ELSE "pen"]]}
=============================================================================
