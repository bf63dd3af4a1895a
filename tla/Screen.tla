------------------------------- MODULE Screen -------------------------------
(***************************************************************************)
(* The screen of a build. GRAPHICS_MODE_ENABLED makes a kernel that draws  *)
(* windows; without it the kernel and its applications write text. A panic *)
(* is put together in the same way in both.                                *)
(***************************************************************************)
EXTENDS Console, Graphics

screenVars == <<consoleVars, graphicsVars>>

GraphicsOff ==
  /\ windows = <<>> /\ back = <<>> /\ hw = <<>> /\ wild = FALSE
  /\ painted = <<>> /\ trail = {} /\ draws = 0

ConsoleOff ==
  /\ scr = <<>> /\ page = <<>> /\ said = Nothing
  /\ out = <<>> /\ phase = "graphics" /\ calls = 0

ScreenInit == \/ ConsoleInit /\ GraphicsOff
              \/ GraphicsInit /\ ConsoleOff

\* kpanic_ndu of a build with graphics.
GraphicsPanic(parts) ==
  LET buffer == Assembled(Panicked(parts))
  IN  /\ PanicSaid(buffer, parts, FALSE)
      /\ kpanic_gx_ui(buffer.text)
      /\ phase' = "graphics halted"
      /\ UNCHANGED <<scr, page, out, calls>>

\* What goes on when a drawing has overwritten what is behind its buffer is not modelled.
ScreenNext ==
  \/ ConsoleNext /\ UNCHANGED graphicsVars
  \/ phase = "graphics" /\ ~wild /\ GraphicsNext /\ UNCHANGED consoleVars
  \/ phase = "graphics" /\ ~wild /\ \E parts \in PanicMessages : GraphicsPanic(parts)

ScreenSpec == ScreenInit /\ [][ScreenNext]_screenVars
-----------------------------------------------------------------------------
\* The screen shows the last lines of the page of a console that is in use.
ConsoleShowsPage == phase \in {"ready", "halted"} => ScreenShowsPage
=============================================================================
