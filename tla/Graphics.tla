------------------------------ MODULE Graphics ------------------------------
(***************************************************************************)
(* Drawing: src/kernel/kgraphics.c, the areas and decorations of windows   *)
(* of src/kernel/compositor.c, and src/cm/graphics.c, with which           *)
(* applications draw into the working area of their windows.               *)
(*                                                                         *)
(* An area is a rectangle of a buffer: where it starts, its size, and the  *)
(* distance of two rows. Buffers are counted in pixels: every pixel has    *)
(* the same number of bytes. Positions are unsigned words and wrap. No     *)
(* routine clips; one that leaves its buffer is recorded as wild.          *)
(* Processes, handles and the limits of the table are in Compositor.       *)
(***************************************************************************)
EXTENDS Integers, FiniteSets, Sequences, SequencesExt

CONSTANTS
  WIDTH, HEIGHT,    \* of the screen
  PITCH,            \* bytesPerScanLine, in pixels
  UINTS,            \* number of values of an unsigned word
  BORDER,           \* WINDOW_BORDER_WIDTH_PX
  TITLE_BAR,        \* WINDOW_TITLE_BAR_HEIGHT_PX
  GAP,              \* of the title to the border and to the top
  FONT,             \* <<width, height>> of a glyph
  CURSOR, LINE,     \* side of the mouse cursor, and of its edges
  Titles,           \* sequences of characters and line feeds
  Mouse,            \* positions that the mouse driver reports
  Rectangles,       \* <<x, y, width, height>> that applications fill
  Images,           \* pictures they copy into their windows
  MaxDraws

NEWLINE == "LF"

ASSUME PixelsAssumption ==
  /\ WIDTH \in Nat /\ HEIGHT \in Nat /\ PITCH \in Nat /\ PITCH >= WIDTH
  /\ PITCH * HEIGHT < UINTS
  /\ CURSOR <= WIDTH /\ CURSOR <= HEIGHT
  /\ WIDTH \div 2 > 2 * BORDER /\ HEIGHT \div 2 > TITLE_BAR + BORDER

VARIABLES
  windows,    \* windowsList: position on the screen, frame buffer, title
  back,       \* gx_backfb
  hw,         \* gx_hwfb, what is seen
  wild,       \* a routine has written outside its buffer
  painted,    \* ghost: the windows when kcompose_flush painted them last
  trail,      \* ghost: where cursors were drawn since then
  draws

graphicsVars == <<windows, back, hw, wild, painted, trail, draws>>

(* Drawing: a drawing is a record of the pixels of a buffer and of the flag. *)

Pixel(g, x, y) == (g.buffer + y * g.pitch + x) % UINTS

Paint(d, pixels, color) ==
  [px   |-> [p \in DOMAIN d.px |-> IF p \in pixels THEN color ELSE d.px[p]],
   wild |-> d.wild \/ ~(pixels \subseteq DOMAIN d.px)]

\* Rows follow each other at the pitch of the area from the first pixel.
kgraphics_rect(d, g, x, y, w, h, color) ==
  Paint(d, {Pixel(g, x, y) + i + j * g.pitch : i \in 0..(w - 1), j \in 0..(h - 1)}, color)

kgraphics_putpixel(d, g, x, y, color) == Paint(d, {Pixel(g, x, y)}, color)

kgraphics_hline(d, g, x, y, w, th, color) == kgraphics_rect(d, g, x, y, w, th, color)
kgraphics_vline(d, g, x, y, h, th, color) == kgraphics_rect(d, g, x, y, th, h, color)

kgraphics_inborder(d, g, x, y, w, h, th, color) ==
  LET top   == kgraphics_hline(d, g, x, y, w, th, color)
      left  == kgraphics_vline(top, g, x, y, h, th, color)
      right == kgraphics_vline(left, g, x + w - th, y, h, th, color)
  IN  kgraphics_hline(right, g, x, y + h - th, w, th, color)

\* The source is read from its first pixel on without regard to its pitch.
kgraphics_blit(d, g, x, y, src, px) ==
  LET at[i \in 0..(src.width - 1), j \in 0..(src.height - 1)] ==
        Pixel(g, x, y) + i + j * g.pitch
      from(p) == CHOOSE k \in 0..(src.width * src.height - 1) :
                   at[k % src.width, k \div src.width] = p
      pixels == {at[ij] : ij \in DOMAIN at}
  IN  [px   |-> [p \in DOMAIN d.px |-> IF p \in pixels THEN px[src.buffer + from(p)] ELSE d.px[p]],
       wild |-> d.wild \/ ~(pixels \subseteq DOMAIN d.px)]

\* Every glyph has one pixel in the foreground.
kgraphics_drawfont(d, g, x, y, fg, bg) ==
  kgraphics_putpixel(kgraphics_rect(d, g, x, y, FONT[1], FONT[2], bg), g, x, y, fg)

kgraphics_drawstring(d, g, x, y, text, fg, bg) ==
  FoldLeft(LAMBDA at, ch :
             IF ch = NEWLINE THEN [at EXCEPT !.x = x, !.y = @ + FONT[2] + 1]
             ELSE [d |-> kgraphics_drawfont(at.d, g, at.x, at.y, fg, bg),
                   x |-> at.x + FONT[1], y |-> at.y],
           [d |-> d, x |-> x, y |-> y], text).d

(* Areas *)

GRID == 2
CELL_WIDTH == WIDTH \div GRID
CELL_HEIGHT == HEIGHT \div GRID
Screen == [buffer |-> 0, pitch |-> PITCH, width |-> WIDTH, height |-> HEIGHT]

WindowArea == [buffer |-> 0, pitch |-> CELL_WIDTH, width |-> CELL_WIDTH, height |-> CELL_HEIGHT]

WorkingArea ==
  [WindowArea EXCEPT !.buffer = TITLE_BAR * CELL_WIDTH + BORDER,
                     !.width = @ - 2 * BORDER, !.height = @ - (TITLE_BAR + BORDER)]

\* The borders are drawn before the title.
Mut_drawWindowDecorations(d, title) ==
  LET wa == WindowArea
      outer == kgraphics_inborder(d, wa, 0, 0, wa.width, wa.height, BORDER, "border1")
      inner == kgraphics_inborder(outer, wa, 1, 1, wa.width - 2, wa.height - 2, 1, "border2")
      bar   == kgraphics_rect(inner, wa, 0, 0, wa.width, TITLE_BAR, "bar")
      named == kgraphics_drawstring(bar, wa, BORDER + GAP, GAP, title, "text", "bar")
      under == kgraphics_hline(named, wa, -1, TITLE_BAR - 1, wa.width, 1, "white")
  IN  kgraphics_rect(under, wa, BORDER, TITLE_BAR, wa.width - 2 * BORDER,
                     wa.height - (TITLE_BAR + BORDER), "background")

\* The line under the title bar starts at column -1, the end of the row above.
drawWindowDecorations(d, title) ==
  LET wa == WindowArea
      bar   == kgraphics_rect(d, wa, 0, 0, wa.width, TITLE_BAR, "bar")
      named == kgraphics_drawstring(bar, wa, BORDER + GAP, GAP, title, "text", "bar")
      under == kgraphics_hline(named, wa, -1, TITLE_BAR - 1, wa.width, 1, "white")
      outer == kgraphics_inborder(under, wa, 0, 0, wa.width, wa.height, BORDER, "border1")
      inner == kgraphics_inborder(outer, wa, 1, 1, wa.width - 2, wa.height - 2, 1, "border2")
  IN  kgraphics_rect(inner, wa, BORDER, TITLE_BAR, wa.width - 2 * BORDER,
                     wa.height - (TITLE_BAR + BORDER), "background")
-----------------------------------------------------------------------------
Cleared(n, color) == [p \in 0..(n - 1) |-> color]

\* kgraphics_init and kcompose_init.
GraphicsInit ==
  /\ windows = <<>>
  /\ back = Cleared(PITCH * HEIGHT, "unset") /\ hw = Cleared(PITCH * HEIGHT, "unset")
  /\ wild = FALSE
  /\ painted = <<>> /\ trail = {} /\ draws = 0

\* Two windows get the same column.
Mut_Column(i) == i \div GRID

\* Windows fill the cells row by row.
Column(i) == i % GRID
Row(i) == i \div GRID

kcompose_createWindow(title) ==
  LET new == drawWindowDecorations(
               [px |-> Cleared(CELL_WIDTH * CELL_HEIGHT, "unset"), wild |-> FALSE], title)
  IN  /\ Len(windows) < GRID * GRID
      /\ windows' = <<[x |-> CELL_WIDTH * Column(Len(windows)), y |-> CELL_HEIGHT * Row(Len(windows)),
                       px |-> new.px, title |-> title]>> \o windows
      /\ wild' = (wild \/ new.wild)
      /\ UNCHANGED <<back, hw, painted, trail, draws>>

(* Applications draw inside the working area, at addresses of their own. *)

graphics_rect(d, g, x, y, w, h, color) == kgraphics_rect(d, g, x, y, w, h, color)
graphics_putpixel(d, g, x, y, color) == kgraphics_putpixel(d, g, x, y, color)

\* graphics_blit copies a picture whose rows follow each other without a gap;
\* graphics_image_ppm also turns around the bytes of its pixels.
graphics_blit(d, g, x, y, image) == kgraphics_blit(d, g, x, y, image, image.px)

Canvas(i) == [px |-> windows[i].px, wild |-> FALSE]

Drawn(i, canvas) ==
  /\ draws < MaxDraws /\ draws' = draws + 1
  /\ windows' = [windows EXCEPT ![i].px = canvas.px]
  /\ wild' = (wild \/ canvas.wild)
  /\ UNCHANGED <<back, hw, painted, trail>>

FillRectangle(i, r) ==
  Drawn(i, graphics_rect(Canvas(i), WorkingArea, r[1], r[2], r[3], r[4], "pen"))

SetPixel(i, x, y) == Drawn(i, graphics_putpixel(Canvas(i), WorkingArea, x, y, "dot"))

CopyImage(i, image) ==
  /\ image.width <= WorkingArea.width /\ image.height <= WorkingArea.height
  /\ Drawn(i, graphics_blit(Canvas(i), WorkingArea, WorkingArea.width - image.width,
                        WorkingArea.height - image.height, image))

kcompose_flush ==
  LET desktop == kgraphics_rect([px |-> back, wild |-> FALSE], Screen, 0, 0, WIDTH, HEIGHT, "desktop")
      all == FoldLeft(LAMBDA d, w : kgraphics_blit(d, Screen, w.x, w.y, WindowArea, w.px),
                      desktop, windows)
  IN  /\ back' = all.px
      /\ wild' = (wild \/ all.wild)
      /\ painted' = windows /\ trail' = {}
      /\ UNCHANGED <<windows, hw, draws>>

CLAMP(v, l, u) == IF v < l THEN l ELSE IF v >= u THEN u ELSE v

CursorX(m) == CLAMP(WIDTH \div 2 + m[1], 0, WIDTH - CURSOR)
CursorY(m) == CLAMP(HEIGHT \div 2 - m[2], 0, HEIGHT - CURSOR)

draw_cursor(d, x, y) ==
  LET body == kgraphics_rect(d, Screen, x, y, CURSOR, CURSOR, "mouse bg")
      top  == kgraphics_hline(body, Screen, x, y, CURSOR, LINE, "mouse fg")
  IN  kgraphics_vline(top, Screen, x, y, CURSOR, LINE, "mouse fg")

\* The screen of a panic is written to the frame buffer itself.
kpanic_gx_ui(text) ==
  LET cleared == kgraphics_rect([px |-> hw, wild |-> FALSE], Screen, 0, 0, WIDTH, HEIGHT, "bsod")
      shown == kgraphics_drawstring(cleared, Screen, 0, 0, text, "text", "bsod")
  IN  /\ hw' = shown.px
      /\ wild' = (wild \/ shown.wild)
      /\ UNCHANGED <<windows, back, painted, trail, draws>>

\* The timer interrupt: the cursor is drawn on the back buffer, which is copied.
kgraphis_flush(m) ==
  LET x == CursorX(m)
      y == CursorY(m)
      d == draw_cursor([px |-> back, wild |-> FALSE], x, y)
  IN  /\ back' = d.px /\ hw' = d.px
      /\ wild' = (wild \/ d.wild)
      /\ trail' = trail \cup {<<i, j>> : i \in x..(x + CURSOR - 1), j \in y..(y + CURSOR - 1)}
      /\ UNCHANGED <<windows, painted, draws>>

GraphicsNext ==
  \/ \E title \in Titles : kcompose_createWindow(title)
  \/ \E i \in 1..Len(windows) :
       \/ \E r \in Rectangles : FillRectangle(i, r)
       \/ SetPixel(i, WorkingArea.width - 1, WorkingArea.height - 1)
       \/ \E image \in Images : CopyImage(i, image)
  \/ kcompose_flush
  \/ \E m \in Mouse : kgraphis_flush(m)
-----------------------------------------------------------------------------
Ring(x, y) == CHOOSE k \in {x, y, CELL_WIDTH - 1 - x, CELL_HEIGHT - 1 - y} :
                k <= x /\ k <= y /\ k <= CELL_WIDTH - 1 - x /\ k <= CELL_HEIGHT - 1 - y

InWork(x, y) == /\ x \in BORDER..(CELL_WIDTH - BORDER - 1)
                /\ y \in TITLE_BAR..(CELL_HEIGHT - BORDER - 1)

\* What a pixel of a window may show, by its place.
Allowed(x, y) ==
  IF InWork(x, y) THEN {"background", "pen", "dot", "image"}
  ELSE IF Ring(x, y) = 1 THEN {"border2"}
  ELSE IF Ring(x, y) < BORDER THEN {"border1"}
  ELSE IF y = TITLE_BAR - 1 THEN {"white"} ELSE {"bar", "text"}

\* A title is inside the buffer of its window: by the line feeds before it and its place in
\* its line, the last pixel of each character is.
Inside(title) ==
  \A n \in 1..Len(title) : title[n] # NEWLINE =>
    LET breaks == {k \in 1..(n - 1) : title[k] = NEWLINE}
        column == Cardinality({k \in 1..n : title[k] # NEWLINE /\ \A b \in breaks : b < k})
        bottom == GAP + Cardinality(breaks) * (FONT[2] + 1) + FONT[2] - 1
    IN  bottom * CELL_WIDTH + BORDER + GAP + column * FONT[1] - 1 < CELL_WIDTH * CELL_HEIGHT

\* No drawing leaves its buffer: not the cursor, wherever the mouse says it is, not an
\* application that stays in the working area kcompose_createWindow gave it, and not a title
\* that runs over the border and into other rows. Titles are not cut, so that one with too
\* many lines for the window does leave it, and nothing else. Nor does any drawing touch the
\* frame of a window: "the rectangle in the middle that not effected by the window
\* decorations".
FramesIntact ==
  IF wild THEN \E i \in 1..Len(windows) : ~Inside(windows[i].title)
  ELSE \A i \in 1..Len(windows) :
         /\ Inside(windows[i].title)
         /\ \A x \in 0..(CELL_WIDTH - 1), y \in 0..(CELL_HEIGHT - 1) :
              windows[i].px[y * CELL_WIDTH + x] \in Allowed(x, y)

\* The window (the list has the newest first) whose cell holds a place of the screen.
WindowAt(ws, x, y) ==
  {i \in 1..Len(ws) : /\ x \div CELL_WIDTH < GRID /\ y \div CELL_HEIGHT < GRID
                      /\ Len(ws) - i = (y \div CELL_HEIGHT) * GRID + (x \div CELL_WIDTH)}

Picture(ws, x, y) ==
  IF WindowAt(ws, x, y) = {} THEN "desktop"
  ELSE LET i == CHOOSE n \in WindowAt(ws, x, y) : TRUE
       IN  ws[i].px[(y % CELL_HEIGHT) * CELL_WIDTH + (x % CELL_WIDTH)]

\* What kgraphis_flush brings to the screen, on every interrupt of its period: each
\* window whole in its own cell as it was when kcompose_flush painted it last, the
\* desktop elsewhere, and over that only cursors drawn since; also when applications
\* have drawn, and windows were made, in between.
ScreenComposed ==
  [][(\E m \in Mouse : kgraphis_flush(m)) /\ painted # <<>> =>
       \A x \in 0..(WIDTH - 1), y \in 0..(HEIGHT - 1) :
         IF <<x, y>> \in trail' THEN hw'[y * PITCH + x] \in {"mouse bg", "mouse fg"}
         ELSE hw'[y * PITCH + x] = Picture(painted, x, y)]_graphicsVars
=============================================================================
