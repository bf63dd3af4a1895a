-------------------------- MODULE CompositorProofs --------------------------
(***************************************************************************)
(* What is on the screen. Windows and handles, for any number of           *)
(* processes, windows, cells and handles: what is painted is right         *)
(* whatever applications do; that a handle names the right window needs    *)
(* careful ones. And the text of a build without graphics, for screens,    *)
(* messages and positions of any size and number.                          *)
(***************************************************************************)
EXTENDS Compositor, Screen, ListProofs

\* What makes WindowsApart inductive: cells are handed out by a count that only grows,
\* so the cells in use lie below it.
CellsBelow == \A b \in Windows : cell[b] < window_count
PaintInv == /\ WindowsApart /\ CellsBelow
            /\ windowsList \in Seq(Blocks)

\* Careful applications, and a heap that does not run out.
Assumed == Careful /\ "heap" \notin Shortages
HandlesInv == PaintInv /\ HandlesOK

-----------------------------------------------------------------------------
(* Operators *)

\* khandle_createHandle finds an empty slot when there is one.
LEMMA NewHandleFree ==
  ASSUME FreeSlots # {}
  PROVE  NewHandle \in Slots /\ handles[NewHandle] = NULL
<1>1. FreeSlots \subseteq Nat  BY DEF FreeSlots, Slots
<1>2. \E h \in FreeSlots : \A g \in FreeSlots : h <= g  BY <1>1, LeastNumber
<1>3. NewHandle \in FreeSlots  BY <1>2 DEF NewHandle
<1>. QED  BY <1>3 DEF FreeSlots

-----------------------------------------------------------------------------
(* What is painted *)

\* Initially there is no window.
LEMMA PaintInit ==
  Init => PaintInv
<1> SUFFICES ASSUME Init PROVE PaintInv  OBVIOUS
<1> USE DEF Init
<1>1. windowsList \in Seq(Blocks) /\ Items(windowsList) = {} /\ NoRepeats(windowsList)
  BY DEF Items, NoRepeats
<1>2. Windows = {}  BY DEF Windows
<1>3. TypeOK  BY <1>1, SizesAssumption DEF TypeOK, Slots
<1>4. CellsApart /\ CellsBelow  BY <1>2 DEF CellsApart, CellsBelow
<1>. QED  BY <1>1, <1>2, <1>3, <1>4 DEF PaintInv, WindowsApart, WindowsListed

\* A new window goes to the front of the list and gets a cell that no other has.
LEMMA PaintCreate ==
  ASSUME PaintInv, NEW p \in Procs, NEW b \in Blocks, CreateWindow(p, b)
  PROVE  PaintInv'
<1> USE DEF CreateWindow
<1>1. TypeOK /\ WindowsListed /\ CellsApart /\ CellsBelow /\ windowsList \in Seq(Blocks)
  BY DEF PaintInv, WindowsApart
<1>2. b \notin Windows /\ p # NULL  BY NamesAssumption DEF Windows
<1>3. Windows' = Windows \cup {b}  BY <1>1, <1>2 DEF TypeOK, Windows
<1>4. /\ windowsList' \in Seq(Blocks)
      /\ Items(windowsList') = Items(windowsList) \cup {b}
      /\ NoRepeats(windowsList')
  BY <1>1, <1>2, FrontItems DEF WindowsListed
<1>5. WindowsListed'  BY <1>1, <1>3, <1>4 DEF WindowsListed
<1>6. NewHandle \in Slots  BY NewHandleFree
<1>7. window_count' \in 0..CELLS /\ window_count < window_count' /\ window_count \in 0..CELLS
  BY <1>1, SizesAssumption DEF TypeOK, NextCount
<1>8. TypeOK'
  <2>1. owner' \in [Blocks -> Procs \cup {NULL}] /\ cell' \in [Blocks -> 0..CELLS]
    BY <1>1, <1>7 DEF TypeOK
  <2>2. handles' \in [Slots -> Blocks \cup {NULL}] /\ held' \in [Slots -> Blocks \cup {NULL}]
    BY <1>1, <1>6 DEF TypeOK
  <2>3. Items(windowsList') \subseteq Blocks  BY <1>1, <1>4 DEF TypeOK
  <2>. QED  BY <1>1, <1>7, <2>1, <2>2, <2>3 DEF TypeOK
<1>9. /\ \A a \in Windows : a \in Blocks /\ cell'[a] = cell[a] /\ cell[a] < window_count
      /\ cell'[b] = window_count
  BY <1>1, <1>2 DEF TypeOK, CellsBelow, Windows
<1>10. CellsApart'
  <2> SUFFICES ASSUME NEW a \in Windows', NEW c \in Windows', cell'[a] = cell'[c] PROVE a = c
    BY DEF CellsApart
  <2>1. CASE a # b /\ c # b  BY <2>1, <1>1, <1>3, <1>9 DEF CellsApart
  <2>2. CASE a = b \/ c = b
    BY <2>2, <1>3, <1>7, <1>9, <1>1, SMT DEF TypeOK, Windows
  <2>. QED  BY <2>1, <2>2
<1>11. CellsBelow'
  <2> SUFFICES ASSUME NEW a \in Windows' PROVE cell'[a] < window_count'  BY DEF CellsBelow
  <2>. QED  BY <1>1, <1>3, <1>7, <1>9, SMT DEF TypeOK, Windows
<1>. QED  BY <1>4, <1>5, <1>8, <1>10, <1>11 DEF PaintInv, WindowsApart

\* The window that is destroyed leaves the list, also when the handle was stale.
LEMMA PaintDestroy ==
  ASSUME PaintInv, NEW p \in Procs, NEW h \in Slots, DestroyWindow(p, h)
  PROVE  PaintInv'
<1> DEFINE b == handles[h]
<1> USE DEF DestroyWindow
<1>1. TypeOK /\ WindowsListed /\ CellsApart /\ CellsBelow /\ windowsList \in Seq(Blocks)
  BY DEF PaintInv, WindowsApart
<1>2. b \in Blocks  BY <1>1 DEF TypeOK, MayUse
<1>3. Windows' = Windows \ {b}  BY <1>1, <1>2 DEF TypeOK, Windows
<1>4. /\ windowsList' \in Seq(Blocks)
      /\ Items(windowsList') = Items(windowsList) \ {b}
      /\ NoRepeats(windowsList')
  BY <1>1, RemoveType, RemoveItems DEF WindowsListed, Unlinked
<1>5. WindowsListed'  BY <1>1, <1>3, <1>4 DEF WindowsListed
<1>6. TypeOK'
  <2>1. owner' \in [Blocks -> Procs \cup {NULL}]  BY <1>1 DEF TypeOK
  <2>2. held' \in [Slots -> Blocks \cup {NULL}]  BY <1>1 DEF TypeOK
  <2>3. pc' \in {"run"} \cup Failures  BY DEF DestroyOutcome, Failures
  <2>. QED  BY <1>1, <1>4, <2>1, <2>2, <2>3 DEF TypeOK
<1>7. CellsApart' /\ CellsBelow'  BY <1>1, <1>3 DEF CellsApart, CellsBelow
<1>. QED  BY <1>4, <1>5, <1>6, <1>7 DEF PaintInv, WindowsApart

\* The other calls change no window; a failed creation takes a cell out of use.
LEMMA PaintOthers ==
  ASSUME PaintInv, NEW p \in Procs,
         \/ CreateNoHandle(p) \/ ksys_window_graphics_flush_all(p) \/ Exit(p) \/ UNCHANGED vars
         \/ \E what \in Shortages : CreateFails(p, what)
         \/ \E h \in Slots : GetWindowFB(p, h)
  PROVE  PaintInv'
<1>1. TypeOK /\ WindowsListed /\ CellsApart /\ CellsBelow /\ windowsList \in Seq(Blocks)
  BY DEF PaintInv, WindowsApart
<1>2. UNCHANGED <<owner, cell, windowsList, handles, held>>
  BY DEF CreateNoHandle, ksys_window_graphics_flush_all, Exit, CreateFails, GetWindowFB, vars
<1>3. window_count' \in 0..CELLS /\ window_count <= window_count'
  <2>1. window_count \in 0..CELLS  BY <1>1 DEF TypeOK
  <2>2. \/ window_count' = window_count
        \/ window_count # CELLS /\ window_count' = window_count + 1
    BY DEF CreateNoHandle, ksys_window_graphics_flush_all, Exit, CreateFails, GetWindowFB, vars,
           NextCount
  <2>. QED  BY <2>1, <2>2, SizesAssumption
<1>4. alive' \subseteq Procs /\ pc' \in {"run"} \cup Failures
  BY <1>1 DEF TypeOK, CreateNoHandle, ksys_window_graphics_flush_all, Exit, CreateFails,
              GetWindowFB, vars, MayCreate, Failures
<1>5. Windows' = Windows  BY <1>2 DEF Windows
<1>6. CellsBelow'
  <2> SUFFICES ASSUME NEW b \in Windows PROVE cell[b] < window_count'
    BY <1>2, <1>5 DEF CellsBelow
  <2>1. cell[b] \in Nat /\ cell[b] < window_count /\ window_count \in Nat
    BY <1>1 DEF CellsBelow, TypeOK, Windows
  <2>. QED  BY <2>1, <1>3
<1>7. TypeOK'  BY <1>1, <1>2, <1>3, <1>4 DEF TypeOK
<1>8. WindowsListed' /\ CellsApart'  BY <1>1, <1>2, <1>5 DEF WindowsListed, CellsApart
<1>. QED  BY <1>1, <1>2, <1>6, <1>7, <1>8 DEF PaintInv, WindowsApart

\* Every step keeps what is painted right.
LEMMA PaintStep ==
  PaintInv /\ [Next]_vars => PaintInv'
<1> SUFFICES ASSUME PaintInv, [Next]_vars PROVE PaintInv'  OBVIOUS
<1>1. ASSUME NEW p \in Procs, NEW b \in Blocks, CreateWindow(p, b) PROVE PaintInv'
  BY <1>1, PaintCreate
<1>2. ASSUME NEW p \in Procs, NEW h \in Slots, DestroyWindow(p, h) PROVE PaintInv'
  BY <1>2, PaintDestroy
<1>3. ASSUME NEW p \in Procs,
             \/ CreateNoHandle(p) \/ ksys_window_graphics_flush_all(p) \/ Exit(p)
             \/ \E what \in Shortages : CreateFails(p, what)
             \/ \E h \in Slots : GetWindowFB(p, h)
      PROVE  PaintInv'
  BY <1>3, PaintOthers
<1>4. CASE UNCHANGED vars
  BY <1>4 DEF vars, PaintInv, WindowsApart, TypeOK, WindowsListed, CellsApart, CellsBelow, Windows
<1>. QED  BY <1>1, <1>2, <1>3, <1>4 DEF Next, Halted

\* Whatever applications do with their handles: the compositor's list holds the windows
\* that exist, each once, in cells of their own (kcompose_createWindow, destory_window).
THEOREM PaintingCorrect == Spec => []WindowsApart
<1>1. PaintInv => WindowsApart  BY DEF PaintInv
<1>. QED  BY <1>1, PaintInit, PaintStep, PTL DEF Spec

-----------------------------------------------------------------------------
(* Handles of careful applications *)

\* A new window gets a slot that nobody holds; nobody holds its block either.
LEMMA HandlesCreate ==
  ASSUME HandlesInv, NEW p \in Procs, NEW b \in Blocks, CreateWindow(p, b)
  PROVE  HandlesOK'
<1> USE DEF CreateWindow
<1> DEFINE n == NewHandle
<1>1. TypeOK /\ HandlesResolve /\ pc = "run"
  BY DEF HandlesInv, PaintInv, WindowsApart, HandlesOK, CallsSafe
<1>2. n \in Slots /\ handles[n] = NULL  BY NewHandleFree
<1>3. b \notin Windows /\ p # NULL /\ b # NULL  BY NamesAssumption DEF Windows
<1>4. Windows' = Windows \cup {b}  BY <1>1, <1>3 DEF TypeOK, Windows
<1>5. held[n] = NULL /\ \A h \in Slots : held[h] # b
  BY <1>1, <1>2, <1>3 DEF HandlesResolve
<1> HIDE DEF n
<1>6. /\ \A h \in Slots : h # n => held'[h] = held[h] /\ handles'[h] = handles[h]
      /\ held'[n] = b /\ handles'[n] = b
  BY <1>1, <1>2 DEF TypeOK, n
<1>7. \A h \in Slots : held'[h] # NULL => handles'[h] = held'[h] /\ held'[h] \in Windows'
  BY <1>1, <1>4, <1>6 DEF HandlesResolve
<1>8. \A g, h \in Slots : held'[h] # NULL /\ held'[g] = held'[h] => g = h
  BY <1>1, <1>5, <1>6 DEF HandlesResolve
<1>9. \A a \in Windows' : \E h \in Slots : held'[h] = a
  <2> SUFFICES ASSUME NEW a \in Windows' PROVE \E h \in Slots : held'[h] = a  OBVIOUS
  <2>1. CASE a = b  BY <2>1, <1>2, <1>6
  <2>2. CASE a # b
    <3>1. PICK h \in Slots : held[h] = a  BY <1>1, <1>4, <2>2 DEF HandlesResolve
    <3>2. h # n  BY <3>1, <1>5, <1>4, NamesAssumption, <2>2 DEF Windows
    <3>. QED  BY <3>1, <3>2, <1>6
  <2>. QED  BY <2>1, <2>2
<1>. QED  BY <1>1, <1>7, <1>8, <1>9 DEF HandlesOK, CallsSafe, HandlesResolve

\* A careful application destroys the window it means: the one of the handle it holds,
\* in the process that made it. Its own handle goes, all others stay.
LEMMA HandlesDestroy ==
  ASSUME Assumed, HandlesInv, NEW p \in Procs, NEW h \in Slots, DestroyWindow(p, h)
  PROVE  HandlesOK'
<1> USE DEF DestroyWindow
<1> DEFINE b == handles[h]
<1>1. TypeOK /\ HandlesResolve  BY DEF HandlesInv, PaintInv, WindowsApart, HandlesOK
<1>2. held[h] = b /\ b # NULL /\ owner[b] = p /\ b \in Windows
  BY <1>1 DEF Assumed, MayUse, HandlesResolve
<1>3. p # NULL  BY NamesAssumption
<1>4. pc' = "run"  BY <1>2, <1>3 DEF DestroyOutcome
<1>5. Windows' = Windows \ {b}  BY <1>1, <1>2 DEF TypeOK, Windows
<1>6. /\ \A g \in Slots : g # h => held'[g] = held[g]
      /\ held'[h] = NULL /\ handles' = handles
  BY <1>1 DEF TypeOK
<1>7. \A g \in Slots : g # h => held[g] # b  BY <1>1, <1>2 DEF HandlesResolve
<1> HIDE DEF b
<1>8. \A g \in Slots : held'[g] # NULL => handles'[g] = held'[g] /\ held'[g] \in Windows'
  BY <1>1, <1>5, <1>6, <1>7 DEF HandlesResolve
<1>9. \A g, k \in Slots : held'[k] # NULL /\ held'[g] = held'[k] => g = k
  BY <1>1, <1>6 DEF HandlesResolve
<1>10. \A a \in Windows' : \E g \in Slots : held'[g] = a
  BY <1>1, <1>2, <1>5, <1>6 DEF HandlesResolve
<1>. QED  BY <1>4, <1>8, <1>9, <1>10 DEF HandlesOK, CallsSafe, HandlesResolve

\* The other calls change no handle, and none of them fails: a handle that is used
\* names a window, and all windows are the caller's when it paints.
LEMMA HandlesOthers ==
  ASSUME Assumed, HandlesInv, NEW p \in Procs,
         \/ CreateNoHandle(p) \/ ksys_window_graphics_flush_all(p) \/ Exit(p)
         \/ \E what \in Shortages : CreateFails(p, what)
         \/ \E h \in Slots : GetWindowFB(p, h)
  PROVE  HandlesOK'
<1>1. TypeOK /\ WindowsListed /\ HandlesResolve /\ pc = "run"
  BY DEF HandlesInv, PaintInv, WindowsApart, HandlesOK, CallsSafe
<1>2. UNCHANGED <<owner, handles, held>>
  BY DEF CreateNoHandle, ksys_window_graphics_flush_all, Exit, CreateFails, GetWindowFB
<1>3. HandlesResolve'  BY <1>1, <1>2 DEF HandlesResolve, Windows
<1>4. CASE CreateNoHandle(p) \/ Exit(p)  BY <1>1, <1>3, <1>4 DEF CreateNoHandle, Exit, HandlesOK, CallsSafe
<1>5. CASE ksys_window_graphics_flush_all(p)
  <2>1. \A i \in 1..Len(windowsList) : windowsList[i] \in Windows
    BY <1>1 DEF WindowsListed, Items
  <2>2. pc' = "run"  BY <2>1, <1>5 DEF ksys_window_graphics_flush_all, Assumed
  <2>. QED  BY <1>3, <2>2 DEF HandlesOK, CallsSafe
<1>6. CASE \E what \in Shortages : CreateFails(p, what)
  BY <1>3, <1>6 DEF CreateFails, Assumed, HandlesOK, CallsSafe
<1>7. ASSUME NEW h \in Slots, GetWindowFB(p, h) PROVE HandlesOK'
  <2>1. handles[h] \in Windows  BY <1>1, <1>7 DEF GetWindowFB, MayUse, Assumed, HandlesResolve
  <2>2. pc' = "run"  BY <2>1, <1>7 DEF GetWindowFB, Windows
  <2>. QED  BY <1>3, <2>2 DEF HandlesOK, CallsSafe
<1>. QED  BY <1>4, <1>5, <1>6, <1>7

\* Every step keeps the handles of careful applications right.
LEMMA HandlesStep ==
  ASSUME Assumed
  PROVE  HandlesInv /\ [Next]_vars => HandlesInv'
<1> SUFFICES ASSUME HandlesInv, [Next]_vars PROVE HandlesOK'
  BY PaintStep DEF HandlesInv
<1>1. ASSUME NEW p \in Procs, NEW b \in Blocks, CreateWindow(p, b) PROVE HandlesOK'
  BY <1>1, HandlesCreate
<1>2. ASSUME NEW p \in Procs, NEW h \in Slots, DestroyWindow(p, h) PROVE HandlesOK'
  BY <1>2, HandlesDestroy
<1>3. ASSUME NEW p \in Procs,
             \/ CreateNoHandle(p) \/ ksys_window_graphics_flush_all(p) \/ Exit(p)
             \/ \E what \in Shortages : CreateFails(p, what)
             \/ \E h \in Slots : GetWindowFB(p, h)
      PROVE  HandlesOK'
  BY <1>3, HandlesOthers
<1>4. CASE UNCHANGED vars
  BY <1>4 DEF vars, HandlesInv, HandlesOK, CallsSafe, HandlesResolve, Windows
<1>. QED  BY <1>1, <1>2, <1>3, <1>4 DEF Next, Halted

\* Among careful applications, and while the heap has memory, a handle names its window
\* until the window is destroyed, however often blocks and cells are reused, and no
\* window call meets memory that is gone (khandle_getObject, ksys_window_destoryWindow).
THEOREM HandlesCorrect ==
  ASSUME Careful, "heap" \notin Shortages
  PROVE  Spec => []HandlesOK
<1>1. Assumed  BY DEF Assumed
<1>2. Init => HandlesInv
  <2> SUFFICES ASSUME Init PROVE HandlesInv  OBVIOUS
  <2>1. Windows = {}  BY DEF Init, Windows
  <2>2. HandlesOK  BY <2>1 DEF Init, HandlesOK, CallsSafe, HandlesResolve
  <2>. QED  BY <2>2, PaintInit DEF HandlesInv
<1>3. HandlesInv => HandlesOK  BY DEF HandlesInv
<1>4. HandlesInv /\ [Next]_vars => HandlesInv'  BY <1>1, HandlesStep
<1>. QED  BY <1>2, <1>3, <1>4, PTL DEF Spec
-----------------------------------------------------------------------------
(* The text on the screen *)

\* The place of a character in the buffer, by row and column.
LEMMA PlaceInBuffer ==
  ASSUME NEW r \in 0..(VGA_ROWS - 1), NEW c \in Columns
  PROVE  /\ r * VGA_COLUMNS \in Nat /\ r * VGA_COLUMNS + c \in Index
         /\ (r + 1) * VGA_COLUMNS = r * VGA_COLUMNS + VGA_COLUMNS
<1> DEFINE m == VGA_COLUMNS
           a == VGA_ROWS - 1 - r
<1>1. m \in Nat /\ m > 0 /\ r \in Nat /\ a \in Nat /\ VGA_ROWS = r + 1 + a  BY GridAssumption
<1> HIDE DEF m, a
<1>2. a * m \in Nat /\ r * m \in Nat  BY <1>1
<1>3. (r + 1 + a) * m = r * m + m + a * m /\ (r + 1) * m = r * m + m  BY <1>1
<1>4. c \in 0..(m - 1)  BY DEF Columns, m
<1>5. r * m + c \in 0..(VGA_ROWS * m - 1)  BY <1>1, <1>2, <1>3, <1>4
<1>. QED  BY <1>2, <1>3, <1>5 DEF Index, m

\* Different rows or columns are different places.
LEMMA PlacesApart ==
  ASSUME NEW r \in Nat, NEW c \in Columns, NEW q \in Nat, NEW d \in Columns,
         r * VGA_COLUMNS + c = q * VGA_COLUMNS + d
  PROVE  r = q /\ c = d
<1> DEFINE m == VGA_COLUMNS
<1>1. m \in Nat /\ m > 0 /\ c \in 0..(m - 1) /\ d \in 0..(m - 1)  BY GridAssumption DEF Columns
<1> HIDE DEF m
<1>2. PICK a \in Nat : a = m * r + c /\ a = m * q + d
  <2>1. m * r + c \in Nat /\ m * r = r * m /\ m * q = q * m  BY <1>1
  <2>. QED  BY <2>1 DEF m
<1>3. a \div m = r /\ a % m = c  BY ONLY <1>1, <1>2, r \in Nat, DivModUnique
<1>4. a \div m = q /\ a % m = d  BY ONLY <1>1, <1>2, q \in Nat, DivModUnique
<1>. QED  BY <1>3, <1>4

\* Every place of the buffer is in a row and a column.
LEMMA RowAndColumn ==
  ASSUME NEW i \in Index
  PROVE  \E r \in 0..(VGA_ROWS - 1), c \in Columns :
           /\ i \div VGA_COLUMNS = r /\ i % VGA_COLUMNS = c
           /\ i = r * VGA_COLUMNS + c
<1> DEFINE m == VGA_COLUMNS
           R == VGA_ROWS
<1>1. m \in Nat /\ m > 0 /\ R \in Nat /\ i \in Nat /\ i < R * m  BY GridAssumption DEF Index
<1> HIDE DEF m, R
<1>2. PICK q \in Nat, r \in 0..(m - 1) : q = i \div m /\ r = i % m /\ i = m * q + r  BY <1>1, DivMod
<1>3. q < R
  <2> SUFFICES ASSUME q >= R PROVE FALSE  BY <1>1
  <2> DEFINE a == q - R
  <2>1. a \in Nat /\ q = R + a  BY <1>1
  <2> HIDE DEF a
  <2>2. a * m \in Nat /\ (R + a) * m = R * m + a * m /\ m * q = q * m  BY <1>1, <2>1
  <2>. QED  BY <1>1, <1>2, <2>1, <2>2
<1>4. m * q = q * m  BY <1>1
<1>5. i = q * m + r /\ q \in 0..(R - 1)  BY <1>1, <1>2, <1>3, <1>4
<1>. QED  BY <1>2, <1>5 DEF Columns, m, R

\* A display and a page whose cells hold elements of S, and that agree: the display is
\* the end of the page.
Displays(S) == [vgab : [Index -> S], row : 0..(VGA_ROWS - 1), column : Columns, attr : Nat,
                cursor : Int, wild : {FALSE}, blink : BOOLEAN]
Pages(S) == [lines : Seq([Columns -> S]), line : Int, column : Columns]
Above(p) == Len(p.lines) - VGA_ROWS

Agree(s, p) ==
  /\ Above(p) >= 0
  /\ s.row = p.line - Above(p) - 1 /\ s.column = p.column
  /\ s.cursor # UNSET => s.cursor = s.row * VGA_COLUMNS + s.column
  /\ \A r \in 0..(VGA_ROWS - 1), c \in Columns :
       s.vgab[r * VGA_COLUMNS + c] = p.lines[Above(p) + r + 1][c]

Shown(S, s, p) == s \in Displays(S) /\ p \in Pages(S) /\ Agree(s, p)

ConsoleInv ==
  /\ phase = "boot" => /\ out = <<>>
                       /\ \E n \in Screens, b \in BOOLEAN :
                            scr = [vgab |-> LoaderScreen(n), row |-> 0, column |-> 0, attr |-> 0,
                                   cursor |-> UNSET, wild |-> FALSE, blink |-> b]
  /\ phase \in {"ready", "halted"} => \E S : Shown(S, scr, page)

\* The fields of a display and of a page, before and after a move.
LEMMA DisplayMoved ==
  ASSUME NEW s, NEW r, NEW k,
         s = [vgab |-> s.vgab, row |-> s.row, column |-> s.column, attr |-> s.attr,
              cursor |-> s.cursor, wild |-> s.wild, blink |-> s.blink]
  PROVE  [s EXCEPT !.row = r, !.column = k]
           = [vgab |-> s.vgab, row |-> r, column |-> k, attr |-> s.attr, cursor |-> s.cursor,
              wild |-> s.wild, blink |-> s.blink]
<1> DEFINE t == [s EXCEPT !.row = r, !.column = k]
<1>1. /\ t \in [vgab : {s.vgab}, row : {r}, column : {k}, attr : {s.attr}, cursor : {s.cursor},
               wild : {s.wild}, blink : {s.blink}]
      /\ t.vgab = s.vgab /\ t.attr = s.attr /\ t.cursor = s.cursor /\ t.wild = s.wild
      /\ t.blink = s.blink
  OBVIOUS
<1> HIDE DEF t
<1>2. /\ t = [vgab |-> t.vgab, row |-> t.row, column |-> t.column, attr |-> t.attr,
              cursor |-> t.cursor, wild |-> t.wild, blink |-> t.blink]
      /\ t.row = r /\ t.column = k
  BY <1>1
<1>3. t = [vgab |-> s.vgab, row |-> r, column |-> k, attr |-> s.attr, cursor |-> s.cursor,
           wild |-> s.wild, blink |-> s.blink]
  BY <1>1, <1>2
<1>. QED  BY <1>3 DEF t

LEMMA DisplayFields ==
  ASSUME NEW S, NEW s \in Displays(S)
  PROVE  /\ s.row \in Nat /\ s.row < VGA_ROWS /\ s.column \in Columns /\ s.vgab \in [Index -> S]
         /\ s.wild = FALSE
         /\ \A r, k : [s EXCEPT !.row = r, !.column = k]
              = [vgab |-> s.vgab, row |-> r, column |-> k, attr |-> s.attr, cursor |-> s.cursor,
                 wild |-> s.wild, blink |-> s.blink]
<1>1. s.row \in 0..(VGA_ROWS - 1) /\ s.column \in Columns /\ s.vgab \in [Index -> S] /\ s.wild = FALSE
  BY DEF Displays
<1>2. s.row \in Nat /\ s.row < VGA_ROWS  BY <1>1, GridAssumption
<1>3. \A r, k : [s EXCEPT !.row = r, !.column = k]
        = [vgab |-> s.vgab, row |-> r, column |-> k, attr |-> s.attr, cursor |-> s.cursor,
           wild |-> s.wild, blink |-> s.blink]
  <2>1. s = [vgab |-> s.vgab, row |-> s.row, column |-> s.column, attr |-> s.attr,
             cursor |-> s.cursor, wild |-> s.wild, blink |-> s.blink]
    BY DEF Displays
  <2>. QED  BY ONLY <2>1, DisplayMoved
<1>. QED  BY <1>1, <1>2, <1>3

LEMMA PageFields ==
  ASSUME NEW S, NEW p, p \in Pages(S), NEW l, NEW k
  PROVE  /\ p.line \in Int /\ p.column \in Columns /\ p.lines \in Seq([Columns -> S])
         /\ [p EXCEPT !.line = l, !.column = k] = [lines |-> p.lines, line |-> l, column |-> k]
<1> DEFINE q == [p EXCEPT !.line = l, !.column = k]
<1>1. p.line \in Int /\ p.column \in Columns /\ p.lines \in Seq([Columns -> S])  BY DEF Pages
<1>2. q \in [lines : Seq([Columns -> S]), line : {l}, column : {k}] /\ q.lines = p.lines
  BY DEF Pages
<1> HIDE DEF q
<1>3. q = [lines |-> q.lines, line |-> q.line, column |-> q.column] /\ q.line = l /\ q.column = k
  BY <1>2
<1>4. q = [lines |-> p.lines, line |-> l, column |-> k]  BY <1>2, <1>3
<1>. QED  BY <1>1, <1>4 DEF q

\* Cells may hold more.
LEMMA MoreCells ==
  ASSUME NEW S, NEW T, S \subseteq T, NEW s, NEW p, Shown(S, s, p)
  PROVE  Shown(T, s, p)
<1>1. s \in Displays(T)  BY DEF Shown, Displays
<1>2. p \in Pages(T)
  <2>1. p.lines \in Seq([Columns -> S])  BY DEF Shown, Pages
  <2>2. [Columns -> S] \subseteq [Columns -> T]  OBVIOUS
  <2>3. p.lines \in Seq([Columns -> T])
    <3> HIDE DEF Columns
    <3>. QED  BY <2>1, <2>2
  <2>. QED  BY <2>3 DEF Shown, Pages
<1>. QED  BY <1>1, <1>2 DEF Shown

\* The display shows the last lines of the page.
LEMMA EndOfPage ==
  ASSUME NEW S, Shown(S, scr, page)
  PROVE  ScreenShowsPage
<1> DEFINE ls == page.lines
           L == Len(ls)
           end == SubSeq(ls, L - VGA_ROWS + 1, L)
<1>1. VGA_ROWS \in Nat /\ VGA_ROWS > 0 /\ VGA_COLUMNS \in Nat  BY GridAssumption
<1>2. ls \in Seq([Columns -> S]) /\ L \in Nat /\ L - VGA_ROWS >= 0  BY DEF Shown, Pages, Agree, Above
<1>3. Len(end) = VGA_ROWS /\ end = [r \in 1..VGA_ROWS |-> ls[L - VGA_ROWS + r]]
  <2> HIDE DEF L, ls
  <2>. QED  BY <1>1, <1>2 DEF end
<1>4. ASSUME NEW r \in 1..VGA_ROWS PROVE Lines(scr)[r] = ls[L - VGA_ROWS + r]
  <2>1. r - 1 \in 0..(VGA_ROWS - 1) /\ Above(page) + (r - 1) + 1 = L - VGA_ROWS + r
    BY <1>1, <1>2 DEF Above
  <2>2. \A c \in Columns : scr.vgab[(r - 1) * VGA_COLUMNS + c] = ls[L - VGA_ROWS + r][c]
    BY <2>1 DEF Shown, Agree
  <2>3. ls[L - VGA_ROWS + r] \in [Columns -> S]  BY <1>1, <1>2
  <2>4. Lines(scr)[r] = [c \in Columns |-> scr.vgab[(r - 1) * VGA_COLUMNS + c]]  BY DEF Lines
  <2> HIDE DEF L, ls
  <2>. QED  BY <2>2, <2>3, <2>4
<1>5. Lines(scr) = end
  <2>1. Lines(scr) = [r \in 1..VGA_ROWS |-> Lines(scr)[r]]  BY DEF Lines
  <2> HIDE DEF L, ls, end
  <2>. QED  BY <1>3, <1>4, <2>1
<1>6. ~scr.wild  BY DEF Shown, Displays
<1>. QED  BY <1>5, <1>6 DEF ScreenShowsPage, Shown, Agree, Above


\* A character is put at the same place on both.
LEMMA InkShown ==
  ASSUME NEW S, NEW s, NEW p, Shown(S, s, p), NEW x \in S
  PROVE  LET i == s.row * VGA_COLUMNS + s.column
         IN /\ i \in Index
            /\ Shown(S, [s EXCEPT !.vgab[i] = x], [p EXCEPT !.lines[p.line][p.column] = x])
<1> DEFINE i == s.row * VGA_COLUMNS + s.column
           ls == p.lines
           L == Len(ls)
           k == p.line
           line == [ls[k] EXCEPT ![p.column] = x]
           ms == [ls EXCEPT ![k] = line]
           t == [s EXCEPT !.vgab[i] = x]
           q == [p EXCEPT !.lines[p.line][p.column] = x]
<1>1. /\ s.row \in 0..(VGA_ROWS - 1) /\ s.column \in Columns /\ s.vgab \in [Index -> S]
      /\ VGA_ROWS \in Nat /\ VGA_ROWS > 0
      /\ ls \in Seq([Columns -> S]) /\ L \in Nat /\ k \in Int /\ p.column = s.column
  BY GridAssumption DEF Shown, Displays, Pages, Agree
<1>2. i \in Index  BY <1>1, PlaceInBuffer
<1>3. k \in 1..L /\ s.row = k - (L - VGA_ROWS) - 1 /\ L - VGA_ROWS >= 0
  BY <1>1 DEF Shown, Agree, Above
<1>4. line \in [Columns -> S] /\ ls[k] \in [Columns -> S]
  <2>1. ls[k] \in [Columns -> S]  BY <1>1, <1>3
  <2>. QED  BY <2>1
<1>5. ms \in Seq([Columns -> S]) /\ Len(ms) = L
      /\ \A j \in 1..L : ms[j] = IF j = k THEN line ELSE ls[j]
  <2> HIDE DEF line, ls, k
  <2>. QED  BY <1>1, <1>3, <1>4 DEF L
<1>6. q = [p EXCEPT !.lines = ms] /\ q.lines = ms /\ q.line = k /\ q.column = p.column
  BY DEF Shown, Pages
<1>7. q \in Pages(S)  BY <1>5, <1>6 DEF Shown, Pages
<1>8. t \in Displays(S)
  BY <1>2 DEF Shown, Displays
<1>9. t.vgab = [s.vgab EXCEPT ![i] = x] /\ t.row = s.row /\ t.column = s.column /\ t.cursor = s.cursor
  BY DEF Shown, Displays
<1>10. Above(q) = Above(p) /\ Above(p) = L - VGA_ROWS  BY <1>5, <1>6 DEF Above
<1>11. ASSUME NEW r \in 0..(VGA_ROWS - 1), NEW c \in Columns
       PROVE  t.vgab[r * VGA_COLUMNS + c] = ms[Above(p) + r + 1][c]
  <2>1. r * VGA_COLUMNS + c \in Index  BY PlaceInBuffer
  <2>2. Above(p) + r + 1 \in 1..L /\ (Above(p) + r + 1 = k <=> r = s.row)
    <3> HIDE DEF L, k, ls, q, t, ms
    <3>. QED  BY <1>1, <1>3, <1>10
  <2>3. s.vgab[r * VGA_COLUMNS + c] = ls[Above(p) + r + 1][c]  BY DEF Shown, Agree
  <2>4. CASE r = s.row /\ c = s.column
    BY <1>1, <1>2, <1>4, <1>5, <1>9, <2>2, <2>4
  <2>5. CASE r = s.row /\ c # s.column
    <3>1. r * VGA_COLUMNS + c # i  BY <1>1, <2>5, PlacesApart
    <3>2. line[c] = ls[k][c]  BY <1>1, <1>4, <2>5
    <3> HIDE DEF line, i, ls, k, L
    <3>. QED  BY <1>1, <1>2, <1>5, <1>9, <2>1, <2>2, <2>3, <2>5, <3>1, <3>2
  <2>6. CASE r # s.row
    <3>1. r * VGA_COLUMNS + c # i  BY <1>1, <2>6, PlacesApart
    <3> HIDE DEF line, i, ls, k, L
    <3>. QED  BY <1>1, <1>2, <1>5, <1>9, <2>1, <2>2, <2>3, <2>6, <3>1
  <2>. QED  BY <2>4, <2>5, <2>6
<1>12. Agree(t, q)
  <2> HIDE DEF t, q, ms, ls, L
  <2>. QED  BY <1>6, <1>9, <1>10, <1>11 DEF Agree, Shown
<1>. QED  BY <1>2, <1>7, <1>8, <1>12 DEF Shown

\* The position moves to the same place on both.
LEMMA MoveShown ==
  ASSUME NEW S, NEW s, NEW p, Shown(S, s, p),
         NEW row \in 0..(VGA_ROWS - 1), NEW column \in Columns
  PROVE  Shown(S, s_updateCursor([s EXCEPT !.row = row, !.column = column]),
                  [p EXCEPT !.line = Above(p) + row + 1, !.column = column])
<1> DEFINE t == s_updateCursor([s EXCEPT !.row = row, !.column = column])
           q == [p EXCEPT !.line = Above(p) + row + 1, !.column = column]
<1>1. /\ s \in Displays(S) /\ p \in Pages(S) /\ Len(p.lines) \in Nat
      /\ VGA_ROWS \in Nat /\ row * VGA_COLUMNS + column \in Int
  BY GridAssumption, PlaceInBuffer DEF Shown, Pages, Index
<1>2. t \in Displays(S)  BY <1>1 DEF Displays, s_updateCursor
<1>3. q \in Pages(S)
  <2>1. Above(p) + row + 1 \in Int  BY <1>1 DEF Above
  <2>. QED  BY <1>1, <2>1 DEF Pages
<1>4. /\ t.vgab = s.vgab /\ t.row = row /\ t.column = column
      /\ t.cursor = row * VGA_COLUMNS + column
  BY <1>1 DEF Displays, s_updateCursor
<1>5. q.lines = p.lines /\ q.line = Above(p) + row + 1 /\ q.column = column  BY <1>1 DEF Pages
<1>6. Above(q) = Above(p) /\ Above(p) \in Int  BY <1>1, <1>5 DEF Above
<1>7. Agree(t, q)
  <2> HIDE DEF t, q
  <2>. QED  BY <1>4, <1>5, <1>6 DEF Shown, Agree
<1>. QED  BY <1>2, <1>3, <1>7 DEF Shown

\* A row is added to the page, and the display scrolls.
LEMMA ScrollShown ==
  ASSUME NEW S, NEW s, NEW p, Shown(S, s, p), Blank(s.attr) \in S
  PROVE  Shown(S, s_updateCursor(kdisp_scrollDown([s EXCEPT !.row = VGA_ROWS, !.column = 0])),
                  [lines |-> Append(p.lines, BlankLine(s.attr)), line |-> Len(p.lines) + 1, column |-> 0])
<1> DEFINE ls == p.lines
           L == Len(ls)
           x == BlankLine(s.attr)
           ms == Append(ls, x)
           vs == [i \in Index |-> IF i + VGA_COLUMNS \in Index THEN s.vgab[i + VGA_COLUMNS]
                                  ELSE Blank(s.attr)]
           last == VGA_ROWS - 1
           t == s_updateCursor(kdisp_scrollDown([s EXCEPT !.row = VGA_ROWS, !.column = 0]))
           q == [lines |-> ms, line |-> L + 1, column |-> 0]
<1>1. /\ s \in Displays(S) /\ s.vgab \in [Index -> S] /\ ls \in Seq([Columns -> S]) /\ L \in Nat
      /\ VGA_ROWS \in Nat /\ VGA_ROWS > 0 /\ VGA_COLUMNS \in Nat /\ VGA_COLUMNS > 0
      /\ L - VGA_ROWS >= 0
  <2>1. ls \in Seq([Columns -> S]) /\ L - VGA_ROWS >= 0  BY DEF Shown, Pages, Agree, Above
  <2>2. s \in Displays(S) /\ s.vgab \in [Index -> S]  BY DEF Shown, Displays
  <2>3. L \in Nat
    <3> HIDE DEF ls, Columns
    <3>. QED  BY <2>1 DEF L
  <2> HIDE DEF L, ls
  <2>. QED  BY <2>1, <2>2, <2>3, GridAssumption
<1>2. /\ t.vgab = vs /\ t.row = last /\ t.column = 0 /\ t.cursor = last * VGA_COLUMNS + 0
      /\ t = [s EXCEPT !.vgab = vs, !.row = last, !.column = 0, !.cursor = last * VGA_COLUMNS + 0]
  BY <1>1 DEF Displays, s_updateCursor, kdisp_scrollDown
<1>3. vs \in [Index -> S]  BY <1>1
<1>4. last * VGA_COLUMNS + 0 \in Int /\ last \in 0..(VGA_ROWS - 1) /\ 0 \in Columns
  BY <1>1 DEF Columns
<1>5. t \in Displays(S)
  <2> HIDE DEF vs, last, t
  <2>. QED  BY <1>1, <1>2, <1>3, <1>4 DEF Displays
<1>6. x \in [Columns -> S] /\ \A c \in Columns : x[c] = Blank(s.attr)  BY DEF BlankLine
<1>7. ms \in Seq([Columns -> S]) /\ Len(ms) = L + 1 /\ ms[L + 1] = x /\ \A j \in 1..L : ms[j] = ls[j]
  <2> HIDE DEF x, ls
  <2>. QED  BY <1>1, <1>6 DEF L
<1>8. q \in Pages(S)
  <2> HIDE DEF ms, L
  <2>. QED  BY <1>1, <1>4, <1>7 DEF Pages
<1>9. Above(q) = L + 1 - VGA_ROWS /\ Above(p) = L - VGA_ROWS
  <2>1. q.lines = ms  OBVIOUS
  <2>2. Above(p) = L - VGA_ROWS  BY DEF Above
  <2>3. Len(ms) = L + 1  BY <1>7
  <2> HIDE DEF q, ms, L, ls, x
  <2>4. Above(q) = L + 1 - VGA_ROWS  BY <1>1, <2>1, <2>3 DEF Above
  <2>. QED  BY <2>2, <2>4
<1>10. ASSUME NEW r \in 0..(VGA_ROWS - 1), NEW c \in Columns
       PROVE  vs[r * VGA_COLUMNS + c] = ms[L + 1 - VGA_ROWS + r + 1][c]
  <2> DEFINE i == r * VGA_COLUMNS + c
  <2>1. i \in Index /\ (r + 1) * VGA_COLUMNS + c = i + VGA_COLUMNS /\ i \in Nat
    <3>1. /\ r * VGA_COLUMNS \in Nat /\ i \in Index
          /\ (r + 1) * VGA_COLUMNS = r * VGA_COLUMNS + VGA_COLUMNS
      BY PlaceInBuffer
    <3>2. VGA_COLUMNS \in Nat /\ c \in Nat  BY <1>1 DEF Columns
    <3>3. \A a \in Nat : a + VGA_COLUMNS + c = a + c + VGA_COLUMNS /\ a + c \in Nat  BY <3>2
    <3>. QED  BY <3>1, <3>3
  <2>2. CASE r < last
    <3>1. r + 1 \in 0..(VGA_ROWS - 1) /\ L - VGA_ROWS + (r + 1) + 1 \in 1..L
      <4> HIDE DEF L, i, ls, vs, ms, q, t
      <4>. QED  BY <1>1, <2>2
    <3>2. i + VGA_COLUMNS \in Index  BY <2>1, <3>1, PlaceInBuffer
    <3>3. s.vgab[i + VGA_COLUMNS] = ls[L - VGA_ROWS + (r + 1) + 1][c]
      BY <1>9, <2>1, <3>1 DEF Shown, Agree
    <3>4. vs[i] = s.vgab[i + VGA_COLUMNS]  BY <2>1, <3>2
    <3> HIDE DEF vs, ms, ls, L, i, q, t
    <3>5. L + 1 - VGA_ROWS + r + 1 = L - VGA_ROWS + (r + 1) + 1  BY <1>1
    <3>. QED  BY <1>7, <3>1, <3>3, <3>4, <3>5 DEF i
  <2>3. CASE r = last
    <3>1. r + 1 = VGA_ROWS /\ L + 1 - VGA_ROWS + r + 1 = L + 1  BY <1>1, <2>3
    <3>2. i + VGA_COLUMNS = VGA_ROWS * VGA_COLUMNS + c /\ VGA_ROWS * VGA_COLUMNS \in Nat /\ c \in Nat
      BY <1>1, <2>1, <3>1 DEF Columns
    <3>3. i + VGA_COLUMNS \notin Index
      <4> HIDE DEF i
      <4>. QED  BY <3>2 DEF Index
    <3>4. vs[i] = Blank(s.attr)  BY <2>1, <3>3
    <3> HIDE DEF vs, ms, ls, L, i, x
    <3>. QED  BY <1>6, <1>7, <3>1, <3>4 DEF i
  <2>. QED  BY <1>1, <2>2, <2>3
<1>11. Agree(t, q)
  <2>1. q.lines = ms /\ q.line = L + 1 /\ q.column = 0  OBVIOUS
  <2> HIDE DEF t, q, ms, vs, L, ls
  <2>. QED  BY <1>1, <1>2, <1>9, <1>10, <2>1 DEF Agree, last
<1>. QED  BY <1>5, <1>8, <1>11 DEF Shown

\* What is shown is shown with other attributes, too.
LEMMA ColourShown ==
  ASSUME NEW S, NEW s, NEW p, Shown(S, s, p), NEW attr \in Nat
  PROVE  Shown(S, [s EXCEPT !.attr = attr], p)
<1> DEFINE t == [s EXCEPT !.attr = attr]
<1>1. /\ t \in Displays(S) /\ t.row = s.row /\ t.column = s.column /\ t.cursor = s.cursor
      /\ t.vgab = s.vgab
  BY DEF Shown, Displays
<1> HIDE DEF t
<1>2. Shown(S, t, p)  BY <1>1 DEF Shown, Agree
<1>. QED  BY <1>2 DEF t

\* The place that the position reaches when the display and the page have gone on by one
\* row, or stayed in theirs.
LEMMA StepShown ==
  ASSUME NEW S, NEW s, NEW p, Shown(S, s, p), Blank(s.attr) \in S,
         NEW d \in {0, 1}, NEW column \in Columns, d = 1 => column = 0
  PROVE  LET t == [s EXCEPT !.row = @ + d, !.column = column]
             q == [p EXCEPT !.line = @ + d, !.column = column]
         IN  Shown(S, s_updateCursor(IF t.row >= VGA_ROWS THEN kdisp_scrollDown(t) ELSE t),
                      IF q.line > Len(q.lines)
                      THEN [q EXCEPT !.lines = Append(@, BlankLine(s.attr))] ELSE q)
<1> DEFINE row == s.row + d
           line == p.line + d
           L == Len(p.lines)
           t == [s EXCEPT !.row = row, !.column = column]
           q == [p EXCEPT !.line = line, !.column = column]
<1>1. /\ s \in Displays(S) /\ p \in Pages(S) /\ L \in Nat /\ VGA_ROWS \in Nat /\ s.row \in Nat
      /\ p.line \in Int /\ s.row < VGA_ROWS /\ L - VGA_ROWS >= 0
      /\ p.line = s.row + 1 + (L - VGA_ROWS)
  <2>1. s \in Displays(S) /\ p \in Pages(S) /\ L - VGA_ROWS >= 0 /\ s.row = p.line - (L - VGA_ROWS) - 1
    BY DEF Shown, Agree, Above
  <2>2. s.row \in 0..(VGA_ROWS - 1) /\ p.line \in Int /\ p.lines \in Seq([Columns -> S])
    BY <2>1 DEF Displays, Pages
  <2>3. L \in Nat  BY <2>2
  <2> HIDE DEF L
  <2>. QED  BY <2>1, <2>2, <2>3, GridAssumption
<1>2. t = [s EXCEPT !.row = @ + d, !.column = column] /\ t.row = row
      /\ q = [p EXCEPT !.line = @ + d, !.column = column] /\ q.line = line /\ q.lines = p.lines
  BY <1>1 DEF Displays, Pages
<1>3. CASE row < VGA_ROWS
  <2>1. row \in 0..(VGA_ROWS - 1) /\ line = Above(p) + row + 1 /\ ~(line > L) /\ ~(row >= VGA_ROWS)
    <3> HIDE DEF L
    <3>1. row \in 0..(VGA_ROWS - 1) /\ line = L - VGA_ROWS + row + 1 /\ ~(line > L) /\ ~(row >= VGA_ROWS)
      BY <1>1, <1>3
    <3>. QED  BY <3>1 DEF Above, L
  <2>2. Shown(S, s_updateCursor(t), q)
    <3> HIDE DEF row, line
    <3>1. Shown(S, s_updateCursor([s EXCEPT !.row = row, !.column = column]),
                  [p EXCEPT !.line = Above(p) + row + 1, !.column = column])
      BY <2>1, MoveShown
    <3>. QED  BY <2>1, <3>1
  <2> HIDE DEF t, q, row, line
  <2>. QED  BY <1>2, <2>1, <2>2 DEF L
<1>4. CASE row >= VGA_ROWS
  <2>1. row = VGA_ROWS /\ line = L + 1 /\ d = 1 /\ column = 0
    <3> HIDE DEF L
    <3>. QED  BY <1>1, <1>4
  <2>2. t = [s EXCEPT !.row = VGA_ROWS, !.column = 0]  BY <2>1
  <2>3. [q EXCEPT !.lines = Append(@, BlankLine(s.attr))]
          = [lines |-> Append(p.lines, BlankLine(s.attr)), line |-> L + 1, column |-> 0]
    <3> HIDE DEF line
    <3>1. p \in Pages(S)  BY <1>1
    <3>2. q = [lines |-> p.lines, line |-> line, column |-> column]  BY ONLY <3>1, PageFields
    <3> HIDE DEF q, L
    <3> DEFINE more == Append(p.lines, BlankLine(s.attr))
               qq == [q EXCEPT !.lines = more]
    <3>3. qq \in [lines : {more}, line : {line}, column : {column}] /\ q.lines = p.lines
      <4> HIDE DEF more
      <4>. QED  BY <3>2
    <3> HIDE DEF qq, more
    <3>4. qq = [lines |-> qq.lines, line |-> qq.line, column |-> qq.column]
          /\ qq.lines = more /\ qq.line = line /\ qq.column = column
      BY <3>3
    <3>5. qq = [lines |-> more, line |-> L + 1, column |-> 0]  BY <2>1, <3>4
    <3>. QED  BY <3>3, <3>5 DEF qq, more
  <2>4. s_updateCursor(kdisp_scrollDown(t)) = s_updateCursor(kdisp_scrollDown([s EXCEPT !.row = VGA_ROWS, !.column = 0]))
    BY <2>2
  <2>5. line > L
    <3> HIDE DEF L
    <3>. QED  BY <1>1, <2>1
  <2>6. Shown(S, s_updateCursor(kdisp_scrollDown([s EXCEPT !.row = VGA_ROWS, !.column = 0])),
                 [lines |-> Append(p.lines, BlankLine(s.attr)), line |-> L + 1, column |-> 0])
    BY ScrollShown
  <2> HIDE DEF t, q, row, line
  <2>. QED  BY <1>2, <1>4, <2>3, <2>4, <2>5, <2>6 DEF L
<1>5. row < VGA_ROWS \/ row >= VGA_ROWS  BY <1>1
<1>. QED  BY <1>3, <1>4, <1>5

\* A character put on the display and typed on the page.
LEMMA PutcShown ==
  ASSUME NEW S, NEW s, NEW p, Shown(S, s, p), NEW c
  PROVE  \E T : Shown(T, kdisp_putc(s, c), Typed(p, c, s.attr))
<1> DEFINE x == <<s.attr % 256, c>>
           T == S \cup {x, Blank(s.attr)}
           i == s.row * VGA_COLUMNS + s.column
           ink == c \notin {CR, LF, TAB}
           s1 == IF ink THEN [s EXCEPT !.vgab[i] = x] ELSE s
           p1 == IF ink THEN [p EXCEPT !.lines[p.line][p.column] = x] ELSE p
           next == CASE c \in {CR, LF} -> 0
                     [] c = TAB -> s.column + TABSTOP - (s.column % TABSTOP)
                     [] OTHER -> s.column + 1
           down == c = LF \/ next >= VGA_COLUMNS
           d == IF down THEN 1 ELSE 0
           column == IF down THEN 0 ELSE next
           t == [s1 EXCEPT !.row = @ + d, !.column = column]
           q == [p1 EXCEPT !.line = @ + d, !.column = column]
<1>1. Shown(T, s, p)  BY MoreCells
<1>2. x \in T /\ Blank(s.attr) \in T  OBVIOUS
<1>3. i \in Index /\ Shown(T, [s EXCEPT !.vgab[i] = x], [p EXCEPT !.lines[p.line][p.column] = x])
  <2> HIDE DEF x, T
  <2>. QED  BY <1>1, <1>2, InkShown
<1>4. Shown(T, s1, p1)  BY <1>1, <1>3
<1>5. s \in Displays(T) /\ p \in Pages(T) /\ s.column = p.column /\ s.column \in Columns
      /\ s.row \in Nat /\ p.line \in Int /\ s.wild = FALSE
      /\ s.vgab \in [Index -> T]
  <2>1. s \in Displays(T) /\ p \in Pages(T) /\ s.column = p.column
    <3> HIDE DEF T
    <3>. QED  BY <1>1 DEF Shown, Agree
  <2>2. s.column \in Columns /\ s.row \in Nat /\ s.wild = FALSE /\ s.vgab \in [Index -> T]
    <3> HIDE DEF T
    <3>. QED  BY <2>1, DisplayFields
  <2>3. p.line \in Int
    <3> HIDE DEF T
    <3>. QED  BY <2>1, PageFields
  <2>. QED  BY <2>1, <2>2, <2>3
<1>6. /\ s1.attr = s.attr /\ s1.row = s.row /\ s1.column = s.column /\ s1 \in Displays(T)
      /\ p1.line = p.line /\ p1.column = p.column /\ p1 \in Pages(T)
  <2>1. s1 \in Displays(T) /\ p1 \in Pages(T)  BY <1>4 DEF Shown
  <2>2. s1.attr = s.attr /\ s1.row = s.row /\ s1.column = s.column
    <3> HIDE DEF x, T, i
    <3>. QED  BY <1>5 DEF Displays
  <2>3. p1.line = p.line /\ p1.column = p.column
    <3> HIDE DEF x, T, i
    <3>. QED  BY <1>5 DEF Pages
  <2>. QED  BY <2>1, <2>2, <2>3
<1>7. next \in Nat /\ column \in Columns /\ d \in {0, 1} /\ (d = 1 => column = 0)
  <2>1. VGA_COLUMNS \in Nat /\ VGA_COLUMNS > 0 /\ s.column \in Nat /\ TABSTOP \in Nat /\ TABSTOP > 0
    BY <1>5, GridAssumption DEF Columns
  <2>2. s.column % TABSTOP \in 0..(TABSTOP - 1)  BY <2>1
  <2>3. next \in Nat  BY <2>1, <2>2
  <2> HIDE DEF next
  <2>. QED  BY <2>1, <2>3 DEF Columns
<1>8. Typed(p, c, s.attr) = IF q.line > Len(q.lines)
                            THEN [q EXCEPT !.lines = Append(@, BlankLine(s.attr))] ELSE q
  <2> DEFINE inked == IF c \in {CR, LF, TAB} THEN p
                      ELSE [p EXCEPT !.lines[p.line][p.column] = <<s.attr % 256, c>>]
             moved == Advance(inked, c)
  <2>1. inked = p1  OBVIOUS
  <2>2. Advance(p1, c) = q
    <3>1. p1.column = s.column  BY <1>5, <1>6
    <3> HIDE DEF p1, T, x, s1
    <3>2. (CASE c \in {CR, LF} -> 0
             [] c = TAB -> p1.column + TABSTOP - (p1.column % TABSTOP)
             [] OTHER -> p1.column + 1) = next
      BY <3>1
    <3>3. Advance(p1, c) = [p1 EXCEPT !.column = column, !.line = IF down THEN @ + 1 ELSE @]
      <4> DEFINE to == CASE c \in {CR, LF} -> 0
                         [] c = TAB -> p1.column + TABSTOP - (p1.column % TABSTOP)
                         [] OTHER -> p1.column + 1
                 goes == c = LF \/ to >= VGA_COLUMNS
      <4>1. Advance(p1, c) = [p1 EXCEPT !.column = IF goes THEN 0 ELSE to,
                                        !.line = IF goes THEN @ + 1 ELSE @]
        BY ZenonT(30) DEF Advance
      <4>2. to = next  BY <3>2
      <4> HIDE DEF to, next
      <4>3. goes = down  BY <4>2
      <4> HIDE DEF goes, down
      <4>. QED  BY <4>1, <4>2, <4>3
    <3>4. (IF down THEN p1.line + 1 ELSE p1.line) = p1.line + d  BY <1>5, <1>6
    <3>5. p1 = [lines |-> p1.lines, line |-> p1.line, column |-> p1.column]  BY <1>6 DEF Pages
    <3> HIDE DEF d, column, down, next
    <3>. QED  BY ONLY <3>3, <3>4, <3>5
  <2>3. Typed(p, c, s.attr) = IF moved.line > Len(moved.lines)
                              THEN [moved EXCEPT !.lines = Append(@, BlankLine(s.attr))] ELSE moved
    BY ZenonT(30) DEF Typed
  <2>4. moved = q
    <3> HIDE DEF inked, p1, q
    <3>. QED  BY <2>1, <2>2
  <2> HIDE DEF moved, q
  <2>. QED  BY <2>3, <2>4
<1>9. Wrapped(Placed(s, c)) = t
  <2> DEFINE w == IF c = LF THEN [s1 EXCEPT !.column = 0, !.row = @ + 1] ELSE [s1 EXCEPT !.column = next]
  <2>1. Placed(s, c) = w
    <3>1. CASE ink
      <4>1. Placed(s, c) = [s EXCEPT !.vgab = IF i \in Index THEN [@ EXCEPT ![i] = x] ELSE @,
                                     !.wild = @ \/ i \notin Index, !.column = @ + 1]
        BY <3>1 DEF Placed
      <4> HIDE DEF i, x, T
      <4>2. Placed(s, c) = [s EXCEPT !.vgab[i] = x, !.column = @ + 1]
        BY <1>3, <1>5, <4>1 DEF Displays
      <4>. QED  BY <1>5, <3>1, <4>2 DEF Displays
    <3>2. CASE ~ink
      BY <1>5, <3>2 DEF Placed, Displays, CR, LF, TAB
    <3>. QED  BY <3>1, <3>2
  <2> HIDE DEF s1
  <2>2. VGA_COLUMNS \in Nat /\ VGA_COLUMNS > 0  BY GridAssumption
  <2>3. Wrapped(w) = t
    <3> HIDE DEF T
    <3> DEFINE Moved(r, k) == [s1 EXCEPT !.row = r, !.column = k]
    <3>1. s1 = [vgab |-> s1.vgab, row |-> s1.row, column |-> s1.column, attr |-> s1.attr,
                cursor |-> s1.cursor, wild |-> s1.wild, blink |-> s1.blink]
      BY <1>6 DEF Displays
    <3>2. \A r, k : Moved(r, k) = [vgab |-> s1.vgab, row |-> r, column |-> k, attr |-> s1.attr,
                                cursor |-> s1.cursor, wild |-> s1.wild, blink |-> s1.blink]
      BY <1>6, DisplayFields
    <3>3. t = Moved(s1.row + d, column) /\ s1.row \in Nat  BY <1>5, <1>6
    <3>4. CASE c = LF
      <4>1. w = Moved(s1.row + 1, 0) /\ d = 1 /\ column = 0
        <5>1. w = [s1 EXCEPT !.column = 0, !.row = s1.row + 1]  BY <3>4
        <5>2. [s1 EXCEPT !.column = 0, !.row = s1.row + 1] = Moved(s1.row + 1, 0)  BY <3>1
        <5>. QED  BY <3>4, <5>1, <5>2
      <4>2. w.column = 0
        <5> HIDE DEF Moved, w
        <5>. QED  BY <3>2, <4>1
      <4> HIDE DEF w, Moved, t, d, column
      <4>. QED  BY <2>2, <3>3, <4>1, <4>2 DEF Wrapped
    <3>5. CASE c # LF /\ next >= VGA_COLUMNS
      <4>1. w = Moved(s1.row, next)
        <5> HIDE DEF next
        <5>. QED  BY <3>1, <3>5
      <4>2. d = 1 /\ column = 0
        <5> HIDE DEF next
        <5>. QED  BY <3>5
      <4>3. w.column = next /\ w.row = s1.row /\ [w EXCEPT !.row = @ + 1, !.column = 0] = Moved(s1.row + 1, 0)
        <5>1. w = [vgab |-> s1.vgab, row |-> s1.row, column |-> next, attr |-> s1.attr,
                   cursor |-> s1.cursor, wild |-> s1.wild, blink |-> s1.blink]
          <6> HIDE DEF w, Moved, next
          <6>. QED  BY <3>2, <4>1
        <5> HIDE DEF w, next
        <5>2. [w EXCEPT !.row = @ + 1, !.column = 0]
                = [vgab |-> s1.vgab, row |-> s1.row + 1, column |-> 0, attr |-> s1.attr,
                   cursor |-> s1.cursor, wild |-> s1.wild, blink |-> s1.blink]
          <6>1. w = [vgab |-> w.vgab, row |-> w.row, column |-> w.column, attr |-> w.attr,
                     cursor |-> w.cursor, wild |-> w.wild, blink |-> w.blink]
            BY <5>1
          <6>2. w.vgab = s1.vgab /\ w.row = s1.row /\ w.attr = s1.attr /\ w.cursor = s1.cursor
                /\ w.wild = s1.wild /\ w.blink = s1.blink
            BY <5>1
          <6>3. [w EXCEPT !.row = w.row + 1, !.column = 0]
                  = [vgab |-> w.vgab, row |-> w.row + 1, column |-> 0, attr |-> w.attr,
                     cursor |-> w.cursor, wild |-> w.wild, blink |-> w.blink]
            BY ONLY <6>1, DisplayMoved
          <6>. QED  BY <6>2, <6>3
        <5> HIDE DEF Moved
        <5>3. Moved(s1.row + 1, 0) = [vgab |-> s1.vgab, row |-> s1.row + 1, column |-> 0, attr |-> s1.attr,
                   cursor |-> s1.cursor, wild |-> s1.wild, blink |-> s1.blink]
          BY <3>2
        <5>. QED  BY <5>1, <5>2, <5>3
      <4> HIDE DEF w, Moved, t, d, column, next
      <4>. QED  BY <3>3, <3>5, <4>2, <4>3 DEF Wrapped
    <3>6. CASE c # LF /\ ~(next >= VGA_COLUMNS)
      <4>1. w = Moved(s1.row, next)
        <5> HIDE DEF next
        <5>. QED  BY <3>1, <3>6
      <4>2. d = 0 /\ column = next
        <5> HIDE DEF next
        <5>. QED  BY <3>6
      <4>3. w.column = next
        <5> HIDE DEF Moved, w, next
        <5>. QED  BY <3>2, <4>1
      <4>4. s1.row + 0 = s1.row  BY <3>3
      <4> HIDE DEF w, Moved, t, d, column, next
      <4>. QED  BY <3>3, <3>6, <4>1, <4>2, <4>3, <4>4 DEF Wrapped
    <3>. QED  BY <3>4, <3>5, <3>6
  <2>. QED  BY <2>1, <2>3
<1>10. kdisp_putc(s, c) = s_updateCursor(IF t.row >= VGA_ROWS THEN kdisp_scrollDown(t) ELSE t)
  <2> HIDE DEF t
  <2>. QED  BY <1>9 DEF kdisp_putc
<1>11. Shown(T, kdisp_putc(s, c), Typed(p, c, s.attr))
  <2> HIDE DEF T, s1, p1, d, column
  <2>1. Blank(s1.attr) \in T  BY <1>2, <1>6
  <2>2. Shown(T, s_updateCursor(IF t.row >= VGA_ROWS THEN kdisp_scrollDown(t) ELSE t),
                 IF q.line > Len(q.lines)
                 THEN [q EXCEPT !.lines = Append(@, BlankLine(s1.attr))] ELSE q)
    BY <1>4, <1>7, <2>1, StepShown
  <2> HIDE DEF t, q
  <2>. QED  BY <1>6, <1>8, <1>10, <2>2
<1>. QED  BY <1>11

\* The place behind what the loader has left.
LEMMA BehindLoader ==
  ASSUME NEW s, NEW n \in 0..(VGA_ROWS * VGA_COLUMNS - 1), s.vgab = LoaderScreen(n),
         VGA_ROWS * VGA_COLUMNS > 1
  PROVE  LastIndex(s) + 1 \in Index
<1> DEFINE size == VGA_ROWS * VGA_COLUMNS
           used == {i \in Index : s.vgab[i][2] # " "}
<1>1. size \in Nat /\ size > 1 /\ Index = 0..(size - 1) /\ n \in 0..(size - 1)
  BY GridAssumption DEF Index
<1>2. used = {i \in Index : i < n}
  <2>1. ASSUME NEW i \in Index PROVE s.vgab[i][2] # " " <=> i < n
    <3> DEFINE letter == IF i < n THEN "L" ELSE " "
    <3>1. s.vgab[i] = <<LIGHT_GRAY, letter>>  BY DEF LoaderScreen
    <3>2. letter # " " <=> i < n  OBVIOUS
    <3> HIDE DEF letter
    <3>3. s.vgab[i][2] = letter  BY <3>1
    <3>. QED  BY <3>2, <3>3
  <2>. QED  BY <2>1
<1>3. LastIndex(s) = IF used = {} THEN 0 ELSE CHOOSE i \in used : \A j \in used : j <= i
  BY DEF LastIndex
<1> HIDE DEF used, size
<1>4. CASE used = {}  BY <1>1, <1>3, <1>4
<1>5. CASE used # {}
  <2>1. n > 0 /\ n - 1 \in used /\ \A j \in used : j <= n - 1  BY <1>1, <1>2, <1>5
  <2> DEFINE last == CHOOSE i \in used : \A j \in used : j <= i
  <2>2. \E i \in used : \A j \in used : j <= i  BY <2>1
  <2>3. last \in used /\ \A j \in used : j <= last  BY <2>2
  <2>4. LastIndex(s) = last  BY <1>3, <1>5
  <2> HIDE DEF last
  <2>. QED  BY <1>1, <1>2, <2>1, <2>3, <2>4
<1>. QED  BY <1>4, <1>5

\* The first page is the screen of the loader.
LEMMA FirstPage ==
  ASSUME WithinScreen, NEW n \in Screens, NEW b \in BOOLEAN, kdisp_init,
         scr = [vgab |-> LoaderScreen(n), row |-> 0, column |-> 0, attr |-> 0,
                cursor |-> UNSET, wild |-> FALSE, blink |-> b]
  PROVE  \E S : Shown(S, scr', page')
<1> DEFINE T == {<<LIGHT_GRAY, "L">>, <<LIGHT_GRAY, " ">>}
           h == LastIndex(scr) + 1
           v == LoaderScreen(n)
           ls == Lines(scr)
<1>1. h \in Index  BY BehindLoader DEF WithinScreen
<1> HIDE DEF h
<1>2. PICK r \in 0..(VGA_ROWS - 1), c \in Columns : h \div VGA_COLUMNS = r /\ h % VGA_COLUMNS = c
  BY <1>1, RowAndColumn
<1>3. /\ scr' = [vgab |-> v, row |-> r, column |-> c, attr |-> LIGHT_GRAY, cursor |-> UNSET,
                 wild |-> FALSE, blink |-> b]
      /\ page' = [lines |-> ls, line |-> r + 1, column |-> c]
  BY <1>1, <1>2 DEF kdisp_init, h
<1>4. v \in [Index -> T]  BY DEF LoaderScreen
<1>5. VGA_ROWS \in Nat /\ VGA_ROWS > 0 /\ r \in Nat  BY GridAssumption
<1>6. ASSUME NEW q \in 1..VGA_ROWS, NEW d \in Columns
      PROVE  (q - 1) * VGA_COLUMNS + d \in Index
  <2>1. q - 1 \in 0..(VGA_ROWS - 1)  BY <1>5
  <2>. QED  BY <2>1, PlaceInBuffer
<1>7. ls = [q \in 1..VGA_ROWS |-> [d \in Columns |-> v[(q - 1) * VGA_COLUMNS + d]]]
  BY DEF Lines
<1> HIDE DEF v, ls, T
<1>8. ls \in [1..VGA_ROWS -> [Columns -> T]]  BY <1>4, <1>6, <1>7
<1>9. ls \in Seq([Columns -> T]) /\ Len(ls) = VGA_ROWS  BY <1>5, <1>8
<1>10. scr' \in Displays(T)
  <2>1. LIGHT_GRAY \in Nat /\ UNSET \in Int  BY DEF LIGHT_GRAY, UNSET
  <2>. QED  BY <1>3, <1>4, <2>1 DEF Displays
<1>11. page' \in Pages(T)  BY <1>3, <1>5, <1>9 DEF Pages
<1>12. page'.lines = ls /\ page'.line = r + 1 /\ page'.column = c  BY <1>3
<1>13. Above(page') = 0  BY <1>5, <1>9, <1>12 DEF Above
<1>14. scr'.vgab = v /\ scr'.row = r /\ scr'.column = c /\ scr'.cursor = UNSET  BY <1>3
<1>15. ASSUME NEW q \in 0..(VGA_ROWS - 1), NEW d \in Columns
       PROVE  v[q * VGA_COLUMNS + d] = ls[0 + q + 1][d]
  <2>1. q + 1 \in 1..VGA_ROWS /\ 0 + q + 1 = q + 1 /\ (q + 1) - 1 = q  BY <1>5
  <2>. QED  BY <1>7, <2>1
<1>16. Agree(scr', page')  BY <1>5, <1>12, <1>13, <1>14, <1>15 DEF Agree
<1>. QED  BY <1>10, <1>11, <1>16 DEF Shown

LEMMA ScreenStarts == ScreenInit => ConsoleInv
<1> SUFFICES ASSUME ScreenInit PROVE ConsoleInv  OBVIOUS
<1>1. CASE ConsoleInit  BY <1>1 DEF ConsoleInit, ConsoleInv
<1>2. CASE ConsoleOff  BY <1>2 DEF ConsoleOff, ConsoleInv
<1>. QED  BY <1>1, <1>2 DEF ScreenInit

LEMMA ScreenSteps ==
  ASSUME WithinScreen, ConsoleInv, [ScreenNext]_screenVars
  PROVE  ConsoleInv'
<1> SUFFICES /\ phase' = "boot" => phase = "boot" /\ UNCHANGED <<out, scr>>
             /\ phase' \in {"ready", "halted"} => \E S : Shown(S, scr', page')
  BY DEF ConsoleInv
<1> DEFINE Done == /\ phase' = "boot" => phase = "boot" /\ UNCHANGED <<out, scr>>
                   /\ phase' \in {"ready", "halted"} => \E S : Shown(S, scr', page')
<1>1. ASSUME phase = "ready", phase' \in {"ready", "halted"}, UNCHANGED <<scr, page>>
      PROVE  Done
  BY <1>1 DEF ConsoleInv
<1>2. CASE kdisp_init
  <2>1. phase = "boot" /\ phase' = "ready"  BY <1>2 DEF kdisp_init
  <2>2. PICK n \in Screens, b \in BOOLEAN :
          scr = [vgab |-> LoaderScreen(n), row |-> 0, column |-> 0, attr |-> 0,
                 cursor |-> UNSET, wild |-> FALSE, blink |-> b]
    BY <2>1 DEF ConsoleInv
  <2>. QED  BY <1>2, <2>1, <2>2, FirstPage
<1>3. CASE s_prnstr
  <2> DEFINE c == Head(out)
  <2>1. /\ phase # "boot" /\ phase' = phase /\ scr' = kdisp_putc(scr, c)
        /\ page' = Typed(page, c, scr.attr)
    BY <1>3 DEF s_prnstr, ConsoleInv
  <2> HIDE DEF c
  <2>2. CASE phase \in {"ready", "halted"}
    <3>1. PICK S : Shown(S, scr, page)  BY <2>2 DEF ConsoleInv
    <3>2. \E T : Shown(T, kdisp_putc(scr, c), Typed(page, c, scr.attr))  BY <3>1, PutcShown
    <3>. QED  BY <2>1, <3>2
  <2>. QED  BY <2>1, <2>2
<1>4. ASSUME NEW parts \in Messages, kearly_printf(parts) PROVE Done
  BY <1>1, <1>4 DEF kearly_printf, Call, Returns
<1>5. ASSUME NEW parts \in Messages, kdebug_log_ndu(parts) PROVE Done
  BY <1>1, <1>5 DEF kdebug_log_ndu, Call, Returns
<1>6. ASSUME NEW parts \in Messages, cm_debug_log_ndu(parts) PROVE Done
  BY <1>1, <1>6 DEF cm_debug_log_ndu, Call, Returns
<1>7. ASSUME NEW message, NEW parts, NEW over, Panic(message, parts, over) PROVE Done
  BY <1>1, <1>7 DEF Panic, Call
<1>8. ASSUME NEW parts \in PanicMessages, kpanic_ndu(parts) \/ s_callPanic(parts) PROVE Done
  BY <1>7, <1>8 DEF kpanic_ndu, s_callPanic
<1>9. ASSUME NEW colour \in Colours, ksys_console_setcolor(colour[1], colour[2]) PROVE Done
  <2> DEFINE asked == colour[1] * 16 + colour[2]
             attr == IF asked > 255 \/ scr.blink THEN asked ELSE asked % 128
  <2>1. asked \in Nat /\ attr \in Nat  BY DEF WithinScreen
  <2>2. /\ phase = "ready" /\ phase' = "ready" /\ page' = page
        /\ scr' = [scr EXCEPT !.attr = attr]
    BY <1>9 DEF ksys_console_setcolor, kdisp_setattr, Call
  <2> HIDE DEF attr
  <2>3. PICK S : Shown(S, scr, page)  BY <2>2 DEF ConsoleInv
  <2>4. Shown(S, scr', page')  BY <2>1, <2>2, <2>3, ColourShown
  <2>. QED  BY <2>2, <2>4
<1>10. ASSUME NEW place \in Positions, ksys_console_setposition(place[1], place[2]) PROVE Done
  <2>1. PICK row \in 0..(VGA_ROWS - 1), column \in Columns : place = <<row, column>>
    BY DEF WithinScreen
  <2>2. /\ phase = "ready" /\ phase' = "ready"
        /\ scr' = kdisp_setcoords(scr, row, column)
        /\ page' = [page EXCEPT !.line = Len(page.lines) - VGA_ROWS + row + 1, !.column = column]
    BY <1>10, <2>1 DEF ksys_console_setposition, Call
  <2>3. ~(row > VGA_ROWS \/ column > VGA_COLUMNS)  BY GridAssumption DEF Columns
  <2>4. scr' = s_updateCursor([scr EXCEPT !.row = row, !.column = column])
    BY <2>2, <2>3 DEF kdisp_setcoords
  <2>5. page' = [page EXCEPT !.line = Above(page) + row + 1, !.column = column]
    BY <2>2 DEF Above
  <2>6. PICK S : Shown(S, scr, page)  BY <2>2 DEF ConsoleInv
  <2>7. Shown(S, scr', page')  BY <2>4, <2>5, <2>6, MoveShown
  <2>. QED  BY <2>2, <2>7
<1>11. CASE ConsoleNext
  BY <1>2, <1>3, <1>4, <1>5, <1>6, <1>7, <1>8, <1>9, <1>10, <1>11 DEF ConsoleNext
<1>12. CASE UNCHANGED consoleVars  BY <1>12 DEF consoleVars, ConsoleInv
<1>13. CASE \E parts \in PanicMessages : GraphicsPanic(parts)
  BY <1>13 DEF GraphicsPanic
<1>. QED  BY <1>11, <1>12, <1>13 DEF ScreenNext, screenVars

\* ConsoleShowsPage (of Screen): whatever is printed, in whatever pieces, with whatever
\* colours and moves between them, the screen holds the end of the page that s_prnstr
\* has typed so far, character by character: no line is lost or duplicated by a scroll,
\* nothing is written outside the buffer, and the cursor is at the next place.
THEOREM ScreenCorrect ==
  ASSUME WithinScreen
  PROVE  ScreenSpec => []ConsoleShowsPage
<1>1. ASSUME ConsoleInv PROVE ConsoleShowsPage
  BY <1>1, EndOfPage DEF ConsoleInv, ConsoleShowsPage
<1>. QED  BY <1>1, ScreenStarts, ScreenSteps, PTL DEF ScreenSpec

=============================================================================
