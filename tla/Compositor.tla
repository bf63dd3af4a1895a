----------------------------- MODULE Compositor -----------------------------
(***************************************************************************)
(* Windows and their handles: src/kernel/compositor.c, src/kernel/handle.c *)
(* and the window calls of src/kernel/x86/syscalls.c.                      *)
(*                                                                         *)
(* A window is a kernel object with a frame buffer in the address space of *)
(* the process that made it. Applications name it by a handle, an index    *)
(* into a table of pointers. A process stands for its threads too, which   *)
(* share its address space. `Careful' says what the applications do: a     *)
(* careful one uses a handle only in the process that made it and until it *)
(* destroys the window, destroys its windows before it exits, and leaves   *)
(* the screen to one process at a time, like the graphical application of  *)
(* the repository.                                                         *)
(***************************************************************************)
EXTENDS Naturals, FiniteSets, Sequences, IntrusiveList

CONSTANTS
  Procs,
  Blocks,       \* addresses at which kmalloc may place a Window
  NULL,
  CELLS,        \* WINMAN_GRID_CELL_COUNT
  HANDLES,      \* CONFIG_HANDLES_ARRAY_ITEM_COUNT
  Shortages,    \* what may run out: "space" for a frame buffer, the "heap"
  Careful

ASSUME NamesAssumption == IsFiniteSet(Procs) /\ IsFiniteSet(Blocks) /\ NULL \notin Procs \cup Blocks
ASSUME SizesAssumption == CELLS \in Nat /\ HANDLES \in Nat
ASSUME ChoiceAssumption == Shortages \subseteq {"space", "heap"} /\ Careful \in BOOLEAN

VARIABLES
  owner,        \* whose address space holds the frame buffer; NULL: no window
  cell,         \* the place of the window on the screen
  windowsList,
  window_count,
  handles,
  held,         \* history: the window an application knows by each handle
  alive,        \* processes that have not exited
  pc            \* "run", or what went wrong in a call

vars == <<owner, cell, windowsList, window_count, handles, held, alive, pc>>

Slots    == 0..(HANDLES - 1)
Windows  == {b \in Blocks : owner[b] # NULL}
Failures == {"null pointer", "unlinked twice", "stale window", "wrong address space",
             "foreign buffer"}

Init ==
  /\ owner = [b \in Blocks |-> NULL]
  /\ cell = [b \in Blocks |-> 0]
  /\ windowsList = <<>>
  /\ window_count = 0
  /\ handles = [h \in Slots |-> NULL]
  /\ held = [h \in Slots |-> NULL]
  /\ alive = Procs
  /\ pc = "run"

-----------------------------------------------------------------------------
(* Creating a window *)

FreeSlots == {h \in Slots : handles[h] = NULL}

\* A slot of the table that is taken is overwritten.
Mut_NewHandle == 0

\* khandle_createHandle takes the first free slot.
NewHandle == CHOOSE h \in FreeSlots : \A g \in FreeSlots : h <= g

MayCreate(p) ==
  /\ pc = "run" /\ p \in alive
  /\ Careful => \A b \in Windows : owner[b] = p

NextCount == window_count + 1

\* ksys_window_createWindow: a Window at address b, in the next cell. When the count has
\* reached CELLS the call is refused and changes nothing.
CreateWindow(p, b) ==
  /\ MayCreate(p)
  /\ window_count # CELLS
  /\ owner[b] = NULL
  /\ FreeSlots # {}
  /\ window_count' = NextCount
  /\ owner' = [owner EXCEPT ![b] = p]
  /\ cell' = [cell EXCEPT ![b] = window_count]
  /\ windowsList' = <<b>> \o windowsList
  /\ handles' = [handles EXCEPT ![NewHandle] = b]
  /\ held' = [held EXCEPT ![NewHandle] = b]
  /\ UNCHANGED <<alive, pc>>

\* No handle is left: the new window is destroyed again. Its cell is lost.
CreateNoHandle(p) ==
  /\ MayCreate(p)
  /\ window_count # CELLS
  /\ FreeSlots = {} /\ Windows # Blocks
  /\ window_count' = NextCount
  /\ UNCHANGED <<owner, cell, windowsList, handles, held, alive, pc>>

\* No address space for the frame buffer, or no memory for the Window, in which
\* case allocWindow passes the NULL pointer to destory_window.
CreateFails(p, what) ==
  /\ MayCreate(p)
  /\ window_count # CELLS
  /\ window_count' = NextCount
  /\ pc' = IF what = "heap" THEN "null pointer" ELSE "run"
  /\ UNCHANGED <<owner, cell, windowsList, handles, held, alive>>

-----------------------------------------------------------------------------
(* Calls with a handle *)

\* khandle_getObject refuses an empty slot.
MayUse(p, h) ==
  /\ pc = "run" /\ p \in alive
  /\ handles[h] # NULL
  /\ Careful => held[h] # NULL /\ owner[held[h]] = p

\* The window stays in the list.
Mut_Unlinked(b) == windowsList

\* list_remove of a window that was destroyed follows NULL links.
Unlinked(b) == list_remove(windowsList, b)

\* What destroying the object that the handle names comes to. The frame buffer is
\* freed in the address space of the caller.
DestroyOutcome(p, b) ==
  IF owner[b] = NULL THEN "unlinked twice"
  ELSE IF owner[b] # p THEN "wrong address space"
  ELSE "run"

\* ksys_window_destoryWindow. The handle is not freed.
DestroyWindow(p, h) ==
  LET b == handles[h]
  IN  /\ MayUse(p, h)
      /\ pc' = DestroyOutcome(p, b)
      /\ windowsList' = Unlinked(b)
      /\ owner' = [owner EXCEPT ![b] = NULL]
      /\ held' = [held EXCEPT ![h] = NULL]
      /\ UNCHANGED <<cell, window_count, handles, alive>>

\* ksys_getWindowFB copies the Window's fields.
GetWindowFB(p, h) ==
  /\ MayUse(p, h)
  /\ pc' = IF owner[handles[h]] = NULL THEN "stale window" ELSE "run"
  /\ UNCHANGED <<owner, cell, windowsList, window_count, handles, held, alive>>

\* The call of kcompose_flush reads the frame buffers of all windows of the list, at their
\* addresses in the address space of the caller.
ksys_window_graphics_flush_all(p) ==
  /\ pc = "run" /\ p \in alive
  /\ Careful => \A b \in Windows : owner[b] = p
  /\ pc' = IF \A i \in 1..Len(windowsList) : owner[windowsList[i]] = p THEN "run"
           ELSE "foreign buffer"
  /\ UNCHANGED <<owner, cell, windowsList, window_count, handles, held, alive>>

\* The exit of a process does not touch its windows.
Exit(p) ==
  /\ pc = "run" /\ p \in alive
  /\ Careful => \A b \in Windows : owner[b] # p
  /\ alive' = alive \ {p}
  /\ UNCHANGED <<owner, cell, windowsList, window_count, handles, held, pc>>

Halted == (pc # "run" \/ alive = {}) /\ UNCHANGED vars

Next ==
  \/ \E p \in Procs :
       \/ CreateNoHandle(p)
       \/ \E b \in Blocks : CreateWindow(p, b)
       \/ \E what \in Shortages : CreateFails(p, what)
       \/ \E h \in Slots : DestroyWindow(p, h) \/ GetWindowFB(p, h)
       \/ ksys_window_graphics_flush_all(p) \/ Exit(p)
  \/ Halted

Spec == Init /\ [][Next]_vars

-----------------------------------------------------------------------------
(* Properties *)

\* Every variable has its type.
TypeOK ==
  /\ owner \in [Blocks -> Procs \cup {NULL}]
  /\ cell \in [Blocks -> 0..CELLS]
  /\ Items(windowsList) \subseteq Blocks
  /\ window_count \in 0..CELLS
  /\ handles \in [Slots -> Blocks \cup {NULL}] /\ held \in [Slots -> Blocks \cup {NULL}]
  /\ alive \subseteq Procs
  /\ pc \in {"run"} \cup Failures

\* Careful applications never make the kernel follow a pointer to a window that is
\* gone, or use an address of one process in the address space of another.
CallsSafe == pc = "run"

\* The compositor paints every window that exists, once, and nothing else.
WindowsListed == NoRepeats(windowsList) /\ Items(windowsList) = Windows

\* No two windows share a cell of the screen, however many were destroyed.
CellsApart == \A a, b \in Windows : cell[a] = cell[b] => a = b

\* What is painted: every window that exists, in a cell of its own.
WindowsApart == TypeOK /\ WindowsListed /\ CellsApart

\* The handle an application holds names the window it was made for, which exists,
\* and two handles name two windows: also when the block of a window that was
\* destroyed holds a new one, and the old handle still points to it.
HandlesResolve ==
  /\ \A h \in Slots : held[h] # NULL => handles[h] = held[h] /\ held[h] \in Windows
  /\ \A g, h \in Slots : held[h] # NULL /\ held[g] = held[h] => g = h
  /\ \A b \in Windows : \E h \in Slots : held[h] = b

\* A handle is all an application needs to keep: it goes on naming its window, and no
\* call that uses it ends in memory that is gone.
HandlesOK == CallsSafe /\ HandlesResolve
=============================================================================
