# A TLA+ model of the MeghaOS x86 kernel

MeghaOS is a small 32-bit kernel: one processor, cooperative scheduling, paging
with one page directory per process, a heap, windows, and a system call
interface. This directory models the parts of it whose correctness depends on
the order in which things happen.

## 1. Inventory

System calls, exceptions and interrupts enter the kernel through interrupt
gates, which disable interrupts, so two kernel routines never interleave. What
does interleave are processes, at every `yield`; the interrupts of timer and
mouse, in user mode; the devices with the routines that poll them; and page
faults, which may strike inside kernel code, also in the middle of a copy by
`k_memcpyToPhyMem` that holds a temporary mapping (see section 3).

| component | state | operations | what makes it correct |
|---|---|---|---|
| process management, `src/kernel/x86/process.c` | the `KProcessInfo` objects, `currentProcess`, `rootProcess`, `processCount`, the scheduler queue, one events queue per process, CR3 | create, exit, abort, yield, push and pop event, `kprocess_syncPD` | nobody outlives its address space; lists and pointers agree; nobody is forgotten or starved; events reach the right process |
| lists and queues, `include/intrusive_list.h` | links inside the items | add, remove, enqueue, dequeue | an item is in a list at most once |
| kernel heap, `src/kernel/kmalloc.c` | headers in a buffer, three lists | `kmalloc`, `kfree` | blocks are disjoint and inside the buffer; nothing is lost |
| virtual memory manager, `src/kernel/vmm.c` | a list of address ranges per page directory, a dirty flag | new, delete, memmap, free, commit | ranges are disjoint; a page is committed once and freed once |
| physical memory manager, `src/kernel/pmm.c`, `bitmap.c`, `x86/pmm.c` | one bit per page frame | init from the memory map, alloc, allocAt, free | a frame has one owner; reserved memory is never handed out |
| paging, `src/kernel/x86/paging.c`, `interrupts.c` | page directories and tables | map, unmap, set up and delete directories, page fault handler | every directory sees the same kernel; a legal access never ends in a panic |
| compositor and handles, `compositor.c`, `handle.c` | windows, a table of handles | create, destroy, flush, resolve a handle | a handle names a live window of its process |
| screen output, `printk.c`, `x86/vgatext.c`, `kgraphics.c`, `kpanic.c`, `kdebug.c`, `src/cm/printf.c`, `graphics.c`, `debug.c` | the text display with its position and colours, or the back buffer and the windows' pixels | format, print, scroll, draw, decorate, paint, flush | output that does not fit is cut; no drawing leaves its buffer; what is seen is what was asked for. Both have exceptions, see section 3 |
| PS/2 controller and mouse, `drivers/x86/pc/8042_ps2.c`, `ps2mouse.c` | the controller's configuration, the packet being received, the position | commands with retries and timeouts, set-up, the mouse's interrupt | set-up ends; what it calls ready is ready; packets stay in step |
| interrupt controller and timer, `8259_pic.c`, `8254_pit.c`, `x86/idt.c`, `kernel.c` | masks, in-service bits, gates, the tick count | initialise, mask, end of interrupt, tick, delay | what is begun is ended once; no interrupt without a gate; ticks, yield requests and delays go on |
| system calls, `syscalls.c` | none of its own | one handler per call | calls the right component for the current process; each is in the module of that component |
| application heap, `src/cm/malloc.c` | as the kernel heap | `cm_malloc`, `cm_calloc`, `cm_free` | as the kernel heap; a wrong `free` stops the application |
| boot loader, descriptor tables, static allocator, keyboard stub, demonstration programs | | | not modelled, see section 7 |

Processes meet through `process.c`: system calls change the table, the timer and
the death of children fill events queues, `yield` changes CR3. The page fault
handler calls the virtual memory manager for the current process or the kernel,
and `kprocess_syncPD` copies the kernel's directory entries to all queued
processes. The virtual memory manager takes frames from the physical one and
headers from the heap, and writes page tables through two temporary mappings.
The timer's interrupt counts ticks, asks processes to yield and flushes the back
buffer, onto which the compositor has painted the windows.

`PROJECT.json` lists the hazards, each at its line.

What is hard about this kernel:

- a system call may end in another process, because `yield` switches in the
  middle of it; the process that called may be killed before it runs again;
- the death of a process takes others with it (its threads) or moves them (its
  children), in a loop over a list that shrinks meanwhile;
- creation fails at any of several steps and must be undone;
- pages of the kernel are mapped at the first access, which may happen anywhere
  in the kernel, with any page directory loaded, also with a directory that was
  filled before the page table appeared;
- identifiers (process IDs, handles, cells of the screen) are counters or
  indices, and outlive what they name;
- devices answer late, twice or not at all, and their bytes all come through one
  port, movements of the mouse and answers to commands alike;
- an interrupt request may be withdrawn while the processor takes it;
- the processor remembers translations of pages that have been changed since;
- counters wrap (ticks), and positions on the screen are unsigned.

## 2. Modules

| module | models | composes | checked by | proved in |
|---|---|---|---|---|
| `IntrusiveList` | `intrusive_list.h`: lists and queues as sequences | | all that use it | `ListProofs` |
| `Process` | `x86/process.c`, process calls of `x86/syscalls.c` | `IntrusiveList` | `MCProcess` | `ProcessProofs` |
| `Heap` | what a heap promises: disjoint blocks that stay where they are | | | |
| `KMalloc` | `kmalloc.c`; implements `Heap` | `IntrusiveList`, `Heap` | `MCKMalloc` | `KMallocProofs` |
| `PageFault` | `x86/interrupts.c` page fault handler, `kprocess_syncPD`, kernel half of `x86/paging.c` | | `MCPageFault` | `InterruptsProofs` |
| `Vmm` | `vmm.c`, user half of `x86/paging.c`, the sections that `process.c` and `compositor.c` reserve | `IntrusiveList` | `MCVmm` | `VmmProofs` |
| `Compositor` | `compositor.c`, `handle.c`, window calls of `x86/syscalls.c` | `IntrusiveList` | `MCCompositor` | `CompositorProofs` |
| `Pmm` | `pmm.c`, `x86/pmm.c`, `bitmap.c` | | `MCPmm` | `PmmProofs` |
| `CMalloc` | `src/cm/malloc.c`, and a program that is the kernel or an application | `KMalloc` | `MCKMalloc` | `KMallocProofs` |
| `PageMap` | what paging promises: calls change the mappings they name and no others | | | |
| `Paging` | `x86/paging.c` entry by entry; implements `PageMap` | `PageMap` | `MCPaging` | `PagingProofs` |
| `Ps2` | `8042_ps2.c`, `ps2mouse.c` | | `MCPs2` | `InterruptsProofs` |
| `Interrupts` | `8259_pic.c`, `x86/interrupts.c`, `idt.c`, the ticks of `kernel.c`, `cm_delay` | | `MCInterrupts` | `InterruptsProofs` |
| `Printf` | `printk.c`, `src/cm/printf.c` | | `MCScreen` | |
| `Console` | `x86/vgatext.c`, `kpanic.c`, `kdebug.c`, `src/cm/debug.c`, console calls | `Printf` | `MCScreen` | `CompositorProofs` |
| `Graphics` | `kgraphics.c`, areas and decorations of `compositor.c`, `src/cm/graphics.c` | | `MCScreen` | |
| `Screen` | the screen of a text build or of a graphics build | `Console`, `Graphics` | `MCScreen` | `CompositorProofs` |

Each action keeps the name of the routine it stands for. A routine whose
outcomes differ is several actions, named for the outcome (`CreateQueueFull`,
`KillThread`). Kernel code without a loop is one action, because nothing preempts
it; a loop takes one action per round. `pc` (`step` in `Ps2`) says which routine runs, and takes
the name of the panic when the kernel stops. Definitions named `Mut_...` are
faulty variants of the definition that follows them; no action uses them, they
show that a property notices such a fault. `PROJECT.json` maps each definition
to its lines.

**Process.** A `KProcessInfo` is an address of `Procs`; its fields are functions
of the address, and process ID 0 marks a free address. `spaces` are the address
spaces that exist, named by the process for which they were made. The model keeps
two peculiarities of the code: process IDs are a count that goes down again, and
`kprocess_create` reads a `parent` field that it has not written when it fails
early. What such a field holds is a choice: null, an old process, or garbage.
`clobbered` is the choice of what a freed block holds that is read once more.

**KMalloc.** An address is an offset in the buffer; the three lists are
sequences of addresses; the fields of a header are functions of the address.
The refinement of `Heap` maps the allocated headers to blocks.

**PageFault.** `entries` says which page tables of the kernel's half a directory
has; `mapped` are the pages that are present in their (shared) table. An access
(`Access`, `AccessDone`) repeats until the page is found, with the handler in
between. The life of a process is reduced to when its directory is made, queued,
deleted and unqueued.

**Vmm.** The address space of one process, in pages. The list of reserved ranges,
the frame behind each page, the page tables; sections of the process, stacks of
threads with their guard pages, buffers of windows. The creation of a thread fails
after any of its three reservations, and is then not undone (`ThreadFails`), or undone by
freeing the stack: one that is reserved, with the frames a kernel thread was
given (`ThreadFailsReserved`), or one that was never placed, so that the address
is whatever the thread's block held before (`ThreadFailsStale`). `misfrees` counts how
often the last took a range of somebody else.

**Compositor.** Windows at addresses that the heap reuses, the table of handles,
the count of windows that chooses the cell. `held` remembers which window an
application means by a handle. With `Careful` applications behave like the
graphical application of the repository; without it they use handles late.

**Pmm.** The bitmap is a function from page frames to states. Bytes matter only
while the memory map is read, so that the rounding to pages is the code's.

**CMalloc.** The heap of an application is the kernel's algorithm with other
checks around it: it refuses 0 bytes, and a block that is not found stops the
program where the kernel returns an error. `program` chooses one of the two in
the initial state, so that one run covers both.

**Paging.** The content of every page frame is state. A frame that becomes a page
table holds what was in it before (`Garbage`), each entry is written where the
code writes it, and the processor's translations (`tlb`) are filled by any access
and emptied only by the code's invalidations. `maps`, which `PageMap` speaks of,
is what walking the tables gives. `k_memcpyToPhyMem` reads from the memory of the kernel
or from a page of the caller while a temporary mapping is held; if that page is not
there, the fault comes in the middle (`CopyFaults`) and the kernel halts. A table has `SIZE` entries, of which those from
`KERNEL_PDE_INDEX` on are the kernel's in a directory. `PageFault` looks at the other half, that of the
kernel, where one page table belongs to all directories.

**Ps2.** `hw` is the controller with its devices: the bytes under way, the
configuration, what the mouse was told. It is modelled from how the driver uses
it. A routine of the driver is one action for each exchange; its waits may end in a
timeout (`MaxFaults`), with the answer still to come, and between the exchanges the
mouse may move. `stray` records that bytes nobody waited for were there when
the set-up ended, `lookalike` that a byte with the value of the sample rate came for
another reason than to report it: it ended a movement, or was the configuration.

**Interrupts.** The requests, masks and interrupts in service of both controllers
are sets of lines; which one is delivered, and when line 7 or 15 is delivered in
place of one that has disappeared, is the behaviour of the 8259. Handlers go step
by step, since devices raise requests meanwhile. Unsigned integers count modulo
`WORD`.

**Printf, Console, Graphics, Screen.** A format is a sequence of characters and a
conversion does what it says: digits in its base, in one word or two. A
display is its cells with the position and colours. Beside it, `Console` types
the same text on a page without end, which is the reference that the display is
compared with. A routine that prints leaves its text in `out`, and `s_prnstr` puts it on
both, one character per step, until nothing is left and the next call begins. A message that
is written behind its buffer is marked (`over`), and its routine then returns or does not. `Graphics` counts in pixels; no drawing routine clips, so that one
that leaves its buffer sets `wild`. What such a drawing destroys, and what follows, is
not modelled: drawings end there. `Compositor` has the processes, handles and
lists of windows, `Graphics` what they look like.

## 3. Runs

| run | bounds | shows |
|---|---|---|
| `process_table` | 5 addresses, limit 4, 2 events, every allocation of `kprocess_create` may fail, creation at any time | `KernelStateOK`, `HierarchyOK`, `AddressSpacesOK`: the queue, the hierarchy and the address spaces agree, also after a creation that was undone; `Scheduled`: only the current process is running, and nobody is forgotten unless a failed creation lost a process |
| `process_liveness` | 4 addresses, 1 event, no failing creation, none once a process has died | every system call ends; no process starves; with IDs that are still unique events reach the process they are meant for (`EventsArePrivate`), and every death is announced |
| `process_pid_reuse` | 4 addresses, 2 events, creation at any time | a disagreement, see below |
| `kmalloc` | 16 bytes, header of 2, requests of 0, 1 and 3 bytes, both programs | sections tile the buffer, lists agree, free sections are merged (`SectionsOK`), nothing is lost; both allocators implement `Heap` |
| `page_fault` | 3 processes, 3 page tables, 4 pages, 7 frames | directories that lag behind are known to, frames add up (`KernelHalfOK`); legal accesses are served, and complete in the end |
| `paging` | 7 frames, 3 pages over 2 tables, runs of 2 pages | temporary mappings are free when they are asked for, unless a page fault strikes a copy (`SlotsUsedInTurn`); the processor never uses an old translation, frames add up, and `Paging` implements `PageMap` |
| `vmm` | 11 pages, 5 frames, 2 threads, 1 window at a time, heap may fail, 1 free of a stale address | ranges stay disjoint and frames have one owner whatever happens; until a range is freed at a stale address nothing is backed that is not reserved and no frame is lost (`BackingOK`), sections can be used, stacks are guarded; the deletion of an address space ends |
| `pmm` | 38 memory maps, 9 frames, runs of up to 3 pages | only memory that the map calls free is handed out, to one owner, and is counted (`MemoryKnown`); no assertion fails |
| `compositor` | 2 processes, 4 blocks, 7 cells, 6 handles | windows are listed and have cells of their own (`WindowsApart`); careful applications never hit a stale window, and their handles resolve (`HandlesOK`) |
| `ps2` | 2 movements out of 3, 3 faults, either port missing | set-up ends; a mouse that was set up reports as it was asked to, and its position is the sum of its movements |
| `interrupts` | words of 8, ticks of 2 us, a period of 6 us, delays of 0, 2, 3 and 5 ms of 2 us, 2 requests that disappear | handlers end what was begun for them and nothing else; no interrupt meets an empty gate; yields are requested in every period, delays are kept, ticks go on, also where the count wraps |
| `screen` | 3 rows of 4 characters, a buffer of 10, 11 messages, 3 panics, 3 calls; 13 x 17 pixels in rows of 14, 2 titles, 1 drawing of an application | formatting is cut where documented, and only `%%` and lines put together from pieces overrun, when they do not fit (`Formatted`); the display shows the end of what was typed; no drawing but a title with too many lines leaves its buffer, and none hurts a frame (`FramesIntact`); a flush shows what was painted last and the cursor |

The composed names above are conjunctions of named parts: `KernelStateOK`,
`Scheduled`, `SectionsOK`, `WindowsApart`, `HandlesOK`, `MemoryKnown`, `BackingOK`
and `KernelHalfOK`.

Why the bounds are enough. Four addresses hold the root, a process, its thread
and one more, which is what a kill with adoption needs; the fifth lets a failed
creation meet a table that is full. The heap of 16 bytes holds up to
seven blocks with headers (four that are not empty), so that a block is freed between
free and allocated neighbours in every combination. Of the four lazy pages two share
a page table and two do not, one table exists at boot, and seven frames are fewer
than all pages, tables and directories need together, so that memory runs out.
`Paging` has pages of one table and of two, so that a run crosses from one table to the
next, and frames for two directories, of which one is deleted while the other is in
use. The pages of `Vmm` have room for the sections, three stacks with guards and a
window, but not always in the holes that earlier ones left; frames run out too. A free of
a stale address may hit any page: of the binary, of a stack, of a guard or of none. One is
enough, because the claims that depend on it end there.
`CELLS` is larger than `HANDLES` in `compositor` so that the table of handles fills
before the cells do, and blocks are reused. `Pmm` has maps that end inside, at and
beyond what the bitmap describes. The movements of `ps2` are one
whose packet looks like the answer to a status request, one whose last byte looks
like an acknowledgement, and one too large for a packet; two of them leave six bytes
under way. After a command that was lost the mouse refuses its
argument however often it is resent, so that the driver gives up within three faults. The tick count of `interrupts` wraps after eight ticks, within
and between periods and delays. The text of `screen` reaches the last column and the last
row with three calls, and with four columns tabs and long words cross two borders at once;
messages end before, at and behind the end of the buffer, with a conversion, a literal or
`%%` there. The cursor is put into both corners; one title ends with the last pixel of its
buffer, the other one leaves it. Symmetry over
process addresses and blocks is used in safety runs only; no `CHOOSE` depends on
their order.

Deadlock is checked except in `kmalloc`, where an application that has panicked is over,
and in `screen`, where a kernel that has panicked, or has made its three calls, is.

`process_pid_reuse` finds a disagreement between the code and a document of the
repository: a new process gets the ID of a living one, and its events. The
finding in `PROJECT.json` quotes the line it contradicts.

Behaviour of the code that the models contain and that bounds the properties above:

- Process IDs are unique only until the first death. `EventsArePrivate`,
  `NoStarvation` and `DeathIsAnnounced` are therefore stated for a start without creations
  after a death.
- A thread that aborts takes the whole process with it, itself included, and
  `process.c:480` then compares a field of the freed `currentProcess`. What it reads
  is a choice; with an unlucky one the directory that is loaded is not left and
  `kpg_deletePageDirectory` panics.
- A creation that fails while the `parent` field is null is not undone, and
  `processCount` stays too large. Then `yield` of the only process loops
  (`KernelReturns` assumes no failing creation), and at the limit `yield` loses the
  process it puts back (`NoneForgotten` excepts these states by `leaked = {}`).
- A destroyed window's handle stays in the table (`syscalls.c:386`). Applications
  that use it later reach a freed window, or another one at its place: `HandlesOK` is
  checked with `Careful = TRUE`, and fails without.
- The cell of a destroyed window is never used again. When there is no memory for
  the window itself, `allocWindow` passes a null pointer on (`compositor.c:122`).
- The guard pages of an exited thread stay reserved.
- A section of the memory map that is shorter than a page frees its whole page,
  where `docs/notes/physical_memory_manager.md` says that it is skipped;
  `OnlyFreeMemory` is checked for maps without such sections. The check of the frame
  number is off by one (`pmm.c:52`), which shows when the installed memory ends within a
  page: with `Maps <- UnevenMaps` `NoPanic` fails.
- The flags of a page directory entry are those of the first page that was mapped
  through it. `find_next_va` does not keep pages of the process apart from the stacks of
  kernel threads, which are mapped without the right of users: a page that shares its page
  table with an earlier one of those would not be accessible to the process.
  `SectionsUsable` is about reservation and backing, not about that right.
- A thread whose creation fails before its stack is placed has no stack yet: the
  address is written at `process.c:347` and not cleared before. If the creation is undone,
  `kvmm_free` at `process.c:507` gets what the block of the heap held there, perhaps the
  stack of an earlier thread. It frees the range that contains it, be it a section, a
  window or a guard, and the process goes on. It also unmaps from that page on as
  many pages as the range has, so that a free in the middle of a range reaches into the next
  one. `BackingOK` says what holds nevertheless; `SectionsUsable` and
  `StacksGuarded` are stated for `misfrees = 0`. Pages behind the range of the
  process that such a free would reach are left out.
- The length of a binary is an argument of a system call. One that is longer than the
  address space is refused (`vmm.c:69`, `SectionFails`); lengths whose sum with the
  address exceeds 32 bits are left out.
- `k_memcpyToPhyMem` (`kstdlib.c:128` and `:138`) maps the destination in the temporary slot of
  the callers and then reads the source, which a process passes as the address of its
  binary. If that page was reserved but not yet committed, the page fault
  handler asks for the same slot in `commitVirtualPages` and panics.
  `SlotsUsedInTurn` excepts exactly this, `CopyInterrupted`.
- Bytes of a movement can be taken for the answer to a command, for instance for the
  configuration byte; a configuration byte whose read failed is written back
  uninitialized (`8042_ps2.c:167`). Bytes that are under way when the set-up ends put the
  handler out of step with the packets for good. `MouseReady` and `PositionTracks`
  except these states by `~stray`. The last check of `ps2_mouse_init` asks for three
  bytes of state and compares the third with the sample rate; a movement by (-1, -216) is
  a packet that answers it (`ps2mouse.c:103`), also when the mouse was never set up.
  `MouseReady` excepts bytes of that value by `~lookalike`.
- Delays end early when their number of microseconds or their deadline exceeds an
  unsigned integer (`kernel.c:216`, `cm.c:25`); `DelayKept` says so. `irq_15` looks for
  bit 15 in the eight bits of the slave.
- The character of `%%` is written without a look at the room that is left
  (`printk.c:251`), although the comment at `printk.c:125` promises a limit. The pieces of a panic
  or a log line are put one behind the other with the size of the whole buffer as limit of
  each (`kdebug.c:68`, `cm/debug.c:78`, `kpanic.c:48`), and callers do not leave room: the
  100 bytes of `cm/debug.c:18` are too few for the lines that `cm/graphics.c:67` and `:101`
  log. What is left of the buffer for the frame of an exception is an unsigned
  difference that wraps. `Formatted` says when an overrun may happen and that
  everything else is cut or whole. The text of a panic is used as a format (`kpanic.c:69`);
  `PanicMessages` have no conversion in their output.
- Titles of windows are text of the application and neither cut nor checked
  (`syscalls.c:360`, `kgraphics.c:103`). A long line runs on into the next row of pixels and
  stays inside; line feeds, about 45 of them, move the text below the buffer.
  `FramesIntact` says that nothing else leaves it.
- A screen that the boot loader has filled to its last character leaves the position
  behind the last row (`vgatext.c:119`); `Screens` has none. `SETCOORDS` and `SETATTR`
  store before they check and let the row behind the last one pass; `Positions` has none.
  `WithinScreen` states both, and that colours are numbers.
  `kdisp_init` moves the cursor before it knows the port to do so.

Narrower than the code, besides:

- `KMalloc` and `CMalloc` add the header to a request without overflow; in the code
  the sum of 32 bits wraps for requests within a header of 4 GB (`kmalloc.c:35`,
  `cm/malloc.c:28`).
- Handles are indices of the table. `handle.c:25` compares signed numbers, so that it
  lets a negative one pass.
- Of the uninitialized configuration byte of `Ps2` the five bits that have a meaning are a
  choice; the others are 0.
- An uninitialized `parent` that points to a block which is free ends in a panic in
  `Process` (`CreateParentWild`); what the code does with it depends on what the block holds.

## 4. Fairness

- `Process!KernelSpec`: weak fairness of the rounds of the kill and yield loops. Kernel
  code runs with interrupts disabled, so it goes on once begun.
- `Process!CooperativeSpec`: besides, strong fairness of `ksys_yieldProcess`.
  Scheduling is cooperative: the timer only puts a request to yield in the
  events queue, and applications answer it in `cm_process_handle_events`. An
  application that never does starves the others; the run is about those that do.
- `PageFaultFairSpec`: weak fairness of the access and the handler. The
  processor retries the instruction, and the handler is not preempted.
- `Vmm!FairSpec`: weak fairness of the steps of the deletion, kernel code too.
- `Ps2Spec`: weak fairness of the driver: the kernel sets the devices up before there are
  processes, and its loops of polls are bounded. Interrupts are on by then
  (`kernel.c:154`), but their handlers return. Nothing is assumed of the devices.
- `Interrupts!Spec`: weak fairness of what runs and of the timer's requests, strong
  fairness of the acceptance of a request: interrupts are on in user mode, and the
  processor looks for one at every instruction. The time that interrupts are disabled,
  in system calls and handlers, ends again and again.

No fairness is assumed of creation, exit, of memory becoming free, or of the mouse.

## 5. Proofs

TLAPS proves the following for every number of processes, size of buffer, set of
requests, page tables, pages, memory map and width of a word, from the assumptions that
the modules name. Most of them say that constants have their type, that sets are
finite and that the special values (`NULL`, `KERNEL`, `NONE`) are no members of them.
Two say more: the period of a process is a multiple of a tick (`Interrupts`), and
the address space of a process has room for the binary and for a stack with its guards
(`Vmm`), both as
the constants of the code have it. Where a property holds only for some starts, the
theorem has the hypothesis in its statement, and the run uses the same:
`Careful` applications and a heap with memory for windows (`HandlesCorrect`), `WithinScreen`
(section 3; `ScreenCorrect`), `RegularMaps`
(the installed memory is whole pages; free sections begin at pages, are at least a page
long, do not overlap and contain what is taken at boot; TLC evaluates this for the maps of
the run), and `~SpawnAfterExit` (`EventsCorrect`, `DeathsCorrect`).

- `ListProofs`: what adding to and removing from a list does to its items, and
  that lists without repetition stay so. `LeastNumber` replaces induction: of the
  numbers for which something holds there is a least one. Quotient and remainder
  of numbers, which `Pmm` and `Interrupts` need.
- `ProcessProofs`: `KernelStateOK` (`TypeOK`, `TableOK` and `ControlOK`),
  `HierarchyOK` and `AddressSpacesOK` are invariants; their conjunction `IInv` is
  inductive. None of them is inductive alone. For instance, that no process outlives
  its address space holds because a process is deleted only after the loop has
  emptied its children, which is a fact of the hierarchy; and the loop is right because
  the victim is alive and not the root, which only `ControlOK` says. A creation that is
  being undone is the one exception to the hierarchy and is named in it.
- `ProcessProofs`, about the scheduler: `Scheduled`, for all failures of creations and
  all process IDs that repeat. `RunInv` says who is RUNNING during a kill: the
  current process is the one that dies, or the one whose thread dies. `QueueInv` says that a
  creation being undone is the only living process that neither runs nor waits.
  `EventsArePrivate` and the action property `DeathIsAnnounced` need that IDs are
  unique: as long as nobody has died they are at most `processCount` (`PidInv`), and after
  that nobody is created. `EventInv` adds that an address leaves no events behind when
  it becomes free, so that a new process does not find those of the last.
- `KMallocProofs`: `SectionsOK` (`TypeOK`, `Tiling`, `ListsAgree`, `Coalesced`,
  `LargeEnough`), `NothingLost`, and that every step of `KMalloc` is a step of `Heap` or
  a stutter. The invariant carries the order of all pairs of sections along, as that
  cannot be derived from the order of neighbours without induction. `NothingLost`
  follows from it: when no section is allocated, merging leaves one. `SameAlgorithm`
  shows that every step of `CMalloc` that changes the heap is a step of `KMalloc`, so
  that `ApplicationHeap` has the same for the heap of applications, up to its panic.
- `PagingProofs`: `SlotsUsedInTurn`, `TlbFresh`, `FramesAccounted` and the
  refinement of `PageMap`, from one invariant `PagingInv`: the kernel is ready for the next
  call, or has halted for the lack of a frame for a page table, or by a page fault in
  the middle of a copy. Each routine first gets its
  closed form: with the temporary mappings free and their translations forgotten, what the
  stores through them amount to is one change of the directory or table that was meant.
  `Layout` is what such a change preserves: each frame is free or has one
  use, and each directory refers to itself and to the kernel's table. It
  has a set of frames that are allocated and not yet in use, because a commit takes
  its frames before it maps them. The loops over pages are followed with the least number of
  a round that breaks the invariant. Without the uses of frames nothing else is inductive: that
  a store changes one page of one process, and not the table of another, is what `TlbFresh` and
  the refinement depend on.
- `VmmProofs`: `Sorted`, `BackingOK`, `SectionsUsable` and `StacksGuarded`, from one
  invariant `FullInv`. `LooseInv` is its part that no free of a stale address can break:
  the list is tidy, and each frame has one owner, though perhaps one that nobody reaches.
  Until the first such free there is `VmmInv`: what is true of memory at any time (the list is tidy, each
  frame has one owner, each committed page is within a range of the list), what
  holds between the steps of a creation or deletion (`CtlInv`), and what a running
  process can rely on (`UseInv`: its sections, and a guard on each side of each stack).
  All four rest on `GapFound` and `InsertTidy`: the place that `find_next_va` returns is a hole
  of the list that is large enough, and a range put there keeps the list tidy.
- `CompositorProofs`: `WindowsApart`, whatever applications do, because the counter
  that chooses cells only grows and every window has a cell below it. `HandlesOK` for
  careful applications is inductive together with it: a new handle takes an empty slot, so
  that it cannot change what another handle means.
- `CompositorProofs`, about `Console` and `Screen`: `ConsoleShowsPage`, for every size of the
  screen, tab stop and message. `ConsoleInv` says that there is a set of cells of which display
  and page are made, and that they agree place by place: a row of the display is
  the line of the page so far above its end. One character changes one place on both
  (`InkShown`; `PlacesApart` says that different rows and columns are different places of the buffer), and then
  moves the position within the screen (`MoveShown`) or to the row behind it, where the
  page gets a line and the display scrolls (`ScrollShown`). `BehindLoader` is the place where
  the kernel goes on after the boot loader. That one character at a time is enough, without
  induction over the text, is why `s_prnstr` is an action.
- `PmmProofs`: for every memory map whatsoever, frames that are in use are exactly the
  owned ones (`OwnersCorrect`). For regular maps, `OnlyFreeMemory`, `MemoryKnown` and
  `NoPanic`. The invariant follows the initialisation section by section: what is free
  lies in free sections that were already read, and what they contain is free until the
  kernel and the modules are marked. That the installed memory is a number, whatever the
  map, is shown by induction over its items.
- `InterruptsProofs`, about `Interrupts`: `NothingInService` and `GatesReady`, from what
  each step of the boot has unmasked and which interrupt each handler has begun. `YieldRequested`: the ticks since
  the last request are at most `tick_count` modulo the period, and a wrap of the count ends
  a period early. `DelayKept`: while a delay runs, the ticks it has seen are those between
  its start and the present count, or so many that the count has wrapped.
- `InterruptsProofs`, about `PageFault`: `KernelHalfOK` (`TypeOK`, `StaleIsKnown`,
  `FramesAccounted` and `Control`) and `LegalAccessServed`. `StaleIsKnown` needs `Control`.
  When the handler copies the entries to all queued directories and clears the dirty flag, a
  directory that is being made is not among them. It may lag behind without a flag, but only
  until the same fault commits its page and sets the flag. Then all queued
  directories are in sync, which is the last conjunct of `Control`. `FramesAccounted`
  needs besides that the kernel's directory keeps the page tables of the boot.
- `InterruptsProofs`, about `Ps2`, for any movements and any number of them and of faults.
  `MouseReady`: until the state of the mouse is asked for, the last byte under way does not
  have the value of the sample rate, unless `lookalike`. So when nothing follows the
  third byte that the driver reads, and it has that value, the mouse has sent it, and the
  two before it, as its state. `SetupInv` follows the three bytes one by one. When
  the driver reads out of step, bytes are left behind, which is `stray`.
  `PositionTracks`: the packet begun, followed by the bytes under way, is the packets of a sequence of movements that lead from the position to where the mouse
  is (`TrackInv`). `BitsOfByte` shows that the bits of a packet's first byte are
  found again, so that the handler extends the signs as the mouse has written them.

Only model-checked:

- liveness (`KernelReturns`, `NoStarvation`, `AccessCompletes`, `DeletionEnds`,
  `SetupEnds`, `TicksGoOn`), which is beyond this prover;
- `Printf` and `Graphics`: `Formatted`, `FramesIntact` and `ScreenComposed` are about what
  folds over text and over pixels compute, which takes induction over the text or the
  rectangle that is drawn. `FramesIntact` depends besides on constants that stand for
  what callers pass (titles, rectangles), and that the code does not check.

## 6. Plan

Done, in this order: process management, the heap, page faults, the virtual
memory manager, the compositor, the physical memory manager, the PS/2 driver,
interrupts and ticks, paging with its temporary mappings and the TLB, the screen, the
heap of applications. Left, in order of weight:

1. A composition of `Vmm` and `Pmm`: several processes take frames from one bitmap,
   and what `Vmm` assumes of `free` is what `Pmm` provides (a refinement).
2. The static allocator, if memory is ever given back to it.

## 7. Not modelled

- The boot loader: assembly that runs once from top to bottom before anything
  can interleave. What it passes on, the memory map and the module files, is
  an input of `Pmm`, and the text it leaves on the screen one of `Console`.
- Descriptor tables and the first page tables: constants of the processor's
  manual, written once. The gates of hardware interrupts are in `Interrupts`.
- The static allocator (`salloc.c`): a pointer that moves forward at boot.
- The keyboard: its driver is a stub that nothing starts.
- `kgraphics_image_raw`, which nothing calls, and the walk of the stack for the
  call trace of a panic.
- The shape of glyphs, the values of colours, the buttons of the mouse.
- The rest of the applications' library, which passes arguments to system calls, and the
  demonstration programs. What they may do to the kernel is in the actions of user
  mode of the other modules.
- Register contents, the switch of stacks in assembly, and privilege levels: a
  switch is an assignment of `currentProcess` and `cr3`.
