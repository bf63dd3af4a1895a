-------------------------------- MODULE Vmm --------------------------------
(***************************************************************************)
(* The address space of one process: the sorted list of virtual address    *)
(* spaces (VAS) of src/kernel/vmm.c, the pages that are backed by frames,  *)
(* and what process.c, compositor.c and the page fault handler do to it.   *)
(*                                                                         *)
(* Addresses are page numbers. The 32 bit arithmetic of the code stays     *)
(* below 3 GB. vmm->end is the last byte of the range and is used as if it *)
(* were the first byte behind it, so that the last page is never used: End *)
(* is that page.                                                           *)
(***************************************************************************)
EXTENDS Naturals, FiniteSets, Sequences, IntrusiveList

CONSTANTS
  Start, End,   \* vmm->start, vmm->end: pages Start..End-1 can be reserved
  TEXT,         \* ARCH_MEM_START_PROCESS_TEXT
  BIN, STACK, DATA, WINDOW,   \* pages of the sections and of a window's buffer
  TABLE,        \* pages that one page table maps
  NumFrames,    \* page frames that the machine has left for this process
  MAIN,         \* the process itself, which has a stack like its threads
  Threads,
  NONE,
  MaxWindows,   \* bound: windows that the process has at a time
  MaxMisfrees,  \* bound: address spaces that are freed at a stale address
  KmallocFails  \* may the heap be out of memory while a VAS is added?

\* Flags of a VAS that matter here: committed at the first access, committed
\* when it is reserved, or never.
Flags == {"NONE", "IMMCOMMIT", "NULLPAGE"}

ASSUME RangeAssumption ==
  /\ Start \in Nat /\ End \in Nat /\ TEXT \in Nat
  /\ 0 < Start /\ Start <= TEXT /\ TEXT + BIN <= End /\ Start + STACK + 2 <= End
ASSUME SizesAssumption == \A n \in {BIN, STACK, DATA, WINDOW, TABLE} : n \in Nat /\ n > 0
ASSUME FramesAssumption == NumFrames \in Nat /\ MaxWindows \in Nat /\ MaxMisfrees \in Nat
ASSUME NamesAssumption ==
  /\ MAIN \notin Threads /\ KmallocFails \in BOOLEAN
  /\ NONE \notin Nat /\ NONE \notin [start : Nat, size : Nat, flags : Flags]

VARIABLES
  vass,         \* vmm->head: the list of VMemoryAddressSpace
  pte,          \* the frame that backs each page, or NONE
  tables,       \* page tables that exist, and the frames they take
  tableFrames,
  free,         \* free page frames
  stack,        \* first page of the stack of each thread, 0 if it has none
  data,         \* pinfo->data.virtualMemoryStart, 0 before it is set
  windows,      \* first pages of the buffers of the windows that exist
  misfrees,     \* history: how often an address space was freed at a stale address
  pc

vars == <<vass, pte, tables, tableFrames, free, stack, data, windows, misfrees, pc>>

Pages   == Start..(End - 1)
Frames  == 1..NumFrames
Stacks  == Threads \cup {MAIN}
TableOf(p) == p \div TABLE
Run(s, n) == s..(s + n - 1)

\* How a step of the life of the process ended.
Panics == {"out of memory", "double allocation", "illegal access", "assertion"}
Phases == {"binary", "stack", "data", "run", "killing", "deleting", "gone", "failed"}

VAS(start, n, flags) == [start |-> start, size |-> n, flags |-> flags]
LastOf(v) == v.start + v.size - 1
NextOf(v) == v.start + v.size

Init ==
  /\ vass = <<>>
  /\ pte = [p \in Pages |-> NONE]
  /\ tables = {}
  /\ tableFrames = {}
  /\ free = Frames
  /\ stack = [t \in Stacks |-> 0]
  /\ data = 0
  /\ windows = {}
  /\ misfrees = 0
  /\ pc = "binary"

-----------------------------------------------------------------------------
(* The list of virtual address spaces *)

\* The gap behind the last one is not compared with the end of the range.
Mut_find_next_va(list, n) ==
  LET first(i)  == IF i = 1 THEN Start ELSE NextOf(list[i - 1])
      fitting   == {i \in 1..Len(list) : list[i].start - first(i) >= n}
  IN  IF list = <<>> THEN Start
      ELSE IF fitting # {} THEN first(CHOOSE i \in fitting : \A j \in fitting : i <= j)
      ELSE NextOf(list[Len(list)])

\* The first gap of n pages; 0 if there is none. An empty list is not checked.
find_next_va(list, n) ==
  LET first(i)  == IF i = 1 THEN Start ELSE NextOf(list[i - 1])
      fitting   == {i \in 1..Len(list) : list[i].start - first(i) >= n}
  IN  IF list = <<>> THEN Start
      ELSE IF fitting # {} THEN first(CHOOSE i \in fitting : \A j \in fitting : i <= j)
      ELSE IF End - NextOf(list[Len(list)]) >= n THEN NextOf(list[Len(list)])
      ELSE 0

\* Does an end of the new VAS lie in the existing one?
Overlaps(new, v) ==
  \/ new.start >= v.start /\ new.start <= LastOf(v)
  \/ LastOf(new) >= v.start /\ LastOf(new) <= LastOf(v)

\* The place of the first VAS behind the new one.
PlaceOf(list, new) ==
  LET behind == {i \in 1..Len(list) : list[i].start > new.start}
  IN  IF behind = {} THEN Len(list) + 1 ELSE CHOOSE i \in behind : \A j \in behind : i <= j

\* The new VAS goes to the end of the list.
Mut_Inserted(list, new) == Append(list, new)

Inserted(list, new) ==
  LET at == PlaceOf(list, new)
  IN  [i \in 1..(Len(list) + 1) |-> IF i < at THEN list[i] ELSE IF i = at THEN new ELSE list[i - 1]]

\* The VASs that the search for the place looks at must not overlap.
CanAdd(list, new) ==
  LET at == PlaceOf(list, new)
  IN  /\ new.start >= Start /\ NextOf(new) <= End
      /\ \A i \in 1..Len(list) : i <= at => ~Overlaps(new, list[i])

addNewVirtualAddressSpace(list, new) == IF CanAdd(list, new) THEN Inserted(list, new) ELSE list

\* The VAS that contains page p, NONE if there is none.
find_vas(list, p) ==
  LET hits == {i \in 1..Len(list) : p >= list[i].start /\ p < NextOf(list[i])}
  IN  IF hits = {} THEN NONE ELSE list[CHOOSE i \in hits : \A j \in hits : i <= j]

-----------------------------------------------------------------------------
(* Page frames, and how pages are backed by them *)

\* kpmm_alloc: the first run of n free frames.
FreeRuns(n) == {f \in Frames : Run(f, n) \subseteq free}
kpmm_alloc(n) == CHOOSE f \in FreeRuns(n) : \A g \in FreeRuns(n) : f <= g

\* The k lowest frames of S: what k calls of kpmm_alloc(1) return.
Lowest(S, k) == {f \in S : Cardinality({g \in S : g < f}) < k}

NewTables(s, n) == {TableOf(p) : p \in Run(s, n)} \ tables

\* The frames that new page tables take, behind those of the pages themselves.
FramesForTables(s, n) == Lowest(free \ Run(kpmm_alloc(n), n), Cardinality(NewTables(s, n)))

CanCommit(s, n) ==
  /\ FreeRuns(n) # {}
  /\ Cardinality(free \ Run(kpmm_alloc(n), n)) >= Cardinality(NewTables(s, n))

\* Backs pages s..s+n-1 with a run of frames, and makes the page tables.
commitVirtualPages(s, n) ==
  LET f == kpmm_alloc(n)
  IN  /\ pte' = [p \in Pages |-> IF p \in Run(s, n) THEN f + (p - s) ELSE pte[p]]
      /\ tables' = tables \cup NewTables(s, n)
      /\ tableFrames' = tableFrames \cup FramesForTables(s, n)
      /\ free' = (free \ Run(f, n)) \ FramesForTables(s, n)

\* kpg_map refuses a page that is mapped.
AllUnmapped(s, n) == \A p \in Run(s, n) \cap Pages : pte[p] = NONE

NoCommit == UNCHANGED <<pte, tables, tableFrames, free>>

\* The frames that back pages s..s+n-1.
FramesOf(s, n) == {pte[p] : p \in {q \in Run(s, n) \cap Pages : pte[q] # NONE}}

\* Frames of pages that are unmapped are not freed.
Mut_Unmapped(s, n) ==
  /\ pte' = [p \in Pages |-> IF p \in Run(s, n) THEN NONE ELSE pte[p]]
  /\ free' = free

\* kvmm_free unmaps as many pages as the VAS has, from the page it was given.
Unmapped(s, n) ==
  /\ pte' = [p \in Pages |-> IF p \in Run(s, n) THEN NONE ELSE pte[p]]
  /\ free' = free \cup FramesOf(s, n)

\* kvmm_free; a page outside of every VAS is an error that callers only report.
kvmm_free(p) ==
  LET v == find_vas(vass, p)
  IN  /\ vass' = IF v = NONE THEN vass ELSE list_remove(vass, v)
      /\ IF v = NONE THEN UNCHANGED <<pte, free>> ELSE Unmapped(p, v.size)
      /\ UNCHANGED <<tables, tableFrames>>

-----------------------------------------------------------------------------
(* kprocess_create: the sections of a new process *)

\* No memory for the pages: the VAS stays in the list.
s_setupProcessBinaryMemory ==
  /\ pc = "binary"
  /\ vass' = addNewVirtualAddressSpace(vass, VAS(TEXT, BIN, "IMMCOMMIT"))
  /\ IF ~AllUnmapped(TEXT, BIN) THEN NoCommit /\ pc' = "double allocation"
     ELSE IF FreeRuns(BIN) = {} THEN NoCommit /\ pc' = "failed"
     ELSE IF ~CanCommit(TEXT, BIN) THEN NoCommit /\ pc' = "out of memory"
     ELSE commitVirtualPages(TEXT, BIN) /\ pc' = "stack"
  /\ UNCHANGED <<stack, data, windows, misfrees>>

\* Without room for the guard pages.
Mut_StackRoom == STACK

\* The stack and a page that is never backed on each side of it.
StackRoom == STACK + 2

\* The list with the first k of the three VASs for a stack at page va.
WithStack(va, k, flags) ==
  LET parts == <<VAS(va, 1, "NULLPAGE"), VAS(va + 1, STACK, flags),
                 VAS(va + 1 + STACK, 1, "NULLPAGE")>>
      l1 == addNewVirtualAddressSpace(vass, parts[1])
      l2 == addNewVirtualAddressSpace(l1, parts[2])
      l3 == addNewVirtualAddressSpace(l2, parts[3])
  IN  <<vass, l1, l2, l3>>[k + 1]

StackFlags(isKernel) == IF isKernel THEN "IMMCOMMIT" ELSE "NONE"

\* The first k memmap calls for a stack at page va. The second one commits the stack
\* of a kernel thread at once; without a run of frames it fails, and its VAS stays.
\* The last argument is where the process goes on.
StackMemmaps(va, k, isKernel, next) ==
  /\ vass' = WithStack(va, k, StackFlags(isKernel))
  /\ IF k < 2 \/ ~isKernel \/ FreeRuns(STACK) = {} THEN NoCommit /\ pc' = next
     ELSE IF ~AllUnmapped(va + 1, STACK) THEN NoCommit /\ pc' = "double allocation"
     ELSE IF ~CanCommit(va + 1, STACK) THEN NoCommit /\ pc' = "out of memory"
     ELSE commitVirtualPages(va + 1, STACK) /\ pc' = next

\* A stack for thread t.
s_setupProcessStackMemory(t, isKernel, next) ==
  LET va == find_next_va(vass, StackRoom)
  IN  /\ va # 0
      /\ isKernel => FreeRuns(STACK) # {}
      /\ StackMemmaps(va, 3, isKernel, next)
      /\ stack' = [stack EXCEPT ![t] = va + 1]

CreateStack(isKernel) ==
  /\ pc = "stack"
  /\ s_setupProcessStackMemory(MAIN, isKernel, "data")
  /\ UNCHANGED <<data, windows, misfrees>>

\* Why s_setupProcessStackMemory may fail after k of its memmap calls: there is no
\* room, the heap has no memory for the next VAS, or there are no frames for the
\* stack of a kernel thread.
StackFails(va, k, isKernel) ==
  \/ va = 0 /\ k = 0
  \/ va # 0 /\ KmallocFails
  \/ va # 0 /\ isKernel /\ k = 2 /\ FreeRuns(STACK) = {}

CreateStackFails(k, isKernel) ==
  LET va == find_next_va(vass, StackRoom)
  IN  /\ pc = "stack"
      /\ StackFails(va, k, isKernel)
      /\ StackMemmaps(va, k, isKernel, "failed")
      /\ UNCHANGED <<stack, data, windows, misfrees>>

\* The heap has no memory for the VAS of the binary or of the data, or the binary is
\* longer than the range (BIN is a length that fits; the caller may name any).
SectionFails ==
  /\ pc = "binary" \/ (pc = "data" /\ KmallocFails)
  /\ pc' = "failed"
  /\ UNCHANGED <<vass, pte, tables, tableFrames, free, stack, data, windows, misfrees>>

s_setupProcessDataMemory ==
  LET new == VAS(find_next_va(vass, DATA), DATA, "NONE")
  IN  /\ pc = "data"
      /\ vass' = addNewVirtualAddressSpace(vass, new)
      /\ data' = IF CanAdd(vass, new) THEN new.start ELSE 0
      /\ pc' = IF CanAdd(vass, new) THEN "run" ELSE "failed"
      /\ UNCHANGED <<pte, tables, tableFrames, free, stack, windows, misfrees>>

-----------------------------------------------------------------------------
(* The life of the process *)

CreateThread(t, isKernel) ==
  /\ pc = "run"
  /\ stack[t] = 0
  /\ s_setupProcessStackMemory(t, isKernel, "run")
  /\ UNCHANGED <<data, windows, misfrees>>

\* The thread is killed, but pinfo->parent is not set yet. When it happens to be
\* NULL, kprocess_kill_process refuses and what was reserved stays. After one memmap
\* it stays in any case: the kill finds no VAS where the stack was to be.
ThreadFails(k, isKernel) ==
  LET va == find_next_va(vass, StackRoom)
  IN  /\ pc = "run"
      /\ StackFails(va, k, isKernel)
      /\ StackMemmaps(va, k, isKernel, "run")
      /\ UNCHANGED <<stack, data, windows, misfrees>>

\* When it happens to be a process, the kill goes on to free the stack. If the stack
\* was not placed yet, that is kvmm_free of whatever the block of the thread held
\* before: any address p. It frees the VAS that holds it, whoever uses it, and the
\* process goes on; only 0 is caught, by an assertion. (Pages behind the end of
\* the range that it would reach are left out.)
ThreadFailsStale(p) ==
  /\ pc = "run" /\ misfrees < MaxMisfrees
  /\ StackFails(find_next_va(vass, StackRoom), 0, FALSE)
  /\ IF p = 0 THEN UNCHANGED <<vass, pte, tables, tableFrames, free>> ELSE kvmm_free(p)
  /\ pc' = IF p = 0 THEN "assertion" ELSE "run"
  /\ misfrees' = IF p = 0 \/ find_vas(vass, p) = NONE THEN misfrees ELSE misfrees + 1
  /\ UNCHANGED <<stack, data, windows>>

\* With the stack reserved, it is freed again, and so are the frames it was committed
\* with; the lower guard and the page tables made for it stay.
ThreadFailsReserved(isKernel) ==
  LET va      == find_next_va(vass, StackRoom)
      commits == isKernel /\ FreeRuns(STACK) # {}
      forPT   == IF commits THEN FramesForTables(va + 1, STACK) ELSE {}
  IN  /\ pc = "run"
      /\ StackFails(va, 2, isKernel)
      /\ vass' = WithStack(va, 1, StackFlags(isKernel))
      /\ IF commits /\ ~AllUnmapped(va + 1, STACK) THEN NoCommit /\ pc' = "double allocation"
         ELSE IF commits /\ ~CanCommit(va + 1, STACK) THEN NoCommit /\ pc' = "out of memory"
         ELSE /\ pte' = [p \in Pages |-> IF p \in Run(va + 1, STACK) THEN NONE ELSE pte[p]]
              /\ free' = (free \cup FramesOf(va + 1, STACK)) \ forPT
              /\ tables' = IF commits THEN tables \cup NewTables(va + 1, STACK) ELSE tables
              /\ tableFrames' = tableFrames \cup forPT
              /\ pc' = "run"
      /\ UNCHANGED <<stack, data, windows, misfrees>>

\* kprocess_kill_process for a thread.
ThreadExit(t) ==
  /\ pc = "run"
  /\ stack[t] # 0
  /\ kvmm_free(stack[t])
  /\ stack' = [stack EXCEPT ![t] = 0]
  /\ UNCHANGED <<data, windows, misfrees, pc>>

\* allocWindow and destory_window.
CreateWindow ==
  LET new == VAS(find_next_va(vass, WINDOW), WINDOW, "NONE")
  IN  /\ pc = "run"
      /\ Cardinality(windows) < MaxWindows
      /\ CanAdd(vass, new)
      /\ vass' = addNewVirtualAddressSpace(vass, new)
      /\ windows' = windows \cup {new.start}
      /\ UNCHANGED <<pte, tables, tableFrames, free, stack, data, misfrees, pc>>

DestroyWindow(w) ==
  /\ pc = "run"
  /\ w \in windows
  /\ kvmm_free(w)
  /\ windows' = windows \ {w}
  /\ UNCHANGED <<stack, data, misfrees, pc>>

\* kvmm_commitPage refuses pages that were committed at once and guard pages.
Commits(v) == v.flags = "NONE"

\* The page fault handler, for the first access to page p.
PageFault(p) ==
  LET v == find_vas(vass, p)
  IN  /\ pc = "run"
      /\ pte[p] = NONE
      /\ IF v = NONE THEN NoCommit /\ pc' = "illegal access"
         ELSE IF ~Commits(v) THEN NoCommit /\ pc' = "illegal access"
         ELSE IF ~CanCommit(p, 1) THEN NoCommit /\ pc' = "out of memory"
         ELSE commitVirtualPages(p, 1) /\ pc' = "run"
      /\ UNCHANGED <<vass, stack, data, windows, misfrees>>

-----------------------------------------------------------------------------
(* kprocess_kill_process for the process *)

\* The threads go first; a creation that failed may be killed or stay as it is.
Kill ==
  /\ pc \in {"run", "failed"}
  /\ pc' = "killing"
  /\ UNCHANGED <<vass, pte, tables, tableFrames, free, stack, data, windows, misfrees>>

KillThread(t) ==
  /\ pc = "killing"
  /\ stack[t] # 0
  /\ kvmm_free(stack[t])
  /\ stack' = [stack EXCEPT ![t] = 0]
  /\ UNCHANGED <<data, windows, misfrees, pc>>

\* kvmm_delete frees the first VAS of the list, again and again.
kvmm_delete ==
  /\ pc = "killing" /\ \A t \in Threads : stack[t] = 0
  /\ vass # <<>>
  /\ kvmm_free(vass[1].start)
  /\ UNCHANGED <<stack, data, windows, misfrees, pc>>

\* The frames of the page tables are freed with the page directory. A page that was
\* still backed is no longer reached, and nobody frees its frame.
kpg_deletePageDirectory ==
  /\ pc = "killing" /\ \A t \in Threads : stack[t] = 0
  /\ vass = <<>>
  /\ tables' = {} /\ tableFrames' = {}
  /\ free' = free \cup tableFrames
  /\ stack' = [stack EXCEPT ![MAIN] = 0] /\ data' = 0 /\ windows' = {}
  /\ pc' = "gone"
  /\ pte' = [p \in Pages |-> NONE]
  /\ UNCHANGED <<vass, misfrees>>

Ended == pc \in Panics \cup {"gone", "failed"} /\ UNCHANGED vars

Deletion == (\E t \in Threads : KillThread(t)) \/ kvmm_delete \/ kpg_deletePageDirectory

Next ==
  \/ s_setupProcessBinaryMemory \/ s_setupProcessDataMemory \/ SectionFails
  \/ \E isKernel \in BOOLEAN : CreateStack(isKernel)
  \/ \E t \in Threads, isKernel \in BOOLEAN : CreateThread(t, isKernel)
  \/ \E k \in 0..2, isKernel \in BOOLEAN :
       CreateStackFails(k, isKernel) \/ ThreadFails(k, isKernel)
  \/ \E isKernel \in BOOLEAN : ThreadFailsReserved(isKernel)
  \/ \E p \in Pages \cup {0} : ThreadFailsStale(p)
  \/ \E p \in Pages : PageFault(p)
  \/ \E t \in Threads : ThreadExit(t)
  \/ CreateWindow \/ \E w \in windows : DestroyWindow(w)
  \/ Kill \/ Deletion \/ Ended

Spec == Init /\ [][Next]_vars

\* The kernel is not preempted while it deletes an address space.
FairSpec == Spec /\ WF_vars(Deletion)

-----------------------------------------------------------------------------
(* Properties *)

\* Every variable has its type.
TypeOK ==
  /\ \A v \in Items(vass) : v \in [start : Nat, size : Nat, flags : Flags]
  /\ pte \in [Pages -> Frames \cup {NONE}]
  /\ tableFrames \subseteq Frames /\ free \subseteq Frames
  /\ stack \in [Stacks -> {0} \cup Pages]
  /\ data \in {0} \cup Pages /\ windows \subseteq Pages /\ misfrees \in Nat
  /\ pc \in Phases \cup Panics

\* The address spaces are disjoint, lie in the range of the VMemoryManager, and
\* the list is sorted: find_next_va asserts it, and its gaps are wrong otherwise.
Sorted ==
  /\ \A v \in Items(vass) : v.size > 0 /\ v.start >= Start /\ NextOf(v) <= End
  /\ \A i, j \in 1..Len(vass) : i < j => NextOf(vass[i]) <= vass[j].start

\* A page is backed only while it is reserved, and a guard page never is. So a new
\* address space has no page of an earlier one, and kpg_map meets no page that is
\* mapped already.
BackedIsReserved ==
  /\ \A p \in Pages : pte[p] # NONE => find_vas(vass, p) # NONE /\ find_vas(vass, p).flags # "NULLPAGE"
  /\ pc # "double allocation"

\* A frame has one use, and none is lost: it is free, backs one page of a page table
\* that exists, or holds a page table.
FramesOwned ==
  LET backing == {pte[p] : p \in Pages} \ {NONE}
  IN  /\ \A p, q \in Pages : pte[p] # NONE /\ pte[p] = pte[q] => p = q
      /\ \A p \in Pages : pte[p] # NONE => TableOf(p) \in tables
      /\ free \cap (backing \cup tableFrames) = {} /\ backing \cap tableFrames = {}
      /\ pc # "gone" => free \cup backing \cup tableFrames = Frames

\* Page frames, page tables and reservations agree, also after calls that failed
\* half-way, and when the process is gone all its frames are free. Who owns a frame
\* is right whatever happens. The rest needs that no creation of a thread that ran
\* out of address space or heap before its stack was placed freed an address space at
\* a stale address (ThreadFailsStale): one that is freed from its middle leaves
\* pages backed that nobody will free, and reaches into the next one.
BackingOK ==
  /\ TypeOK /\ FramesOwned
  /\ misfrees = 0 => BackedIsReserved /\ (pc = "gone" => free = Frames)

\* Every page of a section that somebody uses is backed, or the page fault handler will
\* back it. (Whether the process has the right to it is a matter of the flags of its page
\* table, see the README.) A free at a stale address takes the section of whoever has it,
\* and nothing can be said from then on.
SectionsUsable ==
  LET usable(p) ==
        /\ p \in Pages
        /\ pte[p] # NONE \/ (find_vas(vass, p) # NONE /\ find_vas(vass, p).flags = "NONE")
  IN  pc = "run" /\ misfrees = 0 =>
        /\ \A p \in Run(TEXT, BIN) \cup Run(data, DATA) : usable(p)
        /\ \A t \in Stacks : stack[t] # 0 => \A p \in Run(stack[t], STACK) : usable(p)
        /\ \A w \in windows : \A p \in Run(w, WINDOW) : usable(p)

\* Every stack has a page on both sides that is never backed, so that a stack that
\* runs over is noticed, however address space was freed and used again, unless it
\* was freed at a stale address, which may be that of a guard.
StacksGuarded ==
  pc = "run" /\ misfrees = 0 =>
    \A t \in Stacks : stack[t] # 0 =>
      \A g \in {stack[t] - 1, stack[t] + STACK} :
        find_vas(vass, g) # NONE /\ find_vas(vass, g).flags = "NULLPAGE"

\* Whoever is to be killed goes: kvmm_delete does not run forever.
DeletionEnds == pc = "killing" ~> pc = "gone"
=============================================================================
