----------------------------- MODULE PageFault -----------------------------
(***************************************************************************)
(* How page directories share the kernel's half of the address space: the  *)
(* page fault handler (src/kernel/x86/interrupts.c), kprocess_syncPD and   *)
(* the places of process.c where a page directory appears, enters and      *)
(* leaves the scheduler queue, with what they use of vmm.c and paging.c.   *)
(*                                                                         *)
(* A page of the kernel's address space is mapped once, in a page table    *)
(* that all directories share. A directory that was filled before the      *)
(* kernel's got a new page table lacks the entry for it, so an access may  *)
(* fault although the page is mapped. Faults strike inside kernel code, at *)
(* any access, also while a process is being made. A process stands for    *)
(* its threads too, which share its directory.                             *)
(***************************************************************************)
EXTENDS Naturals, FiniteSets

CONSTANTS
  Procs,        \* processes that have a page directory of their own
  KERNEL,       \* the kernel's page directory
  NONE,
  Tables,       \* page tables of the kernel's half
  BootTables,   \* the ones that are there when the kernel starts
  Lazy,         \* kernel pages that are committed at the first access
  TableOf,      \* the page table of each of these pages
  NumFrames     \* page frames that are free when the kernel starts

ASSUME NamesAssumption ==
  /\ IsFiniteSet(Procs) /\ IsFiniteSet(Tables) /\ IsFiniteSet(Lazy)
  /\ KERNEL \notin Procs /\ NONE \notin Procs \cup Lazy
ASSUME TablesAssumption == BootTables \subseteq Tables /\ TableOf \in [Lazy -> Tables]
ASSUME FramesAssumption == NumFrames \in Nat

VARIABLES
  entries,      \* kernel page tables each page directory refers to
  mapped,       \* pages that are present in their page table
  isPageDirectoryDirty,
  status,       \* what has been done of a process: see Statuses
  ready,        \* KERNEL_PHASE_STATE_KERNEL_READY
  cr3,
  accessing,    \* the page that the running instruction touches
  frames,       \* page frames left
  pc

pageFaultVars == <<entries, mapped, isPageDirectoryDirty, status, ready, cr3, accessing, frames, pc>>

\* "new": has a page directory and is not queued yet; "dying": is queued, its
\* page directory and its context are gone.
Statuses == {"none", "new", "queued", "dying"}
Panics   == {"OutOfMemory", "DoubleAllocation", "NoContext"}

Directories == {KERNEL} \cup {p \in Procs : status[p] \in {"new", "queued"}}
Creating    == {p \in Procs : status[p] = "new"}
Dying       == {p \in Procs : status[p] = "dying"}

\* isPageDirectoryDirty of the kernel's VMemoryManager is never initialised.
PageFaultInit ==
  /\ entries = [d \in Procs \cup {KERNEL} |-> IF d = KERNEL THEN BootTables ELSE {}]
  /\ mapped = {}
  /\ isPageDirectoryDirty \in BOOLEAN
  /\ status = [p \in Procs |-> "none"]
  /\ ready = FALSE
  /\ cr3 = KERNEL
  /\ accessing = NONE
  /\ frames = NumFrames
  /\ pc = "run"

-----------------------------------------------------------------------------
(* Accesses to kernel memory, and the page fault handler *)

\* The processor finds the page through the current page directory.
Translates(x) == TableOf[x] \in entries[cr3] /\ x \in mapped

\* While a process is dying the kernel only frees blocks of its heap, and their
\* headers are in pages that were written before.
Access(x) ==
  /\ pc = "run"
  /\ Dying # {} => x \in mapped
  /\ accessing' = x
  /\ pc' = "access"
  /\ UNCHANGED <<entries, mapped, isPageDirectoryDirty, status, ready, cr3, frames>>

AccessDone ==
  /\ pc = "access"
  /\ Translates(accessing)
  /\ accessing' = NONE
  /\ pc' = "run"
  /\ UNCHANGED <<entries, mapped, isPageDirectoryDirty, status, ready, cr3, frames>>

Faults == pc = "access" /\ ~Translates(accessing)

\* Copies the kernel's entries, `tables', to the directory of every queued process.
kprocess_syncPD(tables) ==
  entries' = [d \in Procs \cup {KERNEL} |->
                IF d = KERNEL \/ (ready /\ status[d] = "queued") THEN tables ELSE entries[d]]

\* kprocess_syncPD follows the context of every queued process.
SyncOutcome == IF ready /\ Dying # {} THEN "NoContext" ELSE "access"

\* The flag is not reset.
Mut_PageFaultSync ==
  /\ Faults
  /\ isPageDirectoryDirty
  /\ kprocess_syncPD(entries[KERNEL])
  /\ pc' = SyncOutcome
  /\ UNCHANGED <<mapped, isPageDirectoryDirty, status, ready, cr3, accessing, frames>>

\* Attempt 1: the kernel's directory has changed. Sync and retry.
PageFaultSync ==
  /\ Faults
  /\ isPageDirectoryDirty
  /\ isPageDirectoryDirty' = FALSE
  /\ kprocess_syncPD(entries[KERNEL])
  /\ pc' = SyncOutcome
  /\ UNCHANGED <<mapped, status, ready, cr3, accessing, frames>>

\* The page table is forgotten.
Mut_FramesNeeded(x) == 1

\* A frame for the page, and one for its page table if it has none.
FramesNeeded(x) == IF TableOf[x] \in entries[KERNEL] THEN 1 ELSE 2

\* The flag is not set.
Mut_commitVirtualPages(x) ==
  /\ frames' = frames - FramesNeeded(x)
  /\ mapped' = mapped \cup {x}
  /\ UNCHANGED isPageDirectoryDirty
  /\ pc' = IF x \in mapped THEN "DoubleAllocation" ELSE SyncOutcome

\* Maps the page in the kernel's page directory, in a new page table if need be.
\* kpg_map refuses a page that is present (ERR_DOUBLE_ALLOC): the frame taken for
\* it is lost and the handler panics.
commitVirtualPages(x) ==
  /\ frames' = frames - FramesNeeded(x)
  /\ mapped' = mapped \cup {x}
  /\ isPageDirectoryDirty' = (x \notin mapped)
  /\ pc' = IF x \in mapped THEN "DoubleAllocation" ELSE SyncOutcome

\* Attempt 2: commit the page, sync and retry.
PageFaultCommit ==
  /\ Faults
  /\ ~isPageDirectoryDirty
  /\ frames >= FramesNeeded(accessing)
  /\ commitVirtualPages(accessing)
  /\ kprocess_syncPD(entries[KERNEL] \cup {TableOf[accessing]})
  /\ UNCHANGED <<status, ready, cr3, accessing>>

\* The frame of the page, if there is one, has been taken when the panic comes.
PageFaultNoMemory ==
  /\ Faults
  /\ ~isPageDirectoryDirty
  /\ frames < FramesNeeded(accessing)
  /\ frames' = 0
  /\ pc' = "OutOfMemory"
  /\ UNCHANGED <<entries, mapped, isPageDirectoryDirty, status, ready, cr3, accessing>>

-----------------------------------------------------------------------------
(* Page directories of processes *)

\* kernel_main, before it starts the root process.
KernelReady ==
  /\ pc = "run" /\ ~ready
  /\ ready' = TRUE
  /\ UNCHANGED <<entries, mapped, isPageDirectoryDirty, status, cr3, accessing, frames, pc>>

\* A new page directory with the kernel's entries.
kpg_setupPageDirectory(p) == entries' = [entries EXCEPT ![p] = entries[KERNEL]]

\* s_createProcessPageDirectory. (Without a frame the creation fails.)
CreatePageDirectory(p) ==
  /\ pc = "run" /\ ready
  /\ Creating = {} /\ Dying = {}
  /\ status[p] = "none"
  /\ frames > 0
  /\ frames' = frames - 1
  /\ status' = [status EXCEPT ![p] = "new"]
  /\ kpg_setupPageDirectory(p)
  /\ UNCHANGED <<mapped, isPageDirectoryDirty, ready, cr3, accessing, pc>>

\* The creation goes on with memory sections, and ends in the scheduler queue.
s_enqueue(p) ==
  /\ pc = "run"
  /\ status[p] = "new"
  /\ status' = [status EXCEPT ![p] = "queued"]
  /\ UNCHANGED <<entries, mapped, isPageDirectoryDirty, ready, cr3, accessing, frames, pc>>

\* No memory for the VMemoryManager: the page directory is deleted again.
CreateFails(p) ==
  /\ pc = "run"
  /\ status[p] = "new"
  /\ status' = [status EXCEPT ![p] = "none"]
  /\ entries' = [entries EXCEPT ![p] = {}]
  /\ frames' = frames + 1
  /\ UNCHANGED <<mapped, isPageDirectoryDirty, ready, cr3, accessing, pc>>

\* s_switchProcess loads CR3.
s_switchProcess(p) ==
  /\ pc = "run"
  /\ Creating = {} /\ Dying = {}
  /\ status[p] = "queued"
  /\ cr3' = p
  /\ UNCHANGED <<entries, mapped, isPageDirectoryDirty, status, ready, accessing, frames, pc>>

\* kprocess_kill_process for the current process: the kernel's page directory is
\* loaded, the process's is deleted ...
KillDeletesContext(p) ==
  /\ pc = "run"
  /\ Creating = {}
  /\ cr3 = p /\ status[p] = "queued"
  /\ cr3' = KERNEL
  /\ status' = [status EXCEPT ![p] = "dying"]
  /\ entries' = [entries EXCEPT ![p] = {}]
  /\ frames' = frames + 1
  /\ UNCHANGED <<mapped, isPageDirectoryDirty, ready, accessing, pc>>

\* ... and only after blocks of the heap were freed does it leave the queue.
KillUnqueues(p) ==
  /\ pc = "run"
  /\ status[p] = "dying"
  /\ status' = [status EXCEPT ![p] = "none"]
  /\ UNCHANGED <<entries, mapped, isPageDirectoryDirty, ready, cr3, accessing, frames, pc>>

Halted == pc \in Panics /\ UNCHANGED pageFaultVars

PageFaultHandler == PageFaultSync \/ PageFaultCommit \/ PageFaultNoMemory

PageFaultNext ==
  \/ \E x \in Lazy : Access(x)
  \/ AccessDone \/ PageFaultHandler \/ KernelReady
  \/ \E p \in Procs :
       \/ CreatePageDirectory(p) \/ s_enqueue(p) \/ CreateFails(p)
       \/ s_switchProcess(p)
       \/ KillDeletesContext(p) \/ KillUnqueues(p)
  \/ Halted

PageFaultSpec == PageFaultInit /\ [][PageFaultNext]_pageFaultVars

\* The processor retries the instruction, and the handler is not preempted.
PageFaultFairSpec == PageFaultSpec /\ WF_pageFaultVars(AccessDone \/ PageFaultHandler)

-----------------------------------------------------------------------------
(* Properties *)

\* Every variable has its type.
TypeOK ==
  /\ entries \in [Procs \cup {KERNEL} -> SUBSET Tables]
  /\ mapped \in SUBSET Lazy
  /\ isPageDirectoryDirty \in BOOLEAN
  /\ status \in [Procs -> Statuses]
  /\ ready \in BOOLEAN
  /\ cr3 \in Procs \cup {KERNEL}
  /\ accessing \in Lazy \cup {NONE}
  /\ frames \in Nat
  /\ pc \in {"run", "access"} \cup Panics

\* A page directory that lacks kernel page tables is one that is queued or being
\* made while the dirty flag is set, so that the next fault brings it up to date;
\* or it is being made and the fault in progress sets the flag again.
StaleIsKnown ==
  \A d \in Directories :
    \/ entries[d] = entries[KERNEL]
    \/ entries[d] \subseteq entries[KERNEL] /\ isPageDirectoryDirty
    \/ /\ entries[d] \subseteq entries[KERNEL]
       /\ d \in Creating
       /\ pc \in {"access"} \cup Panics /\ accessing \notin mapped

\* An access to kernel memory that the kernel has reserved never ends in a panic,
\* unless there is no memory: the page fault handler does not try to commit a page
\* that is committed, and does not look at a process without address space.
LegalAccessServed == pc \notin {"DoubleAllocation", "NoContext"}

\* Until a panic no page frame is lost: what is not free is a mapped page, a page
\* table of the kernel's directory or a page directory.
FramesAccounted ==
  pc \in {"run", "access"} =>
    frames + Cardinality(mapped) + Cardinality(entries[KERNEL] \ BootTables)
           + Cardinality(Directories \ {KERNEL}) = NumFrames

\* What the proofs need besides: which routine may run when. A process has a
\* directory only once the kernel is ready, CR3 holds a directory that is queued,
\* one process is being made at a time, and while one is dying the kernel's own
\* directory is in use and no page is touched for the first time.
Control ==
  /\ pc = "run" => accessing = NONE
  /\ pc = "access" => accessing \in Lazy
  /\ ~ready => \A p \in Procs : status[p] = "none"
  /\ cr3 # KERNEL => status[cr3] = "queued"
  /\ \A p, q \in Creating : p = q
  /\ Dying # {} => cr3 = KERNEL /\ Creating = {} /\ (pc = "access" => accessing \in mapped)
  /\ \A x \in mapped : TableOf[x] \in entries[KERNEL]
  /\ (\E d \in Creating : entries[d] # entries[KERNEL]) =>
       \A q \in Directories \ Creating : entries[q] = entries[KERNEL]

\* The kernel's half of memory, which all page directories share: directories that lag
\* behind are known to, no page frame is lost, and each routine runs when it may.
KernelHalfOK == TypeOK /\ StaleIsKnown /\ Control /\ FramesAccounted

\* Every access gets done, or the machine is out of memory: the handler does not
\* fault and retry forever.
AccessCompletes == pc = "access" ~> (pc = "run" \/ pc \in Panics)
=============================================================================
