------------------------------- MODULE Paging -------------------------------
(* Page directories and page tables as paging.c builds them.  A table that is not
   mapped is reached through a temporary mapping, of which there are two: one for
   paging.c itself and one for its callers.  The translations that the processor
   remembers (its TLB) are part of the state: a change of a mapping has to invalidate
   them.  Frames that are not tables hold garbage, which looks like entries.  Callers are
   commitVirtualPages and kvmm_free of vmm.c, k_memcpyToPhyMem and the creation and
   deletion of processes. *)
EXTENDS Integers, FiniteSetsExt, Functions

CONSTANTS
  Frames,     \* page frames, numbers
  KERNEL_PD,  \* the kernel's page directory
  KERNEL_PT,  \* the kernel's page table, which all page directories share
  Pages,      \* pages of a process, numbers
  SIZE,       \* the entries of a page directory or a page table
  KERNEL_PDE_INDEX,  \* the first of the kernel's own entries; those before are the process's
  MaxRun,     \* the most pages committed by one call
  NONE        \* no entry

RECURSIVE_PDE_INDEX == SIZE - 1
EXTERN == KERNEL_PDE_INDEX * SIZE + SIZE - 2
INTERNAL == KERNEL_PDE_INDEX * SIZE + SIZE - 1
Slots == {INTERNAL, EXTERN}
Indices == 0 .. SIZE - 1
Entries == [frame : Frames, user : BOOLEAN]
Panics == {"AlreadyPresent", "NotPresent", "AllocationFailed", "PageFault"}

ASSUME FramesAssumption == /\ Frames \subseteq Nat
                           /\ {KERNEL_PD, KERNEL_PT} \subseteq Frames /\ KERNEL_PD # KERNEL_PT
ASSUME SizesAssumption == /\ SIZE \in Nat /\ KERNEL_PDE_INDEX \in 1 .. SIZE - 2
                          /\ MaxRun \in Nat
                          /\ Pages \subseteq 0 .. KERNEL_PDE_INDEX * SIZE - 1
ASSUME NamesAssumption == NONE \notin Frames /\ NONE \notin Entries /\ NONE \notin Panics

VARIABLES
  mem,        \* entries in every frame
  free,       \* frames that are not allocated
  slot,       \* frames of the temporary mappings, those of paging.c and of its callers
  tlb,        \* translations that the processor remembers
  pds,        \* page directories of processes
  cr3,        \* the current page directory
  panic       \* why the kernel has halted

vars == <<mem, free, slot, tlb, pds, cr3, panic>>

Entry(f, user) == [frame |-> f, user |-> user]
Zeros == [i \in Indices |-> NONE]
Garbage(f) == [i \in Indices |-> Entry(f, TRUE)]
pdeIndex(p) == p \div SIZE
pteIndex(p) == p % SIZE
----------------------------------------------------------------------------
(* Functions of paging.c on a record of mem, free, slot, tlb and panic. *)

\* Through a temporary mapping the processor uses the translation it remembers.
Through(m, s) == IF m.tlb[s] # NONE THEN m.tlb[s] ELSE m.slot[s]
Load(m, s, i) == LET f == Through(m, s) IN IF f = NONE THEN NONE ELSE m.mem[f][i]
Touched(m, s) == [m EXCEPT !.tlb[s] = Through(m, s)]
Written(m, s, content) ==
  IF Through(m, s) = NONE THEN [m EXCEPT !.panic = "PageFault"]
  ELSE [Touched(m, s) EXCEPT !.mem[Through(m, s)] = content]
Store(m, s, i, e) ==
  IF Through(m, s) = NONE THEN [m EXCEPT !.panic = "PageFault"]
  ELSE [Touched(m, s) EXCEPT !.mem[Through(m, s)][i] = e]
x86_TLB_INVAL_SINGLE(m, a) == [m EXCEPT !.tlb[a] = NONE]

s_temporaryMap(m, s, f) ==
  IF m.slot[s] # NONE THEN [m EXCEPT !.panic = "AlreadyPresent"]
  ELSE x86_TLB_INVAL_SINGLE([m EXCEPT !.slot[s] = f], s)

Mut_s_temporaryUnmap(m, s) ==
  IF m.slot[s] = NONE THEN [m EXCEPT !.panic = "NotPresent"]
  ELSE [m EXCEPT !.slot[s] = NONE]
s_temporaryUnmap(m, s) ==
  IF m.slot[s] = NONE THEN [m EXCEPT !.panic = "NotPresent"]
  ELSE x86_TLB_INVAL_SINGLE([m EXCEPT !.slot[s] = NONE], s)

kpmm_alloc(m) == Min(m.free)
Allocated(m) == [m EXCEPT !.free = @ \ {kpmm_alloc(m)}]

\* A page table, cleared, that the entry of page p in the page directory refers to.
Mut_NewTable(m, p, user) ==
  LET pa_new == kpmm_alloc(m)
  IN x86_TLB_INVAL_SINGLE(Store(Allocated(m), EXTERN, pdeIndex(p), Entry(pa_new, user)), p)
NewTable(m, p, user) ==
  LET pa_new == kpmm_alloc(m)
      a == s_temporaryMap(Allocated(m), INTERNAL, pa_new)
      b == s_temporaryUnmap(Written(a, INTERNAL, Zeros), INTERNAL)
  IN x86_TLB_INVAL_SINGLE(Store(b, EXTERN, pdeIndex(p), Entry(pa_new, user)), p)

\* pd is at the temporary mapping EXTERN.  Without memory for a page table the kernel panics.
kpg_map(m, p, f, user) ==
  IF m.panic # NONE THEN m
  ELSE IF Load(m, EXTERN, pdeIndex(p)) = NONE /\ m.free = {}
  THEN [m EXCEPT !.panic = "AllocationFailed"]
  ELSE LET a == IF Load(m, EXTERN, pdeIndex(p)) = NONE THEN NewTable(m, p, user) ELSE Touched(m, EXTERN)
           b == s_temporaryMap(a, INTERNAL, Load(a, EXTERN, pdeIndex(p)).frame)
       IN IF Load(b, INTERNAL, pteIndex(p)) # NONE THEN s_temporaryUnmap(Touched(b, INTERNAL), INTERNAL)
          ELSE s_temporaryUnmap(x86_TLB_INVAL_SINGLE(
                 Store(b, INTERNAL, pteIndex(p), Entry(f, user)), p), INTERNAL)

\* Page p of the page directory at EXTERN, or NONE, and the state when it has been looked up.
Table(m, p) == s_temporaryMap(Touched(m, EXTERN), INTERNAL, Load(m, EXTERN, pdeIndex(p)).frame)
kpg_doesMappingExists(m, p) ==
  IF Load(m, EXTERN, pdeIndex(p)) = NONE THEN NONE ELSE Load(Table(m, p), INTERNAL, pteIndex(p))
LookedUp(m, p) ==
  IF Load(m, EXTERN, pdeIndex(p)) = NONE THEN Touched(m, EXTERN)
  ELSE s_temporaryUnmap(Touched(Table(m, p), INTERNAL), INTERNAL)

Mut_kpg_unmap(m, p) == x86_TLB_INVAL_SINGLE(Store(Table(m, p), INTERNAL, pteIndex(p), NONE), p)
kpg_unmap(m, p) ==
  s_temporaryUnmap(x86_TLB_INVAL_SINGLE(Store(Table(m, p), INTERNAL, pteIndex(p), NONE), p), INTERNAL)

\* A new page directory with the kernel's entries, and an entry for itself.
kpg_setupPageDirectory(m) ==
  LET pd == kpmm_alloc(m)
      a == Written(s_temporaryMap(Allocated(m), INTERNAL, pd), INTERNAL, Zeros)
      b == s_temporaryMap(a, EXTERN, KERNEL_PD)
      c == Written(b, INTERNAL, [i \in Indices |-> IF i >= KERNEL_PDE_INDEX THEN Load(b, EXTERN, i)
                                                ELSE Load(b, INTERNAL, i)])
      d == s_temporaryUnmap(Touched(c, EXTERN), EXTERN)
      r == Store(d, INTERNAL, RECURSIVE_PDE_INDEX,
                 [Load(d, INTERNAL, RECURSIVE_PDE_INDEX) EXCEPT !.frame = pd])
  IN s_temporaryUnmap(r, INTERNAL)

\* Frames fs are free again, and hold anything.
Returned(m, fs) == [m EXCEPT !.free = @ \cup fs,
                             !.mem = [f \in Frames |-> IF f \in fs THEN Garbage(f) ELSE @[f]]]

\* The page tables of the process and the page directory are freed, until one cannot be.
Mut_kpg_deletePageDirectory(m, pd) ==
  [s_temporaryUnmap(s_temporaryMap(m, INTERNAL, pd), INTERNAL) EXCEPT !.free = @ \cup {pd}]
kpg_deletePageDirectory(m, pd) ==
  LET a == Touched(s_temporaryMap(m, INTERNAL, pd), INTERNAL)
      table(i) == Load(a, INTERNAL, i)
      before(i) == {table(j).frame : j \in {k \in 0 .. i - 1 : table(k) # NONE}}
      failing == {i \in 0 .. KERNEL_PDE_INDEX - 1 : table(i) # NONE /\ table(i).frame \in m.free \cup before(i)}
  IN IF failing # {} THEN Returned(a, before(Min(failing)))
     ELSE Returned(s_temporaryUnmap(a, INTERNAL), before(KERNEL_PDE_INDEX) \cup {pd})
----------------------------------------------------------------------------
State == [mem |-> mem, free |-> free, slot |-> slot, tlb |-> tlb, panic |-> panic]
Becomes(m) == mem' = m.mem /\ free' = m.free /\ slot' = m.slot /\ tlb' = m.tlb /\ panic' = m.panic

Forgotten == [a \in Slots \cup Pages |-> NONE]

Init ==
  /\ mem = [f \in Frames |-> IF f = KERNEL_PD
              THEN [Zeros EXCEPT ![KERNEL_PDE_INDEX] = Entry(KERNEL_PT, FALSE),
                                 ![RECURSIVE_PDE_INDEX] = Entry(KERNEL_PD, FALSE)]
              ELSE IF f = KERNEL_PT THEN Zeros ELSE Garbage(f)]
  /\ free = Frames \ {KERNEL_PD, KERNEL_PT}
  /\ slot = [s \in Slots |-> NONE]
  /\ tlb = Forgotten
  /\ pds = {} /\ cr3 = KERNEL_PD /\ panic = NONE

Running == panic = NONE

\* What the page directory d says of page p.
Walk(d, p) == LET e == mem[d][pdeIndex(p)] IN IF e = NONE THEN NONE ELSE mem[e.frame][pteIndex(p)]

\* s_setupProcessAddressSpace of a process; out of memory it reports an error.
CreateProcess ==
  /\ Running /\ free # {}
  /\ Becomes(kpg_setupPageDirectory(State))
  /\ pds' = pds \cup {kpmm_alloc(State)}
  /\ UNCHANGED cr3

\* commitVirtualPages: frames that follow each other, mapped one by one.  vmm.c calls it
\* for pages that are not mapped.
Runs(n) == {f \in free : f .. f + n - 1 \subseteq free}

kpg_mapContinous(m, p, f, n, user) ==
  LET step[i \in 0..n] == IF i = 0 THEN m ELSE kpg_map(step[i - 1], p + i - 1, f + i - 1, user)
  IN step[n]

commitVirtualPages(d, p, n, user) ==
  /\ Running /\ d \in pds /\ p .. p + n - 1 \subseteq Pages
  /\ \A q \in p .. p + n - 1 : Walk(d, q) = NONE
  /\ Runs(n) # {}
  /\ LET f == Min(Runs(n))
         a == s_temporaryMap([State EXCEPT !.free = @ \ (f .. f + n - 1)], EXTERN, d)
     IN Becomes(LET b == kpg_mapContinous(a, p, f, n, user)
                IN IF b.panic # NONE THEN b ELSE s_temporaryUnmap(b, EXTERN))
  /\ UNCHANGED <<pds, cr3>>

\* kvmm_free: those of the n pages from p on that are mapped are unmapped and their frames freed.
FreedPage(m, p) ==
  LET e == kpg_doesMappingExists(m, p)
  IN IF e = NONE THEN LookedUp(m, p)
     ELSE [kpg_unmap(LookedUp(m, p), p) EXCEPT !.free = @ \cup {e.frame}]
Freed(m, p, n) ==
  LET step[i \in 0..n] == IF i = 0 THEN m
                         ELSE IF p + i - 1 \in Pages THEN FreedPage(step[i - 1], p + i - 1)
                         ELSE step[i - 1]
  IN step[n]
Released(d, p, n) == s_temporaryUnmap(Freed(s_temporaryMap(State, EXTERN, d), p, n), EXTERN)

kvmm_free(d, p, n) ==
  /\ Running /\ d \in pds
  /\ Becomes(Released(d, p, n))
  /\ UNCHANGED <<pds, cr3>>

\* kvmm_delete and kpg_deletePageDirectory, for a process that does not run.
DeleteProcess(d) ==
  /\ Running /\ d \in pds \ {cr3}
  /\ Becomes(kpg_deletePageDirectory(Released(d, 0, KERNEL_PDE_INDEX * SIZE), d))
  /\ pds' = pds \ {d}
  /\ UNCHANGED cr3

\* A context switch loads CR3, which empties the TLB.
Switch(d) ==
  /\ Running /\ d \in (pds \cup {KERNEL_PD}) \ {cr3}
  /\ cr3' = d /\ tlb' = Forgotten
  /\ UNCHANGED <<mem, free, slot, pds, panic>>

\* Where the processor finds page p of the running process.
Translation(p) == IF tlb[p] # NONE THEN tlb[p] ELSE Walk(cr3, p)

\* The running process writes to a page: anything may be in its frame now.
Access(p) ==
  /\ Running /\ cr3 # KERNEL_PD
  /\ LET e == Translation(p)
     IN /\ e # NONE
        /\ tlb' = [tlb EXCEPT ![p] = e]
        /\ mem' = [mem EXCEPT ![e.frame] = Garbage(e.frame)]
  /\ UNCHANGED <<free, slot, pds, cr3, panic>>

\* k_memcpyToPhyMem writes to the frame of a page that was just committed.  It reads from
\* memory of the kernel, or from a page q of the running process whose address came with
\* a system call.
SourceRead(m, q) == [m EXCEPT !.tlb[q] = Translation(q)]
Copied(m, f) == s_temporaryUnmap(Written(m, EXTERN, Garbage(f)), EXTERN)
k_memcpyToPhyMem(d, p) ==
  /\ Running /\ d \in pds /\ Walk(d, p) # NONE
  /\ LET f == Walk(d, p).frame
         a == s_temporaryMap(State, EXTERN, f)
     IN \/ Becomes(Copied(a, f))
        \/ \E q \in Pages : /\ cr3 # KERNEL_PD /\ Translation(q) # NONE
                            /\ Becomes(Copied(SourceRead(a, q), f))
  /\ UNCHANGED <<pds, cr3>>

\* The page it reads from is not there: the page fault strikes while the temporary mapping
\* is in use.  Either nothing is reserved at q or no frame is left, and the handler panics,
\* or commitVirtualPages has a frame for q and needs the temporary mapping itself.
CopyFaults(d, p) ==
  /\ Running /\ d \in pds /\ Walk(d, p) # NONE
  /\ cr3 # KERNEL_PD /\ \E q \in Pages : Translation(q) = NONE
  /\ LET a == s_temporaryMap(State, EXTERN, Walk(d, p).frame)
     IN \/ Becomes([a EXCEPT !.panic = "PageFault"])
        \/ free # {} /\ Becomes(s_temporaryMap(Allocated(a), EXTERN, cr3))
  /\ UNCHANGED <<pds, cr3>>

Halted == ~Running /\ UNCHANGED vars

Next == \/ CreateProcess \/ Halted
        \/ \E d \in pds : \/ DeleteProcess(d)
                          \/ \E p \in Pages : k_memcpyToPhyMem(d, p) \/ CopyFaults(d, p)
                          \/ \E p \in Pages, n \in 1..MaxRun, user \in BOOLEAN : commitVirtualPages(d, p, n, user)
                          \/ \E p \in Pages, n \in 1..MaxRun : kvmm_free(d, p, n)
        \/ \E d \in pds \cup {KERNEL_PD} : Switch(d)
        \/ \E p \in Pages : Access(p)
Spec == Init /\ [][Next]_vars
----------------------------------------------------------------------------
(* No call leaves a temporary mapping behind, and none meets one in use or misses one,
   although commitVirtualPages holds that of the callers while kpg_map uses the other, and
   kpg_setupPageDirectory uses both.  The one exception is k_memcpyToPhyMem, which reads
   from its caller's address while it holds the temporary mapping of the callers: a page
   fault there halts the kernel.  So the kernel halts for want of a frame for a page table,
   or in the middle of such a copy, and never otherwise. *)
CopyInterrupted ==
  /\ panic \in {"AlreadyPresent", "PageFault"} /\ slot[INTERNAL] = NONE
  /\ \E d \in pds, p \in Pages : Walk(d, p) # NONE /\ slot[EXTERN] = Walk(d, p).frame
SlotsUsedInTurn ==
  /\ panic \in {NONE, "AllocationFailed"} \/ CopyInterrupted
  /\ Running => \A s \in Slots : slot[s] = NONE

(* The processor remembers no translation that the tables of the current page directory
   contradict: whatever is unmapped or mapped anew is invalidated. *)
TlbFresh == Running =>
  /\ \A p \in Pages : tlb[p] # NONE => tlb[p] = Walk(cr3, p)
  /\ \A s \in Slots : tlb[s] = NONE

(* Page directories, page tables and mapped pages have a frame each that is allocated and
   that nothing else has, and all frames that are allocated are among them; every page
   directory has the kernel's page table and an entry for itself. *)
Uses ==
  {<<"directory", d, 0>> : d \in pds \cup {KERNEL_PD}} \cup {<<"table", KERNEL_PD, KERNEL_PDE_INDEX>>}
  \cup {u \in {"table"} \X pds \X (0 .. KERNEL_PDE_INDEX - 1) : mem[u[2]][u[3]] # NONE}
  \cup {u \in {"page"} \X pds \X Pages : Walk(u[2], u[3]) # NONE}
FrameOf == [u \in Uses |-> CASE u[1] = "directory" -> u[2]
                             [] u[1] = "table" -> mem[u[2]][u[3]].frame
                             [] u[1] = "page" -> Walk(u[2], u[3]).frame]
FramesAccounted == Running =>
  /\ Range(FrameOf) = Frames \ free
  /\ IsInjective(FrameOf)
  /\ \A d \in pds : /\ mem[d][KERNEL_PDE_INDEX] = Entry(KERNEL_PT, FALSE)
                    /\ mem[d][RECURSIVE_PDE_INDEX] = Entry(d, FALSE)

(* Paging implements its abstract specification: seen through the tables in memory, a
   call changes the mappings of the pages it names and no others. *)
Maps == [d \in pds \cup {KERNEL_PD} |-> [p \in Pages |-> Walk(d, p)]]
Abstract == INSTANCE PageMap WITH maps <- Maps
PageMapSpec == Abstract!Spec
============================================================================
