-------------------------------- MODULE Pmm --------------------------------
(***************************************************************************)
(* The physical memory manager: src/kernel/pmm.c, src/kernel/x86/pmm.c and *)
(* the bitmap of src/kernel/bitmap.c, the page allocation bitmap (PAB).    *)
(*                                                                         *)
(* Addresses and lengths of the memory map are in bytes, everything else   *)
(* is in page frames. The two bits of a page frame in the PAB are its      *)
(* state. Pages are allocated in runs and freed one by one.                *)
(***************************************************************************)
EXTENDS Integers, FiniteSets, Sequences

CONSTANTS
  PAGE,         \* CONFIG_PAGE_FRAME_SIZE_BYTES
  CAPACITY,     \* MAX_PAB_ADDRESSABLE_PAGE_COUNT
  Maps,         \* memory maps that the boot loader may pass
  LOW,          \* page frames of the kernel's low region
  ModuleFirst, ModuleCount,   \* page frames of the module files
  MaxRun        \* bound: pages that are allocated at once

ASSUME SizesAssumption ==
  /\ \A n \in {PAGE, CAPACITY, LOW, ModuleCount, MaxRun} : n \in Nat /\ n > 0
  /\ ModuleFirst \in Nat
ASSUME MapsAssumption == Maps \subseteq Seq([free : BOOLEAN, base : Nat, length : Nat])

VARIABLES
  items,        \* the memory map
  pab,
  next,         \* the next item of the memory map that s_markFreeMemory looks at
  inUse,        \* history: page frames that somebody has allocated
  pc

vars == <<items, pab, next, inUse, pc>>

FrameSet == 0..(CAPACITY - 1)
Panics   == {"double free", "double allocation", "reserved", "outside range", "out of range",
             "low region taken", "modules taken"}
Run(f, n) == f..(f + n - 1)
MinOf(a, b) == IF a < b THEN a ELSE b
MaxOf(a, b) == IF a > b THEN a ELSE b

\* k_memset with 0xAA.
Init ==
  /\ items \in Maps
  /\ pab = [f \in FrameSet |-> "RESERVED"]
  /\ next = 1
  /\ inUse = {}
  /\ pc = "mark"

-----------------------------------------------------------------------------
(* Sizes *)

\* The lengths of all items of the map are added up.
kboot_calculateInstalledMemory(map) ==
  LET sum[i \in 0..Len(map)] == IF i = 0 THEN 0 ELSE sum[i - 1] + map[i].length
  IN  sum[Len(map)]

kpmm_getUsableMemorySize == MinOf(kboot_calculateInstalledMemory(items), CAPACITY * PAGE)
UsableFrames == kpmm_getUsableMemorySize \div PAGE

kpmm_getFreeMemorySize == PAGE * Cardinality({f \in 1..(UsableFrames - 1) : pab[f] = "FREE"})

\* s_verifyChange, for setting frame f to state new. KERNEL_PHASE_STATE_PMM_READY
\* begins when all of the memory map is marked.
Verdict(f, new) ==
  IF f > UsableFrames THEN "outside range"
  ELSE IF pab[f] = "USED" /\ new = "USED" THEN "double allocation"
  ELSE IF pab[f] = "FREE" /\ new = "FREE" THEN "double free"
  ELSE IF pc # "mark" /\ pab[f] = "RESERVED" THEN "reserved"
  ELSE "ok"

\* bitmap_setContinous. It sets the frames in order, and panics at the first one that
\* s_verifyChange refuses; otherwise the kernel goes on at label then.
SetContinous(fs, new, then) ==
  LET bad == {f \in fs : Verdict(f, new) # "ok"}
      stop == CHOOSE f \in bad : \A g \in bad : f <= g
      done == {f \in fs : \A g \in bad : f < g}
  IN  /\ pab' = [f \in FrameSet |-> IF f \in done THEN new ELSE pab[f]]
      /\ pc' = IF bad = {} THEN then ELSE Verdict(stop, new)

-----------------------------------------------------------------------------
(* Initialisation *)

\* Sections that start beyond memory are not skipped.
Mut_Skipped(item) == ~item.free \/ item.length = 0

Skipped(item) ==
  ~item.free \/ item.length = 0 \/ item.base >= kpmm_getUsableMemorySize

\* A section is rounded up to whole pages.
Mut_FramesOf(item) ==
  LET last == MinOf(kpmm_getUsableMemorySize - 1, item.base + item.length - 1)
  IN  Run(item.base \div PAGE, (last - item.base + PAGE) \div PAGE)

\* The frames of a section, cut off at the end of memory; at least one.
FramesOf(item) ==
  LET last == MinOf(kpmm_getUsableMemorySize - 1, item.base + item.length - 1)
  IN  Run(item.base \div PAGE, MaxOf(PAGE, last - item.base + 1) \div PAGE)

\* One round of s_markFreeMemory.
MarkFree ==
  /\ pc = "mark"
  /\ next <= Len(items)
  /\ next' = next + 1
  /\ IF Skipped(items[next]) THEN UNCHANGED <<pab, pc>>
     ELSE SetContinous(FramesOf(items[next]), "FREE", "mark")
  /\ UNCHANGED <<items, inUse>>

PmmReady ==
  /\ pc = "mark"
  /\ next > Len(items)
  /\ pc' = "low"
  /\ UNCHANGED <<items, pab, next, inUse>>

-----------------------------------------------------------------------------
(* Allocation *)

\* Only the first frame of the run has to be free.
Mut_AllFree(f, n) == pab[f] = "FREE"

\* bitmap_findContinousAt
AllFree(f, n) == f + n <= CAPACITY /\ \A g \in Run(f, n) : pab[g] = "FREE"

\* The check that refuses addresses beyond the usable memory.
InRange(f, n) == (f + n) * PAGE - 1 < kpmm_getUsableMemorySize

\* kpmm_allocAt of the regions that the kernel knows to be in use.
kpmm_allocAt(f, n, where, then, panic) ==
  /\ pc = where
  /\ IF InRange(f, n) /\ AllFree(f, n)
     THEN SetContinous(Run(f, n), "USED", then) /\ inUse' = inUse \cup Run(f, n)
     ELSE UNCHANGED <<pab, inUse>> /\ pc' = panic
  /\ UNCHANGED <<items, next>>

\* bitmap_findContinous: the first run of n free frames.
Candidates(n) == {f \in FrameSet : AllFree(f, n)}

\* A request that nothing can satisfy changes nothing (ERR_OUT_OF_MEM).
kpmm_alloc(n) ==
  LET f == CHOOSE f \in Candidates(n) : \A g \in Candidates(n) : f <= g
  IN  /\ pc = "ready"
      /\ Candidates(n) # {}
      /\ IF f < UsableFrames
         THEN SetContinous(Run(f, n), "USED", "ready") /\ inUse' = inUse \cup Run(f, n)
         ELSE UNCHANGED <<pab, inUse>> /\ pc' = "out of range"
      /\ UNCHANGED <<items, next>>

BootFrames == Run(0, LOW) \cup Run(ModuleFirst, ModuleCount)

\* Callers free what kpmm_alloc has given them, never the regions taken at boot. An
\* address beyond the memory is refused and changes nothing.
kpmm_free(f) ==
  /\ pc = "ready"
  /\ f \in inUse \ BootFrames
  /\ InRange(f, 1)
  /\ SetContinous({f}, "FREE", "ready")
  /\ inUse' = inUse \ {f}
  /\ UNCHANGED <<items, next>>

Next ==
  \/ MarkFree \/ PmmReady
  \/ kpmm_allocAt(0, LOW, "low", "modules", "low region taken")
  \/ kpmm_allocAt(ModuleFirst, ModuleCount, "modules", "ready", "modules taken")
  \/ \E n \in 1..MaxRun : kpmm_alloc(n)
  \/ \E f \in FrameSet : kpmm_free(f)

Spec == Init /\ [][Next]_vars

-----------------------------------------------------------------------------
(* Properties *)

\* Every variable has its type.
TypeOK ==
  /\ items \in Maps
  /\ pab \in [FrameSet -> {"FREE", "USED", "RESERVED"}]
  /\ next \in 1..(Len(items) + 1)
  /\ inUse \subseteq FrameSet
  /\ pc \in {"mark", "low", "modules", "ready"} \cup Panics

Bytes(f) == Run(f * PAGE, PAGE)

\* No byte of a frame that is free or was handed out lies outside of the sections
\* that the memory map calls free, or beyond the installed memory.
OnlyFreeMemory ==
  \A f \in FrameSet : pab[f] # "RESERVED" =>
    /\ f < UsableFrames
    /\ \A b \in Bytes(f) :
         \E i \in 1..Len(items) : items[i].free /\ b \in Run(items[i].base, items[i].length)

\* A frame is marked as used exactly while somebody has it, so it is never handed
\* out twice.
UsedIsOwned == \A f \in FrameSet : pab[f] = "USED" <=> f \in inUse

\* The free memory that the kernel reports is what can be allocated, although it
\* counts from frame 1: the low region of the kernel holds frame 0.
FreeSizeRight ==
  pc = "ready" => kpmm_getFreeMemorySize = PAGE * Cardinality({f \in FrameSet : pab[f] = "FREE"})

\* Who has which page frame, and how many are left, is known at any time.
MemoryKnown == TypeOK /\ UsedIsOwned /\ FreeSizeRight

\* The memory maps of this kind never make the kernel panic: not while they are marked,
\* not at a later allocation or release.
NoPanic == pc \notin Panics

-----------------------------------------------------------------------------
(* The memory maps for which these properties are stated *)

\* All of the frame lies in the section.
Within(f, item) == item.base <= f * PAGE /\ f * PAGE + PAGE <= item.base + item.length

\* The installed memory is a number of whole pages; free sections begin at pages, are at
\* least a page long and do not overlap; the frames that are taken at boot are in them.
RegularMap(map) ==
  /\ kboot_calculateInstalledMemory(map) % PAGE = 0
  /\ \A i \in 1..Len(map) :
       map[i].free /\ map[i].length > 0 => map[i].base % PAGE = 0 /\ map[i].length >= PAGE
  /\ \A i, j \in 1..Len(map) :
       i # j /\ map[i].free /\ map[j].free =>
         \/ map[i].base + map[i].length <= map[j].base
         \/ map[j].base + map[j].length <= map[i].base
  /\ \A f \in BootFrames :
       /\ f < CAPACITY /\ f * PAGE + PAGE <= kboot_calculateInstalledMemory(map)
       /\ \E i \in 1..Len(map) : map[i].free /\ Within(f, map[i])

\* Only such maps are passed, and the module files are not in the kernel's low region.
RegularMaps ==
  /\ \A map \in Maps : RegularMap(map)
  /\ Run(0, LOW) \cap Run(ModuleFirst, ModuleCount) = {}

=============================================================================
