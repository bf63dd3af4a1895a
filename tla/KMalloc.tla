------------------------------ MODULE KMalloc ------------------------------
(***************************************************************************)
(* The kernel's heap allocator (src/kernel/kmalloc.c). The buffer is cut   *)
(* into sections, each with a KMallocHeader at its start; the headers are  *)
(* linked in the adjacent list and in either the free or the allocated     *)
(* list. An address is the offset of a byte in the buffer.                 *)
(***************************************************************************)
EXTENDS Naturals, Sequences, IntrusiveList

CONSTANTS
  Buffer,     \* ARCH_MEM_LEN_BYTES_KMALLOC
  Header,     \* sizeof (KMallocHeader)
  Requests    \* sizes that callers ask for

ASSUME HeaderAssumption == Header \in Nat /\ Header > 0
ASSUME BufferAssumption == Buffer \in Nat /\ Buffer >= Header
ASSUME RequestsAssumption == Requests \subseteq Nat

Addr == 0..Buffer

VARIABLES
  s_adj, s_free, s_alloc,     \* the lists of s_adjHead, s_freeHead, s_allocHead
  netNodeSize, isAllocated,   \* the fields of the header at each address
  requested                   \* history: the bytes asked for, of each block

vars == <<s_adj, s_free, s_alloc, netNodeSize, isAllocated, requested>>

NET_ALLOCATION_SIZE(bytes) == bytes + Header

\* kmalloc_init: one free section fills the buffer.
Init ==
  /\ s_adj = <<0>>
  /\ s_free = <<0>>
  /\ s_alloc = <<>>
  /\ netNodeSize = [a \in Addr |-> IF a = 0 THEN Buffer ELSE 0]
  /\ isAllocated = [a \in Addr |-> FALSE]
  /\ requested = [a \in Addr |-> 0]

\* No header is accounted for.
Mut_Fits(node, bytes) == netNodeSize[node] >= bytes

\* Does node hold the block, its header, and one more header?
Fits(node, bytes) == netNodeSize[node] >= NET_ALLOCATION_SIZE(bytes) + Header

\* Cuts node in two: the first part is allocated, the rest takes its place in
\* the free list.
s_splitFreeNode(bytes, node) ==
  LET net  == NET_ALLOCATION_SIZE(bytes)
      rest == node + net
  IN  /\ netNodeSize' = [netNodeSize EXCEPT ![node] = net, ![rest] = netNodeSize[node] - net]
      /\ isAllocated' = [isAllocated EXCEPT ![node] = TRUE, ![rest] = FALSE]
      /\ s_free' = list_remove(list_add_after(s_free, node, rest), node)
      /\ s_adj' = list_add_after(s_adj, node, rest)
      /\ s_alloc' = Append(s_alloc, node)

\* The first section of the free list that is large enough is split. If there is
\* none the call returns NULL and changes nothing.
kmalloc(bytes) ==
  \E i \in 1..Len(s_free) :
    /\ Fits(s_free[i], bytes)
    /\ \A j \in 1..(i - 1) : ~Fits(s_free[j], bytes)
    /\ s_splitFreeNode(bytes, s_free[i])
    /\ requested' = [requested EXCEPT ![s_free[i]] = bytes]

\* The last section, or the first one, is taken for the head of the list.
Mut_NextIsFree(i) == i < Len(s_adj) - 1 /\ ~isAllocated[s_adj[i + 1]]
Mut_PrevIsFree(i) == i > 2 /\ ~isAllocated[s_adj[i - 1]]

\* Is there a free section right behind, or right before, the one at index i of
\* the adjacent list? The head of the list is no section.
NextIsFree(i) == i < Len(s_adj) /\ ~isAllocated[s_adj[i + 1]]
PrevIsFree(i) == i > 1 /\ ~isAllocated[s_adj[i - 1]]

\* The list without the sections that s_combineAdjFreeNodes merges away.
Combined(list, i) ==
  LET kept == IF NextIsFree(i) THEN list_remove(list, s_adj[i + 1]) ELSE list
  IN  IF PrevIsFree(i) THEN list_remove(kept, s_adj[i]) ELSE kept

\* What the section that was freed measures together with a free one behind it.
GrownSize(i) ==
  netNodeSize[s_adj[i]] + IF NextIsFree(i) THEN netNodeSize[s_adj[i + 1]] ELSE 0

\* Section sizes after s_combineAdjFreeNodes; what is left in the headers of
\* merged sections is never read again and set to 0 here.
CombinedSize(i) ==
  [a \in Addr |->
     IF NextIsFree(i) /\ a = s_adj[i + 1] THEN 0
     ELSE IF PrevIsFree(i) /\ a = s_adj[i - 1] THEN netNodeSize[a] + GrownSize(i)
     ELSE IF a = s_adj[i] THEN (IF PrevIsFree(i) THEN 0 ELSE GrownSize(i))
     ELSE netNodeSize[a]]

\* Any other address is refused (ERR_DOUBLE_FREE) and nothing changes.
kfree(node) ==
  /\ node \in Items(s_alloc)
  /\ s_alloc' = list_remove(s_alloc, node)
  /\ isAllocated' = [isAllocated EXCEPT ![node] = FALSE]
  /\ requested' = [requested EXCEPT ![node] = 0]
  /\ LET i == At(s_adj, node)
     IN  /\ s_free' = Combined(<<node>> \o s_free, i)
         /\ s_adj' = Combined(s_adj, i)
         /\ netNodeSize' = CombinedSize(i)

Next == \/ \E bytes \in Requests : kmalloc(bytes)
        \/ \E node \in Addr : kfree(node)

Spec == Init /\ [][Next]_vars

-----------------------------------------------------------------------------
(* Invariants *)

\* Every variable has its type.
TypeOK ==
  /\ s_adj \in Seq(Addr) /\ s_free \in Seq(Addr) /\ s_alloc \in Seq(Addr)
  /\ netNodeSize \in [Addr -> Addr]
  /\ isAllocated \in [Addr -> BOOLEAN]
  /\ requested \in [Addr -> Nat]

\* "It is very important that the whole buffer is accounted for": the sections of
\* the adjacent list follow each other without gap or overlap, from the first
\* byte of the buffer to the last, each has room for its header, and a section
\* ends before every section that follows it in the list begins.
Tiling ==
  /\ Len(s_adj) > 0 /\ s_adj[1] = 0
  /\ \A i \in 1..Len(s_adj) :
       /\ netNodeSize[s_adj[i]] >= Header
       /\ s_adj[i] + netNodeSize[s_adj[i]] =
            IF i = Len(s_adj) THEN Buffer ELSE s_adj[i + 1]
  /\ \A i, j \in 1..Len(s_adj) :
       i < j => s_adj[i] + netNodeSize[s_adj[i]] <= s_adj[j]

\* Every section is in exactly one of the free and the allocated list, once, and
\* its isAllocated field says in which.
ListsAgree ==
  /\ NoRepeats(s_free) /\ NoRepeats(s_alloc)
  /\ Items(s_adj) = Items(s_free) \cup Items(s_alloc)
  /\ \A a \in Items(s_free) : ~isAllocated[a]
  /\ \A a \in Items(s_alloc) : isAllocated[a]

\* Fragmentation is kept down: no free section follows another free section.
Coalesced ==
  \A i \in 1..(Len(s_adj) - 1) : isAllocated[s_adj[i]] \/ isAllocated[s_adj[i + 1]]

\* "There will always be one Free section at the end of kmalloc buffer."
EndIsFree == ~isAllocated[s_adj[Len(s_adj)]]

\* "Allocates at least 'bytes' number of bytes."
LargeEnough ==
  \A a \in Items(s_alloc) : netNodeSize[a] >= requested[a] + Header

\* The buffer and its three lists are in order after every call, whichever neighbours
\* of a block were free when it was freed.
SectionsOK == TypeOK /\ Tiling /\ ListsAgree /\ Coalesced /\ LargeEnough

\* When everything has been freed the whole buffer can be allocated again.
NothingLost == s_alloc = <<>> => s_free = <<0>> /\ netNodeSize[0] = Buffer

-----------------------------------------------------------------------------
(* The heap that callers see *)

blocks == {<<a + Header, requested[a]>> : a \in Items(s_alloc)}

H == INSTANCE Heap WITH Size <- Buffer, Lengths <- Requests, blocks <- blocks

\* Every behaviour of kmalloc and kfree is one of the abstract heap.
HeapSpec == H!Spec
=============================================================================
