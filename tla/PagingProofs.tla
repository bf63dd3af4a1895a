---------------------------- MODULE PagingProofs ----------------------------
(* Page directories, temporary mappings and the TLB, for every number of frames, pages
   and entries of a table. *)
EXTENDS Paging, ListProofs, FiniteSetTheorems

-----------------------------------------------------------------------------
(* Numbers *)

\* The least number of a set is in the set.
LEMMA MinIn ==
  ASSUME NEW S, S \subseteq Nat, S # {}
  PROVE  Min(S) \in S
<1>1. \E x \in S : \A y \in S : x <= y  BY LeastNumber
<1>. QED  BY <1>1 DEF Min

\* A page of the process has its place in the lower part of a page directory, no other
\* page has the same, and it is none of the temporary mappings.
LEMMA PageIndices ==
  ASSUME NEW p \in Pages
  PROVE  /\ pdeIndex(p) \in 0 .. KERNEL_PDE_INDEX - 1 /\ pdeIndex(p) \in Indices
         /\ pteIndex(p) \in Indices
         /\ p \notin Slots /\ p \in Nat
<1>1. /\ SIZE \in Nat /\ SIZE > 0 /\ KERNEL_PDE_INDEX \in Nat /\ KERNEL_PDE_INDEX <= SIZE - 2
      /\ p \in Nat /\ p < KERNEL_PDE_INDEX * SIZE
  BY SizesAssumption
<1>2. PICK q \in Nat, r \in 0..(SIZE - 1) : q = p \div SIZE /\ r = p % SIZE /\ p = SIZE * q + r
  BY <1>1, DivMod
<1>3. q < KERNEL_PDE_INDEX
  <2>1. SUFFICES ASSUME q >= KERNEL_PDE_INDEX PROVE FALSE  BY <1>1
  <2>2. SIZE * q >= SIZE * KERNEL_PDE_INDEX  BY <1>1, <2>1
  <2>. QED  BY <1>1, <1>2, <2>2
<1>4. KERNEL_PDE_INDEX * SIZE \in Nat  BY <1>1
<1>5. p \notin Slots  BY <1>1, <1>4 DEF Slots, EXTERN, INTERNAL
<1>. QED  BY <1>1, <1>2, <1>3, <1>5 DEF pdeIndex, pteIndex, Indices

\* Two pages with the same indices are the same page.
LEMMA PagesApart ==
  ASSUME NEW p \in Pages, NEW q \in Pages, pdeIndex(p) = pdeIndex(q), pteIndex(p) = pteIndex(q)
  PROVE  p = q
<1>1. SIZE \in Nat /\ SIZE > 0 /\ p \in Nat /\ q \in Nat  BY SizesAssumption, PageIndices
<1>2. PICK a \in Nat, r \in 0..(SIZE - 1) : a = p \div SIZE /\ r = p % SIZE /\ p = SIZE * a + r
  BY <1>1, DivMod
<1>3. PICK b \in Nat, s \in 0..(SIZE - 1) : b = q \div SIZE /\ s = q % SIZE /\ q = SIZE * b + s
  BY <1>1, DivMod
<1>. QED  BY <1>1, <1>2, <1>3 DEF pdeIndex, pteIndex

\* The two temporary mappings, and the two entries of the kernel's half, are distinct.
LEMMA TwoSlots ==
  /\ EXTERN # INTERNAL /\ EXTERN \in Slots /\ INTERNAL \in Slots
  /\ KERNEL_PDE_INDEX \in Indices /\ RECURSIVE_PDE_INDEX \in Indices
  /\ KERNEL_PDE_INDEX # RECURSIVE_PDE_INDEX
  /\ KERNEL_PDE_INDEX > 0 /\ RECURSIVE_PDE_INDEX >= KERNEL_PDE_INDEX
  /\ 0 .. KERNEL_PDE_INDEX - 1 \subseteq Indices
  /\ SIZE \in Nat /\ KERNEL_PDE_INDEX \in Nat
<1>1. SIZE \in Nat /\ KERNEL_PDE_INDEX \in Nat /\ KERNEL_PDE_INDEX > 0 /\ KERNEL_PDE_INDEX <= SIZE - 2
  BY SizesAssumption
<1>2. KERNEL_PDE_INDEX * SIZE \in Nat  BY <1>1
<1>. QED  BY <1>1, <1>2 DEF EXTERN, INTERNAL, Slots, Indices, RECURSIVE_PDE_INDEX

-----------------------------------------------------------------------------
(* The temporary mappings *)

Cells == Entries \cup {NONE}
Contents == [Indices -> Cells]
Mems == [Frames -> Contents]

\* What the functions of paging.c work on.
Machines == [mem : Mems, free : SUBSET Frames, slot : [Slots -> Frames \cup {NONE}],
             tlb : [Slots \cup Pages -> Frames \cup Entries \cup {NONE}], panic : Panics \cup {NONE}]

\* Frame f is at the temporary mapping s.
View(m, s, f) == /\ m \in Machines /\ s \in Slots /\ f \in Frames
                 /\ m.slot[s] = f /\ m.tlb[s] \in {NONE, f}

\* A read through a temporary mapping reads the frame that is mapped there.
LEMMA ViewLoad ==
  ASSUME NEW m, NEW s, NEW f, View(m, s, f)
  PROVE  Through(m, s) = f /\ \A i : Load(m, s, i) = m.mem[f][i]
<1>1. Through(m, s) = f  BY DEF View, Through
<1>2. f # NONE  BY NamesAssumption DEF View
<1>. QED  BY <1>1, <1>2 DEF Load

\* An access fills the TLB and changes nothing else.
LEMMA ViewTouched ==
  ASSUME NEW m, NEW s, NEW f, View(m, s, f)
  PROVE  /\ View(Touched(m, s), s, f)
         /\ Touched(m, s).mem = m.mem /\ Touched(m, s).free = m.free
         /\ Touched(m, s).slot = m.slot /\ Touched(m, s).panic = m.panic
         /\ Touched(m, s).tlb = [m.tlb EXCEPT ![s] = f]
<1>1. Touched(m, s) = [m EXCEPT !.tlb[s] = f]  BY ViewLoad DEF Touched
<1>. QED  BY <1>1 DEF View, Machines

\* The entry i of frame f is e now.
Sets(M, N, f, i, e) == N = [M EXCEPT ![f][i] = e]

\* A write of one entry through a temporary mapping.
LEMMA ViewStore ==
  ASSUME NEW m, NEW s, NEW f, View(m, s, f), NEW i \in Indices, NEW e \in Cells
  PROVE  LET r == Store(m, s, i, e)
         IN /\ View(r, s, f)
            /\ Sets(m.mem, r.mem, f, i, e) /\ r.free = m.free
            /\ r.slot = m.slot /\ r.panic = m.panic /\ r.tlb = [m.tlb EXCEPT ![s] = f]
<1> DEFINE t == Touched(m, s)  r == Store(m, s, i, e)
<1>1. r = [t EXCEPT !.mem[f][i] = e]
  <2>1. Through(m, s) = f /\ f # NONE  BY ViewLoad, NamesAssumption DEF View
  <2>. QED  BY <2>1 DEF Store
<1>2. /\ View(t, s, f) /\ t.mem = m.mem /\ t.free = m.free /\ t.slot = m.slot /\ t.panic = m.panic
      /\ t.tlb = [m.tlb EXCEPT ![s] = f]
  BY ViewTouched
<1> HIDE DEF t
<1>3. r.mem = [t.mem EXCEPT ![f] = [t.mem[f] EXCEPT ![i] = e]]  BY <1>1, <1>2 DEF View, Machines
<1>4. r.mem \in Mems  BY <1>2, <1>3 DEF View, Machines, Mems, Contents
<1>5. r.free = t.free /\ r.slot = t.slot /\ r.panic = t.panic /\ r.tlb = t.tlb
  BY <1>1, <1>2 DEF View, Machines
<1>6. r = [mem |-> r.mem, free |-> t.free, slot |-> t.slot, tlb |-> t.tlb, panic |-> t.panic]
  BY <1>1, <1>2, <1>3 DEF View, Machines
<1>7. r \in Machines  BY <1>2, <1>4, <1>6 DEF View, Machines
<1> HIDE DEF r
<1>8. View(r, s, f)  BY <1>2, <1>5, <1>7 DEF View
<1>9. Sets(m.mem, r.mem, f, i, e)  BY <1>2, <1>3 DEF View, Machines, Mems, Contents, Sets
<1>. QED  BY <1>2, <1>5, <1>8, <1>9 DEF r

\* A write of a whole frame through a temporary mapping.
LEMMA ViewWritten ==
  ASSUME NEW m, NEW s, NEW f, View(m, s, f), NEW c \in Contents
  PROVE  LET r == Written(m, s, c)
         IN /\ View(r, s, f)
            /\ r.mem = [m.mem EXCEPT ![f] = c] /\ r.free = m.free
            /\ r.slot = m.slot /\ r.panic = m.panic /\ r.tlb = [m.tlb EXCEPT ![s] = f]
<1> DEFINE t == Touched(m, s)  r == Written(m, s, c)
<1>1. r = [t EXCEPT !.mem[f] = c]
  <2>1. Through(m, s) = f /\ f # NONE  BY ViewLoad, NamesAssumption DEF View
  <2>. QED  BY <2>1 DEF Written
<1>2. /\ View(t, s, f) /\ t.mem = m.mem /\ t.free = m.free /\ t.slot = m.slot /\ t.panic = m.panic
      /\ t.tlb = [m.tlb EXCEPT ![s] = f]
  BY ViewTouched
<1> HIDE DEF t
<1>3. r.mem = [t.mem EXCEPT ![f] = c]  BY <1>1, <1>2 DEF View, Machines
<1>4. r.mem \in Mems  BY <1>2, <1>3 DEF View, Machines, Mems, Contents
<1>5. r.free = t.free /\ r.slot = t.slot /\ r.panic = t.panic /\ r.tlb = t.tlb
  BY <1>1, <1>2 DEF View, Machines
<1>6. r = [mem |-> r.mem, free |-> t.free, slot |-> t.slot, tlb |-> t.tlb, panic |-> t.panic]
  BY <1>1, <1>2, <1>3 DEF View, Machines
<1>7. r \in Machines  BY <1>2, <1>4, <1>6 DEF View, Machines
<1> HIDE DEF r
<1>8. View(r, s, f)  BY <1>2, <1>5, <1>7 DEF View
<1>. QED  BY <1>2, <1>3, <1>5, <1>8 DEF r

\* invlpg forgets one translation and changes nothing else.
LEMMA InvalSingle ==
  ASSUME NEW m \in Machines, NEW a \in Slots \cup Pages
  PROVE  LET r == x86_TLB_INVAL_SINGLE(m, a)
         IN /\ r \in Machines
            /\ r.mem = m.mem /\ r.free = m.free /\ r.slot = m.slot /\ r.panic = m.panic
            /\ r.tlb = [m.tlb EXCEPT ![a] = NONE]
BY DEF x86_TLB_INVAL_SINGLE, Machines

\* s_temporaryMap, with the temporary mapping free: the frame is there, nothing stale is.
LEMMA MapSlot ==
  ASSUME NEW m \in Machines, NEW s \in Slots, m.slot[s] = NONE, NEW f \in Frames
  PROVE  LET r == s_temporaryMap(m, s, f)
         IN /\ View(r, s, f)
            /\ r.mem = m.mem /\ r.free = m.free /\ r.panic = m.panic
            /\ r.slot = [m.slot EXCEPT ![s] = f] /\ r.tlb = [m.tlb EXCEPT ![s] = NONE]
<1> DEFINE a == [m EXCEPT !.slot[s] = f]
<1>1. a \in Machines /\ a.mem = m.mem /\ a.free = m.free /\ a.panic = m.panic /\ a.tlb = m.tlb
      /\ a.slot = [m.slot EXCEPT ![s] = f]
  BY DEF Machines
<1>2. s_temporaryMap(m, s, f) = x86_TLB_INVAL_SINGLE(a, s)  BY DEF s_temporaryMap
<1> HIDE DEF a
<1> DEFINE r == x86_TLB_INVAL_SINGLE(a, s)
<1>3. /\ r \in Machines
      /\ r.mem = a.mem /\ r.free = a.free /\ r.slot = a.slot /\ r.panic = a.panic
      /\ r.tlb = [a.tlb EXCEPT ![s] = NONE]
  BY <1>1, InvalSingle
<1> HIDE DEF r
<1>4. View(r, s, f)  BY <1>1, <1>3 DEF View, Machines
<1>. QED  BY <1>1, <1>2, <1>3, <1>4 DEF r

\* s_temporaryUnmap frees the temporary mapping and forgets its translation.
LEMMA UnmapSlot ==
  ASSUME NEW m, NEW s, NEW f, View(m, s, f)
  PROVE  LET r == s_temporaryUnmap(m, s)
         IN /\ r \in Machines
            /\ r.mem = m.mem /\ r.free = m.free /\ r.panic = m.panic
            /\ r.slot = [m.slot EXCEPT ![s] = NONE] /\ r.tlb = [m.tlb EXCEPT ![s] = NONE]
<1> DEFINE a == [m EXCEPT !.slot[s] = NONE]
<1>1. a \in Machines /\ a.mem = m.mem /\ a.free = m.free /\ a.panic = m.panic /\ a.tlb = m.tlb
      /\ a.slot = [m.slot EXCEPT ![s] = NONE]
  BY DEF Machines, View
<1>2. s_temporaryUnmap(m, s) = x86_TLB_INVAL_SINGLE(a, s)
  BY NamesAssumption DEF s_temporaryUnmap, View
<1> HIDE DEF a
<1>. QED  BY <1>1, <1>2, InvalSingle DEF View

-----------------------------------------------------------------------------
(* What the calls do to the memory when page directory d is at EXTERN *)

Busy(m, d) == /\ View(m, EXTERN, d) /\ m.panic = NONE
              /\ m.slot[INTERNAL] = NONE /\ m.tlb[INTERNAL] = NONE

\* A call has used the page directory, and page p is not remembered.
Forgets(m, r, d, p) ==
  \A a \in Slots \cup Pages : r.tlb[a] = IF a = p THEN NONE ELSE IF a = EXTERN THEN d ELSE m.tlb[a]

\* A frame at the other temporary mapping, and the first one again.
LEMMA Inside ==
  ASSUME NEW m, NEW d, Busy(m, d), NEW f \in Frames
  PROVE  LET r == s_temporaryMap(m, INTERNAL, f)
         IN /\ View(r, INTERNAL, f) /\ View(r, EXTERN, d)
            /\ r.mem = m.mem /\ r.free = m.free /\ r.panic = NONE
            /\ r.slot = [m.slot EXCEPT ![INTERNAL] = f] /\ r.tlb = m.tlb
<1>1. m \in Machines /\ m.slot[INTERNAL] = NONE /\ m.tlb[INTERNAL] = NONE  BY DEF Busy, View
<1> DEFINE r == s_temporaryMap(m, INTERNAL, f)
<1>2. /\ View(r, INTERNAL, f)
      /\ r.mem = m.mem /\ r.free = m.free /\ r.panic = m.panic
      /\ r.slot = [m.slot EXCEPT ![INTERNAL] = f] /\ r.tlb = [m.tlb EXCEPT ![INTERNAL] = NONE]
  BY <1>1, TwoSlots, MapSlot
<1> HIDE DEF r
<1>3. r.tlb = m.tlb  BY <1>1, <1>2 DEF Machines
<1>4. View(r, EXTERN, d)  BY <1>1, <1>2, <1>3, TwoSlots DEF Busy, View, Machines
<1>. QED  BY <1>2, <1>3, <1>4 DEF Busy, r

\* s_temporaryUnmap of the inner mapping, while a call has the outer one.
LEMMA Outside ==
  ASSUME NEW m, NEW d, NEW f, View(m, INTERNAL, f), View(m, EXTERN, d), m.panic = NONE
  PROVE  LET r == s_temporaryUnmap(m, INTERNAL)
         IN /\ Busy(r, d) /\ r.mem = m.mem /\ r.free = m.free
            /\ r.slot = [m.slot EXCEPT ![INTERNAL] = NONE]
            /\ r.tlb = [m.tlb EXCEPT ![INTERNAL] = NONE]
<1> DEFINE r == s_temporaryUnmap(m, INTERNAL)
<1>1. /\ r \in Machines
      /\ r.mem = m.mem /\ r.free = m.free /\ r.panic = m.panic
      /\ r.slot = [m.slot EXCEPT ![INTERNAL] = NONE] /\ r.tlb = [m.tlb EXCEPT ![INTERNAL] = NONE]
  BY UnmapSlot
<1> HIDE DEF r
<1>2. Busy(r, d)  BY <1>1, TwoSlots DEF Busy, View, Machines
<1>. QED  BY <1>1, <1>2 DEF r

\* A cleared frame is a table without entries.
LEMMA Zeroed == Zeros \in Contents
BY DEF Zeros, Contents, Cells

\* The new page table of kpg_map: cleared, and in the page directory.
LEMMA NewTableResult ==
  ASSUME NEW m, NEW d, Busy(m, d), NEW p \in Pages, NEW user \in BOOLEAN, m.free # {}
  PROVE  LET t == kpmm_alloc(m)
             r == NewTable(m, p, user)
         IN /\ Busy(r, d) /\ t \in m.free /\ r.free = m.free \ {t} /\ r.slot = m.slot
            /\ Sets([m.mem EXCEPT ![t] = Zeros], r.mem, d, pdeIndex(p), Entry(t, user))
            /\ Forgets(m, r, d, p)
<1> DEFINE t == kpmm_alloc(m)  c == Allocated(m)
           a == s_temporaryMap(c, INTERNAL, t)
           z == Written(a, INTERNAL, Zeros)
           b == s_temporaryUnmap(z, INTERNAL)
           e == Entry(t, user)
           w == Store(b, EXTERN, pdeIndex(p), e)
           r == NewTable(m, p, user)
<1>0. m \in Machines /\ p \in Nat /\ p \notin Slots /\ pdeIndex(p) \in Indices
  BY PageIndices DEF Busy, View
<1>1. t \in m.free /\ t \in Frames
  <2>1. m.free \subseteq Frames  BY <1>0 DEF Machines
  <2>2. m.free \subseteq Nat  BY <2>1, FramesAssumption
  <2>. QED  BY <2>1, <2>2, MinIn DEF kpmm_alloc
<1>2. c.free = m.free \ {t} /\ c.mem = m.mem /\ c.slot = m.slot /\ c.tlb = m.tlb /\ Busy(c, d)
  BY <1>0 DEF Allocated, Busy, View, Machines
<1>3. r = x86_TLB_INVAL_SINGLE(w, p)  BY DEF NewTable
<1> HIDE DEF c, r, t
<1>4. /\ View(a, INTERNAL, t) /\ View(a, EXTERN, d)
      /\ a.mem = c.mem /\ a.free = c.free /\ a.panic = NONE
      /\ a.slot = [c.slot EXCEPT ![INTERNAL] = t] /\ a.tlb = c.tlb
  BY <1>1, <1>2, Inside
<1> HIDE DEF a
<1>5. /\ View(z, INTERNAL, t) /\ z.mem = [a.mem EXCEPT ![t] = Zeros] /\ z.free = a.free
      /\ z.slot = a.slot /\ z.panic = a.panic /\ z.tlb = [a.tlb EXCEPT ![INTERNAL] = t]
  BY <1>4, Zeroed, ViewWritten
<1> HIDE DEF z
<1>6. View(z, EXTERN, d)  BY <1>4, <1>5, TwoSlots DEF View, Machines
<1>7. /\ Busy(b, d) /\ b.mem = z.mem /\ b.free = z.free
      /\ b.slot = [z.slot EXCEPT ![INTERNAL] = NONE]
      /\ b.tlb = [z.tlb EXCEPT ![INTERNAL] = NONE]
  BY <1>4, <1>5, <1>6, Outside
<1> HIDE DEF b
<1>8. e \in Cells  BY <1>1 DEF Entry, Entries, Cells
<1> HIDE DEF e
<1>9. /\ View(w, EXTERN, d)
      /\ Sets(b.mem, w.mem, d, pdeIndex(p), e) /\ w.free = b.free
      /\ w.slot = b.slot /\ w.panic = b.panic /\ w.tlb = [b.tlb EXCEPT ![EXTERN] = d]
  <2>1. View(b, EXTERN, d)  BY <1>7 DEF Busy
  <2>2. pdeIndex(p) \in Indices  BY <1>0
  <2>. QED  BY ONLY <1>8, <2>1, <2>2, ViewStore
<1> HIDE DEF w
<1>10. /\ r \in Machines
       /\ r.mem = w.mem /\ r.free = w.free /\ r.slot = w.slot /\ r.panic = w.panic
       /\ r.tlb = [w.tlb EXCEPT ![p] = NONE]
  BY <1>3, <1>9, InvalSingle DEF View
<1>11. r.slot = m.slot
  BY <1>0, <1>2, <1>4, <1>5, <1>7, <1>9, <1>10, TwoSlots DEF Busy, Machines
<1>12. Forgets(m, r, d, p)
  <2> USE DEF Machines, View, Busy
  <2>1. a.tlb = m.tlb /\ m.tlb[INTERNAL] = NONE  BY <1>2, <1>4
  <2>2. \A x \in Slots \cup Pages : z.tlb[x] = IF x = INTERNAL THEN t ELSE m.tlb[x]
    BY <1>0, <1>5, <2>1
  <2>3. \A x \in Slots \cup Pages : b.tlb[x] = m.tlb[x]  BY <1>5, <1>7, <2>1, <2>2
  <2>4. \A x \in Slots \cup Pages : w.tlb[x] = IF x = EXTERN THEN d ELSE m.tlb[x]
    BY <1>7, <1>9, <2>3
  <2>. QED  BY <1>0, <1>9, <1>10, <2>4 DEF Forgets
<1>13. Busy(r, d)
  BY <1>0, <1>7, <1>9, <1>10, <1>11, <1>12, TwoSlots DEF Busy, View, Forgets
<1>14. Sets([m.mem EXCEPT ![t] = Zeros], r.mem, d, pdeIndex(p), e)
  BY <1>2, <1>4, <1>5, <1>7, <1>9, <1>10
<1>15. r.free = m.free \ {t}  BY <1>2, <1>4, <1>5, <1>7, <1>9, <1>10
<1>. QED  BY <1>1, <1>11, <1>12, <1>13, <1>14, <1>15 DEF e, t, r

\* A read of the page directory at the outer mapping.
LEMMA BusyTouched ==
  ASSUME NEW m, NEW d, Busy(m, d)
  PROVE  LET r == Touched(m, EXTERN)
         IN /\ Busy(r, d) /\ r.mem = m.mem /\ r.free = m.free /\ r.slot = m.slot
            /\ \A a \in Slots \cup Pages : r.tlb[a] = IF a = EXTERN THEN d ELSE m.tlb[a]
<1> DEFINE r == Touched(m, EXTERN)
<1>1. View(m, EXTERN, d) /\ m \in Machines  BY DEF Busy, View
<1>2. /\ View(r, EXTERN, d) /\ r.mem = m.mem /\ r.free = m.free
      /\ r.slot = m.slot /\ r.panic = m.panic /\ r.tlb = [m.tlb EXCEPT ![EXTERN] = d]
  BY <1>1, ViewTouched
<1> HIDE DEF r
<1>3. \A a \in Slots \cup Pages : r.tlb[a] = IF a = EXTERN THEN d ELSE m.tlb[a]
  BY <1>1, <1>2 DEF Machines
<1>4. Busy(r, d)  BY <1>2, <1>3, TwoSlots DEF Busy
<1>. QED  BY <1>2, <1>3, <1>4 DEF r

\* A change of an entry of a page table, through the other temporary mapping.
TableSet(a, t, p, e) ==
  s_temporaryUnmap(x86_TLB_INVAL_SINGLE(Store(s_temporaryMap(a, INTERNAL, t),
                                              INTERNAL, pteIndex(p), e), p), INTERNAL)

\* One entry of a page table, set through the inner mapping, with its invlpg.
LEMMA TableSetResult ==
  ASSUME NEW m, NEW d, Busy(m, d), NEW p \in Pages, NEW t \in Frames, NEW e \in Cells
  PROVE  LET r == TableSet(m, t, p, e)
         IN /\ Busy(r, d) /\ Sets(m.mem, r.mem, t, pteIndex(p), e)
            /\ r.free = m.free /\ r.slot = m.slot
            /\ \A a \in Slots \cup Pages : r.tlb[a] = IF a = p THEN NONE ELSE m.tlb[a]
<1> DEFINE a == s_temporaryMap(m, INTERNAL, t)
           w == Store(a, INTERNAL, pteIndex(p), e)
           b == x86_TLB_INVAL_SINGLE(w, p)
           r == s_temporaryUnmap(b, INTERNAL)
<1>0. m \in Machines /\ p \notin Slots /\ pteIndex(p) \in Indices
  BY PageIndices DEF Busy, View
<1>1. TableSet(m, t, p, e) = r  BY DEF TableSet
<1>2. /\ View(a, INTERNAL, t) /\ View(a, EXTERN, d)
      /\ a.mem = m.mem /\ a.free = m.free /\ a.panic = NONE
      /\ a.slot = [m.slot EXCEPT ![INTERNAL] = t] /\ a.tlb = m.tlb
  BY Inside
<1> HIDE DEF a
<1>3. /\ View(w, INTERNAL, t)
      /\ Sets(a.mem, w.mem, t, pteIndex(p), e) /\ w.free = a.free
      /\ w.slot = a.slot /\ w.panic = a.panic /\ w.tlb = [a.tlb EXCEPT ![INTERNAL] = t]
  BY <1>0, <1>2, ViewStore
<1> HIDE DEF w
<1>4. /\ b \in Machines
      /\ b.mem = w.mem /\ b.free = w.free /\ b.slot = w.slot /\ b.panic = w.panic
      /\ b.tlb = [w.tlb EXCEPT ![p] = NONE]
  BY <1>3, InvalSingle DEF View
<1> HIDE DEF b
<1>5. View(b, INTERNAL, t) /\ View(b, EXTERN, d)
  <2>1. \A x \in Slots \cup Pages : w.tlb[x] = IF x = INTERNAL THEN t ELSE m.tlb[x]
    BY <1>0, <1>2, <1>3 DEF Machines
  <2>2. \A x \in Slots \cup Pages : b.tlb[x] = IF x = p THEN NONE ELSE w.tlb[x]
    BY <1>3, <1>4 DEF View, Machines
  <2>. QED  BY <1>0, <1>2, <1>3, <1>4, <2>1, <2>2, TwoSlots DEF View
<1>6. /\ Busy(r, d) /\ r.mem = b.mem /\ r.free = b.free
      /\ r.slot = [b.slot EXCEPT ![INTERNAL] = NONE]
      /\ r.tlb = [b.tlb EXCEPT ![INTERNAL] = NONE]
  BY <1>2, <1>3, <1>4, <1>5, Outside
<1> HIDE DEF r
<1>7. r.slot = m.slot  BY <1>0, <1>2, <1>3, <1>4, <1>6, TwoSlots DEF Busy, Machines
<1>8. \A x \in Slots \cup Pages : r.tlb[x] = IF x = p THEN NONE ELSE m.tlb[x]
  <2>1. \A x \in Slots \cup Pages : w.tlb[x] = IF x = INTERNAL THEN t ELSE m.tlb[x]
    BY <1>0, <1>2, <1>3 DEF Machines
  <2>2. \A x \in Slots \cup Pages : b.tlb[x] = IF x = p THEN NONE ELSE w.tlb[x]
    BY <1>3, <1>4 DEF View, Machines
  <2>3. \A x \in Slots \cup Pages : r.tlb[x] = IF x = INTERNAL THEN NONE ELSE b.tlb[x]
    BY <1>4, <1>6 DEF Machines
  <2>4. m.tlb[INTERNAL] = NONE  BY DEF Busy
  <2>. QED  BY <2>1, <2>2, <2>3, <2>4
<1>9. Sets(m.mem, r.mem, t, pteIndex(p), e) /\ r.free = m.free  BY <1>2, <1>3, <1>4, <1>6
<1>. QED  BY <1>1, <1>6, <1>7, <1>8, <1>9

\* What the page directory d says of page p in memory M.
Seen(M, d, p) == LET e == M[d][pdeIndex(p)] IN IF e = NONE THEN NONE ELSE M[e.frame][pteIndex(p)]

\* kpg_map where the page table is there.
LEMMA MapOld ==
  ASSUME NEW m, NEW d, Busy(m, d), NEW p \in Pages, NEW f \in Frames, NEW user \in BOOLEAN,
         m.mem[d][pdeIndex(p)] # NONE, Seen(m.mem, d, p) = NONE
  PROVE  LET r == kpg_map(m, p, f, user)
         IN /\ Busy(r, d) /\ r.free = m.free /\ r.slot = m.slot /\ Forgets(m, r, d, p)
            /\ Sets(m.mem, r.mem, m.mem[d][pdeIndex(p)].frame, pteIndex(p), Entry(f, user))
<1> DEFINE a == Touched(m, EXTERN)
           t == m.mem[d][pdeIndex(p)].frame
           b == s_temporaryMap(a, INTERNAL, t)
           e == Entry(f, user)
           r == TableSet(a, t, p, e)
<1>0. m \in Machines /\ d \in Frames /\ p \notin Slots /\ pdeIndex(p) \in Indices /\ m.panic = NONE
  BY PageIndices DEF Busy, View
<1>1. t \in Frames
  <2>1. m.mem[d][pdeIndex(p)] \in Cells  BY <1>0 DEF Machines, Mems, Contents
  <2>. QED  BY <2>1 DEF Cells, Entries
<1>2. e \in Cells  BY DEF Entry, Entries, Cells
<1>3. /\ Busy(a, d) /\ a.mem = m.mem /\ a.free = m.free /\ a.slot = m.slot
      /\ \A x \in Slots \cup Pages : a.tlb[x] = IF x = EXTERN THEN d ELSE m.tlb[x]
  BY BusyTouched
<1>4. \A i : Load(m, EXTERN, i) = m.mem[d][i] /\ Load(a, EXTERN, i) = m.mem[d][i]
  BY <1>3, ViewLoad DEF Busy
<1>5. View(b, INTERNAL, t) /\ b.mem = a.mem  BY <1>1, <1>3, Inside
<1>6. Load(b, INTERNAL, pteIndex(p)) = NONE
  BY <1>3, <1>5, ViewLoad DEF Seen
<1>7. kpg_map(m, p, f, user) = r
  BY <1>0, <1>4, <1>6 DEF kpg_map, TableSet
<1> HIDE DEF a, t, e
<1>8. /\ Busy(r, d) /\ Sets(a.mem, r.mem, t, pteIndex(p), e) /\ r.free = a.free /\ r.slot = a.slot
      /\ \A x \in Slots \cup Pages : r.tlb[x] = IF x = p THEN NONE ELSE a.tlb[x]
  BY <1>1, <1>2, <1>3, TableSetResult
<1> HIDE DEF r
<1>9. Forgets(m, r, d, p)  BY <1>3, <1>8 DEF Forgets
<1>10. Busy(r, d) /\ r.free = m.free /\ r.slot = m.slot /\ Sets(m.mem, r.mem, t, pteIndex(p), e)
  BY <1>3, <1>8
<1>. QED  BY <1>7, <1>9, <1>10 DEF t, e

\* What memory is after one entry was set.
LEMMA SetsEntry ==
  ASSUME NEW M \in Mems, NEW N, NEW f \in Frames, NEW i \in Indices, NEW e \in Cells, Sets(M, N, f, i, e)
  PROVE  /\ N \in Mems
         /\ \A x \in Frames, j \in Indices : N[x][j] = IF x = f /\ j = i THEN e ELSE M[x][j]
<1>1. N = [M EXCEPT ![f] = [M[f] EXCEPT ![i] = e]]  BY DEF Sets
<1>2. M[f] \in Contents  BY DEF Mems
<1>3. [M[f] EXCEPT ![i] = e] \in Contents  BY <1>2 DEF Contents
<1>4. N \in Mems  BY <1>1, <1>3 DEF Mems
<1>5. \A x \in Frames : x # f => N[x] = M[x]  BY <1>1 DEF Mems
<1>6. N[f] = [M[f] EXCEPT ![i] = e]  BY <1>1 DEF Mems
<1>7. \A j \in Indices : N[f][j] = IF j = i THEN e ELSE M[f][j]  BY <1>2, <1>6 DEF Contents
<1>. QED  BY <1>4, <1>5, <1>7

\* Frame t has become the page table of page p of directory d, with one entry, e.
AddsTable(M, N, d, p, t, user, e) ==
  \A x \in Frames, i \in Indices :
    N[x][i] = IF x = t THEN IF i = pteIndex(p) THEN e ELSE NONE
              ELSE IF x = d /\ i = pdeIndex(p) THEN Entry(t, user)
              ELSE M[x][i]

\* kpg_map where the page table has to be made.
LEMMA MapNew ==
  ASSUME NEW m, NEW d, Busy(m, d), NEW p \in Pages, NEW f \in Frames, NEW user \in BOOLEAN,
         m.mem[d][pdeIndex(p)] = NONE, m.free # {}, d \notin m.free
  PROVE  LET r == kpg_map(m, p, f, user)
             t == kpmm_alloc(m)
         IN /\ t \in m.free
            /\ Busy(r, d) /\ r.free = m.free \ {t} /\ r.slot = m.slot /\ Forgets(m, r, d, p)
            /\ AddsTable(m.mem, r.mem, d, p, t, user, Entry(f, user))
<1> DEFINE a == NewTable(m, p, user)
           t == kpmm_alloc(m)
           g == Entry(t, user)
           b == s_temporaryMap(a, INTERNAL, t)
           e == Entry(f, user)
           r == TableSet(a, t, p, e)
           Z == [m.mem EXCEPT ![t] = Zeros]
<1>0. m \in Machines /\ d \in Frames /\ p \notin Slots /\ m.panic = NONE
      /\ pdeIndex(p) \in Indices /\ pteIndex(p) \in Indices
  BY PageIndices DEF Busy, View
<1>1. e \in Cells  BY DEF Entry, Entries, Cells
<1>2. /\ Busy(a, d) /\ t \in m.free /\ a.free = m.free \ {t} /\ a.slot = m.slot
      /\ Sets(Z, a.mem, d, pdeIndex(p), g)
      /\ Forgets(m, a, d, p)
  BY NewTableResult
<1> HIDE DEF a, t
<1>3. t \in Frames /\ t # d  BY <1>0, <1>2 DEF Machines
<1>4. g \in Cells /\ g # NONE /\ g.frame = t  BY <1>3, NamesAssumption DEF Entry, Entries, Cells
<1> HIDE DEF g, e
<1>5. /\ Z \in Mems
      /\ \A x \in Frames, i \in Indices : Z[x][i] = IF x = t THEN NONE ELSE m.mem[x][i]
  <2>1. Zeros \in Contents /\ \A i \in Indices : Zeros[i] = NONE  BY Zeroed DEF Zeros
  <2>2. m.mem \in Mems  BY <1>0 DEF Machines
  <2> HIDE DEF Zeros
  <2>. QED  BY <1>3, <2>1, <2>2 DEF Mems
<1> HIDE DEF Z
<1>6. /\ a.mem \in Mems
      /\ \A x \in Frames, i \in Indices : a.mem[x][i] = IF x = d /\ i = pdeIndex(p) THEN g ELSE Z[x][i]
  BY <1>0, <1>2, <1>4, <1>5, SetsEntry
<1>7. /\ Load(m, EXTERN, pdeIndex(p)) = NONE
      /\ Load(a, EXTERN, pdeIndex(p)) = g
  BY <1>0, <1>2, <1>6, ViewLoad DEF Busy
<1>8. View(b, INTERNAL, t) /\ b.mem = a.mem  BY <1>2, <1>3, Inside
<1>9. Load(b, INTERNAL, pteIndex(p)) = NONE
  <2>1. Load(b, INTERNAL, pteIndex(p)) = a.mem[t][pteIndex(p)]  BY <1>8, ViewLoad
  <2>. QED  BY <1>0, <1>3, <1>5, <1>6, <2>1
<1>10. kpg_map(m, p, f, user) = r
  BY <1>0, <1>4, <1>7, <1>9 DEF kpg_map, TableSet, a, e
<1>11. /\ Busy(r, d) /\ Sets(a.mem, r.mem, t, pteIndex(p), e) /\ r.free = a.free /\ r.slot = a.slot
       /\ \A x \in Slots \cup Pages : r.tlb[x] = IF x = p THEN NONE ELSE a.tlb[x]
  BY <1>1, <1>2, <1>3, TableSetResult
<1> HIDE DEF r
<1>12. Forgets(m, r, d, p)  BY <1>2, <1>11 DEF Forgets
<1>13. \A x \in Frames, i \in Indices : r.mem[x][i] = IF x = t /\ i = pteIndex(p) THEN e ELSE a.mem[x][i]
  BY <1>0, <1>1, <1>3, <1>6, <1>11, SetsEntry
<1>14. AddsTable(m.mem, r.mem, d, p, t, user, e)
  BY <1>3, <1>5, <1>6, <1>13 DEF AddsTable, g
<1>. QED  BY <1>2, <1>10, <1>11, <1>12, <1>14 DEF t, e

\* Without memory for a page table the kernel panics, and nothing else changes.
LEMMA MapFull ==
  ASSUME NEW m, NEW d, Busy(m, d), NEW p \in Pages, NEW f, NEW user,
         m.mem[d][pdeIndex(p)] = NONE, m.free = {}
  PROVE  LET r == kpg_map(m, p, f, user)
         IN r \in Machines /\ r.panic = "AllocationFailed" /\ r.mem = m.mem
<1>1. Load(m, EXTERN, pdeIndex(p)) = NONE /\ m.panic = NONE /\ m \in Machines
  BY ViewLoad DEF Busy, View
<1>2. kpg_map(m, p, f, user) = [m EXCEPT !.panic = "AllocationFailed"]  BY <1>1 DEF kpg_map
<1>. QED  BY <1>1, <1>2 DEF Machines, Panics

\* Looking a page up, and freeing it.
LEMMA LookUpResult ==
  ASSUME NEW m, NEW d, Busy(m, d), NEW p \in Pages
  PROVE  LET r == LookedUp(m, p)
         IN /\ kpg_doesMappingExists(m, p) = Seen(m.mem, d, p)
            /\ Busy(r, d) /\ r.mem = m.mem /\ r.free = m.free /\ r.slot = m.slot
            /\ \A a \in Slots \cup Pages : r.tlb[a] = IF a = EXTERN THEN d ELSE m.tlb[a]
<1> DEFINE a == Touched(m, EXTERN)
           t == m.mem[d][pdeIndex(p)].frame
           b == s_temporaryMap(a, INTERNAL, t)
           c == Touched(b, INTERNAL)
           r == s_temporaryUnmap(c, INTERNAL)
<1>0. m \in Machines /\ d \in Frames /\ p \notin Slots /\ pdeIndex(p) \in Indices
  BY PageIndices DEF Busy, View
<1>1. /\ Busy(a, d) /\ a.mem = m.mem /\ a.free = m.free /\ a.slot = m.slot
      /\ \A x \in Slots \cup Pages : a.tlb[x] = IF x = EXTERN THEN d ELSE m.tlb[x]
  BY BusyTouched
<1>2. Load(m, EXTERN, pdeIndex(p)) = m.mem[d][pdeIndex(p)]  BY ViewLoad DEF Busy
<1>3. CASE m.mem[d][pdeIndex(p)] = NONE
  BY <1>1, <1>2, <1>3 DEF LookedUp, kpg_doesMappingExists, Seen
<1>4. CASE m.mem[d][pdeIndex(p)] # NONE
  <2>1. t \in Frames
    <3>1. m.mem[d][pdeIndex(p)] \in Cells  BY <1>0 DEF Machines, Mems, Contents
    <3>. QED  BY <1>4, <3>1 DEF Cells, Entries
  <2>2. Table(m, p) = b  BY <1>2 DEF Table
  <2> HIDE DEF a, t
  <2>3. /\ View(b, INTERNAL, t) /\ View(b, EXTERN, d)
        /\ b.mem = a.mem /\ b.free = a.free /\ b.panic = NONE
        /\ b.slot = [a.slot EXCEPT ![INTERNAL] = t] /\ b.tlb = a.tlb
    BY <1>1, <2>1, Inside
  <2> HIDE DEF b
  <2>4. /\ View(c, INTERNAL, t) /\ c.mem = b.mem /\ c.free = b.free
        /\ c.slot = b.slot /\ c.panic = b.panic /\ c.tlb = [b.tlb EXCEPT ![INTERNAL] = t]
    BY <2>3, ViewTouched
  <2> HIDE DEF c
  <2>5. View(c, EXTERN, d)  BY <2>3, <2>4, TwoSlots DEF View, Machines
  <2>6. /\ Busy(r, d) /\ r.mem = c.mem /\ r.free = c.free
        /\ r.slot = [c.slot EXCEPT ![INTERNAL] = NONE]
        /\ r.tlb = [c.tlb EXCEPT ![INTERNAL] = NONE]
    BY <2>3, <2>4, <2>5, Outside
  <2>7. LookedUp(m, p) = r  BY <1>2, <1>4, <2>2 DEF LookedUp, c
  <2> HIDE DEF r
  <2>8. kpg_doesMappingExists(m, p) = Seen(m.mem, d, p)
    <3>1. Load(b, INTERNAL, pteIndex(p)) = b.mem[t][pteIndex(p)]  BY <2>3, ViewLoad
    <3>. QED  BY <1>1, <1>2, <1>4, <2>2, <2>3, <3>1 DEF kpg_doesMappingExists, Seen, t
  <2>9. \A x \in Slots \cup Pages : r.tlb[x] = a.tlb[x]
    <3>1. a.tlb[INTERNAL] = NONE  BY <1>1 DEF Busy
    <3>2. \A x \in Slots \cup Pages : c.tlb[x] = IF x = INTERNAL THEN t ELSE a.tlb[x]
      BY <2>3, <2>4 DEF View, Machines
    <3>3. \A x \in Slots \cup Pages : r.tlb[x] = IF x = INTERNAL THEN NONE ELSE c.tlb[x]
      BY <2>4, <2>6 DEF View, Machines
    <3>. QED  BY <3>1, <3>2, <3>3
  <2>10. r.slot = m.slot  BY <1>0, <1>1, <2>3, <2>4, <2>6, TwoSlots DEF Busy, Machines
  <2>. QED  BY <1>1, <2>3, <2>4, <2>6, <2>7, <2>8, <2>9, <2>10
<1>. QED  BY <1>3, <1>4

\* One round of kvmm_free: the entry is cleared, the frame is free again.
LEMMA FreeResult ==
  ASSUME NEW m, NEW d, Busy(m, d), NEW p \in Pages, Seen(m.mem, d, p) # NONE
  PROVE  LET r == FreedPage(m, p)
         IN /\ Busy(r, d) /\ r.slot = m.slot /\ Forgets(m, r, d, p)
            /\ r.free = m.free \cup {Seen(m.mem, d, p).frame}
            /\ Sets(m.mem, r.mem, m.mem[d][pdeIndex(p)].frame, pteIndex(p), NONE)
<1> DEFINE l == LookedUp(m, p)
           a == Touched(l, EXTERN)
           t == m.mem[d][pdeIndex(p)].frame
           u == TableSet(a, t, p, NONE)
           e == Seen(m.mem, d, p)
           r == [u EXCEPT !.free = @ \cup {e.frame}]
<1>0. m \in Machines /\ d \in Frames /\ p \notin Slots
      /\ pdeIndex(p) \in Indices /\ pteIndex(p) \in Indices
  BY PageIndices DEF Busy, View
<1>1. m.mem[d][pdeIndex(p)] # NONE /\ e = m.mem[t][pteIndex(p)]  BY DEF Seen
<1>2. t \in Frames
  <2>1. m.mem[d][pdeIndex(p)] \in Cells  BY <1>0 DEF Machines, Mems, Contents
  <2>. QED  BY <1>1, <2>1 DEF Cells, Entries
<1>3. e.frame \in Frames
  <2>1. m.mem[t][pteIndex(p)] \in Cells  BY <1>0, <1>2 DEF Machines, Mems, Contents
  <2>. QED  BY <1>1, <2>1 DEF Cells, Entries
<1>4. /\ kpg_doesMappingExists(m, p) = e
      /\ Busy(l, d) /\ l.mem = m.mem /\ l.free = m.free /\ l.slot = m.slot
      /\ \A x \in Slots \cup Pages : l.tlb[x] = IF x = EXTERN THEN d ELSE m.tlb[x]
  BY LookUpResult
<1> HIDE DEF l
<1>5. /\ Busy(a, d) /\ a.mem = l.mem /\ a.free = l.free /\ a.slot = l.slot
      /\ \A x \in Slots \cup Pages : a.tlb[x] = IF x = EXTERN THEN d ELSE l.tlb[x]
  BY <1>4, BusyTouched
<1>6. kpg_unmap(l, p) = u
  <2>1. Load(l, EXTERN, pdeIndex(p)) = m.mem[d][pdeIndex(p)]  BY <1>4, ViewLoad DEF Busy
  <2>. QED  BY <2>1 DEF kpg_unmap, Table, TableSet
<1>7. FreedPage(m, p) = r  BY <1>4, <1>6 DEF FreedPage, l
<1> HIDE DEF a, t, e
<1>8. /\ Busy(u, d) /\ Sets(a.mem, u.mem, t, pteIndex(p), NONE) /\ u.free = a.free /\ u.slot = a.slot
      /\ \A x \in Slots \cup Pages : u.tlb[x] = IF x = p THEN NONE ELSE a.tlb[x]
  BY <1>2, <1>5, TableSetResult DEF Cells
<1> HIDE DEF u
<1>9. /\ r \in Machines /\ r.mem = u.mem /\ r.slot = u.slot /\ r.tlb = u.tlb /\ r.panic = u.panic
      /\ r.free = u.free \cup {e.frame}
  BY <1>3, <1>8 DEF Busy, View, Machines
<1> HIDE DEF r
<1>10. Busy(r, d)  BY <1>8, <1>9 DEF Busy, View
<1>11. Forgets(m, r, d, p)  BY <1>4, <1>5, <1>8, <1>9 DEF Forgets
<1>. QED  BY <1>4, <1>5, <1>7, <1>8, <1>9, <1>10, <1>11 DEF e, t

-----------------------------------------------------------------------------
(* How the frames are used *)

Low == 0 .. KERNEL_PDE_INDEX - 1
TableAt(M, d, i, t) == M[d][i] # NONE /\ M[d][i].frame = t
PageAt(M, d, p, f) == Seen(M, d, p) # NONE /\ Seen(M, d, p).frame = f

\* Frames that are neither page tables nor pages of a process: F are free, D are page
\* directories, and R are allocated but not used yet.
Apart(F, D, R) ==
  /\ F \subseteq Frames /\ D \subseteq Frames /\ R \subseteq Frames
  /\ D \cap F = {} /\ R \cap F = {} /\ R \cap D = {}
  /\ {KERNEL_PD, KERNEL_PT} \cap (F \cup D \cup R) = {}
Others(F, D, R) == Frames \ (F \cup D \cup R \cup {KERNEL_PD, KERNEL_PT})

TablesOK(M, F, D, R) ==
  /\ \A d \in D, i \in Low : \A t : TableAt(M, d, i, t) => t \in Others(F, D, R)
  /\ \A d1, d2 \in D, i, j \in Low : \A t : TableAt(M, d1, i, t) /\ TableAt(M, d2, j, t) => d1 = d2 /\ i = j
PagesOK(M, F, D, R) ==
  /\ \A d \in D, p \in Pages : \A f : PageAt(M, d, p, f) => f \in Others(F, D, R)
  /\ \A d1, d2 \in D, p, q \in Pages : \A f : PageAt(M, d1, p, f) /\ PageAt(M, d2, q, f) => d1 = d2 /\ p = q
  /\ \A d1, d2 \in D, p \in Pages, i \in Low : \A f : ~(PageAt(M, d1, p, f) /\ TableAt(M, d2, i, f))
AllUsed(M, F, D, R) ==
  \A f \in Others(F, D, R) : \/ \E d \in D, i \in Low : TableAt(M, d, i, f)
                             \/ \E d \in D, p \in Pages : PageAt(M, d, p, f)
KernelPart(M, D) ==
  /\ \A d \in D : /\ M[d][KERNEL_PDE_INDEX] = Entry(KERNEL_PT, FALSE)
                  /\ M[d][RECURSIVE_PDE_INDEX] = Entry(d, FALSE)
  /\ M[KERNEL_PD][KERNEL_PDE_INDEX] = Entry(KERNEL_PT, FALSE)
  /\ M[KERNEL_PD][RECURSIVE_PDE_INDEX] = Entry(KERNEL_PD, FALSE)
  /\ \A i \in Low : M[KERNEL_PD][i] = NONE

Layout(M, F, D, R) ==
  /\ M \in Mems /\ Apart(F, D, R)
  /\ TablesOK(M, F, D, R) /\ PagesOK(M, F, D, R) /\ AllUsed(M, F, D, R)
  /\ KernelPart(M, D)

\* An entry that is there refers to a frame.
LEMMA EntryFrame ==
  ASSUME NEW M \in Mems, NEW f \in Frames, NEW i \in Indices, M[f][i] # NONE
  PROVE  M[f][i] \in Entries /\ M[f][i].frame \in Frames
<1>1. M[f][i] \in Cells  BY DEF Mems, Contents
<1>. QED  BY <1>1 DEF Cells, Entries

\* The pages of a process have their entries below those of the kernel.
LEMMA LowIndices == /\ Low \subseteq Indices /\ \A p \in Pages : pdeIndex(p) \in Low
                    /\ KERNEL_PDE_INDEX \notin Low /\ RECURSIVE_PDE_INDEX \notin Low
BY TwoSlots, PageIndices DEF Low

\* The kernel's page directory has no pages of a process.
LEMMA KernelBlank ==
  ASSUME NEW M, NEW D, KernelPart(M, D), NEW p \in Pages
  PROVE  Seen(M, KERNEL_PD, p) = NONE
BY LowIndices DEF KernelPart, Seen

\* Frame x is no page directory and no page table of one.
Plain(M, D, x) == x \notin D \cup {KERNEL_PD} /\ \A d \in D, i \in Low : ~TableAt(M, d, i, x)
\* The other frames are as they were.
Elsewhere(M, N, x) == \A y \in Frames : y # x => N[y] = M[y]

\* The page directories of D are as they were, and so are the mappings of their pages.
SameDirs(M, N, D) == \A d \in D : N[d] = M[d]
SameSeen(M, N, D) == \A x \in D, p \in Pages : Seen(N, x, p) = Seen(M, x, p)

\* A frame that is no page table and no page directory may hold anything.
LEMMA SeenKept ==
  ASSUME NEW M, NEW N, NEW F, NEW D, NEW R, Layout(M, F, D, R), NEW x,
         Plain(M, D, x), Elsewhere(M, N, x)
  PROVE  SameDirs(M, N, D \cup {KERNEL_PD}) /\ SameSeen(M, N, D \cup {KERNEL_PD})
<1> USE DEF SameDirs, SameSeen
<1>1. D \subseteq Frames /\ M \in Mems  BY DEF Layout, Apart
<1>2. \A d \in D \cup {KERNEL_PD} : N[d] = M[d]  BY <1>1, FramesAssumption DEF Plain, Elsewhere
<1>3. ASSUME NEW d \in D \cup {KERNEL_PD}, NEW p \in Pages PROVE Seen(N, d, p) = Seen(M, d, p)
  <2>1. pdeIndex(p) \in Low /\ pdeIndex(p) \in Indices /\ d \in Frames
    BY <1>1, LowIndices, FramesAssumption
  <2>2. CASE M[d][pdeIndex(p)] = NONE  BY <1>2, <2>2 DEF Seen
  <2>3. CASE M[d][pdeIndex(p)] # NONE
    <3>1. M[d][pdeIndex(p)].frame \in Frames  BY <1>1, <2>1, <2>3, EntryFrame
    <3>2. d \in D  BY <2>1, <2>3 DEF Layout, KernelPart
    <3>3. M[d][pdeIndex(p)].frame # x  BY <2>1, <2>3, <3>2 DEF Plain, TableAt
    <3>. QED  BY <1>2, <3>1, <3>3 DEF Seen, Elsewhere
  <2>. QED  BY <2>2, <2>3
<1>. QED  BY <1>2, <1>3

\* The layout depends on what the page directories refer to.
LEMMA LayoutSame ==
  ASSUME NEW M, NEW N \in Mems, NEW F, NEW D, NEW R, Layout(M, F, D, R),
         \A d \in D \cup {KERNEL_PD} : N[d] = M[d],
         \A d \in D \cup {KERNEL_PD}, p \in Pages : Seen(N, d, p) = Seen(M, d, p)
  PROVE  Layout(N, F, D, R)
<1>1. \A d \in D, i \in Low : \A t : TableAt(N, d, i, t) <=> TableAt(M, d, i, t)  BY DEF TableAt
<1>2. \A d \in D, p \in Pages : \A f : PageAt(N, d, p, f) <=> PageAt(M, d, p, f)  BY DEF PageAt
<1>3. KernelPart(N, D)  BY DEF Layout, KernelPart
<1>4. TablesOK(N, F, D, R)  BY <1>1 DEF Layout, TablesOK
<1>5. PagesOK(N, F, D, R)  BY <1>1, <1>2 DEF Layout, PagesOK
<1>6. AllUsed(N, F, D, R)  BY <1>1, <1>2 DEF Layout, AllUsed
<1>. QED  BY <1>3, <1>4, <1>5, <1>6 DEF Layout

\* Frames that are allocated for pages.
LEMMA LayoutReserve ==
  ASSUME NEW M, NEW F, NEW D, Layout(M, F, D, {}), NEW X, X \subseteq F
  PROVE  Layout(M, F \ X, D, X)
<1>1. Others(F \ X, D, X) = Others(F, D, {})  BY DEF Others
<1>2. Apart(F \ X, D, X)  BY DEF Layout, Apart
<1>3. TablesOK(M, F \ X, D, X)  BY <1>1 DEF Layout, TablesOK
<1>4. PagesOK(M, F \ X, D, X)  BY <1>1 DEF Layout, PagesOK
<1>5. AllUsed(M, F \ X, D, X)  BY <1>1 DEF Layout, AllUsed
<1>. QED  BY <1>2, <1>3, <1>4, <1>5 DEF Layout

\* All pages keep what they have, except page p of directory d.
Only(M, N, D, d, p, e) ==
  \A x \in D \cup {KERNEL_PD}, q \in Pages : Seen(N, x, q) = IF x = d /\ q = p THEN e ELSE Seen(M, x, q)

\* An entry set in a page table changes what one directory says of one page: no page table
\* is shared.
LEMMA SetsSeen ==
  ASSUME NEW M, NEW N, NEW F, NEW D, NEW R, Layout(M, F, D, R), NEW d \in D, NEW p \in Pages,
         M[d][pdeIndex(p)] # NONE, NEW e \in Cells,
         Sets(M, N, M[d][pdeIndex(p)].frame, pteIndex(p), e)
  PROVE  /\ N \in Mems
         /\ \A x \in D \cup {KERNEL_PD} : N[x] = M[x]
         /\ Only(M, N, D, d, p, e)
<1> DEFINE t == M[d][pdeIndex(p)].frame
<1>0. /\ M \in Mems /\ D \subseteq Frames /\ d \in Frames /\ KERNEL_PD \in Frames
      /\ pdeIndex(p) \in Low /\ pdeIndex(p) \in Indices /\ pteIndex(p) \in Indices
  BY LowIndices, PageIndices, FramesAssumption DEF Layout, Apart
<1>1. t \in Frames  BY <1>0, EntryFrame
<1>2. TableAt(M, d, pdeIndex(p), t)  BY DEF TableAt
<1>3. t \notin D \cup {KERNEL_PD}  BY <1>0, <1>2 DEF Layout, TablesOK, Others
<1> HIDE DEF t
<1>4. /\ N \in Mems
      /\ \A x \in Frames, j \in Indices : N[x][j] = IF x = t /\ j = pteIndex(p) THEN e ELSE M[x][j]
  <2>1. Sets(M, N, t, pteIndex(p), e)  BY DEF t
  <2>2. M \in Mems /\ t \in Frames /\ pteIndex(p) \in Indices /\ e \in Cells  BY <1>0, <1>1
  <2>. QED  BY ONLY <2>1, <2>2, SetsEntry
<1>5. \A x \in Frames : x # t => N[x] = M[x]
  <2> SUFFICES ASSUME NEW x \in Frames, x # t PROVE N[x] = M[x]  OBVIOUS
  <2>1. N[x] \in Contents /\ M[x] \in Contents  BY <1>0, <1>4 DEF Mems
  <2>. QED  BY <1>4, <2>1 DEF Contents
<1>6. \A x \in D \cup {KERNEL_PD} : N[x] = M[x]  BY <1>0, <1>3, <1>5
<1>7. ASSUME NEW x \in D \cup {KERNEL_PD}, NEW q \in Pages
      PROVE  Seen(N, x, q) = IF x = d /\ q = p THEN e ELSE Seen(M, x, q)
  <2>1. pdeIndex(q) \in Low /\ pdeIndex(q) \in Indices /\ pteIndex(q) \in Indices /\ x \in Frames
    BY <1>0, LowIndices, PageIndices
  <2>2. CASE M[x][pdeIndex(q)] = NONE
    <3>1. ~(x = d /\ q = p)  BY <2>2
    <3>. QED  BY <1>6, <2>2, <3>1 DEF Seen
  <2>3. CASE M[x][pdeIndex(q)] # NONE
    <3> DEFINE u == M[x][pdeIndex(q)].frame
    <3>1. u \in Frames  BY <1>0, <2>1, <2>3, EntryFrame
    <3>2. x \in D  BY <2>1, <2>3 DEF Layout, KernelPart
    <3>3. Seen(N, x, q) = N[u][pteIndex(q)] /\ Seen(M, x, q) = M[u][pteIndex(q)]
      BY <1>6, <2>3 DEF Seen
    <3>4. CASE x = d /\ q = p  BY <1>1, <1>4, <2>1, <3>3, <3>4 DEF t
    <3>5. CASE ~(x = d /\ q = p)
      <4>1. ~(u = t /\ pteIndex(q) = pteIndex(p))
        <5> SUFFICES ASSUME u = t, pteIndex(q) = pteIndex(p) PROVE FALSE  OBVIOUS
        <5>1. TableAt(M, x, pdeIndex(q), t)  BY <2>3 DEF TableAt
        <5>2. x = d /\ pdeIndex(q) = pdeIndex(p)
          BY <1>0, <1>2, <2>1, <3>2, <5>1 DEF Layout, TablesOK
        <5>. QED  BY <3>5, <5>2, PagesApart
      <4>. QED  BY <1>4, <2>1, <3>1, <3>3, <3>5, <4>1
    <3>. QED  BY <3>4, <3>5
  <2>. QED  BY <2>2, <2>3
<1>. QED  BY <1>4, <1>6, <1>7 DEF Only

\* A reserved frame becomes a page.
LEMMA LayoutMap ==
  ASSUME NEW M, NEW N \in Mems, NEW F, NEW D, NEW R, Layout(M, F, D, R), NEW d \in D, NEW p \in Pages,
         NEW f \in R, NEW user \in BOOLEAN, Seen(M, d, p) = NONE,
         \A x \in D \cup {KERNEL_PD} : N[x] = M[x], Only(M, N, D, d, p, Entry(f, user))
  PROVE  Layout(N, F, D, R \ {f})
<1> DEFINE S == R \ {f}
<1>0. f \in Frames /\ Apart(F, D, R)  BY DEF Layout, Apart
<1>1. Entry(f, user) # NONE /\ Entry(f, user).frame = f
  BY <1>0, NamesAssumption DEF Entry, Entries
<1>2. \A x \in D, i \in Low : \A t : TableAt(N, x, i, t) <=> TableAt(M, x, i, t)  BY DEF TableAt
<1>3. \A x \in D, q \in Pages : \A g : PageAt(N, x, q, g) <=> PageAt(M, x, q, g) \/ (x = d /\ q = p /\ g = f)
  BY <1>1 DEF PageAt, Only
<1>4. Others(F, D, S) = Others(F, D, R) \cup {f} /\ f \notin Others(F, D, R)
  BY <1>0 DEF Others, Apart
<1>5. Apart(F, D, S)  BY <1>0 DEF Apart
<1>6. KernelPart(N, D)  BY DEF Layout, KernelPart
<1> HIDE DEF S
<1>7. TablesOK(N, F, D, S)  BY <1>2, <1>4 DEF Layout, TablesOK
<1>8. PagesOK(N, F, D, S)
  <2>1. \A x \in D, q \in Pages : \A g : PageAt(N, x, q, g) => g \in Others(F, D, S)
    BY <1>3, <1>4 DEF Layout, PagesOK
  <2>2. \A x, y \in D, q, r \in Pages : \A g : PageAt(N, x, q, g) /\ PageAt(N, y, r, g) => x = y /\ q = r
    BY <1>3, <1>4 DEF Layout, PagesOK
  <2>3. \A x, y \in D, q \in Pages, i \in Low : \A g : ~(PageAt(N, x, q, g) /\ TableAt(N, y, i, g))
    BY <1>2, <1>3, <1>4 DEF Layout, PagesOK, TablesOK
  <2>. QED  BY <2>1, <2>2, <2>3 DEF PagesOK
<1>9. AllUsed(N, F, D, S)
  <2>1. PageAt(N, d, p, f)  BY <1>3
  <2>. QED  BY <1>2, <1>3, <1>4, <2>1 DEF Layout, AllUsed
<1>. QED  BY <1>5, <1>6, <1>7, <1>8, <1>9 DEF Layout, S

\* A page becomes a free frame.
LEMMA LayoutUnmap ==
  ASSUME NEW M, NEW N \in Mems, NEW F, NEW D, NEW R, Layout(M, F, D, R), NEW d \in D, NEW p \in Pages,
         Seen(M, d, p) # NONE,
         \A x \in D \cup {KERNEL_PD} : N[x] = M[x], Only(M, N, D, d, p, NONE)
  PROVE  Layout(N, F \cup {Seen(M, d, p).frame}, D, R)
<1> DEFINE f == Seen(M, d, p).frame  G == F \cup {f}
<1>0. PageAt(M, d, p, f)  BY DEF PageAt
<1>1. f \in Others(F, D, R)  BY <1>0 DEF Layout, PagesOK
<1>2. \A x \in D, i \in Low : \A t : TableAt(N, x, i, t) <=> TableAt(M, x, i, t)  BY DEF TableAt
<1>3. \A x \in D, q \in Pages : \A g : PageAt(N, x, q, g) <=> PageAt(M, x, q, g) /\ ~(x = d /\ q = p)
  BY DEF PageAt, Only
<1> HIDE DEF f
<1>4. Others(G, D, R) = Others(F, D, R) \ {f}  BY DEF Others
<1>5. Apart(G, D, R)  BY <1>1 DEF Layout, Apart, Others
<1>6. KernelPart(N, D)  BY DEF Layout, KernelPart
<1> HIDE DEF G
<1>7. TablesOK(N, G, D, R)
  <2>1. \A x \in D, i \in Low : ~TableAt(M, x, i, f)  BY <1>0 DEF Layout, PagesOK
  <2>. QED  BY <1>2, <1>4, <2>1 DEF Layout, TablesOK
<1>8. PagesOK(N, G, D, R)
  <2>1. \A x \in D, q \in Pages : PageAt(N, x, q, f) => FALSE  BY <1>0, <1>3 DEF Layout, PagesOK
  <2>. QED  BY <1>2, <1>3, <1>4, <2>1 DEF Layout, PagesOK
<1>9. AllUsed(N, G, D, R)
  <2>1. \A g : PageAt(M, d, p, g) => g = f  BY DEF PageAt, f
  <2>. QED  BY <1>2, <1>3, <1>4, <2>1 DEF Layout, AllUsed
<1>. QED  BY <1>5, <1>6, <1>7, <1>8, <1>9 DEF Layout, G, f

\* A free frame becomes a page table, and a reserved one a page.
LEMMA AddsSeen ==
  ASSUME NEW M, NEW N, NEW F, NEW D, NEW R, Layout(M, F, D, R), NEW d \in D, NEW p \in Pages,
         M[d][pdeIndex(p)] = NONE, NEW t \in F, NEW user \in BOOLEAN, NEW e,
         AddsTable(M, N, d, p, t, user, e)
  PROVE  /\ \A x \in D \cup {KERNEL_PD}, i \in Indices :
              N[x][i] = IF x = d /\ i = pdeIndex(p) THEN Entry(t, user) ELSE M[x][i]
         /\ Only(M, N, D, d, p, e)
<1>0. /\ M \in Mems /\ D \cup {KERNEL_PD} \subseteq Frames /\ t \in Frames /\ t \notin D \cup {KERNEL_PD}
      /\ pdeIndex(p) \in Low /\ pdeIndex(p) \in Indices /\ pteIndex(p) \in Indices
  BY LowIndices, PageIndices, FramesAssumption DEF Layout, Apart
<1>1. Entry(t, user) # NONE /\ Entry(t, user).frame = t
  BY <1>0, NamesAssumption DEF Entry, Entries
<1>2. \A x \in D \cup {KERNEL_PD}, i \in Indices :
        N[x][i] = IF x = d /\ i = pdeIndex(p) THEN Entry(t, user) ELSE M[x][i]
  BY <1>0 DEF AddsTable
<1>3. \A i \in Indices : N[t][i] = IF i = pteIndex(p) THEN e ELSE NONE
  BY <1>0 DEF AddsTable
<1>4. ASSUME NEW x \in D \cup {KERNEL_PD}, NEW q \in Pages
      PROVE  Seen(N, x, q) = IF x = d /\ q = p THEN e ELSE Seen(M, x, q)
  <2>1. pdeIndex(q) \in Low /\ pdeIndex(q) \in Indices /\ pteIndex(q) \in Indices /\ x \in Frames
    BY <1>0, LowIndices, PageIndices
  <2>2. CASE x = d /\ pdeIndex(q) = pdeIndex(p)
    <3>1. N[x][pdeIndex(q)] = Entry(t, user)  BY <1>0, <1>2, <2>2
    <3>2. Seen(N, x, q) = N[t][pteIndex(q)]  BY <1>1, <3>1 DEF Seen
    <3>3. Seen(M, x, q) = NONE  BY <2>2 DEF Seen
    <3>4. pteIndex(q) = pteIndex(p) => q = p  BY <2>2, PagesApart
    <3>. QED  BY <1>3, <2>1, <2>2, <3>2, <3>3, <3>4
  <2>3. CASE ~(x = d /\ pdeIndex(q) = pdeIndex(p))
    <3>1. N[x][pdeIndex(q)] = M[x][pdeIndex(q)] /\ ~(x = d /\ q = p)  BY <1>2, <2>1, <2>3
    <3>2. CASE M[x][pdeIndex(q)] = NONE  BY <3>1, <3>2 DEF Seen
    <3>3. CASE M[x][pdeIndex(q)] # NONE
      <4> DEFINE u == M[x][pdeIndex(q)].frame
      <4>1. u \in Frames  BY <1>0, <2>1, <3>3, EntryFrame
      <4>2. x \in D  BY <2>1, <3>3 DEF Layout, KernelPart
      <4>3. TableAt(M, x, pdeIndex(q), u)  BY <3>3 DEF TableAt
      <4>4. u \in Others(F, D, R)  BY <2>1, <4>2, <4>3 DEF Layout, TablesOK
      <4>5. u # t /\ u # d  BY <4>4 DEF Others
      <4>6. N[u][pteIndex(q)] = M[u][pteIndex(q)]  BY <2>1, <4>1, <4>5 DEF AddsTable
      <4>. QED  BY <3>1, <3>3, <4>6 DEF Seen
    <3>. QED  BY <3>2, <3>3
  <2>. QED  BY <2>2, <2>3
<1>. QED  BY <1>2, <1>4 DEF Only

\* kpg_map with a new page table keeps the frames in order.
LEMMA LayoutAdd ==
  ASSUME NEW M, NEW N \in Mems, NEW F, NEW D, NEW R, Layout(M, F, D, R), NEW d \in D, NEW p \in Pages,
         M[d][pdeIndex(p)] = NONE, NEW t \in F, NEW f \in R, NEW user \in BOOLEAN,
         AddsTable(M, N, d, p, t, user, Entry(f, user))
  PROVE  Layout(N, F \ {t}, D, R \ {f})
<1> DEFINE S == R \ {f}  G == F \ {t}
<1>0. /\ f \in Frames /\ t \in Frames /\ f # t /\ Apart(F, D, R) /\ pdeIndex(p) \in Low
      /\ d # KERNEL_PD /\ KERNEL_PD \in Frames
  BY LowIndices, FramesAssumption DEF Layout, Apart
<1>1. /\ Entry(f, user) # NONE /\ Entry(f, user).frame = f
      /\ Entry(t, user) # NONE /\ Entry(t, user).frame = t
  BY <1>0, NamesAssumption DEF Entry, Entries
<1>2. /\ \A x \in D \cup {KERNEL_PD}, i \in Indices :
           N[x][i] = IF x = d /\ i = pdeIndex(p) THEN Entry(t, user) ELSE M[x][i]
      /\ Only(M, N, D, d, p, Entry(f, user))
  <2> DEFINE e == Entry(f, user)
  <2>1. AddsTable(M, N, d, p, t, user, e)  OBVIOUS
  <2> HIDE DEF e
  <2>2. /\ \A x \in D \cup {KERNEL_PD}, i \in Indices :
             N[x][i] = IF x = d /\ i = pdeIndex(p) THEN Entry(t, user) ELSE M[x][i]
        /\ Only(M, N, D, d, p, e)
    BY <2>1, AddsSeen
  <2>. QED  BY <2>2 DEF e
<1>3. Seen(M, d, p) = NONE  BY DEF Seen
<1>4. \A x \in D, i \in Low : \A u : TableAt(N, x, i, u) <=> TableAt(M, x, i, u) \/ (x = d /\ i = pdeIndex(p) /\ u = t)
  BY <1>1, <1>2, LowIndices DEF TableAt
<1>5. \A x \in D, q \in Pages : \A g : PageAt(N, x, q, g) <=> PageAt(M, x, q, g) \/ (x = d /\ q = p /\ g = f)
  BY <1>1, <1>2, <1>3 DEF PageAt, Only
<1>6. /\ Others(G, D, S) = Others(F, D, R) \cup {f, t}
      /\ f \notin Others(F, D, R) /\ t \notin Others(F, D, R)
  BY <1>0 DEF Others, Apart
<1>7. Apart(G, D, S)  BY <1>0 DEF Apart
<1>8. KernelPart(N, D)
  BY <1>0, <1>2, LowIndices, TwoSlots DEF Layout, KernelPart
<1> HIDE DEF S, G
<1>9. TablesOK(N, G, D, S)
  <2>1. \A x \in D, i \in Low : \A u : TableAt(N, x, i, u) => u \in Others(G, D, S)
    BY <1>4, <1>6 DEF Layout, TablesOK
  <2>2. \A x, y \in D, i, j \in Low : \A u : TableAt(N, x, i, u) /\ TableAt(N, y, j, u) => x = y /\ i = j
    BY <1>4, <1>6 DEF Layout, TablesOK
  <2>. QED  BY <2>1, <2>2 DEF TablesOK
<1>10. PagesOK(N, G, D, S)
  <2>1. \A x \in D, q \in Pages : \A g : PageAt(N, x, q, g) => g \in Others(G, D, S)
    BY <1>5, <1>6 DEF Layout, PagesOK
  <2>2. \A x, y \in D, q, r \in Pages : \A g : PageAt(N, x, q, g) /\ PageAt(N, y, r, g) => x = y /\ q = r
    BY <1>5, <1>6 DEF Layout, PagesOK
  <2>3. \A x, y \in D, q \in Pages, i \in Low : \A g : ~(PageAt(N, x, q, g) /\ TableAt(N, y, i, g))
    BY <1>0, <1>4, <1>5, <1>6 DEF Layout, PagesOK, TablesOK
  <2>. QED  BY <2>1, <2>2, <2>3 DEF PagesOK
<1>11. AllUsed(N, G, D, S)
  <2>1. PageAt(N, d, p, f) /\ TableAt(N, d, pdeIndex(p), t)  BY <1>0, <1>4, <1>5
  <2>. QED  BY <1>0, <1>4, <1>5, <1>6, <2>1 DEF Layout, AllUsed
<1>. QED  BY <1>7, <1>8, <1>9, <1>10, <1>11 DEF Layout, S, G

NoFrames == {}
\* Page directory d has no pages.
Bare(M, d) == \A p \in Pages : Seen(M, d, p) = NONE
\* Page directory d has the kernel's entries, an entry for itself and no others.
NewDirectory(N, d) ==
  /\ \A i \in Low : N[d][i] = NONE
  /\ N[d][KERNEL_PDE_INDEX] = Entry(KERNEL_PT, FALSE) /\ N[d][RECURSIVE_PDE_INDEX] = Entry(d, FALSE)

\* A free frame becomes a page directory with the kernel's entries.
LEMMA LayoutCreate ==
  ASSUME NEW M, NEW N \in Mems, NEW F, NEW D, Layout(M, F, D, NoFrames), NEW d \in F,
         Elsewhere(M, N, d), NewDirectory(N, d)
  PROVE  /\ Layout(N, F \ {d}, D \cup {d}, NoFrames)
         /\ SameSeen(M, N, D \cup {KERNEL_PD}) /\ Bare(N, d)
<1> USE DEF NoFrames, NewDirectory
<1> DEFINE G == F \ {d}  E == D \cup {d}
<1>0. d \in Frames /\ d \notin D \cup {KERNEL_PD} /\ Apart(F, D, {})  BY DEF Layout, Apart
<1>1. \A x \in D, i \in Low : ~TableAt(M, x, i, d)
  BY DEF Layout, TablesOK, Others
<1>2. /\ \A x \in D \cup {KERNEL_PD} : N[x] = M[x]
      /\ \A x \in D \cup {KERNEL_PD}, p \in Pages : Seen(N, x, p) = Seen(M, x, p)
  <2>1. Plain(M, D, d) /\ Elsewhere(M, N, d)  BY <1>0, <1>1 DEF Plain
  <2>2. Layout(M, F, D, NoFrames)  OBVIOUS
  <2> HIDE DEF NoFrames
  <2>3. SameDirs(M, N, D \cup {KERNEL_PD}) /\ SameSeen(M, N, D \cup {KERNEL_PD})
    BY ONLY <2>1, <2>2, SeenKept
  <2>. QED  BY <2>3 DEF SameDirs, SameSeen
<1>3. \A p \in Pages : Seen(N, d, p) = NONE  BY LowIndices DEF Seen
<1>4. \A x \in E, i \in Low : \A u : TableAt(N, x, i, u) <=> x \in D /\ TableAt(M, x, i, u)
  BY <1>0, <1>2 DEF TableAt
<1>5. \A x \in E, q \in Pages : \A g : PageAt(N, x, q, g) <=> x \in D /\ PageAt(M, x, q, g)
  BY <1>0, <1>2, <1>3 DEF PageAt
<1>6. Others(G, E, {}) = Others(F, D, {})  BY DEF Others
<1>7. Apart(G, E, {})  BY <1>0 DEF Apart
<1>8. KernelPart(N, E)  BY <1>0, <1>2 DEF Layout, KernelPart
<1>9. D \subseteq E  OBVIOUS
<1> HIDE DEF E, G
<1>10. TablesOK(N, G, E, {})  BY <1>4, <1>6 DEF Layout, TablesOK
<1>11. PagesOK(N, G, E, {})  BY <1>4, <1>5, <1>6 DEF Layout, PagesOK
<1>12. AllUsed(N, G, E, {})  BY <1>4, <1>5, <1>6, <1>9 DEF Layout, AllUsed
<1>. QED  BY <1>2, <1>3, <1>7, <1>8, <1>10, <1>11, <1>12 DEF Layout, G, E, Bare, SameSeen

TablesOf(M, d, T) == \A t : t \in T <=> \E i \in Low : TableAt(M, d, i, t)
Outwith(M, N, S) == \A x \in Frames : x \notin S => N[x] = M[x]

\* The page tables of a directory without pages, and the directory, become free.
LEMMA LayoutDelete ==
  ASSUME NEW M, NEW N \in Mems, NEW F, NEW D, Layout(M, F, D, NoFrames), NEW d \in D,
         Bare(M, d), NEW T, TablesOf(M, d, T), Outwith(M, N, T \cup {d})
  PROVE  /\ Layout(N, F \cup T \cup {d}, D \ {d}, NoFrames)
         /\ SameSeen(M, N, (D \ {d}) \cup {KERNEL_PD})
<1> USE DEF NoFrames, Bare, TablesOf, Outwith, SameSeen
<1> DEFINE G == F \cup T \cup {d}  E == D \ {d}
<1>0. d \in Frames /\ d # KERNEL_PD /\ Apart(F, D, {}) /\ M \in Mems /\ D \subseteq Frames
      /\ KERNEL_PD \in Frames
  BY FramesAssumption DEF Layout, Apart
<1>1. T \subseteq Others(F, D, {})  BY DEF Layout, TablesOK
<1>2. \A x \in E \cup {KERNEL_PD} : N[x] = M[x]
  BY <1>0, <1>1 DEF Others
<1>3. ASSUME NEW x \in E \cup {KERNEL_PD}, NEW p \in Pages PROVE Seen(N, x, p) = Seen(M, x, p)
  <2>1. pdeIndex(p) \in Low /\ pdeIndex(p) \in Indices /\ x \in Frames
    BY <1>0, LowIndices
  <2>2. CASE M[x][pdeIndex(p)] = NONE  BY <1>2, <2>2 DEF Seen
  <2>3. CASE M[x][pdeIndex(p)] # NONE
    <3> DEFINE u == M[x][pdeIndex(p)].frame
    <3>1. u \in Frames  BY <1>0, <2>1, <2>3, EntryFrame
    <3>2. x \in D /\ x # d  BY <1>0, <2>1, <2>3 DEF Layout, KernelPart
    <3>3. TableAt(M, x, pdeIndex(p), u)  BY <2>3 DEF TableAt
    <3>4. u \notin T  BY <2>1, <3>2, <3>3 DEF Layout, TablesOK
    <3>5. u # d  BY <2>1, <3>2, <3>3 DEF Layout, TablesOK, Others
    <3>. QED  BY <1>2, <3>1, <3>4, <3>5 DEF Seen
  <2>. QED  BY <2>2, <2>3
<1>4. \A x \in E, i \in Low : \A u : TableAt(N, x, i, u) <=> TableAt(M, x, i, u)
  BY <1>2 DEF TableAt
<1>5. \A x \in E, q \in Pages : \A g : PageAt(N, x, q, g) <=> PageAt(M, x, q, g)
  BY <1>3 DEF PageAt
<1>6. Others(G, E, {}) = Others(F, D, {}) \ T  BY DEF Others
<1>7. Apart(G, E, {})  BY <1>0, <1>1 DEF Apart, Others
<1>8. KernelPart(N, E)  BY <1>2 DEF Layout, KernelPart
<1>9. \A q \in Pages : \A g : ~PageAt(M, d, q, g)  BY DEF PageAt
<1>10. \A x \in D : x \in E \/ x = d  OBVIOUS
<1>11. E \subseteq D /\ d \notin E  OBVIOUS
<1> HIDE DEF E, G
<1>12. TablesOK(N, G, E, {})  BY <1>4, <1>6, <1>11 DEF Layout, TablesOK
<1>13. PagesOK(N, G, E, {})
  <2>1. \A x \in D, q \in Pages : \A g : PageAt(M, x, q, g) => g \notin T  BY DEF Layout, PagesOK
  <2>. QED  BY <1>4, <1>5, <1>6, <1>11, <2>1 DEF Layout, PagesOK
<1>14. AllUsed(N, G, E, {})  BY <1>4, <1>5, <1>6, <1>9, <1>10 DEF Layout, AllUsed
<1>. QED  BY <1>3, <1>7, <1>8, <1>12, <1>13, <1>14 DEF Layout, G, E

-----------------------------------------------------------------------------
(* Loops over pages *)

\* The states between the rounds of the loop of kpg_mapContinous.
MapRounds(g, m, p, f, n, user) ==
  g = [i \in 0..n |-> IF i = 0 THEN m ELSE kpg_map(g[i - 1], p + i - 1, f + i - 1, user)]
MapTrace(g, m, p, f, n, user) ==
  /\ g[0] = m
  /\ \A i \in 1..n : g[i] = kpg_map(g[i - 1], p + i - 1, f + i - 1, user)
  /\ kpg_mapContinous(m, p, f, n, user) = g[n]

\* The loop of kpg_mapContinous as a sequence of machines, one per round.
LEMMA MapLoop ==
  ASSUME NEW m, NEW p \in Nat, NEW f \in Nat, NEW user, NEW n \in Nat
  PROVE  \E g : MapTrace(g, m, p, f, n, user)
<1> DEFINE Rounds(k) == \E g : MapRounds(g, m, p, f, k, user)
           T == {k \in Nat : ~Rounds(k)}
<1>1. Rounds(0)
  <2>1. MapRounds([i \in 0..0 |-> m], m, p, f, 0, user)  BY DEF MapRounds
  <2>. QED  BY <2>1
<1>2. ASSUME NEW k \in Nat, Rounds(k) PROVE Rounds(k + 1)
  <2>1. PICK g : MapRounds(g, m, p, f, k, user)  BY <1>2
  <2> DEFINE h == [i \in 0..(k + 1) |-> IF i <= k THEN g[i]
                                        ELSE kpg_map(g[k], p + k, f + k, user)]
  <2>2. \A i \in 0..k : g[i] = IF i = 0 THEN m ELSE kpg_map(g[i - 1], p + i - 1, f + i - 1, user)
    BY <2>1 DEF MapRounds
  <2>3. \A i \in 0..k : h[i] = g[i]  OBVIOUS
  <2>4. h[k + 1] = kpg_map(h[k], p + (k + 1) - 1, f + (k + 1) - 1, user)
    <3>1. h[k + 1] = kpg_map(g[k], p + k, f + k, user)  OBVIOUS
    <3>. QED  BY <2>3, <3>1
  <2> HIDE DEF h
  <2>5. \A i \in 0..(k + 1) : h[i] = IF i = 0 THEN m ELSE kpg_map(h[i - 1], p + i - 1, f + i - 1, user)
    <3> SUFFICES ASSUME NEW i \in 0..(k + 1)
                 PROVE  h[i] = IF i = 0 THEN m ELSE kpg_map(h[i - 1], p + i - 1, f + i - 1, user)
      OBVIOUS
    <3>1. CASE i = k + 1  BY <2>4, <3>1
    <3>2. CASE i # k + 1
      <4>1. i \in 0..k /\ (i # 0 => i - 1 \in 0..k)  BY <3>2
      <4>. QED  BY <2>2, <2>3, <4>1
    <3>. QED  BY <3>1, <3>2
  <2>6. h = [i \in 0..(k + 1) |-> h[i]]  BY DEF h
  <2>7. MapRounds(h, m, p, f, k + 1, user)  BY <2>5, <2>6 DEF MapRounds
  <2>. QED  BY <2>7
<1> HIDE DEF Rounds
<1>3. Rounds(n)
  <2> SUFFICES ASSUME ~Rounds(n) PROVE FALSE  OBVIOUS
  <2>1. T # {} /\ T \subseteq Nat  OBVIOUS
  <2>2. PICK k \in T : \A j \in T : k <= j  BY <2>1, LeastNumber
  <2>3. k # 0 /\ k \in Nat  BY <1>1
  <2>4. Rounds(k - 1)  BY <2>2, <2>3
  <2>. QED  BY <1>2, <2>3, <2>4
<1>4. PICK g : g = CHOOSE step : MapRounds(step, m, p, f, n, user)  OBVIOUS
<1>5. MapRounds(g, m, p, f, n, user)  BY <1>3, <1>4 DEF Rounds
<1>6. kpg_mapContinous(m, p, f, n, user) = g[n]  BY <1>4 DEF kpg_mapContinous, MapRounds
<1>7. \A i \in 0..n : g[i] = IF i = 0 THEN m ELSE kpg_map(g[i - 1], p + i - 1, f + i - 1, user)
  BY <1>5 DEF MapRounds
<1>8. g[0] = m  BY <1>7
<1>9. \A i \in 1..n : g[i] = kpg_map(g[i - 1], p + i - 1, f + i - 1, user)  BY <1>7
<1>. QED  BY <1>6, <1>8, <1>9 DEF MapTrace

\* The states between the rounds of the loop of kvmm_free.
FreeRound(m, q) == IF q \in Pages THEN FreedPage(m, q) ELSE m
FreeRounds(g, m, p, n) ==
  g = [i \in 0..n |-> IF i = 0 THEN m ELSE IF p + i - 1 \in Pages THEN FreedPage(g[i - 1], p + i - 1)
                      ELSE g[i - 1]]

\* The loop of kvmm_free as a sequence of machines, one per round.
LEMMA FreeLoop ==
  ASSUME NEW m, NEW p \in Nat, NEW n \in Nat
  PROVE  \E g : /\ g[0] = m
                /\ \A i \in 1..n : g[i] = FreeRound(g[i - 1], p + i - 1)
                /\ Freed(m, p, n) = g[n]
<1> DEFINE Rounds(k) == \E g : FreeRounds(g, m, p, k)
           T == {k \in Nat : ~Rounds(k)}
<1>0. \A g, k : FreeRounds(g, m, p, k) <=> g = [i \in 0..k |-> IF i = 0 THEN m ELSE FreeRound(g[i - 1], p + i - 1)]
  BY DEF FreeRounds, FreeRound
<1>1. Rounds(0)
  <2>1. FreeRounds([i \in 0..0 |-> m], m, p, 0)  BY DEF FreeRounds
  <2>. QED  BY <2>1
<1>2. ASSUME NEW k \in Nat, Rounds(k) PROVE Rounds(k + 1)
  <2>1. PICK g : FreeRounds(g, m, p, k)  BY <1>2
  <2> DEFINE h == [i \in 0..(k + 1) |-> IF i <= k THEN g[i] ELSE FreeRound(g[k], p + k)]
  <2>2. \A i \in 0..k : g[i] = IF i = 0 THEN m ELSE FreeRound(g[i - 1], p + i - 1)
    BY <1>0, <2>1
  <2>3. \A i \in 0..k : h[i] = g[i]  OBVIOUS
  <2>4. h[k + 1] = FreeRound(h[k], p + (k + 1) - 1)
    <3>1. h[k + 1] = FreeRound(g[k], p + k)  OBVIOUS
    <3>. QED  BY <2>3, <3>1
  <2> HIDE DEF h
  <2>5. \A i \in 0..(k + 1) : h[i] = IF i = 0 THEN m ELSE FreeRound(h[i - 1], p + i - 1)
    <3> SUFFICES ASSUME NEW i \in 0..(k + 1)
                 PROVE  h[i] = IF i = 0 THEN m ELSE FreeRound(h[i - 1], p + i - 1)
      OBVIOUS
    <3>1. CASE i = k + 1  BY <2>4, <3>1
    <3>2. CASE i # k + 1
      <4>1. i \in 0..k /\ (i # 0 => i - 1 \in 0..k)  BY <3>2
      <4>. QED  BY <2>2, <2>3, <4>1
    <3>. QED  BY <3>1, <3>2
  <2>6. h = [i \in 0..(k + 1) |-> h[i]]  BY DEF h
  <2>7. h = [i \in 0..(k + 1) |-> IF i = 0 THEN m ELSE FreeRound(h[i - 1], p + i - 1)]
    BY <2>5, <2>6
  <2>8. FreeRounds(h, m, p, k + 1)  BY <1>0, <2>7
  <2>. QED  BY <2>8
<1> HIDE DEF Rounds
<1>3. Rounds(n)
  <2> SUFFICES ASSUME ~Rounds(n) PROVE FALSE  OBVIOUS
  <2>1. T # {} /\ T \subseteq Nat  OBVIOUS
  <2>2. PICK k \in T : \A j \in T : k <= j  BY <2>1, LeastNumber
  <2>3. k # 0 /\ k \in Nat  BY <1>1
  <2>4. Rounds(k - 1)  BY <2>2, <2>3
  <2>. QED  BY <1>2, <2>3, <2>4
<1>4. PICK g : g = CHOOSE step : FreeRounds(step, m, p, n)  OBVIOUS
<1>5. FreeRounds(g, m, p, n)  BY <1>3, <1>4 DEF Rounds
<1>6. Freed(m, p, n) = g[n]  BY <1>4 DEF Freed, FreeRounds
<1>7. \A i \in 0..n : g[i] = IF i = 0 THEN m ELSE FreeRound(g[i - 1], p + i - 1)
  BY <1>0, <1>5
<1>8. g[0] = m  BY <1>7
<1>9. \A i \in 1..n : g[i] = FreeRound(g[i - 1], p + i - 1)  BY <1>7
<1>. QED  BY <1>6, <1>8, <1>9

\* Between two rounds: d is at EXTERN, frames are in order, and the TLB agrees with the
\* tables of c, the current page directory.
Fresh(T, M, c) == \A q \in Pages : T[q] # NONE => T[q] = Seen(M, c, q)
Mid(m, D, d, R, c) ==
  /\ Busy(m, d) /\ d \in D /\ c \in D \cup {KERNEL_PD}
  /\ Layout(m.mem, m.free, D, R) /\ Fresh(m.tlb, m.mem, c)

\* A step that forgets the page it changed leaves the TLB as good as it was.
LEMMA FreshStep ==
  ASSUME NEW m, NEW r, NEW D, NEW d, NEW c \in D \cup {KERNEL_PD}, NEW p \in Pages, NEW e,
         Fresh(m.tlb, m.mem, c), Forgets(m, r, d, p), Only(m.mem, r.mem, D, d, p, e)
  PROVE  Fresh(r.tlb, r.mem, c)
<1> SUFFICES ASSUME NEW q \in Pages, r.tlb[q] # NONE PROVE r.tlb[q] = Seen(r.mem, c, q)
  BY DEF Fresh
<1>1. q \notin Slots /\ EXTERN \in Slots  BY PageIndices, TwoSlots
<1>2. q # p /\ r.tlb[q] = m.tlb[q]  BY <1>1 DEF Forgets
<1>. QED  BY <1>2 DEF Fresh, Only

\* A round of kpg_mapContinous.
LEMMA MapStep ==
  ASSUME NEW m, NEW D, NEW d, NEW R, NEW c, Mid(m, D, d, R, c), NEW p \in Pages, NEW f \in R,
         NEW user \in BOOLEAN, Seen(m.mem, d, p) = NONE
  PROVE  LET r == kpg_map(m, p, f, user)
         IN \/ r \in Machines /\ r.panic = "AllocationFailed" /\ r.mem = m.mem
            \/ Mid(r, D, d, R \ {f}, c) /\ Only(m.mem, r.mem, D, d, p, Entry(f, user))
               /\ r.slot = m.slot
<1> DEFINE r == kpg_map(m, p, f, user)  e == Entry(f, user)
<1>0. /\ Busy(m, d) /\ d \in D /\ c \in D \cup {KERNEL_PD} /\ Layout(m.mem, m.free, D, R)
      /\ Fresh(m.tlb, m.mem, c)
  BY DEF Mid
<1>1. f \in Frames /\ d \notin m.free /\ m.mem \in Mems  BY <1>0 DEF Layout, Apart
<1>2. e \in Cells /\ e \in Entries /\ e.frame = f  BY <1>1 DEF Cells, Entry, Entries
<1>3. CASE m.mem[d][pdeIndex(p)] # NONE
  <2>1. /\ Busy(r, d) /\ r.free = m.free /\ r.slot = m.slot /\ Forgets(m, r, d, p)
        /\ Sets(m.mem, r.mem, m.mem[d][pdeIndex(p)].frame, pteIndex(p), e)
    BY <1>0, <1>1, <1>3, MapOld
  <2> HIDE DEF r, e
  <2>2. /\ r.mem \in Mems /\ \A x \in D \cup {KERNEL_PD} : r.mem[x] = m.mem[x]
        /\ Only(m.mem, r.mem, D, d, p, e)
    BY <1>0, <1>2, <1>3, <2>1, SetsSeen
  <2>3. Layout(r.mem, m.free, D, R \ {f})
    <3>1. Only(m.mem, r.mem, D, d, p, Entry(f, user))  BY <2>2 DEF e
    <3>. QED  BY <1>0, <2>2, <3>1, LayoutMap
  <2>4. Fresh(r.tlb, r.mem, c)  BY <1>0, <2>1, <2>2, FreshStep
  <2>. QED  BY <1>0, <2>1, <2>2, <2>3, <2>4 DEF Mid, r, e
<1>4. CASE m.mem[d][pdeIndex(p)] = NONE /\ m.free # {}
  <2> DEFINE t == kpmm_alloc(m)
  <2>1. /\ t \in m.free
        /\ Busy(r, d) /\ r.free = m.free \ {t} /\ r.slot = m.slot /\ Forgets(m, r, d, p)
        /\ AddsTable(m.mem, r.mem, d, p, t, user, e)
    BY <1>0, <1>1, <1>4, MapNew
  <2> HIDE DEF r, t
  <2>2. Only(m.mem, r.mem, D, d, p, e)
    <3> DEFINE M == m.mem  N == r.mem  F == m.free
    <3> HIDE DEF e
    <3>1. /\ Layout(M, F, D, R) /\ d \in D /\ p \in Pages /\ M[d][pdeIndex(p)] = NONE
          /\ t \in F /\ user \in BOOLEAN /\ AddsTable(M, N, d, p, t, user, e)
      BY <1>0, <1>4, <2>1
    <3> HIDE DEF M, N, F
    <3>2. Only(M, N, D, d, p, e)  BY ONLY <3>1, AddsSeen
    <3>. QED  BY <3>2 DEF M, N
  <2>3. r.mem \in Mems  BY <2>1 DEF Busy, View, Machines
  <2>4. Layout(r.mem, r.free, D, R \ {f})
    BY <1>0, <1>4, <2>1, <2>3, LayoutAdd
  <2> HIDE DEF e
  <2>5. Fresh(r.tlb, r.mem, c)  BY <1>0, <2>1, <2>2, FreshStep
  <2>. QED  BY <1>0, <2>1, <2>2, <2>4, <2>5 DEF Mid, r, e
<1>5. CASE m.mem[d][pdeIndex(p)] = NONE /\ m.free = {}
  BY <1>0, <1>5, MapFull
<1>. QED  BY <1>3, <1>4, <1>5

\* A round of kvmm_free.
LEMMA FreeStep ==
  ASSUME NEW m, NEW D, NEW d, NEW R, NEW c, Mid(m, D, d, R, c), NEW p \in Pages
  PROVE  LET r == FreedPage(m, p)
         IN Mid(r, D, d, R, c) /\ Only(m.mem, r.mem, D, d, p, NONE) /\ r.slot = m.slot
<1> DEFINE r == FreedPage(m, p)  e == Seen(m.mem, d, p)
<1>0. /\ Busy(m, d) /\ d \in D /\ c \in D \cup {KERNEL_PD} /\ Layout(m.mem, m.free, D, R)
      /\ Fresh(m.tlb, m.mem, c)
  BY DEF Mid
<1>1. CASE e = NONE
  <2>1. /\ r = LookedUp(m, p)
        /\ Busy(r, d) /\ r.mem = m.mem /\ r.free = m.free /\ r.slot = m.slot
        /\ \A a \in Slots \cup Pages : r.tlb[a] = IF a = EXTERN THEN d ELSE m.tlb[a]
    BY <1>0, <1>1, LookUpResult DEF FreedPage
  <2> HIDE DEF r
  <2>2. \A q \in Pages : r.tlb[q] = m.tlb[q]  BY <2>1, PageIndices, TwoSlots
  <2>3. Fresh(r.tlb, r.mem, c)  BY <1>0, <2>1, <2>2 DEF Fresh
  <2>4. Only(m.mem, r.mem, D, d, p, NONE)  BY <1>1, <2>1 DEF Only
  <2>. QED  BY <1>0, <2>1, <2>3, <2>4 DEF Mid, r
<1>2. CASE e # NONE
  <2>0. m.mem[d][pdeIndex(p)] # NONE  BY <1>2 DEF Seen
  <2>1. /\ Busy(r, d) /\ r.slot = m.slot /\ Forgets(m, r, d, p)
        /\ r.free = m.free \cup {e.frame}
        /\ Sets(m.mem, r.mem, m.mem[d][pdeIndex(p)].frame, pteIndex(p), NONE)
    BY <1>0, <1>2, FreeResult
  <2> HIDE DEF r
  <2>2. /\ r.mem \in Mems /\ \A x \in D \cup {KERNEL_PD} : r.mem[x] = m.mem[x]
        /\ Only(m.mem, r.mem, D, d, p, NONE)
    <3> DEFINE M == m.mem  N == r.mem  F == m.free  z == NONE
    <3>1. /\ Layout(M, F, D, R) /\ d \in D /\ p \in Pages /\ M[d][pdeIndex(p)] # NONE /\ z \in Cells
          /\ Sets(M, N, M[d][pdeIndex(p)].frame, pteIndex(p), z)
      BY <1>0, <2>0, <2>1 DEF Cells
    <3> HIDE DEF M, N, F, z
    <3>2. N \in Mems /\ (\A x \in D \cup {KERNEL_PD} : N[x] = M[x]) /\ Only(M, N, D, d, p, z)
      BY ONLY <3>1, SetsSeen
    <3>. QED  BY <3>2 DEF M, N, z
  <2>3. Layout(r.mem, m.free \cup {e.frame}, D, R)  BY <1>0, <1>2, <2>2, LayoutUnmap
  <2>4. Fresh(r.tlb, r.mem, c)  BY <1>0, <2>1, <2>2, FreshStep
  <2>. QED  BY <1>0, <2>1, <2>2, <2>3, <2>4 DEF Mid, r
<1>. QED  BY <1>1, <1>2

\* The pages that are not in S of d keep what they have.
Kept(M, N, D, d, S) ==
  \A x \in D \cup {KERNEL_PD}, q \in Pages : x # d \/ q \notin S => Seen(N, x, q) = Seen(M, x, q)

\* n numbers from p on.
Span(p, n) == p .. p + n - 1

\* The loop of kpg_mapContinous: the pages it names may change, no others, and the frames it
\* is given are used, unless there is no memory for a page table.
MapBefore(m, D, d, c, p, f, n, user) ==
  /\ p \in Nat /\ f \in Nat /\ n \in Nat /\ user \in BOOLEAN
  /\ Mid(m, D, d, Span(f, n), c) /\ Span(p, n) \subseteq Pages
  /\ \A q \in Span(p, n) : Seen(m.mem, d, q) = NONE
MapAfter(m, r, D, d, c, p, n) ==
  /\ Kept(m.mem, r.mem, D, d, Span(p, n))
  /\ \/ r \in Machines /\ r.panic = "AllocationFailed"
     \/ Mid(r, D, d, NoFrames, c) /\ r.slot = m.slot

\* kpg_mapContinous: all the pages are mapped, or the kernel has halted.
LEMMA MapAll ==
  ASSUME NEW m, NEW D, NEW d, NEW c, NEW p, NEW f, NEW n, NEW user,
         MapBefore(m, D, d, c, p, f, n, user)
  PROVE  MapAfter(m, kpg_mapContinous(m, p, f, n, user), D, d, c, p, n)
<1> USE DEF MapBefore
<1> USE DEF Span
<1>0. PICK g : MapTrace(g, m, p, f, n, user)  BY MapLoop
<1>1. /\ g[0] = m
      /\ \A i \in 1..n : g[i] = kpg_map(g[i - 1], p + i - 1, f + i - 1, user)
      /\ kpg_mapContinous(m, p, f, n, user) = g[n]
  BY <1>0 DEF MapTrace
<1> DEFINE Rest(i) == f + i .. f + n - 1
           Done(i) == p .. p + i - 1
           Good(i) == /\ Kept(m.mem, g[i].mem, D, d, Done(i))
                      /\ \/ g[i] \in Machines /\ g[i].panic = "AllocationFailed"
                         \/ Mid(g[i], D, d, Rest(i), c) /\ g[i].slot = m.slot
           T == {i \in 0..n : ~Good(i)}
<1>2. Good(0)
  <2>1. Rest(0) = f .. f + n - 1  OBVIOUS
  <2>2. Kept(m.mem, m.mem, D, d, Done(0))  BY DEF Kept
  <2>. QED  BY <1>1, <2>1, <2>2
<1>3. ASSUME NEW i \in 1..n, Good(i - 1) PROVE Good(i)
  <2> DEFINE a == g[i - 1]  b == g[i]  q == p + i - 1  h == f + i - 1
  <2>0. /\ b = kpg_map(a, q, h, user) /\ q \in Pages /\ q \notin Done(i - 1) /\ Done(i) = Done(i - 1) \cup {q}
        /\ h \in Rest(i - 1) /\ Rest(i) = Rest(i - 1) \ {h} /\ q \in p .. p + n - 1
    <3>1. b = kpg_map(a, q, h, user)  BY <1>1
    <3>2. q \in p .. p + n - 1 /\ q \notin Done(i - 1) /\ Done(i) = Done(i - 1) \cup {q}  OBVIOUS
    <3>3. h \in Rest(i - 1) /\ Rest(i) = Rest(i - 1) \ {h}  OBVIOUS
    <3>. QED  BY <3>1, <3>2, <3>3
  <2>1. CASE a \in Machines /\ a.panic = "AllocationFailed"
    <3>1. b = a  BY <2>0, <2>1, NamesAssumption DEF kpg_map, Panics
    <3>. QED  BY <1>3, <2>0, <2>1, <3>1 DEF Kept
  <2>2. CASE Mid(a, D, d, Rest(i - 1), c) /\ a.slot = m.slot
    <3>0. Kept(m.mem, a.mem, D, d, Done(i - 1))  BY <1>3
    <3>1. Seen(a.mem, d, q) = NONE
      BY <2>0, <2>2, <3>0 DEF Kept, Mid
    <3> DEFINE R == Rest(i - 1)
    <3> HIDE DEF a, q, h, Rest, Done
    <3>2. \/ b \in Machines /\ b.panic = "AllocationFailed" /\ b.mem = a.mem
          \/ /\ Mid(b, D, d, R \ {h}, c) /\ Only(a.mem, b.mem, D, d, q, Entry(h, user))
             /\ b.slot = a.slot
      <4>1. Mid(a, D, d, R, c) /\ q \in Pages /\ h \in R  BY <2>0, <2>2
      <4> HIDE DEF b, R
      <4>2. LET r == kpg_map(a, q, h, user)
            IN \/ r \in Machines /\ r.panic = "AllocationFailed" /\ r.mem = a.mem
               \/ Mid(r, D, d, R \ {h}, c) /\ Only(a.mem, r.mem, D, d, q, Entry(h, user))
                  /\ r.slot = a.slot
        BY <3>1, <4>1, MapStep
      <4>. QED  BY <2>0, <4>2
    <3> HIDE DEF b
    <3>3. CASE b \in Machines /\ b.panic = "AllocationFailed" /\ b.mem = a.mem
      <4>1. Kept(m.mem, b.mem, D, d, Done(i))  BY <2>0, <3>0, <3>3 DEF Kept
      <4>. QED  BY <3>3, <4>1 DEF b
    <3>4. CASE /\ Mid(b, D, d, R \ {h}, c) /\ Only(a.mem, b.mem, D, d, q, Entry(h, user))
               /\ b.slot = a.slot
      <4>1. Kept(m.mem, b.mem, D, d, Done(i))
        <5> DEFINE e == Entry(h, user)
        <5>1. Only(a.mem, b.mem, D, d, q, e)  BY <3>4
        <5> HIDE DEF e
        <5>. QED  BY <2>0, <3>0, <5>1 DEF Kept, Only
      <4>2. Mid(b, D, d, Rest(i), c)  BY <2>0, <3>4
      <4>. QED  BY <2>2, <3>4, <4>1, <4>2 DEF b
    <3>. QED  BY <3>2, <3>3, <3>4
  <2>. QED  BY <1>3, <2>1, <2>2
<1> HIDE DEF Good
<1>4. Good(n)
  <2> SUFFICES ASSUME ~Good(n) PROVE FALSE  OBVIOUS
  <2>1. T # {} /\ T \subseteq Nat  OBVIOUS
  <2>2. PICK k \in T : \A j \in T : k <= j  BY <2>1, LeastNumber
  <2>3. k # 0 /\ k \in 1..n  BY <1>2
  <2>4. Good(k - 1)  BY <2>2, <2>3
  <2>. QED  BY <1>3, <2>3, <2>4
<1>5. Rest(n) = NoFrames  BY DEF NoFrames
<1>. QED  BY <1>1, <1>4, <1>5 DEF Good, MapAfter

\* The loop of kvmm_free: the pages it names are not mapped any more.
LEMMA FreeAll ==
  ASSUME NEW m, NEW D, NEW d, NEW R, NEW c, NEW p \in Nat, NEW n \in Nat, Mid(m, D, d, R, c)
  PROVE  LET r == Freed(m, p, n)
         IN /\ Mid(r, D, d, R, c) /\ r.slot = m.slot
            /\ Kept(m.mem, r.mem, D, d, p .. p + n - 1)
            /\ \A q \in Pages : q \in p .. p + n - 1 => Seen(r.mem, d, q) = NONE
<1>0. p \in Nat /\ n \in Nat  OBVIOUS
<1>1. PICK g : /\ g[0] = m
               /\ \A i \in 1..n : g[i] = FreeRound(g[i - 1], p + i - 1)
               /\ Freed(m, p, n) = g[n]
  BY ONLY <1>0, FreeLoop, Zenon
<1> DEFINE Done(i) == p .. p + i - 1
           Good(i) == /\ Mid(g[i], D, d, R, c) /\ g[i].slot = m.slot
                      /\ Kept(m.mem, g[i].mem, D, d, Done(i))
                      /\ \A q \in Pages : q \in Done(i) => Seen(g[i].mem, d, q) = NONE
           T == {i \in 0..n : ~Good(i)}
<1>2. Good(0)
  <2>1. Kept(m.mem, m.mem, D, d, Done(0))  BY DEF Kept
  <2>2. Done(0) = {}  OBVIOUS
  <2>. QED  BY <1>1, <2>1, <2>2
<1>3. ASSUME NEW i \in 1..n, Good(i - 1) PROVE Good(i)
  <2> DEFINE a == g[i - 1]  b == g[i]  q == p + i - 1
  <2>0. b = FreeRound(a, q) /\ q \notin Done(i - 1) /\ Done(i) = Done(i - 1) \cup {q}
    BY <1>1
  <2>1. /\ Mid(a, D, d, R, c) /\ a.slot = m.slot
        /\ Kept(m.mem, a.mem, D, d, Done(i - 1))
        /\ \A x \in Pages : x \in Done(i - 1) => Seen(a.mem, d, x) = NONE
    BY <1>3
  <2> HIDE DEF a, q, Done
  <2>2. CASE q \notin Pages
    <3>1. b = a  BY <2>0, <2>2 DEF FreeRound
    <3> HIDE DEF b
    <3>2. Kept(m.mem, b.mem, D, d, Done(i))  BY <2>0, <2>1, <2>2, <3>1 DEF Kept
    <3>. QED  BY <2>0, <2>1, <2>2, <3>1, <3>2 DEF b
  <2>3. CASE q \in Pages
    <3> HIDE DEF b
    <3>1. b = FreedPage(a, q)  BY <2>0, <2>3 DEF FreeRound
    <3>2. Mid(b, D, d, R, c) /\ Only(a.mem, b.mem, D, d, q, NONE) /\ b.slot = a.slot
      BY <2>1, <2>3, <3>1, FreeStep
    <3>3. Kept(m.mem, b.mem, D, d, Done(i))  BY <2>0, <2>1, <3>2 DEF Kept, Only
    <3>4. \A x \in Pages : x \in Done(i) => Seen(b.mem, d, x) = NONE
      BY <2>0, <2>1, <3>2 DEF Only, Mid
    <3>. QED  BY <2>1, <3>2, <3>3, <3>4 DEF b
  <2>. QED  BY <2>2, <2>3
<1> HIDE DEF Good
<1>4. Good(n)
  <2> SUFFICES ASSUME ~Good(n) PROVE FALSE  OBVIOUS
  <2>1. T # {} /\ T \subseteq Nat  OBVIOUS
  <2>2. PICK k \in T : \A j \in T : k <= j  BY <2>1, LeastNumber
  <2>3. k # 0 /\ k \in 1..n  BY <1>2
  <2>4. Good(k - 1)  BY <2>2, <2>3
  <2>. QED  BY <1>3, <2>3, <2>4
<1>. QED  BY <1>1, <1>4 DEF Good

-----------------------------------------------------------------------------
(* The calls *)

\* Between two calls: no temporary mapping is in use.
Ready(m, D, R, c) ==
  /\ m \in Machines /\ m.panic = NONE
  /\ \A s \in Slots : m.slot[s] = NONE /\ m.tlb[s] = NONE
  /\ c \in D \cup {KERNEL_PD}
  /\ Layout(m.mem, m.free, D, R) /\ Fresh(m.tlb, m.mem, c)

\* A call of vmm.c has its page directory mapped while it works.
LEMMA Enter ==
  ASSUME NEW m, NEW D, NEW R, NEW c, Ready(m, D, R, c), NEW d \in D
  PROVE  LET r == s_temporaryMap(m, EXTERN, d) IN Mid(r, D, d, R, c) /\ r.mem = m.mem
<1> DEFINE r == s_temporaryMap(m, EXTERN, d)
<1>0. /\ m \in Machines /\ m.panic = NONE /\ m.slot[EXTERN] = NONE /\ d \in Frames
      /\ m.slot[INTERNAL] = NONE /\ m.tlb[INTERNAL] = NONE
  BY TwoSlots DEF Ready, Layout, Apart
<1>1. /\ View(r, EXTERN, d)
      /\ r.mem = m.mem /\ r.free = m.free /\ r.panic = m.panic
      /\ r.slot = [m.slot EXCEPT ![EXTERN] = d] /\ r.tlb = [m.tlb EXCEPT ![EXTERN] = NONE]
  BY <1>0, TwoSlots, MapSlot
<1> HIDE DEF r
<1>2. Busy(r, d)  BY <1>0, <1>1, TwoSlots DEF Busy, Machines
<1>3. \A q \in Pages : r.tlb[q] = m.tlb[q]  BY <1>0, <1>1, PageIndices, TwoSlots DEF Machines
<1>4. Fresh(r.tlb, r.mem, c)  BY <1>1, <1>3 DEF Ready, Fresh
<1>. QED  BY <1>1, <1>2, <1>4 DEF Mid, Ready, r

\* The end of a call: the outer mapping is given back.
LEMMA Leave ==
  ASSUME NEW m, NEW D, NEW d, NEW R, NEW c, Mid(m, D, d, R, c)
  PROVE  LET r == s_temporaryUnmap(m, EXTERN) IN Ready(r, D, R, c) /\ r.mem = m.mem
<1> DEFINE r == s_temporaryUnmap(m, EXTERN)
<1>0. Busy(m, d) /\ m \in Machines /\ View(m, EXTERN, d)  BY DEF Mid, Busy, View
<1>1. /\ r \in Machines
      /\ r.mem = m.mem /\ r.free = m.free /\ r.panic = m.panic
      /\ r.slot = [m.slot EXCEPT ![EXTERN] = NONE] /\ r.tlb = [m.tlb EXCEPT ![EXTERN] = NONE]
  BY <1>0, UnmapSlot
<1> HIDE DEF r
<1>2. \A s \in Slots : r.slot[s] = NONE /\ r.tlb[s] = NONE
  BY <1>0, <1>1, TwoSlots DEF Busy, Machines, Slots
<1>3. \A q \in Pages : r.tlb[q] = m.tlb[q]  BY <1>0, <1>1, PageIndices, TwoSlots DEF Machines
<1>4. Fresh(r.tlb, r.mem, c)  BY <1>1, <1>3 DEF Mid, Fresh
<1>. QED  BY <1>0, <1>1, <1>2, <1>4 DEF Mid, Ready, Busy, r

\* commitVirtualPages with the frames f .. f + n - 1.
Committed(m, d, p, f, n, user) ==
  LET b == kpg_mapContinous(s_temporaryMap([m EXCEPT !.free = @ \ (f .. f + n - 1)], EXTERN, d),
                            p, f, n, user)
  IN IF b.panic # NONE THEN b ELSE s_temporaryUnmap(b, EXTERN)

\* commitVirtualPages, from one state in order to the next.
LEMMA CommitResult ==
  ASSUME NEW m, NEW D, NEW c, Ready(m, D, NoFrames, c), NEW d \in D, NEW p \in Nat, NEW f \in Nat, NEW n \in Nat,
         NEW user \in BOOLEAN, Span(f, n) \subseteq m.free, Span(p, n) \subseteq Pages,
         \A q \in Span(p, n) : Seen(m.mem, d, q) = NONE
  PROVE  LET r == Committed(m, d, p, f, n, user)
         IN /\ Kept(m.mem, r.mem, D, d, Span(p, n))
            /\ \/ r \in Machines /\ r.panic = "AllocationFailed"
               \/ Ready(r, D, NoFrames, c)
<1> DEFINE X == Span(f, n)
           x == [m EXCEPT !.free = @ \ X]
           a == s_temporaryMap(x, EXTERN, d)
           b == kpg_mapContinous(a, p, f, n, user)
           r == Committed(m, d, p, f, n, user)
<1>1. /\ x \in Machines /\ x.mem = m.mem /\ x.free = m.free \ X /\ x.panic = m.panic
      /\ x.slot = m.slot /\ x.tlb = m.tlb
  BY DEF Ready, Machines
<1>2. r = IF b.panic # NONE THEN b ELSE s_temporaryUnmap(b, EXTERN)  BY DEF Committed, Span
<1> HIDE DEF x
<1>3. Ready(x, D, X, c)
  <2> HIDE DEF X
  <2>1. Layout(m.mem, m.free \ X, D, X)  BY LayoutReserve DEF Ready, X, NoFrames
  <2>. QED  BY <1>1, <2>1 DEF Ready
<1>4. Mid(a, D, d, X, c) /\ a.mem = m.mem
  <2> HIDE DEF X
  <2>. QED  BY <1>1, <1>3, Enter
<1> HIDE DEF a
<1>5. /\ Kept(a.mem, b.mem, D, d, Span(p, n))
      /\ \/ b \in Machines /\ b.panic = "AllocationFailed"
         \/ Mid(b, D, d, NoFrames, c) /\ b.slot = a.slot
  <2>1. MapBefore(a, D, d, c, p, f, n, user)  BY <1>4 DEF MapBefore
  <2>. QED  BY <2>1, MapAll DEF MapAfter
<1> HIDE DEF b, r
<1>6. CASE b \in Machines /\ b.panic = "AllocationFailed"
  <2>1. r = b  BY <1>2, <1>6, NamesAssumption DEF Panics
  <2>. QED  BY <1>4, <1>5, <1>6, <2>1 DEF r
<1>7. CASE Mid(b, D, d, NoFrames, c)
  <2>1. r = s_temporaryUnmap(b, EXTERN)  BY <1>2, <1>7 DEF Mid, Busy
  <2>2. Ready(r, D, NoFrames, c) /\ r.mem = b.mem  BY <1>7, <2>1, Leave
  <2>. QED  BY <1>4, <1>5, <2>2 DEF r
<1>. QED  BY <1>5, <1>6, <1>7

\* kvmm_free.
FreedFrom(m, d, p, n) == s_temporaryUnmap(Freed(s_temporaryMap(m, EXTERN, d), p, n), EXTERN)

\* kvmm_free, from one state in order to the next.
LEMMA FreedResult ==
  ASSUME NEW m, NEW D, NEW R, NEW c, Ready(m, D, R, c), NEW d \in D, NEW p \in Nat, NEW n \in Nat
  PROVE  LET r == FreedFrom(m, d, p, n)
         IN /\ Ready(r, D, R, c)
            /\ Kept(m.mem, r.mem, D, d, p .. p + n - 1)
            /\ \A q \in Pages : q \in p .. p + n - 1 => Seen(r.mem, d, q) = NONE
<1> DEFINE a == s_temporaryMap(m, EXTERN, d)
           b == Freed(a, p, n)
           r == s_temporaryUnmap(b, EXTERN)
<1>1. Mid(a, D, d, R, c) /\ a.mem = m.mem  BY Enter
<1> HIDE DEF a
<1>2. /\ Mid(b, D, d, R, c)
      /\ Kept(a.mem, b.mem, D, d, p .. p + n - 1)
      /\ \A q \in Pages : q \in p .. p + n - 1 => Seen(b.mem, d, q) = NONE
  <2> HIDE DEF b
  <2>1. LET y == Freed(a, p, n)
        IN /\ Mid(y, D, d, R, c) /\ y.slot = a.slot
           /\ Kept(a.mem, y.mem, D, d, p .. p + n - 1)
           /\ \A q \in Pages : q \in p .. p + n - 1 => Seen(y.mem, d, q) = NONE
    BY <1>1, FreeAll
  <2>. QED  BY <2>1 DEF b
<1> HIDE DEF b
<1>3. Ready(r, D, R, c) /\ r.mem = b.mem  BY <1>2, Leave
<1>4. FreedFrom(m, d, p, n) = r  BY DEF FreedFrom, a, b
<1>. QED  BY <1>1, <1>2, <1>3, <1>4

\* kpg_deletePageDirectory, for a directory without pages.
LEMMA DeleteResult ==
  ASSUME NEW m, NEW D, NEW c, Ready(m, D, NoFrames, c), NEW d \in D \ {c},
         \A p \in Pages : Seen(m.mem, d, p) = NONE
  PROVE  LET r == kpg_deletePageDirectory(m, d)
         IN /\ Ready(r, D \ {d}, NoFrames, c)
            /\ \A x \in (D \ {d}) \cup {KERNEL_PD}, p \in Pages : Seen(r.mem, x, p) = Seen(m.mem, x, p)
<1> DEFINE s == s_temporaryMap(m, INTERNAL, d)
           a == Touched(s, INTERNAL)
           before(i) == {Load(a, INTERNAL, j).frame : j \in {k \in 0 .. i - 1 : Load(a, INTERNAL, k) # NONE}}
           failing == {i \in 0 .. KERNEL_PDE_INDEX - 1 : /\ Load(a, INTERNAL, i) # NONE
                                                         /\ Load(a, INTERNAL, i).frame \in m.free \cup before(i)}
           T == before(KERNEL_PDE_INDEX)
           u == s_temporaryUnmap(a, INTERNAL)
           N == [f \in Frames |-> IF f \in T \cup {d} THEN Garbage(f) ELSE u.mem[f]]
           r == Returned(u, T \cup {d})
<1>0. /\ m \in Machines /\ m.panic = NONE /\ m.slot[INTERNAL] = NONE /\ m.tlb[INTERNAL] = NONE
      /\ m.mem \in Mems /\ m.free \subseteq Frames /\ d \in Frames /\ d # KERNEL_PD
      /\ INTERNAL \in Slots
      /\ Layout(m.mem, m.free, D, {})
  BY TwoSlots DEF Ready, Layout, Apart, Machines, NoFrames
<1>1. /\ View(s, INTERNAL, d)
      /\ s.mem = m.mem /\ s.free = m.free /\ s.panic = m.panic
      /\ s.slot = [m.slot EXCEPT ![INTERNAL] = d] /\ s.tlb = [m.tlb EXCEPT ![INTERNAL] = NONE]
  BY <1>0, MapSlot
<1> HIDE DEF s
<1>2. /\ View(a, INTERNAL, d)
      /\ a.mem = s.mem /\ a.free = s.free /\ a.slot = s.slot /\ a.panic = s.panic
      /\ a.tlb = [s.tlb EXCEPT ![INTERNAL] = d]
  BY <1>1, ViewTouched
<1> HIDE DEF a
<1>3. \A i : Load(a, INTERNAL, i) = m.mem[d][i]  BY <1>1, <1>2, ViewLoad
<1>4. \A t : t \in T <=> \E i \in Low : TableAt(m.mem, d, i, t)
  BY <1>3 DEF Low, TableAt
<1>5. T \subseteq Others(m.free, D, {})  BY <1>0, <1>4 DEF Layout, TablesOK
<1>6. T \cap m.free = {} /\ T \subseteq Frames  BY <1>5 DEF Others
<1>7. /\ u \in Machines
      /\ u.mem = a.mem /\ u.free = a.free /\ u.panic = a.panic
      /\ u.slot = [a.slot EXCEPT ![INTERNAL] = NONE] /\ u.tlb = [a.tlb EXCEPT ![INTERNAL] = NONE]
  BY <1>2, UnmapSlot
<1>8. kpg_deletePageDirectory(m, d) = r
  <2>1. failing = {}
    <3> SUFFICES ASSUME NEW i \in Low, Load(a, INTERNAL, i) # NONE,
                        Load(a, INTERNAL, i).frame \in m.free \cup before(i)
                 PROVE  FALSE
      BY DEF Low
    <3> DEFINE t == Load(a, INTERNAL, i).frame
    <3>1. TableAt(m.mem, d, i, t)  BY <1>3 DEF TableAt
    <3>2. t \notin m.free  BY <1>4, <1>6, <3>1
    <3>3. PICK j \in 0 .. i - 1 : Load(a, INTERNAL, j) # NONE /\ Load(a, INTERNAL, j).frame = t
      BY <3>2
    <3>4. j \in Low /\ j # i  BY TwoSlots DEF Low
    <3>5. TableAt(m.mem, d, j, t)  BY <1>3, <3>3 DEF TableAt
    <3> HIDE DEF t
    <3>. QED  BY <1>0, <3>1, <3>4, <3>5 DEF Layout, TablesOK
  <2>. QED  BY <2>1 DEF kpg_deletePageDirectory, s, a
<1> HIDE DEF u, T
<1>9. N \in Mems /\ \A x \in Frames : x \notin T \cup {d} => N[x] = m.mem[x]
  <2>1. \A f \in Frames : Garbage(f) \in Contents  BY DEF Garbage, Contents, Cells, Entry, Entries
  <2>2. \A f \in Frames : u.mem[f] \in Contents  BY <1>7 DEF Machines, Mems
  <2>. QED  BY <1>1, <1>2, <1>7, <2>1, <2>2 DEF Mems
<1>r. r = [u EXCEPT !.free = @ \cup T \cup {d}, !.mem = N]
  <2>1. T \cup {d} \cup u.free = u.free \cup T \cup {d}  OBVIOUS
  <2>. QED  BY <2>1 DEF Returned
<1> HIDE DEF N, r
<1>10. /\ r \in Machines /\ r.mem = N /\ r.free = m.free \cup T \cup {d} /\ r.panic = NONE
       /\ r.slot = u.slot /\ r.tlb = u.tlb
  BY <1>0, <1>1, <1>2, <1>6, <1>7, <1>9, <1>r DEF Machines
<1> HIDE DEF r
<1>11. /\ Layout(N, m.free \cup T \cup {d}, D \ {d}, {})
       /\ \A x \in (D \ {d}) \cup {KERNEL_PD}, p \in Pages : Seen(N, x, p) = Seen(m.mem, x, p)
  <2> DEFINE M == m.mem  F == m.free
  <2>1. /\ Layout(M, F, D, NoFrames) /\ d \in D /\ Bare(M, d) /\ TablesOf(M, d, T)
        /\ Outwith(M, N, T \cup {d}) /\ N \in Mems
    BY <1>0, <1>4, <1>9 DEF NoFrames, Bare, TablesOf, Outwith
  <2> HIDE DEF M, F
  <2>2. /\ Layout(N, F \cup T \cup {d}, D \ {d}, NoFrames)
        /\ SameSeen(M, N, (D \ {d}) \cup {KERNEL_PD})
    BY ONLY <2>1, LayoutDelete
  <2>. QED  BY <2>2 DEF M, F, NoFrames, SameSeen
<1>12. \A x \in Slots : r.slot[x] = NONE /\ r.tlb[x] = NONE
  BY <1>0, <1>1, <1>2, <1>7, <1>10 DEF Machines, Ready
<1>13. \A q \in Pages : r.tlb[q] = m.tlb[q]
  BY <1>0, <1>1, <1>2, <1>7, <1>10, PageIndices DEF Machines
<1>14. c \in (D \ {d}) \cup {KERNEL_PD}  BY DEF Ready
<1>15. Fresh(r.tlb, r.mem, c)  BY <1>10, <1>11, <1>13, <1>14 DEF Ready, Fresh
<1>16. Ready(r, D \ {d}, NoFrames, c)
  BY <1>10, <1>11, <1>12, <1>14, <1>15 DEF Ready, NoFrames
<1>. QED  BY <1>8, <1>10, <1>11, <1>16

\* What a program writes to its page may look like any table.
LEMMA GarbageContent == \A f \in Frames : Garbage(f) \in Contents
BY DEF Garbage, Contents, Cells, Entry, Entries

\* A page of a process is no page directory and no page table.
LEMMA PagePlain ==
  ASSUME NEW M, NEW F, NEW D, NEW R, Layout(M, F, D, R), NEW d \in D, NEW p \in Pages,
         Seen(M, d, p) # NONE
  PROVE  LET f == Seen(M, d, p).frame IN f \in Frames /\ Plain(M, D, f)
<1> DEFINE f == Seen(M, d, p).frame
<1>1. PageAt(M, d, p, f)  BY DEF PageAt
<1> HIDE DEF f
<1>2. f \in Others(F, D, R)  BY <1>1 DEF Layout, PagesOK
<1>3. \A x \in D, i \in Low : ~TableAt(M, x, i, f)  BY <1>1 DEF Layout, PagesOK
<1>4. f \in Frames /\ f \notin D \cup {KERNEL_PD}  BY <1>2 DEF Others
<1>. QED  BY <1>3, <1>4 DEF Plain, f

\* A machine x that has frame f at the temporary mapping of the callers, as it was in m, and
\* may have read pages of the current page directory since.
Holding(m, x, f, c) ==
  /\ View(x, EXTERN, f)
  /\ x.mem = m.mem /\ x.free = m.free /\ x.panic = m.panic /\ x.slot = [m.slot EXCEPT ![EXTERN] = f]
  /\ x.tlb[INTERNAL] = m.tlb[INTERNAL]
  /\ \A q \in Pages : x.tlb[q] \in {m.tlb[q], Seen(m.mem, c, q)}

\* k_memcpyToPhyMem, from one state in order to the next.
LEMMA CopyResult ==
  ASSUME NEW m, NEW D, NEW R, NEW c, Ready(m, D, R, c), NEW f \in Frames, Plain(m.mem, D, f),
         NEW s, Holding(m, s, f, c)
  PROVE  LET r == Copied(s, f)
         IN /\ Ready(r, D, R, c)
            /\ \A x \in D \cup {KERNEL_PD}, p \in Pages : Seen(r.mem, x, p) = Seen(m.mem, x, p)
<1> DEFINE g == Garbage(f)
           w == Written(s, EXTERN, g)
           r == s_temporaryUnmap(w, EXTERN)
<1>0. /\ m \in Machines /\ m.panic = NONE /\ m.slot[EXTERN] = NONE /\ m.mem \in Mems
      /\ EXTERN \in Slots /\ Layout(m.mem, m.free, D, R) /\ g \in Contents
  BY TwoSlots, GarbageContent DEF Ready, Layout
<1>1. /\ View(s, EXTERN, f)
      /\ s.mem = m.mem /\ s.free = m.free /\ s.panic = m.panic
      /\ s.slot = [m.slot EXCEPT ![EXTERN] = f] /\ s.tlb[INTERNAL] = m.tlb[INTERNAL]
      /\ \A q \in Pages : s.tlb[q] \in {m.tlb[q], Seen(m.mem, c, q)}
  BY DEF Holding
<1> HIDE DEF g
<1>2. /\ View(w, EXTERN, f) /\ w.mem = [s.mem EXCEPT ![f] = g] /\ w.free = s.free
      /\ w.slot = s.slot /\ w.panic = s.panic /\ w.tlb = [s.tlb EXCEPT ![EXTERN] = f]
  BY <1>0, <1>1, ViewWritten
<1> HIDE DEF w
<1>3. /\ r \in Machines
      /\ r.mem = w.mem /\ r.free = w.free /\ r.panic = w.panic
      /\ r.slot = [w.slot EXCEPT ![EXTERN] = NONE] /\ r.tlb = [w.tlb EXCEPT ![EXTERN] = NONE]
  BY <1>2, UnmapSlot
<1>4. Copied(s, f) = r  BY DEF Copied, w, g
<1> HIDE DEF r
<1>5. r.mem \in Mems /\ Elsewhere(m.mem, r.mem, f)
  <2>1. r.mem \in Mems  BY <1>3 DEF Machines
  <2>. QED  BY <1>0, <1>1, <1>2, <1>3, <2>1 DEF Elsewhere, Mems
<1>6. /\ \A x \in D \cup {KERNEL_PD} : r.mem[x] = m.mem[x]
      /\ \A x \in D \cup {KERNEL_PD}, p \in Pages : Seen(r.mem, x, p) = Seen(m.mem, x, p)
  <2> DEFINE M == m.mem  N == r.mem  F == m.free
  <2>1. Layout(M, F, D, R) /\ Plain(M, D, f) /\ Elsewhere(M, N, f)  BY <1>0, <1>5
  <2> HIDE DEF M, N, F
  <2>2. SameDirs(M, N, D \cup {KERNEL_PD}) /\ SameSeen(M, N, D \cup {KERNEL_PD})
    BY ONLY <2>1, SeenKept
  <2>. QED  BY <2>2 DEF M, N, SameDirs, SameSeen
<1>7. Layout(r.mem, m.free, D, R)  BY <1>0, <1>5, <1>6, LayoutSame
<1>t. s.tlb \in [Slots \cup Pages -> Frames \cup Entries \cup {NONE}]  BY <1>1 DEF View, Machines
<1>8. \A x \in Slots : r.slot[x] = NONE /\ r.tlb[x] = NONE
  <2>1. /\ m.slot \in [Slots -> Frames \cup {NONE}]
        /\ m.slot[INTERNAL] = NONE /\ m.tlb[INTERNAL] = NONE /\ INTERNAL \in Slots
    BY <1>0, TwoSlots DEF Ready, Machines
  <2>. QED  BY <1>0, <1>1, <1>2, <1>3, <1>t, <2>1 DEF Slots
<1>9. \A q \in Pages : r.tlb[q] = s.tlb[q]
  BY <1>0, <1>2, <1>3, <1>t, PageIndices
<1>10. Fresh(r.tlb, r.mem, c)
  <2> SUFFICES ASSUME NEW q \in Pages, r.tlb[q] # NONE PROVE r.tlb[q] = Seen(r.mem, c, q)
    BY DEF Fresh
  <2>1. c \in D \cup {KERNEL_PD} /\ Fresh(m.tlb, m.mem, c)  BY DEF Ready
  <2>. QED  BY <1>1, <1>6, <1>9, <2>1 DEF Fresh
<1>11. r.panic = NONE /\ r.free = m.free  BY <1>0, <1>1, <1>2, <1>3
<1>12. Ready(r, D, R, c)  BY <1>3, <1>7, <1>8, <1>10, <1>11 DEF Ready
<1>. QED  BY <1>4, <1>6, <1>12

\* An entry with another frame.
LEMMA EntryMoved ==
  ASSUME NEW f, NEW g, NEW user
  PROVE  [Entry(f, user) EXCEPT !.frame = g] = Entry(g, user)
BY DEF Entry

\* kpg_setupPageDirectory.
LEMMA CreateResult ==
  ASSUME NEW m, NEW D, NEW c, Ready(m, D, NoFrames, c), m.free # {}
  PROVE  LET r == kpg_setupPageDirectory(m)
             pd == kpmm_alloc(m)
         IN /\ pd \in m.free /\ Ready(r, D \cup {pd}, NoFrames, c)
            /\ SameSeen(m.mem, r.mem, D \cup {KERNEL_PD}) /\ Bare(r.mem, pd)
<1> DEFINE pd == kpmm_alloc(m)
           x == Allocated(m)
           y == s_temporaryMap(x, INTERNAL, pd)
           a == Written(y, INTERNAL, Zeros)
           b == s_temporaryMap(a, EXTERN, KERNEL_PD)
           kc == [i \in Indices |-> IF i >= KERNEL_PDE_INDEX THEN Load(b, EXTERN, i) ELSE Load(b, INTERNAL, i)]
           w == Written(b, INTERNAL, kc)
           t == Touched(w, EXTERN)
           d == s_temporaryUnmap(t, EXTERN)
           e == [Load(d, INTERNAL, RECURSIVE_PDE_INDEX) EXCEPT !.frame = pd]
           s == Store(d, INTERNAL, RECURSIVE_PDE_INDEX, e)
           r == s_temporaryUnmap(s, INTERNAL)
<1>r. kpg_setupPageDirectory(m) = r  BY DEF kpg_setupPageDirectory
<1>0. /\ m \in Machines /\ m.panic = NONE /\ m.mem \in Mems /\ m.free \subseteq Frames
      /\ m.slot[INTERNAL] = NONE /\ m.tlb[INTERNAL] = NONE
      /\ m.slot[EXTERN] = NONE /\ m.tlb[EXTERN] = NONE
      /\ INTERNAL \in Slots /\ EXTERN \in Slots /\ EXTERN # INTERNAL
      /\ Layout(m.mem, m.free, D, NoFrames) /\ KERNEL_PD \in Frames /\ KERNEL_PD \notin m.free
  BY TwoSlots, FramesAssumption DEF Ready, Layout, Apart, Machines
<1>1. pd \in m.free /\ pd \in Frames /\ pd # KERNEL_PD
  <2>1. m.free \subseteq Nat  BY <1>0, FramesAssumption
  <2>. QED  BY <1>0, <2>1, MinIn DEF kpmm_alloc
<1>2. /\ x \in Machines /\ x.free = m.free \ {pd} /\ x.mem = m.mem /\ x.slot = m.slot /\ x.tlb = m.tlb
      /\ x.panic = m.panic
  BY <1>0 DEF Allocated, Machines
<1> HIDE DEF pd, x
<1>3. /\ View(y, INTERNAL, pd)
      /\ y.mem = x.mem /\ y.free = x.free /\ y.panic = x.panic
      /\ y.slot = [x.slot EXCEPT ![INTERNAL] = pd] /\ y.tlb = [x.tlb EXCEPT ![INTERNAL] = NONE]
  BY <1>0, <1>1, <1>2, MapSlot
<1> HIDE DEF y
<1>4. /\ View(a, INTERNAL, pd) /\ a.mem = [y.mem EXCEPT ![pd] = Zeros] /\ a.free = y.free
      /\ a.slot = y.slot /\ a.panic = y.panic /\ a.tlb = [y.tlb EXCEPT ![INTERNAL] = pd]
  BY <1>3, Zeroed, ViewWritten
<1>4a. a \in Machines /\ a.slot[EXTERN] = NONE /\ a.slot[INTERNAL] = pd /\ a.mem \in Mems
  <2>1. a \in Machines  BY <1>4 DEF View
  <2>. QED  BY <1>0, <1>2, <1>3, <1>4, <2>1 DEF Machines
<1> HIDE DEF a
<1>5. /\ View(b, EXTERN, KERNEL_PD)
      /\ b.mem = a.mem /\ b.free = a.free /\ b.panic = a.panic
      /\ b.slot = [a.slot EXCEPT ![EXTERN] = KERNEL_PD] /\ b.tlb = [a.tlb EXCEPT ![EXTERN] = NONE]
  BY <1>0, <1>4a, MapSlot
<1>5a. View(b, INTERNAL, pd)
  BY <1>0, <1>1, <1>4, <1>4a, <1>5 DEF View, Machines
<1>6. /\ kc \in Contents
      /\ \A i \in Low : kc[i] = NONE
      /\ kc[KERNEL_PDE_INDEX] = Entry(KERNEL_PT, FALSE) /\ kc[RECURSIVE_PDE_INDEX] = Entry(KERNEL_PD, FALSE)
  <2>1. /\ \A i \in Indices : Load(b, EXTERN, i) = a.mem[KERNEL_PD][i]
        /\ \A i \in Indices : Load(b, INTERNAL, i) = a.mem[pd][i]
    BY <1>5, <1>5a, ViewLoad
  <2>2. a.mem[KERNEL_PD] = m.mem[KERNEL_PD] /\ a.mem[pd] = Zeros
    BY <1>0, <1>1, <1>2, <1>3, <1>4 DEF Mems
  <2>3. m.mem[KERNEL_PD] \in Contents  BY <1>0 DEF Mems
  <2>4. \A i \in Indices : kc[i] = IF i >= KERNEL_PDE_INDEX THEN m.mem[KERNEL_PD][i] ELSE NONE
    BY <2>1, <2>2 DEF Zeros
  <2>5. kc \in Contents
    <3>1. \A i \in Indices : kc[i] \in Cells  BY <2>3, <2>4 DEF Contents, Cells
    <3>2. kc = [i \in Indices |-> kc[i]]  OBVIOUS
    <3> HIDE DEF kc
    <3>. QED  BY <3>1, <3>2 DEF Contents
  <2> HIDE DEF kc
  <2>6. \A i \in Low : i \in Indices /\ ~(i >= KERNEL_PDE_INDEX)  BY TwoSlots DEF Low
  <2>7. KERNEL_PDE_INDEX >= KERNEL_PDE_INDEX /\ RECURSIVE_PDE_INDEX >= KERNEL_PDE_INDEX
    BY TwoSlots
  <2>8. /\ m.mem[KERNEL_PD][KERNEL_PDE_INDEX] = Entry(KERNEL_PT, FALSE)
        /\ m.mem[KERNEL_PD][RECURSIVE_PDE_INDEX] = Entry(KERNEL_PD, FALSE)
    BY <1>0 DEF Layout, KernelPart
  <2>. QED  BY <2>4, <2>5, <2>6, <2>7, <2>8, TwoSlots
<1> HIDE DEF b, kc
<1>7. /\ View(w, INTERNAL, pd) /\ w.mem = [b.mem EXCEPT ![pd] = kc] /\ w.free = b.free
      /\ w.slot = b.slot /\ w.panic = b.panic /\ w.tlb = [b.tlb EXCEPT ![INTERNAL] = pd]
  <2>1. kc \in Contents  BY <1>6
  <2>. QED  BY <1>5a, <2>1, ViewWritten
<1>7a. View(w, EXTERN, KERNEL_PD)
  BY <1>0, <1>5, <1>7 DEF View, Machines
<1> HIDE DEF w
<1>8. /\ View(t, EXTERN, KERNEL_PD) /\ t.mem = w.mem /\ t.free = w.free
      /\ t.slot = w.slot /\ t.panic = w.panic /\ t.tlb = [w.tlb EXCEPT ![EXTERN] = KERNEL_PD]
  BY <1>7a, ViewTouched
<1>8a. t.slot[INTERNAL] = pd /\ t.tlb[INTERNAL] = pd
  BY <1>0, <1>5, <1>7, <1>8 DEF View, Machines
<1> HIDE DEF t
<1>9. /\ d \in Machines
      /\ d.mem = t.mem /\ d.free = t.free /\ d.panic = t.panic
      /\ d.slot = [t.slot EXCEPT ![EXTERN] = NONE] /\ d.tlb = [t.tlb EXCEPT ![EXTERN] = NONE]
  BY <1>8, UnmapSlot
<1>9a. View(d, INTERNAL, pd)
  BY <1>0, <1>1, <1>8, <1>8a, <1>9 DEF View, Machines
<1> HIDE DEF d
<1>10. e = Entry(pd, FALSE) /\ e \in Cells
  <2>1. d.mem[pd] = kc  BY <1>1, <1>5, <1>4a, <1>7, <1>8, <1>9 DEF Mems
  <2>2. Load(d, INTERNAL, RECURSIVE_PDE_INDEX) = Entry(KERNEL_PD, FALSE)
    <3>1. Load(d, INTERNAL, RECURSIVE_PDE_INDEX) = d.mem[pd][RECURSIVE_PDE_INDEX]  BY <1>9a, ViewLoad
    <3>. QED  BY <1>6, <2>1, <3>1
  <2>3. e = Entry(pd, FALSE)
    <3> DEFINE no == FALSE
    <3>1. e = [Entry(KERNEL_PD, no) EXCEPT !.frame = pd]  BY <2>2
    <3> HIDE DEF no, e
    <3>2. e = Entry(pd, no)  BY <3>1, EntryMoved
    <3>. QED  BY <3>2 DEF no
  <2>. QED  BY <1>1, <2>3 DEF Entry, Entries, Cells
<1> HIDE DEF e
<1>11. /\ View(s, INTERNAL, pd)
       /\ Sets(d.mem, s.mem, pd, RECURSIVE_PDE_INDEX, e) /\ s.free = d.free
       /\ s.slot = d.slot /\ s.panic = d.panic /\ s.tlb = [d.tlb EXCEPT ![INTERNAL] = pd]
  <2>1. View(d, INTERNAL, pd) /\ RECURSIVE_PDE_INDEX \in Indices /\ e \in Cells
    BY <1>9a, <1>10, TwoSlots
  <2>. QED  BY ONLY <2>1, ViewStore
<1> HIDE DEF s
<1>12. /\ r \in Machines
       /\ r.mem = s.mem /\ r.free = s.free /\ r.panic = s.panic
       /\ r.slot = [s.slot EXCEPT ![INTERNAL] = NONE] /\ r.tlb = [s.tlb EXCEPT ![INTERNAL] = NONE]
  BY <1>11, UnmapSlot
<1> HIDE DEF r
<1>13. r.mem \in Mems /\ \A f \in Frames, i \in Indices :
         r.mem[f][i] = IF f = pd /\ i = RECURSIVE_PDE_INDEX THEN e ELSE d.mem[f][i]
  <2> DEFINE M == d.mem  N == r.mem  j == RECURSIVE_PDE_INDEX
  <2>1. M \in Mems  BY <1>9 DEF Machines
  <2>2. Sets(M, N, pd, j, e)  BY <1>11, <1>12
  <2>3. pd \in Frames /\ j \in Indices /\ e \in Cells  BY <1>1, <1>10, TwoSlots
  <2> HIDE DEF M, N, j
  <2>4. N \in Mems /\ \A f \in Frames, i \in Indices : N[f][i] = IF f = pd /\ i = j THEN e ELSE M[f][i]
    BY ONLY <2>1, <2>2, <2>3, SetsEntry
  <2>. QED  BY <2>4 DEF M, N, j
<1>14. /\ d.mem \in Mems /\ d.mem[pd] = kc
       /\ \A f \in Frames : f # pd => d.mem[f] = m.mem[f]
  <2>1. d.mem \in Mems  BY <1>9 DEF Machines
  <2>2. d.mem[pd] = kc  BY <1>1, <1>5, <1>4a, <1>7, <1>8, <1>9 DEF Mems
  <2>3. \A f \in Frames : f # pd => a.mem[f] = m.mem[f]  BY <1>0, <1>2, <1>3, <1>4 DEF Mems
  <2>4. \A f \in Frames : f # pd => d.mem[f] = a.mem[f]  BY <1>4a, <1>5, <1>7, <1>8, <1>9 DEF Mems
  <2>. QED  BY <2>1, <2>2, <2>3, <2>4
<1>15. Elsewhere(m.mem, r.mem, pd)
  <2> SUFFICES ASSUME NEW f \in Frames, f # pd PROVE r.mem[f] = m.mem[f]  BY DEF Elsewhere
  <2>1. r.mem[f] \in Contents /\ m.mem[f] \in Contents  BY <1>0, <1>13 DEF Mems
  <2>2. \A i \in Indices : r.mem[f][i] = m.mem[f][i]  BY <1>13, <1>14
  <2>. QED  BY <2>1, <2>2 DEF Contents
<1>16. NewDirectory(r.mem, pd)
  BY <1>1, <1>6, <1>10, <1>13, <1>14, TwoSlots, LowIndices DEF NewDirectory
<1>17. /\ Layout(r.mem, m.free \ {pd}, D \cup {pd}, NoFrames)
       /\ SameSeen(m.mem, r.mem, D \cup {KERNEL_PD}) /\ Bare(r.mem, pd)
  <2> DEFINE M == m.mem  N == r.mem  F == m.free
  <2>1. /\ Layout(M, F, D, NoFrames) /\ N \in Mems /\ pd \in F /\ Elsewhere(M, N, pd)
        /\ NewDirectory(N, pd)
    BY <1>0, <1>1, <1>13, <1>15, <1>16
  <2> HIDE DEF M, N, F
  <2>2. /\ Layout(N, F \ {pd}, D \cup {pd}, NoFrames)
        /\ SameSeen(M, N, D \cup {KERNEL_PD}) /\ Bare(N, pd)
    BY ONLY <2>1, LayoutCreate
  <2>. QED  BY <2>2 DEF M, N, F
<1>18. r.free = m.free \ {pd} /\ r.panic = NONE
  BY <1>0, <1>2, <1>3, <1>4, <1>5, <1>7, <1>8, <1>9, <1>11, <1>12
<1>19. \A z \in Slots : r.slot[z] = NONE /\ r.tlb[z] = NONE
  <2>1. d.slot[EXTERN] = NONE /\ d.tlb[EXTERN] = NONE  BY <1>0, <1>8, <1>9 DEF View, Machines
  <2>2. s.slot[EXTERN] = NONE /\ s.tlb[EXTERN] = NONE  BY <1>0, <1>9, <1>11, <2>1 DEF Machines
  <2>3. r.slot[EXTERN] = NONE /\ r.tlb[EXTERN] = NONE  BY <1>0, <1>11, <1>12, <2>2 DEF View, Machines
  <2>4. r.slot[INTERNAL] = NONE /\ r.tlb[INTERNAL] = NONE  BY <1>0, <1>11, <1>12 DEF View, Machines
  <2>. QED  BY <2>3, <2>4 DEF Slots
<1>20. \A q \in Pages : r.tlb[q] = m.tlb[q]
  <2> SUFFICES ASSUME NEW q \in Pages PROVE r.tlb[q] = m.tlb[q]  OBVIOUS
  <2>0. q \notin Slots /\ q # INTERNAL /\ q # EXTERN  BY <1>0, PageIndices
  <2>1. a.tlb[q] = m.tlb[q]  BY <1>0, <1>2, <1>3, <1>4, <2>0 DEF Machines, View
  <2>2. w.tlb[q] = a.tlb[q]  BY <1>4a, <1>5, <1>7, <2>0 DEF Machines, View
  <2>3. d.tlb[q] = w.tlb[q]  BY <1>7, <1>8, <1>9, <2>0 DEF Machines, View
  <2>4. r.tlb[q] = d.tlb[q]  BY <1>9, <1>11, <1>12, <2>0 DEF Machines, View
  <2>. QED  BY <2>1, <2>2, <2>3, <2>4
<1>21. Fresh(r.tlb, r.mem, c)  BY <1>17, <1>20 DEF Ready, Fresh, SameSeen
<1>22. Ready(r, D \cup {pd}, NoFrames, c)
  <2>1. c \in (D \cup {pd}) \cup {KERNEL_PD}  BY DEF Ready
  <2>2. Layout(r.mem, r.free, D \cup {pd}, NoFrames)  BY <1>17, <1>18
  <2>. QED  BY <1>12, <1>18, <1>19, <1>21, <2>1, <2>2 DEF Ready
<1>. QED  BY <1>r, <1>1, <1>17, <1>22 DEF pd

-----------------------------------------------------------------------------
(* The specification *)

\* The inductive invariant: between two calls all is in order, or the kernel has halted
\* because there was no memory for a page table, or in the middle of a copy.
PagingInv == \/ Ready(State, pds, NoFrames, cr3)
             \/ State \in Machines /\ (panic = "AllocationFailed" \/ CopyInterrupted)

\* The machine that a call ends with is the next state.
LEMMA BecomesState ==
  ASSUME NEW m \in Machines, Becomes(m)
  PROVE  State' = m
BY DEF Becomes, State, Machines

\* The machine that a call starts with is the present state.
LEMMA StateFields ==
  /\ State.mem = mem /\ State.free = free /\ State.slot = slot /\ State.tlb = tlb /\ State.panic = panic
  /\ State'.mem = mem' /\ State'.free = free' /\ State'.slot = slot' /\ State'.tlb = tlb' /\ State'.panic = panic'
BY DEF State

\* A kernel that runs is in order.
LEMMA RunningReady ==
  ASSUME PagingInv, Running
  PROVE  Ready(State, pds, NoFrames, cr3)
BY NamesAssumption DEF PagingInv, Running, Panics, CopyInterrupted

\* The kernel starts in order.
LEMMA PagingInit == Init => PagingInv
<1> SUFFICES ASSUME Init PROVE Ready(State, pds, NoFrames, cr3)  BY DEF PagingInv
<1> DEFINE D == {}  KE == [Zeros EXCEPT ![KERNEL_PDE_INDEX] = Entry(KERNEL_PT, FALSE),
                                        ![RECURSIVE_PDE_INDEX] = Entry(KERNEL_PD, FALSE)]
<1>0. pds = D /\ cr3 = KERNEL_PD /\ panic = NONE /\ free = Frames \ {KERNEL_PD, KERNEL_PT}
  BY DEF Init
<1>1. KE \in Contents
  <2>1. Entry(KERNEL_PT, FALSE) \in Cells /\ Entry(KERNEL_PD, FALSE) \in Cells
    BY FramesAssumption DEF Entry, Entries, Cells
  <2>. QED  BY <2>1, Zeroed DEF Contents
<1>2. /\ \A i \in Low : KE[i] = NONE
      /\ KE[KERNEL_PDE_INDEX] = Entry(KERNEL_PT, FALSE) /\ KE[RECURSIVE_PDE_INDEX] = Entry(KERNEL_PD, FALSE)
  BY TwoSlots, LowIndices, Zeroed DEF Zeros
<1> HIDE DEF KE
<1>3. mem = [f \in Frames |-> IF f = KERNEL_PD THEN KE ELSE IF f = KERNEL_PT THEN Zeros ELSE Garbage(f)]
  BY DEF Init, KE
<1>4. mem \in Mems /\ mem[KERNEL_PD] = KE
  BY <1>1, <1>3, Zeroed, GarbageContent, FramesAssumption DEF Mems
<1>5. State \in Machines /\ \A s \in Slots : slot[s] = NONE /\ tlb[s] = NONE
  BY <1>0, <1>4 DEF Init, State, Machines, Forgotten
<1>6. Layout(mem, free, D, NoFrames)
  <2>1. Apart(free, D, NoFrames)  BY <1>0 DEF Apart, NoFrames
  <2>2. Others(free, D, NoFrames) = {}  BY <1>0, FramesAssumption DEF Others, NoFrames
  <2>3. TablesOK(mem, free, D, NoFrames)  BY DEF TablesOK
  <2>4. PagesOK(mem, free, D, NoFrames)  BY DEF PagesOK
  <2>5. AllUsed(mem, free, D, NoFrames)  BY <2>2 DEF AllUsed
  <2>6. KernelPart(mem, D)  BY <1>2, <1>4 DEF KernelPart
  <2>. QED  BY <1>4, <2>1, <2>3, <2>4, <2>5, <2>6 DEF Layout
<1>7. Fresh(tlb, mem, cr3)  BY DEF Fresh, Init, Forgotten
<1>. QED  BY <1>0, <1>5, <1>6, <1>7, StateFields DEF Ready

\* What each step does to the mappings, and that it leaves all in order.
LEMMA CreateStep ==
  ASSUME Ready(State, pds, NoFrames, cr3), CreateProcess
  PROVE  \E d \in free : /\ Ready(State', pds', NoFrames, cr3') /\ pds' = pds \cup {d}
                         /\ SameSeen(mem, mem', pds \cup {KERNEL_PD}) /\ Bare(mem', d)
<1> DEFINE r == kpg_setupPageDirectory(State)  d == kpmm_alloc(State)
<1>1. Becomes(r) /\ pds' = pds \cup {d} /\ cr3' = cr3 /\ State.free # {}
  BY StateFields DEF CreateProcess
<1>2. /\ d \in State.free /\ Ready(r, pds \cup {d}, NoFrames, cr3)
      /\ SameSeen(State.mem, r.mem, pds \cup {KERNEL_PD}) /\ Bare(r.mem, d)
  BY <1>1, CreateResult
<1> HIDE DEF r, d
<1>3. State' = r  BY <1>1, <1>2, BecomesState DEF Ready
<1>4. mem' = r.mem /\ mem = State.mem /\ free = State.free  BY <1>3, StateFields
<1>. QED  BY <1>1, <1>2, <1>3, <1>4

\* The steps, one lemma for each action: commitVirtualPages.
LEMMA CommitStep ==
  ASSUME Ready(State, pds, NoFrames, cr3), NEW d \in pds, NEW p \in Pages, NEW n \in 1..MaxRun,
         NEW user \in BOOLEAN, commitVirtualPages(d, p, n, user)
  PROVE  /\ PagingInv' /\ pds' = pds
         /\ Kept(mem, mem', pds, d, Span(p, n)) /\ \A q \in Span(p, n) : Seen(mem, d, q) = NONE
<1> DEFINE f == Min(Runs(n))  r == Committed(State, d, p, f, n, user)
<1>0. n \in Nat /\ p \in Nat /\ State.mem = mem /\ State.free = free
  BY SizesAssumption, PageIndices, StateFields
<1>1. f \in Runs(n) /\ f \in Nat /\ Span(f, n) \subseteq free
  <2>1. free \subseteq Frames  BY StateFields DEF Ready, Machines
  <2>2. Runs(n) \subseteq Nat /\ Runs(n) # {}
    BY <2>1, FramesAssumption DEF Runs, commitVirtualPages
  <2>3. f \in Runs(n)  BY <2>2, MinIn
  <2>. QED  BY <2>2, <2>3 DEF Runs, Span
<1>2. Becomes(r) /\ pds' = pds /\ cr3' = cr3
  BY DEF commitVirtualPages, Committed
<1>3. Span(p, n) \subseteq Pages /\ \A q \in Span(p, n) : Seen(mem, d, q) = NONE
  BY DEF commitVirtualPages, Walk, Seen, Span
<1> HIDE DEF r, f
<1>4. /\ Kept(State.mem, r.mem, pds, d, Span(p, n))
      /\ \/ r \in Machines /\ r.panic = "AllocationFailed"
         \/ Ready(r, pds, NoFrames, cr3)
  <2>1. Span(f, n) \subseteq State.free /\ \A q \in Span(p, n) : Seen(State.mem, d, q) = NONE
    BY <1>0, <1>1, <1>3
  <2>. QED  BY <1>0, <1>1, <1>3, <2>1, CommitResult DEF r
<1>5. State' = r  BY <1>2, <1>4, BecomesState DEF Ready
<1>6. mem' = r.mem /\ panic' = r.panic  BY <1>5, StateFields
<1>. QED  BY <1>0, <1>2, <1>3, <1>4, <1>5, <1>6 DEF PagingInv

\* kvmm_free.
LEMMA FreeAction ==
  ASSUME Ready(State, pds, NoFrames, cr3), NEW d \in pds, NEW p \in Pages, NEW n \in 1..MaxRun,
         kvmm_free(d, p, n)
  PROVE  /\ Ready(State', pds', NoFrames, cr3') /\ pds' = pds
         /\ Kept(mem, mem', pds, d, Span(p, n)) /\ \A q \in Pages : q \in Span(p, n) => Seen(mem', d, q) = NONE
<1> DEFINE r == FreedFrom(State, d, p, n)
<1>0. n \in Nat /\ p \in Nat /\ State.mem = mem  BY SizesAssumption, PageIndices, StateFields
<1>1. Becomes(r) /\ pds' = pds /\ cr3' = cr3  BY DEF kvmm_free, Released, FreedFrom
<1>2. /\ Ready(r, pds, NoFrames, cr3)
      /\ Kept(State.mem, r.mem, pds, d, p .. p + n - 1)
      /\ \A q \in Pages : q \in p .. p + n - 1 => Seen(r.mem, d, q) = NONE
  <2>1. Ready(State, pds, NoFrames, cr3) /\ d \in pds /\ p \in Nat /\ n \in Nat  BY <1>0
  <2>. QED  BY ONLY <2>1, FreedResult
<1> HIDE DEF r
<1>3. State' = r  BY <1>1, <1>2, BecomesState DEF Ready
<1>4. mem' = r.mem  BY <1>3, StateFields
<1>. QED  BY <1>0, <1>1, <1>2, <1>3, <1>4 DEF Span

\* The end of a process.
LEMMA DeleteStep ==
  ASSUME Ready(State, pds, NoFrames, cr3), NEW d \in pds, DeleteProcess(d)
  PROVE  /\ Ready(State', pds', NoFrames, cr3') /\ pds' = pds \ {d}
         /\ SameSeen(mem, mem', (pds \ {d}) \cup {KERNEL_PD})
<1> DEFINE k == KERNEL_PDE_INDEX * SIZE  a == FreedFrom(State, d, 0, k)  r == kpg_deletePageDirectory(a, d)
<1>0. k \in Nat /\ 0 \in Nat /\ Pages \subseteq 0 .. 0 + k - 1 /\ State.mem = mem
  BY SizesAssumption, StateFields
<1>1. Becomes(r) /\ pds' = pds \ {d} /\ cr3' = cr3 /\ d # cr3
  BY DEF DeleteProcess, Released, FreedFrom
<1> HIDE DEF k
<1>2. /\ Ready(a, pds, NoFrames, cr3)
      /\ Kept(State.mem, a.mem, pds, d, 0 .. 0 + k - 1)
      /\ \A q \in Pages : q \in 0 .. 0 + k - 1 => Seen(a.mem, d, q) = NONE
  <2> DEFINE z == 0
  <2>1. z \in Nat /\ k \in Nat /\ a = FreedFrom(State, d, z, k)  BY <1>0
  <2> HIDE DEF z, a
  <2>2. /\ Ready(a, pds, NoFrames, cr3)
        /\ Kept(State.mem, a.mem, pds, d, z .. z + k - 1)
        /\ \A q \in Pages : q \in z .. z + k - 1 => Seen(a.mem, d, q) = NONE
    BY <2>1, FreedResult
  <2>. QED  BY <2>2 DEF z
<1> HIDE DEF a
<1>3. \A q \in Pages : Seen(a.mem, d, q) = NONE  BY <1>0, <1>2
<1>4. /\ Ready(r, pds \ {d}, NoFrames, cr3)
      /\ \A x \in (pds \ {d}) \cup {KERNEL_PD}, p \in Pages : Seen(r.mem, x, p) = Seen(a.mem, x, p)
  <2>1. d \in pds \ {cr3} /\ Ready(a, pds, NoFrames, cr3)  BY <1>1, <1>2
  <2>. QED  BY ONLY <1>3, <2>1, DeleteResult
<1> HIDE DEF r
<1>5. State' = r  BY <1>1, <1>4, BecomesState DEF Ready
<1>6. mem' = r.mem  BY <1>5, StateFields
<1>7. d # KERNEL_PD  BY DEF Ready, Layout, Apart
<1>8. SameSeen(mem, mem', (pds \ {d}) \cup {KERNEL_PD})
  BY <1>0, <1>2, <1>4, <1>6, <1>7 DEF SameSeen, Kept
<1>. QED  BY <1>1, <1>4, <1>5, <1>8

\* A page that is mapped has an entry.
LEMMA SeenEntry ==
  ASSUME NEW M, NEW F, NEW D, NEW R, Layout(M, F, D, R), NEW d \in D, NEW p \in Pages,
         Seen(M, d, p) # NONE
  PROVE  Seen(M, d, p) \in Entries
<1>0. M \in Mems /\ d \in Frames /\ pdeIndex(p) \in Indices /\ pteIndex(p) \in Indices
  BY PageIndices DEF Layout, Apart
<1>1. M[d][pdeIndex(p)] # NONE  BY DEF Seen
<1>2. M[d][pdeIndex(p)].frame \in Frames  BY <1>0, <1>1, EntryFrame
<1>. QED  BY <1>0, <1>1, <1>2, EntryFrame DEF Seen

\* What the processor remembers of a page of the running process, or finds in the tables.
LEMMA Translated ==
  ASSUME Ready(State, pds, NoFrames, cr3), NEW p \in Pages
  PROVE  Translation(p) = Seen(mem, cr3, p)
<1>1. Fresh(tlb, mem, cr3)  BY StateFields DEF Ready
<1>2. Walk(cr3, p) = Seen(mem, cr3, p)  BY DEF Walk, Seen
<1>3. tlb[p] # NONE => tlb[p] = Seen(mem, cr3, p)  BY <1>1 DEF Fresh
<1>. QED  BY <1>2, <1>3 DEF Translation

\* The temporary mapping of the callers in use for the frame of a page.
LEMMA CopyHolds ==
  ASSUME Ready(State, pds, NoFrames, cr3), NEW f \in Frames
  PROVE  Holding(State, s_temporaryMap(State, EXTERN, f), f, cr3)
<1> DEFINE a == s_temporaryMap(State, EXTERN, f)
<1>0. /\ State \in Machines /\ State.slot[EXTERN] = NONE /\ EXTERN \in Slots
      /\ INTERNAL \in Slots /\ INTERNAL # EXTERN
  BY TwoSlots DEF Ready
<1>1. /\ View(a, EXTERN, f)
      /\ a.mem = State.mem /\ a.free = State.free /\ a.panic = State.panic
      /\ a.slot = [State.slot EXCEPT ![EXTERN] = f] /\ a.tlb = [State.tlb EXCEPT ![EXTERN] = NONE]
  BY <1>0, MapSlot
<1> HIDE DEF a
<1>2. State.tlb \in [Slots \cup Pages -> Frames \cup Entries \cup {NONE}]  BY <1>0 DEF Machines
<1>3. a.tlb[INTERNAL] = State.tlb[INTERNAL] /\ \A q \in Pages : a.tlb[q] = State.tlb[q]
  BY <1>0, <1>1, <1>2, PageIndices
<1>4. Holding(State, a, f, cr3)  BY <1>1, <1>3 DEF Holding
<1>. QED  BY <1>4 DEF a

\* Reading a page of the running process remembers where it is.
LEMMA SourceHolds ==
  ASSUME Ready(State, pds, NoFrames, cr3), NEW f \in Frames, NEW a, Holding(State, a, f, cr3),
         NEW q \in Pages, cr3 # KERNEL_PD, Translation(q) # NONE
  PROVE  Holding(State, SourceRead(a, q), f, cr3)
<1> DEFINE e == Translation(q)  x == SourceRead(a, q)
<1>0. e = Seen(mem, cr3, q) /\ mem = State.mem  BY Translated, StateFields
<1>1. e \in Entries
  <2>1. Layout(mem, State.free, pds, NoFrames) /\ cr3 \in pds  BY <1>0 DEF Ready
  <2>. QED  BY <1>0, <2>1, SeenEntry
<1>2. /\ a \in Machines /\ a.slot[EXTERN] = f /\ a.tlb[EXTERN] \in {NONE, f} /\ EXTERN \in Slots
      /\ q \notin Slots /\ INTERNAL \in Slots
  BY TwoSlots, PageIndices DEF Holding, View
<1> HIDE DEF e
<1>3. x = [a EXCEPT !.tlb[q] = e]  BY DEF SourceRead, e
<1> HIDE DEF x
<1>4. /\ x \in Machines /\ x.mem = a.mem /\ x.free = a.free /\ x.slot = a.slot /\ x.panic = a.panic
      /\ x.tlb = [a.tlb EXCEPT ![q] = e]
  BY <1>1, <1>2, <1>3 DEF Machines
<1>5. /\ x.tlb[EXTERN] = a.tlb[EXTERN] /\ x.tlb[INTERNAL] = a.tlb[INTERNAL]
      /\ \A p \in Pages : x.tlb[p] = IF p = q THEN e ELSE a.tlb[p]
  BY <1>2, <1>4 DEF Machines
<1>6. View(x, EXTERN, f)  BY <1>2, <1>4, <1>5 DEF View
<1>7. Holding(State, x, f, cr3)  BY <1>0, <1>4, <1>5, <1>6 DEF Holding
<1>. QED  BY <1>7 DEF x

\* k_memcpyToPhyMem.
LEMMA CopyStep ==
  ASSUME Ready(State, pds, NoFrames, cr3), NEW d \in pds, NEW p \in Pages, k_memcpyToPhyMem(d, p)
  PROVE  /\ Ready(State', pds', NoFrames, cr3') /\ pds' = pds
         /\ SameSeen(mem, mem', pds \cup {KERNEL_PD})
<1> DEFINE f == Seen(mem, d, p).frame  a == s_temporaryMap(State, EXTERN, f)
<1>0. State.mem = mem /\ Seen(mem, d, p) # NONE  BY StateFields DEF k_memcpyToPhyMem, Walk, Seen
<1>1. /\ pds' = pds /\ cr3' = cr3
      /\ \/ Becomes(Copied(a, f))
         \/ \E q \in Pages : /\ cr3 # KERNEL_PD /\ Translation(q) # NONE
                             /\ Becomes(Copied(SourceRead(a, q), f))
  BY DEF k_memcpyToPhyMem, Walk, Seen
<1>2. f \in Frames /\ Plain(State.mem, pds, f)
  <2>1. Layout(mem, State.free, pds, NoFrames)  BY <1>0 DEF Ready
  <2>. QED  BY <1>0, <2>1, PagePlain
<1> HIDE DEF f
<1>3. Holding(State, a, f, cr3)  BY <1>2, CopyHolds
<1> HIDE DEF a
<1>4. PICK x : Becomes(Copied(x, f)) /\ Holding(State, x, f, cr3)
  BY <1>1, <1>2, <1>3, SourceHolds
<1> DEFINE r == Copied(x, f)
<1>5. /\ Ready(r, pds, NoFrames, cr3)
      /\ \A y \in pds \cup {KERNEL_PD}, q \in Pages : Seen(r.mem, y, q) = Seen(State.mem, y, q)
  BY <1>2, <1>4, CopyResult
<1>6. Becomes(r)  BY <1>4
<1> HIDE DEF r
<1>7. State' = r  BY <1>5, <1>6, BecomesState DEF Ready
<1>8. mem' = r.mem  BY <1>7, StateFields
<1>. QED  BY <1>0, <1>1, <1>5, <1>7, <1>8 DEF SameSeen

\* A page fault in k_memcpyToPhyMem.
LEMMA CopyFaultStep ==
  ASSUME Ready(State, pds, NoFrames, cr3), NEW d \in pds, NEW p \in Pages, CopyFaults(d, p)
  PROVE  State' \in Machines /\ CopyInterrupted' /\ pds' = pds /\ mem' = mem
<1> DEFINE f == Walk(d, p).frame  a == s_temporaryMap(State, EXTERN, f)
           b == s_temporaryMap(Allocated(a), EXTERN, cr3)
<1>0. /\ State.mem = mem /\ Seen(mem, d, p) # NONE /\ f = Seen(mem, d, p).frame
      /\ Walk(d, p) # NONE /\ State.free = free
  BY StateFields DEF CopyFaults, Walk, Seen
<1>1. /\ pds' = pds /\ cr3' = cr3
      /\ \/ Becomes([a EXCEPT !.panic = "PageFault"])
         \/ free # {} /\ Becomes(b)
  BY DEF CopyFaults
<1>2. f \in Frames
  <2>1. Layout(mem, State.free, pds, NoFrames)  BY <1>0 DEF Ready
  <2>. QED  BY <1>0, <2>1, PagePlain
<1>3. Holding(State, a, f, cr3)  BY <1>2, CopyHolds
<1>4. /\ a \in Machines /\ a.slot[EXTERN] = f /\ a.mem = mem /\ a.free = free
      /\ a.slot[INTERNAL] = NONE
  <2>1. /\ State.slot[INTERNAL] = NONE /\ State.slot \in [Slots -> Frames \cup {NONE}]
    BY TwoSlots DEF Ready, Machines
  <2>. QED  BY <1>0, <1>3, <2>1, TwoSlots DEF Holding, View
<1> HIDE DEF a, f
<1>5. PICK r \in Machines : /\ Becomes(r) /\ r.slot = a.slot /\ r.mem = a.mem
                            /\ r.panic \in {"AlreadyPresent", "PageFault"}
  <2>1. CASE Becomes([a EXCEPT !.panic = "PageFault"])
    <3> DEFINE r == [a EXCEPT !.panic = "PageFault"]
    <3>1. /\ r \in Machines /\ r.slot = a.slot /\ r.mem = a.mem /\ r.panic = "PageFault"
      BY <1>4 DEF Machines, Panics
    <3>. QED  BY <2>1, <3>1
  <2>2. CASE Becomes(b)
    <3> DEFINE c == Allocated(a)
    <3>1. c \in Machines /\ c.slot = a.slot /\ c.mem = a.mem  BY <1>4 DEF Allocated, Machines
    <3>2. c.slot[EXTERN] # NONE  BY <1>2, <1>4, <3>1, NamesAssumption
    <3> HIDE DEF c
    <3>3. b = [c EXCEPT !.panic = "AlreadyPresent"]  BY <3>2 DEF s_temporaryMap, c
    <3>4. /\ b \in Machines /\ b.slot = a.slot /\ b.mem = a.mem /\ b.panic = "AlreadyPresent"
      BY <3>1, <3>3 DEF Machines, Panics
    <3>. QED  BY <2>2, <3>4
  <2>. QED  BY <1>1, <2>1, <2>2
<1>6. State' = r  BY <1>5, BecomesState
<1>7. /\ mem' = mem /\ slot' = a.slot /\ panic' \in {"AlreadyPresent", "PageFault"}
  BY <1>4, <1>5 DEF Becomes
<1>8. Walk(d, p)' = Walk(d, p)  BY <1>7 DEF Walk
<1>9. CopyInterrupted'  BY <1>0, <1>1, <1>4, <1>7, <1>8 DEF CopyInterrupted, f
<1>. QED  BY <1>1, <1>5, <1>6, <1>7, <1>9

\* A switch of the page directory forgets every translation.
LEMMA SwitchStep ==
  ASSUME Ready(State, pds, NoFrames, cr3), NEW d \in pds \cup {KERNEL_PD}, Switch(d)
  PROVE  Ready(State', pds', NoFrames, cr3') /\ pds' = pds /\ mem' = mem
<1>1. /\ mem' = mem /\ free' = free /\ slot' = slot /\ panic' = panic /\ pds' = pds /\ cr3' = d
      /\ \A x \in Slots \cup Pages : tlb'[x] = NONE
      /\ tlb' \in [Slots \cup Pages -> {NONE}]
  BY DEF Switch, Forgotten
<1>2. State' \in Machines  BY <1>1 DEF Ready, State, Machines
<1>3. Fresh(tlb', mem', cr3')  BY <1>1 DEF Fresh
<1>4. Layout(mem', free', pds', NoFrames)  BY <1>1, StateFields DEF Ready
<1>. QED  BY <1>1, <1>2, <1>3, <1>4, StateFields DEF Ready

\* A program's own access to its page.
LEMMA AccessStep ==
  ASSUME Ready(State, pds, NoFrames, cr3), NEW p \in Pages, Access(p)
  PROVE  /\ Ready(State', pds', NoFrames, cr3') /\ pds' = pds
         /\ SameSeen(mem, mem', pds \cup {KERNEL_PD})
<1> DEFINE e == Seen(mem, cr3, p)  f == e.frame
<1>0. /\ State.mem = mem /\ State.tlb = tlb /\ cr3 \in pds /\ mem \in Mems
      /\ Layout(mem, free, pds, NoFrames) /\ Fresh(tlb, mem, cr3)
  BY StateFields DEF Ready, Access, Layout
<1>1. /\ e # NONE /\ tlb' = [tlb EXCEPT ![p] = e] /\ mem' = [mem EXCEPT ![f] = Garbage(f)]
      /\ free' = free /\ slot' = slot /\ panic' = panic /\ pds' = pds /\ cr3' = cr3
  <2>1. Translation(p) = e  BY Translated
  <2> HIDE DEF e
  <2>. QED  BY <2>1 DEF Access
<1>2. f \in Frames /\ Plain(mem, pds, f)  BY <1>0, <1>1, PagePlain
<1>3. e \in Entries  BY <1>0, <1>1, SeenEntry
<1> HIDE DEF e, f
<1>4. mem' \in Mems /\ Elsewhere(mem, mem', f)
  BY <1>0, <1>1, <1>2, GarbageContent DEF Mems, Elsewhere
<1>5. SameDirs(mem, mem', pds \cup {KERNEL_PD}) /\ SameSeen(mem, mem', pds \cup {KERNEL_PD})
  BY <1>0, <1>2, <1>4, SeenKept
<1>6. Layout(mem', free, pds, NoFrames)
  <2> DEFINE M == mem  N == mem'
  <2>1. /\ \A x \in pds \cup {KERNEL_PD} : N[x] = M[x]
        /\ \A x \in pds \cup {KERNEL_PD}, q \in Pages : Seen(N, x, q) = Seen(M, x, q)
        /\ N \in Mems /\ Layout(M, free, pds, NoFrames)
    BY <1>0, <1>4, <1>5 DEF SameDirs, SameSeen
  <2> HIDE DEF M, N
  <2>2. Layout(N, free, pds, NoFrames)  BY ONLY <2>1, LayoutSame
  <2>. QED  BY <2>2 DEF N
<1>7. p \notin Slots /\ State \in Machines  BY PageIndices DEF Ready
<1>8. State' \in Machines
  BY <1>1, <1>3, <1>4, <1>7 DEF State, Machines
<1>9. \A s \in Slots : slot'[s] = NONE /\ tlb'[s] = NONE
  BY <1>1, <1>7, StateFields DEF Ready, Machines
<1>10. Fresh(tlb', mem', cr3')
  <2> SUFFICES ASSUME NEW q \in Pages, tlb'[q] # NONE PROVE tlb'[q] = Seen(mem', cr3, q)
    BY <1>1 DEF Fresh
  <2>1. Seen(mem', cr3, q) = Seen(mem, cr3, q)  BY <1>0, <1>5 DEF SameSeen
  <2>2. tlb'[q] = IF q = p THEN e ELSE tlb[q]  BY <1>0, <1>1, <1>7, StateFields DEF Machines
  <2>. QED  BY <1>0, <2>1, <2>2 DEF Fresh, e
<1>11. panic' = NONE  BY <1>1, StateFields DEF Ready
<1>12. Ready(State', pds', NoFrames, cr3')
  BY <1>0, <1>1, <1>6, <1>8, <1>9, <1>10, <1>11, StateFields DEF Ready
<1>. QED  BY <1>1, <1>5, <1>12

\* Every step keeps the invariant.
LEMMA PagingStep == PagingInv /\ [Next]_vars => PagingInv'
<1> SUFFICES ASSUME PagingInv, [Next]_vars PROVE PagingInv'  OBVIOUS
<1>0. PagingInv' <=> \/ Ready(State', pds', NoFrames, cr3')
                     \/ State' \in Machines /\ (panic' = "AllocationFailed" \/ CopyInterrupted')
  BY DEF PagingInv
<1>1. CASE UNCHANGED vars
  <2>1. State' = State /\ pds' = pds /\ cr3' = cr3 /\ panic' = panic  BY <1>1 DEF vars, State
  <2>2. CopyInterrupted' <=> CopyInterrupted  BY <1>1 DEF vars, CopyInterrupted, Walk
  <2>. QED  BY <1>0, <2>1, <2>2 DEF PagingInv
<1>2. CASE Halted  BY <1>1, <1>2 DEF Halted
<1>3. CASE CreateProcess
  <2>1. Ready(State, pds, NoFrames, cr3)  BY <1>3, RunningReady DEF CreateProcess
  <2>. QED  BY <1>0, <1>3, <2>1, CreateStep
<1>4. ASSUME NEW d \in pds, DeleteProcess(d) PROVE PagingInv'
  <2>1. Ready(State, pds, NoFrames, cr3)  BY <1>4, RunningReady DEF DeleteProcess
  <2>. QED  BY <1>0, <1>4, <2>1, DeleteStep
<1>5. ASSUME NEW d \in pds, NEW p \in Pages, k_memcpyToPhyMem(d, p) PROVE PagingInv'
  <2>1. Ready(State, pds, NoFrames, cr3)  BY <1>5, RunningReady DEF k_memcpyToPhyMem
  <2>. QED  BY <1>0, <1>5, <2>1, CopyStep
<1>5f. ASSUME NEW d \in pds, NEW p \in Pages, CopyFaults(d, p) PROVE PagingInv'
  <2>1. Ready(State, pds, NoFrames, cr3)  BY <1>5f, RunningReady DEF CopyFaults
  <2>. QED  BY <1>0, <1>5f, <2>1, CopyFaultStep
<1>6. ASSUME NEW d \in pds, NEW p \in Pages, NEW n \in 1..MaxRun, NEW user \in BOOLEAN,
             commitVirtualPages(d, p, n, user)
      PROVE  PagingInv'
  <2>1. Ready(State, pds, NoFrames, cr3)  BY <1>6, RunningReady DEF commitVirtualPages
  <2>. QED  BY <1>6, <2>1, CommitStep
<1>7. ASSUME NEW d \in pds, NEW p \in Pages, NEW n \in 1..MaxRun, kvmm_free(d, p, n) PROVE PagingInv'
  <2>1. Ready(State, pds, NoFrames, cr3)  BY <1>7, RunningReady DEF kvmm_free
  <2>. QED  BY <1>0, <1>7, <2>1, FreeAction
<1>8. ASSUME NEW d \in pds \cup {KERNEL_PD}, Switch(d) PROVE PagingInv'
  <2>1. Ready(State, pds, NoFrames, cr3)  BY <1>8, RunningReady DEF Switch
  <2>. QED  BY <1>0, <1>8, <2>1, SwitchStep
<1>9. ASSUME NEW p \in Pages, Access(p) PROVE PagingInv'
  <2>1. Ready(State, pds, NoFrames, cr3)  BY <1>9, RunningReady DEF Access
  <2>. QED  BY <1>0, <1>9, <2>1, AccessStep
<1>. QED  BY <1>1, <1>2, <1>3, <1>4, <1>5, <1>5f, <1>6, <1>7, <1>8, <1>9 DEF Next

(* PagingInv is an invariant of Paging: every call of paging.c leaves the machine in order,
   or halts the kernel because no frame is left for a page table; k_memcpyToPhyMem may also
   halt it at a page fault on what it reads. *)
THEOREM PagingInvariant == Spec => []PagingInv
BY PagingInit, PagingStep, PTL DEF Spec

(* Every call of paging.c, and of its callers in vmm.c and process.c, finds the temporary
   mapping it is about to use free and leaves it so, for any number of frames, pages and
   entries of a table, unless a page fault strikes in k_memcpyToPhyMem, which holds that of
   the callers.  Only that and the lack of a frame for a page table halt the kernel. *)
THEOREM SlotsCorrect == Spec => []SlotsUsedInTurn
<1>1. PagingInv => SlotsUsedInTurn
  <2> SUFFICES ASSUME PagingInv PROVE SlotsUsedInTurn  OBVIOUS
  <2>1. CASE Ready(State, pds, NoFrames, cr3)
    BY <2>1, StateFields DEF Ready, SlotsUsedInTurn
  <2>2. CASE panic = "AllocationFailed"
    BY <2>2, NamesAssumption DEF SlotsUsedInTurn, Running, Panics
  <2>3. CASE CopyInterrupted
    <3>1. panic # NONE  BY <2>3, NamesAssumption DEF CopyInterrupted, Panics
    <3>. QED  BY <2>3, <3>1 DEF SlotsUsedInTurn, Running
  <2>. QED  BY <2>1, <2>2, <2>3 DEF PagingInv
<1>. QED  BY <1>1, PagingInvariant, PTL

(* No call leaves a translation in the TLB that the current page directory contradicts,
   and none of the temporary mappings is remembered between calls. *)
THEOREM TlbCorrect == Spec => []TlbFresh
<1>1. PagingInv => TlbFresh
  <2> SUFFICES ASSUME PagingInv, Running PROVE TlbFresh  BY DEF TlbFresh
  <2>1. Ready(State, pds, NoFrames, cr3)  BY RunningReady
  <2>2. Fresh(tlb, mem, cr3) /\ \A s \in Slots : tlb[s] = NONE  BY <2>1, StateFields DEF Ready
  <2>3. \A p \in Pages : Walk(cr3, p) = Seen(mem, cr3, p)  BY DEF Walk, Seen
  <2>. QED  BY <2>2, <2>3 DEF TlbFresh, Fresh
<1>. QED  BY <1>1, PagingInvariant, PTL

\* What a frame is used for, with its frame.
DirectoryUse(u, f) == f \in pds \cup {KERNEL_PD} /\ u = <<"directory", f, 0>>
KernelTableUse(u, f) == f = KERNEL_PT /\ u = <<"table", KERNEL_PD, KERNEL_PDE_INDEX>>
TableUse(u, f, d, i) == d \in pds /\ i \in Low /\ u = <<"table", d, i>> /\ TableAt(mem, d, i, f)
PageUse(u, f, d, p) == d \in pds /\ p \in Pages /\ u = <<"page", d, p>> /\ PageAt(mem, d, p, f)

\* Each use of a frame that FramesAccounted counts is one that the layout knows.
LEMMA UseFrames ==
  ASSUME Layout(mem, free, pds, NoFrames)
  PROVE  /\ \A u, f : DirectoryUse(u, f) \/ KernelTableUse(u, f) => u \in Uses /\ FrameOf[u] = f
         /\ \A u, f, d, i : TableUse(u, f, d, i) \/ PageUse(u, f, d, i) => u \in Uses /\ FrameOf[u] = f
         /\ \A u \in Uses : \/ DirectoryUse(u, FrameOf[u]) \/ KernelTableUse(u, FrameOf[u])
                            \/ \E d, i : TableUse(u, FrameOf[u], d, i) \/ PageUse(u, FrameOf[u], d, i)
<1> DEFINE F(u) == CASE u[1] = "directory" -> u[2]
                     [] u[1] = "table" -> mem[u[2]][u[3]].frame
                     [] u[1] = "page" -> Walk(u[2], u[3]).frame
<1>0. \A u \in Uses : FrameOf[u] = F(u)  BY DEF FrameOf
<1>1. mem[KERNEL_PD][KERNEL_PDE_INDEX].frame = KERNEL_PT  BY DEF Layout, KernelPart, Entry
<1>2. \A d, p : Walk(d, p) = Seen(mem, d, p)  BY DEF Walk, Seen
<1>3. \A d, i, f : /\ F(<<"directory", d, i>>) = d
                   /\ F(<<"table", d, i>>) = mem[d][i].frame
                   /\ F(<<"page", d, i>>) = Walk(d, i).frame
  OBVIOUS
<1> HIDE DEF F
<1>4. ASSUME NEW u, NEW f, DirectoryUse(u, f) PROVE u \in Uses /\ FrameOf[u] = f
  <2>1. u \in Uses  BY <1>4 DEF DirectoryUse, Uses
  <2>. QED  BY <1>0, <1>3, <1>4, <2>1 DEF DirectoryUse
<1>5. ASSUME NEW u, NEW f, KernelTableUse(u, f) PROVE u \in Uses /\ FrameOf[u] = f
  <2>1. u \in Uses  BY <1>5 DEF KernelTableUse, Uses
  <2>. QED  BY <1>0, <1>1, <1>3, <1>5, <2>1 DEF KernelTableUse
<1>6. ASSUME NEW u, NEW f, NEW d, NEW i, TableUse(u, f, d, i) PROVE u \in Uses /\ FrameOf[u] = f
  <2>1. u \in {"table"} \X pds \X (0 .. KERNEL_PDE_INDEX - 1) /\ mem[u[2]][u[3]] # NONE
    BY <1>6 DEF TableUse, TableAt, Low
  <2>2. u \in Uses  BY <2>1 DEF Uses
  <2>. QED  BY <1>0, <1>3, <1>6, <2>2 DEF TableUse, TableAt
<1>7. ASSUME NEW u, NEW f, NEW d, NEW p, PageUse(u, f, d, p) PROVE u \in Uses /\ FrameOf[u] = f
  <2>1. u \in {"page"} \X pds \X Pages /\ Walk(u[2], u[3]) # NONE
    BY <1>2, <1>7 DEF PageUse, PageAt
  <2>2. u \in Uses  BY <2>1 DEF Uses
  <2>. QED  BY <1>0, <1>2, <1>3, <1>7, <2>2 DEF PageUse, PageAt
<1>8. ASSUME NEW u \in Uses
      PROVE  \/ DirectoryUse(u, FrameOf[u]) \/ KernelTableUse(u, FrameOf[u])
             \/ \E d, i : TableUse(u, FrameOf[u], d, i) \/ PageUse(u, FrameOf[u], d, i)
  <2>1. CASE u \in {<<"directory", d, 0>> : d \in pds \cup {KERNEL_PD}}
    <3>1. PICK d \in pds \cup {KERNEL_PD} : u = <<"directory", d, 0>>  BY <2>1
    <3>2. FrameOf[u] = d  BY <1>0, <1>3, <3>1
    <3>. QED  BY <3>1, <3>2 DEF DirectoryUse
  <2>2. CASE u = <<"table", KERNEL_PD, KERNEL_PDE_INDEX>>
    BY <1>0, <1>1, <1>3, <2>2 DEF KernelTableUse
  <2>3. CASE u \in {v \in {"table"} \X pds \X (0 .. KERNEL_PDE_INDEX - 1) : mem[v[2]][v[3]] # NONE}
    <3>1. PICK d \in pds, i \in Low : u = <<"table", d, i>> /\ mem[d][i] # NONE  BY <2>3 DEF Low
    <3>2. FrameOf[u] = mem[d][i].frame  BY <1>0, <1>3, <3>1
    <3>3. TableUse(u, FrameOf[u], d, i)  BY <3>1, <3>2 DEF TableUse, TableAt
    <3>. QED  BY <3>3
  <2>4. CASE u \in {v \in {"page"} \X pds \X Pages : Walk(v[2], v[3]) # NONE}
    <3>1. PICK d \in pds, p \in Pages : u = <<"page", d, p>> /\ Walk(d, p) # NONE  BY <2>4
    <3>2. FrameOf[u] = Walk(d, p).frame  BY <1>0, <1>3, <3>1
    <3>3. PageUse(u, FrameOf[u], d, p)  BY <1>2, <3>1, <3>2 DEF PageUse, PageAt
    <3>. QED  BY <3>3
  <2>. QED  BY <2>1, <2>2, <2>3, <2>4 DEF Uses
<1>. QED  BY <1>4, <1>5, <1>6, <1>7, <1>8

\* Two uses of the same frame are one.
LEMMA UsesApart ==
  ASSUME Layout(mem, free, pds, NoFrames), NEW f
  PROVE  /\ \A u, v : DirectoryUse(u, f) /\ DirectoryUse(v, f) => u = v
         /\ \A u, v : KernelTableUse(u, f) /\ KernelTableUse(v, f) => u = v
         /\ \A u, v, d, i, e, j : TableUse(u, f, d, i) /\ TableUse(v, f, e, j) => u = v
         /\ \A u, v, d, i, e, j : PageUse(u, f, d, i) /\ PageUse(v, f, e, j) => u = v
         /\ \A u, v : ~(DirectoryUse(u, f) /\ KernelTableUse(v, f))
         /\ \A u, v, d, i : ~(DirectoryUse(u, f) /\ TableUse(v, f, d, i))
         /\ \A u, v, d, i : ~(DirectoryUse(u, f) /\ PageUse(v, f, d, i))
         /\ \A u, v, d, i : ~(KernelTableUse(u, f) /\ TableUse(v, f, d, i))
         /\ \A u, v, d, i : ~(KernelTableUse(u, f) /\ PageUse(v, f, d, i))
         /\ \A u, v, d, i, e, j : ~(TableUse(u, f, d, i) /\ PageUse(v, f, e, j))
<1>1. KERNEL_PT \notin pds /\ KERNEL_PT # KERNEL_PD /\ KERNEL_PD \notin pds
  BY FramesAssumption DEF Layout, Apart
<1>2. \A d \in pds, i \in Low : TableAt(mem, d, i, f) => f \notin pds /\ f # KERNEL_PD /\ f # KERNEL_PT
  BY DEF Layout, TablesOK, Others
<1>3. \A d \in pds, p \in Pages : PageAt(mem, d, p, f) => f \notin pds /\ f # KERNEL_PD /\ f # KERNEL_PT
  BY DEF Layout, PagesOK, Others
<1>4. \A u, v : DirectoryUse(u, f) /\ DirectoryUse(v, f) => u = v  BY DEF DirectoryUse
<1>5. \A u, v : KernelTableUse(u, f) /\ KernelTableUse(v, f) => u = v  BY DEF KernelTableUse
<1>6. \A u, v, d, i, e, j : TableUse(u, f, d, i) /\ TableUse(v, f, e, j) => u = v
  <2>1. \A d, e \in pds, i, j \in Low : TableAt(mem, d, i, f) /\ TableAt(mem, e, j, f) => d = e /\ i = j
    BY DEF Layout, TablesOK
  <2>. QED  BY <2>1 DEF TableUse
<1>7. \A u, v, d, i, e, j : PageUse(u, f, d, i) /\ PageUse(v, f, e, j) => u = v
  <2>1. \A d, e \in pds, i, j \in Pages : PageAt(mem, d, i, f) /\ PageAt(mem, e, j, f) => d = e /\ i = j
    BY DEF Layout, PagesOK
  <2>. QED  BY <2>1 DEF PageUse
<1>8. \A u, v : ~(DirectoryUse(u, f) /\ KernelTableUse(v, f))  BY <1>1 DEF DirectoryUse, KernelTableUse
<1>9. \A u, v, d, i : ~(DirectoryUse(u, f) /\ TableUse(v, f, d, i))  BY <1>2 DEF DirectoryUse, TableUse
<1>10. \A u, v, d, i : ~(DirectoryUse(u, f) /\ PageUse(v, f, d, i))  BY <1>3 DEF DirectoryUse, PageUse
<1>11. \A u, v, d, i : ~(KernelTableUse(u, f) /\ TableUse(v, f, d, i))  BY <1>2 DEF KernelTableUse, TableUse
<1>12. \A u, v, d, i : ~(KernelTableUse(u, f) /\ PageUse(v, f, d, i))  BY <1>3 DEF KernelTableUse, PageUse
<1>13. \A u, v, d, i, e, j : ~(TableUse(u, f, d, i) /\ PageUse(v, f, e, j))
  <2>1. \A d, e \in pds, i \in Low, p \in Pages : ~(PageAt(mem, e, p, f) /\ TableAt(mem, d, i, f))
    BY DEF Layout, PagesOK
  <2>. QED  BY <2>1 DEF TableUse, PageUse
<1>. QED  BY <1>4, <1>5, <1>6, <1>7, <1>8, <1>9, <1>10, <1>11, <1>12, <1>13

\* A layout that is in order accounts for every frame.
LEMMA LayoutAccounts ==
  ASSUME Layout(mem, free, pds, NoFrames)
  PROVE  /\ Range(FrameOf) = Frames \ free
         /\ IsInjective(FrameOf)
         /\ \A d \in pds : /\ mem[d][KERNEL_PDE_INDEX] = Entry(KERNEL_PT, FALSE)
                           /\ mem[d][RECURSIVE_PDE_INDEX] = Entry(d, FALSE)
<1>0. DOMAIN FrameOf = Uses  BY DEF FrameOf
<1>1. ASSUME NEW u \in Uses PROVE FrameOf[u] \in Frames \ free
  <2>1. \A f : DirectoryUse(u, f) \/ KernelTableUse(u, f) => f \in Frames \ free
    BY FramesAssumption DEF DirectoryUse, KernelTableUse, Layout, Apart
  <2>2. \A f, d, i : TableUse(u, f, d, i) => f \in Frames \ free
    <3>1. \A d \in pds, i \in Low : \A f : TableAt(mem, d, i, f) => f \in Others(free, pds, NoFrames)
      BY DEF Layout, TablesOK
    <3>. QED  BY <3>1 DEF TableUse, Others
  <2>3. \A f, d, i : PageUse(u, f, d, i) => f \in Frames \ free
    <3>1. \A d \in pds, i \in Pages : \A f : PageAt(mem, d, i, f) => f \in Others(free, pds, NoFrames)
      BY DEF Layout, PagesOK
    <3>. QED  BY <3>1 DEF PageUse, Others
  <2>. QED  BY <2>1, <2>2, <2>3, UseFrames
<1>2. ASSUME NEW f \in Frames \ free PROVE \E u \in Uses : FrameOf[u] = f
  <2>1. CASE f \in pds \cup {KERNEL_PD}
    <3>1. DirectoryUse(<<"directory", f, 0>>, f)  BY <2>1 DEF DirectoryUse
    <3>. QED  BY <3>1, UseFrames
  <2>2. CASE f = KERNEL_PT
    <3>1. KernelTableUse(<<"table", KERNEL_PD, KERNEL_PDE_INDEX>>, f)  BY <2>2 DEF KernelTableUse
    <3>. QED  BY <3>1, UseFrames
  <2>3. CASE f \in Others(free, pds, NoFrames)
    <3>1. CASE \E d \in pds, i \in Low : TableAt(mem, d, i, f)
      <4>1. PICK d \in pds, i \in Low : TableAt(mem, d, i, f)  BY <3>1
      <4>2. TableUse(<<"table", d, i>>, f, d, i)  BY <4>1 DEF TableUse
      <4>. QED  BY <4>2, UseFrames
    <3>2. CASE \E d \in pds, p \in Pages : PageAt(mem, d, p, f)
      <4>1. PICK d \in pds, p \in Pages : PageAt(mem, d, p, f)  BY <3>2
      <4>2. PageUse(<<"page", d, p>>, f, d, p)  BY <4>1 DEF PageUse
      <4>. QED  BY <4>2, UseFrames
    <3>. QED  BY <2>3, <3>1, <3>2 DEF Layout, AllUsed
  <2>. QED  BY <2>1, <2>2, <2>3 DEF Others, NoFrames
<1>3. Range(FrameOf) = Frames \ free  BY <1>0, <1>1, <1>2 DEF Range
<1>4. ASSUME NEW u \in Uses, NEW v \in Uses, FrameOf[u] = FrameOf[v] PROVE u = v
  <2> DEFINE f == FrameOf[u]
  <2>1. \/ DirectoryUse(u, f) \/ KernelTableUse(u, f)
        \/ \E d, i : TableUse(u, f, d, i) \/ PageUse(u, f, d, i)
    BY UseFrames
  <2>2. \/ DirectoryUse(v, f) \/ KernelTableUse(v, f)
        \/ \E d, i : TableUse(v, f, d, i) \/ PageUse(v, f, d, i)
    BY <1>4, UseFrames
  <2> HIDE DEF f
  <2>. QED  BY <2>1, <2>2, UsesApart
<1>5. IsInjective(FrameOf)  BY <1>0, <1>4 DEF IsInjective
<1>6. \A d \in pds : /\ mem[d][KERNEL_PDE_INDEX] = Entry(KERNEL_PT, FALSE)
                     /\ mem[d][RECURSIVE_PDE_INDEX] = Entry(d, FALSE)
  BY DEF Layout, KernelPart
<1>. QED  BY <1>3, <1>5, <1>6

(* Whatever the calls and their order, no frame is used twice, none is lost, and every page
   directory keeps the kernel's page table and the entry for itself. *)
THEOREM FramesOfPagesCorrect == Spec => []FramesAccounted
<1>1. PagingInv => FramesAccounted
  <2> SUFFICES ASSUME PagingInv, Running PROVE FramesAccounted  BY DEF FramesAccounted
  <2>1. Ready(State, pds, NoFrames, cr3)  BY RunningReady
  <2>2. Layout(mem, free, pds, NoFrames)  BY <2>1, StateFields DEF Ready
  <2>. QED  BY <2>2, LayoutAccounts DEF FramesAccounted
<1>. QED  BY <1>1, PagingInvariant, PTL

-----------------------------------------------------------------------------
(* Paging implements PageMap *)

\* The mappings as the page directories of D have them in memory M.
MapsIn(M, D) == [d \in D \cup {KERNEL_PD} |-> [p \in Pages |-> Seen(M, d, p)]]

\* The refinement mapping, as a function of memory and of the page directories.
LEMMA MapsSeen == Maps = MapsIn(mem, pds) /\ Maps' = MapsIn(mem', pds')
BY DEF Maps, MapsIn, Walk, Seen

\* A call that changes no mapping.
LEMMA MapsSame ==
  ASSUME NEW M, NEW N, NEW D, SameSeen(M, N, D \cup {KERNEL_PD})
  PROVE  MapsIn(N, D) = MapsIn(M, D)
BY DEF MapsIn, SameSeen

\* Only directory d has other mappings.
ChangesAt(A, B, d) == B = [A EXCEPT ![d] = B[d]]

\* A call that changes pages of S of directory d only.
LEMMA MapsKept ==
  ASSUME NEW M, NEW N, NEW D, NEW d \in D, NEW S, Kept(M, N, D, d, S)
  PROVE  ChangesAt(MapsIn(M, D), MapsIn(N, D), d)
<1> DEFINE A == MapsIn(M, D)  B == MapsIn(N, D)
<1>1. DOMAIN A = D \cup {KERNEL_PD} /\ DOMAIN B = D \cup {KERNEL_PD}  BY DEF MapsIn
<1>2. \A x \in D \cup {KERNEL_PD} : x # d => B[x] = A[x]  BY DEF MapsIn, Kept
<1>3. A = [x \in D \cup {KERNEL_PD} |-> A[x]] /\ B = [x \in D \cup {KERNEL_PD} |-> B[x]]  BY DEF MapsIn
<1> HIDE DEF A, B
<1>4. B = [A EXCEPT ![d] = B[d]]  BY <1>1, <1>2, <1>3
<1>. QED  BY <1>4 DEF A, B, ChangesAt

\* The initial states map to initial states.
LEMMA AbstractInit == Init => Abstract!Init
<1> SUFFICES ASSUME Init PROVE Abstract!Init  OBVIOUS
<1>1. Ready(State, pds, NoFrames, cr3) /\ pds = {}
  BY PagingInit, RunningReady DEF Init, Running
<1>2. KernelPart(mem, pds)  BY <1>1, StateFields DEF Ready, Layout
<1>3. \A p \in Pages : Seen(mem, KERNEL_PD, p) = NONE  BY <1>2, KernelBlank
<1>4. DOMAIN Maps = {KERNEL_PD} /\ Maps[KERNEL_PD] = [p \in Pages |-> Seen(mem, KERNEL_PD, p)]
  BY <1>1, MapsSeen DEF MapsIn
<1>. QED  BY <1>3, <1>4 DEF Abstract!Init, Abstract!Blank

\* Every step maps to a step of PageMap or to a stutter.
LEMMA AbstractStep ==
  ASSUME PagingInv, [Next]_vars
  PROVE  [Abstract!Next]_Maps
<1>0. Maps = MapsIn(mem, pds) /\ Maps' = MapsIn(mem', pds')  BY MapsSeen
<1>d. DOMAIN Maps = pds \cup {KERNEL_PD} /\ DOMAIN Maps' = pds' \cup {KERNEL_PD}  BY <1>0 DEF MapsIn
<1>s. ASSUME pds' = pds, SameSeen(mem, mem', pds \cup {KERNEL_PD}) PROVE Maps' = Maps
  BY <1>0, <1>s, MapsSame
<1>1. CASE UNCHANGED vars
  BY <1>1 DEF vars, Maps, Walk
<1>2. CASE Halted  BY <1>1, <1>2 DEF Halted
<1>3. CASE CreateProcess
  <2>1. Ready(State, pds, NoFrames, cr3)  BY <1>3, RunningReady DEF CreateProcess
  <2>2. PICK d \in free : /\ pds' = pds \cup {d}
                          /\ SameSeen(mem, mem', pds \cup {KERNEL_PD}) /\ Bare(mem', d)
    BY <1>3, <2>1, CreateStep
  <2>3. d \notin pds \cup {KERNEL_PD}  BY <2>1, StateFields DEF Ready, Layout, Apart
  <2>4. Abstract!New(d)
    <3>1. MapsIn(mem', pds \cup {d})
            = [x \in (pds \cup {KERNEL_PD}) \cup {d} |-> IF x = d THEN [p \in Pages |-> NONE] ELSE MapsIn(mem, pds)[x]]
      BY <2>2, <2>3 DEF MapsIn, SameSeen, Bare
    <3>. QED  BY <1>0, <1>d, <2>2, <2>3, <3>1 DEF Abstract!New, Abstract!Blank
  <2>5. d \in DOMAIN Maps'  BY <1>d, <2>2
  <2>. QED  BY <2>4, <2>5 DEF Abstract!Next
<1>4. ASSUME NEW d \in pds, DeleteProcess(d) PROVE [Abstract!Next]_Maps
  <2>1. Ready(State, pds, NoFrames, cr3)  BY <1>4, RunningReady DEF DeleteProcess
  <2>2. pds' = pds \ {d} /\ SameSeen(mem, mem', (pds \ {d}) \cup {KERNEL_PD})
    BY <1>4, <2>1, DeleteStep
  <2>3. d # KERNEL_PD  BY <2>1 DEF Ready, Layout, Apart
  <2>4. Abstract!Delete(d)
    <3>1. MapsIn(mem', pds \ {d}) = [x \in (pds \cup {KERNEL_PD}) \ {d} |-> MapsIn(mem, pds)[x]]
      BY <2>2, <2>3 DEF MapsIn, SameSeen
    <3>. QED  BY <1>0, <1>d, <2>2, <3>1 DEF Abstract!Delete
  <2>. QED  BY <1>d, <2>4 DEF Abstract!Next
<1>5. ASSUME NEW d \in pds, NEW p \in Pages, k_memcpyToPhyMem(d, p) PROVE Maps' = Maps
  <2>1. Ready(State, pds, NoFrames, cr3)  BY <1>5, RunningReady DEF k_memcpyToPhyMem
  <2>. QED  BY <1>s, <1>5, <2>1, CopyStep
<1>5f. ASSUME NEW d \in pds, NEW p \in Pages, CopyFaults(d, p) PROVE Maps' = Maps
  <2>1. Ready(State, pds, NoFrames, cr3)  BY <1>5f, RunningReady DEF CopyFaults
  <2>2. pds' = pds /\ mem' = mem  BY <1>5f, <2>1, CopyFaultStep
  <2>. QED  BY <1>0, <2>2
<1>6. ASSUME NEW d \in pds, NEW p \in Pages, NEW n \in 1..MaxRun, NEW user \in BOOLEAN,
             commitVirtualPages(d, p, n, user)
      PROVE  [Abstract!Next]_Maps
  <2>1. Ready(State, pds, NoFrames, cr3)  BY <1>6, RunningReady DEF commitVirtualPages
  <2>2. pds' = pds /\ Kept(mem, mem', pds, d, Span(p, n)) /\ \A q \in Span(p, n) : Seen(mem, d, q) = NONE
    BY <1>6, <2>1, CommitStep
  <2>3. ChangesAt(Maps, Maps', d)  BY <1>0, <2>2, MapsKept
  <2>4. \A q \in Pages : Maps[d][q] # NONE => Maps'[d][q] = Maps[d][q]
    BY <1>0, <2>2 DEF MapsIn, Kept
  <2>5. Abstract!Map(d)  BY <2>3, <2>4 DEF Abstract!Map, ChangesAt
  <2>6. d \in DOMAIN Maps \cap DOMAIN Maps'  BY <1>d, <2>2
  <2>. QED  BY <2>5, <2>6 DEF Abstract!Next
<1>7. ASSUME NEW d \in pds, NEW p \in Pages, NEW n \in 1..MaxRun, kvmm_free(d, p, n)
      PROVE  [Abstract!Next]_Maps
  <2>1. Ready(State, pds, NoFrames, cr3)  BY <1>7, RunningReady DEF kvmm_free
  <2>2. /\ pds' = pds /\ Kept(mem, mem', pds, d, Span(p, n))
        /\ \A q \in Pages : q \in Span(p, n) => Seen(mem', d, q) = NONE
    BY <1>7, <2>1, FreeAction
  <2>3. ChangesAt(Maps, Maps', d)  BY <1>0, <2>2, MapsKept
  <2>4. \A q \in Pages : Maps'[d][q] \in {NONE, Maps[d][q]}
    BY <1>0, <2>2 DEF MapsIn, Kept
  <2>5. Abstract!Unmap(d)  BY <2>3, <2>4 DEF Abstract!Unmap, ChangesAt
  <2>6. d \in DOMAIN Maps \cap DOMAIN Maps'  BY <1>d, <2>2
  <2>. QED  BY <2>5, <2>6 DEF Abstract!Next
<1>8. ASSUME NEW d \in pds \cup {KERNEL_PD}, Switch(d) PROVE Maps' = Maps
  <2>1. pds' = pds /\ mem' = mem  BY <1>8 DEF Switch
  <2>. QED  BY <1>0, <2>1
<1>9. ASSUME NEW p \in Pages, Access(p) PROVE Maps' = Maps
  <2>1. Ready(State, pds, NoFrames, cr3)  BY <1>9, RunningReady DEF Access
  <2>. QED  BY <1>s, <1>9, <2>1, AccessStep
<1>. QED  BY <1>1, <1>2, <1>3, <1>4, <1>5, <1>5f, <1>6, <1>7, <1>8, <1>9 DEF Next

(* Paging implements PageMap: a call of commitVirtualPages adds mappings to the page
   directory it is for and changes none that is there, kvmm_free removes some, a new
   process has none, and no step changes the mappings of another page directory. *)
THEOREM ImplementsPageMap == Spec => PageMapSpec
<1>1. PagingInv /\ [Next]_vars => [Abstract!Next]_Maps  BY AbstractStep
<1>. QED  BY <1>1, AbstractInit, PagingInvariant, PTL DEF Spec, PageMapSpec, Abstract!Spec
=============================================================================
