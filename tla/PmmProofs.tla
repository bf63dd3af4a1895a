----------------------------- MODULE PmmProofs -----------------------------
(***************************************************************************)
(* The physical memory manager, for every page size, capacity and memory   *)
(* map: that no page frame has two owners, and, for regular maps, that     *)
(* only free memory is handed out, that the free memory is counted right,  *)
(* and that the kernel never panics.                                       *)
(***************************************************************************)
EXTENDS Pmm, ListProofs, FiniteSetTheorems

-----------------------------------------------------------------------------
(* Arithmetic of pages *)

\* Pages follow one another.
LEMMA PagesInOrder ==
  ASSUME NEW p \in Nat, NEW a \in Nat, NEW b \in Nat, a < b
  PROVE  a * p + p <= b * p
<1>1. (b - a) >= 1 /\ b - a \in Nat  OBVIOUS
<1>2. (b - a) * p >= p  BY <1>1
<1>3. (b - a) * p = b * p - a * p  OBVIOUS
<1>4. a * p \in Nat /\ b * p \in Nat  OBVIOUS
<1>. QED  BY <1>2, <1>3, <1>4

\* The frames that begin at the page of an address and cover n bytes.
LEMMA Span ==
  ASSUME NEW p \in Nat, p > 0, NEW base \in Nat, NEW n \in Nat, n >= p,
         NEW f \in Run(base \div p, n \div p)
  PROVE  /\ f \in Nat /\ f * p \in Nat
         /\ f * p + p <= base + n
         /\ f * p <= base + n - p
         /\ base % p = 0 => base <= f * p
<1>1. PICK q \in Nat, r \in 0..(p - 1) : q = base \div p /\ r = base % p /\ base = p * q + r  BY DivMod
<1>2. PICK c \in Nat, s \in 0..(p - 1) : c = n \div p /\ s = n % p /\ n = p * c + s  BY DivMod
<1>3. f \in q..(q + c - 1)  BY <1>1, <1>2 DEF Run
<1>4. f \in Nat /\ f < q + c /\ q <= f  BY <1>3
<1>5. f * p \in Nat /\ q * p \in Nat /\ c * p \in Nat  BY <1>4
<1>6. f * p + p <= (q + c) * p  BY <1>4, PagesInOrder
<1>7. (q + c) * p = q * p + c * p  OBVIOUS
<1>8. base = q * p + r /\ n = c * p + s  BY <1>1, <1>2
<1>9. q * p <= f * p
  <2>1. CASE q = f  BY <2>1, <1>5
  <2>2. CASE q < f  BY <2>2, <1>4, <1>5, PagesInOrder
  <2>. QED  BY <1>4, <2>1, <2>2
<1>10. f * p + p <= base + n  BY <1>5, <1>6, <1>7, <1>8
<1>11. base % p = 0 => base <= f * p  BY <1>1, <1>5, <1>8, <1>9
<1>. QED  BY <1>4, <1>5, <1>10, <1>11

\* When the address is that of a page they are all frames within the bytes.
LEMMA SpanAll ==
  ASSUME NEW p \in Nat, p > 0, NEW base \in Nat, base % p = 0, NEW n \in Nat, NEW f \in Nat,
         base <= f * p, f * p + p <= base + n
  PROVE  f \in Run(base \div p, n \div p)
<1>1. PICK q \in Nat, r \in 0..(p - 1) : q = base \div p /\ r = base % p /\ base = p * q + r  BY DivMod
<1>2. PICK c \in Nat, s \in 0..(p - 1) : c = n \div p /\ s = n % p /\ n = p * c + s  BY DivMod
<1>3. f * p \in Nat /\ q * p \in Nat /\ c * p \in Nat  OBVIOUS
<1>4. base = q * p /\ n = c * p + s /\ (q + c) * p = q * p + c * p  BY <1>1, <1>2
<1>5. ~(f < q)
  <2> SUFFICES ASSUME f < q PROVE FALSE  OBVIOUS
  <2>1. f * p + p <= q * p  BY PagesInOrder
  <2>. QED  BY <1>3, <1>4, <2>1
<1>6. ~(q + c <= f)
  <2> SUFFICES ASSUME q + c < f + 1 PROVE FALSE  BY <1>1, <1>2
  <2>1. (q + c) * p + p <= (f + 1) * p  BY PagesInOrder
  <2>2. (f + 1) * p = f * p + p  OBVIOUS
  <2>3. (q + c) * p + p <= q * p + n  BY <1>3, <1>4, <2>1, <2>2
  <2>. QED  BY <1>2, <1>3, <1>4, <2>3
<1>7. f \in q..(q + c - 1)  BY <1>5, <1>6
<1>. QED  BY <1>1, <1>2, <1>7 DEF Run

-----------------------------------------------------------------------------
(* Sizes *)

\* A memory map is a sequence of sections.
LEMMA MapItem ==
  ASSUME NEW map \in Maps
  PROVE  /\ Len(map) \in Nat
         /\ \A i \in 1..Len(map) :
              map[i].base \in Nat /\ map[i].length \in Nat /\ map[i].free \in BOOLEAN
<1> DEFINE Sections == [free : BOOLEAN, base : Nat, length : Nat]
<1>1. map \in Seq(Sections)  BY MapsAssumption, Zenon
<1> HIDE DEF Sections
<1>2. Len(map) \in Nat /\ \A i \in 1..Len(map) : map[i] \in Sections  BY <1>1
<1>. QED  BY <1>2 DEF Sections

\* The installed memory is a number, whatever the map: an induction over its items.
LEMMA InstalledNumber ==
  ASSUME NEW map \in Maps
  PROVE  kboot_calculateInstalledMemory(map) \in Nat
<1> DEFINE n == Len(map)
           Length(i) == map[i].length
<1>0. n \in Nat /\ \A i \in 1..n : Length(i) \in Nat  BY MapItem
<1> DEFINE body(g, m) == [i \in 0..m |-> IF i = 0 THEN 0 ELSE g[i - 1] + Length(i)]
           Sums(m) == \E g \in [0..m -> Nat] : g = body(g, m)
           T == {m \in 0..n : ~Sums(m)}
<1> HIDE DEF n, Length
<1>1. T = {}
  <2> SUFFICES ASSUME T # {} PROVE FALSE  OBVIOUS
  <2>0. T \subseteq Nat  BY <1>0
  <2> HIDE DEF T
  <2>1. PICK x \in T : \A y \in T : x <= y  BY <2>0, LeastNumber
  <2>2. CASE x = 0
    <3> DEFINE h == [i \in 0..0 |-> 0]
    <3>1. h \in [0..0 -> Nat] /\ h = body(h, 0)  OBVIOUS
    <3>2. Sums(0)  BY <3>1
    <3>. QED  BY <2>2, <3>2 DEF T
  <2>3. CASE x # 0
    <3> HIDE DEF Sums
    <3>1. x \in 1..n /\ x - 1 \in 0..n /\ x - 1 \notin T  BY <1>0, <2>1, <2>3 DEF T
    <3>2. Sums(x - 1)  BY <3>1 DEF T
    <3>3. PICK g \in [0..(x - 1) -> Nat] : g = body(g, x - 1)  BY <3>2 DEF Sums
    <3> DEFINE h == [i \in 0..x |-> IF i = x THEN g[x - 1] + Length(x) ELSE g[i]]
    <3>4. h \in [0..x -> Nat]  BY <1>0, <3>1
    <3>5. ASSUME NEW i \in 0..x PROVE h[i] = IF i = 0 THEN 0 ELSE h[i - 1] + Length(i)
      <4>1. CASE i = x  BY <3>1, <4>1
      <4>2. CASE i # x
        <5>1. i \in 0..(x - 1)  BY <3>1, <4>2
        <5>2. g[i] = IF i = 0 THEN 0 ELSE g[i - 1] + Length(i)  BY <3>3, <5>1
        <5>3. i # 0 => i - 1 \in 0..x /\ i - 1 # x  BY <3>1, <5>1
        <5>. QED  BY <4>2, <5>2, <5>3
      <4>. QED  BY <4>1, <4>2
    <3>6. h = body(h, x)  BY <3>5
    <3>7. Sums(x)  BY <3>4, <3>6 DEF Sums
    <3>. QED  BY <2>1, <3>7 DEF T
  <2>. QED  BY <2>2, <2>3
<1>2. Sums(n)
  <2> HIDE DEF Sums
  <2>. QED  BY <1>0, <1>1
<1> DEFINE sum == CHOOSE g : g = [i \in 0..n |-> IF i = 0 THEN 0 ELSE g[i - 1] + Length(i)]
<1>3. sum = [i \in 0..n |-> IF i = 0 THEN 0 ELSE sum[i - 1] + Length(i)]  BY <1>2
<1> HIDE DEF sum
<1>4. \A i \in 0..n : sum[i] = IF i = 0 THEN 0 ELSE sum[i - 1] + Length(i)  BY <1>3
<1> DEFINE U == {m \in 0..n : sum[m] \notin Nat}
<1>5. U = {}
  <2> SUFFICES ASSUME U # {} PROVE FALSE  OBVIOUS
  <2>0. U \subseteq Nat  BY <1>0
  <2> HIDE DEF U
  <2>1. PICK x \in U : \A y \in U : x <= y  BY <2>0, LeastNumber
  <2> USE DEF U
  <2>2. x = 0 => sum[x] = 0  BY <1>4
  <2>3. x # 0 => sum[x] = sum[x - 1] + Length(x) /\ x - 1 \in 0..n /\ x \in 1..n  BY <1>0, <1>4
  <2>4. x # 0 => sum[x - 1] \in Nat  BY <2>1, <2>3
  <2>. QED  BY <1>0, <2>2, <2>3, <2>4
<1>6. sum[n] \in Nat  BY <1>0, <1>5
<1>. QED  BY <1>6 DEF sum, n, Length, kboot_calculateInstalledMemory

Usable == kpmm_getUsableMemorySize

\* The usable memory is a number of bytes, and the whole pages in it fit into the PAB.
LEMMA Sizes ==
  ASSUME items \in Maps
  PROVE  /\ PAGE \in Nat /\ PAGE > 0 /\ CAPACITY \in Nat
         /\ Usable \in Nat /\ Usable <= CAPACITY * PAGE
         /\ UsableFrames \in Nat /\ UsableFrames * PAGE \in Nat
         /\ UsableFrames * PAGE <= Usable /\ Usable < UsableFrames * PAGE + PAGE
<1>1. PAGE \in Nat /\ PAGE > 0 /\ CAPACITY \in Nat  BY SizesAssumption
<1>2. kboot_calculateInstalledMemory(items) \in Nat  BY InstalledNumber
<1>3. CAPACITY * PAGE \in Nat  BY <1>1
<1>4. Usable \in Nat /\ Usable <= CAPACITY * PAGE
  BY <1>2, <1>3 DEF Usable, kpmm_getUsableMemorySize, MinOf
<1>5. PICK q \in Nat, r \in 0..(PAGE - 1) :
        q = Usable \div PAGE /\ r = Usable % PAGE /\ Usable = PAGE * q + r
  BY <1>1, <1>4, DivMod
<1>6. UsableFrames = q  BY <1>5 DEF UsableFrames, Usable
<1>7. PAGE * q = q * PAGE /\ q * PAGE \in Nat  BY <1>1
<1>. QED  BY <1>1, <1>4, <1>5, <1>6, <1>7

\* A frame that begins within the memory is one of the PAB's.
LEMMA FrameSmall ==
  ASSUME items \in Maps, NEW f \in Nat, f * PAGE < Usable
  PROVE  f \in FrameSet /\ f <= UsableFrames
<1>1. /\ PAGE \in Nat /\ CAPACITY \in Nat /\ Usable \in Nat /\ Usable <= CAPACITY * PAGE
      /\ UsableFrames \in Nat /\ Usable < UsableFrames * PAGE + PAGE
  BY Sizes
<1>2. f * PAGE \in Nat /\ CAPACITY * PAGE \in Nat /\ UsableFrames * PAGE \in Nat  BY <1>1
<1>3. ASSUME CAPACITY <= f PROVE FALSE
  <2>1. CAPACITY * PAGE <= f * PAGE
    <3>1. CASE CAPACITY = f  BY <1>2, <3>1
    <3>2. CASE CAPACITY < f  BY <1>1, <1>2, <3>2, PagesInOrder
    <3>. QED  BY <1>1, <1>3, <3>1, <3>2
  <2>. QED  BY <1>1, <1>2, <2>1
<1>4. ASSUME UsableFrames < f PROVE FALSE
  <2>1. UsableFrames * PAGE + PAGE <= f * PAGE  BY <1>1, <1>4, PagesInOrder
  <2>. QED  BY <1>1, <1>2, <2>1
<1>. QED  BY <1>1, <1>3, <1>4 DEF FrameSet

\* The frames of a section that is not skipped are frames of the PAB, for every map, also
\* for sections that overlap or begin and end within a page.
LEMMA SectionFrames ==
  ASSUME items \in Maps, NEW i \in 1..Len(items), ~Skipped(items[i]), NEW f \in FramesOf(items[i])
  PROVE  f \in Nat /\ f \in FrameSet /\ f <= UsableFrames
<1> DEFINE base == items[i].base
           length == items[i].length
           last == MinOf(Usable - 1, base + length - 1)
           n == MaxOf(PAGE, last - base + 1)
<1>1. base \in Nat /\ length \in Nat  BY MapItem
<1>2. length > 0 /\ base < Usable  BY <1>1, Sizes DEF Skipped, Usable
<1>3. PAGE \in Nat /\ PAGE > 0 /\ Usable \in Nat  BY Sizes
<1>4. f \in Run(base \div PAGE, n \div PAGE)  BY DEF FramesOf, Usable
<1> HIDE DEF base, length
<1>5. last \in Nat /\ last >= base /\ last < Usable  BY <1>1, <1>2, <1>3 DEF MinOf
<1>6. n \in Nat /\ n >= PAGE /\ (n = PAGE \/ base + n = last + 1)  BY <1>1, <1>3, <1>5 DEF MaxOf
<1> HIDE DEF last, n
<1>7. f \in Nat /\ f * PAGE \in Nat /\ f * PAGE <= base + n - PAGE  BY <1>1, <1>3, <1>4, <1>6, Span
<1>8. f * PAGE < Usable  BY <1>1, <1>2, <1>3, <1>5, <1>6, <1>7
<1>. QED  BY <1>7, <1>8, FrameSmall

-----------------------------------------------------------------------------
(* Owners *)

\* For every map: nobody owns a frame before the memory is marked, the frames that are not
\* reserved are ones that s_verifyChange lets pass, and the low region is never given back.
OwnInv ==
  /\ TypeOK
  /\ UsedIsOwned
  /\ pc = "mark" => inUse = {}
  /\ \A f \in FrameSet : pab[f] # "RESERVED" => f <= UsableFrames
  /\ pc \in {"modules", "ready"} => Run(0, LOW) \subseteq inUse

\* The sizes depend on the memory map alone.
LEMMA SizesFixed ==
  ASSUME UNCHANGED items
  PROVE  UsableFrames' = UsableFrames /\ Usable' = Usable
BY DEF UsableFrames, Usable, kpmm_getUsableMemorySize, MinOf, kboot_calculateInstalledMemory

\* bitmap_setContinous sets some of the frames, all of them unless s_verifyChange refuses
\* one, and then the kernel panics.
LEMMA SetSome ==
  ASSUME NEW fs, fs \subseteq Nat, NEW new, NEW then, SetContinous(fs, new, then)
  PROVE  /\ DOMAIN pab' = FrameSet
         /\ \A f \in FrameSet : pab'[f] = pab[f] \/ (f \in fs /\ pab'[f] = new)
         /\ \/ /\ \A f \in fs : Verdict(f, new) = "ok"
               /\ pc' = then
               /\ pab' = [f \in FrameSet |-> IF f \in fs THEN new ELSE pab[f]]
            \/ (\E f \in fs : Verdict(f, new) # "ok") /\ pc' \in Panics
<1> DEFINE bad == {f \in fs : Verdict(f, new) # "ok"}
           stop == CHOOSE f \in bad : \A g \in bad : f <= g
           done == {f \in fs : \A g \in bad : f < g}
<1>1. /\ pab' = [f \in FrameSet |-> IF f \in done THEN new ELSE pab[f]]
      /\ pc' = IF bad = {} THEN then ELSE Verdict(stop, new)
  BY DEF SetContinous
<1>2. DOMAIN pab' = FrameSet /\ \A f \in FrameSet : pab'[f] = pab[f] \/ (f \in fs /\ pab'[f] = new)
  BY <1>1
<1>3. CASE bad = {}
  <2>1. done = fs /\ \A f \in fs : Verdict(f, new) = "ok"  BY <1>3
  <2>. QED  BY <1>1, <1>2, <1>3, <2>1
<1>4. CASE bad # {}
  <2>1. bad \subseteq Nat  OBVIOUS
  <2>2. \E f \in bad : \A g \in bad : f <= g
    <3> HIDE DEF bad
    <3>. QED  BY <1>4, <2>1, LeastNumber
  <2>3. stop \in bad  BY <2>2
  <2>4. Verdict(stop, new) # "ok"  BY <2>3
  <2>5. pc' = Verdict(stop, new)  BY <1>1, <1>4
  <2> HIDE DEF stop
  <2>6. Verdict(stop, new) \in Panics  BY <2>4 DEF Verdict, Panics
  <2>. QED  BY <1>2, <1>4, <2>5, <2>6
<1>. QED  BY <1>3, <1>4

\* Free frames can be taken.
LEMMA SetUsed ==
  ASSUME OwnInv, pc # "mark", NEW fs, fs \subseteq FrameSet, \A f \in fs : pab[f] = "FREE",
         NEW then, SetContinous(fs, "USED", then)
  PROVE  pc' = then /\ pab' = [f \in FrameSet |-> IF f \in fs THEN "USED" ELSE pab[f]]
<1>1. CAPACITY \in Nat  BY SizesAssumption
<1>2. fs \subseteq Nat  BY <1>1 DEF FrameSet
<1>3. UsableFrames \in Nat  BY Sizes DEF OwnInv, TypeOK
<1>4. ASSUME NEW f \in fs PROVE Verdict(f, "USED") = "ok"
  <2>1. f \in FrameSet /\ f \in Nat /\ pab[f] = "FREE"  BY <1>2
  <2>2. f <= UsableFrames  BY <2>1 DEF OwnInv
  <2>. QED  BY <1>3, <2>1, <2>2 DEF Verdict
<1>. QED  BY <1>2, <1>4, SetSome

\* The owner of a frame can give it back.
LEMMA SetFree ==
  ASSUME OwnInv, NEW f \in inUse, NEW then, SetContinous({f}, "FREE", then)
  PROVE  pc' = then /\ pab' = [g \in FrameSet |-> IF g = f THEN "FREE" ELSE pab[g]]
<1>1. f \in FrameSet /\ pab[f] = "USED"  BY DEF OwnInv, TypeOK, UsedIsOwned
<1>2. UsableFrames \in Nat  BY Sizes DEF OwnInv, TypeOK
<1>3. f \in Nat  BY <1>1, SizesAssumption DEF FrameSet
<1>4. f <= UsableFrames  BY <1>1 DEF OwnInv
<1>5. Verdict(f, "FREE") = "ok"  BY <1>1, <1>2, <1>3, <1>4 DEF Verdict
<1>6. {f} \subseteq Nat /\ \A g \in {f} : Verdict(g, "FREE") = "ok"  BY <1>3, <1>5
<1>7. pc' = then /\ pab' = [g \in FrameSet |-> IF g \in {f} THEN "FREE" ELSE pab[g]]
  BY <1>6, SetSome
<1>. QED  BY <1>7

\* Marking the memory as free gives nothing to anybody, also where it panics.
LEMMA OwnMark ==
  ASSUME OwnInv, MarkFree
  PROVE  OwnInv'
<1>1. /\ pc = "mark" /\ inUse = {} /\ inUse' = inUse /\ items' = items /\ items \in Maps
      /\ next \in 1..Len(items) /\ next' = next + 1
  <2>1. Len(items) \in Nat  BY MapItem DEF OwnInv, TypeOK
  <2>. QED  BY <2>1 DEF OwnInv, TypeOK, MarkFree
<1>2. CASE Skipped(items[next])
  <2>1. UNCHANGED <<pab, pc>>  BY <1>2 DEF MarkFree
  <2>2. Len(items) \in Nat  BY <1>1, MapItem
  <2>. QED  BY <1>1, <2>1, <2>2, SizesFixed DEF OwnInv, TypeOK, UsedIsOwned
<1>3. CASE ~Skipped(items[next])
  <2> DEFINE fs == FramesOf(items[next])
  <2>1. SetContinous(fs, "FREE", "mark")  BY <1>3 DEF MarkFree
  <2>2. \A f \in fs : f \in Nat /\ f \in FrameSet /\ f <= UsableFrames  BY <1>1, <1>3, SectionFrames
  <2> HIDE DEF fs
  <2>3. /\ DOMAIN pab' = FrameSet
        /\ \A f \in FrameSet : pab'[f] = pab[f] \/ (f \in fs /\ pab'[f] = "FREE")
        /\ pc' = "mark" \/ pc' \in Panics
    <3>1. fs \subseteq Nat  BY <2>2
    <3>. QED  BY <2>1, <3>1, SetSome
  <2>4. pab' = [f \in FrameSet |-> pab'[f]]
    BY <1>3, <2>1 DEF SetContinous
  <2>5. \A f \in FrameSet : pab'[f] \in {"FREE", "USED", "RESERVED"}  BY <2>3 DEF OwnInv, TypeOK
  <2>6. TypeOK'
    <3>1. Len(items) \in Nat  BY <1>1, MapItem
    <3>2. pab' \in [FrameSet -> {"FREE", "USED", "RESERVED"}]  BY <2>4, <2>5
    <3>. QED  BY <1>1, <2>3, <3>1, <3>2 DEF TypeOK, OwnInv
  <2>7. \A f \in FrameSet : pab'[f] # "USED"  BY <1>1, <2>3 DEF OwnInv, UsedIsOwned
  <2>8. \A f \in FrameSet : pab'[f] # "RESERVED" => f <= UsableFrames'
    BY <1>1, <2>2, <2>3, SizesFixed DEF OwnInv
  <2>. QED  BY <1>1, <2>3, <2>6, <2>7, <2>8 DEF OwnInv, UsedIsOwned, Panics
<1>. QED  BY <1>2, <1>3

\* Frames change hands by kpmm_allocAt and kpmm_alloc only while they are free.
LEMMA OwnTake ==
  ASSUME OwnInv, pc # "mark", NEW fs, fs \subseteq FrameSet, \A f \in fs : pab[f] = "FREE",
         NEW then \in {"modules", "ready"}, SetContinous(fs, "USED", then),
         inUse' = inUse \cup fs, UNCHANGED <<items, next>>, Run(0, LOW) \subseteq inUse'
  PROVE  OwnInv'
<1>1. pc' = then /\ pab' = [f \in FrameSet |-> IF f \in fs THEN "USED" ELSE pab[f]]  BY SetUsed
<1>2. TypeOK'  BY <1>1 DEF OwnInv, TypeOK
<1>3. UsedIsOwned'  BY <1>1 DEF OwnInv, UsedIsOwned
<1>4. \A f \in FrameSet : pab'[f] # "RESERVED" => f <= UsableFrames'
  BY <1>1, SizesFixed DEF OwnInv
<1>. QED  BY <1>1, <1>2, <1>3, <1>4 DEF OwnInv

\* A run that bitmap_findContinousAt finds is free and within the PAB.
LEMMA RunFree ==
  ASSUME NEW f \in Nat, NEW n \in Nat, AllFree(f, n)
  PROVE  Run(f, n) \subseteq FrameSet /\ \A g \in Run(f, n) : pab[g] = "FREE"
BY SizesAssumption DEF AllFree, Run, FrameSet

\* kpmm_allocAt takes all of the region or panics.
LEMMA OwnTakeAt ==
  ASSUME OwnInv, NEW f \in Nat, NEW n \in Nat, NEW where \in {"low", "modules"},
         NEW then \in {"modules", "ready"}, NEW panic \in Panics,
         kpmm_allocAt(f, n, where, then, panic),
         where = "low" => f = 0 /\ n = LOW
  PROVE  OwnInv'
<1>1. pc = where /\ UNCHANGED <<items, next>>  BY DEF kpmm_allocAt
<1>2. CASE InRange(f, n) /\ AllFree(f, n)
  <2>1. SetContinous(Run(f, n), "USED", then) /\ inUse' = inUse \cup Run(f, n)
    BY <1>2 DEF kpmm_allocAt
  <2>2. Run(f, n) \subseteq FrameSet /\ \A g \in Run(f, n) : pab[g] = "FREE"  BY <1>2, RunFree
  <2>3. Run(0, LOW) \subseteq inUse'  BY <1>1, <2>1 DEF OwnInv
  <2>4. pc # "mark"  BY <1>1
  <2>. QED  BY <1>1, <2>1, <2>2, <2>3, <2>4, OwnTake
<1>3. CASE ~(InRange(f, n) /\ AllFree(f, n))
  <2>1. UNCHANGED <<pab, inUse>> /\ pc' = panic  BY <1>3 DEF kpmm_allocAt
  <2>2. panic \notin {"mark", "modules", "ready"}  BY DEF Panics
  <2>. QED  BY <1>1, <2>1, <2>2, SizesFixed DEF OwnInv, TypeOK, UsedIsOwned
<1>. QED  BY <1>2, <1>3

\* Every step keeps the frames apart.
LEMMA OwnStep ==
  OwnInv /\ [Next]_vars => OwnInv'
<1> SUFFICES ASSUME OwnInv, [Next]_vars PROVE OwnInv'  OBVIOUS
<1>0. LOW \in Nat /\ ModuleCount \in Nat /\ ModuleFirst \in Nat /\ MaxRun \in Nat /\ CAPACITY \in Nat
  BY SizesAssumption
<1>1. CASE MarkFree  BY <1>1, OwnMark
<1>2. CASE PmmReady
  BY <1>2, SizesFixed DEF PmmReady, OwnInv, TypeOK, UsedIsOwned
<1>3. CASE kpmm_allocAt(0, LOW, "low", "modules", "low region taken")
  <2>1. "low region taken" \in Panics  BY DEF Panics
  <2>. QED  BY <1>0, <1>3, <2>1, OwnTakeAt
<1>4. CASE kpmm_allocAt(ModuleFirst, ModuleCount, "modules", "ready", "modules taken")
  <2>1. "modules taken" \in Panics  BY DEF Panics
  <2>. QED  BY <1>0, <1>4, <2>1, OwnTakeAt
<1>5. ASSUME NEW n \in 1..MaxRun, kpmm_alloc(n) PROVE OwnInv'
  <2> DEFINE f == CHOOSE f \in Candidates(n) : \A g \in Candidates(n) : f <= g
  <2>1. /\ pc = "ready" /\ Candidates(n) # {} /\ UNCHANGED <<items, next>>
        /\ IF f < UsableFrames
           THEN SetContinous(Run(f, n), "USED", "ready") /\ inUse' = inUse \cup Run(f, n)
           ELSE UNCHANGED <<pab, inUse>> /\ pc' = "out of range"
    BY <1>5 DEF kpmm_alloc
  <2>2. f \in Candidates(n)
    <3>1. Candidates(n) \subseteq Nat  BY <1>0 DEF Candidates, FrameSet
    <3>2. \E x \in Candidates(n) : \A g \in Candidates(n) : x <= g  BY <2>1, <3>1, LeastNumber
    <3>. QED  BY <3>2
  <2> HIDE DEF f
  <2>3. f \in Nat /\ n \in Nat /\ AllFree(f, n)  BY <1>0, <2>2 DEF Candidates, FrameSet
  <2>4. Run(f, n) \subseteq FrameSet /\ \A g \in Run(f, n) : pab[g] = "FREE"  BY <2>3, RunFree
  <2>5. CASE f < UsableFrames
    <3>1. SetContinous(Run(f, n), "USED", "ready") /\ inUse' = inUse \cup Run(f, n)  BY <2>1, <2>5
    <3>2. Run(0, LOW) \subseteq inUse' /\ pc # "mark"  BY <2>1, <3>1 DEF OwnInv
    <3>. QED  BY <2>1, <2>4, <3>1, <3>2, OwnTake
  <2>6. CASE ~(f < UsableFrames)
    <3>1. UNCHANGED <<pab, inUse>> /\ pc' = "out of range"  BY <2>1, <2>6
    <3>. QED  BY <2>1, <3>1, SizesFixed DEF OwnInv, TypeOK, UsedIsOwned, Panics
  <2>. QED  BY <2>5, <2>6
<1>6. ASSUME NEW f \in FrameSet, kpmm_free(f) PROVE OwnInv'
  <2>1. /\ pc = "ready" /\ f \in inUse \ BootFrames /\ SetContinous({f}, "FREE", "ready")
        /\ inUse' = inUse \ {f} /\ UNCHANGED <<items, next>>
    BY <1>6 DEF kpmm_free
  <2>2. pc' = "ready" /\ pab' = [g \in FrameSet |-> IF g = f THEN "FREE" ELSE pab[g]]
    BY <2>1, SetFree
  <2>3. TypeOK'  BY <2>1, <2>2 DEF OwnInv, TypeOK
  <2>4. UsedIsOwned'  BY <2>1, <2>2 DEF OwnInv, UsedIsOwned
  <2>5. f <= UsableFrames  BY <2>1 DEF OwnInv, UsedIsOwned
  <2>6. \A g \in FrameSet : pab'[g] # "RESERVED" => g <= UsableFrames'
    BY <2>1, <2>2, <2>5, SizesFixed DEF OwnInv
  <2>7. Run(0, LOW) \subseteq inUse'  BY <2>1 DEF OwnInv, BootFrames
  <2>. QED  BY <2>1, <2>2, <2>3, <2>4, <2>6, <2>7 DEF OwnInv
<1>7. CASE UNCHANGED vars
  BY <1>7, SizesFixed DEF vars, OwnInv, TypeOK, UsedIsOwned
<1>. QED  BY <1>1, <1>2, <1>3, <1>4, <1>5, <1>6, <1>7 DEF Next

\* At first all frames are reserved.
LEMMA OwnInit ==
  Init => OwnInv
<1> SUFFICES ASSUME Init PROVE OwnInv  OBVIOUS
<1>1. items \in Maps /\ Len(items) \in Nat  BY MapItem DEF Init
<1>. QED  BY <1>1 DEF Init, OwnInv, TypeOK, UsedIsOwned

\* No page frame ever has two owners or is used by nobody, for every memory map, also for
\* one that makes the kernel panic while it is marked (kpmm_alloc, kpmm_free).
THEOREM OwnersCorrect == Spec => [](TypeOK /\ UsedIsOwned)
<1>1. OwnInv => TypeOK /\ UsedIsOwned  BY DEF OwnInv
<1>. QED  BY <1>1, OwnInit, OwnStep, PTL DEF Spec

-----------------------------------------------------------------------------
(* Regular memory maps *)

\* All of the frame is in usable memory.
Installed(f) == f * PAGE + PAGE <= Usable

\* Frames that are not reserved lie in a section that was marked; while the map is being
\* marked, so do all frames of these sections; later, the regions that are taken at boot
\* are free until they are taken.
RegularInv ==
  /\ OwnInv
  /\ NoPanic
  /\ \A f \in FrameSet : pab[f] # "RESERVED" =>
       /\ Installed(f)
       /\ \E i \in 1..Len(items) : i < next /\ items[i].free /\ Within(f, items[i])
  /\ pc = "mark" => \A i \in 1..Len(items), f \in FrameSet :
       i < next /\ items[i].free /\ Within(f, items[i]) /\ Installed(f) => pab[f] = "FREE"
  /\ pc = "low" => \A f \in BootFrames : pab[f] = "FREE"
  /\ pc = "modules" => \A f \in Run(ModuleFirst, ModuleCount) : pab[f] = "FREE"

\* The usable memory of a regular map is a number of whole pages.
LEMMA WholePages ==
  ASSUME items \in Maps, RegularMap(items)
  PROVE  UsableFrames * PAGE = Usable
<1>1. PAGE \in Nat /\ PAGE > 0 /\ CAPACITY \in Nat /\ UsableFrames \in Nat /\ Usable \in Nat  BY Sizes
<1> DEFINE inst == kboot_calculateInstalledMemory(items)
<1>2. inst \in Nat /\ inst % PAGE = 0  BY InstalledNumber DEF RegularMap
<1>3. Usable = inst \/ Usable = CAPACITY * PAGE  BY DEF Usable, kpmm_getUsableMemorySize, MinOf
<1> HIDE DEF inst
<1>4. PICK q \in Nat, r \in 0..(PAGE - 1) : q = inst \div PAGE /\ r = inst % PAGE /\ inst = PAGE * q + r
  BY <1>1, <1>2, DivMod
<1>5. PICK c \in Nat : Usable = PAGE * c + 0
  <2>1. CASE Usable = inst  BY <1>1, <1>2, <1>4, <2>1
  <2>2. CASE Usable = CAPACITY * PAGE
    <3>1. Usable = PAGE * CAPACITY + 0  BY <1>1, <2>2
    <3>. QED  BY <1>1, <3>1
  <2>. QED  BY <1>3, <2>1, <2>2
<1>6. 0 \in 0..(PAGE - 1)  BY <1>1
<1>7. Usable \div PAGE = c  BY <1>1, <1>5, <1>6, DivModUnique
<1>8. UsableFrames = c  BY <1>7 DEF UsableFrames, Usable
<1>. QED  BY <1>1, <1>5, <1>8

\* s_markFreeMemory marks exactly the frames that are wholly in a section and in memory.
LEMMA SectionExact ==
  ASSUME items \in Maps, RegularMap(items), NEW i \in 1..Len(items), items[i].free, NEW f \in Nat
  PROVE  /\ ~Skipped(items[i]) /\ f \in FramesOf(items[i]) => Within(f, items[i]) /\ Installed(f)
         /\ Within(f, items[i]) /\ Installed(f) => ~Skipped(items[i]) /\ f \in FramesOf(items[i])
<1> DEFINE base == items[i].base
           length == items[i].length
           last == MinOf(Usable - 1, base + length - 1)
           n == MaxOf(PAGE, last - base + 1)
<1>1. base \in Nat /\ length \in Nat /\ (length > 0 => base % PAGE = 0 /\ length >= PAGE)
  BY MapItem DEF RegularMap
<1>2. /\ PAGE \in Nat /\ PAGE > 0 /\ Usable \in Nat /\ UsableFrames \in Nat
      /\ UsableFrames * PAGE = Usable
  BY Sizes, WholePages
<1>3. Skipped(items[i]) <=> length = 0 \/ base >= Usable  BY DEF Skipped, Usable
<1>4. FramesOf(items[i]) = Run(base \div PAGE, n \div PAGE)  BY DEF FramesOf, Usable
<1>5. Within(f, items[i]) <=> base <= f * PAGE /\ f * PAGE + PAGE <= base + length  BY DEF Within
<1>6. f * PAGE \in Nat  BY <1>2
<1> HIDE DEF base, length
<1>7. ASSUME length > 0, base < Usable
      PROVE  n \in Nat /\ n >= PAGE /\ base + n <= Usable /\ base + n <= base + length
             /\ (base + n = Usable \/ base + n = base + length)
  <2>1. base + PAGE <= Usable
    <3>1. PICK q \in Nat, r \in 0..(PAGE - 1) : q = base \div PAGE /\ r = base % PAGE /\ base = PAGE * q + r
      BY <1>1, <1>2, DivMod
    <3>2. base = q * PAGE /\ q * PAGE \in Nat  BY <1>1, <1>2, <1>7, <3>1
    <3>3. q < UsableFrames
      <4> SUFFICES ASSUME UsableFrames < q + 1 PROVE FALSE  BY <1>2, <3>1
      <4>1. UsableFrames * PAGE + PAGE <= (q + 1) * PAGE  BY <1>2, PagesInOrder
      <4>2. (q + 1) * PAGE = q * PAGE + PAGE  BY <1>2
      <4>. QED  BY <1>2, <1>7, <3>2, <4>1, <4>2
    <3>4. q * PAGE + PAGE <= UsableFrames * PAGE  BY <1>2, <3>3, PagesInOrder
    <3>. QED  BY <1>2, <3>2, <3>4
  <2>2. last = MinOf(Usable - 1, base + length - 1)  OBVIOUS
  <2>3. last - base + 1 >= PAGE /\ last \in Nat /\ last + 1 <= Usable /\ last + 1 <= base + length
        /\ (last + 1 = Usable \/ last + 1 = base + length)
    BY <1>1, <1>2, <1>7, <2>1 DEF MinOf
  <2> HIDE DEF last
  <2>4. n = last - base + 1  BY <1>1, <1>2, <2>3 DEF MaxOf
  <2> HIDE DEF n
  <2>. QED  BY <1>1, <1>2, <2>3, <2>4
<1> HIDE DEF n
<1>8. ASSUME ~Skipped(items[i]), f \in FramesOf(items[i]) PROVE Within(f, items[i]) /\ Installed(f)
  <2>1. length > 0 /\ base < Usable  BY <1>1, <1>2, <1>3, <1>8
  <2>2. n \in Nat /\ n >= PAGE /\ base + n <= Usable /\ base + n <= base + length  BY <1>7, <2>1
  <2>3. base % PAGE = 0  BY <1>1, <2>1
  <2>4. f \in Run(base \div PAGE, n \div PAGE)  BY <1>4, <1>8
  <2>5. f * PAGE + PAGE <= base + n /\ base <= f * PAGE  BY <1>1, <1>2, <2>2, <2>3, <2>4, Span
  <2>. QED  BY <1>1, <1>2, <1>5, <1>6, <2>2, <2>5 DEF Installed
<1>9. ASSUME Within(f, items[i]), Installed(f) PROVE ~Skipped(items[i]) /\ f \in FramesOf(items[i])
  <2>1. base <= f * PAGE /\ f * PAGE + PAGE <= base + length /\ f * PAGE + PAGE <= Usable
    BY <1>5, <1>9 DEF Installed
  <2>2. length > 0 /\ base < Usable  BY <1>1, <1>2, <1>6, <2>1
  <2>3. n \in Nat /\ (base + n = Usable \/ base + n = base + length)  BY <1>7, <2>2
  <2>4. f * PAGE + PAGE <= base + n  BY <2>1, <2>3
  <2>5. f \in Run(base \div PAGE, n \div PAGE)  BY <1>1, <1>2, <2>1, <2>2, <2>3, <2>4, SpanAll
  <2>. QED  BY <1>1, <1>2, <1>3, <1>4, <2>2, <2>5
<1>. QED  BY <1>8, <1>9

\* The whole pages of the memory fit into the PAB.
LEMMA FramesFit ==
  ASSUME items \in Maps
  PROVE  UsableFrames <= CAPACITY
<1>1. /\ PAGE \in Nat /\ PAGE > 0 /\ CAPACITY \in Nat /\ Usable \in Nat /\ Usable <= CAPACITY * PAGE
      /\ UsableFrames \in Nat /\ UsableFrames * PAGE \in Nat /\ UsableFrames * PAGE <= Usable
  BY Sizes
<1>2. CAPACITY * PAGE \in Nat  BY <1>1
<1>3. ASSUME CAPACITY < UsableFrames PROVE FALSE
  <2>1. CAPACITY * PAGE + PAGE <= UsableFrames * PAGE  BY <1>1, <1>3, PagesInOrder
  <2>. QED  BY <1>1, <1>2, <2>1
<1>. QED  BY <1>1, <1>3

\* A frame that is wholly in memory is one of the whole pages.
LEMMA InstalledFrame ==
  ASSUME items \in Maps, NEW f \in Nat, Installed(f)
  PROVE  f < UsableFrames
<1>1. /\ PAGE \in Nat /\ PAGE > 0 /\ Usable \in Nat /\ UsableFrames \in Nat
      /\ UsableFrames * PAGE \in Nat /\ Usable < UsableFrames * PAGE + PAGE
  BY Sizes
<1>2. f * PAGE \in Nat  BY <1>1
<1> SUFFICES ASSUME UsableFrames < f + 1 PROVE FALSE  BY <1>1
<1>3. UsableFrames * PAGE + PAGE <= (f + 1) * PAGE  BY <1>1, PagesInOrder
<1>4. (f + 1) * PAGE = f * PAGE + PAGE  BY <1>1
<1>. QED  BY <1>1, <1>2, <1>3, <1>4 DEF Installed

\* The memory that a regular map describes, and whether a frame is in it, never change.
LEMMA InstalledFixed ==
  ASSUME UNCHANGED items, NEW f
  PROVE  Installed(f)' <=> Installed(f)
BY SizesFixed DEF Installed

\* Sections do not overlap, so s_verifyChange lets all of their frames pass.
LEMMA RegularMark ==
  ASSUME RegularMaps, RegularInv, MarkFree
  PROVE  RegularInv'
<1>1. OwnInv'  BY OwnMark DEF RegularInv
<1>2. /\ pc = "mark" /\ items' = items /\ items \in Maps /\ next \in 1..Len(items) /\ next' = next + 1
      /\ Len(items) \in Nat
  <2>1. items \in Maps /\ Len(items) \in Nat  BY MapItem DEF RegularInv, OwnInv, TypeOK
  <2>. QED  BY <2>1 DEF RegularInv, OwnInv, TypeOK, MarkFree
<1>3. RegularMap(items)  BY <1>2 DEF RegularMaps
<1>4. \A f : Installed(f)' <=> Installed(f)  BY <1>2, InstalledFixed
<1>5. \A i \in 1..Len(items) : i < next' <=> i < next \/ i = next  BY <1>2
<1>6. FrameSet \subseteq Nat  BY SizesAssumption DEF FrameSet
<1>7. items[next].free \in BOOLEAN  BY <1>2, MapItem
<1>8. CASE Skipped(items[next])
  <2>1. UNCHANGED <<pab, pc>>  BY <1>8 DEF MarkFree
  <2>2. \A f \in FrameSet : items[next].free => ~(Within(f, items[next]) /\ Installed(f))
    BY <1>2, <1>3, <1>6, <1>8, SectionExact
  <2>3. NoPanic'  BY <2>1 DEF NoPanic, RegularInv
  <2>4. \A f \in FrameSet : pab'[f] # "RESERVED" =>
          /\ Installed(f)'
          /\ \E i \in 1..Len(items) : i < next' /\ items[i].free /\ Within(f, items[i])
    BY <1>4, <1>5, <2>1 DEF RegularInv
  <2>5. \A i \in 1..Len(items), f \in FrameSet :
          i < next' /\ items[i].free /\ Within(f, items[i]) /\ Installed(f) => pab'[f] = "FREE"
    BY <1>2, <1>5, <2>1, <2>2 DEF RegularInv
  <2>. QED  BY <1>1, <1>2, <1>4, <2>1, <2>3, <2>4, <2>5 DEF RegularInv, Within
<1>9. CASE ~Skipped(items[next])
  <2> DEFINE fs == FramesOf(items[next])
  <2>1. SetContinous(fs, "FREE", "mark")  BY <1>9 DEF MarkFree
  <2>2. \A f \in fs : f \in Nat /\ f \in FrameSet /\ f <= UsableFrames  BY <1>2, <1>9, SectionFrames
  <2>3. items[next].free  BY <1>7, <1>9 DEF Skipped
  <2>4. \A f \in Nat : f \in fs <=> Within(f, items[next]) /\ Installed(f)
    BY <1>2, <1>3, <1>9, <2>3, SectionExact
  <2> HIDE DEF fs
  <2>5. ASSUME NEW f \in fs PROVE Verdict(f, "FREE") = "ok"
    <3>1. f \in Nat /\ f \in FrameSet /\ f <= UsableFrames /\ Within(f, items[next])  BY <2>2, <2>4
    <3>2. pab[f] = "RESERVED"
      <4> SUFFICES ASSUME pab[f] # "RESERVED" PROVE FALSE  OBVIOUS
      <4>1. PICK i \in 1..Len(items) : i < next /\ items[i].free /\ Within(f, items[i])
        BY <3>1 DEF RegularInv
      <4>2. i # next  BY <1>2, <4>1
      <4>3. \/ items[i].base + items[i].length <= items[next].base
            \/ items[next].base + items[next].length <= items[i].base
        BY <1>2, <1>3, <2>3, <4>1, <4>2 DEF RegularMap
      <4>4. /\ items[i].base \in Nat /\ items[i].length \in Nat
            /\ items[next].base \in Nat /\ items[next].length \in Nat
        BY <1>2, MapItem
      <4>5. PAGE \in Nat /\ PAGE > 0 /\ f * PAGE \in Nat  BY <3>1, SizesAssumption
      <4>. QED  BY <3>1, <4>1, <4>3, <4>4, <4>5 DEF Within
    <3>3. UsableFrames \in Nat  BY <1>2, Sizes
    <3>. QED  BY <1>2, <3>1, <3>2, <3>3 DEF Verdict
  <2>6. pc' = "mark" /\ pab' = [f \in FrameSet |-> IF f \in fs THEN "FREE" ELSE pab[f]]
    <3>1. fs \subseteq Nat  BY <2>2
    <3>. QED  BY <2>1, <2>5, <3>1, SetSome
  <2>7. NoPanic'  BY <2>6 DEF NoPanic, Panics
  <2>8. ASSUME NEW f \in FrameSet, pab'[f] # "RESERVED"
        PROVE  /\ Installed(f)'
               /\ \E i \in 1..Len(items) : i < next' /\ items[i].free /\ Within(f, items[i])
    <3>1. CASE f \in fs  BY <1>2, <1>4, <1>5, <2>2, <2>3, <2>4, <3>1
    <3>2. CASE f \notin fs
      <4>1. pab[f] # "RESERVED"  BY <2>6, <2>8, <3>2
      <4>. QED  BY <1>4, <1>5, <4>1 DEF RegularInv
    <3>. QED  BY <3>1, <3>2
  <2>9. ASSUME NEW i \in 1..Len(items), NEW f \in FrameSet,
               i < next', items[i].free, Within(f, items[i]), Installed(f)
        PROVE  pab'[f] = "FREE"
    <3>1. CASE f \in fs  BY <2>6, <3>1
    <3>2. CASE f \notin fs
      <4>1. i # next  BY <1>6, <2>4, <2>9, <3>2
      <4>2. i < next  BY <1>5, <2>9, <4>1
      <4>3. pab[f] = "FREE"  BY <1>2, <2>9, <4>2 DEF RegularInv
      <4>. QED  BY <2>6, <3>2, <4>3
    <3>. QED  BY <3>1, <3>2
  <2>. QED  BY <1>1, <1>2, <1>4, <2>6, <2>7, <2>8, <2>9 DEF RegularInv, Within
<1>. QED  BY <1>8, <1>9

\* When all of the map is marked, the frames that the boot takes are free.
LEMMA RegularReady ==
  ASSUME RegularMaps, RegularInv, PmmReady
  PROVE  RegularInv'
<1>1. OwnInv'  BY OwnStep DEF RegularInv, Next
<1>2. /\ pc = "mark" /\ pc' = "low" /\ UNCHANGED <<items, pab, next, inUse>> /\ next > Len(items)
      /\ items \in Maps
  BY DEF PmmReady, RegularInv, OwnInv, TypeOK
<1>3. Len(items) \in Nat /\ next \in Nat  BY <1>2, MapItem DEF RegularInv, OwnInv, TypeOK
<1>4. ASSUME NEW f \in BootFrames PROVE pab[f] = "FREE"
  <2>1. /\ f < CAPACITY /\ f * PAGE + PAGE <= kboot_calculateInstalledMemory(items)
        /\ \E i \in 1..Len(items) : items[i].free /\ Within(f, items[i])
    BY <1>2 DEF RegularMaps, RegularMap
  <2>2. f \in Nat  BY SizesAssumption DEF BootFrames, Run
  <2>3. PAGE \in Nat /\ CAPACITY \in Nat  BY SizesAssumption
  <2>4. f \in FrameSet  BY <2>1, <2>2, <2>3 DEF FrameSet
  <2>5. f * PAGE + PAGE <= CAPACITY * PAGE  BY <2>1, <2>2, <2>3, PagesInOrder
  <2>6. Installed(f)
    BY <2>1, <2>5 DEF Installed, Usable, kpmm_getUsableMemorySize, MinOf
  <2>7. PICK i \in 1..Len(items) : items[i].free /\ Within(f, items[i])  BY <2>1
  <2>8. i < next  BY <1>2, <1>3
  <2>. QED  BY <1>2, <2>4, <2>6, <2>7, <2>8 DEF RegularInv
<1>5. \A f : Installed(f)' <=> Installed(f)  BY <1>2, InstalledFixed
<1>. QED  BY <1>1, <1>2, <1>4, <1>5 DEF RegularInv, NoPanic, Panics, Within

\* Taking and giving back leave the reserved frames alone.
LEMMA RegularChange ==
  ASSUME RegularInv, OwnInv', UNCHANGED <<items, next>>, pc' \in {"modules", "ready"},
         \A f \in FrameSet : pab'[f] # "RESERVED" => pab[f] # "RESERVED",
         pc' = "modules" => \A f \in Run(ModuleFirst, ModuleCount) : pab'[f] = "FREE"
  PROVE  RegularInv'
<1>1. \A f : Installed(f)' <=> Installed(f)  BY InstalledFixed
<1>2. NoPanic'  BY DEF NoPanic, Panics
<1>3. \A f \in FrameSet : pab'[f] # "RESERVED" =>
        /\ Installed(f)'
        /\ \E i \in 1..Len(items) : i < next /\ items[i].free /\ Within(f, items[i])
  BY <1>1 DEF RegularInv
<1>. QED  BY <1>2, <1>3 DEF RegularInv, Within

\* The regions that the kernel knows to be in use are taken whole.
LEMMA RegularTakeAt ==
  ASSUME RegularInv, OwnInv', NEW f \in Nat, NEW n \in Nat, n > 0, NEW where \in {"low", "modules"},
         NEW then \in {"modules", "ready"}, NEW panic,
         kpmm_allocAt(f, n, where, then, panic),
         \A g \in Run(f, n) : pab[g] = "FREE",
         Run(f, n) \subseteq FrameSet,
         then = "modules" => /\ \A g \in Run(ModuleFirst, ModuleCount) : g \in FrameSet /\ pab[g] = "FREE"
                             /\ Run(f, n) \cap Run(ModuleFirst, ModuleCount) = {}
  PROVE  RegularInv'
<1>1. pc = where /\ UNCHANGED <<items, next>>  BY DEF kpmm_allocAt
<1>2. PAGE \in Nat /\ PAGE > 0 /\ CAPACITY \in Nat /\ Usable \in Nat
  BY Sizes DEF RegularInv, OwnInv, TypeOK
<1>3. f + n - 1 \in Run(f, n)  BY DEF Run
<1>4. f + n <= CAPACITY  BY <1>2, <1>3 DEF FrameSet
<1>5. InRange(f, n)
  <2>1. Installed(f + n - 1)  BY <1>3 DEF RegularInv
  <2>2. (f + n) * PAGE = (f + n - 1) * PAGE + PAGE  BY <1>2
  <2>3. (f + n) * PAGE \in Nat  BY <1>2
  <2>. QED  BY <1>2, <2>1, <2>2, <2>3 DEF InRange, Installed, Usable
<1>6. AllFree(f, n)  BY <1>4 DEF AllFree
<1>7. SetContinous(Run(f, n), "USED", then)  BY <1>5, <1>6 DEF kpmm_allocAt
<1>8. pc' = then /\ pab' = [g \in FrameSet |-> IF g \in Run(f, n) THEN "USED" ELSE pab[g]]
  <2>1. pc # "mark" /\ OwnInv  BY <1>1 DEF RegularInv
  <2>. QED  BY <1>7, <2>1, SetUsed
<1>9. \A g \in FrameSet : pab'[g] # "RESERVED" => pab[g] # "RESERVED"  BY <1>8
<1>10. then = "modules" => \A g \in Run(ModuleFirst, ModuleCount) : pab'[g] = "FREE"  BY <1>8
<1>. QED  BY <1>1, <1>8, <1>9, <1>10, RegularChange

\* Every step keeps the marked memory within the map, and none panics.
LEMMA RegularStep ==
  ASSUME RegularMaps
  PROVE  RegularInv /\ [Next]_vars => RegularInv'
<1> SUFFICES ASSUME RegularInv, [Next]_vars PROVE RegularInv'  OBVIOUS
<1>0. /\ LOW \in Nat /\ LOW > 0 /\ ModuleCount \in Nat /\ ModuleCount > 0 /\ ModuleFirst \in Nat
      /\ MaxRun \in Nat /\ CAPACITY \in Nat
  BY SizesAssumption
<1>1. OwnInv /\ OwnInv'  BY OwnStep DEF RegularInv
<1>2. BootFrames \subseteq FrameSet
  <2>1. items \in Maps  BY <1>1 DEF OwnInv, TypeOK
  <2>2. \A f \in BootFrames : f < CAPACITY  BY <2>1 DEF RegularMaps, RegularMap
  <2>3. BootFrames \subseteq Nat  BY <1>0 DEF BootFrames, Run
  <2>. QED  BY <1>0, <2>2, <2>3 DEF FrameSet
<1>3. CASE MarkFree  BY <1>3, RegularMark
<1>4. CASE PmmReady  BY <1>4, RegularReady
<1>5. CASE kpmm_allocAt(0, LOW, "low", "modules", "low region taken")
  <2>1. pc = "low"  BY <1>5 DEF kpmm_allocAt
  <2>2. \A g \in BootFrames : pab[g] = "FREE"  BY <2>1 DEF RegularInv
  <2>3. Run(0, LOW) \subseteq BootFrames /\ Run(ModuleFirst, ModuleCount) \subseteq BootFrames
    BY DEF BootFrames
  <2>4. Run(0, LOW) \cap Run(ModuleFirst, ModuleCount) = {}  BY DEF RegularMaps
  <2>. QED  BY <1>0, <1>1, <1>2, <1>5, <2>2, <2>3, <2>4, RegularTakeAt
<1>6. CASE kpmm_allocAt(ModuleFirst, ModuleCount, "modules", "ready", "modules taken")
  <2>1. pc = "modules"  BY <1>6 DEF kpmm_allocAt
  <2>2. \A g \in Run(ModuleFirst, ModuleCount) : pab[g] = "FREE"  BY <2>1 DEF RegularInv
  <2>3. Run(ModuleFirst, ModuleCount) \subseteq FrameSet  BY <1>2 DEF BootFrames
  <2>. QED  BY <1>0, <1>1, <1>6, <2>2, <2>3, RegularTakeAt
<1>7. ASSUME NEW n \in 1..MaxRun, kpmm_alloc(n) PROVE RegularInv'
  <2> DEFINE f == CHOOSE f \in Candidates(n) : \A g \in Candidates(n) : f <= g
  <2>1. /\ pc = "ready" /\ Candidates(n) # {} /\ UNCHANGED <<items, next>>
        /\ f < UsableFrames => SetContinous(Run(f, n), "USED", "ready")
    BY <1>7 DEF kpmm_alloc
  <2>2. f \in Candidates(n)
    <3>1. Candidates(n) \subseteq Nat  BY <1>0 DEF Candidates, FrameSet
    <3>2. \E x \in Candidates(n) : \A g \in Candidates(n) : x <= g  BY <2>1, <3>1, LeastNumber
    <3>. QED  BY <3>2
  <2> HIDE DEF f
  <2>3. f \in Nat /\ n \in Nat /\ f \in FrameSet /\ AllFree(f, n)
    BY <1>0, <2>2 DEF Candidates, FrameSet
  <2>4. Run(f, n) \subseteq FrameSet /\ \A g \in Run(f, n) : pab[g] = "FREE"  BY <2>3, RunFree
  <2>5. f < UsableFrames
    <3>1. f \in Run(f, n)  BY <1>0, <2>3 DEF Run
    <3>2. Installed(f)  BY <2>3, <2>4, <3>1 DEF RegularInv
    <3>. QED  BY <1>1, <2>3, <3>2, InstalledFrame DEF OwnInv, TypeOK
  <2>6. pc' = "ready" /\ pab' = [g \in FrameSet |-> IF g \in Run(f, n) THEN "USED" ELSE pab[g]]
    BY <1>1, <2>1, <2>4, <2>5, SetUsed
  <2>7. \A g \in FrameSet : pab'[g] # "RESERVED" => pab[g] # "RESERVED"  BY <2>4, <2>6
  <2>. QED  BY <1>1, <2>1, <2>6, <2>7, RegularChange
<1>8. ASSUME NEW f \in FrameSet, kpmm_free(f) PROVE RegularInv'
  <2>1. f \in inUse /\ SetContinous({f}, "FREE", "ready") /\ UNCHANGED <<items, next>>
    BY <1>8 DEF kpmm_free
  <2>2. pc' = "ready" /\ pab' = [g \in FrameSet |-> IF g = f THEN "FREE" ELSE pab[g]]
    BY <1>1, <2>1, SetFree
  <2>3. pab[f] = "USED"  BY <1>1, <2>1 DEF OwnInv, UsedIsOwned
  <2>4. \A g \in FrameSet : pab'[g] # "RESERVED" => pab[g] # "RESERVED"  BY <2>2, <2>3
  <2>. QED  BY <1>1, <2>1, <2>2, <2>4, RegularChange
<1>9. CASE UNCHANGED vars
  <2>1. UNCHANGED <<items, pab, next, inUse, pc>>  BY <1>9 DEF vars
  <2>2. \A f : Installed(f)' <=> Installed(f)  BY <2>1, InstalledFixed
  <2>. QED  BY <1>1, <2>1, <2>2 DEF RegularInv, NoPanic, Within
<1>. QED  BY <1>3, <1>4, <1>5, <1>6, <1>7, <1>8, <1>9 DEF Next

\* At first nothing is marked.
LEMMA RegularInit ==
  Init => RegularInv
<1> SUFFICES ASSUME Init PROVE RegularInv  OBVIOUS
<1>1. OwnInv  BY OwnInit
<1>. QED  BY <1>1 DEF Init, RegularInv, NoPanic, Panics

\* Whatever is handed out is memory that the map calls free, byte by byte, and installed
\* (s_markFreeMemory, kpmm_alloc).
THEOREM FreeMemoryCorrect ==
  ASSUME RegularMaps
  PROVE  Spec => []OnlyFreeMemory
<1>1. RegularInv => OnlyFreeMemory
  <2> SUFFICES ASSUME RegularInv, NEW f \in FrameSet, pab[f] # "RESERVED"
               PROVE  /\ f < UsableFrames
                      /\ \A b \in Bytes(f) : \E i \in 1..Len(items) :
                           items[i].free /\ b \in Run(items[i].base, items[i].length)
    BY DEF OnlyFreeMemory
  <2>1. PAGE \in Nat /\ f \in Nat /\ items \in Maps
    BY SizesAssumption DEF RegularInv, OwnInv, TypeOK, FrameSet
  <2>2. Installed(f)  BY DEF RegularInv
  <2>3. f < UsableFrames  BY <2>1, <2>2, InstalledFrame
  <2>4. PICK i \in 1..Len(items) : items[i].free /\ Within(f, items[i])  BY DEF RegularInv
  <2>5. items[i].base \in Nat /\ items[i].length \in Nat  BY <2>1, MapItem
  <2>6. f * PAGE \in Nat  BY <2>1
  <2>7. \A b \in Bytes(f) : b \in Run(items[i].base, items[i].length)
    BY <2>1, <2>4, <2>5, <2>6 DEF Bytes, Run, Within
  <2>. QED  BY <2>3, <2>4, <2>7
<1>. QED  BY <1>1, RegularInit, RegularStep, PTL DEF Spec

\* Owners and frames correspond, and kpmm_getFreeMemorySize reports all that is free.
THEOREM MemoryCorrect ==
  ASSUME RegularMaps
  PROVE  Spec => []MemoryKnown
<1>1. RegularInv => MemoryKnown
  <2> SUFFICES ASSUME RegularInv PROVE MemoryKnown  OBVIOUS
  <2>1. TypeOK /\ UsedIsOwned  BY DEF RegularInv, OwnInv
  <2>2. ASSUME pc = "ready"
        PROVE  {f \in 1..(UsableFrames - 1) : pab[f] = "FREE"} = {f \in FrameSet : pab[f] = "FREE"}
    <3>1. CAPACITY \in Nat /\ UsableFrames \in Nat  BY <2>1, Sizes DEF TypeOK
    <3>2. UsableFrames <= CAPACITY  BY <2>1, FramesFit DEF TypeOK
    <3>3. 0 \in Run(0, LOW)
      <4>1. LOW \in Nat /\ LOW > 0  BY SizesAssumption
      <4>. QED  BY <4>1 DEF Run
    <3>4. 0 \in inUse  BY <2>2, <3>3 DEF RegularInv, OwnInv
    <3>5. pab[0] # "FREE"  BY <2>1, <3>4 DEF UsedIsOwned, TypeOK
    <3>6. ASSUME NEW f \in FrameSet, pab[f] = "FREE" PROVE f \in 1..(UsableFrames - 1)
      <4>1. f \in Nat /\ f # 0  BY <3>1, <3>5, <3>6 DEF FrameSet
      <4>2. Installed(f)  BY <3>6 DEF RegularInv
      <4>3. f < UsableFrames  BY <2>1, <4>1, <4>2, InstalledFrame DEF TypeOK
      <4>. QED  BY <3>1, <4>1, <4>3
    <3>7. 1..(UsableFrames - 1) \subseteq FrameSet  BY <3>1, <3>2 DEF FrameSet
    <3>. QED  BY <3>6, <3>7
  <2>3. FreeSizeRight  BY <2>2 DEF FreeSizeRight, kpmm_getFreeMemorySize
  <2>. QED  BY <2>1, <2>3 DEF MemoryKnown
<1>. QED  BY <1>1, RegularInit, RegularStep, PTL DEF Spec

\* Neither the initialisation nor any allocation or release panics.
THEOREM NeverPanics ==
  ASSUME RegularMaps
  PROVE  Spec => []NoPanic
<1>1. RegularInv => NoPanic  BY DEF RegularInv
<1>. QED  BY <1>1, RegularInit, RegularStep, PTL DEF Spec
=============================================================================
