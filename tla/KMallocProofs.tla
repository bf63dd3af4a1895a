--------------------------- MODULE KMallocProofs ---------------------------
(***************************************************************************)
(* For every buffer, header and request size: the sections always tile the *)
(* buffer, the lists agree, free sections are merged, and kmalloc and      *)
(* kfree implement the abstract heap.                                      *)
(***************************************************************************)
EXTENDS CMalloc, ListProofs

\* The inductive invariant. That all sections lie in order (the last conjunct of
\* Tiling) follows from the order of neighbours only by induction over the list,
\* so the invariant carries it along.
Inv == TypeOK /\ Tiling /\ ListsAgree /\ Coalesced /\ EndIsFree /\ LargeEnough

\* Tiling, of any list of sections and any sizes.
Sections(s, sz) ==
  /\ Len(s) > 0 /\ s[1] = 0
  /\ \A i \in 1..Len(s) :
       /\ sz[s[i]] >= Header
       /\ s[i] + sz[s[i]] = IF i = Len(s) THEN Buffer ELSE s[i + 1]
  /\ \A i, j \in 1..Len(s) : i < j => s[i] + sz[s[i]] <= s[j]

\* The two formulations agree.
LEMMA SectionsOfState ==
  /\ Tiling <=> Sections(s_adj, netNodeSize)
  /\ Tiling' <=> Sections(s_adj', netNodeSize')
BY DEF Tiling, Sections

\* Addresses are numbers.
LEMMA AddrNat ==
  /\ \A a \in Addr : a \in Nat /\ a <= Buffer
  /\ \A n \in Nat : n <= Buffer => n \in Addr
BY BufferAssumption DEF Addr

\* The sections and their sizes are addresses.
LEMMA SectionType ==
  ASSUME NEW s \in Seq(Addr), NEW sz \in [Addr -> Addr], NEW i \in 1..Len(s)
  PROVE  /\ s[i] \in Addr /\ sz[s[i]] \in Addr
         /\ s[i] \in Nat /\ sz[s[i]] \in Nat
<1>1. s[i] \in Addr  OBVIOUS
<1>2. sz[s[i]] \in Addr  BY <1>1
<1>. QED  BY <1>1, <1>2, AddrNat

\* No section is in the list twice, since each has at least a header.
LEMMA SectionsDiffer ==
  ASSUME NEW s \in Seq(Addr), NEW sz \in [Addr -> Addr], Sections(s, sz)
  PROVE  NoRepeats(s)
<1> SUFFICES ASSUME NEW i \in 1..Len(s), NEW j \in 1..Len(s), i # j, s[i] = s[j]
             PROVE  FALSE
  BY DEF NoRepeats
<1>1. /\ s[i] \in Nat /\ s[j] \in Nat /\ sz[s[i]] \in Nat /\ sz[s[j]] \in Nat
      /\ sz[s[i]] > 0 /\ sz[s[j]] > 0
  BY SectionType, HeaderAssumption DEF Sections
<1>2. CASE i < j  BY <1>1, <1>2 DEF Sections
<1>3. CASE j < i  BY <1>1, <1>3 DEF Sections
<1>. QED  BY <1>2, <1>3

\* To merge a section with the one behind it leaves the sections in order.
LEMMA MergeKeepsSections ==
  ASSUME NEW s \in Seq(Addr), NEW sz \in [Addr -> Addr], Sections(s, sz),
         NEW k \in 1..(Len(s) - 1), NEW tz \in [Addr -> Addr],
         tz[s[k]] = sz[s[k]] + sz[s[k + 1]],
         \A i \in 1..Len(s) : i \notin {k, k + 1} => tz[s[i]] = sz[s[i]]
  PROVE  Sections(list_remove(s, s[k + 1]), tz)
<1> DEFINE r == list_remove(s, s[k + 1])
<1>1. Len(s) \in Nat /\ k + 1 \in 1..Len(s) /\ k \in 1..Len(s)  OBVIOUS
<1>2. /\ r \in Seq(Addr) /\ Len(r) = Len(s) - 1
      /\ \A i \in 1..(Len(s) - 1) : r[i] = IF i < k + 1 THEN s[i] ELSE s[i + 1]
  BY <1>1, SectionsDiffer, ListRemoveAt
<1> HIDE DEF r
<1>3. \A i \in 1..Len(s) : s[i] \in Nat /\ sz[s[i]] \in Nat /\ tz[s[i]] \in Nat
  BY SectionType
<1>4. Len(r) > 0 /\ r[1] = 0  BY <1>1, <1>2 DEF Sections
<1>5. ASSUME NEW i \in 1..Len(r)
      PROVE  /\ tz[r[i]] >= Header
             /\ r[i] + tz[r[i]] = IF i = Len(r) THEN Buffer ELSE r[i + 1]
  <2>1. CASE i < k
    <3>1. /\ r[i] = s[i] /\ r[i + 1] = s[i + 1] /\ tz[s[i]] = sz[s[i]]
          /\ i # Len(s) /\ i # Len(r) /\ i \in 1..Len(s)
      BY <2>1, <1>1, <1>2
    <3>. QED  BY <3>1 DEF Sections
  <2>2. CASE i = k
    <3>1. r[i] = s[k] /\ tz[r[i]] = sz[s[k]] + sz[s[k + 1]]  BY <2>2, <1>1, <1>2
    <3>2. /\ sz[s[k]] >= Header /\ s[k] + sz[s[k]] = s[k + 1]
          /\ s[k + 1] + sz[s[k + 1]] = IF k + 1 = Len(s) THEN Buffer ELSE s[k + 2]
      BY <1>1 DEF Sections
    <3>3. i # Len(r) => r[i + 1] = s[k + 2]
      <4>1. i # Len(r) => k + 1 \in 1..(Len(s) - 1)  BY <2>2, <1>1, <1>2
      <4>2. i # Len(r) => r[k + 1] = s[(k + 1) + 1]  BY <4>1, <1>2
      <4>3. (k + 1) + 1 = k + 2  OBVIOUS
      <4>. QED  BY <2>2, <4>2, <4>3
    <3>. QED  BY <2>2, <3>1, <3>2, <3>3, <1>1, <1>2, <1>3, HeaderAssumption
  <2>3. CASE i > k
    <3>1. /\ r[i] = s[i + 1] /\ tz[s[i + 1]] = sz[s[i + 1]] /\ i + 1 \in 1..Len(s)
          /\ i # Len(r) => r[i + 1] = s[i + 2] /\ i + 1 # Len(s)
          /\ i = Len(r) => i + 1 = Len(s)
      BY <2>3, <1>1, <1>2
    <3>2. /\ sz[s[i + 1]] >= Header
          /\ s[i + 1] + sz[s[i + 1]] = IF i + 1 = Len(s) THEN Buffer ELSE s[i + 2]
      BY <3>1, <1>1 DEF Sections
    <3>. QED  BY <3>1, <3>2
  <2>. QED  BY <2>1, <2>2, <2>3
<1>6. ASSUME NEW i \in 1..Len(r), NEW j \in 1..Len(r), i < j
      PROVE  r[i] + tz[r[i]] <= r[j]
  <2> DEFINE m == IF j < k + 1 THEN j ELSE j + 1
  <2>1. r[j] = s[m] /\ m \in 1..Len(s)  BY <1>1, <1>2
  <2>2. CASE i < k
    <3>1. r[i] = s[i] /\ tz[s[i]] = sz[s[i]] /\ i \in 1..Len(s) /\ i < m
      BY <2>2, <1>1, <1>2, <1>6
    <3>. QED  BY <2>1, <3>1 DEF Sections
  <2>3. CASE i = k
    <3>1. r[i] = s[k] /\ tz[r[i]] = sz[s[k]] + sz[s[k + 1]] /\ k + 1 < m
      BY <2>3, <1>1, <1>2, <1>6
    <3>2. s[k] + sz[s[k]] = s[k + 1] /\ s[k + 1] + sz[s[k + 1]] <= s[m]
      BY <2>1, <3>1, <1>1 DEF Sections
    <3>. QED  BY <2>1, <3>1, <3>2, <1>1, <1>3
  <2>4. CASE i > k
    <3>1. /\ r[i] = s[i + 1] /\ tz[s[i + 1]] = sz[s[i + 1]] /\ i + 1 \in 1..Len(s)
          /\ i + 1 < m
      BY <2>4, <1>1, <1>2, <1>6
    <3>. QED  BY <2>1, <3>1 DEF Sections
  <2>. QED  BY <2>2, <2>3, <2>4
<1>. QED  BY <1>4, <1>5, <1>6 DEF Sections, r

\* A section ends inside the buffer.
LEMMA SectionEnd ==
  ASSUME NEW s \in Seq(Addr), NEW sz \in [Addr -> Addr], Sections(s, sz),
         NEW k \in 1..Len(s)
  PROVE  s[k] + sz[s[k]] <= Buffer
<1>1. s[k] + sz[s[k]] \in Addr
  <2>1. CASE k = Len(s)  BY <2>1, AddrNat, BufferAssumption DEF Sections
  <2>2. CASE k # Len(s)
    <3>1. k + 1 \in 1..Len(s)  BY <2>2
    <3>. QED  BY <2>2, <3>1, SectionType DEF Sections
  <2>. QED  BY <2>1, <2>2
<1>. QED  BY <1>1, AddrNat

\* Two neighbours together are no larger than the buffer.
LEMMA SumFits ==
  ASSUME NEW s \in Seq(Addr), NEW sz \in [Addr -> Addr], Sections(s, sz),
         NEW k \in 1..(Len(s) - 1)
  PROVE  sz[s[k]] + sz[s[k + 1]] \in Addr
<1>1. k \in 1..Len(s) /\ k + 1 \in 1..Len(s) /\ k # Len(s)  OBVIOUS
<1>2. s[k + 1] + sz[s[k + 1]] <= Buffer  BY <1>1, SectionEnd
<1>3. s[k] + sz[s[k]] = s[k + 1]  BY <1>1 DEF Sections
<1>4. /\ s[k] \in Nat /\ sz[s[k]] \in Nat
      /\ s[k + 1] \in Nat /\ sz[s[k + 1]] \in Nat
  BY <1>1, SectionType
<1>5. sz[s[k]] + sz[s[k + 1]] \in Nat /\ sz[s[k]] + sz[s[k + 1]] <= Buffer
  BY <1>2, <1>3, <1>4, BufferAssumption
<1>. QED  BY <1>5, AddrNat

\* A new header inside section k lies between the sections of the list.
LEMMA SplitPoint ==
  ASSUME NEW s \in Seq(Addr), NEW sz \in [Addr -> Addr], Sections(s, sz),
         NEW k \in 1..Len(s), NEW net \in Nat, net >= Header, sz[s[k]] >= net + Header
  PROVE  /\ s[k] + net \in Addr /\ s[k] + net \in Nat
         /\ s[k] + net \notin Items(s)
         /\ \A i \in 1..Len(s) : i > k => s[i] >= s[k] + sz[s[k]]
<1> DEFINE x == s[k] + net
<1>1. \A i \in 1..Len(s) : s[i] \in Nat /\ sz[s[i]] \in Nat  BY SectionType
<1>2. s[k] + sz[s[k]] <= Buffer  BY SectionEnd
<1>3. x \in Nat /\ x \in Addr
  <2>1. s[k] \in Nat /\ sz[s[k]] \in Nat  BY <1>1
  <2>2. x \in Nat /\ x <= Buffer  BY <2>1, <1>2, HeaderAssumption, BufferAssumption
  <2>. QED  BY <2>2, AddrNat
<1>4. \A i \in 1..Len(s) : (i < k => s[i] < x) /\ (i > k => s[i] >= s[k] + sz[s[k]])
  <2>1. \A i \in 1..Len(s) : i < k => s[i] + sz[s[i]] <= s[k]  BY DEF Sections
  <2>2. \A i \in 1..Len(s) : i > k => s[k] + sz[s[k]] <= s[i]  BY DEF Sections
  <2>. QED  BY <2>1, <2>2, <1>1, HeaderAssumption
<1>5. x \notin Items(s)
  <2> SUFFICES ASSUME NEW i \in 1..Len(s), s[i] = x PROVE FALSE  BY DEF Items
  <2>1. CASE i < k  BY <2>1, <1>1, <1>3, <1>4
  <2>2. CASE i = k  BY <2>2, <1>1, HeaderAssumption
  <2>3. CASE i > k  BY <2>3, <1>1, <1>4, HeaderAssumption
  <2>. QED  BY <2>1, <2>2, <2>3
<1>. QED  BY <1>3, <1>4, <1>5

\* To split a section in two leaves the sections in order.
LEMMA SplitKeepsSections ==
  ASSUME NEW s \in Seq(Addr), NEW sz \in [Addr -> Addr], Sections(s, sz),
         NEW k \in 1..Len(s), NEW net \in Nat, net >= Header, sz[s[k]] >= net + Header,
         NEW tz \in [Addr -> Addr],
         tz[s[k]] = net, tz[s[k] + net] = sz[s[k]] - net,
         \A i \in 1..Len(s) : i # k => tz[s[i]] = sz[s[i]]
  PROVE  Sections(list_add_after(s, s[k], s[k] + net), tz)
<1> DEFINE x == s[k] + net
           r == list_add_after(s, s[k], x)
<1>1. Len(s) \in Nat  OBVIOUS
<1>2. \A i \in 1..Len(s) : s[i] \in Nat /\ sz[s[i]] \in Nat /\ tz[s[i]] \in Nat
  BY SectionType
<1>4. x \in Nat /\ x \in Addr  BY SplitPoint
<1>5. \A i \in 1..Len(s) : i > k => s[i] >= s[k] + sz[s[k]]  BY SplitPoint
<1>7. /\ r \in Seq(Addr) /\ Len(r) = Len(s) + 1
      /\ \A i \in 1..(Len(s) + 1) :
           r[i] = IF i <= k THEN s[i] ELSE IF i = k + 1 THEN x ELSE s[i - 1]
  <2>1. NoRepeats(s)  BY SectionsDiffer
  <2>. QED  BY <1>4, <2>1, AddAfterAt
<1> HIDE DEF r
<1>8. tz[x] = sz[s[k]] - net /\ tz[x] >= Header /\ tz[x] \in Nat
  BY <1>2, <1>4, HeaderAssumption
<1>9. Len(r) > 0 /\ r[1] = 0  BY <1>1, <1>7 DEF Sections
<1>10. ASSUME NEW i \in 1..Len(r)
       PROVE  /\ tz[r[i]] >= Header
              /\ r[i] + tz[r[i]] = IF i = Len(r) THEN Buffer ELSE r[i + 1]
  <2>1. CASE i < k
    <3>1. /\ r[i] = s[i] /\ r[i + 1] = s[i + 1] /\ tz[s[i]] = sz[s[i]]
          /\ i # Len(s) /\ i # Len(r) /\ i \in 1..Len(s)
      BY <2>1, <1>1, <1>7
    <3>. QED  BY <3>1 DEF Sections
  <2>2. CASE i = k
    <3>1. r[i] = s[k] /\ r[i + 1] = x /\ i # Len(r)  BY <2>2, <1>1, <1>7
    <3>. QED  BY <3>1
  <2>3. CASE i = k + 1
    <3>1. r[i] = x /\ (i # Len(r) => r[i + 1] = s[k + 1]) /\ (i = Len(r) <=> k = Len(s))
      BY <2>3, <1>1, <1>7
    <3>2. s[k] + sz[s[k]] = IF k = Len(s) THEN Buffer ELSE s[k + 1]  BY DEF Sections
    <3>3. x + tz[x] = s[k] + sz[s[k]]  BY <1>2, <1>8
    <3>. QED  BY <3>1, <3>2, <3>3, <1>8
  <2>4. CASE i > k + 1
    <3>1. /\ r[i] = s[i - 1] /\ tz[s[i - 1]] = sz[s[i - 1]] /\ i - 1 \in 1..Len(s)
          /\ i = Len(r) <=> i - 1 = Len(s)
      BY <2>4, <1>1, <1>7
    <3>3. i # Len(r) => r[i + 1] = s[(i - 1) + 1]
      <4> HIDE DEF x
      <4>0. i \in Nat /\ k \in Nat /\ Len(r) = Len(s) + 1 /\ i \in 1..Len(r)  BY <1>7
      <4>1. i # Len(r) => i + 1 \in 1..(Len(s) + 1) /\ i + 1 > k + 1
        BY <2>4, <1>1, <4>0
      <4>2. i # Len(r) => r[i + 1] = s[(i + 1) - 1]  BY <4>1, <1>7
      <4>3. (i - 1) + 1 = (i + 1) - 1  BY <1>7
      <4>. QED  BY <4>2, <4>3
    <3>2. /\ sz[s[i - 1]] >= Header
          /\ s[i - 1] + sz[s[i - 1]] = IF i - 1 = Len(s) THEN Buffer ELSE s[(i - 1) + 1]
      BY <3>1 DEF Sections
    <3>. QED  BY <3>1, <3>2, <3>3
  <2>. QED  BY <2>1, <2>2, <2>3, <2>4, <1>1, <1>7
<1>11. ASSUME NEW i \in 1..Len(r), NEW j \in 1..Len(r), i < j
       PROVE  r[i] + tz[r[i]] <= r[j]
  <2>1. CASE i < k
    <3>1. r[i] = s[i] /\ tz[s[i]] = sz[s[i]] /\ i \in 1..Len(s)
      BY <2>1, <1>1, <1>7
    <3>2. CASE j <= k
      BY <1>11, <2>1, <3>1, <3>2, <1>1, <1>7 DEF Sections
    <3>3. CASE j = k + 1
      <4>1. s[i] + sz[s[i]] <= s[k]  BY <2>1, <3>1 DEF Sections
      <4>2. s[i] \in Nat /\ sz[s[i]] \in Nat /\ s[k] \in Nat  BY <3>1, <1>2
      <4>3. r[j] = x  BY <3>3, <1>1, <1>7
      <4>4. s[i] + sz[s[i]] <= x  BY <4>1, <4>2
      <4>. QED  BY <3>1, <4>3, <4>4
    <3>4. CASE j > k + 1
      <4>1. r[j] = s[j - 1] /\ j - 1 \in 1..Len(s) /\ i < j - 1
        BY <2>1, <3>4, <1>1, <1>7
      <4>. QED  BY <3>1, <4>1 DEF Sections
    <3>. QED  BY <3>2, <3>3, <3>4, <1>1, <1>7
  <2>2. CASE i = k
    <3>1. r[i] = s[k] /\ tz[r[i]] = net  BY <2>2, <1>1, <1>7
    <3>2. CASE j = k + 1  BY <3>1, <3>2, <1>1, <1>2, <1>4, <1>7
    <3>3. CASE j > k + 1
      <4>1. r[j] = s[j - 1] /\ j - 1 \in 1..Len(s) /\ k < j - 1
        BY <3>3, <1>1, <1>7
      <4>2. s[j - 1] >= s[k] + sz[s[k]]  BY <4>1, <1>5
      <4>3. s[k] \in Nat /\ sz[s[k]] \in Nat /\ s[j - 1] \in Nat  BY <4>1, <1>2
      <4>4. s[k] + net <= s[j - 1]  BY <4>2, <4>3, HeaderAssumption
      <4>. QED  BY <3>1, <4>1, <4>4
    <3>. QED  BY <3>2, <3>3, <2>2, <1>11, <1>1, <1>7
  <2>3. CASE i = k + 1
    <3>1. r[i] = x /\ r[j] = s[j - 1] /\ j - 1 \in 1..Len(s) /\ k < j - 1
      BY <2>3, <1>11, <1>1, <1>7
    <3>2. x + tz[x] = s[k] + sz[s[k]]  BY <1>2, <1>8
    <3>. QED  BY <3>1, <3>2, <1>5
  <2>4. CASE i > k + 1
    <3>1. /\ r[i] = s[i - 1] /\ tz[s[i - 1]] = sz[s[i - 1]] /\ i - 1 \in 1..Len(s)
          /\ r[j] = s[j - 1] /\ j - 1 \in 1..Len(s) /\ i - 1 < j - 1
      BY <2>4, <1>11, <1>1, <1>7
    <3>. QED  BY <3>1 DEF Sections
  <2>. QED  BY <2>1, <2>2, <2>3, <2>4, <1>1, <1>7
<1>. QED  BY <1>9, <1>10, <1>11 DEF Sections, r

\* Merging pair k leaves no pair of free neighbours but, perhaps, pair m before it.
LEMMA MergeCoalesces ==
  ASSUME NEW s \in Seq(Addr), NoRepeats(s), NEW k \in 1..(Len(s) - 1),
         NEW al \in [Addr -> BOOLEAN], ~al[s[k]], ~al[s[k + 1]], ~al[s[Len(s)]],
         NEW m \in Nat, m < k,
         \A j \in 1..(Len(s) - 1) : j \notin {k, m} => al[s[j]] \/ al[s[j + 1]]
  PROVE  LET r == list_remove(s, s[k + 1])
         IN  /\ ~al[r[Len(r)]]
             /\ \A j \in 1..(Len(r) - 1) : j # m => al[r[j]] \/ al[r[j + 1]]
<1> DEFINE r == list_remove(s, s[k + 1])
<1>1. Len(s) \in Nat /\ k + 1 \in 1..Len(s) /\ k \in 1..Len(s) /\ k \in Nat  OBVIOUS
<1>2. /\ r \in Seq(Addr) /\ Len(r) = Len(s) - 1
      /\ \A i \in 1..(Len(s) - 1) : r[i] = IF i < k + 1 THEN s[i] ELSE s[i + 1]
  BY <1>1, ListRemoveAt
<1> HIDE DEF r
<1>3. ~al[r[Len(r)]]
  <2>1. CASE k + 1 = Len(s)
    <3>1. Len(r) = k /\ r[Len(r)] = s[k]  BY <2>1, <1>1, <1>2
    <3>. QED  BY <3>1
  <2>2. CASE k + 1 # Len(s)
    <3>1. r[Len(r)] = s[(Len(s) - 1) + 1]  BY <2>2, <1>1, <1>2
    <3>2. (Len(s) - 1) + 1 = Len(s)  BY <1>1
    <3>. QED  BY <3>1, <3>2
  <2>. QED  BY <2>1, <2>2
<1>4. ASSUME NEW j \in 1..(Len(r) - 1), j # m
      PROVE  al[r[j]] \/ al[r[j + 1]]
  <2>1. j \in Nat /\ j \in 1..(Len(s) - 1) /\ j + 1 \in 1..(Len(s) - 1)  BY <1>1, <1>2
  <2>2. CASE j < k
    <3>1. r[j] = s[j] /\ r[j + 1] = s[j + 1]  BY <2>1, <2>2, <1>1, <1>2
    <3>. QED  BY <3>1, <2>1, <2>2, <1>4
  <2>3. CASE j >= k
    <3>1. r[j + 1] = s[(j + 1) + 1]  BY <2>1, <2>3, <1>1, <1>2
    <3>2. al[s[j + 1]] \/ al[s[(j + 1) + 1]]
      <4>1. j + 1 \notin {k, m}  BY <2>1, <2>3, <1>1
      <4>. QED  BY <4>1, <2>1
    <3>3. CASE j = k  BY <3>1, <3>2, <3>3
    <3>4. CASE j # k
      <4>1. r[j] = s[j + 1]  BY <2>1, <2>3, <3>4, <1>1, <1>2
      <4>. QED  BY <4>1, <3>1, <3>2
    <3>. QED  BY <3>3, <3>4
  <2>. QED  BY <2>1, <2>2, <2>3, <1>1
<1>. QED  BY <1>3, <1>4 DEF r

\* The buffer starts as one free section.
LEMMA InitInv == Init => Inv
<1> SUFFICES ASSUME Init PROVE Inv  OBVIOUS
<1>1. 0 \in Addr /\ Buffer \in Addr  BY AddrNat, BufferAssumption
<1>2. TypeOK  BY <1>1 DEF Init, TypeOK
<1>3. Len(s_adj) = 1 /\ s_adj[1] = 0 /\ netNodeSize[0] = Buffer /\ ~isAllocated[0]
  BY <1>1 DEF Init
<1>4. Tiling  BY <1>3, BufferAssumption DEF Tiling
<1>6. ListsAgree
  <2>1. Items(s_adj) = {0} /\ Items(s_free) = {0} /\ Items(s_alloc) = {}
    BY DEF Init, Items
  <2>2. NoRepeats(s_free) /\ NoRepeats(s_alloc)  BY DEF Init, NoRepeats
  <2>. QED  BY <2>1, <2>2, <1>3 DEF ListsAgree
<1>7. Coalesced /\ EndIsFree  BY <1>3 DEF Coalesced, EndIsFree
<1>8. LargeEnough  BY DEF Init, LargeEnough, Items
<1>. QED  BY <1>2, <1>4, <1>6, <1>7, <1>8 DEF Inv

\* kmalloc keeps the invariant.
LEMMA KmallocInv ==
  ASSUME Inv, NEW bytes \in Requests, kmalloc(bytes)
  PROVE  Inv'
<1> USE DEF Inv
<1>1. PICK n \in 1..Len(s_free) :
        /\ Fits(s_free[n], bytes)
        /\ s_splitFreeNode(bytes, s_free[n])
        /\ requested' = [requested EXCEPT ![s_free[n]] = bytes]
  BY DEF kmalloc
<1> DEFINE node == s_free[n]
           net  == bytes + Header
           rest == node + net
<1>2. node \in Items(s_free) /\ node \in Items(s_adj) /\ ~isAllocated[node]
  BY DEF ListsAgree, Items
<1>3. PICK k \in 1..Len(s_adj) : s_adj[k] = node  BY <1>2 DEF Items
<1>4. /\ s_adj \in Seq(Addr) /\ s_free \in Seq(Addr) /\ s_alloc \in Seq(Addr)
      /\ netNodeSize \in [Addr -> Addr] /\ isAllocated \in [Addr -> BOOLEAN]
      /\ requested \in [Addr -> Nat]
  BY DEF TypeOK
<1>5. node \in Addr /\ node \in Nat /\ netNodeSize[node] \in Nat
  BY <1>3, <1>4, SectionType
<1>6. bytes \in Nat /\ net \in Nat /\ net >= Header /\ net > 0
  BY RequestsAssumption, HeaderAssumption
<1>7. netNodeSize[node] >= net + Header  BY <1>1 DEF Fits, NET_ALLOCATION_SIZE
<1>8. Sections(s_adj, netNodeSize)  BY SectionsOfState
<1>9. rest \in Addr /\ rest \in Nat /\ rest \notin Items(s_adj)
  BY <1>3, <1>4, <1>6, <1>7, <1>8, SplitPoint
<1>10. /\ netNodeSize' = [netNodeSize EXCEPT ![node] = net, ![rest] = netNodeSize[node] - net]
       /\ isAllocated' = [isAllocated EXCEPT ![node] = TRUE, ![rest] = FALSE]
       /\ s_free' = list_remove(list_add_after(s_free, node, rest), node)
       /\ s_adj' = list_add_after(s_adj, node, rest)
       /\ s_alloc' = Append(s_alloc, node)
       /\ requested' = [requested EXCEPT ![node] = bytes]
  BY <1>1 DEF s_splitFreeNode, NET_ALLOCATION_SIZE
<1> HIDE DEF node, net, rest
<1>11. rest # node  BY <1>2, <1>9
<1>12. net \in Addr /\ netNodeSize[node] - net \in Addr
  <2>1. netNodeSize[node] \in Addr  BY <1>4, <1>5
  <2>2. netNodeSize[node] <= Buffer  BY <2>1, AddrNat
  <2>3. /\ net <= Buffer /\ netNodeSize[node] - net \in Nat
        /\ netNodeSize[node] - net <= Buffer
    BY <2>2, <1>5, <1>6, <1>7, HeaderAssumption, BufferAssumption
  <2>. QED  BY <2>3, <1>6, AddrNat
<1>13. /\ netNodeSize' \in [Addr -> Addr]
       /\ netNodeSize'[node] = net /\ netNodeSize'[rest] = netNodeSize[node] - net
       /\ \A a \in Addr : a \notin {node, rest} => netNodeSize'[a] = netNodeSize[a]
  BY <1>4, <1>5, <1>9, <1>10, <1>11, <1>12
<1>14. /\ isAllocated' \in [Addr -> BOOLEAN]
       /\ isAllocated'[node] /\ ~isAllocated'[rest]
       /\ \A a \in Addr : a \notin {node, rest} => isAllocated'[a] = isAllocated[a]
  BY <1>4, <1>5, <1>9, <1>10, <1>11
<1>15. /\ requested' \in [Addr -> Nat] /\ requested'[node] = bytes
       /\ \A a \in Addr : a # node => requested'[a] = requested[a]
  BY <1>4, <1>5, <1>6, <1>10
<1>16. NoRepeats(s_adj)  BY <1>4, <1>8, SectionsDiffer
<1>17. /\ s_adj' \in Seq(Addr) /\ Items(s_adj') = Items(s_adj) \cup {rest}
  BY <1>2, <1>4, <1>9, <1>10, <1>16, AddAfterItems
<1>18. /\ s_free' \in Seq(Addr) /\ NoRepeats(s_free')
       /\ Items(s_free') = (Items(s_free) \cup {rest}) \ {node}
  <2> DEFINE f == list_add_after(s_free, node, rest)
  <2>1. NoRepeats(s_free) /\ rest \notin Items(s_free)  BY <1>9 DEF ListsAgree
  <2>2. f \in Seq(Addr) /\ NoRepeats(f) /\ Items(f) = Items(s_free) \cup {rest}
    BY <2>1, <1>2, <1>4, <1>9, AddAfterItems
  <2> HIDE DEF f
  <2>3. s_free' = list_remove(f, node)  BY <1>10 DEF f
  <2>. QED  BY <2>2, <2>3, RemoveItems, RemoveType
<1>19. /\ s_alloc' \in Seq(Addr) /\ NoRepeats(s_alloc')
       /\ Items(s_alloc') = Items(s_alloc) \cup {node}
       /\ rest \notin Items(s_alloc)
  <2>1. NoRepeats(s_alloc) /\ node \notin Items(s_alloc) /\ rest \notin Items(s_alloc)
    BY <1>2, <1>9 DEF ListsAgree
  <2>. QED  BY <2>1, <1>4, <1>5, <1>10, AppendItems
<1>20. Items(s_adj) \subseteq Addr
  BY <1>4 DEF Items
<1>21. TypeOK'  BY <1>13, <1>14, <1>15, <1>17, <1>18, <1>19 DEF TypeOK
<1>22. Tiling'
  <2>1. \A i \in 1..Len(s_adj) : i # k => netNodeSize'[s_adj[i]] = netNodeSize[s_adj[i]]
    <3> SUFFICES ASSUME NEW i \in 1..Len(s_adj), i # k
                 PROVE  netNodeSize'[s_adj[i]] = netNodeSize[s_adj[i]]
      OBVIOUS
    <3>1. s_adj[i] \in Items(s_adj) /\ s_adj[i] \in Addr  BY <1>20 DEF Items
    <3>2. s_adj[i] # node  BY <1>3, <1>16 DEF NoRepeats
    <3>. QED  BY <3>1, <3>2, <1>9, <1>13
  <2>2. Sections(s_adj', netNodeSize')
    <3>1. s_adj[k] + net = rest  BY <1>3 DEF rest
    <3>2. netNodeSize[s_adj[k]] >= net + Header  BY <1>3, <1>7
    <3>3. /\ netNodeSize'[s_adj[k]] = net
          /\ netNodeSize'[s_adj[k] + net] = netNodeSize[s_adj[k]] - net
      BY <3>1, <1>3, <1>13
    <3>4. Sections(list_add_after(s_adj, s_adj[k], s_adj[k] + net), netNodeSize')
      <4>1. netNodeSize' \in [Addr -> Addr]  BY <1>13
      <4>2. /\ s_adj \in Seq(Addr) /\ netNodeSize \in [Addr -> Addr]
            /\ net \in Nat /\ net >= Header
        BY <1>4, <1>6
      <4>. QED  BY <2>1, <3>2, <3>3, <4>1, <4>2, <1>8, SplitKeepsSections, Zenon
    <3>. QED  BY <3>1, <3>4, <1>3, <1>10
  <2>. QED  BY <2>2, SectionsOfState
<1>23. ListsAgree'
  <2>1. Items(s_adj') = Items(s_free') \cup Items(s_alloc')
    BY <1>2, <1>11, <1>17, <1>18, <1>19 DEF ListsAgree
  <2>2. \A a \in Items(s_free') : ~isAllocated'[a]
    BY <1>14, <1>18, <1>20 DEF ListsAgree
  <2>3. \A a \in Items(s_alloc') : isAllocated'[a]
    BY <1>14, <1>19, <1>20 DEF ListsAgree
  <2>. QED  BY <2>1, <2>2, <2>3, <1>18, <1>19 DEF ListsAgree
<1>24. /\ Len(s_adj') = Len(s_adj) + 1 /\ Len(s_adj) \in Nat
       /\ \A i \in 1..(Len(s_adj) + 1) :
            s_adj'[i] = IF i <= k THEN s_adj[i] ELSE IF i = k + 1 THEN rest ELSE s_adj[i - 1]
  BY <1>3, <1>4, <1>9, <1>10, <1>16, AddAfterAt
<1>25. \A i \in 1..Len(s_adj) : i # k => isAllocated'[s_adj[i]] = isAllocated[s_adj[i]]
  <2> SUFFICES ASSUME NEW i \in 1..Len(s_adj), i # k
               PROVE  isAllocated'[s_adj[i]] = isAllocated[s_adj[i]]
    OBVIOUS
  <2>1. s_adj[i] \in Items(s_adj) /\ s_adj[i] \in Addr  BY <1>20 DEF Items
  <2>2. s_adj[i] # node  BY <1>3, <1>16 DEF NoRepeats
  <2>. QED  BY <2>1, <2>2, <1>9, <1>14
<1>26. Coalesced'
  <2> SUFFICES ASSUME NEW i \in 1..Len(s_adj)
               PROVE  isAllocated'[s_adj'[i]] \/ isAllocated'[s_adj'[i + 1]]
    BY <1>24 DEF Coalesced
  <2>1. i \in Nat /\ k \in Nat  OBVIOUS
  <2>2. CASE i = k \/ i + 1 = k
    <3>1. s_adj'[k] = node  BY <1>3, <1>24
    <3>. QED  BY <2>2, <3>1, <1>14
  <2>3. CASE i + 1 < k
    <3>1. /\ s_adj'[i] = s_adj[i] /\ s_adj'[i + 1] = s_adj[i + 1]
          /\ i \in 1..(Len(s_adj) - 1) /\ i + 1 \in 1..Len(s_adj)
      BY <2>1, <2>3, <1>24
    <3>. QED  BY <2>1, <2>3, <3>1, <1>25 DEF Coalesced
  <2>4. CASE i = k + 1
    <3>1. s_adj'[i + 1] = s_adj[(i + 1) - 1] /\ k \in 1..(Len(s_adj) - 1)
      BY <2>1, <2>4, <1>24
    <3>2. (i + 1) - 1 = k + 1  BY <2>1, <2>4
    <3>3. isAllocated[s_adj[k + 1]]  BY <3>1, <1>2, <1>3 DEF Coalesced
    <3>. QED  BY <3>1, <3>2, <3>3, <2>1, <2>4, <1>25
  <2>5. CASE i > k + 1
    <3>1. /\ s_adj'[i] = s_adj[i - 1] /\ s_adj'[i + 1] = s_adj[(i + 1) - 1]
          /\ i - 1 \in 1..(Len(s_adj) - 1) /\ i - 1 \in 1..Len(s_adj)
      BY <2>1, <2>5, <1>24
    <3>2. (i + 1) - 1 = (i - 1) + 1 /\ (i - 1) + 1 = i  BY <2>1
    <3>3. isAllocated[s_adj[i - 1]] \/ isAllocated[s_adj[i]]  BY <3>1, <3>2 DEF Coalesced
    <3>. QED  BY <2>1, <2>5, <3>1, <3>2, <3>3, <1>25
  <2>. QED  BY <2>1, <2>2, <2>3, <2>4, <2>5
<1>27. EndIsFree'
  <2>1. CASE k = Len(s_adj)
    <3>1. s_adj'[Len(s_adj')] = rest  BY <2>1, <1>24
    <3>. QED  BY <3>1, <1>14 DEF EndIsFree
  <2>2. CASE k # Len(s_adj)
    <3>1. s_adj'[Len(s_adj')] = s_adj[(Len(s_adj) + 1) - 1]  BY <2>2, <1>24
    <3>2. (Len(s_adj) + 1) - 1 = Len(s_adj) /\ Len(s_adj) \in 1..Len(s_adj)  BY <1>24
    <3>. QED  BY <2>2, <3>1, <3>2, <1>25 DEF EndIsFree
  <2>. QED  BY <2>1, <2>2
<1>28. LargeEnough'
  <2> SUFFICES ASSUME NEW a \in Items(s_alloc')
               PROVE  netNodeSize'[a] >= requested'[a] + Header
    BY DEF LargeEnough
  <2>1. CASE a = node  BY <2>1, <1>6, <1>13, <1>15, HeaderAssumption DEF net
  <2>2. CASE a # node
    <3>1. a \in Items(s_alloc) /\ a # rest  BY <2>2, <1>19
    <3>2. a \in Addr  BY <3>1, <1>20 DEF ListsAgree
    <3>. QED  BY <2>2, <3>1, <3>2, <1>13, <1>15 DEF LargeEnough
  <2>. QED  BY <2>1, <2>2
<1>. QED  BY <1>21, <1>22, <1>23, <1>26, <1>27, <1>28

\* kfree keeps the invariant. The proof follows the two steps of
\* s_combineAdjFreeNodes: after the first one (the section behind) the lists are
\* adj1 and free1 and the sizes size1.
LEMMA KfreeInv ==
  ASSUME Inv, NEW node \in Addr, kfree(node)
  PROVE  Inv'
<1> USE DEF Inv
<1> DEFINE i     == At(s_adj, node)
           N     == NextIsFree(i)
           P     == PrevIsFree(i)
           adj1  == IF N THEN list_remove(s_adj, s_adj[i + 1]) ELSE s_adj
           free0 == <<node>> \o s_free
           free1 == IF N THEN list_remove(free0, s_adj[i + 1]) ELSE free0
           gone1 == IF N THEN {s_adj[i + 1]} ELSE {}
           gone2 == IF P THEN {node} ELSE {}
           size1 == [a \in Addr |-> IF a \in gone1 THEN 0
                                    ELSE IF a = node THEN GrownSize(i) ELSE netNodeSize[a]]
<1>1. /\ node \in Items(s_alloc)
      /\ s_alloc' = list_remove(s_alloc, node)
      /\ isAllocated' = [isAllocated EXCEPT ![node] = FALSE]
      /\ requested' = [requested EXCEPT ![node] = 0]
      /\ s_free' = Combined(free0, i)
      /\ s_adj' = Combined(s_adj, i)
      /\ netNodeSize' = CombinedSize(i)
  BY DEF kfree
<1>2. /\ s_adj \in Seq(Addr) /\ s_free \in Seq(Addr) /\ s_alloc \in Seq(Addr)
      /\ netNodeSize \in [Addr -> Addr] /\ isAllocated \in [Addr -> BOOLEAN]
      /\ requested \in [Addr -> Nat]
  BY DEF TypeOK
<1>3. Sections(s_adj, netNodeSize) /\ NoRepeats(s_adj)
  BY <1>2, SectionsOfState, SectionsDiffer
<1>4. node \in Items(s_adj) /\ isAllocated[node] /\ node \notin Items(s_free)
  BY <1>1 DEF ListsAgree
<1>5. i \in 1..Len(s_adj) /\ s_adj[i] = node  BY <1>4, AtPosition
<1> HIDE DEF i
<1>6. i \in Nat /\ Len(s_adj) \in Nat /\ i + 1 \in 1..Len(s_adj) /\ i \in 1..(Len(s_adj) - 1)
  <2>1. i # Len(s_adj)  BY <1>4, <1>5 DEF EndIsFree
  <2>. QED  BY <2>1, <1>2, <1>5
<1>7. Items(s_adj) \subseteq Addr /\ \A j \in 1..Len(s_adj) : s_adj[j] \in Items(s_adj)
  BY <1>2 DEF Items
<1>8. N <=> ~isAllocated[s_adj[i + 1]]  BY <1>6 DEF NextIsFree
<1>9. /\ isAllocated' \in [Addr -> BOOLEAN] /\ ~isAllocated'[node]
      /\ \A a \in Addr : a # node => isAllocated'[a] = isAllocated[a]
  BY <1>1, <1>2
<1>10. \A j \in 1..Len(s_adj) : j # i => s_adj[j] # node  BY <1>3, <1>5 DEF NoRepeats
<1>11. /\ free0 \in Seq(Addr) /\ NoRepeats(free0) /\ Items(free0) = Items(s_free) \cup {node}
  BY <1>2, <1>4, FrontItems DEF ListsAgree
<1>12. /\ adj1 \in Seq(Addr) /\ Items(adj1) = Items(s_adj) \ gone1
       /\ free1 \in Seq(Addr) /\ NoRepeats(free1)
       /\ Items(free1) = (Items(s_free) \cup {node}) \ gone1
  <2> HIDE DEF free0
  <2>1. CASE N  BY <2>1, <1>2, <1>3, <1>11, RemoveItems, RemoveType
  <2>2. CASE ~N  BY <2>2, <1>2, <1>3, <1>11
  <2>. QED  BY <2>1, <2>2
<1>13. /\ i <= Len(adj1) /\ Len(adj1) \in Nat
       /\ \A j \in 1..i : adj1[j] = s_adj[j]
  <2>1. CASE N
    <3>1. /\ Len(adj1) = Len(s_adj) - 1
          /\ \A j \in 1..(Len(s_adj) - 1) : adj1[j] = IF j < i + 1 THEN s_adj[j] ELSE s_adj[j + 1]
      BY <2>1, <1>2, <1>3, <1>6, ListRemoveAt
    <3>. QED  BY <3>1, <1>6
  <2>2. CASE ~N  BY <2>2, <1>6
  <2>. QED  BY <2>1, <2>2
<1>14. node \notin gone1  BY <1>6, <1>10
<1>15. size1 \in [Addr -> Addr]
  <2>1. GrownSize(i) \in Addr
    <3>1. CASE N
      <4>1. netNodeSize[s_adj[i]] + netNodeSize[s_adj[i + 1]] \in Addr
        BY <1>2, <1>3, <1>6, SumFits
      <4>. QED  BY <3>1, <4>1 DEF GrownSize
    <3>2. CASE ~N
      <4>1. netNodeSize[node] \in Addr /\ netNodeSize[node] \in Nat  BY <1>2, AddrNat
      <4>2. GrownSize(i) = netNodeSize[node]  BY <3>2, <4>1, <1>5 DEF GrownSize
      <4>. QED  BY <4>1, <4>2
    <3>. QED  BY <3>1, <3>2
  <2>2. 0 \in Addr  BY AddrNat, BufferAssumption
  <2>. QED  BY <2>1, <2>2, <1>2
<1>16. Sections(adj1, size1)
  <2>1. CASE N
    <3>1. s_adj[i + 1] \in Addr /\ s_adj[i] \in Addr  BY <1>6, <1>5, <1>7
    <3>2. size1[s_adj[i]] = netNodeSize[s_adj[i]] + netNodeSize[s_adj[i + 1]]
      BY <2>1, <3>1, <1>5, <1>14 DEF GrownSize
    <3>3. \A j \in 1..Len(s_adj) : j \notin {i, i + 1} => size1[s_adj[j]] = netNodeSize[s_adj[j]]
      <4> SUFFICES ASSUME NEW j \in 1..Len(s_adj), j \notin {i, i + 1}
                   PROVE  size1[s_adj[j]] = netNodeSize[s_adj[j]]
        OBVIOUS
      <4>1. s_adj[j] # node /\ s_adj[j] # s_adj[i + 1] /\ s_adj[j] \in Addr
        BY <1>3, <1>6, <1>7, <1>10 DEF NoRepeats
      <4>. QED  BY <4>1
    <3> HIDE DEF size1
    <3>4. Sections(list_remove(s_adj, s_adj[i + 1]), size1)
      BY <3>2, <3>3, <1>2, <1>3, <1>6, <1>15, MergeKeepsSections
    <3>. QED  BY <2>1, <3>4
  <2>2. CASE ~N
    <3>1. netNodeSize[node] \in Nat  BY <1>2, AddrNat
    <3>2. GrownSize(i) = netNodeSize[node]  BY <2>2, <3>1, <1>5 DEF GrownSize
    <3>3. size1 = netNodeSize  BY <2>2, <3>2, <1>2
    <3>. QED  BY <2>2, <3>3, <1>3
  <2>. QED  BY <2>1, <2>2
<1>17. /\ ~isAllocated'[adj1[Len(adj1)]]
       /\ \A j \in 1..(Len(adj1) - 1) :
             j # i - 1 => isAllocated'[adj1[j]] \/ isAllocated'[adj1[j + 1]]
  <2>1. \A j \in 1..Len(s_adj) : j # i => isAllocated'[s_adj[j]] = isAllocated[s_adj[j]]
    BY <1>7, <1>9, <1>10
  <2>2. \A j \in 1..(Len(s_adj) - 1) :
          j \notin {i - 1, i} => isAllocated'[s_adj[j]] \/ isAllocated'[s_adj[j + 1]]
    <3> SUFFICES ASSUME NEW j \in 1..(Len(s_adj) - 1), j \notin {i - 1, i}
                 PROVE  isAllocated'[s_adj[j]] \/ isAllocated'[s_adj[j + 1]]
      OBVIOUS
    <3>1. j \in 1..Len(s_adj) /\ j + 1 \in 1..Len(s_adj) /\ j # i /\ j + 1 # i  BY <1>6
    <3>. QED  BY <3>1, <2>1 DEF Coalesced
  <2>3. ~isAllocated'[s_adj[Len(s_adj)]]
    BY <2>1, <1>5, <1>6, <1>9 DEF EndIsFree
  <2>4. CASE N
    <3>1. ~isAllocated'[s_adj[i]] /\ ~isAllocated'[s_adj[i + 1]]
      BY <2>1, <2>4, <1>5, <1>6, <1>8, <1>9
    <3>2. i - 1 \in Nat /\ i - 1 < i  BY <1>5, <1>6
    <3>3. LET r == list_remove(s_adj, s_adj[i + 1])
          IN  /\ ~isAllocated'[r[Len(r)]]
              /\ \A j \in 1..(Len(r) - 1) :
                   j # i - 1 => isAllocated'[r[j]] \/ isAllocated'[r[j + 1]]
      BY <2>2, <2>3, <3>1, <3>2, <1>2, <1>3, <1>6, <1>9, MergeCoalesces
    <3>. QED  BY <2>4, <3>3
  <2>5. CASE ~N
    <3>1. isAllocated'[s_adj[i + 1]]  BY <2>1, <2>5, <1>6, <1>8
    <3>. QED  BY <2>2, <2>3, <2>5, <3>1
  <2>. QED  BY <2>4, <2>5
<1>18. /\ adj1 = IF N THEN list_remove(s_adj, s_adj[i + 1]) ELSE s_adj
       /\ s_adj' = IF P THEN list_remove(adj1, node) ELSE adj1
       /\ s_free' = IF P THEN list_remove(free1, node) ELSE free1
  BY <1>1, <1>5 DEF Combined
<1>19. ASSUME P
       PROVE  /\ i - 1 \in 1..Len(s_adj) /\ i - 1 \in 1..(Len(adj1) - 1)
              /\ (i - 1) + 1 = i /\ i - 1 # i
              /\ ~isAllocated[s_adj[i - 1]]
              /\ s_adj[i - 1] # node /\ s_adj[i - 1] \notin gone1 /\ s_adj[i - 1] \in Addr
              /\ adj1[i - 1] = s_adj[i - 1] /\ adj1[i] = node
  <2> HIDE DEF adj1
  <2>1. i > 1 /\ ~isAllocated[s_adj[i - 1]]  BY <1>19 DEF PrevIsFree
  <2>2. /\ i - 1 \in 1..Len(s_adj) /\ i - 1 \in 1..(Len(adj1) - 1)
        /\ (i - 1) + 1 = i /\ i - 1 # i /\ i - 1 # i + 1 /\ i - 1 \in 1..i /\ i \in 1..i
    BY <2>1, <1>6, <1>13
  <2>3. s_adj[i - 1] # node /\ s_adj[i - 1] \notin gone1
    BY <2>2, <1>3, <1>6, <1>10 DEF NoRepeats
  <2>. QED  BY <2>1, <2>2, <2>3, <1>5, <1>7, <1>13
<1>20. netNodeSize' =
         [a \in Addr |-> IF P /\ a = s_adj[i - 1] THEN size1[a] + size1[node]
                         ELSE IF a \in gone2 THEN 0 ELSE size1[a]]
  <2>1. size1[node] = GrownSize(i)  BY <1>14
  <2>2. P => size1[s_adj[i - 1]] = netNodeSize[s_adj[i - 1]]  BY <1>19
  <2>3. ASSUME NEW a \in Addr
        PROVE  CombinedSize(i)[a] =
                 IF P /\ a = s_adj[i - 1] THEN size1[a] + size1[node]
                 ELSE IF a \in gone2 THEN 0 ELSE size1[a]
    <3>1. CombinedSize(i)[a] =
            IF N /\ a = s_adj[i + 1] THEN 0
            ELSE IF P /\ a = s_adj[i - 1] THEN netNodeSize[a] + GrownSize(i)
            ELSE IF a = node THEN (IF P THEN 0 ELSE GrownSize(i))
            ELSE netNodeSize[a]
      BY <1>5 DEF CombinedSize
    <3>2. CASE P /\ a = s_adj[i - 1]  BY <3>1, <3>2, <2>1, <2>2, <1>19
    <3>3. CASE ~(P /\ a = s_adj[i - 1])  BY <3>1, <3>3, <1>14
    <3>. QED  BY <3>2, <3>3
  <2>4. CombinedSize(i) = [a \in Addr |-> CombinedSize(i)[a]]  BY DEF CombinedSize
  <2>. QED  BY <2>3, <2>4, <1>1
<1> HIDE DEF size1, adj1, free0, free1, gone1
<1>21. NoRepeats(adj1)  BY <1>12, <1>15, <1>16, SectionsDiffer
<1>22. /\ s_adj' \in Seq(Addr) /\ Items(s_adj') = (Items(s_adj) \ gone1) \ gone2
       /\ s_free' \in Seq(Addr) /\ NoRepeats(s_free')
       /\ Items(s_free') = ((Items(s_free) \cup {node}) \ gone1) \ gone2
  <2>1. CASE P
    <3>1. gone2 = {node}  BY <2>1
    <3>2. /\ list_remove(adj1, node) \in Seq(Addr)
          /\ Items(list_remove(adj1, node)) = Items(adj1) \ {node}
      BY <1>12, <1>21, RemoveItems, RemoveType
    <3>3. /\ list_remove(free1, node) \in Seq(Addr) /\ NoRepeats(list_remove(free1, node))
          /\ Items(list_remove(free1, node)) = Items(free1) \ {node}
      BY <1>12, RemoveItems, RemoveType
    <3>4. s_adj' = list_remove(adj1, node) /\ s_free' = list_remove(free1, node)
      BY <2>1, <1>18
    <3>. QED  BY <3>1, <3>2, <3>3, <3>4, <1>12
  <2>2. CASE ~P  BY <2>2, <1>12, <1>18
  <2>. QED  BY <2>1, <2>2
<1>23. /\ s_alloc' \in Seq(Addr) /\ NoRepeats(s_alloc')
       /\ Items(s_alloc') = Items(s_alloc) \ {node}
  BY <1>1, <1>2, RemoveItems, RemoveType DEF ListsAgree
<1>24. netNodeSize' \in [Addr -> Addr]
  <2>1. P => size1[s_adj[i - 1]] + size1[node] \in Addr
    <3> SUFFICES ASSUME P PROVE size1[s_adj[i - 1]] + size1[node] \in Addr  OBVIOUS
    <3>1. size1[adj1[i - 1]] + size1[adj1[(i - 1) + 1]] \in Addr
      BY <1>12, <1>15, <1>16, <1>19, SumFits
    <3>. QED  BY <3>1, <1>19
  <2>2. 0 \in Addr  BY AddrNat, BufferAssumption
  <2>. QED  BY <2>1, <2>2, <1>15, <1>20
<1>25. TypeOK'
  <2>1. requested' \in [Addr -> Nat]  BY <1>1, <1>2
  <2>. QED  BY <2>1, <1>9, <1>22, <1>23, <1>24 DEF TypeOK
<1>26. Tiling'
  <2>1. Sections(s_adj', netNodeSize')
    <3>1. CASE P
      <4>1. netNodeSize'[adj1[i - 1]] = size1[adj1[i - 1]] + size1[adj1[(i - 1) + 1]]
        BY <3>1, <1>19, <1>20
      <4>2. \A j \in 1..Len(adj1) : j \notin {i - 1, (i - 1) + 1} =>
              netNodeSize'[adj1[j]] = size1[adj1[j]]
        <5> SUFFICES ASSUME NEW j \in 1..Len(adj1), j \notin {i - 1, (i - 1) + 1}
                     PROVE  netNodeSize'[adj1[j]] = size1[adj1[j]]
          OBVIOUS
        <5>1. i \in 1..Len(adj1) /\ i - 1 \in 1..Len(adj1)  BY <3>1, <1>5, <1>13, <1>19
        <5>2. adj1[j] # node /\ adj1[j] # s_adj[i - 1]
          BY <3>1, <5>1, <1>19, <1>21 DEF NoRepeats
        <5>3. adj1[j] \in Addr  BY <1>12
        <5>. QED  BY <5>2, <5>3, <1>20
      <4>3. Sections(list_remove(adj1, adj1[(i - 1) + 1]), netNodeSize')
        BY <3>1, <4>1, <4>2, <1>12, <1>15, <1>16, <1>19, <1>24, MergeKeepsSections
      <4>. QED  BY <3>1, <4>3, <1>18, <1>19
    <3>2. CASE ~P
      <4>1. netNodeSize' = size1  BY <3>2, <1>15, <1>20
      <4>. QED  BY <3>2, <4>1, <1>16, <1>18
    <3>. QED  BY <3>1, <3>2
  <2>. QED  BY <2>1, SectionsOfState
<1>27. \A a \in gone1 : ~isAllocated[a]  BY <1>8 DEF gone1
<1>28. ListsAgree'
  <2>1. Items(s_adj') = Items(s_free') \cup Items(s_alloc')
    <3>1. gone1 \cap Items(s_alloc) = {}  BY <1>27 DEF ListsAgree
    <3>. QED  BY <3>1, <1>1, <1>4, <1>14, <1>22, <1>23 DEF ListsAgree
  <2>2. \A a \in Items(s_free') : ~isAllocated'[a]
    BY <1>7, <1>9, <1>22 DEF ListsAgree
  <2>3. \A a \in Items(s_alloc') : isAllocated'[a]
    BY <1>7, <1>9, <1>23 DEF ListsAgree
  <2>. QED  BY <2>1, <2>2, <2>3, <1>22, <1>23 DEF ListsAgree
<1>29. Coalesced' /\ EndIsFree'
  <2>1. CASE P
    <3>1. ~isAllocated'[adj1[i - 1]] /\ ~isAllocated'[adj1[(i - 1) + 1]]
      BY <2>1, <1>9, <1>19
    <3>2. \A j \in 1..(Len(adj1) - 1) :
            j \notin {i - 1, 0} => isAllocated'[adj1[j]] \/ isAllocated'[adj1[j + 1]]
      BY <1>17
    <3>3. 0 < i - 1  BY <2>1, <1>19
    <3>4. LET r == list_remove(adj1, adj1[(i - 1) + 1])
          IN  /\ ~isAllocated'[r[Len(r)]]
              /\ \A j \in 1..(Len(r) - 1) :
                   j # 0 => isAllocated'[r[j]] \/ isAllocated'[r[j + 1]]
      <4>1. /\ adj1 \in Seq(Addr) /\ NoRepeats(adj1) /\ isAllocated' \in [Addr -> BOOLEAN]
            /\ i - 1 \in 1..(Len(adj1) - 1) /\ ~isAllocated'[adj1[Len(adj1)]]
        BY <2>1, <1>9, <1>12, <1>17, <1>19, <1>21
      <4>2. 0 \in Nat  OBVIOUS
      <4>. QED  BY <3>1, <3>2, <3>3, <4>1, <4>2, MergeCoalesces, Zenon
    <3>5. s_adj' = list_remove(adj1, adj1[(i - 1) + 1])  BY <2>1, <1>18, <1>19
    <3>6. /\ ~isAllocated'[s_adj'[Len(s_adj')]]
          /\ \A j \in 1..(Len(s_adj') - 1) :
               j # 0 => isAllocated'[s_adj'[j]] \/ isAllocated'[s_adj'[j + 1]]
      BY <3>4, <3>5, Zenon
    <3>. QED  BY <3>6 DEF Coalesced, EndIsFree
  <2>2. CASE ~P
    <3>1. ASSUME i - 1 \in 1..(Len(adj1) - 1) PROVE isAllocated'[adj1[i - 1]]
      <4>1. i > 1 /\ i - 1 \in 1..Len(s_adj) /\ i - 1 # i /\ i - 1 \in 1..i  BY <3>1, <1>6
      <4>2. isAllocated[s_adj[i - 1]]  BY <2>2, <4>1 DEF PrevIsFree
      <4>. QED  BY <4>1, <4>2, <1>7, <1>9, <1>10, <1>13
    <3>. QED  BY <2>2, <3>1, <1>17, <1>18 DEF Coalesced, EndIsFree
  <2>. QED  BY <2>1, <2>2
<1>30. LargeEnough'
  <2> SUFFICES ASSUME NEW a \in Items(s_alloc')
               PROVE  netNodeSize'[a] >= requested'[a] + Header
    BY DEF LargeEnough
  <2>1. a \in Items(s_alloc) /\ a # node /\ isAllocated[a] /\ a \in Addr
    BY <1>7, <1>23 DEF ListsAgree
  <2>2. requested'[a] = requested[a]  BY <2>1, <1>1, <1>2
  <2>3. a \notin gone1 /\ ~(P /\ a = s_adj[i - 1]) /\ a \notin gone2
    BY <2>1, <1>19, <1>27
  <2>4. netNodeSize'[a] = netNodeSize[a]  BY <2>1, <2>3, <1>20 DEF size1
  <2>. QED  BY <2>1, <2>2, <2>4 DEF LargeEnough
<1>. QED  BY <1>25, <1>26, <1>28, <1>29, <1>30

\* The invariant holds in every reachable state, for every buffer and header size
\* and every set of requests.
THEOREM Inductive == Spec => []Inv
<1>1. Init => Inv  BY InitInv
<1>2. Inv /\ [Next]_vars => Inv'
  <2> SUFFICES ASSUME Inv, [Next]_vars PROVE Inv'  OBVIOUS
  <2>1. ASSUME NEW bytes \in Requests, kmalloc(bytes) PROVE Inv'  BY <2>1, KmallocInv
  <2>2. ASSUME NEW node \in Addr, kfree(node) PROVE Inv'  BY <2>2, KfreeInv
  <2>3. CASE UNCHANGED vars
    BY <2>3 DEF vars, Inv, TypeOK, Tiling, ListsAgree, Coalesced, EndIsFree, LargeEnough
  <2>. QED  BY <2>1, <2>2, <2>3 DEF Next
<1>. QED  BY <1>1, <1>2, PTL DEF Spec

\* Sizes and addresses never leave the buffer, and headers hold what their types allow.
THEOREM TypeCorrect == Spec => []TypeOK
<1>1. Inv => TypeOK  BY DEF Inv
<1>. QED  BY <1>1, Inductive, PTL

\* A block is never smaller than what its caller asked kmalloc for.
THEOREM BlocksLargeEnough == Spec => []LargeEnough
<1>1. Inv => LargeEnough  BY DEF Inv
<1>. QED  BY <1>1, Inductive, PTL

\* Sections always tile the buffer: s_splitFreeNode and s_combineAdjFreeNodes lose no byte
\* and let no two sections overlap.
THEOREM TilingCorrect == Spec => []Tiling
<1>1. Inv => Tiling  BY DEF Inv
<1>. QED  BY <1>1, Inductive, PTL

\* The free, allocated and adjacent lists of kmalloc.c always agree.
THEOREM ListsCorrect == Spec => []ListsAgree
<1>1. Inv => ListsAgree  BY DEF Inv
<1>. QED  BY <1>1, Inductive, PTL

\* s_combineAdjFreeNodes leaves no two free neighbours, and the last section is free,
\* which is what its comment relies on.
THEOREM MergingCorrect == Spec => [](Coalesced /\ EndIsFree)
<1>1. Inv => Coalesced /\ EndIsFree  BY DEF Inv
<1>. QED  BY <1>1, Inductive, PTL

\* Once every block is freed the whole buffer is one free section again.
THEOREM NothingIsLost == Spec => []NothingLost
<1>1. Inv => NothingLost
  <2> SUFFICES ASSUME Inv, s_alloc = <<>> PROVE s_free = <<0>> /\ netNodeSize[0] = Buffer
    BY DEF NothingLost
  <2>1. /\ s_adj \in Seq(Addr) /\ s_free \in Seq(Addr)
        /\ Len(s_adj) \in Nat /\ Len(s_free) \in Nat
    BY DEF Inv, TypeOK
  <2>2. Items(s_adj) = Items(s_free) /\ \A a \in Items(s_adj) : ~isAllocated[a]
    <3>1. Len(s_alloc) = 0  OBVIOUS
    <3>2. Items(s_alloc) = {}  BY <3>1 DEF Items
    <3>. QED  BY <3>2 DEF Inv, ListsAgree
  <2>3. Len(s_adj) = 1 /\ s_adj[1] = 0
    <3>1. Len(s_adj) > 0 /\ s_adj[1] = 0  BY DEF Inv, Tiling
    <3>2. ASSUME Len(s_adj) > 1 PROVE FALSE
      <4>1. 1 \in 1..(Len(s_adj) - 1) /\ 1 \in 1..Len(s_adj) /\ 1 + 1 \in 1..Len(s_adj)
        BY <3>2, <2>1
      <4>2. ~isAllocated[s_adj[1]] /\ ~isAllocated[s_adj[1 + 1]]  BY <4>1, <2>2 DEF Items
      <4>. QED  BY <4>1, <4>2 DEF Inv, Coalesced
    <3>3. ~(Len(s_adj) > 1)  BY <3>2
    <3>4. \A l \in Nat : l > 0 /\ ~(l > 1) => l = 1  OBVIOUS
    <3>5. Len(s_adj) = 1
      <4> HIDE DEF Inv
      <4>. QED  BY <3>1, <3>3, <3>4, <2>1
    <3>. QED  BY <3>1, <3>5
  <2>4. netNodeSize[0] = Buffer
    <3>1. 0 + netNodeSize[0] = Buffer  BY <2>3 DEF Inv, Tiling
    <3>2. 0 \in Addr  BY AddrNat, BufferAssumption
    <3>3. netNodeSize[0] \in Nat  BY <3>2, AddrNat DEF Inv, TypeOK
    <3>. QED  BY <3>1, <3>3
  <2>5. Items(s_free) = {0}  BY <2>1, <2>2, <2>3 DEF Items
  <2>6. Len(s_free) = 1 /\ s_free[1] = 0
    <3>1. Len(s_free) > 0
      <4>1. PICK j \in 1..Len(s_free) : s_free[j] = 0  BY <2>5 DEF Items
      <4>. QED  BY <4>1, <2>1
    <3>2. \A j \in 1..Len(s_free) : s_free[j] = 0  BY <2>5 DEF Items
    <3>3. \A j \in 1..Len(s_free) : j = 1
      BY <3>1, <3>2, <2>1 DEF Inv, ListsAgree, NoRepeats
    <3>4. Len(s_free) \in 1..Len(s_free) /\ 1 \in 1..Len(s_free)  BY <3>1, <2>1
    <3>. QED  BY <3>2, <3>3, <3>4
  <2>. QED  BY <2>1, <2>4, <2>6
<1>. QED  BY <1>1, Inductive, PTL

\* What is in a list of addresses is an address.
LEMMA ItemsType ==
  ASSUME NEW s \in Seq(Addr)
  PROVE  Items(s) \subseteq Addr
BY DEF Items

\* The blocks that callers hold are exactly the allocated sections, each once.
LEMMA BlocksDiffer ==
  ASSUME Inv, NEW a \in Items(s_alloc), NEW b \in Items(s_alloc),
         <<a + Header, requested[a]>> = <<b + Header, requested[b]>>
  PROVE  a = b
<1>1. a \in Items(s_adj) /\ b \in Items(s_adj)  BY DEF Inv, ListsAgree
<1>2. Items(s_adj) \subseteq Addr  BY ItemsType DEF Inv, TypeOK
<1>3. a \in Nat /\ b \in Nat  BY <1>1, <1>2, AddrNat
<1>. QED  BY <1>3, HeaderAssumption

\* A new block is a block of the abstract heap that overlaps no other.
LEMMA KmallocAllocates ==
  ASSUME Inv, NEW bytes \in Requests, kmalloc(bytes)
  PROVE  H!Allocate(bytes)
<1>1. PICK n \in 1..Len(s_free) :
        /\ Fits(s_free[n], bytes)
        /\ s_splitFreeNode(bytes, s_free[n])
        /\ requested' = [requested EXCEPT ![s_free[n]] = bytes]
  BY DEF kmalloc
<1> DEFINE node == s_free[n]
<1>2. /\ s_adj \in Seq(Addr) /\ s_alloc \in Seq(Addr) /\ netNodeSize \in [Addr -> Addr]
      /\ requested \in [Addr -> Nat]
  BY DEF Inv, TypeOK
<1>3. node \in Items(s_adj) /\ ~isAllocated[node]
  BY DEF Inv, ListsAgree, Items
<1>4. PICK k \in 1..Len(s_adj) : s_adj[k] = node  BY <1>3 DEF Items
<1>5. /\ node \in Addr /\ node \in Nat /\ netNodeSize[node] \in Nat
      /\ bytes \in Nat /\ Header \in Nat /\ Header > 0 /\ Buffer \in Nat
  BY <1>2, <1>4, SectionType, RequestsAssumption, HeaderAssumption, BufferAssumption
<1>6. node + netNodeSize[node] <= Buffer
  <2>1. Sections(s_adj, netNodeSize)  BY SectionsOfState DEF Inv
  <2>. QED  BY <2>1, <1>2, <1>4, SectionEnd
<1>7. netNodeSize[node] >= bytes + Header + Header  BY <1>1, <1>5 DEF Fits, NET_ALLOCATION_SIZE
<1>8. /\ s_alloc' = Append(s_alloc, node)
      /\ requested' = [requested EXCEPT ![node] = bytes]
  BY <1>1 DEF s_splitFreeNode
<1> HIDE DEF node
<1>9. /\ Items(s_alloc') = Items(s_alloc) \cup {node} /\ node \notin Items(s_alloc)
      /\ Items(s_alloc) \subseteq Addr
  <2>1. node \notin Items(s_alloc)  BY <1>3 DEF Inv, ListsAgree
  <2>. QED  BY <2>1, <1>2, <1>5, <1>8, AppendItems, ItemsType
<1>10. /\ requested'[node] = bytes
       /\ \A a \in Items(s_alloc) : requested'[a] = requested[a]
  BY <1>2, <1>5, <1>8, <1>9
<1>11. blocks' = blocks \cup {<<node + Header, bytes>>}
  <2>1. blocks' = {<<a + Header, requested'[a]>> : a \in Items(s_alloc) \cup {node}}
    BY <1>9 DEF blocks
  <2>. QED  BY <2>1, <1>10 DEF blocks
<1>12. ASSUME NEW a \in Items(s_alloc)
       PROVE  H!Apart(node + Header, bytes, <<a + Header, requested[a]>>)
  <2>1. a \in Items(s_adj) /\ a # node /\ netNodeSize[a] >= requested[a] + Header
    BY <1>9 DEF Inv, ListsAgree, LargeEnough
  <2>2. PICK m \in 1..Len(s_adj) : s_adj[m] = a  BY <2>1 DEF Items
  <2>3. a \in Nat /\ netNodeSize[a] \in Nat /\ requested[a] \in Nat
    BY <2>2, <1>2, <1>9, SectionType
  <2>4. a + netNodeSize[a] <= node \/ node + netNodeSize[node] <= a
    <3>1. m # k  BY <2>1, <2>2, <1>4
    <3>2. CASE m < k  BY <3>2, <2>2, <1>4 DEF Inv, Tiling
    <3>3. CASE k < m  BY <3>3, <2>2, <1>4 DEF Inv, Tiling
    <3>. QED  BY <3>1, <3>2, <3>3
  <2>5. node + Header # a + Header  BY <2>1, <2>3, <1>5
  <2>6. \/ (node + Header) + bytes <= a + Header
        \/ (a + Header) + requested[a] <= node + Header
    <3>1. CASE a + netNodeSize[a] <= node
      <4>1. netNodeSize[a] >= requested[a] + Header  BY <2>1
      <4>2. a + (requested[a] + Header) <= node  BY <3>1, <4>1, <2>3, <1>5
      <4>. QED  BY <4>2, <2>3, <1>5
    <3>2. CASE node + netNodeSize[node] <= a  BY <3>2, <2>3, <1>5, <1>7
    <3>. QED  BY <2>4, <3>1, <3>2
  <2>. QED  BY <2>5, <2>6 DEF H!Apart
<1>13. \A b \in blocks : H!Apart(node + Header, bytes, b)  BY <1>12 DEF blocks
<1>14. node + Header \in 0..Buffer /\ (node + Header) + bytes <= Buffer
  BY <1>5, <1>6, <1>7
<1>. QED  BY <1>11, <1>13, <1>14 DEF H!Allocate

\* kfree takes one block from the abstract heap.
LEMMA KfreeReleases ==
  ASSUME Inv, NEW node \in Addr, kfree(node)
  PROVE  \E b \in blocks : H!Release(b)
<1> DEFINE b == <<node + Header, requested[node]>>
<1>1. /\ node \in Items(s_alloc)
      /\ s_alloc' = list_remove(s_alloc, node)
      /\ requested' = [requested EXCEPT ![node] = 0]
  BY DEF kfree
<1>2. s_alloc \in Seq(Addr) /\ requested \in [Addr -> Nat] /\ NoRepeats(s_alloc)
  BY DEF Inv, TypeOK, ListsAgree
<1>3. Items(s_alloc') = Items(s_alloc) \ {node} /\ Items(s_alloc) \subseteq Addr
  BY <1>1, <1>2, RemoveItems, ItemsType
<1>4. \A a \in Items(s_alloc') : requested'[a] = requested[a]  BY <1>1, <1>2, <1>3
<1>5. blocks' = {<<a + Header, requested[a]>> : a \in Items(s_alloc) \ {node}}
  BY <1>3, <1>4 DEF blocks
<1>6. blocks' = blocks \ {b}
  <2>1. blocks' \subseteq blocks  BY <1>5 DEF blocks
  <2>2. b \notin blocks'
    <3> SUFFICES ASSUME NEW a \in Items(s_alloc) \ {node}, b = <<a + Header, requested[a]>>
                 PROVE  FALSE
      BY <1>5
    <3>. QED  BY <1>1, BlocksDiffer
  <2>3. \A c \in blocks : c # b => c \in blocks'  BY <1>5 DEF blocks
  <2>. QED  BY <2>1, <2>2, <2>3
<1>7. b \in blocks  BY <1>1 DEF blocks
<1>. QED  BY <1>6, <1>7 DEF H!Release

\* kmalloc and kfree implement the abstract heap: blocks lie in the buffer, are
\* apart, and stay until they are freed.
THEOREM ImplementsHeap == Spec => HeapSpec
<1>1. Init => H!Init  BY DEF Init, H!Init, blocks, Items
<1>2. Inv /\ [Next]_vars => [H!Next]_blocks
  <2> SUFFICES ASSUME Inv, [Next]_vars PROVE [H!Next]_blocks  OBVIOUS
  <2>1. ASSUME NEW bytes \in Requests, kmalloc(bytes) PROVE H!Next
    BY <2>1, KmallocAllocates DEF H!Next
  <2>2. ASSUME NEW node \in Addr, kfree(node) PROVE H!Next
    BY <2>2, KfreeReleases DEF H!Next
  <2>3. CASE UNCHANGED vars  BY <2>3 DEF vars, blocks
  <2>. QED  BY <2>1, <2>2, <2>3 DEF Next
<1>. QED  BY <1>1, <1>2, Inductive, PTL DEF Spec, HeapSpec, H!Spec

\* After every kmalloc and kfree the sections, the lists and the sizes are in order.
THEOREM SectionsCorrect == Spec => []SectionsOK
<1>1. Inv => SectionsOK  BY DEF Inv, SectionsOK
<1>. QED  BY <1>1, Inductive, PTL

\* Whatever cm_malloc and cm_free do to the heap of an application, the kernel's heap
\* could have done; a panic leaves it as it is.
THEOREM SameAlgorithm == HeapsSpec => Spec
<1>1. HeapInit => Init  BY DEF HeapInit
<1>2. [HeapNext]_heapVars => [Next]_vars
  <2> SUFFICES ASSUME [HeapNext]_heapVars PROVE [Next]_vars  OBVIOUS
  <2>1. CASE program = "kernel" /\ Next  BY <2>1
  <2>2. ASSUME NEW bytes \in Requests, cm_malloc(bytes) PROVE Next
    BY <2>2 DEF cm_malloc, SplitFirst, Next
  <2>3. ASSUME NEW node \in Addr, cm_free(node) PROVE Next
    BY <2>3 DEF cm_free, Next
  <2>4. CASE cm_free_panics  BY <2>4 DEF cm_free_panics
  <2>5. CASE UNCHANGED heapVars  BY <2>5 DEF heapVars
  <2>. QED  BY <2>1, <2>2, <2>3, <2>4, <2>5 DEF HeapNext
<1>. QED  BY <1>1, <1>2, PTL DEF HeapsSpec, Spec

\* So the heap of an application is in order too, and keeps what a heap promises.
THEOREM ApplicationHeap == HeapsSpec => []SectionsOK /\ HeapSpec
BY SameAlgorithm, SectionsCorrect, ImplementsHeap, PTL

=============================================================================
