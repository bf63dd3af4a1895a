----------------------------- MODULE VmmProofs -----------------------------
(***************************************************************************)
(* The address space of a process, for every range, every size of the      *)
(* sections, every number of page frames and any set of threads.           *)
(***************************************************************************)
EXTENDS Vmm, ListProofs

-----------------------------------------------------------------------------
(* The sorted list *)

VASs == [start : Nat, size : Nat, flags : Flags]

\* Sorted, for any list.
Tidy(list) ==
  /\ list \in Seq(VASs)
  /\ \A v \in Items(list) : v.size > 0 /\ v.start >= Start /\ NextOf(v) <= End
  /\ \A i, j \in 1..Len(list) : i < j => NextOf(list[i]) <= list[j].start

\* Pages s..s+n-1 are in no VAS of the list.
Apart(list, s, n) == \A v \in Items(list) : NextOf(v) <= s \/ s + n <= v.start

\* What is known of the members of a list.
LEMMA TidyItem ==
  ASSUME NEW list, Tidy(list), NEW i \in 1..Len(list)
  PROVE  /\ list[i] \in Items(list) /\ list[i] \in VASs
         /\ list[i].start \in Nat /\ list[i].size \in Nat /\ list[i].flags \in Flags
         /\ list[i].size > 0 /\ list[i].start >= Start
         /\ NextOf(list[i]) \in Nat /\ NextOf(list[i]) = list[i].start + list[i].size
         /\ NextOf(list[i]) > list[i].start /\ NextOf(list[i]) <= End
         /\ Len(list) \in Nat
<1>1. list[i] \in Items(list)  BY DEF Items
<1>2. list[i] \in VASs /\ Len(list) \in Nat  BY DEF Tidy
<1>3. list[i].start \in Nat /\ list[i].size \in Nat /\ list[i].flags \in Flags  BY <1>2 DEF VASs
<1>4. list[i].size > 0 /\ list[i].start >= Start /\ NextOf(list[i]) <= End  BY <1>1 DEF Tidy
<1>. QED  BY <1>1, <1>2, <1>3, <1>4 DEF NextOf

\* No VAS is in the list twice.
LEMMA TidyNoRepeats ==
  ASSUME NEW list, Tidy(list)
  PROVE  NoRepeats(list)
<1> SUFFICES ASSUME NEW i \in 1..Len(list), NEW j \in 1..Len(list), list[i] = list[j], i < j PROVE FALSE
  BY DEF NoRepeats, Tidy
<1>1. NextOf(list[i]) <= list[j].start  BY DEF Tidy
<1>. QED  BY <1>1, TidyItem

\* Two VASs of the list have no page in common.
LEMMA TidyApart ==
  ASSUME NEW list, Tidy(list), NEW u \in Items(list), NEW v \in Items(list), u # v
  PROVE  NextOf(u) <= v.start \/ NextOf(v) <= u.start
<1>1. PICK i \in 1..Len(list) : u = list[i]  BY DEF Items
<1>2. PICK j \in 1..Len(list) : v = list[j]  BY DEF Items
<1>3. Len(list) \in Nat  BY DEF Tidy
<1>4. i < j \/ j < i  BY <1>1, <1>2, <1>3
<1>. QED  BY <1>1, <1>2, <1>4 DEF Tidy

\* What is known of a VAS of the list.
LEMMA TidyVas ==
  ASSUME NEW list, Tidy(list), NEW v \in Items(list)
  PROVE  /\ v \in VASs /\ v.start \in Nat /\ v.size \in Nat /\ v.flags \in Flags
         /\ v.size > 0 /\ v.start >= Start /\ NextOf(v) = v.start + v.size /\ NextOf(v) <= End
         /\ v # NONE
<1>1. PICK i \in 1..Len(list) : v = list[i]  BY DEF Items
<1>2. /\ v \in VASs /\ v.start \in Nat /\ v.size \in Nat /\ v.flags \in Flags
      /\ v.size > 0 /\ v.start >= Start /\ NextOf(v) = v.start + v.size /\ NextOf(v) <= End
  BY <1>1, TidyItem
<1>3. v # NONE  BY <1>2, NamesAssumption DEF VASs
<1>. QED  BY <1>2, <1>3

\* addNewVirtualAddressSpace puts a VAS that overlaps no other where it belongs.
LEMMA InsertTidy ==
  ASSUME NEW list, Tidy(list), NEW new \in VASs, new.size > 0, new.start >= Start, NextOf(new) <= End,
         Apart(list, new.start, new.size)
  PROVE  /\ CanAdd(list, new)
         /\ Tidy(addNewVirtualAddressSpace(list, new))
         /\ Items(addNewVirtualAddressSpace(list, new)) = Items(list) \cup {new}
<1> DEFINE at == PlaceOf(list, new)
           r == Inserted(list, new)
<1>1. new.start \in Nat /\ new.size \in Nat /\ NextOf(new) = new.start + new.size /\ Len(list) \in Nat
  BY DEF VASs, NextOf, Tidy
<1>2. /\ at \in 1..(Len(list) + 1)
      /\ at <= Len(list) => list[at].start > new.start
      /\ \A i \in 1..Len(list) : i < at => ~(list[i].start > new.start)
  <2> DEFINE behind == {i \in 1..Len(list) : list[i].start > new.start}
  <2>1. CASE behind = {}
    <3>1. at = Len(list) + 1  BY <2>1 DEF PlaceOf
    <3>. QED  BY <1>1, <2>1, <3>1
  <2>2. CASE behind # {}
    <3>1. behind \subseteq Nat  OBVIOUS
    <3>2. \E i \in behind : \A j \in behind : i <= j
      <4> HIDE DEF behind
      <4>. QED  BY <2>2, <3>1, LeastNumber
    <3>3. at \in behind /\ \A j \in behind : at <= j  BY <2>2, <3>2 DEF PlaceOf
    <3> HIDE DEF at
    <3>. QED  BY <1>1, <3>3
  <2>. QED  BY <2>1, <2>2
<1>3. r = [i \in 1..(Len(list) + 1) |-> IF i < at THEN list[i] ELSE IF i = at THEN new ELSE list[i - 1]]
  BY DEF Inserted
<1> HIDE DEF at
<1>4. ASSUME NEW i \in 1..Len(list), i < at PROVE NextOf(list[i]) <= new.start
  <2>1. ~(list[i].start > new.start)  BY <1>2, <1>4
  <2>2. NextOf(list[i]) <= new.start \/ new.start + new.size <= list[i].start
    BY TidyItem DEF Apart
  <2>. QED  BY <1>1, <2>1, <2>2, TidyItem
<1>5. ASSUME NEW i \in 1..Len(list), i >= at PROVE NextOf(new) <= list[i].start
  <2>1. list[i].start > new.start
    <3>1. at \in 1..Len(list) /\ list[at].start > new.start  BY <1>1, <1>2, <1>5
    <3>2. CASE i = at  BY <3>1, <3>2
    <3>3. CASE i # at
      <4>1. at < i  BY <1>5, <3>1, <3>3
      <4>2. NextOf(list[at]) <= list[i].start  BY <3>1, <4>1 DEF Tidy
      <4>3. list[at].start \in Nat /\ NextOf(list[at]) \in Nat /\ NextOf(list[at]) > list[at].start
        BY <3>1, TidyItem
      <4>4. list[i].start \in Nat  BY TidyItem
      <4>. QED  BY <1>1, <3>1, <4>2, <4>3, <4>4
    <3>. QED  BY <3>2, <3>3
  <2>2. NextOf(list[i]) <= new.start \/ new.start + new.size <= list[i].start
    BY TidyItem DEF Apart
  <2>. QED  BY <1>1, <2>1, <2>2, TidyItem
<1>6. CanAdd(list, new)
  <2>1. ASSUME NEW i \in 1..Len(list) PROVE ~Overlaps(new, list[i])
    <3>1. NextOf(list[i]) <= new.start \/ new.start + new.size <= list[i].start
      BY TidyItem DEF Apart
    <3>2. list[i].start \in Nat /\ list[i].size \in Nat /\ NextOf(list[i]) = list[i].start + list[i].size
      BY TidyItem
    <3>3. /\ LastOf(list[i]) = list[i].start + list[i].size - 1
          /\ LastOf(new) = new.start + new.size - 1
      BY DEF LastOf
    <3>4. ~(new.start >= list[i].start /\ new.start <= LastOf(list[i]))  BY <1>1, <3>1, <3>2, <3>3
    <3>5. ~(LastOf(new) >= list[i].start /\ LastOf(new) <= LastOf(list[i]))  BY <1>1, <3>1, <3>2, <3>3
    <3>. QED  BY <3>4, <3>5 DEF Overlaps
  <2>. QED  BY <2>1 DEF CanAdd
<1>7. \A i \in 1..Len(list) : list[i] \in VASs  BY TidyItem
<1>8. \A i \in 1..(Len(list) + 1) : r[i] \in VASs  BY <1>1, <1>2, <1>3, <1>7
<1>9. r \in Seq(VASs) /\ Len(r) = Len(list) + 1  BY <1>1, <1>3, <1>8
<1>10. \A i \in 1..Len(r) : r[i] = IF i < at THEN list[i] ELSE IF i = at THEN new ELSE list[i - 1]
  BY <1>3, <1>9
<1> HIDE DEF r
<1>11. Items(r) \subseteq Items(list) \cup {new}
  <2> SUFFICES ASSUME NEW i \in 1..Len(r) PROVE r[i] \in Items(list) \cup {new}  BY DEF Items
  <2>1. CASE i < at
    <3>1. i \in 1..Len(list) /\ r[i] = list[i]  BY <1>1, <1>2, <1>9, <1>10, <2>1
    <3>. QED  BY <3>1 DEF Items
  <2>2. CASE i = at  BY <1>10, <2>2
  <2>3. CASE i > at
    <3>1. i - 1 \in 1..Len(list) /\ r[i] = list[i - 1]  BY <1>1, <1>2, <1>9, <1>10, <2>3
    <3>. QED  BY <3>1 DEF Items
  <2>. QED  BY <1>1, <1>2, <1>9, <2>1, <2>2, <2>3
<1>12. Items(list) \cup {new} \subseteq Items(r)
  <2>1. at \in 1..Len(r) /\ r[at] = new  BY <1>1, <1>2, <1>9, <1>10
  <2>2. ASSUME NEW i \in 1..Len(list) PROVE list[i] \in Items(r)
    <3>1. CASE i < at
      <4>1. i \in 1..Len(r) /\ r[i] = list[i]  BY <1>1, <1>9, <1>10, <3>1
      <4>. QED  BY <4>1 DEF Items
    <3>2. CASE ~(i < at)
      <4>1. i + 1 \in 1..Len(r) /\ ~(i + 1 < at) /\ i + 1 # at /\ (i + 1) - 1 = i  BY <1>1, <1>2, <1>9, <3>2
      <4>2. r[i + 1] = list[i]  BY <1>10, <4>1
      <4>. QED  BY <4>1, <4>2 DEF Items
    <3>. QED  BY <3>1, <3>2
  <2>. QED  BY <2>1, <2>2 DEF Items
<1>13. ASSUME NEW i \in 1..Len(r), NEW j \in 1..Len(r), i < j PROVE NextOf(r[i]) <= r[j].start
  <2>1. CASE j < at
    <3>1. i \in 1..Len(list) /\ j \in 1..Len(list) /\ i < at  BY <1>1, <1>2, <1>9, <1>13, <2>1
    <3>2. r[i] = list[i] /\ r[j] = list[j]  BY <1>10, <2>1, <3>1
    <3>. QED  BY <1>13, <3>1, <3>2 DEF Tidy
  <2>2. CASE j = at
    <3>1. i \in 1..Len(list) /\ i < at  BY <1>1, <1>2, <1>9, <1>13, <2>2
    <3>2. r[i] = list[i] /\ r[j] = new  BY <1>1, <1>2, <1>10, <2>2, <3>1
    <3>. QED  BY <1>4, <3>1, <3>2
  <2>3. CASE j > at
    <3>1. j - 1 \in 1..Len(list) /\ j - 1 >= at /\ r[j] = list[j - 1]  BY <1>1, <1>2, <1>9, <1>10, <2>3
    <3>2. CASE i < at
      <4>1. i \in 1..Len(list) /\ i < j - 1 /\ r[i] = list[i]  BY <1>1, <1>2, <1>9, <1>10, <2>3, <3>2
      <4>. QED  BY <3>1, <4>1 DEF Tidy
    <3>3. CASE i = at
      <4>1. r[i] = new  BY <1>1, <1>2, <1>10, <3>3
      <4>. QED  BY <1>5, <3>1, <4>1
    <3>4. CASE i > at
      <4>1. i - 1 \in 1..Len(list) /\ i - 1 < j - 1 /\ r[i] = list[i - 1]
        BY <1>1, <1>2, <1>9, <1>10, <1>13, <3>4
      <4>. QED  BY <3>1, <4>1 DEF Tidy
    <3>. QED  BY <1>1, <1>2, <1>9, <3>2, <3>3, <3>4
  <2>. QED  BY <1>1, <1>2, <1>9, <2>1, <2>2, <2>3
<1>14. \A v \in Items(r) : v.size > 0 /\ v.start >= Start /\ NextOf(v) <= End
  BY <1>11 DEF Tidy
<1>15. Tidy(r)  BY <1>9, <1>13, <1>14 DEF Tidy
<1>. QED  BY <1>6, <1>11, <1>12, <1>15 DEF addNewVirtualAddressSpace, r

\* find_next_va finds pages that are in no VAS of a list that has some.
LEMMA GapInList ==
  ASSUME NEW list, Tidy(list), list # <<>>, NEW n \in Nat, n > 0, find_next_va(list, n) # 0
  PROVE  /\ find_next_va(list, n) \in Nat /\ find_next_va(list, n) >= Start
         /\ find_next_va(list, n) + n <= End
         /\ Apart(list, find_next_va(list, n), n)
<1> DEFINE va == find_next_va(list, n)
           first(i) == IF i = 1 THEN Start ELSE NextOf(list[i - 1])
           fitting == {i \in 1..Len(list) : list[i].start - first(i) >= n}
<1>0. Start \in Nat /\ End \in Nat /\ Len(list) \in Nat /\ Len(list) > 0
  BY RangeAssumption DEF Tidy
<1>1. va = IF fitting # {} THEN first(CHOOSE i \in fitting : \A j \in fitting : i <= j)
           ELSE IF End - NextOf(list[Len(list)]) >= n THEN NextOf(list[Len(list)])
           ELSE 0
  BY DEF find_next_va
<1>2. ASSUME NEW i \in 1..Len(list), NEW j \in 1..Len(list), j <= i PROVE NextOf(list[j]) <= NextOf(list[i])
  <2>1. CASE j = i  BY <2>1, TidyItem
  <2>2. CASE j < i
    <3>1. NextOf(list[j]) <= list[i].start  BY <2>2 DEF Tidy
    <3>. QED  BY <3>1, TidyItem
  <2>. QED  BY <1>2, <2>1, <2>2
<1>3. CASE fitting # {}
  <2>1. fitting \subseteq Nat  BY <1>0
  <2>2. \E i \in fitting : \A j \in fitting : i <= j
    <3> HIDE DEF fitting
    <3>. QED  BY <1>3, <2>1, LeastNumber
  <2> DEFINE k == CHOOSE i \in fitting : \A j \in fitting : i <= j
  <2>3. k \in fitting  BY <2>2
  <2>4. va = first(k)  BY <1>1, <1>3
  <2> HIDE DEF k, va
  <2>5. k \in 1..Len(list) /\ list[k].start - first(k) >= n  BY <2>3
  <2>6. first(k) \in Nat /\ first(k) >= Start
    <3>1. CASE k = 1  BY <1>0, <3>1
    <3>2. CASE k # 1
      <4>1. k - 1 \in 1..Len(list)  BY <1>0, <2>5, <3>2
      <4>. QED  BY <1>0, <3>2, <4>1, TidyItem
    <3>. QED  BY <3>1, <3>2
  <2>7. va + n <= list[k].start  BY <2>4, <2>5, <2>6, TidyItem
  <2>8. va + n <= End
    <3>1. list[k].start \in Nat /\ NextOf(list[k]) \in Nat /\ NextOf(list[k]) > list[k].start
          /\ NextOf(list[k]) <= End
      BY <2>5, TidyItem
    <3>. QED  BY <1>0, <2>4, <2>6, <2>7, <3>1
  <2>9. ASSUME NEW j \in 1..Len(list) PROVE NextOf(list[j]) <= va \/ va + n <= list[j].start
    <3>1. CASE j < k
      <4>1. k # 1 /\ k - 1 \in 1..Len(list) /\ j <= k - 1  BY <1>0, <2>5, <3>1
      <4>2. va = NextOf(list[k - 1])  BY <2>4, <4>1
      <4>. QED  BY <1>2, <4>1, <4>2
    <3>2. CASE j = k  BY <2>7, <3>2
    <3>3. CASE j > k
      <4>1. NextOf(list[k]) <= list[j].start  BY <2>5, <3>3 DEF Tidy
      <4>2. list[k].start \in Nat /\ NextOf(list[k]) \in Nat /\ NextOf(list[k]) > list[k].start
        BY <2>5, TidyItem
      <4>3. list[j].start \in Nat  BY TidyItem
      <4>. QED  BY <2>4, <2>6, <2>7, <4>1, <4>2, <4>3
    <3>. QED  BY <1>0, <2>5, <3>1, <3>2, <3>3
  <2>10. Apart(list, va, n)  BY <2>9 DEF Apart, Items
  <2>. QED  BY <2>4, <2>6, <2>8, <2>10 DEF va
<1>4. CASE fitting = {}
  <2> DEFINE l == Len(list)
  <2>1. va = NextOf(list[l]) /\ End - NextOf(list[l]) >= n  BY <1>1, <1>4
  <2> HIDE DEF va, fitting
  <2>2. l \in 1..Len(list)  BY <1>0
  <2>3. NextOf(list[l]) \in Nat /\ list[l].start \in Nat /\ list[l].start >= Start
        /\ NextOf(list[l]) > list[l].start
    BY <2>2, TidyItem
  <2>4. va \in Nat /\ va >= Start /\ va + n <= End  BY <1>0, <2>1, <2>3
  <2>5. ASSUME NEW j \in 1..Len(list) PROVE NextOf(list[j]) <= va
    <3>1. j <= l  BY <1>0
    <3>. QED  BY <1>2, <2>1, <2>2, <3>1
  <2>6. Apart(list, va, n)  BY <2>5 DEF Apart, Items
  <2>. QED  BY <2>4, <2>6 DEF va
<1>. QED  BY <1>3, <1>4

\* The same for any list: an empty one is taken to have room.
LEMMA GapFound ==
  ASSUME NEW list, Tidy(list), NEW n \in Nat, n > 0, find_next_va(list, n) # 0,
         list = <<>> => Start + n <= End
  PROVE  /\ find_next_va(list, n) \in Nat /\ find_next_va(list, n) >= Start
         /\ find_next_va(list, n) + n <= End
         /\ Apart(list, find_next_va(list, n), n)
<1>1. CASE list # <<>>  BY <1>1, GapInList
<1>2. CASE list = <<>>
  <2>1. find_next_va(list, n) = Start  BY <1>2 DEF find_next_va
  <2>2. Apart(list, Start, n)  BY <1>2 DEF Apart, Items
  <2>. QED  BY <1>2, <2>1, <2>2, RangeAssumption
<1>. QED  BY <1>1, <1>2

\* find_vas finds the VAS that a page is in.
LEMMA FindVas ==
  ASSUME NEW list, Tidy(list), NEW v \in Items(list), NEW p \in Nat, v.start <= p, p < NextOf(v)
  PROVE  find_vas(list, p) = v
<1> DEFINE hits == {i \in 1..Len(list) : p >= list[i].start /\ p < NextOf(list[i])}
<1>1. PICK k \in 1..Len(list) : v = list[k]  BY DEF Items
<1>2. k \in hits  BY <1>1, TidyItem
<1>3. ASSUME NEW i \in hits PROVE i = k
  <2>1. i \in 1..Len(list) /\ p >= list[i].start /\ p < NextOf(list[i])  BY <1>3
  <2>2. list[i] = list[k]
    <3> SUFFICES ASSUME list[i] # list[k] PROVE FALSE  OBVIOUS
    <3>1. NextOf(list[i]) <= list[k].start \/ NextOf(list[k]) <= list[i].start
      BY <2>1, TidyItem, TidyApart
    <3>. QED  BY <1>1, <2>1, <3>1, TidyItem
  <2>. QED  BY <2>1, <2>2, TidyNoRepeats DEF NoRepeats
<1>4. hits = {k}  BY <1>2, <1>3
<1>5. find_vas(list, p) = list[CHOOSE i \in hits : \A j \in hits : i <= j]
  BY <1>2 DEF find_vas
<1> HIDE DEF hits
<1>6. (CHOOSE i \in hits : \A j \in hits : i <= j) = k  BY <1>4
<1>. QED  BY <1>1, <1>5, <1>6

\* What find_vas finds is a VAS that the page is in.
LEMMA FoundVas ==
  ASSUME NEW list, Tidy(list), NEW p \in Nat, find_vas(list, p) # NONE
  PROVE  /\ find_vas(list, p) \in Items(list)
         /\ find_vas(list, p).start <= p /\ p < NextOf(find_vas(list, p))
<1> DEFINE hits == {i \in 1..Len(list) : p >= list[i].start /\ p < NextOf(list[i])}
<1>1. hits # {}  BY DEF find_vas
<1>2. PICK k \in 1..Len(list) : p >= list[k].start /\ p < NextOf(list[k])  BY <1>1
<1>3. list[k].start <= p /\ p < NextOf(list[k]) /\ list[k] \in Items(list)  BY <1>2, TidyItem
<1>4. find_vas(list, p) = list[k]  BY <1>3, FindVas
<1>. QED  BY <1>3, <1>4

\* kvmm_free unlinks one VAS.
LEMMA RemoveTidy ==
  ASSUME NEW list, Tidy(list), NEW v \in Items(list)
  PROVE  Tidy(list_remove(list, v)) /\ Items(list_remove(list, v)) = Items(list) \ {v}
<1>1. PICK k \in 1..Len(list) : v = list[k]  BY DEF Items
<1>2. NoRepeats(list) /\ list \in Seq(VASs) /\ Len(list) \in Nat  BY TidyNoRepeats DEF Tidy
<1> DEFINE r == list_remove(list, v)
<1>3. /\ r \in Seq(VASs) /\ Len(r) = Len(list) - 1
      /\ \A i \in 1..(Len(list) - 1) : r[i] = IF i < k THEN list[i] ELSE list[i + 1]
  BY <1>1, <1>2, ListRemoveAt
<1>4. Items(r) = Items(list) \ {v}  BY <1>2, RemoveItems
<1> HIDE DEF r
<1>5. ASSUME NEW i \in 1..Len(r), NEW j \in 1..Len(r), i < j PROVE NextOf(r[i]) <= r[j].start
  <2> DEFINE from(m) == IF m < k THEN m ELSE m + 1
  <2>1. r[i] = list[from(i)] /\ r[j] = list[from(j)]  BY <1>3
  <2>2. from(i) \in 1..Len(list) /\ from(j) \in 1..Len(list) /\ from(i) < from(j)
    BY <1>2, <1>3, <1>5
  <2> HIDE DEF from
  <2>. QED  BY <2>1, <2>2 DEF Tidy
<1>6. \A u \in Items(r) : u.size > 0 /\ u.start >= Start /\ NextOf(u) <= End  BY <1>4 DEF Tidy
<1>7. Tidy(r)  BY <1>3, <1>5, <1>6 DEF Tidy
<1>. QED  BY <1>4, <1>7 DEF r

-----------------------------------------------------------------------------
(* Page frames *)

\* FramesOwned frame by frame: no frame has two uses, every frame has one.
Owned ==
  /\ \A p, q \in Pages : pte[p] # NONE /\ pte[p] = pte[q] => p = q
  /\ \A p \in Pages : pte[p] # NONE => pte[p] \notin free /\ pte[p] \notin tableFrames
  /\ \A f \in free : f \notin tableFrames
  /\ \A f \in Frames : f \in free \/ f \in tableFrames \/ \E p \in Pages : pte[p] = f

\* A page is backed only while it is reserved.
Backed ==
  \A p \in Pages : pte[p] # NONE =>
    /\ TableOf(p) \in tables
    /\ \E v \in Items(vass) : v.start <= p /\ p < NextOf(v) /\ v.flags # "NULLPAGE"

FrameTypes ==
  /\ pte \in [Pages -> Frames \cup {NONE}]
  /\ tableFrames \subseteq Frames /\ free \subseteq Frames

\* Pages and frames are numbers, and NONE is no frame.
LEMMA Numbers ==
  /\ Start \in Nat /\ End \in Nat /\ TEXT \in Nat /\ 0 < Start /\ Start <= TEXT /\ TEXT + BIN <= End
  /\ BIN \in Nat /\ BIN > 0 /\ STACK \in Nat /\ STACK > 0 /\ DATA \in Nat /\ DATA > 0
  /\ WINDOW \in Nat /\ WINDOW > 0
  /\ Pages \subseteq Nat /\ Frames \subseteq Nat /\ NONE \notin Frames /\ 0 \notin Pages
<1>1. BIN \in Nat /\ BIN > 0 /\ STACK \in Nat /\ STACK > 0 /\ DATA \in Nat /\ DATA > 0
      /\ WINDOW \in Nat /\ WINDOW > 0
  BY SizesAssumption
<1>2. Pages \subseteq Nat /\ Frames \subseteq Nat /\ 0 \notin Pages
  BY RangeAssumption, FramesAssumption DEF Pages, Frames
<1>. QED  BY <1>1, <1>2, RangeAssumption, NamesAssumption

\* kpmm_alloc hands out a run of free frames.
LEMMA AllocRun ==
  ASSUME NEW n, FreeRuns(n) # {}
  PROVE  kpmm_alloc(n) \in Nat /\ Run(kpmm_alloc(n), n) \subseteq free
<1>1. FreeRuns(n) \subseteq Nat  BY Numbers DEF FreeRuns
<1>2. \E f \in FreeRuns(n) : \A g \in FreeRuns(n) : f <= g  BY <1>1, LeastNumber
<1>3. kpmm_alloc(n) \in FreeRuns(n)  BY <1>2 DEF kpmm_alloc
<1>. QED  BY <1>1, <1>3 DEF FreeRuns

\* commitVirtualPages gives pages that have no frame one frame each.
LEMMA Commit ==
  ASSUME FrameTypes, Owned, NEW s \in Nat, NEW n \in Nat, Run(s, n) \subseteq Pages,
         \A p \in Run(s, n) : pte[p] = NONE, FreeRuns(n) # {}, commitVirtualPages(s, n)
  PROVE  /\ FrameTypes' /\ Owned'
         /\ \A p \in Pages : pte'[p] # NONE <=> pte[p] # NONE \/ p \in Run(s, n)
         /\ tables' = tables \cup {TableOf(p) : p \in Run(s, n)}
<1> DEFINE f == kpmm_alloc(n)
           forPT == FramesForTables(s, n)
<1>1. f \in Nat /\ Run(f, n) \subseteq free  BY AllocRun
<1>2. forPT \subseteq free \ Run(f, n)  BY DEF FramesForTables, Lowest
<1>3. /\ pte' = [p \in Pages |-> IF p \in Run(s, n) THEN f + (p - s) ELSE pte[p]]
      /\ tables' = tables \cup NewTables(s, n)
      /\ tableFrames' = tableFrames \cup forPT
      /\ free' = (free \ Run(f, n)) \ forPT
  BY DEF commitVirtualPages
<1> HIDE DEF f, forPT
<1>4. \A p \in Run(s, n) : f + (p - s) \in Run(f, n)  BY <1>1 DEF Run
<1>5. \A g \in Run(f, n) : s + (g - f) \in Run(s, n) /\ f + ((s + (g - f)) - s) = g  BY <1>1 DEF Run
<1>6. \A p, q \in Run(s, n) : f + (p - s) = f + (q - s) => p = q  BY <1>1 DEF Run
<1>7. FrameTypes'
  <2>1. \A p \in Pages : pte'[p] \in Frames \cup {NONE}  BY <1>1, <1>3, <1>4 DEF FrameTypes
  <2>2. pte' \in [Pages -> Frames \cup {NONE}]  BY <1>3, <2>1
  <2>3. tableFrames' \subseteq Frames /\ free' \subseteq Frames  BY <1>2, <1>3 DEF FrameTypes
  <2>. QED  BY <2>2, <2>3 DEF FrameTypes
<1>8. \A p \in Pages : pte'[p] = IF p \in Run(s, n) THEN f + (p - s) ELSE pte[p]  BY <1>3
<1>9. NONE \notin Run(f, n)  BY <1>1, Numbers DEF FrameTypes
<1>10. \A p \in Pages : pte'[p] # NONE <=> pte[p] # NONE \/ p \in Run(s, n)
  BY <1>4, <1>8, <1>9
<1>11. ASSUME NEW p \in Pages, NEW q \in Pages, pte'[p] # NONE, pte'[p] = pte'[q] PROVE p = q
  <2>1. CASE p \in Run(s, n) /\ q \in Run(s, n)  BY <1>6, <1>8, <1>11, <2>1
  <2>2. CASE p \notin Run(s, n) /\ q \notin Run(s, n)  BY <1>8, <1>11, <2>2 DEF Owned
  <2>3. CASE p \in Run(s, n) /\ q \notin Run(s, n)
    <3>1. pte'[p] \in free /\ pte'[q] = pte[q]  BY <1>1, <1>4, <1>8, <2>3
    <3>. QED  BY <1>11, <3>1 DEF Owned
  <2>4. CASE p \notin Run(s, n) /\ q \in Run(s, n)
    <3>1. pte'[q] \in free /\ pte'[p] = pte[p]  BY <1>1, <1>4, <1>8, <2>4
    <3>. QED  BY <1>11, <3>1 DEF Owned
  <2>. QED  BY <2>1, <2>2, <2>3, <2>4
<1>12. ASSUME NEW p \in Pages, pte'[p] # NONE PROVE pte'[p] \notin free' /\ pte'[p] \notin tableFrames'
  <2>1. CASE p \in Run(s, n)
    <3>1. pte'[p] \in Run(f, n) /\ pte'[p] \in free  BY <1>1, <1>4, <1>8, <2>1
    <3>. QED  BY <1>2, <1>3, <3>1 DEF Owned
  <2>2. CASE p \notin Run(s, n)
    <3>1. pte'[p] = pte[p]  BY <1>8, <2>2
    <3>2. pte[p] \notin free /\ pte[p] \notin tableFrames  BY <1>12, <3>1 DEF Owned
    <3>. QED  BY <1>2, <1>3, <3>1, <3>2
  <2>. QED  BY <2>1, <2>2
<1>13. \A g \in free' : g \notin tableFrames'  BY <1>3 DEF Owned
<1>14. ASSUME NEW g \in Frames PROVE g \in free' \/ g \in tableFrames' \/ \E p \in Pages : pte'[p] = g
  <2>1. CASE g \in Run(f, n)
    <3>1. s + (g - f) \in Run(s, n) /\ pte'[s + (g - f)] = g  BY <1>5, <1>8, <2>1
    <3>. QED  BY <3>1
  <2>2. CASE g \notin Run(f, n) /\ g \in free  BY <1>3, <2>2
  <2>3. CASE g \in tableFrames  BY <1>3, <2>3
  <2>4. ASSUME NEW p \in Pages, pte[p] = g PROVE pte'[p] = g
    <3>1. g # NONE  BY Numbers
    <3>. QED  BY <1>8, <2>4, <3>1
  <2>. QED  BY <2>1, <2>2, <2>3, <2>4 DEF Owned
<1>15. Owned'  BY <1>11, <1>12, <1>13, <1>14 DEF Owned
<1>16. tables' = tables \cup {TableOf(p) : p \in Run(s, n)}  BY <1>3 DEF NewTables
<1>. QED  BY <1>7, <1>10, <1>15, <1>16

\* Unmapping pages gives back their frames, and of the free frames some may become
\* page tables.
LEMMA Unmapping ==
  ASSUME FrameTypes, Owned, NEW s, NEW n, NEW F \in SUBSET free,
         pte' = [p \in Pages |-> IF p \in Run(s, n) THEN NONE ELSE pte[p]],
         free' = (free \cup FramesOf(s, n)) \ F, tableFrames' = tableFrames \cup F
  PROVE  /\ FrameTypes' /\ Owned'
         /\ \A p \in Pages : pte'[p] = IF p \in Run(s, n) THEN NONE ELSE pte[p]
<1> DEFINE gone == Run(s, n)
<1>4. free' = (free \cup {pte[p] : p \in {q \in gone \cap Pages : pte[q] # NONE}}) \ F
  BY DEF FramesOf
<1>5. pte' = [p \in Pages |-> IF p \in gone THEN NONE ELSE pte[p]]  OBVIOUS
<1> HIDE DEF gone
<1>6. \A p \in Pages : pte'[p] = IF p \in gone THEN NONE ELSE pte[p]  BY <1>5
<1>7. \A f : f \in free' <=>
        (f \in free \/ \E p \in Pages : p \in gone /\ pte[p] # NONE /\ pte[p] = f) /\ f \notin F
  BY <1>4
<1>8. FrameTypes'
  <2>1. \A p \in Pages : pte'[p] \in Frames \cup {NONE}  BY <1>6 DEF FrameTypes
  <2>2. pte' \in [Pages -> Frames \cup {NONE}]  BY <1>5, <2>1
  <2>3. free' \subseteq Frames /\ tableFrames' \subseteq Frames  BY <1>7 DEF FrameTypes
  <2>. QED  BY <2>2, <2>3 DEF FrameTypes
<1>9. Owned'
  <2>1. \A p, q \in Pages : pte'[p] # NONE /\ pte'[p] = pte'[q] => p = q  BY <1>6 DEF Owned
  <2>2. ASSUME NEW p \in Pages, pte'[p] # NONE PROVE pte'[p] \notin free' /\ pte'[p] \notin tableFrames'
    <3>1. p \notin gone /\ pte'[p] = pte[p]  BY <1>6, <2>2
    <3>2. pte[p] \notin free /\ pte[p] \notin tableFrames /\ pte[p] \notin F  BY <2>2, <3>1 DEF Owned
    <3>. QED  BY <1>7, <2>2, <3>1, <3>2 DEF Owned
  <2>3. \A f \in free' : f \notin tableFrames'  BY <1>7 DEF Owned
  <2>4. ASSUME NEW f \in Frames PROVE f \in free' \/ f \in tableFrames' \/ \E p \in Pages : pte'[p] = f
    <3>1. CASE f \in free \/ f \in tableFrames  BY <1>7, <3>1
    <3>2. ASSUME NEW p \in Pages, pte[p] = f PROVE f \in free' \/ f \in tableFrames' \/ pte'[p] = f
      <4>1. f # NONE  BY Numbers
      <4>. QED  BY <1>6, <1>7, <3>2, <4>1
    <3>. QED  BY <3>1, <3>2 DEF Owned
  <2>. QED  BY <2>1, <2>2, <2>3, <2>4 DEF Owned
<1>. QED  BY <1>6, <1>8, <1>9 DEF gone

\* kvmm_free of a page of a VAS gives back the frames of as many pages as it has.
LEMMA FreeFound ==
  ASSUME FrameTypes, Owned, Tidy(vass), NEW q \in Nat, find_vas(vass, q) # NONE, kvmm_free(q)
  PROVE  LET v == find_vas(vass, q)
         IN  /\ FrameTypes' /\ Owned' /\ Tidy(vass') /\ Items(vass') = Items(vass) \ {v}
             /\ \A p \in Pages : pte'[p] = IF p \in Run(q, v.size) THEN NONE ELSE pte[p]
             /\ UNCHANGED <<tables, tableFrames>>
<1> DEFINE v == find_vas(vass, q)
<1>1. v \in Items(vass)  BY FoundVas
<1>2. /\ vass' = list_remove(vass, v) /\ UNCHANGED <<tables, tableFrames>> /\ Unmapped(q, v.size)
  BY DEF kvmm_free
<1> HIDE DEF v
<1>3. Tidy(vass') /\ Items(vass') = Items(vass) \ {v}  BY <1>1, <1>2, RemoveTidy
<1>4. /\ pte' = [p \in Pages |-> IF p \in Run(q, v.size) THEN NONE ELSE pte[p]]
      /\ free' = (free \cup FramesOf(q, v.size)) \ {} /\ tableFrames' = tableFrames \cup {}
  BY <1>2 DEF Unmapped
<1>5. {} \in SUBSET free  OBVIOUS
<1>6. /\ FrameTypes' /\ Owned'
      /\ \A p \in Pages : pte'[p] = IF p \in Run(q, v.size) THEN NONE ELSE pte[p]
  BY <1>4, <1>5, Unmapping
<1>. QED  BY <1>2, <1>3, <1>6 DEF v

\* From its first page on, these are all of its pages, and no other.
LEMMA Free ==
  ASSUME FrameTypes, Owned, Tidy(vass), NEW v \in Items(vass), kvmm_free(v.start)
  PROVE  /\ FrameTypes' /\ Owned' /\ Tidy(vass') /\ Items(vass') = Items(vass) \ {v}
         /\ \A p \in Pages : pte'[p] = IF p \in Run(v.start, v.size) THEN NONE ELSE pte[p]
         /\ UNCHANGED <<tables, tableFrames>>
<1>1. v.start \in Nat /\ v.size \in Nat /\ v.size > 0 /\ NextOf(v) = v.start + v.size /\ v # NONE
  BY TidyVas
<1>2. find_vas(vass, v.start) = v  BY <1>1, FindVas
<1>. QED  BY <1>1, <1>2, FreeFound

-----------------------------------------------------------------------------
(* Page frames, page tables and reservations *)

MemInv == FrameTypes /\ Owned /\ Tidy(vass) /\ Backed

\* Reserving pages changes nothing else.
LEMMA MemGrow ==
  ASSUME MemInv, Tidy(vass'), Items(vass) \subseteq Items(vass'), NoCommit
  PROVE  MemInv'
<1>1. UNCHANGED <<pte, tables, tableFrames, free>>  BY DEF NoCommit
<1>2. FrameTypes' /\ Owned'  BY <1>1 DEF MemInv, FrameTypes, Owned
<1>3. Backed'
  <2> SUFFICES ASSUME NEW p \in Pages, pte'[p] # NONE
               PROVE  /\ TableOf(p) \in tables'
                      /\ \E v \in Items(vass') : v.start <= p /\ p < NextOf(v) /\ v.flags # "NULLPAGE"
    BY DEF Backed
  <2>. QED  BY <1>1 DEF MemInv, Backed
<1>. QED  BY <1>2, <1>3 DEF MemInv

\* Pages are backed within a VAS that is no guard page.
LEMMA MemCommit ==
  ASSUME MemInv, Tidy(vass'), Items(vass) \subseteq Items(vass'),
         NEW s \in Nat, NEW n \in Nat, NEW v \in Items(vass'), v.start <= s, s + n <= NextOf(v),
         v.flags # "NULLPAGE", \A p \in Run(s, n) \cap Pages : pte[p] = NONE, FreeRuns(n) # {},
         commitVirtualPages(s, n)
  PROVE  MemInv' /\ \A p \in Pages : pte'[p] # NONE <=> pte[p] # NONE \/ p \in Run(s, n)
<1>1. v.start \in Nat /\ v.size \in Nat /\ v.start >= Start /\ NextOf(v) <= End /\ NextOf(v) \in Nat
  BY TidyVas
<1>2. \A p \in Run(s, n) : p \in Pages /\ v.start <= p /\ p < NextOf(v)
  BY <1>1, Numbers DEF Run, Pages
<1>3. Run(s, n) \subseteq Pages /\ \A p \in Run(s, n) : pte[p] = NONE  BY <1>2
<1>4. /\ FrameTypes' /\ Owned'
      /\ \A p \in Pages : pte'[p] # NONE <=> pte[p] # NONE \/ p \in Run(s, n)
      /\ tables' = tables \cup {TableOf(p) : p \in Run(s, n)}
  BY <1>3, Commit DEF MemInv
<1>5. Backed'
  <2> SUFFICES ASSUME NEW p \in Pages, pte'[p] # NONE
               PROVE  /\ TableOf(p) \in tables'
                      /\ \E u \in Items(vass') : u.start <= p /\ p < NextOf(u) /\ u.flags # "NULLPAGE"
    BY DEF Backed
  <2>1. CASE p \in Run(s, n)  BY <1>2, <1>4, <2>1
  <2>2. CASE p \notin Run(s, n)
    <3>1. pte[p] # NONE  BY <1>4, <2>2
    <3>. QED  BY <1>4, <3>1 DEF MemInv, Backed
  <2>. QED  BY <2>1, <2>2
<1>. QED  BY <1>4, <1>5 DEF MemInv

\* A VAS is given back with all its pages.
LEMMA MemFree ==
  ASSUME MemInv, NEW v \in Items(vass), kvmm_free(v.start)
  PROVE  /\ MemInv' /\ Items(vass') = Items(vass) \ {v}
         /\ \A p \in Pages : pte'[p] = IF p \in Run(v.start, v.size) THEN NONE ELSE pte[p]
         /\ UNCHANGED <<tables, tableFrames>>
<1>1. /\ FrameTypes' /\ Owned' /\ Tidy(vass') /\ Items(vass') = Items(vass) \ {v}
      /\ \A p \in Pages : pte'[p] = IF p \in Run(v.start, v.size) THEN NONE ELSE pte[p]
      /\ UNCHANGED <<tables, tableFrames>>
  BY Free DEF MemInv
<1>2. v.start \in Nat /\ v.size \in Nat /\ NextOf(v) = v.start + v.size  BY TidyVas DEF MemInv
<1>3. Backed'
  <2> SUFFICES ASSUME NEW p \in Pages, pte'[p] # NONE
               PROVE  /\ TableOf(p) \in tables'
                      /\ \E u \in Items(vass') : u.start <= p /\ p < NextOf(u) /\ u.flags # "NULLPAGE"
    BY DEF Backed
  <2>1. p \notin Run(v.start, v.size) /\ pte[p] # NONE  BY <1>1
  <2>2. TableOf(p) \in tables  BY <2>1 DEF MemInv, Backed
  <2>3. PICK u \in Items(vass) : u.start <= p /\ p < NextOf(u) /\ u.flags # "NULLPAGE"
    BY <2>1 DEF MemInv, Backed
  <2>4. p \in Nat  BY Numbers
  <2>5. u # v  BY <1>2, <2>1, <2>3, <2>4 DEF Run
  <2>. QED  BY <1>1, <2>2, <2>3, <2>5
<1>. QED  BY <1>1, <1>3 DEF MemInv

-----------------------------------------------------------------------------
(* Sections *)

\* A section of n pages at page s: reserved, and backed if it is not backed on demand.
Section(list, map, s, n) ==
  \E v \in Items(list) :
    /\ v.start = s /\ v.size = n /\ v.flags # "NULLPAGE"
    /\ v.flags = "IMMCOMMIT" => \A p \in Pages : p \in Run(s, n) => map[p] # NONE

Guard(list, p) == VAS(p, 1, "NULLPAGE") \in Items(list)

\* Who holds which section, by phase of the process: every use has a section of its own,
\* and every stack has its guard pages.
UseInv ==
  /\ pc = "binary" => vass = <<>>
  /\ pc \in {"stack", "data", "run"} => Section(vass, pte, TEXT, BIN)
  /\ pc \in {"binary", "stack"} => \A t \in Stacks : stack[t] = 0
  /\ pc \in {"binary", "stack", "data"} => windows = {}
  /\ pc \notin Panics => \A t \in Threads : stack[t] # 0 => Section(vass, pte, stack[t], STACK)
  /\ \A t, u \in Stacks : stack[t] # 0 /\ stack[t] = stack[u] => t = u
  /\ pc \in {"data", "run"} => \A t \in Stacks : stack[t] # 0 =>
       /\ Section(vass, pte, stack[t], STACK) /\ stack[t] # TEXT
       /\ Guard(vass, stack[t] - 1) /\ Guard(vass, stack[t] + STACK)
  /\ pc = "run" =>
       /\ Section(vass, pte, data, DATA) /\ data \notin windows /\ TEXT \notin windows
       /\ \A w \in windows : Section(vass, pte, w, WINDOW)
       /\ \A t \in Stacks : stack[t] # data /\ stack[t] \notin windows

CtlInv ==
  /\ stack \in [Stacks -> {0} \cup Pages]
  /\ data \in {0} \cup Pages /\ windows \subseteq Pages
  /\ pc \in Phases \cup Panics
  /\ pc # "double allocation"
  /\ pc = "gone" => free = Frames

VmmInv == MemInv /\ CtlInv /\ UseInv

\* Sections and guards stay when more is reserved and more is backed.
LEMMA SectionGrows ==
  ASSUME Items(vass) \subseteq Items(vass'), \A p \in Pages : pte[p] # NONE => pte'[p] # NONE
  PROVE  /\ \A s, n : Section(vass, pte, s, n) => Section(vass', pte', s, n)
         /\ \A p : Guard(vass, p) => Guard(vass', p)
BY DEF Section, Guard

\* Giving back a VAS leaves the sections that begin elsewhere, and the guards.
LEMMA SectionStays ==
  ASSUME MemInv, NEW v \in Items(vass), Items(vass') = Items(vass) \ {v},
         \A p \in Pages : pte'[p] = IF p \in Run(v.start, v.size) THEN NONE ELSE pte[p]
  PROVE  /\ \A s, n : s # v.start /\ Section(vass, pte, s, n) => Section(vass', pte', s, n)
         /\ v.flags # "NULLPAGE" => \A p : Guard(vass, p) => Guard(vass', p)
<1>1. ASSUME NEW s, NEW n, s # v.start, Section(vass, pte, s, n) PROVE Section(vass', pte', s, n)
  <2>1. PICK u \in Items(vass) :
          /\ u.start = s /\ u.size = n /\ u.flags # "NULLPAGE"
          /\ u.flags = "IMMCOMMIT" => \A p \in Pages : p \in Run(s, n) => pte[p] # NONE
    BY <1>1 DEF Section
  <2>2. u # v /\ u \in Items(vass')  BY <1>1, <2>1
  <2>3. NextOf(u) <= v.start \/ NextOf(v) <= u.start  BY <2>1, <2>2, TidyApart DEF MemInv
  <2>4. /\ u.start \in Nat /\ u.size \in Nat /\ NextOf(u) = u.start + u.size
        /\ v.start \in Nat /\ v.size \in Nat /\ NextOf(v) = v.start + v.size
    BY <2>1, TidyVas DEF MemInv
  <2>5. \A p \in Pages : p \in Run(s, n) => p \notin Run(v.start, v.size)
    BY <2>1, <2>3, <2>4, Numbers DEF Run
  <2>. QED  BY <2>1, <2>2, <2>5 DEF Section
<1>2. ASSUME v.flags # "NULLPAGE", NEW p, Guard(vass, p) PROVE Guard(vass', p)
  <2>1. VAS(p, 1, "NULLPAGE").flags = "NULLPAGE"  BY DEF VAS
  <2>. QED  BY <1>2, <2>1 DEF Guard
<1>. QED  BY <1>1, <1>2

\* A section begins within the range, and nothing else begins there.
LEMMA SectionStart ==
  ASSUME NEW list, Tidy(list), NEW map, NEW s, NEW n, Section(list, map, s, n)
  PROVE  /\ s \in Nat /\ s \in Pages /\ s # 0
         /\ \A a \in Nat, m \in Nat : Apart(list, a, m) => s \notin Run(a, m)
<1>1. PICK v \in Items(list) : v.start = s /\ v.size = n  BY DEF Section
<1>2. s \in Nat /\ n \in Nat /\ n > 0 /\ s >= Start /\ NextOf(v) = s + n /\ NextOf(v) <= End
  BY <1>1, TidyVas
<1>3. s \in Pages /\ s # 0  BY <1>2, Numbers DEF Pages
<1>4. ASSUME NEW a \in Nat, NEW m \in Nat, Apart(list, a, m) PROVE s \notin Run(a, m)
  <2>1. NextOf(v) <= a \/ a + m <= s  BY <1>1, <1>4 DEF Apart
  <2>. QED  BY <1>2, <2>1 DEF Run
<1>. QED  BY <1>2, <1>3, <1>4

\* Part of a gap is a gap.
LEMMA ApartPart ==
  ASSUME NEW list, Tidy(list), NEW a \in Nat, NEW m \in Nat, Apart(list, a, m),
         NEW s \in Nat, NEW n \in Nat, a <= s, s + n <= a + m
  PROVE  Apart(list, s, n)
<1> SUFFICES ASSUME NEW v \in Items(list) PROVE NextOf(v) <= s \/ s + n <= v.start  BY DEF Apart
<1>1. NextOf(v) <= a \/ a + m <= v.start  BY DEF Apart
<1>2. v.start \in Nat /\ NextOf(v) \in Nat  BY TidyVas
<1>. QED  BY <1>1, <1>2

\* What a VAS consists of.
LEMMA VasFields ==
  ASSUME NEW s \in Nat, NEW n \in Nat, NEW f \in Flags
  PROVE  /\ VAS(s, n, f) \in VASs /\ VAS(s, n, f).start = s /\ VAS(s, n, f).size = n
         /\ VAS(s, n, f).flags = f /\ NextOf(VAS(s, n, f)) = s + n
BY DEF VAS, VASs, NextOf

\* The gap is still a gap behind what was put into it.
LEMMA ApartNext ==
  ASSUME NEW list, Tidy(list), NEW s \in Nat, NEW n \in Nat, NEW new, NEW list2,
         Apart(list, s, n), NextOf(new) <= s, Items(list2) = Items(list) \cup {new}
  PROVE  Apart(list2, s, n)
BY DEF Apart

\* The three VASs of a stack fit into the gap that was found for them.
LEMMA StackPlaced ==
  ASSUME Tidy(vass), find_next_va(vass, StackRoom) # 0, NEW flags \in Flags
  PROVE  LET va == find_next_va(vass, StackRoom)
         IN  /\ va \in Nat /\ va + 1 \in Pages /\ va + 1 # 0 /\ Apart(vass, va, STACK + 2)
             /\ va >= Start /\ va + 1 + STACK < End
             /\ \A k \in 0..3 : /\ Tidy(WithStack(va, k, flags))
                                /\ Items(vass) \subseteq Items(WithStack(va, k, flags))
             /\ VAS(va + 1, STACK, flags) \in Items(WithStack(va, 2, flags))
             /\ Items(WithStack(va, 3, flags)) =
                  Items(vass) \cup {VAS(va, 1, "NULLPAGE"), VAS(va + 1, STACK, flags),
                                    VAS(va + 1 + STACK, 1, "NULLPAGE")}
<1> DEFINE va == find_next_va(vass, StackRoom)
<1>1. StackRoom \in Nat /\ StackRoom > 0 /\ StackRoom = STACK + 2 /\ STACK \in Nat /\ STACK > 0
  BY Numbers DEF StackRoom
<1>2. va \in Nat /\ va >= Start /\ va + (STACK + 2) <= End /\ Apart(vass, va, STACK + 2)
  <2>1. Start + StackRoom <= End  BY <1>1, RangeAssumption
  <2>. QED  BY <1>1, <2>1, GapFound
<1> HIDE DEF va
<1> DEFINE P1 == VAS(va, 1, "NULLPAGE")
           P2 == VAS(va + 1, STACK, flags)
           P3 == VAS(va + 1 + STACK, 1, "NULLPAGE")
           l1 == addNewVirtualAddressSpace(vass, P1)
           l2 == addNewVirtualAddressSpace(l1, P2)
           l3 == addNewVirtualAddressSpace(l2, P3)
<1>3. "NULLPAGE" \in Flags  BY DEF Flags
<1>4. Start \in Nat /\ End \in Nat  BY Numbers
<1>5. P1 \in VASs /\ P1.start = va /\ P1.size = 1 /\ NextOf(P1) = va + 1
  BY <1>2, <1>3 DEF VAS, VASs, NextOf
<1>6. P2 \in VASs /\ P2.start = va + 1 /\ P2.size = STACK /\ NextOf(P2) = va + 1 + STACK
  <2>1. va + 1 \in Nat  BY <1>2
  <2>. QED  BY <1>1, <2>1 DEF VAS, VASs, NextOf
<1>7. P3 \in VASs /\ P3.start = va + 1 + STACK /\ P3.size = 1 /\ NextOf(P3) = va + 1 + STACK + 1
  <2>1. va + 1 + STACK \in Nat /\ 1 \in Nat  BY <1>1, <1>2
  <2>. QED  BY <1>3, <2>1 DEF VAS, VASs, NextOf
<1>8. Apart(vass, va, 1) /\ Apart(vass, va + 1, STACK) /\ Apart(vass, va + 1 + STACK, 1)
  BY <1>1, <1>2, ApartPart
<1> HIDE DEF P1, P2, P3
<1>9. Tidy(l1) /\ Items(l1) = Items(vass) \cup {P1}
  BY <1>1, <1>2, <1>4, <1>5, <1>8, InsertTidy
<1> HIDE DEF l1
<1>10. Apart(l1, va + 1, STACK) /\ Apart(l1, va + 1 + STACK, 1)
  <2>1. NextOf(P1) <= va + 1 /\ NextOf(P1) <= va + 1 + STACK  BY <1>1, <1>2, <1>5
  <2>2. va + 1 \in Nat /\ va + 1 + STACK \in Nat  BY <1>1, <1>2
  <2>. QED  BY <1>1, <1>8, <1>9, <2>1, <2>2, ApartNext
<1>11. Tidy(l2) /\ Items(l2) = Items(l1) \cup {P2}
  BY <1>1, <1>2, <1>4, <1>6, <1>9, <1>10, InsertTidy
<1> HIDE DEF l2
<1>12. Apart(l2, va + 1 + STACK, 1)
  <2>1. NextOf(P2) <= va + 1 + STACK /\ va + 1 + STACK \in Nat  BY <1>1, <1>2, <1>6
  <2>. QED  BY <1>9, <1>10, <1>11, <2>1, ApartNext
<1>13. Tidy(l3) /\ Items(l3) = Items(l2) \cup {P3}
  BY <1>1, <1>2, <1>4, <1>7, <1>11, <1>12, InsertTidy
<1> HIDE DEF l3
<1>14. /\ WithStack(va, 0, flags) = vass /\ WithStack(va, 1, flags) = l1
       /\ WithStack(va, 2, flags) = l2 /\ WithStack(va, 3, flags) = l3
  BY DEF WithStack, l1, l2, l3, P1, P2, P3
<1>15. \A k \in 0..3 : Tidy(WithStack(va, k, flags)) /\ Items(vass) \subseteq Items(WithStack(va, k, flags))
  <2> SUFFICES ASSUME NEW k \in 0..3
               PROVE  Tidy(WithStack(va, k, flags)) /\ Items(vass) \subseteq Items(WithStack(va, k, flags))
    OBVIOUS
  <2>1. k = 0 \/ k = 1 \/ k = 2 \/ k = 3  OBVIOUS
  <2>. QED  BY <1>9, <1>11, <1>13, <1>14, <2>1
<1>16. Items(WithStack(va, 3, flags)) = Items(vass) \cup {P1, P2, P3}  BY <1>9, <1>11, <1>13, <1>14
<1>17. va + 1 \in Pages /\ va + 1 # 0 /\ va + 1 + STACK < End  BY <1>1, <1>2, <1>4 DEF Pages
<1>18. P2 \in Items(WithStack(va, 2, flags))  BY <1>11, <1>14
<1>. QED  BY <1>2, <1>15, <1>16, <1>17, <1>18 DEF va, P1, P2, P3

-----------------------------------------------------------------------------
(* The steps *)

\* Pages of a gap have no frames.
LEMMA GapUnmapped ==
  ASSUME MemInv, NEW a \in Nat, NEW m \in Nat, Apart(vass, a, m)
  PROVE  \A p \in Run(a, m) \cap Pages : pte[p] = NONE
<1> SUFFICES ASSUME NEW p \in Run(a, m), p \in Pages, pte[p] # NONE PROVE FALSE  OBVIOUS
<1>1. PICK v \in Items(vass) : v.start <= p /\ p < NextOf(v)  BY DEF MemInv, Backed
<1>2. NextOf(v) <= a \/ a + m <= v.start  BY DEF Apart
<1>3. v.start \in Nat /\ NextOf(v) \in Nat  BY TidyVas DEF MemInv
<1>. QED  BY <1>1, <1>2, <1>3 DEF Run

\* The first k memmap calls for a stack, the commit of a kernel thread's included.
LEMMA StackMapped ==
  ASSUME MemInv, NEW k \in 0..3, NEW isKernel \in BOOLEAN, NEW next, NEW va,
         va = find_next_va(vass, StackRoom), k = 0 \/ va # 0, StackMemmaps(va, k, isKernel, next)
  PROVE  /\ MemInv' /\ Tidy(vass') /\ Items(vass) \subseteq Items(vass')
         /\ \A p \in Pages : pte[p] # NONE => pte'[p] # NONE
         /\ pc' \in {next, "out of memory"}
         /\ k = 3 /\ (isKernel => FreeRuns(STACK) # {}) =>
              pc' = "out of memory" \/ (pc' = next /\ Section(vass', pte', va + 1, STACK))
<1> DEFINE flags == StackFlags(isKernel)
<1>0. Tidy(vass)  BY DEF MemInv
<1>1. /\ vass' = WithStack(va, k, flags)
      /\ IF k < 2 \/ ~isKernel \/ FreeRuns(STACK) = {} THEN NoCommit /\ pc' = next
         ELSE IF ~AllUnmapped(va + 1, STACK) THEN NoCommit /\ pc' = "double allocation"
         ELSE IF ~CanCommit(va + 1, STACK) THEN NoCommit /\ pc' = "out of memory"
         ELSE commitVirtualPages(va + 1, STACK) /\ pc' = next
  BY DEF StackMemmaps
<1>2. flags \in Flags /\ flags = (IF isKernel THEN "IMMCOMMIT" ELSE "NONE")  BY DEF Flags, StackFlags
<1> HIDE DEF flags
<1>3. CASE k = 0
  <2>1. WithStack(va, 0, flags) = vass  BY ONLY TRUE DEF WithStack
  <2>2. vass' = vass /\ NoCommit /\ pc' = next  BY <1>1, <1>3, <2>1
  <2>3. Tidy(vass') /\ Items(vass) \subseteq Items(vass')  BY <1>0, <2>2
  <2>4. MemInv'  BY <2>2, <2>3, MemGrow
  <2>. QED  BY <1>3, <2>2, <2>3, <2>4 DEF NoCommit
<1>4. CASE k # 0
  <2> DEFINE P2 == VAS(va + 1, STACK, flags)
  <2>1. /\ va \in Nat /\ va + 1 \in Pages /\ va + 1 # 0 /\ Apart(vass, va, STACK + 2)
        /\ Tidy(vass') /\ Items(vass) \subseteq Items(vass')
        /\ k \in {2, 3} => P2 \in Items(vass')
    <3>1. /\ va \in Nat /\ va + 1 \in Pages /\ va + 1 # 0 /\ Apart(vass, va, STACK + 2)
          /\ \A j \in 0..3 : /\ Tidy(WithStack(va, j, flags))
                             /\ Items(vass) \subseteq Items(WithStack(va, j, flags))
          /\ P2 \in Items(WithStack(va, 2, flags)) /\ P2 \in Items(WithStack(va, 3, flags))
      BY <1>0, <1>2, <1>4, StackPlaced
    <3> HIDE DEF P2
    <3>. QED  BY <1>1, <3>1
  <2>2. STACK \in Nat /\ STACK > 0 /\ va + 1 \in Nat  BY <2>1, Numbers
  <2>3. P2.start = va + 1 /\ P2.size = STACK /\ P2.flags = flags /\ NextOf(P2) = va + 1 + STACK
    BY <2>2 DEF VAS, NextOf
  <2> HIDE DEF P2
  <2>4. \A p \in Run(va + 1, STACK) \cap Pages : pte[p] = NONE
    <3>1. STACK + 2 \in Nat /\ va + 1 + STACK <= va + (STACK + 2) /\ va <= va + 1  BY <2>1, <2>2
    <3>2. Apart(vass, va + 1, STACK)  BY <1>0, <2>1, <2>2, <3>1, ApartPart
    <3>. QED  BY <2>2, <3>2, GapUnmapped
  <2>5. AllUnmapped(va + 1, STACK)  BY <2>4 DEF AllUnmapped
  <2>6. CASE NoCommit /\ (pc' = "out of memory" \/ (pc' = next /\ (k < 2 \/ ~isKernel \/ FreeRuns(STACK) = {})))
    <3>1. MemInv' /\ pte' = pte  BY <2>1, <2>6, MemGrow DEF NoCommit
    <3>2. ASSUME k = 3, isKernel => FreeRuns(STACK) # {}, pc' = next, pc' # "out of memory"
          PROVE  Section(vass', pte', va + 1, STACK)
      <4>0. ~(k < 2)
        <5>1. k = 3  BY <3>2, Zenon
        <5>. QED  BY ONLY <5>1
      <4>1. ~isKernel  BY <2>6, <3>2, <4>0
      <4>2. flags = "NONE"  BY <1>2, <4>1
      <4>. QED  BY <2>1, <2>3, <3>2, <4>2 DEF Section
    <3>. QED  BY <2>1, <2>6, <3>1, <3>2
  <2>7. CASE ~(k < 2) /\ FreeRuns(STACK) # {} /\ commitVirtualPages(va + 1, STACK) /\ pc' = next /\ isKernel
    <3>1. P2 \in Items(vass') /\ P2.start <= va + 1 /\ va + 1 + STACK <= NextOf(P2) /\ P2.flags # "NULLPAGE"
      BY <1>2, <2>1, <2>2, <2>3, <2>7
    <3>2. MemInv' /\ \A p \in Pages : pte'[p] # NONE <=> pte[p] # NONE \/ p \in Run(va + 1, STACK)
      BY <2>1, <2>2, <2>4, <2>7, <3>1, MemCommit
    <3>3. Section(vass', pte', va + 1, STACK)  BY <2>3, <3>1, <3>2 DEF Section
    <3>. QED  BY <2>1, <2>7, <3>2, <3>3
  <2>. QED  BY <1>1, <2>5, <2>6, <2>7
<1>. QED  BY <1>3, <1>4

\* s_setupProcessStackMemory, for the process and for its threads.
LEMMA StackStep ==
  ASSUME VmmInv, NEW t \in Stacks, NEW isKernel \in BOOLEAN, NEW next,
         \/ pc = "stack" /\ t = MAIN /\ next = "data"
         \/ pc = "run" /\ t \in Threads /\ next = "run",
         stack[t] = 0,
         s_setupProcessStackMemory(t, isKernel, next), UNCHANGED <<data, windows>>
  PROVE  VmmInv'
<1> DEFINE va == find_next_va(vass, StackRoom)
           flags == StackFlags(isKernel)
<1>0. MemInv /\ CtlInv /\ UseInv /\ Tidy(vass)  BY DEF VmmInv, MemInv
<1>1. /\ va # 0 /\ (isKernel => FreeRuns(STACK) # {})
      /\ StackMemmaps(va, 3, isKernel, next) /\ vass' = WithStack(va, 3, flags)
      /\ stack' = [stack EXCEPT ![t] = va + 1]
  BY DEF s_setupProcessStackMemory, StackMemmaps
<1>2. Section(vass, pte, TEXT, BIN)  BY <1>0 DEF UseInv
<1>4. flags \in Flags  BY DEF Flags, StackFlags
<1> DEFINE P1 == VAS(va, 1, "NULLPAGE")
           P2 == VAS(va + 1, STACK, flags)
           P3 == VAS(va + 1 + STACK, 1, "NULLPAGE")
<1>5. /\ va \in Nat /\ va + 1 \in Pages /\ va + 1 # 0 /\ Apart(vass, va, STACK + 2)
      /\ Items(vass) \subseteq Items(vass')
      /\ Items(vass') = Items(vass) \cup {P1, P2, P3}
  <2> HIDE DEF flags
  <2>2. /\ va \in Nat /\ va + 1 \in Pages /\ va + 1 # 0 /\ Apart(vass, va, STACK + 2)
        /\ Items(WithStack(va, 3, flags)) = Items(vass) \cup {P1, P2, P3}
    BY <1>0, <1>1, <1>4, StackPlaced
  <2>. QED  BY <1>1, <2>2
<1>6. STACK \in Nat /\ STACK > 0 /\ va + 1 \in Nat  BY <1>5, Numbers
<1>10. /\ MemInv' /\ \A p \in Pages : pte[p] # NONE => pte'[p] # NONE
       /\ \/ pc' = next /\ Section(vass', pte', va + 1, STACK)
          \/ pc' = "out of memory"
  <2>1. 3 \in 0..3  OBVIOUS
  <2>2. \A x : x = find_next_va(vass, StackRoom) /\ x # 0 /\ StackMemmaps(x, 3, isKernel, next) =>
          /\ MemInv' /\ \A p \in Pages : pte[p] # NONE => pte'[p] # NONE
          /\ (isKernel => FreeRuns(STACK) # {}) =>
               pc' = "out of memory" \/ (pc' = next /\ Section(vass', pte', x + 1, STACK))
    BY <1>0, <2>1, StackMapped
  <2>. QED  BY <1>1, <2>2
<1> HIDE DEF va
<1>11. /\ \A s, n : Section(vass, pte, s, n) => Section(vass', pte', s, n)
       /\ \A p : Guard(vass, p) => Guard(vass', p)
  BY <1>5, <1>10, SectionGrows
<1>12. \A s, n : Section(vass, pte, s, n) => s # va + 1
  <2>1. va + 1 \in Run(va, STACK + 2) /\ STACK + 2 \in Nat  BY <1>5, <1>6 DEF Run
  <2>. QED  BY <1>0, <1>5, <2>1, SectionStart
<1>13. Guard(vass', va) /\ Guard(vass', va + 1 + STACK)  BY <1>5 DEF Guard
<1>14. CtlInv'
  <2>1. next \in {"data", "run"} /\ next \in Phases /\ "out of memory" \in Panics  BY DEF Phases, Panics
  <2>2. pc' \in Phases \cup Panics /\ pc' # "double allocation" /\ pc' # "gone"  BY <1>10, <2>1
  <2>. QED  BY <1>0, <1>1, <1>5, <2>2 DEF CtlInv
<1>15. stack \in [Stacks -> {0} \cup Pages]  BY <1>0 DEF CtlInv
<1>16. \A u \in Stacks : stack'[u] = IF u = t THEN va + 1 ELSE stack[u]  BY <1>1, <1>15
<1>17. pc \notin Panics /\ pc \in {"stack", "run"} /\ pc' \notin {"binary", "stack"}
  BY <1>10 DEF Panics
<1>18. \A u \in Stacks : stack[u] # 0 => Section(vass, pte, stack[u], STACK)
  BY <1>0, <1>17 DEF UseInv
<1>19. \A u, x \in Stacks : stack'[u] # 0 /\ stack'[u] = stack'[x] => u = x
  <2> SUFFICES ASSUME NEW u \in Stacks, NEW x \in Stacks, stack'[u] # 0, stack'[u] = stack'[x] PROVE u = x
    OBVIOUS
  <2>1. CASE u = t /\ x # t  BY <1>5, <1>12, <1>16, <1>18, <2>1
  <2>2. CASE u # t /\ x = t  BY <1>5, <1>12, <1>16, <1>18, <2>2
  <2>3. CASE u # t /\ x # t  BY <1>0, <1>16, <2>3 DEF UseInv
  <2>. QED  BY <2>1, <2>2, <2>3
<1>20. ASSUME pc' = next, NEW u \in Stacks, stack'[u] # 0
       PROVE  /\ Section(vass', pte', stack'[u], STACK) /\ stack'[u] # TEXT
              /\ Guard(vass', stack'[u] - 1) /\ Guard(vass', stack'[u] + STACK)
  <2>1. CASE u = t
    <3>1. stack'[u] = va + 1 /\ stack'[u] - 1 = va /\ stack'[u] + STACK = va + 1 + STACK
      BY <1>5, <1>6, <1>16, <2>1
    <3>2. Section(vass', pte', va + 1, STACK)  BY <1>10, <1>20 DEF Panics
    <3>. QED  BY <1>2, <1>12, <1>13, <3>1, <3>2
  <2>2. CASE u # t
    <3>1. stack'[u] = stack[u]  BY <1>16, <2>2
    <3>2. /\ Section(vass, pte, stack[u], STACK) /\ stack[u] # TEXT
          /\ Guard(vass, stack[u] - 1) /\ Guard(vass, stack[u] + STACK)
      BY <1>0, <1>17, <1>20, <3>1 DEF UseInv
    <3>. QED  BY <1>11, <3>1, <3>2
  <2>. QED  BY <2>1, <2>2
<1>21. Threads \subseteq Stacks  BY DEF Stacks
<1>22. pc' = "data" \/ pc' = "run" => pc' = next  BY <1>10
<1>23. pc' = "out of memory" => pc' \in Panics  BY DEF Panics
<1>24. ASSUME pc' = "run"
       PROVE  /\ Section(vass', pte', data', DATA) /\ data' \notin windows' /\ TEXT \notin windows'
              /\ \A w \in windows' : Section(vass', pte', w, WINDOW)
              /\ \A u \in Stacks : stack'[u] # data' /\ stack'[u] \notin windows'
  <2>1. pc = "run"  BY <1>22, <1>24
  <2>2. /\ Section(vass, pte, data, DATA) /\ data \notin windows /\ TEXT \notin windows
        /\ \A w \in windows : Section(vass, pte, w, WINDOW)
        /\ \A u \in Stacks : stack[u] # data /\ stack[u] \notin windows
    BY <1>0, <2>1 DEF UseInv
  <2>3. va + 1 # data /\ va + 1 \notin windows  BY <1>12, <2>2
  <2>. QED  BY <1>11, <1>16, <2>2, <2>3
<1>25. pc' = "data" => windows' = {}
  <2> SUFFICES ASSUME pc' = "data" PROVE windows' = {}  OBVIOUS
  <2>1. pc = "stack"  BY <1>22
  <2>. QED  BY <1>0, <2>1 DEF UseInv
<1>26. Section(vass', pte', TEXT, BIN)  BY <1>2, <1>11
<1>27. pc' \in {"data", "run"} \/ pc' = "out of memory"  BY <1>10
<1>28. UseInv'
  BY <1>17, <1>19, <1>20, <1>21, <1>22, <1>23, <1>24, <1>25, <1>26, <1>27 DEF UseInv
<1>. QED  BY <1>10, <1>14, <1>28 DEF VmmInv

\* A step that at most reserves or backs more, and goes on, gives up or panics.
LEMMA GrowStep ==
  ASSUME VmmInv, MemInv', Items(vass) \subseteq Items(vass'),
         \A p \in Pages : pte[p] # NONE => pte'[p] # NONE, pc = "gone" => free' = free,
         UNCHANGED <<stack, data, windows>>, pc' # "binary",
         \/ pc' = pc
         \/ pc' \in {"failed", "killing"} /\ pc \notin Panics
         \/ pc' \in {"out of memory", "illegal access", "assertion"}
  PROVE  VmmInv'
<1>0. MemInv /\ CtlInv /\ UseInv  BY DEF VmmInv
<1>3. /\ \A s, n : Section(vass, pte, s, n) => Section(vass', pte', s, n)
      /\ \A p : Guard(vass, p) => Guard(vass', p)
  BY SectionGrows
<1>4. CtlInv'  BY <1>0 DEF CtlInv, Phases, Panics
<1>5. CASE pc' = pc
  <2>1. UseInv'  BY <1>0, <1>3, <1>5 DEF UseInv
  <2>. QED  BY <1>4, <2>1 DEF VmmInv
<1>6. CASE pc' # pc
  <2>1. \/ pc' \in {"failed", "killing"} /\ pc \notin Panics
        \/ pc' \in {"out of memory", "illegal access", "assertion"}
    BY <1>6
  <2>2. pc' \notin {"binary", "stack", "data", "run"}  BY <2>1
  <2>3. pc' \notin Panics => pc \notin Panics  BY <2>1 DEF Panics
  <2>. QED  BY <1>0, <1>3, <1>4, <2>2, <2>3 DEF UseInv, VmmInv
<1>. QED  BY <1>5, <1>6

\* The same without a change to what is backed.
LEMMA ReserveStep ==
  ASSUME VmmInv, Tidy(vass'), Items(vass) \subseteq Items(vass'), NoCommit,
         UNCHANGED <<stack, data, windows>>, pc' # "binary",
         \/ pc' = pc
         \/ pc' \in {"failed", "killing"} /\ pc \notin Panics
         \/ pc' \in {"out of memory", "illegal access", "assertion"}
  PROVE  VmmInv'
<1>1. MemInv'  BY MemGrow DEF VmmInv
<1>2. pte' = pte /\ free' = free  BY DEF NoCommit
<1>. QED  BY <1>1, <1>2, GrowStep

\* A stack that could not be set up: what was added and committed for it stays.
LEMMA FailStep ==
  ASSUME VmmInv, NEW k \in 0..2, NEW isKernel \in BOOLEAN, NEW next,
         \/ pc = "stack" /\ next = "failed"
         \/ pc = "run" /\ next = "run",
         StackFails(find_next_va(vass, StackRoom), k, isKernel),
         StackMemmaps(find_next_va(vass, StackRoom), k, isKernel, next),
         UNCHANGED <<stack, data, windows>>
  PROVE  VmmInv'
<1> DEFINE va == find_next_va(vass, StackRoom)
<1>1. k \in 0..3 /\ (k = 0 \/ va # 0)  BY DEF StackFails
<1>2. /\ MemInv' /\ Items(vass) \subseteq Items(vass')
      /\ \A p \in Pages : pte[p] # NONE => pte'[p] # NONE
      /\ pc' \in {next, "out of memory"}
  BY <1>1, StackMapped DEF VmmInv
<1>3. pc \notin Panics  BY DEF Panics
<1>. QED  BY <1>2, <1>3, GrowStep

\* A stack that could not be set up and is freed again: its page tables stay.
LEMMA TakenBackStep ==
  ASSUME VmmInv, NEW isKernel \in BOOLEAN, ThreadFailsReserved(isKernel)
  PROVE  VmmInv'
<1> DEFINE va == find_next_va(vass, StackRoom)
           flags == StackFlags(isKernel)
           commits == isKernel /\ FreeRuns(STACK) # {}
           forPT == IF commits THEN FramesForTables(va + 1, STACK) ELSE {}
<1>0. MemInv /\ CtlInv /\ UseInv /\ Tidy(vass)  BY DEF VmmInv, MemInv
<1>1. /\ pc = "run" /\ StackFails(va, 2, isKernel) /\ vass' = WithStack(va, 1, flags)
      /\ IF commits /\ ~AllUnmapped(va + 1, STACK) THEN NoCommit /\ pc' = "double allocation"
         ELSE IF commits /\ ~CanCommit(va + 1, STACK) THEN NoCommit /\ pc' = "out of memory"
         ELSE /\ pte' = [p \in Pages |-> IF p \in Run(va + 1, STACK) THEN NONE ELSE pte[p]]
              /\ free' = (free \cup FramesOf(va + 1, STACK)) \ forPT
              /\ tables' = (IF commits THEN tables \cup NewTables(va + 1, STACK) ELSE tables)
              /\ tableFrames' = tableFrames \cup forPT
              /\ pc' = "run"
      /\ UNCHANGED <<stack, data, windows>>
  BY DEF ThreadFailsReserved
<1>2. va # 0
  <2>1. 2 # 0  OBVIOUS
  <2>2. StackFails(va, 2, isKernel)  BY <1>1
  <2> HIDE DEF va
  <2>. QED  BY <2>1, <2>2 DEF StackFails
<1>3. flags \in Flags  BY DEF Flags, StackFlags
<1>4. /\ va \in Nat /\ Apart(vass, va, STACK + 2)
      /\ Tidy(vass') /\ Items(vass) \subseteq Items(vass')
  <2> HIDE DEF flags
  <2>1. /\ va \in Nat /\ Apart(vass, va, STACK + 2)
        /\ \A j \in 0..3 : /\ Tidy(WithStack(va, j, flags))
                           /\ Items(vass) \subseteq Items(WithStack(va, j, flags))
    BY <1>0, <1>2, <1>3, StackPlaced
  <2>2. vass' = WithStack(va, 1, flags)  BY <1>1, Zenon
  <2>3. 1 \in 0..3  OBVIOUS
  <2> HIDE DEF va
  <2>. QED  BY <2>1, <2>2, <2>3
<1>5. forPT \in SUBSET free  BY DEF FramesForTables, Lowest
<1> HIDE DEF va, commits, forPT
<1>6. \A p \in Run(va + 1, STACK) \cap Pages : pte[p] = NONE
  <2>1. STACK \in Nat /\ va + 1 \in Nat  BY <1>4, Numbers
  <2>2. STACK + 2 \in Nat /\ va + 1 + STACK <= va + (STACK + 2) /\ va <= va + 1  BY <1>4, <2>1
  <2>3. Apart(vass, va + 1, STACK)  BY <1>0, <1>4, <2>1, <2>2, ApartPart
  <2>. QED  BY <1>0, <2>1, <2>3, GapUnmapped
<1>7. AllUnmapped(va + 1, STACK)  BY <1>6 DEF AllUnmapped
<1>8. pc \notin Panics /\ pc # "gone"  BY <1>1 DEF Panics
<1>9. CASE NoCommit /\ pc' = "out of memory"  BY <1>1, <1>4, <1>9, ReserveStep
<1>10. CASE pc' = "run"
  <2>1. /\ pte' = [p \in Pages |-> IF p \in Run(va + 1, STACK) THEN NONE ELSE pte[p]]
        /\ free' = (free \cup FramesOf(va + 1, STACK)) \ forPT
        /\ tables' = (IF commits THEN tables \cup NewTables(va + 1, STACK) ELSE tables)
        /\ tableFrames' = tableFrames \cup forPT
    BY <1>1, <1>7, <1>10
  <2>2. /\ FrameTypes' /\ Owned'
        /\ \A p \in Pages : pte'[p] = IF p \in Run(va + 1, STACK) THEN NONE ELSE pte[p]
    BY <1>0, <1>5, <2>1, Unmapping DEF MemInv
  <2>3. \A p \in Pages : pte'[p] = pte[p]  BY <1>6, <2>2
  <2>4. tables \subseteq tables'  BY <2>1
  <2>5. Backed'
    <3> SUFFICES ASSUME NEW p \in Pages, pte'[p] # NONE
                 PROVE  /\ TableOf(p) \in tables'
                        /\ \E v \in Items(vass') : v.start <= p /\ p < NextOf(v) /\ v.flags # "NULLPAGE"
      BY DEF Backed
    <3>. QED  BY <1>0, <1>4, <2>3, <2>4 DEF MemInv, Backed
  <2>6. MemInv'  BY <1>4, <2>2, <2>5 DEF MemInv
  <2>. QED  BY <1>1, <1>4, <1>8, <1>10, <2>3, <2>6, GrowStep
<1>. QED  BY <1>1, <1>7, <1>9, <1>10

\* s_setupProcessBinaryMemory: the first VAS, at its fixed address.
LEMMA BinaryStep ==
  ASSUME VmmInv, s_setupProcessBinaryMemory
  PROVE  VmmInv'
<1>0. MemInv /\ CtlInv /\ UseInv /\ Tidy(vass)  BY DEF VmmInv, MemInv
<1> DEFINE new == VAS(TEXT, BIN, "IMMCOMMIT")
<1>1. /\ pc = "binary" /\ vass' = addNewVirtualAddressSpace(vass, new)
      /\ UNCHANGED <<stack, data, windows>>
      /\ IF ~AllUnmapped(TEXT, BIN) THEN NoCommit /\ pc' = "double allocation"
         ELSE IF FreeRuns(BIN) = {} THEN NoCommit /\ pc' = "failed"
         ELSE IF ~CanCommit(TEXT, BIN) THEN NoCommit /\ pc' = "out of memory"
         ELSE commitVirtualPages(TEXT, BIN) /\ pc' = "stack"
  BY DEF s_setupProcessBinaryMemory
<1>2. /\ new \in VASs /\ new.start = TEXT /\ new.size = BIN /\ new.flags = "IMMCOMMIT"
      /\ NextOf(new) = TEXT + BIN
  BY Numbers DEF VAS, VASs, NextOf, Flags
<1> HIDE DEF new
<1>3. vass = <<>>  BY <1>0, <1>1 DEF UseInv
<1>4. Apart(vass, TEXT, BIN)  BY <1>3 DEF Apart, Items
<1>5. Tidy(vass') /\ Items(vass') = Items(vass) \cup {new}
  BY <1>0, <1>1, <1>2, <1>4, Numbers, InsertTidy
<1>6. \A p \in Run(TEXT, BIN) \cap Pages : pte[p] = NONE  BY <1>0, <1>4, Numbers, GapUnmapped
<1>7. AllUnmapped(TEXT, BIN)  BY <1>6 DEF AllUnmapped
<1>8. CASE NoCommit
  <2>1. pc' \in {"failed", "out of memory"} \/ pc' = "stack"  BY <1>1, <1>7
  <2>2. pc' # "stack"
    <3> SUFFICES ASSUME pc' = "stack" PROVE FALSE  OBVIOUS
    <3>1. commitVirtualPages(TEXT, BIN) /\ FreeRuns(BIN) # {}  BY <1>1, <1>7
    <3>2. MemInv' /\ \A p \in Pages : pte'[p] # NONE <=> pte[p] # NONE \/ p \in Run(TEXT, BIN)
      BY <1>0, <1>2, <1>5, <1>6, <3>1, Numbers, MemCommit
    <3>3. TEXT \in Run(TEXT, BIN) /\ TEXT \in Pages  BY Numbers DEF Run, Pages
    <3>. QED  BY <1>6, <1>8, <3>2, <3>3 DEF NoCommit
  <2>3. pc \notin Panics  BY <1>1 DEF Panics
  <2>. QED  BY <1>1, <1>5, <1>8, <2>1, <2>2, <2>3, ReserveStep
<1>9. CASE commitVirtualPages(TEXT, BIN) /\ pc' = "stack" /\ FreeRuns(BIN) # {}
  <2>1. MemInv' /\ \A p \in Pages : pte'[p] # NONE <=> pte[p] # NONE \/ p \in Run(TEXT, BIN)
    BY <1>0, <1>2, <1>5, <1>6, <1>9, Numbers, MemCommit
  <2>2. Section(vass', pte', TEXT, BIN)  BY <1>2, <1>5, <2>1 DEF Section
  <2>3. CtlInv'  BY <1>0, <1>1, <1>9 DEF CtlInv, Phases, Panics
  <2>4. (\A t \in Stacks : stack[t] = 0) /\ windows = {}  BY <1>0, <1>1 DEF UseInv
  <2>5. Threads \subseteq Stacks  BY DEF Stacks
  <2>6. UseInv'  BY <1>1, <1>9, <2>2, <2>4, <2>5 DEF UseInv
  <2>. QED  BY <2>1, <2>3, <2>6 DEF VmmInv
<1>. QED  BY <1>1, <1>7, <1>8, <1>9

\* A new VAS in a gap that find_next_va found, if there is one.
LEMMA Reserve ==
  ASSUME Tidy(vass), NEW n \in Nat, n > 0, NEW flags \in Flags
  PROVE  LET va == find_next_va(vass, n)
             new == VAS(va, n, flags)
         IN  \/ ~CanAdd(vass, new) /\ addNewVirtualAddressSpace(vass, new) = vass
             \/ /\ CanAdd(vass, new) /\ va \in Nat /\ va \in Pages /\ Apart(vass, va, n)
                /\ Tidy(addNewVirtualAddressSpace(vass, new))
                /\ Items(addNewVirtualAddressSpace(vass, new)) = Items(vass) \cup {new}
<1> DEFINE va == find_next_va(vass, n)
           new == VAS(va, n, flags)
<1>1. CASE va = 0
  <2>1. new.start = 0  BY <1>1 DEF VAS
  <2>2. ~CanAdd(vass, new)  BY <2>1, Numbers DEF CanAdd
  <2>. QED  BY <2>2 DEF addNewVirtualAddressSpace
<1>2. CASE va # 0 /\ ~CanAdd(vass, new)  BY <1>2 DEF addNewVirtualAddressSpace
<1>3. CASE va # 0 /\ CanAdd(vass, new)
  <2>0. vass = <<>> => Start + n <= End
    <3> SUFFICES ASSUME vass = <<>> PROVE Start + n <= End  OBVIOUS
    <3>1. va = Start  BY DEF find_next_va
    <3>2. NextOf(new) = Start + n  BY <3>1 DEF VAS, NextOf
    <3>. QED  BY <1>3, <3>2 DEF CanAdd
  <2>1. va \in Nat /\ va >= Start /\ va + n <= End /\ Apart(vass, va, n)  BY <1>3, <2>0, GapFound
  <2>2. new \in VASs /\ new.start = va /\ new.size = n /\ NextOf(new) = va + n
    BY <2>1 DEF VAS, VASs, NextOf
  <2>3. va \in Pages  BY <2>1, Numbers DEF Pages
  <2> HIDE DEF new, va
  <2>4. /\ CanAdd(vass, new) /\ Tidy(addNewVirtualAddressSpace(vass, new))
        /\ Items(addNewVirtualAddressSpace(vass, new)) = Items(vass) \cup {new}
    BY <2>1, <2>2, InsertTidy
  <2>. QED  BY <2>1, <2>3, <2>4 DEF new, va
<1>. QED  BY <1>1, <1>2, <1>3

\* s_setupProcessDataMemory: without room the creation fails.
LEMMA DataStep ==
  ASSUME VmmInv, s_setupProcessDataMemory
  PROVE  VmmInv'
<1>0. MemInv /\ CtlInv /\ UseInv /\ Tidy(vass)  BY DEF VmmInv, MemInv
<1> DEFINE va == find_next_va(vass, DATA)
           new == VAS(va, DATA, "NONE")
<1>1. /\ pc = "data" /\ vass' = addNewVirtualAddressSpace(vass, new)
      /\ data' = (IF CanAdd(vass, new) THEN new.start ELSE 0)
      /\ pc' = (IF CanAdd(vass, new) THEN "run" ELSE "failed")
      /\ UNCHANGED <<pte, tables, tableFrames, free, stack, windows>>
  BY DEF s_setupProcessDataMemory
<1>2. Section(vass, pte, TEXT, BIN) /\ windows = {}  BY <1>0, <1>1 DEF UseInv
<1>4. \/ ~CanAdd(vass, new) /\ vass' = vass
      \/ /\ CanAdd(vass, new) /\ va \in Nat /\ va \in Pages /\ Apart(vass, va, DATA)
         /\ Tidy(vass') /\ Items(vass') = Items(vass) \cup {new}
  <2>1. "NONE" \in Flags  BY DEF Flags
  <2>. QED  BY <1>0, <1>1, <2>1, Numbers, Reserve
<1>5. new.start = va /\ new.size = DATA /\ new.flags = "NONE"  BY DEF VAS
<1> HIDE DEF va, new
<1>6. Tidy(vass') /\ Items(vass) \subseteq Items(vass')  BY <1>0, <1>4
<1>7. MemInv'  BY <1>0, <1>1, <1>6, MemGrow DEF NoCommit
<1>8. /\ \A s, n : Section(vass, pte, s, n) => Section(vass', pte', s, n)
      /\ \A p : Guard(vass, p) => Guard(vass', p)
  BY <1>1, <1>6, SectionGrows
<1>9. Threads \subseteq Stacks  BY DEF Stacks
<1>10. CASE ~CanAdd(vass, new)
  <2>1. CtlInv'  BY <1>0, <1>1, <1>10 DEF CtlInv, Phases, Panics
  <2>2. UseInv'  BY <1>0, <1>1, <1>8, <1>9, <1>10 DEF UseInv
  <2>. QED  BY <1>7, <2>1, <2>2 DEF VmmInv
<1>11. CASE CanAdd(vass, new)
  <2>1. CtlInv'  BY <1>0, <1>1, <1>4, <1>5, <1>11 DEF CtlInv, Phases, Panics
  <2>2. Section(vass', pte', data', DATA)  BY <1>1, <1>4, <1>5, <1>11 DEF Section
  <2>3. va \in Run(va, DATA)  BY <1>4, <1>11, Numbers DEF Run
  <2>4. \A s, n : Section(vass, pte, s, n) => s # va
    BY <1>0, <1>4, <1>11, <2>3, SectionStart, Numbers
  <2>5. \A t \in Stacks : stack'[t] # data'
    <3> SUFFICES ASSUME NEW t \in Stacks PROVE stack[t] # va  BY <1>1, <1>5, <1>11
    <3>1. CASE stack[t] = 0  BY <1>4, <1>11, <3>1, Numbers
    <3>2. CASE stack[t] # 0  BY <1>0, <1>1, <2>4, <3>2 DEF UseInv
    <3>. QED  BY <3>1, <3>2
  <2>6. pc' = "run" /\ windows' = {} /\ stack' = stack  BY <1>1, <1>2, <1>11
  <2>7. Section(vass', pte', TEXT, BIN)  BY <1>2, <1>8
  <2>8. \A t \in Stacks : stack[t] # 0 =>
          /\ Section(vass', pte', stack[t], STACK) /\ stack[t] # TEXT
          /\ Guard(vass', stack[t] - 1) /\ Guard(vass', stack[t] + STACK)
    BY <1>0, <1>1, <1>8 DEF UseInv
  <2>9. \A t, u \in Stacks : stack[t] # 0 /\ stack[t] = stack[u] => t = u  BY <1>0 DEF UseInv
  <2>10. UseInv'  BY <1>9, <2>2, <2>5, <2>6, <2>7, <2>8, <2>9 DEF UseInv
  <2>. QED  BY <1>7, <2>1, <2>10 DEF VmmInv
<1>. QED  BY <1>10, <1>11

\* allocWindow
LEMMA WindowStep ==
  ASSUME VmmInv, CreateWindow
  PROVE  VmmInv'
<1>0. MemInv /\ CtlInv /\ UseInv /\ Tidy(vass)  BY DEF VmmInv, MemInv
<1> DEFINE va == find_next_va(vass, WINDOW)
           new == VAS(va, WINDOW, "NONE")
<1>1. /\ pc = "run" /\ vass' = addNewVirtualAddressSpace(vass, new) /\ CanAdd(vass, new)
      /\ windows' = windows \cup {new.start}
      /\ UNCHANGED <<pte, tables, tableFrames, free, stack, data, pc>>
  BY DEF CreateWindow
<1>2. Section(vass, pte, TEXT, BIN)  BY <1>0, <1>1 DEF UseInv
<1>4. /\ va \in Nat /\ va \in Pages /\ Apart(vass, va, WINDOW)
      /\ Tidy(vass') /\ Items(vass') = Items(vass) \cup {new}
  <2>1. "NONE" \in Flags  BY DEF Flags
  <2>. QED  BY <1>0, <1>1, <2>1, Numbers, Reserve
<1>5. new.start = va /\ new.size = WINDOW /\ new.flags = "NONE"  BY DEF VAS
<1> HIDE DEF va, new
<1>6. MemInv'  BY <1>0, <1>1, <1>4, MemGrow DEF NoCommit
<1>7. /\ \A s, n : Section(vass, pte, s, n) => Section(vass', pte', s, n)
      /\ \A p : Guard(vass, p) => Guard(vass', p)
  BY <1>1, <1>4, SectionGrows
<1>8. CtlInv'  BY <1>0, <1>1, <1>4, <1>5 DEF CtlInv
<1>9. Section(vass', pte', va, WINDOW)  BY <1>1, <1>4, <1>5 DEF Section
<1>10. va \in Run(va, WINDOW)  BY <1>4, Numbers DEF Run
<1>11. \A s, n : Section(vass, pte, s, n) => s # va  BY <1>0, <1>4, <1>10, SectionStart, Numbers
<1>12. /\ Section(vass, pte, data, DATA) /\ data \notin windows /\ TEXT \notin windows
       /\ \A w \in windows : Section(vass, pte, w, WINDOW)
       /\ \A t \in Stacks : stack[t] # data /\ stack[t] \notin windows
  BY <1>0, <1>1 DEF UseInv
<1>13. \A t \in Stacks : stack[t] # va
  <2> SUFFICES ASSUME NEW t \in Stacks PROVE stack[t] # va  OBVIOUS
  <2>1. CASE stack[t] = 0  BY <1>4, <2>1, Numbers
  <2>2. CASE stack[t] # 0  BY <1>0, <1>1, <1>11, <2>2 DEF UseInv
  <2>. QED  BY <2>1, <2>2
<1>14. data # va /\ TEXT # va  BY <1>2, <1>11, <1>12
<1>15. \A w \in windows' : Section(vass', pte', w, WINDOW)  BY <1>1, <1>5, <1>7, <1>9, <1>12
<1>16. /\ Section(vass', pte', data, DATA) /\ data \notin windows' /\ TEXT \notin windows'
       /\ \A t \in Stacks : stack[t] # data /\ stack[t] \notin windows'
  BY <1>1, <1>5, <1>7, <1>12, <1>13, <1>14
<1>17. Section(vass', pte', TEXT, BIN)  BY <1>2, <1>7
<1>18. \A t \in Stacks : stack[t] # 0 =>
         /\ Section(vass', pte', stack[t], STACK) /\ stack[t] # TEXT
         /\ Guard(vass', stack[t] - 1) /\ Guard(vass', stack[t] + STACK)
  BY <1>0, <1>1, <1>7 DEF UseInv
<1>19. \A t, u \in Stacks : stack[t] # 0 /\ stack[t] = stack[u] => t = u  BY <1>0 DEF UseInv
<1>20. Threads \subseteq Stacks  BY DEF Stacks
<1>21. UseInv'  BY <1>1, <1>15, <1>16, <1>17, <1>18, <1>19, <1>20 DEF UseInv
<1>. QED  BY <1>6, <1>8, <1>21 DEF VmmInv

\* The page fault handler backs a page of a section, or the process panics.
LEMMA FaultStep ==
  ASSUME VmmInv, NEW p \in Pages, PageFault(p)
  PROVE  VmmInv'
<1>0. MemInv /\ CtlInv /\ UseInv /\ Tidy(vass)  BY DEF VmmInv, MemInv
<1> DEFINE v == find_vas(vass, p)
<1>1. /\ pc = "run" /\ pte[p] = NONE /\ UNCHANGED <<vass, stack, data, windows>>
      /\ IF v = NONE THEN NoCommit /\ pc' = "illegal access"
         ELSE IF ~Commits(v) THEN NoCommit /\ pc' = "illegal access"
         ELSE IF ~CanCommit(p, 1) THEN NoCommit /\ pc' = "out of memory"
         ELSE commitVirtualPages(p, 1) /\ pc' = "run"
  BY DEF PageFault
<1>2. CASE NoCommit /\ pc' \in {"illegal access", "out of memory"}
  <2>1. Tidy(vass') /\ Items(vass) \subseteq Items(vass')  BY <1>0, <1>1
  <2>. QED  BY <1>1, <1>2, <2>1, ReserveStep
<1>3. CASE v # NONE /\ Commits(v) /\ CanCommit(p, 1) /\ commitVirtualPages(p, 1) /\ pc' = "run"
  <2>1. p \in Nat /\ 1 \in Nat  BY Numbers
  <2>2. v \in Items(vass) /\ v.start <= p /\ p < NextOf(v)  BY <1>0, <1>3, <2>1, FoundVas
  <2>3. v.flags = "NONE"  BY <1>3 DEF Commits
  <2> HIDE DEF v
  <2>4. NextOf(v) \in Nat  BY <1>0, <2>2, TidyVas
  <2>5. p + 1 <= NextOf(v)  BY <2>1, <2>2, <2>4
  <2>6. Run(p, 1) = {p}  BY <2>1 DEF Run
  <2>7. \A q \in Run(p, 1) \cap Pages : pte[q] = NONE  BY <1>1, <2>6
  <2>8. FreeRuns(1) # {}  BY <1>3 DEF CanCommit
  <2>9. Tidy(vass') /\ Items(vass) \subseteq Items(vass') /\ v \in Items(vass')  BY <1>0, <1>1, <2>2
  <2>10. MemInv' /\ \A q \in Pages : pte'[q] # NONE <=> pte[q] # NONE \/ q \in Run(p, 1)
    BY <1>0, <1>3, <2>1, <2>2, <2>3, <2>5, <2>7, <2>8, <2>9, MemCommit
  <2>11. /\ \A s, n : Section(vass, pte, s, n) => Section(vass', pte', s, n)
         /\ \A q : Guard(vass, q) => Guard(vass', q)
    BY <2>9, <2>10, SectionGrows
  <2>12. CtlInv'  BY <1>0, <1>1, <1>3 DEF CtlInv, Phases
  <2>13. UseInv'  BY <1>0, <1>1, <1>3, <2>11 DEF UseInv
  <2>. QED  BY <2>10, <2>12, <2>13 DEF VmmInv
<1>. QED  BY <1>1, <1>2, <1>3

\* kprocess_kill_process gives back the stack of a thread and nothing of anybody else.
LEMMA ExitStep ==
  ASSUME VmmInv, pc \in {"run", "killing"}, NEW t \in Threads, stack[t] # 0, kvmm_free(stack[t]),
         stack' = [stack EXCEPT ![t] = 0], UNCHANGED <<data, windows, pc>>
  PROVE  VmmInv'
<1>0. MemInv /\ CtlInv /\ UseInv /\ Tidy(vass)  BY DEF VmmInv, MemInv
<1>1. Threads \subseteq Stacks /\ pc \notin Panics  BY DEF Stacks, Panics
<1>2. Section(vass, pte, stack[t], STACK)  BY <1>0, <1>1 DEF UseInv
<1>3. PICK v \in Items(vass) : v.start = stack[t] /\ v.flags # "NULLPAGE"  BY <1>2 DEF Section
<1>4. /\ MemInv' /\ Items(vass') = Items(vass) \ {v}
      /\ \A p \in Pages : pte'[p] = IF p \in Run(v.start, v.size) THEN NONE ELSE pte[p]
  BY <1>0, <1>3, MemFree
<1>5. /\ \A s, n : s # stack[t] /\ Section(vass, pte, s, n) => Section(vass', pte', s, n)
      /\ \A p : Guard(vass, p) => Guard(vass', p)
  BY <1>0, <1>3, <1>4, SectionStays
<1>6. stack \in [Stacks -> {0} \cup Pages] /\ windows \subseteq Pages  BY <1>0 DEF CtlInv
<1>7. \A u \in Stacks : stack'[u] = IF u = t THEN 0 ELSE stack[u]  BY <1>1, <1>6
<1>8. \A u \in Stacks : stack'[u] # 0 => u # t /\ stack'[u] = stack[u] /\ stack[u] # stack[t]
  BY <1>0, <1>1, <1>7 DEF UseInv
<1>9. CtlInv'
  <2>1. stack' \in [Stacks -> {0} \cup Pages]  BY <1>6
  <2>. QED  BY <1>0, <2>1 DEF CtlInv
<1>10. \A u, x \in Stacks : stack'[u] # 0 /\ stack'[u] = stack'[x] => u = x
  BY <1>0, <1>7 DEF UseInv
<1>11. \A u \in Threads : stack'[u] # 0 => Section(vass', pte', stack'[u], STACK)
  BY <1>0, <1>1, <1>5, <1>8 DEF UseInv
<1>12. CASE pc = "killing"  BY <1>4, <1>9, <1>10, <1>11, <1>12 DEF UseInv, VmmInv
<1>13. CASE pc = "run"
  <2>1. Section(vass', pte', TEXT, BIN)  BY <1>0, <1>1, <1>5, <1>13 DEF UseInv
  <2>2. \A u \in Stacks : stack'[u] # 0 =>
          /\ Section(vass', pte', stack'[u], STACK) /\ stack'[u] # TEXT
          /\ Guard(vass', stack'[u] - 1) /\ Guard(vass', stack'[u] + STACK)
    BY <1>0, <1>5, <1>8, <1>13 DEF UseInv
  <2>3. /\ Section(vass, pte, data, DATA) /\ data \notin windows /\ TEXT \notin windows
        /\ \A w \in windows : Section(vass, pte, w, WINDOW)
        /\ \A u \in Stacks : stack[u] # data /\ stack[u] \notin windows
    BY <1>0, <1>13 DEF UseInv
  <2>4. Section(vass', pte', data, DATA) /\ \A w \in windows : Section(vass', pte', w, WINDOW)
    BY <1>1, <1>5, <2>3
  <2>5. data # 0 /\ 0 \notin windows  BY <1>0, <1>6, <2>3, SectionStart, Numbers
  <2>6. \A u \in Stacks : stack'[u] # data /\ stack'[u] \notin windows  BY <1>7, <2>3, <2>5
  <2>7. UseInv'  BY <1>10, <1>11, <1>13, <2>1, <2>2, <2>3, <2>4, <2>6 DEF UseInv
  <2>. QED  BY <1>4, <1>9, <2>7 DEF VmmInv
<1>. QED  BY <1>12, <1>13

\* destory_window
LEMMA DestroyStep ==
  ASSUME VmmInv, NEW w \in windows, DestroyWindow(w)
  PROVE  VmmInv'
<1>0. MemInv /\ CtlInv /\ UseInv /\ Tidy(vass)  BY DEF VmmInv, MemInv
<1>1. pc = "run" /\ kvmm_free(w) /\ windows' = windows \ {w} /\ UNCHANGED <<stack, data, pc>>
  BY DEF DestroyWindow
<1>2. /\ Section(vass, pte, data, DATA) /\ data \notin windows /\ TEXT \notin windows
      /\ \A x \in windows : Section(vass, pte, x, WINDOW)
      /\ \A t \in Stacks : stack[t] # data /\ stack[t] \notin windows
  BY <1>0, <1>1 DEF UseInv
<1>3. PICK v \in Items(vass) : v.start = w /\ v.flags # "NULLPAGE"  BY <1>2 DEF Section
<1>4. /\ MemInv' /\ Items(vass') = Items(vass) \ {v}
      /\ \A p \in Pages : pte'[p] = IF p \in Run(v.start, v.size) THEN NONE ELSE pte[p]
  BY <1>0, <1>1, <1>3, MemFree
<1>5. /\ \A s, n : s # w /\ Section(vass, pte, s, n) => Section(vass', pte', s, n)
      /\ \A p : Guard(vass, p) => Guard(vass', p)
  BY <1>0, <1>3, <1>4, SectionStays
<1>6. CtlInv'  BY <1>0, <1>1 DEF CtlInv
<1>7. Section(vass', pte', TEXT, BIN)  BY <1>0, <1>1, <1>2, <1>5 DEF UseInv
<1>8. \A t \in Stacks : stack[t] # 0 =>
        /\ Section(vass', pte', stack[t], STACK) /\ stack[t] # TEXT
        /\ Guard(vass', stack[t] - 1) /\ Guard(vass', stack[t] + STACK)
  BY <1>0, <1>1, <1>2, <1>5 DEF UseInv
<1>9. \A t, u \in Stacks : stack[t] # 0 /\ stack[t] = stack[u] => t = u  BY <1>0 DEF UseInv
<1>10. /\ Section(vass', pte', data, DATA) /\ data \notin windows' /\ TEXT \notin windows'
       /\ \A x \in windows' : Section(vass', pte', x, WINDOW)
       /\ \A t \in Stacks : stack[t] # data /\ stack[t] \notin windows'
  BY <1>1, <1>2, <1>5
<1>11. Threads \subseteq Stacks  BY DEF Stacks
<1>12. UseInv'  BY <1>1, <1>7, <1>8, <1>9, <1>10, <1>11 DEF UseInv
<1>. QED  BY <1>4, <1>6, <1>12 DEF VmmInv

\* kvmm_delete frees one VAS after the other.
LEMMA DeleteStep ==
  ASSUME VmmInv, kvmm_delete
  PROVE  VmmInv'
<1>0. MemInv /\ CtlInv /\ UseInv /\ Tidy(vass)  BY DEF VmmInv, MemInv
<1>1. /\ pc = "killing" /\ (\A t \in Threads : stack[t] = 0) /\ vass # <<>> /\ kvmm_free(vass[1].start)
      /\ UNCHANGED <<stack, data, windows, pc>>
  BY DEF kvmm_delete
<1>2. vass[1] \in Items(vass)
  <2>1. 1 \in 1..Len(vass)  BY <1>0, <1>1 DEF Tidy
  <2>. QED  BY <2>1 DEF Items
<1>3. MemInv'  BY <1>0, <1>1, <1>2, MemFree
<1>4. CtlInv'  BY <1>0, <1>1 DEF CtlInv
<1>5. UseInv'  BY <1>0, <1>1 DEF UseInv
<1>. QED  BY <1>3, <1>4, <1>5 DEF VmmInv

\* When the last VAS is gone no page has a frame, so that the frames of the page tables
\* are all that is left.
LEMMA DirectoryStep ==
  ASSUME VmmInv, kpg_deletePageDirectory
  PROVE  VmmInv'
<1>0. MemInv /\ CtlInv /\ UseInv  BY DEF VmmInv
<1>1. /\ (\A t \in Threads : stack[t] = 0) /\ vass = <<>> /\ pc' = "gone"
      /\ tables' = {} /\ tableFrames' = {} /\ free' = free \cup tableFrames
      /\ stack' = [stack EXCEPT ![MAIN] = 0] /\ data' = 0 /\ windows' = {}
      /\ pte' = [p \in Pages |-> NONE] /\ UNCHANGED vass
  BY DEF kpg_deletePageDirectory
<1>2. \A p \in Pages : pte[p] = NONE
  <2>1. Items(vass) = {}  BY <1>1 DEF Items
  <2>. QED  BY <1>0, <2>1 DEF MemInv, Backed
<1>3. free' = Frames
  <2>1. \A f \in Frames : f \in free \/ f \in tableFrames  BY <1>0, <1>2, Numbers DEF MemInv, Owned
  <2>. QED  BY <1>0, <1>1, <2>1 DEF MemInv, FrameTypes
<1>4. MemInv'
  <2>1. FrameTypes'  BY <1>0, <1>1, <1>3 DEF MemInv, FrameTypes
  <2>2. Owned'  BY <1>1, <1>3 DEF Owned
  <2>3. Backed'  BY <1>1 DEF Backed
  <2>. QED  BY <1>0, <1>1, <2>1, <2>2, <2>3 DEF MemInv
<1>5. stack \in [Stacks -> {0} \cup Pages] /\ MAIN \in Stacks /\ Threads \subseteq Stacks
  BY <1>0 DEF CtlInv, Stacks
<1>6. \A t \in Stacks : stack'[t] = IF t = MAIN THEN 0 ELSE stack[t]  BY <1>1, <1>5
<1>7. \A t \in Stacks : stack'[t] = 0  BY <1>1, <1>6 DEF Stacks
<1>8. CtlInv'
  <2>1. stack' \in [Stacks -> {0} \cup Pages]  BY <1>1, <1>5
  <2>. QED  BY <1>1, <1>3, <2>1 DEF CtlInv, Phases, Panics
<1>9. UseInv'  BY <1>1, <1>5, <1>7 DEF UseInv
<1>. QED  BY <1>4, <1>8, <1>9 DEF VmmInv

\* Every step keeps the address space in order, unless it frees a VAS at a stale address.
LEMMA VmmStep ==
  ASSUME VmmInv, [Next]_vars, misfrees = 0, misfrees' = 0
  PROVE  VmmInv'
<1>0. MemInv /\ CtlInv /\ UseInv /\ Tidy(vass)  BY DEF VmmInv, MemInv
<1>1. CASE s_setupProcessBinaryMemory  BY <1>1, BinaryStep
<1>2. CASE s_setupProcessDataMemory  BY <1>2, DataStep
<1>3. CASE SectionFails
  <2>1. /\ pc \notin Panics /\ pc' = "failed" /\ NoCommit /\ UNCHANGED <<vass, stack, data, windows>>
    BY <1>3 DEF SectionFails, Panics, NoCommit
  <2>2. Tidy(vass') /\ Items(vass) \subseteq Items(vass')  BY <1>0, <2>1
  <2>. QED  BY <2>1, <2>2, ReserveStep
<1>4. ASSUME NEW isKernel \in BOOLEAN, CreateStack(isKernel) PROVE VmmInv'
  <2>1. /\ pc = "stack" /\ s_setupProcessStackMemory(MAIN, isKernel, "data")
        /\ UNCHANGED <<data, windows>>
    BY <1>4 DEF CreateStack
  <2>2. MAIN \in Stacks /\ stack[MAIN] = 0  BY <1>0, <2>1 DEF Stacks, UseInv
  <2>. QED  BY <2>1, <2>2, StackStep
<1>5. ASSUME NEW t \in Threads, NEW isKernel \in BOOLEAN, CreateThread(t, isKernel) PROVE VmmInv'
  <2>1. /\ pc = "run" /\ stack[t] = 0 /\ s_setupProcessStackMemory(t, isKernel, "run")
        /\ UNCHANGED <<data, windows>>
    BY <1>5 DEF CreateThread
  <2>2. t \in Stacks  BY DEF Stacks
  <2>. QED  BY <2>1, <2>2, StackStep
<1>6. ASSUME NEW k \in 0..2, NEW isKernel \in BOOLEAN, CreateStackFails(k, isKernel) \/ ThreadFails(k, isKernel)
      PROVE  VmmInv'
  <2>1. CASE CreateStackFails(k, isKernel)  BY <2>1, FailStep DEF CreateStackFails
  <2>2. CASE ThreadFails(k, isKernel)  BY <2>2, FailStep DEF ThreadFails
  <2>. QED  BY <1>6, <2>1, <2>2
<1>16. ASSUME NEW isKernel \in BOOLEAN, ThreadFailsReserved(isKernel) PROVE VmmInv'
  BY <1>16, TakenBackStep
<1>17. ASSUME NEW p \in Pages \cup {0}, ThreadFailsStale(p) PROVE VmmInv'
  <2>1. p = 0 \/ find_vas(vass, p) = NONE  BY <1>17 DEF ThreadFailsStale
  <2>2. /\ pc = "run" /\ pc' \in {"assertion", "run"} /\ UNCHANGED <<vass, stack, data, windows>> /\ NoCommit
    BY <1>17, <2>1 DEF ThreadFailsStale, kvmm_free, NoCommit
  <2>3. Tidy(vass') /\ Items(vass) \subseteq Items(vass')  BY <1>0, <2>2
  <2>. QED  BY <2>2, <2>3, ReserveStep
<1>7. ASSUME NEW p \in Pages, PageFault(p) PROVE VmmInv'  BY <1>7, FaultStep
<1>8. ASSUME NEW t \in Threads, ThreadExit(t) \/ KillThread(t) PROVE VmmInv'
  <2>1. /\ pc \in {"run", "killing"} /\ stack[t] # 0 /\ kvmm_free(stack[t])
        /\ stack' = [stack EXCEPT ![t] = 0] /\ UNCHANGED <<data, windows, pc>>
    BY <1>8 DEF ThreadExit, KillThread
  <2>. QED  BY <2>1, ExitStep
<1>9. CASE CreateWindow  BY <1>9, WindowStep
<1>10. ASSUME NEW w \in windows, DestroyWindow(w) PROVE VmmInv'  BY <1>10, DestroyStep
<1>11. CASE Kill
  <2>1. pc \notin Panics /\ pc' = "killing" /\ NoCommit /\ UNCHANGED <<vass, stack, data, windows>>
    BY <1>11 DEF Kill, Panics, NoCommit
  <2>2. Tidy(vass') /\ Items(vass) \subseteq Items(vass')  BY <1>0, <2>1
  <2>. QED  BY <2>1, <2>2, ReserveStep
<1>12. CASE kvmm_delete  BY <1>12, DeleteStep
<1>13. CASE kpg_deletePageDirectory  BY <1>13, DirectoryStep
<1>14. CASE UNCHANGED vars
  <2>1. UNCHANGED <<vass, pte, tables, tableFrames, free, stack, data, windows, pc>>  BY <1>14 DEF vars
  <2>2. MemInv'  BY <1>0, <2>1 DEF MemInv, FrameTypes, Owned, Backed
  <2>3. CtlInv' /\ UseInv'  BY <1>0, <2>1 DEF CtlInv, UseInv
  <2>. QED  BY <2>2, <2>3 DEF VmmInv
<1>15. CASE Ended  BY <1>14, <1>15 DEF Ended
<1>. QED
  BY <1>1, <1>2, <1>3, <1>4, <1>5, <1>6, <1>7, <1>8, <1>9, <1>10, <1>11, <1>12, <1>13, <1>14, <1>15,
     <1>16, <1>17
  DEF Next, Deletion

\* An address space is empty at first.
LEMMA VmmInit ==
  Init => VmmInv
<1> SUFFICES ASSUME Init PROVE VmmInv  OBVIOUS
<1> USE DEF Init
<1>1. Tidy(vass)  BY DEF Tidy, Items
<1>2. FrameTypes /\ Owned /\ Backed  BY DEF FrameTypes, Owned, Backed
<1>3. CtlInv  BY DEF CtlInv, Phases, Panics
<1>4. Threads \subseteq Stacks  BY DEF Stacks
<1>5. UseInv  BY <1>4 DEF UseInv
<1>. QED  BY <1>1, <1>2, <1>3, <1>5 DEF VmmInv, MemInv

-----------------------------------------------------------------------------
(* What is left when an address space was freed at a stale address *)

\* A page that is backed has its page table.
Tabled == \A p \in Pages : pte[p] # NONE => TableOf(p) \in tables

\* The list is sorted and frames have one use whatever was freed; frames may be lost
\* only with the page directory.
LooseInv ==
  /\ FrameTypes /\ Tidy(vass) /\ misfrees \in Nat
  /\ stack \in [Stacks -> {0} \cup Pages]
  /\ data \in {0} \cup Pages /\ windows \subseteq Pages
  /\ pc \in Phases \cup Panics
  /\ pc = "binary" => vass = <<>>
  /\ pc # "gone" => Owned /\ Tabled
  /\ pc = "gone" => tableFrames = {} /\ \A p \in Pages : pte[p] = NONE

\* The parts of LooseInv that a step that does not end the process must establish.
LEMMA LooseKept ==
  ASSUME LooseInv, pc' \in Phases \cup Panics, pc' \notin {"gone", "binary"},
         FrameTypes', Owned', Tabled', Tidy(vass'), misfrees' \in Nat,
         stack' \in [Stacks -> {0} \cup Pages], data' \in {0} \cup Pages, windows' \subseteq Pages
  PROVE  LooseInv'
BY DEF LooseInv

\* Nothing is backed or unmapped.
LEMMA LooseSame ==
  ASSUME FrameTypes, Owned, Tabled, NoCommit
  PROVE  FrameTypes' /\ Owned' /\ Tabled'
BY DEF FrameTypes, Owned, Tabled, NoCommit

\* Pages that are not mapped are backed.
LEMMA LooseCommit ==
  ASSUME FrameTypes, Owned, Tabled, NEW s \in Nat, NEW n \in Nat, Run(s, n) \subseteq Pages,
         \A p \in Run(s, n) : pte[p] = NONE, FreeRuns(n) # {}, commitVirtualPages(s, n)
  PROVE  FrameTypes' /\ Owned' /\ Tabled'
<1>1. /\ FrameTypes' /\ Owned'
      /\ \A p \in Pages : pte'[p] # NONE <=> pte[p] # NONE \/ p \in Run(s, n)
      /\ tables' = tables \cup {TableOf(p) : p \in Run(s, n)}
  BY Commit
<1>2. Tabled'  BY <1>1 DEF Tabled
<1>. QED  BY <1>1, <1>2

\* kvmm_free, at any address.
LEMMA LooseFree ==
  ASSUME FrameTypes, Owned, Tabled, Tidy(vass), NEW q \in Nat, kvmm_free(q)
  PROVE  FrameTypes' /\ Owned' /\ Tabled' /\ Tidy(vass')
<1>1. CASE find_vas(vass, q) = NONE
  <2>1. vass' = vass /\ NoCommit  BY <1>1 DEF kvmm_free, NoCommit
  <2>2. FrameTypes' /\ Owned' /\ Tabled'  BY <2>1, LooseSame
  <2>. QED  BY <2>1, <2>2
<1>2. CASE find_vas(vass, q) # NONE
  <2> DEFINE v == find_vas(vass, q)
  <2>1. /\ FrameTypes' /\ Owned' /\ Tidy(vass')
        /\ \A p \in Pages : pte'[p] = IF p \in Run(q, v.size) THEN NONE ELSE pte[p]
        /\ UNCHANGED <<tables, tableFrames>>
    BY <1>2, FreeFound
  <2> HIDE DEF v
  <2>2. Tabled'  BY <2>1 DEF Tabled
  <2>. QED  BY <2>1, <2>2
<1>. QED  BY <1>1, <1>2

\* The memmap calls of a stack.
LEMMA LooseStack ==
  ASSUME FrameTypes, Owned, Tabled, Tidy(vass), NEW k \in 0..3, NEW isKernel \in BOOLEAN, NEW next, NEW va,
         va = find_next_va(vass, StackRoom), k = 0 \/ va # 0, StackMemmaps(va, k, isKernel, next)
  PROVE  /\ FrameTypes' /\ Owned' /\ Tabled' /\ Tidy(vass')
         /\ pc' \in {next, "out of memory", "double allocation"}
         /\ va # 0 => va + 1 \in Pages
<1> DEFINE flags == StackFlags(isKernel)
<1>1. /\ vass' = WithStack(va, k, flags)
      /\ IF k < 2 \/ ~isKernel \/ FreeRuns(STACK) = {} THEN NoCommit /\ pc' = next
         ELSE IF ~AllUnmapped(va + 1, STACK) THEN NoCommit /\ pc' = "double allocation"
         ELSE IF ~CanCommit(va + 1, STACK) THEN NoCommit /\ pc' = "out of memory"
         ELSE commitVirtualPages(va + 1, STACK) /\ pc' = next
  BY DEF StackMemmaps
<1>2. flags \in Flags  BY DEF Flags, StackFlags
<1> HIDE DEF flags
<1>3. va # 0 => /\ va \in Nat /\ va >= Start /\ va + 1 + STACK < End /\ va + 1 \in Pages
                /\ \A j \in 0..3 : Tidy(WithStack(va, j, flags))
  BY <1>2, StackPlaced
<1>4. Tidy(vass')
  <2>1. CASE k = 0
    <3>1. WithStack(va, 0, flags) = vass  BY ONLY TRUE DEF WithStack
    <3>. QED  BY <1>1, <2>1, <3>1
  <2>2. CASE k # 0  BY <1>1, <1>3, <2>2
  <2>. QED  BY <2>1, <2>2
<1>5. CASE NoCommit /\ pc' \in {next, "out of memory", "double allocation"}
  <2>1. FrameTypes' /\ Owned' /\ Tabled'  BY <1>5, LooseSame
  <2>. QED  BY <1>3, <1>4, <1>5, <2>1
<1>6. CASE /\ ~(k < 2) /\ FreeRuns(STACK) # {} /\ AllUnmapped(va + 1, STACK)
           /\ commitVirtualPages(va + 1, STACK) /\ pc' = next
  <2>1. va # 0
    <3>1. k # 0  BY <1>6
    <3>. QED  BY <3>1
  <2>2. STACK \in Nat /\ va + 1 \in Nat  BY <1>3, <2>1, Numbers
  <2>3. Run(va + 1, STACK) \subseteq Pages  BY <1>3, <2>1, <2>2, Numbers DEF Run, Pages
  <2>4. \A p \in Run(va + 1, STACK) : pte[p] = NONE  BY <1>6, <2>3 DEF AllUnmapped
  <2>5. FrameTypes' /\ Owned' /\ Tabled'  BY <1>6, <2>2, <2>3, <2>4, LooseCommit
  <2>. QED  BY <1>3, <1>4, <1>6, <2>5
<1>. QED  BY <1>1, <1>5, <1>6

\* A stack that is freed again.
LEMMA LooseTakenBack ==
  ASSUME FrameTypes, Owned, Tabled, Tidy(vass), NEW isKernel \in BOOLEAN, ThreadFailsReserved(isKernel)
  PROVE  /\ FrameTypes' /\ Owned' /\ Tabled' /\ Tidy(vass')
         /\ pc' \in {"run", "out of memory", "double allocation"}
<1> DEFINE va == find_next_va(vass, StackRoom)
           flags == StackFlags(isKernel)
           commits == isKernel /\ FreeRuns(STACK) # {}
           forPT == IF commits THEN FramesForTables(va + 1, STACK) ELSE {}
<1>1. /\ StackFails(va, 2, isKernel) /\ vass' = WithStack(va, 1, flags)
      /\ IF commits /\ ~AllUnmapped(va + 1, STACK) THEN NoCommit /\ pc' = "double allocation"
         ELSE IF commits /\ ~CanCommit(va + 1, STACK) THEN NoCommit /\ pc' = "out of memory"
         ELSE /\ pte' = [p \in Pages |-> IF p \in Run(va + 1, STACK) THEN NONE ELSE pte[p]]
              /\ free' = (free \cup FramesOf(va + 1, STACK)) \ forPT
              /\ tables' = (IF commits THEN tables \cup NewTables(va + 1, STACK) ELSE tables)
              /\ tableFrames' = tableFrames \cup forPT
              /\ pc' = "run"
  BY DEF ThreadFailsReserved
<1>2. va # 0
  <2>1. 2 # 0  OBVIOUS
  <2>2. StackFails(va, 2, isKernel)  BY <1>1
  <2> HIDE DEF va
  <2>. QED  BY <2>1, <2>2 DEF StackFails
<1>3. flags \in Flags  BY DEF Flags, StackFlags
<1>4. Tidy(vass')
  <2> HIDE DEF flags
  <2>1. \A j \in 0..3 : Tidy(WithStack(va, j, flags))  BY <1>2, <1>3, StackPlaced
  <2>2. vass' = WithStack(va, 1, flags)  BY <1>1, Zenon
  <2>3. 1 \in 0..3  OBVIOUS
  <2> HIDE DEF va
  <2>. QED  BY <2>1, <2>2, <2>3
<1>5. forPT \in SUBSET free  BY DEF FramesForTables, Lowest
<1> HIDE DEF va, commits, forPT
<1>6. CASE NoCommit /\ pc' \in {"out of memory", "double allocation"}  BY <1>4, <1>6, LooseSame
<1>7. CASE /\ pte' = [p \in Pages |-> IF p \in Run(va + 1, STACK) THEN NONE ELSE pte[p]]
           /\ free' = (free \cup FramesOf(va + 1, STACK)) \ forPT
           /\ tables' = (IF commits THEN tables \cup NewTables(va + 1, STACK) ELSE tables)
           /\ tableFrames' = tableFrames \cup forPT
           /\ pc' = "run"
  <2>1. /\ FrameTypes' /\ Owned'
        /\ \A p \in Pages : pte'[p] = IF p \in Run(va + 1, STACK) THEN NONE ELSE pte[p]
    BY <1>5, <1>7, Unmapping
  <2>2. tables \subseteq tables'  BY <1>7
  <2>3. Tabled'  BY <2>1, <2>2 DEF Tabled
  <2>. QED  BY <1>4, <1>7, <2>1, <2>3
<1>. QED  BY <1>1, <1>6, <1>7

\* Every step keeps the list sorted and the use of frames exclusive.
LEMMA LooseStep ==
  LooseInv /\ [Next]_vars => LooseInv'
<1> SUFFICES ASSUME LooseInv, [Next]_vars PROVE LooseInv'  OBVIOUS
<1>0. /\ FrameTypes /\ Tidy(vass) /\ misfrees \in Nat
      /\ stack \in [Stacks -> {0} \cup Pages] /\ data \in {0} \cup Pages /\ windows \subseteq Pages
      /\ pc # "gone" => Owned /\ Tabled
  BY DEF LooseInv
<1> DEFINE Ends(new) == new \in Phases \cup Panics /\ new \notin {"gone", "binary"}
<1>p. /\ \A new \in {"stack", "data", "run", "killing", "failed"} : Ends(new)
      /\ \A new \in {"out of memory", "double allocation", "illegal access", "assertion"} : Ends(new)
  BY DEF Phases, Panics
<1> HIDE DEF Ends
<1>e. \A new : Ends(new) => new \in Phases \cup Panics /\ new \notin {"gone", "binary"}  BY DEF Ends
<1>1. CASE s_setupProcessBinaryMemory
  <2> DEFINE new == VAS(TEXT, BIN, "IMMCOMMIT")
  <2>1. /\ pc = "binary" /\ vass' = addNewVirtualAddressSpace(vass, new)
        /\ UNCHANGED <<stack, data, windows, misfrees>>
        /\ IF ~AllUnmapped(TEXT, BIN) THEN NoCommit /\ pc' = "double allocation"
           ELSE IF FreeRuns(BIN) = {} THEN NoCommit /\ pc' = "failed"
           ELSE IF ~CanCommit(TEXT, BIN) THEN NoCommit /\ pc' = "out of memory"
           ELSE commitVirtualPages(TEXT, BIN) /\ pc' = "stack"
    BY <1>1 DEF s_setupProcessBinaryMemory
  <2>2. new \in VASs /\ new.start = TEXT /\ new.size = BIN /\ NextOf(new) = TEXT + BIN
    BY Numbers DEF VAS, VASs, NextOf, Flags
  <2> HIDE DEF new
  <2>3. vass = <<>>  BY <2>1 DEF LooseInv
  <2>4. Apart(vass, TEXT, BIN)  BY <2>3 DEF Apart, Items
  <2>5. Tidy(vass')  BY <1>0, <2>1, <2>2, <2>4, Numbers, InsertTidy
  <2>6. Owned /\ Tabled  BY <1>0, <2>1
  <2>7. CASE NoCommit /\ Ends(pc')
    <3>1. FrameTypes' /\ Owned' /\ Tabled'  BY <1>0, <2>6, <2>7, LooseSame
    <3>. QED  BY <1>0, <1>e, <2>1, <2>5, <2>7, <3>1, LooseKept
  <2>8. CASE /\ AllUnmapped(TEXT, BIN) /\ FreeRuns(BIN) # {}
             /\ commitVirtualPages(TEXT, BIN) /\ Ends(pc')
    <3>1. Run(TEXT, BIN) \subseteq Pages  BY Numbers DEF Run, Pages
    <3>2. \A p \in Run(TEXT, BIN) : pte[p] = NONE  BY <2>8, <3>1 DEF AllUnmapped
    <3>3. FrameTypes' /\ Owned' /\ Tabled'  BY <1>0, <2>6, <2>8, <3>1, <3>2, Numbers, LooseCommit
    <3>. QED  BY <1>0, <1>e, <2>1, <2>5, <2>8, <3>3, LooseKept
  <2>. QED  BY <1>p, <2>1, <2>7, <2>8
<1>2. CASE s_setupProcessDataMemory
  <2> DEFINE va == find_next_va(vass, DATA)
             new == VAS(va, DATA, "NONE")
  <2>1. /\ pc = "data" /\ vass' = addNewVirtualAddressSpace(vass, new)
        /\ data' = (IF CanAdd(vass, new) THEN new.start ELSE 0)
        /\ pc' \in {"run", "failed"} /\ NoCommit /\ UNCHANGED <<stack, windows, misfrees>>
    BY <1>2 DEF s_setupProcessDataMemory, NoCommit
  <2>2. \/ ~CanAdd(vass, new) /\ vass' = vass
        \/ CanAdd(vass, new) /\ va \in Pages /\ Tidy(vass')
    <3>1. "NONE" \in Flags  BY DEF Flags
    <3>. QED  BY <1>0, <2>1, <3>1, Numbers, Reserve
  <2>3. new.start = va  BY DEF VAS
  <2> HIDE DEF va, new
  <2>4. Tidy(vass') /\ data' \in {0} \cup Pages  BY <1>0, <2>1, <2>2, <2>3
  <2>5. FrameTypes' /\ Owned' /\ Tabled'  BY <1>0, <2>1, LooseSame
  <2>. QED  BY <1>0, <1>p, <1>e, <2>1, <2>4, <2>5, LooseKept
<1>3. CASE SectionFails \/ Kill
  <2>1. /\ pc # "gone" /\ pc' \in {"failed", "killing"} /\ NoCommit
        /\ UNCHANGED <<vass, stack, data, windows, misfrees>>
    BY <1>3 DEF SectionFails, Kill, NoCommit
  <2>2. FrameTypes' /\ Owned' /\ Tabled'  BY <1>0, <2>1, LooseSame
  <2>. QED  BY <1>0, <1>p, <1>e, <2>1, <2>2, LooseKept
<1>4. ASSUME NEW t \in Stacks, NEW isKernel \in BOOLEAN, NEW next \in {"data", "run"}, pc # "gone",
             s_setupProcessStackMemory(t, isKernel, next), UNCHANGED <<data, windows, misfrees>>
      PROVE  LooseInv'
  <2> DEFINE va == find_next_va(vass, StackRoom)
  <2>1. va # 0 /\ StackMemmaps(va, 3, isKernel, next) /\ stack' = [stack EXCEPT ![t] = va + 1]
    BY <1>4 DEF s_setupProcessStackMemory
  <2>2. 3 \in 0..3 /\ Owned /\ Tabled  BY <1>0, <1>4
  <2>3. /\ FrameTypes' /\ Owned' /\ Tabled' /\ Tidy(vass') /\ va + 1 \in Pages
        /\ pc' \in {next, "out of memory", "double allocation"}
    BY <1>0, <2>1, <2>2, LooseStack
  <2> HIDE DEF va
  <2>4. stack' \in [Stacks -> {0} \cup Pages]  BY <1>0, <2>1, <2>3
  <2>5. Ends(pc')  BY <1>p, <1>4, <2>3
  <2>. QED  BY <1>0, <1>e, <1>4, <2>3, <2>4, <2>5, LooseKept
<1>5. ASSUME NEW k \in 0..2, NEW isKernel \in BOOLEAN, CreateStackFails(k, isKernel) \/ ThreadFails(k, isKernel)
      PROVE  LooseInv'
  <2> DEFINE va == find_next_va(vass, StackRoom)
  <2>1. PICK next \in {"failed", "run"} :
          /\ pc # "gone" /\ StackFails(va, k, isKernel) /\ StackMemmaps(va, k, isKernel, next)
          /\ UNCHANGED <<stack, data, windows, misfrees>>
    BY <1>5 DEF CreateStackFails, ThreadFails
  <2>2. k \in 0..3 /\ Owned /\ Tabled  BY <1>0, <2>1
  <2>3. k = 0 \/ va # 0
    <3>1. StackFails(va, k, isKernel)  BY <2>1
    <3> HIDE DEF va
    <3>. QED  BY <3>1 DEF StackFails
  <2>4. /\ FrameTypes' /\ Owned' /\ Tabled' /\ Tidy(vass')
        /\ pc' \in {next, "out of memory", "double allocation"}
    BY <1>0, <2>1, <2>2, <2>3, LooseStack
  <2>5. Ends(pc')  BY <1>p, <2>1, <2>4
  <2>. QED  BY <1>0, <1>e, <2>1, <2>4, <2>5, LooseKept
<1>6. ASSUME NEW isKernel \in BOOLEAN, ThreadFailsReserved(isKernel) PROVE LooseInv'
  <2>1. pc # "gone" /\ UNCHANGED <<stack, data, windows, misfrees>>  BY <1>6 DEF ThreadFailsReserved
  <2>2. /\ FrameTypes' /\ Owned' /\ Tabled' /\ Tidy(vass')
        /\ pc' \in {"run", "out of memory", "double allocation"}
    BY <1>0, <1>6, <2>1, LooseTakenBack
  <2>. QED  BY <1>0, <1>p, <1>e, <2>1, <2>2, LooseKept
<1>7. ASSUME NEW p \in Pages \cup {0}, ThreadFailsStale(p) PROVE LooseInv'
  <2>1. /\ pc # "gone" /\ pc' \in {"run", "assertion"} /\ UNCHANGED <<stack, data, windows>>
        /\ misfrees' \in {misfrees, misfrees + 1}
        /\ \/ UNCHANGED <<vass, pte, tables, tableFrames, free>>
           \/ kvmm_free(p)
    BY <1>7 DEF ThreadFailsStale
  <2>2. p \in Nat  BY Numbers
  <2>3. FrameTypes' /\ Owned' /\ Tabled' /\ Tidy(vass')
    <3>1. CASE UNCHANGED <<vass, pte, tables, tableFrames, free>>
      <4>1. NoCommit /\ vass' = vass  BY <3>1 DEF NoCommit
      <4>. QED  BY <1>0, <2>1, <4>1, LooseSame
    <3>2. CASE kvmm_free(p)  BY <1>0, <2>1, <2>2, <3>2, LooseFree
    <3>. QED  BY <2>1, <3>1, <3>2
  <2>4. misfrees' \in Nat  BY <1>0, <2>1
  <2>. QED  BY <1>0, <1>p, <1>e, <2>1, <2>3, <2>4, LooseKept
<1>8. ASSUME NEW t \in Threads, ThreadExit(t) \/ KillThread(t) PROVE LooseInv'
  <2>1. /\ pc \in {"run", "killing"} /\ pc' = pc /\ kvmm_free(stack[t])
        /\ stack' = [stack EXCEPT ![t] = 0] /\ UNCHANGED <<data, windows, misfrees>>
    BY <1>8 DEF ThreadExit, KillThread
  <2>2. stack[t] \in Nat /\ stack' \in [Stacks -> {0} \cup Pages]
    <3>1. t \in Stacks  BY DEF Stacks
    <3>2. stack \in [Stacks -> {0} \cup Pages]  BY <1>0
    <3>3. stack[t] \in Nat
      <4>1. \A x \in {0} \cup Pages : x \in Nat  BY Numbers
      <4>. QED  BY <3>1, <3>2, <4>1
    <3>4. stack' \in [Stacks -> {0} \cup Pages]  BY ONLY <2>1, <3>1, <3>2
    <3>. QED  BY <3>3, <3>4
  <2>3. FrameTypes' /\ Owned' /\ Tabled' /\ Tidy(vass')  BY <1>0, <2>1, <2>2, LooseFree
  <2>. QED  BY <1>0, <1>p, <1>e, <2>1, <2>2, <2>3, LooseKept
<1>9. CASE CreateWindow
  <2> DEFINE va == find_next_va(vass, WINDOW)
             new == VAS(va, WINDOW, "NONE")
  <2>1. /\ pc = "run" /\ vass' = addNewVirtualAddressSpace(vass, new) /\ CanAdd(vass, new)
        /\ windows' = windows \cup {new.start} /\ NoCommit /\ pc' = pc
        /\ UNCHANGED <<stack, data, misfrees>>
    BY <1>9 DEF CreateWindow, NoCommit
  <2>2. va \in Pages /\ Tidy(vass')
    <3>1. "NONE" \in Flags  BY DEF Flags
    <3>. QED  BY <1>0, <2>1, <3>1, Numbers, Reserve
  <2>3. new.start = va  BY DEF VAS
  <2> HIDE DEF va, new
  <2>4. windows' \subseteq Pages  BY <1>0, <2>1, <2>2, <2>3
  <2>5. FrameTypes' /\ Owned' /\ Tabled'  BY <1>0, <2>1, LooseSame
  <2>. QED  BY <1>0, <1>p, <1>e, <2>1, <2>2, <2>4, <2>5, LooseKept
<1>10. ASSUME NEW w \in windows, DestroyWindow(w) PROVE LooseInv'
  <2>1. /\ pc = "run" /\ pc' = pc /\ kvmm_free(w) /\ windows' = windows \ {w}
        /\ UNCHANGED <<stack, data, misfrees>>
    BY <1>10 DEF DestroyWindow
  <2>2. w \in Nat /\ windows' \subseteq Pages  BY <1>0, <2>1, Numbers
  <2>3. FrameTypes' /\ Owned' /\ Tabled' /\ Tidy(vass')  BY <1>0, <2>1, <2>2, LooseFree
  <2>. QED  BY <1>0, <1>p, <1>e, <2>1, <2>2, <2>3, LooseKept
<1>11. ASSUME NEW p \in Pages, PageFault(p) PROVE LooseInv'
  <2>1. /\ pc = "run" /\ pte[p] = NONE /\ UNCHANGED <<vass, stack, data, windows, misfrees>>
        /\ \/ NoCommit /\ pc' \in {"illegal access", "out of memory"}
           \/ CanCommit(p, 1) /\ commitVirtualPages(p, 1) /\ pc' = "run"
    BY <1>11 DEF PageFault
  <2>2. Owned /\ Tabled /\ Ends(pc')  BY <1>0, <1>p, <2>1
  <2>3. FrameTypes' /\ Owned' /\ Tabled'
    <3>1. CASE NoCommit  BY <1>0, <2>2, <3>1, LooseSame
    <3>2. CASE CanCommit(p, 1) /\ commitVirtualPages(p, 1)
      <4>1. p \in Nat /\ 1 \in Nat  BY Numbers
      <4>2. Run(p, 1) = {p}  BY <4>1 DEF Run
      <4>3. FreeRuns(1) # {}  BY <3>2 DEF CanCommit
      <4>4. Run(p, 1) \subseteq Pages /\ \A q \in Run(p, 1) : pte[q] = NONE  BY <2>1, <4>2
      <4>. QED  BY <1>0, <2>2, <3>2, <4>1, <4>3, <4>4, LooseCommit
    <3>. QED  BY <2>1, <3>1, <3>2
  <2>. QED  BY <1>0, <1>e, <2>1, <2>2, <2>3, LooseKept
<1>12. CASE kvmm_delete
  <2>1. /\ pc = "killing" /\ pc' = pc /\ vass # <<>> /\ kvmm_free(vass[1].start)
        /\ UNCHANGED <<stack, data, windows, misfrees>>
    BY <1>12 DEF kvmm_delete
  <2>2. vass[1].start \in Nat
    <3>1. 1 \in 1..Len(vass)  BY <1>0, <2>1 DEF Tidy
    <3>. QED  BY <1>0, <3>1, TidyItem
  <2>3. FrameTypes' /\ Owned' /\ Tabled' /\ Tidy(vass')  BY <1>0, <2>1, <2>2, LooseFree
  <2>. QED  BY <1>0, <1>p, <1>e, <2>1, <2>3, LooseKept
<1>13. CASE kpg_deletePageDirectory
  <2>1. /\ vass' = vass /\ pc' = "gone" /\ misfrees' = misfrees
        /\ tableFrames' = {} /\ free' = free \cup tableFrames /\ pte' = [p \in Pages |-> NONE]
        /\ stack' = [stack EXCEPT ![MAIN] = 0] /\ data' = 0 /\ windows' = {}
    BY <1>13 DEF kpg_deletePageDirectory
  <2>2. FrameTypes'  BY <1>0, <2>1 DEF FrameTypes
  <2>3. stack' \in [Stacks -> {0} \cup Pages]  BY <1>0, <2>1
  <2>4. \A p \in Pages : pte'[p] = NONE  BY <2>1
  <2>. QED  BY <1>0, <2>1, <2>2, <2>3, <2>4 DEF LooseInv, Phases
<1>14. CASE UNCHANGED vars
  <2>1. UNCHANGED <<vass, pte, tables, tableFrames, free, stack, data, windows, misfrees, pc>>
    BY <1>14 DEF vars
  <2>. QED  BY <2>1 DEF LooseInv, FrameTypes, Owned, Tabled
<1>15. CASE Ended  BY <1>14, <1>15 DEF Ended
<1>16. ASSUME NEW isKernel \in BOOLEAN, CreateStack(isKernel) PROVE LooseInv'
  <2>1. MAIN \in Stacks  BY DEF Stacks
  <2>. QED  BY <1>4, <1>16, <2>1 DEF CreateStack
<1>17. ASSUME NEW t \in Threads, NEW isKernel \in BOOLEAN, CreateThread(t, isKernel) PROVE LooseInv'
  <2>1. t \in Stacks  BY DEF Stacks
  <2>. QED  BY <1>4, <1>17, <2>1 DEF CreateThread
<1>. QED
  BY <1>1, <1>2, <1>3, <1>5, <1>6, <1>7, <1>8, <1>9, <1>10, <1>11, <1>12, <1>13, <1>14, <1>15,
     <1>16, <1>17
  DEF Next, Deletion

\* Frees at a stale address are not forgotten.
LEMMA MisfreesGrow ==
  ASSUME misfrees \in Nat, [Next]_vars
  PROVE  misfrees' \in {misfrees, misfrees + 1}
<1>1. CASE UNCHANGED vars  BY <1>1 DEF vars
<1>2. ASSUME NEW p \in Pages \cup {0}, ThreadFailsStale(p) PROVE misfrees' \in {misfrees, misfrees + 1}
  BY <1>2 DEF ThreadFailsStale
<1>3. CASE \/ s_setupProcessBinaryMemory \/ s_setupProcessDataMemory \/ SectionFails \/ CreateWindow
           \/ Kill \/ kvmm_delete \/ kpg_deletePageDirectory \/ Ended
  BY <1>3 DEF s_setupProcessBinaryMemory, s_setupProcessDataMemory, SectionFails, CreateWindow, Kill,
              kvmm_delete, kpg_deletePageDirectory, Ended, vars
<1>4. ASSUME NEW k \in 0..2, NEW isKernel \in BOOLEAN,
             \/ CreateStackFails(k, isKernel) \/ ThreadFails(k, isKernel)
             \/ ThreadFailsReserved(isKernel) \/ CreateStack(isKernel)
      PROVE  misfrees' = misfrees
  BY <1>4 DEF CreateStackFails, ThreadFails, ThreadFailsReserved, CreateStack
<1>5. ASSUME NEW t \in Threads, NEW isKernel \in BOOLEAN,
             CreateThread(t, isKernel) \/ ThreadExit(t) \/ KillThread(t)
      PROVE  misfrees' = misfrees
  BY <1>5 DEF CreateThread, ThreadExit, KillThread
<1>6. ASSUME NEW p \in Pages, PageFault(p) PROVE misfrees' = misfrees  BY <1>6 DEF PageFault
<1>7. ASSUME NEW w \in windows, DestroyWindow(w) PROVE misfrees' = misfrees  BY <1>7 DEF DestroyWindow
<1>8. 0 \in 0..2 /\ TRUE \in BOOLEAN  OBVIOUS
<1>. QED  BY <1>1, <1>2, <1>3, <1>4, <1>5, <1>6, <1>7, <1>8 DEF Next, Deletion

\* Until the first free at a stale address everything is in order; after it, LooseInv.
FullInv == LooseInv /\ (misfrees = 0 => VmmInv)

LEMMA FullInit ==
  Init => FullInv
<1> SUFFICES ASSUME Init PROVE FullInv  OBVIOUS
<1>1. VmmInv  BY VmmInit
<1>2. Tabled  BY DEF Init, Tabled
<1>3. LooseInv  BY <1>1, <1>2 DEF VmmInv, MemInv, CtlInv, LooseInv, Init
<1>. QED  BY <1>1, <1>3 DEF FullInv

LEMMA FullStep ==
  FullInv /\ [Next]_vars => FullInv'
<1> SUFFICES ASSUME FullInv, [Next]_vars PROVE FullInv'  OBVIOUS
<1>1. LooseInv'  BY LooseStep DEF FullInv
<1>2. ASSUME misfrees' = 0 PROVE VmmInv'
  <2>1. misfrees \in Nat  BY DEF FullInv, LooseInv
  <2>2. misfrees = 0  BY <1>2, <2>1, MisfreesGrow
  <2>3. VmmInv  BY <2>2 DEF FullInv
  <2>. QED  BY <1>2, <2>2, <2>3, VmmStep
<1>. QED  BY <1>1, <1>2 DEF FullInv

-----------------------------------------------------------------------------
(* Theorems *)

\* The list of address spaces stays sorted and free of overlaps, although
\* addNewVirtualAddressSpace does not notice a VAS that would enclose another: the gaps
\* that find_next_va finds never let that happen.
THEOREM SortedCorrect == Spec => []Sorted
<1>1. FullInv => Sorted  BY DEF FullInv, LooseInv, Tidy, Sorted
<1>. QED  BY <1>1, FullInit, FullStep, PTL DEF Spec

\* Frames keep one owner each after every call of kvmm_memmap, kvmm_free and
\* kvmm_commitPage, those that fail half-way and frees at a stale address included. As
\* long as nothing was freed at a stale address (kprocess_kill_process for a thread whose
\* stack was never placed), pages are backed only where they are reserved, kpg_map never
\* meets a page that is mapped, and a process that is gone leaves no frame behind.
THEOREM BackingCorrect == Spec => []BackingOK
<1>1. FullInv => BackingOK
  <2> SUFFICES ASSUME FullInv PROVE BackingOK  OBVIOUS
  <2>0. LooseInv /\ FrameTypes /\ Tidy(vass)  BY DEF FullInv, LooseInv
  <2>1. TypeOK
    <3>1. \A v \in Items(vass) : v \in VASs  BY <2>0, TidyVas
    <3>. QED  BY <2>0, <3>1 DEF TypeOK, VASs, FrameTypes, LooseInv
  <2>2. ASSUME misfrees = 0 PROVE BackedIsReserved /\ (pc = "gone" => free = Frames)
    <3>0. CtlInv /\ Backed  BY <2>2 DEF FullInv, VmmInv, MemInv
    <3>1. ASSUME NEW p \in Pages, pte[p] # NONE
          PROVE  find_vas(vass, p) # NONE /\ find_vas(vass, p).flags # "NULLPAGE"
      <4>1. PICK v \in Items(vass) : v.start <= p /\ p < NextOf(v) /\ v.flags # "NULLPAGE"
        BY <3>0, <3>1 DEF Backed
      <4>2. p \in Nat  BY Numbers
      <4>3. find_vas(vass, p) = v  BY <2>0, <4>1, <4>2, FindVas
      <4>4. v # NONE  BY <2>0, <4>1, TidyVas
      <4>. QED  BY <4>1, <4>3, <4>4
    <3>. QED  BY <3>0, <3>1 DEF BackedIsReserved, CtlInv
  <2>3. FramesOwned
    <3> DEFINE backing == {pte[p] : p \in Pages} \ {NONE}
    <3>1. \A f : f \in backing <=> \E p \in Pages : pte[p] # NONE /\ pte[p] = f  OBVIOUS
    <3> HIDE DEF backing
    <3>2. free \cup backing \cup tableFrames \subseteq Frames  BY <2>0, <3>1 DEF FrameTypes
    <3>3. CASE pc # "gone"
      <4>0. Owned /\ Tabled  BY <2>0, <3>3 DEF LooseInv
      <4>1. free \cap (backing \cup tableFrames) = {} /\ backing \cap tableFrames = {}
        BY <3>1, <4>0 DEF Owned
      <4>2. ASSUME NEW f \in Frames PROVE f \in free \cup backing \cup tableFrames
        <5>1. f # NONE  BY Numbers
        <5>. QED  BY <3>1, <4>0, <5>1 DEF Owned
      <4>3. \A p, q \in Pages : pte[p] # NONE /\ pte[p] = pte[q] => p = q  BY <4>0 DEF Owned
      <4>4. free \cup backing \cup tableFrames = Frames  BY <3>2, <4>2
      <4>5. \A p \in Pages : pte[p] # NONE => TableOf(p) \in tables  BY <4>0 DEF Tabled
      <4>. QED  BY <4>1, <4>3, <4>4, <4>5 DEF FramesOwned, backing
    <3>4. CASE pc = "gone"
      <4>1. tableFrames = {} /\ \A p \in Pages : pte[p] = NONE  BY <2>0, <3>4 DEF LooseInv
      <4>2. backing = {}  BY <3>1, <4>1
      <4>. QED  BY <3>4, <4>1, <4>2 DEF FramesOwned, backing
    <3>. QED  BY <3>3, <3>4
  <2>. QED  BY <2>1, <2>2, <2>3 DEF BackingOK
<1>. QED  BY <1>1, FullInit, FullStep, PTL DEF Spec

\* Binary, data, stacks and windows of a process that runs can all be accessed
\* (kvmm_commitPage), however its address space was freed and used again, as long as
\* kprocess_kill_process freed none of it at a stale address.
THEOREM SectionsCorrect == Spec => []SectionsUsable
<1>1. FullInv => SectionsUsable
  <2> SUFFICES ASSUME VmmInv, pc = "run" PROVE SectionsUsable  BY DEF SectionsUsable, FullInv
  <2>0. UseInv /\ Tidy(vass)  BY DEF VmmInv, MemInv
  <2> DEFINE usable(p) ==
        /\ p \in Pages
        /\ pte[p] # NONE \/ (find_vas(vass, p) # NONE /\ find_vas(vass, p).flags = "NONE")
  <2>1. ASSUME NEW s, NEW n, Section(vass, pte, s, n), NEW p \in Run(s, n) PROVE usable(p)
    <3>1. PICK v \in Items(vass) :
            /\ v.start = s /\ v.size = n /\ v.flags # "NULLPAGE"
            /\ v.flags = "IMMCOMMIT" => \A q \in Pages : q \in Run(s, n) => pte[q] # NONE
      BY <2>1 DEF Section
    <3>2. /\ s \in Nat /\ n \in Nat /\ s >= Start /\ NextOf(v) = s + n /\ NextOf(v) <= End
          /\ v.flags \in Flags /\ v # NONE
      BY <2>0, <3>1, TidyVas
    <3>3. p \in Nat /\ s <= p /\ p < s + n  BY <3>2 DEF Run
    <3>4. p \in Pages  BY <3>2, <3>3, Numbers DEF Pages
    <3>5. find_vas(vass, p) = v  BY <2>0, <3>1, <3>2, <3>3, FindVas
    <3>. QED  BY <2>1, <3>1, <3>2, <3>4, <3>5 DEF Flags
  <2> HIDE DEF usable
  <2>2. /\ Section(vass, pte, TEXT, BIN) /\ Section(vass, pte, data, DATA)
        /\ \A t \in Stacks : stack[t] # 0 => Section(vass, pte, stack[t], STACK)
        /\ \A w \in windows : Section(vass, pte, w, WINDOW)
    BY <2>0 DEF UseInv
  <2>3. /\ \A p \in Run(TEXT, BIN) \cup Run(data, DATA) : usable(p)
        /\ \A t \in Stacks : stack[t] # 0 => \A p \in Run(stack[t], STACK) : usable(p)
        /\ \A w \in windows : \A p \in Run(w, WINDOW) : usable(p)
    BY <2>1, <2>2
  <2>. QED  BY <2>3 DEF SectionsUsable, usable
<1>. QED  BY <1>1, FullInit, FullStep, PTL DEF Spec

\* Every stack keeps a page on each side that is never backed (s_setupProcessStackMemory),
\* as long as kprocess_kill_process freed nothing at a stale address.
THEOREM StacksCorrect == Spec => []StacksGuarded
<1>1. FullInv => StacksGuarded
  <2> SUFFICES ASSUME VmmInv, pc = "run", NEW t \in Stacks, stack[t] # 0,
                      NEW g \in {stack[t] - 1, stack[t] + STACK}
               PROVE  find_vas(vass, g) # NONE /\ find_vas(vass, g).flags = "NULLPAGE"
    BY DEF StacksGuarded, FullInv
  <2>0. UseInv /\ CtlInv /\ Tidy(vass)  BY DEF VmmInv, MemInv
  <2>1. Guard(vass, g)  BY <2>0 DEF UseInv
  <2>2. stack[t] \in Nat /\ stack[t] > 0
    <3>1. stack[t] \in {0} \cup Pages  BY <2>0 DEF CtlInv
    <3>2. stack[t] \in Pages  BY <3>1
    <3>. QED  BY <3>2, Numbers DEF Pages
  <2>3. g \in Nat  BY <2>2, Numbers
  <2> DEFINE v == VAS(g, 1, "NULLPAGE")
  <2>4. v.start = g /\ v.flags = "NULLPAGE" /\ NextOf(v) = g + 1  BY DEF VAS, NextOf
  <2>5. v \in Items(vass)  BY <2>1 DEF Guard
  <2> HIDE DEF v
  <2>6. find_vas(vass, g) = v  BY <2>0, <2>3, <2>4, <2>5, FindVas
  <2>7. v # NONE  BY <2>0, <2>5, TidyVas
  <2>. QED  BY <2>4, <2>6, <2>7
<1>. QED  BY <1>1, FullInit, FullStep, PTL DEF Spec
=============================================================================
