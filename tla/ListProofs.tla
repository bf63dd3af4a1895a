----------------------------- MODULE ListProofs -----------------------------
(* What the list operations keep and change, for lists without repetitions, and
   that a search among numbers finds the first one; quotients and remainders. *)
EXTENDS IntrusiveList, WellFoundedInduction, TLAPS

\* Every set of numbers that is not empty has a least one. Applied to the numbers that
\* lack a property, it is induction.
LEMMA LeastNumber ==
  ASSUME NEW T, T \subseteq Nat, T # {}
  PROVE  \E x \in T : \A y \in T : x <= y
<1> DEFINE R == OpToRel(<, Nat)
<1>1. IsWellFoundedOn(R, Nat)  BY NatLessThanWellFounded
<1>2. ASSUME NEW x \in Nat, NEW y \in Nat, <<y, x>> \notin R PROVE x <= y
  BY <1>2 DEF OpToRel
<1> HIDE DEF R
<1>3. PICK x \in T : \A y \in T : <<y, x>> \notin R  BY <1>1, WFMin
<1>4. \A y \in T : x <= y  BY <1>2, <1>3
<1>. QED  BY <1>4

\* Quotient and remainder, as names that the provers can calculate with.
LEMMA DivMod ==
  ASSUME NEW a \in Nat, NEW m \in Nat, m > 0
  PROVE  \E q \in Nat, r \in 0..(m - 1) : q = a \div m /\ r = a % m /\ a = m * q + r
<1>1. a \div m \in Nat /\ a % m \in 0..(m - 1)  OBVIOUS
<1>2. ASSUME NEW q \in Nat, NEW r \in Nat, q = a \div m, r = a % m PROVE a = m * q + r  BY <1>2
<1>. QED  BY <1>1, <1>2

\* They are the only ones.
LEMMA DivModUnique ==
  ASSUME NEW a \in Nat, NEW m \in Nat, m > 0, NEW q \in Nat, NEW r \in 0..(m - 1), a = m * q + r
  PROVE  a \div m = q /\ a % m = r
<1>1. a \div m = q  OBVIOUS
<1>2. a % m = r  OBVIOUS
<1>. QED  BY <1>1, <1>2

\* The position of an item of a list is a position that holds it.
LEMMA AtPosition ==
  ASSUME NEW s, NEW x \in Items(s)
  PROVE  At(s, x) \in 1..Len(s) /\ s[At(s, x)] = x
BY DEF At, Items

\* list_remove yields a list over the same set, shorter by one if x was there.
LEMMA RemoveType ==
  ASSUME NEW S, NEW s \in Seq(S), NEW x
  PROVE  /\ list_remove(s, x) \in Seq(S)
         /\ Len(list_remove(s, x)) = IF x \in Items(s) THEN Len(s) - 1 ELSE Len(s)
<1>1. CASE x \in Items(s)
  <2>1. At(s, x) \in 1..Len(s)  BY <1>1, AtPosition
  <2>2. Len(s) \in Nat /\ Len(s) - 1 \in Nat  BY <2>1
  <2>3. \A i \in 1..Len(s) : s[i] \in S  OBVIOUS
  <2>. QED  BY <1>1, <2>1, <2>2, <2>3 DEF list_remove
<1>2. CASE x \notin Items(s)
  BY <1>2 DEF list_remove
<1>. QED  BY <1>1, <1>2

\* list_remove takes out x and nothing else, and repeats nothing.
LEMMA RemoveItems ==
  ASSUME NEW S, NEW s \in Seq(S), NEW x, NoRepeats(s)
  PROVE  /\ Items(list_remove(s, x)) = Items(s) \ {x}
         /\ NoRepeats(list_remove(s, x))
<1>1. CASE x \notin Items(s)
  BY <1>1 DEF list_remove
<1>2. CASE x \in Items(s)
  <2> DEFINE a == At(s, x)
             r == list_remove(s, x)
  <2>1. a \in 1..Len(s) /\ s[a] = x  BY <1>2, AtPosition
  <2> HIDE DEF a
  <2>2. Len(s) \in Nat /\ Len(s) - 1 \in Nat  BY <2>1
  <2>3. r = [i \in 1..(Len(s) - 1) |-> IF i < a THEN s[i] ELSE s[i + 1]]
    BY <1>2 DEF list_remove, a
  <2>4. Len(r) = Len(s) - 1  BY <1>2, RemoveType
  <2> HIDE DEF r
  <2>5. \A i \in 1..Len(r) : r[i] = IF i < a THEN s[i] ELSE s[i + 1]
    BY <2>3, <2>4
  <2>6. Items(r) \subseteq Items(s) \ {x}
    <3> SUFFICES ASSUME NEW i \in 1..Len(r) PROVE r[i] \in Items(s) /\ r[i] # x
      BY DEF Items
    <3>1. CASE i < a
      BY <3>1, <2>1, <2>2, <2>4, <2>5 DEF NoRepeats, Items
    <3>2. CASE ~(i < a)
      <4>1. i + 1 \in 1..Len(s) /\ i + 1 # a  BY <3>2, <2>1, <2>2, <2>4
      <4>. QED  BY <4>1, <3>2, <2>1, <2>5 DEF NoRepeats, Items
    <3>. QED  BY <3>1, <3>2
  <2>7. Items(s) \ {x} \subseteq Items(r)
    <3> SUFFICES ASSUME NEW i \in 1..Len(s), s[i] # x PROVE s[i] \in Items(r)
      BY DEF Items
    <3>1. CASE i < a
      <4>1. i \in 1..Len(r) /\ r[i] = s[i]  BY <3>1, <2>1, <2>2, <2>4, <2>5
      <4>. QED  BY <4>1 DEF Items
    <3>2. CASE ~(i < a)
      <4>1. i # a  BY <2>1
      <4>2. i - 1 \in 1..Len(r) /\ ~(i - 1 < a)  BY <4>1, <3>2, <2>1, <2>2, <2>4
      <4>3. r[i - 1] = s[i]  BY <4>2, <2>5, <2>2
      <4>. QED  BY <4>2, <4>3 DEF Items
    <3>. QED  BY <3>1, <3>2
  <2>8. NoRepeats(r)
    <3> SUFFICES ASSUME NEW i \in 1..Len(r), NEW j \in 1..Len(r), r[i] = r[j]
                 PROVE  i = j
      BY DEF NoRepeats
    <3>1. /\ r[i] = s[IF i < a THEN i ELSE i + 1]
          /\ r[j] = s[IF j < a THEN j ELSE j + 1]
      BY <2>5
    <3>2. /\ (IF i < a THEN i ELSE i + 1) \in 1..Len(s)
          /\ (IF j < a THEN j ELSE j + 1) \in 1..Len(s)
      BY <2>1, <2>2, <2>4
    <3>3. (IF i < a THEN i ELSE i + 1) = (IF j < a THEN j ELSE j + 1)
      BY <3>1, <3>2 DEF NoRepeats
    <3>. QED  BY <3>3, <2>1, <2>2, <2>4
  <2>. QED  BY <2>6, <2>7, <2>8 DEF r
<1>. QED  BY <1>1, <1>2

\* Append adds x to the items, and repeats nothing if x is new.
LEMMA AppendItems ==
  ASSUME NEW S, NEW s \in Seq(S), NEW x \in S
  PROVE  /\ Append(s, x) \in Seq(S)
         /\ Items(Append(s, x)) = Items(s) \cup {x}
         /\ NoRepeats(s) /\ x \notin Items(s) => NoRepeats(Append(s, x))
<1>1. /\ Append(s, x) \in Seq(S)
      /\ Len(s) \in Nat
      /\ Len(Append(s, x)) = Len(s) + 1
      /\ \A i \in 1..(Len(s) + 1) :
           Append(s, x)[i] = IF i = Len(s) + 1 THEN x ELSE s[i]
  OBVIOUS
<1>2. Items(Append(s, x)) = Items(s) \cup {x}
  BY <1>1 DEF Items
<1>3. NoRepeats(s) /\ x \notin Items(s) => NoRepeats(Append(s, x))
  BY <1>1 DEF Items, NoRepeats
<1>. QED  BY <1>1, <1>2, <1>3

\* Taking the first item off a list.
LEMMA TailItems ==
  ASSUME NEW S, NEW s \in Seq(S), s # <<>>, NoRepeats(s)
  PROVE  /\ Tail(s) \in Seq(S) /\ Head(s) \in S
         /\ Head(s) \in Items(s)
         /\ Items(Tail(s)) = Items(s) \ {Head(s)}
         /\ NoRepeats(Tail(s))
<1>1. /\ Tail(s) \in Seq(S) /\ Len(s) \in Nat \ {0}
      /\ Len(Tail(s)) = Len(s) - 1 /\ Head(s) = s[1]
      /\ \A i \in 1..(Len(s) - 1) : Tail(s)[i] = s[i + 1]
  OBVIOUS
<1>2. 1 \in 1..Len(s)  BY <1>1
<1>3. Items(Tail(s)) \subseteq Items(s) \ {Head(s)}
  BY <1>1, <1>2 DEF Items, NoRepeats
<1>4. Items(s) \ {Head(s)} \subseteq Items(Tail(s))
  <2> SUFFICES ASSUME NEW i \in 1..Len(s), s[i] # s[1] PROVE s[i] \in Items(Tail(s))
    BY <1>1 DEF Items
  <2>1. i - 1 \in 1..(Len(s) - 1)  BY <1>1
  <2>2. Tail(s)[i - 1] = s[i]  BY <2>1, <1>1
  <2>. QED  BY <2>1, <2>2, <1>1 DEF Items
<1>5. NoRepeats(Tail(s))
  <2> SUFFICES ASSUME NEW i \in 1..Len(Tail(s)), NEW j \in 1..Len(Tail(s)),
                      Tail(s)[i] = Tail(s)[j]
               PROVE  i = j
    BY DEF NoRepeats
  <2>1. i + 1 \in 1..Len(s) /\ j + 1 \in 1..Len(s) /\ s[i + 1] = s[j + 1]  BY <1>1
  <2>. QED  BY <2>1, <1>1 DEF NoRepeats
<1>6. Head(s) \in S /\ Head(s) \in Items(s)
  <2>1. s[1] \in S /\ s[1] \in Items(s)  BY <1>2 DEF Items
  <2>. QED  BY <2>1, <1>1
<1>7. Items(Tail(s)) = Items(s) \ {Head(s)}  BY <1>3, <1>4, Zenon
<1>. QED  BY <1>1, <1>5, <1>6, <1>7, Zenon

\* In a list without repetitions list_remove takes out one position.
LEMMA ListRemoveAt ==
  ASSUME NEW S, NEW s \in Seq(S), NoRepeats(s), NEW k \in 1..Len(s)
  PROVE  /\ list_remove(s, s[k]) \in Seq(S)
         /\ Len(list_remove(s, s[k])) = Len(s) - 1
         /\ \A i \in 1..(Len(s) - 1) :
              list_remove(s, s[k])[i] = IF i < k THEN s[i] ELSE s[i + 1]
<1>1. s[k] \in Items(s)  BY DEF Items
<1>2. At(s, s[k]) \in 1..Len(s) /\ s[At(s, s[k])] = s[k]  BY <1>1, AtPosition
<1>3. At(s, s[k]) = k  BY <1>2 DEF NoRepeats
<1>4. list_remove(s, s[k]) = [i \in 1..(Len(s) - 1) |-> IF i < k THEN s[i] ELSE s[i + 1]]
  BY <1>1, <1>3 DEF list_remove
<1>5. /\ list_remove(s, s[k]) \in Seq(S)
      /\ Len(list_remove(s, s[k])) = Len(s) - 1
  BY <1>1, RemoveType
<1>. QED  BY <1>4, <1>5

\* list_add_after puts x behind y and moves nothing else.
LEMMA AddAfterAt ==
  ASSUME NEW S, NEW s \in Seq(S), NEW x \in S, NoRepeats(s), NEW k \in 1..Len(s)
  PROVE  /\ list_add_after(s, s[k], x) \in Seq(S)
         /\ Len(list_add_after(s, s[k], x)) = Len(s) + 1
         /\ \A i \in 1..(Len(s) + 1) :
              list_add_after(s, s[k], x)[i] =
                IF i <= k THEN s[i] ELSE IF i = k + 1 THEN x ELSE s[i - 1]
<1>1. s[k] \in Items(s)  BY DEF Items
<1>2. At(s, s[k]) \in 1..Len(s) /\ s[At(s, s[k])] = s[k]  BY <1>1, AtPosition
<1>3. At(s, s[k]) = k  BY <1>2 DEF NoRepeats
<1> DEFINE r == [i \in 1..(Len(s) + 1) |-> IF i <= k THEN s[i]
                                           ELSE IF i = k + 1 THEN x ELSE s[i - 1]]
<1>4. list_add_after(s, s[k], x) = r  BY <1>3 DEF list_add_after
<1>5. Len(s) \in Nat /\ \A i \in 1..Len(s) : s[i] \in S  OBVIOUS
<1>6. \A i \in 1..(Len(s) + 1) : r[i] \in S  BY <1>5
<1>7. r \in Seq(S) /\ Len(r) = Len(s) + 1  BY <1>5, <1>6
<1>. QED  BY <1>4, <1>7

\* list_add_after adds x to the items, and repeats nothing if x is new.
LEMMA AddAfterItems ==
  ASSUME NEW S, NEW s \in Seq(S), NEW x \in S, NoRepeats(s), NEW y \in Items(s),
         x \notin Items(s)
  PROVE  /\ list_add_after(s, y, x) \in Seq(S)
         /\ Items(list_add_after(s, y, x)) = Items(s) \cup {x}
         /\ NoRepeats(list_add_after(s, y, x))
<1>1. PICK k \in 1..Len(s) : y = s[k]  BY DEF Items
<1> DEFINE r == list_add_after(s, s[k], x)
<1>2. /\ r \in Seq(S) /\ Len(r) = Len(s) + 1
      /\ \A i \in 1..(Len(s) + 1) :
            r[i] = IF i <= k THEN s[i] ELSE IF i = k + 1 THEN x ELSE s[i - 1]
  BY AddAfterAt
<1>3. Len(s) \in Nat  OBVIOUS
<1> HIDE DEF r
<1>4. Items(r) \subseteq Items(s) \cup {x}
  <2> SUFFICES ASSUME NEW i \in 1..(Len(s) + 1) PROVE r[i] \in Items(s) \cup {x}
    BY <1>2 DEF Items
  <2>1. CASE i <= k  BY <2>1, <1>2, <1>3 DEF Items
  <2>2. CASE i = k + 1  BY <2>2, <1>2, <1>3
  <2>3. CASE i > k + 1
    <3>1. i - 1 \in 1..Len(s) /\ r[i] = s[i - 1]  BY <2>3, <1>2, <1>3
    <3>. QED  BY <3>1 DEF Items
  <2>. QED  BY <2>1, <2>2, <2>3, <1>3
<1>5. Items(s) \cup {x} \subseteq Items(r)
  <2>1. r[k + 1] = x /\ k + 1 \in 1..Len(r)  BY <1>2, <1>3
  <2>2. ASSUME NEW i \in 1..Len(s) PROVE s[i] \in Items(r)
    <3>1. CASE i <= k
      <4>1. i \in 1..Len(r) /\ r[i] = s[i]  BY <3>1, <1>2, <1>3
      <4>. QED  BY <4>1 DEF Items
    <3>2. CASE i > k
      <4>1. i + 1 \in 1..Len(r) /\ r[i + 1] = s[i]  BY <3>2, <1>2, <1>3
      <4>. QED  BY <4>1 DEF Items
    <3>. QED  BY <3>1, <3>2, <1>3
  <2>. QED  BY <2>1, <2>2 DEF Items
<1>6. NoRepeats(r)
  <2> SUFFICES ASSUME NEW i \in 1..Len(r), NEW j \in 1..Len(r), r[i] = r[j] PROVE i = j
    BY DEF NoRepeats
  <2>1. \A n \in 1..Len(s) : s[n] # x  BY DEF Items
  <2> DEFINE from(n) == IF n <= k THEN n ELSE n - 1
  <2>2. \A n \in 1..Len(r) : n # k + 1 => from(n) \in 1..Len(s) /\ r[n] = s[from(n)]
    BY <1>2, <1>3
  <2>3. r[k + 1] = x  BY <1>2, <1>3
  <2>4. CASE i = k + 1 \/ j = k + 1  BY <2>1, <2>2, <2>3, <2>4
  <2>5. CASE i # k + 1 /\ j # k + 1
    <3>1. from(i) = from(j)  BY <2>2, <2>5 DEF NoRepeats
    <3>. QED  BY <3>1, <2>5, <1>2, <1>3
  <2>. QED  BY <2>4, <2>5
<1>. QED  BY <1>1, <1>2, <1>4, <1>5, <1>6 DEF r

\* An item put in front of a list.
LEMMA FrontItems ==
  ASSUME NEW S, NEW s \in Seq(S), NEW x \in S, NoRepeats(s), x \notin Items(s)
  PROVE  /\ <<x>> \o s \in Seq(S)
         /\ Items(<<x>> \o s) = Items(s) \cup {x}
         /\ NoRepeats(<<x>> \o s)
<1> DEFINE r == <<x>> \o s
<1>1. /\ r \in Seq(S) /\ Len(s) \in Nat /\ Len(r) = Len(s) + 1
      /\ \A i \in 1..(Len(s) + 1) : r[i] = IF i = 1 THEN x ELSE s[i - 1]
  OBVIOUS
<1> HIDE DEF r
<1>2. Items(r) \subseteq Items(s) \cup {x}
  <2> SUFFICES ASSUME NEW i \in 1..(Len(s) + 1) PROVE r[i] \in Items(s) \cup {x}
    BY <1>1 DEF Items
  <2>1. CASE i = 1  BY <2>1, <1>1
  <2>2. CASE i # 1
    <3>1. i - 1 \in 1..Len(s) /\ r[i] = s[i - 1]  BY <2>2, <1>1
    <3>. QED  BY <3>1 DEF Items
  <2>. QED  BY <2>1, <2>2
<1>3. Items(s) \cup {x} \subseteq Items(r)
  <2>1. r[1] = x /\ 1 \in 1..Len(r)  BY <1>1
  <2>2. ASSUME NEW i \in 1..Len(s) PROVE s[i] \in Items(r)
    <3>1. i + 1 \in 1..Len(r) /\ r[i + 1] = s[i]  BY <1>1
    <3>. QED  BY <3>1 DEF Items
  <2>. QED  BY <2>1, <2>2 DEF Items
<1>4. NoRepeats(r)
  <2> SUFFICES ASSUME NEW i \in 1..Len(r), NEW j \in 1..Len(r), r[i] = r[j] PROVE i = j
    BY DEF NoRepeats
  <2>1. \A n \in 1..Len(s) : s[n] # x  BY DEF Items
  <2>2. \A n \in 1..Len(r) : n # 1 => n - 1 \in 1..Len(s) /\ r[n] = s[n - 1]
    BY <1>1
  <2>3. r[1] = x  BY <1>1
  <2>4. CASE i = 1 \/ j = 1  BY <2>1, <2>2, <2>3, <2>4
  <2>5. CASE i # 1 /\ j # 1
    <3>1. i - 1 = j - 1  BY <2>2, <2>5 DEF NoRepeats
    <3>. QED  BY <3>1, <1>1
  <2>. QED  BY <2>4, <2>5
<1>. QED  BY <1>1, <1>2, <1>3, <1>4 DEF r
=============================================================================
