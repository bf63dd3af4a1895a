--------------------------- MODULE IntrusiveList ---------------------------
(***************************************************************************)
(* The circular lists of include/intrusive_list.h and intrusive_queue.h,   *)
(* as the sequence of their items from head->next to head->prev. Adding    *)
(* before the head (list_add_before, enqueue) is Append, adding after it   *)
(* puts the item first, and dequeue is Head and Tail.                      *)
(***************************************************************************)
EXTENDS Naturals, Sequences

Items(s) == {s[i] : i \in 1..Len(s)}

\* No item is linked twice.
NoRepeats(s) == \A i, j \in 1..Len(s) : s[i] = s[j] => i = j

At(s, x) == CHOOSE i \in 1..Len(s) : s[i] = x

\* The node stays linked. (Definitions named Mut_... are faulty variants of the
\* definition that follows them. No action uses them: they show that the
\* properties notice the fault.)
Mut_list_remove(s, x) == s

\* Unlinks item x wherever it is. A node that points to itself (list_init) is in
\* no list and unlinking it changes nothing; a node that was unlinked already has
\* NULL links and may not be unlinked again.
list_remove(s, x) ==
  IF x \in Items(s)
  THEN [i \in 1..(Len(s) - 1) |-> IF i < At(s, x) THEN s[i] ELSE s[i + 1]]
  ELSE s

\* Links item x behind item y.
list_add_after(s, y, x) ==
  [i \in 1..(Len(s) + 1) |-> IF i <= At(s, y) THEN s[i]
                             ELSE IF i = At(s, y) + 1 THEN x
                             ELSE s[i - 1]]
=============================================================================
