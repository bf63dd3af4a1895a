-------------------------------- MODULE Heap --------------------------------
(***************************************************************************)
(* What a heap promises to its callers: blocks that lie inside the buffer, *)
(* that no other block overlaps, and that stay where they are until they   *)
(* are freed. Nothing is said of headers, lists or of the search.          *)
(***************************************************************************)
EXTENDS Naturals

CONSTANTS
  Size,       \* bytes in the buffer
  Lengths     \* lengths that callers ask for

VARIABLE blocks   \* the <<start, length>> of each block that callers hold

Init == blocks = {}

Apart(s, n, b) == s # b[1] /\ (s + n <= b[1] \/ b[1] + b[2] <= s)

\* A call without room for the block fails, which changes nothing.
Allocate(n) ==
  \E s \in 0..Size :
    /\ s + n <= Size
    /\ \A b \in blocks : Apart(s, n, b)
    /\ blocks' = blocks \cup {<<s, n>>}

Release(b) == blocks' = blocks \ {b}

Next == \/ \E n \in Lengths : Allocate(n)
        \/ \E b \in blocks : Release(b)

Spec == Init /\ [][Next]_blocks
=============================================================================
