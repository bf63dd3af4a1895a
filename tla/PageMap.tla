------------------------------ MODULE PageMap ------------------------------
(* What paging promises: every page directory maps pages to frames, and a call either
   adds mappings to one page directory or removes some, creates an empty one or deletes
   one; the mappings of all the others stay. *)
CONSTANTS Pages, NONE
VARIABLE maps   \* of the page directories there are

Blank == [p \in Pages |-> NONE]

Init == \A d \in DOMAIN maps : maps[d] = Blank

Map(d) == /\ maps' = [maps EXCEPT ![d] = maps'[d]]
          /\ \A p \in Pages : maps[d][p] # NONE => maps'[d][p] = maps[d][p]

Unmap(d) == /\ maps' = [maps EXCEPT ![d] = maps'[d]]
            /\ \A p \in Pages : maps'[d][p] \in {NONE, maps[d][p]}

New(d) == /\ d \notin DOMAIN maps
          /\ maps' = [x \in DOMAIN maps \cup {d} |-> IF x = d THEN Blank ELSE maps[x]]

Delete(d) == maps' = [x \in DOMAIN maps \ {d} |-> maps[x]]

Next == \/ \E d \in DOMAIN maps \cap DOMAIN maps' : Map(d) \/ Unmap(d)
        \/ \E d \in DOMAIN maps : Delete(d)
        \/ \E d \in DOMAIN maps' : New(d)
Spec == Init /\ [][Next]_maps
============================================================================
