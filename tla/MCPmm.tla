------------------------------- MODULE MCPmm -------------------------------
(* Instances of Pmm for TLC, with memory maps like those of a PC: memory that
   starts at 0, a reserved rest of its last page, a hole, and more memory. *)
EXTENDS Pmm

Section(free, base, length) == [free |-> free, base |-> base, length |-> length]

\* Sections start at pages; the first one may end within a page, the last ones may lie
\* partly or wholly beyond the memory that the PAB can describe.
AlignedMaps ==
  {<<Section(TRUE, 0, first), Section(FALSE, first, 16 - first),
     Section(TRUE, 20, second), Section(FALSE, 40, high)>> :
     first \in {12, 14, 16}, second \in {8, 12, 16, 24}, high \in {0, 4, 8}}
  \cup {<<Section(TRUE, 20, 16), Section(FALSE, 36, 4), Section(TRUE, 0, 16)>>}
  \cup {<<Section(TRUE, 0, 16), Section(FALSE, 16, 4), Section(TRUE, 20, 16), Section(TRUE, 40, 8)>>}

\* The installed memory ends within a page.
UnevenMaps == {<<Section(TRUE, 0, 14), Section(FALSE, 14, 2), Section(TRUE, 16, 2)>>}

ASSUME MapsAreRegular == RegularMaps
=============================================================================
