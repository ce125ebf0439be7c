-------------------------------- MODULE MCPmm --------------------------------
(* Pmm with pages of 4 bytes and memory maps of a few pages. *)
EXTENDS Pmm

Region(base, length, usable) == [base |-> base, length |-> length, usable |-> usable]

\* One region after the bitmap's; a small one before a reserved, unaligned one;
\* a reserved one first and the bitmap's region next to the one it serves; a
\* bitmap for more pages than there are.
MCMaps == {
    <<Region(4, 4, TRUE), Region(12, 24, TRUE)>>,
    <<Region(0, 8, TRUE), Region(8, 4, FALSE), Region(12, 8, TRUE), Region(21, 5, FALSE),
      Region(28, 40, TRUE)>>,
    <<Region(0, 3, FALSE), Region(4, 8, TRUE), Region(12, 12, TRUE), Region(24, 40, TRUE)>>,
    <<Region(0, 16, TRUE), Region(16, 8, TRUE)>> }
=============================================================================
