-------------------------------- MODULE MCVmm --------------------------------
(* Vmm with tables of 6 entries: the low pages cross a table, and so do the  *)
(* heap and the second segment.                                            *)
EXTENDS Vmm

Page(i4, i3, i2, i1) == ((i4 * 6 + i3) * 6 + i2) * 6 + i1
MCPhys == Page(4, 0, 0, 0)
MCKern == Page(5, 5, 5, 4)
MCHeapLow == Page(3, 0, 0, 4)
MCStack == Page(1, 2, 0, 0)
MCHeap == Page(2, 0, 3, 5)

\* Over the identity mapping; on both sides of its end; without a neighbour.
MCSegments == {
    [page |-> 2, pages |-> 1, bss |-> FALSE],
    [page |-> 6, pages |-> 1, bss |-> TRUE],
    [page |-> Page(0, 1, 0, 5), pages |-> 1, bss |-> FALSE] }
MCFrames == 6..82
=============================================================================
