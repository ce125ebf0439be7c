------------------------------ MODULE MCSmpBoot ------------------------------
(* SmpBoot on a few shapes of MADT. *)
EXTENDS SmpBoot

\* n processors numbered from 0, with the processor id of the LAPIC id.
Plain(n) == [k \in 1..n |-> [proc |-> k - 1, apic |-> k - 1]]

\* The BSP comes first, its LAPIC id is its processor id; fewer processors than
\* structures, as many, and so many more that the count stops.  The LAPIC ids of
\* the others need not follow one another, nor ascend.
Sparse == <<[proc |-> 0, apic |-> 0], [proc |-> 7, apic |-> 6], [proc |-> 3, apic |-> 2],
            [proc |-> 5, apic |-> 4]>>
MCPlain == {Plain(n) : n \in (1..8) \cup {10, 11}} \cup {Sparse}

\* One processor more than structures.
MCOneMore == {Plain(9)}

\* The BSP comes last.
MCLast == {<<[proc |-> 1, apic |-> 1], [proc |-> 2, apic |-> 2], [proc |-> 0, apic |-> 0]>>}

\* Processor ids count from 1, LAPIC ids from 0.
MCFromOne == {<<[proc |-> 1, apic |-> 0], [proc |-> 2, apic |-> 1]>>}
=============================================================================
