------------------------------- MODULE MCSlab -------------------------------
(* Slab with three small slabs (two of which kmalloc looks at) and batches of *)
(* two pages.                                                                 *)
EXTENDS Slab
=============================================================================
