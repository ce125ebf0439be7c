----------------------------- MODULE MCSlabRace -----------------------------
(* SlabRace with two callers. *)
EXTENDS SlabRace
=============================================================================
