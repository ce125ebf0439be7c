------------------------------- MODULE MCSched -------------------------------
(* Sched on small numbers of cores and tasks. *)
EXTENDS Sched
=============================================================================
