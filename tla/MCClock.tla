------------------------------- MODULE MCClock -------------------------------
(* Clock with two hooks and a counter of few values. *)
EXTENDS Clock

MCHooks == <<"switch_task", "other">>
MCDelays == {<<"msec", 1>>, <<"msec", 2>>, <<"usec", 1>>}
=============================================================================
