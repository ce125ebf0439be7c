------------------------------- MODULE MCLock -------------------------------
(* Lock on a slice of the kernel's lock graph: _exec holds exec_lock and     *)
(* calls sched_create_task, which holds sched_lock and calls kmalloc.        *)
EXTENDS Lock, TLC

CONSTANTS exec_lock, sched_lock, malloc_lock

MCCalls == {<<exec_lock, sched_lock>>, <<sched_lock, malloc_lock>>,
            <<exec_lock, malloc_lock>>}

MCRank == exec_lock :> 2 @@ sched_lock :> 1 @@ malloc_lock :> 0
              @@ SwitchLock :> 0

Symmetry == Permutations(Core)
=============================================================================
