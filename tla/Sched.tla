-------------------------------- MODULE Sched --------------------------------
(***************************************************************************)
(* The scheduler: generic/sched/task.c, driven by exec() on the BSP        *)
(* (generic/binfmt/binfmt.c) and by the timer interrupt of every core      *)
(* (arch/x86_64/idt/idt.c, arch/x86_64/user.asm).                          *)
(*                                                                         *)
(* Every processor structure has a list of tasks, a running_task in it and *)
(* nothing else.  The BSP never calls cpu_set_current_core(): its          *)
(* this_core is the structure at address 0, here number Boot, which holds  *)
(* the original of every task after the root task.  The structures         *)
(* 0..cpus-1 of smp_cores receive copies; a core c # 0 executes from       *)
(* structure c, and structure 0, the BSP's entry of smp_cores, is nobody's.*)
(*                                                                         *)
(* exec() runs in kernel main with interrupts on, so that a timer          *)
(* interrupt may come between any two of its steps.  A switch to a user    *)
(* task leaves the interrupt handler for good: the interrupted context is  *)
(* dropped and isr_handler never reaches lapic_eoi(), so that the core     *)
(* takes no further timer interrupt.                                       *)
(***************************************************************************)
EXTENDS Integers, SequencesExt, FiniteSetsExt

CONSTANTS
    CpuCounts,      \* numbers of cores smp_init() may have found
    SingleCoreMax,  \* SCHED_SINGLE_CORE_MAX_TASKS
    MaxTasks        \* bound: calls of exec(), pid_t is wider

ASSUME SchedAssumption ==
    /\ CpuCounts \subseteq Nat \ {0}
    /\ SingleCoreMax \in Nat \ {0}
    /\ MaxTasks \in Nat

VARIABLES
    cpus,         \* smp_cores->size
    list,         \* of each processor structure: its tasks, from root on
    running,      \* its running_task: an index into the list, 0 is NULL
    assigned,     \* assigned_to_cpu of the original of each task
    pid,          \* the last pid given out
    exec,         \* what a core executes: Kernel, a pid, or Panicked or Lost
    inService,    \* the core's timer interrupt is not acknowledged
    distributed,  \* _tasks_distributed
    addedIdx,     \* added_task_idx of assign_tasks_to_cpus()
    at            \* where exec() is: a phase and its local variables

vars == <<cpus, list, running, assigned, pid, exec, inService, distributed, addedIdx, at>>

Boot == -1
Wild == -2   \* a running_task that was never initialised

Kernel == 0
Panicked == -1
Lost == -2   \* it followed a wild pointer

Cpu == 0..(cpus - 1)
This(c) == IF c = 0 THEN Boot ELSE c

Task(p, s) == [pid |-> p, state |-> s]

Idle == [phase |-> "idle", i |-> 0, j |-> 0, ptr |-> 0]

\* sched_init(): the root task on the BSP.  smp_init() sets cpus[i]->root and
\* leaves running_task as the pool's memory had it.
Init ==
    /\ cpus \in CpuCounts
    /\ list = [k \in {Boot} \cup Cpu |-> IF k = Boot THEN <<Task(0, "ASLEEP")>> ELSE <<>>]
    /\ running \in [{Boot} \cup Cpu -> {0, 1, Wild}]
    /\ running[Boot] = 1
    /\ \A c \in Cpu : running[c] \in {0, Wild}
    /\ assigned = [p \in 1..MaxTasks |-> -1]
    /\ pid = 0
    /\ exec = [c \in Cpu |-> Kernel]
    /\ inService = [c \in Cpu |-> FALSE]
    /\ distributed = FALSE
    /\ addedIdx = 0
    /\ at = Idle

-----------------------------------------------------------------------------
(* exec() and the distribution of tasks                                    *)

Multicore == cpus > 1

Go(phase, i, j, ptr) == at' = [phase |-> phase, i |-> i, j |-> j, ptr |-> ptr]

\* kernel main still runs on the BSP, and is in this phase of exec().
In(phase) == exec[0] = Kernel /\ at.phase = phase

\* _exec(): sched_create_task() consumes a pid, whether or not elf_load() then
\* finds a valid executable.
Exec(valid) ==
    /\ In("idle") /\ pid < MaxTasks
    /\ pid' = pid + 1
    /\ IF valid THEN Go("link", 0, 0, 0) ELSE at' = Idle
    /\ UNCHANGED <<cpus, list, running, assigned, exec, inService, distributed, addedIdx>>

\* sched_queue(): link the new task, then decide whether tasks are distributed.
SchedQueue ==
    /\ In("link")
    /\ list' = [list EXCEPT ![Boot] = Append(@, Task(pid, "SUSPENDED"))]
    /\ IF Multicore /\ pid > SingleCoreMax /\ ~distributed THEN Go("share", 0, 0, 2)
       ELSE IF Multicore /\ distributed THEN Go("add", 0, 0, Len(list[Boot]) + 1)
       ELSE at' = Idle
    /\ UNCHANGED <<cpus, running, assigned, pid, exec, inService, distributed, addedIdx>>

\* copy_task_to_cpu() that forgets to record the CPU in the original.
CopyTaskUnrecorded(k, t) ==
    /\ list' = [list EXCEPT ![k] = Append(@, t)]
    /\ UNCHANGED assigned

\* copy_task_to_cpu(): the original remembers the CPU, the copy joins its list.
CopyTaskToCpu(k, t) ==
    /\ assigned' = [assigned EXCEPT ![t.pid] = k]
    /\ list' = [list EXCEPT ![k] = Append(@, t)]

Share == IF cpus > pid THEN cpus \div pid ELSE pid \div cpus

HasNext(ptr) == ptr < Len(list[Boot])

\* assign_tasks_to_cpus(NULL), first loop: one turn of the inner loop, which
\* gives the task at ptr to core i, Share tasks to each.  The outer loop ends
\* with the cores, or at a task without a successor.
ShareTask ==
    /\ In("share")
    /\ IF at.j = 0 /\ (at.i = cpus \/ ~HasNext(at.ptr))
       THEN Go("leftover", 0, 0, 2) /\ UNCHANGED <<list, assigned>>
       ELSE /\ CopyTaskToCpu(at.i, list[Boot][at.ptr])
            /\ IF HasNext(at.ptr) /\ at.j + 1 < Share
               THEN Go("share", at.i, at.j + 1, at.ptr + 1)
               ELSE Go("share", at.i + 1, 0, IF HasNext(at.ptr) THEN at.ptr + 1 ELSE at.ptr)
    /\ UNCHANGED <<cpus, running, pid, exec, inService, distributed, addedIdx>>

\* The second loop without its test for tasks that already have a CPU.
LeftoverTaskAny ==
    /\ In("leftover")
    /\ IF at.ptr > Len(list[Boot])
       THEN at' = Idle /\ distributed' = TRUE /\ UNCHANGED <<list, assigned>>
       ELSE /\ CopyTaskToCpu(at.i, list[Boot][at.ptr])
            /\ Go("leftover", (at.i + 1) % cpus, 0, at.ptr + 1)
            /\ UNCHANGED distributed
    /\ UNCHANGED <<cpus, running, pid, exec, inService, addedIdx>>

\* The second loop: one turn of it, which gives an unassigned task to core i.
LeftoverTask ==
    /\ In("leftover")
    /\ IF at.ptr > Len(list[Boot])
       THEN at' = Idle /\ distributed' = TRUE /\ UNCHANGED <<list, assigned>>
       ELSE /\ UNCHANGED distributed
            /\ IF assigned[list[Boot][at.ptr].pid] < 0
               THEN /\ CopyTaskToCpu(at.i, list[Boot][at.ptr])
                    /\ Go("leftover", (at.i + 1) % cpus, 0, at.ptr + 1)
               ELSE Go("leftover", at.i, 0, at.ptr + 1) /\ UNCHANGED <<list, assigned>>
    /\ UNCHANGED <<cpus, running, pid, exec, inService, addedIdx>>

\* assign_tasks_to_cpus(t) without the wrap of added_task_idx at the last core.
AddTaskNoWrap ==
    /\ In("add")
    /\ CopyTaskToCpu(addedIdx, list[Boot][at.ptr])
    /\ addedIdx' = addedIdx + 1
    /\ at' = Idle
    /\ UNCHANGED <<cpus, running, pid, exec, inService, distributed>>

\* assign_tasks_to_cpus(t) that does not advance added_task_idx.
AddTaskSameCpu ==
    /\ In("add")
    /\ CopyTaskToCpu(addedIdx, list[Boot][at.ptr])
    /\ at' = Idle
    /\ UNCHANGED <<cpus, running, pid, exec, inService, distributed, addedIdx>>

\* assign_tasks_to_cpus(t): only the new task, to the next core in turn.
AddTask ==
    /\ In("add")
    /\ CopyTaskToCpu(addedIdx, list[Boot][at.ptr])
    /\ addedIdx' = (addedIdx + 1) % cpus
    /\ at' = Idle
    /\ UNCHANGED <<cpus, running, pid, exec, inService, distributed>>

-----------------------------------------------------------------------------
(* The timer interrupt                                                     *)

\* The task switch_task() selects in structure k after the one at index r.
NextTask(k, r) == IF r < Len(list[k]) THEN r + 1 ELSE 1

\* save_task_context_and_switch(): the states of the two tasks.
SwitchStates(l, t1, t2) == [l EXCEPT ![t1].state = "SUSPENDED", ![t2].state = "RUNNING"]

\* arch_switch_to_user() after an acknowledgement of the timer interrupt.
LeaveForUserAfterEoi(c, p) ==
    /\ exec' = [exec EXCEPT ![c] = IF c = 0 THEN p ELSE Panicked]
    /\ UNCHANGED inService

\* arch_switch_to_user() on core c.  Only the BSP has run arch_features_enable():
\* on any other core sysret is an invalid opcode, and isr_handler panics.
LeaveForUser(c, p) ==
    /\ exec' = [exec EXCEPT ![c] = IF c = 0 THEN p ELSE Panicked]
    /\ inService' = [inService EXCEPT ![c] = TRUE]

\* switch_task() on core c, then lapic_eoi() if it returns.  A core that reads
\* the uninitialised running_task follows a wild pointer.
Tick(c) ==
    LET k  == This(c)
        t1 == IF running[k] = 0 THEN 1 ELSE running[k]
        t2 == NextTask(k, t1)
    IN  /\ exec[c] \notin {Panicked, Lost} /\ ~inService[c]
        /\ list[k] # <<>>
        /\ IF running[k] = Wild
           THEN exec' = [exec EXCEPT ![c] = Lost] /\ UNCHANGED <<list, running, inService>>
           ELSE /\ running' = [running EXCEPT ![k] = t2]
                /\ IF list[k][t2].state = "SUSPENDED"
                   THEN /\ list' = [list EXCEPT ![k] = SwitchStates(@, t1, t2)]
                        /\ IF list[k][t2].pid > 0 THEN LeaveForUser(c, list[k][t2].pid)
                           ELSE UNCHANGED <<exec, inService>>
                   ELSE UNCHANGED <<list, exec, inService>>
        /\ UNCHANGED <<cpus, assigned, pid, distributed, addedIdx, at>>

Next ==
    \/ \E valid \in BOOLEAN : Exec(valid)
    \/ SchedQueue
    \/ ShareTask
    \/ LeftoverTask
    \/ AddTask
    \/ \E c \in Cpu : Tick(c)

Spec == Init /\ [][Next]_vars

\* exec() executes and every core's timer keeps firing.
FairSpec ==
    /\ Spec
    /\ WF_vars(SchedQueue \/ ShareTask \/ LeftoverTask \/ AddTask)
    /\ \A c \in 0..(Max(CpuCounts) - 1) : WF_vars(c \in Cpu /\ Tick(c))

-----------------------------------------------------------------------------
(* Properties                                                              *)

Pids(l) == {l[i].pid : i \in 1..Len(l)}
Queued == Pids(list[Boot]) \ {0}
Load(k) == Len(list[k])
Occurrences(k, p) == Cardinality({i \in 1..Len(list[k]) : list[k][i].pid = p})

\* The cores that execute from a list with the task.
Holders(p) == {c \in Cpu : p \in Pids(list[This(c)])}

TypeOK ==
    /\ cpus \in CpuCounts
    /\ \A k \in {Boot} \cup Cpu :
          /\ \A i \in 1..Len(list[k]) :
                list[k][i] \in [pid : 0..MaxTasks, state : {"ASLEEP", "SUSPENDED", "RUNNING"}]
          /\ running[k] \in 0..Len(list[k]) \cup {Wild}
    /\ assigned \in [1..MaxTasks -> {-1} \cup Cpu]
    /\ pid \in 0..MaxTasks
    /\ \A c \in Cpu : exec[c] \in Lost..MaxTasks
    /\ inService \in [Cpu -> BOOLEAN]
    /\ addedIdx \in Cpu
    /\ at.phase \in {"idle", "link", "share", "leftover", "add"}

\* copy_task_to_cpu(): at every moment, also during a distribution and between
\* task switches, each queued task is once in the BSP's list, its original, and
\* has at most one copy, on the structure its original names; once distributed
\* tasks all have one.  The BSP goes on to execute the original: a task that is
\* given to structure 0 is executed from the BSP's list alone (nobody executes
\* the copy), and one that is given to another core is in two executed lists.
OriginalAndCopy ==
    \A p \in 1..MaxTasks :
        /\ Occurrences(Boot, p) = IF p \in Queued THEN 1 ELSE 0
        /\ \A k \in Cpu : Occurrences(k, p) = IF k = assigned[p] THEN 1 ELSE 0
        /\ assigned[p] # -1 => p \in Queued
        /\ p \in Queued => Holders(p) = {0} \cup ({assigned[p]} \cap Cpu)
        /\ distributed /\ at.phase = "idle" /\ p \in Queued => assigned[p] \in Cpu

\* save_task_context_and_switch(): the task a core executes is its running_task
\* and is marked RUNNING; a core in the kernel has no RUNNING user task.
ExecutesRunning ==
    \A c \in Cpu :
        LET k == This(c) IN
        /\ exec[c] \in 1..MaxTasks => /\ list[k][running[k]].pid = exec[c]
                                      /\ list[k][running[k]].state = "RUNNING"
        /\ exec[c] = Kernel => \A i \in 1..Len(list[k]) :
                                     list[k][i].pid > 0 => list[k][i].state # "RUNNING"

\* assign_tasks_to_cpus(): the first distribution may give every task so far to
\* one core (pid, and with it each core's share, also counts the executables
\* that failed to load), but the round robin of the tasks added later, which
\* starts at core 0 wherever the leftovers ended, never makes it much worse.
LoadGapBounded ==
    (distributed /\ at.phase = "idle") =>
        \A k, m \in Cpu : Load(k) <= Load(m) + SingleCoreMax + 2

\* task.c:74, "tasks are distributed evenly & fairly between all CPUs": after
\* the distribution no core has two tasks more than another one.
EvenDistribution ==
    (distributed /\ at.phase = "idle") =>
        \A k, m \in Cpu : Load(k) <= Load(m) + 1

\* task.c:216, "switches the CPU's context to t2's context": a core that leaves
\* for a user task executes it.
SwitchReachesTask == \A c \in Cpu : exec[c] # Panicked

\* task.c:245, "switches to its next task": every task that was queued is
\* executed at some time.
EveryTaskRuns ==
    \A p \in 1..MaxTasks : (p \in Queued) ~> (\E c \in Cpu : exec[c] = p)

\* copy_task_to_cpu(): a task that has a core is never given another one.
NeverReassigned ==
    [][\A p \in 1..MaxTasks : assigned[p] # -1 => assigned'[p] = assigned[p]]_vars

=============================================================================
