----------------------------- MODULE SchedProofs -----------------------------
(***************************************************************************)
(* The scheduler, for any number of cores, of tasks, and of tasks on a     *)
(* single core: types, what a core executes, and the distribution of the   *)
(* tasks, with the timer interrupts of all cores between its steps.        *)
(***************************************************************************)
EXTENDS Sched, Induction, FiniteSetTheorems, TLAPS

Structure == {Boot} \cup Cpu
States == {"ASLEEP", "SUSPENDED", "RUNNING"}
Tasks == [pid : 0..MaxTasks, state : States]

\* What is common to two lists of which one is the other after task switches.
PidAt(k, a) == list[k][a].pid

Mine(k) == 1..Len(list[k])

TypeInv ==
    /\ cpus \in CpuCounts
    /\ list \in [Structure -> Seq(Tasks)]
    /\ running \in [Structure -> Int]
    /\ \A k \in Structure : running[k] \in 0..Len(list[k]) \/ running[k] = Wild
    /\ assigned \in [1..MaxTasks -> {-1} \cup Cpu]
    /\ pid \in 0..MaxTasks
    /\ exec \in [Cpu -> Lost..MaxTasks]
    /\ inService \in [Cpu -> BOOLEAN]
    /\ distributed \in BOOLEAN
    /\ addedIdx \in Cpu
    /\ at \in [phase : {"idle", "link", "share", "leftover", "add"}, i : Nat, j : Nat, ptr : Nat]

\* Where exec() is in its walk of the BSP's list.
WalkInv ==
    /\ at.phase = "link" => pid > 0
    /\ at.phase = "share" => /\ at.i <= cpus /\ (at.j > 0 => at.i < cpus)
                             /\ at.ptr \in 2..Len(list[Boot])
    /\ at.phase = "leftover" => at.i < cpus /\ at.ptr \in 2..(Len(list[Boot]) + 1)
    /\ at.phase = "add" => at.ptr = Len(list[Boot]) /\ at.ptr >= 2

\* The BSP's list: the root task, then the tasks in the order of their pids.
BootInv ==
    /\ Len(list[Boot]) >= 1 /\ PidAt(Boot, 1) = 0
    /\ \A a, b \in Mine(Boot) : a < b => PidAt(Boot, a) < PidAt(Boot, b)
    /\ \A a \in Mine(Boot) : PidAt(Boot, a) <= pid
    /\ at.phase = "link" => \A a \in Mine(Boot) : PidAt(Boot, a) < pid

\* The tasks that still have no core, by where the distribution is.
AssignInv ==
    /\ at.phase \in {"share", "leftover"} => ~distributed
    /\ at.phase = "add" => distributed
    /\ distributed \/ at.phase \in {"share", "leftover"} => cpus > 1
    /\ at.phase \in {"idle", "link"} /\ ~distributed => \A p \in 1..MaxTasks : assigned[p] = -1
    /\ at.phase \in {"idle", "link"} /\ distributed =>
          \A a \in Mine(Boot) : a >= 2 => assigned[PidAt(Boot, a)] # -1
    /\ at.phase = "share" =>
          \A a \in Mine(Boot) : (a > at.ptr \/ (a = at.ptr /\ (at.j > 0 \/ HasNext(a))))
                                    => assigned[PidAt(Boot, a)] = -1
    /\ at.phase = "leftover" =>
          \A a \in Mine(Boot) : a >= 2 /\ a < at.ptr => assigned[PidAt(Boot, a)] # -1
    /\ at.phase = "add" =>
          /\ assigned[PidAt(Boot, at.ptr)] = -1
          /\ \A a \in Mine(Boot) : a >= 2 /\ a < at.ptr => assigned[PidAt(Boot, a)] # -1

\* Only tasks of the BSP's list have a core.
KnownInv == \A p \in 1..MaxTasks : assigned[p] # -1 => \E a \in Mine(Boot) : PidAt(Boot, a) = p

\* The list of a core holds one copy of each task that is assigned to it.
CopiesInv ==
    \A k \in Cpu :
        /\ \A a \in Mine(k) : PidAt(k, a) > 0 /\ assigned[PidAt(k, a)] = k
        /\ \A a, b \in Mine(k) : PidAt(k, a) = PidAt(k, b) => a = b
        /\ \A p \in 1..MaxTasks : assigned[p] = k => \E a \in Mine(k) : PidAt(k, a) = p

\* Only the BSP leaves for a task, and it does not come back.
ExecInv ==
    \A c \in Cpu :
        /\ exec[c] > 0 => /\ c = 0 /\ inService[c] /\ running[Boot] \in Mine(Boot)
                          /\ list[Boot][running[Boot]] = Task(exec[c], "RUNNING")
        /\ exec[c] = Kernel => \A a \in Mine(This(c)) :
                                   PidAt(This(c), a) > 0 => list[This(c)][a].state # "RUNNING"

QueueInv == BootInv /\ AssignInv /\ KnownInv /\ CopiesInv

IInv == TypeInv /\ WalkInv /\ QueueInv /\ ExecInv

\* A step leaves the tasks that have a core where they are.
Kept == \A p \in 1..MaxTasks : assigned[p] # -1 => assigned'[p] = assigned[p]
-----------------------------------------------------------------------------

(* Lists                                                                   *)

LEMMA Appending ==
  ASSUME NEW l \in Seq(Tasks), NEW t \in Tasks
  PROVE  /\ Append(l, t) \in Seq(Tasks)
         /\ Len(Append(l, t)) = Len(l) + 1 /\ Len(l) \in Nat
         /\ \A a \in 1..Len(l) : Append(l, t)[a] = l[a]
         /\ Append(l, t)[Len(l) + 1] = t
  <1> HIDE DEF Tasks
  <1> QED
    OBVIOUS

LEMMA Element ==
  ASSUME NEW l \in Seq(Tasks), NEW a \in 1..Len(l)
  PROVE  /\ l[a] \in Tasks /\ l[a].pid \in 0..MaxTasks /\ l[a].state \in States
         /\ l[a] = Task(l[a].pid, l[a].state)
  <1>1. l[a] \in Tasks
    <2> HIDE DEF Tasks
    <2> QED
      OBVIOUS
  <1> QED
    BY <1>1 DEF Tasks, Task

\* A switch changes the states of the two tasks.
Switched(l, t2, s) ==
    /\ s \in Seq(Tasks) /\ Len(s) = Len(l)
    /\ \A a \in 1..Len(l) :
          /\ s[a].pid = l[a].pid
          /\ a # t2 => s[a].state = l[a].state \/ s[a].state = "SUSPENDED"
    /\ s[t2] = Task(l[t2].pid, "RUNNING")

LEMMA Switching ==
  ASSUME NEW l \in Seq(Tasks), NEW t1 \in 1..Len(l), NEW t2 \in 1..Len(l),
         NEW s, s = SwitchStates(l, t1, t2)
  PROVE  Switched(l, t2, s)
  <1> DEFINE m == [l EXCEPT ![t1] = [l[t1] EXCEPT !.state = "SUSPENDED"]]
             n == [m EXCEPT ![t2] = [m[t2] EXCEPT !.state = "RUNNING"]]
  <1>1. s = n
    BY DEF SwitchStates
  <1>2. /\ m \in Seq(Tasks) /\ Len(m) = Len(l)
        /\ \A a \in 1..Len(l) : /\ m[a].pid = l[a].pid
                                /\ m[a].state = l[a].state \/ m[a].state = "SUSPENDED"
    <2>1. [l[t1] EXCEPT !.state = "SUSPENDED"] \in Tasks
      BY Element DEF Tasks, States
    <2>2. m \in Seq(Tasks) /\ Len(m) = Len(l) /\ \A a \in 1..Len(l) :
             m[a] = IF a = t1 THEN [l[t1] EXCEPT !.state = "SUSPENDED"] ELSE l[a]
      <3> HIDE DEF Tasks
      <3> QED
        BY <2>1
    <2> QED
      BY <2>2, Element DEF Tasks
  <1>3. [m[t2] EXCEPT !.state = "RUNNING"] = Task(l[t2].pid, "RUNNING")
    <2>1. m[t2] \in Tasks /\ m[t2].pid = l[t2].pid
      BY <1>2, Element
    <2> QED
      BY SMTT(30), <2>1 DEF Tasks, Task
  <1>4. Task(l[t2].pid, "RUNNING") \in Tasks
    BY Element DEF Tasks, Task, States
  <1>5. n \in Seq(Tasks) /\ Len(n) = Len(l) /\ Len(l) \in Nat /\ \A a \in 1..Len(l) :
           n[a] = IF a = t2 THEN Task(l[t2].pid, "RUNNING") ELSE m[a]
    <2> HIDE DEF Tasks, m
    <2> QED
      BY <1>2, <1>3, <1>4
  <1> HIDE DEF m, n
  <1>6. \A a \in 1..Len(l) :
               /\ s[a].pid = l[a].pid
               /\ a # t2 => s[a].state = l[a].state \/ s[a].state = "SUSPENDED"
    BY <1>1, <1>2, <1>5 DEF Task
  <1>7. s[t2] = Task(l[t2].pid, "RUNNING")
    BY <1>1, <1>5
  <1> QED
    BY <1>1, <1>5, <1>6, <1>7 DEF Switched

LEMMA Basics ==
  ASSUME TypeInv
  PROVE  /\ cpus \in Nat \ {0} /\ MaxTasks \in Nat /\ SingleCoreMax \in Nat
         /\ Boot \notin Cpu /\ Boot = -1 /\ 0 \in Cpu
         /\ \A k \in Structure : list[k] \in Seq(Tasks) /\ Len(list[k]) \in Nat
         /\ \A k \in Structure : \A a \in Mine(k) :
               PidAt(k, a) \in 0..MaxTasks /\ list[k][a] = Task(PidAt(k, a), list[k][a].state)
  <1>1. /\ cpus \in Nat \ {0} /\ MaxTasks \in Nat /\ SingleCoreMax \in Nat
        /\ Boot \notin Cpu /\ Boot = -1 /\ 0 \in Cpu
    BY SchedAssumption DEF TypeInv, Cpu, Boot
  <1>2. \A k \in Structure : list[k] \in Seq(Tasks) /\ Len(list[k]) \in Nat
    BY DEF TypeInv
  <1>3. ASSUME NEW k \in Structure, NEW a \in Mine(k)
        PROVE  PidAt(k, a) \in 0..MaxTasks /\ list[k][a] = Task(PidAt(k, a), list[k][a].state)
    BY <1>2, <1>3, Element DEF PidAt, Mine
  <1> QED
    BY <1>1, <1>2, <1>3

-----------------------------------------------------------------------------
(* Giving a task to a core                                                 *)

\* The task at x of the BSP's list, which has no core, goes to core k.
LEMMA Copying ==
  ASSUME TypeInv, QueueInv, NEW k \in Cpu, NEW x \in Mine(Boot), x >= 2,
         assigned[PidAt(Boot, x)] = -1,
         CopyTaskToCpu(k, list[Boot][x]), UNCHANGED cpus
  PROVE  /\ list' \in [Structure -> Seq(Tasks)]
         /\ assigned' \in [1..MaxTasks -> {-1} \cup Cpu]
         /\ assigned' = [assigned EXCEPT ![PidAt(Boot, x)] = k] /\ PidAt(Boot, x) \in 1..MaxTasks
         /\ list' = [list EXCEPT ![k] = Append(@, list[Boot][x])]
         /\ list'[Boot] = list[Boot]
         /\ CopiesInv' /\ KnownInv'
  <1> DEFINE p == PidAt(Boot, x)
             l == Append(list[k], list[Boot][x])
  <1>0. /\ k \in Structure /\ Boot \in Structure /\ k # Boot
        /\ list[k] \in Seq(Tasks) /\ list[Boot][x] \in Tasks
    BY Basics, Element DEF Structure, Mine
  <1>1. p \in 1..MaxTasks
    <2>1. 1 \in Mine(Boot) /\ x \in Nat /\ PidAt(Boot, 1) = 0
      BY Basics DEF Mine, QueueInv, BootInv, Structure
    <2>2. PidAt(Boot, 1) < PidAt(Boot, x)
      BY <2>1 DEF QueueInv, BootInv
    <2> QED
      BY <2>1, <2>2, Basics, <1>0
  <1>2. /\ assigned' = [assigned EXCEPT ![p] = k]
        /\ list' = [list EXCEPT ![k] = l]
    BY DEF CopyTaskToCpu, PidAt
  <1>3. /\ l \in Seq(Tasks) /\ Len(l) = Len(list[k]) + 1 /\ Len(list[k]) \in Nat
        /\ \A a \in 1..Len(list[k]) : l[a] = list[k][a]
        /\ l[Len(list[k]) + 1] = list[Boot][x]
    BY <1>0, Appending
  <1>4. /\ list' \in [Structure -> Seq(Tasks)] /\ list'[Boot] = list[Boot] /\ list'[k] = l
        /\ \A m \in Structure : m # k => list'[m] = list[m]
    <2> HIDE DEF l
    <2> QED
      BY <1>0, <1>2, <1>3 DEF TypeInv
  <1>5. /\ assigned' \in [1..MaxTasks -> {-1} \cup Cpu] /\ assigned[p] = -1 /\ assigned'[p] = k
        /\ \A q \in 1..MaxTasks : q # p => assigned'[q] = assigned[q]
    BY <1>1, <1>2 DEF TypeInv
  <1> HIDE DEF p, l
  <1>6. ASSUME NEW m \in Cpu
        PROVE  /\ \A a \in Mine(m)' : PidAt(m, a)' > 0 /\ assigned'[PidAt(m, a)'] = m
               /\ \A a, b \in Mine(m)' : PidAt(m, a)' = PidAt(m, b)' => a = b
               /\ \A q \in 1..MaxTasks : assigned'[q] = m => \E a \in Mine(m)' : PidAt(m, a)' = q
    <2>0. m \in Structure /\ \A a \in Mine(m) : PidAt(m, a) \in 0..MaxTasks
      BY Basics DEF Structure
    <2>1. /\ \A a \in Mine(m) : PidAt(m, a) \in 1..MaxTasks /\ assigned[PidAt(m, a)] = m
          /\ \A a, b \in Mine(m) : PidAt(m, a) = PidAt(m, b) => a = b
          /\ \A q \in 1..MaxTasks : assigned[q] = m => \E a \in Mine(m) : PidAt(m, a) = q
      BY <2>0 DEF QueueInv, CopiesInv
    <2>2. \A a \in Mine(m) : PidAt(m, a) # p
      BY <1>5, <2>1, Basics
    <2>3. CASE m # k
      <3>1. Mine(m)' = Mine(m) /\ \A a \in Mine(m) : PidAt(m, a)' = PidAt(m, a)
        BY <1>4, <2>0, <2>3 DEF Mine, PidAt
      <3>2. \A q \in 1..MaxTasks : assigned'[q] = m => q # p /\ assigned[q] = m
        BY <1>5, <2>3
      <3> QED
        BY <1>5, <2>0, <2>1, <2>2, <3>1, <3>2
    <2>4. CASE m = k
      <3>0. PICK n \in Nat : n = Len(list[k])
        BY <1>3
      <3>1. Mine(m) = 1..n /\ Mine(m)' = 1..(n + 1)
        BY <1>3, <1>4, <2>4, <3>0 DEF Mine
      <3>2. \A a \in 1..n : PidAt(m, a)' = PidAt(m, a)
        BY <1>3, <1>4, <2>4, <3>0 DEF PidAt
      <3>3. PidAt(m, n + 1)' = p
        BY <1>3, <1>4, <2>4, <3>0 DEF PidAt, p
      <3>4. \A a \in 1..(n + 1) : a \in 1..n \/ a = n + 1
        BY <3>0
      <3>5. n + 1 \in 1..(n + 1) /\ \A a \in 1..n : a \in 1..(n + 1)
        BY <3>0
      <3>6. \A a \in 1..(n + 1) : PidAt(m, a)' > 0 /\ assigned'[PidAt(m, a)'] = m
        <4>1. ASSUME NEW a \in 1..n PROVE PidAt(m, a)' > 0 /\ assigned'[PidAt(m, a)'] = m
          BY SMTT(30), <1>5, <2>1, <2>2, <3>1, <3>2
        <4>2. PidAt(m, n + 1)' > 0 /\ assigned'[PidAt(m, n + 1)'] = m
          BY <1>1, <1>5, <2>4, <3>3
        <4> QED
          BY <3>4, <4>1, <4>2
      <3>7. \A a, b \in 1..(n + 1) : PidAt(m, a)' = PidAt(m, b)' => a = b
        <4>1. ASSUME NEW a \in 1..n, NEW b \in 1..n, PidAt(m, a)' = PidAt(m, b)' PROVE a = b
          BY SMTT(30), <2>1, <3>1, <3>2, <4>1
        <4>2. ASSUME NEW a \in 1..n PROVE PidAt(m, a)' # PidAt(m, n + 1)'
          BY <2>2, <3>1, <3>2, <3>3
        <4> QED
          BY <3>4, <4>1, <4>2
      <3>8. \A q \in 1..MaxTasks : assigned'[q] = m => \E a \in 1..(n + 1) : PidAt(m, a)' = q
        BY <1>5, <2>1, <3>1, <3>2, <3>3, <3>5
      <3> QED
        BY <3>1, <3>6, <3>7, <3>8
    <2> QED
      BY <2>3, <2>4
  <1>7. CopiesInv'
    <2>1. Cpu' = Cpu
      BY DEF Cpu
    <2> QED
      BY <1>6, <2>1 DEF CopiesInv
  <1>8. KnownInv'
    <2>1. Mine(Boot)' = Mine(Boot) /\ \A a \in Mine(Boot) : PidAt(Boot, a)' = PidAt(Boot, a)
      BY <1>4 DEF Mine, PidAt
    <2>2. ASSUME NEW q \in 1..MaxTasks, assigned'[q] # -1
          PROVE  \E a \in Mine(Boot) : PidAt(Boot, a) = q
      <3>1. CASE q = p
        BY <3>1 DEF p
      <3>2. CASE q # p
        BY <1>5, <2>2, <3>2 DEF QueueInv, KnownInv
      <3> QED
        BY <3>1, <3>2
    <2> QED
      BY <2>1, <2>2 DEF KnownInv
  <1> QED
    BY <1>1, <1>2, <1>4, <1>5, <1>7, <1>8 DEF p, l

\* It disturbs neither what the cores execute nor the BSP's own list.
LEMMA CopyingElsewhere ==
  ASSUME TypeInv, BootInv, ExecInv, NEW k \in Cpu, NEW x \in Mine(Boot), exec[0] = Kernel,
         list' = [list EXCEPT ![k] = Append(@, list[Boot][x])],
         UNCHANGED <<cpus, running, pid, exec, inService>>
  PROVE  /\ \A m \in Structure : running'[m] \in 0..Len(list'[m]) \/ running'[m] = Wild
         /\ ExecInv'
         /\ at'.phase # "link" => BootInv'
  <1> DEFINE l == Append(list[k], list[Boot][x])
  <1>0. /\ k \in Structure /\ Boot \in Structure /\ k # Boot /\ 0 \in Cpu /\ Boot = -1
        /\ list[k] \in Seq(Tasks) /\ list[Boot][x] \in Tasks /\ Cpu' = Cpu
        /\ \A c \in Cpu : c # Boot /\ c \in Structure
    BY Basics, Element DEF Structure, Mine, Cpu
  <1>1. /\ Len(l) = Len(list[k]) + 1 /\ Len(list[k]) \in Nat
        /\ \A a \in 1..Len(list[k]) : l[a] = list[k][a]
        /\ l[Len(list[k]) + 1] = list[Boot][x]
    BY <1>0, Appending
  <1>2. /\ list'[Boot] = list[Boot] /\ list'[k] = l
        /\ \A m \in Structure : m # k => list'[m] = list[m]
    <2> HIDE DEF l
    <2>1. list' = [list EXCEPT ![k] = l]
      BY DEF l
    <2> QED
      BY <1>0, <2>1 DEF TypeInv
  <1> HIDE DEF l
  <1>3. \A m \in Structure : running'[m] \in 0..Len(list'[m]) \/ running'[m] = Wild
    <2> SUFFICES ASSUME NEW m \in Structure
                 PROVE  running[m] \in 0..Len(list'[m]) \/ running[m] = Wild
      OBVIOUS
    <2>1. Len(list[m]) \in Nat /\ (running[m] \in 0..Len(list[m]) \/ running[m] = Wild)
      BY Basics DEF TypeInv
    <2>2. CASE m # k
      BY <1>2, <2>1, <2>2
    <2>3. CASE m = k
      BY <1>1, <1>2, <2>1, <2>3
    <2> QED
      BY <2>2, <2>3
  <1>4. list[Boot][x].pid > 0 => list[Boot][x].state # "RUNNING"
    BY <1>0 DEF ExecInv, This, PidAt
  <1>5. ASSUME NEW c \in Cpu
        PROVE  /\ exec[c] > 0 => /\ c = 0 /\ inService[c] /\ running[Boot] \in Mine(Boot)'
                                 /\ list'[Boot][running[Boot]] = Task(exec[c], "RUNNING")
               /\ exec[c] = Kernel => \A a \in Mine(This(c))' :
                      PidAt(This(c), a)' > 0 => list'[This(c)][a].state # "RUNNING"
    <2>1. exec[c] > 0 => /\ c = 0 /\ inService[c] /\ running[Boot] \in Mine(Boot)
                         /\ list[Boot][running[Boot]] = Task(exec[c], "RUNNING")
      BY DEF ExecInv
    <2>2. exec[c] = Kernel => \A a \in Mine(This(c)) :
             PidAt(This(c), a) > 0 => list[This(c)][a].state # "RUNNING"
      BY DEF ExecInv
    <2>3. This(c) \in Structure
      BY <1>0 DEF This
    <2>4. CASE This(c) # k
      BY <1>2, <2>1, <2>2, <2>3, <2>4 DEF Mine, PidAt
    <2>5. CASE This(c) = k
      <3>1. exec[c] = Kernel => \A a \in 1..(Len(list[k]) + 1) :
               l[a].pid > 0 => l[a].state # "RUNNING"
        <4>1. \A a \in 1..(Len(list[k]) + 1) : a \in 1..Len(list[k]) \/ a = Len(list[k]) + 1
          BY <1>1
        <4> QED
          BY <1>1, <1>4, <2>2, <2>5, <4>1 DEF Mine, PidAt
      <3> QED
        BY SMTT(30), <1>1, <1>2, <2>1, <2>5, <3>1 DEF Mine, PidAt
    <2> QED
      BY <2>4, <2>5
  <1>6. ExecInv'
    <2>1. \A c \in Cpu : This(c)' = This(c)
      BY DEF This
    <2> QED
      BY <1>0, <1>5, <2>1 DEF ExecInv, This
  <1>7. at'.phase # "link" => BootInv'
    BY <1>2 DEF BootInv, Mine, PidAt
  <1> QED
    BY <1>3, <1>6, <1>7

\* What an action that gives the task at x to core k leaves to show.
LEMMA CopyStep ==
  ASSUME IInv, NEW k \in Cpu, NEW x \in Mine(Boot), x >= 2, exec[0] = Kernel,
         assigned[PidAt(Boot, x)] = -1,
         CopyTaskToCpu(k, list[Boot][x]),
         UNCHANGED <<cpus, running, pid, exec, inService>>,
         distributed' \in BOOLEAN, addedIdx' \in Cpu,
         at' \in [phase : {"idle", "share", "leftover"}, i : Nat, j : Nat, ptr : Nat]
  PROVE  /\ TypeInv' /\ BootInv' /\ KnownInv' /\ CopiesInv' /\ ExecInv' /\ Kept
         /\ Mine(Boot)' = Mine(Boot) /\ list'[Boot] = list[Boot]
         /\ \A a \in Mine(Boot) : /\ PidAt(Boot, a)' = PidAt(Boot, a)
                                  /\ assigned'[PidAt(Boot, a)] =
                                        IF a = x THEN k ELSE assigned[PidAt(Boot, a)]
  <1>1. /\ list' \in [Structure -> Seq(Tasks)]
        /\ assigned' \in [1..MaxTasks -> {-1} \cup Cpu]
        /\ assigned' = [assigned EXCEPT ![PidAt(Boot, x)] = k] /\ PidAt(Boot, x) \in 1..MaxTasks
        /\ list' = [list EXCEPT ![k] = Append(@, list[Boot][x])]
        /\ list'[Boot] = list[Boot]
        /\ CopiesInv' /\ KnownInv'
    BY Copying DEF IInv
  <1>2. /\ \A m \in Structure : running'[m] \in 0..Len(list'[m]) \/ running'[m] = Wild
        /\ ExecInv' /\ BootInv'
    BY <1>1, CopyingElsewhere DEF IInv, QueueInv
  <1>3. Cpu' = Cpu /\ Structure' = Structure
    BY DEF Cpu, Structure
  <1>4. TypeInv'
    BY <1>1, <1>2, <1>3 DEF IInv, TypeInv
  <1>5. Mine(Boot)' = Mine(Boot) /\ \A a \in Mine(Boot) : PidAt(Boot, a)' = PidAt(Boot, a)
    BY <1>1 DEF Mine, PidAt
  <1>6. ASSUME NEW a \in Mine(Boot)
        PROVE  assigned'[PidAt(Boot, a)] = IF a = x THEN k ELSE assigned[PidAt(Boot, a)]
    <2>1. a = x \/ PidAt(Boot, a) # PidAt(Boot, x)
      <3>1. a \in Int /\ x \in Int /\ PidAt(Boot, a) \in Int /\ PidAt(Boot, x) \in Int
        BY SMTT(30), Basics DEF IInv, Structure, Mine
      <3>2. a < x => PidAt(Boot, a) < PidAt(Boot, x)
        BY DEF IInv, QueueInv, BootInv
      <3>3. x < a => PidAt(Boot, x) < PidAt(Boot, a)
        BY DEF IInv, QueueInv, BootInv
      <3> QED
        BY <3>1, <3>2, <3>3
    <2> QED
      BY SMTT(30), <1>1, <2>1 DEF IInv, TypeInv
  <1>7. Kept
    BY <1>1 DEF Kept, IInv, TypeInv
  <1> QED
    BY <1>1, <1>2, <1>4, <1>5, <1>6, <1>7

LEMMA AddTaskKeeps == IInv /\ AddTask => IInv' /\ Kept
  <1> SUFFICES ASSUME IInv, AddTask PROVE IInv' /\ Kept
    OBVIOUS
  <1> DEFINE x == at.ptr
             k == addedIdx
  <1>0. /\ at.phase = "add" /\ exec[0] = Kernel /\ distributed /\ cpus > 1
        /\ CopyTaskToCpu(k, list[Boot][x])
        /\ addedIdx' = (addedIdx + 1) % cpus
        /\ at' = Idle
        /\ UNCHANGED <<cpus, running, pid, exec, inService, distributed>>
        /\ assigned[PidAt(Boot, x)] = -1 /\ x = Len(list[Boot]) /\ x >= 2
        /\ \A a \in Mine(Boot) : a >= 2 /\ a < x => assigned[PidAt(Boot, a)] # -1
    BY DEF AddTask, In, IInv, WalkInv, QueueInv, AssignInv
  <1>1. cpus \in Nat \ {0} /\ k \in Cpu /\ x \in Mine(Boot) /\ Len(list[Boot]) \in Nat
    BY SMTT(30), <1>0, Basics DEF IInv, TypeInv, Mine, Structure
  <1>2. addedIdx' \in Cpu
    BY SMTT(30), <1>0, <1>1 DEF Cpu
  <1>3. at' \in [phase : {"idle", "share", "leftover"}, i : Nat, j : Nat, ptr : Nat]
        /\ at'.phase = "idle"
    BY <1>0 DEF Idle
  <1>4. distributed' \in BOOLEAN /\ distributed'
    BY <1>0
  <1>5. /\ TypeInv' /\ BootInv' /\ KnownInv' /\ CopiesInv' /\ ExecInv' /\ Kept
        /\ Mine(Boot)' = Mine(Boot)
        /\ \A a \in Mine(Boot) : /\ PidAt(Boot, a)' = PidAt(Boot, a)
                                 /\ assigned'[PidAt(Boot, a)] =
                                       IF a = x THEN k ELSE assigned[PidAt(Boot, a)]
    <2> HIDE DEF x, k
    <2> QED
      BY SMTT(30), <1>0, <1>1, <1>2, <1>3, <1>4, CopyStep
  <1>6. \A a \in Mine(Boot) : a >= 2 => assigned'[PidAt(Boot, a)] # -1
    <2>1. \A a \in Mine(Boot) : a \in Nat /\ (a = x \/ a < x)
      BY <1>0, <1>1 DEF Mine
    <2>2. k # -1
      BY <1>1 DEF Cpu
    <2> QED
      BY <1>0, <1>5, <2>1, <2>2
  <1>7. WalkInv'
    BY <1>3 DEF WalkInv
  <1>8. AssignInv'
    <2>1. \A a \in Mine(Boot)' : a >= 2 => assigned'[PidAt(Boot, a)'] # -1
      BY <1>5, <1>6
    <2>2. cpus' > 1
      BY <1>0
    <2> QED
      BY <1>3, <1>4, <2>1, <2>2 DEF AssignInv
  <1> QED
    BY <1>5, <1>7, <1>8 DEF IInv, QueueInv

\* A step of the walk that gives no task to a core.
LEMMA WalkStep ==
  ASSUME IInv, UNCHANGED <<cpus, list, running, assigned, pid, exec, inService, addedIdx>>,
         distributed' \in BOOLEAN, at'.phase # "link",
         at' \in [phase : {"idle", "share", "leftover"}, i : Nat, j : Nat, ptr : Nat]
  PROVE  /\ TypeInv' /\ BootInv' /\ KnownInv' /\ CopiesInv' /\ ExecInv' /\ Kept
         /\ Mine(Boot)' = Mine(Boot) /\ \A a \in Mine(Boot) : PidAt(Boot, a)' = PidAt(Boot, a)
  <1>1. Cpu' = Cpu /\ Structure' = Structure
    BY DEF Cpu, Structure
  <1>2. TypeInv'
    BY <1>1 DEF IInv, TypeInv
  <1>3. BootInv' /\ KnownInv' /\ CopiesInv'
    BY <1>1 DEF IInv, QueueInv, BootInv, KnownInv, CopiesInv, Mine, PidAt
  <1>4. ExecInv'
    BY <1>1 DEF IInv, ExecInv, Mine, PidAt, This
  <1>5. Mine(Boot)' = Mine(Boot) /\ \A a \in Mine(Boot) : PidAt(Boot, a)' = PidAt(Boot, a)
    BY DEF Mine, PidAt
  <1>6. Kept
    BY DEF Kept
  <1> QED
    BY <1>2, <1>3, <1>4, <1>5, <1>6

LEMMA LeftoverTaskKeeps == IInv /\ LeftoverTask => IInv' /\ Kept
  <1> SUFFICES ASSUME IInv, LeftoverTask PROVE IInv' /\ Kept
    OBVIOUS
  <1> DEFINE x == at.ptr
             k == at.i
  <1>0. /\ at.phase = "leftover" /\ exec[0] = Kernel /\ ~distributed /\ cpus > 1
        /\ UNCHANGED <<cpus, running, pid, exec, inService, addedIdx>>
        /\ k < cpus /\ x \in 2..(Len(list[Boot]) + 1)
        /\ \A a \in Mine(Boot) : a >= 2 /\ a < x => assigned[PidAt(Boot, a)] # -1
    BY DEF LeftoverTask, In, IInv, WalkInv, QueueInv, AssignInv
  <1>1. /\ cpus \in Nat \ {0} /\ k \in Nat /\ k \in Cpu /\ x \in Nat
        /\ Len(list[Boot]) \in Nat /\ addedIdx' \in Cpu /\ distributed \in BOOLEAN
        /\ \A a \in Mine(Boot) : a \in 1..Len(list[Boot])
    BY SMTT(30), <1>0, Basics DEF IInv, TypeInv, Mine, Structure, Cpu
  <1>2. CASE x > Len(list[Boot])
    <2>1. at' = Idle /\ distributed' = TRUE /\ UNCHANGED <<list, assigned>>
      BY <1>0, <1>2 DEF LeftoverTask
    <2>2. at' \in [phase : {"idle", "share", "leftover"}, i : Nat, j : Nat, ptr : Nat]
          /\ at'.phase = "idle"
      BY <2>1 DEF Idle
    <2>3. /\ TypeInv' /\ BootInv' /\ KnownInv' /\ CopiesInv' /\ ExecInv' /\ Kept
          /\ Mine(Boot)' = Mine(Boot) /\ \A a \in Mine(Boot) : PidAt(Boot, a)' = PidAt(Boot, a)
      BY <1>0, <2>1, <2>2, WalkStep
    <2>4. \A a \in Mine(Boot) : a >= 2 => assigned[PidAt(Boot, a)] # -1
      BY <1>0, <1>1, <1>2
    <2>5. AssignInv' /\ WalkInv'
      BY <1>0, <2>1, <2>2, <2>3, <2>4 DEF AssignInv, WalkInv
    <2> QED
      BY <2>3, <2>5 DEF IInv, QueueInv
  <1>3. CASE x <= Len(list[Boot])
    <2>0. x \in Mine(Boot)
      BY <1>0, <1>1, <1>3 DEF Mine
    <2>1. CASE assigned[PidAt(Boot, x)] < 0
      <3>1. /\ CopyTaskToCpu(k, list[Boot][x]) /\ UNCHANGED distributed
            /\ at' = [phase |-> "leftover", i |-> (k + 1) % cpus, j |-> 0, ptr |-> x + 1]
        BY <1>0, <1>1, <1>3, <2>1 DEF LeftoverTask, Go, PidAt
      <3>2. assigned[PidAt(Boot, x)] = -1
        <4>1. PidAt(Boot, x) \in 1..MaxTasks
          <5>1. 1 \in Mine(Boot) /\ PidAt(Boot, 1) = 0 /\ 1 < x
            BY <1>0, <1>1 DEF Mine, IInv, QueueInv, BootInv
          <5>2. PidAt(Boot, x) > 0
            BY <2>0, <5>1 DEF IInv, QueueInv, BootInv
          <5> QED
            BY <2>0, <5>2, Basics DEF IInv, Structure
        <4>2. assigned[PidAt(Boot, x)] = -1 \/ assigned[PidAt(Boot, x)] \in 0..(cpus - 1)
          BY <4>1 DEF IInv, TypeInv, Cpu
        <4> QED
          BY <1>1, <2>1, <4>2
      <3>3. /\ (k + 1) % cpus \in 0..(cpus - 1)
            /\ at' \in [phase : {"idle", "share", "leftover"}, i : Nat, j : Nat, ptr : Nat]
        <4>1. (k + 1) % cpus \in 0..(cpus - 1)
          BY <1>1
        <4>2. (k + 1) % cpus \in Nat /\ x + 1 \in Nat
          BY <1>1, <4>1
        <4> QED
          BY <3>1, <4>1, <4>2
      <3>4. /\ TypeInv' /\ BootInv' /\ KnownInv' /\ CopiesInv' /\ ExecInv' /\ Kept
            /\ Mine(Boot)' = Mine(Boot) /\ list'[Boot] = list[Boot]
            /\ \A a \in Mine(Boot) : /\ PidAt(Boot, a)' = PidAt(Boot, a)
                                     /\ assigned'[PidAt(Boot, a)] =
                                           IF a = x THEN k ELSE assigned[PidAt(Boot, a)]
        <4>1. x >= 2 /\ distributed' \in BOOLEAN
          BY <1>0, <1>1, <3>1
        <4> HIDE DEF x, k
        <4> QED
          BY <1>0, <1>1, <2>0, <3>1, <3>2, <3>3, <4>1, CopyStep
      <3>5. \A a \in Mine(Boot) : a >= 2 /\ a < x + 1 => assigned'[PidAt(Boot, a)] # -1
        <4>1. \A a \in Mine(Boot) : a < x + 1 => a = x \/ a < x
          BY <1>1
        <4>2. k # -1
          BY <1>1
        <4> QED
          BY <1>0, <3>4, <4>1, <4>2
      <3>6. AssignInv'
        BY <1>0, <3>1, <3>4, <3>5 DEF AssignInv
      <3>7. WalkInv'
        <4>1. at'.phase = "leftover" /\ at'.i < cpus' /\ at'.ptr \in 2..(Len(list'[Boot]) + 1)
          BY SMTT(30), <1>0, <1>1, <1>3, <3>1, <3>3, <3>4
        <4> QED
          BY <4>1 DEF WalkInv
      <3> QED
        BY <3>4, <3>6, <3>7 DEF IInv, QueueInv
    <2>2. CASE ~(assigned[PidAt(Boot, x)] < 0)
      <3>1. /\ UNCHANGED <<list, assigned, distributed>>
            /\ at' = [phase |-> "leftover", i |-> k, j |-> 0, ptr |-> x + 1]
        BY <1>0, <1>1, <1>3, <2>2 DEF LeftoverTask, Go, PidAt
      <3>2. at' \in [phase : {"idle", "share", "leftover"}, i : Nat, j : Nat, ptr : Nat]
        BY <1>1, <3>1
      <3>3. /\ TypeInv' /\ BootInv' /\ KnownInv' /\ CopiesInv' /\ ExecInv' /\ Kept
            /\ Mine(Boot)' = Mine(Boot) /\ \A a \in Mine(Boot) : PidAt(Boot, a)' = PidAt(Boot, a)
        <4>1. distributed' \in BOOLEAN /\ at'.phase # "link"
          BY <1>1, <3>1
        <4> QED
          BY <1>0, <3>1, <3>2, <4>1, WalkStep
      <3>4. \A a \in Mine(Boot) : a >= 2 /\ a < x + 1 => assigned[PidAt(Boot, a)] # -1
        <4>1. \A a \in Mine(Boot) : a < x + 1 => a = x \/ a < x
          BY <1>1
        <4>2. assigned[PidAt(Boot, x)] # -1
          BY <2>2
        <4> QED
          BY <1>0, <4>1, <4>2
      <3>5. AssignInv'
        BY <1>0, <3>1, <3>3, <3>4 DEF AssignInv
      <3>6. WalkInv'
        <4>1. at'.phase = "leftover" /\ at'.i < cpus' /\ at'.ptr \in 2..(Len(list'[Boot]) + 1)
          BY <1>0, <1>1, <1>3, <3>1
        <4> QED
          BY <4>1 DEF WalkInv
      <3> QED
        BY <3>3, <3>5, <3>6 DEF IInv, QueueInv
    <2> QED
      BY <2>1, <2>2
  <1> QED
    BY <1>1, <1>2, <1>3

LEMMA ShareTaskKeeps == IInv /\ ShareTask => IInv' /\ Kept
  <1> SUFFICES ASSUME IInv, ShareTask PROVE IInv' /\ Kept
    OBVIOUS
  <1> DEFINE x == at.ptr
             k == at.i
             j == at.j
             done == j = 0 /\ (k = cpus \/ ~HasNext(x))
  <1>0. /\ at.phase = "share" /\ exec[0] = Kernel /\ ~distributed /\ cpus > 1
        /\ UNCHANGED <<cpus, running, pid, exec, inService, distributed, addedIdx>>
        /\ k <= cpus /\ (j > 0 => k < cpus) /\ x \in 2..Len(list[Boot])
        /\ \A a \in Mine(Boot) : (a > x \/ (a = x /\ (j > 0 \/ HasNext(a))))
                                     => assigned[PidAt(Boot, a)] = -1
    BY DEF ShareTask, In, IInv, WalkInv, QueueInv, AssignInv
  <1>1. /\ cpus \in Nat \ {0} /\ k \in Nat /\ j \in Nat /\ x \in Nat /\ x \in Mine(Boot)
        /\ Len(list[Boot]) \in Nat /\ addedIdx' \in Cpu /\ distributed' \in BOOLEAN
        /\ \A a \in Mine(Boot) : a \in 1..Len(list[Boot])
    <2>1. /\ at \in [phase : {"idle", "link", "share", "leftover", "add"}, i : Nat, j : Nat, ptr : Nat]
          /\ addedIdx' \in Cpu /\ distributed' \in BOOLEAN
      BY <1>0 DEF IInv, TypeInv
    <2>2. cpus \in Nat \ {0} /\ Len(list[Boot]) \in Nat
      BY Basics DEF IInv, Structure
    <2> QED
      BY <1>0, <2>1, <2>2 DEF Mine
  <1>2. CASE done
    <2>1. at' = [phase |-> "leftover", i |-> 0, j |-> 0, ptr |-> 2] /\ UNCHANGED <<list, assigned>>
      BY <1>2 DEF ShareTask, Go
    <2>2. at' \in [phase : {"idle", "share", "leftover"}, i : Nat, j : Nat, ptr : Nat]
      BY <2>1
    <2>3. /\ TypeInv' /\ BootInv' /\ KnownInv' /\ CopiesInv' /\ ExecInv' /\ Kept
          /\ Mine(Boot)' = Mine(Boot) /\ \A a \in Mine(Boot) : PidAt(Boot, a)' = PidAt(Boot, a)
      <3>1. at'.phase # "link"
        BY <2>1
      <3> QED
        BY <1>0, <1>1, <2>1, <2>2, <3>1, WalkStep
    <2>4. \A a \in Mine(Boot) : ~(a >= 2 /\ a < 2)
      BY <1>1
    <2>5. AssignInv'
      BY <1>0, <2>1, <2>3, <2>4 DEF AssignInv
    <2>6. WalkInv'
      <3>1. at'.phase = "leftover" /\ at'.i < cpus' /\ at'.ptr \in 2..(Len(list'[Boot]) + 1)
        BY <1>0, <1>1, <2>1
      <3> QED
        BY <3>1 DEF WalkInv
    <2> QED
      BY <2>3, <2>5, <2>6 DEF IInv, QueueInv
  <1>3. CASE ~done
    <2>1. CopyTaskToCpu(k, list[Boot][x])
      BY <1>3 DEF ShareTask
    <2>2. PICK i2 \in Nat, j2 \in Nat, x2 \in Nat :
             /\ at' = [phase |-> "share", i |-> i2, j |-> j2, ptr |-> x2]
             /\ \/ HasNext(x) /\ i2 = k /\ j2 = j + 1 /\ x2 = x + 1
                \/ HasNext(x) /\ i2 = k + 1 /\ j2 = 0 /\ x2 = x + 1
                \/ ~HasNext(x) /\ i2 = k + 1 /\ j2 = 0 /\ x2 = x
      <3>1. CASE HasNext(x) /\ j + 1 < Share
        BY SMTT(30), <1>1, <1>3, <3>1 DEF ShareTask, Go
      <3>2. CASE HasNext(x) /\ ~(j + 1 < Share)
        BY SMTT(30), <1>1, <1>3, <3>2 DEF ShareTask, Go
      <3>3. CASE ~HasNext(x)
        BY SMTT(30), <1>1, <1>3, <3>3 DEF ShareTask, Go
      <3> QED
        BY <3>1, <3>2, <3>3
    <2>3. /\ k < cpus /\ k \in Cpu
          /\ assigned[PidAt(Boot, x)] = -1
      <3>1. j > 0 \/ (k # cpus /\ HasNext(x))
        BY <1>1, <1>3
      <3>2. k < cpus
        BY <1>0, <1>1, <3>1
      <3>3. k \in Cpu
        BY <1>1, <3>2 DEF Cpu
      <3> QED
        BY <1>0, <1>1, <3>1, <3>2, <3>3
    <2>4. at' \in [phase : {"idle", "share", "leftover"}, i : Nat, j : Nat, ptr : Nat]
      BY <2>2
    <2>5. /\ TypeInv' /\ BootInv' /\ KnownInv' /\ CopiesInv' /\ ExecInv' /\ Kept
          /\ Mine(Boot)' = Mine(Boot) /\ list'[Boot] = list[Boot]
          /\ \A a \in Mine(Boot) : /\ PidAt(Boot, a)' = PidAt(Boot, a)
                                   /\ assigned'[PidAt(Boot, a)] =
                                         IF a = x THEN k ELSE assigned[PidAt(Boot, a)]
      <3>1. x >= 2
        BY <1>0
      <3> HIDE DEF x, k, done
      <3> QED
        BY <1>0, <1>1, <2>1, <2>3, <2>4, <3>1, CopyStep
    <2>6. \A a \in Mine(Boot) : HasNext(a)' <=> HasNext(a)
      BY <2>5 DEF HasNext
    <2>7. \A a \in Mine(Boot) :
             (a > x2 \/ (a = x2 /\ (j2 > 0 \/ HasNext(a)))) => assigned'[PidAt(Boot, a)] = -1
      <3>1. ASSUME NEW a \in Mine(Boot), a > x PROVE assigned'[PidAt(Boot, a)] = -1
        BY <1>0, <1>1, <2>5, <3>1
      <3>2. ASSUME NEW a \in Mine(Boot), a > x2 \/ (a = x2 /\ (j2 > 0 \/ HasNext(a)))
            PROVE  a > x
        BY <1>1, <2>2, <3>2
      <3> QED
        BY <3>1, <3>2
    <2>8. AssignInv'
      BY <1>0, <2>2, <2>5, <2>6, <2>7 DEF AssignInv
    <2>9. WalkInv'
      <3>1. i2 <= cpus /\ (j2 > 0 => i2 < cpus) /\ x2 \in 2..Len(list[Boot])
        BY SMTT(30), <1>0, <1>1, <2>2, <2>3 DEF HasNext
      <3>2. /\ at'.phase = "share" /\ at'.i <= cpus' /\ (at'.j > 0 => at'.i < cpus')
            /\ at'.ptr \in 2..Len(list'[Boot])
        BY <1>0, <2>2, <2>5, <3>1
      <3> QED
        BY <3>2 DEF WalkInv
    <2> QED
      BY <2>5, <2>8, <2>9 DEF IInv, QueueInv
  <1> QED
    BY <1>2, <1>3

-----------------------------------------------------------------------------
(* exec() and the timer interrupt                                          *)

LEMMA InitKeeps == Init => IInv
  <1> SUFFICES ASSUME Init PROVE IInv
    OBVIOUS
  <1>0. /\ cpus \in Nat \ {0} /\ 0 \in Cpu /\ Boot \notin Cpu /\ MaxTasks \in Nat
        /\ Boot \in Structure
    BY SchedAssumption DEF Init, Cpu, Boot, Structure
  <1>1. /\ list[Boot] = <<Task(0, "ASLEEP")>>
        /\ \A k \in Cpu : list[k] = <<>>
        /\ list \in [Structure -> Seq(Tasks)]
    <2>1. Task(0, "ASLEEP") \in Tasks
      BY <1>0 DEF Task, Tasks, States
    <2>2. list = [k \in Structure |-> IF k = Boot THEN <<Task(0, "ASLEEP")>> ELSE <<>>]
      BY DEF Init, Structure
    <2>3. <<Task(0, "ASLEEP")>> \in Seq(Tasks) /\ <<>> \in Seq(Tasks)
      <3> HIDE DEF Tasks
      <3> QED
        BY <2>1
    <2>4. \A k \in Cpu : k \in Structure /\ k # Boot
      BY <1>0 DEF Structure
    <2> QED
      BY <1>0, <2>2, <2>3, <2>4
  <1>2. Len(list[Boot]) = 1 /\ PidAt(Boot, 1) = 0 /\ \A k \in Cpu : Len(list[k]) = 0
    BY <1>1 DEF PidAt, Task
  <1>3. TypeInv
    <2>1. \A k \in Structure : running[k] \in 0..Len(list[k]) \/ running[k] = Wild
      BY <1>2 DEF Init, Structure
    <2>2. running \in [Structure -> Int]
      <3>1. running \in [Structure -> {0, 1, Wild}]
        BY DEF Init, Structure
      <3> QED
        BY <3>1 DEF Wild
    <2>3. at \in [phase : {"idle", "link", "share", "leftover", "add"}, i : Nat, j : Nat, ptr : Nat]
      BY DEF Init, Idle
    <2>4. exec \in [Cpu -> Lost..MaxTasks] /\ inService \in [Cpu -> BOOLEAN]
          /\ distributed \in BOOLEAN
      <3>1. Kernel \in Lost..MaxTasks
        BY <1>0 DEF Kernel, Lost
      <3> QED
        BY <3>1 DEF Init
    <2>5. assigned \in [1..MaxTasks -> {-1} \cup Cpu]
      BY DEF Init
    <2>6. cpus \in CpuCounts /\ pid \in 0..MaxTasks /\ addedIdx \in Cpu
      BY <1>0 DEF Init
    <2> QED
      BY <1>1, <2>1, <2>2, <2>3, <2>4, <2>5, <2>6 DEF TypeInv
  <1>4. at.phase = "idle" /\ ~distributed /\ pid = 0 /\ \A p \in 1..MaxTasks : assigned[p] = -1
    BY DEF Init, Idle
  <1>5. WalkInv
    BY <1>4 DEF WalkInv
  <1>6. BootInv
    <2>1. Mine(Boot) = {1}
      BY <1>2 DEF Mine
    <2>2. \A a, b \in Mine(Boot) : ~(a < b)
      BY <2>1
    <2>3. \A a \in Mine(Boot) : PidAt(Boot, a) <= pid
      BY <1>2, <1>4, <2>1
    <2> QED
      BY <1>2, <1>4, <2>2, <2>3 DEF BootInv
  <1>7. AssignInv /\ KnownInv
    BY <1>4 DEF AssignInv, KnownInv
  <1>8. CopiesInv
    <2>1. \A k \in Cpu : Mine(k) = {} /\ k # -1
      BY <1>2 DEF Mine, Cpu
    <2> QED
      BY <1>4, <2>1 DEF CopiesInv
  <1>9. ExecInv
    <2>1. \A c \in Cpu : exec[c] = Kernel /\ ~(Kernel > 0)
      BY DEF Init, Kernel
    <2>2. \A c \in Cpu : \A a \in Mine(This(c)) : ~(PidAt(This(c), a) > 0)
      <3>1. \A a \in Mine(Boot) : ~(PidAt(Boot, a) > 0)
        <4>1. Mine(Boot) = {1}
          BY <1>2 DEF Mine
        <4> QED
          BY <1>2, <4>1
      <3>2. \A k \in Cpu : Mine(k) = {}
        BY <1>2 DEF Mine
      <3> QED
        BY <3>1, <3>2 DEF This
    <2> QED
      BY <2>1, <2>2 DEF ExecInv
  <1> QED
    BY <1>3, <1>5, <1>6, <1>7, <1>8, <1>9 DEF IInv, QueueInv

LEMMA ExecKeeps == ASSUME IInv, NEW valid \in BOOLEAN, Exec(valid) PROVE IInv'
  <1>0. /\ at.phase = "idle" /\ pid < MaxTasks /\ pid' = pid + 1 /\ pid \in Nat /\ MaxTasks \in Nat
        /\ UNCHANGED <<cpus, list, running, assigned, exec, inService, distributed, addedIdx>>
    BY Basics DEF Exec, In, IInv, TypeInv
  <1>1. /\ at' \in [phase : {"idle", "link", "share", "leftover", "add"}, i : Nat, j : Nat, ptr : Nat]
        /\ at'.phase \in {"idle", "link"}
    BY DEF Exec, Go, Idle
  <1>2. Cpu' = Cpu /\ Structure' = Structure /\ Mine(Boot)' = Mine(Boot)
        /\ \A a \in Mine(Boot) : PidAt(Boot, a)' = PidAt(Boot, a)
    BY <1>0 DEF Cpu, Structure, Mine, PidAt
  <1>3. TypeInv'
    <2>1. pid' \in 0..MaxTasks
      BY <1>0
    <2> QED
      BY <1>0, <1>1, <1>2, <2>1 DEF IInv, TypeInv
  <1>4. WalkInv'
    <2>1. pid' > 0
      BY <1>0
    <2> QED
      BY <1>1, <2>1 DEF WalkInv
  <1>5. BootInv'
    <2>1. \A a \in Mine(Boot) : PidAt(Boot, a) < pid' /\ PidAt(Boot, a) <= pid'
      <3>1. \A a \in Mine(Boot) : PidAt(Boot, a) \in Int /\ PidAt(Boot, a) <= pid
        BY Basics DEF IInv, QueueInv, BootInv, Structure
      <3> QED
        BY <1>0, <3>1
    <2>2. /\ Len(list'[Boot]) >= 1 /\ PidAt(Boot, 1)' = 0
          /\ \A a, b \in Mine(Boot)' : a < b => PidAt(Boot, a)' < PidAt(Boot, b)'
      <3>1. 1 \in Mine(Boot)
        BY Basics DEF IInv, QueueInv, BootInv, Structure, Mine
      <3> QED
        BY <1>0, <1>2, <3>1 DEF IInv, QueueInv, BootInv
    <2> QED
      BY <1>2, <2>1, <2>2 DEF BootInv
  <1>6. AssignInv' /\ KnownInv'
    BY <1>0, <1>1, <1>2 DEF IInv, QueueInv, AssignInv, KnownInv
  <1>7. CopiesInv'
    BY SMTT(30), <1>0, <1>2 DEF IInv, QueueInv, CopiesInv, Mine, PidAt
  <1>8. ExecInv'
    BY <1>0, <1>2 DEF IInv, ExecInv, Mine, PidAt, This
  <1> QED
    BY <1>3, <1>4, <1>5, <1>6, <1>7, <1>8 DEF IInv, QueueInv

LEMMA SchedQueueKeeps == IInv /\ SchedQueue => IInv'
  <1> SUFFICES ASSUME IInv, SchedQueue PROVE IInv'
    OBVIOUS
  <1> DEFINE t == Task(pid, "SUSPENDED")
             n == Len(list[Boot])
  <1>0. /\ at.phase = "link" /\ exec[0] = Kernel /\ pid > 0
        /\ list' = [list EXCEPT ![Boot] = Append(@, t)]
        /\ UNCHANGED <<cpus, running, assigned, pid, exec, inService, distributed, addedIdx>>
    BY DEF SchedQueue, In, IInv, WalkInv
  <1>1. /\ cpus \in Nat \ {0} /\ n \in Nat /\ n >= 1 /\ pid \in 1..MaxTasks /\ MaxTasks \in Nat
        /\ Boot \in Structure /\ list[Boot] \in Seq(Tasks) /\ t \in Tasks /\ distributed \in BOOLEAN
        /\ Boot \notin Cpu /\ Cpu' = Cpu /\ Structure' = Structure
        /\ \A k \in Cpu : k \in Structure /\ k # Boot
    <2>1. Boot \in Structure /\ \A k \in Cpu : k \in Structure /\ k # Boot
      BY Basics DEF IInv, Structure
    <2>2. pid \in 1..MaxTasks
      BY <1>0, Basics DEF IInv, TypeInv
    <2>3. t \in Tasks
      BY <2>2, Basics DEF IInv, Task, Tasks, States
    <2>4. n >= 1 /\ distributed \in BOOLEAN
      BY DEF IInv, TypeInv, QueueInv, BootInv
    <2> QED
      BY <1>0, <2>1, <2>2, <2>3, <2>4, Basics DEF IInv, Cpu, Structure
  <1>2. /\ list' \in [Structure -> Seq(Tasks)]
        /\ \A k \in Cpu : list'[k] = list[k]
        /\ Len(list'[Boot]) = n + 1 /\ list'[Boot][n + 1] = t
        /\ \A a \in 1..n : list'[Boot][a] = list[Boot][a]
    <2>1. /\ Append(list[Boot], t) \in Seq(Tasks)
          /\ Len(Append(list[Boot], t)) = n + 1
          /\ \A a \in 1..n : Append(list[Boot], t)[a] = list[Boot][a]
          /\ Append(list[Boot], t)[n + 1] = t
      <3> HIDE DEF t
      <3> QED
        BY <1>1, Appending
    <2>2. list' \in [Structure -> Seq(Tasks)] /\ list'[Boot] = Append(list[Boot], t)
          /\ \A k \in Cpu : list'[k] = list[k]
      <3> HIDE DEF t, n
      <3> QED
        BY <1>0, <1>1, <2>1 DEF IInv, TypeInv
    <2> QED
      BY <2>1, <2>2
  <1>3. PICK m \in Nat : m = n
    BY <1>1
  <1>4. /\ m >= 1 /\ Mine(Boot) = 1..m /\ Mine(Boot)' = 1..(m + 1)
        /\ \A a \in 1..m : PidAt(Boot, a)' = PidAt(Boot, a)
        /\ PidAt(Boot, m + 1)' = pid
        /\ \A a \in 1..(m + 1) : a \in 1..m \/ a = m + 1
        /\ \A a \in 1..m : a \in 1..(m + 1) /\ a < m + 1
    BY <1>1, <1>2, <1>3 DEF Mine, PidAt, Task
  <1>5. /\ at' \in [phase : {"idle", "link", "share", "leftover", "add"}, i : Nat, j : Nat, ptr : Nat]
        /\ \/ at'.phase = "share" /\ at'.i = 0 /\ at'.j = 0 /\ at'.ptr = 2 /\ cpus > 1 /\ ~distributed
           \/ at'.phase = "add" /\ at'.ptr = m + 1 /\ distributed
           \/ at'.phase = "idle" /\ (distributed => cpus <= 1)
    <2>1. n + 1 \in Nat
      BY <1>1
    <2>2. CASE Multicore /\ pid > SingleCoreMax /\ ~distributed
      BY <1>1, <2>2 DEF SchedQueue, Go, Multicore
    <2>3. CASE Multicore /\ distributed
      BY <1>3, <2>1, <2>3 DEF SchedQueue, Go
    <2>4. CASE ~(Multicore /\ pid > SingleCoreMax /\ ~distributed) /\ ~(Multicore /\ distributed)
      BY <1>1, <2>4 DEF SchedQueue, Idle, Multicore
    <2> QED
      BY <2>2, <2>3, <2>4
  <1> HIDE DEF t, n
  <1>6. TypeInv'
    <2>1. ASSUME NEW k \in Structure PROVE running[k] \in 0..Len(list'[k]) \/ running[k] = Wild
      <3>1. Len(list[k]) \in Nat /\ (running[k] \in 0..Len(list[k]) \/ running[k] = Wild)
        BY Basics DEF IInv, TypeInv
      <3>2. CASE k = Boot
        BY <1>1, <1>2, <3>1, <3>2 DEF n
      <3>3. CASE k # Boot
        BY <1>2, <3>1, <3>3 DEF Structure
      <3> QED
        BY <3>2, <3>3
    <2> QED
      BY <1>0, <1>1, <1>2, <1>5, <2>1 DEF IInv, TypeInv
  <1>7. WalkInv'
    <2>1. Len(list'[Boot]) = m + 1 /\ cpus' = cpus /\ m + 1 >= 2
      BY <1>0, <1>2, <1>3, <1>4
    <2>2. CASE at'.phase = "share"
      BY <1>1, <1>5, <2>1, <2>2 DEF WalkInv
    <2>3. CASE at'.phase = "add"
      BY <1>5, <2>1, <2>3 DEF WalkInv
    <2>4. CASE at'.phase = "idle"
      BY <2>4 DEF WalkInv
    <2> QED
      BY <1>5, <2>2, <2>3, <2>4
  <1>8. /\ PidAt(Boot, 1) = 0
        /\ \A a, b \in 1..m : a < b => PidAt(Boot, a) < PidAt(Boot, b)
        /\ \A a \in 1..m : PidAt(Boot, a) < pid
    BY <1>0, <1>4 DEF IInv, QueueInv, BootInv
  <1>9. BootInv'
    <2>1. Len(list'[Boot]) >= 1 /\ PidAt(Boot, 1)' = 0
      <3>1. 1 \in 1..m
        BY <1>4
      <3> QED
        BY <1>2, <1>3, <1>4, <1>8, <3>1
    <2>2. ASSUME NEW a \in 1..(m + 1), NEW b \in 1..(m + 1), a < b
          PROVE  PidAt(Boot, a)' < PidAt(Boot, b)'
      <3>1. a \in 1..m
        BY <2>2
      <3>2. CASE b \in 1..m
        BY <1>4, <1>8, <2>2, <3>1, <3>2
      <3>3. CASE b = m + 1
        BY <1>4, <1>8, <3>1, <3>3
      <3> QED
        BY <1>4, <3>2, <3>3
    <2>3. \A a \in 1..(m + 1) : PidAt(Boot, a)' <= pid
      <3>1. \A a \in 1..m : PidAt(Boot, a) \in Int
        BY <1>1, <1>4, Basics DEF IInv
      <3> QED
        BY <1>1, <1>4, <1>8, <3>1
    <2> QED
      BY <1>0, <1>4, <1>5, <2>1, <2>2, <2>3 DEF BootInv
  <1>10. assigned[pid] = -1
    BY <1>1, <1>4, <1>8, Basics DEF IInv, QueueInv, KnownInv
  <1>11. AssignInv'
    <2>1. CASE at'.phase = "share"
      <3>1. \A p \in 1..MaxTasks : assigned[p] = -1
        BY <1>0, <1>5, <2>1 DEF IInv, QueueInv, AssignInv
      <3>2. \A a \in Mine(Boot)' : a > at'.ptr \/ (a = at'.ptr /\ (at'.j > 0 \/ HasNext(a)'))
                => assigned'[PidAt(Boot, a)'] = -1
        <4>1. ASSUME NEW a \in 1..(m + 1), a >= 2 PROVE PidAt(Boot, a)' \in 1..MaxTasks
          <5>1. CASE a = m + 1
            BY <1>1, <1>4, <5>1
          <5>2. CASE a \in 1..m
            <6>1. PidAt(Boot, a) \in 0..MaxTasks /\ PidAt(Boot, a) > 0
              BY <1>1, <1>4, <1>8, <4>1, <5>2, Basics DEF IInv
            <6> QED
              BY <1>4, <5>2, <6>1
          <5> QED
            BY <1>4, <5>1, <5>2
        <4>2. \A a \in 1..(m + 1) : a > at'.ptr \/ a = at'.ptr => a >= 2
          BY <1>5, <2>1
        <4> QED
          BY <1>0, <1>4, <3>1, <4>1, <4>2
      <3> QED
        BY <1>0, <1>5, <2>1, <3>2 DEF AssignInv
    <2>2. CASE at'.phase = "add"
      <3>1. distributed /\ at'.ptr = m + 1
        BY <1>5, <2>2
      <3>2. \A a \in 1..m : a >= 2 => assigned[PidAt(Boot, a)] # -1
        BY <1>0, <1>4, <3>1 DEF IInv, QueueInv, AssignInv
      <3>3. assigned'[list'[Boot][at'.ptr].pid] = -1
        <4>1. list'[Boot][at'.ptr].pid = pid
          BY <1>4, <3>1 DEF PidAt
        <4> QED
          BY <1>0, <1>10, <4>1
      <3>4. \A a \in Mine(Boot)' : a >= 2 /\ a < at'.ptr => assigned'[PidAt(Boot, a)'] # -1
        BY <1>0, <1>4, <3>1, <3>2
      <3>5. cpus > 1
        BY <3>1 DEF IInv, QueueInv, AssignInv
      <3>6. (PidAt(Boot, at.ptr))' = list'[Boot][at'.ptr].pid
        BY DEF PidAt
      <3> QED
        BY <1>0, <2>2, <3>1, <3>3, <3>4, <3>5, <3>6 DEF AssignInv
    <2>3. CASE at'.phase = "idle"
      <3>1. ~distributed
        BY <1>1, <1>5, <2>3 DEF IInv, QueueInv, AssignInv
      <3>2. \A p \in 1..MaxTasks : assigned[p] = -1
        BY <1>0, <3>1 DEF IInv, QueueInv, AssignInv
      <3> QED
        BY <1>0, <2>3, <3>1, <3>2 DEF AssignInv
    <2> QED
      BY <1>5, <2>1, <2>2, <2>3
  <1>12. KnownInv'
    BY <1>0, <1>4 DEF IInv, QueueInv, KnownInv
  <1>13. CopiesInv'
    <2>1. \A k \in Cpu : Mine(k)' = Mine(k) /\ \A a \in Mine(k) : PidAt(k, a)' = PidAt(k, a)
      BY <1>2 DEF Mine, PidAt
    <2> QED
      BY <1>0, <1>1, <2>1 DEF IInv, QueueInv, CopiesInv
  <1>14. ExecInv'
    <2>1. ASSUME NEW c \in Cpu, c # 0
          PROVE  /\ ~(exec[c] > 0)
                 /\ exec[c] = Kernel => \A a \in Mine(c)' :
                        PidAt(c, a)' > 0 => list'[c][a].state # "RUNNING"
      BY <1>1, <1>2, <2>1 DEF IInv, ExecInv, Mine, PidAt, This
    <2>2. ~(exec[0] > 0)
      BY <1>0 DEF Kernel
    <2>3. \A a \in Mine(Boot)' : list'[Boot][a].pid > 0 => list'[Boot][a].state # "RUNNING"
      <3>1. list'[Boot][m + 1].state = "SUSPENDED"
        BY <1>2, <1>3 DEF t, Task
      <3>2. \A a \in 1..m : list[Boot][a].pid > 0 => list[Boot][a].state # "RUNNING"
        BY <1>0, <1>1, <1>4, Basics DEF IInv, ExecInv, This, PidAt
      <3>3. \A a \in 1..m : list'[Boot][a] = list[Boot][a]
        BY <1>2, <1>3
      <3> QED
        BY <1>4, <3>1, <3>2, <3>3
    <2>4. This(0) = Boot /\ \A c \in Cpu : c # 0 => This(c) = c
      BY DEF This
    <2> QED
      BY <1>0, <1>1, <2>1, <2>2, <2>3, <2>4 DEF ExecInv, This, PidAt
  <1> QED
    BY <1>6, <1>7, <1>9, <1>11, <1>12, <1>13, <1>14 DEF IInv, QueueInv

\* A task switch of structure k changes no pid: what holds of the distribution
\* still holds.
LEMMA SamePids ==
  ASSUME TypeInv, WalkInv, QueueInv, UNCHANGED <<cpus, assigned, pid, distributed, at>>,
         \A k \in Structure : /\ Len(list'[k]) = Len(list[k])
                              /\ \A a \in Mine(k) : list'[k][a].pid = list[k][a].pid
  PROVE  QueueInv'
  <1>1. /\ Cpu' = Cpu /\ Boot \in Structure
        /\ \A k \in Structure : Mine(k)' = Mine(k)
                                /\ \A a \in Mine(k) : PidAt(k, a)' = PidAt(k, a)
        /\ \A k \in Cpu : k \in Structure
    BY DEF Cpu, Structure, Mine, PidAt
  <1>2. /\ Len(list'[Boot]) = Len(list[Boot]) /\ Len(list[Boot]) >= 1
        /\ Mine(Boot)' = Mine(Boot) /\ \A a \in Mine(Boot) : PidAt(Boot, a)' = PidAt(Boot, a)
    BY <1>1 DEF QueueInv, BootInv
  <1>3. BootInv'
    <2>1. PidAt(Boot, 1)' = 0
      <3>1. 1 \in Mine(Boot)
        BY <1>1, <1>2, Basics DEF Mine
      <3> QED
        BY <1>2, <3>1 DEF QueueInv, BootInv
    <2> QED
      BY <1>2, <2>1 DEF QueueInv, BootInv
  <1>4. AssignInv'
    <2>1. \A a \in Mine(Boot) : HasNext(a)' <=> HasNext(a)
      BY <1>2 DEF HasNext
    <2>2. at.phase = "add" => (PidAt(Boot, at.ptr))' = PidAt(Boot, at.ptr)
      <3>1. at.phase = "add" => at.ptr \in Mine(Boot)
        BY <1>1, Basics DEF WalkInv, Mine
      <3>2. \A a \in Mine(Boot) : list'[Boot][a].pid = list[Boot][a].pid
        BY <1>1
      <3> QED
        BY <3>1, <3>2 DEF PidAt
    <2> QED
      BY <1>2, <2>1, <2>2 DEF QueueInv, AssignInv
  <1>5. KnownInv'
    BY <1>2 DEF QueueInv, KnownInv
  <1>6. CopiesInv'
    BY <1>1 DEF QueueInv, CopiesInv
  <1> QED
    BY <1>3, <1>4, <1>5, <1>6 DEF QueueInv

LEMMA TickKeeps == ASSUME IInv, NEW c \in Cpu, Tick(c) PROVE IInv'
  <1> DEFINE k  == This(c)
             t1 == IF running[k] = 0 THEN 1 ELSE running[k]
             t2 == NextTask(k, t1)
  <1>0. /\ exec[c] \notin {Panicked, Lost} /\ ~inService[c] /\ list[k] # <<>>
        /\ UNCHANGED <<cpus, assigned, pid, distributed, addedIdx, at>>
    BY DEF Tick
  <1>1. /\ k \in Structure /\ list[k] \in Seq(Tasks) /\ Len(list[k]) \in Nat \ {0}
        /\ Cpu' = Cpu /\ Structure' = Structure /\ Boot \notin Cpu /\ 0 \in Cpu
        /\ MaxTasks \in Nat /\ exec[c] \in Lost..MaxTasks
        /\ k = IF c = 0 THEN Boot ELSE c
    <2>1. k \in Structure
      BY DEF This, Structure
    <2>2. list[k] \in Seq(Tasks) /\ Len(list[k]) \in Nat
      BY <2>1, Basics DEF IInv
    <2>3. Len(list[k]) # 0
      BY <1>0, <2>2
    <2> QED
      BY <1>0, <2>1, <2>2, <2>3, Basics DEF IInv, TypeInv, Cpu, Structure, This
  <1>2. exec[c] = Kernel
    <2>1. ~(exec[c] > 0)
      BY <1>0 DEF IInv, ExecInv
    <2> QED
      BY <1>0, <1>1, <2>1 DEF Kernel, Panicked, Lost
  <1>3. \A a \in Mine(k) : list[k][a].pid > 0 => list[k][a].state # "RUNNING"
    BY <1>2 DEF IInv, ExecInv, PidAt
  <1>4. \A d \in Cpu : d # c => This(d) # k /\ This(d) \in Structure
    BY <1>1 DEF This, Structure
  <1>5. WalkInv' /\ QueueInv' /\ ExecInv' /\ TypeInv'
    <2>1. CASE running[k] = Wild
      <3>1. exec' = [exec EXCEPT ![c] = Lost] /\ UNCHANGED <<list, running, inService>>
        BY <2>1 DEF Tick
      <3>2. WalkInv'
        BY <1>0, <3>1 DEF IInv, WalkInv
      <3>3. QueueInv'
        BY <1>0, <3>1, SamePids DEF IInv
      <3>4. exec' \in [Cpu -> Lost..MaxTasks]
        <4>1. Lost \in Lost..MaxTasks
          BY <1>1 DEF Lost
        <4> QED
          BY <3>1, <4>1 DEF IInv, TypeInv
      <3>5. TypeInv'
        BY <1>0, <1>1, <3>1, <3>4 DEF IInv, TypeInv
      <3>6. ExecInv'
        <4>1. exec'[c] = Lost /\ \A d \in Cpu : d # c => exec'[d] = exec[d]
          BY <3>1 DEF IInv, TypeInv
        <4>2. Lost # Kernel /\ ~(Lost > 0)
          BY DEF Lost, Kernel
        <4> QED
          BY <1>1, <3>1, <4>1, <4>2 DEF IInv, ExecInv, Mine, PidAt, This
      <3> QED
        BY <3>2, <3>3, <3>5, <3>6
    <2>2. CASE running[k] # Wild
      <3>0. t1 \in 1..Len(list[k]) /\ t2 \in 1..Len(list[k]) /\ running[k] \in 0..Len(list[k])
        <4>1. running[k] \in 0..Len(list[k])
          BY <1>1, <2>2 DEF IInv, TypeInv
        <4>2. t1 \in 1..Len(list[k])
          BY <1>1, <4>1
        <4> HIDE DEF t1
        <4>3. t2 \in 1..Len(list[k])
          BY <1>1, <4>2 DEF NextTask
        <4> QED
          BY <4>1, <4>2, <4>3
      <3>1. /\ running' = [running EXCEPT ![k] = t2]
            /\ \/ /\ list[k][t2].state = "SUSPENDED"
                  /\ list' = [list EXCEPT ![k] = SwitchStates(@, t1, t2)]
                  /\ \/ list[k][t2].pid > 0 /\ LeaveForUser(c, list[k][t2].pid)
                     \/ ~(list[k][t2].pid > 0) /\ UNCHANGED <<exec, inService>>
               \/ UNCHANGED <<list, exec, inService>>
        BY <2>2 DEF Tick
      <3> HIDE DEF t1, t2, k
      <3>2. /\ running' \in [Structure -> Int] /\ running'[k] = t2 /\ t2 \in Int
            /\ \A m \in Structure : m # k => running'[m] = running[m]
        BY <1>1, <3>0, <3>1 DEF IInv, TypeInv
      <3>3. CASE UNCHANGED <<list, exec, inService>>
        <4>1. WalkInv'
          BY <1>0, <3>3 DEF IInv, WalkInv
        <4>2. QueueInv'
          BY <1>0, <3>3, SamePids DEF IInv
        <4>3. TypeInv'
          <5>1. ASSUME NEW m \in Structure PROVE running'[m] \in 0..Len(list[m]) \/ running'[m] = Wild
            <6>1. CASE m = k
              BY <1>1, <3>0, <3>2, <6>1
            <6>2. CASE m # k
              BY <3>2, <6>2 DEF IInv, TypeInv
            <6> QED
              BY <6>1, <6>2
          <5> QED
            BY <1>0, <1>1, <3>2, <3>3, <5>1 DEF IInv, TypeInv
        <4>4. ExecInv'
          <5>1. \A d \in Cpu : exec[d] > 0 => d = 0 /\ k # Boot
            BY <1>1, <1>2 DEF IInv, ExecInv, Kernel
          <5>2. Boot \in Structure
            BY DEF Structure
          <5> QED
            BY <1>1, <3>2, <3>3, <5>1, <5>2 DEF IInv, ExecInv, Mine, PidAt, This
        <4> QED
          BY <4>1, <4>2, <4>3, <4>4
      <3>4. CASE /\ list' = [list EXCEPT ![k] = SwitchStates(@, t1, t2)]
                 /\ list[k][t2].state = "SUSPENDED"
                 /\ \/ list[k][t2].pid > 0 /\ LeaveForUser(c, list[k][t2].pid)
                    \/ ~(list[k][t2].pid > 0) /\ UNCHANGED <<exec, inService>>
        <4> DEFINE s == SwitchStates(list[k], t1, t2)
        <4>1. /\ s \in Seq(Tasks) /\ Len(s) = Len(list[k])
              /\ \A a \in 1..Len(list[k]) :
                    /\ s[a].pid = list[k][a].pid
                    /\ a # t2 => s[a].state = list[k][a].state \/ s[a].state = "SUSPENDED"
              /\ s[t2] = Task(list[k][t2].pid, "RUNNING")
          <5>1. s = SwitchStates(list[k], t1, t2)
            OBVIOUS
          <5> HIDE DEF s
          <5>2. list[k] \in Seq(Tasks) /\ t1 \in 1..Len(list[k]) /\ t2 \in 1..Len(list[k])
            BY <1>1, <3>0
          <5>3. Switched(list[k], t2, s)
            BY <5>1, <5>2, Switching
          <5> QED
            BY <5>3 DEF Switched
        <4> HIDE DEF s
        <4>2. /\ list' \in [Structure -> Seq(Tasks)] /\ list'[k] = s
              /\ \A m \in Structure : m # k => list'[m] = list[m]
          BY <1>1, <3>4, <4>1 DEF IInv, TypeInv, s
        <4>3. \A m \in Structure : /\ Len(list'[m]) = Len(list[m])
                                   /\ \A a \in Mine(m) : list'[m][a].pid = list[m][a].pid
          BY <4>1, <4>2 DEF Mine
        <4>4. WalkInv'
          <5>1. Len(list'[Boot]) = Len(list[Boot])
            BY <4>3 DEF Structure
          <5> QED
            BY <1>0, <5>1 DEF IInv, WalkInv
        <4>5. QueueInv'
          BY <1>0, <4>3, SamePids DEF IInv
        <4>6. PICK p \in 0..MaxTasks : p = list[k][t2].pid
          BY <1>1, <3>0, Element
        <4>7. \/ p = 0 /\ UNCHANGED <<exec, inService>>
              \/ p > 0 /\ inService' = [inService EXCEPT ![c] = TRUE]
                 /\ exec' = [exec EXCEPT ![c] = IF c = 0 THEN p ELSE Panicked]
          BY <3>4, <4>6 DEF LeaveForUser
        <4>8. exec' \in [Cpu -> Lost..MaxTasks] /\ inService' \in [Cpu -> BOOLEAN]
          <5>1. p \in Lost..MaxTasks /\ Panicked \in Lost..MaxTasks
            BY <1>1 DEF Lost, Panicked
          <5>2. exec \in [Cpu -> Lost..MaxTasks] /\ inService \in [Cpu -> BOOLEAN]
            BY DEF IInv, TypeInv
          <5>3. CASE UNCHANGED <<exec, inService>>
            BY <5>2, <5>3
          <5>4. CASE /\ inService' = [inService EXCEPT ![c] = TRUE]
                     /\ exec' = [exec EXCEPT ![c] = IF c = 0 THEN p ELSE Panicked]
            BY <5>1, <5>2, <5>4
          <5> QED
            BY <4>7, <5>3, <5>4
        <4>9. TypeInv'
          <5>1. ASSUME NEW m \in Structure
                PROVE  running'[m] \in 0..Len(list'[m]) \/ running'[m] = Wild
            <6>1. CASE m = k
              BY <1>1, <3>0, <3>2, <4>1, <4>2, <6>1
            <6>2. CASE m # k
              BY <3>2, <4>2, <6>2 DEF IInv, TypeInv
            <6> QED
              BY <6>1, <6>2
          <5> QED
            BY <1>0, <1>1, <3>2, <4>2, <4>8, <5>1 DEF IInv, TypeInv
        <4>10. ASSUME NEW d \in Cpu, d # c
               PROVE  /\ exec'[d] = exec[d] /\ inService'[d] = inService[d]
                      /\ list'[This(d)] = list[This(d)]
                      /\ running'[This(d)] = running[This(d)]
          <5>1. exec'[d] = exec[d] /\ inService'[d] = inService[d]
            BY <4>7, <4>10 DEF IInv, TypeInv
          <5> QED
            BY <1>4, <3>2, <4>2, <4>10, <5>1
        <4>11. ASSUME NEW d \in Cpu, d # c
               PROVE  /\ exec'[d] > 0 => /\ d = 0 /\ inService'[d] /\ running'[Boot] \in Mine(Boot)'
                                         /\ list'[Boot][running'[Boot]] = Task(exec'[d], "RUNNING")
                      /\ exec'[d] = Kernel => \A a \in Mine(This(d))' :
                             PidAt(This(d), a)' > 0 => list'[This(d)][a].state # "RUNNING"
          <5>1. d = 0 => This(d) = Boot
            BY DEF This
          <5>2. This(d)' = This(d)
            BY DEF This
          <5> QED
            BY <4>10, <4>11, <5>1, <5>2 DEF IInv, ExecInv, Mine, PidAt
        <4>12. /\ exec'[c] > 0 => /\ c = 0 /\ inService'[c] /\ running'[Boot] \in Mine(Boot)'
                                  /\ list'[Boot][running'[Boot]] = Task(exec'[c], "RUNNING")
               /\ exec'[c] = Kernel => \A a \in Mine(k)' :
                      list'[k][a].pid > 0 => list'[k][a].state # "RUNNING"
          <5>1. CASE p = 0 /\ UNCHANGED <<exec, inService>>
            <6>1. exec'[c] = Kernel /\ ~(Kernel > 0)
              BY <1>2, <5>1 DEF Kernel
            <6>2. ASSUME NEW a \in 1..Len(list[k]), s[a].pid > 0 PROVE s[a].state # "RUNNING"
              <7>1. a # t2 /\ list[k][a].pid > 0
                BY <4>1, <4>6, <5>1, <6>2 DEF Task
              <7>2. list[k][a].state # "RUNNING"
                BY <1>3, <7>1 DEF Mine
              <7> QED
                BY <4>1, <7>1, <7>2
            <6> QED
              BY <4>1, <4>2, <6>1, <6>2 DEF Mine
          <5>2. CASE c = 0 /\ p > 0 /\ inService' = [inService EXCEPT ![c] = TRUE]
                     /\ exec' = [exec EXCEPT ![c] = p]
            <6>1. exec'[c] = p /\ inService'[c] /\ p # Kernel
              BY <5>2 DEF IInv, TypeInv, Kernel
            <6>2. k = Boot
              BY <1>1, <5>2
            <6>3. running'[Boot] = t2 /\ t2 \in Mine(Boot)'
              BY <3>0, <3>2, <4>1, <4>2, <6>2 DEF Mine
            <6>4. list'[Boot][t2] = Task(p, "RUNNING")
              BY <4>1, <4>2, <4>6, <6>2
            <6> QED
              BY <5>2, <6>1, <6>3, <6>4
          <5>3. CASE c # 0 /\ exec' = [exec EXCEPT ![c] = Panicked]
            <6>1. exec'[c] = Panicked /\ Panicked # Kernel /\ ~(Panicked > 0)
              BY <5>3 DEF IInv, TypeInv, Panicked, Kernel
            <6> QED
              BY <6>1
          <5> QED
            BY <4>7, <5>1, <5>2, <5>3
        <4>13. ExecInv'
          <5>1. ASSUME NEW d \in Cpu
                PROVE  (/\ exec[d] > 0 => /\ d = 0 /\ inService[d] /\ running[Boot] \in Mine(Boot)
                                          /\ list[Boot][running[Boot]] = Task(exec[d], "RUNNING")
                        /\ exec[d] = Kernel => \A a \in Mine(This(d)) :
                               PidAt(This(d), a) > 0 => list[This(d)][a].state # "RUNNING")'
            <6>1. CASE d = c
              <7>1. This(d)' = k
                BY <6>1 DEF This, k
              <7> QED
                BY <4>12, <6>1, <7>1 DEF Mine, PidAt
            <6>2. CASE d # c
              BY <4>11, <6>2 DEF This
            <6> QED
              BY <6>1, <6>2
          <5> QED
            BY <1>1, <5>1 DEF ExecInv
        <4> QED
          BY <4>4, <4>5, <4>9, <4>13
      <3> QED
        BY <3>1, <3>3, <3>4
    <2> QED
      BY <2>1, <2>2
  <1> QED
    BY <1>5 DEF IInv

-----------------------------------------------------------------------------
(* The theorems                                                            *)

LEMMA StepKeeps == IInv /\ [Next]_vars => IInv'
  <1> SUFFICES ASSUME IInv, [Next]_vars PROVE IInv'
    OBVIOUS
  <1>1. ASSUME NEW valid \in BOOLEAN, Exec(valid) PROVE IInv'
    BY <1>1, ExecKeeps
  <1>2. CASE SchedQueue
    BY <1>2, SchedQueueKeeps
  <1>3. CASE ShareTask
    BY <1>3, ShareTaskKeeps
  <1>4. CASE LeftoverTask
    BY <1>4, LeftoverTaskKeeps
  <1>5. CASE AddTask
    BY <1>5, AddTaskKeeps
  <1>6. ASSUME NEW c \in Cpu, Tick(c) PROVE IInv'
    BY SMTT(30), <1>6, TickKeeps
  <1>7. CASE UNCHANGED vars
    BY SMTT(30), <1>7 DEF vars, IInv, TypeInv, WalkInv, QueueInv, BootInv, AssignInv, KnownInv, CopiesInv,
       ExecInv, Structure, Cpu, Mine, PidAt, This, HasNext
  <1> QED
    BY <1>1, <1>2, <1>3, <1>4, <1>5, <1>6, <1>7 DEF Next

LEMMA Inductive == Spec => []IInv
  BY InitKeeps, StepKeeps, PTL DEF Spec

\* sched_queue(), assign_tasks_to_cpus(), switch_task(): indices and lists stay
\* in range, for any number of cores and tasks.
THEOREM TypeCorrect == Spec => []TypeOK
  <1>1. IInv => TypeOK
    <2> SUFFICES ASSUME IInv PROVE TypeOK
      OBVIOUS
    <2>1. \A k \in {Boot} \cup Cpu : \A a \in 1..Len(list[k]) :
             list[k][a] \in [pid : 0..MaxTasks, state : {"ASLEEP", "SUSPENDED", "RUNNING"}]
      BY Element DEF IInv, TypeInv, Structure, Tasks, States
    <2>2. \A k \in {Boot} \cup Cpu : running[k] \in 0..Len(list[k]) \cup {Wild}
      BY DEF IInv, TypeInv, Structure
    <2>3. at.phase \in {"idle", "link", "share", "leftover", "add"}
      BY DEF IInv, TypeInv
    <2>4. \A c \in Cpu : exec[c] \in Lost..MaxTasks
      BY DEF IInv, TypeInv
    <2> QED
      BY <2>1, <2>2, <2>3, <2>4 DEF IInv, TypeInv, TypeOK
  <1> QED
    BY Inductive, <1>1, PTL

\* A set of places that share a property no two places share.
LEMMA AtMostOnce ==
  ASSUME NEW k \in Structure, NEW p,
         \A a, b \in Mine(k) : PidAt(k, a) = PidAt(k, b) => a = b
  PROVE  Occurrences(k, p) = IF p \in Pids(list[k]) THEN 1 ELSE 0
  <1> DEFINE S == {i \in 1..Len(list[k]) : list[k][i].pid = p}
  <1>0. \A a, b \in 1..Len(list[k]) : list[k][a].pid = list[k][b].pid => a = b
    BY DEF Mine, PidAt
  <1>1. CASE p \in Pids(list[k])
    <2>1. PICK a \in 1..Len(list[k]) : list[k][a].pid = p
      BY <1>1 DEF Pids
    <2>2. S = {a}
      BY <1>0, <2>1
    <2>3. Cardinality({a}) = 1
      BY FS_Singleton
    <2> QED
      BY <1>1, <2>2, <2>3 DEF Occurrences
  <1>2. CASE p \notin Pids(list[k])
    <2>1. S = {}
      BY <1>2 DEF Pids
    <2> QED
      BY <1>2, <2>1, FS_EmptySet DEF Occurrences
  <1> QED
    BY <1>1, <1>2

\* assign_tasks_to_cpus(): however many cores there are and whatever the timer
\* interrupts do meanwhile, a queued task is once in the BSP's list, has at most
\* one copy, where its original says, and is executed from those lists only.
THEOREM OneOriginalOneCopy == Spec => []OriginalAndCopy
  <1>1. IInv => OriginalAndCopy
    <2> SUFFICES ASSUME IInv, NEW p \in 1..MaxTasks
                 PROVE  /\ Occurrences(Boot, p) = IF p \in Queued THEN 1 ELSE 0
                        /\ \A k \in Cpu : Occurrences(k, p) = IF k = assigned[p] THEN 1 ELSE 0
                        /\ assigned[p] # -1 => p \in Queued
                        /\ p \in Queued => Holders(p) = {0} \cup ({assigned[p]} \cap Cpu)
                        /\ distributed /\ at.phase = "idle" /\ p \in Queued => assigned[p] \in Cpu
      BY DEF OriginalAndCopy
    <2>0. /\ MaxTasks \in Nat /\ p # 0 /\ Boot \notin Cpu /\ 0 \in Cpu /\ Boot \in Structure
          /\ Cpu \subseteq Structure /\ -1 \notin Cpu
      BY Basics DEF IInv, Structure
    <2>1. p \in Queued <=> \E x \in Mine(Boot) : PidAt(Boot, x) = p
      BY <2>0 DEF Queued, Pids, Mine, PidAt
    <2>2. p \in Queued <=> p \in Pids(list[Boot])
      BY <2>0 DEF Queued
    <2>3. Occurrences(Boot, p) = IF p \in Queued THEN 1 ELSE 0
      <3>1. ASSUME NEW a \in Mine(Boot), NEW b \in Mine(Boot), PidAt(Boot, a) = PidAt(Boot, b)
            PROVE  a = b
        <4>1. a \in Nat /\ b \in Nat /\ PidAt(Boot, a) \in Nat /\ PidAt(Boot, b) \in Nat
          BY <2>0, Basics DEF IInv, Mine
        <4>2. /\ a < b => PidAt(Boot, a) < PidAt(Boot, b)
              /\ b < a => PidAt(Boot, b) < PidAt(Boot, a)
          BY DEF IInv, QueueInv, BootInv
        <4> QED
          BY <3>1, <4>1, <4>2
      <3> QED
        BY <2>0, <2>2, <3>1, AtMostOnce
    <2>4. \A k \in Cpu : p \in Pids(list[k]) <=> k = assigned[p]
      BY DEF IInv, QueueInv, CopiesInv, Mine, PidAt, Pids
    <2>5. ASSUME NEW k \in Cpu
          PROVE  Occurrences(k, p) = IF k = assigned[p] THEN 1 ELSE 0
      <3>1. \A a, b \in Mine(k) : PidAt(k, a) = PidAt(k, b) => a = b
        BY DEF IInv, QueueInv, CopiesInv
      <3> QED
        BY <2>0, <2>4, <3>1, AtMostOnce
    <2>6. assigned[p] # -1 => p \in Queued
      BY <2>1 DEF IInv, QueueInv, KnownInv
    <2>7. ASSUME p \in Queued
          PROVE  Holders(p) = {0} \cup ({assigned[p]} \cap Cpu)
      <3>1. \A c \in Cpu : p \in Pids(list[This(c)]) <=> c = 0 \/ c = assigned[p]
        BY <2>2, <2>4, <2>7 DEF This
      <3> QED
        BY <2>0, <3>1 DEF Holders
    <2>8. ASSUME distributed, at.phase = "idle", p \in Queued
          PROVE  assigned[p] \in Cpu
      <3>1. PICK x \in Mine(Boot) : PidAt(Boot, x) = p
        BY <2>1, <2>8
      <3>2. x >= 2
        <4>1. x \in 1..Len(list[Boot]) /\ Len(list[Boot]) \in Nat /\ PidAt(Boot, 1) = 0
          BY <2>0, <3>1, Basics DEF IInv, QueueInv, BootInv, Mine
        <4>2. x # 1
          BY <2>0, <3>1, <4>1
        <4> QED
          BY <4>1, <4>2
      <3> QED
        BY <2>8, <3>1, <3>2 DEF IInv, TypeInv, QueueInv, AssignInv
    <2> QED
      BY <2>3, <2>5, <2>6, <2>7, <2>8
  <1> QED
    BY Inductive, <1>1, PTL

\* save_task_context_and_switch(): the task a core executes is its running_task
\* and marked RUNNING, and the kernel has no such task, on any number of cores.
THEOREM Executes == Spec => []ExecutesRunning
  <1>1. IInv => ExecutesRunning
    <2> SUFFICES ASSUME IInv, NEW c \in Cpu
                 PROVE  /\ exec[c] \in 1..MaxTasks =>
                              /\ list[This(c)][running[This(c)]].pid = exec[c]
                              /\ list[This(c)][running[This(c)]].state = "RUNNING"
                        /\ exec[c] = Kernel => \A a \in 1..Len(list[This(c)]) :
                              list[This(c)][a].pid > 0 => list[This(c)][a].state # "RUNNING"
      BY DEF ExecutesRunning
    <2>1. exec[c] \in 1..MaxTasks => exec[c] > 0
      BY Basics DEF IInv
    <2>2. exec[c] > 0 => c = 0 /\ list[Boot][running[Boot]] = Task(exec[c], "RUNNING")
      BY DEF IInv, ExecInv
    <2>3. exec[c] = Kernel => \A a \in 1..Len(list[This(c)]) :
             list[This(c)][a].pid > 0 => list[This(c)][a].state # "RUNNING"
      BY DEF IInv, ExecInv, Mine, PidAt
    <2> QED
      BY <2>1, <2>2, <2>3 DEF This, Task
  <1> QED
    BY Inductive, <1>1, PTL

\* copy_task_to_cpu(): no step of the distribution gives a task to a second core.
THEOREM Assigned == Spec => NeverReassigned
  <1>1. IInv /\ [Next]_vars =>
           [\A p \in 1..MaxTasks : assigned[p] # -1 => assigned'[p] = assigned[p]]_vars
    <2> SUFFICES ASSUME IInv, Next PROVE Kept
      BY DEF Kept
    <2>1. ASSUME UNCHANGED assigned PROVE Kept
      BY <2>1 DEF Kept
    <2>2. CASE (\E valid \in BOOLEAN : Exec(valid)) \/ SchedQueue \/ \E c \in Cpu : Tick(c)
      BY <2>1, <2>2 DEF Exec, SchedQueue, Tick
    <2> QED
      BY <2>2, ShareTaskKeeps, LeftoverTaskKeeps, AddTaskKeeps DEF Next
  <1> QED
    BY Inductive, <1>1, PTL DEF Spec, NeverReassigned

-----------------------------------------------------------------------------
(* The loads of the cores                                                  *)

\* Before the distribution few tasks are queued; after it the cores have what
\* it gave them, r full turns of the round robin, and the turn that is going on.
GapInv ==
    /\ distributed => \E r \in Nat : \A k \in Cpu :
          Load(k) - r - (IF k < addedIdx THEN 1 ELSE 0) \in 0..(SingleCoreMax + 1)
    /\ ~distributed => addedIdx = 0
    /\ ~distributed /\ cpus > 1 =>
          \A a \in Mine(Boot) :
              (a < Len(list[Boot]) \/ at.phase \in {"idle", "link"}) => PidAt(Boot, a) <= SingleCoreMax

\* The pids of the BSP's list grow at least as fast as the positions.
LEMMA PidsGrow ==
  ASSUME IInv
  PROVE  \A a \in Mine(Boot) : a <= PidAt(Boot, a) + 1
  <1> DEFINE n == Len(list[Boot])
  <1>1. Boot \in Structure /\ n \in Nat /\ n >= 1 /\ Mine(Boot) = 1..n
    BY Basics DEF IInv, QueueInv, BootInv, Mine, Structure
  <1>2. /\ PidAt(Boot, 1) = 0 /\ \A a \in 1..n : PidAt(Boot, a) \in Nat
        /\ \A a, b \in 1..n : a < b => PidAt(Boot, a) < PidAt(Boot, b)
    <2>1. MaxTasks \in Nat /\ \A a \in Mine(Boot) : PidAt(Boot, a) \in 0..MaxTasks
      BY <1>1, Basics DEF IInv
    <2> QED
      BY <1>1, <2>1 DEF IInv, QueueInv, BootInv
  <1> HIDE DEF n
  <1> DEFINE T == {m \in 0..(n - 1) : m + 1 <= PidAt(Boot, m + 1) + 1}
  <1>3. 0 \in T
    BY <1>1, <1>2
  <1>4. ASSUME NEW m \in 0..((n - 1) - 1), m \in T PROVE m + 1 \in T
    <2>1. m + 1 \in 1..n /\ (m + 1) + 1 \in 1..n /\ m + 1 < (m + 1) + 1 /\ m + 1 \in 0..(n - 1) /\ m \in Nat
      BY <1>1
    <2>2. PidAt(Boot, m + 1) < PidAt(Boot, (m + 1) + 1)
      BY <1>2, <2>1
    <2>3. m + 1 <= PidAt(Boot, m + 1) + 1
      BY <1>4
    <2>4. PidAt(Boot, m + 1) \in Nat /\ PidAt(Boot, (m + 1) + 1) \in Nat
      BY <1>2, <2>1
    <2> QED
      BY <2>1, <2>2, <2>3, <2>4
  <1> HIDE DEF T
  <1>5. 0..(n - 1) \subseteq T
    BY <1>1, <1>3, <1>4, UpTo
  <1>6. ASSUME NEW a \in 1..n PROVE a <= PidAt(Boot, a) + 1
    <2>1. a - 1 \in T /\ (a - 1) + 1 = a
      BY <1>1, <1>5
    <2> QED
      BY <2>1 DEF T
  <1> QED
    BY <1>1, <1>6

\* A core has no more tasks than the BSP's list has beside the root task.
LEMMA LoadBounded ==
  ASSUME IInv, NEW k \in Cpu
  PROVE  Load(k) \in 0..(Len(list[Boot]) - 1)
  <1> DEFINE n == Len(list[Boot])
             m == Len(list[k])
  <1>1. /\ Boot \in Structure /\ k \in Structure /\ n \in Nat /\ m \in Nat /\ n >= 1
        /\ Mine(Boot) = 1..n /\ Mine(k) = 1..m
        /\ \A a \in Mine(k) : PidAt(k, a) \in 0..MaxTasks
        /\ k # -1 /\ MaxTasks \in Nat /\ PidAt(Boot, 1) = 0
    <2>1. Boot \in Structure /\ k \in Structure
      BY DEF Structure
    <2>2. n \in Nat /\ m \in Nat /\ (\A a \in Mine(k) : PidAt(k, a) \in 0..MaxTasks) /\ k # -1 /\ MaxTasks \in Nat
      BY <2>1, Basics DEF IInv
    <2> QED
      BY <2>1, <2>2 DEF Mine, IInv, QueueInv, BootInv
  <1>2. ASSUME NEW a \in Mine(k) PROVE \E x \in 2..n : PidAt(Boot, x) = PidAt(k, a)
    <2>1. PidAt(k, a) > 0 /\ assigned[PidAt(k, a)] = k
      BY DEF IInv, QueueInv, CopiesInv
    <2>2. PidAt(k, a) \in 1..MaxTasks
      BY <1>1, <2>1
    <2>3. PICK x \in Mine(Boot) : PidAt(Boot, x) = PidAt(k, a)
      BY <1>1, <2>1, <2>2 DEF IInv, QueueInv, KnownInv
    <2>4. x # 1
      BY <1>1, <2>1, <2>3
    <2> QED
      BY <1>1, <2>3, <2>4
  <1>3. \A a, b \in Mine(k) : PidAt(k, a) = PidAt(k, b) => a = b
    BY DEF IInv, QueueInv, CopiesInv
  <1> DEFINE f == [a \in 1..m |-> CHOOSE x \in 2..n : PidAt(Boot, x) = PidAt(k, a)]
  <1>4. \A a \in 1..m : f[a] \in 2..n /\ PidAt(Boot, f[a]) = PidAt(k, a)
    <2> HIDE DEF n, m
    <2> QED
      BY <1>1, <1>2
  <1>5. f \in [1..m -> 2..n]
    BY <1>4
  <1> HIDE DEF f, n
  <1>6. f \in Injection(1..m, 2..n)
    <2>1. \A a, b \in 1..m : f[a] = f[b] => a = b
      BY SMTT(30), <1>1, <1>3, <1>4
    <2> QED
      BY <1>5, <2>1 DEF Injection, IsInjective
  <1>7. Cardinality(1..m) <= Cardinality(2..n)
    <2>1. IsFiniteSet(2..n)
      BY <1>1, FS_Interval
    <2> HIDE DEF m
    <2> QED
      BY <1>6, <2>1, FS_Injection
  <1>8. m <= n - 1
    <2> HIDE DEF m
    <2>1. Cardinality(1..m) = IF 1 > m THEN 0 ELSE m - 1 + 1
      BY <1>1, FS_Interval
    <2>2. Cardinality(2..n) = IF 2 > n THEN 0 ELSE n - 2 + 1
      BY <1>1, FS_Interval
    <2> QED
      BY <1>1, <1>7, <2>1, <2>2
  <1> QED
    BY <1>1, <1>8 DEF Load, n

\* So the first distribution gives no core more than SingleCoreMax + 1 tasks.
LEMMA FewTasks ==
  ASSUME IInv, GapInv, ~distributed, cpus > 1, NEW k \in Cpu
  PROVE  Load(k) \in 0..(SingleCoreMax + 1)
  <1> DEFINE n == Len(list[Boot])
  <1>1. Boot \in Structure /\ n \in Nat /\ n >= 1 /\ Mine(Boot) = 1..n /\ SingleCoreMax \in Nat
    BY Basics DEF IInv, QueueInv, BootInv, Mine, Structure
  <1>2. \A a \in Mine(Boot) : PidAt(Boot, a) \in Nat
    <2>1. MaxTasks \in Nat /\ \A a \in Mine(Boot) : PidAt(Boot, a) \in 0..MaxTasks
      BY <1>1, Basics DEF IInv
    <2> QED
      BY <2>1
  <1>3. Load(k) \in 0..(n - 1)
    BY LoadBounded
  <1>4. \A a \in Mine(Boot) : a < n => PidAt(Boot, a) <= SingleCoreMax
    BY DEF GapInv
  <1> HIDE DEF n
  <1>5. n <= SingleCoreMax + 2
    <2>1. CASE n = 1
      BY <1>1, <2>1
    <2>2. CASE n # 1
      <3>1. n - 1 \in Mine(Boot) /\ n - 1 < n
        BY <1>1, <2>2
      <3>2. n - 1 <= PidAt(Boot, n - 1) + 1 /\ PidAt(Boot, n - 1) <= SingleCoreMax /\ PidAt(Boot, n - 1) \in Nat
        BY <1>2, <1>4, <3>1, PidsGrow
      <3> QED
        BY <1>1, <3>2
    <2> QED
      BY <2>1, <2>2
  <1> QED
    BY <1>1, <1>3, <1>5

\* The lengths and the pids are all that GapInv is about.
LEMMA GapSame ==
  ASSUME IInv, GapInv, UNCHANGED <<cpus, distributed, addedIdx>>,
         \A k \in Structure : Len(list'[k]) = Len(list[k]),
         \A a \in Mine(Boot) : list'[Boot][a].pid = list[Boot][a].pid,
         ~distributed /\ at'.phase \in {"idle", "link"} => at.phase \in {"idle", "link"}
  PROVE  GapInv'
  <1>1. Boot \in Structure /\ Cpu' = Cpu /\ Mine(Boot)' = Mine(Boot) /\ Len(list'[Boot]) = Len(list[Boot])
        /\ \A k \in Cpu : Load(k)' = Load(k)
    BY DEF Structure, Cpu, Mine, Load
  <1>2. \A a \in Mine(Boot) : PidAt(Boot, a)' = PidAt(Boot, a)
    BY DEF PidAt
  <1> QED
    BY <1>1, <1>2 DEF GapInv

LEMMA GapSchedQueue == ASSUME IInv, GapInv, SchedQueue PROVE GapInv'
  <1> DEFINE t == Task(pid, "SUSPENDED")
             n == Len(list[Boot])
  <1>1. /\ at.phase = "link" /\ list' = [list EXCEPT ![Boot] = Append(@, t)]
        /\ UNCHANGED <<cpus, distributed, addedIdx, pid>>
        /\ at'.phase \in {"idle", "link"} => ~(cpus > 1 /\ pid > SingleCoreMax /\ ~distributed)
    <2>1. CASE cpus > 1 /\ pid > SingleCoreMax /\ ~distributed
      BY <2>1 DEF SchedQueue, In, Go, Multicore
    <2> QED
      BY <2>1 DEF SchedQueue, In
  <1>2. /\ Boot \in Structure /\ n \in Nat /\ n >= 1 /\ list[Boot] \in Seq(Tasks) /\ Mine(Boot) = 1..n
        /\ t \in Tasks /\ t.pid = pid /\ Boot \notin Cpu /\ pid \in Nat /\ SingleCoreMax \in Nat
        /\ list \in [Structure -> Seq(Tasks)]
    <2>1. pid \in 0..MaxTasks /\ MaxTasks \in Nat /\ SingleCoreMax \in Nat /\ Boot \notin Cpu
      BY Basics DEF IInv, TypeInv
    <2>2. Boot \in Structure
      BY DEF Structure
    <2>3. n \in Nat /\ list[Boot] \in Seq(Tasks) /\ Mine(Boot) = 1..n
      BY <2>2, Basics DEF IInv, Mine
    <2>4. t \in Tasks /\ t.pid = pid
      BY <2>1 DEF Task, Tasks, States
    <2>5. n >= 1 /\ list \in [Structure -> Seq(Tasks)]
      BY DEF IInv, TypeInv, QueueInv, BootInv
    <2> HIDE DEF n, t
    <2> QED
      BY <2>1, <2>2, <2>3, <2>4, <2>5
  <1> HIDE DEF t
  <1>3. /\ Len(Append(list[Boot], t)) = n + 1 /\ Append(list[Boot], t)[n + 1] = t
        /\ \A a \in 1..n : Append(list[Boot], t)[a] = list[Boot][a]
    BY <1>2, Appending
  <1>4. list'[Boot] = Append(list[Boot], t) /\ \A k \in Cpu : list'[k] = list[k]
    <2> HIDE DEF n
    <2> QED
      BY <1>1, <1>2 DEF Structure
  <1>5. Cpu' = Cpu /\ \A k \in Cpu : Load(k)' = Load(k)
    BY <1>1, <1>4 DEF Cpu, Load
  <1>6. Mine(Boot)' = 1..(n + 1) /\ Len(list'[Boot]) = n + 1
    BY <1>3, <1>4 DEF Mine
  <1>7. ASSUME ~distributed, cpus > 1, NEW a \in 1..(n + 1), a < n + 1 \/ at'.phase \in {"idle", "link"}
        PROVE  PidAt(Boot, a)' <= SingleCoreMax
    <2>1. CASE a \in 1..n
      <3>1. PidAt(Boot, a)' = PidAt(Boot, a)
        BY <1>3, <1>4, <2>1 DEF PidAt
      <3>2. PidAt(Boot, a) <= SingleCoreMax
        BY <1>1, <1>2, <1>7, <2>1 DEF GapInv
      <3> QED
        BY <3>1, <3>2
    <2>2. CASE a = n + 1
      <3>1. PidAt(Boot, a)' = pid
        BY <1>2, <1>3, <1>4, <2>2 DEF PidAt
      <3>2. pid <= SingleCoreMax
        BY <1>1, <1>2, <1>7, <2>2
      <3> QED
        BY <3>1, <3>2
    <2> QED
      BY <1>2, <2>1, <2>2
  <1> HIDE DEF n
  <1> QED
    BY <1>1, <1>5, <1>6, <1>7 DEF GapInv

\* copy_task_to_cpu() lengthens one list.
LEMMA Longer ==
  ASSUME IInv, NEW k \in Cpu, NEW x \in Mine(Boot), CopyTaskToCpu(k, list[Boot][x]), UNCHANGED cpus
  PROVE  /\ Load(k)' = Load(k) + 1 /\ \A m \in Cpu : m # k => Load(m)' = Load(m)
         /\ list'[Boot] = list[Boot] /\ Cpu' = Cpu /\ \A m \in Cpu : Load(m) \in Nat
  <1> DEFINE l == Append(list[k], list[Boot][x])
  <1>1. /\ k \in Structure /\ Boot \in Structure /\ k # Boot /\ list \in [Structure -> Seq(Tasks)]
        /\ list[k] \in Seq(Tasks) /\ list[Boot][x] \in Tasks /\ Cpu' = Cpu
        /\ \A m \in Cpu : m \in Structure /\ Len(list[m]) \in Nat
    BY Basics, Element DEF Structure, Mine, Cpu, IInv, TypeInv
  <1>2. Len(l) = Len(list[k]) + 1
    BY <1>1, Appending
  <1>3. list' = [list EXCEPT ![k] = l]
    BY DEF CopyTaskToCpu
  <1> HIDE DEF l
  <1>4. list'[k] = l /\ \A m \in Structure : m # k => list'[m] = list[m]
    BY <1>1, <1>3
  <1> QED
    BY <1>1, <1>2, <1>4 DEF Load

LEMMA GapAddTask == ASSUME IInv, GapInv, AddTask PROVE GapInv'
  <1> DEFINE x == at.ptr
  <1>1. /\ at.phase = "add" /\ CopyTaskToCpu(addedIdx, list[Boot][x]) /\ addedIdx' = (addedIdx + 1) % cpus
        /\ UNCHANGED <<cpus, distributed>>
    BY DEF AddTask, In
  <1>2. distributed /\ x \in Mine(Boot) /\ addedIdx \in Cpu /\ cpus \in Nat \ {0} /\ SingleCoreMax \in Nat
    <2>1. Boot \in Structure
      BY DEF Structure
    <2>2. Len(list[Boot]) \in Nat
      BY <2>1, Basics DEF IInv
    <2> QED
      BY SMTT(30), <1>1, <2>2, Basics DEF IInv, TypeInv, WalkInv, QueueInv, AssignInv, Mine
  <1> HIDE DEF x
  <1>c. PICK c \in Cpu : c = addedIdx
    BY <1>2
  <1>3. /\ Load(c)' = Load(c) + 1 /\ \A m \in Cpu : m # c => Load(m)' = Load(m)
        /\ Cpu' = Cpu /\ \A m \in Cpu : Load(m) \in Nat
    <2>1. CopyTaskToCpu(c, list[Boot][x]) /\ UNCHANGED cpus /\ IInv
      BY <1>1, <1>c
    <2> QED
      BY <1>2, <2>1, Longer
  <1>4. PICK r \in Nat : \A k \in Cpu : Load(k) - r - (IF k < addedIdx THEN 1 ELSE 0) \in 0..(SingleCoreMax + 1)
    BY <1>2 DEF GapInv
  <1>5. addedIdx \in Nat /\ addedIdx < cpus /\ \A k \in Cpu : k \in Nat /\ k < cpus
    BY <1>2 DEF Cpu
  <1>6. CASE addedIdx + 1 < cpus
    <2>1. addedIdx' = addedIdx + 1
      BY <1>1, <1>2, <1>5, <1>6
    <2>2. ASSUME NEW k \in Cpu
          PROVE  Load(k)' - r - (IF k < addedIdx' THEN 1 ELSE 0) \in 0..(SingleCoreMax + 1)
      <3>1. CASE k = addedIdx
        <4>1. Load(k) - r - 0 \in 0..(SingleCoreMax + 1) /\ Load(k)' = Load(k) + 1 /\ Load(k) \in Nat
          BY <1>3, <1>4, <1>5, <1>c, <3>1
        <4>2. k < addedIdx'
          BY <1>5, <2>1, <3>1
        <4> QED
          BY <1>2, <4>1, <4>2
      <3>2. CASE k # addedIdx
        <4>1. Load(k)' = Load(k) /\ (k < addedIdx' <=> k < addedIdx)
          BY <1>3, <1>5, <1>c, <2>1, <3>2
        <4> QED
          BY <1>4, <4>1
      <3> QED
        BY <3>1, <3>2
    <2> QED
      BY <1>1, <1>2, <1>3, <2>2 DEF GapInv
  <1>7. CASE ~(addedIdx + 1 < cpus)
    <2>1. addedIdx + 1 = cpus /\ addedIdx' = 0
      BY <1>1, <1>2, <1>5, <1>7
    <2>2. ASSUME NEW k \in Cpu
          PROVE  Load(k)' - (r + 1) - (IF k < addedIdx' THEN 1 ELSE 0) \in 0..(SingleCoreMax + 1)
      <3>1. CASE k = addedIdx
        <4>1. Load(k) - r - 0 \in 0..(SingleCoreMax + 1) /\ Load(k)' = Load(k) + 1 /\ Load(k) \in Nat
          BY <1>3, <1>4, <1>5, <1>c, <3>1
        <4>2. ~(k < addedIdx')
          BY <1>5, <2>1, <3>1
        <4> QED
          BY <1>2, <4>1, <4>2
      <3>2. CASE k # addedIdx
        <4>1. Load(k)' = Load(k) /\ k < addedIdx /\ ~(k < addedIdx')
          BY <1>3, <1>5, <1>c, <2>1, <3>2
        <4>2. Load(k) - r - 1 \in 0..(SingleCoreMax + 1) /\ Load(k) \in Nat
          BY <1>3, <1>4, <4>1
        <4> QED
          BY <4>1, <4>2
      <3> QED
        BY <3>1, <3>2
    <2>3. r + 1 \in Nat
      OBVIOUS
    <2> QED
      BY <1>1, <1>2, <1>3, <2>2, <2>3 DEF GapInv
  <1> QED
    BY <1>6, <1>7

\* A step of the distribution that does not end it.
LEMMA GapWalk ==
  ASSUME IInv, GapInv, ~distributed, UNCHANGED <<cpus, addedIdx>>, list'[Boot] = list[Boot], ~distributed',
         at'.phase \in {"share", "leftover"}
  PROVE  GapInv'
  BY DEF GapInv, Mine, PidAt

LEMMA GapShareTask == ASSUME IInv, GapInv, ShareTask PROVE GapInv'
  <1>1. ~distributed /\ distributed' = distributed /\ UNCHANGED <<cpus, addedIdx>> /\ at.phase = "share"
    BY DEF ShareTask, In, IInv, QueueInv, AssignInv
  <1>2. at'.phase \in {"share", "leftover"}
    BY DEF ShareTask, Go
  <1>3. list'[Boot] = list[Boot]
    <2>1. CASE at.j = 0 /\ (at.i = cpus \/ ~HasNext(at.ptr))
      BY <2>1 DEF ShareTask
    <2>2. CASE ~(at.j = 0 /\ (at.i = cpus \/ ~HasNext(at.ptr)))
      <3>1. at.i \in Cpu
        <4>1. at.i \in Nat /\ at.j \in Nat /\ at.i <= cpus /\ (at.j > 0 => at.i < cpus) /\ cpus \in Nat
              /\ at.ptr \in 2..Len(list[Boot])
          BY <1>1, Basics DEF IInv, TypeInv, WalkInv
        <4>2. at.j = 0 => at.i # cpus
          BY <2>2
        <4> QED
          BY <4>1, <4>2 DEF Cpu
      <3>2. at.ptr \in Mine(Boot)
        <4>1. Boot \in Structure
          BY DEF Structure
        <4>2. Len(list[Boot]) \in Nat
          BY <4>1, Basics DEF IInv
        <4> QED
          BY <1>1, <4>2 DEF IInv, WalkInv, Mine
      <3>3. CopyTaskToCpu(at.i, list[Boot][at.ptr])
        BY <2>2 DEF ShareTask
      <3> QED
        BY <1>1, <3>1, <3>2, <3>3, Longer
    <2> QED
      BY <2>1, <2>2
  <1> QED
    BY <1>1, <1>2, <1>3, GapWalk

LEMMA GapLeftoverTask == ASSUME IInv, GapInv, LeftoverTask PROVE GapInv'
  <1>1. ~distributed /\ UNCHANGED <<cpus, addedIdx>> /\ at.phase = "leftover" /\ addedIdx = 0 /\ cpus > 1
    BY DEF LeftoverTask, In, IInv, QueueInv, AssignInv, GapInv
  <1>2. CASE at.ptr > Len(list[Boot])
    <2>1. distributed' /\ UNCHANGED list
      BY <1>2 DEF LeftoverTask
    <2>2. Cpu' = Cpu /\ \A k \in Cpu : Load(k)' = Load(k) /\ Load(k) \in 0..(SingleCoreMax + 1)
      BY <1>1, <2>1, FewTasks DEF Cpu, Load
    <2>3. \A k \in Cpu : Load(k)' - 0 - (IF k < addedIdx' THEN 1 ELSE 0) \in 0..(SingleCoreMax + 1)
      <3>1. \A k \in Cpu : ~(k < addedIdx')
        BY <1>1, Basics DEF IInv, Cpu
      <3> QED
        BY <2>2, <3>1, Basics DEF IInv
    <2> QED
      BY <2>1, <2>2, <2>3 DEF GapInv
  <1>3. CASE ~(at.ptr > Len(list[Boot]))
    <2>1. distributed' = distributed /\ at'.phase \in {"share", "leftover"}
      BY <1>3 DEF LeftoverTask, Go
    <2>2. list'[Boot] = list[Boot]
      <3>1. CASE UNCHANGED list
        BY <3>1
      <3>2. CASE CopyTaskToCpu(at.i, list[Boot][at.ptr])
        <4>1. at.i \in Cpu /\ at.ptr \in Mine(Boot)
          <5>1. Boot \in Structure
            BY DEF Structure
          <5>2. Len(list[Boot]) \in Nat /\ cpus \in Nat
            BY <5>1, Basics DEF IInv
          <5>3. at.i \in Nat /\ at.i < cpus /\ at.ptr \in 2..(Len(list[Boot]) + 1)
            BY <1>1 DEF IInv, TypeInv, WalkInv
          <5> QED
            BY <1>3, <5>2, <5>3 DEF Cpu, Mine
        <4> QED
          BY <1>1, <3>2, <4>1, Longer
      <3> QED
        BY <1>3, <3>1, <3>2 DEF LeftoverTask
    <2> QED
      BY <1>1, <2>1, <2>2, GapWalk
  <1> QED
    BY <1>2, <1>3

LEMMA GapTick == ASSUME IInv, GapInv, NEW c \in Cpu, Tick(c) PROVE GapInv'
  <1> DEFINE k  == This(c)
             t1 == IF running[k] = 0 THEN 1 ELSE running[k]
             t2 == NextTask(k, t1)
             s  == SwitchStates(list[k], t1, t2)
  <1>1. /\ k \in Structure /\ list[k] \in Seq(Tasks) /\ Len(list[k]) \in Nat \ {0}
        /\ list \in [Structure -> Seq(Tasks)] /\ Boot \in Structure
    <2>1. k \in Structure /\ Boot \in Structure
      BY DEF This, Structure
    <2>2. list[k] \in Seq(Tasks) /\ Len(list[k]) \in Nat
      BY <2>1, Basics DEF IInv
    <2>3. Len(list[k]) # 0
      BY <2>2 DEF Tick
    <2> QED
      BY <2>1, <2>2, <2>3 DEF IInv, TypeInv
  <1>2. UNCHANGED <<cpus, distributed, addedIdx, at>>
    BY DEF Tick
  <1>3. CASE UNCHANGED list
    BY <1>2, <1>3, GapSame
  <1>4. CASE list' # list
    <2>1. running[k] # Wild /\ list' = [list EXCEPT ![k] = SwitchStates(@, t1, t2)]
      BY <1>4 DEF Tick
    <2>2. t1 \in 1..Len(list[k]) /\ t2 \in 1..Len(list[k])
      <3>1. running[k] \in 0..Len(list[k])
        BY <1>1, <2>1 DEF IInv, TypeInv
      <3>2. t1 \in 1..Len(list[k])
        BY <1>1, <3>1
      <3> HIDE DEF t1
      <3> QED
        BY <1>1, <3>2 DEF NextTask
    <2>3. list' = [list EXCEPT ![k] = s]
      BY <2>1
    <2> HIDE DEF t1, t2, k
    <2>4. s = SwitchStates(list[k], t1, t2)
      OBVIOUS
    <2> HIDE DEF s
    <2>5. Switched(list[k], t2, s)
      BY <1>1, <2>2, <2>4, Switching
    <2>6. list'[k] = s /\ \A m \in Structure : m # k => list'[m] = list[m]
      BY <1>1, <2>3
    <2>7. Len(s) = Len(list[k]) /\ \A a \in 1..Len(list[k]) : s[a].pid = list[k][a].pid
      BY <2>5 DEF Switched
    <2>8. \A m \in Structure : Len(list'[m]) = Len(list[m])
      BY <2>6, <2>7
    <2>9. \A a \in Mine(Boot) : list'[Boot][a].pid = list[Boot][a].pid
      BY <1>1, <2>6, <2>7 DEF Mine
    <2> QED
      BY <1>2, <2>8, <2>9, GapSame
  <1> QED
    BY <1>3, <1>4

LEMMA GapStep == IInv /\ GapInv /\ [Next]_vars => GapInv'
  <1> SUFFICES ASSUME IInv, GapInv, [Next]_vars PROVE GapInv'
    OBVIOUS
  <1>1. ASSUME NEW valid \in BOOLEAN, Exec(valid) PROVE GapInv'
    BY <1>1, GapSame DEF Exec, In
  <1>2. CASE UNCHANGED vars
    BY <1>2, GapSame DEF vars
  <1> QED
    BY <1>1, <1>2, GapSchedQueue, GapShareTask, GapLeftoverTask, GapAddTask, GapTick DEF Next

LEMMA GapInit == Init => GapInv
  <1> SUFFICES ASSUME Init PROVE GapInv
    OBVIOUS
  <1>1. ~distributed /\ addedIdx = 0 /\ list[Boot] = <<Task(0, "ASLEEP")>>
    BY DEF Init
  <1>2. Mine(Boot) = {1} /\ PidAt(Boot, 1) = 0
    BY <1>1 DEF Mine, PidAt, Task
  <1> QED
    BY <1>1, <1>2, SchedAssumption DEF GapInv

\* assign_tasks_to_cpus(): however unevenly the first distribution goes and
\* however many tasks follow, no core is ever more than SingleCoreMax + 2 tasks
\* ahead of another one.
THEOREM GapBounded == Spec => []LoadGapBounded
  <1>1. IInv /\ GapInv => LoadGapBounded
    <2> SUFFICES ASSUME IInv, GapInv, distributed, NEW k \in Cpu, NEW m \in Cpu
                 PROVE  Load(k) <= Load(m) + SingleCoreMax + 2
      BY DEF LoadGapBounded
    <2>1. PICK r \in Nat : \A c \in Cpu : Load(c) - r - (IF c < addedIdx THEN 1 ELSE 0) \in 0..(SingleCoreMax + 1)
      BY DEF GapInv
    <2>2. SingleCoreMax \in Nat /\ Load(k) \in Nat /\ Load(m) \in Nat
      <3>1. k \in Structure /\ m \in Structure
        BY DEF Structure
      <3> QED
        BY <3>1, Basics DEF IInv, Load
    <2>3. /\ Load(k) - r - (IF k < addedIdx THEN 1 ELSE 0) \in 0..(SingleCoreMax + 1)
          /\ Load(m) - r - (IF m < addedIdx THEN 1 ELSE 0) \in 0..(SingleCoreMax + 1)
      BY <2>1
    <2> QED
      BY <2>2, <2>3
  <1> QED
    BY Inductive, GapInit, GapStep, <1>1, PTL DEF Spec
=============================================================================
