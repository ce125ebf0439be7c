-------------------------------- MODULE Lock --------------------------------
(***************************************************************************)
(* The kernel's spin locks (lib/lock.c) under the interrupts they mask.    *)
(*                                                                         *)
(* lock() clears the interrupt flag and spins on a compare-and-swap;       *)
(* unlock() sets the interrupt flag FIRST and clears the mutex after it,   *)
(* and it sets the flag whatever it was when lock() was called.  An inner  *)
(* lock()/unlock() pair thus opens interrupts in the middle of the outer   *)
(* critical section.  Built with -O2, unlock() is "sti" directly followed  *)
(* by the store: the processor takes no interrupt between the two when sti *)
(* found the flag clear, and may take one when the flag was already set.   *)
(*                                                                         *)
(* A core runs two contexts: its kernel thread (kernel main on the BSP,    *)
(* ap_startup on the others) and the timer interrupt handler, which ends   *)
(* in switch_task (generic/sched/task.c).  switch_task either returns to   *)
(* the interrupted thread or leaves for a user task, and then the thread   *)
(* is never resumed: its context is nowhere saved.                         *)
(***************************************************************************)
EXTENDS Naturals

CONSTANTS
    Core,        \* the processors
    Mutex,       \* the declare_lock() variables
    SwitchLock,  \* task_switch_lock, the one the timer handler takes
    Calls,       \* <<o, i>>: some code takes i while it holds o
    Rank,        \* a numbering of the mutexes along which Calls descends
    NoMutex      \* "waits for no mutex"

ASSUME LockAssumption ==
    /\ SwitchLock \in Mutex
    /\ NoMutex \notin Mutex
    /\ Calls \subseteq Mutex \X Mutex
    /\ Rank \in [Mutex -> Nat]
    /\ \A o, i \in Mutex : <<o, i>> \in Calls => /\ Rank[i] < Rank[o]
                                                 /\ i # SwitchLock
                                                 /\ o # SwitchLock

VARIABLES
    mutex,      \* the memory word of each mutex: 0 free, 1 taken
    iflag,      \* the interrupt flag of each core
    inService,  \* a timer interrupt was delivered and not yet acknowledged
    cur,        \* the context a core executes
    pc, held, want   \* of each context: where it is, what it holds, wants

vars == <<mutex, iflag, inService, cur, pc, held, want>>

Ctx == Core \X {"thread", "irq"}

\* The context that core c executes now.
Now(c) == <<c, cur[c]>>

TypeOK ==
    /\ mutex \in [Mutex -> {0, 1}]
    /\ iflag \in [Core -> BOOLEAN]
    /\ inService \in [Core -> BOOLEAN]
    /\ cur \in [Core -> {"thread", "irq", "gone"}]
    /\ pc \in [Ctx -> {"entry", "run", "spin", "shadow", "release"}]
    /\ held \in [Ctx -> SUBSET Mutex]
    /\ want \in [Ctx -> Mutex \cup {NoMutex}]

Init ==
    /\ mutex = [m \in Mutex |-> 0]
    /\ iflag = [c \in Core |-> TRUE]
    /\ inService = [c \in Core |-> FALSE]
    /\ cur = [c \in Core |-> "thread"]
    /\ pc = [x \in Ctx |-> "run"]
    /\ held = [x \in Ctx |-> {}]
    /\ want = [x \in Ctx |-> NoMutex]

\* m is the mutex that context x took last: critical sections are nested.
Innermost(x, m) == m \in held[x] /\ \A o \in held[x] : Rank[m] <= Rank[o]

\* Code that takes mutexes inside a critical section in any order.
MayLockAnyOrder(c, m) ==
    \/ cur[c] = "irq" /\ pc[Now(c)] = "entry" /\ m = SwitchLock
    \/ cur[c] = "thread" /\ pc[Now(c)] = "run" /\ m # SwitchLock

\* The lock() calls the code makes: the timer handler calls switch_task once;
\* a thread takes any other mutex, inside a critical section only the ones
\* that section's code takes.
MayLock(c, m) ==
    \/ cur[c] = "irq" /\ pc[Now(c)] = "entry" /\ m = SwitchLock
    \/ /\ cur[c] = "thread" /\ pc[Now(c)] = "run" /\ m # SwitchLock
       /\ \/ held[Now(c)] = {}
          \/ \E o \in held[Now(c)] : Innermost(Now(c), o) /\ <<o, m>> \in Calls

-----------------------------------------------------------------------------
(* lib/lock.c                                                              *)

\* A lock() that forgets to mask interrupts.
CallLockNoCli(c, m) ==
    /\ MayLock(c, m)
    /\ pc' = [pc EXCEPT ![Now(c)] = "spin"]
    /\ want' = [want EXCEPT ![Now(c)] = m]
    /\ UNCHANGED <<mutex, iflag, inService, cur, held>>

\* lock(): cli, then spin.
CallLock(c, m) ==
    /\ MayLock(c, m)
    /\ iflag' = [iflag EXCEPT ![c] = FALSE]
    /\ pc' = [pc EXCEPT ![Now(c)] = "spin"]
    /\ want' = [want EXCEPT ![Now(c)] = m]
    /\ UNCHANGED <<mutex, inService, cur, held>>

\* A spin loop that leaves without looking at the mutex.
AcquireNoTest(c) ==
    /\ cur[c] # "gone" /\ pc[Now(c)] = "spin"
    /\ mutex' = [mutex EXCEPT ![want[Now(c)]] = 1]
    /\ held' = [held EXCEPT ![Now(c)] = @ \cup {want[Now(c)]}]
    /\ want' = [want EXCEPT ![Now(c)] = NoMutex]
    /\ pc' = [pc EXCEPT ![Now(c)] = "run"]
    /\ UNCHANGED <<iflag, inService, cur>>

\* A spin loop that counts its owners.
AcquireCounting(c) ==
    /\ cur[c] # "gone" /\ pc[Now(c)] = "spin"
    /\ mutex' = [mutex EXCEPT ![want[Now(c)]] = @ + 1]
    /\ held' = [held EXCEPT ![Now(c)] = @ \cup {want[Now(c)]}]
    /\ want' = [want EXCEPT ![Now(c)] = NoMutex]
    /\ pc' = [pc EXCEPT ![Now(c)] = "run"]
    /\ UNCHANGED <<iflag, inService, cur>>

\* The compare-and-swap that ends the spin loop of lock().
Acquire(c) ==
    /\ cur[c] # "gone" /\ pc[Now(c)] = "spin"
    /\ mutex[want[Now(c)]] = 0
    /\ mutex' = [mutex EXCEPT ![want[Now(c)]] = 1]
    /\ held' = [held EXCEPT ![Now(c)] = @ \cup {want[Now(c)]}]
    /\ want' = [want EXCEPT ![Now(c)] = NoMutex]
    /\ pc' = [pc EXCEPT ![Now(c)] = "run"]
    /\ UNCHANGED <<iflag, inService, cur>>

\* unlock(), first half: sti.  If it found the flag clear, the instruction
\* after it (the store) is in the interrupt shadow of sti.
CallUnlock(c) ==
    /\ cur[c] # "gone" /\ pc[Now(c)] = "run" /\ held[Now(c)] # {}
    /\ iflag' = [iflag EXCEPT ![c] = TRUE]
    /\ pc' = [pc EXCEPT ![Now(c)] = IF iflag[c] THEN "release" ELSE "shadow"]
    /\ UNCHANGED <<mutex, inService, cur, held, want>>

\* unlock(), second half: *mutex = 0.
Release(c) ==
    /\ cur[c] # "gone" /\ pc[Now(c)] \in {"shadow", "release"}
    /\ \E m \in held[Now(c)] :
          /\ Innermost(Now(c), m)
          /\ mutex' = [mutex EXCEPT ![m] = 0]
          /\ held' = [held EXCEPT ![Now(c)] = @ \ {m}]
    /\ pc' = [pc EXCEPT ![Now(c)] = "run"]
    /\ UNCHANGED <<iflag, inService, cur, want>>

-----------------------------------------------------------------------------
(* The timer interrupt around switch_task                                  *)

\* A timer that is delivered whatever the flag and the local APIC say.
TickAsNmi(c) ==
    /\ cur[c] # "gone"
    /\ cur' = [cur EXCEPT ![c] = "irq"]
    /\ iflag' = [iflag EXCEPT ![c] = FALSE]
    /\ inService' = [inService EXCEPT ![c] = TRUE]
    /\ pc' = [pc EXCEPT ![<<c, "irq">>] = "entry"]
    /\ UNCHANGED <<mutex, held, want>>

\* The timer vector is delivered: the gate clears the interrupt flag and the
\* local APIC holds back the vector until lapic_eoi().
Tick(c) ==
    /\ cur[c] # "gone" /\ iflag[c] /\ ~inService[c] /\ pc[Now(c)] # "shadow"
    /\ cur' = [cur EXCEPT ![c] = "irq"]
    /\ iflag' = [iflag EXCEPT ![c] = FALSE]
    /\ inService' = [inService EXCEPT ![c] = TRUE]
    /\ pc' = [pc EXCEPT ![<<c, "irq">>] = "entry"]
    /\ UNCHANGED <<mutex, held, want>>

\* switch_task returned: lapic_eoi() and iretq, back into the thread.
IrqReturn(c) ==
    /\ cur[c] = "irq" /\ pc[Now(c)] = "run" /\ held[Now(c)] = {}
    /\ cur' = [cur EXCEPT ![c] = "thread"]
    /\ iflag' = [iflag EXCEPT ![c] = TRUE]
    /\ inService' = [inService EXCEPT ![c] = FALSE]
    /\ UNCHANGED <<mutex, pc, held, want>>

\* arch_switch_to_user(): the interrupted thread is dropped, no lapic_eoi().
SwitchToUser(c) ==
    /\ cur[c] = "irq" /\ pc[Now(c)] = "run" /\ held[Now(c)] = {}
    /\ cur' = [cur EXCEPT ![c] = "gone"]
    /\ UNCHANGED <<mutex, iflag, inService, pc, held, want>>

Next ==
    \E c \in Core :
        \/ \E m \in Mutex : CallLock(c, m)
        \/ Acquire(c)
        \/ CallUnlock(c)
        \/ Release(c)
        \/ Tick(c)
        \/ IrqReturn(c)
        \/ SwitchToUser(c)

Spec == Init /\ [][Next]_vars

\* A core executes its instructions, and ends its interrupt handler.
Progress(c) ==
    Acquire(c) \/ CallUnlock(c) \/ Release(c) \/ IrqReturn(c) \/ SwitchToUser(c)
        \/ (cur[c] = "irq" /\ CallLock(c, SwitchLock))

FairSpec == Spec /\ \A c \in Core : WF_vars(Progress(c))

-----------------------------------------------------------------------------
(* Properties                                                              *)

\* lock(): two contexts never hold the same mutex, and a held mutex is marked
\* taken, across nested sections, interrupts and abandoned threads.
MutualExclusion ==
    /\ \A x, y \in Ctx : x # y => held[x] \cap held[y] = {}
    /\ \A x \in Ctx : \A m \in held[x] : mutex[m] = 1

\* lock() and the timer: a context never spins for a mutex that its own core
\* holds, in this context or in the one it interrupted.
NoSelfDeadlock ==
    \A x \in Ctx : pc[x] = "spin" =>
        \A k \in {"thread", "irq"} : want[x] \notin held[<<x[1], k>>]

\* A mutex inside whose section no other one is taken.
Leaf(m) == \A i \in Mutex : <<m, i>> \notin Calls

\* lock() clears the interrupt flag and only unlock() sets it: the critical
\* section of a leaf mutex (malloc_lock, free_lock, pmm_lock...) runs with
\* interrupts off from lock() up to its own unlock().
LeafSectionsUninterrupted ==
    \A c \in Core : \A m \in held[<<c, "thread">>] :
        (Leaf(m) /\ pc[<<c, "thread">>] = "run") => /\ ~iflag[c]
                                                    /\ cur[c] = "thread"

\* The contexts that core c executes or has interrupted.
Holds(c, m) == \E k \in {"thread", "irq"} : m \in held[<<c, k>>]

\* lock() nesting and the timer: there is no set of cores in which each one
\* spins for a mutex that another one of the set holds.
NoWaitCycle ==
    \A S \in (SUBSET Core) \ {{}} :
        \E c \in S :
            \/ cur[c] = "gone"
            \/ pc[Now(c)] # "spin"
            \/ \A d \in S : ~Holds(d, want[Now(c)])

\* lib/lock.h, "Release lock": a thread that is inside unlock(), past its sti,
\* eventually executes the store that frees the mutex.
UnlockReleases ==
    \A c \in Core :
        (pc[<<c, "thread">>] = "release") ~> (pc[<<c, "thread">>] # "release")

=============================================================================
