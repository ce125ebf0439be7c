------------------------------- MODULE SmpBoot -------------------------------
(***************************************************************************)
(* The start of the application processors: smp_init() on the BSP          *)
(* (arch/x86_64/smp.c), the trampoline (smp.asm) and ap_startup() (main.c) *)
(* on the others.                                                          *)
(*                                                                         *)
(* The BSP walks the processors the MADT lists.  It leaves a stack in low  *)
(* memory, sends INIT and one SIPI and spins until the processor sets      *)
(* _ap_is_ok; tsc_delay() does not wait, as tsc_init() runs later.  The    *)
(* processor takes the stack and the number current_ap, which is all that  *)
(* ties it to its structure.  Processors are named by their LAPIC id.      *)
(***************************************************************************)
EXTENDS Integers, Sequences, FiniteSets

CONSTANTS
    Madts,   \* MADTs the firmware may pass: sequences of [proc, apic]
    Bsp,     \* the LAPIC id of the processor the firmware started
    MaxCpus  \* SMP_MAX_CPUS

\* The firmware lists its processors once, the BSP among them.
ASSUME SmpAssumption ==
    /\ Bsp \in Nat
    /\ MaxCpus \in Nat \ {0}
    /\ \A m \in Madts :
          /\ m \in Seq([proc : Nat, apic : Nat])
          /\ \A i, j \in 1..Len(m) : i # j => m[i].proc # m[j].proc /\ m[i].apic # m[j].apic
          /\ \E i \in 1..Len(m) : m[i].apic = Bsp

VARIABLES
    madt,       \* what madt_get_tables(MADT_LAPIC) returns, for good
    cores,      \* the number of cores smp_init() counts
    cpus,       \* the processor structures: [cpu_id, lapic_id, is_bsp]
    bsp,        \* where the BSP is in smp_init()
    i,          \* its loop variable
    current_ap,
    ap_is_ok,   \* _ap_is_ok
    nextStack,  \* the stack pool_alloc() gives out next
    mailbox,    \* the stack at SMP_STACK
    mode,       \* of each processor the MADT lists
    stack,      \* the stack it runs on
    this_core   \* the index of its structure

bootVars == <<madt, cores, cpus, bsp, i, current_ap, ap_is_ok, nextStack, mailbox,
              mode, stack, this_core>>

None == -1

Processor == {madt[k].apic : k \in 1..Len(madt)}

\* The BSP runs on the boot loader's stack 0 and uses the structure at address
\* 0, which is not one of cpus.
BootInit ==
    /\ madt \in Madts
    /\ cores = 0
    /\ cpus = <<>>
    /\ bsp = "count"
    /\ i = 0
    /\ current_ap = 0
    /\ ap_is_ok = FALSE
    /\ nextStack = 1
    /\ mailbox = None
    /\ mode = [p \in Processor |-> IF p = Bsp THEN "kernel" ELSE "off"]
    /\ stack = [p \in Processor |-> IF p = Bsp THEN 0 ELSE None]
    /\ this_core = [p \in Processor |-> None]

-----------------------------------------------------------------------------
(* smp_init() on the BSP                                                   *)

BspAt(l) == bsp = l /\ mode[Bsp] = "kernel"

\* The loop that counts without a limit.
CountAll(n) == n

\* The loop that counts stops at MaxCpus only when it has gone beyond it.
CountOf(n) == IF n > MaxCpus + 1 THEN MaxCpus ELSE n

\* Count the cores, fill in their structures and return if there is only one.
Enumerate ==
    /\ BspAt("count")
    /\ cores' = CountOf(Len(madt))
    /\ cpus' = [k \in 0..(cores' - 1) |->
                   [cpu_id |-> madt[k + 1].proc, lapic_id |-> madt[k + 1].apic, is_bsp |-> FALSE]]
    /\ bsp' = IF cores' <= 1 THEN "done" ELSE "loop"
    /\ UNCHANGED <<madt, i, current_ap, ap_is_ok, nextStack, mailbox, mode, stack, this_core>>

\* The BSP recognises itself by its processor id and marks the structure with
\* this number.
SkipBsp ==
    /\ BspAt("loop") /\ i < cores
    /\ cpus[i].cpu_id = Bsp
    /\ cpus' = IF Bsp \in DOMAIN cpus THEN [cpus EXCEPT ![Bsp].is_bsp = TRUE] ELSE cpus
    /\ i' = i + 1
    /\ UNCHANGED <<madt, cores, bsp, current_ap, ap_is_ok, nextStack, mailbox, mode, stack, this_core>>

\* Prepare without a stack of its own for every processor.
PrepareSharedStack ==
    /\ BspAt("loop") /\ i < cores
    /\ cpus[i].cpu_id # Bsp
    /\ ap_is_ok' = FALSE
    /\ mailbox' = nextStack
    /\ bsp' = "init"
    /\ UNCHANGED <<madt, cores, cpus, i, current_ap, nextStack, mode, stack, this_core>>

\* Prepare without resetting _ap_is_ok.
PrepareNoReset ==
    /\ BspAt("loop") /\ i < cores
    /\ cpus[i].cpu_id # Bsp
    /\ mailbox' = nextStack
    /\ nextStack' = nextStack + 1
    /\ bsp' = "init"
    /\ UNCHANGED <<madt, cores, cpus, i, current_ap, ap_is_ok, mode, stack, this_core>>

\* Reset _ap_is_ok and leave a new stack for the next processor.
Prepare ==
    /\ BspAt("loop") /\ i < cores
    /\ cpus[i].cpu_id # Bsp
    /\ ap_is_ok' = FALSE
    /\ mailbox' = nextStack
    /\ nextStack' = nextStack + 1
    /\ bsp' = "init"
    /\ UNCHANGED <<madt, cores, cpus, i, current_ap, mode, stack, this_core>>

\* smp_signal_ap() given the processor id instead of the LAPIC id.
SendInitToCpuId ==
    /\ BspAt("init")
    /\ current_ap' = current_ap + 1
    /\ mode' = [mode EXCEPT ![cpus[i].cpu_id] = "reset"]
    /\ bsp' = "sipi"
    /\ UNCHANGED <<madt, cores, cpus, i, ap_is_ok, nextStack, mailbox, stack, this_core>>

\* smp_signal_ap(): an INIT resets the processor it reaches.
SendInit ==
    /\ BspAt("init")
    /\ current_ap' = current_ap + 1
    /\ mode' = [mode EXCEPT ![cpus[i].lapic_id] = "reset"]
    /\ bsp' = "sipi"
    /\ UNCHANGED <<madt, cores, cpus, i, ap_is_ok, nextStack, mailbox, stack, this_core>>

\* The SIPI makes a processor that waits for it enter the trampoline.
SendSipi ==
    /\ BspAt("sipi")
    /\ mode' = [mode EXCEPT ![cpus[i].lapic_id] = IF @ = "reset" THEN "trampoline" ELSE @]
    /\ bsp' = "wait"
    /\ UNCHANGED <<madt, cores, cpus, i, current_ap, ap_is_ok, nextStack, mailbox, stack, this_core>>

WaitForAp ==
    /\ BspAt("wait")
    /\ ap_is_ok
    /\ i' = i + 1
    /\ bsp' = "loop"
    /\ UNCHANGED <<madt, cores, cpus, current_ap, ap_is_ok, nextStack, mailbox, mode, stack, this_core>>

Return ==
    /\ BspAt("loop") /\ i = cores
    /\ bsp' = "done"
    /\ UNCHANGED <<madt, cores, cpus, i, current_ap, ap_is_ok, nextStack, mailbox, mode, stack, this_core>>

-----------------------------------------------------------------------------
(* An application processor                                                *)

\* The trampoline loads the stack and calls ap_startup().
LoadStack(p) ==
    /\ mode[p] = "trampoline"
    /\ stack' = [stack EXCEPT ![p] = mailbox]
    /\ mode' = [mode EXCEPT ![p] = "startup"]
    /\ UNCHANGED <<madt, cores, cpus, bsp, i, current_ap, ap_is_ok, nextStack, mailbox, this_core>>

\* ap_startup(): the processor takes the structure of number current_ap.
SetCurrentCore(p) ==
    /\ mode[p] = "startup"
    /\ this_core' = [this_core EXCEPT ![p] = current_ap]
    /\ mode' = [mode EXCEPT ![p] = "ok"]
    /\ UNCHANGED <<madt, cores, cpus, bsp, i, current_ap, ap_is_ok, nextStack, mailbox, stack>>

\* smp_next_ap(); idt_init(), ap_lapic_init() and apic_init() follow.
SmpNextAp(p) ==
    /\ mode[p] = "ok"
    /\ ap_is_ok' = TRUE
    /\ mode' = [mode EXCEPT ![p] = "online"]
    /\ UNCHANGED <<madt, cores, cpus, bsp, i, current_ap, nextStack, mailbox, stack, this_core>>

ApStep(p) == LoadStack(p) \/ SetCurrentCore(p) \/ SmpNextAp(p)

BspStep ==
    \/ Enumerate
    \/ SkipBsp
    \/ Prepare
    \/ SendInit
    \/ SendSipi
    \/ WaitForAp
    \/ Return

BootNext == BspStep \/ \E p \in Processor : ApStep(p)

BootSpec == BootInit /\ [][BootNext]_bootVars

\* Every processor that was started executes.
BootFairSpec ==
    /\ BootSpec
    /\ WF_bootVars(BspStep)
    /\ \A p \in UNION {{m[k].apic : k \in 1..Len(m)} : m \in Madts} :
          WF_bootVars(p \in Processor /\ ApStep(p))

-----------------------------------------------------------------------------
(* Properties                                                              *)

Started == {p \in Processor : mode[p] \in {"ok", "online"}}

BootTypeOK ==
    /\ cores \in 0..(MaxCpus + 1)
    /\ i \in 0..cores
    /\ bsp \in {"count", "loop", "init", "sipi", "wait", "done"}
    /\ \A k \in DOMAIN cpus : cpus[k] \in [cpu_id : Nat, lapic_id : Nat, is_bsp : BOOLEAN]
    /\ current_ap \in 0..cores
    /\ ap_is_ok \in BOOLEAN
    /\ mode \in [Processor -> {"off", "reset", "trampoline", "startup", "ok", "online", "kernel"}]
    /\ stack \in [Processor -> None..(nextStack - 1)]
    /\ this_core \in [Processor -> None..cores]

\* smp_init() and the trampoline: no two processors run on the same stack, and
\* the one that is about to load its stack finds its own in the mailbox.
OwnStack ==
    /\ \A p, q \in Processor :
          p # q /\ stack[p] # None => stack[p] # stack[q]
    /\ \A p, q \in Processor :
          mode[p] = "trampoline" => stack[q] # mailbox

\* ap_startup(), task.h:79, "points to the core running this code": the
\* structure a processor has taken is its own and no other processor has it.
OwnStructure ==
    \A p \in Started :
        /\ this_core[p] \in DOMAIN cpus
        /\ cpus[this_core[p]].lapic_id = p

\* smp_init(): one processor at a time is between INIT and smp_next_ap(), and
\* the BSP does not start another before that.
OneAtATime ==
    LET starting == {p \in Processor : mode[p] \in {"reset", "trampoline", "startup", "ok"}} IN
    /\ Cardinality(starting) <= 1
    /\ bsp \notin {"sipi", "wait"} => starting = {}

\* smp_init() and ap_startup(): the processors are started one after the other,
\* and what each takes from the mailbox and the table is its own.
StartsSeparately == OneAtATime /\ OwnStack /\ OwnStructure

\* smp.c:239, "Don't put the BSP in real mode!"
BspNotReset == mode[Bsp] = "kernel"

\* smp.c:199, "too many cpus, using only %u": no more than SMP_MAX_CPUS cores,
\* the length of the array of structures.
TableFits == cores <= MaxCpus

\* smp_init(): it returns, with every processor it has counted online, if the
\* BSP is the first of them.
AllOnline ==
    <>[](/\ bsp = "done"
         /\ cores > 1 => \A k \in DOMAIN cpus \ {0} : mode[cpus[k].lapic_id] = "online")

=============================================================================
