-------------------------------- MODULE Clock --------------------------------
(***************************************************************************)
(* The kernel's clock: the hooks of the timer interrupt (generic/time/     *)
(* clock.c), jiffies (time_source.c), delays (sleep.c, jiffies.c) and the  *)
(* timers that drive them (modules/pit, modules/apic).                     *)
(*                                                                         *)
(* The PIT interrupts the BSP.  apic_init() gives a core a timer of its    *)
(* own, with the same vector, and does not stop the PIT: from then on      *)
(* every timer of every core adds to jiffies, by a load and a store        *)
(* without a lock prefix.  apic_init() itself waits on jiffies.            *)
(*                                                                         *)
(* clock_hook() runs in kernel main with interrupts on.  Its three stores  *)
(* are independent, and compilers do reorder them; a timer interrupt walks *)
(* the list between any two.  kmalloc'd memory holds what it held before.  *)
(*                                                                         *)
(* All readers of jiffies truncate it to an int, so it is kept modulo the  *)
(* number of values of a 32-bit word.  Hooks return here: switch_task(),   *)
(* which may not, is the subject of Sched.                                 *)
(***************************************************************************)
EXTENDS Integers, SequencesExt

CONSTANTS
    CoreCounts, \* numbers of cores
    Hooks,      \* the functions that are hooked, in this order
    Word,       \* the number of values of a 32-bit word, scaled down
    HZ,
    Delays      \* bound: the calls of the delay functions, <<unit, amount>>

ASSUME ClockAssumption ==
    /\ CoreCounts \subseteq Nat \ {0}
    /\ Word \in Nat \ {0} /\ HZ \in Nat \ {0}
    /\ Delays \subseteq {"jiffies", "sec", "msec", "usec"} \X Nat
    /\ Hooks \in Seq(STRING) /\ \A k \in 1..Len(Hooks) : Hooks[k] # "unset"

VARIABLES
    cores,
    jiffies,
    nodes,    \* the list of hooks, from the static root node on
    hook,     \* clock_hook(): hooks completed, stores of the current one to do
    apicOn,   \* the cores whose APIC timer runs
    irq,      \* of each core: its timer handler
    thread,   \* of each core: its kernel thread, "idle", "delay" or "halt"
    wait,     \* its delay: start and jiff of delay()
    elapsed   \* PIT periods since the delay began, up to Word

vars == <<cores, jiffies, nodes, hook, apicOn, irq, thread, wait, elapsed>>

Core == 0..(cores - 1)
Unset == "unset"   \* a function pointer nobody has stored yet

NoWait == [start |-> 0, jiff |-> 0]
Off == [at |-> "off", val |-> 0, node |-> 1, due |-> 0, called |-> <<>>]

Init ==
    /\ cores \in CoreCounts
    /\ jiffies = 0
    /\ nodes = <<[this |-> Unset, next |-> "null"]>>
    /\ hook = [done |-> 0, todo |-> {}]
    /\ apicOn = {}
    /\ irq = [c \in Core |-> Off]
    /\ thread = [c \in Core |-> "idle"]
    /\ wait = [c \in Core |-> NoWait]
    /\ elapsed = [c \in Core |-> 0]

-----------------------------------------------------------------------------
(* clock_hook() in kernel main                                             *)

\* The thread of core c executes: its core is not in the timer handler.
Runs(c, state) == irq[c].at = "off" /\ thread[c] = state

\* Find the last node and allocate its successor.
HookAlloc ==
    /\ Runs(0, "idle") /\ hook.todo = {} /\ hook.done < Len(Hooks)
    /\ \E garbage \in {"null", "wild"} :
          nodes' = Append(nodes, [this |-> Unset, next |-> garbage])
    /\ hook' = [hook EXCEPT !.todo = {"link", "this", "end"}]
    /\ UNCHANGED <<cores, jiffies, apicOn, irq, thread, wait, elapsed>>

\* The function goes into the new node.
StoredAhead(s) ==
    LET k == Len(nodes) - 1 IN
    CASE s = "link" -> [nodes EXCEPT ![k].next = "node"]
      [] s = "this" -> [nodes EXCEPT ![k + 1].this = Hooks[hook.done + 1]]
      [] s = "end"  -> [nodes EXCEPT ![k + 1].next = "null"]

\* current->next = the new node; current->_this = f; its next = NULL.
Stored(s) ==
    LET k == Len(nodes) - 1 IN
    CASE s = "link" -> [nodes EXCEPT ![k].next = "node"]
      [] s = "this" -> [nodes EXCEPT ![k].this = Hooks[hook.done + 1]]
      [] s = "end"  -> [nodes EXCEPT ![k + 1].next = "null"]

HookStore(s) ==
    LET left == hook.todo \ {s} IN
    /\ Runs(0, "idle") /\ s \in hook.todo
    /\ nodes' = Stored(s)
    /\ hook' = [done |-> IF left = {} THEN hook.done + 1 ELSE hook.done, todo |-> left]
    /\ UNCHANGED <<cores, jiffies, apicOn, irq, thread, wait, elapsed>>

-----------------------------------------------------------------------------
(* The timer interrupt                                                     *)

\* delay() is entered with interrupts on by the BSP, off by an AP.
Interruptible(c) == irq[c].at = "off" /\ (c = 0 \/ thread[c] = "halt")

Handler(c, h) == irq' = [irq EXCEPT ![c] = h]

\* time_source_tick(): load jiffies.  A period of the PIT passes for everyone.
TickLoad(c, pit) ==
    /\ Interruptible(c)
    /\ IF pit THEN c = 0 ELSE c \in apicOn
    /\ Handler(c, [Off EXCEPT !.at = "store", !.val = jiffies, !.due = hook.done])
    /\ elapsed' = [d \in Core |->
                      IF pit /\ thread[d] = "delay" /\ elapsed[d] < Word
                      THEN elapsed[d] + 1 ELSE elapsed[d]]
    /\ UNCHANGED <<cores, jiffies, nodes, hook, apicOn, thread, wait>>

\* The store of a counter that does not wrap.
TickStoreNoWrap(c) ==
    /\ irq[c].at = "store"
    /\ jiffies' = irq[c].val + 1
    /\ Handler(c, [irq[c] EXCEPT !.at = "walk", !.val = 0])
    /\ UNCHANGED <<cores, nodes, hook, apicOn, thread, wait, elapsed>>

\* ++jiffies: the store.
TickStore(c) ==
    /\ irq[c].at = "store"
    /\ jiffies' = (irq[c].val + 1) % Word
    /\ Handler(c, [irq[c] EXCEPT !.at = "walk", !.val = 0])
    /\ UNCHANGED <<cores, nodes, hook, apicOn, thread, wait, elapsed>>

\* A walk that leaves out the last function.
RunHooksShort(c) ==
    LET n == nodes[irq[c].node] IN
    /\ irq[c].at = "walk"
    /\ Handler(c, IF irq[c].node < Len(nodes) - 1
                  THEN [irq[c] EXCEPT !.node = @ + 1, !.called = Append(@, n.this)]
                  ELSE [irq[c] EXCEPT !.at = "eoi", !.node = 1])
    /\ UNCHANGED <<cores, jiffies, nodes, hook, apicOn, thread, wait, elapsed>>

\* clock_run_hooks(), one turn of its loop.  Calling a pointer nobody stored
\* ends in an exception and a panic of this core.
RunHooks(c) ==
    LET n == nodes[irq[c].node] IN
    /\ irq[c].at = "walk"
    /\ Handler(c, IF n.next = "null" THEN [irq[c] EXCEPT !.at = "eoi", !.node = 1]
                  ELSE IF n.this = Unset THEN [Off EXCEPT !.at = "dead"]
                  ELSE [irq[c] EXCEPT !.node = @ + 1, !.called = Append(@, n.this)])
    /\ UNCHANGED <<cores, jiffies, nodes, hook, apicOn, thread, wait, elapsed>>

\* lapic_eoi() and the return from the interrupt.
Eoi(c) ==
    /\ irq[c].at = "eoi"
    /\ Handler(c, Off)
    /\ UNCHANGED <<cores, jiffies, nodes, hook, apicOn, thread, wait, elapsed>>

-----------------------------------------------------------------------------
(* Delays                                                                  *)

\* sec_to_jiffies(), msec_to_jiffies(), usec_to_jiffies().
ToJiffies(unit, n) ==
    CASE unit = "jiffies" -> n
      [] unit = "sec"     -> n * HZ
      [] unit = "msec"    -> IF HZ >= 1000 THEN (n * HZ) \div 1000 ELSE -1
      [] unit = "usec"    -> IF HZ >= 1000000 THEN (n * HZ) \div 1000000 ELSE -1

\* The unsigned 64-bit argument of delay(): no difference of words reaches a
\* value from Word on, which stands for all of these.
Unsigned(j) == IF j \in 0..(Word - 1) THEN j ELSE Word

\* The first read of delay(): sleep(), millisleep(), nanosleep().  The APs call
\* millisleep() once, from apic_init().
DelayStart(c, d) ==
    /\ Runs(c, "idle")
    /\ c = 0 => hook.todo = {}
    /\ c # 0 => d[1] = "msec"
    /\ thread' = [thread EXCEPT ![c] = "delay"]
    /\ wait' = [wait EXCEPT ![c] = [start |-> jiffies, jiff |-> Unsigned(ToJiffies(d[1], d[2]))]]
    /\ elapsed' = [elapsed EXCEPT ![c] = 0]
    /\ UNCHANGED <<cores, jiffies, nodes, hook, apicOn, irq>>

\* The comparison of a delay that counts the period it began in.
OverEarly(c) == (jiffies - wait[c].start + 1) % Word >= wait[c].jiff

\* The comparison in signed arithmetic, without a wrap.
OverNoWrap(c) == jiffies - wait[c].start >= wait[c].jiff

\* (now - start) < jiff in 32-bit arithmetic.
Over(c) == (jiffies - wait[c].start) % Word >= wait[c].jiff

\* The last read of delay().  On an AP, and once on the BSP, this was the
\* millisleep() of apic_init(), which then starts the core's APIC timer.
DelayEnd(c, apic) ==
    /\ Runs(c, "delay") /\ Over(c)
    /\ IF c = 0 THEN apic => 0 \notin apicOn ELSE apic
    /\ apicOn' = IF apic THEN apicOn \cup {c} ELSE apicOn
    /\ thread' = [thread EXCEPT ![c] = IF c = 0 THEN "idle" ELSE "halt"]
    /\ wait' = [wait EXCEPT ![c] = NoWait]
    /\ elapsed' = [elapsed EXCEPT ![c] = 0]
    /\ UNCHANGED <<cores, jiffies, nodes, hook, irq>>

Next ==
    \/ HookAlloc
    \/ \E s \in {"link", "this", "end"} : HookStore(s)
    \/ \E c \in Core, pit \in BOOLEAN : TickLoad(c, pit)
    \/ \E c \in Core : TickStore(c)
    \/ \E c \in Core : RunHooks(c)
    \/ \E c \in Core : Eoi(c)
    \/ \E c \in Core, d \in Delays : DelayStart(c, d)
    \/ \E c \in Core, apic \in BOOLEAN : DelayEnd(c, apic)

Spec == Init /\ [][Next]_vars

\* The PIT keeps ticking and handlers end.  A delay reads jiffies far more often
\* than they change: it does not miss its end again and again.
FairSpec ==
    /\ Spec
    /\ WF_vars(TickLoad(0, TRUE))
    /\ WF_vars(TickStore(0) \/ RunHooks(0) \/ Eoi(0))
    /\ SF_vars(\E apic \in BOOLEAN : DelayEnd(0, apic))

-----------------------------------------------------------------------------
(* Properties                                                              *)

TypeOK ==
    /\ cores \in CoreCounts
    /\ jiffies \in 0..(Word - 1)
    /\ Len(nodes) \in 1..(Len(Hooks) + 1)
    /\ \A k \in 1..Len(nodes) : nodes[k].next \in {"null", "wild", "node"}
    /\ hook.done \in 0..Len(Hooks) /\ hook.todo \subseteq {"link", "this", "end"}
    /\ apicOn \subseteq Core
    /\ \A c \in Core :
          /\ irq[c].at \in {"off", "store", "walk", "eoi", "dead"}
          /\ irq[c].node \in 1..Len(nodes)
          /\ thread[c] \in {"idle", "delay", "halt"}
          /\ wait[c].start \in 0..(Word - 1) /\ wait[c].jiff \in 0..Word
          /\ elapsed[c] \in 0..Word

\* clock_run_hooks(): an interrupt that comes to its end has called every
\* function that was hooked before it began, each once and in that order, and
\* at most those hooked meanwhile.
HooksComplete ==
    \A c \in Core : irq[c].at = "eoi" =>
        /\ irq[c].called = SubSeq(Hooks, 1, Len(irq[c].called))
        /\ irq[c].due <= Len(irq[c].called)

\* clock_hook(): only while it runs is the list in a state in which an interrupt
\* calls a pointer that nobody stored.
FaultsOnlyInsideHook ==
    [][\A c \in Core : irq'[c].at = "dead" /\ irq[c].at # "dead" => hook.todo # {}]_vars

Returns(c) == thread[c] = "delay" /\ thread'[c] # "delay"

\* A delay of n jiffies on core c lets n PIT interrupts begin; on an AP, the one
\* whose handler was at work on the BSP when the delay began counts.
LastsAsAsked(c) ==
    Returns(c) => elapsed[c] + (IF c = 0 THEN 0 ELSE 1) >= wait[c].jiff

\* delay(): as long as the PIT is the only timer, a delay lasts as long as it was
\* asked to, across the wrap of jiffies and through the hooks of the BSP.
DelayAtLeast == [][\A c \in Core : apicOn = {} => LastsAsAsked(c)]_vars

\* jiffies.c:17, "A jiffie is defined as 1s * 1/HZ": a delay of n jiffies lasts
\* n periods of a timer that ticks at HZ, however many timers there are.
JiffieIsPeriod == [][\A c \in Core : LastsAsAsked(c)]_vars

\* delay(): on one core, with one timer or two, every delay of less than 2^32
\* jiffies ends (unless the core panics).
DelayReturns ==
    (cores = 1 /\ thread[0] = "delay" /\ wait[0].jiff < Word)
        ~> (thread[0] # "delay" \/ irq[0].at = "dead")

=============================================================================
