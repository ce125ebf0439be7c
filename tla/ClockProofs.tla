----------------------------- MODULE ClockProofs -----------------------------
(***************************************************************************)
(* The kernel's clock, for any number of cores, hooks and values of a      *)
(* word: the timer interrupts that walk the list of hooks while one is     *)
(* being added, and the length of a delay across the wrap of jiffies.      *)
(* The real time clock: what cmos_to_unix() converts is a time the clock   *)
(* showed, whatever the calendar and however the updates fall between the  *)
(* reads, as long as one whole dump fits between two updates; in February  *)
(* it is converted to the Unix time of that moment.                        *)
(***************************************************************************)
EXTENDS Clock, Rtc, Induction, SequenceTheorems, TLAPS

\* What a node may point to.
Code == {Unset} \cup {Hooks[k] : k \in 1..Len(Hooks)}

Stores == {"link", "this", "end"}
Node == [this : Code, next : {"null", "wild", "node"}]
Words == 0..(Word - 1)
Handlers == [at : {"off", "store", "walk", "eoi", "dead"}, val : Words, node : Nat,
             due : Nat, called : Seq(Code)]
Waits == [start : Words, jiff : 0..Word]

TypeInv ==
    /\ cores \in CoreCounts
    /\ jiffies \in 0..(Word - 1)
    /\ nodes \in Seq(Node)
    /\ hook \in [done : 0..Len(Hooks), todo : SUBSET Stores]
    /\ apicOn \subseteq Core
    /\ irq \in [Core -> Handlers]
    /\ thread \in [Core -> {"idle", "delay", "halt"}]
    /\ wait \in [Core -> Waits]
    /\ elapsed \in [Core -> 0..Word]

\* The list: the functions hooked so far, the node that receives the next one
\* and, while clock_hook() runs, the new last node.
ListInv ==
    LET d == hook.done IN
    /\ Len(nodes) = IF hook.todo = {} THEN d + 1 ELSE d + 2
    /\ hook.todo # {} => d < Len(Hooks)
    /\ \A k \in 1..d : nodes[k].next = "node" /\ nodes[k].this = Hooks[k]
    /\ hook.todo = {} => nodes[d + 1].next = "null" /\ nodes[d + 1].this = Unset
    /\ hook.todo # {} =>
          /\ nodes[d + 1].next = IF "link" \in hook.todo THEN "null" ELSE "node"
          /\ nodes[d + 1].this = IF "this" \in hook.todo THEN Unset ELSE Hooks[d + 1]
          /\ nodes[d + 2].this = Unset /\ nodes[d + 2].next # "node"
          /\ "end" \notin hook.todo => nodes[d + 2].next = "null"

\* An interrupt has called the functions of the nodes before the one it is at.
WalkOf(h) ==
    /\ h.node \in 1..Len(nodes)
    /\ h.at \in {"store", "walk", "eoi"} => h.due <= hook.done
    /\ h.at \in {"off", "store", "dead"} => h.node = 1
    /\ h.at \in {"off", "store", "dead"} => h.called = <<>>
    /\ h.at = "walk" => Len(h.called) = h.node - 1
    /\ h.at = "walk" /\ h.node = hook.done + 2 => {"link", "this"} \cap hook.todo = {}
    /\ h.at = "eoi" => h.due <= Len(h.called)
    /\ Len(h.called) <= Len(Hooks)
    /\ \A k \in 1..Len(h.called) : h.called[k] = Hooks[k]

WalkInv == \A c \in Core : WalkOf(irq[c])

\* The PIT is the only timer: a delay has seen as many ticks as jiffies have
\* passed, the one that is about to be stored included.
DelayInv ==
    apicOn = {} =>
        /\ \A c \in Core : c # 0 => irq[c].at = "off"
        /\ irq[0].at = "store" => irq[0].val = jiffies
        /\ \A c \in Core : thread[c] = "delay" =>
              ((jiffies - wait[c].start) % Word) + (IF irq[0].at = "store" THEN 1 ELSE 0)
                  <= elapsed[c] + (IF c = 0 THEN 0 ELSE 1)

IInv == TypeInv /\ ListInv /\ WalkInv /\ DelayInv
-----------------------------------------------------------------------------

LEMMA Wrap ==
  ASSUME NEW W \in Nat \ {0}, NEW a \in 0..(W - 1), NEW b \in 0..(W - 1)
  PROVE  (a - b) % W = IF a >= b THEN a - b ELSE a - b + W
  OBVIOUS

LEMMA Successor ==
  ASSUME NEW W \in Nat \ {0}, NEW a \in 0..(W - 1)
  PROVE  (a + 1) % W = IF a = W - 1 THEN 0 ELSE a + 1
  OBVIOUS

LEMMA Basics ==
  ASSUME TypeInv
  PROVE  /\ Word \in Nat \ {0} /\ cores \in Nat \ {0} /\ 0 \in Core
         /\ Len(Hooks) \in Nat /\ Len(nodes) \in Nat /\ hook.done \in 0..Len(Hooks)
         /\ hook.todo \subseteq Stores
         /\ \A k \in 1..Len(Hooks) : Hooks[k] \in Code /\ Hooks[k] # Unset
         /\ \A k \in 1..Len(nodes) : nodes[k] \in Node
         /\ \A c \in Core : irq[c] \in Handlers /\ wait[c] \in Waits
         /\ \A c \in Core : Len(irq[c].called) \in Nat
  <1>1. Word \in Nat \ {0} /\ cores \in Nat \ {0} /\ 0 \in Core
    BY ClockAssumption DEF TypeInv, Core
  <1>2. Hooks \in Seq(STRING) /\ \A k \in 1..Len(Hooks) : Hooks[k] # Unset
    BY ClockAssumption DEF Unset
  <1>6. \A k \in 1..Len(Hooks) : Hooks[k] \in Code
    BY DEF Code
  <1>3. nodes \in Seq(Node) /\ hook.done \in 0..Len(Hooks) /\ hook.todo \subseteq Stores
    BY DEF TypeInv
  <1>4. \A c \in Core : irq[c] \in Handlers /\ wait[c] \in Waits
    BY DEF TypeInv
  <1>5. \A c \in Core : irq[c].called \in Seq(Code)
    BY <1>4 DEF Handlers
  <1> QED
    BY <1>1, <1>2, <1>3, <1>4, <1>5, <1>6

LEMMA InitInv == Init => IInv
  <1> SUFFICES ASSUME Init PROVE IInv
    OBVIOUS
  <1>0. Word \in Nat \ {0} /\ cores \in Nat \ {0} /\ 0 \in Core /\ Len(Hooks) \in Nat
    BY ClockAssumption DEF Init, Core
  <1>1. /\ nodes = <<[this |-> Unset, next |-> "null"]>> /\ nodes \in Seq(Node)
        /\ hook = [done |-> 0, todo |-> {}]
        /\ apicOn = {} /\ jiffies = 0
    <2>0. Unset \in Code
      BY DEF Code
    <2>1. [this |-> Unset, next |-> "null"] \in Node
      BY <2>0 DEF Node
    <2> HIDE DEF Node
    <2> QED
      BY <2>1 DEF Init
  <1>2. Off \in Handlers /\ NoWait \in Waits
    BY <1>0 DEF Off, Handlers, NoWait, Waits, Words
  <1>3. TypeInv
    <2>1. irq \in [Core -> Handlers] /\ wait \in [Core -> Waits]
      BY <1>2 DEF Init
    <2>2. thread \in [Core -> {"idle", "delay", "halt"}] /\ elapsed \in [Core -> 0..Word]
      BY <1>0 DEF Init
    <2>3. hook \in [done : 0..Len(Hooks), todo : SUBSET Stores]
      BY <1>0, <1>1
    <2>4. jiffies \in 0..(Word - 1) /\ cores \in CoreCounts
      BY <1>0, <1>1 DEF Init
    <2> QED
      BY <1>1, <2>1, <2>2, <2>3, <2>4 DEF TypeInv
  <1>4. ListInv
    <2>1. Len(nodes) = 1 /\ nodes[1].next = "null" /\ nodes[1].this = Unset
      BY <1>1
    <2>2. hook.done = 0 /\ hook.todo = {}
      BY <1>1
    <2>3. \A k \in 1..0 : FALSE
      OBVIOUS
    <2> QED
      BY <2>1, <2>2, <2>3 DEF ListInv
  <1>5. \A c \in Core : irq[c].at = "off" /\ irq[c].node = 1 /\ irq[c].called = <<>>
    BY DEF Init, Off
  <1>6. WalkInv
    <2>1. Len(nodes) = 1 /\ 1 \in 1..1 /\ Len(<<>>) = 0 /\ \A k \in 1..0 : FALSE
      BY <1>1
    <2> QED
      BY <1>0, <1>5, <2>1 DEF WalkInv, WalkOf
  <1>7. DelayInv
    <2>1. \A c \in Core : thread[c] = "idle"
      BY DEF Init
    <2> QED
      BY <1>0, <1>5, <2>1 DEF DelayInv
  <1> QED
    BY <1>3, <1>4, <1>6, <1>7 DEF IInv

-----------------------------------------------------------------------------
(* clock_hook()                                                            *)

LEMMA HookAllocKeeps == IInv /\ HookAlloc => IInv'
  <1> SUFFICES ASSUME IInv, HookAlloc PROVE IInv'
    OBVIOUS
  <1>0. /\ hook.todo = {} /\ hook.done < Len(Hooks)
        /\ hook' = [hook EXCEPT !.todo = {"link", "this", "end"}]
        /\ UNCHANGED <<cores, jiffies, apicOn, irq, thread, wait, elapsed>>
        /\ Core' = Core
    BY DEF HookAlloc, Core
  <1>1. PICK d \in Nat : d = hook.done /\ Len(nodes) = d + 1 /\ d < Len(Hooks)
    BY <1>0, Basics DEF IInv, ListInv
  <1>2. /\ nodes' \in Seq(Node) /\ Len(nodes') = d + 2
        /\ \A k \in 1..(d + 1) : nodes'[k] = nodes[k]
        /\ nodes'[d + 2].this = Unset /\ nodes'[d + 2].next \in {"null", "wild"}
    <2>1. PICK garbage \in {"null", "wild"} :
             nodes' = Append(nodes, [this |-> Unset, next |-> garbage])
      BY DEF HookAlloc
    <2> DEFINE n == [this |-> Unset, next |-> garbage]
    <2>0. Unset \in Code
      BY DEF Code
    <2>2. n \in Node /\ nodes \in Seq(Node) /\ n.this = Unset /\ n.next \in {"null", "wild"}
      BY <2>0 DEF Node, IInv, TypeInv
    <2>3. nodes' = Append(nodes, n)
      BY <2>1
    <2> HIDE DEF n, Node
    <2>4. nodes' \in Seq(Node) /\ Len(nodes') = Len(nodes) + 1
          /\ \A k \in 1..Len(nodes) : nodes'[k] = nodes[k]
          /\ nodes'[Len(nodes) + 1] = n
      BY <2>2, <2>3
    <2> QED
      BY SMTT(30), <1>1, <2>2, <2>4
  <1>3. hook'.done = d /\ hook'.todo = {"link", "this", "end"}
        /\ hook' \in [done : 0..Len(Hooks), todo : SUBSET Stores]
    BY <1>0, <1>1 DEF IInv, TypeInv, Stores
  <1>4. TypeInv'
    BY <1>0, <1>2, <1>3 DEF IInv, TypeInv
  <1>5. ListInv'
    <2>1. /\ \A k \in 1..d : nodes[k].next = "node" /\ nodes[k].this = Hooks[k]
          /\ nodes[d + 1].next = "null" /\ nodes[d + 1].this = Unset
      BY <1>0, <1>1 DEF IInv, ListInv
    <2>2. /\ \A k \in 1..d : nodes'[k].next = "node" /\ nodes'[k].this = Hooks[k]
          /\ nodes'[d + 1].next = "null" /\ nodes'[d + 1].this = Unset
      <3>1. d + 1 \in 1..(d + 1) /\ \A k \in 1..d : k \in 1..(d + 1)
        OBVIOUS
      <3> QED
        BY <1>2, <2>1, <3>1
    <2>3. nodes'[d + 2].next # "node"
      BY <1>2
    <2> QED
      BY <1>1, <1>2, <1>3, <2>2, <2>3 DEF ListInv
  <1>6. WalkInv'
    <2>1. \A c \in Core : irq[c].node \in 1..Len(nodes') /\ irq[c].node # d + 2
      BY SMTT(30), <1>1, <1>2 DEF IInv, WalkInv, WalkOf
    <2> QED
      BY <1>0, <1>1, <1>3, <2>1 DEF IInv, WalkInv, WalkOf
  <1>7. DelayInv'
    BY <1>0 DEF IInv, DelayInv
  <1> QED
    BY <1>4, <1>5, <1>6, <1>7 DEF IInv

LEMMA HookStoreKeeps == ASSUME IInv, NEW s \in Stores, HookStore(s) PROVE IInv'
  <1>0. /\ s \in hook.todo
        /\ nodes' = Stored(s)
        /\ hook' = [done |-> IF hook.todo \ {s} = {} THEN hook.done + 1 ELSE hook.done,
                    todo |-> hook.todo \ {s}]
        /\ UNCHANGED <<cores, jiffies, apicOn, irq, thread, wait, elapsed>>
        /\ Core' = Core
    BY DEF HookStore, Core
  <1>1. PICK d \in Nat : /\ d = hook.done /\ Len(nodes) = d + 2 /\ d < Len(Hooks)
                         /\ nodes \in Seq(Node) /\ Len(Hooks) \in Nat
    BY SMTT(30), <1>0, Basics DEF IInv, ListInv, TypeInv
  <1>2. /\ d + 1 \in 1..Len(nodes) /\ d + 1 \in 1..Len(Hooks)
        /\ d + 2 \in 1..Len(nodes) /\ d + 1 # d + 2
        /\ \A k \in 1..d : k \in 1..(d + 2) /\ k # d + 1 /\ k # d + 2
    BY <1>1
  <1>3. /\ nodes[d + 1] \in Node /\ nodes[d + 2] \in Node
        /\ Hooks[d + 1] \in Code /\ Hooks[d + 1] # Unset
    BY <1>2, Basics DEF IInv
  <1>4. \E x \in {d + 1, d + 2} : \E n \in Node :
           /\ nodes' = [nodes EXCEPT ![x] = n]
           /\ s = "link" => x = d + 1 /\ n.next = "node" /\ n.this = nodes[d + 1].this
           /\ s = "this" => x = d + 1 /\ n.next = nodes[d + 1].next /\ n.this = Hooks[d + 1]
           /\ s = "end" => x = d + 2 /\ n.next = "null" /\ n.this = nodes[d + 2].this
    <2>0. Len(nodes) - 1 = d + 1 /\ (Len(nodes) - 1) + 1 = d + 2
      BY <1>1
    <2>1. CASE s = "link"
      <3> DEFINE n == [nodes[d + 1] EXCEPT !.next = "node"]
      <3>1. n \in Node /\ n.next = "node" /\ n.this = nodes[d + 1].this
        BY <1>3 DEF Node
      <3>2. nodes' = [nodes EXCEPT ![d + 1] = n]
        BY <1>0, <2>0, <2>1 DEF Stored
      <3> QED
        BY <2>1, <3>1, <3>2
    <2>2. CASE s = "this"
      <3> DEFINE n == [nodes[d + 1] EXCEPT !.this = Hooks[d + 1]]
      <3>1. n \in Node /\ n.next = nodes[d + 1].next /\ n.this = Hooks[d + 1]
        BY <1>3 DEF Node
      <3>2. nodes' = [nodes EXCEPT ![d + 1] = n]
        BY <1>0, <1>1, <2>0, <2>2 DEF Stored
      <3> QED
        BY <2>2, <3>1, <3>2
    <2>3. CASE s = "end"
      <3> DEFINE n == [nodes[d + 2] EXCEPT !.next = "null"]
      <3>1. n \in Node /\ n.next = "null" /\ n.this = nodes[d + 2].this
        BY <1>3 DEF Node
      <3>2. nodes' = [nodes EXCEPT ![d + 2] = n]
        BY <1>0, <2>0, <2>3 DEF Stored
      <3> QED
        BY <2>3, <3>1, <3>2
    <2> QED
      BY <2>1, <2>2, <2>3 DEF Stores
  <1>5. PICK x \in {d + 1, d + 2}, n \in Node :
           /\ nodes' = [nodes EXCEPT ![x] = n]
           /\ s = "link" => x = d + 1 /\ n.next = "node" /\ n.this = nodes[d + 1].this
           /\ s = "this" => x = d + 1 /\ n.next = nodes[d + 1].next /\ n.this = Hooks[d + 1]
           /\ s = "end" => x = d + 2 /\ n.next = "null" /\ n.this = nodes[d + 2].this
    BY <1>4
  <1>6. /\ nodes' \in Seq(Node) /\ Len(nodes') = d + 2 /\ nodes'[x] = n
        /\ \A k \in 1..(d + 2) : k # x => nodes'[k] = nodes[k]
    <2> HIDE DEF Node
    <2> QED
      BY SMTT(30), <1>1, <1>2, <1>5
  <1>7. /\ hook'.todo = hook.todo \ {s}
        /\ hook'.done = IF hook.todo = {s} THEN d + 1 ELSE d
        /\ hook' \in [done : 0..Len(Hooks), todo : SUBSET Stores]
    <2>1. hook.todo \ {s} = {} <=> hook.todo = {s}
      BY <1>0
    <2>2. hook.todo \ {s} \in SUBSET Stores
      BY Basics DEF IInv
    <2>3. d + 1 \in 0..Len(Hooks) /\ d \in 0..Len(Hooks)
      BY SMTT(30), <1>1
    <2> QED
      BY <1>0, <1>1, <2>1, <2>2, <2>3
  <1>8. TypeInv'
    BY <1>0, <1>6, <1>7 DEF IInv, TypeInv
  <1>9. /\ \A k \in 1..d : nodes[k].next = "node" /\ nodes[k].this = Hooks[k]
        /\ nodes[d + 1].next = IF "link" \in hook.todo THEN "null" ELSE "node"
        /\ nodes[d + 1].this = IF "this" \in hook.todo THEN Unset ELSE Hooks[d + 1]
        /\ nodes[d + 2].this = Unset /\ nodes[d + 2].next # "node"
        /\ "end" \notin hook.todo => nodes[d + 2].next = "null"
    BY <1>0, <1>1 DEF IInv, ListInv
  <1>10. /\ \A k \in 1..d : nodes'[k].next = "node" /\ nodes'[k].this = Hooks[k]
         /\ nodes'[d + 1].next = IF "link" \in hook'.todo THEN "null" ELSE "node"
         /\ nodes'[d + 1].this = IF "this" \in hook'.todo THEN Unset ELSE Hooks[d + 1]
         /\ nodes'[d + 2].this = Unset /\ nodes'[d + 2].next # "node"
         /\ "end" \notin hook'.todo => nodes'[d + 2].next = "null"
    <2>0. \A k \in 1..d : nodes'[k] = nodes[k]
      BY <1>2, <1>5, <1>6
    <2>1. CASE s = "link"
      <3>1. x = d + 1 /\ nodes'[d + 2] = nodes[d + 2]
        BY <1>1, <1>2, <1>5, <1>6, <2>1
      <3> QED
        BY <1>5, <1>6, <1>7, <1>9, <2>0, <2>1, <3>1
    <2>2. CASE s = "this"
      <3>1. x = d + 1 /\ nodes'[d + 2] = nodes[d + 2]
        BY <1>1, <1>2, <1>5, <1>6, <2>2
      <3> QED
        BY <1>5, <1>6, <1>7, <1>9, <2>0, <2>2, <3>1
    <2>3. CASE s = "end"
      <3>1. x = d + 2 /\ nodes'[d + 1] = nodes[d + 1]
        BY <1>1, <1>2, <1>5, <1>6, <2>3
      <3> QED
        BY <1>5, <1>6, <1>7, <1>9, <2>0, <2>3, <3>1
    <2> QED
      BY <2>1, <2>2, <2>3 DEF Stores
  <1>11. ListInv'
    <2>1. CASE hook.todo = {s}
      <3>1. hook'.todo = {} /\ hook'.done = d + 1
        BY <1>7, <2>1
      <3>2. /\ nodes'[d + 1].next = "node" /\ nodes'[d + 1].this = Hooks[d + 1]
            /\ nodes'[d + 2].next = "null" /\ nodes'[d + 2].this = Unset
        BY <1>10, <3>1
      <3>3. \A k \in 1..(d + 1) : nodes'[k].next = "node" /\ nodes'[k].this = Hooks[k]
        <4>1. \A k \in 1..(d + 1) : k \in 1..d \/ k = d + 1
          OBVIOUS
        <4> QED
          BY <1>10, <3>2, <4>1
      <3>4. (d + 1) + 1 = d + 2
        OBVIOUS
      <3> QED
        BY <1>6, <3>1, <3>2, <3>3, <3>4 DEF ListInv
    <2>2. CASE hook.todo # {s}
      <3>1. hook'.todo # {} /\ hook'.done = d
        BY <1>0, <1>7, <2>2
      <3> QED
        BY <1>1, <1>6, <1>10, <3>1 DEF ListInv
    <2> QED
      BY <2>1, <2>2
  <1>12. WalkInv'
    <2>1. hook'.done \in Nat /\ hook.done <= hook'.done /\ hook.done \in Nat
      BY SMTT(30), <1>1, <1>7
    <2>2. ASSUME NEW c \in Core, irq[c].at = "walk", irq[c].node = hook'.done + 2
          PROVE  {"link", "this"} \cap hook'.todo = {}
      <3>1. irq[c].node \in 1..(d + 2)
        BY <1>1 DEF IInv, WalkInv, WalkOf
      <3>2. irq[c].node = hook.done + 2
        BY SMTT(30), <1>1, <1>7, <2>2, <3>1
      <3> QED
        BY <1>7, <2>2, <3>2 DEF IInv, WalkInv, WalkOf
    <2>3. \A c \in Core : irq[c].at \in {"store", "walk", "eoi"} => irq[c].due <= hook'.done
      <3>1. \A c \in Core : irq[c].due \in Nat
        BY Basics DEF IInv, Handlers
      <3> QED
        BY <2>1, <3>1 DEF IInv, WalkInv, WalkOf
    <2> QED
      BY SMTT(30), <1>0, <1>1, <1>6, <2>2, <2>3 DEF IInv, WalkInv, WalkOf
  <1>13. DelayInv'
    BY <1>0 DEF IInv, DelayInv
  <1> QED
    BY <1>8, <1>11, <1>12, <1>13 DEF IInv

-----------------------------------------------------------------------------
(* The timer interrupt                                                     *)

\* A step of the handler of core c leaves the list alone.
LEMMA HandlerStep ==
  ASSUME IInv, NEW c \in Core, NEW h \in Handlers, irq' = [irq EXCEPT ![c] = h], WalkOf(h),
         UNCHANGED <<cores, nodes, hook>>
  PROVE  /\ ListInv' /\ WalkInv' /\ irq' \in [Core -> Handlers] /\ Core' = Core
         /\ irq'[c] = h /\ \A d \in Core : d # c => irq'[d] = irq[d]
  <1>1. Core' = Core
    BY DEF Core
  <1>2. ListInv'
    BY DEF IInv, ListInv
  <1>3. irq' \in [Core -> Handlers] /\ irq'[c] = h /\ \A d \in Core : d # c => irq'[d] = irq[d]
    BY DEF IInv, TypeInv
  <1>4. ASSUME NEW d \in Core PROVE WalkOf(irq[d])' <=> WalkOf(irq'[d])
    BY DEF WalkOf
  <1>5. \A d \in Core : WalkOf(irq'[d])
    BY <1>3 DEF IInv, WalkInv
  <1>6. WalkInv'
    BY <1>1, <1>4, <1>5 DEF WalkInv
  <1> QED
    BY <1>1, <1>2, <1>3, <1>6

LEMMA TickLoadKeeps == ASSUME IInv, NEW c \in Core, NEW pit \in BOOLEAN, TickLoad(c, pit) PROVE IInv'
  <1> DEFINE h == [Off EXCEPT !.at = "store", !.val = jiffies, !.due = hook.done]
  <1>0. /\ Word \in Nat \ {0} /\ 0 \in Core /\ hook.done \in Nat /\ jiffies \in 0..(Word - 1)
        /\ Len(nodes) \in Nat /\ Len(nodes) >= 1 /\ Len(Hooks) \in Nat
    BY SMTT(30), Basics DEF IInv, TypeInv, ListInv
  <1>1. /\ irq[c].at = "off" /\ (IF pit THEN c = 0 ELSE c \in apicOn)
        /\ irq' = [irq EXCEPT ![c] = h]
        /\ elapsed' = [d \in Core |->
                          IF pit /\ thread[d] = "delay" /\ elapsed[d] < Word
                          THEN elapsed[d] + 1 ELSE elapsed[d]]
        /\ UNCHANGED <<cores, jiffies, nodes, hook, apicOn, thread, wait>>
    BY DEF TickLoad, Interruptible, Handler
  <1>2. /\ h \in Handlers
        /\ h.at = "store" /\ h.val = jiffies /\ h.node = 1 /\ h.due = hook.done /\ h.called = <<>>
    <2>1. jiffies \in Words /\ 0 \in Words /\ hook.done \in Nat
      BY <1>0 DEF Words
    <2>2. Off \in Handlers /\ Off.node = 1 /\ Off.called = <<>>
      BY <2>1 DEF Off, Handlers
    <2> QED
      BY <2>1, <2>2 DEF Handlers
  <1> HIDE DEF h
  <1>3. WalkOf(h)
    <2>1. 1 \in 1..Len(nodes) /\ Len(<<>>) = 0 /\ \A k \in 1..0 : FALSE
      BY <1>0
    <2> QED
      BY <1>0, <1>2, <2>1 DEF WalkOf
  <1>4. /\ ListInv' /\ WalkInv' /\ irq' \in [Core -> Handlers] /\ Core' = Core
        /\ irq'[c] = h /\ \A d \in Core : d # c => irq'[d] = irq[d]
    BY <1>1, <1>2, <1>3, HandlerStep
  <1>5. elapsed' \in [Core -> 0..Word]
    <2>1. \A d \in Core : elapsed[d] \in 0..Word
      BY DEF IInv, TypeInv
    <2>2. \A d \in Core : (IF pit /\ thread[d] = "delay" /\ elapsed[d] < Word
                           THEN elapsed[d] + 1 ELSE elapsed[d]) \in 0..Word
      BY <1>0, <2>1
    <2> QED
      BY <1>1, <2>2
  <1>6. TypeInv'
    BY <1>1, <1>4, <1>5 DEF IInv, TypeInv
  <1>7. DelayInv'
    <2> SUFFICES ASSUME apicOn = {} PROVE DelayInv'
      BY <1>1 DEF DelayInv
    <2>1. c = 0 /\ pit
      BY <1>1
    <2>2. \A d \in Core : d # 0 => irq'[d].at = "off"
      BY <1>4, <2>1 DEF IInv, DelayInv
    <2>3. irq'[0].at = "store" /\ irq'[0].val = jiffies'
      BY <1>1, <1>2, <1>4, <2>1
    <2>4. ASSUME NEW d \in Core, thread[d] = "delay"
          PROVE  ((jiffies - wait[d].start) % Word) + 1 <= elapsed'[d] + (IF d = 0 THEN 0 ELSE 1)
      <3>1. ((jiffies - wait[d].start) % Word) + 0 <= elapsed[d] + (IF d = 0 THEN 0 ELSE 1)
        BY <1>1, <2>1, <2>4 DEF IInv, DelayInv
      <3>2. (jiffies - wait[d].start) % Word \in 0..(Word - 1)
        <4>1. wait[d].start \in 0..(Word - 1)
          BY Basics DEF IInv, Waits, Words
        <4> QED
          BY SMTT(30), <1>0, <4>1, Wrap
      <3>3. elapsed'[d] = IF elapsed[d] < Word THEN elapsed[d] + 1 ELSE elapsed[d]
        BY <1>1, <2>1, <2>4
      <3>4. elapsed[d] \in 0..Word
        BY DEF IInv, TypeInv
      <3> QED
        BY <1>0, <3>1, <3>2, <3>3, <3>4
    <2> QED
      BY <1>1, <1>4, <2>2, <2>3, <2>4 DEF DelayInv
  <1> QED
    BY <1>4, <1>6, <1>7 DEF IInv

LEMMA TickStoreKeeps == ASSUME IInv, NEW c \in Core, TickStore(c) PROVE IInv'
  <1> DEFINE h == [irq[c] EXCEPT !.at = "walk", !.val = 0]
  <1>0. /\ Word \in Nat \ {0} /\ 0 \in Core /\ jiffies \in 0..(Word - 1) /\ irq[c] \in Handlers
    BY Basics DEF IInv, TypeInv
  <1>1. /\ irq[c].at = "store" /\ irq' = [irq EXCEPT ![c] = h]
        /\ jiffies' = (irq[c].val + 1) % Word
        /\ UNCHANGED <<cores, nodes, hook, apicOn, thread, wait, elapsed>>
    BY DEF TickStore, Handler
  <1>2. /\ h \in Handlers /\ h.at = "walk" /\ h.node = irq[c].node /\ h.due = irq[c].due
        /\ h.called = irq[c].called
    <2>1. 0 \in Words
      BY <1>0 DEF Words
    <2> QED
      BY <1>0, <2>1 DEF Handlers
  <1> HIDE DEF h
  <1>3. WalkOf(h)
    <2>1. /\ WalkOf(irq[c]) /\ irq[c].node = 1 /\ irq[c].called = <<>> /\ hook.done \in Nat
      BY <1>1, Basics DEF IInv, WalkInv, WalkOf
    <2>2. Len(<<>>) = 0 /\ 1 - 1 = 0 /\ hook.done + 2 # 1
      BY <2>1
    <2> QED
      BY <1>1, <1>2, <2>1, <2>2 DEF WalkOf
  <1>4. /\ ListInv' /\ WalkInv' /\ irq' \in [Core -> Handlers] /\ Core' = Core
        /\ irq'[c] = h /\ \A d \in Core : d # c => irq'[d] = irq[d]
    BY <1>1, <1>2, <1>3, HandlerStep
  <1>5. jiffies' \in 0..(Word - 1)
    <2>1. irq[c].val \in 0..(Word - 1)
      BY <1>0 DEF Handlers, Words
    <2> QED
      BY <1>0, <1>1, <2>1, Successor
  <1>6. TypeInv'
    BY <1>1, <1>4, <1>5 DEF IInv, TypeInv
  <1>7. DelayInv'
    <2> SUFFICES ASSUME apicOn = {} PROVE DelayInv'
      BY <1>1 DEF DelayInv
    <2>1. c = 0 /\ irq[c].val = jiffies
      BY <1>1 DEF IInv, DelayInv
    <2>2. \A d \in Core : d # 0 => irq'[d].at = "off"
      BY <1>4, <2>1 DEF IInv, DelayInv
    <2>3. irq'[0].at = "walk"
      BY <1>2, <1>4, <2>1
    <2>4. ASSUME NEW d \in Core, thread[d] = "delay"
          PROVE  ((jiffies' - wait[d].start) % Word) + 0 <= elapsed[d] + (IF d = 0 THEN 0 ELSE 1)
      <3>1. ((jiffies - wait[d].start) % Word) + 1 <= elapsed[d] + (IF d = 0 THEN 0 ELSE 1)
        BY <1>1, <2>1, <2>4 DEF IInv, DelayInv
      <3>2. wait[d].start \in 0..(Word - 1) /\ elapsed[d] \in 0..Word
        BY Basics DEF IInv, TypeInv, Waits, Words
      <3>3. jiffies' = IF jiffies = Word - 1 THEN 0 ELSE jiffies + 1
        BY <1>0, <1>1, <2>1, Successor
      <3>4. PICK j \in 0..(Word - 1) : j = jiffies'
        BY <1>5
      <3>5. (j - wait[d].start) % Word <= ((jiffies - wait[d].start) % Word) + 1
        <4>1. (j - wait[d].start) % Word =
                  IF j >= wait[d].start THEN j - wait[d].start ELSE j - wait[d].start + Word
          BY <1>0, <3>2, Wrap
        <4>2. (jiffies - wait[d].start) % Word =
                  IF jiffies >= wait[d].start THEN jiffies - wait[d].start
                  ELSE jiffies - wait[d].start + Word
          BY <1>0, <3>2, Wrap
        <4>3. j = IF jiffies = Word - 1 THEN 0 ELSE jiffies + 1
          BY <3>3, <3>4
        <4> QED
          BY <1>0, <3>2, <4>1, <4>2, <4>3
      <3>6. (j - wait[d].start) % Word \in Int /\ (jiffies - wait[d].start) % Word \in Int
        BY <1>0, <3>2
      <3> QED
        BY <3>1, <3>2, <3>4, <3>5, <3>6
    <2> QED
      BY <1>1, <1>4, <2>2, <2>3, <2>4 DEF DelayInv
  <1> QED
    BY <1>4, <1>6, <1>7 DEF IInv

LEMMA EoiKeeps == ASSUME IInv, NEW c \in Core, Eoi(c) PROVE IInv'
  <1>1. /\ irq[c].at = "eoi" /\ irq' = [irq EXCEPT ![c] = Off]
        /\ UNCHANGED <<cores, jiffies, nodes, hook, apicOn, thread, wait, elapsed>>
    BY DEF Eoi, Handler
  <1>2. /\ Off \in Handlers /\ Off.at = "off" /\ Off.node = 1 /\ Off.called = <<>>
        /\ Len(nodes) \in Nat /\ Len(nodes) >= 1 /\ 0 \in Core
    BY SMTT(30), Basics DEF IInv, ListInv, Off, Handlers, Words
  <1>3. WalkOf(Off)
    <2>1. 1 \in 1..Len(nodes) /\ Len(<<>>) = 0 /\ 0 <= Len(Hooks) /\ \A k \in 1..0 : FALSE
      BY <1>2, Basics DEF IInv
    <2> QED
      BY <1>2, <2>1 DEF WalkOf
  <1>4. /\ ListInv' /\ WalkInv' /\ irq' \in [Core -> Handlers] /\ Core' = Core
        /\ irq'[c] = Off /\ \A d \in Core : d # c => irq'[d] = irq[d]
    BY <1>1, <1>2, <1>3, HandlerStep
  <1>5. TypeInv'
    BY <1>1, <1>4 DEF IInv, TypeInv
  <1>6. DelayInv'
    <2>1. /\ \A d \in Core : irq[d].at = "off" => irq'[d].at = "off"
          /\ irq'[0].at = "store" <=> irq[0].at = "store"
          /\ irq'[0].at = "store" => irq'[0] = irq[0]
      BY <1>1, <1>2, <1>4
    <2> QED
      BY <1>1, <1>4, <2>1 DEF IInv, DelayInv
  <1> QED
    BY <1>4, <1>5, <1>6 DEF IInv

LEMMA RunHooksKeeps == ASSUME IInv, NEW c \in Core, RunHooks(c)
                       PROVE  IInv' /\ (irq'[c].at = "dead" => hook.todo # {})
  <1>0. /\ irq[c] \in Handlers /\ Len(Hooks) \in Nat /\ Len(nodes) \in Nat /\ 0 \in Words /\ 0 \in Core
        /\ irq[c].called \in Seq(Code)
    BY Basics DEF IInv, Handlers, Words
  <1>1. PICK d \in Nat, m \in Nat :
           /\ d = hook.done /\ m = irq[c].node /\ m >= 1 /\ d <= Len(Hooks)
           /\ Len(nodes) = IF hook.todo = {} THEN d + 1 ELSE d + 2
           /\ m <= Len(nodes)
    <2>1. irq[c].node \in 1..Len(nodes)
      BY DEF IInv, WalkInv, WalkOf
    <2>2. irq[c].node \in Nat /\ irq[c].node >= 1 /\ irq[c].node <= Len(nodes)
      BY <1>0, <2>1
    <2>3. hook.done \in Nat /\ hook.done <= Len(Hooks)
      BY <1>0, Basics DEF IInv
    <2>4. Len(nodes) = IF hook.todo = {} THEN hook.done + 1 ELSE hook.done + 2
      BY DEF IInv, ListInv
    <2> QED
      BY <2>2, <2>3, <2>4
  <1>2. /\ irq[c].at = "walk"
        /\ Len(irq[c].called) = m - 1 /\ irq[c].due <= d /\ irq[c].due \in Nat
        /\ m = d + 2 => {"link", "this"} \cap hook.todo = {}
        /\ Len(irq[c].called) <= Len(Hooks)
        /\ \A k \in 1..Len(irq[c].called) : irq[c].called[k] = Hooks[k]
        /\ UNCHANGED <<cores, jiffies, nodes, hook, apicOn, thread, wait, elapsed>>
    BY <1>0, <1>1 DEF RunHooks, IInv, WalkInv, WalkOf, Handlers
  <1>3. /\ nodes[m] \in Node
        /\ m <= d => nodes[m].next = "node" /\ nodes[m].this = Hooks[m] /\ Hooks[m] # Unset
        /\ m = d + 1 /\ hook.todo = {} => nodes[m].next = "null"
        /\ m = d + 1 /\ hook.todo # {} =>
              /\ nodes[m].next = IF "link" \in hook.todo THEN "null" ELSE "node"
              /\ nodes[m].this = IF "this" \in hook.todo THEN Unset ELSE Hooks[m]
              /\ d < Len(Hooks)
        /\ m = d + 2 => nodes[m].this = Unset /\ hook.todo # {}
    <2>1. /\ m \in 1..Len(nodes) /\ (m <= d => m \in 1..d /\ m \in 1..Len(Hooks))
          /\ m = d + 2 => hook.todo # {}
      BY SMTT(30), <1>0, <1>1
    <2>2. nodes[m] \in Node
      BY <2>1, Basics DEF IInv
    <2>3. \A k \in 1..d : nodes[k].next = "node" /\ nodes[k].this = Hooks[k]
      BY <1>1 DEF IInv, ListInv
    <2>4. hook.todo = {} => nodes[d + 1].next = "null"
      BY <1>1 DEF IInv, ListInv
    <2>5. hook.todo # {} => /\ nodes[d + 1].next = IF "link" \in hook.todo THEN "null" ELSE "node"
                            /\ nodes[d + 1].this = IF "this" \in hook.todo THEN Unset ELSE Hooks[d + 1]
                            /\ nodes[d + 2].this = Unset /\ d < Len(Hooks)
      BY <1>1 DEF IInv, ListInv
    <2>6. m <= d => nodes[m].next = "node" /\ nodes[m].this = Hooks[m] /\ Hooks[m] # Unset
      BY <2>1, <2>3, Basics DEF IInv
    <2>7. m = d + 1 /\ hook.todo = {} => nodes[m].next = "null"
      BY <2>4
    <2>8. m = d + 1 /\ hook.todo # {} =>
              /\ nodes[m].next = IF "link" \in hook.todo THEN "null" ELSE "node"
              /\ nodes[m].this = IF "this" \in hook.todo THEN Unset ELSE Hooks[m]
              /\ d < Len(Hooks)
      BY <2>5
    <2>9. m = d + 2 => nodes[m].this = Unset
      BY <2>1, <2>5
    <2> QED
      BY <2>1, <2>2, <2>6, <2>7, <2>8, <2>9
  <1>4. m <= d \/ m = d + 1 \/ m = d + 2
    BY SMTT(30), <1>1
  <1>5. ASSUME NEW h \in Handlers, irq' = [irq EXCEPT ![c] = h], WalkOf(h), h.at # "store",
               h.at = "dead" => hook.todo # {}
        PROVE  IInv' /\ (irq'[c].at = "dead" => hook.todo # {})
    <2>1. /\ ListInv' /\ WalkInv' /\ irq' \in [Core -> Handlers] /\ Core' = Core
          /\ irq'[c] = h /\ \A e \in Core : e # c => irq'[e] = irq[e]
      BY <1>2, <1>5, HandlerStep
    <2>2. TypeInv'
      BY <1>2, <2>1 DEF IInv, TypeInv
    <2>3. DelayInv'
      <3>1. apicOn = {} => c = 0
        BY <1>2 DEF IInv, DelayInv
      <3>2. apicOn = {} => irq'[0].at # "store" /\ irq[0].at # "store"
        BY <1>2, <1>5, <2>1, <3>1
      <3>3. \A e \in Core : e # c => irq'[e] = irq[e]
        BY <2>1
      <3> QED
        BY <1>2, <2>1, <3>1, <3>2, <3>3 DEF IInv, DelayInv
    <2> QED
      BY <1>5, <2>1, <2>2, <2>3 DEF IInv
  <1>6. CASE nodes[m].next = "null"
    <2> DEFINE h == [irq[c] EXCEPT !.at = "eoi", !.node = 1]
    <2>1. irq' = [irq EXCEPT ![c] = h]
      BY <1>1, <1>6 DEF RunHooks, Handler
    <2>2. /\ h \in Handlers /\ h.at = "eoi" /\ h.node = 1 /\ h.due = irq[c].due
          /\ h.called = irq[c].called
      BY <1>0 DEF Handlers
    <2>3. irq[c].due <= Len(irq[c].called)
      <3>1. m >= d + 1
        BY <1>1, <1>3, <1>4, <1>6
      <3> QED
        BY SMTT(30), <1>1, <1>2, <3>1
    <2> HIDE DEF h
    <2>4. WalkOf(h)
      <3>1. 1 \in 1..Len(nodes)
        BY SMTT(30), <1>0, <1>1
      <3> QED
        BY <1>1, <1>2, <2>2, <2>3, <3>1 DEF WalkOf
    <2>5. h.at # "store" /\ h.at # "dead"
      BY <2>2
    <2> QED
      BY <1>5, <2>1, <2>2, <2>4, <2>5
  <1>7. CASE nodes[m].next # "null" /\ nodes[m].this = Unset
    <2> DEFINE h == [Off EXCEPT !.at = "dead"]
    <2>1. irq' = [irq EXCEPT ![c] = h]
      BY <1>1, <1>7 DEF RunHooks, Handler
    <2>2. h \in Handlers /\ h.at = "dead" /\ h.node = 1 /\ h.called = <<>>
      <3>1. Off \in Handlers /\ Off.node = 1 /\ Off.called = <<>>
        BY <1>0 DEF Off, Handlers
      <3> QED
        BY <3>1 DEF Handlers
    <2> HIDE DEF h
    <2>3. WalkOf(h)
      <3>1. 1 \in 1..Len(nodes) /\ Len(<<>>) = 0 /\ 0 <= Len(Hooks) /\ \A k \in 1..0 : FALSE
        BY <1>0, <1>1
      <3> QED
        BY <2>2, <3>1 DEF WalkOf
    <2>4. hook.todo # {}
      BY <1>3, <1>4, <1>7
    <2>5. h.at # "store"
      BY <2>2
    <2> QED
      BY <1>5, <2>1, <2>2, <2>3, <2>4, <2>5
  <1>8. CASE nodes[m].next # "null" /\ nodes[m].this # Unset
    <2> DEFINE l == Append(irq[c].called, nodes[m].this)
               h == [irq[c] EXCEPT !.node = m + 1, !.called = l]
    <2>1. irq' = [irq EXCEPT ![c] = h]
      BY <1>1, <1>8 DEF RunHooks, Handler
    <2>2. /\ nodes[m].this = Hooks[m] /\ m <= d + 1 /\ m <= Len(Hooks)
          /\ m = d + 1 => hook.todo # {} /\ {"link", "this"} \cap hook.todo = {}
      <3>1. CASE m <= d
        <4>1. m <= d + 1 /\ m <= Len(Hooks) /\ m # d + 1
          BY <1>0, <1>1, <3>1
        <4> QED
          BY <1>3, <3>1, <4>1
      <3>2. CASE m = d + 1
        <4>1. hook.todo # {} /\ "link" \notin hook.todo /\ "this" \notin hook.todo
              /\ nodes[m].this = Hooks[m] /\ d < Len(Hooks)
          BY <1>3, <1>8, <3>2
        <4>2. m <= d + 1 /\ m <= Len(Hooks)
          BY <1>0, <1>1, <3>2, <4>1
        <4> QED
          BY <4>1, <4>2
      <3> QED
        BY <1>3, <1>4, <1>8, <3>1, <3>2
    <2>3. nodes[m].this \in Code
      BY <1>3 DEF Node
    <2>4. /\ l \in Seq(Code) /\ Len(l) = m
          /\ \A k \in 1..(m - 1) : l[k] = irq[c].called[k]
          /\ l[m] = Hooks[m]
      <3> HIDE DEF h
      <3>1. Len(l) = Len(irq[c].called) + 1 /\ l \in Seq(Code)
            /\ \A k \in 1..Len(irq[c].called) : l[k] = irq[c].called[k]
            /\ l[Len(irq[c].called) + 1] = nodes[m].this
        BY <1>0, <2>3
      <3>2. Len(irq[c].called) = m - 1 /\ Len(irq[c].called) + 1 = m
        BY <1>1, <1>2
      <3> QED
        BY <2>2, <3>1, <3>2
    <2> HIDE DEF l
    <2>5. /\ h \in Handlers /\ h.at = "walk" /\ h.node = m + 1 /\ h.due = irq[c].due
          /\ h.called = l
      <3>1. m + 1 \in Nat
        BY <1>1
      <3> QED
        BY <1>0, <1>2, <2>4, <3>1 DEF Handlers
    <2> HIDE DEF h
    <2>6. WalkOf(h)
      <3>1. m + 1 \in 1..Len(nodes)
        <4>1. Len(nodes) >= m + 1 /\ Len(nodes) \in Nat
          <5>1. CASE m = d + 1
            BY SMTT(30), <1>0, <1>1, <2>2, <5>1
          <5>2. CASE m <= d
            BY SMTT(30), <1>0, <1>1, <5>2
          <5> QED
            BY SMTT(30), <1>1, <2>2, <5>1, <5>2
        <4> QED
          BY SMTT(30), <1>1, <4>1
      <3>2. \A k \in 1..m : l[k] = Hooks[k]
        <4>1. \A k \in 1..m : k \in 1..(m - 1) \/ k = m
          BY <1>1
        <4> QED
          BY <1>2, <2>4, <4>1
      <3>3. m + 1 = d + 2 => m = d + 1
        BY SMTT(30), <1>1
      <3>4. m = (m + 1) - 1
        BY <1>1
      <3> QED
        BY <1>1, <1>2, <2>2, <2>4, <2>5, <3>1, <3>2, <3>3, <3>4 DEF WalkOf
    <2>7. h.at # "store" /\ h.at # "dead"
      BY <2>5
    <2> QED
      BY <1>5, <2>1, <2>5, <2>6, <2>7
  <1> QED
    BY <1>6, <1>7, <1>8

-----------------------------------------------------------------------------
(* Delays                                                                  *)

LEMMA DelayStartKeeps == ASSUME IInv, NEW c \in Core, NEW d \in Delays, DelayStart(c, d) PROVE IInv'
  <1> DEFINE w == [start |-> jiffies, jiff |-> Unsigned(ToJiffies(d[1], d[2]))]
  <1>0. Word \in Nat \ {0} /\ jiffies \in 0..(Word - 1) /\ 0 \in Core
    BY Basics DEF IInv, TypeInv
  <1>1. /\ irq[c].at = "off"
        /\ thread' = [thread EXCEPT ![c] = "delay"]
        /\ wait' = [wait EXCEPT ![c] = w]
        /\ elapsed' = [elapsed EXCEPT ![c] = 0]
        /\ UNCHANGED <<cores, jiffies, nodes, hook, apicOn, irq>> /\ Core' = Core
    BY DEF DelayStart, Runs, Core
  <1>2. w \in Waits /\ w.start = jiffies
    <2>1. Unsigned(ToJiffies(d[1], d[2])) \in 0..Word
      BY <1>0 DEF Unsigned
    <2> QED
      BY <1>0, <2>1 DEF Waits, Words
  <1> HIDE DEF w
  <1>3. TypeInv'
    <2>1. thread' \in [Core -> {"idle", "delay", "halt"}]
      BY <1>1 DEF IInv, TypeInv
    <2>2. wait' \in [Core -> Waits]
      BY <1>1, <1>2 DEF IInv, TypeInv
    <2>3. elapsed' \in [Core -> 0..Word]
      BY <1>0, <1>1 DEF IInv, TypeInv
    <2> QED
      BY <1>1, <2>1, <2>2, <2>3 DEF IInv, TypeInv
  <1>4. ListInv' /\ WalkInv'
    BY <1>1 DEF IInv, ListInv, WalkInv, WalkOf
  <1>5. DelayInv'
    <2> SUFFICES ASSUME apicOn = {} PROVE DelayInv'
      BY <1>1 DEF DelayInv
    <2>1. ASSUME NEW e \in Core, thread'[e] = "delay"
          PROVE  ((jiffies - wait'[e].start) % Word) + (IF irq[0].at = "store" THEN 1 ELSE 0)
                     <= elapsed'[e] + (IF e = 0 THEN 0 ELSE 1)
      <3>1. CASE e # c
        <4>1. thread[e] = "delay" /\ wait'[e] = wait[e] /\ elapsed'[e] = elapsed[e]
          BY <1>1, <2>1, <3>1 DEF IInv, TypeInv
        <4> QED
          BY <1>1, <4>1 DEF IInv, DelayInv
      <3>2. CASE e = c
        <4>1. wait'[e].start = jiffies /\ elapsed'[e] = 0
          BY <1>1, <1>2, <3>2 DEF IInv, TypeInv
        <4>2. (jiffies - jiffies) % Word = 0
          BY <1>0, Wrap
        <4>3. e = 0 => irq[0].at # "store"
          BY <1>1, <3>2
        <4> QED
          BY <4>1, <4>2, <4>3
      <3> QED
        BY <3>1, <3>2
    <2> QED
      BY <1>1, <2>1 DEF IInv, DelayInv
  <1> QED
    BY <1>3, <1>4, <1>5 DEF IInv

LEMMA DelayEndKeeps == ASSUME IInv, NEW c \in Core, NEW apic \in BOOLEAN, DelayEnd(c, apic) PROVE IInv'
  <1>0. Word \in Nat \ {0} /\ 0 \in Core
    BY Basics DEF IInv
  <1>1. /\ apicOn' = IF apic THEN apicOn \cup {c} ELSE apicOn
        /\ thread' = [thread EXCEPT ![c] = IF c = 0 THEN "idle" ELSE "halt"]
        /\ wait' = [wait EXCEPT ![c] = NoWait]
        /\ elapsed' = [elapsed EXCEPT ![c] = 0]
        /\ UNCHANGED <<cores, jiffies, nodes, hook, irq>> /\ Core' = Core
    BY DEF DelayEnd, Core
  <1>2. NoWait \in Waits
    BY <1>0 DEF NoWait, Waits, Words
  <1>3. TypeInv'
    <2>1. thread' \in [Core -> {"idle", "delay", "halt"}]
      BY <1>1 DEF IInv, TypeInv
    <2>2. wait' \in [Core -> Waits]
      BY <1>1, <1>2 DEF IInv, TypeInv
    <2>3. elapsed' \in [Core -> 0..Word]
      BY <1>0, <1>1 DEF IInv, TypeInv
    <2>4. apicOn' \subseteq Core
      BY <1>1 DEF IInv, TypeInv
    <2> QED
      BY <1>1, <2>1, <2>2, <2>3, <2>4 DEF IInv, TypeInv
  <1>4. ListInv' /\ WalkInv'
    BY <1>1 DEF IInv, ListInv, WalkInv, WalkOf
  <1>5. DelayInv'
    <2> SUFFICES ASSUME apicOn' = {} PROVE DelayInv'
      BY DEF DelayInv
    <2>1. apicOn = {}
      BY <1>1
    <2>2. ASSUME NEW e \in Core, thread'[e] = "delay"
          PROVE  thread[e] = "delay" /\ wait'[e] = wait[e] /\ elapsed'[e] = elapsed[e]
      BY <1>1, <2>2 DEF IInv, TypeInv
    <2> QED
      BY <1>1, <2>1, <2>2 DEF IInv, DelayInv
  <1> QED
    BY <1>3, <1>4, <1>5 DEF IInv

-----------------------------------------------------------------------------
(* The theorems                                                            *)

LEMMA StepKeeps == IInv /\ [Next]_vars => IInv'
  <1> SUFFICES ASSUME IInv, [Next]_vars PROVE IInv'
    OBVIOUS
  <1>1. CASE HookAlloc
    BY <1>1, HookAllocKeeps
  <1>2. ASSUME NEW s \in {"link", "this", "end"}, HookStore(s) PROVE IInv'
    BY <1>2, HookStoreKeeps DEF Stores
  <1>3. ASSUME NEW c \in Core, NEW pit \in BOOLEAN, TickLoad(c, pit) PROVE IInv'
    BY <1>3, TickLoadKeeps
  <1>4. ASSUME NEW c \in Core, TickStore(c) PROVE IInv'
    BY <1>4, TickStoreKeeps
  <1>5. ASSUME NEW c \in Core, RunHooks(c) PROVE IInv'
    BY <1>5, RunHooksKeeps
  <1>6. ASSUME NEW c \in Core, Eoi(c) PROVE IInv'
    BY <1>6, EoiKeeps
  <1>7. ASSUME NEW c \in Core, NEW d \in Delays, DelayStart(c, d) PROVE IInv'
    BY <1>7, DelayStartKeeps
  <1>8. ASSUME NEW c \in Core, NEW apic \in BOOLEAN, DelayEnd(c, apic) PROVE IInv'
    BY <1>8, DelayEndKeeps
  <1>9. CASE UNCHANGED vars
    BY SMTT(30), <1>9 DEF vars, IInv, TypeInv, ListInv, WalkInv, WalkOf, DelayInv, Core
  <1> QED
    BY <1>1, <1>2, <1>3, <1>4, <1>5, <1>6, <1>7, <1>8, <1>9 DEF Next

LEMMA Inductive == Spec => []IInv
  BY InitInv, StepKeeps, PTL DEF Spec

\* clock.c, time_source.c, sleep.c: counters and lists stay in range, for any
\* number of cores, hooks and values of a word.
THEOREM TypeCorrect == Spec => []TypeOK
  <1>1. IInv => TypeOK
    <2> SUFFICES ASSUME IInv PROVE TypeOK
      OBVIOUS
    <2>1. Len(nodes) \in 1..(Len(Hooks) + 1)
      <3>1. hook.done \in Nat /\ hook.done <= Len(Hooks) /\ Len(Hooks) \in Nat /\ Len(nodes) \in Nat
        BY Basics DEF IInv
      <3>2. CASE hook.todo = {}
        <4>1. Len(nodes) = hook.done + 1
          BY <3>2 DEF IInv, ListInv
        <4> QED
          BY <3>1, <4>1
      <3>3. CASE hook.todo # {}
        <4>1. Len(nodes) = hook.done + 2 /\ hook.done < Len(Hooks)
          BY <3>3 DEF IInv, ListInv
        <4> QED
          BY <3>1, <4>1
      <3> QED
        BY <3>2, <3>3
    <2>2. \A k \in 1..Len(nodes) : nodes[k].next \in {"null", "wild", "node"}
      BY Basics DEF IInv, Node
    <2>3. hook.done \in 0..Len(Hooks) /\ hook.todo \subseteq {"link", "this", "end"}
      BY DEF IInv, TypeInv, Stores
    <2>4. ASSUME NEW c \in Core
          PROVE  /\ irq[c].at \in {"off", "store", "walk", "eoi", "dead"}
                 /\ irq[c].node \in 1..Len(nodes)
                 /\ thread[c] \in {"idle", "delay", "halt"}
                 /\ wait[c].start \in 0..(Word - 1) /\ wait[c].jiff \in 0..Word
                 /\ elapsed[c] \in 0..Word
      <3>1. irq[c].at \in {"off", "store", "walk", "eoi", "dead"}
        BY Basics DEF IInv, Handlers
      <3>2. irq[c].node \in 1..Len(nodes)
        BY DEF IInv, WalkInv, WalkOf
      <3>3. wait[c].start \in 0..(Word - 1) /\ wait[c].jiff \in 0..Word
        BY Basics DEF IInv, Waits, Words
      <3> QED
        BY <3>1, <3>2, <3>3 DEF IInv, TypeInv
    <2> QED
      BY <2>1, <2>2, <2>3, <2>4 DEF IInv, TypeInv, TypeOK
  <1> QED
    BY Inductive, <1>1, PTL

\* clock_run_hooks(): whatever the order of the stores of clock_hook(), a timer
\* interrupt that ends has called the functions hooked before it, in their order.
THEOREM Complete == Spec => []HooksComplete
  <1>1. IInv => HooksComplete
    <2> SUFFICES ASSUME IInv, NEW c \in Core, irq[c].at = "eoi"
                 PROVE  /\ irq[c].called = SubSeq(Hooks, 1, Len(irq[c].called))
                        /\ irq[c].due <= Len(irq[c].called)
      BY DEF HooksComplete
    <2>1. /\ Hooks \in Seq(STRING) /\ irq[c].called \in Seq(Code)
      BY ClockAssumption, Basics DEF IInv, Handlers
    <2>2. /\ irq[c].due <= Len(irq[c].called) /\ Len(irq[c].called) <= Len(Hooks)
          /\ \A k \in 1..Len(irq[c].called) : irq[c].called[k] = Hooks[k]
      BY DEF IInv, WalkInv, WalkOf
    <2>3. PICK n \in Nat : n = Len(irq[c].called) /\ n <= Len(Hooks)
      BY <2>1, <2>2
    <2>4. SubSeq(Hooks, 1, n) = [k \in 1..n |-> Hooks[k]]
      BY <2>1, <2>3
    <2>5. irq[c].called = [k \in 1..n |-> irq[c].called[k]]
      BY <2>1, <2>3
    <2> QED
      BY <2>2, <2>3, <2>4, <2>5
  <1> QED
    BY Inductive, <1>1, PTL

\* clock_hook(): outside it no timer interrupt meets a pointer nobody stored.
THEOREM Faults == Spec => FaultsOnlyInsideHook
  <1>1. IInv /\ [Next]_vars =>
           [\A c \in Core : irq'[c].at = "dead" /\ irq[c].at # "dead" => hook.todo # {}]_vars
    <2> SUFFICES ASSUME IInv, Next, NEW c \in Core, irq'[c].at = "dead", irq[c].at # "dead"
                 PROVE  hook.todo # {}
      OBVIOUS
    <2>1. irq \in [Core -> Handlers]
      BY DEF IInv, TypeInv
    <2>2. ASSUME UNCHANGED irq PROVE FALSE
      BY <2>2
    <2>3. CASE \E e \in Core : RunHooks(e)
      <3>1. PICK e \in Core : RunHooks(e)
        BY <2>3
      <3>2. e = c
        BY <2>1, <3>1 DEF RunHooks, Handler
      <3> QED
        BY <3>1, <3>2, RunHooksKeeps
    <2>4. ASSUME NEW e \in Core, NEW pit \in BOOLEAN, TickLoad(e, pit) PROVE FALSE
      BY <2>1, <2>4 DEF TickLoad, Handler, Off
    <2>5. ASSUME NEW e \in Core, TickStore(e) PROVE FALSE
      BY <2>1, <2>5 DEF TickStore, Handler, Handlers
    <2>6. ASSUME NEW e \in Core, Eoi(e) PROVE FALSE
      BY <2>1, <2>6 DEF Eoi, Handler, Off
    <2> QED
      BY <2>2, <2>3, <2>4, <2>5, <2>6 DEF Next, HookAlloc, HookStore, DelayStart, DelayEnd
  <1> QED
    BY Inductive, <1>1, PTL DEF Spec, FaultsOnlyInsideHook

\* delay(): with the PIT as the only timer no delay is too short, whatever the
\* number of values of a word and wherever jiffies wraps.
THEOREM LongEnough == Spec => DelayAtLeast
  <1>1. IInv /\ [Next]_vars => [\A c \in Core : apicOn = {} => LastsAsAsked(c)]_vars
    <2> SUFFICES ASSUME IInv, Next, NEW c \in Core, apicOn = {}, Returns(c)
                 PROVE  elapsed[c] + (IF c = 0 THEN 0 ELSE 1) >= wait[c].jiff
      BY DEF LastsAsAsked
    <2>1. thread[c] = "delay" /\ thread'[c] # "delay" /\ thread \in [Core -> {"idle", "delay", "halt"}]
      BY DEF Returns, IInv, TypeInv
    <2>2. (jiffies - wait[c].start) % Word >= wait[c].jiff
      <3>1. ASSUME NEW e \in Core, NEW d \in Delays, DelayStart(e, d) PROVE FALSE
        BY <2>1, <3>1 DEF DelayStart, Runs
      <3>2. ASSUME NEW e \in Core, NEW apic \in BOOLEAN, DelayEnd(e, apic) PROVE Over(c)
        BY <2>1, <3>2 DEF DelayEnd, Runs
      <3>3. ASSUME UNCHANGED thread PROVE FALSE
        BY SMTT(30), <2>1, <3>3
      <3>4. Over(c)
        BY <3>1, <3>2, <3>3 DEF Next, HookAlloc, HookStore, TickLoad, TickStore, RunHooks, Eoi
      <3> QED
        BY <3>4 DEF Over
    <2>3. ((jiffies - wait[c].start) % Word) + (IF irq[0].at = "store" THEN 1 ELSE 0)
              <= elapsed[c] + (IF c = 0 THEN 0 ELSE 1)
      BY <2>1 DEF IInv, DelayInv
    <2>4. /\ (jiffies - wait[c].start) % Word \in Int /\ wait[c].jiff \in Int /\ elapsed[c] \in Int
      <3>1. Word \in Nat \ {0} /\ jiffies \in 0..(Word - 1) /\ wait[c].start \in 0..(Word - 1)
            /\ wait[c].jiff \in 0..Word /\ elapsed[c] \in 0..Word
        BY Basics DEF IInv, TypeInv, Waits, Words
      <3> QED
        BY <3>1
    <2>5. (jiffies - wait[c].start) % Word <= elapsed[c] + (IF c = 0 THEN 0 ELSE 1)
      <3>1. CASE irq[0].at = "store"
        BY <2>3, <2>4, <3>1
      <3>2. CASE irq[0].at # "store"
        BY <2>3, <2>4, <3>2
      <3> QED
        BY <3>1, <3>2
    <2> QED
      BY <2>2, <2>4, <2>5
  <1> QED
    BY Inductive, <1>1, PTL DEF Spec, DelayAtLeast

-----------------------------------------------------------------------------
(* The real time clock                                                     *)

Dumping == {"timeDump", "firstDump", "dump"}

\* The types the argument needs.
Dumps ==
    now = [r \in Register |-> now[r]] /\ data = [r \in Register |-> data[r]]

RtcTypes ==
    /\ Dumps
    /\ uip \in BOOLEAN /\ clean \in BOOLEAN
    /\ pc \in Dumping \cup {"timeWait", "firstWait", "wait", "done"}
    /\ index \in 1..7 /\ quiet \in 0..Quiet
    /\ now \in seen

\* An update is announced only when enough dumps have passed; one that has come
\* in the middle of a dump makes them start from none.
UpdateInv ==
    /\ uip => quiet = Quiet
    /\ pc \in Dumping /\ ~clean => quiet = 0

\* What a dump that no update has interrupted has read so far.
ReadInv == pc \in Dumping /\ clean => \A r \in 1..(index - 1) : data[r] = now[r]

\* A whole dump since the last update holds what the clock shows.
WholeInv == pc = "wait" /\ quiet > 0 => data = now

\* The dump before this one: what the clock shows, or showed before the update
\* that came into this one.
PrevInv ==
    pc = "dump" =>
        /\ clean /\ quiet > 0 => prevData = now
        /\ ~clean => prevData \in seen

RtcInv == RtcTypes /\ UpdateInv /\ ReadInv /\ WholeInv /\ PrevInv /\ SnapshotWasTime

-----------------------------------------------------------------------------

LEMMA QuietNat == Quiet \in Nat \ {0}
  BY RtcAssumption

LEMMA RtcInitInductive == RtcInit => RtcInv
  <1> SUFFICES ASSUME RtcInit PROVE RtcInv
    OBVIOUS
  <1>1. Dumps
    <2>1. PICK s \in Starts : now = [r \in Register |-> Bcd(s[r])]
      BY DEF RtcInit
    <2>2. now = [r \in Register |-> now[r]]
      BY <2>1, Zenon
    <2>3. data = [r \in Register |-> data[r]]
      BY Zenon DEF RtcInit
    <2> QED
      BY <2>2, <2>3 DEF Dumps
  <1>2. RtcTypes
    <2>1. index \in 1..7 /\ quiet \in 0..Quiet /\ now \in seen
      BY QuietNat DEF RtcInit
    <2> QED
      BY <1>1, <2>1, Zenon DEF RtcInit, RtcTypes, Dumping
  <1>3. UpdateInv /\ ReadInv /\ WholeInv /\ PrevInv /\ SnapshotWasTime
    BY DEF RtcInit, UpdateInv, ReadInv, WholeInv, PrevInv, SnapshotWasTime, Dumping
  <1> QED
    BY <1>2, <1>3 DEF RtcInv

\* A dump that is over and was not interrupted is what the clock shows, also in
\* the number of quiet dumps.
LEMMA WholeDump ==
  ASSUME RtcInv, pc \in Dumping, DumpEnds(pc)
  PROVE  /\ clean => data = now
         /\ quiet' > 0 => data = now
         /\ quiet' \in 0..Quiet
         /\ uip => quiet' = Quiet
  <1>1. index = 7
    BY DEF RtcInv, RtcTypes, DumpEnds, Register
  <1>2. clean => data = now
    <2>1. SUFFICES ASSUME clean PROVE data = now
      OBVIOUS
    <2>2. \A r \in Register : data[r] = now[r]
      BY <1>1, <2>1 DEF RtcInv, ReadInv, Register
    <2> QED
      BY <2>2, Zenon DEF RtcInv, RtcTypes, Dumps
  <1>3. ~clean => quiet = 0 /\ quiet' = quiet
    BY DEF RtcInv, UpdateInv, DumpEnds
  <1>4. quiet' \in 0..Quiet /\ (uip => quiet' = Quiet)
    BY QuietNat DEF RtcInv, RtcTypes, UpdateInv, DumpEnds
  <1> QED
    BY <1>2, <1>3, <1>4

LEMMA RtcStepInductive == RtcInv /\ [RtcNext]_rtcVars => RtcInv'
  <1> SUFFICES ASSUME RtcInv, [RtcNext]_rtcVars PROVE RtcInv'
    OBVIOUS
  <1>1. CASE UpdateBegins
    BY <1>1 DEF UpdateBegins, RtcInv, RtcTypes, UpdateInv, ReadInv, WholeInv, PrevInv,
       SnapshotWasTime, Dumping, Dumps
  <1>2. CASE Update
    <2>1. Dumps' /\ now' \in seen' /\ seen \subseteq seen'
      <3>1. now' = [r \in Register |-> now'[r]]
        BY <1>2, Zenon DEF Update, Advance
      <3> QED
        BY <1>2, <3>1 DEF Update, RtcInv, RtcTypes, Dumps
    <2>2. RtcTypes'
      <3>1. quiet' \in 0..Quiet
        BY <1>2, QuietNat DEF Update
      <3> QED
        BY <1>2, <2>1, <3>1, Zenon DEF Update, RtcInv, RtcTypes
    <2>3. UpdateInv' /\ ReadInv' /\ WholeInv' /\ SnapshotWasTime'
      BY <1>2, <2>1, QuietNat DEF Update, RtcInv, RtcTypes, UpdateInv, ReadInv, WholeInv,
         SnapshotWasTime
    <2>4. PrevInv'
      BY <1>2, <2>1, QuietNat DEF Update, RtcInv, RtcTypes, UpdateInv, PrevInv, Dumping
    <2> QED
      BY <2>2, <2>3, <2>4 DEF RtcInv
  <1>3. CASE DumpBegins
    <2>1. pc' \in Dumping /\ (pc' = "dump" => pc = "wait")
      BY <1>3 DEF DumpBegins, DumpOf, Dumping
    <2>2. RtcTypes' /\ UpdateInv' /\ ReadInv' /\ WholeInv' /\ SnapshotWasTime'
      BY <1>3, <2>1 DEF DumpBegins, clock, RtcInv, RtcTypes, Dumps, UpdateInv, ReadInv,
         WholeInv, SnapshotWasTime, Dumping
    <2>3. PrevInv'
      BY <1>3, <2>1 DEF DumpBegins, clock, RtcInv, WholeInv, PrevInv
    <2> QED
      BY <2>2, <2>3 DEF RtcInv
  <1>4. CASE Read
    <2>1. RtcTypes'
      <3>1. Dumps'
        <4>1. data' = [r \in Register |-> data'[r]]
          BY <1>4, Zenon DEF Read, RtcInv, RtcTypes, Dumps
        <4> QED
          BY <1>4, <4>1 DEF Read, clock, RtcInv, RtcTypes, Dumps
      <3>2. index' \in 1..7
        BY <1>4 DEF Read, Register
      <3> QED
        BY <1>4, <3>1, <3>2 DEF Read, clock, RtcInv, RtcTypes
    <2>2. ReadInv'
      <3>1. SUFFICES ASSUME pc \in Dumping, clean, NEW r \in 1..index
                     PROVE  data'[r] = now[r]
        BY <1>4 DEF Read, clock, ReadInv, RtcInv, RtcTypes, Register
      <3>2. r \in Register /\ data'[r] = IF r = index THEN now[index] ELSE data[r]
        BY <1>4 DEF Read, RtcInv, RtcTypes, Dumps, Register
      <3>3. r # index => data[r] = now[r]
        BY <1>4, <3>1 DEF Read, RtcInv, RtcTypes, ReadInv, Register
      <3> QED
        BY <3>2, <3>3
    <2>3. UpdateInv' /\ WholeInv' /\ PrevInv' /\ SnapshotWasTime'
      BY <1>4 DEF Read, clock, RtcInv, UpdateInv, WholeInv, PrevInv, SnapshotWasTime, Dumping
    <2> QED
      BY <2>1, <2>2, <2>3 DEF RtcInv
  <1>5. CASE CmosTime
    <2>1. pc \in Dumping /\ DumpEnds(pc)
      BY <1>5 DEF CmosTime, DumpEnds, Dumping
    <2> QED
      BY <1>5, <2>1, WholeDump DEF CmosTime, DumpEnds, clock, RtcInv, RtcTypes, UpdateInv,
         ReadInv, WholeInv, PrevInv, SnapshotWasTime, Dumping, Dumps
  <1>6. CASE CmosUpdated
    <2>1. pc \in Dumping /\ DumpEnds(pc)
      BY <1>6 DEF CmosUpdated, DumpEnds, Dumping
    <2> QED
      BY <1>6, <2>1, WholeDump DEF CmosUpdated, DumpEnds, clock, RtcInv, RtcTypes, UpdateInv,
         ReadInv, WholeInv, PrevInv, SnapshotWasTime, Dumping, Dumps
  <1>7. CASE Compare
    <2>1. pc \in Dumping /\ DumpEnds(pc) /\ pc' \in {"wait", "done"}
      BY <1>7 DEF Compare, DumpEnds, Dumping
    <2> quiet' \in 0..Quiet /\ (uip => quiet' = Quiet) /\ (quiet' > 0 => data = now)
      BY <2>1, WholeDump
    <2>2. RtcTypes' /\ UpdateInv' /\ ReadInv' /\ WholeInv' /\ PrevInv'
      <3>1. pc' \notin Dumping /\ UNCHANGED <<clock, clean, index, data, seen>>
        BY <1>7, <2>1 DEF Compare, DumpEnds, Dumping
      <3>2. RtcTypes'
        BY <2>1, <3>1 DEF clock, RtcInv, RtcTypes, Dumps
      <3>3. UpdateInv' /\ ReadInv' /\ WholeInv' /\ PrevInv'
        BY <3>1 DEF clock, UpdateInv, ReadInv, WholeInv, PrevInv, Dumping
      <3> QED
        BY <3>2, <3>3
    <2>3. pc' = "done" => data \in seen
      <3>1. pc' = "done" => prevData = data
        BY <1>7 DEF Compare
      <3>2. ~clean => prevData \in seen
        BY <1>7 DEF Compare, DumpEnds, RtcInv, PrevInv
      <3>3. clean => data \in seen
        BY <2>1, WholeDump DEF RtcInv, RtcTypes
      <3> QED
        BY <3>1, <3>2, <3>3
    <2>4. SnapshotWasTime'
      BY <1>7, <2>3 DEF Compare, DumpEnds, SnapshotWasTime
    <2> QED
      BY <2>2, <2>4 DEF RtcInv
  <1>8. CASE UNCHANGED rtcVars
    BY <1>8 DEF rtcVars, RtcInv, RtcTypes, Dumps, UpdateInv, ReadInv, WholeInv, PrevInv, SnapshotWasTime
  <1> QED
    BY <1>1, <1>2, <1>3, <1>4, <1>5, <1>6, <1>7, <1>8 DEF RtcNext, Step

\* cmos_to_unix(): two dumps that agree are a time of the call, for every clock,
\* every calendar and every number of dumps between two updates.
THEOREM SnapshotCorrect == RtcSpec => []SnapshotWasTime
  <1>1. RtcInv => SnapshotWasTime
    BY DEF RtcInv
  <1> QED
    BY RtcInitInductive, RtcStepInductive, <1>1, PTL DEF RtcSpec

-----------------------------------------------------------------------------
(* The conversion                                                          *)

\* Registers that hold numbers, and a year of two digits.
Dates == {s \in [Register -> Nat] : CmosGet(Year, s) \in 0..99}

\* The leap years up to y.
LeapYears(y) == y \div 4 - y \div 100 + y \div 400

\* The days from 1970 to the end of y; 477 leap years were before.
DaysTo(y) == (y - 1969) * 365 + LeapYears(y) - 477

LEMMA OneYear ==
  ASSUME NEW y \in 1970..2100
  PROVE  LeapYearsCorrection(DaysTo(y - 1) + 365, y) = DaysTo(y)
  <1>1. (y % 4 # 0 \/ (y % 100 = 0 /\ y % 400 # 0)) => LeapYears(y) = LeapYears(y - 1)
    BY DEF LeapYears
  <1>2. ~(y % 4 # 0 \/ (y % 100 = 0 /\ y % 400 # 0)) => LeapYears(y) = LeapYears(y - 1) + 1
    BY DEF LeapYears
  <1>3. LeapYears(y) \in Int /\ LeapYears(y - 1) \in Int
    BY DEF LeapYears
  <1> QED
    BY <1>1, <1>2, <1>3 DEF DaysTo, LeapYearsCorrection

\* The loop over the years adds up to the calendar's days, for every year of the clock.
LEMMA AllYears ==
  ASSUME NEW year \in 0..99
  PROVE  SecsSinceEpoch(year - 1) = DaysTo(year + 1999) * 86400
  <1> DEFINE Sum(days, y) == IF y = 1969 THEN 0 ELSE LeapYearsCorrection(days[y - 1] + 365, y)
             Sums(days) == days = [y \in 1969..2100 |-> Sum(days, y)]
             f == [y \in 1969..2100 |-> DaysTo(y)]
             chosen == CHOOSE days : Sums(days)
  <1>0. DaysTo(1969) = 0
    BY DEF DaysTo, LeapYears
  <1>1. f = [y \in 1969..2100 |-> Sum(f, y)]
    <2>1. ASSUME NEW y \in 1969..2100 PROVE f[y] = Sum(f, y)
      <3>1. CASE y = 1969
        BY <1>0, <3>1
      <3>2. CASE y # 1969
        <4>1. y \in 1970..2100 /\ y - 1 \in 1969..2100
          BY <3>2
        <4> QED
          BY <3>2, <4>1, OneYear
      <3> QED
        BY <3>1, <3>2
    <2>2. f = [y \in 1969..2100 |-> f[y]]
      OBVIOUS
    <2> DEFINE g == [y \in 1969..2100 |-> Sum(f, y)]
    <2>3. \A y \in 1969..2100 : f[y] = g[y]
      BY <2>1
    <2>4. g = [y \in 1969..2100 |-> g[y]]
      OBVIOUS
    <2> HIDE DEF f, g
    <2>5. f = g
      BY <2>2, <2>3, <2>4
    <2> QED
      BY <2>5 DEF g
  <1>2. Sums(chosen)
    <2> HIDE DEF f, Sum
    <2>0. PICK h : h = f
      OBVIOUS
    <2>1. h = [y \in 1969..2100 |-> Sum(h, y)]
      BY <1>1, <2>0
    <2>2. \E days : Sums(days)
      BY <2>1
    <2> HIDE DEF Sums
    <2> QED
      BY <2>2
  <1>3. SecsSinceEpoch(year - 1) = chosen[(year - 1) + 2000] * 86400
    BY DEF SecsSinceEpoch
  <1> HIDE DEF chosen
  <1>4. chosen[1969] = 0
    BY <1>2
  <1>5. ASSUME NEW y \in 1970..2100 PROVE chosen[y] = LeapYearsCorrection(chosen[y - 1] + 365, y)
    <2>1. y \in 1969..2100 /\ y # 1969
      OBVIOUS
    <2>2. chosen[y] = Sum(chosen, y)
      <3> HIDE DEF Sum
      <3> QED
        BY <1>2, <2>1
    <2> QED
      BY <2>1, <2>2
  <1> HIDE DEF Sums, Sum
  <1> DEFINE T == {k \in 0..131 : chosen[1969 + k] = DaysTo(1969 + k)}
  <1>6. 0 \in T
    BY <1>0, <1>4
  <1>7. ASSUME NEW k \in 0..(131 - 1), k \in T PROVE k + 1 \in T
    <2>1. 1969 + (k + 1) \in 1970..2100 /\ (1969 + (k + 1)) - 1 = 1969 + k /\ k + 1 \in 0..131
      OBVIOUS
    <2> DEFINE y == 1969 + (k + 1)
    <2>2. chosen[y] = LeapYearsCorrection(chosen[y - 1] + 365, y)
      BY <1>5, <2>1
    <2>3. chosen[y - 1] = DaysTo(y - 1)
      BY <1>7, <2>1
    <2>4. chosen[y] = DaysTo(y)
      BY <2>1, <2>2, <2>3, OneYear
    <2> QED
      BY <2>1, <2>4
  <1>8. year + 30 \in T
    <2> HIDE DEF T
    <2>1. 0..131 \subseteq T
      BY <1>6, <1>7, UpTo
    <2> QED
      BY <2>1
  <1>9. (year - 1) + 2000 = 1969 + (year + 30) /\ year + 1999 = 1969 + (year + 30)
    OBVIOUS
  <1> QED
    BY <1>3, <1>8, <1>9

LEMMA MonthLengths ==
  ASSUME NEW m \in 1..12, NEW y PROVE DaysIn(m, y) \in Nat /\ DaysIn(1, y) = 31
  <1>1. DaysOfMonth \in Seq(Nat) /\ Len(DaysOfMonth) = 12 /\ DaysOfMonth[1] = 31
    BY DEF DaysOfMonth
  <1>2. DaysOfMonth[m] \in Nat
    BY <1>1, ElementOfSeq
  <1> QED
    BY <1>1, <1>2 DEF DaysIn

\* What UnixTime adds for the months before February.
LEMMA FirstMonth ==
  ASSUME NEW s \in Dates, CmosGet(Month, s) = 2
  PROVE  UnixTime(s) = (DaysTo(CmosGet(Year, s) + 1999) + 31 + CmosGet(Day, s) - 1) * 86400
                       + CmosGet(Hour, s) * 3600 + CmosGet(Minute, s) * 60 + CmosGet(Second, s)
  <1> DEFINE y == CmosGet(Year, s)
             G == [x \in Nat \X (1..11) |-> x[1] + DaysIn(x[2], y)]
             Sum(before, m) == IF m = 0 THEN 0 ELSE before[m - 1] + DaysIn(m, y)
             Sums(before) == before = [m \in 0..11 |-> Sum(before, m)]
             chosen == CHOOSE before : Sums(before)
  <1>1. \A x \in Nat, m \in 1..11 : G[<<x, m>>] = x + DaysIn(m, y) /\ G[<<x, m>>] \in Nat
    <2>1. \A m \in 1..11 : DaysIn(m, y) \in Nat
      <3> HIDE DEF y
      <3> QED
        BY MonthLengths
    <2> HIDE DEF y
    <2> QED
      BY <2>1
  <1>2. PICK f \in [0..11 -> Nat] : f[0] = 0 /\ \A m \in 1..11 : f[m] = G[<<f[m - 1], m>>]
    <2> HIDE DEF y, G
    <2>1. \E f : IsRun(f, Nat, 0, G, 11)
      BY <1>1, Iterated
    <2> QED
      BY <2>1 DEF IsRun
  <1>3. Sums(f)
    <2> HIDE DEF G, y
    <2>1. ASSUME NEW m \in 0..11 PROVE f[m] = Sum(f, m)
      <3>1. CASE m = 0
        BY <1>2, <3>1
      <3>2. CASE m # 0
        <4>1. m \in 1..11 /\ m - 1 \in 0..11
          BY <3>2
        <4>2. f[m] = f[m - 1] + DaysIn(m, y)
          BY <1>1, <1>2, <4>1
        <4> QED
          BY <3>2, <4>2
      <3> QED
        BY <3>1, <3>2
    <2>2. f = [m \in 0..11 |-> f[m]]
      OBVIOUS
    <2> HIDE DEF Sum
    <2> QED
      BY <2>1, <2>2
  <1>4. Sums(chosen)
    <2> HIDE DEF Sums
    <2> QED
      BY <1>3
  <1>5. UnixTime(s) = (((y + 2000) - 1970) * 365 + (((y + 2000) - 1) \div 4 - ((y + 2000) - 1) \div 100 + ((y + 2000) - 1) \div 400)
                        - 477 + chosen[CmosGet(Month, s) - 1] + CmosGet(Day, s) - 1) * 86400
                       + CmosGet(Hour, s) * 3600 + CmosGet(Minute, s) * 60 + CmosGet(Second, s)
    BY DEF UnixTime
  <1> HIDE DEF chosen
  <1>6. chosen[0] = 0 /\ chosen[1] = chosen[0] + DaysIn(1, y)
    <2>1. chosen[0] = Sum(chosen, 0) /\ chosen[1] = Sum(chosen, 1)
      <3> HIDE DEF Sum
      <3> QED
        BY <1>4
    <2> QED
      BY <2>1
  <1>7. chosen[CmosGet(Month, s) - 1] = 31
    <2>1. DaysIn(1, y) = 31
      BY MonthLengths
    <2> QED
      BY <1>6, <2>1
  <1>8. y \in 0..99
    BY DEF Dates
  <1> HIDE DEF y
  <1>9. (y + 2000) - 1970 = (y + 1999) - 1969 /\ (y + 2000) - 1 = y + 1999
    BY <1>8
  <1> QED
    BY <1>5, <1>7, <1>9 DEF DaysTo, LeapYears, y

LEMMA RegistersAreNat ==
  ASSUME NEW s \in Dates, NEW r \in Register
  PROVE  CmosGet(r, s) \in Nat
  BY DEF Dates, CmosGet, BcdToBin

\* The one month that the conversion gets right.
LEMMA February ==
  ASSUME NEW s \in Dates, CmosGet(Month, s) = 2, NEW t \in UnixTimestamps(s)
  PROVE  t = UnixTime(s)
  <1> DEFINE y == CmosGet(Year, s)
             d == CmosGet(Day, s)
             n == DaysTo(y + 1999)
             rest == CmosGet(Hour, s) * 3600 + CmosGet(Minute, s) * 60 + CmosGet(Second, s)
  <1>1. y \in 0..99 /\ d \in Nat /\ CmosGet(Hour, s) \in Nat /\ CmosGet(Minute, s) \in Nat /\ CmosGet(Second, s) \in Nat
    BY RegistersAreNat DEF Dates, Register, Day, Hour, Minute, Second
  <1>2. SecsInMonth(1, y) = {31 * 86400}
    <2>1. DaysOfMonth[1] = 31
      BY DEF DaysOfMonth
    <2> QED
      BY <2>1 DEF SecsInMonth
  <1>3. CmosGet(Month, s) - 1 = 1
    OBVIOUS
  <1>4. t = SecsSinceEpoch(y - 1) + 31 * 86400 + (d - 1) * 86400 + CmosGet(Hour, s) * 3600
            + CmosGet(Minute, s) * 60 + CmosGet(Second, s)
    BY <1>2, <1>3 DEF UnixTimestamps
  <1>5. SecsSinceEpoch(y - 1) = n * 86400
    BY <1>1, AllYears
  <1>6. UnixTime(s) = (n + 31 + d - 1) * 86400 + CmosGet(Hour, s) * 3600
                      + CmosGet(Minute, s) * 60 + CmosGet(Second, s)
    BY FirstMonth
  <1>7. n \in Int
    BY <1>1 DEF DaysTo, LeapYears
  <1> HIDE DEF y, d, n
  <1> QED
    BY <1>1, <1>4, <1>5, <1>6, <1>7

-----------------------------------------------------------------------------

LEMMA BcdBack == ASSUME NEW v \in 0..99 PROVE BcdToBin(Bcd(v)) = v /\ Bcd(v) \in Nat
  <1>1. PICK q \in 0..9, m \in 0..9 : q = v \div 10 /\ m = v % 10 /\ v = q * 10 + m
    OBVIOUS
  <1>2. Bcd(v) = q * 16 + m
    BY <1>1 DEF Bcd
  <1>3. (q * 16 + m) \div 16 = q /\ (q * 16 + m) % 16 = m
    OBVIOUS
  <1> QED
    BY <1>1, <1>2, <1>3 DEF BcdToBin

LEMMA BcdNat == ASSUME NEW v \in Nat PROVE Bcd(v) \in Nat
  BY DEF Bcd

LEMMA AdvanceDate == ASSUME NEW s \in Dates PROVE Advance(s) \in Dates
  <1> DEFINE v == [r \in Register |-> CmosGet(r, s)]
             first == <<0, 0, 0, 1, 1, 0>>
             last == <<59, 59, 23, DaysIn(v[Month], v[Year]), 12, 99>>
             over == {r \in Register : \A q \in 1..r : v[q] = last[q]}
             Moved(r) == IF r \in over THEN Bcd(first[r])
                         ELSE IF \A q \in 1..(r - 1) : q \in over THEN Bcd(v[r] + 1)
                         ELSE s[r]
  <1>1. Advance(s) = [r \in Register |-> Moved(r)]
    BY DEF Advance
  <1>2. \A r \in Register : v[r] \in Nat /\ first[r] \in Nat /\ s[r] \in Nat
    <2>1. \A r \in Register : v[r] \in Nat
      BY RegistersAreNat
    <2>2. \A r \in Register : first[r] \in Nat
      BY DEF Register
    <2>3. \A r \in Register : s[r] \in Nat
      BY DEF Dates
    <2> QED
      BY <2>1, <2>2, <2>3
  <1>3. Year \in Register /\ v[Year] \in 0..99 /\ first[Year] = 0 /\ last[Year] = 99
    BY DEF Dates, Register, Year
  <1>4. Year \notin over /\ (\A q \in 1..(Year - 1) : q \in over) => v[Year] # 99
    <2> SUFFICES ASSUME \A q \in 1..(Year - 1) : q \in over, v[Year] = 99 PROVE Year \in over
      OBVIOUS
    <2>1. \A q \in 1..5 : v[q] = last[q]
      <3>1. \A q \in 1..5 : q \in over /\ q \in 1..q
        BY DEF Year
      <3> HIDE DEF v, last
      <3> QED
        BY <3>1
    <2>2. \A q \in 1..6 : v[q] = last[q]
      <3>1. v[6] = 99 /\ last[6] = 99
        BY <1>3 DEF Year
      <3> HIDE DEF v, last
      <3> QED
        BY <2>1, <3>1
    <2> HIDE DEF v, last
    <2> QED
      BY <1>3, <2>2 DEF Year
  <1> HIDE DEF v, first, last, over
  <1>5. \A r \in Register : Moved(r) \in Nat
    BY <1>2, BcdNat
  <1>6. Moved(Year) \in {Bcd(w) : w \in 0..99} \cup {s[Year]}
    <2>1. CASE Year \in over
      BY <1>3, <2>1
    <2>2. CASE Year \notin over /\ \A q \in 1..(Year - 1) : q \in over
      <3>1. v[Year] + 1 \in 0..99
        BY <1>3, <1>4, <2>2
      <3> QED
        BY <2>2, <3>1
    <2>3. CASE Year \notin over /\ ~(\A q \in 1..(Year - 1) : q \in over)
      BY <2>3
    <2> QED
      BY <2>1, <2>2, <2>3
  <1>7. BcdToBin(Moved(Year)) \in 0..99
    <2>1. CASE Moved(Year) = s[Year]
      BY <2>1 DEF Dates, CmosGet
    <2>2. CASE Moved(Year) \in {Bcd(w) : w \in 0..99}
      <3>1. PICK w \in 0..99 : Moved(Year) = Bcd(w)
        BY <2>2
      <3> QED
        BY <3>1, BcdBack
    <2> QED
      BY <1>6, <2>1, <2>2
  <1> HIDE DEF Moved
  <1> QED
    BY <1>1, <1>3, <1>5, <1>7 DEF Dates, CmosGet

\* The clock shows dates, and the result is the conversion of the last dump.
DateInv ==
    /\ now \in Dates /\ \A s \in seen : s \in Dates
    /\ pc = "done" => timestamp \in UnixTimestamps(data)

LEMMA DatesFirst == RtcInit => DateInv
  <1> SUFFICES ASSUME RtcInit PROVE DateInv
    OBVIOUS
  <1>1. PICK s \in Starts : now = [r \in Register |-> Bcd(s[r])]
    BY DEF RtcInit
  <1>2. s \in Seq(0..99) /\ Len(s) = 6
    BY RtcAssumption
  <1>3. \A r \in Register : s[r] \in 0..99
    BY <1>2, ElementOfSeq DEF Register
  <1>4. now \in [Register -> Nat]
    BY <1>1, <1>3, BcdBack
  <1>5. CmosGet(Year, now) \in 0..99
    <2>1. Year \in Register
      BY DEF Year, Register
    <2> QED
      BY <1>1, <1>3, <2>1, BcdBack DEF CmosGet
  <1> QED
    BY <1>4, <1>5 DEF Dates, RtcInit, DateInv

LEMMA DatesNext == DateInv /\ [RtcNext]_rtcVars => DateInv'
  <1> SUFFICES ASSUME DateInv, [RtcNext]_rtcVars PROVE DateInv'
    OBVIOUS
  <1> USE DEF DateInv
  <1>1. CASE UpdateBegins
    BY <1>1 DEF UpdateBegins
  <1>2. CASE Update
    BY <1>2, AdvanceDate DEF Update
  <1>3. CASE DumpBegins
    BY <1>3 DEF DumpBegins, DumpOf, clock
  <1>4. CASE Read
    BY <1>4 DEF Read, clock
  <1>5. CASE CmosTime
    BY <1>5 DEF CmosTime, DumpEnds, clock
  <1>6. CASE CmosUpdated
    BY <1>6 DEF CmosUpdated, DumpEnds, clock
  <1>7. CASE Compare
    BY <1>7 DEF Compare, DumpEnds, clock
  <1>8. CASE UNCHANGED rtcVars
    BY <1>8 DEF rtcVars
  <1> QED
    BY <1>1, <1>2, <1>3, <1>4, <1>5, <1>6, <1>7, <1>8 DEF RtcNext, Step

\* cmos_get_unix_timestamp(): in February the result is the Unix time of a moment of
\* the call, in every year of the clock.
THEOREM FebruaryExact == RtcSpec => []ExactInFebruary
  <1>1. DateInv /\ SnapshotWasTime => ExactInFebruary
    BY February DEF DateInv, SnapshotWasTime, ExactInFebruary
  <1> QED
    BY DatesFirst, DatesNext, SnapshotCorrect, <1>1, PTL DEF RtcSpec
=============================================================================
