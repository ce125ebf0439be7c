----------------------------- MODULE LockProofs -----------------------------
(***************************************************************************)
(* Proofs about the processors.  Their spin locks: mutual exclusion, no    *)
(* self deadlock, no cycle of waiting cores and uninterrupted leaf         *)
(* sections, for any number of cores and any acyclic lock graph.  Their    *)
(* start: types for every MADT, and the separation of the processors for   *)
(* every MADT that lists the BSP first, under one number for its processor *)
(* and its LAPIC.                                                          *)
(***************************************************************************)
EXTENDS Lock, SmpBoot, Induction, FiniteSetTheorems, TLAPS

\* Sections are nested: of two mutexes that a context holds, the outer one has
\* the greater rank and is not a leaf.
NestInv ==
    \A x \in Ctx : \A m, o \in held[x] :
        m # o => \/ Rank[m] < Rank[o] /\ ~Leaf(o)
                 \/ Rank[o] < Rank[m] /\ ~Leaf(m)

\* A context spins for a mutex that is inner to all it holds.
SpinInv ==
    \A x \in Ctx : pc[x] = "spin" =>
        /\ want[x] \in Mutex
        /\ \A o \in held[x] : Rank[want[x]] < Rank[o] /\ ~Leaf(o)

\* The timer handler takes SwitchLock and nothing else, and holds it only while
\* it runs; the threads never take it.
IrqInv ==
    \A c \in Core :
        /\ SwitchLock \notin held[<<c, "thread">>]
        /\ want[<<c, "thread">>] # SwitchLock
        /\ pc[<<c, "thread">>] # "entry"
        /\ held[<<c, "irq">>] \subseteq {SwitchLock}
        /\ pc[<<c, "irq">>] \in {"entry", "spin"} => held[<<c, "irq">>] = {}
        /\ pc[<<c, "irq">>] = "spin" => want[<<c, "irq">>] = SwitchLock
        /\ cur[c] = "irq" => inService[c]
        /\ cur[c] = "thread" => held[<<c, "irq">>] = {} /\ pc[<<c, "irq">>] = "run"

\* A thread that spins, that is in the shadow of sti or that is inside a leaf
\* section has not been interrupted.
FlagInv ==
    \A c \in Core :
        LET x == <<c, "thread">> IN
        /\ pc[x] = "spin" => cur[c] = "thread" /\ ~iflag[c]
        /\ pc[x] = "shadow" => cur[c] = "thread"
        /\ \A m \in held[x] : Leaf(m) =>
              \/ pc[x] = "run" /\ cur[c] = "thread" /\ ~iflag[c]
              \/ pc[x] = "shadow" /\ Innermost(x, m)

IInv == TypeOK /\ MutualExclusion /\ NestInv /\ SpinInv /\ IrqInv /\ FlagInv
-----------------------------------------------------------------------------
\* The contexts of a core are contexts, and every context is one of a core.
LEMMA CtxFacts ==
    /\ \A c \in Core : <<c, "thread">> \in Ctx /\ <<c, "irq">> \in Ctx
    /\ \A x \in Ctx : \E c \in Core : x = <<c, "thread">> \/ x = <<c, "irq">>
    /\ \A c, d \in Core : <<c, "thread">> # <<d, "irq">>
    /\ \A c, d \in Core : c # d => /\ <<c, "thread">> # <<d, "thread">>
                                  /\ <<c, "irq">> # <<d, "irq">>
BY DEF Ctx

\* The initial state satisfies the inductive invariant.
LEMMA InitIInv == Init => IInv
BY ZenonT(40), LockAssumption, CtxFacts
   DEF Init, IInv, TypeOK, MutualExclusion, NestInv, SpinInv, IrqInv, FlagInv

\* A core that is not gone executes one of its two contexts.
LEMMA NowCtx ==
    ASSUME TypeOK, NEW c \in Core, cur[c] # "gone"
    PROVE  /\ Now(c) \in Ctx
           /\ \/ cur[c] = "thread" /\ Now(c) = <<c, "thread">>
              \/ cur[c] = "irq" /\ Now(c) = <<c, "irq">>
<1>1. cur[c] = "thread" \/ cur[c] = "irq"
    BY DEF TypeOK
<1>2. CASE cur[c] = "thread"
    <2>1. Now(c) = <<c, "thread">>
        BY <1>2 DEF Now
    <2> QED
        BY <1>2, <2>1, CtxFacts
<1>3. CASE cur[c] = "irq"
    <2>1. Now(c) = <<c, "irq">>
        BY <1>3 DEF Now
    <2> QED
        BY <1>3, <2>1, CtxFacts
<1> QED
    BY <1>1, <1>2, <1>3

\* What Acquire does, said of the context that takes the mutex.
LEMMA AcquireFacts ==
    ASSUME TypeOK, SpinInv, NEW c \in Core, Acquire(c)
    PROVE  \E x \in Ctx, w \in Mutex :
              /\ \/ cur[c] = "thread" /\ x = <<c, "thread">>
                 \/ cur[c] = "irq" /\ x = <<c, "irq">>
              /\ pc[x] = "spin" /\ w = want[x] /\ mutex[w] = 0
              /\ mutex' = [mutex EXCEPT ![w] = 1]
              /\ held' = [held EXCEPT ![x] = held[x] \cup {w}]
              /\ want' = [want EXCEPT ![x] = NoMutex]
              /\ pc' = [pc EXCEPT ![x] = "run"]
              /\ UNCHANGED <<iflag, inService, cur>>
<1> DEFINE x == Now(c)
<1>1. /\ x \in Ctx
      /\ \/ cur[c] = "thread" /\ x = <<c, "thread">>
         \/ cur[c] = "irq" /\ x = <<c, "irq">>
    BY NowCtx DEF Acquire
<1>2. /\ pc[x] = "spin" /\ mutex[want[x]] = 0
      /\ mutex' = [mutex EXCEPT ![want[x]] = 1]
      /\ held' = [held EXCEPT ![x] = held[x] \cup {want[x]}]
      /\ want' = [want EXCEPT ![x] = NoMutex]
      /\ pc' = [pc EXCEPT ![x] = "run"]
      /\ UNCHANGED <<iflag, inService, cur>>
    BY DEF Acquire
<1>3. want[x] \in Mutex
    BY <1>1, <1>2 DEF SpinInv
<1> HIDE DEF x
<1> QED
    BY <1>1, <1>2, <1>3

\* What Release does, said of the context and of the mutex it frees.
LEMMA ReleaseFacts ==
    ASSUME TypeOK, NEW c \in Core, Release(c)
    PROVE  \E x \in Ctx, m \in Mutex :
              /\ \/ cur[c] = "thread" /\ x = <<c, "thread">>
                 \/ cur[c] = "irq" /\ x = <<c, "irq">>
              /\ pc[x] \in {"shadow", "release"}
              /\ m \in held[x] /\ \A o \in held[x] : Rank[m] <= Rank[o]
              /\ mutex' = [mutex EXCEPT ![m] = 0]
              /\ held' = [held EXCEPT ![x] = held[x] \ {m}]
              /\ pc' = [pc EXCEPT ![x] = "run"]
              /\ UNCHANGED <<iflag, inService, cur, want>>
<1> DEFINE x == Now(c)
<1>1. /\ x \in Ctx
      /\ \/ cur[c] = "thread" /\ x = <<c, "thread">>
         \/ cur[c] = "irq" /\ x = <<c, "irq">>
    BY NowCtx DEF Release
<1>2. PICK m \in held[x] :
         /\ \A o \in held[x] : Rank[m] <= Rank[o]
         /\ mutex' = [mutex EXCEPT ![m] = 0]
         /\ held' = [held EXCEPT ![x] = held[x] \ {m}]
    BY DEF Release, Innermost
<1>3. /\ pc[x] \in {"shadow", "release"}
      /\ pc' = [pc EXCEPT ![x] = "run"]
      /\ UNCHANGED <<iflag, inService, cur, want>>
    BY DEF Release
<1> HIDE DEF x
<1>4. m \in Mutex
    BY <1>1, <1>2 DEF TypeOK
<1> QED
    BY <1>1, <1>2, <1>3, <1>4

\* Every step keeps the variables in their types.
LEMMA StepType == TypeOK /\ SpinInv /\ [Next]_vars => TypeOK'
<1> SUFFICES ASSUME TypeOK, SpinInv, [Next]_vars PROVE TypeOK'
    OBVIOUS
<1>1. ASSUME NEW c \in Core, NEW m \in Mutex, CallLock(c, m) PROVE TypeOK'
    BY <1>1 DEF CallLock, TypeOK
<1>2. ASSUME NEW c \in Core, Acquire(c) PROVE TypeOK'
    <2>1. PICK x \in Ctx, w \in Mutex :
             /\ mutex' = [mutex EXCEPT ![w] = 1]
             /\ held' = [held EXCEPT ![x] = held[x] \cup {w}]
             /\ want' = [want EXCEPT ![x] = NoMutex]
             /\ pc' = [pc EXCEPT ![x] = "run"]
             /\ UNCHANGED <<iflag, inService, cur>>
        BY <1>2, AcquireFacts
    <2> QED
        BY <2>1 DEF TypeOK
<1>3. ASSUME NEW c \in Core, CallUnlock(c) PROVE TypeOK'
    BY <1>3 DEF CallUnlock, TypeOK
<1>4. ASSUME NEW c \in Core, Release(c) PROVE TypeOK'
    <2>1. PICK x \in Ctx, m \in Mutex :
             /\ mutex' = [mutex EXCEPT ![m] = 0]
             /\ held' = [held EXCEPT ![x] = held[x] \ {m}]
             /\ pc' = [pc EXCEPT ![x] = "run"]
             /\ UNCHANGED <<iflag, inService, cur, want>>
        BY <1>4, ReleaseFacts
    <2> QED
        BY <2>1 DEF TypeOK
<1>5. ASSUME NEW c \in Core, Tick(c) PROVE TypeOK'
    BY <1>5 DEF Tick, TypeOK
<1>6. ASSUME NEW c \in Core, IrqReturn(c) PROVE TypeOK'
    BY <1>6 DEF IrqReturn, TypeOK
<1>7. ASSUME NEW c \in Core, SwitchToUser(c) PROVE TypeOK'
    BY <1>7 DEF SwitchToUser, TypeOK
<1>8. CASE UNCHANGED vars
    BY <1>8 DEF vars, TypeOK
<1> QED
    BY <1>1, <1>2, <1>3, <1>4, <1>5, <1>6, <1>7, <1>8 DEF Next

\* Every step keeps the mutexes exclusive.
LEMMA StepExclusion == TypeOK /\ SpinInv /\ MutualExclusion /\ [Next]_vars
                           => MutualExclusion'
<1> SUFFICES ASSUME TypeOK, SpinInv, MutualExclusion, [Next]_vars
             PROVE  MutualExclusion'
    OBVIOUS
<1>1. ASSUME NEW c \in Core, Acquire(c) PROVE MutualExclusion'
    <2>1. PICK x \in Ctx, w \in Mutex :
             /\ mutex[w] = 0
             /\ mutex' = [mutex EXCEPT ![w] = 1]
             /\ held' = [held EXCEPT ![x] = held[x] \cup {w}]
        BY <1>1, AcquireFacts
    <2>2. \A y \in Ctx : w \notin held[y]
        BY <2>1 DEF MutualExclusion
    <2> QED
        BY <2>1, <2>2 DEF MutualExclusion, TypeOK
<1>2. ASSUME NEW c \in Core, Release(c) PROVE MutualExclusion'
    <2>1. PICK x \in Ctx, m \in Mutex :
             /\ m \in held[x]
             /\ mutex' = [mutex EXCEPT ![m] = 0]
             /\ held' = [held EXCEPT ![x] = held[x] \ {m}]
        BY <1>2, ReleaseFacts
    <2>2. \A y \in Ctx : m \notin held'[y]
        BY <2>1 DEF MutualExclusion, TypeOK
    <2> QED
        BY <2>1, <2>2 DEF MutualExclusion, TypeOK
<1>3. ASSUME UNCHANGED <<mutex, held>> PROVE MutualExclusion'
    BY <1>3 DEF MutualExclusion
<1> QED
    BY <1>1, <1>2, <1>3 DEF Next, vars, CallLock, CallUnlock, Tick, IrqReturn,
       SwitchToUser
-----------------------------------------------------------------------------
\* What a lock() call does, said of the context that makes it.
LEMMA CallLockFacts ==
    ASSUME TypeOK, NEW c \in Core, NEW m \in Mutex, CallLock(c, m)
    PROVE  \E x \in Ctx :
              /\ \/ /\ cur[c] = "thread" /\ x = <<c, "thread">> /\ pc[x] = "run"
                    /\ m # SwitchLock
                    /\ \/ held[x] = {}
                       \/ \E o \in held[x] : Innermost(x, o) /\ <<o, m>> \in Calls
                 \/ /\ cur[c] = "irq" /\ x = <<c, "irq">> /\ pc[x] = "entry"
                    /\ m = SwitchLock
              /\ iflag' = [iflag EXCEPT ![c] = FALSE]
              /\ pc' = [pc EXCEPT ![x] = "spin"]
              /\ want' = [want EXCEPT ![x] = m]
              /\ UNCHANGED <<mutex, inService, cur, held>>
<1> DEFINE x == Now(c)
<1>1. \/ cur[c] = "thread" /\ x = <<c, "thread">> /\ pc[x] = "run" /\ m # SwitchLock
         /\ (held[x] = {} \/ \E o \in held[x] : Innermost(x, o) /\ <<o, m>> \in Calls)
      \/ cur[c] = "irq" /\ x = <<c, "irq">> /\ pc[x] = "entry" /\ m = SwitchLock
    BY NowCtx DEF CallLock, MayLock
<1>2. /\ iflag' = [iflag EXCEPT ![c] = FALSE]
      /\ pc' = [pc EXCEPT ![x] = "spin"]
      /\ want' = [want EXCEPT ![x] = m]
      /\ UNCHANGED <<mutex, inService, cur, held>>
    BY DEF CallLock
<1>3. x \in Ctx
    BY <1>1, CtxFacts
<1> HIDE DEF x
<1> QED
    BY <1>1, <1>2, <1>3

\* What the sti of unlock() does, said of the context that executes it.
LEMMA CallUnlockFacts ==
    ASSUME TypeOK, NEW c \in Core, CallUnlock(c)
    PROVE  \E x \in Ctx :
              /\ \/ cur[c] = "thread" /\ x = <<c, "thread">>
                 \/ cur[c] = "irq" /\ x = <<c, "irq">>
              /\ pc[x] = "run" /\ held[x] # {}
              /\ iflag' = [iflag EXCEPT ![c] = TRUE]
              /\ pc' = [pc EXCEPT ![x] = IF iflag[c] THEN "release" ELSE "shadow"]
              /\ UNCHANGED <<mutex, inService, cur, held, want>>
<1> DEFINE x == Now(c)
<1>1. /\ x \in Ctx
      /\ \/ cur[c] = "thread" /\ x = <<c, "thread">>
         \/ cur[c] = "irq" /\ x = <<c, "irq">>
    BY NowCtx DEF CallUnlock
<1>2. /\ pc[x] = "run" /\ held[x] # {}
      /\ iflag' = [iflag EXCEPT ![c] = TRUE]
      /\ pc' = [pc EXCEPT ![x] = IF iflag[c] THEN "release" ELSE "shadow"]
      /\ UNCHANGED <<mutex, inService, cur, held, want>>
    BY DEF CallUnlock
<1> HIDE DEF x
<1> QED
    BY <1>1, <1>2

\* A thread may take a mutex only if it is inner to every mutex it holds.
LEMMA MayLockInner ==
    ASSUME TypeOK, NestInv, NEW x \in Ctx, NEW m \in Mutex,
           \E o \in held[x] : Innermost(x, o) /\ <<o, m>> \in Calls
    PROVE  \A p \in held[x] : Rank[m] < Rank[p] /\ ~Leaf(p)
<1>1. PICK o \in held[x] : /\ <<o, m>> \in Calls
                           /\ \A p \in held[x] : Rank[o] <= Rank[p]
    BY DEF Innermost
<1>2. o \in Mutex /\ held[x] \subseteq Mutex
    BY DEF TypeOK
<1>3. Rank[m] < Rank[o] /\ ~Leaf(o)
    BY <1>1, <1>2, LockAssumption DEF Leaf
<1> SUFFICES ASSUME NEW p \in held[x] PROVE Rank[m] < Rank[p] /\ ~Leaf(p)
    OBVIOUS
<1>4. Rank[m] \in Nat /\ Rank[o] \in Nat /\ Rank[p] \in Nat
    BY <1>2, LockAssumption
<1>5. Rank[o] <= Rank[p]
    BY <1>1
<1>6. ~Leaf(p)
    BY <1>1, <1>3, <1>4, <1>5 DEF NestInv
<1> QED
    BY <1>3, <1>4, <1>5, <1>6

\* Every step keeps the sections nested.
LEMMA StepNest == TypeOK /\ NestInv /\ SpinInv /\ [Next]_vars => NestInv'
<1> SUFFICES ASSUME TypeOK, NestInv, SpinInv, [Next]_vars PROVE NestInv'
    OBVIOUS
<1>1. ASSUME NEW c \in Core, Acquire(c) PROVE NestInv'
    <2>1. PICK x \in Ctx, w \in Mutex :
             /\ pc[x] = "spin" /\ w = want[x]
             /\ held' = [held EXCEPT ![x] = held[x] \cup {w}]
        BY <1>1, AcquireFacts
    <2>2. \A o \in held[x] : Rank[w] < Rank[o] /\ ~Leaf(o)
        BY <2>1 DEF SpinInv
    <2> QED
        BY <2>1, <2>2 DEF NestInv, TypeOK, Leaf
<1>2. ASSUME NEW c \in Core, Release(c) PROVE NestInv'
    <2>1. PICK x \in Ctx, m \in Mutex : held' = [held EXCEPT ![x] = held[x] \ {m}]
        BY <1>2, ReleaseFacts
    <2> QED
        BY <2>1 DEF NestInv, TypeOK, Leaf
<1>3. ASSUME UNCHANGED held PROVE NestInv'
    BY <1>3 DEF NestInv, Leaf
<1> QED
    BY <1>1, <1>2, <1>3 DEF Next, vars, CallLock, CallUnlock, Tick, IrqReturn,
       SwitchToUser
\* Every step keeps the spinning contexts inside the lock order.
LEMMA StepSpin == TypeOK /\ NestInv /\ SpinInv /\ IrqInv /\ [Next]_vars => SpinInv'
<1> SUFFICES ASSUME TypeOK, NestInv, SpinInv, IrqInv, [Next]_vars PROVE SpinInv'
    OBVIOUS
<1> USE DEF Leaf
<1>1. ASSUME NEW c \in Core, NEW m \in Mutex, CallLock(c, m) PROVE SpinInv'
    <2>1. PICK x \in Ctx :
             /\ \/ /\ cur[c] = "thread" /\ x = <<c, "thread">> /\ pc[x] = "run"
                   /\ m # SwitchLock
                   /\ \/ held[x] = {}
                      \/ \E o \in held[x] : Innermost(x, o) /\ <<o, m>> \in Calls
                \/ /\ cur[c] = "irq" /\ x = <<c, "irq">> /\ pc[x] = "entry"
                   /\ m = SwitchLock
             /\ iflag' = [iflag EXCEPT ![c] = FALSE]
             /\ pc' = [pc EXCEPT ![x] = "spin"]
             /\ want' = [want EXCEPT ![x] = m]
             /\ UNCHANGED <<mutex, inService, cur, held>>
        BY <1>1, CallLockFacts
    <2>2. \A p \in held[x] : Rank[m] < Rank[p] /\ ~Leaf(p)
        BY <2>1, MayLockInner DEF IrqInv
    <2> QED
        BY <2>1, <2>2 DEF SpinInv, TypeOK
<1>2. ASSUME NEW c \in Core, Acquire(c) PROVE SpinInv'
    <2>1. PICK x \in Ctx, w \in Mutex :
             /\ held' = [held EXCEPT ![x] = held[x] \cup {w}]
             /\ want' = [want EXCEPT ![x] = NoMutex]
             /\ pc' = [pc EXCEPT ![x] = "run"]
        BY <1>2, AcquireFacts
    <2> QED
        BY <2>1 DEF SpinInv, TypeOK
<1>3. ASSUME NEW c \in Core, CallUnlock(c) PROVE SpinInv'
    <2>1. PICK x \in Ctx :
             /\ pc' = [pc EXCEPT ![x] = IF iflag[c] THEN "release" ELSE "shadow"]
             /\ UNCHANGED <<held, want>>
        BY <1>3, CallUnlockFacts
    <2> QED
        BY <2>1 DEF SpinInv, TypeOK
<1>4. ASSUME NEW c \in Core, Release(c) PROVE SpinInv'
    <2>1. PICK x \in Ctx, m \in Mutex :
             /\ held' = [held EXCEPT ![x] = held[x] \ {m}]
             /\ pc' = [pc EXCEPT ![x] = "run"]
             /\ UNCHANGED want
        BY <1>4, ReleaseFacts
    <2> QED
        BY <2>1 DEF SpinInv, TypeOK
<1>5. ASSUME NEW c \in Core, Tick(c) PROVE SpinInv'
    BY <1>5 DEF Tick, SpinInv, TypeOK
<1>6. ASSUME UNCHANGED <<pc, held, want>> PROVE SpinInv'
    BY <1>6 DEF SpinInv
<1> QED
    BY <1>1, <1>2, <1>3, <1>4, <1>5, <1>6 DEF Next, vars, IrqReturn, SwitchToUser

\* Every step keeps SwitchLock with the timer handlers.
LEMMA StepIrq == TypeOK /\ SpinInv /\ IrqInv /\ FlagInv /\ [Next]_vars => IrqInv'
<1> SUFFICES ASSUME TypeOK, SpinInv, IrqInv, FlagInv, [Next]_vars,
                    NEW d \in Core
             PROVE  /\ SwitchLock \notin held'[<<d, "thread">>]
                    /\ want'[<<d, "thread">>] # SwitchLock
                    /\ pc'[<<d, "thread">>] # "entry"
                    /\ held'[<<d, "irq">>] \subseteq {SwitchLock}
                    /\ pc'[<<d, "irq">>] \in {"entry", "spin"}
                          => held'[<<d, "irq">>] = {}
                    /\ pc'[<<d, "irq">>] = "spin" => want'[<<d, "irq">>] = SwitchLock
                    /\ cur'[d] = "irq" => inService'[d]
                    /\ cur'[d] = "thread"
                          => held'[<<d, "irq">>] = {} /\ pc'[<<d, "irq">>] = "run"
    BY DEF IrqInv
<1> DEFINE t == <<d, "thread">>
           q == <<d, "irq">>
<1>0. /\ t \in Ctx /\ q \in Ctx /\ t # q
      /\ \A c \in Core : <<c, "thread">> # q /\ <<c, "irq">> # t
      /\ \A c \in Core : c # d => <<c, "thread">> # t /\ <<c, "irq">> # q
    BY CtxFacts
<1>i. /\ SwitchLock \notin held[t]
      /\ want[t] # SwitchLock
      /\ pc[t] # "entry"
      /\ held[q] \subseteq {SwitchLock}
      /\ pc[q] \in {"entry", "spin"} => held[q] = {}
      /\ pc[q] = "spin" => want[q] = SwitchLock
      /\ cur[d] = "irq" => inService[d]
      /\ cur[d] = "thread" => held[q] = {} /\ pc[q] = "run"
    BY DEF IrqInv
<1> DEFINE Goal == /\ SwitchLock \notin held'[t]
                   /\ want'[t] # SwitchLock
                   /\ pc'[t] # "entry"
                   /\ held'[q] \subseteq {SwitchLock}
                   /\ pc'[q] \in {"entry", "spin"} => held'[q] = {}
                   /\ pc'[q] = "spin" => want'[q] = SwitchLock
                   /\ cur'[d] = "irq" => inService'[d]
                   /\ cur'[d] = "thread" => held'[q] = {} /\ pc'[q] = "run"
<1> SUFFICES Goal
    OBVIOUS
<1>1. ASSUME NEW c \in Core, NEW m \in Mutex, CallLock(c, m) PROVE Goal
    <2>1. PICK x \in Ctx :
             /\ \/ x = <<c, "thread">> /\ cur[c] = "thread" /\ m # SwitchLock
                \/ x = <<c, "irq">> /\ cur[c] = "irq" /\ m = SwitchLock
                   /\ pc[x] = "entry"
             /\ pc' = [pc EXCEPT ![x] = "spin"]
             /\ want' = [want EXCEPT ![x] = m]
             /\ UNCHANGED <<inService, cur, held>>
        BY <1>1, CallLockFacts
    <2> HIDE DEF t, q
    <2>2. CASE x = t
        BY <1>0, <1>i, <2>1, <2>2 DEF TypeOK, t, q
    <2>3. CASE x = q
        BY <1>0, <1>i, <2>1, <2>3 DEF TypeOK, t, q
    <2>4. CASE x # t /\ x # q
        BY <1>0, <1>i, <2>1, <2>4 DEF TypeOK
    <2> QED
        BY <2>2, <2>3, <2>4
<1>2. ASSUME NEW c \in Core, Acquire(c) PROVE Goal
    <2>1. PICK x \in Ctx, w \in Mutex :
             /\ \/ x = <<c, "thread">> /\ cur[c] = "thread"
                \/ x = <<c, "irq">> /\ cur[c] = "irq"
             /\ pc[x] = "spin" /\ w = want[x]
             /\ held' = [held EXCEPT ![x] = held[x] \cup {w}]
             /\ want' = [want EXCEPT ![x] = NoMutex]
             /\ pc' = [pc EXCEPT ![x] = "run"]
             /\ UNCHANGED <<inService, cur>>
        BY <1>2, AcquireFacts
    <2>n. NoMutex # SwitchLock
        BY LockAssumption
    <2>2. CASE x = t
        BY <1>0, <1>i, <2>n, <2>1, <2>2 DEF TypeOK
    <2>3. CASE x = q
        BY <1>0, <1>i, <2>n, <2>1, <2>3 DEF TypeOK
    <2>4. CASE x # t /\ x # q
        BY <1>0, <1>i, <2>1, <2>4 DEF TypeOK
    <2> QED
        BY <2>2, <2>3, <2>4
<1>3. ASSUME NEW c \in Core, CallUnlock(c) PROVE Goal
    <2>1. PICK x \in Ctx :
             /\ \/ x = <<c, "thread">> /\ cur[c] = "thread"
                \/ x = <<c, "irq">> /\ cur[c] = "irq"
             /\ pc[x] = "run"
             /\ pc' = [pc EXCEPT ![x] = IF iflag[c] THEN "release" ELSE "shadow"]
             /\ UNCHANGED <<inService, cur, held, want>>
        BY <1>3, CallUnlockFacts
    <2> QED
        BY <1>0, <1>i, <2>1 DEF TypeOK
<1>4. ASSUME NEW c \in Core, Release(c) PROVE Goal
    <2>1. PICK x \in Ctx, m \in Mutex :
             /\ held' = [held EXCEPT ![x] = held[x] \ {m}]
             /\ pc' = [pc EXCEPT ![x] = "run"]
             /\ UNCHANGED <<inService, cur, want>>
        BY <1>4, ReleaseFacts
    <2> QED
        BY <1>0, <1>i, <2>1 DEF TypeOK
<1>5. ASSUME NEW c \in Core, Tick(c) PROVE Goal
    <2>1. cur[c] = "thread"
        BY <1>5 DEF Tick, TypeOK, IrqInv
    <2> QED
        BY <1>0, <1>i, <1>5, <2>1 DEF Tick, TypeOK
<1>6. ASSUME NEW c \in Core, IrqReturn(c) PROVE Goal
    BY <1>0, <1>i, <1>6 DEF IrqReturn, Now, TypeOK
<1>7. ASSUME NEW c \in Core, SwitchToUser(c) PROVE Goal
    BY <1>0, <1>i, <1>7 DEF SwitchToUser, TypeOK
<1>8. CASE UNCHANGED vars
    BY <1>i, <1>8 DEF vars
<1> QED
    BY <1>1, <1>2, <1>3, <1>4, <1>5, <1>6, <1>7, <1>8 DEF Next
\* Every step keeps spinning threads and leaf sections uninterrupted.
LEMMA StepFlag == TypeOK /\ NestInv /\ SpinInv /\ IrqInv /\ FlagInv /\ [Next]_vars
                      => FlagInv'
<1> SUFFICES ASSUME TypeOK, NestInv, SpinInv, IrqInv, FlagInv, [Next]_vars,
                    NEW d \in Core
             PROVE  LET t == <<d, "thread">> IN
                    /\ pc'[t] = "spin" => cur'[d] = "thread" /\ ~iflag'[d]
                    /\ pc'[t] = "shadow" => cur'[d] = "thread"
                    /\ \A m \in held'[t] : Leaf(m) =>
                          \/ pc'[t] = "run" /\ cur'[d] = "thread" /\ ~iflag'[d]
                          \/ pc'[t] = "shadow" /\ Innermost(t, m)'
    BY DEF FlagInv, Leaf
<1> DEFINE t == <<d, "thread">>
           Goal == /\ pc'[t] = "spin" => cur'[d] = "thread" /\ ~iflag'[d]
                   /\ pc'[t] = "shadow" => cur'[d] = "thread"
                   /\ \A m \in held'[t] : Leaf(m) =>
                         \/ pc'[t] = "run" /\ cur'[d] = "thread" /\ ~iflag'[d]
                         \/ /\ pc'[t] = "shadow"
                            /\ \A o \in held'[t] : Rank[m] <= Rank[o]
<1> SUFFICES Goal
    BY DEF Innermost
<1>0. /\ t \in Ctx
      /\ \A c \in Core : <<c, "irq">> # t
      /\ \A c \in Core : c # d => <<c, "thread">> # t
    BY CtxFacts
<1>f. /\ pc[t] = "spin" => cur[d] = "thread" /\ ~iflag[d]
      /\ pc[t] = "shadow" => cur[d] = "thread"
      /\ \A m \in held[t] : Leaf(m) =>
            \/ pc[t] = "run" /\ cur[d] = "thread" /\ ~iflag[d]
            \/ /\ pc[t] = "shadow"
               /\ \A o \in held[t] : Rank[m] <= Rank[o]
    BY DEF FlagInv, Innermost
<1>r. held[t] \subseteq Mutex /\ \A m \in Mutex : Rank[m] \in Nat
    BY <1>0, LockAssumption DEF TypeOK
\* Two mutexes of a thread are of different rank and the outer is no leaf.
<1>n. \A m, o \in held[t] :
         m # o => \/ Rank[m] < Rank[o] /\ ~Leaf(o)
                  \/ Rank[o] < Rank[m] /\ ~Leaf(m)
    BY <1>0 DEF NestInv
<1> HIDE DEF t
<1>1. ASSUME NEW c \in Core, NEW m \in Mutex, CallLock(c, m) PROVE Goal
    <2>1. PICK x \in Ctx :
             /\ \/ /\ x = <<c, "thread">> /\ cur[c] = "thread" /\ pc[x] = "run"
                   /\ \/ held[x] = {}
                      \/ \E o \in held[x] : Innermost(x, o) /\ <<o, m>> \in Calls
                \/ x = <<c, "irq">> /\ cur[c] = "irq"
             /\ iflag' = [iflag EXCEPT ![c] = FALSE]
             /\ pc' = [pc EXCEPT ![x] = "spin"]
             /\ UNCHANGED <<cur, held>>
        BY <1>1, CallLockFacts
    <2>2. CASE x = t
        <3>1. c = d /\ cur[d] = "thread"
            BY <1>0, <2>1, <2>2
        <3>2. \A p \in held[t] : ~Leaf(p)
            BY <1>0, <2>1, <2>2, MayLockInner
        <3> QED
            BY <1>0, <2>1, <2>2, <3>1, <3>2 DEF TypeOK
    <2>3. CASE x # t
        BY <1>0, <1>f, <2>1, <2>3 DEF TypeOK
    <2> QED
        BY <2>2, <2>3
<1>2. ASSUME NEW c \in Core, Acquire(c) PROVE Goal
    <2>1. PICK x \in Ctx, w \in Mutex :
             /\ pc[x] = "spin" /\ w = want[x]
             /\ held' = [held EXCEPT ![x] = held[x] \cup {w}]
             /\ pc' = [pc EXCEPT ![x] = "run"]
             /\ UNCHANGED <<iflag, cur>>
        BY <1>2, AcquireFacts
    <2> QED
        BY <1>0, <1>f, <2>1 DEF TypeOK
<1>3. ASSUME NEW c \in Core, CallUnlock(c) PROVE Goal
    <2>1. PICK x \in Ctx :
             /\ \/ x = <<c, "thread">> /\ cur[c] = "thread"
                \/ x = <<c, "irq">> /\ cur[c] = "irq"
             /\ pc[x] = "run"
             /\ iflag' = [iflag EXCEPT ![c] = TRUE]
             /\ pc' = [pc EXCEPT ![x] = IF iflag[c] THEN "release" ELSE "shadow"]
             /\ UNCHANGED <<cur, held>>
        BY <1>3, CallUnlockFacts
    <2>2. CASE x = t
        <3>1. c = d /\ cur[d] = "thread"
            BY <1>0, <2>1, <2>2
        <3>2. \A m \in held[t] : Leaf(m) =>
                 ~iflag[d] /\ \A o \in held[t] : Rank[m] <= Rank[o]
            BY <1>f, <1>n, <1>r, <2>1, <2>2
        <3>3. pc'[t] = (IF iflag[d] THEN "release" ELSE "shadow")
            BY <1>0, <2>1, <2>2, <3>1 DEF TypeOK
        <3>4. cur'[d] = "thread" /\ held'[t] = held[t]
            BY <2>1, <3>1
        <3>5. CASE iflag[d]
            BY <3>2, <3>3, <3>4, <3>5
        <3>6. CASE ~iflag[d]
            BY <3>2, <3>3, <3>4, <3>6
        <3> QED
            BY <3>5, <3>6
    <2>3. CASE x # t
        <3>1. pc'[t] = pc[t] /\ held'[t] = held[t] /\ cur'[d] = cur[d]
            BY <1>0, <2>1, <2>3 DEF TypeOK
        <3>2. CASE c = d
            <4>1. cur[d] = "irq"
                BY <2>1, <2>3, <3>2 DEF t
            <4> QED
                BY <1>f, <3>1, <4>1
        <3>3. CASE c # d
            <4>1. iflag'[d] = iflag[d]
                BY <2>1, <3>3 DEF TypeOK
            <4> QED
                BY <1>f, <3>1, <4>1
        <3> QED
            BY <3>2, <3>3
    <2> QED
        BY <2>2, <2>3
<1>4. ASSUME NEW c \in Core, Release(c) PROVE Goal
    <2>1. PICK x \in Ctx, m \in Mutex :
             /\ pc[x] \in {"shadow", "release"}
             /\ m \in held[x] /\ \A o \in held[x] : Rank[m] <= Rank[o]
             /\ held' = [held EXCEPT ![x] = held[x] \ {m}]
             /\ pc' = [pc EXCEPT ![x] = "run"]
             /\ UNCHANGED <<iflag, cur>>
        BY <1>4, ReleaseFacts
    <2>2. CASE x = t
        <3>1. \A o \in held[t] : o # m => ~Leaf(o)
            BY <1>n, <1>r, <2>1, <2>2
        <3> QED
            BY <1>0, <2>1, <2>2, <3>1 DEF TypeOK
    <2>3. CASE x # t
        BY <1>0, <1>f, <2>1, <2>3 DEF TypeOK
    <2> QED
        BY <2>2, <2>3
<1>5. ASSUME NEW c \in Core, Tick(c) PROVE Goal
    <2>1. cur[c] = "thread" /\ pc[<<c, "thread">>] # "shadow" /\ iflag[c]
        BY <1>5 DEF Tick, TypeOK, IrqInv, Now
    <2> QED
        BY <1>0, <1>f, <1>5, <2>1 DEF Tick, TypeOK, t
<1>6. ASSUME NEW c \in Core, IrqReturn(c) PROVE Goal
    BY <1>0, <1>f, <1>6 DEF IrqReturn, TypeOK
<1>7. ASSUME NEW c \in Core, SwitchToUser(c) PROVE Goal
    BY <1>0, <1>f, <1>7 DEF SwitchToUser, TypeOK
<1>8. CASE UNCHANGED vars
    BY <1>f, <1>8 DEF vars
<1> QED
    BY <1>1, <1>2, <1>3, <1>4, <1>5, <1>6, <1>7, <1>8 DEF Next

-----------------------------------------------------------------------------
\* The inductive invariant holds in every reachable state.
THEOREM Inductive == Spec => []IInv
<1>1. IInv /\ [Next]_vars => IInv'
    BY StepType, StepExclusion, StepNest, StepSpin, StepIrq, StepFlag DEF IInv
<1> QED
    BY InitIInv, <1>1, PTL DEF Spec

\* Every variable of the lock model keeps its type.
THEOREM TypeCorrect == Spec => []TypeOK
<1>1. IInv => TypeOK
    BY DEF IInv
<1> QED
    BY Inductive, <1>1, PTL

\* lock() and unlock(): a mutex is held by one context at a time.
THEOREM MutexSafe == Spec => []MutualExclusion
<1>1. IInv => MutualExclusion
    BY DEF IInv
<1> QED
    BY Inductive, <1>1, PTL

\* lock() and the timer: no core spins for a mutex it holds itself.
THEOREM SelfDeadlockFree == Spec => []NoSelfDeadlock
<1>1. IInv => NoSelfDeadlock
    <2> SUFFICES ASSUME IInv, NEW x \in Ctx, pc[x] = "spin",
                        NEW k \in {"thread", "irq"}
                 PROVE  want[x] \notin held[<<x[1], k>>]
        BY DEF NoSelfDeadlock
    <2>1. /\ want[x] \notin held[x]
        <3>1. \A o \in held[x] : Rank[want[x]] < Rank[o] /\ Rank[o] \in Nat
            BY LockAssumption DEF IInv, SpinInv, TypeOK
        <3> QED
            BY <3>1
    <2>2. PICK c \in Core : x = <<c, "thread">> \/ x = <<c, "irq">>
        BY CtxFacts
    <2>3. CASE x = <<c, "thread">>
        <3>1. cur[c] = "thread"
            BY <2>3 DEF IInv, FlagInv
        <3>2. held[<<c, "irq">>] = {}
            BY <3>1 DEF IInv, IrqInv
        <3> QED
            BY <2>1, <2>3, <3>2
    <2>4. CASE x = <<c, "irq">>
        <3>1. want[x] = SwitchLock /\ SwitchLock \notin held[<<c, "thread">>]
            BY <2>4 DEF IInv, IrqInv
        <3> QED
            BY <2>1, <2>4, <3>1
    <2> QED
        BY <2>2, <2>3, <2>4
<1> QED
    BY Inductive, <1>1, PTL

\* lock() and the interrupt flag: a leaf section is never interrupted.
THEOREM LeafSafe == Spec => []LeafSectionsUninterrupted
<1>1. IInv => LeafSectionsUninterrupted
    BY DEF IInv, FlagInv, LeafSectionsUninterrupted
<1> QED
    BY Inductive, <1>1, PTL

-----------------------------------------------------------------------------
\* Of the cores that wait for one another in a circle, one would wait for a
\* mutex of least rank; its holder waits for one of a lesser rank still.
LEMMA NoCycle == IInv => NoWaitCycle
<1> SUFFICES ASSUME IInv, NEW S \in SUBSET Core, S # {},
                    \A c \in S : /\ cur[c] # "gone" /\ pc[Now(c)] = "spin"
                                 /\ \E d \in S : Holds(d, want[Now(c)])
             PROVE  FALSE
    BY DEF NoWaitCycle
<1> USE DEF IInv
<1>1. ASSUME NEW c \in S
      PROVE  /\ c \in Core /\ pc[Now(c)] = "spin"
             /\ \/ cur[c] = "thread" /\ Now(c) = <<c, "thread">>
                \/ cur[c] = "irq" /\ Now(c) = <<c, "irq">>
    <2>1. c \in Core /\ cur[c] # "gone" /\ pc[Now(c)] = "spin"
        OBVIOUS
    <2> QED
        BY <2>1, NowCtx
<1>2. ASSUME NEW c \in S PROVE held[<<c, "irq">>] = {}
    <2>1. CASE cur[c] = "thread"
        BY <1>1, <2>1 DEF IrqInv
    <2>2. CASE cur[c] = "irq"
        <3>1. c \in Core /\ pc[<<c, "irq">>] = "spin"
            BY <1>1, <2>2
        <3> QED
            BY <3>1 DEF IrqInv
    <2> QED
        BY <1>1, <2>1, <2>2
<1>3. ASSUME NEW c \in S
      PROVE  \E d \in S : want[Now(c)] \in held[<<d, "thread">>]
    BY <1>2 DEF Holds
<1>4. ASSUME NEW c \in S PROVE Now(c) = <<c, "thread">>
    <2>1. PICK d \in S : want[Now(c)] \in held[<<d, "thread">>]
        BY <1>3
    <2>2. want[Now(c)] # SwitchLock
        <3>1. SwitchLock \notin held[<<d, "thread">>]
            BY DEF IrqInv
        <3> QED
            BY <2>1, <3>1
    <2>3. ASSUME Now(c) = <<c, "irq">> PROVE FALSE
        <3>1. c \in Core /\ pc[<<c, "irq">>] = "spin"
            BY <1>1, <2>3
        <3>2. want[<<c, "irq">>] = SwitchLock
            BY <3>1 DEF IrqInv
        <3> QED
            BY <2>2, <2>3, <3>2
    <2> QED
        BY <1>1, <2>3
<1> DEFINE w(c) == want[<<c, "thread">>]
           T == {Rank[w(c)] : c \in S}
<1>5. ASSUME NEW c \in S
      PROVE  /\ w(c) \in Mutex /\ Rank[w(c)] \in Nat
             /\ \A o \in held[<<c, "thread">>] : Rank[w(c)] < Rank[o]
    <2>1. pc[<<c, "thread">>] = "spin" /\ <<c, "thread">> \in Ctx
        BY <1>4, CtxFacts
    <2> QED
        BY <2>1, LockAssumption DEF SpinInv
<1>6. PICK x \in T : \A y \in T : x <= y
    <2>1. T \subseteq Nat /\ T # {}
        BY <1>5
    <2> HIDE DEF T
    <2> QED
        BY <2>1, LeastNat
<1>7. PICK c \in S : x = Rank[w(c)]
    BY <1>6
<1>8. PICK d \in S : w(c) \in held[<<d, "thread">>]
    BY <1>3, <1>4
<1>9. Rank[w(d)] < Rank[w(c)]
    BY <1>5, <1>8
<1>10. Rank[w(c)] <= Rank[w(d)]
    BY <1>6, <1>7
<1> QED
    BY <1>5, <1>9, <1>10

\* lock() nesting and the timer: no set of cores waits for one another.
THEOREM DeadlockFree == Spec => []NoWaitCycle
BY Inductive, NoCycle, PTL

-----------------------------------------------------------------------------
(* The start of the application processors                                 *)

Modes == {"off", "reset", "trampoline", "startup", "ok", "online", "kernel"}

Starting == {"reset", "trampoline", "startup", "ok"}

\* The structures are those of the first processors of the MADT.
TableInv ==
    /\ madt \in Madts
    /\ cores <= Len(madt)
    /\ bsp = "count" => cores = 0 /\ current_ap = 0 /\ i = 0 /\ cpus = <<>>
    /\ bsp # "count" =>
          /\ DOMAIN cpus = 0..(cores - 1)
          /\ \A k \in 0..(cores - 1) : /\ cpus[k].cpu_id = madt[k + 1].proc
                                       /\ cpus[k].lapic_id = madt[k + 1].apic

\* Where the BSP is, and the numbers it has given out.
BootWalkInv ==
    /\ bsp \in {"init", "sipi", "wait"} => i < cores
    /\ bsp \in {"sipi", "wait"} => current_ap <= i + 1
    /\ bsp \notin {"sipi", "wait"} => current_ap <= i
    /\ nextStack \in Nat \ {0} /\ mailbox \in None..(nextStack - 1)

BootTypeInv == BootTypeOK /\ TableInv /\ BootWalkInv

\* The BSP is first in every MADT, and has one number.
BspFirst == \A m \in Madts : m[1].proc = Bsp /\ m[1].apic = Bsp

\* current_ap is the number of the processor that is being started.
NumberInv ==
    /\ bsp \in {"loop", "init"} => current_ap = IF i = 0 THEN 0 ELSE i - 1
    /\ bsp \in {"init", "sipi", "wait"} => i > 0
    /\ bsp \in {"sipi", "wait"} => current_ap = i

\* Only the processor that the BSP waits for is on its way, and it has not yet
\* said that it is there.
StartingInv ==
    /\ bsp = "count" => \A p \in Processor : mode[p] # "online"
    /\ bsp \in {"init", "sipi"} => ~ap_is_ok
    /\ \A p \in Processor : mode[p] \in Starting =>
          /\ bsp = "wait" \/ (bsp = "sipi" /\ mode[p] = "reset")
          /\ p = cpus[i].lapic_id /\ ~ap_is_ok

\* Until it has loaded it, its stack is newer than all others.
MailboxInv ==
    (bsp = "init" \/ \E p \in Processor : mode[p] \in {"reset", "trampoline"})
        => \A q \in Processor : stack[q] < mailbox

StacksApart == \A p, q \in Processor : p # q /\ stack[p] # None => stack[p] # stack[q]

SepInv == NumberInv /\ StartingInv /\ MailboxInv /\ StacksApart /\ OwnStructure

BootInv == BootTypeInv /\ SepInv
-----------------------------------------------------------------------------

LEMMA MadtFacts ==
  ASSUME madt \in Madts
  PROVE  /\ Len(madt) \in Nat
         /\ \A k \in 1..Len(madt) : madt[k].proc \in Nat /\ madt[k].apic \in Nat
         /\ \A k, l \in 1..Len(madt) :
               k # l => madt[k].proc # madt[l].proc /\ madt[k].apic # madt[l].apic
         /\ \A k \in 1..Len(madt) : madt[k].apic \in Processor
         /\ Bsp \in Processor
  <1>1. madt \in Seq([proc : Nat, apic : Nat])
    BY SmpAssumption
  <1>2. /\ Len(madt) \in Nat
        /\ \A k \in 1..Len(madt) : madt[k] \in [proc : Nat, apic : Nat]
    <2> DEFINE R == [proc : Nat, apic : Nat]
    <2>1. madt \in Seq(R)
      BY <1>1
    <2> HIDE DEF R
    <2>2. Len(madt) \in Nat /\ \A k \in 1..Len(madt) : madt[k] \in R
      BY <2>1
    <2> QED
      BY <2>2 DEF R
  <1>3. /\ \A k, l \in 1..Len(madt) :
              k # l => madt[k].proc # madt[l].proc /\ madt[k].apic # madt[l].apic
        /\ \E k \in 1..Len(madt) : madt[k].apic = Bsp
    BY SmpAssumption
  <1> QED
    BY <1>2, <1>3 DEF Processor

\* The structure at which the BSP is belongs to a processor of the MADT.
LEMMA Current ==
  ASSUME BootTypeInv, bsp # "count", i < cores
  PROVE  /\ i \in DOMAIN cpus /\ i + 1 \in 1..Len(madt)
         /\ cpus[i].cpu_id = madt[i + 1].proc
         /\ cpus[i].lapic_id = madt[i + 1].apic
         /\ cpus[i].lapic_id \in Processor
  <1>1. madt \in Madts /\ i \in Nat /\ cores \in Nat /\ cores <= Len(madt)
    BY SmpAssumption DEF BootTypeInv, BootTypeOK, TableInv
  <1>2. Len(madt) \in Nat
    BY <1>1, MadtFacts
  <1>3. i \in 0..(cores - 1) /\ i + 1 \in 1..Len(madt)
    BY <1>1, <1>2
  <1> QED
    BY <1>1, <1>3, MadtFacts DEF BootTypeInv, TableInv

-----------------------------------------------------------------------------
(* Types                                                                   *)

LEMMA Widen ==
  ASSUME NEW S, NEW a \in Int, NEW b \in Int, a <= b, NEW f \in [S -> None..a]
  PROVE  f \in [S -> None..b]
  <1>1. \A x \in S : f[x] \in None..b
    BY DEF None
  <1> QED
    BY <1>1

\* TypeOK in parts: the BSP's own variables, the structures, and what there is of
\* each processor.
Phase == bsp \in {"count", "loop", "init", "sipi", "wait", "done"} /\ ap_is_ok \in BOOLEAN

Numbers == cores \in 0..(MaxCpus + 1) /\ i \in 0..cores /\ current_ap \in 0..cores

Table ==
    \A k \in DOMAIN cpus : cpus[k] \in [cpu_id : Nat, lapic_id : Nat, is_bsp : BOOLEAN]

BootFunctions ==
    /\ mode \in [Processor -> Modes]
    /\ stack \in [Processor -> None..(nextStack - 1)]
    /\ this_core \in [Processor -> None..cores]

LEMMA TypeParts == BootTypeOK <=> Phase /\ Numbers /\ Table /\ BootFunctions
  BY DEF BootTypeOK, Phase, Numbers, Table, BootFunctions, Modes

LEMMA InitTyped == BootInit => BootTypeInv
  <1> SUFFICES ASSUME BootInit PROVE BootTypeInv
    OBVIOUS
  <1>1. madt \in Madts /\ Len(madt) \in Nat /\ Bsp \in Processor /\ MaxCpus \in Nat
    BY MadtFacts, SmpAssumption DEF BootInit
  <1>2. Phase /\ Table
    <2>1. Phase
      BY DEF BootInit, Phase
    <2>2. Table
      BY DEF BootInit, Table
    <2> QED
      BY <2>1, <2>2
  <1>5. Numbers
    BY <1>1 DEF BootInit, Numbers
  <1>3. BootFunctions
    BY <1>1 DEF BootInit, BootFunctions, Modes, None
  <1>4. TableInv /\ BootWalkInv
    BY <1>1 DEF BootInit, TableInv, BootWalkInv, None
  <1> QED
    BY <1>2, <1>3, <1>4, <1>5, TypeParts DEF BootTypeInv

LEMMA StepTyped == BootTypeInv /\ [BootNext]_bootVars => BootTypeInv'
  <1> SUFFICES ASSUME BootTypeInv, [BootNext]_bootVars PROVE BootTypeInv'
    OBVIOUS
  <1>0. /\ madt \in Madts /\ Len(madt) \in Nat /\ MaxCpus \in Nat /\ Bsp \in Nat
        /\ cores \in Nat /\ i \in Nat /\ nextStack \in Nat
        /\ Phase /\ Numbers /\ Table /\ BootFunctions
    BY SMTT(30), MadtFacts, SmpAssumption, TypeParts DEF BootTypeInv, BootTypeOK, TableInv, BootWalkInv
  <1>parts. ASSUME Phase', Numbers', Table', BootFunctions', TableInv', BootWalkInv' PROVE BootTypeInv'
    <2>1. BootTypeOK' <=> (Phase /\ Numbers /\ Table /\ BootFunctions)'
      BY TypeParts, PTL
    <2> QED
      BY <1>parts, <2>1 DEF BootTypeInv
  <1>1. CASE Enumerate
    <2>1. PICK n \in 0..(MaxCpus + 1) : n = CountOf(Len(madt)) /\ n <= Len(madt)
      BY <1>0 DEF CountOf
    <2>2. /\ cores' = n /\ cores = 0 /\ i' = 0 /\ current_ap' = 0
          /\ bsp' \in {"done", "loop"}
          /\ UNCHANGED <<madt, ap_is_ok, nextStack, mailbox>>
      BY <1>1, <2>1 DEF Enumerate, BspAt, BootTypeInv, TableInv
    <2>3. /\ DOMAIN cpus' = 0..(n - 1)
          /\ \A k \in 0..(n - 1) :
                /\ cpus'[k] \in [cpu_id : Nat, lapic_id : Nat, is_bsp : BOOLEAN]
                /\ cpus'[k].cpu_id = madt[k + 1].proc /\ cpus'[k].lapic_id = madt[k + 1].apic
      <3>1. SUFFICES ASSUME NEW k \in 0..(n - 1)
                     PROVE  madt[k + 1].proc \in Nat /\ madt[k + 1].apic \in Nat
        BY <1>1, <2>2 DEF Enumerate
      <3>2. k + 1 \in 1..Len(madt)
        BY <1>0, <2>1, <3>1
      <3> QED
        BY <1>0, <3>2, MadtFacts
    <2>4. Phase' /\ Table'
      BY <1>0, <2>2, <2>3 DEF Phase, Table
    <2>5. Numbers'
      BY <1>0, <2>1, <2>2 DEF Numbers
    <2>6. BootFunctions'
      <3>1. this_core \in [Processor -> None..n]
        BY <1>0, <2>1, <2>2, Widen DEF BootFunctions
      <3> QED
        BY <1>0, <1>1, <2>2, <3>1 DEF Enumerate, BootFunctions, Processor
    <2>7. TableInv'
      BY <1>0, <2>1, <2>2, <2>3 DEF TableInv
    <2>8. BootWalkInv'
      BY <1>0, <2>2 DEF BootTypeInv, BootWalkInv
    <2> QED
      BY <2>4, <2>5, <2>6, <2>7, <2>8, <1>parts
  <1>2. CASE SkipBsp
    <2>1. /\ DOMAIN cpus' = DOMAIN cpus
          /\ \A k \in DOMAIN cpus :
                /\ cpus'[k] \in [cpu_id : Nat, lapic_id : Nat, is_bsp : BOOLEAN]
                /\ cpus'[k].cpu_id = cpus[k].cpu_id /\ cpus'[k].lapic_id = cpus[k].lapic_id
      BY <1>0, <1>2 DEF SkipBsp, Table
    <2>2. Phase' /\ Table'
      BY <1>0, <1>2, <2>1 DEF SkipBsp, Phase, Table
    <2>3. Numbers'
      BY SMTT(30), <1>0, <1>2 DEF SkipBsp, Numbers
    <2>4. TableInv'
      BY SMTT(30), <1>0, <1>2, <2>1 DEF SkipBsp, BspAt, BootTypeInv, TableInv
    <2>5. BootWalkInv'
      <3>1. /\ bsp = "loop" /\ bsp' = "loop" /\ i' = i + 1
            /\ UNCHANGED <<cores, current_ap, nextStack, mailbox>>
        BY <1>2 DEF SkipBsp, BspAt
      <3>2. current_ap <= i /\ nextStack \in Nat \ {0} /\ mailbox \in None..(nextStack - 1)
        BY <3>1 DEF BootTypeInv, BootWalkInv
      <3>3. current_ap' <= i'
        BY <1>0, <3>1, <3>2 DEF Numbers
      <3> QED
        BY <3>1, <3>2, <3>3 DEF BootWalkInv
    <2>6. BootFunctions'
      BY <1>0, <1>2 DEF SkipBsp, BootFunctions, Processor
    <2> QED
      BY <2>2, <2>3, <2>4, <2>5, <2>6, <1>parts
  <1>3. CASE Prepare
    <2>1. Phase' /\ Table'
      BY <1>0, <1>3 DEF Prepare, Phase, Table
    <2>2. Numbers'
      BY <1>0, <1>3 DEF Prepare, Numbers
    <2>3. TableInv'
      BY <1>0, <1>3 DEF Prepare, BspAt, BootTypeInv, TableInv
    <2>4. BootWalkInv'
      BY <1>0, <1>3 DEF Prepare, BspAt, BootTypeInv, BootWalkInv, None
    <2>5. BootFunctions'
      <3>1. stack \in [Processor -> None..(nextStack' - 1)]
        BY SMTT(30), <1>0, <1>3, Widen DEF Prepare, BootFunctions
      <3> QED
        BY <1>0, <1>3, <3>1 DEF Prepare, BootFunctions, Processor
    <2> QED
      BY <2>1, <2>2, <2>3, <2>4, <2>5, <1>parts
  <1>4. CASE SendInit
    <2>1. Phase' /\ Table'
      BY <1>0, <1>4 DEF SendInit, Phase, Table
    <2>2. Numbers'
      BY <1>0, <1>4 DEF SendInit, BspAt, Numbers, BootTypeInv, BootWalkInv
    <2>3. TableInv'
      BY <1>0, <1>4 DEF SendInit, BspAt, BootTypeInv, TableInv
    <2>4. BootWalkInv'
      <3>1. /\ bsp = "init" /\ bsp' = "sipi" /\ current_ap' = current_ap + 1
            /\ UNCHANGED <<cores, i, nextStack, mailbox>>
        BY <1>4 DEF SendInit, BspAt
      <3>2. /\ current_ap <= i /\ i < cores
            /\ nextStack \in Nat \ {0} /\ mailbox \in None..(nextStack - 1)
        BY <3>1 DEF BootTypeInv, BootWalkInv
      <3>3. current_ap' <= i + 1
        BY <1>0, <3>1, <3>2 DEF Numbers
      <3> QED
        BY <3>1, <3>2, <3>3 DEF BootWalkInv
    <2>5. BootFunctions'
      BY <1>0, <1>4 DEF SendInit, BootFunctions, Modes, Processor
    <2> QED
      BY <2>1, <2>2, <2>3, <2>4, <2>5, <1>parts
  <1>5. CASE SendSipi
    <2>1. Phase' /\ Table'
      BY <1>0, <1>5 DEF SendSipi, Phase, Table
    <2>2. Numbers'
      BY <1>0, <1>5 DEF SendSipi, Numbers
    <2>3. TableInv'
      BY <1>0, <1>5 DEF SendSipi, BspAt, BootTypeInv, TableInv
    <2>4. BootWalkInv'
      BY <1>0, <1>5 DEF SendSipi, BspAt, BootTypeInv, BootWalkInv, None
    <2>5. BootFunctions'
      BY <1>0, <1>5 DEF SendSipi, BootFunctions, Modes, Processor
    <2> QED
      BY <2>1, <2>2, <2>3, <2>4, <2>5, <1>parts
  <1>6. CASE WaitForAp
    <2>1. Phase' /\ Table'
      BY <1>0, <1>6 DEF WaitForAp, Phase, Table
    <2>2. Numbers'
      BY <1>0, <1>6 DEF WaitForAp, BspAt, Numbers, BootTypeInv, BootWalkInv
    <2>3. TableInv'
      BY <1>0, <1>6 DEF WaitForAp, BspAt, BootTypeInv, TableInv
    <2>4. BootWalkInv'
      BY <1>0, <1>6 DEF WaitForAp, BspAt, BootTypeInv, BootWalkInv, None
    <2>5. BootFunctions'
      BY <1>0, <1>6 DEF WaitForAp, BootFunctions, Processor
    <2> QED
      BY <2>1, <2>2, <2>3, <2>4, <2>5, <1>parts
  <1>7. CASE Return
    <2>1. Phase' /\ Table'
      BY <1>0, <1>7 DEF Return, Phase, Table
    <2>2. Numbers'
      BY <1>0, <1>7 DEF Return, Numbers
    <2>3. TableInv'
      BY <1>0, <1>7 DEF Return, BspAt, BootTypeInv, TableInv
    <2>4. BootWalkInv'
      BY <1>0, <1>7 DEF Return, BspAt, BootTypeInv, BootWalkInv, None
    <2>5. BootFunctions'
      BY <1>0, <1>7 DEF Return, BootFunctions, Processor
    <2> QED
      BY <2>1, <2>2, <2>3, <2>4, <2>5, <1>parts
  <1>8. ASSUME NEW p \in Processor, LoadStack(p) PROVE BootTypeInv'
    <2>1. Phase' /\ Table'
      BY <1>0, <1>8 DEF LoadStack, Phase, Table
    <2>2. Numbers'
      BY <1>0, <1>8 DEF LoadStack, Numbers
    <2>3. TableInv'
      BY <1>0, <1>8 DEF LoadStack, BootTypeInv, TableInv
    <2>4. BootWalkInv'
      BY <1>0, <1>8 DEF LoadStack, BootTypeInv, BootWalkInv, None
    <2>5. BootFunctions'
      BY <1>0, <1>8 DEF LoadStack, BootTypeInv, BootWalkInv, BootFunctions, Modes, Processor
    <2> QED
      BY <2>1, <2>2, <2>3, <2>4, <2>5, <1>parts
  <1>9. ASSUME NEW p \in Processor, SetCurrentCore(p) PROVE BootTypeInv'
    <2>1. Phase' /\ Table'
      BY <1>0, <1>9 DEF SetCurrentCore, Phase, Table
    <2>2. Numbers'
      BY <1>0, <1>9 DEF SetCurrentCore, Numbers
    <2>3. TableInv'
      BY <1>0, <1>9 DEF SetCurrentCore, BootTypeInv, TableInv
    <2>4. BootWalkInv'
      BY <1>0, <1>9 DEF SetCurrentCore, BootTypeInv, BootWalkInv, None
    <2>5. BootFunctions'
      <3>1. current_ap \in None..cores
        BY <1>0 DEF Numbers, None
      <3> QED
        BY <1>0, <1>9, <3>1 DEF SetCurrentCore, BootFunctions, Modes, Processor
    <2> QED
      BY <2>1, <2>2, <2>3, <2>4, <2>5, <1>parts
  <1>10. ASSUME NEW p \in Processor, SmpNextAp(p) PROVE BootTypeInv'
    <2>1. Phase' /\ Table'
      BY <1>0, <1>10 DEF SmpNextAp, Phase, Table
    <2>2. Numbers'
      BY <1>0, <1>10 DEF SmpNextAp, Numbers
    <2>3. TableInv'
      BY <1>0, <1>10 DEF SmpNextAp, BootTypeInv, TableInv
    <2>4. BootWalkInv'
      BY <1>0, <1>10 DEF SmpNextAp, BootTypeInv, BootWalkInv, None
    <2>5. BootFunctions'
      BY <1>0, <1>10 DEF SmpNextAp, BootFunctions, Modes, Processor
    <2> QED
      BY <2>1, <2>2, <2>3, <2>4, <2>5, <1>parts
  <1>11. CASE UNCHANGED bootVars
    BY <1>11 DEF bootVars, BootTypeInv, BootTypeOK, TableInv, BootWalkInv, Processor
  <1> QED
    BY <1>1, <1>2, <1>3, <1>4, <1>5, <1>6, <1>7, <1>8, <1>9, <1>10, <1>11
       DEF BootNext, BspStep, ApStep

\* smp_init(): the numbers and stacks it gives out are in range, whatever the
\* MADT lists.
THEOREM BootTypeCorrect == BootSpec => []BootTypeOK
  <1>1. BootTypeInv => BootTypeOK
    BY DEF BootTypeInv
  <1> QED
    BY InitTyped, StepTyped, <1>1, PTL DEF BootSpec

-----------------------------------------------------------------------------
(* Separation                                                              *)

\* The structure of the BSP is the first, and no other has its LAPIC id.
LEMMA BspIsFirst ==
  ASSUME BspFirst, BootTypeInv, bsp # "count", i < cores
  PROVE  /\ cpus[i].cpu_id = Bsp <=> i = 0
         /\ i # 0 => cpus[i].lapic_id # Bsp
  <1>1. /\ madt \in Madts /\ i \in Nat
        /\ i + 1 \in 1..Len(madt) /\ Len(madt) \in Nat
    BY Current, MadtFacts DEF BootTypeInv, BootTypeOK, TableInv
  <1>2. 1 \in 1..Len(madt) /\ (i # 0 => i + 1 # 1)
    BY <1>1
  <1>3. madt[1].proc = Bsp /\ madt[1].apic = Bsp
    BY <1>1 DEF BspFirst
  <1>4. i # 0 => madt[i + 1].proc # Bsp /\ madt[i + 1].apic # Bsp
    BY <1>1, <1>2, <1>3, MadtFacts
  <1> QED
    BY <1>3, <1>4, Current

LEMMA InitSeparate == BootInit => SepInv
  <1> SUFFICES ASSUME BootInit PROVE SepInv
    OBVIOUS
  <1>1. \A p \in Processor : mode[p] \in {"kernel", "off"}
    BY DEF BootInit
  <1>2. NumberInv
    BY DEF BootInit, NumberInv
  <1>3. StartingInv /\ MailboxInv /\ OwnStructure
    BY <1>1 DEF BootInit, StartingInv, Starting, MailboxInv, OwnStructure, Started
  <1>4. StacksApart
    <2>1. \A p \in Processor : stack[p] # None => p = Bsp
      BY DEF BootInit
    <2>2. \A p \in Processor : p # Bsp => stack[p] = None
      BY <2>1
    <2>3. 0 # None
      BY DEF None
    <2>4. \A p \in Processor : p = Bsp => stack[p] = 0
      BY DEF BootInit
    <2> QED
      BY <2>1, <2>2, <2>3, <2>4 DEF StacksApart
  <1> QED
    BY <1>2, <1>3, <1>4 DEF SepInv

\* No processor is on its way while the BSP is in its loop.
LEMMA NoneStarting ==
  ASSUME SepInv, bsp \notin {"sipi", "wait"}
  PROVE  \A p \in Processor : mode[p] \notin Starting
  BY DEF SepInv, StartingInv

LEMMA StepSeparate == BspFirst /\ BootInv /\ [BootNext]_bootVars => SepInv'
  <1> SUFFICES ASSUME BspFirst, BootInv, [BootNext]_bootVars PROVE SepInv'
    OBVIOUS
  <1>0. /\ BootTypeInv /\ SepInv
        /\ NumberInv /\ StartingInv /\ MailboxInv /\ StacksApart /\ OwnStructure
        /\ cores \in Nat /\ i \in Nat /\ nextStack \in Nat /\ mailbox \in Int
        /\ mode \in [Processor -> Modes]
        /\ stack \in [Processor -> Int] /\ \A q \in Processor : stack[q] < nextStack
        /\ this_core \in [Processor -> Int]
    <2>1. BootTypeInv /\ SepInv /\ Numbers /\ BootFunctions
      BY TypeParts DEF BootInv, BootTypeInv
    <2>2. nextStack \in Nat /\ mailbox \in Int
      BY <2>1 DEF BootTypeInv, BootWalkInv, None
    <2>3. cores \in Nat /\ i \in Nat
      BY <2>1, SmpAssumption DEF Numbers
    <2>4. \A q \in Processor : stack[q] \in None..(nextStack - 1) /\ this_core[q] \in None..cores
      BY <2>1 DEF BootFunctions
    <2>5. \A q \in Processor : stack[q] \in Int /\ stack[q] < nextStack /\ this_core[q] \in Int
      BY <2>2, <2>3, <2>4 DEF None
    <2> QED
      BY <2>1, <2>2, <2>3, <2>5 DEF SepInv, BootFunctions
  <1>parts. ASSUME NumberInv', StartingInv', MailboxInv', StacksApart', OwnStructure'
            PROVE  SepInv'
    BY <1>parts DEF SepInv
  <1>1. CASE Enumerate
    <2>1. /\ bsp = "count" /\ bsp' \in {"done", "loop"} /\ i = 0 /\ current_ap = 0
          /\ UNCHANGED <<madt, Processor, i, current_ap, mode, stack, mailbox, this_core>>
      BY <1>0, <1>1 DEF Enumerate, BspAt, BootTypeInv, TableInv, Processor
    <2>2. \A p \in Processor : mode[p] \notin Starting /\ mode[p] # "online"
      BY <1>0, <2>1, NoneStarting DEF StartingInv
    <2>3. NumberInv'
      BY <2>1 DEF NumberInv
    <2>4. StartingInv' /\ MailboxInv'
      BY <2>1, <2>2 DEF StartingInv, Starting, MailboxInv
    <2>5. StacksApart' /\ OwnStructure'
      BY <1>0, <2>1, <2>2 DEF StacksApart, OwnStructure, Started, Starting
    <2> QED
      BY <2>3, <2>4, <2>5, <1>parts
  <1>2. CASE SkipBsp
    <2>1. /\ bsp = "loop" /\ bsp' = "loop" /\ i' = i + 1 /\ i < cores /\ cpus[i].cpu_id = Bsp
          /\ UNCHANGED <<madt, Processor, current_ap, mode, stack, mailbox, this_core>>
      BY <1>2 DEF SkipBsp, BspAt, Processor
    <2>2. i = 0
      BY <1>0, <2>1, BspIsFirst
    <2>3. DOMAIN cpus' = DOMAIN cpus /\ \A k \in DOMAIN cpus : cpus'[k].lapic_id = cpus[k].lapic_id
      BY <1>0, <1>2 DEF SkipBsp, BootTypeInv, BootTypeOK
    <2>4. NumberInv'
      BY <1>0, <2>1, <2>2 DEF NumberInv
    <2>5. StartingInv' /\ MailboxInv'
      BY <1>0, <2>1, NoneStarting DEF StartingInv, Starting, MailboxInv
    <2>6. StacksApart' /\ OwnStructure'
      BY <1>0, <2>1, <2>3 DEF StacksApart, OwnStructure, Started
    <2> QED
      BY <2>4, <2>5, <2>6, <1>parts
  <1>3. CASE Prepare
    <2>1. /\ bsp = "loop" /\ bsp' = "init" /\ i < cores /\ cpus[i].cpu_id # Bsp
          /\ ap_is_ok' = FALSE /\ mailbox' = nextStack
          /\ UNCHANGED <<madt, Processor, i, cpus, current_ap, mode, stack, this_core>>
      BY <1>3 DEF Prepare, BspAt, Processor
    <2>2. i > 0
      BY <1>0, <2>1, BspIsFirst
    <2>3. NumberInv'
      BY <1>0, <2>1, <2>2 DEF NumberInv
    <2>4. StartingInv'
      BY <1>0, <2>1, NoneStarting DEF StartingInv
    <2>5. MailboxInv'
      BY <1>0, <2>1 DEF MailboxInv
    <2>6. StacksApart' /\ OwnStructure'
      BY <1>0, <2>1 DEF StacksApart, OwnStructure, Started
    <2> QED
      BY <2>3, <2>4, <2>5, <2>6, <1>parts
  <1>4. CASE SendInit
    <2>1. /\ bsp = "init" /\ bsp' = "sipi" /\ current_ap' = current_ap + 1
          /\ mode' = [mode EXCEPT ![cpus[i].lapic_id] = "reset"]
          /\ UNCHANGED <<madt, Processor, i, cpus, ap_is_ok, stack, mailbox, this_core>>
      BY <1>4 DEF SendInit, BspAt, Processor
    <2>2. i > 0 /\ current_ap = i - 1
      BY <1>0, <2>1 DEF NumberInv
    <2>3. NumberInv'
      BY <1>0, <2>1, <2>2 DEF NumberInv
    <2>4. StartingInv'
      BY <1>0, <2>1, NoneStarting DEF StartingInv, Starting
    <2>5. MailboxInv'
      BY <1>0, <2>1 DEF MailboxInv
    <2>6. StacksApart' /\ OwnStructure'
      BY <1>0, <2>1 DEF StacksApart, OwnStructure, Started
    <2> QED
      BY <2>3, <2>4, <2>5, <2>6, <1>parts
  <1>5. CASE SendSipi
    <2>1. /\ bsp = "sipi" /\ bsp' = "wait"
          /\ mode' = [mode EXCEPT ![cpus[i].lapic_id] = IF @ = "reset" THEN "trampoline" ELSE @]
          /\ UNCHANGED <<madt, Processor, i, cpus, current_ap, ap_is_ok, stack, mailbox, this_core>>
      BY <1>5 DEF SendSipi, BspAt, Processor
    <2>2. \A p \in Processor : /\ mode'[p] \in Starting <=> mode[p] \in Starting
                               /\ mode'[p] \in {"reset", "trampoline"} => mode[p] \in {"reset", "trampoline"}
                               /\ mode'[p] \in {"ok", "online"} => mode[p] \in {"ok", "online"}
      BY <1>0, <2>1 DEF Starting
    <2>3. NumberInv'
      BY <1>0, <2>1 DEF NumberInv
    <2>4. StartingInv'
      <3>1. \A p \in Processor : mode'[p] \in Starting => p = cpus[i].lapic_id /\ ~ap_is_ok
        BY <1>0, <2>2 DEF StartingInv
      <3>2. /\ bsp' = "wait" /\ Processor' = Processor
            /\ cpus'[i'].lapic_id = cpus[i].lapic_id /\ ap_is_ok' = ap_is_ok
        BY <2>1
      <3> QED
        BY <3>1, <3>2 DEF StartingInv
    <2>5. MailboxInv'
      BY <1>0, <2>1, <2>2 DEF MailboxInv
    <2>6. StacksApart' /\ OwnStructure'
      BY <1>0, <2>1, <2>2 DEF StacksApart, OwnStructure, Started
    <2> QED
      BY <2>3, <2>4, <2>5, <2>6, <1>parts
  <1>6. CASE WaitForAp
    <2>1. /\ bsp = "wait" /\ bsp' = "loop" /\ ap_is_ok /\ i' = i + 1
          /\ UNCHANGED <<madt, Processor, cpus, current_ap, ap_is_ok, mode, stack, mailbox, this_core>>
      BY <1>6 DEF WaitForAp, BspAt, Processor
    <2>2. \A p \in Processor : mode[p] \notin Starting
      BY <1>0, <2>1 DEF StartingInv
    <2>3. NumberInv'
      BY <1>0, <2>1 DEF NumberInv
    <2>4. StartingInv' /\ MailboxInv'
      BY <2>1, <2>2 DEF StartingInv, Starting, MailboxInv
    <2>5. StacksApart' /\ OwnStructure'
      BY <1>0, <2>1 DEF StacksApart, OwnStructure, Started
    <2> QED
      BY <2>3, <2>4, <2>5, <1>parts
  <1>7. CASE Return
    <2>1. /\ bsp = "loop" /\ bsp' = "done"
          /\ UNCHANGED <<madt, Processor, i, cpus, current_ap, ap_is_ok, mode, stack, mailbox, this_core>>
      BY <1>7 DEF Return, BspAt, Processor
    <2>2. NumberInv' /\ StartingInv' /\ MailboxInv'
      BY <1>0, <2>1, NoneStarting DEF NumberInv, StartingInv, Starting, MailboxInv
    <2>3. StacksApart' /\ OwnStructure'
      BY <1>0, <2>1 DEF StacksApart, OwnStructure, Started
    <2> QED
      BY <2>2, <2>3, <1>parts
  <1>8. ASSUME NEW p \in Processor, LoadStack(p) PROVE SepInv'
    <2>1. /\ mode[p] = "trampoline"
          /\ stack' = [stack EXCEPT ![p] = mailbox] /\ mode' = [mode EXCEPT ![p] = "startup"]
          /\ UNCHANGED <<madt, Processor, bsp, i, cpus, current_ap, ap_is_ok, mailbox, this_core>>
      BY <1>8 DEF LoadStack, Processor
    <2>2. bsp = "wait" /\ \A q \in Processor : stack[q] < mailbox
      BY <1>0, <2>1 DEF StartingInv, Starting, MailboxInv
    <2>3. \A q \in Processor \ {p} : mode[q] \notin Starting
      BY <1>0, <2>1 DEF StartingInv, Starting
    <2>4. NumberInv'
      BY <1>0, <2>1 DEF NumberInv
    <2>5. StartingInv' /\ MailboxInv'
      BY <1>0, <2>1, <2>2, <2>3 DEF StartingInv, Starting, MailboxInv
    <2>6. StacksApart'
      BY <1>0, <2>1, <2>2 DEF StacksApart
    <2>7. OwnStructure'
      BY <1>0, <2>1 DEF OwnStructure, Started
    <2> QED
      BY <2>4, <2>5, <2>6, <2>7, <1>parts
  <1>9. ASSUME NEW p \in Processor, SetCurrentCore(p) PROVE SepInv'
    <2>1. /\ mode[p] = "startup"
          /\ this_core' = [this_core EXCEPT ![p] = current_ap] /\ mode' = [mode EXCEPT ![p] = "ok"]
          /\ UNCHANGED <<madt, Processor, bsp, i, cpus, current_ap, ap_is_ok, mailbox, stack>>
      BY <1>9 DEF SetCurrentCore, Processor
    <2>2. bsp = "wait" /\ p = cpus[i].lapic_id /\ i < cores
      BY <1>0, <2>1 DEF StartingInv, Starting, BootTypeInv, BootWalkInv
    <2>3. current_ap = i /\ i \in DOMAIN cpus
      BY <1>0, <2>2, Current DEF NumberInv
    <2>4. NumberInv'
      BY <1>0, <2>1 DEF NumberInv
    <2>5. StartingInv' /\ MailboxInv'
      BY <1>0, <2>1, <2>2 DEF StartingInv, Starting, MailboxInv
    <2>6. StacksApart'
      BY <1>0, <2>1 DEF StacksApart
    <2>7. OwnStructure'
      BY <1>0, <2>1, <2>2, <2>3 DEF OwnStructure, Started
    <2> QED
      BY <2>4, <2>5, <2>6, <2>7, <1>parts
  <1>10. ASSUME NEW p \in Processor, SmpNextAp(p) PROVE SepInv'
    <2>1. /\ mode[p] = "ok" /\ ap_is_ok' = TRUE /\ mode' = [mode EXCEPT ![p] = "online"]
          /\ UNCHANGED <<madt, Processor, bsp, i, cpus, current_ap, mailbox, stack, this_core>>
      BY <1>10 DEF SmpNextAp, Processor
    <2>2. bsp = "wait" /\ \A q \in Processor \ {p} : mode[q] \notin Starting
      BY <1>0, <2>1 DEF StartingInv, Starting
    <2>3. NumberInv'
      BY <1>0, <2>1 DEF NumberInv
    <2>4. StartingInv' /\ MailboxInv'
      BY <1>0, <2>1, <2>2 DEF StartingInv, Starting, MailboxInv
    <2>5. StacksApart'
      BY <1>0, <2>1 DEF StacksApart
    <2>6. OwnStructure'
      BY <1>0, <2>1 DEF OwnStructure, Started
    <2> QED
      BY <2>3, <2>4, <2>5, <2>6, <1>parts
  <1>11. CASE UNCHANGED bootVars
    BY <1>0, <1>11 DEF bootVars, SepInv, NumberInv, StartingInv, MailboxInv, StacksApart,
       OwnStructure, Started, Processor
  <1> QED
    BY <1>1, <1>2, <1>3, <1>4, <1>5, <1>6, <1>7, <1>8, <1>9, <1>10, <1>11
       DEF BootNext, BspStep, ApStep

LEMMA BootInductive ==
  ASSUME BspFirst
  PROVE  BootSpec => []BootInv
  <1>1. BootInit => BootInv
    BY InitTyped, InitSeparate DEF BootInv
  <1>2. BootInv /\ [BootNext]_bootVars => BootInv'
    BY StepTyped, StepSeparate DEF BootInv
  <1> QED
    BY <1>1, <1>2, PTL DEF BootSpec

\* smp_init() and ap_startup(): one processor at a time is started, on a stack
\* and with a structure of its own, in every MADT that lists the BSP first under
\* one number.
THEOREM Separate ==
  ASSUME BspFirst
  PROVE  BootSpec => []StartsSeparately
  <1>1. BootInv => StartsSeparately
    <2> SUFFICES ASSUME BootInv PROVE StartsSeparately
      OBVIOUS
    <2>0. StartingInv /\ MailboxInv /\ StacksApart /\ OwnStructure /\ BootFunctions /\ BootWalkInv
      BY TypeParts DEF BootInv, SepInv, BootTypeInv
    <2> DEFINE starting == {p \in Processor : mode[p] \in {"reset", "trampoline", "startup", "ok"}}
    <2>1. starting = {} \/ starting = {cpus[i].lapic_id}
      BY <2>0 DEF StartingInv, Starting
    <2>2. Cardinality(starting) <= 1
      <3> HIDE DEF starting
      <3>1. Cardinality({}) = 0 /\ Cardinality({cpus[i].lapic_id}) = 1
        BY FS_EmptySet, FS_Singleton
      <3> QED
        BY <2>1, <3>1
    <2>3. bsp \notin {"sipi", "wait"} => starting = {}
      BY <2>0 DEF StartingInv, Starting
    <2>4. ASSUME NEW p \in Processor, NEW q \in Processor, mode[p] = "trampoline"
          PROVE  stack[q] # mailbox
      <3>1. stack[q] < mailbox /\ stack[q] \in Int /\ mailbox \in Int
        <4>1. stack[q] < mailbox
          BY <2>0, <2>4 DEF MailboxInv
        <4>2. nextStack \in Nat /\ stack[q] \in None..(nextStack - 1)
              /\ mailbox \in None..(nextStack - 1)
          BY <2>0 DEF BootFunctions, BootWalkInv
        <4> QED
          BY <4>1, <4>2 DEF None
      <3> QED
        BY <3>1
    <2> QED
      BY <2>0, <2>2, <2>3, <2>4 DEF StartsSeparately, OneAtATime, OwnStack, StacksApart
  <1> QED
    BY BootInductive, <1>1, PTL
=============================================================================
