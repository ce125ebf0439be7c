--------------------------------- MODULE Pmm ---------------------------------
(***************************************************************************)
(* The physical memory manager: arch/x86_64/pmm.c over                     *)
(* generic/memory/bitmap.c, called by any core.                            *)
(*                                                                         *)
(* The first usable region of the boot loader's memory map becomes the     *)
(* bitmap: one set bit per free page.  pmm_alloc() looks for a bit under   *)
(* pmm_lock and clears it after it has released the lock; a bit is cleared *)
(* by a load and a store of its byte, without a lock prefix.  Only as many *)
(* bits are searched as the bitmap has bytes.                              *)
(***************************************************************************)
EXTENDS Integers, Sequences, FiniteSets, FiniteSetsExt

CONSTANTS
    Core,       \* cores that call the memory manager
    MemoryMaps, \* memory maps a boot loader may pass: sequences of regions
    PageSize,   \* PAGE_SIZE, scaled down
    MaxAllocs   \* bound: calls of pmm_alloc(), of all cores

\* A boot loader lists regions in ascending order, without overlap, and the
\* usable ones as whole pages.
Regions(m) == DOMAIN m

ASSUME PmmAssumption ==
    /\ Core \subseteq Nat
    /\ PageSize \in Nat \ {0}
    /\ MaxAllocs \in Nat
    /\ \A m \in MemoryMaps :
          /\ m \in Seq([base : Nat, length : Nat, usable : BOOLEAN])
          /\ \E i \in Regions(m) : m[i].usable
          /\ \A i \in Regions(m) :
                /\ m[i].usable => /\ m[i].base % PageSize = 0
                                  /\ m[i].length % PageSize = 0
                /\ \A j \in Regions(m) :
                      i < j => m[i].base + m[i].length <= m[j].base

VARIABLES
    mmap,    \* memory_map
    bmp,     \* the bits of the bitmap
    buf,     \* bmp.buf: the address of the bitmap
    size,    \* bmp.size, in bytes
    lock,    \* the core that holds pmm_lock, or Unlocked
    pc,      \* of each core
    bit,     \* free_bit, or the bit pmm_free() clears
    byte,    \* the byte a core has loaded: its bits
    live,    \* pages handed out and not freed: [id, addr]
    allocs,  \* calls of pmm_alloc() so far
    status   \* "ok", or "overrun": an access beyond the memory map or bitmap

vars == <<mmap, bmp, buf, size, lock, pc, bit, byte, live, allocs, status>>

Unlocked == -1   \* cores are numbered
NoBit == -1

\* pmm_init() that takes no memory from the bitmap's region.
InitMapWhole(m, b) == m

\* pmm_init(): pmm_shrink() takes the bitmap out of its region b.
InitMap(m, b) ==
    [m EXCEPT ![b].base = m[b].base + m[b].length, ![b].length = 0]

\* The region pmm_init() makes the bitmap of: the first usable one.
BitmapRegion(m) == Min({i \in Regions(m) : m[i].usable})

Init ==
    \E m \in MemoryMaps :
        LET b == BitmapRegion(m) IN
        /\ mmap = InitMap(m, b)
        /\ buf = m[b].base
        /\ size = m[b].length
        /\ bmp = [i \in 0..(8 * m[b].length - 1) |-> TRUE]
        /\ lock = Unlocked
        /\ pc = [c \in Core |-> "idle"]
        /\ bit = [c \in Core |-> NoBit]
        /\ byte = [c \in Core |-> <<>>]
        /\ live = {}
        /\ allocs = 0
        /\ status = "ok"

-----------------------------------------------------------------------------
(* bitmap.c                                                                *)

\* bitmap_find_free(): the bits it looks at.
Searched == {i \in 0..(size - 1) : bmp[i]}

\* The same, with the number of bits as its answer when none is set.
FindFreeOrEnd == IF Searched = {} THEN 8 * size ELSE Min(Searched)

FindFree == IF Searched = {} THEN NoBit ELSE Min(Searched)

\* bitmap_set(bit, false): load the byte.
BitmapLoad(c, i) ==
    byte' = [byte EXCEPT ![c] = [k \in 0..7 |-> bmp[8 * (i \div 8) + k]]]

\* bitmap_set(bit, false): store the byte with the bit cleared.
BitmapStore(c, i) ==
    bmp' = [j \in DOMAIN bmp |->
               IF j \div 8 = i \div 8 THEN j # i /\ byte[c][j % 8] ELSE bmp[j]]

-----------------------------------------------------------------------------
(* pmm_alloc()                                                             *)

Goto(c, l) == pc' = [pc EXCEPT ![c] = l]

Running(c, l) == pc[c] = l /\ status = "ok"

AllocLock(c) ==
    /\ Running(c, "idle") /\ lock = Unlocked /\ allocs < MaxAllocs
    /\ lock' = c
    /\ allocs' = allocs + 1
    /\ Goto(c, "find")
    /\ UNCHANGED <<mmap, bmp, buf, size, bit, byte, live, status>>

\* The regions pmm_alloc() may take a page from.
Roomy == {i \in Regions(mmap) : mmap[i].usable /\ mmap[i].length >= PageSize}

\* Either way the lock is released here, before the bit is cleared.
AllocFind(c) ==
    /\ Running(c, "find")
    /\ lock' = Unlocked
    /\ IF FindFree # NoBit /\ Roomy # {}
       THEN bit' = [bit EXCEPT ![c] = FindFree] /\ Goto(c, "load")
       ELSE Goto(c, "idle") /\ UNCHANGED bit
    /\ UNCHANGED <<mmap, bmp, buf, size, byte, live, allocs, status>>

AllocLoad(c) ==
    /\ Running(c, "load")
    /\ BitmapLoad(c, bit[c])
    /\ Goto(c, "store")
    /\ UNCHANGED <<mmap, bmp, buf, size, lock, bit, live, allocs, status>>

\* pmm_add(): the region its walk from region e ends in; no region if the walk
\* leaves the memory map.
WalkEnds(e, addr) ==
    {i \in Regions(mmap) : i >= e /\ mmap[e].base + addr < mmap[i].base + mmap[i].length + PageSize}

\* pmm_alloc_page() rounds up to a page.
PageUp(a) == ((a + PageSize - 1) \div PageSize) * PageSize

PageOf(i, addr) == PageUp(mmap[i].base + addr)

AllocStore(c) ==
    LET addr == PageSize * bit[c]
        ends == WalkEnds(Min(Roomy), addr)
    IN  /\ Running(c, "store")
        /\ BitmapStore(c, bit[c])
        /\ IF ends = {}
           THEN status' = "overrun" /\ UNCHANGED live
           ELSE /\ live' = live \cup {[id |-> allocs, by |-> c, addr |-> PageOf(Min(ends), addr)]}
                /\ UNCHANGED status
        /\ Goto(c, "idle")
        /\ UNCHANGED <<mmap, buf, size, lock, bit, byte, allocs>>

-----------------------------------------------------------------------------
(* pmm_free()                                                              *)

\* The region of an address: the last usable one it is in, or at the end of.
RegionsOf(a) ==
    {i \in Regions(mmap) : /\ mmap[i].usable
                           /\ mmap[i].base <= a /\ a <= mmap[i].base + mmap[i].length}

\* The bit is chosen by the address in bytes.
FreeLock(c, p) ==
    LET b == p.addr - mmap[Max(RegionsOf(p.addr))].base IN
    /\ Running(c, "idle") /\ lock = Unlocked
    /\ live' = live \ {p}
    /\ IF RegionsOf(p.addr) = {}
       THEN UNCHANGED <<lock, pc, bit, status>>
       ELSE IF b \notin DOMAIN bmp
       THEN status' = "overrun" /\ UNCHANGED <<lock, pc, bit>>
       ELSE /\ lock' = c
            /\ bit' = [bit EXCEPT ![c] = b]
            /\ Goto(c, "freeload")
            /\ UNCHANGED status
    /\ UNCHANGED <<mmap, bmp, buf, size, byte, allocs>>

FreeLoad(c) ==
    /\ Running(c, "freeload")
    /\ BitmapLoad(c, bit[c])
    /\ Goto(c, "freestore")
    /\ UNCHANGED <<mmap, bmp, buf, size, lock, bit, live, allocs, status>>

\* pmm_free() that sets the bit it has computed.
FreeStoreSet(c) ==
    /\ Running(c, "freestore")
    /\ bmp' = [bmp EXCEPT ![bit[c]] = TRUE]
    /\ lock' = Unlocked
    /\ Goto(c, "idle")
    /\ UNCHANGED <<mmap, buf, size, bit, byte, live, allocs, status>>

\* pmm_free() clears the bit, as pmm_alloc() does.
FreeStore(c) ==
    /\ Running(c, "freestore")
    /\ BitmapStore(c, bit[c])
    /\ lock' = Unlocked
    /\ Goto(c, "idle")
    /\ UNCHANGED <<mmap, buf, size, bit, byte, live, allocs, status>>

Next ==
    \E c \in Core :
        \/ AllocLock(c)
        \/ AllocFind(c)
        \/ AllocLoad(c)
        \/ AllocStore(c)
        \/ \E p \in live : FreeLock(c, p)
        \/ FreeLoad(c)
        \/ FreeStore(c)

Spec == Init /\ [][Next]_vars

-----------------------------------------------------------------------------
(* Properties                                                              *)

Quiet == \A c \in Core : pc[c] = "idle"

TypeOK ==
    /\ \A i \in Regions(mmap) : mmap[i] \in [base : Nat, length : Nat, usable : BOOLEAN]
    /\ buf \in Nat /\ size \in Nat
    /\ bmp \in [0..(8 * size - 1) -> BOOLEAN]
    /\ lock \in Core \cup {Unlocked}
    /\ pc \in [Core -> {"idle", "find", "load", "store", "freeload", "freestore"}]
    /\ bit \in [Core -> {NoBit} \cup DOMAIN bmp]
    /\ byte \in [Core -> {<<>>} \cup [0..7 -> BOOLEAN]]
    /\ \A p \in live : p.id \in 1..MaxAllocs /\ p.by \in Core /\ p.addr \in Nat
    /\ allocs \in 0..MaxAllocs
    /\ status \in {"ok", "overrun"}

\* pmm_alloc(), pmm_add(): no two pages that are in use overlap.
PagesDisjoint ==
    \A p, q \in live : p # q => \/ p.addr + PageSize <= q.addr
                                \/ q.addr + PageSize <= p.addr

\* pmm_init(), pmm_shrink(): no page in use overlaps the bitmap itself.
BitmapNotHandedOut ==
    \A p \in live : p.addr >= buf + size \/ p.addr + PageSize <= buf

\* What pmm_alloc() returns overlaps nothing that is in use: neither another
\* page nor the bitmap, whatever was freed before.
PagesApart == PagesDisjoint /\ BitmapNotHandedOut

\* pmm.c:93, "Free a whole page of memory": once every page has been freed the
\* next pmm_alloc() finds one.
FreeMakesRoom == Quiet /\ live = {} => Searched # {}

\* pmm.c:50, "while respecting its size": a page in use lies in a usable region.
PagesUsable ==
    \A p \in live : \E i \in Regions(mmap) :
        /\ mmap[i].usable
        /\ mmap[i].base <= p.addr /\ p.addr + PageSize <= mmap[i].base + mmap[i].length

=============================================================================
