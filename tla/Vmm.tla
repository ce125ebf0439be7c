--------------------------------- MODULE Vmm ---------------------------------
(***************************************************************************)
(* The virtual memory manager, arch/x86_64/vmm.c, with its callers in      *)
(* context.c, mmu.c, elf.c and the task switch.                            *)
(*                                                                         *)
(* mem is physical memory as far as it holds page tables: four levels of   *)
(* them, walked and filled entry by entry as map_page() does.  A call of   *)
(* the memory manager is one step: only the BSP makes any, and a timer     *)
(* interrupt in the middle of one either touches none of this or leaves    *)
(* for a user task for good.                                               *)
(*                                                                         *)
(* pmm_alloc_page() answers 0 when it has no page left, and no caller      *)
(* looks: frame 0 becomes its table or page.  pmm_free() may clear a bit   *)
(* outside of its bitmap; after that, as after a segment that was copied   *)
(* over a table, the module makes no further step and promises nothing.    *)
(***************************************************************************)
EXTENDS Integers, FiniteSets, FiniteSetsExt

CONSTANTS
    Cpu, Bsp,       \* processors, and the one that runs main()
    Frame,          \* the frames pmm_alloc_page() hands out, of one region
    BitmapFrame,    \* the first frame of the region that is pmm.c's bitmap
    BitmapPages,    \* its length
    Entries,        \* entries of a table (512)
    LowPages,       \* pages of the identity mapping (4 GB)
    PhysOffset,     \* MEM_PHYS_OFFSET, in pages
    KernOffset,     \* MEM_KERN_OFFSET
    KernPages,      \* pages from there on (2 GB)
    HeapLow,        \* KERNEL_HEAP_LOW
    HeapPages,      \* HEAP_PAGES
    StackLow,       \* PROC_STACK_LOW
    StackPages,     \* PROC_STACK_SIZE
    ProcHeapLow,    \* PROC_HEAP_LOW
    ProcHeapPages,  \* PROC_HEAP_SIZE
    PageBytes,      \* PAGE_SIZE
    Segments,       \* loadable segments: [page, pages, bss]
    Device,         \* pages below 4 GB with device registers
    MaxCalls        \* bound: calls of the BSP

Root == Entries - 1
Low == 0..(LowPages - 1)

\* Physical memory, as far as the model looks at it.
Frames == Frame \cup Low

ASSUME VmmAssumption ==
    /\ Bsp \in Cpu
    /\ IsFiniteSet(Frame) /\ Frame \subseteq Nat \ {0}
    /\ {Entries, LowPages, PhysOffset, KernOffset, KernPages, HeapLow, HeapPages, PageBytes}
          \subseteq Nat \ {0}
    /\ {StackLow, StackPages, ProcHeapLow, ProcHeapPages} \subseteq Nat \ {0}
    /\ \A s \in Segments : s.page \in Nat /\ s.pages \in Nat \ {0} /\ s.bss \in BOOLEAN
    /\ Device \subseteq Low
    /\ {BitmapFrame, BitmapPages} \subseteq Nat
    /\ MaxCalls \in Nat

\* The layout of an address space: the identity mapping, the heap of the kernel
\* above it and the memory of the task lie below the view of physical memory,
\* and that below the kernel.
ASSUME VmmLayout ==
    /\ LowPages <= HeapLow /\ HeapLow + HeapPages <= PhysOffset
    /\ StackLow + StackPages <= PhysOffset /\ ProcHeapLow + ProcHeapPages <= PhysOffset
    /\ \A s \in Segments : s.page + PageBytes * s.pages <= PhysOffset
    /\ PhysOffset + LowPages <= KernOffset /\ KernPages <= LowPages
    /\ KernOffset + KernPages <= Entries * Entries * Entries * Entries

VARIABLES
    mem,      \* physical memory: frame -> table
    free,     \* the frames that are not allocated
    pml4,     \* the kernel's own tables
    roots,    \* page_table of every context there is
    cr3,      \* of each core
    isBsp,    \* this_core->is_bsp of each core
    left,     \* cores that have switched to a user task
    calls,    \* calls of the BSP so far
    outcome    \* "ok"; "starved": a call found no free page;
              \* "overwritten": a segment was written over a table;
              \* "overrun": pmm_free() wrote outside the bitmap

vmmVars == <<mem, free, pml4, roots, cr3, isBsp, left, calls, outcome>>

\* A table entry: a frame, the present bit and the user bit.
Entry == [to : Frames, p : BOOLEAN, u : BOOLEAN]
Table == [0..(Entries - 1) -> Entry]

Empty == [i \in 0..(Entries - 1) |-> [to |-> 0, p |-> FALSE, u |-> FALSE]]

\* Memory that nobody has cleared: any entry would do, one that is present and
\* leads to frame 0 does most harm.
Dirty == [i \in 0..(Entries - 1) |-> [to |-> 0, p |-> TRUE, u |-> TRUE]]

-----------------------------------------------------------------------------
(* Tables.  A walk w is [mem, free, at, short]: memory, the table it has    *)
(* come to, and whether an allocation failed on its way.                   *)

PmmAllocPage(w) == IF w.free = {} THEN 0 ELSE Min(w.free)

Taken(w) == [w EXCEPT !.free = @ \ {PmmAllocPage(w)}, !.short = @ \/ w.free = {}]

\* next_level_or_alloc() that allocates a table in any case.
NextLevelAlways(w, e, user) ==
    LET f == PmmAllocPage(w) IN
    [Taken(w) EXCEPT !.at = f,
                     !.mem = [[@ EXCEPT ![f] = Empty] EXCEPT
                                 ![w.at][e] = [to |-> f, p |-> TRUE, u |-> user]]]

\* next_level_or_alloc(): an entry that is there keeps its flags.
NextLevel(w, e, user) ==
    LET f == PmmAllocPage(w) IN
    IF w.mem[w.at][e].p
    THEN [w EXCEPT !.at = w.mem[w.at][e].to]
    ELSE [Taken(w) EXCEPT !.at = f,
                          !.mem = [[@ EXCEPT ![f] = Empty] EXCEPT
                                      ![w.at][e] = [to |-> f, p |-> TRUE, u |-> user]]]

\* The index of page v into its table of level l, 1 being the last.
Above(v) == v \div Entries

Index(v, l) == <<v, Above(v), Above(Above(v)), Above(Above(Above(v)))>>[l] % Entries

\* map_page() to the entry phys, whose flags are or-ed in.
MapPage(w, pml, v, phys, user) ==
    LET w3 == NextLevel([w EXCEPT !.at = pml], Index(v, 4), user)
        w2 == NextLevel(w3, Index(v, 3), user)
        w1 == NextLevel(w2, Index(v, 2), user)
    IN  [w1 EXCEPT !.mem[w1.at][Index(v, 1)] = [to |-> phys.to, p |-> TRUE, u |-> user \/ phys.u]]

Phys(f) == [to |-> f, p |-> FALSE, u |-> FALSE]

\* A new frame for page v.
MapNew(w, pml, v, user) == MapPage(Taken(w), pml, v, Phys(PmmAllocPage(w)), user)

\* user_virt_map() with the allocation before the loop.
UserVirtMapOneFrame(w, pml, base, n) ==
    LET x[i \in 0..n] ==
            IF i = 0 THEN Taken(w) ELSE MapPage(x[i - 1], pml, base + i - 1, Phys(PmmAllocPage(w)), TRUE)
    IN  x[n]

\* n new frames for the pages from base on.
MapRange(w, pml, base, n, user) ==
    LET x[i \in 0..n] == IF i = 0 THEN w ELSE MapNew(x[i - 1], pml, base + i - 1, user)
    IN  x[n]

UserVirtMap(w, pml, base, n) == MapRange(w, pml, base, n, TRUE)

\* map_spec(), the first loop: a low page in both of its places.
MapBoth(w, pml, i) ==
    MapPage(MapPage(w, pml, PhysOffset + i, Phys(i), FALSE), pml, i, Phys(i), FALSE)

MapLow(w, pml) ==
    LET x[i \in 0..LowPages] == IF i = 0 THEN w ELSE MapBoth(x[i - 1], pml, i - 1)
    IN  x[LowPages]

\* The second loop.
MapKern(w, pml) ==
    LET x[i \in 0..KernPages] ==
            IF i = 0 THEN w ELSE MapPage(x[i - 1], pml, KernOffset + i - 1, Phys(i - 1), FALSE)
    IN  x[KernPages]

MapSpec(w, pml) == MapKern(MapLow(w, pml), pml)

\* copy_page(): the index of the last level, into the table of the first.
CopyPage(w, src, dst, v) == MapPage(w, dst, v, w.mem[src][Index(v, 1)], FALSE)

\* map_kernel(), "Copy heap over".
CopyHeap(w, src, dst) ==
    LET x[i \in 0..HeapPages] == IF i = 0 THEN w ELSE CopyPage(x[i - 1], src, dst, HeapLow + i - 1)
    IN  x[HeapPages]

\* A root that has the recursive entry with the present bit.
NewRootPresent(w, pml) ==
    [w EXCEPT !.mem[pml] = [Empty EXCEPT ![Root] = [to |-> pml, p |-> TRUE, u |-> FALSE]]]

\* A cleared root, with the recursive entry: an address without flags.
NewRoot(w, pml) ==
    [w EXCEPT !.mem[pml] = [Empty EXCEPT ![Root] = [to |-> pml, p |-> FALSE, u |-> FALSE]]]

\* The spaces there are.
Spaced == roots \cup {pml4}

Walk == [mem |-> mem, free |-> free, at |-> 0, short |-> FALSE]

-----------------------------------------------------------------------------
(* The calls                                                               *)

\* vmm_init(), with a root of its own.
Booted(w, root) ==
    MapRange(MapSpec(NewRoot(Taken(w), root), root), root, HeapLow, HeapPages, FALSE)

\* vmm_init(): after it.  The structures of the APs are pool memory, which is
\* not cleared, so that their is_bsp is anything.  With one core smp_init()
\* returns before it sets that of the BSP, whose structure nobody cleared either.
VmmInit ==
    LET w0   == [mem |-> [f \in Frames |-> Dirty], free |-> Frame, at |-> 0, short |-> FALSE]
        root == PmmAllocPage(w0)
        w    == Booted(w0, root)
    IN  /\ mem = w.mem /\ free = w.free /\ pml4 = root
        /\ roots = {}
        /\ cr3 = [c \in Cpu |-> root]
        /\ isBsp \in {b \in [Cpu -> BOOLEAN] : Cardinality(Cpu) > 1 => b[Bsp]}
        /\ left = {}
        /\ calls = 0
        /\ outcome = IF w.short THEN "starved" ELSE "ok"

\* The kernel has not written where it should not have.
Intact == outcome \notin {"overwritten", "overrun"}

\* The kernel thread of the BSP runs.
InKernel == Bsp \notin left /\ Intact /\ calls < MaxCalls

\* The state after the call that walked w.
Done(w) ==
    /\ mem' = w.mem /\ free' = w.free
    /\ calls' = calls + 1
    /\ outcome' = IF w.short THEN "starved" ELSE outcome

\* mmap_current(), madt_init(): a device below 4 GB, in the kernel's tables.
MmapCurrent(d) ==
    /\ InKernel
    /\ Done(MapPage(Walk, pml4, d, Phys(d), FALSE))
    /\ UNCHANGED <<pml4, roots, cr3, isBsp, left>>

\* vmm_init_pml() and the memory of a task, on the root pml.
Created(w, pml) ==
    UserVirtMap(UserVirtMap(CopyHeap(MapSpec(NewRoot(Taken(w), pml), pml), pml4, pml),
                            pml, StackLow, StackPages),
                pml, ProcHeapLow, ProcHeapPages)

\* vmalloc(), for a new context.
Vmalloc ==
    LET pml == PmmAllocPage(Walk)
        w   == Created(Walk, pml)
    IN  /\ InKernel
        /\ Done(w)
        /\ roots' = roots \cup {pml}
        /\ UNCHANGED <<pml4, cr3, isBsp, left>>

\* What the processor finds for page v from the root r: the entries of the
\* four levels.
EntriesOf(m, r, v) ==
    LET e4 == m[r][Index(v, 4)]
        e3 == m[e4.to][Index(v, 3)]
        e2 == m[e3.to][Index(v, 2)]
    IN  <<e4, e3, e2, m[e2.to][Index(v, 1)]>>

Present(m, r, v) ==
    LET e4 == m[r][Index(v, 4)]
        e3 == m[e4.to][Index(v, 3)]
        e2 == m[e3.to][Index(v, 2)]
    IN  e4.p /\ e3.p /\ e2.p /\ m[e2.to][Index(v, 1)].p

Unmapped == [to |-> 0, u |-> FALSE, p |-> FALSE]

\* The mapping of v from root r.
Translate(m, r, v) == IF Present(m, r, v) THEN EntriesOf(m, r, v)[4] ELSE Unmapped

\* The entries of the tables S that lead on, and where to.
Links(m, S) == {x \in S \X (0..(Entries - 1)) : m[x[1]][x[2]].p}

Below(m, S) == {m[x[1]][x[2]].to : x \in Links(m, S)}

\* The tables of the levels 4 to 2 of the space r, and all of its tables.
UpperTables(m, r) ==
    LET l3 == Below(m, {r}) IN {r} \cup l3 \cup Below(m, l3)

Tables(m, r) == UpperTables(m, r) \cup Below(m, UpperTables(m, r))

\* elf_load(), one segment: user_virt_map() gets its length in bytes, and the
\* bytes are written (if any: bss) at its address in the current space.
LoadSegment(r, s) ==
    LET w == UserVirtMap(Walk, r, s.page, PageBytes * s.pages)
        written == {Translate(w.mem, cr3[Bsp], v).to : v \in s.page..(s.page + s.pages - 1)}
    IN  /\ InKernel
        /\ mem' = w.mem /\ free' = w.free /\ calls' = calls + 1
        /\ outcome' = IF s.bss /\ \E q \in Spaced : written \cap Tables(w.mem, q) # {}
                     THEN "overwritten" ELSE IF w.short THEN "starved" ELSE outcome
        /\ UNCHANGED <<pml4, roots, cr3, isBsp, left>>

\* pmm_free() takes the offset of a page in bytes for the number of its bit.  The
\* byte of that bit is an eighth of the offset behind the start of the bitmap: in
\* this frame, at this entry of it if it is a table, and the bit is the entry's
\* lowest, the present bit.
OffsetOf(r) == r - Min(Frame)
FrameOfBit(r) == BitmapFrame + OffsetOf(r) \div 8
EntryOfBit(r) == (Entries * (OffsetOf(r) % 8)) \div 8

\* The page that is handed out for that bit.
PageOfBit(r) == Min(Frame) + PageBytes * OffsetOf(r)

InBitmap(r) == r \in Frame /\ FrameOfBit(r) < BitmapFrame + BitmapPages

\* The present bit of entry e of frame f is cleared, if f is looked at.
ClearPresent(f, e) == mem' = IF f \in Frames THEN [mem EXCEPT ![f][e].p = FALSE] ELSE mem

\* vfree() with a pmm_free() that sets the bit it has computed.
VfreeSets(r) ==
    /\ InKernel /\ r \notin {cr3[c] : c \in Cpu}
    /\ roots' = roots \ {r} /\ calls' = calls + 1
    /\ free' = free \cup {PageOfBit(r)}
    /\ UNCHANGED <<mem, pml4, cr3, isBsp, left, outcome>>

\* vfree(): pmm_free() makes no frame free.  It clears the bit it has computed,
\* wherever that is; frame 0 is in no region, and nothing happens to it.
Vfree(r) ==
    /\ InKernel /\ r \notin {cr3[c] : c \in Cpu}
    /\ roots' = roots \ {r} /\ calls' = calls + 1
    /\ \/ r \notin Frame /\ UNCHANGED <<mem, free, outcome>>
       \/ InBitmap(r) /\ free' = free \ {PageOfBit(r)} /\ UNCHANGED <<mem, outcome>>
       \/ /\ r \in Frame /\ ~InBitmap(r)
          /\ ClearPresent(FrameOfBit(r), EntryOfBit(r))
          /\ outcome' = "overrun" /\ UNCHANGED free
    /\ UNCHANGED <<pml4, cr3, isBsp, left>>

\* save_task_context_and_switch() to a task with the tables r.
Switch(c, r) ==
    /\ c \notin left /\ Intact
    /\ left' = left \cup {c}
    /\ cr3' = [cr3 EXCEPT ![c] = IF isBsp[c] THEN r ELSE @]
    /\ UNCHANGED <<mem, free, pml4, roots, isBsp, calls, outcome>>

VmmNext ==
    \/ \E d \in Device : MmapCurrent(d)
    \/ Vmalloc
    \/ \E r \in roots :
          \/ \E s \in Segments : LoadSegment(r, s)
          \/ Vfree(r)
          \/ \E c \in Cpu : Switch(c, r)

VmmSpec == VmmInit /\ [][VmmNext]_vmmVars

-----------------------------------------------------------------------------
(* Properties                                                              *)

VmmTypeOK ==
    /\ mem \in [Frames -> Table]
    /\ free \subseteq Frame
    /\ pml4 \in Frames /\ roots \subseteq Frames
    /\ cr3 \in [Cpu -> roots \cup {pml4}]
    /\ isBsp \in [Cpu -> BOOLEAN]
    /\ left \subseteq Cpu /\ calls \in 0..MaxCalls
    /\ outcome \in {"ok", "starved", "overwritten", "overrun"}

\* The pages map_spec() maps above the user's half, to their frames.
KernelHalf ==
    [v \in {PhysOffset + i : i \in Low} \cup {KernOffset + i : i \in 0..(KernPages - 1)} |->
        [to |-> IF v >= KernOffset THEN v - KernOffset ELSE v - PhysOffset, p |-> TRUE, u |-> FALSE]]

\* vmm.c:53, "Map all memory needed by the processor": whatever space a core is
\* in, the kernel's code and the view of physical memory are where they were,
\* and not for users.
KernelStaysMapped ==
    outcome = "ok" => \A r \in Spaced, v \in DOMAIN KernelHalf :
        Translate(mem, r, v) = KernelHalf[v]

\* next_level_or_alloc(), pmm_alloc_page(): the tables of a space are a tree of
\* allocated frames (one more than there are links), and no two spaces share one.
TablesAreTrees ==
    outcome = "ok" => \A r \in Spaced :
        /\ Tables(mem, r) \cap (free \cup {0}) = {}
        /\ \A q \in Spaced \ {r} : Tables(mem, r) \cap Tables(mem, q) = {}
        /\ Cardinality(Tables(mem, r)) = 1 + Cardinality(Links(mem, UpperTables(mem, r)))

VPages == Low \cup DOMAIN KernelHalf \cup (HeapLow..(HeapLow + HeapPages - 1))
             \cup (StackLow..(StackLow + StackPages - 1))
             \cup (ProcHeapLow..(ProcHeapLow + ProcHeapPages - 1))
             \cup UNION {s.page..(s.page + PageBytes * s.pages - 1) : s \in Segments}

\* The spaces as their users see them.
Spaces == [r \in (IF outcome = "ok" THEN Spaced ELSE {}) |-> [v \in VPages |-> Translate(mem, r, v)]]

\* The tables implement address spaces: a call changes one of them, the
\* kernel's half is in all, and no frame serves two users.
AS == INSTANCE AddressSpaces WITH VPage <- VPages, fixed <- KernelHalf, space <- Spaces

ImplementsSpaces == AS!Spec

\* vmm.c:83, "Copy heap over": the kernel's heap is the same in every space.
HeapShared ==
    \A r \in Spaced : \A v \in HeapLow..(HeapLow + HeapPages - 1) :
        Translate(mem, r, v).to = Translate(mem, pml4, v).to

\* A page that is the user's is one the processor lets the user reach.
UserReaches ==
    \A r \in Spaced : \A v \in VPages :
        Translate(mem, r, v).u => \A l \in 1..4 : EntriesOf(mem, r, v)[l].u

\* A failed allocation harms no space that was there before: the kernel's tables
\* stay frames that were allocated.
KernelSurvivesExhaustion == Tables(mem, pml4) \subseteq Frame

\* elf.c writes a segment nowhere but into memory of its task.
SegmentsOverwriteNothing == outcome # "overwritten"

\* pmm.c:93, "Free a whole page of memory": it changes nothing but the bitmap.
FreeStaysInBitmap == outcome # "overrun"

\* task.c:232: a core that runs a task is in its space.
RunsInOwnSpace == \A c \in left : cr3[c] # pml4
=============================================================================
