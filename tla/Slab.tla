-------------------------------- MODULE Slab --------------------------------
(***************************************************************************)
(* The kernel's slab allocator: generic/malloc/malloc.c over the watermark *)
(* heap of generic/malloc/mmu.c.                                           *)
(*                                                                         *)
(* A slab keeps a linked list of pages, here the sequence of their numbers *)
(* from slab->pages on, and a length that counts what may still be popped. *)
(* Three habits of the code shape every behaviour: the page at the head of *)
(* the list is never handed out, slab_remove_page leaves the LAST page in  *)
(* the list, and slab_push_page does not give its page back to length.     *)
(*                                                                         *)
(* Each call is one step here: every entry point runs under a lock of its  *)
(* own.  Calls of different entry points racing on the same slab are left  *)
(* out of this module.                                                     *)
(***************************************************************************)
EXTENDS Integers, FiniteSets, SequencesExt, FiniteSetsExt

CONSTANTS
    Initial,     \* SLAB_PAGES_INITIAL: pages added to a slab at a time
    KmallocSlabs,\* KMALLOC_SLABS: the small slabs, of 64, 128, 256... bytes
    HeapBytes,   \* HEAP_PAGES * PAGE_SIZE: the heap mmu_alloc hands out
    Requests,    \* bound: the sizes the callers ask kmalloc for
    PoolSizes,   \* bound: the object sizes of the pools
    MaxPools,    \* bound: pools that are created
    MaxLive      \* bound: blocks the callers hold at once

ASSUME SlabAssumption ==
    /\ Initial \in Nat \ {0} /\ KmallocSlabs \in Nat \ {0, 1}
    /\ HeapBytes \in Nat /\ MaxPools \in Nat /\ MaxLive \in Nat
    /\ Requests \subseteq Nat \ {0} /\ PoolSizes \subseteq Nat \ {0}

VARIABLES
    heap,    \* slabs in creation order, the size of every page, the watermark
    kslabs,  \* kmalloc_slabs: a slab number, 0 before the first kmalloc
    pools,   \* the slabs that belong to object pools
    live,    \* the blocks that were handed out and not yet freed
    status   \* "ok", "panic", or "undefined" after a NULL dereference

vars == <<heap, kslabs, pools, live, status>>

\* sizeof of struct malloc_page, malloc_header, malloc_slab and object_pool.
PageBytes   == 16
HeaderBytes == 32
SlabBytes   == 40
PoolBytes   == 24

SmallSize(i) == 64 * 2^(i - 1)
SlabsTop == SmallSize(KmallocSlabs)

-----------------------------------------------------------------------------
(* Slabs and pages                                                         *)

\* n pages for slab s, taken from the heap: a list node and a block with its
\* header for each.
NewPages(h, s, n) ==
    [h EXCEPT !.pages = @ \o [i \in 1..n |-> [slab |-> s, size |-> h.slabs[s].size]],
              !.ap = @ + n * (PageBytes + HeaderBytes + h.slabs[s].size)]

PageIds(h, n) == [i \in 1..n |-> Len(h.pages) + i]

\* slab_create(): one page, then the initial ones; length counts the first too.
CreateSlab(h, size) ==
    LET slab == [pages |-> PageIds(h, Initial + 1), length |-> Initial + 1,
                 size |-> size, realloc |-> FALSE]
    IN  NewPages([h EXCEPT !.slabs = Append(@, slab), !.ap = @ + SlabBytes],
                 Len(h.slabs) + 1, Initial + 1)

\* Where a page of a list is.
Place(list, p) == CHOOSE i \in 1..Len(list) : list[i] = p

\* A removal that also takes the last page off the list.
RemoveAny(list, p) == RemoveAt(list, Place(list, p))

\* A removal that takes a page with a successor for the last one.
RemoveNone(list, p) == list

\* slab_remove_page(): a page that has no successor is not removed.
RemovePage(list, p) == IF p = Last(list) THEN list ELSE RemoveAt(list, Place(list, p))

\* slab_push_page() that forgets page->next = NULL on a page still linked.
PushKeepNext(list, p) ==
    IF p \in ToSet(list) THEN list \o <<p>> ELSE Append(list, p)

\* slab_push_page(): the page becomes the tail and loses its successor, so a
\* page that is still linked cuts off what followed it.
Push(list, p) ==
    IF p \in ToSet(list)
    THEN SubSeq(list, 1, Place(list, p))
    ELSE Append(list, p)

\* slab_append_pages_to_page(slab, slab->pages, SLAB_PAGES_INITIAL): the new
\* pages are linked to the first one, the rest of the old list is lost.
Refill(h, s) ==
    NewPages([h EXCEPT !.slabs[s].pages = <<Head(@)>> \o PageIds(h, Initial),
                       !.slabs[s].length = @ + Initial], s, Initial)

\* The realloc case of slab_pop_page() without the reset of length.
DropAllKeepLength(h, s) ==
    [h EXCEPT !.slabs[s].pages = <<Head(@), Last(@)>>, !.slabs[s].realloc = FALSE]

\* The realloc case of slab_pop_page(): every page but the first and the last
\* is removed.
DropAll(h, s) ==
    [h EXCEPT !.slabs[s].pages = <<Head(@), Last(@)>>,
              !.slabs[s].realloc = FALSE, !.slabs[s].length = 0]

\* slab_pop_page() that takes the first page of the list.
PopHead(h, s) ==
    LET d == IF h.slabs[s].realloc THEN DropAll(h, s) ELSE h
        r == IF d.slabs[s].length > 0 THEN d ELSE Refill(d, s)
        p == Head(r.slabs[s].pages)
    IN  [heap |-> [r EXCEPT !.slabs[s].pages = RemovePage(@, p), !.slabs[s].length = @ - 1],
         page |-> p,
         true |-> r.slabs[s].size + HeaderBytes]

\* slab_pop_page(): the second page of the list, after a refill if length is 0.
\* Its header receives the slab's size.
Pop(h, s) ==
    LET d == IF h.slabs[s].realloc THEN DropAll(h, s) ELSE h
        r == IF d.slabs[s].length > 0 THEN d ELSE Refill(d, s)
        p == r.slabs[s].pages[2]
    IN  [heap |-> [r EXCEPT !.slabs[s].pages = RemovePage(@, p), !.slabs[s].length = @ - 1],
         page |-> p,
         true |-> r.slabs[s].size + HeaderBytes]

\* slab_free(): back to the slab the header names.
FreePage(h, p) == [h EXCEPT !.slabs[h.pages[p].slab].pages = Push(@, p)]

-----------------------------------------------------------------------------
(* The entry points                                                        *)

\* A block the caller receives: its page, which owner of that page this is, the
\* recorded true_size and the size the caller asked for.
Block(bs, got, n) ==
    LET ids == {b.id : b \in {c \in bs : c.page = got.page}}
    IN  [id |-> Min((1..(Cardinality(bs) + 1)) \ ids),
         page |-> got.page, true |-> got.true, want |-> n]

\* The caller's block b becomes the block it got in exchange.
Replace(b, got, n) == (live \ {b}) \cup {Block(live, got, n)}

\* mmu_alloc() without its limit.
CommitNoLimit(h, bs, ps, ks) ==
    heap' = h /\ live' = bs /\ pools' = ps /\ kslabs' = ks /\ status' = "ok"

\* mmu_alloc() panics when the watermark would reach the end of the heap.
Commit(h, bs, ps, ks) ==
    IF h.ap < HeapBytes
    THEN heap' = h /\ live' = bs /\ pools' = ps /\ kslabs' = ks /\ status' = "ok"
    ELSE status' = "panic" /\ UNCHANGED <<heap, live, pools, kslabs>>

NullDereference == status' = "undefined" /\ UNCHANGED <<heap, kslabs, pools, live>>

\* The heap after kmalloc() has made sure that its small slabs exist.
WithSmallSlabs ==
    LET chain[i \in 0..KmallocSlabs] ==
            IF i = 0 THEN heap ELSE CreateSlab(chain[i - 1], SmallSize(i))
    IN  IF kslabs # 0 THEN heap ELSE chain[KmallocSlabs]

FirstSmall == IF kslabs # 0 THEN kslabs ELSE Len(heap.slabs) + 1

\* The slabs kmalloc(n) looks at: a request above the largest small slab first
\* moves kmalloc_slabs to a new slab at the end of the chain.
SlabsFor(n) ==
    IF n > SlabsTop
    THEN LET h == CreateSlab(WithSmallSlabs, n) IN [heap |-> h, first |-> Len(h.slabs)]
    ELSE [heap |-> WithSmallSlabs, first |-> FirstSmall]

\* slab_pick_and_allocate() is passed KMALLOC_SLABS - 1 slabs.
Considered(first) == first..(first + KmallocSlabs - 2)

Fitting(h, first, n) == {s \in Considered(first) : h.slabs[s].size >= n}

\* Running off the chain is a NULL dereference, and so is finding no slab.
KmallocFaults(n) ==
    LET k == SlabsFor(n)
    IN  \/ ~(Considered(k.first) \subseteq 1..Len(k.heap.slabs))
        \/ Fitting(k.heap, k.first, n) = {}

\* The slab slab_pick_and_allocate() chooses: the smallest, the first of equals.
BestFit(h, S) ==
    CHOOSE s \in S : \A t \in S :
        \/ h.slabs[s].size < h.slabs[t].size
        \/ h.slabs[s].size = h.slabs[t].size /\ s <= t

KmallocPop(n) ==
    LET k == SlabsFor(n) IN Pop(k.heap, BestFit(k.heap, Fitting(k.heap, k.first, n)))

\* kmalloc(n).
Kmalloc(n) ==
    /\ status = "ok" /\ Cardinality(live) < MaxLive
    /\ IF KmallocFaults(n) THEN NullDereference
       ELSE LET got == KmallocPop(n)
            IN  Commit(got.heap, live \cup {Block(live, got, n)}, pools, SlabsFor(n).first)

\* kfree(b): callers free the blocks they own.
Kfree(b) ==
    /\ status = "ok" /\ b \in live
    /\ heap.pages[b.page].slab \notin pools
    /\ heap' = FreePage(heap, b.page)
    /\ live' = live \ {b}
    /\ UNCHANGED <<kslabs, pools, status>>

\* krealloc(b, n): the block is kept when n is at most the recorded true_size,
\* else its contents move to a new one and it is freed.
Krealloc(b, n) ==
    /\ status = "ok" /\ b \in live
    /\ heap.pages[b.page].slab \notin pools
    /\ IF n <= b.true
       THEN live' = (live \ {b}) \cup {[b EXCEPT !.want = n]}
            /\ UNCHANGED <<heap, kslabs, pools, status>>
       ELSE IF KmallocFaults(n) THEN NullDereference
       ELSE LET got == KmallocPop(n)
            IN  Commit(FreePage(got.heap, b.page), Replace(b, got, n), pools, SlabsFor(n).first)

\* pool_create(): a slab of the pool's own at the end of the chain.
PoolCreate(size) ==
    /\ status = "ok" /\ Cardinality(pools) < MaxPools
    /\ LET h == CreateSlab([heap EXCEPT !.ap = @ + PoolBytes], size)
       IN  Commit(h, live, pools \cup {Len(h.slabs)}, kslabs)

\* pool_alloc().
PoolAlloc(s) ==
    /\ status = "ok" /\ s \in pools /\ Cardinality(live) < MaxLive
    /\ LET got == Pop(heap, s)
       IN  Commit(got.heap, live \cup {Block(live, got, heap.slabs[s].size)}, pools, kslabs)

\* pool_free().
PoolFree(b) ==
    /\ status = "ok" /\ b \in live
    /\ heap.pages[b.page].slab \in pools
    /\ heap' = FreePage(heap, b.page)
    /\ live' = live \ {b}
    /\ UNCHANGED <<kslabs, pools, status>>

\* pool_realloc(): a larger size becomes the size of the whole pool, whose
\* pages are all replaced by the next pop.
PoolRealloc(b, n) ==
    /\ status = "ok" /\ b \in live
    /\ heap.pages[b.page].slab \in pools
    /\ IF n <= b.true
       THEN live' = (live \ {b}) \cup {[b EXCEPT !.want = n]}
            /\ UNCHANGED <<heap, kslabs, pools, status>>
       ELSE LET s   == heap.pages[b.page].slab
                got == Pop([heap EXCEPT !.slabs[s].size = n, !.slabs[s].realloc = TRUE], s)
            IN  Commit(FreePage(got.heap, b.page), Replace(b, got, n), pools, kslabs)

Init ==
    /\ heap = [slabs |-> <<>>, pages |-> <<>>, ap |-> 0]
    /\ kslabs = 0
    /\ pools = {}
    /\ live = {}
    /\ status = "ok"

Next ==
    \/ \E n \in Requests : Kmalloc(n)
    \/ \E b \in live : Kfree(b) \/ PoolFree(b)
    \/ \E b \in live, n \in Requests : Krealloc(b, n)
    \/ \E b \in live, n \in PoolSizes : PoolRealloc(b, n)
    \/ \E size \in PoolSizes : PoolCreate(size)
    \/ \E s \in pools : PoolAlloc(s)

Spec == Init /\ [][Next]_vars

\* tests/cases/malloc/malloc_test.c: kmalloc(sizeof(int)) and kfree, in turn.
TestLoop == Init /\ [][IF live = {} THEN Kmalloc(4) ELSE \E b \in live : Kfree(b)]_vars

-----------------------------------------------------------------------------
(* Properties                                                              *)

TypeOK ==
    /\ kslabs \in 0..Len(heap.slabs)
    /\ pools \subseteq 1..Len(heap.slabs)
    /\ status \in {"ok", "panic", "undefined"}
    /\ heap.ap \in 0..(HeapBytes - 1) \cup {0}
    /\ \A p \in 1..Len(heap.pages) : heap.pages[p].slab \in 1..Len(heap.slabs)
    /\ \A s \in 1..Len(heap.slabs) :
          /\ heap.slabs[s].pages \in Seq(1..Len(heap.pages))
          /\ heap.slabs[s].length \in Nat
    /\ \A b \in live : b.page \in 1..Len(heap.pages) /\ b.id \in Nat \ {0}

\* slab_push_page, slab_remove_page and the refill: no list ever has a cycle or
\* a page of another slab, whatever the order of pops, frees and reallocs.
ListsIntact ==
    \A s \in 1..Len(heap.slabs) :
        LET list == heap.slabs[s].pages
        IN  /\ IsInjective(list)
            /\ \A i \in 1..Len(list) : heap.pages[list[i]].slab = s

\* slab_pop_page dereferences slab->pages->next without a test: whenever length
\* promises a page, the list has one after its head.
PoppablePage ==
    \A s \in 1..Len(heap.slabs) :
        heap.slabs[s].length > 0 => Len(heap.slabs[s].pages) >= 2

\* slab_pop_page starts at the second page, so the block of the head of a list
\* is in nobody's hands.
HeadNeverOwned ==
    \A s \in 1..Len(heap.slabs), b \in live : b.page # Head(heap.slabs[s].pages)

\* slab_pop_page(), slab_push_page() and slab_remove_page() together keep a list
\* that each of them can work on: no cycle and no foreign page, a successor of
\* the head for the next pop, and a head that no caller writes to.
ListsSound == ListsIntact /\ PoppablePage /\ HeadNeverOwned

\* pool_realloc and the header: the true_size a block records is the size of
\* the memory behind it, also after its pool has grown.
HeaderHonest ==
    \A b \in live : b.true = heap.pages[b.page].size + HeaderBytes

\* The last page of the first batch of a slab: Initial pages after its first.
LastOfFirstBatch(p) ==
    LET s == heap.pages[p].slab
    IN  p = Initial + Min({q \in 1..Len(heap.pages) : heap.pages[q].slab = s})

\* slab_remove_page keeps the last page linked and slab_create counts one page
\* more than it can hand out: these two agree on a single page per slab, and a
\* block of any other page has one owner.
OneOwnerButLast ==
    \A b, c \in live :
        (b # c /\ b.page = c.page) => LastOfFirstBatch(b.page)

\* malloc.c:174, "Remove this page from the list": a page that was popped is
\* not popped again before it is freed.
OneOwner == \A b, c \in live : b.page = c.page => b = c

\* malloc.c:329 and :339: there is a small slab for every size up to the
\* largest, and a new slab for every size above it.
EveryRequestServed == status # "undefined"

\* malloc.c:358, "@param size new size": a block that krealloc returns holds
\* the size that was asked for.
RoomForRequest == \A b \in live : b.want <= heap.pages[b.page].size

\* malloc_test.c:19: a million kmalloc and kfree pairs succeed.
TestLoopSurvives == status # "panic"

=============================================================================
