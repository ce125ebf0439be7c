------------------------------ MODULE SlabRace ------------------------------
(***************************************************************************)
(* Calls of kmalloc() and kfree() that race on one slab: kmalloc() holds   *)
(* malloc_lock and kfree() free_lock, and both follow and store the next   *)
(* pointers of the same list.  Slab takes every call as one step; here a   *)
(* step is one access of the list (generic/malloc/malloc.c).               *)
(*                                                                         *)
(* A page keeps the next pointer it had when it was taken off the list,    *)
(* until kfree() has linked it in and only then stores NULL to it.         *)
(***************************************************************************)
EXTENDS Integers, FiniteSets

CONSTANTS
    Thread,       \* callers on different cores
    PagesInitial, \* SLAB_PAGES_INITIAL
    MaxPages,     \* bound: pages of the slab
    MaxCalls      \* bound: calls of kmalloc()

Nobody == 0     \* threads are numbered from 1

ASSUME SlabRaceAssumption ==
    /\ PagesInitial \in Nat \ {0} /\ MaxPages \in Nat /\ MaxCalls \in Nat
    /\ PagesInitial < MaxPages
    /\ Thread \subseteq Nat \ {Nobody}

VARIABLES
    next,      \* page -> the page its next pointer leads to
    length,    \* slab->length
    used,      \* pages that were taken from the heap so far: 1..used
    mallocBy, freeBy,  \* who holds malloc_lock and free_lock
    pc,        \* of each thread
    page,      \* the page a call is about
    iter,      \* the page whose next pointer its walk or its search reads
    tmp,       \* page->next as slab_remove_page() has read it
    blocks,    \* the blocks callers hold: <<call, page>>
    calls,     \* calls of kmalloc() so far
    outcome    \* "ok", or "undefined" after a NULL or wild dereference

raceVars == <<next, length, used, mallocBy, freeBy, pc, page, iter, tmp, blocks, calls, outcome>>

Null == 0
Wild == -1      \* what a page of fresh heap memory holds
SlabHead == 1   \* slab->pages, which is never handed out
Page == 1..MaxPages

\* slab_create(): the head and the initial pages; length counts the head too.
RaceInit ==
    /\ next = [p \in Page |-> IF p <= PagesInitial THEN p + 1
                              ELSE IF p = PagesInitial + 1 THEN Null ELSE Wild]
    /\ length = PagesInitial + 1
    /\ used = PagesInitial + 1
    /\ mallocBy = Nobody /\ freeBy = Nobody
    /\ pc = [t \in Thread |-> "idle"]
    /\ page = [t \in Thread |-> Null] /\ iter = [t \in Thread |-> Null]
    /\ tmp = [t \in Thread |-> Null]
    /\ blocks = {} /\ calls = 0
    /\ outcome = "ok"

At(t, l) == pc[t] = l /\ outcome = "ok"
Goto(t, l) == pc' = [pc EXCEPT ![t] = l]

\* A call ends and forgets its locals.
Return(t) ==
    /\ Goto(t, "idle")
    /\ page' = [page EXCEPT ![t] = Null]
    /\ iter' = [iter EXCEPT ![t] = Null]
    /\ tmp' = [tmp EXCEPT ![t] = Null]

-----------------------------------------------------------------------------
(* kmalloc(): slab_pop_page()                                              *)

Malloc(t) ==
    /\ At(t, "idle") /\ mallocBy = Nobody /\ calls < MaxCalls
    /\ mallocBy' = t /\ calls' = calls + 1
    /\ Goto(t, "pop")
    /\ UNCHANGED <<next, length, used, freeBy, page, iter, tmp, blocks, outcome>>

\* slab_pop_page() that tests length >= 0, as size_t always is.
PopAlways(t) ==
    /\ At(t, "pop")
    /\ page' = [page EXCEPT ![t] = next[SlabHead]]
    /\ Goto(t, "test")
    /\ outcome' = IF next[SlabHead] \in Page THEN "ok" ELSE "undefined"
    /\ UNCHANGED <<next, length, used, mallocBy, freeBy, iter, tmp, blocks, calls>>

\* The first page after the head; with length above 0 its header is written.
PopPage(t) ==
    /\ At(t, "pop")
    /\ page' = [page EXCEPT ![t] = next[SlabHead]]
    /\ IF length > 0
       THEN /\ Goto(t, "test")
            /\ outcome' = IF next[SlabHead] \in Page THEN "ok" ELSE "undefined"
            /\ UNCHANGED iter
       ELSE /\ Goto(t, "append")
            /\ iter' = [iter EXCEPT ![t] = SlabHead]
            /\ UNCHANGED outcome
    /\ UNCHANGED <<next, length, used, mallocBy, freeBy, tmp, blocks, calls>>

\* slab_append_pages_to_page(): a new page after the head, whose list it cuts
\* off, the next ones after it.
AppendPage(t) ==
    /\ At(t, "append") /\ used < MaxPages
    /\ used' = used + 1
    /\ next' = [next EXCEPT ![iter[t]] = used + 1]
    /\ iter' = [iter EXCEPT ![t] = used + 1]
    /\ Goto(t, "appended")
    /\ UNCHANGED <<length, mallocBy, freeBy, page, tmp, blocks, calls, outcome>>

\* The pages since the head are all there when the chain from it is long enough.
Appended(t) ==
    LET last == (used - (PagesInitial + 1)) % PagesInitial = 0 IN
    /\ At(t, "appended")
    /\ next' = [next EXCEPT ![iter[t]] = Null]
    /\ length' = IF last THEN length + PagesInitial ELSE length
    /\ Goto(t, IF last THEN "pop" ELSE "append")
    /\ UNCHANGED <<used, mallocBy, freeBy, page, iter, tmp, blocks, calls, outcome>>

\* slab_remove_page(): a page without successor stays; the search for the others
\* begins at slab->pages, which is the head and never the page.
RemoveTest(t) ==
    /\ At(t, "test")
    /\ tmp' = [tmp EXCEPT ![t] = next[page[t]]]
    /\ IF next[page[t]] = Null THEN Goto(t, "got") /\ UNCHANGED iter
       ELSE Goto(t, "search") /\ iter' = [iter EXCEPT ![t] = SlabHead]
    /\ UNCHANGED <<next, length, used, mallocBy, freeBy, page, blocks, calls, outcome>>

\* slab_remove_page() that looks at the same page again.
SearchStays(t) ==
    /\ At(t, "search")
    /\ IF next[iter[t]] = page[t] THEN Goto(t, "unlink") ELSE UNCHANGED pc
    /\ UNCHANGED <<next, length, used, mallocBy, freeBy, page, iter, tmp, blocks, calls, outcome>>

\* while ((*iter) != page) iter = &(*iter)->next, where iter is the next pointer of
\* the page iter[t]: nothing stops it at the end of the list.
Search(t) ==
    LET n == next[iter[t]] IN
    /\ At(t, "search")
    /\ IF n = page[t] THEN Goto(t, "unlink") /\ UNCHANGED <<iter, outcome>>
       ELSE IF n \notin Page THEN outcome' = "undefined" /\ UNCHANGED <<pc, iter>>
       ELSE iter' = [iter EXCEPT ![t] = n] /\ UNCHANGED <<pc, outcome>>
    /\ UNCHANGED <<next, length, used, mallocBy, freeBy, page, tmp, blocks, calls>>

\* *iter = page->next: page->next is read again, or not, as the compiler likes.
Unlink(t) ==
    /\ At(t, "unlink")
    /\ \E n \in {tmp[t], next[page[t]]} : next' = [next EXCEPT ![iter[t]] = n]
    /\ Goto(t, "got")
    /\ UNCHANGED <<length, used, mallocBy, freeBy, page, iter, tmp, blocks, calls, outcome>>

Got(t) ==
    /\ At(t, "got")
    /\ length' = length - 1
    /\ blocks' = blocks \cup {<<calls, page[t]>>}
    /\ mallocBy' = Nobody
    /\ Return(t)
    /\ UNCHANGED <<next, used, freeBy, calls, outcome>>

-----------------------------------------------------------------------------
(* kfree(): slab_push_page()                                               *)

Free(t, b) ==
    /\ At(t, "idle") /\ freeBy = Nobody
    /\ freeBy' = t
    /\ blocks' = blocks \ {b}
    /\ page' = [page EXCEPT ![t] = b[2]]
    /\ iter' = [iter EXCEPT ![t] = SlabHead]
    /\ Goto(t, "walk")
    /\ UNCHANGED <<next, length, used, mallocBy, tmp, calls, outcome>>

Walk(t) ==
    LET n == next[iter[t]] IN
    /\ At(t, "walk")
    /\ IF n = Null THEN Goto(t, "link") /\ UNCHANGED <<iter, outcome>>
       ELSE IF n = Wild THEN outcome' = "undefined" /\ UNCHANGED <<pc, iter>>
       ELSE iter' = [iter EXCEPT ![t] = n] /\ UNCHANGED <<pc, outcome>>
    /\ UNCHANGED <<next, length, used, mallocBy, freeBy, page, tmp, blocks, calls>>

Link(t) ==
    /\ At(t, "link")
    /\ next' = [next EXCEPT ![iter[t]] = page[t]]
    /\ Goto(t, "clear")
    /\ UNCHANGED <<length, used, mallocBy, freeBy, page, iter, tmp, blocks, calls, outcome>>

\* slab_push_page() without page->next = NULL.
ClearNothing(t) ==
    /\ At(t, "clear")
    /\ freeBy' = Nobody
    /\ Return(t)
    /\ UNCHANGED <<next, length, used, mallocBy, blocks, calls, outcome>>

Clear(t) ==
    /\ At(t, "clear")
    /\ next' = [next EXCEPT ![page[t]] = Null]
    /\ freeBy' = Nobody
    /\ Return(t)
    /\ UNCHANGED <<length, used, mallocBy, blocks, calls, outcome>>

RaceStep(t) ==
    \/ PopPage(t) \/ AppendPage(t) \/ Appended(t) \/ RemoveTest(t)
    \/ Search(t) \/ Unlink(t) \/ Got(t)
    \/ Walk(t) \/ Link(t) \/ Clear(t)

RaceNext ==
    \E t \in Thread :
        \/ Malloc(t)
        \/ \E b \in blocks : Free(t, b)
        \/ RaceStep(t)

RaceSpec == RaceInit /\ [][RaceNext]_raceVars

\* A processor executes its instructions.
RaceFairSpec == RaceSpec /\ \A t \in Thread : WF_raceVars(RaceStep(t))

-----------------------------------------------------------------------------
(* Properties                                                              *)

RaceTypeOK ==
    /\ next \in [Page -> Page \cup {Null, Wild}]
    /\ length \in 0..(PagesInitial + 1) /\ used \in Page
    /\ mallocBy \in Thread \cup {Nobody} /\ freeBy \in Thread \cup {Nobody}
    /\ pc \in [Thread -> {"idle", "pop", "append", "appended", "test", "search", "unlink", "got",
                          "walk", "link", "clear"}]
    /\ page \in [Thread -> Page \cup {Null, Wild}]
    /\ iter \in [Thread -> Page \cup {Null}] /\ tmp \in [Thread -> Page \cup {Null, Wild}]
    /\ \A b \in blocks : b \in (1..MaxCalls) \X Page
    /\ calls \in 0..MaxCalls
    /\ outcome \in {"ok", "undefined"}

\* The pages that n steps from the head lead to.
Reached ==
    LET chain[n \in 0..MaxPages] ==
            IF n = 0 THEN SlabHead
            ELSE IF chain[n - 1] \in Page THEN next[chain[n - 1]] ELSE chain[n - 1]
    IN  chain

\* slab_push_page(), slab_append_pages(), "Skip to last page": the list ends,
\* except in the middle of a push.
ListEnds ==
    (\A t \in Thread : pc[t] # "clear") => Reached[MaxPages] \notin Page

\* Two callers under different locks leave slab->length and the list in a state
\* that a later call can work on.
ListSound == RaceTypeOK /\ ListEnds

\* kmalloc(), kfree(): every call returns, unless a call faults or the slab has
\* all the pages of the model; the loops of slab_push_page() and slab_remove_page()
\* end whatever the other call does to the list, the latter also behind its end.
CallsReturn ==
    \A t \in Thread :
        pc[t] # "idle" ~> \/ pc[t] = "idle" \/ outcome # "ok"
                          \/ pc[t] = "append" /\ used = MaxPages

\* Slab's PoppablePage, and that it suffices: no call follows a bad pointer.  Also
\* slab_remove_page() does, when a kfree() has cut its page off the list.
NoFault == outcome = "ok"

\* Slab's OneOwnerButLast: pages with more than one owner are last in the list.
OnlyLastShared ==
    \A b, c \in blocks : (b # c /\ b[2] = c[2]) => next[b[2]] = Null
=============================================================================
