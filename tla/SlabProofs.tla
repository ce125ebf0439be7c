----------------------------- MODULE SlabProofs -----------------------------
(***************************************************************************)
(* The lists of the slab allocator stay sound, headers stay honest, and a  *)
(* block has one owner unless it is of the last page of a first batch, for *)
(* any number of slabs, pages and callers.                                 *)
(*                                                                         *)
(* slab->length and the list drift apart: a free adds to the list alone,   *)
(* and the last page stays when it is popped.  What holds is a budget: a   *)
(* page of the list that somebody owns, or that has the size its slab had  *)
(* before pool_realloc(), is so far from the head that length runs out,    *)
(* and the list is rebuilt, before it is popped.                           *)
(*                                                                         *)
(* The second part is about SlabRace: the list of a slab ends whatever two *)
(* callers under different locks do to it, because every next pointer that *)
(* nobody is about to clear leads to a page with a smaller number.  The    *)
(* store of slab_remove_page() keeps it so although the page before the    *)
(* one it unlinks may not be the head: then a kfree() has linked its page  *)
(* to the head, the rest of the last batch was cut off, and as that rest   *)
(* was never handed out nothing in it leads back (OrderInv).               *)
(***************************************************************************)
EXTENDS Slab, SlabRace, Induction, FiniteSetTheorems, SequenceTheorems, TLAPS

SlabRecord == [pages : Seq(Nat), length : Nat, size : Nat, realloc : BOOLEAN]
PageRecord == [slab : Nat, size : Nat]
Heaps == [slabs : Seq(SlabRecord), pages : Seq(PageRecord), ap : Nat]

Owned(bs, p) == \E b \in bs : b.page = p
Stale(h, s, p) == h.pages[p].size # h.slabs[s].size

\* The last page of the first batch of slab s.
LastOfBatch(h, s) == Initial + Min({q \in 1..Len(h.pages) : h.pages[q].slab = s})

\* Two pages at least, all of slab s, each once.
Chain(h, s, list) ==
    /\ list \in Seq(Nat) /\ Len(list) >= 2
    /\ \A i \in 1..Len(list) :
          /\ list[i] \in 1..Len(h.pages) /\ h.pages[list[i]].slab = s
          /\ \A j \in 1..Len(list) : list[i] = list[j] => i = j

\* What length can still pop.
Budget(h, s, list, len, bs) ==
    /\ len \in 0..Len(list)
    /\ len = Len(list) =>
          /\ list[Len(list)] = LastOfBatch(h, s)
          /\ \A q \in 1..Len(h.pages) : h.pages[q].slab = s => ~Stale(h, s, q)
    /\ \A i \in 2..Len(list) :
          /\ Owned(bs, list[i]) => len <= i - 1
          /\ (Owned(bs, list[i]) /\ list[i] # LastOfBatch(h, s)) \/ Stale(h, s, list[i]) => len <= i - 2

SlabOK(h, s, bs) ==
    /\ Chain(h, s, h.slabs[s].pages)
    /\ Budget(h, s, h.slabs[s].pages, h.slabs[s].length, bs)
    /\ h.slabs[s].realloc = FALSE

\* The blocks bs are of the pages of h, but never of the head of a list.
BlocksOK(h, bs) ==
    /\ \A b \in bs :
          /\ b.page \in 1..Len(h.pages)
          /\ b.page # h.slabs[h.pages[b.page].slab].pages[1]
          /\ b.true = h.pages[b.page].size + HeaderBytes
    /\ \A b, c \in bs : (b # c /\ b.page = c.page) => b.page = LastOfBatch(h, h.pages[b.page].slab)

HeapInv(h, bs) ==
    /\ h \in Heaps
    /\ \A q \in 1..Len(h.pages) : h.pages[q].slab \in 1..Len(h.slabs)
    /\ \A s \in 1..Len(h.slabs) : SlabOK(h, s, bs)
    /\ BlocksOK(h, bs)

-----------------------------------------------------------------------------
(* Lists                                                                   *)

LEMMA MakeSeq ==
  ASSUME NEW S, NEW n \in Nat, NEW f, f \in [1..n -> S]
  PROVE  f \in Seq(S) /\ Len(f) = n
  OBVIOUS

LEMMA LeastOf ==
  ASSUME NEW T, T \subseteq Nat, T # {}
  PROVE  Min(T) \in T /\ \A y \in T : Min(T) <= y
  <1>1. PICK x \in T : \A y \in T : x <= y
    BY LeastNat
  <1> QED
    BY <1>1 DEF Min

\* Pages that are added do not change what the first page of a slab is.
LEMMA SameBatch ==
  ASSUME NEW h, NEW g, NEW s, Len(h.pages) \in Nat, Len(g.pages) \in Nat, Len(h.pages) <= Len(g.pages),
         \A q \in 1..Len(h.pages) : g.pages[q].slab = h.pages[q].slab,
         \E q \in 1..Len(h.pages) : h.pages[q].slab = s
  PROVE  LastOfBatch(g, s) = LastOfBatch(h, s)
  <1> DEFINE T == {q \in 1..Len(h.pages) : h.pages[q].slab = s}
             U == {q \in 1..Len(g.pages) : g.pages[q].slab = s}
  <1>1. T \subseteq U /\ T # {} /\ U \subseteq Nat /\ T \subseteq Nat
    OBVIOUS
  <1>2. \A q \in U : q \in T \/ q > Len(h.pages)
    OBVIOUS
  <1>3. \A q \in T : q <= Len(h.pages)
    OBVIOUS
  <1> HIDE DEF T, U
  <1>4. Min(T) \in T /\ (\A y \in T : Min(T) <= y) /\ Min(U) \in U /\ \A y \in U : Min(U) <= y
    BY <1>1, LeastOf
  <1>5. Min(T) = Min(U)
    <2>1. Min(T) \in U /\ Min(T) \in Nat /\ Min(U) \in Nat
      BY <1>1, <1>4
    <2>2. Min(U) <= Min(T)
      BY <1>4, <2>1
    <2>3. Min(U) \in T
      BY <1>2, <1>3, <1>4, <2>1, <2>2
    <2> QED
      BY <1>4, <2>1, <2>2, <2>3
  <1> QED
    BY <1>5 DEF LastOfBatch, T, U

\* list_remove of the page at k.
LEMMA Removed ==
  ASSUME NEW S, NEW s \in Seq(S), NEW k \in 1..Len(s)
  PROVE  /\ RemoveAt(s, k) \in Seq(S) /\ Len(RemoveAt(s, k)) = Len(s) - 1
         /\ \A j \in 1..(Len(s) - 1) : RemoveAt(s, k)[j] = IF j < k THEN s[j] ELSE s[j + 1]
  <1> DEFINE a == SubSeq(s, 1, k - 1)
             b == SubSeq(s, k + 1, Len(s))
             m == Len(s)
  <1>1. m \in Nat /\ k \in Int /\ \A j \in 1..m : s[j] \in S
    BY ElementOfSeq
  <1>2. a \in Seq(S) /\ Len(a) = k - 1 /\ \A j \in 1..(k - 1) : a[j] = s[j]
    <2>1. \A j \in 1..(k - 1) : s[j] \in S
      BY <1>1
    <2>2. k - 1 \in Int /\ (k - 1) - 1 + 1 = k - 1 /\ (~(1 <= k - 1) => k - 1 = 0)
      BY <1>1
    <2> QED
      BY <1>1, <2>1, <2>2, SubSeqProperties
  <1>3. b \in Seq(S) /\ Len(b) = m - k /\ \A j \in 1..(m - k) : b[j] = s[k + j]
    <2>1. \A j \in (k + 1)..m : s[j] \in S
      BY <1>1
    <2>2. /\ b \in Seq(S)
          /\ Len(b) = IF k + 1 <= m THEN m - (k + 1) + 1 ELSE 0
          /\ \A j \in 1..(m - (k + 1) + 1) : b[j] = s[(k + 1) + j - 1]
      <3>1. k + 1 \in Int /\ m \in Int
        BY <1>1
      <3> QED
        BY <2>1, <3>1, SubSeqProperties
    <2> HIDE DEF b
    <2>3. Len(b) = m - k
      BY <1>1, <2>2
    <2>4. ASSUME NEW j \in 1..(m - k) PROVE b[j] = s[k + j]
      <3>1. j \in 1..(m - (k + 1) + 1) /\ (k + 1) + j - 1 = k + j
        BY <1>1
      <3>2. b[j] = s[(k + 1) + j - 1]
        BY <2>2, <3>1
      <3> QED
        BY <3>1, <3>2
    <2> QED
      BY <2>2, <2>3, <2>4
  <1> HIDE DEF a, b
  <1>4. /\ a \o b \in Seq(S) /\ Len(a \o b) = m - 1
        /\ \A j \in 1..(m - 1) : (a \o b)[j] = IF j <= k - 1 THEN a[j] ELSE b[j - (k - 1)]
    <2>1. Len(a) + Len(b) = m - 1
      BY <1>1, <1>2, <1>3
    <2>2. /\ a \o b \in Seq(S) /\ Len(a \o b) = Len(a) + Len(b)
          /\ \A j \in 1..(Len(a) + Len(b)) : (a \o b)[j] = IF j <= Len(a) THEN a[j] ELSE b[j - Len(a)]
      BY <1>2, <1>3, ConcatProperties
    <2> QED
      BY <1>2, <2>1, <2>2
  <1>5. RemoveAt(s, k) = a \o b
    BY DEF RemoveAt, a, b
  <1>6. ASSUME NEW j \in 1..(m - 1) PROVE (a \o b)[j] = IF j < k THEN s[j] ELSE s[j + 1]
    <2>1. CASE j < k
      BY <1>1, <1>2, <1>4, <2>1
    <2>2. CASE ~(j < k)
      <3>1. j - (k - 1) \in 1..(m - k) /\ k + (j - (k - 1)) = j + 1 /\ ~(j <= k - 1)
        BY <1>1, <2>2
      <3> QED
        BY <1>3, <1>4, <2>2, <3>1
    <2> QED
      BY <2>1, <2>2
  <1> QED
    BY <1>4, <1>5, <1>6

\* slab_remove_page() of the second page.
LEMMA RemoveSecond ==
  ASSUME NEW h, NEW s, NEW list, Chain(h, s, list)
  PROVE  LET r == RemovePage(list, list[2]) IN
         IF Len(list) = 2 THEN r = list
         ELSE /\ r \in Seq(Nat) /\ Len(r) = Len(list) - 1 /\ r[1] = list[1]
              /\ \A i \in 2..Len(r) : r[i] = list[i + 1]
  <1>1. list \in Seq(Nat) /\ Len(list) \in Nat /\ Len(list) >= 2 /\ Last(list) = list[Len(list)]
    BY DEF Chain, Last
  <1>2. \A i \in 1..Len(list) : list[i] = list[2] => i = 2
    BY <1>1 DEF Chain
  <1>3. Place(list, list[2]) = 2
    <2>1. \E i \in 1..Len(list) : list[i] = list[2]
      BY <1>1
    <2> QED
      BY <1>2, <2>1 DEF Place
  <1>4. RemovePage(list, list[2]) = IF Len(list) = 2 THEN list ELSE RemoveAt(list, 2)
    <2>1. Len(list) \in 1..Len(list)
      BY <1>1
    <2>2. list[2] = Last(list) <=> Len(list) = 2
      BY <1>1, <1>2, <2>1
    <2> QED
      BY <1>3, <2>2 DEF RemovePage
  <1> DEFINE a == RemoveAt(list, 2)
  <1>5. /\ a \in Seq(Nat) /\ Len(a) = Len(list) - 1
        /\ \A j \in 1..(Len(list) - 1) : a[j] = IF j < 2 THEN list[j] ELSE list[j + 1]
    <2>1. 2 \in 1..Len(list)
      BY <1>1
    <2> QED
      BY <1>1, <2>1, Removed
  <1> HIDE DEF a
  <1>6. /\ a \in Seq(Nat) /\ Len(a) = Len(list) - 1 /\ a[1] = list[1]
        /\ \A i \in 2..Len(a) : a[i] = list[i + 1]
    BY <1>1, <1>5
  <1> QED
    BY <1>1, <1>4, <1>6 DEF a

\* slab_push_page(): what the list becomes.
LEMMA Pushed ==
  ASSUME NEW list \in Seq(Nat), NEW p \in Nat
  PROVE  LET r == Push(list, p) IN
         \/ /\ \A i \in 1..Len(list) : list[i] # p
            /\ r \in Seq(Nat) /\ Len(r) = Len(list) + 1 /\ r[Len(list) + 1] = p
            /\ \A i \in 1..Len(list) : r[i] = list[i]
         \/ \E k \in 1..Len(list) :
               /\ list[k] = p /\ r \in Seq(Nat) /\ Len(r) = k
               /\ \A i \in 1..k : r[i] = list[i]
  <1>1. Len(list) \in Nat /\ ToSet(list) = {list[i] : i \in 1..Len(list)} /\ \A i \in 1..Len(list) : list[i] \in Nat
    BY LenProperties, ElementOfSeq DEF ToSet
  <1>2. CASE p \notin ToSet(list)
    <2>1. Push(list, p) = Append(list, p)
      BY <1>2 DEF Push
    <2> QED
      BY <1>1, <1>2, <2>1, AppendProperties
  <1>3. CASE p \in ToSet(list)
    <2> DEFINE k == Place(list, p)
    <2>1. k \in 1..Len(list) /\ list[k] = p
      BY <1>1, <1>3 DEF Place
    <2>2. Push(list, p) = SubSeq(list, 1, k)
      BY <1>3 DEF Push
    <2> HIDE DEF k
    <2>3. SubSeq(list, 1, k) \in Seq(Nat) /\ Len(SubSeq(list, 1, k)) = k
          /\ \A i \in 1..k : SubSeq(list, 1, k)[i] = list[i]
      <3>1. \A i \in 1..k : list[i] \in Nat
        BY <1>1, <2>1
      <3>2. 1 \in Int /\ k \in Int /\ 1 <= k /\ k - 1 + 1 = k /\ \A i \in 1..k : 1 + i - 1 = i
        BY <2>1
      <3>3. /\ SubSeq(list, 1, k) \in Seq(Nat)
            /\ Len(SubSeq(list, 1, k)) = IF 1 <= k THEN k - 1 + 1 ELSE 0
            /\ \A i \in 1..(k - 1 + 1) : SubSeq(list, 1, k)[i] = list[1 + i - 1]
        BY <3>1, <3>2, SubSeqProperties
      <3> QED
        BY <3>2, <3>3
    <2> QED
      BY <2>1, <2>2, <2>3
  <1> QED
    BY <1>2, <1>3

-----------------------------------------------------------------------------
(* Pages and slabs                                                         *)

\* What changes when n pages are added to slab s.
Grown(h, g, s, n) ==
    /\ g \in Heaps /\ Len(g.pages) = Len(h.pages) + n
    /\ \A q \in 1..Len(h.pages) : g.pages[q] = h.pages[q]
    /\ \A q \in (Len(h.pages) + 1)..(Len(h.pages) + n) : g.pages[q] = [slab |-> s, size |-> h.slabs[s].size]

LEMMA NewPagesGrow ==
  ASSUME NEW h \in Heaps, NEW s \in 1..Len(h.slabs), NEW n \in Nat
  PROVE  Grown(h, NewPages(h, s, n), s, n) /\ NewPages(h, s, n).slabs = h.slabs
  <1> DEFINE new == [i \in 1..n |-> [slab |-> s, size |-> h.slabs[s].size]]
             g == NewPages(h, s, n)
             N == Len(h.pages)
  <1>1. h.slabs \in Seq(SlabRecord) /\ h.pages \in Seq(PageRecord) /\ h.ap \in Nat
    BY DEF Heaps
  <1>2. h.slabs[s] \in SlabRecord /\ s \in Nat /\ N \in Nat
    BY <1>1, ElementOfSeq
  <1>3. h.slabs[s].size \in Nat
    BY <1>2 DEF SlabRecord
  <1>4. new \in Seq(PageRecord) /\ Len(new) = n /\ \A i \in 1..n : new[i] = [slab |-> s, size |-> h.slabs[s].size]
    <2>1. new \in [1..n -> PageRecord]
      BY <1>2, <1>3 DEF PageRecord
    <2> HIDE DEF new
    <2>2. new \in Seq(PageRecord) /\ Len(new) = n
      BY <2>1, MakeSeq
    <2> QED
      BY <2>2 DEF new
  <1>5. g = [h EXCEPT !.pages = @ \o new, !.ap = @ + n * (PageBytes + HeaderBytes + h.slabs[s].size)]
    BY DEF NewPages
  <1> HIDE DEF new
  <1>6. /\ h.pages \o new \in Seq(PageRecord) /\ Len(h.pages \o new) = N + n
        /\ \A i \in 1..(N + n) : (h.pages \o new)[i] = IF i <= N THEN h.pages[i] ELSE new[i - N]
    BY ZenonT(40), <1>1, <1>4, ConcatProperties
  <1>7. h.ap + n * (PageBytes + HeaderBytes + h.slabs[s].size) \in Nat
    <2>1. PageBytes + HeaderBytes + h.slabs[s].size \in Nat
      BY <1>3 DEF PageBytes, HeaderBytes
    <2> DEFINE k == PageBytes + HeaderBytes + h.slabs[s].size
    <2> HIDE DEF k
    <2>2. k \in Nat => n * k \in Nat
      OBVIOUS
    <2> QED
      BY <1>1, <2>1, <2>2 DEF k
  <1>8. g \in Heaps /\ g.slabs = h.slabs /\ g.pages = h.pages \o new
    BY <1>1, <1>5, <1>6, <1>7 DEF Heaps
  <1> HIDE DEF g
  <1>9. \A q \in 1..N : g.pages[q] = h.pages[q]
    BY <1>2, <1>6, <1>8
  <1>10. ASSUME NEW q \in (N + 1)..(N + n) PROVE g.pages[q] = [slab |-> s, size |-> h.slabs[s].size]
    <2>1. q \in 1..(N + n) /\ ~(q <= N) /\ q - N \in 1..n
      BY <1>2
    <2> QED
      BY <1>4, <1>6, <1>8, <2>1
  <1>11. Len(g.pages) = N + n
    BY <1>6, <1>8
  <1> QED
    BY <1>8, <1>9, <1>10, <1>11 DEF Grown, g

LEMMA Numbered ==
  ASSUME NEW h, Len(h.pages) \in Nat, NEW n \in Nat
  PROVE  /\ PageIds(h, n) \in Seq(Nat) /\ Len(PageIds(h, n)) = n
         /\ \A i \in 1..n : PageIds(h, n)[i] = Len(h.pages) + i
  <1> DEFINE a == PageIds(h, n)
  <1>1. a \in [1..n -> Nat] /\ \A i \in 1..n : a[i] = Len(h.pages) + i
    BY DEF PageIds
  <1> HIDE DEF a
  <1>2. a \in Seq(Nat) /\ Len(a) = n
    BY <1>1, MakeSeq
  <1> QED
    BY <1>1, <1>2 DEF a

\* slab_create()
LEMMA Created ==
  ASSUME NEW h \in Heaps, NEW size \in Nat
  PROVE  LET g == CreateSlab(h, size)
             t == Len(h.slabs) + 1
         IN  /\ g \in Heaps /\ Len(g.slabs) = t /\ Len(h.slabs) \in Nat /\ Len(h.pages) \in Nat
             /\ \A s \in 1..Len(h.slabs) : g.slabs[s] = h.slabs[s]
             /\ Len(g.pages) = Len(h.pages) + (Initial + 1)
             /\ \A q \in 1..Len(h.pages) : g.pages[q] = h.pages[q]
             /\ \A q \in (Len(h.pages) + 1)..Len(g.pages) : g.pages[q] = [slab |-> t, size |-> size]
             /\ g.slabs[t].pages \in Seq(Nat) /\ Len(g.slabs[t].pages) = Initial + 1
             /\ \A i \in 1..(Initial + 1) : g.slabs[t].pages[i] = Len(h.pages) + i
             /\ g.slabs[t].length = Initial + 1 /\ g.slabs[t].size = size /\ g.slabs[t].realloc = FALSE
  <1> DEFINE slab == [pages |-> PageIds(h, Initial + 1), length |-> Initial + 1, size |-> size, realloc |-> FALSE]
             u == [h EXCEPT !.slabs = Append(@, slab), !.ap = @ + SlabBytes]
             t == Len(h.slabs) + 1
             g == CreateSlab(h, size)
  <1>1. h.slabs \in Seq(SlabRecord) /\ h.pages \in Seq(PageRecord) /\ h.ap \in Nat
        /\ Len(h.slabs) \in Nat /\ Len(h.pages) \in Nat
    BY DEF Heaps
  <1>2. Initial + 1 \in Nat
    BY SlabAssumption
  <1>3. slab \in SlabRecord
    BY <1>1, <1>2, Numbered DEF SlabRecord
  <1>4. slab.pages \in Seq(Nat) /\ Len(slab.pages) = Initial + 1 /\ \A i \in 1..(Initial + 1) : slab.pages[i] = Len(h.pages) + i
    BY <1>1, <1>2, Numbered
  <1>5. slab.length = Initial + 1 /\ slab.size = size /\ slab.realloc = FALSE
    OBVIOUS
  <1>6. g = NewPages(u, t, Initial + 1)
    BY DEF CreateSlab
  <1> HIDE DEF slab
  <1>7. /\ Append(h.slabs, slab) \in Seq(SlabRecord) /\ Len(Append(h.slabs, slab)) = t
        /\ Append(h.slabs, slab)[t] = slab
        /\ \A s \in 1..Len(h.slabs) : Append(h.slabs, slab)[s] = h.slabs[s]
    BY <1>1, <1>3, AppendProperties
  <1>8. u \in Heaps /\ u.slabs = Append(h.slabs, slab) /\ u.pages = h.pages
    <2>1. ASSUME NEW q \in Seq(SlabRecord), NEW k \in Nat
          PROVE  LET v == [h EXCEPT !.slabs = q, !.ap = k] IN v \in Heaps /\ v.slabs = q /\ v.pages = h.pages
      BY DEF Heaps
    <2>2. h.ap + SlabBytes \in Nat
      BY <1>1 DEF SlabBytes
    <2>3. u = [h EXCEPT !.slabs = Append(h.slabs, slab), !.ap = h.ap + SlabBytes]
      OBVIOUS
    <2> HIDE DEF u
    <2> QED
      BY <1>7, <2>1, <2>2, <2>3
  <1> HIDE DEF u
  <1>9. t \in 1..Len(u.slabs)
    BY <1>1, <1>7, <1>8
  <1>10. Grown(u, g, t, Initial + 1) /\ g.slabs = u.slabs
    BY <1>2, <1>6, <1>8, <1>9, NewPagesGrow
  <1> HIDE DEF g
  <1>11. u.slabs[t] = slab
    BY <1>7, <1>8
  <1>12. /\ g \in Heaps /\ Len(g.pages) = Len(h.pages) + (Initial + 1)
         /\ \A q \in 1..Len(h.pages) : g.pages[q] = h.pages[q]
         /\ \A q \in (Len(h.pages) + 1)..Len(g.pages) : g.pages[q] = [slab |-> t, size |-> size]
    BY <1>5, <1>8, <1>10, <1>11 DEF Grown
  <1> QED
    BY SMTT(30), <1>1, <1>4, <1>5, <1>7, <1>8, <1>10, <1>11, <1>12 DEF g

\* Slab s and the pages are all that differ.
OnlySlab(h, g, s, list, len) ==
    /\ g \in Heaps /\ Len(g.slabs) = Len(h.slabs)
    /\ \A x \in 1..Len(h.slabs) : x # s => g.slabs[x] = h.slabs[x]
    /\ g.slabs[s].size = h.slabs[s].size /\ g.slabs[s].realloc = h.slabs[s].realloc
    /\ g.slabs[s].pages = list /\ g.slabs[s].length = len

\* The record of slab s with another list and length.
With(h, s, list, len) ==
    [h EXCEPT !.slabs = [h.slabs EXCEPT ![s] = [h.slabs[s] EXCEPT !.pages = list, !.length = len]]]

\* That is an assignment of a list and a length.
LEMMA Assigned ==
  ASSUME NEW h \in Heaps, NEW s \in 1..Len(h.slabs), NEW list \in Seq(Nat), NEW len \in Nat
  PROVE  /\ OnlySlab(h, With(h, s, list, len), s, list, len)
         /\ With(h, s, list, len).pages = h.pages
  <1> DEFINE x == [h.slabs[s] EXCEPT !.pages = list, !.length = len]
             u == [h.slabs EXCEPT ![s] = x]
             g == [h EXCEPT !.slabs = u]
  <1>1. h.slabs \in Seq(SlabRecord) /\ h.pages \in Seq(PageRecord) /\ h.ap \in Nat
    BY DEF Heaps
  <1>2. h.slabs[s] \in SlabRecord
    BY <1>1, ElementOfSeq
  <1>3. x \in SlabRecord /\ x.pages = list /\ x.length = len /\ x.size = h.slabs[s].size /\ x.realloc = h.slabs[s].realloc
    BY <1>2 DEF SlabRecord
  <1> HIDE DEF x
  <1>4. /\ u \in Seq(SlabRecord) /\ Len(u) = Len(h.slabs)
        /\ \A j \in 1..Len(h.slabs) : u[j] = IF j = s THEN x ELSE h.slabs[j]
    BY <1>1, <1>3, ExceptSeq
  <1> HIDE DEF u
  <1>5. g \in Heaps /\ g.slabs = u /\ g.pages = h.pages
    BY <1>1, <1>4 DEF Heaps
  <1> QED
    BY <1>3, <1>4, <1>5 DEF OnlySlab, With, x, u

LEMMA TakenForm ==
  ASSUME NEW h \in Heaps, NEW s \in 1..Len(h.slabs), NEW p
  PROVE  [h EXCEPT !.slabs[s].pages = RemovePage(@, p), !.slabs[s].length = @ - 1]
         = With(h, s, RemovePage(h.slabs[s].pages, p), h.slabs[s].length - 1)
  <1>1. h.slabs \in Seq(SlabRecord)
    BY DEF Heaps
  <1>2. h.slabs[s] \in SlabRecord
    BY <1>1, ElementOfSeq
  <1> QED
    BY <1>1, <1>2 DEF With, Heaps, SlabRecord

LEMMA FreeForm ==
  ASSUME NEW h \in Heaps, NEW p, h.pages[p].slab \in 1..Len(h.slabs)
  PROVE  LET s == h.pages[p].slab IN
         FreePage(h, p) = With(h, s, Push(h.slabs[s].pages, p), h.slabs[s].length)
  <1>1. h.slabs \in Seq(SlabRecord)
    BY DEF Heaps
  <1>2. h.slabs[h.pages[p].slab] \in SlabRecord
    BY <1>1, ElementOfSeq
  <1> QED
    BY <1>1, <1>2 DEF With, Heaps, SlabRecord, FreePage

LEMMA RefillForm ==
  ASSUME NEW h \in Heaps, NEW s \in 1..Len(h.slabs)
  PROVE  Refill(h, s) = NewPages(With(h, s, <<Head(h.slabs[s].pages)>> \o PageIds(h, Initial),
                                      h.slabs[s].length + Initial), s, Initial)
  <1>1. h.slabs \in Seq(SlabRecord)
    BY DEF Heaps
  <1>2. h.slabs[s] \in SlabRecord
    BY <1>1, ElementOfSeq
  <1>3. [h EXCEPT !.slabs[s].pages = <<Head(@)>> \o PageIds(h, Initial), !.slabs[s].length = @ + Initial]
        = With(h, s, <<Head(h.slabs[s].pages)>> \o PageIds(h, Initial), h.slabs[s].length + Initial)
    BY <1>1, <1>2 DEF With, Heaps, SlabRecord
  <1> QED
    BY <1>3 DEF Refill

LEMMA Refilled ==
  ASSUME NEW h \in Heaps, NEW s \in 1..Len(h.slabs), Len(h.slabs[s].pages) > 0
  PROVE  LET g == Refill(h, s)
             list == g.slabs[s].pages
         IN  /\ OnlySlab(h, g, s, list, h.slabs[s].length + Initial)
             /\ Grown(h, g, s, Initial)
             /\ list \in Seq(Nat) /\ Len(list) = Initial + 1 /\ list[1] = h.slabs[s].pages[1]
             /\ \A i \in 2..(Initial + 1) : list[i] = Len(h.pages) + (i - 1)
  <1> DEFINE old == h.slabs[s].pages
             a == <<Head(old)>>
             b == PageIds(h, Initial)
             list == a \o b
             u == With(h, s, list, h.slabs[s].length + Initial)
             g == Refill(h, s)
             N == Len(h.pages)
  <1>1. h.slabs \in Seq(SlabRecord) /\ h.pages \in Seq(PageRecord) /\ N \in Nat /\ Initial \in Nat
    BY SlabAssumption DEF Heaps
  <1>2. h.slabs[s] \in SlabRecord
    BY <1>1, ElementOfSeq
  <1>3. old \in Seq(Nat) /\ h.slabs[s].length \in Nat /\ Len(old) \in Nat /\ Len(old) > 0
    BY <1>2 DEF SlabRecord
  <1>4. Head(old) = old[1] /\ old[1] \in Nat
    BY <1>3, ElementOfSeq
  <1>5. a \in Seq(Nat) /\ Len(a) = 1 /\ a[1] = old[1]
    BY <1>4
  <1>6. b \in Seq(Nat) /\ Len(b) = Initial /\ \A i \in 1..Initial : b[i] = N + i
    BY <1>1, Numbered
  <1> HIDE DEF a, b
  <1>7. /\ list \in Seq(Nat) /\ Len(list) = Initial + 1 /\ list[1] = old[1]
        /\ \A i \in 2..(Initial + 1) : list[i] = N + (i - 1)
    <2>1. /\ list \in Seq(Nat) /\ Len(list) = Len(a) + Len(b)
          /\ \A i \in 1..(Len(a) + Len(b)) : list[i] = IF i <= Len(a) THEN a[i] ELSE b[i - Len(a)]
      BY <1>5, <1>6, ConcatProperties
    <2> HIDE DEF list
    <2>2. ASSUME NEW i \in 2..(Initial + 1) PROVE list[i] = N + (i - 1)
      <3>1. i \in 1..(1 + Initial) /\ ~(i <= 1) /\ i - 1 \in 1..Initial
        BY <1>1
      <3> QED
        BY <1>5, <1>6, <2>1, <3>1
    <2>3. list[1] = a[1]
      BY <1>1, <1>5, <1>6, <2>1
    <2> QED
      BY <1>1, <1>5, <1>6, <2>1, <2>2, <2>3
  <1>8. g = NewPages(u, s, Initial)
    BY RefillForm DEF a, b
  <1> HIDE DEF list
  <1>9. OnlySlab(h, u, s, list, h.slabs[s].length + Initial) /\ u.pages = h.pages
    <2>1. h.slabs[s].length + Initial \in Nat
      BY <1>1, <1>3
    <2> QED
      BY <1>7, <2>1, Assigned
  <1> HIDE DEF u
  <1>10. Grown(u, g, s, Initial) /\ g.slabs = u.slabs
    <2>1. u \in Heaps /\ s \in 1..Len(u.slabs)
      BY <1>9 DEF OnlySlab
    <2> QED
      BY <1>1, <1>8, <2>1, NewPagesGrow
  <1> HIDE DEF g
  <1>11. Grown(h, g, s, Initial)
    BY <1>9, <1>10 DEF Grown, OnlySlab
  <1>12. OnlySlab(h, g, s, list, h.slabs[s].length + Initial) /\ g.slabs[s].pages = list
    BY <1>9, <1>10 DEF OnlySlab, Grown
  <1> QED
    BY <1>7, <1>11, <1>12 DEF g

-----------------------------------------------------------------------------
(* The invariant                                                           *)

\* Pages are added, and no page of slab x.
LEMMA OtherSlab ==
  ASSUME NEW h, NEW g, NEW x, NEW bs, NEW cs, Len(h.pages) \in Nat, Len(g.pages) \in Nat,
         Len(h.pages) <= Len(g.pages),
         \A q \in 1..Len(h.pages) : g.pages[q] = h.pages[q],
         \A q \in (Len(h.pages) + 1)..Len(g.pages) : g.pages[q].slab # x,
         g.slabs[x] = h.slabs[x],
         \A q \in 1..Len(h.pages) : h.pages[q].slab = x /\ Owned(cs, q) => Owned(bs, q),
         SlabOK(h, x, bs)
  PROVE  SlabOK(g, x, cs)
  <1> DEFINE list == h.slabs[x].pages
             len == h.slabs[x].length
  <1>1. Chain(h, x, list) /\ Budget(h, x, list, len, bs) /\ h.slabs[x].realloc = FALSE
    BY DEF SlabOK
  <1>2. Len(list) \in Nat /\ Len(list) >= 2 /\ \A i \in 1..Len(list) : list[i] \in 1..Len(h.pages) /\ h.pages[list[i]].slab = x
    BY SMTT(30), <1>1 DEF Chain
  <1>3. LastOfBatch(g, x) = LastOfBatch(h, x)
    <2>1. list[1] \in 1..Len(h.pages) /\ h.pages[list[1]].slab = x
      BY <1>2
    <2>2. \A q \in 1..Len(h.pages) : g.pages[q].slab = h.pages[q].slab
      OBVIOUS
    <2> QED
      BY <2>1, <2>2, SameBatch
  <1> HIDE DEF list, len
  <1>4. Chain(g, x, list)
    <2>1. \A i \in 1..Len(list) : list[i] \in 1..Len(g.pages) /\ g.pages[list[i]].slab = x
      BY <1>2
    <2> QED
      BY <1>1, <2>1 DEF Chain
  <1>5. \A q \in 1..Len(h.pages) : Stale(g, x, q) <=> Stale(h, x, q)
    BY DEF Stale
  <1>6. \A q \in 1..Len(g.pages) : g.pages[q].slab = x => q \in 1..Len(h.pages) /\ h.pages[q].slab = x
    OBVIOUS
  <1>7. Budget(g, x, list, len, cs)
    <2>1. ASSUME NEW i \in 2..Len(list)
          PROVE  /\ Owned(cs, list[i]) => len <= i - 1
                 /\ (Owned(cs, list[i]) /\ list[i] # LastOfBatch(g, x)) \/ Stale(g, x, list[i]) => len <= i - 2
      <3>1. list[i] \in 1..Len(h.pages) /\ h.pages[list[i]].slab = x
        BY <1>2
      <3>2. /\ Owned(bs, list[i]) => len <= i - 1
            /\ (Owned(bs, list[i]) /\ list[i] # LastOfBatch(h, x)) \/ Stale(h, x, list[i]) => len <= i - 2
        BY <1>1 DEF Budget
      <3>3. Owned(cs, list[i]) => Owned(bs, list[i])
        BY <3>1
      <3> QED
        BY <1>3, <1>5, <3>1, <3>2, <3>3
    <2>2. len \in 0..Len(list) /\ (len = Len(list) =>
             /\ list[Len(list)] = LastOfBatch(g, x)
             /\ \A q \in 1..Len(g.pages) : g.pages[q].slab = x => ~Stale(g, x, q))
      BY <1>1, <1>3, <1>5, <1>6 DEF Budget
    <2> QED
      BY <2>1, <2>2 DEF Budget
  <1> QED
    BY <1>1, <1>4, <1>7 DEF SlabOK, list, len

\* Pages are added, and the heads of the lists stay.
LEMMA SameBlocks ==
  ASSUME NEW h, NEW g, NEW bs, Len(h.pages) \in Nat, Len(g.pages) \in Nat,
         Len(h.pages) <= Len(g.pages),
         \A q \in 1..Len(h.pages) : g.pages[q] = h.pages[q],
         \A q \in 1..Len(h.pages) : g.slabs[h.pages[q].slab].pages[1] = h.slabs[h.pages[q].slab].pages[1],
         BlocksOK(h, bs)
  PROVE  BlocksOK(g, bs)
  <1>1. ASSUME NEW q \in 1..Len(h.pages) PROVE LastOfBatch(g, h.pages[q].slab) = LastOfBatch(h, h.pages[q].slab)
    <2>1. \A p \in 1..Len(h.pages) : g.pages[p].slab = h.pages[p].slab
      OBVIOUS
    <2>2. \E p \in 1..Len(h.pages) : h.pages[p].slab = h.pages[q].slab
      OBVIOUS
    <2> QED
      BY <2>1, <2>2, SameBatch
  <1>2. \A b \in bs : b.page \in 1..Len(h.pages) /\ b.page \in 1..Len(g.pages)
    BY DEF BlocksOK
  <1> QED
    BY ZenonT(40), <1>1, <1>2 DEF BlocksOK

\* All but slab s is sound, whose list has nothing but a head to rely on.
HeapBut(h, bs, s) ==
    /\ h \in Heaps /\ s \in 1..Len(h.slabs)
    /\ \A q \in 1..Len(h.pages) : h.pages[q].slab \in 1..Len(h.slabs)
    /\ \A x \in 1..Len(h.slabs) : x # s => SlabOK(h, x, bs)
    /\ BlocksOK(h, bs)
    /\ Len(h.slabs[s].pages) > 0 /\ h.slabs[s].pages[1] \in 1..Len(h.pages)
    /\ h.pages[h.slabs[s].pages[1]].slab = s
    /\ h.slabs[s].realloc = FALSE /\ h.slabs[s].length = 0

\* slab_append_pages_to_page() makes a list of new pages, which are nobody's.
LEMMA RefillKeeps ==
  ASSUME NEW h, NEW bs, NEW s, HeapBut(h, bs, s)
  PROVE  HeapInv(Refill(h, s), bs) /\ OnlySlab(h, Refill(h, s), s, Refill(h, s).slabs[s].pages, Initial)
  <1> DEFINE g == Refill(h, s)
             list == g.slabs[s].pages
             N == Len(h.pages)
  <1>1. /\ OnlySlab(h, g, s, list, Initial) /\ Grown(h, g, s, Initial)
        /\ list \in Seq(Nat) /\ Len(list) = Initial + 1 /\ list[1] = h.slabs[s].pages[1]
        /\ \A i \in 2..(Initial + 1) : list[i] = N + (i - 1)
    <2>1. 0 + Initial = Initial
      BY SlabAssumption
    <2> QED
      BY <2>1, Refilled DEF HeapBut
  <1> HIDE DEF g, list
  <1>2. /\ N \in Nat /\ Len(g.pages) = N + Initial /\ Initial \in Nat /\ Initial > 0 /\ Len(g.slabs) = Len(h.slabs)
        /\ Len(h.slabs) \in Nat /\ g \in Heaps /\ s \in 1..Len(h.slabs)
        /\ \A q \in 1..N : g.pages[q] = h.pages[q]
        /\ \A q \in (N + 1)..(N + Initial) : g.pages[q].slab = s /\ g.pages[q].size = h.slabs[s].size
        /\ \A q \in 1..N : h.pages[q].slab \in 1..Len(h.slabs)
    <2>1. N \in Nat /\ Len(h.slabs) \in Nat
      BY DEF HeapBut, Heaps
    <2>2. Len(g.pages) = N + Initial /\ (\A q \in 1..N : g.pages[q] = h.pages[q]) /\ g \in Heaps
      BY <1>1 DEF Grown
    <2>3. ASSUME NEW q \in (N + 1)..(N + Initial) PROVE g.pages[q].slab = s /\ g.pages[q].size = h.slabs[s].size
      <3>1. g.pages[q] = [slab |-> s, size |-> h.slabs[s].size]
        BY <1>1 DEF Grown
      <3> QED
        BY <3>1
    <2>4. Len(g.slabs) = Len(h.slabs)
      BY <1>1 DEF OnlySlab
    <2>5. s \in 1..Len(h.slabs) /\ \A q \in 1..N : h.pages[q].slab \in 1..Len(h.slabs)
      BY DEF HeapBut
    <2>6. Initial \in Nat /\ Initial > 0
      BY SlabAssumption
    <2> QED
      BY <2>1, <2>2, <2>3, <2>4, <2>5, <2>6
  <1>3. ASSUME NEW x \in 1..Len(h.slabs), x # s PROVE SlabOK(g, x, bs)
    <2>1. g.slabs[x] = h.slabs[x] /\ SlabOK(h, x, bs)
      BY <1>1, <1>3 DEF OnlySlab, HeapBut
    <2>2. \A q \in (N + 1)..Len(g.pages) : g.pages[q].slab # x
      BY <1>2, <1>3
    <2> QED
      BY <1>2, <2>1, <2>2, OtherSlab
  <1>4. SlabOK(g, s, bs)
    <2>1. list[1] \in 1..N /\ h.pages[list[1]].slab = s
      BY <1>1 DEF HeapBut
    <2>2. \A i \in 2..(Initial + 1) : list[i] \in (N + 1)..(N + Initial)
      BY SMTT(30), <1>1, <1>2
    <2>3. Chain(g, s, list)
      <3>1. ASSUME NEW i \in 1..Len(list)
            PROVE  list[i] \in 1..Len(g.pages) /\ g.pages[list[i]].slab = s
        <4>1. i = 1 \/ i \in 2..(Initial + 1)
          BY <1>1, <1>2
        <4> QED
          BY SMTT(30), <1>2, <2>1, <2>2, <4>1
      <3>2. ASSUME NEW i \in 1..Len(list), NEW j \in 1..Len(list), list[i] = list[j] PROVE i = j
        <4>1. (i = 1 \/ i \in 2..(Initial + 1)) /\ (j = 1 \/ j \in 2..(Initial + 1))
          BY <1>1, <1>2
        <4> QED
          BY SMTT(30), <1>1, <1>2, <2>1, <2>2, <3>2, <4>1
      <3> QED
        BY <1>1, <1>2, <3>1, <3>2 DEF Chain
    <2>4. ASSUME NEW i \in 2..Len(list) PROVE ~Owned(bs, list[i]) /\ ~Stale(g, s, list[i])
      <3>1. list[i] \in (N + 1)..(N + Initial)
        BY <1>1, <2>2
      <3>2. \A b \in bs : b.page \in 1..N
        BY DEF HeapBut, BlocksOK
      <3> QED
        <4>1. ~Owned(bs, list[i])
          BY <1>2, <3>1, <3>2 DEF Owned
        <4>2. g.pages[list[i]].size = h.slabs[s].size /\ g.slabs[s].size = h.slabs[s].size
          BY <1>1, <1>2, <3>1 DEF OnlySlab
        <4> QED
          BY <4>1, <4>2 DEF Stale
    <2>5. Budget(g, s, list, Initial, bs)
      BY <1>1, <1>2, <2>4 DEF Budget
    <2> QED
      BY <1>1, <2>3, <2>5 DEF SlabOK, OnlySlab, HeapBut, list
  <1>5. BlocksOK(g, bs)
    <2>1. \A q \in 1..N : g.slabs[h.pages[q].slab].pages[1] = h.slabs[h.pages[q].slab].pages[1]
      BY <1>1, <1>2 DEF OnlySlab
    <2>2. BlocksOK(h, bs) /\ N <= Len(g.pages) /\ Len(g.pages) \in Nat
      BY <1>2 DEF HeapBut
    <2> QED
      BY <1>2, <2>1, <2>2, SameBlocks
  <1>6. ASSUME NEW q \in 1..Len(g.pages) PROVE g.pages[q].slab \in 1..Len(g.slabs)
    <2>1. q \in 1..N \/ q \in (N + 1)..(N + Initial)
      BY <1>2
    <2> QED
      BY <1>2, <2>1
  <1> QED
    BY <1>1, <1>2, <1>3, <1>4, <1>5, <1>6 DEF HeapInv, g, list

\* slab_create() makes a list of new pages, which are nobody's.
LEMMA CreateKeeps ==
  ASSUME NEW h, NEW bs, NEW size \in Nat, HeapInv(h, bs)
  PROVE  HeapInv(CreateSlab(h, size), bs) /\ Len(CreateSlab(h, size).slabs) = Len(h.slabs) + 1
  <1> DEFINE g == CreateSlab(h, size)
             N == Len(h.pages)
             M == Len(h.slabs)
             t == M + 1
             list == g.slabs[t].pages
  <1>1. h \in Heaps /\ BlocksOK(h, bs)
        /\ (\A q \in 1..N : h.pages[q].slab \in 1..M) /\ \A x \in 1..M : SlabOK(h, x, bs)
    BY DEF HeapInv
  <1>2. /\ g \in Heaps /\ Len(g.slabs) = t /\ M \in Nat /\ N \in Nat
        /\ \A x \in 1..M : g.slabs[x] = h.slabs[x]
        /\ Len(g.pages) = N + (Initial + 1)
        /\ \A q \in 1..N : g.pages[q] = h.pages[q]
        /\ \A q \in (N + 1)..Len(g.pages) : g.pages[q] = [slab |-> t, size |-> size]
        /\ list \in Seq(Nat) /\ Len(list) = Initial + 1
        /\ \A i \in 1..(Initial + 1) : list[i] = N + i
        /\ g.slabs[t].length = Initial + 1 /\ g.slabs[t].size = size /\ g.slabs[t].realloc = FALSE
    BY <1>1, Created
  <1> HIDE DEF g, list
  <1>3. Initial \in Nat /\ Initial > 0
    BY SlabAssumption
  <1>4. \A q \in (N + 1)..Len(g.pages) : g.pages[q].slab = t /\ g.pages[q].size = size
    <2>1. \A q \in (N + 1)..Len(g.pages) : g.pages[q] = [slab |-> t, size |-> size]
      BY <1>2
    <2> HIDE DEF t, N
    <2> QED
      BY <2>1
  <1>5. (\A q \in 1..N : g.pages[q] = h.pages[q]) /\ \A x \in 1..M : g.slabs[x] = h.slabs[x]
    BY <1>2
  <1>6. (\A i \in 1..(Initial + 1) : list[i] = N + i) /\ list \in Seq(Nat) /\ Len(list) = Initial + 1
    BY <1>2
  <1>7. /\ Len(g.slabs) = t /\ M \in Nat /\ N \in Nat /\ t = M + 1 /\ Len(g.pages) = N + (Initial + 1)
        /\ N <= Len(g.pages) /\ Len(g.pages) \in Nat
    <2>1. Len(g.slabs) = t /\ M \in Nat /\ N \in Nat /\ t = M + 1 /\ Len(g.pages) = N + (Initial + 1)
      BY <1>2
    <2> HIDE DEF N, M, t
    <2> QED
      BY <1>3, <2>1
  <1>8. ASSUME NEW q \in 1..Len(g.pages) PROVE q \in 1..N \/ q \in (N + 1)..Len(g.pages)
    BY <1>7
  <1>9. g.slabs[t].length = Initial + 1 /\ g.slabs[t].size = size /\ g.slabs[t].realloc = FALSE
    BY <1>2
  <1>10. ASSUME NEW x \in 1..M PROVE SlabOK(g, x, bs)
    <2>1. \A q \in (N + 1)..Len(g.pages) : g.pages[q].slab # x
      BY <1>4, <1>7
    <2> QED
      BY <1>1, <1>5, <1>7, <2>1, OtherSlab
  <1>11. SlabOK(g, t, bs)
    <2>1. \A i \in 1..Len(list) : list[i] \in (N + 1)..Len(g.pages)
      <3> DEFINE P == Len(g.pages)
      <3>1. P = N + (Initial + 1) /\ N \in Nat
        BY <1>7
      <3> HIDE DEF N, P
      <3>2. \A i \in 1..(Initial + 1) : N + i \in (N + 1)..P
        BY <1>3, <3>1
      <3>3. \A i \in 1..Len(list) : list[i] \in (N + 1)..P
        BY <1>6, <3>2
      <3> QED
        BY <3>3 DEF P
    <2>2. Chain(g, t, list)
      <3>1. \A i \in 1..Len(list) : list[i] \in 1..Len(g.pages) /\ g.pages[list[i]].slab = t
        <4>1. \A q \in (N + 1)..Len(g.pages) : q \in 1..Len(g.pages)
          BY <1>7
        <4> QED
          BY <1>4, <2>1, <4>1
      <3>2. \A i \in 1..Len(list), j \in 1..Len(list) : list[i] = list[j] => i = j
        <4> HIDE DEF N
        <4> QED
          BY <1>3, <1>6, <1>7
      <3>3. Len(list) >= 2
        BY <1>3, <1>6
      <3> QED
        BY <1>6, <3>1, <3>2, <3>3 DEF Chain
    <2>3. \A q \in 1..Len(g.pages) : g.pages[q].slab = t => q \in (N + 1)..Len(g.pages)
      <3>1. \A q \in 1..N : g.pages[q].slab \in 1..M
        BY <1>1, <1>5
      <3>2. t \notin 1..M
        BY <1>7
      <3> QED
        BY <1>8, <3>1, <3>2
    <2>4. LastOfBatch(g, t) = N + 1 + Initial
      <3> DEFINE U == {q \in 1..Len(g.pages) : g.pages[q].slab = t}
      <3>1. N + 1 \in U /\ U \subseteq Nat
        <4>1. N + 1 \in (N + 1)..Len(g.pages) /\ N + 1 \in 1..Len(g.pages)
          <5> DEFINE P == Len(g.pages)
          <5>1. P = N + (Initial + 1) /\ N \in Nat
            BY <1>7
          <5> HIDE DEF N, P
          <5>2. N + 1 \in (N + 1)..P /\ N + 1 \in 1..P
            BY <1>3, <5>1
          <5> QED
            BY <5>2 DEF P
        <4> HIDE DEF N, t
        <4> QED
          BY <1>4, <4>1
      <3>2. \A q \in U : N + 1 <= q
        BY <1>7, <2>3
      <3>3. LastOfBatch(g, t) = Initial + Min(U)
        BY DEF LastOfBatch
      <3> HIDE DEF U, N
      <3>4. Min(U) \in U /\ \A y \in U : Min(U) <= y
        BY <3>1, LeastOf
      <3>5. Min(U) = N + 1
        <4> DEFINE m == Min(U)
        <4>1. m \in Nat /\ N \in Nat /\ m <= N + 1 /\ N + 1 <= m
          BY <1>7, <3>1, <3>2, <3>4
        <4> HIDE DEF m
        <4>2. m = N + 1
          BY <4>1
        <4> QED
          BY <4>2 DEF m
      <3> QED
        BY <1>3, <1>7, <3>3, <3>5
    <2>5. \A q \in 1..Len(g.pages) : g.pages[q].slab = t => ~Stale(g, t, q)
      BY <1>4, <1>9, <2>3 DEF Stale
    <2>6. ASSUME NEW i \in 2..Len(list) PROVE ~Owned(bs, list[i]) /\ ~Stale(g, t, list[i])
      <3>1. list[i] \in (N + 1)..Len(g.pages)
        BY <1>3, <1>6, <2>1
      <3>2. \A b \in bs : b.page \in 1..N
        BY <1>1 DEF BlocksOK
      <3>3. ~Owned(bs, list[i])
        BY <1>7, <3>1, <3>2 DEF Owned
      <3> QED
        BY <1>4, <1>9, <3>1, <3>3 DEF Stale
    <2>7. list[Len(list)] = LastOfBatch(g, t)
      <3> HIDE DEF N
      <3> QED
        BY <1>3, <1>6, <1>7, <2>4
    <2>8. Budget(g, t, list, Initial + 1, bs)
      <3>1. Initial + 1 \in 0..Len(list)
        BY <1>3, <1>6
      <3> HIDE DEF t
      <3> QED
        BY <2>5, <2>6, <2>7, <3>1 DEF Budget
    <2> QED
      BY <1>9, <2>2, <2>8 DEF SlabOK, list
  <1>12. BlocksOK(g, bs)
    <2>1. \A q \in 1..N : g.slabs[h.pages[q].slab].pages[1] = h.slabs[h.pages[q].slab].pages[1]
      BY <1>1, <1>5
    <2> QED
      BY <1>1, <1>5, <1>7, <2>1, SameBlocks
  <1>13. ASSUME NEW q \in 1..Len(g.pages) PROVE g.pages[q].slab \in 1..Len(g.slabs)
    <2>1. 1..M \subseteq 1..Len(g.slabs) /\ t \in 1..Len(g.slabs)
      BY <1>7
    <2>2. CASE q \in 1..N
      BY <1>1, <1>5, <2>1, <2>2
    <2>3. CASE q \in (N + 1)..Len(g.pages)
      BY <1>4, <2>1, <2>3
    <2> QED
      BY <1>8, <2>2, <2>3
  <1>14. ASSUME NEW x \in 1..Len(g.slabs) PROVE SlabOK(g, x, bs)
    <2>1. x \in 1..M \/ x = t
      BY <1>7
    <2> QED
      BY <1>10, <1>11, <2>1
  <1>15. g \in Heaps
    BY <1>2
  <1> QED
    BY <1>7, <1>12, <1>13, <1>14, <1>15 DEF HeapInv, g

\* A heap whose pages and other slabs stay, with another list for slab s that
\* has the old head.
LEMMA OneSlab ==
  ASSUME NEW h, NEW g, NEW s, NEW bs, NEW cs, NEW list, NEW len, HeapInv(h, bs), s \in 1..Len(h.slabs),
         OnlySlab(h, g, s, list, len), g.pages = h.pages,
         \A q \in 1..Len(h.pages) : h.pages[q].slab # s /\ Owned(cs, q) => Owned(bs, q),
         list[1] = h.slabs[s].pages[1], BlocksOK(h, cs),
         Chain(h, s, list), Budget(h, s, list, len, cs)
  PROVE  HeapInv(g, cs)
  <1>1. Len(h.pages) \in Nat /\ Len(h.slabs) \in Nat /\ g \in Heaps /\ Len(g.slabs) = Len(h.slabs)
    BY DEF HeapInv, Heaps, OnlySlab
  <1>2. ASSUME NEW x \in 1..Len(h.slabs), x # s PROVE SlabOK(g, x, cs)
    <2>1. g.slabs[x] = h.slabs[x] /\ SlabOK(h, x, bs)
      BY <1>2 DEF OnlySlab, HeapInv
    <2>2. \A q \in 1..Len(h.pages) : h.pages[q].slab = x /\ Owned(cs, q) => Owned(bs, q)
      BY <1>2
    <2> QED
      BY <1>1, <2>1, <2>2, OtherSlab
  <1>3. LastOfBatch(g, s) = LastOfBatch(h, s)
    BY DEF LastOfBatch
  <1>4. g.slabs[s].size = h.slabs[s].size
    BY DEF OnlySlab
  <1>5. Chain(g, s, list)
    BY DEF Chain
  <1>6. \A q : Stale(g, s, q) <=> Stale(h, s, q)
    BY <1>4 DEF Stale
  <1>7. Budget(g, s, list, len, cs)
    BY <1>3, <1>6 DEF Budget
  <1>8. SlabOK(g, s, cs)
    <2>1. h.slabs[s].realloc = FALSE
      BY DEF HeapInv, SlabOK
    <2> QED
      BY <1>5, <1>7, <2>1 DEF SlabOK, OnlySlab
  <1>9. BlocksOK(g, cs)
    <2>1. \A q \in 1..Len(h.pages) : g.slabs[h.pages[q].slab].pages[1] = h.slabs[h.pages[q].slab].pages[1]
      BY DEF OnlySlab, HeapInv
    <2>2. Len(h.pages) <= Len(g.pages) /\ \A q \in 1..Len(h.pages) : g.pages[q] = h.pages[q]
      BY <1>1
    <2> QED
      BY <1>1, <2>1, <2>2, SameBlocks
  <1> QED
    BY <1>1, <1>2, <1>8, <1>9 DEF HeapInv

\* slab_pop_page() of a slab that length lets pop: the second page.
Taken(h, s) == With(h, s, RemovePage(h.slabs[s].pages, h.slabs[s].pages[2]), h.slabs[s].length - 1)

LEMMA Taking ==
  ASSUME NEW h, NEW bs, NEW s, HeapInv(h, bs), s \in 1..Len(h.slabs), h.slabs[s].length > 0,
         NEW b, b.page = h.slabs[s].pages[2], b.true = h.slabs[s].size + HeaderBytes
  PROVE  HeapInv(Taken(h, s), bs \cup {b})
  <1> DEFINE list == h.slabs[s].pages
             len == h.slabs[s].length
             y == list[2]
             r == RemovePage(list, y)
             g == Taken(h, s)
             cs == bs \cup {b}
             last == LastOfBatch(h, s)
  <1>1. h \in Heaps /\ SlabOK(h, s, bs) /\ BlocksOK(h, bs)
    BY DEF HeapInv
  <1>2. Chain(h, s, list) /\ Budget(h, s, list, len, bs) /\ h.slabs[s].realloc = FALSE /\ len > 0
    BY <1>1 DEF SlabOK
  <1>3. IF Len(list) = 2 THEN r = list
        ELSE /\ r \in Seq(Nat) /\ Len(r) = Len(list) - 1 /\ r[1] = list[1]
             /\ \A i \in 2..Len(r) : r[i] = list[i + 1]
    <2> HIDE DEF list
    <2>1. Chain(h, s, list)
      BY <1>2
    <2>2. LET q == RemovePage(list, list[2]) IN
          IF Len(list) = 2 THEN q = list
          ELSE /\ q \in Seq(Nat) /\ Len(q) = Len(list) - 1 /\ q[1] = list[1]
               /\ \A i \in 2..Len(q) : q[i] = list[i + 1]
      BY ONLY <2>1, RemoveSecond
    <2> QED
      BY <2>2
  <1>4. g = With(h, s, r, len - 1)
    BY DEF Taken
  <1>5. b.page = y /\ b.true = h.slabs[s].size + HeaderBytes
    OBVIOUS
  <1>6. \A q \in 1..Len(h.pages) : (~Stale(h, s, q) <=> h.pages[q].size = h.slabs[s].size)
    BY DEF Stale
  <1>7. h.slabs[s].pages = list
    OBVIOUS
  <1> HIDE DEF list, len, r, g, y, last
  <1>8. /\ list \in Seq(Nat) /\ Len(list) \in Nat /\ Len(list) >= 2
        /\ \A i \in 1..Len(list) : list[i] \in 1..Len(h.pages) /\ h.pages[list[i]].slab = s
        /\ \A i \in 1..Len(list), j \in 1..Len(list) : list[i] = list[j] => i = j
    BY <1>2 DEF Chain
  <1>9. /\ len \in Nat /\ len > 0 /\ len <= Len(list)
        /\ len = Len(list) => list[Len(list)] = last
        /\ len = Len(list) => \A q \in 1..Len(h.pages) : h.pages[q].slab = s => ~Stale(h, s, q)
        /\ \A i \in 2..Len(list) : Owned(bs, list[i]) => len <= i - 1
        /\ \A i \in 2..Len(list) : Owned(bs, list[i]) /\ list[i] # last => len <= i - 2
        /\ \A i \in 2..Len(list) : Stale(h, s, list[i]) => len <= i - 2
    BY <1>2, <1>8 DEF Budget, last
  <1>10. y = list[2] /\ y \in 1..Len(h.pages) /\ h.pages[y].slab = s /\ ~Stale(h, s, y)
    <2>1. 2 \in 2..Len(list) /\ 2 \in 1..Len(list)
      BY <1>8
    <2>2. y = list[2]
      BY DEF y
    <2> QED
      BY <1>8, <1>9, <2>1, <2>2
  <1>11. Owned(bs, y) => y = last
    <2>1. 2 \in 2..Len(list)
      BY <1>8
    <2> QED
      BY <1>9, <1>10, <2>1
  <1>12. \A p : Owned(cs, p) <=> Owned(bs, p) \/ p = y
    BY <1>5 DEF Owned
  <1>13. BlocksOK(h, cs)
    <2>1. /\ \A c \in bs : /\ c.page \in 1..Len(h.pages)
                           /\ c.page # h.slabs[h.pages[c.page].slab].pages[1]
                           /\ c.true = h.pages[c.page].size + HeaderBytes
          /\ \A c, d \in bs : (c # d /\ c.page = d.page) => c.page = LastOfBatch(h, h.pages[c.page].slab)
      BY <1>1 DEF BlocksOK
    <2>2. y # h.slabs[s].pages[1]
      <3>1. 1 \in 1..Len(list) /\ 2 \in 1..Len(list)
        BY <1>8
      <3> QED
        BY <1>7, <1>8, <1>10, <3>1
    <2>3. b.true = h.pages[y].size + HeaderBytes
      BY <1>5, <1>6, <1>10
    <2>4. ASSUME NEW c \in bs, c.page = y PROVE y = LastOfBatch(h, h.pages[y].slab)
      BY <1>10, <1>11, <2>4 DEF Owned, last
    <2> QED
      BY <1>5, <1>10, <2>1, <2>2, <2>3, <2>4 DEF BlocksOK
  <1>14. Chain(h, s, r) /\ r[1] = list[1]
    <2>1. CASE Len(list) = 2
      BY <1>2, <1>3, <2>1
    <2>2. CASE Len(list) # 2
      <3>1. /\ r \in Seq(Nat) /\ Len(r) = Len(list) - 1 /\ r[1] = list[1]
            /\ \A i \in 2..Len(r) : r[i] = list[i + 1]
        BY <1>3, <2>2
      <3>2. ASSUME NEW i \in 1..Len(r)
            PROVE  \E k \in 1..Len(list) : r[i] = list[k] /\ k = (IF i = 1 THEN 1 ELSE i + 1)
        <4>1. CASE i = 1
          BY <1>8, <3>1, <4>1
        <4>2. CASE i # 1
          <5>1. i \in 2..Len(r) /\ i + 1 \in 1..Len(list)
            BY <1>8, <3>1, <4>2
          <5> QED
            BY <3>1, <4>2, <5>1
        <4> QED
          BY <4>1, <4>2
      <3>3. Len(r) >= 2
        BY <1>8, <2>2, <3>1
      <3>4. ASSUME NEW i \in 1..Len(r), NEW j \in 1..Len(r), r[i] = r[j] PROVE i = j
        <4>1. PICK k \in 1..Len(list) : r[i] = list[k] /\ k = (IF i = 1 THEN 1 ELSE i + 1)
          BY <3>2
        <4>2. PICK m \in 1..Len(list) : r[j] = list[m] /\ m = (IF j = 1 THEN 1 ELSE j + 1)
          BY <3>2
        <4>3. k = m
          BY ZenonT(40), <1>8, <3>4, <4>1, <4>2
        <4> QED
          BY <4>1, <4>2, <4>3
      <3>5. ASSUME NEW i \in 1..Len(r) PROVE r[i] \in 1..Len(h.pages) /\ h.pages[r[i]].slab = s
        <4>1. PICK k \in 1..Len(list) : r[i] = list[k]
          BY <3>2
        <4> QED
          BY <1>8, <4>1
      <3> QED
        BY <3>1, <3>3, <3>4, <3>5 DEF Chain
    <2> QED
      BY <2>1, <2>2
  <1>15. Budget(h, s, r, len - 1, cs)
    <2>1. CASE Len(list) = 2
      <3>1. r = list /\ len \in {1, 2}
        BY <1>3, <1>9, <2>1
      <3>2. list[2] = y /\ ~Stale(h, s, y)
        BY <1>10
      <3>3. len = 2 => y = last
        BY <1>9, <2>1, <3>2
      <3>4. ASSUME NEW i \in 2..2
            PROVE  /\ Owned(cs, list[i]) => len - 1 <= i - 1
                   /\ (Owned(cs, list[i]) /\ list[i] # last) \/ Stale(h, s, list[i]) => len - 1 <= i - 2
        BY <3>1, <3>2, <3>3
      <3>5. len - 1 \in 0..2 /\ len - 1 # 2
        BY <3>1
      <3> QED
        BY <2>1, <3>1, <3>4, <3>5 DEF Budget, last
    <2>2. CASE Len(list) # 2
      <3>1. Len(r) = Len(list) - 1 /\ \A i \in 2..Len(r) : r[i] = list[i + 1]
        BY <1>3, <2>2
      <3>2. len - 1 \in 0..Len(r)
        BY SMTT(30), <1>8, <1>9, <3>1
      <3>3. len - 1 = Len(r) => len = Len(list) /\ r[Len(r)] = list[Len(list)]
        <4>1. Len(r) \in 2..Len(r) /\ Len(r) + 1 = Len(list)
          BY <1>8, <2>2, <3>1
        <4>2. r[Len(r)] = list[Len(list)]
          BY <3>1, <4>1
        <4> QED
          BY <1>8, <1>9, <3>1, <4>2
      <3>4. ASSUME NEW i \in 2..Len(r)
            PROVE  /\ Owned(cs, r[i]) => len - 1 <= i - 1
                   /\ (Owned(cs, r[i]) /\ r[i] # last) \/ Stale(h, s, r[i]) => len - 1 <= i - 2
        <4>1. i + 1 \in 2..Len(list) /\ i + 1 \in 1..Len(list) /\ 2 \in 1..Len(list) /\ i + 1 # 2 /\ i \in Nat
          BY SMTT(30), <1>8, <3>1
        <4>2. r[i] = list[i + 1]
          BY <3>1
        <4>3. r[i] # y
          BY <1>8, <1>10, <4>1, <4>2
        <4>4. Owned(cs, r[i]) => Owned(bs, r[i])
          BY <1>12, <4>3
        <4>5. /\ Owned(bs, r[i]) => len <= (i + 1) - 1
              /\ Owned(bs, r[i]) /\ r[i] # last => len <= (i + 1) - 2
              /\ Stale(h, s, r[i]) => len <= (i + 1) - 2
          BY <1>9, <4>1, <4>2
        <4>6. /\ len <= (i + 1) - 1 => len - 1 <= i - 1
              /\ len <= (i + 1) - 2 => len - 1 <= i - 2
          BY <1>9, <4>1
        <4> QED
          BY <4>4, <4>5, <4>6
      <3>5. len - 1 = Len(r) => /\ r[Len(r)] = last
                                   /\ \A q \in 1..Len(h.pages) : h.pages[q].slab = s => ~Stale(h, s, q)
        BY <1>9, <3>3
      <3> QED
        BY <3>2, <3>4, <3>5 DEF Budget, last
    <2> QED
      BY <2>1, <2>2
  <1>16. OnlySlab(h, g, s, r, len - 1) /\ g.pages = h.pages
    <2>1. r \in Seq(Nat) /\ len - 1 \in Nat
      BY <1>9, <1>14 DEF Chain
    <2> QED
      BY <1>1, <1>4, <2>1, Assigned
  <1>17. \A q \in 1..Len(h.pages) : h.pages[q].slab # s /\ Owned(cs, q) => Owned(bs, q)
    BY <1>10, <1>12
  <1>18. r[1] = h.slabs[s].pages[1]
    BY <1>7, <1>14
  <1> HIDE DEF cs
  <1>19. HeapInv(g, cs)
    BY <1>13, <1>14, <1>15, <1>16, <1>17, <1>18, OneSlab
  <1> QED
    BY <1>19 DEF g, cs

\* slab_free() of a block that somebody owns.
LEMMA Freeing ==
  ASSUME NEW h, NEW bs, HeapInv(h, bs), NEW b \in bs
  PROVE  /\ HeapInv(FreePage(h, b.page), bs \ {b})
         /\ Len(FreePage(h, b.page).slabs) = Len(h.slabs) /\ FreePage(h, b.page).ap = h.ap
  <1> DEFINE p == b.page
             s == h.pages[p].slab
             list == h.slabs[s].pages
             len == h.slabs[s].length
             r == Push(list, p)
             g == FreePage(h, p)
             cs == bs \ {b}
             last == LastOfBatch(h, s)
  <1>1. h \in Heaps /\ BlocksOK(h, bs)
    BY DEF HeapInv
  <1>2. p \in 1..Len(h.pages) /\ s \in 1..Len(h.slabs) /\ p # h.slabs[s].pages[1]
    BY <1>1 DEF BlocksOK, HeapInv
  <1>3. Chain(h, s, list) /\ Budget(h, s, list, len, bs)
    BY <1>2 DEF HeapInv, SlabOK
  <1>4. g = With(h, s, r, len)
    BY <1>1, <1>2, FreeForm
  <1>5. h.slabs[s].pages = list /\ h.slabs[s].length = len /\ h.pages[p].slab = s /\ b.page = p
    OBVIOUS
  <1> HIDE DEF p, list, len, r, g, s, last
  <1>6. /\ list \in Seq(Nat) /\ Len(list) \in Nat /\ Len(list) >= 2
        /\ \A i \in 1..Len(list) : list[i] \in 1..Len(h.pages) /\ h.pages[list[i]].slab = s
        /\ \A i \in 1..Len(list), j \in 1..Len(list) : list[i] = list[j] => i = j
    BY <1>3 DEF Chain
  <1>7. /\ len \in Nat /\ len <= Len(list)
        /\ len = Len(list) => list[Len(list)] = last
        /\ len = Len(list) => \A q \in 1..Len(h.pages) : h.pages[q].slab = s => ~Stale(h, s, q)
        /\ \A i \in 2..Len(list) : Owned(bs, list[i]) => len <= i - 1
        /\ \A i \in 2..Len(list) : Owned(bs, list[i]) /\ list[i] # last => len <= i - 2
        /\ \A i \in 2..Len(list) : Stale(h, s, list[i]) => len <= i - 2
    BY <1>3, <1>6 DEF Budget, last
  <1>8. p \in Nat
    BY <1>1, <1>2 DEF Heaps
  <1>9. \/ /\ \A i \in 1..Len(list) : list[i] # p
           /\ r \in Seq(Nat) /\ Len(r) = Len(list) + 1 /\ r[Len(list) + 1] = p
           /\ \A i \in 1..Len(list) : r[i] = list[i]
        \/ \E k \in 1..Len(list) :
              /\ list[k] = p /\ r \in Seq(Nat) /\ Len(r) = k
              /\ \A i \in 1..k : r[i] = list[i]
    BY <1>6, <1>8, Pushed DEF r
  <1>10. Owned(bs, p) /\ (Owned(cs, p) => p = last) /\ \A q : Owned(cs, q) => Owned(bs, q)
    <2>1. Owned(bs, p) /\ \A q : Owned(cs, q) => Owned(bs, q)
      BY <1>5 DEF Owned
    <2>2. ASSUME NEW c \in cs, c.page = p PROVE p = last
      <3>1. c \in bs /\ c # b /\ c.page = b.page
        BY <1>5, <2>2
      <3>2. b.page = LastOfBatch(h, h.pages[b.page].slab)
        BY <1>1, <3>1 DEF BlocksOK
      <3> QED
        BY <1>5, <3>2 DEF last
    <2> QED
      BY <2>1, <2>2 DEF Owned
  <1>11. BlocksOK(h, cs)
    BY <1>1 DEF BlocksOK
  <1>12. Chain(h, s, r) /\ r[1] = list[1] /\ Budget(h, s, r, len, cs)
    <2>1. CASE /\ \A i \in 1..Len(list) : list[i] # p
               /\ r \in Seq(Nat) /\ Len(r) = Len(list) + 1 /\ r[Len(list) + 1] = p
               /\ \A i \in 1..Len(list) : r[i] = list[i]
      <3>1. \A i \in 1..Len(r) : (i \in 1..Len(list) /\ r[i] = list[i]) \/ (i = Len(list) + 1 /\ r[i] = p)
        BY <1>6, <2>1
      <3>2. Chain(h, s, r)
        <4>1. \A i \in 1..Len(r) : r[i] \in 1..Len(h.pages) /\ h.pages[r[i]].slab = s
          <5>1. p \in 1..Len(h.pages) /\ h.pages[p].slab = s
            BY <1>2, <1>5
          <5> QED
            BY <1>6, <3>1, <5>1
        <4>2. ASSUME NEW i \in 1..Len(r), NEW j \in 1..Len(r), r[i] = r[j] PROVE i = j
          <5>1. CASE i \in 1..Len(list) /\ r[i] = list[i]
            <6>1. j \in 1..Len(list) /\ r[j] = list[j]
              BY <2>1, <3>1, <4>2, <5>1
            <6> QED
              BY <1>6, <4>2, <5>1, <6>1
          <5>2. CASE i = Len(list) + 1 /\ r[i] = p
            BY <2>1, <3>1, <4>2, <5>2
          <5> QED
            BY <3>1, <5>1, <5>2
        <4>3. Len(r) >= 2
          BY <1>6, <2>1
        <4> QED
          BY <2>1, <4>1, <4>2, <4>3 DEF Chain
      <3>3. r[1] = list[1]
        <4>1. 1 \in 1..Len(list)
          BY <1>6
        <4> QED
          BY <2>1, <4>1
      <3>4. len \in 0..Len(r) /\ len # Len(r)
        BY <1>6, <1>7, <2>1
      <3>5. ASSUME NEW i \in 2..Len(r)
            PROVE  /\ Owned(cs, r[i]) => len <= i - 1
                   /\ (Owned(cs, r[i]) /\ r[i] # last) \/ Stale(h, s, r[i]) => len <= i - 2
        <4>1. CASE i \in 2..Len(list)
          <5>1. r[i] = list[i]
            BY <1>6, <2>1, <4>1
          <5> QED
            BY <1>7, <1>10, <4>1, <5>1
        <4>2. CASE i = Len(list) + 1
          <5>1. r[i] = p /\ len <= i - 1
            BY <1>6, <1>7, <2>1, <4>2
          <5>2. Stale(h, s, p) => len # Len(list)
            BY <1>2, <1>5, <1>7
          <5>3. len # Len(list) => len <= i - 2
            BY <1>6, <1>7, <4>2
          <5> QED
            BY <1>10, <5>1, <5>2, <5>3
        <4> QED
          BY <1>6, <2>1, <4>1, <4>2
      <3> QED
        BY <3>2, <3>3, <3>4, <3>5 DEF Budget, last
    <2>2. CASE \E k \in 1..Len(list) :
                  /\ list[k] = p /\ r \in Seq(Nat) /\ Len(r) = k
                  /\ \A i \in 1..k : r[i] = list[i]
      <3>1. PICK k \in 1..Len(list) :
                  /\ list[k] = p /\ r \in Seq(Nat) /\ Len(r) = k
                  /\ \A i \in 1..k : r[i] = list[i]
        BY <2>2
      <3>2. k \in 2..Len(list) /\ k \in Nat
        <4>1. k # 1
          BY <1>2, <1>5, <3>1
        <4> QED
          BY <1>6, <4>1
      <3>3. Chain(h, s, r)
        <4>1. \A i \in 1..k : i \in 1..Len(list)
          BY <1>6, <3>2
        <4>2. \A i \in 1..Len(r) : r[i] \in 1..Len(h.pages) /\ h.pages[r[i]].slab = s
          BY <1>6, <3>1, <4>1
        <4>3. \A i \in 1..Len(r), j \in 1..Len(r) : r[i] = r[j] => i = j
          BY <1>6, <3>1, <4>1
        <4> QED
          BY <3>1, <3>2, <4>2, <4>3 DEF Chain
      <3>4. r[1] = list[1]
        BY <3>1, <3>2
      <3>5. len <= k - 1
        BY <1>7, <1>10, <3>1, <3>2
      <3>6. len \in 0..Len(r) /\ len # Len(r)
        BY <1>7, <3>1, <3>2, <3>5
      <3>7. ASSUME NEW i \in 2..Len(r)
            PROVE  /\ Owned(cs, r[i]) => len <= i - 1
                   /\ (Owned(cs, r[i]) /\ r[i] # last) \/ Stale(h, s, r[i]) => len <= i - 2
        <4>1. i \in 2..Len(list) /\ r[i] = list[i]
          BY <1>6, <3>1, <3>2
        <4> QED
          BY <1>7, <1>10, <4>1
      <3> QED
        BY <3>3, <3>4, <3>6, <3>7 DEF Budget, last
    <2> QED
      BY <1>9, <2>1, <2>2
  <1>13. OnlySlab(h, g, s, r, len) /\ g.pages = h.pages /\ g.ap = h.ap
    <2>1. r \in Seq(Nat)
      BY <1>12 DEF Chain
    <2> QED
      BY <1>1, <1>2, <1>4, <1>7, <2>1, Assigned DEF With, Heaps
  <1>14. \A q \in 1..Len(h.pages) : h.pages[q].slab # s /\ Owned(cs, q) => Owned(bs, q)
    BY <1>10
  <1>15. r[1] = h.slabs[s].pages[1]
    BY <1>5, <1>12
  <1> HIDE DEF cs
  <1>16. HeapInv(g, cs)
    BY <1>2, <1>11, <1>12, <1>13, <1>14, <1>15, OneSlab
  <1> QED
    BY <1>13, <1>16 DEF g, cs, p, OnlySlab

\* Whoever receives the page of a pop, a block of the recorded size.
Receives(got, bs, n) ==
    /\ \A b : b.page = got.page /\ b.true = got.true => HeapInv(got.heap, bs \cup {b})
    /\ Len(got.heap.slabs) = n

\* The end of slab_pop_page(), from the test of length on.
LEMMA Served ==
  ASSUME NEW d, NEW bs, NEW s, s \in 1..Len(d.slabs), HeapInv(d, bs) \/ HeapBut(d, bs, s)
  PROVE  LET r == IF d.slabs[s].length > 0 THEN d ELSE Refill(d, s)
             p == r.slabs[s].pages[2]
         IN  Receives([heap |-> [r EXCEPT !.slabs[s].pages = RemovePage(@, p), !.slabs[s].length = @ - 1],
                       page |-> p, true |-> r.slabs[s].size + HeaderBytes], bs, Len(d.slabs))
  <1> DEFINE r == IF d.slabs[s].length > 0 THEN d ELSE Refill(d, s)
             p == r.slabs[s].pages[2]
             new == [r EXCEPT !.slabs[s].pages = RemovePage(@, p), !.slabs[s].length = @ - 1]
             got == [heap |-> new, page |-> p, true |-> r.slabs[s].size + HeaderBytes]
  <1>1. d.slabs[s].length = 0 => HeapBut(d, bs, s)
    <2>1. ASSUME HeapInv(d, bs), d.slabs[s].length = 0 PROVE HeapBut(d, bs, s)
      <3>1. /\ d \in Heaps /\ BlocksOK(d, bs) /\ SlabOK(d, s, bs)
            /\ \A q \in 1..Len(d.pages) : d.pages[q].slab \in 1..Len(d.slabs)
            /\ \A x \in 1..Len(d.slabs) : SlabOK(d, x, bs)
        BY <2>1 DEF HeapInv
      <3> DEFINE list == d.slabs[s].pages
      <3>2. Chain(d, s, list) /\ d.slabs[s].realloc = FALSE
        BY <3>1 DEF SlabOK
      <3> HIDE DEF list
      <3>3. Len(list) > 0 /\ list[1] \in 1..Len(d.pages) /\ d.pages[list[1]].slab = s
        <4>1. Len(list) >= 2 /\ Len(list) \in Nat
          BY <3>2 DEF Chain
        <4>2. 1 \in 1..Len(list) /\ Len(list) > 0
          BY <4>1
        <4> QED
          BY <3>2, <4>2 DEF Chain
      <3> QED
        BY <2>1, <3>1, <3>2, <3>3 DEF HeapBut, list
    <2> QED
      BY <2>1
  <1>2. d \in Heaps /\ d.slabs[s].length \in Nat
    <2>1. d \in Heaps
      BY DEF HeapInv, HeapBut
    <2>2. d.slabs \in Seq(SlabRecord)
      BY <2>1 DEF Heaps
    <2>3. d.slabs[s] \in SlabRecord
      BY <2>2, ElementOfSeq
    <2> QED
      BY <2>1, <2>3 DEF SlabRecord
  <1>3. HeapInv(r, bs) /\ Len(r.slabs) = Len(d.slabs) /\ r.slabs[s].length > 0
    <2>1. CASE d.slabs[s].length > 0
      <3>1. HeapInv(d, bs)
        BY <1>2, <2>1 DEF HeapBut
      <3> QED
        BY <2>1, <3>1
    <2>2. CASE ~(d.slabs[s].length > 0)
      <3>1. HeapBut(d, bs, s) /\ r = Refill(d, s)
        BY <1>1, <1>2, <2>2
      <3>2. HeapInv(r, bs) /\ OnlySlab(d, r, s, r.slabs[s].pages, Initial)
        BY <3>1, RefillKeeps
      <3>3. Initial > 0
        BY SlabAssumption
      <3> QED
        BY <3>2, <3>3 DEF OnlySlab
    <2> QED
      BY <2>1, <2>2
  <1> HIDE DEF r
  <1>4. s \in 1..Len(r.slabs) /\ r \in Heaps
    BY <1>3 DEF HeapInv
  <1>5. new = Taken(r, s)
    BY <1>4, TakenForm DEF Taken
  <1>6. Len(new.slabs) = Len(d.slabs)
    <2>1. r.slabs \in Seq(SlabRecord)
      BY <1>4 DEF Heaps
    <2> DEFINE x == [r.slabs[s] EXCEPT !.pages = RemovePage(r.slabs[s].pages, p), !.length = r.slabs[s].length - 1]
    <2>2. new.slabs = [r.slabs EXCEPT ![s] = x]
      BY <1>4, <1>5 DEF Taken, With, Heaps
    <2> HIDE DEF x
    <2>3. Len([r.slabs EXCEPT ![s] = x]) = Len(r.slabs)
      BY <2>1, <1>4
    <2> QED
      BY <1>3, <2>2, <2>3
  <1>7. got.heap = new /\ got.page = p /\ got.true = r.slabs[s].size + HeaderBytes
    BY DEF got
  <1> HIDE DEF new, got
  <1>8. ASSUME NEW b, b.page = got.page /\ b.true = got.true PROVE HeapInv(got.heap, bs \cup {b})
    BY <1>3, <1>4, <1>5, <1>7, <1>8, Taking
  <1>9. Receives(got, bs, Len(d.slabs))
    BY <1>6, <1>7, <1>8 DEF Receives
  <1> QED
    BY <1>9 DEF got, new, r

\* slab_pop_page()
LEMMA Popping ==
  ASSUME NEW h, NEW bs, NEW s, HeapInv(h, bs), s \in 1..Len(h.slabs)
  PROVE  Receives(Pop(h, s), bs, Len(h.slabs))
  <1>1. ~h.slabs[s].realloc
    BY DEF HeapInv, SlabOK
  <1> QED
    BY <1>1, Served DEF Pop

LEMMA DropForm ==
  ASSUME NEW h \in Heaps, NEW s \in 1..Len(h.slabs)
  PROVE  LET list == h.slabs[s].pages IN
         DropAll(h, s) = [h EXCEPT !.slabs = [h.slabs EXCEPT ![s] =
             [h.slabs[s] EXCEPT !.pages = <<Head(list), Last(list)>>, !.realloc = FALSE, !.length = 0]]]
  <1>1. h.slabs \in Seq(SlabRecord)
    BY DEF Heaps
  <1>2. h.slabs[s] \in SlabRecord
    BY <1>1, ElementOfSeq
  <1> DEFINE ends == <<Head(h.slabs[s].pages), Last(h.slabs[s].pages)>>
  <1>3. DropAll(h, s) = [h EXCEPT !.slabs[s].pages = ends, !.slabs[s].realloc = FALSE, !.slabs[s].length = 0]
    BY DEF DropAll
  <1> HIDE DEF ends
  <1>4. DropAll(h, s) = [h EXCEPT !.slabs = [h.slabs EXCEPT ![s] =
            [h.slabs[s] EXCEPT !.pages = ends, !.realloc = FALSE, !.length = 0]]]
    <2> DEFINE rec == h.slabs[s]
               mid == [rec EXCEPT !.pages = ends, !.realloc = FALSE]
               v == [h.slabs EXCEPT ![s] = mid]
               w == [h EXCEPT !.slabs[s].pages = ends, !.slabs[s].realloc = FALSE]
    <2>1. w = [h EXCEPT !.slabs = v]
      BY <1>1, <1>2 DEF Heaps, SlabRecord
    <2>2. DropAll(h, s) = [w EXCEPT !.slabs[s].length = 0]
      BY <1>3
    <2>3. [mid EXCEPT !.length = 0] = [rec EXCEPT !.pages = ends, !.realloc = FALSE, !.length = 0]
      OBVIOUS
    <2> HIDE DEF w, mid
    <2>4. w.slabs = v /\ v[s] = mid /\ [v EXCEPT ![s] = [mid EXCEPT !.length = 0]]
                                       = [h.slabs EXCEPT ![s] = [mid EXCEPT !.length = 0]]
      BY <1>1, <2>1 DEF Heaps
    <2> HIDE DEF v
    <2>5. [w EXCEPT !.slabs[s].length = 0] = [w EXCEPT !.slabs = [v EXCEPT ![s] = [mid EXCEPT !.length = 0]]]
      BY <2>4
    <2>6. [w EXCEPT !.slabs = [h.slabs EXCEPT ![s] = [mid EXCEPT !.length = 0]]]
          = [h EXCEPT !.slabs = [h.slabs EXCEPT ![s] = [mid EXCEPT !.length = 0]]]
      BY <2>1 DEF Heaps
    <2> QED
      BY <2>2, <2>3, <2>4, <2>5, <2>6
  <1> QED
    BY <1>4 DEF ends

\* pool_realloc(): the object size grows, and slab_pop_page() gives up the list.
LEMMA Growing ==
  ASSUME NEW h, NEW bs, NEW s, NEW n \in Nat, HeapInv(h, bs), s \in 1..Len(h.slabs)
  PROVE  Receives(Pop([h EXCEPT !.slabs[s].size = n, !.slabs[s].realloc = TRUE], s), bs, Len(h.slabs))
  <1> DEFINE u == [h EXCEPT !.slabs[s].size = n, !.slabs[s].realloc = TRUE]
             d == DropAll(u, s)
             list == h.slabs[s].pages
             ends == <<Head(list), Last(list)>>
             x == [pages |-> ends, length |-> 0, size |-> n, realloc |-> FALSE]
             rec == h.slabs[s]
  <1>1. h \in Heaps /\ h.slabs \in Seq(SlabRecord) /\ rec \in SlabRecord /\ BlocksOK(h, bs)
    <2>1. h \in Heaps /\ h.slabs \in Seq(SlabRecord) /\ BlocksOK(h, bs)
      BY DEF HeapInv, Heaps
    <2> QED
      BY <2>1, ElementOfSeq
  <1>2. Chain(h, s, list)
    BY DEF HeapInv, SlabOK
  <1> HIDE DEF rec
  <1>3. u.slabs[s].realloc /\ u.slabs[s].pages = list /\ u \in Heaps /\ Len(u.slabs) = Len(h.slabs)
        /\ u = [h EXCEPT !.slabs = u.slabs]
        /\ \A y \in 1..Len(h.slabs) : u.slabs[y] = IF y = s THEN [rec EXCEPT !.size = n, !.realloc = TRUE] ELSE h.slabs[y]
    <2> DEFINE mid == [rec EXCEPT !.size = n, !.realloc = TRUE]
               v == [h.slabs EXCEPT ![s] = mid]
    <2>1. u = [h EXCEPT !.slabs = v]
      BY <1>1 DEF Heaps, rec
    <2>2. mid \in SlabRecord /\ mid.realloc /\ mid.pages = rec.pages
      BY <1>1 DEF SlabRecord
    <2> HIDE DEF mid, u
    <2>3. /\ v \in Seq(SlabRecord) /\ Len(v) = Len(h.slabs)
          /\ \A y \in 1..Len(h.slabs) : v[y] = IF y = s THEN mid ELSE h.slabs[y]
      BY <1>1, <2>2, ExceptSeq
    <2> HIDE DEF v
    <2>4. u \in Heaps /\ u.slabs = v
      BY <1>1, <2>1, <2>3 DEF Heaps
    <2> QED
      BY <2>1, <2>2, <2>3, <2>4 DEF rec, mid
  <1> HIDE DEF u, list
  <1>4. Len(list) >= 2 /\ Head(list) = list[1] /\ list \in Seq(Nat) /\ list[1] \in 1..Len(h.pages) /\ h.pages[list[1]].slab = s
        /\ Last(list) \in Nat
    <2>1. list \in Seq(Nat) /\ Len(list) >= 2 /\ Len(list) \in Nat
      BY <1>2 DEF Chain
    <2>2. 1 \in 1..Len(list) /\ Len(list) \in 1..Len(list)
      BY <2>1
    <2>3. list[1] \in 1..Len(h.pages) /\ h.pages[list[1]].slab = s
      BY <1>2, <2>2 DEF Chain
    <2>4. list[Len(list)] \in Nat
      BY <2>1, <2>2, ElementOfSeq
    <2> QED
      BY <2>1, <2>3, <2>4 DEF Last
  <1>5. ends \in Seq(Nat) /\ Len(ends) = 2 /\ ends[1] = list[1]
    <2>1. Head(list) \in Nat
      BY <1>1, <1>4 DEF Heaps
    <2> QED
      BY <1>4, <2>1
  <1>6. d = [h EXCEPT !.slabs = [h.slabs EXCEPT ![s] = x]]
    <2> DEFINE mid == u.slabs[s]
    <2>1. mid \in SlabRecord /\ mid.size = n
      <3>1. mid = [rec EXCEPT !.size = n, !.realloc = TRUE]
        BY <1>3
      <3> HIDE DEF mid
      <3> QED
        BY <1>1, <3>1 DEF SlabRecord
    <2>2. d = [u EXCEPT !.slabs = [u.slabs EXCEPT ![s] = [mid EXCEPT !.pages = ends, !.realloc = FALSE, !.length = 0]]]
      <3>1. s \in 1..Len(u.slabs)
        BY <1>3
      <3> HIDE DEF x
      <3> QED
        BY <1>3, <3>1, DropForm
    <2> HIDE DEF mid, d
    <2>3. [mid EXCEPT !.pages = ends, !.realloc = FALSE, !.length = 0] = x
      <3> DEFINE k == [mid EXCEPT !.pages = ends, !.realloc = FALSE, !.length = 0]
      <3>1. ends \in Seq(Nat)
        BY <1>5
      <3> HIDE DEF ends
      <3>2. k \in SlabRecord /\ k.pages = ends /\ k.length = 0 /\ k.size = n /\ k.realloc = FALSE
        BY <2>1, <3>1 DEF SlabRecord
      <3>3. x \in SlabRecord /\ x.pages = ends /\ x.length = 0 /\ x.size = n /\ x.realloc = FALSE
        BY <3>1 DEF SlabRecord
      <3> HIDE DEF k, x
      <3>4. k = x
        BY <3>2, <3>3 DEF SlabRecord
      <3> QED
        BY <3>4 DEF k
    <2> HIDE DEF x
    <2>4. [u.slabs EXCEPT ![s] = x] = [h.slabs EXCEPT ![s] = x]
      <3>1. u.slabs \in Seq(SlabRecord)
        BY <1>3 DEF Heaps
      <3>2. DOMAIN u.slabs = DOMAIN h.slabs
        BY <1>1, <1>3, <3>1
      <3>3. \A y \in DOMAIN h.slabs : y # s => u.slabs[y] = h.slabs[y]
        BY <1>1, <1>3
      <3>4. h.slabs = [y \in DOMAIN h.slabs |-> h.slabs[y]] /\ u.slabs = [y \in DOMAIN h.slabs |-> u.slabs[y]]
        BY <1>1, <3>1, <3>2
      <3> QED
        BY <3>2, <3>3, <3>4
    <2>5. [u EXCEPT !.slabs = [h.slabs EXCEPT ![s] = x]] = [h EXCEPT !.slabs = [h.slabs EXCEPT ![s] = x]]
      BY <1>1, <1>3 DEF Heaps
    <2> QED
      BY <2>2, <2>3, <2>4, <2>5
  <1> HIDE DEF ends
  <1>7. x \in SlabRecord /\ x.pages = ends /\ x.length = 0 /\ x.size = n /\ x.realloc = FALSE
    BY <1>5 DEF SlabRecord
  <1> HIDE DEF x, d
  <1>8. /\ d \in Heaps /\ d.pages = h.pages /\ Len(d.slabs) = Len(h.slabs)
        /\ \A y \in 1..Len(h.slabs) : d.slabs[y] = IF y = s THEN x ELSE h.slabs[y]
    <2> DEFINE v == [h.slabs EXCEPT ![s] = x]
    <2>1. /\ v \in Seq(SlabRecord) /\ Len(v) = Len(h.slabs)
          /\ \A y \in 1..Len(h.slabs) : v[y] = IF y = s THEN x ELSE h.slabs[y]
      BY <1>1, <1>7, ExceptSeq
    <2> HIDE DEF v
    <2>2. d = [h EXCEPT !.slabs = v]
      BY <1>6 DEF v
    <2>3. d \in Heaps /\ d.slabs = v /\ d.pages = h.pages
      BY <1>1, <2>1, <2>2 DEF Heaps
    <2> QED
      BY <2>1, <2>3
  <1>9. HeapBut(d, bs, s)
    <2>1. ASSUME NEW y \in 1..Len(d.slabs), y # s PROVE SlabOK(d, y, bs)
      <3>1. d.slabs[y] = h.slabs[y] /\ SlabOK(h, y, bs) /\ Len(h.pages) \in Nat
        BY <1>1, <1>8, <2>1 DEF HeapInv, Heaps
      <3>2. \A q \in (Len(h.pages) + 1)..Len(d.pages) : d.pages[q].slab # y
        BY <1>8, <3>1
      <3>3. Len(d.pages) = Len(h.pages) /\ \A q \in 1..Len(h.pages) : d.pages[q] = h.pages[q]
        BY <1>8
      <3>4. Len(h.pages) <= Len(d.pages) /\ Len(d.pages) \in Nat
        BY <3>1, <3>3
      <3> QED
        BY <3>1, <3>2, <3>3, <3>4, OtherSlab
    <2>2. BlocksOK(d, bs)
      <3>1. d.slabs[s].pages[1] = list[1]
        BY <1>5, <1>7, <1>8
      <3>2. ASSUME NEW q \in 1..Len(h.pages)
            PROVE  d.slabs[h.pages[q].slab].pages[1] = h.slabs[h.pages[q].slab].pages[1]
        <4>1. h.pages[q].slab \in 1..Len(h.slabs)
          BY DEF HeapInv
        <4> QED
          BY <1>8, <3>1, <4>1 DEF list
      <3>3. Len(h.pages) \in Nat /\ Len(d.pages) = Len(h.pages) /\ \A q \in 1..Len(h.pages) : d.pages[q] = h.pages[q]
        BY <1>1, <1>8 DEF Heaps
      <3>4. Len(h.pages) <= Len(d.pages) /\ Len(d.pages) \in Nat
        BY <3>3
      <3> QED
        BY <1>1, <3>2, <3>3, <3>4, SameBlocks
    <2>3. \A q \in 1..Len(d.pages) : d.pages[q].slab \in 1..Len(d.slabs)
      BY <1>8 DEF HeapInv
    <2>4. d.slabs[s] = x
      BY <1>8
    <2>5. Len(ends) > 0 /\ ends[1] \in 1..Len(d.pages) /\ d.pages[ends[1]].slab = s
      BY <1>4, <1>5, <1>8
    <2>6. s \in 1..Len(d.slabs)
      BY <1>8
    <2> QED
      BY <1>7, <1>8, <2>1, <2>2, <2>3, <2>4, <2>5, <2>6 DEF HeapBut
  <1>10. Receives(Pop(u, s), bs, Len(d.slabs))
    <2>1. s \in 1..Len(d.slabs)
      BY <1>8
    <2> QED
      BY <1>3, <1>9, <2>1, Served DEF Pop, d
  <1> QED
    BY <1>8, <1>10 DEF u

-----------------------------------------------------------------------------
(* The small slabs                                                         *)

LEMMA BestFits ==
  ASSUME NEW h \in Heaps, NEW S, S \subseteq 1..Len(h.slabs), S # {}
  PROVE  BestFit(h, S) \in S
  <1>1. S \subseteq Nat /\ \A s \in S : h.slabs[s].size \in Nat
    <2>1. h.slabs \in Seq(SlabRecord) /\ Len(h.slabs) \in Nat
      BY DEF Heaps
    <2>2. \A s \in S : h.slabs[s] \in SlabRecord
      BY <2>1, ElementOfSeq
    <2> QED
      BY SMTT(30), <2>1, <2>2 DEF SlabRecord
  <1> DEFINE T == {h.slabs[s].size : s \in S}
  <1>2. T \subseteq Nat /\ T # {} /\ \A s \in S : h.slabs[s].size \in T
    BY <1>1
  <1>3. \A m \in T : \E s \in S : h.slabs[s].size = m
    OBVIOUS
  <1> HIDE DEF T
  <1>4. PICK m \in T : \A k \in T : m <= k
    BY <1>2, LeastNat
  <1> DEFINE U == {s \in S : h.slabs[s].size = m}
  <1>5. U \subseteq Nat /\ U # {}
    BY <1>1, <1>3
  <1> HIDE DEF U
  <1>6. PICK s \in U : \A t \in U : s <= t
    BY <1>5, LeastNat
  <1>7. s \in S /\ h.slabs[s].size = m
    BY <1>6 DEF U
  <1>8. ASSUME NEW t \in S
        PROVE  \/ h.slabs[s].size < h.slabs[t].size
               \/ h.slabs[s].size = h.slabs[t].size /\ s <= t
    <2>1. m <= h.slabs[t].size /\ m \in Nat /\ h.slabs[t].size \in Nat
      BY <1>1, <1>2, <1>4
    <2>2. h.slabs[t].size = m => s <= t
      BY <1>6 DEF U
    <2> QED
      BY <1>7, <2>1, <2>2
  <1> QED
    BY <1>7, <1>8 DEF BestFit

LEMMA PowerOfTwo == ASSUME NEW m \in Nat PROVE 2^m \in Nat
  <1>1. IsFiniteSet(1..m) /\ Cardinality(1..m) = m
    BY FS_Interval
  <1>2. IsFiniteSet(SUBSET (1..m)) /\ Cardinality(SUBSET (1..m)) = 2^m
    BY <1>1, FS_SUBSET
  <1> QED
    BY <1>2, FS_CardinalityType

LEMMA SizesAreNat == \A i \in 1..KmallocSlabs : SmallSize(i) \in Nat
  <1>1. ASSUME NEW i \in 1..KmallocSlabs PROVE SmallSize(i) \in Nat
    <2> DEFINE x == 2^(i - 1)
    <2>1. i - 1 \in Nat
      BY SlabAssumption
    <2>2. x \in Nat
      BY <2>1, PowerOfTwo
    <2> HIDE DEF x
    <2>3. 64 * x \in Nat
      BY <2>2
    <2> QED
      BY <2>3 DEF SmallSize, x
  <1> QED
    BY <1>1

\* kmalloc() creates the small slabs one after the other.
LEMMA SmallChain ==
  ASSUME heap \in Heaps, kslabs = 0
  PROVE  \E c : IsRun(c, Heaps, heap, [x \in Heaps \X (1..KmallocSlabs) |-> CreateSlab(x[1], SmallSize(x[2]))], KmallocSlabs)
                /\ WithSmallSlabs = c[KmallocSlabs]
  <1> DEFINE G == [x \in Heaps \X (1..KmallocSlabs) |-> CreateSlab(x[1], SmallSize(x[2]))]
             K == KmallocSlabs
             Step(c, i) == IF i = 0 THEN heap ELSE CreateSlab(c[i - 1], SmallSize(i))
  <1>1. K \in Nat /\ K > 0
    BY SlabAssumption
  <1>2. ASSUME NEW x \in Heaps, NEW k \in 1..K PROVE G[<<x, k>>] = CreateSlab(x, SmallSize(k)) /\ G[<<x, k>>] \in Heaps
    <2>1. G[<<x, k>>] = CreateSlab(x, SmallSize(k))
      OBVIOUS
    <2>2. SmallSize(k) \in Nat
      BY SizesAreNat
    <2>3. CreateSlab(x, SmallSize(k)) \in Heaps
      BY <2>2, Created
    <2> QED
      BY <2>1, <2>3
  <1> HIDE DEF G
  <1>3. \E f : IsRun(f, Heaps, heap, G, K)
    BY <1>1, <1>2, Iterated
  <1>4. ASSUME NEW f, f = [i \in 0..K |-> Step(f, i)] PROVE IsRun(f, Heaps, heap, G, K)
    <2>1. f[0] = heap /\ (\A k \in 1..K : f[k] = CreateSlab(f[k - 1], SmallSize(k))) /\ f = [i \in 0..K |-> f[i]]
      <3>1. 0 \in 0..K /\ \A k \in 1..K : k \in 0..K /\ k # 0
        BY <1>1
      <3>2. \A i \in 0..K : f[i] = Step(f, i)
        BY <1>4
      <3>3. f = [i \in 0..K |-> f[i]]
        BY <1>4
      <3> QED
        BY <3>1, <3>2, <3>3
    <2> DEFINE T == {i \in 0..K : f[i] \in Heaps}
    <2>2. 0 \in T
      BY <1>1, <2>1
    <2>3. ASSUME NEW k \in 0..(K - 1), k \in T PROVE k + 1 \in T
      <3>1. k + 1 \in 1..K /\ (k + 1) - 1 = k
        BY <1>1
      <3>2. f[k + 1] = CreateSlab(f[k], SmallSize(k + 1)) /\ f[k] \in Heaps
        BY <2>1, <2>3, <3>1
      <3>3. f[k + 1] \in Heaps
        BY <1>2, <3>1, <3>2
      <3> QED
        BY <1>1, <3>1, <3>3
    <2>4. 0..K \subseteq T
      <3> HIDE DEF T
      <3> QED
        BY <1>1, <2>2, <2>3, UpTo
    <2>5. \A i \in 0..K : f[i] \in Heaps
      BY <2>4
    <2>6. ASSUME NEW k \in 1..K PROVE f[k] = G[<<f[k - 1], k>>]
      <3>1. k - 1 \in 0..K
        BY <1>1
      <3> QED
        BY <1>2, <2>1, <2>5, <3>1
    <2>7. f \in [0..K -> Heaps]
      BY <2>1, <2>5
    <2> QED
      BY <2>1, <2>6, <2>7 DEF IsRun
  <1>5. ASSUME NEW f, IsRun(f, Heaps, heap, G, K) PROVE f = [i \in 0..K |-> Step(f, i)]
    <2>1. f \in [0..K -> Heaps] /\ f[0] = heap /\ \A k \in 1..K : f[k] = G[<<f[k - 1], k>>]
      BY <1>5 DEF IsRun
    <2>2. ASSUME NEW i \in 0..K PROVE f[i] = Step(f, i)
      <3>1. CASE i = 0
        BY <2>1, <3>1
      <3>2. CASE i # 0
        <4>1. i \in 1..K /\ i - 1 \in 0..K
          BY <1>1, <3>2
        <4> QED
          BY <1>2, <2>1, <3>2, <4>1
      <3> QED
        BY <3>1, <3>2
    <2> HIDE DEF Step
    <2> QED
      BY <2>1, <2>2
  <1> DEFINE c == CHOOSE f : f = [i \in 0..K |-> Step(f, i)]
  <1>6. c = [i \in 0..K |-> Step(c, i)]
    <2>1. \E f : f = [i \in 0..K |-> Step(f, i)]
      BY <1>3, <1>5
    <2> HIDE DEF Step
    <2> QED
      BY <2>1
  <1>7. WithSmallSlabs = c[K]
    BY DEF WithSmallSlabs
  <1> HIDE DEF c
  <1>8. IsRun(c, Heaps, heap, G, K)
    BY <1>4, <1>6
  <1> QED
    BY <1>7, <1>8 DEF G

LEMMA SmallSlabsKeep ==
  ASSUME HeapInv(heap, live)
  PROVE  /\ HeapInv(WithSmallSlabs, live)
         /\ Len(WithSmallSlabs.slabs) = IF kslabs # 0 THEN Len(heap.slabs) ELSE Len(heap.slabs) + KmallocSlabs
  <1>1. CASE kslabs # 0
    BY <1>1 DEF WithSmallSlabs
  <1>2. CASE kslabs = 0
    <2> DEFINE K == KmallocSlabs
               M == Len(heap.slabs)
               G == [x \in Heaps \X (1..KmallocSlabs) |-> CreateSlab(x[1], SmallSize(x[2]))]
    <2>1. K \in Nat /\ heap \in Heaps /\ M \in Nat
      BY SlabAssumption DEF HeapInv, Heaps
    <2>2. PICK c : IsRun(c, Heaps, heap, G, K) /\ WithSmallSlabs = c[K]
      BY <1>2, <2>1, SmallChain
    <2>3. c \in [0..K -> Heaps] /\ c[0] = heap /\ \A k \in 1..K : c[k] = G[<<c[k - 1], k>>]
      BY <2>2 DEF IsRun
    <2>4. \A k \in 1..K : c[k] = CreateSlab(c[k - 1], SmallSize(k))
      <3>1. ASSUME NEW k \in 1..K PROVE c[k] = CreateSlab(c[k - 1], SmallSize(k))
        <4>1. c[k - 1] \in Heaps /\ <<c[k - 1], k>> \in Heaps \X (1..KmallocSlabs)
          BY <2>1, <2>3
        <4> QED
          BY <2>3, <4>1
      <3> QED
        BY <3>1
    <2> DEFINE T == {k \in 0..K : HeapInv(c[k], live) /\ Len(c[k].slabs) = M + k}
    <2>5. 0 \in T
      BY <2>1, <2>3
    <2>6. ASSUME NEW k \in 0..(K - 1), k \in T PROVE k + 1 \in T
      <3>1. k + 1 \in 1..K /\ (k + 1) - 1 = k /\ k + 1 \in 0..K
        BY <2>1
      <3>2. c[k + 1] = CreateSlab(c[k], SmallSize(k + 1)) /\ SmallSize(k + 1) \in Nat
        BY <2>4, <3>1, SizesAreNat
      <3>3. HeapInv(c[k], live) /\ Len(c[k].slabs) = M + k
        BY <2>6
      <3>4. HeapInv(c[k + 1], live) /\ Len(c[k + 1].slabs) = Len(c[k].slabs) + 1
        BY <3>2, <3>3, CreateKeeps
      <3>5. k \in Nat
        BY <2>1
      <3> HIDE DEF M, G
      <3>6. (M + k) + 1 = M + (k + 1)
        BY <2>1, <3>5
      <3> QED
        BY <3>1, <3>3, <3>4, <3>6
    <2>7. K \in T
      <3> HIDE DEF T
      <3>1. 0..K \subseteq T
        BY <2>1, <2>5, <2>6, UpTo
      <3> QED
        BY <2>1, <3>1
    <2> QED
      BY <1>2, <2>2, <2>7
  <1> QED
    BY <1>1, <1>2

\* The slabs kmalloc(n) looks at.
LEMMA SlabsForKeeps ==
  ASSUME HeapInv(heap, live), kslabs \in 0..Len(heap.slabs), NEW n \in Nat
  PROVE  LET k == SlabsFor(n) IN
         /\ HeapInv(k.heap, live) /\ Len(k.heap.slabs) \in Nat /\ Len(heap.slabs) <= Len(k.heap.slabs)
         /\ k.first \in 1..Len(k.heap.slabs)
  <1> DEFINE w == WithSmallSlabs
             g == CreateSlab(w, n)
             M == Len(heap.slabs)
  <1>1. HeapInv(w, live) /\ Len(w.slabs) = IF kslabs # 0 THEN M ELSE M + KmallocSlabs
    BY SmallSlabsKeep
  <1> HIDE DEF w
  <1>2. HeapInv(g, live) /\ Len(g.slabs) = Len(w.slabs) + 1
    BY <1>1, CreateKeeps
  <1>3. M \in Nat /\ KmallocSlabs \in Nat /\ KmallocSlabs > 0
    BY SlabAssumption DEF HeapInv, Heaps
  <1> HIDE DEF g
  <1>4. SlabsFor(n) = IF n > SlabsTop THEN [heap |-> g, first |-> Len(g.slabs)]
                      ELSE [heap |-> w, first |-> FirstSmall]
    BY DEF SlabsFor, w, g
  <1>5. FirstSmall = IF kslabs # 0 THEN kslabs ELSE M + 1
    BY DEF FirstSmall
  <1> HIDE DEF M
  <1>6. CASE n > SlabsTop
    <2>1. SlabsFor(n).heap = g /\ SlabsFor(n).first = Len(g.slabs)
      BY <1>4, <1>6
    <2> QED
      BY <1>1, <1>2, <1>3, <2>1 DEF M
  <1>7. CASE ~(n > SlabsTop)
    <2>1. SlabsFor(n).heap = w /\ SlabsFor(n).first = FirstSmall
      BY <1>4, <1>7
    <2>2. kslabs \in 0..M
      BY DEF M
    <2>3. FirstSmall \in 1..Len(w.slabs) /\ Len(w.slabs) \in Nat /\ M <= Len(w.slabs)
      BY <1>1, <1>3, <1>5, <2>2
    <2> QED
      BY <1>1, <2>1, <2>3 DEF M
  <1> QED
    BY <1>6, <1>7

LEMMA KmallocPops ==
  ASSUME HeapInv(heap, live), kslabs \in 0..Len(heap.slabs), NEW n \in Nat, ~KmallocFaults(n)
  PROVE  Receives(KmallocPop(n), live, Len(SlabsFor(n).heap.slabs))
  <1> DEFINE k == SlabsFor(n)
             S == Fitting(k.heap, k.first, n)
  <1>1. HeapInv(k.heap, live)
    BY SlabsForKeeps
  <1>2. S # {} /\ S \subseteq 1..Len(k.heap.slabs)
    BY DEF KmallocFaults, Fitting
  <1>3. KmallocPop(n) = Pop(k.heap, BestFit(k.heap, S))
    BY DEF KmallocPop
  <1> HIDE DEF k, S
  <1>4. BestFit(k.heap, S) \in 1..Len(k.heap.slabs)
    <2>1. k.heap \in Heaps
      BY <1>1 DEF HeapInv
    <2> QED
      BY <1>2, <2>1, BestFits
  <1> QED
    BY <1>1, <1>3, <1>4, Popping DEF k

-----------------------------------------------------------------------------
(* The steps                                                               *)

BlockRecord == [id : Nat \ {0}, page : Nat, true : Nat, want : Nat]

IInv ==
    /\ HeapInv(heap, live)
    /\ live \subseteq BlockRecord /\ IsFiniteSet(live)
    /\ kslabs \in 0..Len(heap.slabs)
    /\ pools \subseteq 1..Len(heap.slabs)
    /\ status \in {"ok", "panic", "undefined"}
    /\ heap.ap \in 0..(HeapBytes - 1) \cup {0}

\* The owners of a page are told apart by a number of their own.
LEMMA Fresh ==
  ASSUME NEW bs, bs \subseteq BlockRecord, IsFiniteSet(bs), NEW got, NEW n
  PROVE  LET b == Block(bs, got, n) IN
         /\ b \notin bs /\ b.id \in Nat \ {0} /\ b.page = got.page /\ b.true = got.true /\ b.want = n
         /\ b = [id |-> b.id, page |-> b.page, true |-> b.true, want |-> b.want]
  <1> DEFINE T == {c \in bs : c.page = got.page}
             ids == {b.id : b \in T}
             N == Cardinality(bs) + 1
             free == (1..N) \ ids
             b == Block(bs, got, n)
  <1>1. N \in Nat
    BY FS_CardinalityType
  <1>2. IsFiniteSet(T) /\ Cardinality(T) <= Cardinality(bs)
    BY FS_Subset
  <1>3. IsFiniteSet(ids) /\ Cardinality(ids) <= Cardinality(T)
    <2> DEFINE f == [c \in T |-> c.id]
    <2>1. f \in Surjection(T, ids)
      BY DEF Surjection
    <2> HIDE DEF f, T, ids
    <2> QED
      BY <1>2, <2>1, FS_Surjection
  <1>4. free # {} /\ free \subseteq Nat \ {0}
    <2>1. IsFiniteSet(1..N) /\ Cardinality(1..N) = N
      <3> HIDE DEF N
      <3>1. 1 \in Int /\ N \in Int /\ (1 > N => N = 0) /\ N - 1 + 1 = N
        BY <1>1
      <3> QED
        BY <3>1, FS_Interval
    <2>2. 1..N \subseteq ids => Cardinality(1..N) <= Cardinality(ids)
      <3> HIDE DEF ids, N
      <3> QED
        BY <1>3, FS_Subset
    <2>3. Cardinality(ids) \in Nat /\ Cardinality(T) \in Nat /\ Cardinality(bs) \in Nat
      BY <1>2, <1>3, FS_CardinalityType
    <2>4. ~(1..N \subseteq ids)
      <3> HIDE DEF ids, T
      <3> QED
        BY <1>2, <1>3, <2>1, <2>2, <2>3
    <2> HIDE DEF ids, N
    <2> QED
      BY <1>1, <2>4
  <1>5. b = [id |-> Min(free), page |-> got.page, true |-> got.true, want |-> n]
    BY DEF Block
  <1> HIDE DEF free, b
  <1>6. Min(free) \in free
    BY <1>4, LeastOf
  <1>7. b.id = Min(free) /\ b.page = got.page /\ b.true = got.true /\ b.want = n
    BY <1>5
  <1>8. b \notin bs
    <2>1. b \in bs => b.id \in ids
      BY <1>7
    <2>2. b.id \notin ids
      BY <1>6, <1>7 DEF free
    <2> QED
      BY <2>1, <2>2
  <1> QED
    BY <1>4, <1>5, <1>6, <1>7, <1>8 DEF b

\* A caller receives a page.
LEMMA Received ==
  ASSUME IInv, NEW got, NEW n \in Nat, NEW m, Receives(got, live, m)
  PROVE  LET b == Block(live, got, n) IN
         /\ HeapInv(got.heap, live \cup {b}) /\ Len(got.heap.slabs) = m
         /\ b \notin live /\ b \in BlockRecord /\ IsFiniteSet(live \cup {b})
  <1> DEFINE b == Block(live, got, n)
  <1>1. live \subseteq BlockRecord /\ IsFiniteSet(live)
    BY DEF IInv
  <1>2. /\ b \notin live /\ b.id \in Nat \ {0} /\ b.page = got.page /\ b.true = got.true /\ b.want = n
        /\ b = [id |-> b.id, page |-> b.page, true |-> b.true, want |-> b.want]
    BY <1>1, Fresh
  <1> HIDE DEF b
  <1>3. HeapInv(got.heap, live \cup {b}) /\ Len(got.heap.slabs) = m
    BY <1>2 DEF Receives
  <1>4. b.page \in Nat /\ b.true \in Nat
    <2> DEFINE h == got.heap
    <2>1. h \in Heaps /\ b.page \in 1..Len(h.pages) /\ b.true = h.pages[b.page].size + HeaderBytes
      BY <1>3 DEF HeapInv, BlocksOK
    <2> HIDE DEF h
    <2>2. h.pages \in Seq(PageRecord)
      BY <2>1 DEF Heaps
    <2>3. h.pages[b.page] \in PageRecord
      BY <2>1, <2>2, ElementOfSeq
    <2>4. h.pages[b.page].size \in Nat
      BY <2>3 DEF PageRecord
    <2>5. b.page \in Nat
      BY <2>1, <2>2
    <2> QED
      BY <2>1, <2>4, <2>5 DEF HeaderBytes
  <1>5. b \in BlockRecord
    BY <1>2, <1>4 DEF BlockRecord
  <1>6. IsFiniteSet(live \cup {b})
    BY <1>1, FS_AddElement
  <1> QED
    BY <1>2, <1>3, <1>5, <1>6 DEF b

\* mmu_alloc() lets a call change the heap, or panics.
LEMMA Committed ==
  ASSUME IInv, NEW h, NEW bs, NEW ps, NEW ks, Commit(h, bs, ps, ks),
         HeapInv(h, bs), bs \subseteq BlockRecord, IsFiniteSet(bs),
         ks \in 0..Len(h.slabs), ps \subseteq 1..Len(h.slabs)
  PROVE  IInv'
  <1>1. CASE h.ap < HeapBytes
    <2>1. heap' = h /\ live' = bs /\ pools' = ps /\ kslabs' = ks /\ status' = "ok"
      BY <1>1 DEF Commit
    <2>2. h.ap \in Nat
      BY DEF HeapInv, Heaps
    <2>3. h.ap \in 0..(HeapBytes - 1)
      BY <1>1, <2>2, SlabAssumption
    <2> QED
      BY <2>1, <2>3 DEF IInv
  <1>2. CASE ~(h.ap < HeapBytes)
    BY <1>2 DEF Commit, IInv
  <1> QED
    BY <1>1, <1>2

LEMMA Unchanged == IInv /\ UNCHANGED vars => IInv'
  BY DEF IInv, vars

LEMMA NullDereferenceKeeps == IInv /\ NullDereference => IInv'
  BY DEF IInv, NullDereference

\* A block that stays where it is.
LEMMA KeptBlock ==
  ASSUME NEW h, NEW bs, HeapInv(h, bs), NEW b \in bs, NEW c, c.page = b.page, c.true = b.true
  PROVE  HeapInv(h, (bs \ {b}) \cup {c})
  <1> DEFINE cs == (bs \ {b}) \cup {c}
  <1>1. \A p : Owned(cs, p) <=> Owned(bs, p)
    BY DEF Owned
  <1>2. BlocksOK(h, bs) /\ Len(h.pages) \in Nat
    BY DEF HeapInv, Heaps
  <1>3. BlocksOK(h, cs)
    <2>1. \A d \in cs : /\ d.page \in 1..Len(h.pages)
                        /\ d.page # h.slabs[h.pages[d.page].slab].pages[1]
                        /\ d.true = h.pages[d.page].size + HeaderBytes
      BY <1>2 DEF BlocksOK
    <2>2. ASSUME NEW d \in cs, NEW e \in cs, d # e, d.page = e.page
          PROVE  d.page = LastOfBatch(h, h.pages[d.page].slab)
      <3>1. \E x \in bs, y \in bs : x # y /\ x.page = y.page /\ x.page = d.page
        <4>1. CASE d \in bs \ {b} /\ e \in bs \ {b}
          BY <2>2, <4>1
        <4>2. CASE d = c /\ e \in bs \ {b}
          BY <2>2, <4>2
        <4>3. CASE e = c /\ d \in bs \ {b}
          BY <2>2, <4>3
        <4> QED
          BY <2>2, <4>1, <4>2, <4>3
      <3> QED
        BY <1>2, <3>1 DEF BlocksOK
    <2> QED
      BY <2>1, <2>2 DEF BlocksOK
  <1> HIDE DEF cs
  <1>4. ASSUME NEW s \in 1..Len(h.slabs) PROVE SlabOK(h, s, cs)
    <2>1. SlabOK(h, s, bs)
      BY DEF HeapInv
    <2> QED
      BY <1>1, <2>1 DEF SlabOK, Budget
  <1>5. HeapInv(h, cs)
    BY <1>3, <1>4 DEF HeapInv
  <1> QED
    BY <1>5 DEF cs

LEMMA Kept ==
  ASSUME IInv, NEW b \in live, NEW n \in Nat, live' = (live \ {b}) \cup {[b EXCEPT !.want = n]},
         UNCHANGED <<heap, kslabs, pools, status>>
  PROVE  IInv'
  <1> DEFINE c == [b EXCEPT !.want = n]
  <1>1. live \subseteq BlockRecord /\ IsFiniteSet(live) /\ HeapInv(heap, live)
    BY DEF IInv
  <1>2. c \in BlockRecord /\ c.page = b.page /\ c.true = b.true
    <2>1. b \in BlockRecord
      BY <1>1
    <2> QED
      BY <2>1 DEF BlockRecord
  <1> HIDE DEF c
  <1>3. HeapInv(heap, (live \ {b}) \cup {c})
    BY <1>1, <1>2, KeptBlock
  <1>4. IsFiniteSet((live \ {b}) \cup {c})
    <2>1. IsFiniteSet(live \ {b})
      BY <1>1, FS_RemoveElement
    <2> QED
      BY <2>1, FS_AddElement
  <1>5. live' = (live \ {b}) \cup {c}
    BY DEF c
  <1>6. (live \ {b}) \cup {c} \subseteq BlockRecord
    BY <1>1, <1>2
  <1> QED
    BY <1>3, <1>4, <1>5, <1>6 DEF IInv

LEMMA Freed ==
  ASSUME IInv, NEW b \in live, heap' = FreePage(heap, b.page), live' = live \ {b}, UNCHANGED <<kslabs, pools, status>>
  PROVE  IInv'
  <1>1. /\ HeapInv(heap', live') /\ Len(heap'.slabs) = Len(heap.slabs) /\ heap'.ap = heap.ap
    BY Freeing DEF IInv
  <1>2. live' \subseteq BlockRecord /\ IsFiniteSet(live')
    <2>1. live \subseteq BlockRecord /\ IsFiniteSet(live)
      BY DEF IInv
    <2> QED
      BY <2>1, FS_RemoveElement
  <1> QED
    BY <1>1, <1>2 DEF IInv

\* The new block of a realloc has the old one's place among the callers'.
LEMMA Exchanged ==
  ASSUME IInv, NEW b \in live, NEW got, NEW n \in Nat, NEW m \in Nat, Receives(got, live, m),
         NEW ps, NEW ks, Commit(FreePage(got.heap, b.page), Replace(b, got, n), ps, ks),
         ks \in 0..m, ps \subseteq 1..m
  PROVE  IInv'
  <1> DEFINE c == Block(live, got, n)
             g == FreePage(got.heap, b.page)
  <1>1. /\ HeapInv(got.heap, live \cup {c}) /\ Len(got.heap.slabs) = m
        /\ c \notin live /\ c \in BlockRecord /\ IsFiniteSet(live \cup {c})
    BY Received
  <1>2. Replace(b, got, n) = (live \cup {c}) \ {b}
    BY <1>1 DEF Replace
  <1> HIDE DEF c
  <1>3. b \in live \cup {c}
    OBVIOUS
  <1>4. HeapInv(g, (live \cup {c}) \ {b}) /\ Len(g.slabs) = m
    BY <1>1, <1>3, Freeing
  <1>5. IsFiniteSet((live \cup {c}) \ {b}) /\ (live \cup {c}) \ {b} \subseteq BlockRecord
    <2>1. IsFiniteSet((live \cup {c}) \ {b})
      BY <1>1, FS_RemoveElement
    <2> QED
      BY <1>1, <2>1 DEF IInv
  <1> HIDE DEF g
  <1>6. Commit(g, (live \cup {c}) \ {b}, ps, ks)
    BY <1>2 DEF g
  <1> QED
    BY <1>4, <1>5, <1>6, Committed

LEMMA KmallocKeeps ==
  ASSUME IInv, NEW n \in Requests, Kmalloc(n)
  PROVE  IInv'
  <1> DEFINE k == SlabsFor(n)
             got == KmallocPop(n)
             b == Block(live, got, n)
  <1>1. CASE KmallocFaults(n)
    BY <1>1, NullDereferenceKeeps DEF Kmalloc
  <1>2. CASE ~KmallocFaults(n)
    <2>1. Commit(got.heap, live \cup {b}, pools, k.first)
      BY <1>2 DEF Kmalloc
    <2>2. n \in Nat
      BY SlabAssumption
    <2>3. HeapInv(heap, live) /\ kslabs \in 0..Len(heap.slabs) /\ pools \subseteq 1..Len(heap.slabs)
          /\ live \subseteq BlockRecord
      BY DEF IInv
    <2>4. /\ HeapInv(k.heap, live) /\ Len(k.heap.slabs) \in Nat /\ Len(heap.slabs) <= Len(k.heap.slabs)
          /\ k.first \in 1..Len(k.heap.slabs)
      BY <2>2, <2>3, SlabsForKeeps
    <2>5. Receives(got, live, Len(k.heap.slabs))
      BY <1>2, <2>2, <2>3, KmallocPops
    <2> HIDE DEF k, got
    <2>6. /\ HeapInv(got.heap, live \cup {b}) /\ Len(got.heap.slabs) = Len(k.heap.slabs)
          /\ b \in BlockRecord /\ IsFiniteSet(live \cup {b})
      BY <2>2, <2>5, Received
    <2> HIDE DEF b
    <2>7. Len(heap.slabs) \in Nat
      BY <2>3 DEF HeapInv, Heaps
    <2>8. k.first \in 0..Len(got.heap.slabs) /\ pools \subseteq 1..Len(got.heap.slabs)
      BY <2>3, <2>4, <2>6, <2>7
    <2>9. live \cup {b} \subseteq BlockRecord
      BY <2>3, <2>6
    <2> QED
      BY <2>1, <2>6, <2>8, <2>9, Committed
  <1> QED
    BY <1>1, <1>2

LEMMA KfreeKeeps ==
  ASSUME IInv, NEW b \in live, Kfree(b) \/ PoolFree(b)
  PROVE  IInv'
  BY Freed DEF Kfree, PoolFree

LEMMA KreallocKeeps ==
  ASSUME IInv, NEW b \in live, NEW n \in Requests, Krealloc(b, n)
  PROVE  IInv'
  <1>0. n \in Nat
    BY SlabAssumption
  <1>1. CASE n <= b.true
    BY <1>0, <1>1, Kept DEF Krealloc
  <1>2. CASE ~(n <= b.true) /\ KmallocFaults(n)
    BY <1>2, NullDereferenceKeeps DEF Krealloc
  <1>3. CASE ~(n <= b.true) /\ ~KmallocFaults(n)
    <2> DEFINE k == SlabsFor(n)
               got == KmallocPop(n)
               m == Len(k.heap.slabs)
    <2>1. Commit(FreePage(got.heap, b.page), Replace(b, got, n), pools, k.first)
      BY <1>3 DEF Krealloc
    <2>2. HeapInv(heap, live) /\ kslabs \in 0..Len(heap.slabs) /\ pools \subseteq 1..Len(heap.slabs)
      BY DEF IInv
    <2>3. m \in Nat /\ Len(heap.slabs) <= m /\ k.first \in 1..m
      BY <1>0, <2>2, SlabsForKeeps
    <2>4. Receives(got, live, m)
      BY <1>0, <1>3, <2>2, KmallocPops
    <2> HIDE DEF k, got, m
    <2>5. Len(heap.slabs) \in Nat
      BY <2>2 DEF HeapInv, Heaps
    <2>6. k.first \in 0..m /\ pools \subseteq 1..m
      BY <2>2, <2>3, <2>5
    <2> QED
      BY <1>0, <2>1, <2>3, <2>4, <2>6, Exchanged
  <1> QED
    BY <1>1, <1>2, <1>3

LEMMA PoolCreateKeeps ==
  ASSUME IInv, NEW size \in PoolSizes, PoolCreate(size)
  PROVE  IInv'
  <1> DEFINE u == [heap EXCEPT !.ap = @ + PoolBytes]
             g == CreateSlab(u, size)
  <1>1. heap \in Heaps /\ HeapInv(heap, live) /\ live \subseteq BlockRecord /\ IsFiniteSet(live)
        /\ kslabs \in 0..Len(heap.slabs) /\ pools \subseteq 1..Len(heap.slabs) /\ size \in Nat /\ Len(heap.slabs) \in Nat
    BY SlabAssumption DEF IInv, HeapInv, Heaps
  <1>2. u \in Heaps /\ u.slabs = heap.slabs /\ u.pages = heap.pages
    BY <1>1 DEF Heaps, PoolBytes
  <1>3. Commit(g, live, pools \cup {Len(g.slabs)}, kslabs)
    BY DEF PoolCreate
  <1> HIDE DEF u
  <1>4. HeapInv(u, live)
    <2>1. \A s : SlabOK(heap, s, live) => SlabOK(u, s, live)
      BY SMTT(30), <1>2 DEF SlabOK, Chain, Budget, LastOfBatch, Stale
    <2>2. BlocksOK(u, live)
      BY <1>1, <1>2 DEF HeapInv, BlocksOK, LastOfBatch
    <2> QED
      BY <1>1, <1>2, <2>1, <2>2 DEF HeapInv
  <1>5. HeapInv(g, live) /\ Len(g.slabs) = Len(heap.slabs) + 1
    BY <1>1, <1>2, <1>4, CreateKeeps
  <1> HIDE DEF g
  <1>6. kslabs \in 0..Len(g.slabs) /\ pools \cup {Len(g.slabs)} \subseteq 1..Len(g.slabs)
    <2> DEFINE M == Len(heap.slabs)
    <2>1. M \in Nat /\ kslabs \in 0..M /\ pools \subseteq 1..M /\ Len(g.slabs) = M + 1
      BY <1>1, <1>5
    <2> HIDE DEF M
    <2>2. kslabs \in 0..(M + 1) /\ pools \cup {M + 1} \subseteq 1..(M + 1)
      BY <2>1
    <2> QED
      BY <2>1, <2>2
  <1> QED
    BY <1>1, <1>3, <1>5, <1>6, Committed

LEMMA PoolAllocKeeps ==
  ASSUME IInv, NEW s \in pools, PoolAlloc(s)
  PROVE  IInv'
  <1> DEFINE got == Pop(heap, s)
             n == heap.slabs[s].size
             b == Block(live, got, n)
  <1>1. HeapInv(heap, live) /\ kslabs \in 0..Len(heap.slabs) /\ pools \subseteq 1..Len(heap.slabs)
        /\ live \subseteq BlockRecord /\ heap \in Heaps
    BY DEF IInv, HeapInv
  <1>2. Commit(got.heap, live \cup {b}, pools, kslabs)
    BY DEF PoolAlloc
  <1>3. Receives(got, live, Len(heap.slabs))
    BY <1>1, Popping
  <1>4. n \in Nat
    <2>1. heap.slabs \in Seq(SlabRecord)
      BY <1>1 DEF Heaps
    <2>2. heap.slabs[s] \in SlabRecord
      BY <1>1, <2>1, ElementOfSeq
    <2> QED
      BY <2>2 DEF SlabRecord
  <1> HIDE DEF got, n
  <1>5. /\ HeapInv(got.heap, live \cup {b}) /\ Len(got.heap.slabs) = Len(heap.slabs)
        /\ b \in BlockRecord /\ IsFiniteSet(live \cup {b})
    BY <1>3, <1>4, Received
  <1> HIDE DEF b
  <1>6. live \cup {b} \subseteq BlockRecord
    BY <1>1, <1>5
  <1> QED
    BY <1>1, <1>2, <1>5, <1>6, Committed

LEMMA PoolReallocKeeps ==
  ASSUME IInv, NEW b \in live, NEW n \in PoolSizes, PoolRealloc(b, n)
  PROVE  IInv'
  <1>0. n \in Nat
    BY SlabAssumption
  <1>1. CASE n <= b.true
    BY <1>0, <1>1, Kept DEF PoolRealloc
  <1>2. CASE ~(n <= b.true)
    <2> DEFINE s == heap.pages[b.page].slab
               got == Pop([heap EXCEPT !.slabs[s].size = n, !.slabs[s].realloc = TRUE], s)
               m == Len(heap.slabs)
    <2>1. Commit(FreePage(got.heap, b.page), Replace(b, got, n), pools, kslabs)
      BY <1>2 DEF PoolRealloc
    <2>2. HeapInv(heap, live) /\ kslabs \in 0..m /\ pools \subseteq 1..m /\ m \in Nat
      BY DEF IInv, HeapInv, Heaps
    <2>3. s \in 1..m
      BY DEF PoolRealloc, IInv
    <2> HIDE DEF s
    <2>4. Receives(got, live, m)
      BY <1>0, <2>2, <2>3, Growing
    <2> HIDE DEF got, m
    <2> QED
      BY <1>0, <2>1, <2>2, <2>4, Exchanged
  <1> QED
    BY <1>1, <1>2

LEMMA InitOk == Init => IInv
  <1> SUFFICES ASSUME Init PROVE IInv
    OBVIOUS
  <1>1. heap = [slabs |-> <<>>, pages |-> <<>>, ap |-> 0] /\ live = {} /\ kslabs = 0 /\ pools = {} /\ status = "ok"
    BY DEF Init
  <1>2. heap.slabs = <<>> /\ heap.pages = <<>> /\ heap.ap = 0
    BY <1>1
  <1>3. heap \in Heaps
    <2>1. <<>> \in Seq(SlabRecord) /\ <<>> \in Seq(PageRecord)
      BY EmptySeq
    <2> QED
      BY <1>1, <2>1 DEF Heaps
  <1>4. Len(heap.slabs) = 0 /\ Len(heap.pages) = 0
    BY <1>2
  <1>5. HeapInv(heap, live)
    BY <1>1, <1>3, <1>4 DEF HeapInv, BlocksOK
  <1>6. IsFiniteSet(live)
    BY <1>1, FS_EmptySet
  <1> QED
    BY <1>1, <1>2, <1>4, <1>5, <1>6 DEF IInv

THEOREM Inductive == Spec => []IInv
  <1>1. IInv /\ [Next]_vars => IInv'
    BY KmallocKeeps, KfreeKeeps, KreallocKeeps, PoolCreateKeeps, PoolAllocKeeps, PoolReallocKeeps, Unchanged DEF Next
  <1> QED
    BY InitOk, <1>1, PTL DEF Spec

-----------------------------------------------------------------------------
(* The properties                                                          *)

\* Every pointer of the allocator leads to a slab or a page that exists.
THEOREM TypeCorrect == Spec => []TypeOK
  <1>1. ASSUME IInv PROVE TypeOK
    <2>1. heap \in Heaps /\ (\A p \in 1..Len(heap.pages) : heap.pages[p].slab \in 1..Len(heap.slabs))
          /\ BlocksOK(heap, live)
      BY <1>1 DEF IInv, HeapInv
    <2>2. ASSUME NEW s \in 1..Len(heap.slabs)
          PROVE  heap.slabs[s].pages \in Seq(1..Len(heap.pages)) /\ heap.slabs[s].length \in Nat
      <3> DEFINE list == heap.slabs[s].pages
      <3>1. Chain(heap, s, list)
        BY <1>1 DEF IInv, HeapInv, SlabOK
      <3> HIDE DEF list
      <3>2. list \in Seq(Nat) /\ Len(list) \in Nat /\ \A i \in 1..Len(list) : list[i] \in 1..Len(heap.pages)
        BY <3>1 DEF Chain
      <3>3. list \in [1..Len(list) -> 1..Len(heap.pages)]
        BY <3>2
      <3>4. list \in Seq(1..Len(heap.pages))
        BY <3>2, <3>3, MakeSeq
      <3>5. heap.slabs[s] \in SlabRecord
        <4>1. heap.slabs \in Seq(SlabRecord)
          BY <2>1 DEF Heaps
        <4> QED
          BY <4>1, ElementOfSeq
      <3> QED
        BY <3>4, <3>5 DEF list, SlabRecord
    <2>3. \A b \in live : b.page \in 1..Len(heap.pages) /\ b.id \in Nat \ {0}
      <3>1. \A b \in live : b \in BlockRecord
        BY <1>1 DEF IInv
      <3> QED
        BY <2>1, <3>1 DEF BlocksOK, BlockRecord
    <2> QED
      BY <1>1, <2>1, <2>2, <2>3 DEF TypeOK, IInv
  <1> QED
    BY Inductive, <1>1, PTL

\* slab_pop_page(), slab_push_page() and slab_remove_page() leave lists that
\* each of them can work on.
THEOREM ListsStaySound == Spec => []ListsSound
  <1>1. ASSUME IInv PROVE ListsSound
    <2>1. ASSUME NEW s \in 1..Len(heap.slabs)
          PROVE  LET list == heap.slabs[s].pages IN
                 /\ IsInjective(list) /\ \A i \in 1..Len(list) : heap.pages[list[i]].slab = s
                 /\ Len(list) >= 2
                 /\ \A b \in live : b.page # Head(list)
      <3> DEFINE list == heap.slabs[s].pages
      <3>1. Chain(heap, s, list) /\ BlocksOK(heap, live) /\ heap.slabs[s].pages = list
        BY <1>1 DEF IInv, HeapInv, SlabOK
      <3> HIDE DEF list
      <3>2. /\ list \in Seq(Nat) /\ Len(list) \in Nat /\ Len(list) >= 2 /\ DOMAIN list = 1..Len(list)
            /\ \A i \in 1..Len(list) : heap.pages[list[i]].slab = s
            /\ \A i \in 1..Len(list), j \in 1..Len(list) : list[i] = list[j] => i = j
        BY <3>1 DEF Chain
      <3>3. IsInjective(list)
        BY <3>2 DEF IsInjective
      <3>4. Head(list) = list[1] /\ 1 \in 1..Len(list)
        BY <3>2
      <3>5. ASSUME NEW b \in live PROVE b.page # Head(list)
        <4>1. b.page # heap.slabs[heap.pages[b.page].slab].pages[1]
          BY <3>1 DEF BlocksOK
        <4>2. b.page = list[1] => heap.pages[b.page].slab = s
          BY <3>2, <3>4
        <4> QED
          BY <3>1, <3>4, <4>1, <4>2
      <3> QED
        BY <3>2, <3>3, <3>5 DEF list
    <2> QED
      BY <2>1 DEF ListsSound, ListsIntact, PoppablePage, HeadNeverOwned
  <1> QED
    BY Inductive, <1>1, PTL

\* The true_size in the header of a block is the size of its memory, whatever
\* pool_realloc() has done to its slab.
THEOREM HeadersHonest == Spec => []HeaderHonest
  <1>1. IInv => HeaderHonest
    BY DEF IInv, HeapInv, BlocksOK, HeaderHonest
  <1> QED
    BY Inductive, <1>1, PTL

\* slab_remove_page() and the length of slab_create(): only the last page of the
\* first batch of a slab is ever handed out to a second caller.
THEOREM SecondOwners == Spec => []OneOwnerButLast
  <1>1. IInv => OneOwnerButLast
    BY DEF IInv, HeapInv, BlocksOK, OneOwnerButLast, LastOfFirstBatch, LastOfBatch
  <1> QED
    BY Inductive, <1>1, PTL

-----------------------------------------------------------------------------
(***************************************************************************)
(* SlabRace: one slab, a kmalloc() and a kfree() under different locks     *)
(***************************************************************************)

MallocSteps == {"pop", "append", "appended", "test", "search", "unlink", "got"}
FreeSteps == {"walk", "link", "clear"}

\* The pages that may be in the list or in a caller's hands.
UsedPage == 2..used
Pointer == UsedPage \cup {Null, Wild}

RaceTypes ==
    /\ used \in 2..MaxPages
    /\ next \in [Page -> Pointer] /\ \A p \in Page : p > used => next[p] = Wild
    /\ length \in 0..(PagesInitial + 1)
    /\ mallocBy \in Thread \cup {Nobody} /\ freeBy \in Thread \cup {Nobody}
    /\ pc \in [Thread -> MallocSteps \cup FreeSteps \cup {"idle"}]
    /\ page \in [Thread -> Pointer] /\ tmp \in [Thread -> Pointer] /\ iter \in [Thread -> 0..used]
    /\ blocks \subseteq (1..MaxCalls) \X UsedPage
    /\ calls \in 0..MaxCalls
    /\ outcome \in {"ok", "undefined"}

\* One caller is in kmalloc() and one in kfree(), with these in hand.
CallInv ==
    \A t \in Thread :
        /\ pc[t] \in MallocSteps => mallocBy = t /\ calls > 0
        /\ pc[t] \in FreeSteps => freeBy = t /\ page[t] \in UsedPage
        /\ pc[t] \in {"append", "appended"} => length = 0
        /\ pc[t] \in {"test", "search", "unlink", "got"} => length > 0 /\ (outcome = "ok" => page[t] \in UsedPage)
        /\ pc[t] \in {"append", "appended", "search", "unlink", "walk", "link"} => iter[t] > 0

\* Nobody is about to clear the next pointer of p.
Settled(p) == \A t \in Thread : pc[t] = "clear" => page[t] # p

\* The next pointers lead downwards, but for the page that is about to be
\* cleared: the list has no cycle.
Falls(r) == \A p \in Page : Settled(p) /\ next[p] \in Page => r[next[p]] < r[p]

RaceInv == RaceTypes /\ CallInv /\ \E r \in [Page -> Nat] : Falls(r)

\* The next pointers from page a on: each page leads to the one that was taken from
\* the heap after it, and no page before a to one behind a.
Row(a) ==
    /\ \A p \in Page : a <= p /\ p < used => next[p] = p + 1
    /\ next[used] \notin Page
    /\ \A p \in Page : SlabHead < p /\ p < a /\ next[p] \in Page => next[p] <= a

\* In the middle of appending a batch: its first page is linked to the head.
Extending(t) == pc[t] = "appended" \/ (pc[t] = "append" /\ iter[t] # SlabHead)
Whole(n) == n > PagesInitial /\ (n - (PagesInitial + 1)) % PagesInitial = 0

ExtendInv ==
    /\ used > PagesInitial
    /\ (\A t \in Thread : ~Extending(t)) => Whole(used)
    /\ outcome = "ok" => \A t \in Thread : Extending(t) => next[SlabHead] \in Page /\ iter[t] = used

\* A kfree() has found the list empty and will link its page to the head.
AtHead(u) == pc[u] = "link" /\ iter[u] = SlabHead

\* slab->length once the page that a kmalloc() has got is counted.
Left == IF \E t \in Thread : pc[t] = "got" THEN length - 1 ELSE length

\* Meanwhile the list is what kmalloc() has left, from page h on, of the last batch.
Batch(h) ==
    /\ Row(h)
    /\ Left <= used - h + 1
    /\ (Left = 0 /\ \A t \in Thread : ~Extending(t)) \/ \A b \in blocks : b[2] < h
    /\ \A t \in Thread : /\ pc[t] = "got" /\ Left > 0 => page[t] < h
                         /\ pc[t] \in {"search", "unlink"} => tmp[t] = next[h]
                         /\ Extending(t) => Whole(h - 1)

HeadInv ==
    outcome = "ok" =>
        \A u \in Thread, h \in Page : AtHead(u) /\ next[SlabHead] = h => page[u] < h /\ Batch(h)

\* A kmalloc() is about to unlink page[t], which comes after the head, or was cut off
\* from the head by such a kfree(), with the rest of its batch: what the list leads to
\* since then are pages G from before it.
Searching(t) == pc[t] \in {"test", "search", "unlink"}
First(t) == next[SlabHead] = page[t] /\ (pc[t] # "test" => iter[t] = SlabHead)

Island(a, G) ==
    /\ SlabHead \in G /\ G \subseteq Page /\ \A p \in G : p < a
    /\ \A p \in G : Settled(p) /\ next[p] \in Page => next[p] \in G
    /\ \A u \in Thread : /\ pc[u] \in {"walk", "link"} => iter[u] \in G
                         /\ pc[u] = "clear" => page[u] \in G

Cut(t, a, G) ==
    /\ \A u \in Thread : ~AtHead(u) /\ (pc[u] \in FreeSteps => page[u] < a)
    /\ next[SlabHead] \in Page /\ next[SlabHead] < a
    /\ Row(a) /\ (\A b \in blocks : b[2] < a) /\ Island(a, G)
    /\ page[t] = a /\ (pc[t] # "test" => iter[t] < a /\ tmp[t] = next[a])

SearchInv ==
    outcome = "ok" =>
        \A t \in Thread : Searching(t) => First(t) \/ \E a \in Page, G \in SUBSET Page : Cut(t, a, G)

OrderInv == ExtendInv /\ HeadInv /\ SearchInv

LEMMA RaceNumbers ==
    /\ PagesInitial \in Nat \ {0} /\ MaxPages \in Nat /\ MaxCalls \in Nat /\ PagesInitial < MaxPages
    /\ Nobody \notin Thread /\ Null \notin Page /\ Wild \notin Page /\ SlabHead \in Page
    /\ Page = 1..MaxPages /\ Null = 0 /\ Wild = -1 /\ SlabHead = 1 /\ Null # Wild
  BY SlabRaceAssumption DEF Page, Null, Wild, SlabHead, Nobody

LEMMA RaceInitInductive == RaceInit => RaceInv
  <1> SUFFICES ASSUME RaceInit PROVE RaceInv
    OBVIOUS
  <1>1. used = PagesInitial + 1 /\ used \in 2..MaxPages
    BY RaceNumbers DEF RaceInit
  <1>2. next \in [Page -> Pointer]
        /\ \A p \in Page : next[p] = IF p < used THEN p + 1 ELSE IF p = used THEN Null ELSE Wild
    BY <1>1, RaceNumbers DEF RaceInit, Pointer, UsedPage
  <1>3. RaceTypes
    <2>1. \A p \in Page : p > used => next[p] = Wild
      BY <1>1, <1>2, RaceNumbers
    <2>2. length \in 0..(PagesInitial + 1) /\ calls \in 0..MaxCalls
      BY RaceNumbers DEF RaceInit
    <2>3. /\ page \in [Thread -> Pointer] /\ tmp \in [Thread -> Pointer]
          /\ iter \in [Thread -> 0..used]
      BY <1>1, RaceNumbers DEF RaceInit, Pointer
    <2>4. pc \in [Thread -> MallocSteps \cup FreeSteps \cup {"idle"}]
      BY DEF RaceInit
    <2> QED
      BY <1>1, <1>2, <2>1, <2>2, <2>3, <2>4 DEF RaceInit, RaceTypes
  <1>4. CallInv
    BY DEF RaceInit, CallInv, MallocSteps, FreeSteps
  <1>5. \E r \in [Page -> Nat] : Falls(r)
    <2> DEFINE r == [p \in Page |-> MaxPages - p]
    <2>1. r \in [Page -> Nat]
      BY RaceNumbers
    <2>2. Falls(r)
      BY <1>1, <1>2, RaceNumbers DEF Falls
    <2> QED
      BY <2>1, <2>2
  <1> QED
    BY <1>3, <1>4, <1>5 DEF RaceInv

-----------------------------------------------------------------------------

\* The graph: pointers may go away, the head may point anywhere, and a page
\* that points nowhere may be pointed to by one more.
LEMMA FewerPointers ==
  ASSUME NEW r \in [Page -> Nat], Falls(r),
         \A p \in Page : Settled(p)' => \/ Settled(p) /\ next'[p] = next[p]
                                        \/ next'[p] \notin Page
  PROVE  \E q \in [Page -> Nat] : Falls(q)'
  <1>1. Page' = Page
    BY DEF Page
  <1>2. Falls(r)'
    BY <1>1 DEF Falls
  <1> QED
    BY <1>2

LEMMA HeadPoints ==
  ASSUME NEW r \in [Page -> Nat], Falls(r), \A p \in Page : next'[p] # SlabHead,
         \A p \in Page : p # SlabHead => next'[p] = next[p],
         \A p \in Page : Settled(p)' => Settled(p)
  PROVE  \E q \in [Page -> Nat] : Falls(q)'
  <1>0. PICK m : m = next'[SlabHead]
    OBVIOUS
  <1> DEFINE q == [p \in Page |-> IF p = SlabHead THEN IF m \in Page THEN r[m] + 1 ELSE 0 ELSE r[p]]
  <1>1. Page' = Page /\ SlabHead \in Page
    BY RaceNumbers DEF Page
  <1>2. q \in [Page -> Nat]
    BY <1>1
  <1>3. ASSUME NEW p \in Page, Settled(p)', next'[p] \in Page PROVE q[next'[p]] < q[p]
    <2>1. CASE p = SlabHead
      BY <1>0, <1>1, <1>3, <2>1
    <2>2. CASE p # SlabHead
      <3>1. q[p] = r[p] /\ next'[p] = next[p] /\ Settled(p) /\ q[next'[p]] = r[next[p]]
        BY <1>3, <2>2
      <3> QED
        BY <1>3, <3>1 DEF Falls
    <2> QED
      BY <2>1, <2>2
  <1> HIDE DEF q
  <1>4. Falls(q)'
    BY <1>1, <1>3 DEF Falls
  <1> QED
    BY <1>2, <1>4

LEMMA EndPointedTo ==
  ASSUME NEW r \in [Page -> Nat], Falls(r), NEW a \in Page, NEW z \in Page,
         \A p \in Page : p # a => next'[p] = next[p], next'[a] = z,
         \A p \in Page : Settled(p)' => Settled(p),
         Settled(z)' => next'[z] \notin Page
  PROVE  \E q \in [Page -> Nat] : Falls(q)'
  <1> DEFINE q == [p \in Page |-> IF p = z THEN 0 ELSE r[p] + 1]
  <1>1. Page' = Page
    BY DEF Page
  <1>2. q \in [Page -> Nat]
    OBVIOUS
  <1>3. ASSUME NEW p \in Page, Settled(p)', next'[p] \in Page PROVE q[next'[p]] < q[p]
    <2>1. p # z /\ q[p] = r[p] + 1 /\ r[p] \in Nat
      BY <1>3
    <2>2. CASE next'[p] = z
      BY <2>1, <2>2
    <2>3. CASE next'[p] # z
      <3>1. p # a /\ next'[p] = next[p] /\ q[next[p]] = r[next[p]] + 1 /\ r[next[p]] \in Nat
        BY <1>3, <2>3
      <3>2. r[next[p]] < r[p]
        BY <1>3, <3>1 DEF Falls
      <3> QED
        BY <2>1, <3>1, <3>2
    <2> QED
      BY <2>2, <2>3
  <1> HIDE DEF q
  <1>4. Falls(q)'
    BY <1>1, <1>3 DEF Falls
  <1> QED
    BY <1>2, <1>4

\* The pages of a row have the smallest numbers, so any page before it may lead to it.
LEMMA RowPointedTo ==
  ASSUME RaceTypes, NEW r \in [Page -> Nat], Falls(r), NEW a \in Page, NEW i \in Page, i < a, Row(a),
         next[SlabHead] \in Page, next[SlabHead] < a,
         next'[i] = next[a], \A p \in Page : p # i => next'[p] = next[p],
         \A p \in Page : Settled(p)' => Settled(p)
  PROVE  \E q \in [Page -> Nat] : Falls(q)'
  <1> DEFINE q == [p \in Page |-> IF p < a THEN r[p] + MaxPages + 1 ELSE MaxPages - p]
  <1>1. Page' = Page /\ MaxPages \in Nat /\ \A p \in Page : p \in Nat /\ MaxPages - p \in Nat /\ r[p] \in Nat
    BY RaceNumbers DEF Page
  <1>2. /\ q \in [Page -> Nat]
        /\ \A p \in Page : /\ p < a => q[p] = r[p] + MaxPages + 1
                           /\ ~(p < a) => q[p] = MaxPages - p
    BY <1>1
  <1> HIDE DEF q
  <1>3. ASSUME NEW p \in Page, a <= p, next[p] \in Page PROVE next[p] > p
    <2>1. used \in Page /\ p # used
      BY <1>3, RaceNumbers DEF Row, RaceTypes
    <2>2. p > used => next[p] = Wild
      BY DEF RaceTypes
    <2>3. p < used
      BY <1>1, <1>3, <2>1, <2>2, RaceNumbers
    <2>4. next[p] = p + 1
      BY <1>3, <2>3 DEF Row
    <2> QED
      BY <1>1, <2>4
  <1>4. ASSUME NEW p \in Page, NEW m \in Page, p < a, m >= a PROVE q[m] < q[p]
    <2>1. q[p] = r[p] + MaxPages + 1 /\ q[m] = MaxPages - m
      BY <1>1, <1>2, <1>4
    <2> QED
      BY <1>1, <2>1
  <1>5. ASSUME NEW p \in Page, Settled(p)', next'[p] \in Page PROVE q[next'[p]] < q[p]
    <2>1. CASE p = i
      <3>1. next'[p] = next[a] /\ next[a] \in Page /\ a <= a
        BY <1>1, <1>5, <2>1
      <3>2. next[a] > a
        BY <1>3, <3>1
      <3>3. next'[p] >= a /\ p < a
        BY <1>1, <2>1, <3>1, <3>2
      <3> QED
        BY <1>4, <1>5, <3>3
    <2>2. CASE p # i /\ a <= p
      <3>1. next'[p] = next[p] /\ next[p] > p
        BY <1>3, <1>5, <2>2
      <3>2. PICK m \in Page : m = next'[p]
        BY <1>5
      <3>3. m > p /\ ~(m < a) /\ ~(p < a)
        BY <1>1, <2>2, <3>1, <3>2
      <3>4. q[m] = MaxPages - m /\ q[p] = MaxPages - p
        BY <1>2, <3>3
      <3> QED
        BY <1>1, <3>2, <3>3, <3>4
    <2>3. CASE p # i /\ p < a
      <3>1. PICK m \in Page : m = next'[p] /\ m = next[p]
        BY <1>5, <2>3
      <3>2. r[m] < r[p]
        BY <1>5, <3>1 DEF Falls
      <3>3. CASE m < a
        <4>1. q[m] = r[m] + MaxPages + 1 /\ q[p] = r[p] + MaxPages + 1
          BY <1>2, <2>3, <3>3
        <4> QED
          BY <1>1, <3>1, <3>2, <4>1
      <3>4. CASE ~(m < a)
        <4>1. m >= a
          BY <1>1, <3>4
        <4> QED
          BY <1>4, <2>3, <3>1, <4>1
      <3> QED
        BY <3>3, <3>4
    <2> QED
      BY <1>1, <2>1, <2>2, <2>3
  <1>6. Falls(q)'
    BY <1>1, <1>5 DEF Falls
  <1> QED
    BY <1>2, <1>6

-----------------------------------------------------------------------------

LEMMA MallocStep == ASSUME RaceInv, NEW t \in Thread, Malloc(t) PROVE RaceInv'
  <1>1. /\ pc[t] = "idle" /\ mallocBy = Nobody /\ calls < MaxCalls /\ mallocBy' = t /\ calls' = calls + 1
        /\ pc' = [pc EXCEPT ![t] = "pop"]
        /\ UNCHANGED <<next, length, used, freeBy, page, iter, tmp, blocks, outcome>>
    BY DEF Malloc, At, Goto
  <1>2. RaceTypes'
    BY <1>1, RaceNumbers DEF RaceInv, RaceTypes, MallocSteps, Page, Pointer, UsedPage
  <1>3. CallInv'
    BY <1>1, RaceNumbers DEF RaceInv, RaceTypes, CallInv, MallocSteps, FreeSteps, UsedPage
  <1>4. \E r \in [Page -> Nat] : Falls(r)'
    <2>1. \A p \in Page : Settled(p)' => Settled(p)
      BY <1>1 DEF Settled, RaceInv, RaceTypes
    <2> QED
      BY <1>1, <2>1, FewerPointers DEF RaceInv
  <1> QED
    BY <1>2, <1>3, <1>4 DEF RaceInv, Page

LEMMA PopStep == ASSUME RaceInv, NEW t \in Thread, PopPage(t) PROVE RaceInv'
  <1>1. /\ pc[t] = "pop" /\ outcome = "ok" /\ page' = [page EXCEPT ![t] = next[SlabHead]]
        /\ UNCHANGED <<next, length, used, mallocBy, freeBy, tmp, blocks, calls>>
        /\ \/ /\ length > 0 /\ pc' = [pc EXCEPT ![t] = "test"] /\ iter' = iter
              /\ outcome' = IF next[SlabHead] \in Page THEN "ok" ELSE "undefined"
           \/ /\ ~(length > 0) /\ pc' = [pc EXCEPT ![t] = "append"] /\ outcome' = outcome
              /\ iter' = [iter EXCEPT ![t] = SlabHead]
    BY DEF PopPage, At, Goto
  <1>2. RaceTypes'
    <2>1. next[SlabHead] \in Pointer /\ Pointer' = Pointer /\ Page' = Page
      BY <1>1, RaceNumbers DEF RaceInv, RaceTypes, Pointer, UsedPage, Page
    <2>2. SlabHead \in 0..used
      BY RaceNumbers DEF RaceInv, RaceTypes
    <2>3. page' \in [Thread -> Pointer] /\ iter' \in [Thread -> 0..used]
      BY <1>1, <2>1, <2>2 DEF RaceInv, RaceTypes
    <2>4. outcome' \in {"ok", "undefined"} /\ pc' \in [Thread -> MallocSteps \cup FreeSteps \cup {"idle"}]
      BY <1>1 DEF RaceInv, RaceTypes, MallocSteps
    <2> QED
      BY <1>1, <2>1, <2>3, <2>4 DEF RaceInv, RaceTypes, UsedPage
  <1>3. CallInv'
    <2>1. next[SlabHead] \in Page => next[SlabHead] \in UsedPage
      BY RaceNumbers DEF RaceInv, RaceTypes, Pointer
    <2>2. UsedPage' = UsedPage /\ length \in Nat
      BY <1>1, RaceNumbers DEF UsedPage, RaceInv, RaceTypes
    <2> QED
      BY <1>1, <2>1, <2>2, RaceNumbers DEF RaceInv, RaceTypes, CallInv, MallocSteps, FreeSteps
  <1>4. \E r \in [Page -> Nat] : Falls(r)'
    <2>1. \A p \in Page : Settled(p)' => Settled(p)
      BY <1>1 DEF Settled, RaceInv, RaceTypes
    <2> QED
      BY <1>1, <2>1, FewerPointers DEF RaceInv
  <1> QED
    BY <1>2, <1>3, <1>4 DEF RaceInv, Page

LEMMA AppendStep == ASSUME RaceInv, NEW t \in Thread, AppendPage(t) PROVE RaceInv'
  <1>1. /\ pc[t] = "append" /\ used < MaxPages /\ used' = used + 1
        /\ next' = [next EXCEPT ![iter[t]] = used + 1]
        /\ iter' = [iter EXCEPT ![t] = used + 1] /\ pc' = [pc EXCEPT ![t] = "appended"]
        /\ UNCHANGED <<length, mallocBy, freeBy, page, tmp, blocks, calls, outcome>>
    BY DEF AppendPage, At, Goto
  <1>2. /\ used \in 2..MaxPages /\ used + 1 \in Page /\ iter[t] \in Page /\ iter[t] < used + 1
        /\ used + 1 \in 2..MaxPages
    <2>1. used \in 2..MaxPages /\ iter[t] \in 0..used /\ iter[t] > 0
      BY <1>1 DEF RaceInv, RaceTypes, CallInv
    <2> QED
      BY <1>1, <2>1, RaceNumbers
  <1>3. UsedPage \subseteq UsedPage' /\ Pointer \subseteq Pointer' /\ used + 1 \in Pointer' /\ Page' = Page
    BY <1>1, <1>2 DEF UsedPage, Pointer, Page
  <1>4. \A p \in Page : p # iter[t] => next'[p] = next[p]
    BY <1>1 DEF RaceInv, RaceTypes
  <1>5. next'[iter[t]] = used + 1
    BY <1>1, <1>2 DEF RaceInv, RaceTypes
  <1>6. RaceTypes'
    <2>1. next' \in [Page -> Pointer']
      BY <1>1, <1>2, <1>3 DEF RaceInv, RaceTypes
    <2>2. \A p \in Page : p > used' => next'[p] = Wild
      <3>1. ASSUME NEW p \in Page, p > used + 1 PROVE p > used /\ p # iter[t]
        BY <1>2, <3>1, RaceNumbers
      <3> QED
        BY <1>1, <1>4, <3>1 DEF RaceInv, RaceTypes
    <2>3. page' \in [Thread -> Pointer'] /\ tmp' \in [Thread -> Pointer']
      BY <1>1, <1>3 DEF RaceInv, RaceTypes
    <2>4. iter' \in [Thread -> 0..used']
      <3>1. 0..used \subseteq 0..(used + 1) /\ used + 1 \in 0..(used + 1)
        BY <1>2
      <3> QED
        BY <1>1, <3>1 DEF RaceInv, RaceTypes
    <2>5. blocks' \subseteq (1..MaxCalls) \X UsedPage'
      BY <1>1, <1>3 DEF RaceInv, RaceTypes
    <2>6. pc' \in [Thread -> MallocSteps \cup FreeSteps \cup {"idle"}]
      BY <1>1 DEF RaceInv, RaceTypes, MallocSteps
    <2> QED
      BY <1>1, <1>2, <1>3, <2>1, <2>2, <2>3, <2>4, <2>5, <2>6 DEF RaceInv, RaceTypes
  <1>7. CallInv'
    <2>1. iter'[t] = used + 1 /\ used + 1 > 0 /\ \A u \in Thread : u # t => iter'[u] = iter[u]
      BY <1>1, <1>2 DEF RaceInv, RaceTypes
    <2>2. pc'[t] = "appended" /\ \A u \in Thread : u # t => pc'[u] = pc[u]
      BY <1>1 DEF RaceInv, RaceTypes
    <2> QED
      BY <1>1, <1>3, <2>1, <2>2 DEF RaceInv, CallInv, MallocSteps, FreeSteps
  <1>8. \E r \in [Page -> Nat] : Falls(r)'
    <2>1. \A p \in Page : Settled(p)' => Settled(p)
      BY <1>1 DEF Settled, RaceInv, RaceTypes
    <2>2. next'[used + 1] \notin Page
      <3>1. used + 1 > used /\ used + 1 # iter[t]
        BY <1>2
      <3> QED
        BY <1>2, <1>4, <3>1, RaceNumbers DEF RaceInv, RaceTypes
    <2>3. PICK r \in [Page -> Nat] : Falls(r)
      BY DEF RaceInv
    <2>4. PICK a \in Page : a = iter[t]
      BY <1>2
    <2>5. PICK z \in Page : z = used + 1
      BY <1>2
    <2> QED
      BY <1>4, <1>5, <2>1, <2>2, <2>3, <2>4, <2>5, EndPointedTo
  <1> QED
    BY <1>6, <1>7, <1>8, <1>3 DEF RaceInv

LEMMA AppendedStep == ASSUME RaceInv, NEW t \in Thread, Appended(t) PROVE RaceInv'
  <1>1. /\ pc[t] = "appended" /\ next' = [next EXCEPT ![iter[t]] = Null]
        /\ \/ /\ length' = length + PagesInitial /\ pc' = [pc EXCEPT ![t] = "pop"]
           \/ /\ length' = length /\ pc' = [pc EXCEPT ![t] = "append"]
        /\ UNCHANGED <<used, mallocBy, freeBy, page, iter, tmp, blocks, calls, outcome>>
    BY DEF Appended, At, Goto
  <1>2. /\ length = 0 /\ iter[t] \in Page /\ iter[t] <= used /\ used \in 2..MaxPages
        /\ Page' = Page /\ UsedPage' = UsedPage /\ Pointer' = Pointer
    <2>1. used \in 2..MaxPages /\ iter[t] \in 0..used /\ iter[t] > 0 /\ length = 0
      BY <1>1 DEF RaceInv, RaceTypes, CallInv
    <2> QED
      BY <1>1, <2>1, RaceNumbers DEF Page, UsedPage, Pointer
  <1>3. next'[iter[t]] = Null /\ \A p \in Page : p # iter[t] => next'[p] = next[p]
    BY <1>1, <1>2 DEF RaceInv, RaceTypes
  <1>4. RaceTypes'
    <2>1. next' \in [Page -> Pointer]
      BY <1>1, <1>2 DEF RaceInv, RaceTypes, Pointer
    <2>2. \A p \in Page : p > used => next'[p] = Wild
      BY <1>2, <1>3, RaceNumbers DEF RaceInv, RaceTypes
    <2>3. length' \in 0..(PagesInitial + 1)
      BY <1>1, <1>2, RaceNumbers
    <2>4. pc' \in [Thread -> MallocSteps \cup FreeSteps \cup {"idle"}]
      BY <1>1 DEF RaceInv, RaceTypes, MallocSteps
    <2> QED
      BY <1>1, <1>2, <2>1, <2>2, <2>3, <2>4 DEF RaceInv, RaceTypes
  <1>5. CallInv'
    <2>1. pc'[t] \in {"pop", "append"} /\ \A u \in Thread : u # t => pc'[u] = pc[u]
      BY <1>1 DEF RaceInv, RaceTypes
    <2>2. pc'[t] = "append" => length' = 0
      BY <1>1, <1>2 DEF RaceInv, RaceTypes
    <2>3. mallocBy = t
      BY <1>1 DEF RaceInv, CallInv, MallocSteps
    <2>4. ASSUME NEW u \in Thread, u # t PROVE pc[u] \notin MallocSteps
      BY <2>3, <2>4 DEF RaceInv, CallInv
    <2> QED
      BY <1>1, <1>2, <2>1, <2>2, <2>3, <2>4 DEF RaceInv, CallInv, MallocSteps, FreeSteps
  <1>6. \E r \in [Page -> Nat] : Falls(r)'
    <2>1. \A p \in Page : Settled(p)' => Settled(p)
      BY <1>1 DEF Settled, RaceInv, RaceTypes
    <2> QED
      BY <1>3, <2>1, RaceNumbers, FewerPointers DEF RaceInv
  <1> QED
    BY <1>2, <1>4, <1>5, <1>6 DEF RaceInv

LEMMA RemoveTestStep == ASSUME RaceInv, NEW t \in Thread, RemoveTest(t) PROVE RaceInv'
  <1>1. /\ pc[t] = "test" /\ outcome = "ok" /\ tmp' = [tmp EXCEPT ![t] = next[page[t]]]
        /\ \/ pc' = [pc EXCEPT ![t] = "got"] /\ iter' = iter
           \/ pc' = [pc EXCEPT ![t] = "search"] /\ iter' = [iter EXCEPT ![t] = SlabHead]
        /\ UNCHANGED <<next, length, used, mallocBy, freeBy, page, blocks, calls, outcome>>
    BY DEF RemoveTest, At, Goto
  <1>2. /\ page[t] \in UsedPage /\ page[t] \in Page /\ UsedPage' = UsedPage /\ Pointer' = Pointer /\ Page' = Page
        /\ SlabHead \in 0..used /\ SlabHead > 0
    <2>1. page[t] \in UsedPage /\ used \in 2..MaxPages
      BY <1>1 DEF RaceInv, CallInv, RaceTypes
    <2> QED
      BY <1>1, <2>1, RaceNumbers DEF UsedPage, Pointer, Page
  <1>3. RaceTypes'
    <2>1. tmp' \in [Thread -> Pointer] /\ iter' \in [Thread -> 0..used]
      BY <1>1, <1>2 DEF RaceInv, RaceTypes
    <2>2. pc' \in [Thread -> MallocSteps \cup FreeSteps \cup {"idle"}]
      BY <1>1 DEF RaceInv, RaceTypes, MallocSteps
    <2> QED
      BY <1>1, <1>2, <2>1, <2>2 DEF RaceInv, RaceTypes
  <1>4. CallInv'
    <2>1. ASSUME NEW u \in Thread, u # t PROVE pc'[u] = pc[u] /\ iter'[u] = iter[u]
      BY <1>1, <2>1 DEF RaceInv, RaceTypes
    <2>2. pc'[t] = "got" \/ (pc'[t] = "search" /\ iter'[t] > 0)
      BY <1>1, <1>2 DEF RaceInv, RaceTypes
    <2> QED
      BY <1>1, <1>2, <2>1, <2>2 DEF RaceInv, CallInv, MallocSteps, FreeSteps
  <1>5. \E r \in [Page -> Nat] : Falls(r)'
    <2>1. \A p \in Page : Settled(p)' => Settled(p)
      BY <1>1 DEF Settled, RaceInv, RaceTypes
    <2> QED
      BY <1>1, <2>1, FewerPointers DEF RaceInv
  <1> QED
    BY <1>2, <1>3, <1>4, <1>5 DEF RaceInv

LEMMA SearchStep == ASSUME RaceInv, NEW t \in Thread, Search(t) PROVE RaceInv'
  <1>1. /\ pc[t] = "search" /\ outcome = "ok"
        /\ \/ pc' = [pc EXCEPT ![t] = "unlink"] /\ UNCHANGED <<iter, outcome>>
           \/ outcome' = "undefined" /\ UNCHANGED <<pc, iter>>
           \/ /\ next[iter[t]] \in Page
              /\ iter' = [iter EXCEPT ![t] = next[iter[t]]] /\ UNCHANGED <<pc, outcome>>
        /\ UNCHANGED <<next, length, used, mallocBy, freeBy, page, tmp, blocks, calls>>
    BY DEF Search, At, Goto
  <1>2. iter[t] \in Page /\ UsedPage' = UsedPage /\ Pointer' = Pointer /\ Page' = Page /\ used \in 2..MaxPages
    <2>1. iter[t] \in 0..used /\ iter[t] > 0 /\ used \in 2..MaxPages
      BY <1>1 DEF RaceInv, RaceTypes, CallInv
    <2> QED
      BY <1>1, <2>1, RaceNumbers DEF UsedPage, Pointer, Page
  <1>3. next[iter[t]] \in Page => next[iter[t]] \in 0..used /\ next[iter[t]] > 0
    <2>1. next[iter[t]] \in Pointer /\ used \in Nat
      BY <1>2 DEF RaceInv, RaceTypes
    <2>2. next[iter[t]] \in Page => next[iter[t]] \in 2..used
      BY <2>1, RaceNumbers DEF Pointer, UsedPage
    <2> QED
      BY <2>1, <2>2
  <1>4. RaceTypes'
    <2>1. iter' \in [Thread -> 0..used] /\ outcome' \in {"ok", "undefined"}
      BY <1>1, <1>3 DEF RaceInv, RaceTypes
    <2>2. pc' \in [Thread -> MallocSteps \cup FreeSteps \cup {"idle"}]
      BY <1>1 DEF RaceInv, RaceTypes, MallocSteps
    <2> QED
      BY <1>1, <1>2, <2>1, <2>2 DEF RaceInv, RaceTypes
  <1>5. CallInv'
    <2>1. ASSUME NEW u \in Thread, u # t PROVE pc'[u] = pc[u] /\ iter'[u] = iter[u]
      BY <1>1, <2>1 DEF RaceInv, RaceTypes
    <2>2. pc'[t] \in {"search", "unlink"} /\ iter'[t] > 0
      BY <1>1, <1>3 DEF RaceInv, RaceTypes, CallInv
    <2>3. outcome' = "ok" => outcome = "ok"
      BY <1>1
    <2> QED
      BY <1>1, <1>2, <2>1, <2>2, <2>3 DEF RaceInv, CallInv, MallocSteps, FreeSteps
  <1>6. \E r \in [Page -> Nat] : Falls(r)'
    <2>1. \A p \in Page : Settled(p)' => Settled(p)
      BY <1>1 DEF Settled, RaceInv, RaceTypes
    <2> QED
      BY <1>1, <2>1, FewerPointers DEF RaceInv
  <1> QED
    BY <1>2, <1>4, <1>5, <1>6 DEF RaceInv

LEMMA UnlinkStep == ASSUME RaceInv, OrderInv, NEW t \in Thread, Unlink(t) PROVE RaceInv'
  <1>1. /\ pc[t] = "unlink" /\ outcome = "ok" /\ pc' = [pc EXCEPT ![t] = "got"]
        /\ \E n \in {tmp[t], next[page[t]]} : next' = [next EXCEPT ![iter[t]] = n]
        /\ UNCHANGED <<length, used, mallocBy, freeBy, page, iter, tmp, blocks, calls, outcome>>
    BY DEF Unlink, At, Goto
  <1>2. /\ page[t] \in Page /\ iter[t] \in Page /\ iter[t] <= used /\ used \in 2..MaxPages
        /\ UsedPage' = UsedPage /\ Pointer' = Pointer /\ Page' = Page
    <2>1. page[t] \in UsedPage /\ iter[t] \in 0..used /\ iter[t] > 0 /\ used \in 2..MaxPages
      BY <1>1 DEF RaceInv, CallInv, RaceTypes
    <2> QED
      BY <1>1, <2>1, RaceNumbers DEF UsedPage, Pointer, Page
  <1>3. PICK n \in Pointer : n \in {tmp[t], next[page[t]]} /\ next' = [next EXCEPT ![iter[t]] = n]
    BY <1>1, <1>2 DEF RaceInv, RaceTypes
  <1>4. next'[iter[t]] = n /\ \A p \in Page : p # iter[t] => next'[p] = next[p]
    BY <1>2, <1>3 DEF RaceInv, RaceTypes
  <1>5. RaceTypes'
    <2>1. next' \in [Page -> Pointer]
      BY <1>3 DEF RaceInv, RaceTypes
    <2>2. \A p \in Page : p > used => next'[p] = Wild
      BY <1>2, <1>4, RaceNumbers DEF RaceInv, RaceTypes
    <2> QED
      BY <1>1, <1>2, <2>1, <2>2 DEF RaceInv, RaceTypes, MallocSteps
  <1>6. CallInv'
    BY <1>1, <1>2 DEF RaceInv, RaceTypes, CallInv, MallocSteps, FreeSteps
  <1>7. \E r \in [Page -> Nat] : Falls(r)'
    <2>1. \A p \in Page : Settled(p)' => Settled(p)
      BY <1>1 DEF Settled, RaceInv, RaceTypes
    <2>2. \A p \in Page : next'[p] # SlabHead /\ next[p] # SlabHead
      <3>1. SlabHead \notin Pointer
        BY <1>2, RaceNumbers DEF Pointer, UsedPage
      <3> QED
        BY <1>3, <1>4, <3>1 DEF RaceInv, RaceTypes
    <2>3. PICK r \in [Page -> Nat] : Falls(r)
      BY DEF RaceInv
    <2>4. CASE First(t)
      <3>1. iter[t] = SlabHead
        BY <1>1, <2>4 DEF First
      <3> QED
        BY <1>4, <2>1, <2>2, <2>3, <3>1, HeadPoints
    <2>5. ASSUME NEW a \in Page, NEW G \in SUBSET Page, Cut(t, a, G) PROVE \E q \in [Page -> Nat] : Falls(q)'
      <3>1. Row(a) /\ next[SlabHead] \in Page /\ next[SlabHead] < a /\ iter[t] < a /\ n = next[a]
        BY <1>1, <1>3, <2>5 DEF Cut
      <3>2. PICK i \in Page : i = iter[t]
        BY <1>2
      <3>3. n = next'[i] /\ \A p \in Page : p # i => next'[p] = next[p]
        BY <1>4, <3>2
      <3> QED
        BY <2>1, <2>2, <2>3, <3>1, <3>2, <3>3, RowPointedTo DEF RaceInv
    <2> QED
      BY <1>1, <2>4, <2>5 DEF OrderInv, SearchInv, Searching
  <1> QED
    BY <1>2, <1>5, <1>6, <1>7 DEF RaceInv

LEMMA GotStep == ASSUME RaceInv, NEW t \in Thread, Got(t) PROVE RaceInv'
  <1>1. /\ pc[t] = "got" /\ outcome = "ok" /\ length' = length - 1
        /\ blocks' = blocks \cup {<<calls, page[t]>>} /\ mallocBy' = Nobody
        /\ pc' = [pc EXCEPT ![t] = "idle"] /\ page' = [page EXCEPT ![t] = Null]
        /\ iter' = [iter EXCEPT ![t] = Null] /\ tmp' = [tmp EXCEPT ![t] = Null]
        /\ UNCHANGED <<next, used, freeBy, calls, outcome>>
    BY DEF Got, At, Goto, Return
  <1>2. page[t] \in UsedPage /\ length > 0 /\ mallocBy = t /\ calls \in 1..MaxCalls
        /\ UsedPage' = UsedPage /\ Pointer' = Pointer /\ Page' = Page
    BY <1>1, RaceNumbers DEF RaceInv, CallInv, RaceTypes, MallocSteps, UsedPage, Pointer, Page
  <1>3. RaceTypes'
    <2>1. length' \in 0..(PagesInitial + 1)
      BY <1>1, <1>2, RaceNumbers DEF RaceInv, RaceTypes
    <2>2. page' \in [Thread -> Pointer] /\ tmp' \in [Thread -> Pointer]
      BY <1>1 DEF RaceInv, RaceTypes, Pointer
    <2>3. iter' \in [Thread -> 0..used]
      BY <1>1, RaceNumbers DEF RaceInv, RaceTypes
    <2>4. pc' \in [Thread -> MallocSteps \cup FreeSteps \cup {"idle"}]
      BY <1>1 DEF RaceInv, RaceTypes
    <2> QED
      BY <1>1, <1>2, <2>1, <2>2, <2>3, <2>4 DEF RaceInv, RaceTypes
  <1>4. CallInv'
    <2>1. ASSUME NEW u \in Thread, u # t
          PROVE  pc'[u] = pc[u] /\ page'[u] = page[u] /\ iter'[u] = iter[u] /\ pc[u] \notin MallocSteps
      BY <1>1, <1>2, <2>1 DEF RaceInv, RaceTypes, CallInv
    <2>2. pc'[t] = "idle"
      BY <1>1 DEF RaceInv, RaceTypes
    <2> QED
      BY <1>1, <1>2, <2>1, <2>2 DEF RaceInv, CallInv, MallocSteps, FreeSteps
  <1>5. \E r \in [Page -> Nat] : Falls(r)'
    <2>1. \A p \in Page : Settled(p)' => Settled(p)
      BY <1>1 DEF Settled, RaceInv, RaceTypes
    <2> QED
      BY <1>1, <2>1, FewerPointers DEF RaceInv
  <1> QED
    BY <1>2, <1>3, <1>4, <1>5 DEF RaceInv

LEMMA FreeStep == ASSUME RaceInv, NEW t \in Thread, NEW b \in blocks, Free(t, b) PROVE RaceInv'
  <1>1. /\ pc[t] = "idle" /\ freeBy = Nobody /\ freeBy' = t /\ blocks' = blocks \ {b}
        /\ page' = [page EXCEPT ![t] = b[2]] /\ iter' = [iter EXCEPT ![t] = SlabHead]
        /\ pc' = [pc EXCEPT ![t] = "walk"]
        /\ UNCHANGED <<next, length, used, mallocBy, tmp, calls, outcome>>
    BY DEF Free, At, Goto
  <1>2. b[2] \in UsedPage /\ SlabHead \in 0..used /\ SlabHead > 0
        /\ UsedPage' = UsedPage /\ Pointer' = Pointer /\ Page' = Page
    BY <1>1, RaceNumbers DEF RaceInv, RaceTypes, UsedPage, Pointer, Page
  <1>3. RaceTypes'
    <2>1. page' \in [Thread -> Pointer] /\ iter' \in [Thread -> 0..used]
      BY <1>1, <1>2 DEF RaceInv, RaceTypes, Pointer
    <2>2. pc' \in [Thread -> MallocSteps \cup FreeSteps \cup {"idle"}]
      BY <1>1 DEF RaceInv, RaceTypes, FreeSteps
    <2> QED
      BY <1>1, <1>2, <2>1, <2>2 DEF RaceInv, RaceTypes
  <1>4. CallInv'
    <2>1. ASSUME NEW u \in Thread, u # t
          PROVE  pc'[u] = pc[u] /\ page'[u] = page[u] /\ iter'[u] = iter[u] /\ pc[u] \notin FreeSteps
      BY <1>1, <2>1, RaceNumbers DEF RaceInv, RaceTypes, CallInv
    <2>2. pc'[t] = "walk" /\ page'[t] \in UsedPage /\ iter'[t] > 0
      BY <1>1, <1>2 DEF RaceInv, RaceTypes
    <2> QED
      BY <1>1, <1>2, <2>1, <2>2 DEF RaceInv, CallInv, MallocSteps, FreeSteps
  <1>5. \E r \in [Page -> Nat] : Falls(r)'
    <2>1. \A u \in Thread : pc[u] # "clear"
      BY <1>1, RaceNumbers DEF RaceInv, CallInv, FreeSteps
    <2>2. \A p \in Page : Settled(p)
      BY <2>1 DEF Settled
    <2> QED
      BY <1>1, <2>2, FewerPointers DEF RaceInv
  <1> QED
    BY <1>2, <1>3, <1>4, <1>5 DEF RaceInv

LEMMA WalkStep == ASSUME RaceInv, NEW t \in Thread, Walk(t) PROVE RaceInv'
  <1>1. /\ pc[t] = "walk" /\ outcome = "ok"
        /\ \/ pc' = [pc EXCEPT ![t] = "link"] /\ UNCHANGED <<iter, outcome>>
           \/ outcome' = "undefined" /\ UNCHANGED <<pc, iter>>
           \/ /\ next[iter[t]] # Null /\ next[iter[t]] # Wild
              /\ iter' = [iter EXCEPT ![t] = next[iter[t]]] /\ UNCHANGED <<pc, outcome>>
        /\ UNCHANGED <<next, length, used, mallocBy, freeBy, page, tmp, blocks, calls>>
    BY DEF Walk, At, Goto
  <1>2. iter[t] \in Page /\ UsedPage' = UsedPage /\ Pointer' = Pointer /\ Page' = Page /\ used \in 2..MaxPages
    <2>1. iter[t] \in 0..used /\ iter[t] > 0 /\ used \in 2..MaxPages
      BY <1>1 DEF RaceInv, RaceTypes, CallInv
    <2> QED
      BY <1>1, <2>1, RaceNumbers DEF UsedPage, Pointer, Page
  <1>3. next[iter[t]] # Null /\ next[iter[t]] # Wild => next[iter[t]] \in 0..used /\ next[iter[t]] > 0
    BY <1>2 DEF RaceInv, RaceTypes, Pointer, UsedPage
  <1>4. RaceTypes'
    <2>1. iter' \in [Thread -> 0..used] /\ outcome' \in {"ok", "undefined"}
      BY <1>1, <1>3 DEF RaceInv, RaceTypes
    <2>2. pc' \in [Thread -> MallocSteps \cup FreeSteps \cup {"idle"}]
      BY <1>1 DEF RaceInv, RaceTypes, FreeSteps
    <2> QED
      BY <1>1, <1>2, <2>1, <2>2 DEF RaceInv, RaceTypes
  <1>5. CallInv'
    <2>1. ASSUME NEW u \in Thread, u # t PROVE pc'[u] = pc[u] /\ iter'[u] = iter[u]
      BY <1>1, <2>1 DEF RaceInv, RaceTypes
    <2>2. pc'[t] \in {"walk", "link"} /\ iter'[t] > 0
      BY <1>1, <1>3 DEF RaceInv, RaceTypes, CallInv
    <2>3. outcome' = "ok" => outcome = "ok"
      BY <1>1
    <2> QED
      BY <1>1, <1>2, <2>1, <2>2, <2>3 DEF RaceInv, CallInv, MallocSteps, FreeSteps
  <1>6. \E r \in [Page -> Nat] : Falls(r)'
    <2>1. \A p \in Page : Settled(p)' => Settled(p)
      BY <1>1 DEF Settled, RaceInv, RaceTypes
    <2> QED
      BY <1>1, <2>1, FewerPointers DEF RaceInv
  <1> QED
    BY <1>2, <1>4, <1>5, <1>6 DEF RaceInv

LEMMA LinkStep == ASSUME RaceInv, NEW t \in Thread, Link(t) PROVE RaceInv'
  <1>1. /\ pc[t] = "link" /\ next' = [next EXCEPT ![iter[t]] = page[t]] /\ pc' = [pc EXCEPT ![t] = "clear"]
        /\ UNCHANGED <<length, used, mallocBy, freeBy, page, iter, tmp, blocks, calls, outcome>>
    BY DEF Link, At, Goto
  <1>2. /\ iter[t] \in Page /\ iter[t] <= used /\ used \in 2..MaxPages /\ page[t] \in UsedPage /\ page[t] \in Page
        /\ UsedPage' = UsedPage /\ Pointer' = Pointer /\ Page' = Page
    <2>1. iter[t] \in 0..used /\ iter[t] > 0 /\ used \in 2..MaxPages /\ page[t] \in UsedPage
      BY <1>1 DEF RaceInv, RaceTypes, CallInv, FreeSteps
    <2> QED
      BY <1>1, <2>1, RaceNumbers DEF UsedPage, Pointer, Page
  <1>3. next'[iter[t]] = page[t] /\ \A p \in Page : p # iter[t] => next'[p] = next[p]
    BY <1>1, <1>2 DEF RaceInv, RaceTypes
  <1>4. RaceTypes'
    <2>1. next' \in [Page -> Pointer]
      BY <1>1, <1>2 DEF RaceInv, RaceTypes, Pointer
    <2>2. \A p \in Page : p > used => next'[p] = Wild
      BY <1>2, <1>3, RaceNumbers DEF RaceInv, RaceTypes
    <2>3. pc' \in [Thread -> MallocSteps \cup FreeSteps \cup {"idle"}]
      BY <1>1 DEF RaceInv, RaceTypes, FreeSteps
    <2> QED
      BY <1>1, <1>2, <2>1, <2>2, <2>3 DEF RaceInv, RaceTypes
  <1>5. CallInv'
    BY <1>1, <1>2 DEF RaceInv, RaceTypes, CallInv, MallocSteps, FreeSteps
  <1>6. \E r \in [Page -> Nat] : Falls(r)'
    <2>1. \A u \in Thread : pc[u] # "clear"
      BY <1>1, RaceNumbers DEF RaceInv, CallInv, FreeSteps
    <2>2. \A p \in Page : Settled(p)
      BY <2>1 DEF Settled
    <2>3. pc'[t] = "clear" /\ page'[t] = page[t]
      BY <1>1 DEF RaceInv, RaceTypes
    <2>4. PICK z \in Page : z = page[t]
      BY <1>2
    <2>5. ~Settled(z)'
      BY <2>3, <2>4 DEF Settled
    <2>6. PICK r \in [Page -> Nat] : Falls(r)
      BY DEF RaceInv
    <2>7. PICK a \in Page : a = iter[t]
      BY <1>2
    <2> QED
      BY <1>3, <2>2, <2>4, <2>5, <2>6, <2>7, EndPointedTo
  <1> QED
    BY <1>2, <1>4, <1>5, <1>6 DEF RaceInv

LEMMA ClearStep == ASSUME RaceInv, NEW t \in Thread, Clear(t) PROVE RaceInv'
  <1>1. /\ pc[t] = "clear" /\ next' = [next EXCEPT ![page[t]] = Null] /\ freeBy' = Nobody
        /\ pc' = [pc EXCEPT ![t] = "idle"] /\ page' = [page EXCEPT ![t] = Null]
        /\ iter' = [iter EXCEPT ![t] = Null] /\ tmp' = [tmp EXCEPT ![t] = Null]
        /\ UNCHANGED <<length, used, mallocBy, blocks, calls, outcome>>
    BY DEF Clear, At, Goto, Return
  <1>2. /\ freeBy = t /\ page[t] \in Page /\ page[t] <= used /\ used \in 2..MaxPages
        /\ UsedPage' = UsedPage /\ Pointer' = Pointer /\ Page' = Page
    BY <1>1, RaceNumbers DEF RaceInv, CallInv, RaceTypes, FreeSteps, UsedPage, Pointer, Page
  <1>3. next'[page[t]] = Null /\ \A p \in Page : p # page[t] => next'[p] = next[p]
    BY <1>1, <1>2 DEF RaceInv, RaceTypes
  <1>4. RaceTypes'
    <2>1. next' \in [Page -> Pointer]
      BY <1>1, <1>2 DEF RaceInv, RaceTypes, Pointer
    <2>2. \A p \in Page : p > used => next'[p] = Wild
      BY <1>2, <1>3, RaceNumbers DEF RaceInv, RaceTypes
    <2>3. page' \in [Thread -> Pointer] /\ tmp' \in [Thread -> Pointer]
      BY <1>1 DEF RaceInv, RaceTypes, Pointer
    <2>4. iter' \in [Thread -> 0..used]
      BY <1>1, <1>2, RaceNumbers DEF RaceInv, RaceTypes
    <2>5. pc' \in [Thread -> MallocSteps \cup FreeSteps \cup {"idle"}]
      BY <1>1 DEF RaceInv, RaceTypes
    <2> QED
      BY <1>1, <1>2, <2>1, <2>2, <2>3, <2>4, <2>5 DEF RaceInv, RaceTypes
  <1>5. ASSUME NEW u \in Thread, u # t
        PROVE  pc'[u] = pc[u] /\ page'[u] = page[u] /\ iter'[u] = iter[u] /\ pc[u] \notin FreeSteps
    BY <1>1, <1>2, <1>5 DEF RaceInv, RaceTypes, CallInv
  <1>6. pc'[t] = "idle"
    BY <1>1 DEF RaceInv, RaceTypes
  <1>7. CallInv'
    BY <1>1, <1>2, <1>5, <1>6 DEF RaceInv, CallInv, MallocSteps, FreeSteps
  <1>8. \E r \in [Page -> Nat] : Falls(r)'
    <2>1. ASSUME NEW p \in Page, p # page[t] PROVE Settled(p)
      <3>1. \A u \in Thread : u # t => pc[u] # "clear"
        BY <1>5 DEF FreeSteps
      <3> QED
        BY <2>1, <3>1 DEF Settled
    <2>2. next'[page[t]] \notin Page
      BY <1>3, RaceNumbers
    <2> QED
      BY <1>3, <2>1, <2>2, FewerPointers DEF RaceInv
  <1> QED
    BY <1>2, <1>4, <1>7, <1>8 DEF RaceInv

-----------------------------------------------------------------------------
(* The order of the list's pages while a kfree() has found it empty *)

LEMMA ByTheLocks ==
  ASSUME RaceInv, NEW t \in Thread, NEW u \in Thread, u # t
  PROVE  /\ pc[t] \in MallocSteps => pc[u] \notin MallocSteps
         /\ pc[t] \in FreeSteps => pc[u] \notin FreeSteps
  BY DEF RaceInv, CallInv

LEMMA NoSearch ==
  ASSUME RaceInv', NEW t \in Thread, mallocBy' \in {t, Nobody}, ~Searching(t)'
  PROVE  SearchInv'
  <1>1. ASSUME NEW u \in Thread, Searching(u)' PROVE FALSE
    <2>1. pc'[u] \in MallocSteps
      BY <1>1 DEF Searching, MallocSteps
    <2>2. mallocBy' = u
      BY <2>1 DEF RaceInv, CallInv
    <2> QED
      BY <1>1, <2>2, RaceNumbers
  <1> QED
    BY <1>1 DEF SearchInv

LEMMA NoneAtHead ==
  ASSUME RaceInv', NEW t \in Thread, freeBy' \in {t, Nobody}, ~AtHead(t)'
  PROVE  HeadInv' /\ \A u \in Thread : ~AtHead(u)'
  <1>1. ASSUME NEW u \in Thread, AtHead(u)' PROVE FALSE
    <2>1. pc'[u] \in FreeSteps
      BY <1>1 DEF AtHead, FreeSteps
    <2>2. freeBy' = u
      BY <2>1 DEF RaceInv, CallInv
    <2> QED
      BY <1>1, <2>2, RaceNumbers
  <1> QED
    BY <1>1 DEF HeadInv

\* Nobody else has got a page while a kmalloc() is on its way to one.
LEMMA LeftBefore ==
  ASSUME RaceInv, NEW t \in Thread, pc[t] \in MallocSteps, pc[t] # "got"
  PROVE  Left = length
  <1>1. \A u \in Thread : pc[u] # "got"
    BY ByTheLocks DEF MallocSteps
  <1> QED
    BY <1>1 DEF Left

LEMMA LeftAfter ==
  ASSUME RaceInv, NEW t \in Thread, RaceInv', pc'[t] \in MallocSteps, Thread' = Thread
  PROVE  Left' = IF pc'[t] = "got" THEN length' - 1 ELSE length'
  <1>1. ASSUME NEW u \in Thread, u # t PROVE pc'[u] # "got"
    BY <1>1 DEF RaceInv, CallInv, MallocSteps
  <1>2. (\E u \in Thread : pc'[u] = "got") <=> pc'[t] = "got"
    BY <1>1
  <1> QED
    BY <1>2 DEF Left

LEMMA MallocOrder == ASSUME RaceInv, RaceInv', OrderInv, NEW t \in Thread, Malloc(t) PROVE OrderInv'
  <1>1. /\ pc[t] = "idle" /\ outcome = "ok" /\ mallocBy = Nobody /\ mallocBy' = t
        /\ pc' = [pc EXCEPT ![t] = "pop"]
        /\ UNCHANGED <<next, length, used, freeBy, page, iter, tmp, blocks, outcome>>
    BY DEF Malloc, At, Goto
  <1>2. pc'[t] = "pop" /\ \A u \in Thread : u # t => pc'[u] = pc[u]
    BY <1>1 DEF RaceInv, RaceTypes
  <1>3. \A u \in Thread : Extending(u)' = Extending(u) /\ AtHead(u)' = AtHead(u)
    BY <1>1, <1>2 DEF Extending, AtHead
  <1>4. ExtendInv'
    BY <1>1, <1>3 DEF OrderInv, ExtendInv, Whole
  <1>5. SearchInv'
    BY <1>1, <1>2, NoSearch DEF Searching
  <1>6. HeadInv'
    <2>1. \A u \in Thread : pc[u] \notin MallocSteps
      BY <1>1, RaceNumbers DEF RaceInv, CallInv
    <2>2. Left' = Left
      BY <1>1, <1>2, <2>1 DEF Left, MallocSteps
    <2>3. ASSUME NEW h \in Page, Batch(h) PROVE Batch(h)'
      <3>1. Row(h)'
        BY <1>1, <2>3 DEF Batch, Row, Page
      <3> QED
        BY <1>1, <1>2, <1>3, <2>2, <2>3, <3>1 DEF Batch, Whole
    <2> QED
      BY <1>1, <1>3, <2>3 DEF OrderInv, HeadInv, Page
  <1> QED
    BY <1>4, <1>5, <1>6 DEF OrderInv

LEMMA PopOrder == ASSUME RaceInv, RaceInv', OrderInv, NEW t \in Thread, PopPage(t) PROVE OrderInv'
  <1>1. /\ pc[t] = "pop" /\ outcome = "ok" /\ page' = [page EXCEPT ![t] = next[SlabHead]]
        /\ UNCHANGED <<next, length, used, mallocBy, freeBy, tmp, blocks, calls>>
        /\ \/ /\ length > 0 /\ pc' = [pc EXCEPT ![t] = "test"] /\ iter' = iter
              /\ outcome' = IF next[SlabHead] \in Page THEN "ok" ELSE "undefined"
           \/ /\ ~(length > 0) /\ pc' = [pc EXCEPT ![t] = "append"] /\ outcome' = outcome
              /\ iter' = [iter EXCEPT ![t] = SlabHead]
    BY DEF PopPage, At, Goto
  <1>2. /\ \A u \in Thread : u # t => pc'[u] = pc[u] /\ page'[u] = page[u] /\ iter'[u] = iter[u]
        /\ pc'[t] = "test" \/ (pc'[t] = "append" /\ iter'[t] = SlabHead)
        /\ page'[t] = next[SlabHead]
    BY <1>1 DEF RaceInv, RaceTypes
  <1>3. \A u \in Thread : Extending(u)' = Extending(u) /\ AtHead(u)' = AtHead(u)
    BY <1>1, <1>2 DEF Extending, AtHead
  <1>4. ExtendInv'
    <2>1. ~Extending(t) /\ \A u \in Thread : u # t => iter'[u] = iter[u]
      BY <1>1, <1>2 DEF Extending
    <2> QED
      BY <1>1, <1>3, <2>1 DEF OrderInv, ExtendInv, Whole, Page
  <1>5. HeadInv'
    <2>1. Left' = Left
      <3>1. Left = length
        BY <1>1, LeftBefore DEF MallocSteps
      <3>2. pc'[t] \in MallocSteps /\ pc'[t] # "got"
        BY <1>2 DEF MallocSteps
      <3> QED
        BY <1>1, <3>1, <3>2, LeftAfter
    <2>2. ASSUME NEW h \in Page, Batch(h) PROVE Batch(h)'
      <3>1. Row(h)'
        BY <1>1, <2>2 DEF Batch, Row, Page
      <3>2. ASSUME NEW u \in Thread
            PROVE  /\ pc'[u] = "got" => pc[u] = "got" /\ page'[u] = page[u]
                   /\ pc'[u] \in {"search", "unlink"} => pc[u] = pc'[u]
        BY <1>1, <1>2
      <3> QED
        BY <1>1, <1>2, <1>3, <2>1, <2>2, <3>1, <3>2 DEF Batch, Whole
    <2>3. ASSUME NEW u \in Thread, AtHead(u) PROVE page'[u] = page[u]
      BY <1>1, <1>2, <2>3 DEF AtHead
    <2> QED
      BY <1>1, <1>3, <2>2, <2>3 DEF OrderInv, HeadInv, Page
  <1>6. SearchInv'
    <2>1. CASE pc'[t] = "test"
      <3>1. First(t)'
        BY <1>1, <1>2, <2>1 DEF First
      <3>2. ASSUME NEW u \in Thread, u # t PROVE ~Searching(u)'
        BY <1>1, <1>2, <3>2, ByTheLocks DEF Searching, MallocSteps
      <3> QED
        BY <3>1, <3>2 DEF SearchInv
    <2>2. CASE pc'[t] = "append"
      <3>1. mallocBy' = t
        BY <1>1 DEF RaceInv, CallInv, MallocSteps
      <3> QED
        BY <2>2, <3>1, NoSearch DEF Searching
    <2> QED
      BY <1>2, <2>1, <2>2
  <1> QED
    BY <1>4, <1>5, <1>6 DEF OrderInv

LEMMA AppendOrder == ASSUME RaceInv, RaceInv', OrderInv, NEW t \in Thread, AppendPage(t) PROVE OrderInv'
  <1>1. /\ pc[t] = "append" /\ outcome = "ok" /\ used < MaxPages /\ used' = used + 1
        /\ next' = [next EXCEPT ![iter[t]] = used + 1]
        /\ iter' = [iter EXCEPT ![t] = used + 1] /\ pc' = [pc EXCEPT ![t] = "appended"]
        /\ UNCHANGED <<length, mallocBy, freeBy, page, tmp, blocks, calls, outcome>>
    BY DEF AppendPage, At, Goto
  <1>2. /\ used \in 2..MaxPages /\ used + 1 \in Page /\ iter[t] \in Page /\ iter[t] <= used
        /\ length = 0 /\ mallocBy = t
    <2>1. used \in 2..MaxPages /\ iter[t] \in 0..used /\ iter[t] > 0 /\ length = 0 /\ mallocBy = t
      BY <1>1 DEF RaceInv, RaceTypes, CallInv, MallocSteps
    <2> QED
      BY <1>1, <2>1, RaceNumbers
  <1>3. /\ next'[iter[t]] = used + 1 /\ \A p \in Page : p # iter[t] => next'[p] = next[p]
        /\ pc'[t] = "appended" /\ iter'[t] = used + 1
        /\ \A u \in Thread : u # t => pc'[u] = pc[u] /\ iter'[u] = iter[u] /\ pc[u] \notin MallocSteps
    BY <1>1, <1>2, ByTheLocks DEF RaceInv, RaceTypes, MallocSteps
  <1>4. \A u \in Thread : u # t => ~Extending(u) /\ ~Extending(u)'
    BY <1>3 DEF Extending, MallocSteps
  <1>5. Extending(t)' /\ Thread' = Thread /\ Page' = Page
    BY <1>3 DEF Extending, Page
  <1>6. ExtendInv'
    <2>1. next'[SlabHead] \in Page
      <3>1. CASE iter[t] = SlabHead
        BY <1>2, <1>3, <3>1
      <3>2. CASE iter[t] # SlabHead
        <4>1. next[SlabHead] \in Page
          BY <1>1, <3>2 DEF OrderInv, ExtendInv, Extending
        <4> QED
          BY <1>3, <3>2, <4>1, RaceNumbers
      <3> QED
        BY <3>1, <3>2
    <2>2. used' > PagesInitial
      BY <1>1, <1>2, RaceNumbers DEF OrderInv, ExtendInv
    <2> QED
      BY <1>1, <1>3, <1>4, <1>5, <2>1, <2>2 DEF ExtendInv
  <1>7. SearchInv'
    BY <1>1, <1>2, <1>3, NoSearch DEF Searching
  <1>8. HeadInv'
    <2>1. SUFFICES ASSUME NEW u \in Thread, NEW h \in Page, AtHead(u)', next'[SlabHead] = h
                   PROVE  page'[u] < h /\ Batch(h)'
      BY <1>5 DEF HeadInv
    <2>2. AtHead(u) /\ page'[u] = page[u] /\ page[u] \in UsedPage
      <3>1. u # t
        BY <1>3, <2>1 DEF AtHead
      <3> QED
        BY <1>1, <1>3, <2>1, <3>1 DEF AtHead, RaceInv, CallInv, FreeSteps
    <2>3. Left' = 0
      <3>1. pc'[t] \in MallocSteps /\ pc'[t] # "got"
        BY <1>3 DEF MallocSteps
      <3> QED
        BY <1>1, <1>2, <1>5, <3>1, LeftAfter
    <2>4. CASE iter[t] = SlabHead
      <3>1. h = used + 1
        BY <1>3, <2>1, <2>4
      <3>2. page'[u] < h
        BY <1>2, <2>2, <3>1 DEF UsedPage
      <3>3. Row(h)'
        <4>1. \A p \in Page : ~(h <= p /\ p < used')
          BY <1>1, <1>2, <3>1, RaceNumbers
        <4>2. next'[used'] \notin Page
          <5>1. used + 1 > used /\ used + 1 # iter[t]
            BY <1>2
          <5> QED
            BY <1>1, <1>2, <1>3, <5>1, RaceNumbers DEF RaceInv, RaceTypes
        <4>3. ASSUME NEW p \in Page, SlabHead < p, next'[p] \in Page PROVE next'[p] <= h
          <5>1. next'[p] = next[p] /\ next[p] \in Pointer /\ next[p] \in Page
            BY <1>3, <2>4, <4>3, RaceNumbers DEF RaceInv, RaceTypes
          <5> QED
            BY <1>2, <3>1, <5>1, RaceNumbers DEF Pointer, UsedPage
        <4> QED
          BY <1>5, <4>1, <4>2, <4>3 DEF Row
      <3>4. \A b \in blocks' : b[2] < h
        BY <1>1, <1>2, <3>1 DEF RaceInv, RaceTypes, UsedPage
      <3>5. Left' <= used' - h + 1
        BY <1>1, <1>2, <2>3, <3>1
      <3>6. Whole(h - 1)'
        <4>1. \A v \in Thread : ~Extending(v)
          BY <1>1, <1>4, <2>4 DEF Extending
        <4>2. Whole(used) /\ h - 1 = used
          BY <1>2, <3>1, <4>1 DEF OrderInv, ExtendInv
        <4> QED
          BY <4>2 DEF Whole
      <3>7. \A v \in Thread : pc'[v] # "got" /\ pc'[v] \notin {"search", "unlink"}
        BY <1>3 DEF MallocSteps
      <3> QED
        BY <1>5, <3>2, <3>3, <3>4, <3>5, <3>6, <3>7 DEF Batch
    <2>5. CASE iter[t] # SlabHead
      <3>1. Extending(t) /\ iter[t] = used /\ next[SlabHead] = h
        BY <1>1, <1>2, <1>3, <2>1, <2>5, RaceNumbers DEF Extending, OrderInv, ExtendInv
      <3>2. page[u] < h /\ Batch(h)
        BY <1>1, <2>2, <3>1 DEF OrderInv, HeadInv
      <3>3. h \in UsedPage /\ h <= used
        <4>1. h \in Pointer
          BY <3>1, RaceNumbers DEF RaceInv, RaceTypes
        <4> QED
          BY <1>2, <4>1, RaceNumbers DEF Pointer, UsedPage
      <3>4. Row(h)'
        <4>1. ASSUME NEW p \in Page, h <= p, p < used' PROVE next'[p] = p + 1
          <5>1. CASE p = used
            BY <1>3, <3>1, <5>1
          <5>2. CASE p # used
            <6>1. p < used /\ next'[p] = next[p]
              BY <1>1, <1>2, <1>3, <3>1, <4>1, <5>2, RaceNumbers
            <6> QED
              BY <3>2, <4>1, <6>1 DEF Batch, Row
          <5> QED
            BY <5>1, <5>2
        <4>2. next'[used'] \notin Page
          <5>1. used + 1 > used /\ used + 1 # iter[t]
            BY <1>2
          <5> QED
            BY <1>1, <1>2, <1>3, <5>1, RaceNumbers DEF RaceInv, RaceTypes
        <4>3. ASSUME NEW p \in Page, SlabHead < p, p < h, next'[p] \in Page PROVE next'[p] <= h
          <5>1. p # iter[t]
            BY <1>2, <3>1, <3>3, <4>3, RaceNumbers
          <5> QED
            BY <1>3, <3>2, <4>3, <5>1 DEF Batch, Row
        <4> QED
          BY <1>5, <4>1, <4>2, <4>3 DEF Row
      <3>5. (\A b \in blocks' : b[2] < h) /\ Whole(h - 1)'
        BY <1>1, <3>1, <3>2 DEF Batch, Whole
      <3>6. Left' <= used' - h + 1
        BY <1>1, <1>2, <2>3, <3>3, RaceNumbers
      <3>7. \A v \in Thread : pc'[v] # "got" /\ pc'[v] \notin {"search", "unlink"}
        BY <1>3 DEF MallocSteps
      <3> QED
        BY <1>5, <2>2, <3>2, <3>4, <3>5, <3>6, <3>7 DEF Batch
    <2> QED
      BY <2>4, <2>5
  <1> QED
    BY <1>6, <1>7, <1>8 DEF OrderInv

\* Two numbers of pages at which batches are whole are a batch apart.
LEMMA WholeBatch ==
  ASSUME NEW m \in Nat, NEW n \in Nat, m < n, Whole(m), Whole(n)
  PROVE  n - m >= PagesInitial
  <1> DEFINE i == PagesInitial
             a == (m - (i + 1)) \div i
             b == (n - (i + 1)) \div i
  <1>1. i \in Nat /\ i > 0 /\ m - (i + 1) \in Nat /\ n - (i + 1) \in Nat
    BY RaceNumbers DEF Whole
  <1>2. a \in Int /\ b \in Int /\ m - (i + 1) = i * a /\ n - (i + 1) = i * b
    BY <1>1 DEF Whole
  <1> HIDE DEF a, b, i
  <1>3. i * a < i * b
    BY <1>1, <1>2
  <1>4. a + 1 <= b
    BY <1>1, <1>2, <1>3
  <1>5. i * (a + 1) <= i * b /\ i * (a + 1) = i * a + i
    BY <1>1, <1>2, <1>4
  <1>6. n - m >= i
    BY <1>1, <1>2, <1>5
  <1> QED
    BY <1>6 DEF i

LEMMA AppendedOrder == ASSUME RaceInv, RaceInv', OrderInv, NEW t \in Thread, Appended(t) PROVE OrderInv'
  <1>1. /\ pc[t] = "appended" /\ outcome = "ok" /\ next' = [next EXCEPT ![iter[t]] = Null]
        /\ \/ /\ Whole(used) /\ length' = length + PagesInitial /\ pc' = [pc EXCEPT ![t] = "pop"]
           \/ /\ ~Whole(used) /\ length' = length /\ pc' = [pc EXCEPT ![t] = "append"]
        /\ UNCHANGED <<used, mallocBy, freeBy, page, iter, tmp, blocks, calls, outcome>>
    BY DEF Appended, At, Goto, Whole, OrderInv, ExtendInv
  <1>2. /\ used \in 2..MaxPages /\ used \in Page /\ length = 0 /\ mallocBy = t
        /\ Extending(t) /\ iter[t] = used /\ next[SlabHead] \in Page /\ used # SlabHead
    <2>1. used \in 2..MaxPages /\ length = 0 /\ mallocBy = t
      BY <1>1 DEF RaceInv, RaceTypes, CallInv, MallocSteps
    <2> QED
      BY <1>1, <2>1, RaceNumbers DEF Extending, OrderInv, ExtendInv
  <1>3. /\ next'[used] = Null /\ \A p \in Page : p # used => next'[p] = next[p]
        /\ next'[SlabHead] = next[SlabHead]
        /\ \/ pc'[t] = "pop" /\ Whole(used) /\ length' = PagesInitial
           \/ pc'[t] = "append" /\ ~Whole(used) /\ length' = 0
        /\ \A u \in Thread : u # t => pc'[u] = pc[u] /\ pc[u] \notin MallocSteps
    <2>1. next'[used] = Null /\ \A p \in Page : p # used => next'[p] = next[p]
      BY <1>1, <1>2 DEF RaceInv, RaceTypes
    <2>2. \A u \in Thread : u # t => pc'[u] = pc[u] /\ pc[u] \notin MallocSteps
      BY <1>1, ByTheLocks DEF RaceInv, RaceTypes, MallocSteps
    <2>3. \/ pc'[t] = "pop" /\ Whole(used) /\ length' = PagesInitial
          \/ pc'[t] = "append" /\ ~Whole(used) /\ length' = 0
      BY <1>1, <1>2, RaceNumbers DEF RaceInv, RaceTypes
    <2> QED
      BY <1>2, <2>1, <2>2, <2>3, RaceNumbers
  <1>4. (\A u \in Thread : u # t => ~Extending(u)') /\ (Extending(t)' <=> pc'[t] = "append")
    BY <1>1, <1>2, <1>3 DEF Extending, MallocSteps
  <1>5. Thread' = Thread /\ Page' = Page
    BY DEF Page
  <1>6. ExtendInv'
    BY <1>1, <1>2, <1>3, <1>4, <1>5 DEF OrderInv, ExtendInv, Whole
  <1>7. SearchInv'
    BY <1>1, <1>2, <1>3, NoSearch DEF Searching
  <1>8. HeadInv'
    <2>1. SUFFICES ASSUME NEW u \in Thread, NEW h \in Page, AtHead(u)', next'[SlabHead] = h
                   PROVE  page'[u] < h /\ Batch(h)'
      BY <1>5 DEF HeadInv
    <2>2. AtHead(u) /\ next[SlabHead] = h
      BY <1>1, <1>3, <2>1 DEF AtHead
    <2>3. page[u] < h /\ Batch(h)
      BY <1>1, <2>2 DEF OrderInv, HeadInv
    <2>4. h \in UsedPage /\ h <= used
      <3>1. h \in Pointer
        BY <2>2, RaceNumbers DEF RaceInv, RaceTypes
      <3> QED
        BY <1>2, <3>1, RaceNumbers DEF Pointer, UsedPage
    <2>5. Left' = length'
      <3>1. pc'[t] \in MallocSteps /\ pc'[t] # "got"
        BY <1>3 DEF MallocSteps
      <3> QED
        BY <1>5, <3>1, LeftAfter
    <2>6. Left' <= used' - h + 1
      <3>1. CASE pc'[t] = "append"
        BY <1>1, <1>2, <1>3, <2>4, <2>5, <3>1
      <3>2. CASE pc'[t] = "pop"
        <4>1. Whole(used) /\ Whole(h - 1) /\ length' = PagesInitial
          BY <1>2, <1>3, <2>3, <3>2 DEF Batch
        <4>2. PICK m \in Nat : m = h - 1 /\ m < used
          BY <1>2, <2>4, RaceNumbers DEF UsedPage
        <4>3. used - m >= PagesInitial
          BY <1>2, <4>1, <4>2, WholeBatch
        <4> QED
          BY <1>1, <1>2, <2>4, <2>5, <4>1, <4>2, <4>3, RaceNumbers
      <3> QED
        BY <1>3, <3>1, <3>2
    <2>7. Row(h)'
      <3>1. ASSUME NEW p \in Page, h <= p, p < used' PROVE next'[p] = p + 1
        BY <1>1, <1>2, <1>3, <2>3, <3>1, RaceNumbers DEF Batch, Row
      <3>2. next'[used'] \notin Page
        BY <1>1, <1>3, RaceNumbers
      <3>3. ASSUME NEW p \in Page, SlabHead < p, p < h, next'[p] \in Page PROVE next'[p] <= h
        <4>1. p # used
          BY <1>2, <2>4, <3>3, RaceNumbers
        <4> QED
          BY <1>3, <2>3, <3>3, <4>1 DEF Batch, Row
      <3> QED
        BY <1>5, <3>1, <3>2, <3>3 DEF Row
    <2>8. (\A b \in blocks' : b[2] < h) /\ Whole(h - 1)'
      BY <1>1, <1>2, <2>3 DEF Batch, Whole
    <2>9. \A v \in Thread : pc'[v] # "got" /\ pc'[v] \notin {"search", "unlink"}
      BY <1>3 DEF MallocSteps
    <2> QED
      BY <1>1, <1>5, <2>3, <2>6, <2>7, <2>8, <2>9 DEF Batch
  <1> QED
    BY <1>6, <1>7, <1>8 DEF OrderInv

LEMMA RemoveTestOrder == ASSUME RaceInv, RaceInv', OrderInv, NEW t \in Thread, RemoveTest(t) PROVE OrderInv'
  <1>1. /\ pc[t] = "test" /\ outcome = "ok" /\ tmp' = [tmp EXCEPT ![t] = next[page[t]]]
        /\ \/ next[page[t]] = Null /\ pc' = [pc EXCEPT ![t] = "got"] /\ iter' = iter
           \/ pc' = [pc EXCEPT ![t] = "search"] /\ iter' = [iter EXCEPT ![t] = SlabHead]
        /\ UNCHANGED <<next, length, used, mallocBy, freeBy, page, blocks, calls, outcome>>
    BY DEF RemoveTest, At, Goto
  <1>2. /\ page[t] \in UsedPage /\ page[t] \in Page /\ page[t] <= used /\ length > 0 /\ length \in Nat
        /\ Thread' = Thread /\ Page' = Page
    <2>1. page[t] \in UsedPage /\ length > 0 /\ length \in Nat /\ used \in 2..MaxPages
      BY <1>1, RaceNumbers DEF RaceInv, CallInv, RaceTypes
    <2> QED
      BY <2>1, RaceNumbers DEF UsedPage, Page
  <1>3. /\ tmp'[t] = next[page[t]]
        /\ \/ pc'[t] = "got" /\ next[page[t]] = Null
           \/ pc'[t] = "search" /\ iter'[t] = SlabHead
        /\ \A u \in Thread : u # t => pc'[u] = pc[u] /\ iter'[u] = iter[u] /\ tmp'[u] = tmp[u] /\ pc[u] \notin MallocSteps
    BY <1>1, ByTheLocks DEF RaceInv, RaceTypes, MallocSteps
  <1>4. \A u \in Thread : Extending(u)' = Extending(u) /\ AtHead(u)' = AtHead(u)
    BY <1>1, <1>3 DEF Extending, AtHead
  <1>5. ExtendInv'
    <2>1. ~Extending(t)
      BY <1>1 DEF Extending
    <2> QED
      BY <1>1, <1>2, <1>3, <1>4, <2>1 DEF OrderInv, ExtendInv, Whole
  <1>6. HeadInv'
    <2>1. SUFFICES ASSUME NEW u \in Thread, NEW h \in Page, AtHead(u)', next'[SlabHead] = h
                   PROVE  page'[u] < h /\ Batch(h)'
      BY <1>2 DEF HeadInv
    <2>2. AtHead(u) /\ next[SlabHead] = h
      BY <1>1, <1>4, <2>1
    <2>3. page[u] < h /\ Batch(h)
      BY <1>1, <2>2 DEF OrderInv, HeadInv
    <2>4. h = page[t]
      <3>1. First(t)
        BY <1>1, <2>2 DEF OrderInv, SearchInv, Searching, Cut
      <3> QED
        BY <2>2, <3>1 DEF First
    <2>5. Left = length /\ Left' = (IF pc'[t] = "got" THEN length - 1 ELSE length)
      <3>1. Left = length
        BY <1>1, LeftBefore DEF MallocSteps
      <3>2. pc'[t] \in MallocSteps
        BY <1>3 DEF MallocSteps
      <3> QED
        BY <1>1, <1>2, <3>1, <3>2, LeftAfter
    <2>6. Row(h)'
      BY <1>1, <1>2, <2>3 DEF Batch, Row
    <2>7. \A b \in blocks' : b[2] < h
      BY <1>1, <1>2, <2>3, <2>5 DEF Batch
    <2>8. Left' <= used' - h + 1 /\ (pc'[t] = "got" => ~(Left' > 0))
      <3>1. CASE pc'[t] = "got"
        <4>1. h = used
          <5>1. ~(h < used)
            <6>1. next[h] = Null
              BY <1>3, <2>4, <3>1
            <6> QED
              BY <2>3, <6>1, RaceNumbers DEF Batch, Row
          <5> QED
            BY <1>2, <2>4, <5>1, RaceNumbers DEF RaceInv, RaceTypes
        <4>2. length <= 1
          BY <2>3, <2>5, <4>1, RaceNumbers DEF Batch
        <4> QED
          BY <1>1, <1>2, <2>5, <3>1, <4>1, <4>2, RaceNumbers
      <3>2. CASE pc'[t] # "got"
        BY <1>1, <1>2, <2>3, <2>5, <3>2 DEF Batch
      <3> QED
        BY <3>1, <3>2
    <2>9. ASSUME NEW v \in Thread
          PROVE  /\ pc'[v] = "got" /\ Left' > 0 => page'[v] < h
                 /\ pc'[v] \in {"search", "unlink"} => tmp'[v] = next'[h]
                 /\ Extending(v)' => Whole(h - 1)'
      BY <1>1, <1>3, <1>4, <2>3, <2>4, <2>8 DEF Batch, MallocSteps, Whole
    <2> QED
      BY <1>1, <1>2, <2>3, <2>6, <2>7, <2>8, <2>9 DEF Batch
  <1>7. SearchInv'
    <2>1. ASSUME NEW u \in Thread, u # t PROVE ~Searching(u)'
      BY <1>3, <2>1 DEF Searching, MallocSteps
    <2>2. ASSUME Searching(t)', First(t) PROVE First(t)'
      BY <1>1, <1>3, <2>2 DEF First, Searching
    <2>3. ASSUME Searching(t)', NEW a \in Page, NEW G \in SUBSET Page, Cut(t, a, G) PROVE Cut(t, a, G)'
      <3>1. pc'[t] = "search" /\ iter'[t] = SlabHead /\ tmp'[t] = next[a]
        BY <1>3, <2>3 DEF Searching, Cut
      <3>2. SlabHead < a
        BY <2>3 DEF Cut, Island
      <3>3. Island(a, G)'
        <4>1. \A p \in Page : Settled(p)' => Settled(p)
          BY <1>1 DEF Settled, RaceInv, RaceTypes
        <4>2. ASSUME NEW u \in Thread PROVE /\ pc'[u] \in {"walk", "link"} => iter'[u] \in G
                                            /\ pc'[u] = "clear" => page'[u] \in G
          BY <1>1, <1>3, <2>3, <3>1 DEF Cut, Island
        <4>3. SlabHead \in G /\ G \subseteq Page' /\ \A p \in G : p < a
          BY <1>2, <2>3 DEF Cut, Island
        <4>4. ASSUME NEW p \in G, Settled(p)', next'[p] \in Page' PROVE next'[p] \in G
          BY <1>1, <1>2, <2>3, <4>1, <4>4 DEF Cut, Island
        <4> QED
          BY <4>2, <4>3, <4>4 DEF Island
      <3>4. Row(a)'
        BY <1>1, <1>2, <2>3 DEF Cut, Row
      <3>5. ASSUME NEW u \in Thread PROVE ~AtHead(u)' /\ (pc'[u] \in FreeSteps => page'[u] < a)
        BY <1>1, <1>3, <1>4, <2>3, <3>1 DEF Cut, FreeSteps
      <3> QED
        BY <1>1, <1>2, <2>3, <3>1, <3>2, <3>3, <3>4, <3>5 DEF Cut
    <2>4. Searching(t)
      BY <1>1 DEF Searching
    <2> QED
      BY <1>1, <1>2, <2>1, <2>2, <2>3, <2>4 DEF OrderInv, SearchInv
  <1> QED
    BY <1>5, <1>6, <1>7 DEF OrderInv

LEMMA SearchOrder == ASSUME RaceInv, RaceInv', OrderInv, NEW t \in Thread, Search(t) PROVE OrderInv'
  <1>1. /\ pc[t] = "search" /\ outcome = "ok"
        /\ \/ /\ next[iter[t]] = page[t]
              /\ pc' = [pc EXCEPT ![t] = "unlink"] /\ UNCHANGED <<iter, outcome>>
           \/ outcome' = "undefined" /\ UNCHANGED <<pc, iter>>
           \/ /\ next[iter[t]] \in Page /\ next[iter[t]] # page[t]
              /\ iter' = [iter EXCEPT ![t] = next[iter[t]]] /\ UNCHANGED <<pc, outcome>>
        /\ UNCHANGED <<next, length, used, mallocBy, freeBy, page, tmp, blocks, calls>>
    BY DEF Search, At, Goto
  <1>2. /\ pc'[t] \in {"search", "unlink"} /\ Thread' = Thread /\ Page' = Page
        /\ \A u \in Thread : u # t => pc'[u] = pc[u] /\ iter'[u] = iter[u] /\ pc[u] \notin MallocSteps
    BY <1>1, ByTheLocks DEF RaceInv, RaceTypes, MallocSteps, Page
  <1>3. \A u \in Thread : Extending(u)' = Extending(u) /\ AtHead(u)' = AtHead(u)
    BY <1>1, <1>2 DEF Extending, AtHead
  <1>4. ExtendInv'
    <2>1. ~Extending(t)
      BY <1>1 DEF Extending
    <2> QED
      BY <1>1, <1>2, <1>3, <2>1 DEF OrderInv, ExtendInv, Whole
  <1>5. HeadInv'
    <2>1. Left' = Left
      <3>1. pc[t] \in MallocSteps /\ pc[t] # "got" /\ pc'[t] \in MallocSteps /\ pc'[t] # "got"
        BY <1>1, <1>2 DEF MallocSteps
      <3> QED
        BY <1>1, <1>2, <3>1, LeftBefore, LeftAfter
    <2>2. ASSUME NEW h \in Page, Batch(h) PROVE Batch(h)'
      <3>1. Row(h)'
        BY <1>1, <1>2, <2>2 DEF Batch, Row
      <3>2. ASSUME NEW u \in Thread
            PROVE  /\ pc'[u] = "got" => pc[u] = "got"
                   /\ pc'[u] \in {"search", "unlink"} => pc[u] \in {"search", "unlink"}
        BY <1>1, <1>2
      <3> QED
        BY <1>1, <1>2, <1>3, <2>1, <2>2, <3>1, <3>2 DEF Batch, Whole
    <2> QED
      BY <1>1, <1>2, <1>3, <2>2 DEF OrderInv, HeadInv
  <1>6. SearchInv'
    <2>1. ASSUME NEW u \in Thread, u # t PROVE ~Searching(u)'
      BY <1>2, <2>1 DEF Searching, MallocSteps
    <2>2. ASSUME outcome' = "ok", First(t) PROVE First(t)'
      BY <1>1, <1>2, <2>2 DEF First
    <2>3. ASSUME outcome' = "ok", NEW a \in Page, NEW G \in SUBSET Page, Cut(t, a, G) PROVE Cut(t, a, G)'
      <3>1. iter'[t] < a
        <4>1. iter[t] < a /\ page[t] = a
          BY <1>1, <2>3 DEF Cut
        <4>2. CASE iter' = iter
          BY <4>1, <4>2
        <4>3. CASE next[iter[t]] \in Page /\ next[iter[t]] # page[t] /\ iter' = [iter EXCEPT ![t] = next[iter[t]]]
          <5>1. iter'[t] = next[iter[t]] /\ iter[t] \in Page
            <6>1. iter[t] \in 0..used /\ iter[t] > 0 /\ used \in 2..MaxPages
              BY <1>1 DEF RaceInv, RaceTypes, CallInv
            <6>2. iter[t] \in Page
              BY <6>1, RaceNumbers
            <6> QED
              BY <4>3, <6>2 DEF RaceInv, RaceTypes
          <5>2. CASE iter[t] = SlabHead
            BY <2>3, <5>1, <5>2 DEF Cut
          <5>3. CASE iter[t] # SlabHead
            <6>1. SlabHead < iter[t]
              BY <5>1, <5>3, RaceNumbers
            <6>2. next[iter[t]] <= a
              BY <2>3, <4>1, <4>3, <5>1, <6>1 DEF Cut, Row
            <6>3. next[iter[t]] \in Nat /\ a \in Nat
              BY <4>3, RaceNumbers
            <6> QED
              BY <4>1, <4>3, <5>1, <6>2, <6>3
          <5> QED
            BY <5>2, <5>3
        <4> QED
          BY <1>1, <2>3, <4>2, <4>3
      <3>2. tmp'[t] = next[a]
        BY <1>1, <2>3 DEF Cut
      <3>3. Island(a, G)'
        <4>1. \A p \in Page : Settled(p)' => Settled(p)
          BY <1>1 DEF Settled, RaceInv, RaceTypes
        <4>2. ASSUME NEW u \in Thread PROVE /\ pc'[u] \in {"walk", "link"} => iter'[u] \in G
                                            /\ pc'[u] = "clear" => page'[u] \in G
          BY <1>1, <1>2, <2>3 DEF Cut, Island
        <4>3. SlabHead \in G /\ G \subseteq Page' /\ \A p \in G : p < a
          BY <1>2, <2>3 DEF Cut, Island
        <4>4. ASSUME NEW p \in G, Settled(p)', next'[p] \in Page' PROVE next'[p] \in G
          BY <1>1, <1>2, <2>3, <4>1, <4>4 DEF Cut, Island
        <4> QED
          BY <4>2, <4>3, <4>4 DEF Island
      <3>4. Row(a)'
        BY <1>1, <1>2, <2>3 DEF Cut, Row
      <3>5. ASSUME NEW u \in Thread PROVE ~AtHead(u)' /\ (pc'[u] \in FreeSteps => page'[u] < a)
        BY <1>1, <1>2, <1>3, <2>3 DEF Cut, FreeSteps
      <3> QED
        BY <1>1, <1>2, <2>3, <3>1, <3>2, <3>3, <3>4, <3>5 DEF Cut
    <2>4. Searching(t)
      BY <1>1 DEF Searching
    <2> QED
      BY <1>1, <1>2, <2>1, <2>2, <2>3, <2>4 DEF OrderInv, SearchInv
  <1> QED
    BY <1>4, <1>5, <1>6 DEF OrderInv

LEMMA UnlinkOrder == ASSUME RaceInv, RaceInv', OrderInv, NEW t \in Thread, Unlink(t) PROVE OrderInv'
  <1>1. /\ pc[t] = "unlink" /\ outcome = "ok" /\ pc' = [pc EXCEPT ![t] = "got"]
        /\ \E n \in {tmp[t], next[page[t]]} : next' = [next EXCEPT ![iter[t]] = n]
        /\ UNCHANGED <<length, used, mallocBy, freeBy, page, iter, tmp, blocks, calls, outcome>>
    BY DEF Unlink, At, Goto
  <1>2. /\ page[t] \in UsedPage /\ page[t] \in Page /\ page[t] <= used /\ iter[t] \in Page /\ used \in 2..MaxPages
        /\ length > 0 /\ length \in Nat /\ mallocBy = t /\ Thread' = Thread /\ Page' = Page
    <2>1. /\ page[t] \in UsedPage /\ length > 0 /\ length \in Nat /\ used \in 2..MaxPages /\ mallocBy = t
          /\ iter[t] \in 0..used /\ iter[t] > 0
      BY <1>1, RaceNumbers DEF RaceInv, CallInv, RaceTypes, MallocSteps
    <2> QED
      BY <2>1, RaceNumbers DEF UsedPage, Page
  <1>3. PICK n \in {tmp[t], next[page[t]]} : next' = [next EXCEPT ![iter[t]] = n]
    BY <1>1
  <1>4. /\ next'[iter[t]] = n /\ \A p \in Page : p # iter[t] => next'[p] = next[p]
        /\ pc'[t] = "got" /\ \A u \in Thread : u # t => pc'[u] = pc[u] /\ pc[u] \notin MallocSteps
    BY <1>1, <1>2, <1>3, ByTheLocks DEF RaceInv, RaceTypes, MallocSteps
  <1>5. \A u \in Thread : ~Extending(u) /\ ~Extending(u)' /\ AtHead(u)' = AtHead(u)
    BY <1>1, <1>4 DEF Extending, AtHead, MallocSteps
  <1>6. ExtendInv'
    BY <1>1, <1>2, <1>5 DEF OrderInv, ExtendInv, Whole
  <1>7. SearchInv'
    BY <1>1, <1>2, <1>4, NoSearch DEF Searching
  <1>8. HeadInv'
    <2>1. SUFFICES ASSUME NEW u \in Thread, NEW h \in Page, AtHead(u)', next'[SlabHead] = h
                   PROVE  page'[u] < h /\ Batch(h)'
      BY <1>2 DEF HeadInv
    <2>2. PICK g \in Page : g = page[t]
      BY <1>2
    <2>3. First(t) /\ iter[t] = SlabHead /\ next[SlabHead] = g /\ h = n
      <3>1. First(t)
        BY <1>1, <1>5, <2>1 DEF OrderInv, SearchInv, Searching, Cut
      <3> QED
        BY <1>1, <1>4, <2>1, <2>2, <3>1 DEF First
    <2>4. page[u] < g /\ Batch(g)
      BY <1>1, <1>5, <2>1, <2>3 DEF OrderInv, HeadInv
    <2>5. n = next[g]
      BY <1>1, <1>3, <2>2, <2>4 DEF Batch
    <2>6. g < used /\ h = g + 1
      <3>1. g # used
        BY <2>3, <2>4, <2>5 DEF Batch, Row
      <3>2. g < used /\ g <= g
        BY <1>2, <2>2, <3>1, RaceNumbers
      <3> QED
        BY <2>3, <2>4, <2>5, <3>2 DEF Batch, Row
    <2>7. Left = length /\ Left' = length - 1
      <3>1. pc[t] \in MallocSteps /\ pc[t] # "got" /\ pc'[t] \in MallocSteps
        BY <1>1, <1>4 DEF MallocSteps
      <3> QED
        BY <1>1, <1>2, <1>4, <3>1, LeftBefore, LeftAfter
    <2>8. g \in Nat /\ h \in Nat /\ SlabHead < g
      <3>1. g \in 2..used
        BY <1>2, <2>2 DEF UsedPage
      <3> QED
        BY <1>2, <2>6, <3>1, RaceNumbers
    <2>9. page'[u] < h
      <3>1. page[u] \in Int
        BY <1>2, RaceNumbers DEF RaceInv, RaceTypes, Pointer, UsedPage
      <3> QED
        BY <1>1, <2>4, <2>6, <2>8, <3>1
    <2>10. Left' <= used' - h + 1
      BY <1>1, <1>2, <2>4, <2>6, <2>7, <2>8 DEF Batch
    <2>11. \A b \in blocks' : b[2] < h
      <3>1. \A b \in blocks : b[2] < g
        BY <1>2, <2>4, <2>7 DEF Batch
      <3>2. \A b \in blocks : b[2] \in Nat
        BY <1>2 DEF RaceInv, RaceTypes, UsedPage
      <3> QED
        BY <1>1, <2>6, <2>8, <3>1, <3>2
    <2>12. Row(h)'
      <3>1. ASSUME NEW p \in Page, h <= p, p < used' PROVE next'[p] = p + 1
        <4>1. g <= p /\ p # iter[t] /\ p < used
          BY <1>1, <2>3, <2>6, <2>8, <3>1, RaceNumbers
        <4> QED
          BY <1>4, <2>4, <3>1, <4>1 DEF Batch, Row
      <3>2. next'[used'] \notin Page
        <4>1. used # iter[t] /\ used \in Page
          BY <1>2, <2>3, RaceNumbers
        <4> QED
          BY <1>1, <1>2, <1>4, <2>4, <4>1 DEF Batch, Row
      <3>3. ASSUME NEW p \in Page, SlabHead < p, p < h, next'[p] \in Page PROVE next'[p] <= h
        <4>1. next'[p] = next[p] /\ p \in Nat /\ next[p] \in Nat
          BY <1>2, <1>4, <2>3, <3>3, RaceNumbers
        <4>2. CASE p = g
          BY <2>3, <2>5, <2>6, <2>8, <4>1, <4>2
        <4>3. CASE p # g
          <5>1. p < g
            BY <2>6, <2>8, <3>3, <4>1, <4>3
          <5>2. next[p] <= g
            BY <2>4, <3>3, <4>1, <5>1 DEF Batch, Row
          <5> QED
            BY <2>6, <2>8, <4>1, <5>2
        <4> QED
          BY <4>2, <4>3
      <3> QED
        BY <1>2, <3>1, <3>2, <3>3 DEF Row
    <2>13. ASSUME NEW v \in Thread
           PROVE  /\ pc'[v] = "got" /\ Left' > 0 => page'[v] < h
                  /\ pc'[v] \notin {"search", "unlink"} /\ ~Extending(v)'
      <3>1. g < h
        BY <2>6, <2>8
      <3> QED
        BY <1>1, <1>4, <1>5, <2>2, <3>1 DEF MallocSteps
    <2> QED
      BY <1>2, <2>9, <2>10, <2>11, <2>12, <2>13 DEF Batch
  <1> QED
    BY <1>6, <1>7, <1>8 DEF OrderInv

LEMMA GotOrder == ASSUME RaceInv, RaceInv', OrderInv, NEW t \in Thread, Got(t) PROVE OrderInv'
  <1>1. /\ pc[t] = "got" /\ outcome = "ok" /\ length' = length - 1
        /\ blocks' = blocks \cup {<<calls, page[t]>>} /\ mallocBy' = Nobody
        /\ pc' = [pc EXCEPT ![t] = "idle"] /\ page' = [page EXCEPT ![t] = Null]
        /\ iter' = [iter EXCEPT ![t] = Null] /\ tmp' = [tmp EXCEPT ![t] = Null]
        /\ UNCHANGED <<next, used, freeBy, calls, outcome>>
    BY DEF Got, At, Goto, Return
  <1>2. /\ pc'[t] = "idle" /\ Thread' = Thread /\ Page' = Page /\ length \in Nat /\ length > 0
        /\ \A u \in Thread : u # t => /\ pc'[u] = pc[u] /\ iter'[u] = iter[u] /\ page'[u] = page[u]
                                      /\ tmp'[u] = tmp[u] /\ pc[u] \notin MallocSteps
    BY <1>1, ByTheLocks, RaceNumbers DEF RaceInv, RaceTypes, CallInv, MallocSteps, Page
  <1>3. \A u \in Thread : ~Extending(u) /\ ~Extending(u)' /\ AtHead(u)' = AtHead(u)
    BY <1>1, <1>2 DEF Extending, AtHead, MallocSteps
  <1>4. ExtendInv'
    BY <1>1, <1>2, <1>3 DEF OrderInv, ExtendInv, Whole
  <1>5. SearchInv'
    BY <1>1, <1>2, NoSearch DEF Searching
  <1>6. HeadInv'
    <2>1. SUFFICES ASSUME NEW u \in Thread, NEW h \in Page, AtHead(u)', next'[SlabHead] = h
                   PROVE  page'[u] < h /\ Batch(h)'
      BY <1>2 DEF HeadInv
    <2>2. u # t /\ page'[u] = page[u] /\ page[u] < h /\ Batch(h)
      BY <1>1, <1>2, <1>3, <2>1 DEF OrderInv, HeadInv, AtHead
    <2>3. Left = length - 1 /\ Left' = length - 1
      <3>1. \A v \in Thread : pc'[v] # "got"
        BY <1>2 DEF MallocSteps
      <3> QED
        BY <1>1, <1>2, <3>1 DEF Left
    <2>4. Row(h)'
      BY <1>1, <1>2, <2>2 DEF Batch, Row
    <2>5. Left' = 0 \/ \A b \in blocks' : b[2] < h
      <3>1. CASE Left > 0
        <4>1. page[t] < h /\ \A b \in blocks : b[2] < h
          BY <1>1, <2>2, <3>1 DEF Batch
        <4> QED
          BY <1>1, <4>1
      <3>2. CASE ~(Left > 0)
        BY <1>2, <2>3, <3>2
      <3> QED
        BY <3>1, <3>2
    <2>6. \A v \in Thread : pc'[v] # "got" /\ pc'[v] \notin {"search", "unlink"}
      BY <1>2 DEF MallocSteps
    <2> QED
      BY <1>1, <1>2, <1>3, <2>2, <2>3, <2>4, <2>5, <2>6 DEF Batch
  <1> QED
    BY <1>4, <1>5, <1>6 DEF OrderInv

LEMMA FreeOrder ==
  ASSUME RaceInv, RaceInv', OrderInv, NEW t \in Thread, NEW b \in blocks, Free(t, b)
  PROVE  OrderInv'
  <1>1. /\ pc[t] = "idle" /\ outcome = "ok" /\ freeBy = Nobody /\ freeBy' = t /\ blocks' = blocks \ {b}
        /\ page' = [page EXCEPT ![t] = b[2]] /\ iter' = [iter EXCEPT ![t] = SlabHead]
        /\ pc' = [pc EXCEPT ![t] = "walk"]
        /\ UNCHANGED <<next, length, used, mallocBy, tmp, calls, outcome>>
    BY DEF Free, At, Goto
  <1>2. /\ pc'[t] = "walk" /\ page'[t] = b[2] /\ iter'[t] = SlabHead /\ Thread' = Thread /\ Page' = Page
        /\ \A u \in Thread : u # t => pc'[u] = pc[u] /\ iter'[u] = iter[u] /\ page'[u] = page[u] /\ tmp'[u] = tmp[u]
    BY <1>1 DEF RaceInv, RaceTypes, Page
  <1>3. \A u \in Thread : Extending(u)' = Extending(u)
    BY <1>1, <1>2 DEF Extending
  <1>4. ExtendInv'
    <2>1. ~Extending(t)
      BY <1>1 DEF Extending
    <2> QED
      BY <1>1, <1>2, <1>3, <2>1 DEF OrderInv, ExtendInv, Whole
  <1>5. HeadInv' /\ \A u \in Thread : ~AtHead(u)'
    <2>1. ~AtHead(t)'
      BY <1>2 DEF AtHead
    <2> QED
      BY <1>1, <2>1, NoneAtHead
  <1>6. SearchInv'
    <2>1. SUFFICES ASSUME NEW u \in Thread, Searching(u)'
                   PROVE  First(u)' \/ \E a \in Page, G \in SUBSET Page : Cut(u, a, G)'
      BY <1>2 DEF SearchInv
    <2>2. u # t /\ Searching(u) /\ pc'[u] = pc[u]
      BY <1>2, <2>1 DEF Searching
    <2>3. ASSUME First(u) PROVE First(u)'
      BY <1>1, <1>2, <2>2, <2>3 DEF First
    <2>4. ASSUME NEW a \in Page, NEW G \in SUBSET Page, Cut(u, a, G) PROVE Cut(u, a, G)'
      <3>1. b[2] < a /\ SlabHead \in G
        BY <2>4 DEF Cut, Island
      <3>2. Island(a, G)'
        <4>1. \A p \in Page : Settled(p)' => Settled(p)
          BY <1>1 DEF Settled, RaceInv, RaceTypes
        <4>2. ASSUME NEW v \in Thread PROVE /\ pc'[v] \in {"walk", "link"} => iter'[v] \in G
                                            /\ pc'[v] = "clear" => page'[v] \in G
          BY <1>1, <1>2, <2>4, <3>1 DEF Cut, Island
        <4>3. SlabHead \in G /\ G \subseteq Page' /\ \A p \in G : p < a
          BY <1>2, <2>4 DEF Cut, Island
        <4>4. ASSUME NEW p \in G, Settled(p)', next'[p] \in Page' PROVE next'[p] \in G
          BY <1>1, <1>2, <2>4, <4>1, <4>4 DEF Cut, Island
        <4> QED
          BY <4>2, <4>3, <4>4 DEF Island
      <3>3. Row(a)'
        BY <1>1, <1>2, <2>4 DEF Cut, Row
      <3>4. ASSUME NEW v \in Thread PROVE ~AtHead(v)' /\ (pc'[v] \in FreeSteps => page'[v] < a)
        BY <1>1, <1>2, <1>5, <2>4, <3>1 DEF Cut, FreeSteps
      <3> QED
        BY <1>1, <1>2, <2>2, <2>4, <3>2, <3>3, <3>4 DEF Cut
    <2> QED
      BY <1>1, <2>2, <2>3, <2>4 DEF OrderInv, SearchInv
  <1> QED
    BY <1>4, <1>5, <1>6 DEF OrderInv

LEMMA WalkOrder == ASSUME RaceInv, RaceInv', OrderInv, NEW t \in Thread, Walk(t) PROVE OrderInv'
  <1>1. /\ pc[t] = "walk" /\ outcome = "ok"
        /\ \/ next[iter[t]] = Null /\ pc' = [pc EXCEPT ![t] = "link"] /\ UNCHANGED <<iter, outcome>>
           \/ outcome' = "undefined" /\ UNCHANGED <<pc, iter>>
           \/ /\ next[iter[t]] # Null /\ next[iter[t]] # Wild
              /\ iter' = [iter EXCEPT ![t] = next[iter[t]]] /\ UNCHANGED <<pc, outcome>>
        /\ UNCHANGED <<next, length, used, mallocBy, freeBy, page, tmp, blocks, calls>>
    BY DEF Walk, At, Goto
  <1>2. /\ pc'[t] \in {"walk", "link"} /\ iter[t] \in Page /\ next[iter[t]] \in Pointer /\ Thread' = Thread /\ Page' = Page
        /\ \A u \in Thread : u # t => pc'[u] = pc[u] /\ iter'[u] = iter[u] /\ pc[u] \notin FreeSteps
    <2>1. iter[t] \in 0..used /\ iter[t] > 0 /\ used \in 2..MaxPages
      BY <1>1 DEF RaceInv, RaceTypes, CallInv
    <2>2. iter[t] \in Page
      BY <2>1, RaceNumbers
    <2> QED
      BY <1>1, <2>2, ByTheLocks DEF RaceInv, RaceTypes, FreeSteps, Page
  <1>3. \A u \in Thread : Extending(u)' = Extending(u)
    BY <1>1, <1>2 DEF Extending
  <1>4. ExtendInv'
    <2>1. ~Extending(t)
      BY <1>1 DEF Extending
    <2> QED
      BY <1>1, <1>2, <1>3, <2>1 DEF OrderInv, ExtendInv, Whole
  <1>5. HeadInv' /\ (next[SlabHead] \in Page /\ outcome' = "ok" => \A u \in Thread : ~AtHead(u)')
    <2>1. ASSUME NEW u \in Thread, AtHead(u)', next[SlabHead] \in Page, outcome' = "ok" PROVE FALSE
      <3>1. u = t /\ pc'[t] = "link" /\ iter'[t] = SlabHead
        BY <1>2, <2>1 DEF AtHead, FreeSteps
      <3>2. iter'[t] = iter[t] /\ next[iter[t]] = Null
        BY <1>1, <2>1, <3>1 DEF RaceInv, RaceTypes
      <3> QED
        BY <2>1, <3>1, <3>2, RaceNumbers
    <2> QED
      BY <1>1, <1>2, <2>1 DEF HeadInv
  <1>6. SearchInv'
    <2>1. SUFFICES ASSUME NEW u \in Thread, Searching(u)', outcome' = "ok"
                   PROVE  First(u)' \/ \E a \in Page, G \in SUBSET Page : Cut(u, a, G)'
      BY <1>2 DEF SearchInv
    <2>2. u # t /\ Searching(u) /\ pc'[u] = pc[u]
      BY <1>2, <2>1 DEF Searching
    <2>3. ASSUME First(u) PROVE First(u)'
      BY <1>1, <1>2, <2>2, <2>3 DEF First
    <2>4. ASSUME NEW a \in Page, NEW G \in SUBSET Page, Cut(u, a, G) PROVE Cut(u, a, G)'
      <3>1. \A p \in Page : Settled(p)
        BY <1>1, <1>2 DEF Settled, FreeSteps
      <3>2. iter[t] \in G
        BY <1>1, <2>4 DEF Cut, Island
      <3>3. iter'[t] \in G
        <4>1. CASE iter' = iter
          BY <3>2, <4>1
        <4>2. CASE next[iter[t]] # Null /\ next[iter[t]] # Wild /\ iter' = [iter EXCEPT ![t] = next[iter[t]]]
          <5>1. next[iter[t]] \in Page
            <6>1. next[iter[t]] \in 2..used /\ used \in 2..MaxPages
              BY <1>2, <4>2 DEF Pointer, UsedPage, RaceInv, RaceTypes
            <6> QED
              BY <6>1, RaceNumbers
          <5>2. next[iter[t]] \in G
            BY <2>4, <3>1, <3>2, <5>1 DEF Cut, Island
          <5>3. iter'[t] = next[iter[t]]
            BY <4>2 DEF RaceInv, RaceTypes
          <5> QED
            BY <5>2, <5>3
        <4> QED
          BY <1>1, <2>1, <4>1, <4>2
      <3>4. Island(a, G)'
        <4>2. ASSUME NEW v \in Thread PROVE /\ pc'[v] \in {"walk", "link"} => iter'[v] \in G
                                            /\ pc'[v] = "clear" => page'[v] \in G
          BY <1>1, <1>2, <3>3 DEF FreeSteps
        <4>3. SlabHead \in G /\ G \subseteq Page' /\ \A p \in G : p < a
          BY <1>2, <2>4 DEF Cut, Island
        <4>4. ASSUME NEW p \in G, Settled(p)', next'[p] \in Page' PROVE next'[p] \in G
          BY <1>1, <1>2, <2>4, <3>1, <4>4 DEF Cut, Island
        <4> QED
          BY <4>2, <4>3, <4>4 DEF Island
      <3>5. Row(a)'
        BY <1>1, <1>2, <2>4 DEF Cut, Row
      <3>6. ASSUME NEW v \in Thread PROVE ~AtHead(v)' /\ (pc'[v] \in FreeSteps => page'[v] < a)
        <4>1. ~AtHead(v)'
          BY <1>5, <2>1, <2>4 DEF Cut
        <4>2. pc'[v] \in FreeSteps => page'[v] < a
          BY <1>1, <1>2, <2>4 DEF Cut, FreeSteps
        <4> QED
          BY <4>1, <4>2
      <3> QED
        BY <1>1, <1>2, <2>2, <2>4, <3>4, <3>5, <3>6 DEF Cut
    <2>5. outcome = "ok"
      BY <1>1
    <2> QED
      BY <2>2, <2>3, <2>4, <2>5 DEF OrderInv, SearchInv
  <1> QED
    BY <1>4, <1>5, <1>6 DEF OrderInv

\* A page before a row is given another successor that is before the row.
LEMMA RowKept ==
  ASSUME RaceInv, NEW a \in Page, Row(a), a <= used, used' = used, NEW i \in Page, i < a,
         \A p \in Page : p # i => next'[p] = next[p],
         next'[i] \in Page => next'[i] < a
  PROVE  Row(a)' /\ next'[a] = next[a]
  <1>1. used \in Page /\ used \in Nat /\ Page' = Page /\ \A p \in Page : p \in Nat
    BY RaceNumbers DEF RaceInv, RaceTypes, Page
  <1>2. \A p \in Page : a <= p => p # i
    BY <1>1
  <1>3. ASSUME NEW p \in Page, a <= p, p < used' PROVE next'[p] = p + 1
    BY <1>2, <1>3 DEF Row
  <1>4. next'[used'] \notin Page
    BY <1>1, <1>2 DEF Row
  <1>5. ASSUME NEW p \in Page, SlabHead < p, p < a, next'[p] \in Page PROVE next'[p] <= a
    <2>1. CASE p = i
      <3>1. next'[p] < a /\ next'[p] \in Nat /\ a \in Nat
        BY <1>1, <1>5, <2>1
      <3> QED
        BY <3>1
    <2>2. CASE p # i
      BY <1>5, <2>2 DEF Row
    <2> QED
      BY <2>1, <2>2
  <1>6. next'[a] = next[a]
    BY <1>1, <1>2
  <1> QED
    BY <1>1, <1>3, <1>4, <1>5, <1>6 DEF Row

LEMMA LinkOrder == ASSUME RaceInv, RaceInv', OrderInv, NEW t \in Thread, Link(t) PROVE OrderInv'
  <1>1. /\ pc[t] = "link" /\ outcome = "ok"
        /\ next' = [next EXCEPT ![iter[t]] = page[t]] /\ pc' = [pc EXCEPT ![t] = "clear"]
        /\ UNCHANGED <<length, used, mallocBy, freeBy, page, iter, tmp, blocks, calls, outcome>>
    BY DEF Link, At, Goto
  <1>2. /\ iter[t] \in Page /\ page[t] \in UsedPage /\ page[t] \in Page /\ page[t] # SlabHead /\ used \in 2..MaxPages
        /\ freeBy = t /\ Thread' = Thread /\ Page' = Page
    <2>1. iter[t] \in 0..used /\ iter[t] > 0 /\ used \in 2..MaxPages /\ page[t] \in UsedPage /\ freeBy = t
      BY <1>1 DEF RaceInv, RaceTypes, CallInv, FreeSteps
    <2> QED
      BY <2>1, RaceNumbers DEF UsedPage, Page
  <1>3. /\ next'[iter[t]] = page[t] /\ \A p \in Page : p # iter[t] => next'[p] = next[p]
        /\ pc'[t] = "clear" /\ \A u \in Thread : u # t => pc'[u] = pc[u] /\ pc[u] \notin FreeSteps
    BY <1>1, <1>2, ByTheLocks DEF RaceInv, RaceTypes, FreeSteps
  <1>4. \A u \in Thread : Extending(u)' = Extending(u)
    BY <1>1, <1>3 DEF Extending
  <1>5. ExtendInv'
    <2>1. next[SlabHead] \in Page => next'[SlabHead] \in Page
      BY <1>2, <1>3, RaceNumbers
    <2> QED
      BY <1>1, <1>2, <1>4, <2>1 DEF OrderInv, ExtendInv, Whole
  <1>6. HeadInv' /\ \A u \in Thread : ~AtHead(u)'
    <2>1. ~AtHead(t)'
      BY <1>3 DEF AtHead
    <2> QED
      BY <1>1, <1>2, <2>1, NoneAtHead
  <1>7. SearchInv'
    <2>1. SUFFICES ASSUME NEW u \in Thread, Searching(u)'
                   PROVE  First(u)' \/ \E a \in Page, G \in SUBSET Page : Cut(u, a, G)'
      BY <1>2 DEF SearchInv
    <2>2. u # t /\ Searching(u) /\ pc'[u] = pc[u]
      BY <1>3, <2>1 DEF Searching
    <2>3. page[u] \in UsedPage /\ page[u] <= used /\ page[u] \in Page /\ length > 0
      <3>1. page[u] \in UsedPage /\ length > 0
        BY <1>1, <2>2 DEF Searching, RaceInv, CallInv
      <3> QED
        BY <1>2, <3>1, RaceNumbers DEF UsedPage
    <2>4. \A p \in Page : p # page[t] => Settled(p)' /\ Settled(p)
      BY <1>1, <1>2, <1>3 DEF Settled, FreeSteps
    <2>0. PICK f \in Page : f = page[t] /\ f = page'[t] /\ f # SlabHead
      BY <1>1, <1>2
    <2>5. CASE First(u) /\ iter[t] # SlabHead
      BY <1>1, <1>3, <2>2, <2>5, RaceNumbers DEF First
    <2>6. CASE First(u) /\ iter[t] = SlabHead
      <3>1. PICK a \in Page : a = page[u]
        BY <2>3
      <3>2. AtHead(t) /\ next[SlabHead] = a
        BY <1>1, <2>6, <3>1 DEF AtHead, First
      <3>3. page[t] < a /\ Batch(a)
        BY <1>1, <3>2 DEF OrderInv, HeadInv
      <3>4. \A b \in blocks : b[2] < a
        <4>1. ~(\A v \in Thread : ~Extending(v)) => FALSE
          <5>1. ASSUME NEW v \in Thread, Extending(v) PROVE FALSE
            <6>1. v # u /\ pc[v] \in MallocSteps /\ pc[u] \in MallocSteps
              BY <2>2, <5>1 DEF Extending, Searching, MallocSteps
            <6> QED
              BY <6>1, ByTheLocks
          <5> QED
            BY <5>1
        <4>2. Left = length
          <5>1. pc[u] \in MallocSteps /\ pc[u] # "got"
            BY <2>2 DEF Searching, MallocSteps
          <5> QED
            BY <5>1, LeftBefore
        <4>3. Left # 0
          BY <2>3, <4>2
        <4> QED
          BY <3>3, <4>3 DEF Batch
      <3>0. PICK G \in SUBSET Page : G = {SlabHead, f}
        BY RaceNumbers
      <3>5. SlabHead < a /\ a <= used
        <4>1. a \in 2..used
          BY <2>3, <3>1 DEF UsedPage
        <4> QED
          BY <1>2, <4>1, RaceNumbers
      <3>6. Row(a)' /\ next'[a] = next[a]
        <4>1. next'[SlabHead] = page[t] /\ \A p \in Page : p # SlabHead => next'[p] = next[p]
          BY <1>3, <2>6
        <4>2. used' = used /\ SlabHead \in Page /\ Row(a)
          BY <1>1, <3>3, RaceNumbers DEF Batch
        <4> QED
          BY <3>3, <3>5, <4>1, <4>2, RowKept
      <3>7. Island(a, G)'
        <4>2. ASSUME NEW v \in Thread PROVE /\ pc'[v] \in {"walk", "link"} => iter'[v] \in G
                                            /\ pc'[v] = "clear" => page'[v] \in G
          BY <1>1, <1>3, <2>0, <3>0 DEF FreeSteps
        <4>3. SlabHead \in G /\ G \subseteq Page' /\ \A p \in G : p < a
          BY <1>2, <2>0, <3>0, <3>3, <3>5
        <4>4. ASSUME NEW p \in G, Settled(p)', next'[p] \in Page' PROVE next'[p] \in G
          <5>1. ~Settled(f)'
            BY <1>3, <2>0 DEF Settled
          <5>2. p = SlabHead
            BY <3>0, <4>4, <5>1
          <5> QED
            BY <1>3, <2>0, <2>6, <3>0, <5>2
        <4> QED
          BY <4>2, <4>3, <4>4 DEF Island
      <3>8. ASSUME NEW v \in Thread PROVE ~AtHead(v)' /\ (pc'[v] \in FreeSteps => page'[v] < a)
        BY <1>1, <1>3, <1>6, <3>3 DEF FreeSteps
      <3>9. pc[u] # "test" => iter[u] < a /\ tmp[u] = next[a]
        BY <2>2, <2>6, <3>3, <3>5 DEF First, Batch, Searching
      <3>10. next'[SlabHead] \in Page /\ next'[SlabHead] < a
        BY <1>2, <1>3, <2>6, <3>3
      <3>11. Cut(u, a, G)'
        BY <1>1, <1>2, <2>2, <3>1, <3>4, <3>6, <3>7, <3>8, <3>9, <3>10 DEF Cut
      <3> QED
        BY <1>2, <3>1, <3>11
    <2>7. ASSUME NEW a \in Page, NEW G \in SUBSET Page, Cut(u, a, G)
          PROVE  \E H \in SUBSET Page : Cut(u, a, H)'
      <3>0. PICK H \in SUBSET Page : H = G \cup {f}
        OBVIOUS
      <3>1. iter[t] \in G /\ iter[t] < a /\ page[t] < a /\ iter[t] # SlabHead
        BY <1>1, <2>7 DEF Cut, Island, FreeSteps, AtHead
      <3>2. page[u] = a /\ a <= used /\ Row(a)
        BY <2>3, <2>7 DEF Cut
      <3>3. Row(a)' /\ next'[a] = next[a]
        <4>1. PICK i \in Page : i = iter[t]
          BY <1>2
        <4>2. i < a /\ next'[i] < a /\ \A p \in Page : p # i => next'[p] = next[p]
          BY <1>3, <3>1, <4>1
        <4>3. used' = used
          BY <1>1
        <4> QED
          BY <3>2, <4>2, <4>3, RowKept
      <3>4. Island(a, H)'
        <4>2. ASSUME NEW v \in Thread PROVE /\ pc'[v] \in {"walk", "link"} => iter'[v] \in H
                                            /\ pc'[v] = "clear" => page'[v] \in H
          BY <1>1, <1>3, <2>0, <3>0 DEF FreeSteps
        <4>3. SlabHead \in H /\ H \subseteq Page' /\ \A p \in H : p < a
          BY <1>2, <2>0, <2>7, <3>0, <3>1 DEF Cut, Island
        <4>4. ASSUME NEW p \in H, Settled(p)', next'[p] \in Page' PROVE next'[p] \in H
          <5>1. ~Settled(f)'
            BY <1>3, <2>0 DEF Settled
          <5>2. p # f /\ p \in G /\ p \in Page
            BY <3>0, <4>4, <5>1
          <5>3. CASE p = iter[t]
            BY <1>3, <2>0, <3>0, <5>3
          <5>4. CASE p # iter[t]
            BY <1>2, <1>3, <2>0, <2>4, <2>7, <3>0, <4>4, <5>2, <5>4 DEF Cut, Island
          <5> QED
            BY <5>3, <5>4
        <4> QED
          BY <4>2, <4>3, <4>4 DEF Island
      <3>5. ASSUME NEW v \in Thread PROVE ~AtHead(v)' /\ (pc'[v] \in FreeSteps => page'[v] < a)
        BY <1>1, <1>3, <1>6, <3>1 DEF FreeSteps
      <3>6. next'[SlabHead] \in Page /\ next'[SlabHead] < a
        BY <1>3, <2>7, <3>1, RaceNumbers DEF Cut
      <3>8. Cut(u, a, H)'
        BY <1>1, <1>2, <2>2, <2>7, <3>3, <3>4, <3>5, <3>6 DEF Cut
      <3> QED
        BY <3>8
    <2> QED
      BY <1>1, <2>2, <2>5, <2>6, <2>7 DEF OrderInv, SearchInv
  <1> QED
    BY <1>5, <1>6, <1>7 DEF OrderInv

LEMMA ClearOrder == ASSUME RaceInv, RaceInv', OrderInv, NEW t \in Thread, Clear(t) PROVE OrderInv'
  <1>1. /\ pc[t] = "clear" /\ outcome = "ok" /\ next' = [next EXCEPT ![page[t]] = Null] /\ freeBy' = Nobody
        /\ pc' = [pc EXCEPT ![t] = "idle"] /\ page' = [page EXCEPT ![t] = Null]
        /\ iter' = [iter EXCEPT ![t] = Null] /\ tmp' = [tmp EXCEPT ![t] = Null]
        /\ UNCHANGED <<length, used, mallocBy, blocks, calls, outcome>>
    BY DEF Clear, At, Goto, Return
  <1>2. PICK f \in Page : f = page[t] /\ f # SlabHead
    BY <1>1, RaceNumbers DEF RaceInv, CallInv, RaceTypes, FreeSteps, UsedPage
  <1>3. /\ next'[f] = Null /\ \A p \in Page : p # f => next'[p] = next[p]
        /\ pc'[t] = "idle" /\ Thread' = Thread /\ Page' = Page /\ next'[SlabHead] = next[SlabHead]
        /\ \A u \in Thread : u # t => /\ pc'[u] = pc[u] /\ page'[u] = page[u] /\ iter'[u] = iter[u]
                                      /\ tmp'[u] = tmp[u] /\ pc[u] \notin FreeSteps
    BY <1>1, <1>2, ByTheLocks, RaceNumbers DEF RaceInv, RaceTypes, FreeSteps, Page
  <1>4. \A u \in Thread : Extending(u)' = Extending(u)
    BY <1>1, <1>3 DEF Extending
  <1>5. ExtendInv'
    <2>1. ~Extending(t)
      BY <1>1 DEF Extending
    <2> QED
      BY <1>1, <1>3, <1>4, <2>1 DEF OrderInv, ExtendInv, Whole
  <1>6. HeadInv' /\ \A u \in Thread : ~AtHead(u)'
    <2>1. ~AtHead(t)'
      BY <1>3 DEF AtHead
    <2> QED
      BY <1>1, <2>1, NoneAtHead
  <1>7. SearchInv'
    <2>1. SUFFICES ASSUME NEW u \in Thread, Searching(u)'
                   PROVE  First(u)' \/ \E a \in Page, G \in SUBSET Page : Cut(u, a, G)'
      BY <1>3 DEF SearchInv
    <2>2. u # t /\ Searching(u) /\ pc'[u] = pc[u]
      BY <1>3, <2>1 DEF Searching
    <2>3. ASSUME First(u) PROVE First(u)'
      BY <1>3, <2>2, <2>3 DEF First
    <2>4. ASSUME NEW a \in Page, NEW G \in SUBSET Page, Cut(u, a, G) PROVE Cut(u, a, G)'
      <3>1. f < a /\ f \in G
        BY <1>1, <1>2, <2>4 DEF Cut, Island, FreeSteps
      <3>2. page[u] = a /\ a <= used /\ Row(a)
        <4>1. page[u] \in UsedPage /\ page[u] = a
          BY <1>1, <2>2, <2>4 DEF Searching, RaceInv, CallInv, Cut
        <4> QED
          BY <2>4, <4>1, RaceNumbers DEF UsedPage, Cut, RaceInv, RaceTypes
      <3>3. Row(a)' /\ next'[a] = next[a]
        <4>1. used' = used /\ next'[f] \notin Page
          BY <1>1, <1>3, RaceNumbers
        <4> QED
          BY <1>3, <3>1, <3>2, <4>1, RowKept
      <3>4. Island(a, G)'
        <4>2. ASSUME NEW v \in Thread PROVE /\ pc'[v] \in {"walk", "link"} => iter'[v] \in G
                                            /\ pc'[v] = "clear" => page'[v] \in G
          BY <1>3 DEF FreeSteps
        <4>3. SlabHead \in G /\ G \subseteq Page' /\ \A p \in G : p < a
          BY <1>3, <2>4 DEF Cut, Island
        <4>4. ASSUME NEW p \in G, next'[p] \in Page' PROVE next'[p] \in G
          <5>1. p # f /\ next'[p] = next[p] /\ p \in Page
            BY <1>3, <4>4, RaceNumbers
          <5>2. Settled(p)
            BY <1>2, <1>3, <5>1 DEF Settled, FreeSteps
          <5> QED
            BY <1>3, <2>4, <4>4, <5>1, <5>2 DEF Cut, Island
        <4> QED
          BY <4>2, <4>3, <4>4 DEF Island
      <3>5. ASSUME NEW v \in Thread PROVE ~AtHead(v)' /\ (pc'[v] \in FreeSteps => page'[v] < a)
        BY <1>3, <1>6 DEF FreeSteps
      <3> QED
        BY <1>1, <1>3, <2>2, <2>4, <3>3, <3>4, <3>5 DEF Cut
    <2> QED
      BY <1>1, <2>2, <2>3, <2>4 DEF OrderInv, SearchInv
  <1> QED
    BY <1>5, <1>6, <1>7 DEF OrderInv

LEMMA RaceInitOrder == RaceInit => OrderInv
  <1> SUFFICES ASSUME RaceInit PROVE OrderInv
    OBVIOUS
  <1>1. used = PagesInitial + 1 /\ \A t \in Thread : pc[t] = "idle"
    BY DEF RaceInit
  <1>2. Whole(used) /\ used > PagesInitial
    BY <1>1, RaceNumbers DEF Whole
  <1>3. \A t \in Thread : ~Extending(t) /\ ~AtHead(t) /\ ~Searching(t)
    BY <1>1 DEF Extending, AtHead, Searching
  <1> QED
    BY <1>2, <1>3 DEF OrderInv, ExtendInv, HeadInv, SearchInv

LEMMA RaceInductive == RaceSpec => [](RaceInv /\ OrderInv)
  <1>1. RaceInv /\ OrderInv /\ [RaceNext]_raceVars => (RaceInv /\ OrderInv)'
    <2> SUFFICES ASSUME RaceInv, OrderInv, [RaceNext]_raceVars PROVE RaceInv' /\ OrderInv'
      OBVIOUS
    <2>1. CASE UNCHANGED raceVars
      <3>1. \A p \in Page : Settled(p)' = Settled(p)
        BY <2>1 DEF raceVars, Settled
      <3>2. PICK r \in [Page -> Nat] : Falls(r)
        BY DEF RaceInv
      <3>3. Page' = Page /\ Falls(r)'
        BY <2>1, <3>1, <3>2 DEF raceVars, Falls, Page
      <3>4. RaceTypes'
        BY <2>1 DEF raceVars, RaceInv, RaceTypes, Page, Pointer, UsedPage
      <3>5. CallInv'
        BY <2>1 DEF raceVars, RaceInv, CallInv, UsedPage
      <3>6. OrderInv'
        <4>1. \A a : Row(a)' = Row(a)
          BY <2>1, <3>3 DEF raceVars, Row
        <4>2. \A h : Batch(h)' = Batch(h)
          BY <2>1, <4>1 DEF raceVars, Batch, Left, Extending, Whole
        <4>3. \A a, G : Island(a, G)' = Island(a, G)
          BY <2>1, <3>3 DEF raceVars, Island, Settled
        <4>4. \A t \in Thread : \A a, G : Cut(t, a, G)' = Cut(t, a, G)
          BY <2>1, <3>3, <4>1, <4>3 DEF raceVars, Cut, AtHead
        <4>5. ExtendInv'
          BY <2>1, <3>3 DEF raceVars, OrderInv, ExtendInv, Extending, Whole
        <4>6. HeadInv'
          BY <2>1, <3>3, <4>2 DEF raceVars, OrderInv, HeadInv, AtHead
        <4>7. SearchInv'
          BY <2>1, <3>3, <4>4 DEF raceVars, OrderInv, SearchInv, Searching, First
        <4> QED
          BY <4>5, <4>6, <4>7 DEF OrderInv
      <3> QED
        BY <3>3, <3>4, <3>5, <3>6 DEF RaceInv
    <2>2. CASE RaceNext
      <3>1. RaceInv'
        BY <2>2, MallocStep, PopStep, AppendStep, AppendedStep, RemoveTestStep, SearchStep, UnlinkStep,
           GotStep, FreeStep, WalkStep, LinkStep, ClearStep DEF RaceNext, RaceStep
      <3> QED
        BY <2>2, <3>1, MallocOrder, PopOrder, AppendOrder, AppendedOrder, RemoveTestOrder, SearchOrder,
           UnlinkOrder, GotOrder, FreeOrder, WalkOrder, LinkOrder, ClearOrder DEF RaceNext, RaceStep
    <2> QED
      BY <2>1, <2>2
  <1> QED
    BY RaceInitInductive, RaceInitOrder, <1>1, PTL DEF RaceSpec

-----------------------------------------------------------------------------
(* The list ends *)

\* What the function behind Reached computes.
Onward(p) == IF p \in Page THEN next[p] ELSE p

LEMMA ReachedSteps ==
  ASSUME RaceTypes
  PROVE  Reached[0] = SlabHead /\ \A k \in 1..MaxPages : Reached[k] = Onward(Reached[k - 1])
  <1> DEFINE X == Page \cup Pointer
             G == [x \in X \X (1..MaxPages) |-> Onward(x[1])]
             Hop(chain, n) == IF n = 0 THEN SlabHead
                              ELSE IF chain[n - 1] \in Page THEN next[chain[n - 1]] ELSE chain[n - 1]
             Hops(chain) == chain = [n \in 0..MaxPages |-> Hop(chain, n)]
             chosen == CHOOSE chain : Hops(chain)
  <1>0. MaxPages \in Nat /\ SlabHead \in X
    BY RaceNumbers
  <1>1. \A x \in X, k \in 1..MaxPages : G[<<x, k>>] = Onward(x) /\ G[<<x, k>>] \in X
    <2>1. ASSUME NEW x \in X PROVE Onward(x) \in X
      BY DEF Onward, RaceTypes
    <2> HIDE DEF X
    <2> QED
      BY <2>1
  <1>2. PICK f \in [0..MaxPages -> X] :
            f[0] = SlabHead /\ \A k \in 1..MaxPages : f[k] = G[<<f[k - 1], k>>]
    <2> HIDE DEF X, G
    <2>1. \E f : IsRun(f, X, SlabHead, G, MaxPages)
      BY <1>0, <1>1, Iterated
    <2> QED
      BY <2>1 DEF IsRun
  <1>3. f = [n \in 0..MaxPages |-> Hop(f, n)]
    <2>1. ASSUME NEW n \in 0..MaxPages PROVE f[n] = Hop(f, n)
      <3>1. CASE n = 0
        BY <1>2, <3>1
      <3>2. CASE n # 0
        <4>1. n - 1 \in 0..MaxPages /\ n \in 1..MaxPages
          BY <1>0, <3>2
        <4> HIDE DEF X, G
        <4>2. f[n - 1] \in X
          BY <1>2, <4>1
        <4>3. f[n] = Onward(f[n - 1])
          BY <1>1, <1>2, <4>1, <4>2
        <4> QED
          BY <3>2, <4>3 DEF Onward
      <3> QED
        BY <3>1, <3>2
    <2> HIDE DEF Hop, G
    <2> QED
      BY <1>2, <2>1
  <1>4. Hops(chosen)
    BY <1>3
  <1>5. Reached = chosen
    BY DEF Reached
  <1> HIDE DEF chosen
  <1>6. chosen[0] = SlabHead
    BY <1>0, <1>4
  <1>7. ASSUME NEW k \in 1..MaxPages PROVE chosen[k] = Onward(chosen[k - 1])
    <2>1. chosen[k] = Hop(chosen, k) /\ k # 0
      <3>1. k \in 0..MaxPages /\ k # 0
        BY <1>0
      <3> HIDE DEF Hop
      <3> QED
        BY <1>4, <3>1
    <2> QED
      BY <2>1 DEF Onward
  <1> QED
    BY <1>5, <1>6, <1>7

\* A chain that is in the slab's pages after MaxPages steps has been on MaxPages + 1
\* different ones, as each has a smaller number of Falls than the one before it.
LEMMA ChainEnds ==
  ASSUME RaceTypes, NEW r \in [Page -> Nat], Falls(r), \A p \in Page : Settled(p)
  PROVE  Reached[MaxPages] \notin Page
  <1> SUFFICES ASSUME Reached[MaxPages] \in Page PROVE FALSE
    OBVIOUS
  <1>0. PICK c : c = Reached
    OBVIOUS
  <1>1. c[0] = SlabHead /\ (\A k \in 1..MaxPages : c[k] = Onward(c[k - 1])) /\ c[MaxPages] \in Page
    BY <1>0, ReachedSteps
  <1>2. ASSUME NEW k \in 0..MaxPages PROVE c[k] \in Page
    <2> DEFINE T == {m \in 0..MaxPages : c[MaxPages - m] \in Page}
    <2>1. 0 \in T
      BY <1>1, RaceNumbers
    <2>2. ASSUME NEW m \in 0..(MaxPages - 1), m \in T PROVE m + 1 \in T
      <3>1. MaxPages - m \in 1..MaxPages /\ (MaxPages - m) - 1 = MaxPages - (m + 1) /\ m + 1 \in 0..MaxPages
        BY RaceNumbers
      <3>2. c[MaxPages - m] = Onward(c[MaxPages - (m + 1)]) /\ c[MaxPages - m] \in Page
        BY <1>1, <2>2, <3>1
      <3>3. c[MaxPages - (m + 1)] \in Page
        BY <3>2 DEF Onward
      <3> QED
        BY <3>1, <3>3
    <2> HIDE DEF T
    <2>3. MaxPages - k \in T
      <3>1. 0..MaxPages \subseteq T
        BY <2>1, <2>2, RaceNumbers, UpTo
      <3>2. MaxPages - k \in 0..MaxPages
        BY RaceNumbers
      <3> QED
        BY <3>1, <3>2
    <2>4. MaxPages - (MaxPages - k) = k
      BY RaceNumbers
    <2> QED
      BY <2>3, <2>4 DEF T
  <1>3. ASSUME NEW k \in 1..MaxPages PROVE r[c[k]] < r[c[k - 1]]
    <2>1. k - 1 \in 0..MaxPages /\ k \in 0..MaxPages
      BY RaceNumbers
    <2>2. c[k - 1] \in Page /\ c[k] \in Page
      BY <1>2, <2>1
    <2>3. c[k] = next[c[k - 1]]
      BY <1>1, <2>2 DEF Onward
    <2> QED
      BY <2>2, <2>3 DEF Falls
  <1>4. ASSUME NEW i \in 0..MaxPages, NEW k \in 0..MaxPages, i < k PROVE r[c[k]] < r[c[i]]
    <2> DEFINE T == {m \in 0..(k - i - 1) : r[c[i + 1 + m]] < r[c[i]]}
    <2>0. k - i - 1 \in Nat
      BY <1>4
    <2>1. 0 \in T
      <3>1. i + 1 \in 1..MaxPages /\ (i + 1) - 1 = i /\ i + 1 + 0 = i + 1
        BY <1>4, RaceNumbers
      <3> QED
        BY <1>3, <2>0, <3>1
    <2>2. ASSUME NEW m \in 0..((k - i - 1) - 1), m \in T PROVE m + 1 \in T
      <3>1. /\ i + 1 + m \in 0..MaxPages /\ i + 1 + (m + 1) \in 1..MaxPages /\ m + 1 \in 0..(k - i - 1)
            /\ (i + 1 + (m + 1)) - 1 = i + 1 + m /\ i + 1 + (m + 1) \in 0..MaxPages
        BY <1>4, RaceNumbers
      <3>2. r[c[i]] \in Nat /\ r[c[i + 1 + m]] \in Nat /\ r[c[i + 1 + (m + 1)]] \in Nat
        BY <1>2, <3>1
      <3>3. r[c[i + 1 + (m + 1)]] < r[c[i + 1 + m]]
        BY <1>3, <3>1
      <3>4. r[c[i + 1 + m]] < r[c[i]]
        BY <2>2
      <3>5. r[c[i + 1 + (m + 1)]] < r[c[i]]
        BY <3>2, <3>3, <3>4
      <3> QED
        BY <3>1, <3>5
    <2> HIDE DEF T
    <2>3. k - i - 1 \in T
      BY <2>0, <2>1, <2>2, UpTo
    <2>4. i + 1 + (k - i - 1) = k
      OBVIOUS
    <2> QED
      BY <2>3, <2>4 DEF T
  <1> DEFINE d == [k \in 0..MaxPages |-> c[k]]
  <1>5. d \in Injection(0..MaxPages, Page)
    <2>1. d \in [0..MaxPages -> Page]
      BY <1>2
    <2>2. ASSUME NEW i \in 0..MaxPages, NEW k \in 0..MaxPages, d[i] = d[k] PROVE i = k
      <3>1. c[i] = c[k] /\ c[i] \in Page
        BY <1>2, <2>2
      <3>2. r[c[i]] \in Nat /\ r[c[k]] = r[c[i]]
        BY <3>1
      <3>3. ~(i < k) /\ ~(k < i)
        <4> HIDE DEF d
        <4>1. ~(i < k)
          BY <1>4, <3>2
        <4>2. ~(k < i)
          BY <1>4, <3>2
        <4> QED
          BY <4>1, <4>2
      <3> QED
        BY <3>3
    <2> HIDE DEF d
    <2> QED
      BY <2>1, <2>2 DEF Injection, IsInjective
  <1>6. /\ IsFiniteSet(0..MaxPages) /\ Cardinality(0..MaxPages) = MaxPages + 1
        /\ IsFiniteSet(Page) /\ Cardinality(Page) = MaxPages
    BY FS_Interval, RaceNumbers
  <1> HIDE DEF d
  <1>7. Cardinality(0..MaxPages) <= Cardinality(Page)
    BY <1>5, <1>6, FS_Injection
  <1> QED
    BY <1>6, <1>7, RaceNumbers

\* Two callers under different locks: whatever the order in which one kmalloc() and one
\* kfree() read and write the next pointers of a slab, its list ends, except between the
\* two stores of slab_push_page(), and its length stays a count of pages.
THEOREM RaceListSound == RaceSpec => []ListSound
  <1>1. RaceInv => ListSound
    <2> SUFFICES ASSUME RaceInv PROVE ListSound
      OBVIOUS
    <2>1. RaceTypeOK
      <3>1. used \in 2..MaxPages /\ Pointer \subseteq Page \cup {Null, Wild} /\ 0..used \subseteq Page \cup {Null}
        BY RaceNumbers DEF RaceInv, RaceTypes, Pointer, UsedPage
      <3>2. next \in [Page -> Page \cup {Null, Wild}] /\ used \in Page
        <4>1. next \in [Page -> Page \cup {Null, Wild}]
          BY <3>1 DEF RaceInv, RaceTypes
        <4>2. used \in Page
          BY <3>1, RaceNumbers
        <4> QED
          BY <4>1, <4>2
      <3>3. /\ page \in [Thread -> Page \cup {Null, Wild}] /\ tmp \in [Thread -> Page \cup {Null, Wild}]
            /\ iter \in [Thread -> Page \cup {Null}]
        BY <3>1 DEF RaceInv, RaceTypes
      <3>4. \A b \in blocks : b \in (1..MaxCalls) \X Page
        <4>1. UsedPage \subseteq Page
          BY <3>1, RaceNumbers DEF UsedPage
        <4> QED
          BY <4>1 DEF RaceInv, RaceTypes
      <3>5. pc \in [Thread -> {"idle", "pop", "append", "appended", "test", "search", "unlink", "got",
                               "walk", "link", "clear"}]
        BY DEF RaceInv, RaceTypes, MallocSteps, FreeSteps
      <3> QED
        BY <3>2, <3>3, <3>4, <3>5 DEF RaceInv, RaceTypes, RaceTypeOK
    <2>2. ListEnds
      <3>1. SUFFICES ASSUME \A t \in Thread : pc[t] # "clear" PROVE Reached[MaxPages] \notin Page
        BY DEF ListEnds
      <3>2. \A p \in Page : Settled(p)
        BY <3>1 DEF Settled
      <3>3. PICK r \in [Page -> Nat] : Falls(r)
        BY DEF RaceInv
      <3> QED
        BY <3>2, <3>3, ChainEnds DEF RaceInv
    <2> QED
      BY <2>1, <2>2 DEF ListSound
  <1> QED
    BY RaceInductive, <1>1, PTL
=============================================================================
