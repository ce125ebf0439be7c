------------------------------ MODULE VfsProofs ------------------------------
(***************************************************************************)
(* Files are open for one thread and closed after use, whatever is mounted *)
(* and unmounted meanwhile, and the tree, when nothing is being taken out  *)
(* of it, is a name space: for every archive, whatever memory holds behind *)
(* its paths, any paths and any number of threads.                         *)
(***************************************************************************)
EXTENDS Vfs, Induction, FiniteSetTheorems, SequenceTheorems, TLAPS

Numbers(n) == 0..(n - 1)

\* All but the root.
Born(n) == 1..(n - 1)

\* n nodes, every list with the nodes whose parent it belongs to, each once,
\* and every node younger than its parent.
SoundTree(t, n) ==
    /\ n \in 1..MaxNodes /\ t \in [Numbers(n) -> Tree]
    /\ t[0].obj = 0
    /\ \A i \in Numbers(n) :
          /\ t[i].obj \in {i} \cup File /\ t[i].parent \in Numbers(n)
          /\ t[i].kids \in Seq(Born(n))
          /\ \A k \in 1..Len(t[i].kids) :
                /\ i < t[i].kids[k] /\ t[t[i].kids[k]].parent = i
                /\ \A l \in 1..Len(t[i].kids) : t[i].kids[k] = t[i].kids[l] => k = l
    /\ \A i, j \in Numbers(n) : t[i].obj = t[j].obj => i = j

\* A node is in the list of its parent until it is freed.
Linked(t, n, gone) ==
    \A i \in Numbers(n) \ (gone \cup {0}) :
        \E k \in 1..Len(t[t[i].parent].kids) : t[t[i].parent].kids[k] = i

Size == Cardinality(DOMAIN tree)

TreeInv ==
    /\ SoundTree(tree, Size) /\ Linked(tree, Size, freed)
    /\ freed \subseteq Born(Size) /\ (first => freed = {})

\* A file has a node in the tree only when it is mounted.
PlacedInv ==
    /\ vfsPtr \in [DOMAIN vfsPtr -> Numbers(Size)] /\ DOMAIN vfsPtr \subseteq File
    /\ \A i \in Numbers(Size) : tree[i].obj \in File => tree[i].obj \in DOMAIN vfsPtr

Phases == {"idle", "data", "test", "set", "stat", "read", "close"}

FlagsTyped ==
    /\ first \in BOOLEAN /\ ref \in [Objects -> BOOLEAN]
    /\ ops \in [File -> {"ramfs", "none", "wild"}]
    /\ status \in {"ok", "undefined", "lost", "freed"}

\* A thread in exec() holds binfmt_lock, and has what it looks for: a node of
\* the tree, then a directory or a file that is mounted.
ThreadInv ==
    /\ lock \in Proc \cup {None} /\ pc \in [Proc -> Phases]
    /\ at \in [Proc -> Ids \cup {None}] /\ obj \in [Proc -> Objects \cup {None}]
    /\ \A p \in Proc :
          /\ pc[p] # "idle" => lock = p
          /\ pc[p] = "data" => at[p] \in Numbers(Size)
          /\ pc[p] \notin {"idle", "data"} => obj[p] \in Ids \cup DOMAIN vfsPtr
          /\ pc[p] \in {"set", "read", "close"} => obj[p] \in File
          /\ pc[p] \in {"idle", "data"} => obj[p] = None

OpenInv == \A p \in Proc, f \in File : Holds(p, f) => ref[f]

\* A file has operations of the ramdisk only once it is mounted.
OpsInv == \A f \in File : ops[f] = "ramfs" => f \in DOMAIN vfsPtr

\* What is being removed is a node, and the first.
RemovingInv == removing # None => removing \in Born(Size) /\ first

IInv == /\ TreeInv /\ PlacedInv /\ FlagsTyped /\ ThreadInv /\ OpenInv /\ OpsInv /\ RemovingInv
        /\ ClosedAfterUse

-----------------------------------------------------------------------------
(* The tree                                                                *)

LEMMA Counting ==
  ASSUME NEW n \in Nat
  PROVE  IsFiniteSet(Numbers(n)) /\ Cardinality(Numbers(n)) = n
  BY FS_Interval DEF Numbers

LEMMA SizeOf ==
  ASSUME NEW t, NEW n, SoundTree(t, n)
  PROVE  DOMAIN t = Numbers(n) /\ Cardinality(DOMAIN t) = n /\ n \in Nat
  <1>1. DOMAIN t = Numbers(n) /\ n \in Nat
    BY VfsAssumption DEF SoundTree
  <1> QED
    BY <1>1, Counting

\* tree_insert_child(): what changes in the tree.
LEMMA Inserting ==
  ASSUME NEW t, NEW n, SoundTree(t.tree, n), t \in [tree : {t.tree}, name : {t.name}, at : {t.at}, lost : {t.lost}],
         n < MaxNodes, NEW i \in Numbers(n), NEW o \in Objects
  PROVE  LET r == InsertChild(t, i, o) IN
         /\ r \in [tree : {r.tree}, name : {t.name}, at : {n}, lost : {t.lost \/ t.tree[i].cut}]
         /\ r.tree \in [Numbers(n + 1) -> Tree]
         /\ r.tree[n] = Leaf(o, i)
         /\ \A j \in Numbers(n) : /\ r.tree[j].obj = t.tree[j].obj /\ r.tree[j].parent = t.tree[j].parent
                                  /\ r.tree[j].kids = IF j = i THEN Append(t.tree[j].kids, n) ELSE t.tree[j].kids
                                  /\ r.tree[j].cut = t.tree[j].cut
  <1> DEFINE r == InsertChild(t, i, o)
             u == [t.tree EXCEPT ![i].kids = Append(@, n)]
             v == Extend(u, n, Leaf(o, i))
  <1>1. Cardinality(DOMAIN t.tree) = n /\ n \in Nat /\ n \in Ids /\ Numbers(n) \subseteq Ids
    <2>1. n \in 1..MaxNodes /\ MaxNodes \in Nat
      BY VfsAssumption DEF SoundTree
    <2>2. Cardinality(DOMAIN t.tree) = n
      BY SizeOf
    <2> QED
      BY <2>1, <2>2 DEF Ids, Numbers
  <1>2. u \in [Numbers(n) -> Tree] /\ \A j \in Numbers(n) :
           /\ u[j].obj = t.tree[j].obj /\ u[j].parent = t.tree[j].parent
           /\ u[j].kids = IF j = i THEN Append(t.tree[j].kids, n) ELSE t.tree[j].kids
           /\ u[j].cut = t.tree[j].cut
    <2>1. t.tree \in [Numbers(n) -> Tree]
      BY DEF SoundTree
    <2>2. ASSUME NEW x \in Tree PROVE [x EXCEPT !.kids = Append(@, n)] \in Tree
      BY SMTT(30), <1>1 DEF Tree
    <2>3. [t.tree[i] EXCEPT !.kids = Append(@, n)] \in Tree
      BY <2>1, <2>2
    <2>4. u = [t.tree EXCEPT ![i] = [t.tree[i] EXCEPT !.kids = Append(@, n)]]
      BY <2>1
    <2> HIDE DEF u
    <2> QED
      BY <2>1, <2>3, <2>4 DEF Tree
  <1> HIDE DEF u
  <1>3. n \notin Numbers(n) /\ Numbers(n + 1) = Numbers(n) \cup {n}
    BY <1>1 DEF Numbers
  <1>4. Leaf(o, i) \in Tree
    BY <1>1 DEF Leaf, Tree
  <1>5. DOMAIN v = Numbers(n + 1) /\ v[n] = Leaf(o, i) /\ \A j \in Numbers(n) : v[j] = u[j]
    BY <1>2, <1>3 DEF Extend
  <1>6. v \in [Numbers(n + 1) -> Tree]
    <2>1. v = [x \in DOMAIN v |-> v[x]]
      BY DEF Extend
    <2> HIDE DEF v
    <2> QED
      BY <1>2, <1>3, <1>4, <1>5, <2>1
  <1>7. r = [t EXCEPT !.at = n, !.lost = @ \/ t.tree[i].cut, !.tree = v]
    BY <1>1 DEF InsertChild, u
  <1> HIDE DEF v, r
  <1>8. /\ r.tree = v /\ r \in [tree : {r.tree}, name : {t.name}, at : {n}, lost : {t.lost \/ t.tree[i].cut}]
    BY <1>7
  <1> QED
    BY <1>2, <1>5, <1>6, <1>8 DEF r

\* The walks one name further.
Onward(W, s, opt) == UNION {CreateOrTraverse(t, s, opt) : t \in W}

\* The walks of the first k names of d, for every k.
AreWalks(w, d, opt) == w = [k \in 0..Len(d) |-> IF k = 0 THEN {Here} ELSE Onward(w[k - 1], d[k], opt)]

LEMMA WalkIsInductive ==
  ASSUME NEW d, NEW opt, Len(d) \in Nat
  PROVE  \E w : AreWalks(w, d, opt) /\ WalksTo(d, opt) = w[Len(d)]
  <1> DEFINE Next1(w, k) == IF k = 0 THEN {Here} ELSE Onward(w[k - 1], d[k], opt)
             Walks(m) == \E w : w = [k \in 0..m |-> Next1(w, k)]
             Failed == {m \in Nat : ~Walks(m)}
  <1>1. Walks(0)
    <2> DEFINE w == [k \in 0..0 |-> {Here}]
    <2>1. w = [k \in 0..0 |-> Next1(w, k)]
      OBVIOUS
    <2> QED
      BY <2>1
  <1>2. ASSUME NEW m \in Nat, Walks(m) PROVE Walks(m + 1)
    <2>1. PICK v : v = [k \in 0..m |-> Next1(v, k)]
      BY <1>2
    <2> DEFINE w == [k \in 0..(m + 1) |-> IF k <= m THEN v[k] ELSE Onward(v[m], d[m + 1], opt)]
    <2>2. \A k \in 0..m : w[k] = v[k]
      OBVIOUS
    <2>3. \A k \in 0..(m + 1) : w[k] = Next1(w, k)
      <3>1. ASSUME NEW k \in 0..m PROVE w[k] = Next1(w, k)
        <4>1. w[k] = Next1(v, k)
          <5>1. v[k] = Next1(v, k)
            BY <2>1
          <5> HIDE DEF Next1, w
          <5> QED
            BY <2>2, <5>1
        <4>2. k # 0 => w[k - 1] = v[k - 1]
          OBVIOUS
        <4> HIDE DEF w
        <4> QED
          BY <4>1, <4>2
      <3>2. w[m + 1] = Next1(w, m + 1)
        <4>1. w[m + 1] = Onward(v[m], d[m + 1], opt) /\ w[m] = v[m] /\ m + 1 - 1 = m /\ m + 1 # 0
          OBVIOUS
        <4> HIDE DEF w
        <4> QED
          BY <4>1
      <3> HIDE DEF w, Next1
      <3> QED
        BY <3>1, <3>2
    <2> QED
      <3>1. w = [k \in 0..(m + 1) |-> w[k]]
        OBVIOUS
      <3> HIDE DEF w, Next1
      <3>2. w = [k \in 0..(m + 1) |-> Next1(w, k)]
        BY <3>1, <2>3
      <3> QED
        BY <3>2
  <1> HIDE DEF Walks
  <1>3. Walks(Len(d))
    <2>1. SUFFICES ASSUME ~Walks(Len(d)) PROVE FALSE
      OBVIOUS
    <2>2. Failed \subseteq Nat /\ Failed # {}
      BY <2>1
    <2>3. PICK m \in Failed : \A k \in Failed : m <= k
      BY <2>2, LeastNat
    <2>4. m # 0 /\ m - 1 \in Nat /\ m - 1 \notin Failed
      BY <2>3, <1>1
    <2> QED
      BY <2>3, <2>4, <1>2
  <1> DEFINE w == CHOOSE w : w = [k \in 0..Len(d) |-> Next1(w, k)]
  <1>4. w = [k \in 0..Len(d) |-> Next1(w, k)]
    BY <1>3 DEF Walks
  <1>5. WalksTo(d, opt) = w[Len(d)]
    BY DEF WalksTo, Onward
  <1> QED
    BY <1>4, <1>5 DEF AreWalks

\* The walks of no name, and of one more.
LEMMA WalksAre ==
  ASSUME NEW d \in Seq(STRING), NEW opt, NEW w, AreWalks(w, d, opt)
  PROVE  /\ w[0] = {Here}
         /\ \A k \in 0..(Len(d) - 1) : \A r \in w[k + 1] :
               \E t \in w[k] : r \in CreateOrTraverse(t, d[k + 1], opt)
  <1>1. Len(d) \in Nat
    BY LenProperties
  <1>2. ASSUME NEW k \in 0..Len(d) PROVE w[k] = IF k = 0 THEN {Here} ELSE Onward(w[k - 1], d[k], opt)
    BY DEF AreWalks
  <1>3. w[0] = {Here}
    BY <1>1, <1>2
  <1>4. ASSUME NEW k \in 0..(Len(d) - 1), NEW r \in w[k + 1]
        PROVE  \E t \in w[k] : r \in CreateOrTraverse(t, d[k + 1], opt)
    <2>1. k + 1 \in 0..Len(d) /\ k + 1 # 0 /\ (k + 1) - 1 = k
      BY <1>1
    <2>2. w[k + 1] = Onward(w[k], d[k + 1], opt)
      BY <1>2, <2>1
    <2> QED
      BY <1>4, <2>2 DEF Onward
  <1> QED
    BY <1>3, <1>4

LEMMA Placing ==
  ASSUME NEW t, NEW n, SoundTree(t.tree, n), t \in [tree : {t.tree}, name : {t.name}, at : {t.at}, lost : {t.lost}],
         n < MaxNodes, NEW i \in Numbers(n), NEW o \in {n} \cup File,
         \A j \in Numbers(n) : t.tree[j].obj # o
  PROVE  LET r == InsertChild(t, i, o) IN
         /\ SoundTree(r.tree, n + 1)
         /\ \A gone \in SUBSET (Born(n)) : Linked(t.tree, n, gone) => Linked(r.tree, n + 1, gone)
  <1> DEFINE r == InsertChild(t, i, o)
             old == t.tree
             u == r.tree
  <1>1. n \in 1..MaxNodes /\ MaxNodes \in Nat /\ n \in Ids /\ o \in Objects /\ n + 1 \in 1..MaxNodes
    BY VfsAssumption DEF SoundTree, Ids, Objects
  <1>2. /\ u \in [Numbers(n + 1) -> Tree]
        /\ u[n] = Leaf(o, i)
        /\ \A j \in Numbers(n) : /\ u[j].obj = old[j].obj /\ u[j].parent = old[j].parent
                                 /\ u[j].kids = IF j = i THEN Append(old[j].kids, n) ELSE old[j].kids
    BY <1>1, Inserting
  <1> HIDE DEF r, u, old
  <1>3. n \notin Numbers(n) /\ Numbers(n + 1) = Numbers(n) \cup {n} /\ 0 \in Numbers(n)
        /\ Born(n) \subseteq Numbers(n) /\ Born(n + 1) = Born(n) \cup {n}
    BY <1>1 DEF Numbers, Born
  <1>4. /\ old[0].obj = 0
        /\ \A j \in Numbers(n) :
              /\ old[j].obj \in {j} \cup File /\ old[j].parent \in Numbers(n)
              /\ old[j].kids \in Seq(Born(n))
              /\ \A k \in 1..Len(old[j].kids) :
                    /\ j < old[j].kids[k] /\ old[old[j].kids[k]].parent = j
                    /\ \A l \in 1..Len(old[j].kids) : old[j].kids[k] = old[j].kids[l] => k = l
        /\ \A j, k \in Numbers(n) : old[j].obj = old[k].obj => j = k
        /\ \A j \in Numbers(n) : old[j].obj # o
    BY DEF SoundTree, old
  <1>5. u[n].obj = o /\ u[n].parent = i /\ u[n].kids = <<>>
    BY <1>2 DEF Leaf
  <1>6. ASSUME NEW j \in Numbers(n + 1)
        PROVE  /\ u[j].obj \in {j} \cup File /\ u[j].parent \in Numbers(n + 1)
               /\ u[j].kids \in Seq(Born(n + 1))
               /\ \A k \in 1..Len(u[j].kids) :
                     /\ j < u[j].kids[k] /\ u[u[j].kids[k]].parent = j
                     /\ \A l \in 1..Len(u[j].kids) : u[j].kids[k] = u[j].kids[l] => k = l
    <2>1. CASE j = n
      <3>1. u[n].kids \in Seq(Born(n + 1)) /\ Len(u[n].kids) = 0 /\ 1..0 = {}
        BY <1>5
      <3>2. 1..Len(u[j].kids) = {}
        BY <2>1, <3>1
      <3>3. u[j].obj \in {j} \cup File /\ u[j].parent \in Numbers(n + 1) /\ u[j].kids \in Seq(Born(n + 1))
        BY <1>3, <1>5, <2>1, <3>1
      <3> QED
        BY <3>2, <3>3
    <2>2. CASE j \in Numbers(n) /\ j # i
      <3> DEFINE s == u[j].kids
      <3>1. /\ s = old[j].kids /\ u[j].obj = old[j].obj /\ u[j].parent = old[j].parent
            /\ s \in Seq(Born(n))
        BY <1>2, <1>4, <2>2
      <3>2. s \in Seq(Born(n + 1))
        BY <1>3, <3>1, SeqMonotonic
      <3>3. \A k \in 1..Len(s) : s[k] \in Born(n)
        BY <3>1, ElementOfSeq
      <3>4. \A k \in 1..Len(s) : j < s[k] /\ old[s[k]].parent = j /\ \A l \in 1..Len(s) : s[k] = s[l] => k = l
        BY <1>4, <2>2, <3>1
      <3> HIDE DEF s
      <3>5. \A k \in 1..Len(s) : u[s[k]].parent = j
        BY <1>2, <1>3, <3>3, <3>4
      <3>6. u[j].obj \in {j} \cup File /\ u[j].parent \in Numbers(n + 1)
        BY <1>3, <1>4, <2>2, <3>1
      <3> QED
        BY <3>2, <3>4, <3>5, <3>6 DEF s
    <2>3. CASE j = i
      <3> DEFINE s == u[j].kids
                 q == old[j].kids
                 m == Len(q)
      <3>1. /\ s = Append(q, n) /\ u[j].obj = old[j].obj /\ u[j].parent = old[j].parent
            /\ q \in Seq(Born(n)) /\ j \in Numbers(n)
        BY <1>2, <1>4, <2>3
      <3>2. /\ s \in Seq(Born(n + 1)) /\ Len(s) = m + 1 /\ m \in Nat /\ s[m + 1] = n
            /\ (\A k \in 1..m : s[k] = q[k]) /\ 1..(m + 1) = (1..m) \cup {m + 1}
        <4>1. q \in Seq(Born(n + 1)) /\ n \in Born(n + 1)
          BY <1>3, <3>1, SeqMonotonic
        <4> HIDE DEF s, q
        <4> QED
          BY <3>1, <4>1, AppendProperties
      <3>3. \A k \in 1..m : q[k] \in Born(n)
        BY <3>1, ElementOfSeq
      <3>4. \A k \in 1..m : j < q[k] /\ old[q[k]].parent = j /\ \A l \in 1..m : q[k] = q[l] => k = l
        BY <1>4, <3>1
      <3> HIDE DEF s, q, m
      <3>5. u[n].parent = j /\ j < n
        BY <1>1, <1>5, <2>3 DEF Numbers
      <3>6. \A k \in 1..m : u[s[k]].parent = j /\ j < s[k] /\ s[k] # n
        BY <1>2, <1>3, <3>2, <3>3, <3>4
      <3>7. ASSUME NEW k \in 1..Len(s)
            PROVE  j < s[k] /\ u[s[k]].parent = j /\ \A l \in 1..Len(s) : s[k] = s[l] => k = l
        <4>1. \A x, l \in 1..m : s[x] = s[l] => x = l
          BY <3>2, <3>4
        <4> QED
          BY <3>2, <3>5, <3>6, <4>1
      <3>8. u[j].obj \in {j} \cup File /\ u[j].parent \in Numbers(n + 1)
        BY <1>3, <1>4, <3>1
      <3> QED
        BY <3>2, <3>7, <3>8 DEF s
    <2> QED
      BY <1>3, <2>1, <2>2, <2>3
  <1>7. \A j, k \in Numbers(n + 1) : u[j].obj = u[k].obj => j = k
    BY <1>2, <1>3, <1>4, <1>5
  <1>8. SoundTree(u, n + 1)
    <2>1. u[0].obj = 0
      BY <1>2, <1>3, <1>4
    <2> QED
      BY <1>1, <1>2, <1>6, <1>7, <2>1 DEF SoundTree
  <1>9. ASSUME NEW gone \in SUBSET (Born(n)), Linked(old, n, gone), NEW j \in Numbers(n + 1) \ (gone \cup {0})
        PROVE  \E k \in 1..Len(u[u[j].parent].kids) : u[u[j].parent].kids[k] = j
    <2>1. CASE j = n
      <3>1. u[i].kids = Append(old[i].kids, n) /\ old[i].kids \in Seq(Born(n + 1)) /\ n \in Born(n + 1)
        BY <1>2, <1>3, <1>4, SeqMonotonic
      <3>2. Len(u[i].kids) = Len(old[i].kids) + 1 /\ u[i].kids[Len(old[i].kids) + 1] = n /\ Len(old[i].kids) \in Nat
        BY <3>1, AppendProperties
      <3>3. Len(old[i].kids) + 1 \in 1..Len(u[i].kids) /\ u[j].parent = i
        BY <1>5, <2>1, <3>2
      <3> QED
        BY <2>1, <3>2, <3>3
    <2>2. CASE j \in Numbers(n)
      <3>1. PICK k \in 1..Len(old[old[j].parent].kids) : old[old[j].parent].kids[k] = j
        BY <1>9, <2>2 DEF Linked
      <3> DEFINE p == old[j].parent
      <3>2. p \in Numbers(n) /\ old[p].kids \in Seq(Born(n)) /\ u[j].parent = p
        BY <1>2, <1>4, <2>2
      <3>3. u[p].kids = IF p = i THEN Append(old[p].kids, n) ELSE old[p].kids
        BY <1>2, <3>2
      <3>4. k \in 1..Len(old[p].kids) /\ old[p].kids[k] = j
        BY <3>1
      <3> HIDE DEF p
      <3>5. k \in 1..Len(u[p].kids) /\ u[p].kids[k] = old[p].kids[k]
        <4>1. CASE p = i
          BY <3>4, <3>2, <3>3, <4>1
        <4>2. CASE p # i
          BY <3>4, <3>2, <3>3, <4>2
        <4> QED
          BY <4>1, <4>2
      <3> QED
        BY <3>2, <3>5, <3>4
    <2> QED
      BY <1>3, <2>1, <2>2
  <1>10. \A gone \in SUBSET (Born(n)) : Linked(old, n, gone) => Linked(u, n + 1, gone)
    BY <1>9 DEF Linked
  <1> QED
    BY <1>8, <1>10 DEF r, u, old

\* tree_match_child() finds a child or nothing.
LEMMA Matched ==
  ASSUME NEW t, NEW n, SoundTree(t.tree, n), NEW i \in Numbers(n), NEW s
  PROVE  MatchChild(t, i, s) \in {None} \cup Numbers(n)
  <1> DEFINE T == Matching(t, i, s)
  <1>1. t.tree[i].kids \in Seq(Born(n)) /\ n \in Nat /\ n > 0
    BY VfsAssumption DEF SoundTree
  <1>2. T \subseteq 1..Len(t.tree[i].kids) /\ T \subseteq Nat
    BY <1>1 DEF Matching
  <1> HIDE DEF T
  <1>3. CASE T # {}
    <2>1. PICK x \in T : \A y \in T : x <= y
      BY <1>2, <1>3, LeastNat
    <2>2. Min(T) \in T
      BY <2>1 DEF Min
    <2>3. t.tree[i].kids[Min(T)] \in Born(n)
      BY <1>1, <1>2, <2>2, ElementOfSeq
    <2>4. MatchChild(t, i, s) = t.tree[i].kids[Min(T)]
      BY <1>3 DEF MatchChild, T
    <2> QED
      BY <1>1, <2>3, <2>4 DEF Numbers, Born
  <1>4. CASE T = {}
    BY <1>4 DEF MatchChild, T
  <1> QED
    BY <1>3, <1>4

\* What tree_match_child() returns is a child or nothing, also when list_remove()
\* overtakes it.
LEMMA Answering ==
  ASSUME NEW t, NEW n, SoundTree(t.tree, n), NEW i \in Numbers(n), NEW s, NEW c \in Answers(t, i, s), c # None
  PROVE  c \in Born(n) /\ t.tree[c].parent = i
  <1> DEFINE T == Matching(t, i, s)
             q == t.tree[i].kids
  <1>1. /\ q \in Seq(Born(n)) /\ Len(q) \in Nat
        /\ \A k \in 1..Len(q) : t.tree[q[k]].parent = i
    <2>1. q \in Seq(Born(n)) /\ \A k \in 1..Len(q) : t.tree[q[k]].parent = i
      BY DEF SoundTree
    <2> QED
      BY <2>1, LenProperties
  <1>2. DOMAIN q = 1..Len(q) /\ \A k \in 1..Len(q) : q[k] \in Born(n)
    BY <1>1, LenProperties, ElementOfSeq
  <1>3. T \subseteq 1..Len(q) /\ T \subseteq Nat
    BY <1>2 DEF Matching
  <1>4. MatchChild(t, i, s) = IF T = {} THEN None ELSE q[Min(T)]
    BY DEF MatchChild
  <1>5. \/ c = MatchChild(t, i, s)
        \/ \E k \in T : c = q[k]
        \/ \E k \in T \ {Len(q)} : c = q[k + 1]
    BY DEF Answers, Overtaken
  <1> HIDE DEF T, q
  <1>6. \E k \in 1..Len(q) : c = q[k]
    <2>1. CASE c = MatchChild(t, i, s)
      <3>1. T # {}
        BY <1>4, <2>1
      <3>2. PICK x \in T : \A y \in T : x <= y
        BY <1>3, <3>1, LeastNat
      <3>3. Min(T) \in T
        BY <3>2 DEF Min
      <3> QED
        BY <1>3, <1>4, <2>1, <3>1, <3>3
    <2>2. CASE \E k \in T : c = q[k]
      BY <1>3, <2>2
    <2>3. CASE \E k \in T \ {Len(q)} : c = q[k + 1]
      <3>1. PICK k \in T \ {Len(q)} : c = q[k + 1]
        BY <2>3
      <3>2. k + 1 \in 1..Len(q)
        BY <1>1, <1>3
      <3> QED
        BY <3>1, <3>2
    <2> QED
      BY <1>5, <2>1, <2>2, <2>3
  <1> QED
    BY <1>1, <1>2, <1>6 DEF q

\* create_or_traverse() goes on to a child, or to a node that it creates.
Taken(t, r, c) == r = [t EXCEPT !.at = c]

Created(t, r, s, n) == r = [InsertChild(t, t.at, n) EXCEPT !.name = Extend(@, n, s)]

LEMMA GoingOn ==
  ASSUME NEW t, NEW n, SoundTree(t.tree, n), t.at \in Numbers(n), NEW s, NEW opt,
         NEW r \in CreateOrTraverse(t, s, opt)
  PROVE  \/ \E c \in Born(n) : t.tree[c].parent = t.at /\ Taken(t, r, c)
         \/ opt /\ Created(t, r, s, n)
  <1>1. Cardinality(DOMAIN t.tree) = n
    BY SizeOf
  <1>2. \/ \E c \in Answers(t, t.at, s) \ {None} : Taken(t, r, c)
        \/ opt /\ Created(t, r, s, n)
    BY <1>1 DEF CreateOrTraverse, Taken, Created
  <1> QED
    BY <1>2, Answering

\* A tree of n nodes on the way of vfs_mount(): it has the files of the old one.
Walked(t, n) ==
    /\ n \in Size..MaxNodes /\ SoundTree(t.tree, n) /\ Linked(t.tree, n, freed)
    /\ t \in [tree : {t.tree}, name : {t.name}, at : Numbers(n), lost : {t.lost}]
    /\ \A j \in Numbers(Size) : t.tree[j].obj = tree[j].obj
    /\ \A j \in Numbers(n) : t.tree[j].obj \in File => j \in Numbers(Size)

LEMMA Stepping ==
  ASSUME TreeInv, NEW t, NEW n, Walked(t, n), NEW s, NEW opt, opt => n < MaxNodes,
         NEW r \in CreateOrTraverse(t, s, opt)
  PROVE  \E m \in {n, n + 1} : Walked(r, m) /\ (~opt => m = n)
  <1>1. t.at \in Numbers(n) /\ SoundTree(t.tree, n) /\ n \in Nat /\ Size \in Nat
        /\ t \in [tree : {t.tree}, name : {t.name}, at : {t.at}, lost : {t.lost}]
    <2>1. n \in 1..MaxNodes /\ Size \in 1..MaxNodes
      BY DEF Walked, SoundTree, TreeInv
    <2> QED
      BY <2>1, VfsAssumption DEF Walked
  <1>2. \/ \E c \in Born(n) : t.tree[c].parent = t.at /\ Taken(t, r, c)
        \/ opt /\ Created(t, r, s, n)
    BY <1>1, GoingOn
  <1>3. ASSUME NEW c \in Born(n), Taken(t, r, c) PROVE Walked(r, n)
    <2>1. c \in Numbers(n)
      BY <1>1 DEF Born, Numbers
    <2>2. Walked([t EXCEPT !.at = c], n)
      BY <2>1 DEF Walked
    <2> QED
      BY <1>3, <2>2 DEF Taken
  <1>4. ASSUME opt, Created(t, r, s, n) PROVE Walked(r, n + 1)
    <2> DEFINE new == InsertChild(t, t.at, n)
    <2>1. r = [new EXCEPT !.name = Extend(@, n, s)] /\ n < MaxNodes
      BY <1>4 DEF Created
    <2>2. \A j \in Numbers(n) : t.tree[j].obj # n
      <3>1. \A j \in Numbers(n) : t.tree[j].obj \in {j} \cup File
        BY <1>1 DEF SoundTree
      <3>2. \A f \in File : f # n
        BY <1>1, <2>1, VfsAssumption
      <3> QED
        BY <1>1, <3>1, <3>2 DEF Numbers
    <2>3. /\ SoundTree(new.tree, n + 1)
          /\ \A gone \in SUBSET (Born(n)) : Linked(t.tree, n, gone) => Linked(new.tree, n + 1, gone)
      BY <1>1, <2>1, <2>2, Placing
    <2>4. n \in Objects /\ n \notin File
      BY <1>1, <2>1, VfsAssumption DEF Objects, Ids
    <2>5. /\ new \in [tree : {new.tree}, name : {t.name}, at : {n}, lost : {t.lost \/ t.tree[t.at].cut}]
          /\ new.tree[n] = Leaf(n, t.at)
          /\ \A j \in Numbers(n) : new.tree[j].obj = t.tree[j].obj
      BY <1>1, <2>1, <2>4, Inserting
    <2> HIDE DEF new
    <2>6. r.tree = new.tree /\ r \in [tree : {r.tree}, name : {r.name}, at : {n}, lost : {r.lost}]
      BY <2>1, <2>5
    <2>7. Numbers(n + 1) = Numbers(n) \cup {n} /\ n + 1 \in Size..MaxNodes /\ Numbers(Size) \subseteq Numbers(n)
          /\ Born(Size) \subseteq Born(n)
      BY <1>1, <2>1, VfsAssumption DEF Walked, Numbers, Born
    <2>8. Linked(r.tree, n + 1, freed)
      BY <2>3, <2>6, <2>7 DEF Walked, TreeInv
    <2>9. new.tree[n].obj = n
      BY <2>5 DEF Leaf
    <2>10. \A j \in Numbers(Size) : r.tree[j].obj = tree[j].obj
      BY <2>5, <2>6, <2>7 DEF Walked
    <2>11. \A j \in Numbers(n + 1) : r.tree[j].obj \in File => j \in Numbers(Size)
      BY <2>4, <2>5, <2>6, <2>7, <2>9 DEF Walked
    <2>12. r \in [tree : {r.tree}, name : {r.name}, at : Numbers(n + 1), lost : {r.lost}]
      BY <2>6, <2>7
    <2> QED
      BY <2>3, <2>6, <2>7, <2>8, <2>10, <2>11, <2>12 DEF Walked
  <1> QED
    BY <1>2, <1>3, <1>4

LEMMA Walking ==
  ASSUME TreeInv, NEW d \in Seq(STRING), NEW opt, opt => Size + Len(d) < MaxNodes, NEW t \in WalksTo(d, opt)
  PROVE  \E n \in Size..(Size + Len(d)) : Walked(t, n) /\ (~opt => n = Size)
  <1>1. Size \in Nat /\ MaxNodes \in Nat /\ Len(d) \in Nat /\ Size > 0 /\ Size \in 1..MaxNodes
    BY VfsAssumption DEF TreeInv, SoundTree
  <1>2. PICK w : AreWalks(w, d, opt) /\ WalksTo(d, opt) = w[Len(d)]
    BY <1>1, WalkIsInductive
  <1>3. /\ w[0] = {Here}
        /\ \A k \in 0..(Len(d) - 1) : \A r \in w[k + 1] :
              \E x \in w[k] : r \in CreateOrTraverse(x, d[k + 1], opt)
    BY <1>2, WalksAre
  <1> DEFINE Good(k) == \A r \in w[k] : \E n \in Size..(Size + k) : Walked(r, n) /\ (~opt => n = Size)
             T == {k \in 0..Len(d) : Good(k)}
  <1>4. 0 \in T
    <2>1. /\ Here.tree = tree /\ Here.at = 0
          /\ Here \in [tree : {Here.tree}, name : {Here.name}, at : {0}, lost : {Here.lost}]
      BY DEF Here
    <2>2. 0 \in Numbers(Size) /\ Size \in Size..MaxNodes /\ Size \in Size..(Size + 0)
      BY <1>1 DEF Numbers
    <2>3. Walked(Here, Size)
      BY <2>1, <2>2 DEF Walked, TreeInv
    <2> QED
      BY <1>1, <1>3, <2>2, <2>3
  <1>5. ASSUME NEW k \in 0..(Len(d) - 1), k \in T PROVE k + 1 \in T
    <2> SUFFICES ASSUME NEW r \in w[k + 1]
                 PROVE  \E n \in Size..(Size + (k + 1)) : Walked(r, n) /\ (~opt => n = Size)
      BY <1>1
    <2>1. PICK x \in w[k] : r \in CreateOrTraverse(x, d[k + 1], opt)
      BY <1>3
    <2>2. PICK n \in Size..(Size + k) : Walked(x, n) /\ (~opt => n = Size)
      BY <1>5
    <2>3. opt => n < MaxNodes
      BY <1>1, <2>2
    <2>4. PICK m \in {n, n + 1} : Walked(r, m) /\ (~opt => m = n)
      BY <2>1, <2>2, <2>3, Stepping
    <2>5. m \in Size..(Size + (k + 1))
      BY <1>1, <2>2
    <2> QED
      BY <2>2, <2>4, <2>5
  <1> HIDE DEF T
  <1>6. 0..Len(d) \subseteq T
    BY <1>1, <1>4, <1>5, UpTo
  <1>7. Len(d) \in T
    BY <1>1, <1>6
  <1> QED
    BY <1>2, <1>7 DEF T

\* What a look-up comes to, with what is read on the way, is of the tree.
LEMMA FoundIn ==
  ASSUME TreeInv, NEW d \in Seq(STRING), NEW i \in Found(d)
  PROVE  i \in Numbers(Size)
  <1>1. PICK t \in WalksTo(d, FALSE) : i = t.at
    BY DEF Found
  <1>2. PICK n \in Size..(Size + Len(d)) : Walked(t, n) /\ n = Size
    BY <1>1, Walking
  <1> QED
    BY <1>1, <1>2 DEF Walked

\* What a look-up finds in the tree of t, name by name.
FindIn(t, p) ==
    LET level[k \in 0..Len(p)] ==
            IF k = 0 THEN 0
            ELSE LET up == level[k - 1] IN IF up = None THEN None ELSE MatchChild(t, up, p[k])
    IN  level[Len(p)]

Child(t, up, s) == IF up = None THEN None ELSE MatchChild(t, up, s)

LEMMA Finding ==
  ASSUME NEW t, NEW n, SoundTree(t.tree, n), NEW p \in Seq(STRING)
  PROVE  \E level \in [0..Len(p) -> Numbers(n) \cup {None}] :
            /\ level[0] = 0
            /\ \A k \in 1..Len(p) : level[k] = Child(t, level[k - 1], p[k])
            /\ FindIn(t, p) = level[Len(p)]
  <1> DEFINE X == Numbers(n) \cup {None}
             G == [x \in X \X (1..Len(p)) |-> Child(t, x[1], p[x[2]])]
             Step(level, k) == IF k = 0 THEN 0
                               ELSE LET up == level[k - 1] IN IF up = None THEN None ELSE MatchChild(t, up, p[k])
             Levels(level) == level = [k \in 0..Len(p) |-> Step(level, k)]
             chosen == CHOOSE level : Levels(level)
  <1>1. Len(p) \in Nat /\ n \in Nat /\ 0 \in Numbers(n)
    BY VfsAssumption DEF SoundTree, Numbers
  <1>2. G \in [X \X (1..Len(p)) -> X]
    <2>1. ASSUME NEW up \in X, NEW s PROVE Child(t, up, s) \in X
      BY <2>1, Matched DEF Child
    <2> HIDE DEF X
    <2> QED
      BY <2>1
  <1>3. PICK f \in [0..Len(p) -> X] : f[0] = 0 /\ \A k \in 1..Len(p) : f[k] = G[<<f[k - 1], k>>]
    <2>1. 0 \in X
      BY <1>1
    <2>2. \A x \in X, k \in 1..Len(p) : G[<<x, k>>] \in X
      BY <1>2
    <2> HIDE DEF X, G
    <2>3. \E f : IsRun(f, X, 0, G, Len(p))
      BY <1>1, <2>1, <2>2, Iterated
    <2> QED
      BY <2>3 DEF IsRun
  <1>4. f = [k \in 0..Len(p) |-> Step(f, k)]
    <2>1. ASSUME NEW k \in 0..Len(p) PROVE f[k] = Step(f, k)
      <3>1. CASE k = 0
        BY <1>3, <3>1
      <3>2. CASE k # 0
        <4>1. k - 1 \in 0..Len(p) /\ k \in 1..Len(p)
          BY <1>1, <3>2
        <4>2. f[k - 1] \in X
          BY <1>3, <4>1
        <4>3. G[<<f[k - 1], k>>] = Child(t, f[k - 1], p[k])
          <5> HIDE DEF X
          <5> QED
            BY <4>1, <4>2
        <4> HIDE DEF G
        <4> QED
          BY <1>3, <3>2, <4>1, <4>3 DEF Child
      <3> QED
        BY <3>1, <3>2
    <2> HIDE DEF Step, G
    <2> QED
      BY <1>3, <2>1
  <1>5. Levels(chosen)
    BY <1>4
  <1>6. FindIn(t, p) = chosen[Len(p)]
    BY DEF FindIn
  <1> HIDE DEF chosen
  <1>7. chosen[0] = 0
    BY <1>1, <1>5
  <1>8. ASSUME NEW k \in 1..Len(p) PROVE chosen[k] = Child(t, chosen[k - 1], p[k])
    <2>1. chosen[k] = Step(chosen, k) /\ k # 0
      BY <1>5
    <2> QED
      BY <2>1 DEF Child
  <1> HIDE DEF Step, G
  <1>9. \A k \in 0..Len(p) : chosen[k] \in X
    <2> DEFINE T == {k \in 0..Len(p) : chosen[k] \in X}
    <2>1. 0 \in T
      BY <1>1, <1>7
    <2>2. ASSUME NEW k \in 0..(Len(p) - 1), k \in T PROVE k + 1 \in T
      <3>1. chosen[k + 1] = Child(t, chosen[k], p[k + 1]) /\ k + 1 \in 0..Len(p)
        BY <1>1, <1>8
      <3>2. Child(t, chosen[k], p[k + 1]) \in X
        BY <2>2, Matched DEF Child
      <3> QED
        BY <3>1, <3>2
    <2> HIDE DEF T
    <2>3. 0..Len(p) \subseteq T
      BY <1>1, <2>1, <2>2, UpTo
    <2> QED
      BY <2>3 DEF T
  <1>10. chosen \in [0..Len(p) -> X]
    <2> HIDE DEF X
    <2> QED
      BY <1>5, <1>9
  <1> QED
    BY <1>6, <1>7, <1>8, <1>10

LEMMA LookupIs ==
  ASSUME NEW p
  PROVE  Lookup(p) = FindIn(Here, p)
  BY DEF Lookup, FindIn

LEMMA LookupFinds ==
  ASSUME TreeInv, NEW p \in Seq(STRING)
  PROVE  Lookup(p) \in Numbers(Size) \cup {None}
  <1>1. SoundTree(Here.tree, Size) /\ Len(p) \in Nat
    BY DEF TreeInv, Here
  <1> QED
    BY <1>1, Finding, LookupIs

\* What is below a node is younger, and hangs on it.
LEMMA Below ==
  ASSUME TreeInv, NEW i \in Born(Size)
  PROVE  /\ Subtree(i) \subseteq Born(Size) /\ i \in Subtree(i)
         /\ \A k \in Subtree(i) : k = i \/ tree[k].parent \in Subtree(i)
  <1> DEFINE X == SUBSET Born(Size)
             Grown(r) == r \cup UNION {Range(tree[k].kids) : k \in r}
             G == [x \in X \X (1..MaxNodes) |-> Grown(x[1])]
             Step(reach, n) == IF n = 0 THEN {i}
                               ELSE reach[n - 1] \cup UNION {Range(tree[k].kids) : k \in reach[n - 1]}
             Reach(reach) == reach = [n \in 0..MaxNodes |-> Step(reach, n)]
             chosen == CHOOSE reach : Reach(reach)
  <1>1. MaxNodes \in Nat /\ Size \in Nat
    BY VfsAssumption DEF TreeInv, SoundTree
  <1>2. ASSUME NEW r \in X PROVE Grown(r) \in X
    <2>1. ASSUME NEW k \in r PROVE Range(tree[k].kids) \subseteq Born(Size)
      <3>1. k \in Numbers(Size)
        BY <1>1 DEF Born, Numbers
      <3>2. tree[k].kids \in Seq(Born(Size))
        BY <3>1 DEF TreeInv, SoundTree
      <3>3. DOMAIN tree[k].kids = 1..Len(tree[k].kids)
        BY <3>2, LenProperties
      <3> QED
        BY <3>2, <3>3, ElementOfSeq DEF Range
    <2> QED
      BY <2>1
  <1>3. PICK f \in [0..MaxNodes -> X] : f[0] = {i} /\ \A n \in 1..MaxNodes : f[n] = G[<<f[n - 1], n>>]
    <2>1. {i} \in X
      OBVIOUS
    <2>2. G \in [X \X (1..MaxNodes) -> X]
      <3> HIDE DEF X, Grown
      <3> QED
        BY <1>2
    <2>3. \A x \in X, n \in 1..MaxNodes : G[<<x, n>>] \in X
      BY <2>2
    <2> HIDE DEF X, G
    <2>4. \E f : IsRun(f, X, {i}, G, MaxNodes)
      BY <1>1, <2>1, <2>3, Iterated
    <2> QED
      BY <2>4 DEF IsRun
  <1>4. f = [n \in 0..MaxNodes |-> Step(f, n)]
    <2>1. ASSUME NEW n \in 0..MaxNodes PROVE f[n] = Step(f, n)
      <3>1. CASE n = 0
        BY <1>3, <3>1
      <3>2. CASE n # 0
        <4>1. n - 1 \in 0..MaxNodes /\ n \in 1..MaxNodes
          BY <1>1, <3>2
        <4>2. f[n - 1] \in X
          BY <1>3, <4>1
        <4>3. G[<<f[n - 1], n>>] = Grown(f[n - 1])
          <5> HIDE DEF X, Grown
          <5> QED
            BY <4>1, <4>2
        <4>4. f[n] = Grown(f[n - 1])
          BY <1>3, <3>2, <4>1, <4>3
        <4> QED
          BY <3>2, <4>4
      <3> QED
        BY <3>1, <3>2
    <2> HIDE DEF Step, G
    <2> QED
      BY <1>3, <2>1
  <1>5. Reach(chosen)
    BY <1>4
  <1>6. Subtree(i) = chosen[MaxNodes]
    BY DEF Subtree
  <1> HIDE DEF chosen
  <1>7. chosen[0] = {i}
    BY <1>1, <1>5
  <1>8. ASSUME NEW n \in 1..MaxNodes PROVE chosen[n] = Grown(chosen[n - 1])
    BY <1>1, <1>5
  <1> DEFINE Hangs(r) == \A k \in r : k = i \/ tree[k].parent \in r
             T == {n \in 0..MaxNodes : chosen[n] \in X /\ i \in chosen[n] /\ Hangs(chosen[n])}
  <1>9. 0 \in T
    BY <1>1, <1>7
  <1>10. ASSUME NEW r \in X, Hangs(r) PROVE Hangs(Grown(r))
    <2> SUFFICES ASSUME NEW k \in Grown(r), k \notin r PROVE tree[k].parent \in r
      BY <1>10
    <2>1. PICK m \in r : k \in Range(tree[m].kids)
      OBVIOUS
    <2>2. m \in Numbers(Size)
      BY <1>1 DEF Born, Numbers
    <2>3. tree[m].kids \in Seq(Born(Size)) /\ \A x \in 1..Len(tree[m].kids) : tree[tree[m].kids[x]].parent = m
      BY <2>2 DEF TreeInv, SoundTree
    <2>4. DOMAIN tree[m].kids = 1..Len(tree[m].kids)
      BY <2>3, LenProperties
    <2> QED
      BY <2>1, <2>3, <2>4 DEF Range
  <1>11. ASSUME NEW n \in 0..(MaxNodes - 1), n \in T PROVE n + 1 \in T
    <2>1. chosen[n + 1] = Grown(chosen[n])
      BY <1>1, <1>8
    <2>2. Hangs(Grown(chosen[n])) /\ Grown(chosen[n]) \in X
      BY <1>2, <1>11, <1>10
    <2>3. i \in Grown(chosen[n])
      BY <1>11
    <2> HIDE DEF X, Hangs, Grown
    <2> QED
      BY <1>1, <2>1, <2>2, <2>3
  <1> HIDE DEF T
  <1>12. MaxNodes \in T
    <2>1. 0..MaxNodes \subseteq T
      BY <1>1, <1>9, <1>11, UpTo
    <2> QED
      BY <1>1, <2>1
  <1> QED
    BY <1>6, <1>12 DEF T

\* list_remove() of a cell keeps the order of the others.
LEMMA Removing ==
  ASSUME NEW S, NEW s \in Seq(S), NEW k \in 1..Len(s)
  PROVE  /\ RemoveAt(s, k) \in Seq(S) /\ Len(RemoveAt(s, k)) = Len(s) - 1
         /\ \A j \in 1..(Len(s) - 1) : RemoveAt(s, k)[j] = IF j < k THEN s[j] ELSE s[j + 1]
  <1> DEFINE a == SubSeq(s, 1, k - 1)
             b == SubSeq(s, k + 1, Len(s))
             m == Len(s)
  <1>1. m \in Nat /\ k \in Int /\ \A j \in 1..m : s[j] \in S
    BY ElementOfSeq
  <1>2. a \in Seq(S) /\ Len(a) = k - 1 /\ \A j \in 1..(k - 1) : a[j] = s[j]
    <2>1. \A j \in 1..(k - 1) : s[j] \in S
      BY <1>1
    <2>2. k - 1 \in Int /\ (k - 1) - 1 + 1 = k - 1 /\ (~(1 <= k - 1) => k - 1 = 0)
      BY <1>1
    <2> QED
      BY <1>1, <2>1, <2>2, SubSeqProperties
  <1>3. b \in Seq(S) /\ Len(b) = m - k /\ \A j \in 1..(m - k) : b[j] = s[k + j]
    <2>1. \A j \in (k + 1)..m : s[j] \in S
      BY <1>1
    <2>2. /\ b \in Seq(S)
          /\ Len(b) = IF k + 1 <= m THEN m - (k + 1) + 1 ELSE 0
          /\ \A j \in 1..(m - (k + 1) + 1) : b[j] = s[(k + 1) + j - 1]
      <3>1. k + 1 \in Int /\ m \in Int
        BY <1>1
      <3> QED
        BY <2>1, <3>1, SubSeqProperties
    <2> HIDE DEF b
    <2>3. Len(b) = m - k
      BY <1>1, <2>2
    <2>4. ASSUME NEW j \in 1..(m - k) PROVE b[j] = s[k + j]
      <3>1. j \in 1..(m - (k + 1) + 1) /\ (k + 1) + j - 1 = k + j
        BY <1>1
      <3>2. b[j] = s[(k + 1) + j - 1]
        BY <2>2, <3>1
      <3> QED
        BY <3>1, <3>2
    <2> QED
      BY <2>2, <2>3, <2>4
  <1> HIDE DEF a, b
  <1>4. /\ a \o b \in Seq(S) /\ Len(a \o b) = m - 1
        /\ \A j \in 1..(m - 1) : (a \o b)[j] = IF j <= k - 1 THEN a[j] ELSE b[j - (k - 1)]
    <2>1. Len(a) + Len(b) = m - 1
      BY <1>1, <1>2, <1>3
    <2>2. /\ a \o b \in Seq(S) /\ Len(a \o b) = Len(a) + Len(b)
          /\ \A j \in 1..(Len(a) + Len(b)) : (a \o b)[j] = IF j <= Len(a) THEN a[j] ELSE b[j - Len(a)]
      BY <1>2, <1>3, ConcatProperties
    <2> QED
      BY <1>2, <2>1, <2>2
  <1>5. RemoveAt(s, k) = a \o b
    BY DEF RemoveAt, a, b
  <1>6. ASSUME NEW j \in 1..(m - 1) PROVE (a \o b)[j] = IF j < k THEN s[j] ELSE s[j + 1]
    <2>1. CASE j < k
      BY <1>1, <1>2, <1>4, <2>1
    <2>2. CASE ~(j < k)
      <3>1. j - (k - 1) \in 1..(m - k) /\ k + (j - (k - 1)) = j + 1 /\ ~(j <= k - 1)
        BY <1>1, <2>2
      <3> QED
        BY <1>3, <1>4, <2>2, <3>1
    <2> QED
      BY <2>1, <2>2
  <1> QED
    BY <1>4, <1>5, <1>6

LEMMA Unlinking ==
  ASSUME TreeInv, first, NEW i \in Born(Size)
  PROVE  LET up == tree[i].parent IN
         /\ \E place \in 1..Len(tree[up].kids) :
               /\ tree[up].kids[place] = i
               /\ Unlink(i)[up].kids = RemoveAt(tree[up].kids, place)
         /\ \A j \in Numbers(Size) : /\ Unlink(i)[j].obj = tree[j].obj /\ Unlink(i)[j].parent = tree[j].parent
                                     /\ j # up => Unlink(i)[j].kids = tree[j].kids
         /\ SoundTree(Unlink(i), Size) /\ Linked(Unlink(i), Size, {i})
  <1> DEFINE n == Size
             up == tree[i].parent
             u == Unlink(i)
             place == CHOOSE k \in DOMAIN tree[up].kids : tree[up].kids[k] = i
  <1>1. n \in Nat /\ i \in Numbers(n) /\ i # 0 /\ Born(n) \subseteq Numbers(n) /\ 0 \in Numbers(n) /\ freed = {}
    BY VfsAssumption DEF TreeInv, SoundTree, Born, Numbers
  <1>2. /\ n \in 1..MaxNodes /\ tree \in [Numbers(n) -> Tree] /\ tree[0].obj = 0
        /\ \A j \in Numbers(n) :
              /\ tree[j].obj \in {j} \cup File /\ tree[j].parent \in Numbers(n)
              /\ tree[j].kids \in Seq(Born(n))
              /\ \A k \in 1..Len(tree[j].kids) :
                    /\ j < tree[j].kids[k] /\ tree[tree[j].kids[k]].parent = j
                    /\ \A l \in 1..Len(tree[j].kids) : tree[j].kids[k] = tree[j].kids[l] => k = l
        /\ \A j, k \in Numbers(n) : tree[j].obj = tree[k].obj => j = k
    BY DEF TreeInv, SoundTree
  <1>3. \A j \in Numbers(n) \ {0} : \E k \in 1..Len(tree[tree[j].parent].kids) : tree[tree[j].parent].kids[k] = j
    BY <1>1 DEF TreeInv, Linked
  <1> DEFINE s == tree[up].kids
             r == RemoveAt(s, place)
  <1>4. up \in Numbers(n) /\ s \in Seq(Born(n)) /\ DOMAIN s = 1..Len(s) /\ Len(s) \in Nat
    BY <1>1, <1>2, LenProperties
  <1>5. place \in 1..Len(s) /\ s[place] = i
    BY <1>1, <1>3, <1>4
  <1> HIDE DEF place
  <1>6. /\ r \in Seq(Born(n)) /\ Len(r) = Len(s) - 1
        /\ \A j \in 1..(Len(s) - 1) : r[j] = IF j < place THEN s[j] ELSE s[j + 1]
    BY <1>4, <1>5, Removing
  <1>7. /\ u \in [Numbers(n) -> Tree]
        /\ \A j \in Numbers(n) : /\ u[j].obj = tree[j].obj /\ u[j].parent = tree[j].parent
                                 /\ u[j].kids = IF j = up THEN r ELSE tree[j].kids
    <2>1. u = [tree EXCEPT ![up].kids = RemoveAt(@, place), ![up].cut = TRUE]
      BY DEF Unlink, place
    <2>2. u = [tree EXCEPT ![up] = [tree[up] EXCEPT !.kids = r, !.cut = TRUE]]
      <3> HIDE DEF u
      <3> QED
        BY ZenonT(40), <1>2, <1>4, <2>1
    <2>3. r \in Seq(Ids)
      <3>1. Born(n) \subseteq Ids
        BY <1>2, VfsAssumption DEF Born, Ids
      <3> QED
        BY <1>6, <3>1, SeqMonotonic
    <2> HIDE DEF r, u, up
    <2>4. [tree[up] EXCEPT !.kids = r, !.cut = TRUE] \in Tree
      <3>1. ASSUME NEW x \in Tree, NEW q \in Seq(Ids) PROVE [x EXCEPT !.kids = q, !.cut = TRUE] \in Tree
        BY DEF Tree
      <3>2. tree[up] \in Tree
        BY <1>2, <1>4
      <3> QED
        BY <2>3, <3>1, <3>2
    <2> QED
      BY <1>2, <1>4, <2>2, <2>4 DEF Tree
  <1> HIDE DEF r, u, s
  <1> HIDE DEF n, up
  <1>8. \A k \in 1..Len(r) : \E l \in 1..Len(s) : r[k] = s[l] /\ l # place /\ (k < place => l = k) /\ (~(k < place) => l = k + 1)
    BY <1>4, <1>5, <1>6
  <1>9. \A l \in 1..Len(s) : l # place => \E k \in 1..Len(r) : r[k] = s[l]
    <2> SUFFICES ASSUME NEW l \in 1..Len(s), l # place PROVE \E k \in 1..Len(r) : r[k] = s[l]
      OBVIOUS
    <2>1. CASE l < place
      BY <1>4, <1>5, <1>6, <2>1
    <2>2. CASE place < l
      <3>1. l - 1 \in 1..Len(r) /\ ~(l - 1 < place) /\ l - 1 + 1 = l
        BY <1>4, <1>5, <1>6, <2>2
      <3> QED
        BY <1>4, <1>5, <1>6, <3>1
    <2> QED
      BY <1>4, <1>5, <2>1, <2>2
  <1>10. ASSUME NEW j \in Numbers(n), NEW k \in 1..Len(u[j].kids)
        PROVE  /\ j < u[j].kids[k] /\ u[u[j].kids[k]].parent = j
               /\ \A l \in 1..Len(u[j].kids) : u[j].kids[k] = u[j].kids[l] => k = l
    <2>1. CASE j # up
      <3> DEFINE q == tree[j].kids
      <3>1. u[j].kids = q /\ q \in Seq(Born(n))
        BY <1>2, <1>7, <2>1
      <3>2. k \in 1..Len(q)
        BY <1>10, <3>1
      <3>3. q[k] \in Numbers(n)
        BY <1>1, <3>1, <3>2, ElementOfSeq
      <3>4. j < q[k] /\ tree[q[k]].parent = j /\ \A l \in 1..Len(q) : q[k] = q[l] => k = l
        BY <1>2, <3>2
      <3> HIDE DEF q
      <3> QED
        BY <1>7, <3>1, <3>3, <3>4
    <2>2. CASE j = up
      <3>1. u[j].kids = r /\ k \in 1..Len(r)
        BY <1>7, <1>10, <2>2
      <3>2. PICK l \in 1..Len(s) : r[k] = s[l] /\ l # place /\ (k < place => l = k) /\ (~(k < place) => l = k + 1)
        BY <1>8, <3>1
      <3>3. s[l] \in Numbers(n) /\ j < s[l] /\ tree[s[l]].parent = j
        BY <1>1, <1>2, <1>4, <2>2, ElementOfSeq DEF s
      <3>4. ASSUME NEW x \in 1..Len(r), r[x] = r[k] PROVE x = k
        <4>1. PICK y \in 1..Len(s) : r[x] = s[y] /\ y # place /\ (x < place => y = x) /\ (~(x < place) => y = x + 1)
          BY <1>8
        <4>2. y = l
          BY ZenonT(40), <1>2, <1>4, <3>2, <3>4, <4>1 DEF s
        <4> QED
          BY <1>4, <1>5, <1>6, <3>1, <3>2, <4>1, <4>2
      <3> QED
        BY <1>7, <3>1, <3>2, <3>3, <3>4
    <2> QED
      BY <2>1, <2>2
  <1>11. SoundTree(u, n)
    <2>1. \A j \in Numbers(n) : u[j].kids \in Seq(Born(n))
      BY <1>2, <1>6, <1>7
    <2> QED
      BY <1>1, <1>2, <1>7, <1>10, <2>1 DEF SoundTree
  <1>12. Linked(u, n, {i})
    <2>1. ASSUME NEW j \in Numbers(n) \ ({i} \cup {0})
          PROVE  \E k \in 1..Len(u[u[j].parent].kids) : u[u[j].parent].kids[k] = j
      <3>1. PICK l \in 1..Len(tree[tree[j].parent].kids) : tree[tree[j].parent].kids[l] = j
        BY <1>3
      <3>2. u[j].parent = tree[j].parent /\ tree[j].parent \in Numbers(n)
        BY <1>2, <1>7
      <3>3. CASE tree[j].parent # up
        BY <1>7, <3>1, <3>2, <3>3
      <3>4. CASE tree[j].parent = up
        <4>1. l \in 1..Len(s) /\ s[l] = j /\ l # place
          BY <1>5, <3>1, <3>4 DEF s
        <4>2. u[up].kids = r
          BY <1>4, <1>7
        <4> QED
          BY <1>9, <3>2, <3>4, <4>1, <4>2
      <3> QED
        BY <3>3, <3>4
    <2> QED
      BY <2>1 DEF Linked
  <1>13. u[up].kids = r
    BY <1>4, <1>7
  <1> QED
    BY <1>5, <1>7, <1>11, <1>12, <1>13 DEF n, up, u, r, s

-----------------------------------------------------------------------------
(* The steps                                                               *)

LEMMA Bounds ==
  ASSUME TreeInv
  PROVE  /\ Size \in 1..MaxNodes /\ MaxNodes \in Nat /\ DOMAIN tree = Numbers(Size)
         /\ Numbers(Size) \subseteq Ids /\ Born(Size) = Numbers(Size) \ {0} /\ 0 \in Numbers(Size)
         /\ None \notin Ids /\ None \notin File /\ Ids \cap File = {} /\ File \subseteq Objects /\ Ids \subseteq Objects
  <1>1. Size \in 1..MaxNodes /\ MaxNodes \in Nat
    BY VfsAssumption DEF TreeInv, SoundTree
  <1>2. DOMAIN tree = Numbers(Size)
    BY SizeOf DEF TreeInv
  <1>3. Numbers(Size) \subseteq Ids /\ Born(Size) = Numbers(Size) \ {0} /\ 0 \in Numbers(Size) /\ None \notin Ids
    BY <1>1 DEF Numbers, Born, Ids, None
  <1>4. None \notin File /\ Ids \cap File = {}
    BY <1>1, VfsAssumption DEF Ids, None
  <1> QED
    BY <1>1, <1>2, <1>3, <1>4 DEF Objects

\* Nothing of the tree has changed, nor the flags.
LEMMA SameTree ==
  ASSUME IInv, UNCHANGED nodes
  PROVE  TreeInv' /\ PlacedInv' /\ RemovingInv' /\ Size' = Size /\ DOMAIN vfsPtr' = DOMAIN vfsPtr
  BY DEF IInv, TreeInv, SoundTree, Linked, PlacedInv, RemovingInv, Size, nodes

\* What goes wrong changes nothing that can be said.
LEMMA Lost ==
  ASSUME IInv, NEW s \in {"undefined", "lost", "freed"}, Fails(s), UNCHANGED threads
  PROVE  IInv'
  <1>1. UNCHANGED <<nodes, ref, ops, threads>> /\ status' = s
    BY DEF Fails
  <1>2. TreeInv' /\ PlacedInv' /\ RemovingInv' /\ Size' = Size /\ DOMAIN vfsPtr' = DOMAIN vfsPtr
    BY <1>1, SameTree
  <1>3. FlagsTyped'
    BY <1>1 DEF IInv, FlagsTyped, nodes
  <1>4. ThreadInv'
    BY <1>1, <1>2 DEF IInv, ThreadInv, threads
  <1>5. OpenInv' /\ OpsInv'
    BY <1>1, <1>2 DEF IInv, OpenInv, OpsInv, Holds, threads
  <1>6. ClosedAfterUse'
    BY <1>1 DEF ClosedAfterUse
  <1> QED
    BY <1>2, <1>3, <1>4, <1>5, <1>6 DEF IInv

\* vfs_mount() that has gone well, of a tree with the new node.
MountsOf(d, f, new) ==
    /\ tree' = new.tree /\ name' = new.name
    /\ vfsPtr' = Extend(vfsPtr, f, IF d = <<>> THEN 0 ELSE new.at)
    /\ IF d = <<>> THEN UNCHANGED <<ref, ops>>
       ELSE /\ ref' = [ref EXCEPT ![f] = FALSE]
            /\ ops' = [ops EXCEPT ![f] = Mounted(f)]
    /\ UNCHANGED <<freed, first, removing, status>>

LEMMA MountIs ==
  ASSUME NEW d, NEW f, Mount(d, f)
  PROVE  \/ Fails("lost") \/ Fails("undefined")
         \/ \E t \in WalksTo(d, TRUE) : ~InsertChild(t, t.at, f).lost /\ MountsOf(d, f, InsertChild(t, t.at, f))
  BY DEF Mount, MountsOf

\* vfs_mount(): the new node belongs to a file that was not in the tree, which
\* no thread can have open.
LEMMA MountKeeps ==
  ASSUME IInv, NEW d \in Seq(STRING), NEW f \in File, Mount(d, f)
  PROVE  IInv'
  <1> USE DEF IInv
  <1>1. /\ Size \in 1..MaxNodes /\ MaxNodes \in Nat /\ DOMAIN tree = Numbers(Size)
        /\ Ids \cap File = {} /\ File \subseteq Objects /\ Len(d) \in Nat
    BY Bounds
  <1>2. Size + Len(d) < MaxNodes /\ status = "ok" /\ f \notin DOMAIN vfsPtr /\ UNCHANGED threads
    BY DEF Mount, Mountable, Size
  <1>3. CASE Fails("lost") \/ Fails("undefined")
    BY <1>2, <1>3, Lost
  <1>4. ASSUME NEW t \in WalksTo(d, TRUE), MountsOf(d, f, InsertChild(t, t.at, f)) PROVE IInv'
    <2> DEFINE new == InsertChild(t, t.at, f)
    <2>1. /\ tree' = new.tree /\ name' = new.name
          /\ vfsPtr' = Extend(vfsPtr, f, IF d = <<>> THEN 0 ELSE new.at)
          /\ IF d = <<>> THEN UNCHANGED <<ref, ops>>
             ELSE /\ ref' = [ref EXCEPT ![f] = FALSE]
                  /\ ops' = [ops EXCEPT ![f] = Mounted(f)]
          /\ UNCHANGED <<freed, first, removing, status>>
      BY <1>4 DEF MountsOf
    <2>2. PICK n \in Size..(Size + Len(d)) : Walked(t, n)
      BY <1>2, Walking
    <2>3. /\ n \in Nat /\ n < MaxNodes /\ Size <= n /\ SoundTree(t.tree, n) /\ Linked(t.tree, n, freed)
          /\ t.at \in Numbers(n)
          /\ t \in [tree : {t.tree}, name : {t.name}, at : {t.at}, lost : {t.lost}]
          /\ \A j \in Numbers(Size) : t.tree[j].obj = tree[j].obj
          /\ \A j \in Numbers(n) : t.tree[j].obj \in File => j \in Numbers(Size)
      BY <1>1, <1>2, <2>2 DEF Walked
    <2>4. \A j \in Numbers(n) : t.tree[j].obj # f
      BY <1>2, <2>3 DEF PlacedInv
    <2>5. /\ SoundTree(new.tree, n + 1)
          /\ \A gone \in SUBSET (Born(n)) : Linked(t.tree, n, gone) => Linked(new.tree, n + 1, gone)
      BY <2>3, <2>4, Placing
    <2>6. /\ new.at = n /\ new.tree[n] = Leaf(f, t.at)
          /\ \A j \in Numbers(n) : new.tree[j].obj = t.tree[j].obj
      BY <1>1, <2>3, Inserting
    <2> HIDE DEF new
    <2>7. /\ Numbers(n + 1) = Numbers(n) \cup {n} /\ Numbers(Size) \subseteq Numbers(n)
          /\ Born(Size) \subseteq Born(n) /\ Born(n) \subseteq Born(n + 1) /\ 0 \in Numbers(n)
      BY <1>1, <2>3 DEF Numbers, Born
    <2>8. Size' = n + 1 /\ DOMAIN tree' = Numbers(n + 1)
      BY <2>1, <2>5, SizeOf DEF Size
    <2>9. TreeInv'
      <3>1. Linked(new.tree, n + 1, freed)
        BY <2>3, <2>5, <2>7 DEF TreeInv
      <3>2. freed \subseteq Born(n + 1) /\ (first => freed = {})
        BY <2>7 DEF TreeInv
      <3> QED
        BY <2>1, <2>5, <2>8, <3>1, <3>2 DEF TreeInv
    <2>10. DOMAIN vfsPtr' = DOMAIN vfsPtr \cup {f}
      BY <2>1 DEF Extend
    <2>11. \A j \in Numbers(n + 1) : tree'[j].obj \in File => tree'[j].obj = f \/ (j \in Numbers(Size) /\ tree'[j].obj = tree[j].obj)
      BY <2>1, <2>3, <2>6, <2>7 DEF Leaf
    <2>12. PlacedInv'
      <3>1. vfsPtr' \in [DOMAIN vfsPtr' -> Numbers(n + 1)]
        <4>1. \A x \in DOMAIN vfsPtr : vfsPtr[x] \in Numbers(n + 1)
          BY <2>7 DEF PlacedInv
        <4>2. (IF d = <<>> THEN 0 ELSE new.at) \in Numbers(n + 1)
          BY <2>6, <2>7
        <4> QED
          BY <2>1, <4>1, <4>2 DEF Extend
      <3>2. \A j \in Numbers(n + 1) : tree'[j].obj \in File => tree'[j].obj \in DOMAIN vfsPtr'
        BY <2>10, <2>11 DEF PlacedInv
      <3> QED
        BY <2>8, <2>10, <3>1, <3>2 DEF PlacedInv
    <2>13. FlagsTyped'
      <3>1. Mounted(f) \in {"ramfs", "none", "wild"}
        BY DEF Mounted, FlagsTyped
      <3> QED
        BY <1>1, <2>1, <3>1 DEF FlagsTyped
    <2>14. ThreadInv'
      <3>1. Numbers(Size) \subseteq Numbers(n + 1)
        BY <2>7
      <3> QED
        BY <1>2, <2>8, <2>10, <3>1 DEF ThreadInv, threads
    <2>15. \A p \in Proc : obj[p] # f \/ pc[p] \in {"idle", "data"}
      BY <1>1, <1>2 DEF ThreadInv
    <2>16. \A g \in File \ {f} : ref'[g] = ref[g] /\ ops'[g] = ops[g]
      BY <1>1, <2>1 DEF FlagsTyped
    <2>17. \A p \in Proc, g \in File : Holds(p, g)' <=> Holds(p, g)
      BY <1>2 DEF Holds, threads
    <2>18. \A p \in Proc : ~Holds(p, f)
      BY <2>15 DEF Holds
    <2>19. OpenInv'
      BY <2>16, <2>17, <2>18 DEF OpenInv
    <2>20. OpsInv'
      BY <2>10, <2>16 DEF OpsInv
    <2>21. ~(ops'[f] = "ramfs" /\ ref'[f])
      <3>1. CASE d = <<>>
        BY <1>2, <2>1, <3>1 DEF OpsInv
      <3>2. CASE d # <<>>
        BY <1>1, <2>1, <3>2 DEF FlagsTyped
      <3> QED
        BY <3>1, <3>2
    <2>22. ClosedAfterUse'
      <3>1. ASSUME NEW j \in Numbers(n + 1), NEW g \in File, tree'[j].obj = g, ops'[g] = "ramfs", ref'[g]
            PROVE  \E p \in Proc : Holds(p, g)'
        <4>1. g # f
          BY <2>21, <3>1
        <4>2. j \in Numbers(Size) /\ tree[j].obj = g
          BY <2>11, <3>1, <4>1
        <4>3. \E p \in Proc : Holds(p, g)
          BY <1>1, <1>2, <2>16, <3>1, <4>1, <4>2 DEF ClosedAfterUse, IsDirectory
        <4> QED
          BY <2>17, <4>3
      <3>2. \A j \in DOMAIN tree', g \in File : (tree'[j].obj = g /\ ops'[g] = "ramfs" /\ ref'[g]) => \E p \in Proc : Holds(p, g)'
        BY <2>8, <3>1
      <3> QED
        BY <3>2 DEF ClosedAfterUse, IsDirectory
    <2>23. RemovingInv'
      BY <2>1, <2>7, <2>8 DEF RemovingInv
    <2> QED
      BY <2>9, <2>12, <2>13, <2>14, <2>19, <2>20, <2>22, <2>23
  <1> QED
    BY <1>3, <1>4, MountIs

\* vfs_unmount() does nothing to the tree before list_remove() is done.
LEMMA UnmountKeeps ==
  ASSUME IInv, NEW p \in Paths, Unmount(p)
  PROVE  IInv'
  <1> DEFINE n == Lookup(p)
             o == tree[n].obj
             i == IF IsDirectory(o) THEN n ELSE vfsPtr[o]
  <1> USE DEF IInv
  <1>1. Size \in 1..MaxNodes /\ DOMAIN tree = Numbers(Size) /\ Born(Size) = Numbers(Size) \ {0}
    BY Bounds DEF Unmount
  <1>2. n \in Numbers(Size)
    BY LookupFinds, VfsAssumption DEF Unmount
  <1>3. i \in Numbers(Size)
    <2>1. o \notin File => i = n
      BY DEF IsDirectory
    <2>2. o \in File => o \in DOMAIN vfsPtr /\ i = vfsPtr[o]
      BY <1>2 DEF PlacedInv, IsDirectory
    <2> HIDE DEF i, o, n
    <2> QED
      BY <1>2, <2>1, <2>2 DEF PlacedInv
  <1> HIDE DEF i
  <1>4. /\ UNCHANGED threads
        /\ \/ Fails("undefined") \/ Fails("freed")
           \/ /\ i # 0 /\ first /\ removing' = i
              /\ UNCHANGED <<tree, freed, first, name, vfsPtr, ref, ops, status>>
    BY DEF Unmount, i
  <1>5. CASE Fails("undefined") \/ Fails("freed")
    BY <1>4, <1>5, Lost
  <1>6. CASE /\ i # 0 /\ first /\ removing' = i
             /\ UNCHANGED <<tree, freed, first, name, vfsPtr, ref, ops, status>>
    <2>1. Size' = Size /\ tree' = tree /\ freed' = freed /\ first' = first /\ vfsPtr' = vfsPtr
      BY <1>6 DEF Size
    <2>2. TreeInv' /\ PlacedInv' /\ Size' = Size
      BY <2>1 DEF TreeInv, SoundTree, Linked, PlacedInv
    <2>3. RemovingInv'
      BY <1>1, <1>3, <1>6, <2>2 DEF RemovingInv
    <2>4. FlagsTyped' /\ OpsInv'
      BY <1>6 DEF FlagsTyped, OpsInv
    <2>5. ThreadInv' /\ OpenInv'
      BY <1>4, <1>6, <2>2 DEF ThreadInv, OpenInv, Holds, threads
    <2>6. ClosedAfterUse'
      BY <1>4, <1>6 DEF ClosedAfterUse, Holds, IsDirectory, threads
    <2> QED
      BY <2>2, <2>3, <2>4, <2>5, <2>6
  <1> QED
    BY <1>4, <1>5, <1>6

\* What list_remove() and tree_free_node() leave: files keep their flags, and the tree
\* what it had but one cell.
LEMMA RemovedKeeps ==
  ASSUME IInv, Removed
  PROVE  IInv'
  <1> DEFINE i == removing
  <1> USE DEF IInv
  <1>1. /\ Size \in 1..MaxNodes /\ MaxNodes \in Nat /\ DOMAIN tree = Numbers(Size)
        /\ Born(Size) = Numbers(Size) \ {0} /\ status = "ok"
    BY Bounds DEF Removed
  <1>2. i \in Born(Size) /\ first
    BY DEF Removed, RemovingInv
  <1>3. /\ UNCHANGED threads /\ tree' = Unlink(i) /\ freed' = freed \cup Subtree(i)
        /\ first' = FALSE /\ removing' = None /\ UNCHANGED <<name, vfsPtr, ref, ops, status>>
    BY DEF Removed
  <1> HIDE DEF i
  <1>4. /\ \A j \in Numbers(Size) : tree'[j].obj = tree[j].obj
        /\ SoundTree(tree', Size) /\ Linked(tree', Size, {i})
    BY <1>2, <1>3, Unlinking
  <1>5. Subtree(i) \subseteq Born(Size) /\ i \in Subtree(i)
    BY <1>2, Below
  <1>6. Size' = Size /\ DOMAIN tree' = Numbers(Size)
    BY <1>4, SizeOf DEF Size
  <1>7. TreeInv'
    <2>1. Linked(tree', Size, freed')
      BY <1>3, <1>4, <1>5 DEF Linked
    <2>2. freed' \subseteq Born(Size)
      BY <1>3, <1>5 DEF TreeInv
    <2> QED
      BY <1>3, <1>4, <1>6, <2>1, <2>2 DEF TreeInv
  <1>8. PlacedInv'
    BY <1>3, <1>4, <1>6 DEF PlacedInv
  <1>9. FlagsTyped' /\ OpsInv' /\ RemovingInv'
    BY <1>3 DEF FlagsTyped, OpsInv, RemovingInv
  <1>10. ThreadInv'
    BY <1>3, <1>6 DEF ThreadInv, threads
  <1>11. OpenInv'
    BY <1>3 DEF OpenInv, Holds, threads
  <1>12. ClosedAfterUse'
    BY <1>1, <1>3, <1>4, <1>6 DEF ClosedAfterUse, Holds, IsDirectory, threads
  <1> QED
    BY <1>7, <1>8, <1>9, <1>10, <1>11, <1>12

\* The steps of exec() leave the tree alone.
LEMMA ExecKeeps ==
  ASSUME IInv, NEW p \in Proc, NEW a \in ExecPaths, Exec(p, a)
  PROVE  IInv'
  <1> USE DEF IInv
  <1>1. CASE Fails("undefined") /\ UNCHANGED threads
    BY <1>1, Lost
  <1>2. ASSUME NEW n \in Found(a), at' = [at EXCEPT ![p] = n],
               lock' = p, pc' = [pc EXCEPT ![p] = "data"], UNCHANGED <<nodes, ref, ops, obj, status>>
        PROVE  IInv'
    <2>1. TreeInv' /\ PlacedInv' /\ RemovingInv' /\ Size' = Size /\ DOMAIN vfsPtr' = DOMAIN vfsPtr
      BY <1>2, SameTree
    <2>2. n \in Numbers(Size) /\ Numbers(Size) \subseteq Ids
      <3>1. a \in Seq(STRING)
        BY VfsAssumption
      <3> QED
        BY <3>1, FoundIn, Bounds
    <2>3. /\ pc[p] = "idle" /\ lock = None /\ lock' = p /\ UNCHANGED <<tree, ref, ops, obj, status, first>>
          /\ at' = [at EXCEPT ![p] = n] /\ pc' = [pc EXCEPT ![p] = "data"]
      BY <1>2 DEF Exec, At, nodes
    <2>4. FlagsTyped' /\ OpsInv'
      BY <2>1, <2>3 DEF FlagsTyped, OpsInv
    <2>5. ThreadInv'
      <3>1. \A q \in Proc : pc[q] = "idle"
        BY <2>3, VfsAssumption DEF ThreadInv
      <3> QED
        BY <2>1, <2>2, <2>3, <3>1 DEF ThreadInv, Phases
    <2>6. \A q \in Proc, f \in File : Holds(q, f)' <=> Holds(q, f)
      BY <2>3 DEF Holds, ThreadInv
    <2>7. OpenInv'
      BY <2>3, <2>6 DEF OpenInv
    <2>8. ClosedAfterUse'
      BY <2>3, <2>6 DEF ClosedAfterUse, IsDirectory
    <2> QED
      BY <2>1, <2>4, <2>5, <2>7, <2>8
  <1> QED
    BY <1>1, <1>2 DEF Exec, Find

LEMMA FindDataKeeps ==
  ASSUME IInv, NEW p \in Proc, FindData(p)
  PROVE  IInv'
  <1> USE DEF IInv
  <1>1. TreeInv' /\ PlacedInv' /\ RemovingInv' /\ Size' = Size /\ DOMAIN vfsPtr' = DOMAIN vfsPtr
    BY SameTree DEF FindData
  <1>2. /\ pc[p] = "data" /\ status = "ok" /\ status' \in {"ok", "undefined"}
        /\ UNCHANGED <<tree, ref, ops, at, first, lock>>
        /\ obj' = [obj EXCEPT ![p] = tree[at[p]].obj] /\ pc' = [pc EXCEPT ![p] = "test"]
    BY DEF FindData, At, Goto, nodes
  <1>3. at[p] \in Numbers(Size) /\ Numbers(Size) \subseteq Ids /\ Ids \subseteq Objects /\ File \subseteq Objects
    BY <1>2, Bounds DEF ThreadInv
  <1>4. tree[at[p]].obj \in Ids \cup DOMAIN vfsPtr /\ DOMAIN vfsPtr \subseteq File
    BY <1>3 DEF TreeInv, SoundTree, PlacedInv
  <1>5. FlagsTyped' /\ OpsInv'
    BY <1>1, <1>2 DEF FlagsTyped, OpsInv
  <1>6. ThreadInv'
    BY <1>1, <1>2, <1>3, <1>4 DEF ThreadInv, Phases
  <1>7. \A q \in Proc, f \in File : Holds(q, f)' <=> Holds(q, f)
    BY <1>2 DEF Holds, ThreadInv
  <1>8. OpenInv'
    BY <1>2, <1>7 DEF OpenInv
  <1>9. ClosedAfterUse'
    BY <1>2, <1>7 DEF ClosedAfterUse, IsDirectory
  <1> QED
    BY <1>1, <1>5, <1>6, <1>8, <1>9

LEMMA OpenTestKeeps ==
  ASSUME IInv, NEW p \in Proc, OpenTest(p)
  PROVE  IInv'
  <1> USE DEF IInv
  <1>1. TreeInv' /\ PlacedInv' /\ RemovingInv' /\ Size' = Size /\ DOMAIN vfsPtr' = DOMAIN vfsPtr
    BY SameTree DEF OpenTest
  <1>2. pc[p] = "test" /\ UNCHANGED <<tree, ref, ops, status, first>>
    BY DEF OpenTest, At, nodes
  <1>3. FlagsTyped' /\ OpsInv'
    BY <1>1, <1>2 DEF FlagsTyped, OpsInv
  <1>4. CASE Return(p)
    <2>1. ThreadInv'
      BY <1>1, <1>2, <1>4 DEF ThreadInv, Phases, Return
    <2>2. \A q \in Proc, f \in File : Holds(q, f)' <=> Holds(q, f)
      BY <1>2, <1>4 DEF Holds, ThreadInv, Return
    <2> QED
      BY <1>1, <1>2, <1>3, <2>1, <2>2 DEF OpenInv, ClosedAfterUse, IsDirectory
  <1>5. CASE Stay(p, IF IsDirectory(obj[p]) THEN "stat" ELSE "set")
    <2>1. ThreadInv'
      BY <1>1, <1>2, <1>5 DEF ThreadInv, Phases, Stay, Goto, IsDirectory
    <2>2. \A q \in Proc, f \in File : Holds(q, f)' <=> Holds(q, f)
      BY <1>2, <1>5 DEF Holds, ThreadInv, Stay, Goto, IsDirectory
    <2> QED
      BY <1>1, <1>2, <1>3, <2>1, <2>2 DEF OpenInv, ClosedAfterUse, IsDirectory
  <1> QED
    BY <1>4, <1>5 DEF OpenTest

\* vfs_open() of a file: the thread holds it from here.
LEMMA OpenSetKeeps ==
  ASSUME IInv, NEW p \in Proc, OpenSet(p)
  PROVE  IInv'
  <1> USE DEF IInv
  <1>1. TreeInv' /\ PlacedInv' /\ RemovingInv' /\ Size' = Size /\ DOMAIN vfsPtr' = DOMAIN vfsPtr
    BY SameTree DEF OpenSet
  <1>2. /\ pc[p] = "set" /\ UNCHANGED <<tree, ops, first, lock, at, obj>> /\ status' \in {status, "undefined"}
        /\ ref' = [ref EXCEPT ![obj[p]] = TRUE] /\ pc' = [pc EXCEPT ![p] = "stat"] /\ status = "ok"
    BY DEF OpenSet, At, Stay, Goto, nodes
  <1>3. obj[p] \in File /\ File \subseteq Objects
    BY <1>2, Bounds DEF ThreadInv
  <1>4. FlagsTyped' /\ OpsInv'
    BY <1>1, <1>2, <1>3 DEF FlagsTyped, OpsInv
  <1>5. ThreadInv'
    BY <1>1, <1>2 DEF ThreadInv, Phases
  <1>6. \A q \in Proc, f \in File : Holds(q, f)' <=> (Holds(q, f) \/ (q = p /\ f = obj[p]))
    BY <1>2, <1>3 DEF Holds, ThreadInv
  <1>7. \A f \in File : ref'[f] = IF f = obj[p] THEN TRUE ELSE ref[f]
    BY <1>2, <1>3 DEF FlagsTyped
  <1>8. OpenInv'
    BY <1>6, <1>7 DEF OpenInv
  <1>9. ClosedAfterUse'
    BY <1>2, <1>3, <1>6, <1>7 DEF ClosedAfterUse, IsDirectory
  <1> QED
    BY <1>1, <1>4, <1>5, <1>8, <1>9

\* fstat(): a file of the ramdisk has one, so that who opened it goes on.
LEMMA StatKeeps ==
  ASSUME IInv, NEW p \in Proc, Stat(p)
  PROVE  IInv'
  <1> USE DEF IInv
  <1>1. TreeInv' /\ PlacedInv' /\ RemovingInv' /\ Size' = Size /\ DOMAIN vfsPtr' = DOMAIN vfsPtr
    BY SameTree DEF Stat
  <1>2. /\ pc[p] = "stat" /\ UNCHANGED <<tree, ref, ops, first>> /\ status' \in {"ok", "undefined"} /\ status = "ok"
        /\ \/ Return(p) /\ (obj[p] \in File => ops[obj[p]] = "none")
           \/ Stay(p, "read") /\ obj[p] \in File
    BY DEF Stat, At, nodes, IsDirectory
  <1>3. FlagsTyped' /\ OpsInv'
    BY <1>1, <1>2 DEF FlagsTyped, OpsInv
  <1>4. CASE Return(p) /\ (obj[p] \in File => ops[obj[p]] = "none")
    <2>1. ThreadInv'
      BY <1>1, <1>2, <1>4 DEF ThreadInv, Phases, Return
    <2>2. \A q \in Proc, f \in File : Holds(q, f)' <=> (Holds(q, f) /\ q # p)
      BY <1>2, <1>4 DEF Holds, ThreadInv, Return
    <2>3. OpenInv'
      BY <1>2, <2>2 DEF OpenInv
    <2>4. \A f \in File : ops[f] = "ramfs" => ~Holds(p, f)
      BY <1>4 DEF Holds
    <2>5. ClosedAfterUse'
      BY <1>2, <2>2, <2>4 DEF ClosedAfterUse, IsDirectory
    <2> QED
      BY <1>1, <1>3, <2>1, <2>3, <2>5
  <1>5. CASE Stay(p, "read") /\ obj[p] \in File
    <2>1. ThreadInv'
      BY <1>1, <1>2, <1>5 DEF ThreadInv, Phases, Stay, Goto
    <2>2. \A q \in Proc, f \in File : Holds(q, f)' <=> Holds(q, f)
      BY <1>2, <1>5 DEF Holds, ThreadInv, Stay, Goto
    <2> QED
      BY <1>1, <1>2, <1>3, <2>1, <2>2 DEF OpenInv, ClosedAfterUse, IsDirectory
  <1> QED
    BY <1>2, <1>4, <1>5

\* fread(): who has opened the file finds it open.
LEMMA ReadKeeps ==
  ASSUME IInv, NEW p \in Proc, Read(p)
  PROVE  IInv'
  <1> USE DEF IInv
  <1>1. TreeInv' /\ PlacedInv' /\ RemovingInv' /\ Size' = Size /\ DOMAIN vfsPtr' = DOMAIN vfsPtr
    BY SameTree DEF Read
  <1>2. pc[p] = "read" /\ UNCHANGED <<tree, ref, ops, status, first>>
    BY DEF Read, At, nodes
  <1>3. ref[obj[p]]
    BY <1>2 DEF ThreadInv, OpenInv, Holds
  <1>4. UNCHANGED <<lock, at, obj>> /\ pc' = [pc EXCEPT ![p] = "close"]
    BY <1>3 DEF Read, Stay, Goto
  <1>5. FlagsTyped' /\ OpsInv'
    BY <1>1, <1>2 DEF FlagsTyped, OpsInv
  <1>6. ThreadInv'
    BY <1>1, <1>2, <1>4 DEF ThreadInv, Phases
  <1>7. \A q \in Proc, f \in File : Holds(q, f)' <=> Holds(q, f)
    BY <1>2, <1>4 DEF Holds, ThreadInv
  <1> QED
    BY <1>1, <1>2, <1>5, <1>6, <1>7 DEF OpenInv, ClosedAfterUse, IsDirectory

LEMMA CloseKeeps ==
  ASSUME IInv, NEW p \in Proc, Close(p)
  PROVE  IInv'
  <1> USE DEF IInv
  <1>1. TreeInv' /\ PlacedInv' /\ RemovingInv' /\ Size' = Size /\ DOMAIN vfsPtr' = DOMAIN vfsPtr
    BY SameTree DEF Close
  <1>2. /\ pc[p] = "close" /\ UNCHANGED <<tree, ops, status, first>>
        /\ ref' = [ref EXCEPT ![obj[p]] = FALSE] /\ Return(p)
    BY DEF Close, At, nodes
  <1>3. obj[p] \in File /\ File \subseteq Objects /\ \A q \in Proc \ {p} : pc[q] = "idle"
    BY <1>2, Bounds DEF ThreadInv
  <1>4. FlagsTyped' /\ OpsInv'
    BY <1>1, <1>2, <1>3 DEF FlagsTyped, OpsInv
  <1>5. ThreadInv'
    BY <1>1, <1>2 DEF ThreadInv, Phases, Return
  <1>6. \A q \in Proc, f \in File : ~Holds(q, f)' /\ (Holds(q, f) => q = p /\ f = obj[p])
    BY <1>2, <1>3 DEF Holds, ThreadInv, Return
  <1>7. \A f \in File : ref'[f] = IF f = obj[p] THEN FALSE ELSE ref[f]
    BY <1>2, <1>3 DEF FlagsTyped
  <1>8. OpenInv'
    BY <1>6 DEF OpenInv
  <1>9. ClosedAfterUse'
    BY <1>2, <1>6, <1>7 DEF ClosedAfterUse, IsDirectory
  <1> QED
    BY <1>1, <1>4, <1>5, <1>8, <1>9

LEMMA InitOk == ASSUME Init PROVE IInv
  <1>1. MaxNodes \in Nat /\ 1 \in 1..MaxNodes /\ 0 \in Ids /\ Numbers(1) = {0} /\ Born(1) = {}
    BY VfsAssumption DEF Ids, Numbers, Born
  <1>2. tree[0] = Leaf(0, 0) /\ DOMAIN tree = {0} /\ tree \in [{0} -> Tree] /\ tree[0].kids \in Seq(Born(1)) /\ Len(tree[0].kids) = 0
        /\ tree[0].obj = 0 /\ tree[0].parent = 0
    <2>1. tree = [i \in {0} |-> Leaf(0, 0)]
      BY DEF Init
    <2>2. Leaf(0, 0).kids = <<>> /\ Leaf(0, 0).obj = 0 /\ Leaf(0, 0).parent = 0
      BY DEF Leaf
    <2>3. <<>> \in Seq(Ids) /\ <<>> \in Seq(Born(1)) /\ Len(<<>>) = 0
      OBVIOUS
    <2>4. Leaf(0, 0) \in Tree
      BY <1>1, <2>3 DEF Leaf, Tree, Objects
    <2> QED
      BY <2>1, <2>2, <2>3, <2>4
  <1>3. SoundTree(tree, 1)
    <2>1. 1..Len(tree[0].kids) = {}
      BY <1>2
    <2> QED
      BY <1>1, <1>2, <2>1 DEF SoundTree
  <1>4. Size = 1
    BY <1>3, SizeOf DEF Size
  <1>5. TreeInv
    BY <1>1, <1>3, <1>4 DEF TreeInv, Linked, Init
  <1>6. PlacedInv
    <2>1. vfsPtr = <<>> /\ DOMAIN vfsPtr = {}
      BY DEF Init
    <2>2. 0 \notin File
      BY VfsAssumption
    <2>3. vfsPtr \in [DOMAIN vfsPtr -> Numbers(Size)]
      BY <2>1
    <2> QED
      BY <1>1, <1>2, <1>4, <2>1, <2>2, <2>3 DEF PlacedInv
  <1>7. FlagsTyped /\ OpsInv
    BY DEF Init, FlagsTyped, OpsInv
  <1>8. ThreadInv /\ OpenInv
    BY DEF Init, ThreadInv, OpenInv, Phases, Holds
  <1>9. ClosedAfterUse
    <2>1. \A i \in DOMAIN tree : tree[i].obj \notin File
      BY <1>2, VfsAssumption
    <2> QED
      BY <2>1 DEF ClosedAfterUse, IsDirectory
  <1>10. RemovingInv
    BY DEF Init, RemovingInv
  <1> QED
    BY <1>5, <1>6, <1>7, <1>8, <1>9, <1>10 DEF IInv

LEMMA EntryDir ==
  ASSUME NEW e \in Archive, NEW more \in Behind
  PROVE  e.file \in File /\ DirOf(e.path) \o more \in Seq(STRING)
  <1>1. e.file \in File /\ e.path \in Seq(STRING) \ {<<>>}
    BY VfsAssumption
  <1>2. Len(e.path) \in Nat /\ Len(e.path) # 0 /\ \A k \in 1..Len(e.path) : e.path[k] \in STRING
    BY <1>1, ElementOfSeq, EmptySeq
  <1>3. SubSeq(e.path, 1, Len(e.path) - 1) \in Seq(STRING)
    BY <1>2, SubSeqProperties
  <1>4. DirOf(e.path) \in Seq(STRING) /\ more \in Seq(STRING)
    BY <1>1, <1>3, VfsAssumption DEF DirOf, Front
  <1> QED
    BY <1>1, <1>4, ConcatProperties

LEMMA StepOk == ASSUME IInv, [Next]_vars PROVE IInv'
  <1>1. ASSUME NEW e \in Archive, RamdiskEntry(e) PROVE IInv'
    <2>1. ASSUME NEW more \in Behind, Mount(DirOf(e.path) \o more, e.file) PROVE IInv'
      BY <2>1, EntryDir, MountKeeps
    <2>2. ASSUME Fails("undefined"), UNCHANGED threads PROVE IInv'
      BY <2>2, Lost
    <2> QED
      BY <1>1, <2>1, <2>2 DEF RamdiskEntry
  <1>2. ASSUME NEW m \in Mounts, Mount(m.path, m.file) PROVE IInv'
    BY <1>2, VfsAssumption, MountKeeps
  <1>3. ASSUME NEW p \in Paths, Unmount(p) PROVE IInv'
    BY <1>3, UnmountKeeps
  <1>4. ASSUME NEW p \in Proc, NEW a \in ExecPaths, Exec(p, a) PROVE IInv'
    BY <1>4, ExecKeeps
  <1>5. ASSUME NEW p \in Proc, FindData(p) PROVE IInv'
    BY <1>5, FindDataKeeps
  <1>6. ASSUME NEW p \in Proc, OpenTest(p) PROVE IInv'
    BY <1>6, OpenTestKeeps
  <1>7. ASSUME NEW p \in Proc, OpenSet(p) PROVE IInv'
    BY <1>7, OpenSetKeeps
  <1>8. ASSUME NEW p \in Proc, Stat(p) PROVE IInv'
    BY <1>8, StatKeeps
  <1>9. ASSUME NEW p \in Proc, Read(p) PROVE IInv'
    BY <1>9, ReadKeeps
  <1>10. ASSUME NEW p \in Proc, Close(p) PROVE IInv'
    BY <1>10, CloseKeeps
  <1>11. CASE Removed
    BY <1>11, RemovedKeeps
  <1>12. CASE UNCHANGED vars
    <2>1. TreeInv' /\ PlacedInv' /\ RemovingInv' /\ Size' = Size /\ DOMAIN vfsPtr' = DOMAIN vfsPtr
      BY <1>12, SameTree DEF vars, nodes
    <2>2. FlagsTyped' /\ OpsInv'
      BY <1>12, <2>1 DEF IInv, FlagsTyped, OpsInv, vars
    <2>3. ThreadInv'
      BY <1>12, <2>1 DEF IInv, ThreadInv, vars
    <2>4. OpenInv' /\ ClosedAfterUse'
      BY <1>12 DEF IInv, OpenInv, ClosedAfterUse, Holds, IsDirectory, vars
    <2> QED
      BY <2>1, <2>2, <2>3, <2>4 DEF IInv
  <1> QED
    BY <1>1, <1>2, <1>3, <1>4, <1>5, <1>6, <1>7, <1>8, <1>9, <1>10, <1>11, <1>12 DEF Next

LEMMA Inductive == Spec => []IInv
  <1> QED
    BY InitOk, StepOk, PTL DEF Spec
-----------------------------------------------------------------------------
(* Paths                                                                   *)

\* tree_match_child() finds the first child of the name, and nothing only when
\* there is none.
Kids(h, i) == h.tree[i].kids

\* c is the k-th child of i, and the first that is called s.
FirstAt(h, i, s, c, k) ==
    /\ k \in 1..Len(Kids(h, i)) /\ Kids(h, i)[k] = c /\ Called(h, c) = s
    /\ \A l \in 1..(k - 1) : Called(h, Kids(h, i)[l]) # s

Matches(h, n, i, s, c) ==
    c \in Born(n) /\ h.tree[c].parent = i /\ \E k : FirstAt(h, i, s, c, k)

Unmatched(h, i, s) == \A k \in 1..Len(Kids(h, i)) : Called(h, Kids(h, i)[k]) # s

LEMMA MatchIs ==
  ASSUME NEW h, NEW n, SoundTree(h.tree, n), NEW i \in Numbers(n), NEW s
  PROVE  /\ MatchChild(h, i, s) = None => Unmatched(h, i, s)
         /\ MatchChild(h, i, s) # None => Matches(h, n, i, s, MatchChild(h, i, s))
  <1> DEFINE q == h.tree[i].kids
             c == MatchChild(h, i, s)
             T == Matching(h, i, s)
  <1>1. /\ q \in Seq(Born(n)) /\ n \in Nat /\ DOMAIN q = 1..Len(q) /\ Len(q) \in Nat
        /\ \A k \in 1..Len(q) : h.tree[q[k]].parent = i
    <2>1. q \in Seq(Born(n)) /\ n \in Nat /\ \A k \in 1..Len(q) : h.tree[q[k]].parent = i
      BY VfsAssumption DEF SoundTree
    <2> QED
      BY <2>1, LenProperties
  <1>2. T = {k \in 1..Len(q) : Called(h, q[k]) = s}
    BY <1>1 DEF Matching
  <1>3. c = IF T = {} THEN None ELSE q[Min(T)]
    BY DEF MatchChild
  <1> HIDE DEF T, c, q
  <1>4. CASE T = {}
    BY <1>2, <1>3, <1>4 DEF c, q, Unmatched, Kids
  <1>5. CASE T # {}
    <2>1. T \subseteq Nat
      BY <1>2
    <2>2. PICK x \in T : \A y \in T : x <= y
      BY <1>5, <2>1, LeastNat
    <2>3. Min(T) \in T /\ \A y \in T : Min(T) <= y
      BY <2>2 DEF Min
    <2> DEFINE k == Min(T)
    <2> HIDE DEF k
    <2>4. k \in 1..Len(q) /\ Called(h, q[k]) = s /\ \A y \in T : k <= y
      BY <1>2, <2>3 DEF k
    <2>5. c = q[k]
      BY <1>3, <1>5 DEF k
    <2>6. \A l \in 1..(k - 1) : Called(h, q[l]) # s
      BY <1>1, <1>2, <2>4
    <2>7. c \in Born(n)
      BY <1>1, <2>4, <2>5, ElementOfSeq
    <2>8. c # None
      BY <2>7 DEF Born, None
    <2>9. FirstAt(h, i, s, c, k)
      BY <2>4, <2>5, <2>6 DEF FirstAt, Kids, q
    <2>10. h.tree[c].parent = i
      BY <1>1, <2>4, <2>5
    <2> QED
      BY <2>7, <2>8, <2>9, <2>10 DEF c, Matches
  <1> QED
    BY <1>4, <1>5

LEMMA FirstCalled ==
  ASSUME NEW h, NEW i, NEW s, NEW c, NEW k, FirstAt(h, i, s, c, k)
  PROVE  Called(h, c) = s
  BY DEF FirstAt

LEMMA OneFirst ==
  ASSUME NEW h, NEW i, NEW s, NEW c, NEW k, FirstAt(h, i, s, c, k),
         NEW e, NEW x, FirstAt(h, i, s, e, x)
  PROVE  c = e
  <1>1. ~(x < k) /\ ~(k < x)
    BY DEF FirstAt
  <1>2. x = k
    BY <1>1 DEF FirstAt
  <1> QED
    BY <1>2 DEF FirstAt

LEMMA MatchFirst ==
  ASSUME NEW h, NEW n, SoundTree(h.tree, n), NEW i \in Numbers(n), NEW s,
         NEW c, NEW k, FirstAt(h, i, s, c, k)
  PROVE  MatchChild(h, i, s) = c
  <1>1. MatchChild(h, i, s) # None
    <2> SUFFICES ASSUME MatchChild(h, i, s) = None PROVE FALSE
      OBVIOUS
    <2>1. Unmatched(h, i, s)
      BY MatchIs
    <2> QED
      BY <2>1 DEF FirstAt, Unmatched
  <1>2. Matches(h, n, i, s, MatchChild(h, i, s))
    BY <1>1, MatchIs
  <1> QED
    BY <1>2, OneFirst DEF Matches

LEMMA MatchNone ==
  ASSUME NEW h, NEW n, SoundTree(h.tree, n), NEW i \in Numbers(n), NEW s, Unmatched(h, i, s)
  PROVE  MatchChild(h, i, s) = None
  <1> SUFFICES ASSUME MatchChild(h, i, s) # None PROVE FALSE
    OBVIOUS
  <1>1. Matches(h, n, i, s, MatchChild(h, i, s))
    BY MatchIs
  <1> QED
    BY <1>1 DEF Matches, FirstAt, Unmatched

\* The nodes that a look-up of p passes in the tree of h.
IsLevels(h, n, p, level) ==
    /\ level \in [0..Len(p) -> Numbers(n) \cup {None}]
    /\ level[0] = 0
    /\ \A k \in 1..Len(p) : level[k] = Child(h, level[k - 1], p[k])
    /\ FindIn(h, p) = level[Len(p)]

LEMMA HasLevels ==
  ASSUME NEW h, NEW n, SoundTree(h.tree, n), NEW p \in Seq(STRING)
  PROVE  \E level : IsLevels(h, n, p, level)
  <1>1. \E level \in [0..Len(p) -> Numbers(n) \cup {None}] :
           /\ level[0] = 0
           /\ \A k \in 1..Len(p) : level[k] = Child(h, level[k - 1], p[k])
           /\ FindIn(h, p) = level[Len(p)]
    BY Finding
  <1> QED
    BY <1>1 DEF IsLevels

\* Each of them is the parent of the next.
Climbs(h, n, p, l) ==
    \A k \in 1..Len(p) : l[k] # None =>
        /\ l[k - 1] \in Numbers(n) /\ MatchChild(h, l[k - 1], p[k]) = l[k]
        /\ l[k] \in Born(n) /\ h.tree[l[k]].parent = l[k - 1] /\ Called(h, l[k]) = p[k]

LEMMA Climbing ==
  ASSUME NEW h, NEW n, SoundTree(h.tree, n), NEW p \in Seq(STRING), NEW l, IsLevels(h, n, p, l)
  PROVE  Climbs(h, n, p, l)
  <1> SUFFICES ASSUME NEW k \in 1..Len(p), l[k] # None
      PROVE  /\ l[k - 1] \in Numbers(n) /\ MatchChild(h, l[k - 1], p[k]) = l[k]
             /\ l[k] \in Born(n) /\ h.tree[l[k]].parent = l[k - 1] /\ Called(h, l[k]) = p[k]
    BY DEF Climbs
  <1>1. Len(p) \in Nat /\ k - 1 \in 0..Len(p)
    BY LenProperties
  <1>2. l[k] = Child(h, l[k - 1], p[k]) /\ l[k - 1] \in Numbers(n) \cup {None}
    BY <1>1 DEF IsLevels
  <1>3. l[k - 1] # None /\ MatchChild(h, l[k - 1], p[k]) = l[k]
    BY <1>2 DEF Child
  <1>4. l[k - 1] \in Numbers(n)
    BY <1>2, <1>3
  <1>5. Matches(h, n, l[k - 1], p[k], l[k])
    BY <1>3, <1>4, MatchIs
  <1>6. \E x : FirstAt(h, l[k - 1], p[k], l[k], x)
    BY <1>5 DEF Matches
  <1>7. Called(h, l[k]) = p[k]
    BY <1>6, FirstCalled
  <1> QED
    BY <1>3, <1>4, <1>5, <1>7 DEF Matches

\* Nodes of which each is the parent of the next, from the root on.
Trail(h, n, K, l) ==
    /\ l[0] = 0
    /\ \A k \in 1..K : l[k] # None =>
          l[k - 1] \in Numbers(n) /\ l[k] \in Born(n) /\ h.tree[l[k]].parent = l[k - 1]

\* There is one trail to a node.
SameTrail(K, l, L, m) ==
    \A a \in 0..K, b \in 0..L :
        l[a] = m[b] /\ l[a] # None => a = b /\ \A c \in 0..a : l[c] = m[c] /\ l[c] # None

LEMMA OneTrail ==
  ASSUME NEW h, NEW n, NEW K \in Nat, NEW L \in Nat, NEW l, Trail(h, n, K, l), NEW m, Trail(h, n, L, m)
  PROVE  SameTrail(K, l, L, m)
  <1> DEFINE Same(x, y) == x = y /\ \A c \in 0..x : l[c] = m[c] /\ l[c] # None
             T == {x \in 0..K : \A y \in 0..L : l[x] = m[y] /\ l[x] # None => Same(x, y)}
  <1>1. l[0] = 0 /\ m[0] = 0 /\ 0 # None
    BY DEF Trail, None
  <1>2. \A y \in 1..L : m[y] # 0
    BY DEF Trail, Born, None
  <1>3. \A x \in 1..K : l[x] # 0
    BY DEF Trail, Born, None
  <1>4. 0 \in T
    BY <1>1, <1>2
  <1>5. ASSUME NEW x \in 0..(K - 1), x \in T PROVE x + 1 \in T
    <2>1. ASSUME NEW y \in 0..L, l[x + 1] = m[y], l[x + 1] # None PROVE Same(x + 1, y)
      <3>1. x + 1 \in 1..K /\ (x + 1) - 1 = x /\ x \in 0..K
        OBVIOUS
      <3>2. y \in 1..L /\ y - 1 \in 0..L
        BY <1>1, <1>3, <2>1, <3>1
      <3> HIDE DEF T, Same
      <3>3. l[x] \in Numbers(n) /\ h.tree[l[x + 1]].parent = l[x]
        BY <2>1, <3>1 DEF Trail
      <3>4. h.tree[m[y]].parent = m[y - 1]
        BY <2>1, <3>2 DEF Trail
      <3>5. l[x] # None
        BY <3>3 DEF Numbers, None
      <3>6. Same(x, y - 1)
        BY <1>5, <2>1, <3>2, <3>3, <3>4, <3>5 DEF T
      <3>7. y = x + 1
        BY <3>2, <3>6 DEF Same
      <3> QED
        BY <2>1, <3>1, <3>6, <3>7 DEF Same
    <2> HIDE DEF Same
    <2> QED
      BY <2>1
  <1> HIDE DEF T
  <1>6. 0..K \subseteq T
    BY <1>4, <1>5, UpTo
  <1> QED
    BY <1>6 DEF T, SameTrail

LEMMA LevelsTrail ==
  ASSUME NEW h, NEW n, SoundTree(h.tree, n), NEW p \in Seq(STRING), NEW l, IsLevels(h, n, p, l)
  PROVE  Trail(h, n, Len(p), l) /\ \A k \in 1..Len(p) : l[k] # None => Called(h, l[k]) = p[k]
  <1>1. Climbs(h, n, p, l) /\ l[0] = 0
    BY Climbing DEF IsLevels
  <1> QED
    BY <1>1 DEF Climbs, Trail

\* There is one path to a node.
OneWay(p, l, q, m) ==
    \A a \in 0..Len(p), b \in 0..Len(q) :
        l[a] = m[b] /\ l[a] # None => a = b /\ \A c \in 1..a : p[c] = q[c]

LEMMA OnePath ==
  ASSUME NEW h, NEW n, SoundTree(h.tree, n), NEW p \in Seq(STRING), NEW q \in Seq(STRING),
         NEW l, IsLevels(h, n, p, l), NEW m, IsLevels(h, n, q, m)
  PROVE  OneWay(p, l, q, m)
  <1>1. Len(p) \in Nat /\ Len(q) \in Nat
    BY LenProperties
  <1>2. /\ Trail(h, n, Len(p), l) /\ Trail(h, n, Len(q), m)
        /\ \A k \in 1..Len(p) : l[k] # None => Called(h, l[k]) = p[k]
        /\ \A k \in 1..Len(q) : m[k] # None => Called(h, m[k]) = q[k]
    <2>1. Trail(h, n, Len(p), l) /\ \A k \in 1..Len(p) : l[k] # None => Called(h, l[k]) = p[k]
      BY LevelsTrail
    <2>2. Trail(h, n, Len(q), m) /\ \A k \in 1..Len(q) : m[k] # None => Called(h, m[k]) = q[k]
      BY LevelsTrail
    <2> QED
      BY <2>1, <2>2
  <1>3. SameTrail(Len(p), l, Len(q), m)
    BY <1>1, <1>2, OneTrail
  <1> SUFFICES ASSUME NEW a \in 0..Len(p), NEW b \in 0..Len(q), l[a] = m[b], l[a] # None
      PROVE  a = b /\ \A c \in 1..a : p[c] = q[c]
    BY DEF OneWay
  <1>4. a = b /\ \A c \in 0..a : l[c] = m[c] /\ l[c] # None
    BY <1>3 DEF SameTrail
  <1>5. ASSUME NEW c \in 1..a PROVE p[c] = q[c]
    <2>1. c \in 0..a /\ c \in 1..Len(p) /\ c \in 1..Len(q)
      BY <1>1, <1>4
    <2> QED
      BY <1>2, <1>4, <2>1
  <1> QED
    BY <1>4, <1>5

-----------------------------------------------------------------------------
(* Growing trees                                                           *)

\* The tree of g has m nodes: the n of h, their children in the same order, and
\* younger ones behind them.
Grows(h, n, g, m) ==
    /\ SoundTree(h.tree, n) /\ SoundTree(g.tree, m) /\ n <= m
    /\ \A i \in Numbers(n) :
          /\ g.tree[i].obj = h.tree[i].obj /\ g.tree[i].parent = h.tree[i].parent
          /\ Len(Kids(h, i)) <= Len(Kids(g, i))
          /\ \A k \in 1..Len(Kids(h, i)) : Kids(g, i)[k] = Kids(h, i)[k]
          /\ \A k \in 1..Len(Kids(g, i)) : k > Len(Kids(h, i)) => Kids(g, i)[k] >= n
    /\ \A i \in Born(n) : Called(g, i) = Called(h, i)

LEMMA TreeSizes ==
  ASSUME NEW h, NEW n, SoundTree(h.tree, n)
  PROVE  /\ n \in Nat \ {0} /\ Born(n) \subseteq Numbers(n) /\ 0 \in Numbers(n)
         /\ None \notin Numbers(n)
         /\ \A i \in Numbers(n) : /\ Len(Kids(h, i)) \in Nat /\ h.tree[i].parent \in Numbers(n)
                                  /\ \A k \in 1..Len(Kids(h, i)) : Kids(h, i)[k] \in Born(n)
  <1>1. n \in Nat \ {0}
    BY VfsAssumption DEF SoundTree
  <1>2. ASSUME NEW i \in Numbers(n)
        PROVE  /\ Len(Kids(h, i)) \in Nat /\ h.tree[i].parent \in Numbers(n)
               /\ \A k \in 1..Len(Kids(h, i)) : Kids(h, i)[k] \in Born(n)
    <2>1. Kids(h, i) \in Seq(Born(n)) /\ h.tree[i].parent \in Numbers(n)
      BY DEF SoundTree, Kids
    <2> QED
      BY <2>1, LenProperties, ElementOfSeq
  <1> QED
    BY <1>1, <1>2 DEF Born, Numbers, None

LEMMA GrowsChild ==
  ASSUME NEW h, NEW n, NEW g, NEW m, Grows(h, n, g, m), NEW i \in Numbers(n), NEW s
  PROVE  /\ MatchChild(h, i, s) # None => MatchChild(g, i, s) = MatchChild(h, i, s)
         /\ MatchChild(g, i, s) \in Numbers(n) => MatchChild(h, i, s) = MatchChild(g, i, s)
  <1>1. /\ SoundTree(h.tree, n) /\ SoundTree(g.tree, m) /\ n <= m
        /\ Len(Kids(h, i)) <= Len(Kids(g, i))
        /\ \A k \in 1..Len(Kids(h, i)) : Kids(g, i)[k] = Kids(h, i)[k]
        /\ \A k \in 1..Len(Kids(g, i)) : k > Len(Kids(h, i)) => Kids(g, i)[k] >= n
        /\ \A x \in Born(n) : Called(g, x) = Called(h, x)
    BY DEF Grows
  <1>2. /\ n \in Nat \ {0} /\ None \notin Numbers(n) /\ Len(Kids(h, i)) \in Nat
        /\ \A k \in 1..Len(Kids(h, i)) : Kids(h, i)[k] \in Born(n)
    BY <1>1, TreeSizes
  <1>3. m \in Nat \ {0} /\ i \in Numbers(m) /\ Len(Kids(g, i)) \in Nat
    <2>1. m \in Nat \ {0} /\ (i \in Numbers(m) => Len(Kids(g, i)) \in Nat)
      BY <1>1, TreeSizes
    <2>2. i \in Numbers(m)
      BY <1>1, <1>2, <2>1 DEF Numbers
    <2> QED
      BY <2>1, <2>2
  <1>4. ASSUME NEW c, NEW k, FirstAt(h, i, s, c, k) PROVE FirstAt(g, i, s, c, k)
    <2>1. /\ k \in 1..Len(Kids(h, i)) /\ Kids(h, i)[k] = c /\ Called(h, c) = s
          /\ \A l \in 1..(k - 1) : Called(h, Kids(h, i)[l]) # s
      BY <1>4 DEF FirstAt
    <2>2. k \in 1..Len(Kids(g, i)) /\ Kids(g, i)[k] = c
      BY <1>1, <1>2, <1>3, <2>1
    <2>3. Called(g, c) = s
      BY <1>1, <1>2, <2>1
    <2>4. \A l \in 1..(k - 1) : Called(g, Kids(g, i)[l]) # s
      <3>1. ASSUME NEW l \in 1..(k - 1) PROVE Called(g, Kids(g, i)[l]) # s
        <4>1. l \in 1..Len(Kids(h, i))
          BY <1>2, <2>1
        <4>2. Kids(h, i)[l] \in Born(n) /\ Kids(g, i)[l] = Kids(h, i)[l]
          BY <1>1, <1>2, <4>1
        <4>3. Called(g, Kids(h, i)[l]) = Called(h, Kids(h, i)[l])
          BY <1>1, <4>2
        <4> QED
          BY <2>1, <4>2, <4>3
      <3> QED
        BY <3>1
    <2> QED
      BY <2>2, <2>3, <2>4 DEF FirstAt
  <1>5. ASSUME NEW c \in Numbers(n), NEW k, FirstAt(g, i, s, c, k) PROVE FirstAt(h, i, s, c, k)
    <2>1. /\ k \in 1..Len(Kids(g, i)) /\ Kids(g, i)[k] = c /\ Called(g, c) = s
          /\ \A l \in 1..(k - 1) : Called(g, Kids(g, i)[l]) # s
      BY <1>5 DEF FirstAt
    <2>2. ~(k > Len(Kids(h, i)))
      <3> SUFFICES ASSUME k > Len(Kids(h, i)) PROVE FALSE
        OBVIOUS
      <3>1. c >= n
        BY <1>1, <2>1
      <3> QED
        BY <1>2, <3>1 DEF Numbers
    <2>3. k \in 1..Len(Kids(h, i)) /\ Kids(h, i)[k] = c
      BY <1>1, <1>2, <1>3, <2>1, <2>2
    <2>4. Called(h, c) = s
      BY <1>1, <1>2, <2>1, <2>3
    <2>5. \A l \in 1..(k - 1) : Called(h, Kids(h, i)[l]) # s
      <3>1. ASSUME NEW l \in 1..(k - 1) PROVE Called(h, Kids(h, i)[l]) # s
        <4>1. l \in 1..Len(Kids(h, i))
          BY <1>2, <2>3
        <4>2. Kids(h, i)[l] \in Born(n) /\ Kids(g, i)[l] = Kids(h, i)[l]
          BY <1>1, <1>2, <4>1
        <4>3. Called(g, Kids(h, i)[l]) = Called(h, Kids(h, i)[l])
          BY <1>1, <4>2
        <4> QED
          BY <2>1, <4>2, <4>3
      <3> QED
        BY <3>1
    <2> QED
      BY <2>3, <2>4, <2>5 DEF FirstAt
  <1>6. ASSUME MatchChild(h, i, s) # None PROVE MatchChild(g, i, s) = MatchChild(h, i, s)
    <2>1. Matches(h, n, i, s, MatchChild(h, i, s))
      BY <1>1, <1>6, MatchIs
    <2>2. PICK k : FirstAt(h, i, s, MatchChild(h, i, s), k)
      BY <2>1 DEF Matches
    <2>3. FirstAt(g, i, s, MatchChild(h, i, s), k)
      BY <1>4, <2>2
    <2> QED
      BY <1>1, <1>3, <2>3, MatchFirst
  <1>7. ASSUME MatchChild(g, i, s) \in Numbers(n) PROVE MatchChild(h, i, s) = MatchChild(g, i, s)
    <2>1. MatchChild(g, i, s) # None
      BY <1>2, <1>7
    <2>2. Matches(g, m, i, s, MatchChild(g, i, s))
      BY <1>1, <1>3, <2>1, MatchIs
    <2>3. PICK k : FirstAt(g, i, s, MatchChild(g, i, s), k)
      BY <2>2 DEF Matches
    <2>4. FirstAt(h, i, s, MatchChild(g, i, s), k)
      BY <1>5, <1>7, <2>3
    <2> QED
      BY <1>1, <2>4, MatchFirst
  <1> QED
    BY <1>6, <1>7

\* What was found is still found, and what is found and is not new was found.
LEMMA GrowsFind ==
  ASSUME NEW h, NEW n, NEW g, NEW m, Grows(h, n, g, m), NEW p \in Seq(STRING)
  PROVE  /\ FindIn(h, p) # None => FindIn(g, p) = FindIn(h, p)
         /\ FindIn(g, p) \in Numbers(n) => FindIn(h, p) = FindIn(g, p)
  <1>1. SoundTree(h.tree, n) /\ SoundTree(g.tree, m)
    BY DEF Grows
  <1>2. PICK l : IsLevels(h, n, p, l)
    BY <1>1, HasLevels
  <1>3. PICK e : IsLevels(g, m, p, e)
    BY <1>1, HasLevels
  <1>4. /\ l[0] = 0 /\ \A k \in 1..Len(p) : l[k] = Child(h, l[k - 1], p[k])
        /\ e[0] = 0 /\ \A k \in 1..Len(p) : e[k] = Child(g, e[k - 1], p[k])
        /\ FindIn(h, p) = l[Len(p)] /\ FindIn(g, p) = e[Len(p)]
        /\ \A k \in 0..Len(p) : l[k] \in Numbers(n) \cup {None}
    BY <1>2, <1>3 DEF IsLevels
  <1>5. /\ Len(p) \in Nat /\ None \notin Numbers(n) /\ 0 \in Numbers(n)
        /\ \A x \in Numbers(n) : h.tree[x].parent \in Numbers(n)
    BY <1>1, TreeSizes, LenProperties
  <1>6. \A k \in 1..Len(p) : e[k] # None => g.tree[e[k]].parent = e[k - 1]
    <2>1. Climbs(g, m, p, e)
      BY <1>1, <1>3, Climbing
    <2> QED
      BY <2>1 DEF Climbs
  <1>7. \A x \in Numbers(n) : \A s :
           /\ MatchChild(h, x, s) # None => MatchChild(g, x, s) = MatchChild(h, x, s)
           /\ MatchChild(g, x, s) \in Numbers(n) => MatchChild(h, x, s) = MatchChild(g, x, s)
    BY GrowsChild
  <1>8. \A x \in Numbers(n) : g.tree[x].parent = h.tree[x].parent
    BY DEF Grows
  <1> DEFINE T == {k \in 0..Len(p) : (l[k] # None => e[k] = l[k]) /\ (e[k] \in Numbers(n) => l[k] = e[k])}
  <1>9. 0 \in T
    BY <1>4, <1>5
  <1>10. ASSUME NEW k \in 0..(Len(p) - 1), k \in T PROVE k + 1 \in T
    <2>1. k + 1 \in 1..Len(p) /\ (k + 1) - 1 = k /\ k \in 0..Len(p)
      BY <1>5
    <2>2. /\ l[k + 1] = Child(h, l[k], p[k + 1]) /\ e[k + 1] = Child(g, e[k], p[k + 1])
          /\ (e[k + 1] # None => g.tree[e[k + 1]].parent = e[k])
          /\ (l[k] # None => e[k] = l[k]) /\ (e[k] \in Numbers(n) => l[k] = e[k])
          /\ l[k] \in Numbers(n) \cup {None}
      BY <1>4, <1>6, <1>10, <2>1
    <2>3. ASSUME l[k + 1] # None PROVE e[k + 1] = l[k + 1]
      <3>1. l[k] # None /\ MatchChild(h, l[k], p[k + 1]) = l[k + 1]
        BY <2>2, <2>3 DEF Child
      <3>2. l[k] \in Numbers(n) /\ e[k] = l[k]
        BY <2>2, <3>1
      <3>3. MatchChild(g, l[k], p[k + 1]) = l[k + 1]
        BY <1>7, <2>3, <3>1, <3>2
      <3> QED
        BY <2>2, <3>1, <3>2, <3>3 DEF Child
    <2>4. ASSUME e[k + 1] \in Numbers(n) PROVE l[k + 1] = e[k + 1]
      <3>1. e[k + 1] # None
        BY <1>5, <2>4
      <3>2. e[k] \in Numbers(n)
        BY <1>5, <1>8, <2>2, <2>4, <3>1
      <3>3. e[k] # None /\ MatchChild(g, e[k], p[k + 1]) = e[k + 1]
        BY <1>5, <2>2, <3>2 DEF Child
      <3>4. MatchChild(h, e[k], p[k + 1]) = e[k + 1]
        BY <1>7, <2>4, <3>2, <3>3
      <3> QED
        BY <2>2, <3>2, <3>3, <3>4 DEF Child
    <2> QED
      BY <2>1, <2>3, <2>4
  <1> HIDE DEF T
  <1>11. 0..Len(p) \subseteq T
    BY <1>5, <1>9, <1>10, UpTo
  <1>12. Len(p) \in T
    BY <1>5, <1>11
  <1> QED
    BY <1>4, <1>12 DEF T

LEMMA GrowsTrans ==
  ASSUME NEW h, NEW n, NEW g, NEW m, NEW r, NEW k, Grows(h, n, g, m), Grows(g, m, r, k)
  PROVE  Grows(h, n, r, k)
  <1>1. /\ SoundTree(h.tree, n) /\ SoundTree(g.tree, m) /\ SoundTree(r.tree, k) /\ n <= m /\ m <= k
    BY DEF Grows
  <1>2. n \in Nat \ {0} /\ m \in Nat \ {0} /\ k \in Nat \ {0}
    BY <1>1, TreeSizes
  <1>3. Numbers(n) \subseteq Numbers(m) /\ Born(n) \subseteq Born(m) /\ n <= k
    BY <1>1, <1>2 DEF Numbers, Born
  <1>4. ASSUME NEW i \in Numbers(n)
        PROVE  /\ r.tree[i].obj = h.tree[i].obj /\ r.tree[i].parent = h.tree[i].parent
               /\ Len(Kids(h, i)) <= Len(Kids(r, i))
               /\ \A x \in 1..Len(Kids(h, i)) : Kids(r, i)[x] = Kids(h, i)[x]
               /\ \A x \in 1..Len(Kids(r, i)) : x > Len(Kids(h, i)) => Kids(r, i)[x] >= n
    <2>1. /\ Len(Kids(h, i)) \in Nat /\ Len(Kids(g, i)) \in Nat /\ i \in Numbers(k)
      BY <1>1, <1>2, <1>3, TreeSizes DEF Numbers
    <2>2. Len(Kids(r, i)) \in Nat /\ \A x \in 1..Len(Kids(r, i)) : Kids(r, i)[x] \in Born(k)
      BY <1>1, <2>1, TreeSizes
    <2>3. /\ g.tree[i].obj = h.tree[i].obj /\ g.tree[i].parent = h.tree[i].parent
          /\ Len(Kids(h, i)) <= Len(Kids(g, i))
          /\ \A x \in 1..Len(Kids(h, i)) : Kids(g, i)[x] = Kids(h, i)[x]
          /\ \A x \in 1..Len(Kids(g, i)) : x > Len(Kids(h, i)) => Kids(g, i)[x] >= n
      BY DEF Grows
    <2>4. /\ r.tree[i].obj = g.tree[i].obj /\ r.tree[i].parent = g.tree[i].parent
          /\ Len(Kids(g, i)) <= Len(Kids(r, i))
          /\ \A x \in 1..Len(Kids(g, i)) : Kids(r, i)[x] = Kids(g, i)[x]
          /\ \A x \in 1..Len(Kids(r, i)) : x > Len(Kids(g, i)) => Kids(r, i)[x] >= m
      BY <1>3 DEF Grows
    <2>5. ASSUME NEW x \in 1..Len(Kids(r, i)), x > Len(Kids(h, i)) PROVE Kids(r, i)[x] >= n
      <3>1. CASE x > Len(Kids(g, i))
        <4>1. Kids(r, i)[x] >= m /\ Kids(r, i)[x] \in Nat
          BY <2>2, <2>4, <3>1 DEF Born
        <4> QED
          BY <1>1, <1>2, <4>1
      <3>2. CASE ~(x > Len(Kids(g, i)))
        BY <2>1, <2>2, <2>3, <2>4, <2>5, <3>2
      <3> QED
        BY <3>1, <3>2
    <2>6. \A x \in 1..Len(Kids(h, i)) : Kids(r, i)[x] = Kids(h, i)[x]
      BY <2>1, <2>3, <2>4
    <2> QED
      BY <2>1, <2>2, <2>3, <2>4, <2>5, <2>6
  <1>5. \A i \in Born(n) : Called(r, i) = Called(h, i)
    BY <1>3 DEF Grows
  <1> QED
    BY <1>1, <1>3, <1>4, <1>5 DEF Grows

LEMMA GrowsSelf ==
  ASSUME NEW h, NEW n, SoundTree(h.tree, n)
  PROVE  Grows(h, n, h, n)
  <1>1. n \in Nat \ {0} /\ \A i \in Numbers(n) : Len(Kids(h, i)) \in Nat
    BY TreeSizes
  <1> QED
    BY <1>1 DEF Grows

-----------------------------------------------------------------------------
(* The walk of vfs_mount()                                                 *)

\* Every directory has a name.
Named(h, n) == \A i \in Born(n) : h.tree[i].obj \notin File => i \in DOMAIN h.name

Place(t, n) ==
    /\ SoundTree(t.tree, n) /\ Named(t, n)
    /\ t \in [tree : {t.tree}, name : {t.name}, at : Numbers(n), lost : {t.lost}]

\* A node behind the others of its parent, with the names that r has.
LEMMA InsertGrows ==
  ASSUME NEW t, NEW n, Place(t, n), n < MaxNodes, NEW o \in {n} \cup File,
         \A j \in Numbers(n) : t.tree[j].obj # o,
         NEW r, r.tree = InsertChild(t, t.at, o).tree,
         \A i \in DOMAIN t.name : i # n => r.name[i] = t.name[i]
  PROVE  /\ Grows(t, n, r, n + 1)
         /\ r.tree[n].obj = o /\ r.tree[n].parent = t.at
         /\ Kids(r, t.at) = Append(Kids(t, t.at), n)
  <1>1. /\ SoundTree(t.tree, n) /\ t.at \in Numbers(n)
        /\ t \in [tree : {t.tree}, name : {t.name}, at : {t.at}, lost : {t.lost}]
    BY DEF Place
  <1>2. /\ n \in Nat \ {0} /\ Born(n) \subseteq Numbers(n)
        /\ \A i \in Numbers(n) : Len(Kids(t, i)) \in Nat
    BY <1>1, TreeSizes
  <1>3. o \in Objects /\ n \notin File
    BY <1>2, VfsAssumption DEF Objects, Ids
  <1>4. SoundTree(r.tree, n + 1)
    BY <1>1, Placing
  <1>5. /\ r.tree[n] = Leaf(o, t.at)
        /\ \A j \in Numbers(n) : /\ r.tree[j].obj = t.tree[j].obj /\ r.tree[j].parent = t.tree[j].parent
                                 /\ r.tree[j].kids = IF j = t.at THEN Append(t.tree[j].kids, n) ELSE t.tree[j].kids
    BY <1>1, <1>3, Inserting
  <1>6. ASSUME NEW j \in Numbers(n)
        PROVE  /\ Len(Kids(t, j)) <= Len(Kids(r, j))
               /\ \A k \in 1..Len(Kids(t, j)) : Kids(r, j)[k] = Kids(t, j)[k]
               /\ \A k \in 1..Len(Kids(r, j)) : k > Len(Kids(t, j)) => Kids(r, j)[k] >= n
    <2> DEFINE q == Kids(t, j)
    <2>1. q \in Seq(Born(n)) /\ Len(q) \in Nat
      BY <1>1, <1>2 DEF SoundTree, Kids
    <2>2. Kids(r, j) = IF j = t.at THEN Append(q, n) ELSE q
      BY <1>5 DEF Kids
    <2>3. /\ Len(Append(q, n)) = Len(q) + 1 /\ Append(q, n)[Len(q) + 1] = n
          /\ \A k \in 1..Len(q) : Append(q, n)[k] = q[k]
      BY <1>2, <2>1
    <2> HIDE DEF q
    <2>4. CASE j = t.at
      <3>1. Kids(r, j) = Append(q, n)
        BY <2>2, <2>4
      <3> QED
        BY <1>2, <2>1, <2>3, <3>1 DEF q
    <2>5. CASE j # t.at
      BY <2>1, <2>2, <2>5 DEF q
    <2> QED
      BY <2>4, <2>5
  <1>7. \A i \in Born(n) : Called(r, i) = Called(t, i)
    BY <1>2, <1>5 DEF Place, Named, Called, IsDirectory, Born
  <1>8. Grows(t, n, r, n + 1)
    BY <1>1, <1>2, <1>4, <1>5, <1>6, <1>7 DEF Grows
  <1>9. Kids(r, t.at) = Append(Kids(t, t.at), n)
    BY <1>1, <1>5 DEF Kids
  <1> QED
    BY <1>5, <1>8, <1>9 DEF Leaf

\* The tree of r has m nodes: those of t, and one more if r has just created it.
OneMore(t, n, r, m) ==
    /\ Place(r, m) /\ Grows(t, n, r, m)
    /\ r.at \in Born(m) /\ r.tree[r.at].parent = t.at /\ (m = n + 1 => r.at = n)

\* create_or_traverse() with a node comes to a child of where it was, old or new.
LEMMA CreateGrows ==
  ASSUME NEW t, NEW n, Place(t, n), n < MaxNodes, NEW s, NEW r \in CreateOrTraverse(t, s, TRUE)
  PROVE  \E m \in {n, n + 1} : OneMore(t, n, r, m)
  <1> DEFINE new == InsertChild(t, t.at, n)
  <1>1. /\ SoundTree(t.tree, n) /\ t.at \in Numbers(n) /\ Named(t, n)
        /\ t \in [tree : {t.tree}, name : {t.name}, at : {t.at}, lost : {t.lost}]
    BY DEF Place
  <1>2. n \in Nat \ {0} /\ Born(n) \subseteq Numbers(n)
    BY <1>1, TreeSizes
  <1>3. ASSUME NEW c \in Born(n), t.tree[c].parent = t.at, Taken(t, r, c)
        PROVE  Place(r, n) /\ Grows(t, n, r, n) /\ r.at \in Born(n) /\ r.tree[r.at].parent = t.at
    <2>1. r = [t EXCEPT !.at = c] /\ c \in Numbers(n)
      BY <1>2, <1>3 DEF Taken
    <2>2. r.tree = t.tree /\ r.name = t.name /\ r.at = c
          /\ r \in [tree : {r.tree}, name : {r.name}, at : Numbers(n), lost : {r.lost}]
      BY <1>1, <2>1
    <2>3. Place(r, n)
      BY <1>1, <2>2 DEF Place, Named
    <2>4. Grows(t, n, r, n)
      <3>1. Grows(t, n, t, n)
        BY <1>1, GrowsSelf
      <3> QED
        BY <2>2, <3>1 DEF Grows, Kids, Called
    <2> QED
      BY <1>3, <2>2, <2>3, <2>4
  <1>4. ASSUME Created(t, r, s, n)
        PROVE  /\ Place(r, n + 1) /\ Grows(t, n, r, n + 1)
               /\ r.at = n /\ n \in Born(n + 1) /\ r.tree[n].parent = t.at
    <2>1. r = [new EXCEPT !.name = Extend(@, n, s)]
      BY <1>4 DEF Created
    <2>2. n \in Objects /\ n \notin File
      BY <1>2, VfsAssumption DEF Objects, Ids
    <2>3. \A j \in Numbers(n) : t.tree[j].obj # n
      BY <1>1, <1>2, <2>2 DEF SoundTree, Numbers
    <2>4. /\ new \in [tree : {new.tree}, name : {t.name}, at : {n}, lost : {t.lost \/ t.tree[t.at].cut}]
      BY <1>1, <2>2, Inserting
    <2> HIDE DEF new
    <2>5. r.tree = new.tree /\ r.name = Extend(t.name, n, s) /\ r.at = n
          /\ r \in [tree : {r.tree}, name : {r.name}, at : {n}, lost : {r.lost}]
      BY <2>1, <2>4
    <2>6. DOMAIN r.name = DOMAIN t.name \cup {n}
          /\ \A i \in DOMAIN t.name : i # n => r.name[i] = t.name[i]
      BY <2>5 DEF Extend
    <2>7. Grows(t, n, r, n + 1) /\ r.tree[n].obj = n /\ r.tree[n].parent = t.at
      <3>1. r.tree = InsertChild(t, t.at, n).tree
        BY <2>5 DEF new
      <3>2. \A i \in DOMAIN t.name : i # n => r.name[i] = t.name[i]
        BY <2>6
      <3> QED
        BY <2>3, <3>1, <3>2, InsertGrows
    <2>8. /\ SoundTree(r.tree, n + 1) /\ Numbers(n + 1) = Numbers(n) \cup {n}
          /\ Born(n + 1) \subseteq Born(n) \cup {n} /\ n \in Born(n + 1)
      BY <1>2, <2>7 DEF Grows, Numbers, Born
    <2>9. Named(r, n + 1)
      BY <1>1, <1>2, <2>6, <2>7, <2>8 DEF Named, Grows
    <2>10. Place(r, n + 1)
      BY <2>5, <2>8, <2>9 DEF Place
    <2> QED
      BY <2>5, <2>7, <2>8, <2>10
  <1>5. \/ \E c \in Born(n) : t.tree[c].parent = t.at /\ Taken(t, r, c)
        \/ Created(t, r, s, n)
    BY <1>1, GoingOn
  <1>6. CASE \E c \in Born(n) : t.tree[c].parent = t.at /\ Taken(t, r, c)
    <2>1. OneMore(t, n, r, n)
      BY <1>2, <1>3, <1>6 DEF OneMore
    <2> QED
      BY <2>1
  <1>7. CASE Created(t, r, s, n)
    <2>1. OneMore(t, n, r, n + 1)
      BY <1>4, <1>7 DEF OneMore
    <2> QED
      BY <2>1
  <1> QED
    BY <1>5, <1>6, <1>7

\* The nodes that a walk of k names has come to, the last one c; all that it has
\* created are among them.
Passes(t, n, k, F, c) ==
    /\ F \in [0..k -> Numbers(n)] /\ F[0] = 0 /\ F[k] = c
    /\ \A j \in 1..k : F[j] \in Born(n) /\ t.tree[F[j]].parent = F[j - 1]
    /\ \A x \in Numbers(n) : x >= Size => \E j \in 1..k : F[j] = x

LEMMA PassesOn ==
  ASSUME NEW t, NEW n, NEW k \in Nat, NEW F, NEW i, Passes(t, n, k, F, i), Size \in Nat,
         NEW r, NEW m \in {n, n + 1}, Grows(t, n, r, m),
         NEW c \in Born(m), r.tree[c].parent = i, m = n + 1 => c = n
  PROVE  \E H : Passes(r, m, k + 1, H, c)
  <1> DEFINE H == [j \in 0..(k + 1) |-> IF j <= k THEN F[j] ELSE c]
  <1>1. /\ F \in [0..k -> Numbers(n)] /\ F[0] = 0 /\ F[k] = i
        /\ \A j \in 1..k : F[j] \in Born(n) /\ t.tree[F[j]].parent = F[j - 1]
        /\ \A x \in Numbers(n) : x >= Size => \E j \in 1..k : F[j] = x
    BY DEF Passes
  <1>2. n \in Nat \ {0}
    BY TreeSizes DEF Grows
  <1>3. Numbers(n) \subseteq Numbers(m) /\ Numbers(m) \subseteq Numbers(n) \cup {n}
        /\ Born(n) \subseteq Born(m) /\ Born(m) \subseteq Numbers(m) /\ Born(n) \subseteq Numbers(n)
    BY <1>2 DEF Numbers, Born
  <1>4. (\A j \in 0..k : H[j] = F[j]) /\ H[k + 1] = c /\ H \in [0..(k + 1) -> Numbers(m)]
    BY <1>1, <1>3
  <1> HIDE DEF H
  <1>5. ASSUME NEW j \in 1..(k + 1) PROVE H[j] \in Born(m) /\ r.tree[H[j]].parent = H[j - 1]
    <2>1. CASE j = k + 1
      BY <1>1, <1>4, <2>1
    <2>2. CASE j # k + 1
      <3>1. j \in 1..k /\ j - 1 \in 0..k /\ j \in 0..k
        BY <2>2
      <3>2. F[j] \in Born(n) /\ t.tree[F[j]].parent = F[j - 1]
        BY <1>1, <3>1
      <3>3. r.tree[F[j]].parent = F[j - 1]
        BY <1>3, <3>2 DEF Grows
      <3> QED
        BY <1>3, <1>4, <3>1, <3>2, <3>3
    <2> QED
      BY <2>1, <2>2
  <1>6. ASSUME NEW x \in Numbers(m), x >= Size PROVE \E j \in 1..(k + 1) : H[j] = x
    <2>1. CASE x \in Numbers(n)
      <3>1. PICK j \in 1..k : F[j] = x
        BY <1>1, <1>6, <2>1
      <3> QED
        BY <1>4, <3>1
    <2>2. CASE x \notin Numbers(n)
      <3>1. x = n /\ m = n + 1
        BY <1>2, <1>3, <2>2 DEF Numbers
      <3> QED
        BY <1>4, <3>1
    <2> QED
      BY <2>1, <2>2
  <1>7. H[0] = 0
    BY <1>1, <1>4
  <1> QED
    BY <1>4, <1>5, <1>6, <1>7 DEF Passes

LEMMA WalkGrows ==
  ASSUME TreeInv, Named(Here, Size), NEW d \in Seq(STRING), Size + Len(d) < MaxNodes, NEW t \in WalksTo(d, TRUE)
  PROVE  \E n \in Size..(Size + Len(d)) :
            /\ Place(t, n) /\ Grows(Here, Size, t, n)
            /\ \E F : Passes(t, n, Len(d), F, t.at)
  <1>1. Size \in Nat /\ MaxNodes \in Nat /\ Len(d) \in Nat /\ Size > 0 /\ Size \in 1..MaxNodes
    BY VfsAssumption DEF TreeInv, SoundTree
  <1>2. PICK w : AreWalks(w, d, TRUE) /\ WalksTo(d, TRUE) = w[Len(d)]
    BY <1>1, WalkIsInductive
  <1>3. /\ w[0] = {Here}
        /\ \A k \in 0..(Len(d) - 1) : \A r \in w[k + 1] :
              \E x \in w[k] : r \in CreateOrTraverse(x, d[k + 1], TRUE)
    BY <1>2, WalksAre
  <1> DEFINE Good(r, k) == \E n \in Size..(Size + k) :
                              /\ Place(r, n) /\ Grows(Here, Size, r, n)
                              /\ \E F : Passes(r, n, k, F, r.at)
             T == {k \in 0..Len(d) : \A r \in w[k] : Good(r, k)}
  <1>4. 0 \in T
    <2>1. /\ Here.tree = tree /\ Here.at = 0
          /\ Here \in [tree : {Here.tree}, name : {Here.name}, at : {0}, lost : {Here.lost}]
      BY DEF Here
    <2>2. 0 \in Numbers(Size) /\ Size \in Size..(Size + 0) /\ SoundTree(Here.tree, Size)
      BY <1>1, <2>1 DEF Numbers, TreeInv
    <2>3. Place(Here, Size)
      BY <2>1, <2>2 DEF Place
    <2>4. Grows(Here, Size, Here, Size)
      BY <2>2, GrowsSelf
    <2> DEFINE F == [j \in 0..0 |-> 0]
    <2>5. F \in [0..0 -> Numbers(Size)] /\ F[0] = 0
      BY <2>2
    <2> HIDE DEF F
    <2>6. Passes(Here, Size, 0, F, Here.at)
      <3>1. \A c \in Numbers(Size) : ~(c >= Size)
        BY <1>1 DEF Numbers
      <3> QED
        BY <2>1, <2>5, <3>1 DEF Passes
    <2>7. Good(Here, 0)
      BY <2>2, <2>3, <2>4, <2>6
    <2> HIDE DEF Good
    <2> QED
      BY <1>1, <1>3, <2>7
  <1>5. ASSUME NEW k \in 0..(Len(d) - 1), k \in T PROVE k + 1 \in T
    <2>1. k \in Nat /\ k + 1 \in 0..Len(d)
      BY <1>1
    <2>2. ASSUME NEW r \in w[k + 1] PROVE Good(r, k + 1)
      <3>1. PICK x \in w[k] : r \in CreateOrTraverse(x, d[k + 1], TRUE)
        BY <1>3
      <3>2. PICK n \in Size..(Size + k) : /\ Place(x, n) /\ Grows(Here, Size, x, n)
                                          /\ \E F : Passes(x, n, k, F, x.at)
        BY <1>5
      <3>3. PICK F : Passes(x, n, k, F, x.at)
        BY <3>2
      <3>4. n < MaxNodes /\ n \in Nat
        BY <1>1, <3>2
      <3>5. PICK m \in {n, n + 1} : OneMore(x, n, r, m)
        <4>1. PICK s : r \in CreateOrTraverse(x, s, TRUE)
          BY <3>1
        <4>2. Place(x, n) /\ n < MaxNodes
          BY <3>2, <3>4
        <4> QED
          BY <4>1, <4>2, CreateGrows
      <3>6. /\ Place(r, m) /\ Grows(x, n, r, m)
            /\ r.at \in Born(m) /\ r.tree[r.at].parent = x.at /\ (m = n + 1 => r.at = n)
        BY <3>5 DEF OneMore
      <3>7. Grows(Here, Size, r, m)
        BY <3>2, <3>6, GrowsTrans
      <3>8. \E H : Passes(r, m, k + 1, H, r.at)
        BY <1>1, <2>1, <3>3, <3>6, PassesOn
      <3>9. m \in Size..(Size + (k + 1))
        BY <1>1, <3>2
      <3> QED
        BY <3>6, <3>7, <3>8, <3>9
    <2> HIDE DEF Good
    <2> QED
      BY <2>1, <2>2
  <1> HIDE DEF T
  <1>6. 0..Len(d) \subseteq T
    BY <1>1, <1>4, <1>5, UpTo
  <1>7. Len(d) \in T
    BY <1>1, <1>6
  <1> QED
    BY <1>2, <1>7 DEF T

-----------------------------------------------------------------------------
(* Mounting                                                                *)

\* q leads along the path e.
Along(q, e) == Len(q) <= Len(e) /\ \A x \in 1..Len(q) : q[x] = e[x]

\* All that is found in the tree of r and was not lies along one path.
NewOnPath(r) ==
    \E e : /\ Len(e) \in Nat
          /\ \A q \in Seq(STRING) : FindIn(Here, q) = None /\ FindIn(r, q) # None => Along(q, e)

\* A trail to all that is new in a tree has the names on the way to it.
LEMMA NewAlong ==
  ASSUME NEW r, NEW z, Grows(Here, Size, r, z), Size \in Nat, NEW K \in Nat, NEW F, NEW c, Passes(r, z, K, F, c)
  PROVE  NewOnPath(r)
  <1> DEFINE e == [j \in 1..K |-> Called(r, F[j])]
  <1>1. Len(e) = K /\ \A j \in 1..K : e[j] = Called(r, F[j])
    OBVIOUS
  <1> HIDE DEF e
  <1>2. SoundTree(r.tree, z)
    BY DEF Grows
  <1>3. /\ z \in Nat \ {0} /\ None \notin Numbers(z) /\ 0 \in Numbers(z)
    BY <1>2, TreeSizes
  <1>4. Trail(r, z, K, F)
    <2>1. ASSUME NEW j \in 1..K
          PROVE F[j - 1] \in Numbers(z) /\ F[j] \in Born(z) /\ r.tree[F[j]].parent = F[j - 1]
      <3>1. j - 1 \in 0..K
        OBVIOUS
      <3> QED
        BY <3>1 DEF Passes
    <2> QED
      BY <2>1 DEF Passes, Trail
  <1>5. ASSUME NEW q \in Seq(STRING), FindIn(Here, q) = None, FindIn(r, q) # None PROVE Along(q, e)
    <2>1. Len(q) \in Nat
      BY LenProperties
    <2>2. PICK m : IsLevels(r, z, q, m)
      BY <1>2, HasLevels
    <2>3. /\ Trail(r, z, Len(q), m)
          /\ \A k \in 1..Len(q) : m[k] # None => Called(r, m[k]) = q[k]
      BY <1>2, <2>2, LevelsTrail
    <2>4. SameTrail(Len(q), m, K, F)
      BY <1>4, <2>1, <2>3, OneTrail
    <2> DEFINE i == m[Len(q)]
    <2>5. FindIn(r, q) = i /\ i # None /\ i \in Numbers(z)
      BY <1>5, <2>1, <2>2 DEF IsLevels
    <2>6. i \notin Numbers(Size)
      <3> SUFFICES ASSUME i \in Numbers(Size) PROVE FALSE
        OBVIOUS
      <3>1. FindIn(Here, q) = FindIn(r, q)
        BY <2>5, GrowsFind
      <3> QED
        BY <1>5, <3>1
    <2>7. i >= Size
      BY <1>3, <2>5, <2>6 DEF Numbers
    <2>8. PICK j \in 1..K : F[j] = i
      BY <2>5, <2>7 DEF Passes
    <2>9. Len(q) \in 0..Len(q) /\ j \in 0..K /\ m[Len(q)] = F[j] /\ m[Len(q)] # None
      BY <2>1, <2>5, <2>8
    <2> HIDE DEF i
    <2>10. Len(q) = j /\ \A x \in 0..Len(q) : m[x] = F[x] /\ m[x] # None
      BY <2>4, <2>9 DEF SameTrail
    <2>11. ASSUME NEW x \in 1..Len(q) PROVE q[x] = e[x]
      <3>1. x \in 0..Len(q) /\ x \in 1..K
        BY <2>1, <2>10
      <3> QED
        BY <1>1, <2>3, <2>10, <3>1
    <2>12. Len(q) <= Len(e)
      BY <1>1, <2>10
    <2> QED
      BY <2>11, <2>12 DEF Along
  <1> QED
    BY <1>1, <1>5 DEF NewOnPath

\* The tree of r is that of t with the n-th node for f.
Gains(t, f, r, n) ==
    /\ Grows(Here, Size, r, n + 1) /\ Named(r, n + 1) /\ r.tree[n].obj = f
    /\ InsertChild(t, t.at, f).at = n /\ NewOnPath(r)

\* vfs_mount(): the tree grows, and what is found in it anew lies along one path.
LEMMA MountGrows ==
  ASSUME TreeInv, PlacedInv, Named(Here, Size), NEW d \in Seq(STRING), NEW f \in File,
         f \notin DOMAIN vfsPtr, Size + Len(d) < MaxNodes, NEW t \in WalksTo(d, TRUE),
         NEW r, r.tree = InsertChild(t, t.at, f).tree, r.name = t.name
  PROVE  \E n \in Nat : Gains(t, f, r, n)
  <1>1. Size \in Nat /\ MaxNodes \in Nat /\ Len(d) \in Nat /\ Size > 0
    BY VfsAssumption, LenProperties DEF TreeInv, SoundTree
  <1>2. PICK n \in Size..(Size + Len(d)) : /\ Place(t, n) /\ Grows(Here, Size, t, n)
                                           /\ \E F : Passes(t, n, Len(d), F, t.at)
    BY WalkGrows
  <1>3. PICK F : Passes(t, n, Len(d), F, t.at)
    BY <1>2
  <1>4. \A j \in Numbers(n) : t.tree[j].obj # f
    <2>1. PICK m \in Size..(Size + Len(d)) : Walked(t, m)
      BY Walking
    <2>2. m = n
      BY <1>2, <2>1, SizeOf DEF Walked, Place
    <2> QED
      BY <2>1, <2>2 DEF Walked, PlacedInv
  <1>5. n \in Nat /\ n < MaxNodes /\ t.at \in Numbers(n) /\ SoundTree(t.tree, n)
        /\ t \in [tree : {t.tree}, name : {t.name}, at : {t.at}, lost : {t.lost}]
    BY <1>1, <1>2 DEF Place
  <1>6. Grows(t, n, r, n + 1) /\ r.tree[n].obj = f /\ r.tree[n].parent = t.at
    <2>1. \A i \in DOMAIN t.name : i # n => r.name[i] = t.name[i]
      OBVIOUS
    <2> QED
      BY <1>2, <1>4, <1>5, <2>1, InsertGrows
  <1> DEFINE z == n + 1
  <1> HIDE DEF z
  <1>7. z = n + 1 /\ z \in {n, n + 1} /\ Grows(t, n, r, z)
    BY <1>6 DEF z
  <1>8. Grows(Here, Size, r, z)
    BY <1>2, <1>7, GrowsTrans
  <1>9. Numbers(z) = Numbers(n) \cup {n} /\ Born(z) \subseteq Born(n) \cup {n} /\ n \in Born(z)
    BY <1>1, <1>2, <1>5, <1>7 DEF Numbers, Born
  <1>10. Named(r, z)
    <2>1. \A i \in Born(n) : r.tree[i].obj = t.tree[i].obj
      BY <1>5, <1>6, TreeSizes DEF Grows
    <2> QED
      BY <1>2, <1>6, <1>9, <2>1 DEF Named, Place
  <1>11. InsertChild(t, t.at, f).at = n
    BY <1>5, Inserting DEF Objects
  <1>12. PICK H : Passes(r, z, Len(d) + 1, H, n)
    BY <1>1, <1>3, <1>6, <1>9, <1>7, PassesOn
  <1>13. PICK K \in Nat : K = Len(d) + 1
    BY <1>1
  <1>14. NewOnPath(r)
    <2>1. Passes(r, z, K, H, n)
      BY <1>12, <1>13
    <2> QED
      BY <1>1, <1>8, <2>1, NewAlong
  <1>15. Gains(t, f, r, n)
    BY <1>6, <1>8, <1>10, <1>11, <1>14, <1>7 DEF Gains
  <1> QED
    BY <1>5, <1>15

-----------------------------------------------------------------------------
(* Names                                                                   *)

LEMMA Prefix ==
  ASSUME NEW s \in Seq(STRING), NEW t \in Seq(STRING), Along(s, t)
  PROVE  NS!IsPrefix(s, t)
  <1> DEFINE n == Len(s)
             a == SubSeq(s, 1, n)
             b == SubSeq(t, 1, n)
  <1>1. n \in Nat /\ Len(t) \in Nat /\ n <= Len(t) /\ \A x \in 1..n : s[x] = t[x]
    BY LenProperties DEF Along
  <1>2. (\A x \in 1..n : s[x] \in STRING) /\ (\A x \in 1..n : t[x] \in STRING)
    BY <1>1, ElementOfSeq
  <1>3. a \in Seq(STRING) /\ Len(a) = n /\ \A x \in 1..n : a[x] = s[x]
    <2>1. /\ a \in Seq(STRING) /\ Len(a) = IF 1 <= n THEN n - 1 + 1 ELSE 0
          /\ \A x \in 1..(n - 1 + 1) : a[x] = s[1 + x - 1]
      BY <1>1, <1>2, SubSeqProperties
    <2> HIDE DEF a
    <2> QED
      BY <1>1, <2>1
  <1>4. b \in Seq(STRING) /\ Len(b) = n /\ \A x \in 1..n : b[x] = t[x]
    <2>1. /\ b \in Seq(STRING) /\ Len(b) = IF 1 <= n THEN n - 1 + 1 ELSE 0
          /\ \A x \in 1..(n - 1 + 1) : b[x] = t[1 + x - 1]
      BY <1>1, <1>2, SubSeqProperties
    <2> HIDE DEF b
    <2> QED
      BY <1>1, <2>1
  <1>5. a = b
    <2> HIDE DEF a, b, n
    <2>1. \A x \in 1..Len(a) : a[x] = b[x]
      BY <1>1, <1>3, <1>4
    <2> QED
      BY <1>3, <1>4, <2>1, SeqEqual
  <1> QED
    BY <1>1, <1>5 DEF NS!IsPrefix

\* Of paths that lead along e, one is the longest.
LEMMA Longest ==
  ASSUME NEW e, Len(e) \in Nat, NEW Q, Q \subseteq Seq(STRING), Q # {}, \A q \in Q : Along(q, e)
  PROVE  \E b \in Q : \A q \in Q : NS!IsPrefix(q, b)
  <1> DEFINE T == {Len(e) - Len(q) : q \in Q}
  <1>1. /\ Len(e) \in Nat
        /\ \A q \in Q : /\ Len(q) \in Nat /\ Len(q) <= Len(e)
                        /\ \A x \in 1..Len(q) : q[x] = e[x]
    BY LenProperties DEF Along
  <1>2. T \subseteq Nat /\ T # {}
    BY <1>1
  <1>3. PICK y \in T : \A z \in T : y <= z
    <2> HIDE DEF T
    <2> QED
      BY <1>2, LeastNat
  <1>4. PICK b \in Q : y = Len(e) - Len(b)
    BY <1>3
  <1>5. ASSUME NEW q \in Q PROVE NS!IsPrefix(q, b)
    <2>1. Len(e) - Len(b) <= Len(e) - Len(q)
      BY <1>3, <1>4
    <2>2. Len(q) <= Len(b)
      BY <1>1, <2>1
    <2>3. \A x \in 1..Len(q) : q[x] = b[x]
      BY <1>1, <2>2
    <2> QED
      BY <2>2, <2>3, Prefix DEF Along
  <1> QED
    BY <1>5

\* x is a path with what it stands for in h.
IsName(h, x) == \E p \in Paths : FindIn(h, p) # None /\ x = <<p, h.tree[FindIn(h, p)].obj>>

LEMMA NamesAre == \A x : x \in Names <=> IsName(Here, x)
  <1>1. \A p : Lookup(p) = FindIn(Here, p)
    BY LookupIs
  <1>2. Here.tree = tree
    BY DEF Here
  <1> SUFFICES ASSUME NEW x PROVE x \in Names <=> IsName(Here, x)
    OBVIOUS
  <1> DEFINE found == {<<p, Lookup(p)>> : p \in Paths}
             good == {y \in found : y[2] # None}
  <1>3. Names = {<<y[1], tree[y[2]].obj>> : y \in good}
    BY DEF Names
  <1>4. ASSUME x \in Names PROVE IsName(Here, x)
    <2>1. PICK y \in good : x = <<y[1], tree[y[2]].obj>>
      BY <1>3, <1>4
    <2>2. PICK p \in Paths : y = <<p, Lookup(p)>>
      OBVIOUS
    <2>3. x = <<p, tree[Lookup(p)].obj>> /\ Lookup(p) # None
      BY <2>1, <2>2
    <2> QED
      BY <1>1, <1>2, <2>3 DEF IsName
  <1>5. ASSUME IsName(Here, x) PROVE x \in Names
    <2>1. PICK p \in Paths : FindIn(Here, p) # None /\ x = <<p, Here.tree[FindIn(Here, p)].obj>>
      BY <1>5 DEF IsName
    <2>2. Lookup(p) # None /\ x = <<p, tree[Lookup(p)].obj>>
      BY <1>1, <1>2, <2>1
    <2>3. <<p, Lookup(p)>> \in good
      BY <2>2
    <2> HIDE DEF good
    <2> QED
      BY <1>3, <2>2, <2>3
  <1> QED
    BY <1>4, <1>5

LEMMA NamesNext == \A x : x \in Names' <=> IsName(Here', x)
  <1>1. (\A x : x \in Names <=> IsName(Here, x))'
    BY NamesAre, PTL
  <1> QED
    BY <1>1 DEF IsName, FindIn, MatchChild

\* The nodes that have a place.
Placed == {tree[i].obj : i \in DOMAIN tree \ freed}

\* What is not freed has no child that is.
KidsLive(h, n, gone) ==
    \A j \in Numbers(n) \ gone : \A k \in 1..Len(Kids(h, j)) : Kids(h, j)[k] \notin gone

LEMMA FoundLive ==
  ASSUME NEW h, NEW n, SoundTree(h.tree, n), NEW gone, 0 \notin gone, KidsLive(h, n, gone),
         NEW p \in Seq(STRING), FindIn(h, p) # None
  PROVE  FindIn(h, p) \in Numbers(n) \ gone
  <1>1. PICK l : IsLevels(h, n, p, l)
    BY HasLevels
  <1>2. /\ l[0] = 0 /\ FindIn(h, p) = l[Len(p)] /\ Len(p) \in Nat /\ 0 \in Numbers(n)
    BY <1>1, LenProperties, TreeSizes DEF IsLevels
  <1>3. Climbs(h, n, p, l)
    BY <1>1, Climbing
  <1>4. ASSUME NEW j \in Numbers(n) \ gone, NEW s, NEW c, MatchChild(h, j, s) = c, c # None
        PROVE  c \in Numbers(n) \ gone
    <2>1. Matches(h, n, j, s, MatchChild(h, j, s))
      BY <1>4, MatchIs
    <2>2. PICK k : FirstAt(h, j, s, c, k)
      BY <1>4, <2>1 DEF Matches
    <2>3. k \in 1..Len(Kids(h, j)) /\ Kids(h, j)[k] = c
      BY <2>2 DEF FirstAt
    <2>4. c \in Born(n) /\ Born(n) \subseteq Numbers(n)
      BY <1>4, <2>1, TreeSizes DEF Matches
    <2> QED
      BY <2>3, <2>4 DEF KidsLive
  <1> DEFINE T == {k \in 0..Len(p) : l[k] # None => l[k] \in Numbers(n) \ gone}
  <1>5. 0 \in T
    BY <1>2
  <1>6. ASSUME NEW k \in 0..(Len(p) - 1), k \in T PROVE k + 1 \in T
    <2>1. k + 1 \in 1..Len(p) /\ (k + 1) - 1 = k /\ k \in 0..Len(p) /\ k + 1 \in 0..Len(p)
      BY <1>2
    <2>2. ASSUME l[k + 1] # None PROVE l[k + 1] \in Numbers(n) \ gone
      <3>1. l[k] \in Numbers(n) /\ MatchChild(h, l[k], p[k + 1]) = l[k + 1]
        BY <1>3, <2>1, <2>2 DEF Climbs
      <3>2. l[k] \in Numbers(n) \ gone
        BY <1>6, <3>1, TreeSizes
      <3> QED
        BY <1>4, <2>2, <3>1, <3>2
    <2> QED
      BY <2>1, <2>2
  <1> HIDE DEF T
  <1>7. 0..Len(p) \subseteq T
    BY <1>2, <1>5, <1>6, UpTo
  <1>8. Len(p) \in T
    BY <1>2, <1>7
  <1> QED
    BY <1>2, <1>8 DEF T

\* Every name stands for one node, which has a place.
LEMMA NamesProper == TreeInv /\ KidsLive(Here, Size, freed) => NS!Proper(Names, Placed)
  <1> SUFFICES ASSUME TreeInv, KidsLive(Here, Size, freed) PROVE NS!Proper(Names, Placed)
    OBVIOUS
  <1>1. /\ SoundTree(Here.tree, Size) /\ Here.tree = tree /\ 0 \notin freed
    BY DEF TreeInv, Here, Born
  <1>2. DOMAIN tree = Numbers(Size)
    BY <1>1, SizeOf
  <1>3. ASSUME NEW x \in Names, NEW y \in Names, x[1] = y[1] PROVE x = y
    <2>1. IsName(Here, x) /\ IsName(Here, y)
      BY NamesAre
    <2> QED
      BY <1>3, <2>1 DEF IsName
  <1>4. ASSUME NEW x \in Names PROVE x[2] \in Placed
    <2>1. IsName(Here, x)
      BY NamesAre
    <2>2. PICK p \in Paths : FindIn(Here, p) # None /\ x = <<p, Here.tree[FindIn(Here, p)].obj>>
      BY <2>1 DEF IsName
    <2>3. p \in Seq(STRING)
      BY VfsAssumption
    <2>4. FindIn(Here, p) \in Numbers(Size) \ freed
      BY <1>1, <2>2, <2>3, FoundLive
    <2> QED
      BY <1>1, <1>2, <2>2, <2>4 DEF Placed
  <1> QED
    BY <1>3, <1>4 DEF NS!Proper

LEMMA GrowsLive ==
  ASSUME NEW h, NEW n, NEW g, NEW m, Grows(h, n, g, m), NEW gone, gone \subseteq Born(n), KidsLive(h, n, gone)
  PROVE  KidsLive(g, m, gone)
  <1>1. /\ SoundTree(h.tree, n) /\ SoundTree(g.tree, m)
    BY DEF Grows
  <1>2. n \in Nat \ {0} /\ m \in Nat \ {0}
    BY <1>1, TreeSizes
  <1> SUFFICES ASSUME NEW j \in Numbers(m) \ gone, NEW k \in 1..Len(Kids(g, j))
      PROVE  Kids(g, j)[k] \notin gone
    BY DEF KidsLive
  <1>3. Kids(g, j)[k] \in Born(m) /\ j < Kids(g, j)[k]
    <2>1. Kids(g, j)[k] \in Born(m)
      BY <1>1, TreeSizes
    <2>2. \A x \in 1..Len(g.tree[j].kids) : j < g.tree[j].kids[x]
      BY <1>1 DEF SoundTree
    <2> QED
      BY <2>1, <2>2 DEF Kids
  <1>4. Kids(g, j)[k] >= n => Kids(g, j)[k] \notin gone
    BY <1>2, <1>3 DEF Born
  <1>5. CASE j \in Numbers(n)
    <2>1. Len(Kids(h, j)) \in Nat
      BY <1>1, <1>5, TreeSizes
    <2>2. /\ \A x \in 1..Len(Kids(h, j)) : Kids(g, j)[x] = Kids(h, j)[x]
          /\ k > Len(Kids(h, j)) => Kids(g, j)[k] >= n
      BY <1>5 DEF Grows
    <2>3. CASE k > Len(Kids(h, j))
      BY <1>4, <2>2, <2>3
    <2>4. CASE ~(k > Len(Kids(h, j)))
      <3>1. k \in 1..Len(Kids(h, j))
        BY <2>1, <2>4
      <3> QED
        BY <1>5, <2>2, <3>1 DEF KidsLive
    <2> QED
      BY <2>3, <2>4
  <1>6. CASE j \notin Numbers(n)
    <2>1. j >= n
      BY <1>2, <1>6 DEF Numbers
    <2> QED
      BY <1>2, <1>3, <1>4, <2>1 DEF Born, Numbers
  <1> QED
    BY <1>5, <1>6

\* The names of a tree that grows along a path.
LEMMA GrowsNames ==
  ASSUME TreeInv, NEW z, Grows(Here, Size, Here', z), freed' = freed, NEW e, Len(e) \in Nat,
         \A q \in Seq(STRING) : FindIn(Here, q) = None /\ FindIn(Here', q) # None => Along(q, e)
  PROVE  NS!Mount(Names, Names')
  <1> DEFINE added == Names' \ Names
  <1>1. Here.tree = tree /\ Here'.tree = tree'
    BY DEF Here
  <1>2. /\ SoundTree(tree, Size) /\ SoundTree(tree', z) /\ Size <= z
        /\ \A i \in Numbers(Size) : tree'[i].obj = tree[i].obj
    BY <1>1 DEF Grows
  <1>3. DOMAIN tree = Numbers(Size) /\ DOMAIN tree' = Numbers(z) /\ Numbers(Size) \subseteq Numbers(z)
    <2>1. DOMAIN tree = Numbers(Size) /\ DOMAIN tree' = Numbers(z) /\ Size \in Nat /\ z \in Nat
      BY <1>2, SizeOf
    <2> QED
      BY <1>2, <2>1 DEF Numbers
  <1>4. Placed \subseteq Placed'
    BY <1>2, <1>3 DEF Placed
  <1>5. ASSUME NEW p \in Paths, FindIn(Here, p) # None
        PROVE  FindIn(Here', p) = FindIn(Here, p) /\ tree'[FindIn(Here, p)].obj = tree[FindIn(Here, p)].obj
    <2>1. p \in Seq(STRING)
      BY VfsAssumption
    <2>2. FindIn(Here', p) = FindIn(Here, p)
      BY <1>5, <2>1, GrowsFind
    <2>3. FindIn(Here, p) \in Numbers(Size)
      BY <1>5, <2>1, LookupFinds, LookupIs
    <2> QED
      BY <1>2, <2>2, <2>3
  <1>6. Names \subseteq Names'
    <2> SUFFICES ASSUME NEW x \in Names PROVE x \in Names'
      OBVIOUS
    <2>1. PICK p \in Paths : FindIn(Here, p) # None /\ x = <<p, tree[FindIn(Here, p)].obj>>
      BY <1>1, NamesAre DEF IsName
    <2>2. FindIn(Here', p) # None /\ x = <<p, tree'[FindIn(Here', p)].obj>>
      BY <1>5, <2>1
    <2>3. IsName(Here', x)
      BY <1>1, <2>2 DEF IsName
    <2> QED
      BY <2>3, NamesNext
  <1>7. ASSUME NEW x \in added PROVE x[1] \in Seq(STRING) /\ Along(x[1], e)
    <2>1. PICK p \in Paths : FindIn(Here', p) # None /\ x = <<p, tree'[FindIn(Here', p)].obj>>
      BY <1>1, NamesNext DEF IsName
    <2>2. p \in Seq(STRING) /\ x[1] = p
      BY <2>1, VfsAssumption
    <2>3. FindIn(Here, p) = None
      <3> SUFFICES ASSUME FindIn(Here, p) # None PROVE FALSE
        OBVIOUS
      <3>1. x = <<p, tree[FindIn(Here, p)].obj>>
        BY <1>5, <2>1
      <3>2. IsName(Here, x)
        BY <1>1, <3>1 DEF IsName
      <3> QED
        BY <1>7, <3>2, NamesAre
    <2> QED
      BY <2>1, <2>2, <2>3
  <1>8. \E b \in Names' : \A x \in added : NS!IsPrefix(x[1], b[1])
    <2>1. CASE added = {}
      <3>1. <<>> \in Paths /\ <<>> \in Seq(STRING) /\ Len(<<>>) = 0
        BY VfsAssumption
      <3>2. PICK l : IsLevels(Here, Size, <<>>, l)
        BY <1>1, <1>2, <3>1, HasLevels
      <3>3. FindIn(Here, <<>>) # None
        BY <3>1, <3>2 DEF IsLevels, None
      <3>4. IsName(Here, <<<<>>, Here.tree[FindIn(Here, <<>>)].obj>>)
        BY <3>1, <3>3 DEF IsName
      <3>5. <<<<>>, Here.tree[FindIn(Here, <<>>)].obj>> \in Names'
        BY <1>6, <3>4, NamesAre
      <3> QED
        BY <2>1, <3>5
    <2>2. CASE added # {}
      <3> DEFINE Q == {x[1] : x \in added}
      <3>1. Q \subseteq Seq(STRING) /\ Q # {} /\ \A q \in Q : Along(q, e)
        BY <1>7, <2>2
      <3> HIDE DEF added
      <3>2. PICK q \in Q : \A s \in Q : NS!IsPrefix(s, q)
        <4> HIDE DEF Q
        <4> QED
          BY <3>1, Longest
      <3>3. PICK b \in added : b[1] = q
        BY <3>2
      <3>4. b \in Names'
        BY <3>3 DEF added
      <3> QED
        BY <3>2, <3>3, <3>4
    <2> QED
      BY <2>1, <2>2
  <1> QED
    BY <1>4, <1>6, <1>8 DEF NS!Mount, Placed

\* A mounted file is told where it is, unless it was mounted on the root.
PointersHome == \A f \in DOMAIN vfsPtr : vfsPtr[f] = 0 \/ tree[vfsPtr[f]].obj = f

TreeNamed == Named(Here, Size) /\ KidsLive(Here, Size, freed) /\ PointersHome

\* What is being removed has a name, until it is.
RemovesNamed == removing # None => \E p \in Paths : Lookup(p) = removing

NamesInv == TreeNamed /\ RemovesNamed

LEMMA LookupNext == \A p : Lookup(p)' = FindIn(Here', p)
  BY DEF Lookup, FindIn, MatchChild

\* Nothing of the tree has changed, nor the names.
LEMMA SameNames ==
  ASSUME TreeNamed, UNCHANGED <<tree, freed, name, vfsPtr>>
  PROVE  TreeNamed' /\ Names' = Names /\ Placed' = Placed /\ \A p : Lookup(p)' = Lookup(p)
  <1>1. Here' = Here /\ Size' = Size /\ tree' = tree /\ freed' = freed /\ vfsPtr' = vfsPtr
    BY DEF Here, Size
  <1>2. \A p : Lookup(p)' = Lookup(p)
    <2>1. ASSUME NEW p PROVE Lookup(p)' = Lookup(p)
      BY <1>1, LookupNext, LookupIs
    <2> QED
      BY <2>1
  <1>3. \A x : x \in Names' <=> x \in Names
    BY <1>1, NamesAre, NamesNext
  <1> HIDE DEF Names
  <1> QED
    BY <1>1, <1>2, <1>3 DEF TreeNamed, Named, KidsLive, Kids, PointersHome, Placed

\* What a step of the name space does not see.
SameSpace == Names' = Names /\ Placed' = Placed

LEMMA SameSpaces ==
  ASSUME NamesInv, UNCHANGED nodes
  PROVE  NamesInv' /\ SameSpace
  <1>1. UNCHANGED <<tree, freed, name, vfsPtr>> /\ removing' = removing
    BY DEF nodes
  <1>2. TreeNamed' /\ SameSpace /\ \A p : Lookup(p)' = Lookup(p)
    BY <1>1, SameNames DEF NamesInv, SameSpace
  <1> QED
    BY <1>1, <1>2 DEF NamesInv, RemovesNamed

LEMMA MountNames ==
  ASSUME IInv, IInv', NamesInv, NEW d \in Seq(STRING), NEW f \in File, Mount(d, f)
  PROVE  NamesInv' /\ (NS!Mount(Names, Names') \/ SameSpace)
  <1> DEFINE r == Here'
  <1>1. Cardinality(DOMAIN tree) + Len(d) < MaxNodes /\ f \notin DOMAIN vfsPtr
    BY DEF Mount, Mountable
  <1>2. CASE Fails("lost") \/ Fails("undefined")
    BY <1>2, SameSpaces DEF Fails
  <1>3. ASSUME NEW t \in WalksTo(d, TRUE), MountsOf(d, f, InsertChild(t, t.at, f))
        PROVE  NamesInv' /\ NS!Mount(Names, Names')
    <2> DEFINE new == InsertChild(t, t.at, f)
    <2>1. /\ tree' = new.tree /\ name' = new.name
          /\ vfsPtr' = Extend(vfsPtr, f, IF d = <<>> THEN 0 ELSE new.at)
          /\ freed' = freed /\ removing' = removing
      BY <1>3 DEF MountsOf
    <2>2. new.name = t.name
      <3>1. PICK n \in Size..(Size + Len(d)) : Place(t, n)
        BY <1>1, WalkGrows DEF IInv, NamesInv, TreeNamed, Size
      <3>2. DOMAIN t = {"tree", "name", "at", "lost"}
        BY <3>1 DEF Place
      <3> QED
        BY <3>2 DEF InsertChild
    <2>3. r.tree = new.tree /\ r.name = t.name
      BY <2>1, <2>2 DEF Here
    <2> HIDE DEF r
    <2>4. PICK n \in Nat : Gains(t, f, r, n)
      <3>1. TreeInv /\ PlacedInv /\ Named(Here, Size) /\ Size + Len(d) < MaxNodes
        BY <1>1 DEF IInv, NamesInv, TreeNamed, Size
      <3> QED
        BY <1>1, <2>3, <3>1, MountGrows
    <2>5. r.tree[n].obj = f
      BY <2>4 DEF Gains
    <2>6. PICK e : /\ Len(e) \in Nat
                   /\ \A q \in Seq(STRING) : FindIn(Here, q) = None /\ FindIn(r, q) # None => Along(q, e)
      BY <2>4 DEF Gains, NewOnPath
    <2> DEFINE z == n + 1
    <2> HIDE DEF z
    <2>7. Grows(Here, Size, r, z) /\ Named(r, z) /\ new.at = n
      BY <2>4 DEF z, Gains
    <2> HIDE DEF new
    <2>8. r = Here' /\ r.tree = tree' /\ Here.tree = tree
      BY DEF r, Here
    <2>9. NS!Mount(Names, Names')
      BY <2>1, <2>6, <2>7, <2>8, GrowsNames DEF IInv
    <2>10. Size' = z
      <3>1. SoundTree(tree', z)
        BY <2>7, <2>8 DEF Grows
      <3> QED
        BY <3>1, SizeOf DEF Size
    <2>11. KidsLive(r, z, freed)
      BY <2>7, GrowsLive DEF IInv, TreeInv, NamesInv, TreeNamed
    <2>12. PointersHome'
      <3> SUFFICES ASSUME NEW g \in DOMAIN vfsPtr' PROVE vfsPtr'[g] = 0 \/ tree'[vfsPtr'[g]].obj = g
        BY DEF PointersHome
      <3>1. CASE g = f
        <4>1. vfsPtr'[g] = 0 \/ vfsPtr'[g] = n
          BY <2>1, <2>7, <3>1 DEF Extend
        <4> QED
          BY <2>5, <2>8, <3>1, <4>1
      <3>2. CASE g # f
        <4>1. g \in DOMAIN vfsPtr /\ vfsPtr'[g] = vfsPtr[g]
          BY <2>1, <3>2 DEF Extend
        <4>2. vfsPtr[g] \in Numbers(Size)
          BY <4>1 DEF IInv, PlacedInv
        <4>3. tree'[vfsPtr[g]].obj = tree[vfsPtr[g]].obj
          BY <2>7, <2>8, <4>2 DEF Grows
        <4> QED
          BY <4>1, <4>3 DEF NamesInv, TreeNamed, PointersHome
      <3> QED
        BY <3>1, <3>2
    <2>13. TreeNamed'
      BY <2>1, <2>7, <2>8, <2>10, <2>11, <2>12 DEF TreeNamed
    <2>14. RemovesNamed'
      <3> SUFFICES ASSUME removing # None PROVE \E p \in Paths : Lookup(p)' = removing
        BY <2>1 DEF RemovesNamed
      <3>1. PICK p \in Paths : FindIn(Here, p) = removing
        BY LookupIs DEF NamesInv, RemovesNamed
      <3>2. p \in Seq(STRING)
        BY VfsAssumption
      <3>3. FindIn(r, p) = removing
        BY <2>7, <3>1, <3>2, GrowsFind
      <3> QED
        BY <2>8, <3>3, LookupNext
    <2> QED
      BY <2>9, <2>13, <2>14 DEF NamesInv
  <1> QED
    BY <1>2, <1>3, MountIs

-----------------------------------------------------------------------------
(* Unmounting                                                              *)

\* The tree of g is that of h without i in the list of its parent.
Cuts(h, n, g, i) ==
    /\ SoundTree(h.tree, n) /\ SoundTree(g.tree, n) /\ i \in Born(n) /\ g.name = h.name
    /\ \A j \in Numbers(n) : /\ g.tree[j].obj = h.tree[j].obj /\ g.tree[j].parent = h.tree[j].parent
                             /\ j # h.tree[i].parent => Kids(g, j) = Kids(h, j)
    /\ \E place \in 1..Len(Kids(h, h.tree[i].parent)) :
          /\ Kids(h, h.tree[i].parent)[place] = i
          /\ Kids(g, h.tree[i].parent) = RemoveAt(Kids(h, h.tree[i].parent), place)

LEMMA CutCalled ==
  ASSUME NEW h, NEW n, NEW g, NEW i, Cuts(h, n, g, i)
  PROVE  \A x \in Born(n) : x \in Numbers(n) /\ Called(g, x) = Called(h, x)
  <1>1. Born(n) \subseteq Numbers(n)
    BY TreeSizes DEF Cuts
  <1> QED
    BY <1>1 DEF Cuts, Called

\* A child other than i is found as it was.
LEMMA MatchCut ==
  ASSUME NEW h, NEW n, NEW g, NEW i, Cuts(h, n, g, i), NEW j \in Numbers(n), NEW s,
         MatchChild(h, j, s) # i
  PROVE  MatchChild(g, j, s) = MatchChild(h, j, s)
  <1> DEFINE up == h.tree[i].parent
             q == Kids(h, j)
             r == Kids(g, j)
             c == MatchChild(h, j, s)
  <1>1. SoundTree(h.tree, n) /\ SoundTree(g.tree, n)
    BY DEF Cuts
  <1>2. q \in Seq(Born(n)) /\ Len(q) \in Nat /\ \A k \in 1..Len(q) : q[k] \in Born(n)
    <2>1. q \in Seq(Born(n))
      BY <1>1 DEF SoundTree, Kids
    <2> QED
      BY <2>1, LenProperties, ElementOfSeq
  <1>3. \A x \in Born(n) : Called(g, x) = Called(h, x)
    BY CutCalled
  <1>4. CASE j # up
    <2>1. r = q
      BY <1>4 DEF Cuts
    <2>2. CASE c = None
      <3>1. Unmatched(h, j, s)
        BY <1>1, <2>2, MatchIs
      <3>2. Unmatched(g, j, s)
        BY <1>2, <1>3, <2>1, <3>1 DEF Unmatched
      <3> QED
        BY <1>1, <2>2, <3>2, MatchNone
    <2>3. CASE c # None
      <3>1. Matches(h, n, j, s, MatchChild(h, j, s))
        BY <1>1, <2>3, MatchIs
      <3> HIDE DEF c
      <3>2. PICK k : FirstAt(h, j, s, c, k)
        BY <3>1 DEF Matches, c
      <3>3. FirstAt(g, j, s, c, k)
        BY <1>2, <1>3, <2>1, <3>2 DEF FirstAt
      <3> QED
        BY <1>1, <3>3, MatchFirst DEF c
    <2> QED
      BY <2>2, <2>3
  <1>5. CASE j = up
    <2>1. PICK place \in 1..Len(q) : q[place] = i /\ r = RemoveAt(q, place)
      BY <1>5 DEF Cuts
    <2>2. Len(r) = Len(q) - 1 /\ \A x \in 1..(Len(q) - 1) : r[x] = IF x < place THEN q[x] ELSE q[x + 1]
      BY <1>2, <2>1, Removing
    <2> HIDE DEF q, r
    <2>3. \A x \in 1..Len(r) : \E y \in 1..Len(q) : r[x] = q[y] /\ (x < place => y = x) /\ (~(x < place) => y = x + 1)
      BY <1>2, <2>1, <2>2
    <2>4. CASE c = None
      <3>1. Unmatched(h, j, s)
        BY <1>1, <2>4, MatchIs
      <3>2. ASSUME NEW x \in 1..Len(r) PROVE Called(g, r[x]) # s
        <4>1. PICK y \in 1..Len(q) : r[x] = q[y]
          BY <2>3
        <4>2. Called(h, q[y]) # s
          BY <3>1 DEF Unmatched, q
        <4> QED
          BY <1>2, <1>3, <4>1, <4>2
      <3>3. Unmatched(g, j, s)
        BY <3>2 DEF Unmatched, r
      <3> QED
        BY <1>1, <2>4, <3>3, MatchNone
    <2>5. CASE c # None
      <3>1. Matches(h, n, j, s, MatchChild(h, j, s))
        BY <1>1, <2>5, MatchIs
      <3>2. c # i
        OBVIOUS
      <3> HIDE DEF c
      <3>3. PICK k : FirstAt(h, j, s, c, k)
        BY <3>1 DEF Matches, c
      <3>4. /\ k \in 1..Len(q) /\ q[k] = c /\ Called(h, c) = s
            /\ \A l \in 1..(k - 1) : Called(h, q[l]) # s
        BY <3>3 DEF FirstAt, q
      <3> DEFINE z == IF k < place THEN k ELSE k - 1
      <3>5. k # place
        BY <2>1, <3>2, <3>4
      <3>6. z \in 1..Len(r) /\ z \in Nat /\ (k < place => z = k) /\ (~(k < place) => z = k - 1 /\ place <= z)
        BY <1>2, <2>1, <2>2, <3>4, <3>5
      <3> HIDE DEF z
      <3>7. r[z] = c
        BY <1>2, <2>1, <2>2, <3>4, <3>5, <3>6
      <3>8. Called(g, c) = s
        BY <1>2, <1>3, <3>4
      <3>9. ASSUME NEW l \in 1..(z - 1) PROVE Called(g, r[l]) # s
        <4>1. l \in 1..Len(r)
          BY <1>2, <2>2, <3>6
        <4>2. PICK y \in 1..Len(q) : r[l] = q[y] /\ (l < place => y = l) /\ (~(l < place) => y = l + 1)
          BY <2>3, <4>1
        <4>3. y \in 1..(k - 1)
          BY <1>2, <2>1, <3>4, <3>6, <4>1, <4>2
        <4>4. Called(h, q[y]) # s
          BY <3>4, <4>3
        <4> QED
          BY <1>2, <1>3, <4>2, <4>4
      <3>10. FirstAt(g, j, s, c, z)
        BY <3>6, <3>7, <3>8, <3>9 DEF FirstAt, r
      <3> QED
        BY <1>1, <3>10, MatchFirst DEF c
    <2> QED
      BY <2>4, <2>5
  <1> QED
    BY <1>4, <1>5

\* And so is what a path finds that does not pass i.
LEMMA FindCut ==
  ASSUME NEW h, NEW n, NEW g, NEW i, Cuts(h, n, g, i), NEW p \in Seq(STRING), FindIn(h, p) = i,
         NEW q \in Seq(STRING), ~Along(p, q)
  PROVE  FindIn(g, q) = FindIn(h, q)
  <1>1. SoundTree(h.tree, n) /\ SoundTree(g.tree, n) /\ i \in Born(n)
    BY DEF Cuts
  <1>2. PICK a : IsLevels(h, n, p, a)
    BY <1>1, HasLevels
  <1>3. PICK l : IsLevels(h, n, q, l)
    BY <1>1, HasLevels
  <1>4. PICK e : IsLevels(g, n, q, e)
    BY <1>1, HasLevels
  <1>5. Len(p) \in Nat /\ Len(q) \in Nat /\ None \notin Numbers(n) /\ Born(n) \subseteq Numbers(n)
    BY <1>1, LenProperties, TreeSizes
  <1>6. OneWay(p, a, q, l)
    BY <1>1, <1>2, <1>3, OnePath
  <1>7. \A k \in 0..Len(q) : l[k] # i
    <2> SUFFICES ASSUME NEW k \in 0..Len(q), l[k] = i PROVE FALSE
      OBVIOUS
    <2>1. a[Len(p)] = i /\ i # None /\ Len(p) \in 0..Len(p)
      BY <1>1, <1>2, <1>5 DEF IsLevels
    <2>2. Len(p) = k /\ \A c \in 1..Len(p) : p[c] = q[c]
      BY <1>6, <2>1 DEF OneWay
    <2> QED
      BY <1>5, <2>2 DEF Along
  <1>8. /\ l[0] = 0 /\ \A k \in 1..Len(q) : l[k] = Child(h, l[k - 1], q[k])
        /\ e[0] = 0 /\ \A k \in 1..Len(q) : e[k] = Child(g, e[k - 1], q[k])
        /\ FindIn(h, q) = l[Len(q)] /\ FindIn(g, q) = e[Len(q)]
        /\ \A k \in 0..Len(q) : l[k] \in Numbers(n) \cup {None}
    BY <1>3, <1>4 DEF IsLevels
  <1>9. \A j \in Numbers(n) : \A s : MatchChild(h, j, s) # i => MatchChild(g, j, s) = MatchChild(h, j, s)
    BY MatchCut
  <1> DEFINE T == {k \in 0..Len(q) : e[k] = l[k]}
  <1>10. 0 \in T
    BY <1>5, <1>8
  <1>11. ASSUME NEW k \in 0..(Len(q) - 1), k \in T PROVE k + 1 \in T
    <2>1. k + 1 \in 1..Len(q) /\ (k + 1) - 1 = k /\ k \in 0..Len(q) /\ k + 1 \in 0..Len(q)
      BY <1>5
    <2>2. /\ l[k + 1] = Child(h, l[k], q[k + 1]) /\ e[k + 1] = Child(g, l[k], q[k + 1])
          /\ l[k] \in Numbers(n) \cup {None} /\ l[k + 1] # i
      BY <1>7, <1>8, <1>11, <2>1
    <2>3. e[k + 1] = l[k + 1]
      <3>1. CASE l[k] = None
        BY <2>2, <3>1 DEF Child
      <3>2. CASE l[k] # None
        <4>1. l[k] \in Numbers(n) /\ l[k + 1] = MatchChild(h, l[k], q[k + 1]) /\ e[k + 1] = MatchChild(g, l[k], q[k + 1])
          BY <2>2, <3>2 DEF Child
        <4> QED
          BY <1>9, <2>2, <4>1
      <3> QED
        BY <3>1, <3>2
    <2> QED
      BY <2>1, <2>3
  <1> HIDE DEF T
  <1>12. 0..Len(q) \subseteq T
    BY <1>5, <1>10, <1>11, UpTo
  <1>13. Len(q) \in T
    BY <1>5, <1>12
  <1> QED
    BY <1>8, <1>13 DEF T

\* vfs_unmount() until list_remove() is done: there are the names there were, and what
\* it takes out is that of the path.
LEMMA UnmountNames ==
  ASSUME IInv, NamesInv, NEW p \in Paths, Unmount(p)
  PROVE  NamesInv' /\ SameSpace
  <1> DEFINE n == Lookup(p)
             o == tree[n].obj
             i == IF IsDirectory(o) THEN n ELSE vfsPtr[o]
  <1> USE DEF IInv
  <1>1. p \in Seq(STRING)
    BY VfsAssumption
  <1>2. n \in Numbers(Size) /\ n # None
    BY <1>1, LookupFinds DEF Unmount
  <1>3. \A a, b \in Numbers(Size) : tree[a].obj = tree[b].obj => a = b
    BY DEF TreeInv, SoundTree
  <1>4. i # 0 => i = n
    <2> SUFFICES ASSUME i # 0 PROVE i = n
      OBVIOUS
    <2>1. CASE IsDirectory(o)
      BY <2>1
    <2>2. CASE ~IsDirectory(o)
      <3>1. o \in DOMAIN vfsPtr /\ i = vfsPtr[o]
        BY <1>2, <2>2 DEF PlacedInv, IsDirectory
      <3>2. i \in Numbers(Size) /\ tree[i].obj = o
        BY <3>1 DEF PlacedInv, NamesInv, TreeNamed, PointersHome
      <3> HIDE DEF i, n
      <3> QED
        BY <1>2, <1>3, <3>2
    <2> QED
      BY <2>1, <2>2
  <1> HIDE DEF i, n
  <1>5. \/ UNCHANGED nodes
        \/ i # 0 /\ removing' = i /\ UNCHANGED <<tree, freed, name, vfsPtr>>
    BY DEF Unmount, Fails, i, n
  <1>6. CASE UNCHANGED nodes
    BY <1>6, SameSpaces
  <1>7. CASE i # 0 /\ removing' = i /\ UNCHANGED <<tree, freed, name, vfsPtr>>
    <2>1. TreeNamed' /\ SameSpace /\ \A q : Lookup(q)' = Lookup(q)
      BY <1>7, SameNames DEF NamesInv, SameSpace
    <2>2. Lookup(p)' = removing'
      BY <1>4, <1>7, <2>1 DEF n
    <2> QED
      BY <2>1, <2>2 DEF NamesInv, RemovesNamed
  <1> QED
    BY <1>5, <1>6, <1>7

\* Then the node of the path goes, with what is below it, and the paths that do not
\* pass it find what they found.
LEMMA RemovedNames ==
  ASSUME IInv, IInv', NamesInv, Removed
  PROVE  NamesInv' /\ NS!Unmount(Names, Names')
  <1> USE DEF IInv
  <1>1. PICK i : i = removing /\ i # None
    BY DEF Removed
  <1>2. /\ i = removing /\ i # None /\ tree' = Unlink(i) /\ freed' = freed \cup Subtree(i)
         /\ removing' = None /\ UNCHANGED <<name, vfsPtr>>
    BY <1>1 DEF Removed
  <1>3. PICK p \in Paths : Lookup(p) = i /\ i # None
    BY <1>2 DEF NamesInv, RemovesNamed
  <1>4. p \in Seq(STRING)
    BY VfsAssumption
  <1>5. /\ SoundTree(tree, Size) /\ DOMAIN tree = Numbers(Size) /\ Born(Size) = Numbers(Size) \ {0}
         /\ \A a, b \in Numbers(Size) : tree[a].obj = tree[b].obj => a = b
    BY Bounds DEF TreeInv, SoundTree
  <1> DEFINE h == Here
             g == Here'
             up == tree[i].parent
  <1>6. i \in Born(Size) /\ first /\ freed = {} /\ freed' = Subtree(i)
    BY <1>2 DEF TreeInv, RemovingInv
  <1>7. /\ \E place \in 1..Len(tree[up].kids) :
              /\ tree[up].kids[place] = i
              /\ tree'[up].kids = RemoveAt(tree[up].kids, place)
        /\ \A j \in Numbers(Size) : /\ tree'[j].obj = tree[j].obj /\ tree'[j].parent = tree[j].parent
                                    /\ j # up => tree'[j].kids = tree[j].kids
        /\ SoundTree(tree', Size)
    BY <1>2, <1>6, Unlinking
  <1>8. h.tree = tree /\ g.tree = tree' /\ h.name = name /\ g.name = name'
    BY DEF Here
  <1> HIDE DEF h, g
  <1>9. Cuts(h, Size, g, i)
    BY <1>5, <1>2, <1>6, <1>7, <1>8 DEF Cuts, Kids
  <1>10. Size' = Size /\ DOMAIN tree' = Numbers(Size)
    BY <1>7, SizeOf DEF Size
  <1>11. /\ Subtree(i) \subseteq Born(Size) /\ i \in Subtree(i)
        /\ \A k \in Subtree(i) : k = i \/ tree[k].parent \in Subtree(i)
    BY <1>6, Below
  <1>12. Named(g, Size)
    BY <1>5, <1>2, <1>7, <1>8 DEF NamesInv, TreeNamed, Named, h
  <1>13. KidsLive(g, Size, Subtree(i))
    <2> SUFFICES ASSUME NEW j \in Numbers(Size) \ Subtree(i), NEW k \in 1..Len(Kids(g, j)),
                        Kids(g, j)[k] \in Subtree(i)
        PROVE  FALSE
      BY DEF KidsLive
    <2>1. Kids(g, j)[k] \in Born(Size) /\ tree'[Kids(g, j)[k]].parent = j
      <3>1. Kids(g, j) \in Seq(Born(Size)) /\ \A x \in 1..Len(Kids(g, j)) : tree'[Kids(g, j)[x]].parent = j
        BY <1>7, <1>8 DEF SoundTree, Kids
      <3> QED
        BY <3>1, ElementOfSeq
    <2>2. tree[Kids(g, j)[k]].parent = j
      BY <1>5, <1>7, <2>1
    <2>3. Kids(g, j)[k] = i
      BY <1>11, <2>2
    <2>4. j = up
      BY <2>2, <2>3
    <2> DEFINE q == tree[up].kids
    <2>5. PICK place \in 1..Len(q) : q[place] = i /\ tree'[up].kids = RemoveAt(q, place)
      BY <1>7
    <2>6. /\ q \in Seq(Born(Size)) /\ Len(q) \in Nat
          /\ \A x, y \in 1..Len(q) : q[x] = q[y] => x = y
      <3>1. up \in Numbers(Size)
        BY <1>5, <2>4
      <3>2. q \in Seq(Born(Size)) /\ \A x, y \in 1..Len(q) : q[x] = q[y] => x = y
        BY <1>5, <3>1 DEF SoundTree
      <3> QED
        BY <3>2, LenProperties
    <2> HIDE DEF q
    <2>7. Kids(g, j) = RemoveAt(q, place)
      BY <1>8, <2>4, <2>5 DEF Kids
    <2>8. /\ Len(RemoveAt(q, place)) = Len(q) - 1
          /\ \A x \in 1..(Len(q) - 1) : RemoveAt(q, place)[x] = IF x < place THEN q[x] ELSE q[x + 1]
      BY <2>6, Removing
    <2>9. \E y \in 1..Len(q) : y # place /\ q[y] = i
      <3>1. k \in 1..(Len(q) - 1) /\ RemoveAt(q, place)[k] = i
        BY <2>3, <2>7, <2>8
      <3>2. CASE k < place
        BY <2>6, <2>8, <3>1, <3>2
      <3>3. CASE ~(k < place)
        <4>1. k + 1 \in 1..Len(q) /\ k + 1 # place /\ q[k + 1] = i
          BY <2>6, <2>8, <3>1, <3>3
        <4> QED
          BY <4>1
      <3> QED
        BY <3>2, <3>3
    <2> QED
      BY <2>5, <2>6, <2>9
  <1>14. PointersHome'
    BY <1>2, <1>7 DEF NamesInv, TreeNamed, PointersHome, PlacedInv
  <1>15. NamesInv'
    BY <1>6, <1>8, <1>10, <1>12, <1>13, <1>14, <1>2 DEF NamesInv, TreeNamed, RemovesNamed, g
  <1>16. FindIn(h, p) = i /\ i # None
    BY <1>3, LookupIs DEF h
  <1>17. ASSUME NEW q \in Paths, ~NS!IsPrefix(p, q) PROVE FindIn(g, q) = FindIn(h, q)
    <2>1. q \in Seq(STRING) /\ ~Along(p, q)
      BY <1>4, <1>17, Prefix, VfsAssumption
    <2> QED
      BY <1>4, <1>9, <1>16, <2>1, FindCut
  <1>18. ASSUME NEW q \in Paths, FindIn(h, q) # None PROVE tree'[FindIn(h, q)].obj = tree[FindIn(h, q)].obj
    <2>1. FindIn(h, q) \in Numbers(Size)
      BY <1>18, LookupIs, LookupFinds, VfsAssumption DEF h
    <2> QED
      BY <1>7, <2>1
  <1>19. \A x : (x \in Names <=> IsName(h, x)) /\ (x \in Names' <=> IsName(g, x))
    BY NamesAre, NamesNext DEF h, g
  <1> DEFINE changed == (Names \ Names') \cup (Names' \ Names)
             b == <<p, tree[i].obj>>
  <1>20. ASSUME NEW x \in changed PROVE NS!IsPrefix(p, x[1])
    <2>1. PICK q \in Paths : x[1] = q /\ (IsName(h, x) \/ IsName(g, x))
      BY <1>19 DEF IsName
    <2> SUFFICES ASSUME ~NS!IsPrefix(p, q) PROVE FALSE
      BY <2>1
    <2>2. FindIn(g, q) = FindIn(h, q)
      BY <1>17
    <2>3. IsName(h, x) <=> FindIn(h, q) # None /\ x = <<q, tree[FindIn(h, q)].obj>>
      BY <1>8, <2>1 DEF IsName
    <2>4. IsName(g, x) <=> FindIn(g, q) # None /\ x = <<q, tree'[FindIn(g, q)].obj>>
      BY <1>8, <2>1 DEF IsName
    <2> QED
      BY <1>18, <1>19, <2>2, <2>3, <2>4
  <1>21. b \in Names
    <2>1. IsName(h, b)
      BY <1>6, <1>8, <1>16 DEF IsName
    <2> QED
      BY <1>19, <2>1
  <1>22. b[2] \notin Placed'
    <2>1. \A j \in DOMAIN tree' \ freed' : tree'[j].obj # tree[i].obj
      BY <1>5, <1>6, <1>7, <1>10, <1>11
    <2> QED
      BY <2>1 DEF Placed
  <1>23. Placed' \subseteq Placed
    BY <1>5, <1>6, <1>7, <1>10 DEF Placed
  <1> HIDE DEF b
  <1>24. b[1] = p
    BY DEF b
  <1> QED
    BY <1>15, <1>20, <1>21, <1>22, <1>23, <1>24 DEF NS!Unmount, Placed

LEMMA NamesInit ==
  ASSUME Init
  PROVE  NamesInv /\ NS!Init
  <1>1. IInv /\ tree = [j \in {0} |-> Leaf(0, 0)] /\ freed = {} /\ removing = None /\ vfsPtr = <<>>
    BY InitOk DEF Init
  <1>2. DOMAIN tree = {0} /\ tree[0].kids = <<>> /\ tree[0].obj = 0
    BY <1>1 DEF Leaf
  <1>3. SoundTree(tree, Size) /\ DOMAIN tree = Numbers(Size) /\ Size \in Nat
    BY <1>1, SizeOf DEF IInv, TreeInv
  <1>4. Born(Size) = {} /\ Numbers(Size) = {0}
    BY <1>2, <1>3 DEF Born, Numbers
  <1>5. NamesInv
    BY <1>1, <1>4 DEF NamesInv, TreeNamed, RemovesNamed, Named, KidsLive, PointersHome
  <1>6. ASSUME NEW x \in Names PROVE x[1] = <<>> /\ x[2] \in Placed
    <2>1. Here.tree = tree
      BY DEF Here
    <2>2. PICK p \in Paths : FindIn(Here, p) # None /\ x = <<p, tree[FindIn(Here, p)].obj>>
      BY <2>1, NamesAre DEF IsName
    <2>3. p \in Seq(STRING)
      BY VfsAssumption
    <2>4. PICK l : IsLevels(Here, Size, p, l)
      BY <1>3, <2>1, <2>3, HasLevels
    <2>5. Climbs(Here, Size, p, l)
      BY <1>3, <2>1, <2>3, <2>4, Climbing
    <2>6. Len(p) \in Nat
      BY <2>3, LenProperties
    <2>7. Len(p) = 0
      <3> SUFFICES ASSUME Len(p) # 0 PROVE FALSE
        OBVIOUS
      <3>1. Len(p) \in 1..Len(p) /\ l[Len(p)] # None
        BY <2>2, <2>4, <2>6 DEF IsLevels
      <3> QED
        BY <1>4, <2>5, <3>1 DEF Climbs
    <2>8. p = <<>> /\ FindIn(Here, p) = 0
      BY <2>3, <2>4, <2>7, EmptySeq DEF IsLevels
    <2> QED
      BY <1>1, <1>2, <2>2, <2>8 DEF Placed
  <1>7. NS!Init
    BY <1>6 DEF NS!Init, Placed
  <1> QED
    BY <1>5, <1>7

\* vfs_mount() and vfs_unmount() are those of the name space, and nothing else
\* changes a name.
LEMMA NamesStep ==
  ASSUME IInv, IInv', NamesInv, [Next]_vars
  PROVE  NamesInv' /\ [NS!Next]_(NS!vars)
  <1>1. ASSUME NEW d \in Seq(STRING), NEW f \in File, Mount(d, f)
        PROVE  NamesInv' /\ (NS!Mount(Names, Names') \/ SameSpace)
    BY <1>1, MountNames
  <1>2. ASSUME NEW e \in Archive, RamdiskEntry(e)
        PROVE  NamesInv' /\ (NS!Mount(Names, Names') \/ SameSpace)
    <2>1. ASSUME NEW more \in Behind, Mount(DirOf(e.path) \o more, e.file)
          PROVE  NamesInv' /\ (NS!Mount(Names, Names') \/ SameSpace)
      BY <1>1, <2>1, EntryDir
    <2>2. CASE Fails("undefined")
      BY <2>2, SameSpaces DEF Fails
    <2> QED
      BY <1>2, <2>1, <2>2 DEF RamdiskEntry
  <1>3. ASSUME NEW m \in Mounts, Mount(m.path, m.file)
        PROVE  NamesInv' /\ (NS!Mount(Names, Names') \/ SameSpace)
    BY <1>1, <1>3, VfsAssumption
  <1>4. ASSUME NEW p \in Paths, Unmount(p) PROVE NamesInv' /\ SameSpace
    BY <1>4, UnmountNames
  <1>5. ASSUME Removed PROVE NamesInv' /\ NS!Unmount(Names, Names')
    BY <1>5, RemovedNames
  <1>6. ASSUME NEW p \in Proc,
               (\E a \in ExecPaths : Exec(p, a)) \/ FindData(p) \/ OpenTest(p) \/ OpenSet(p)
                  \/ Stat(p) \/ Read(p) \/ Close(p)
        PROVE  NamesInv' /\ SameSpace
    <2>1. UNCHANGED nodes
      BY <1>6 DEF Exec, Find, Fails, FindData, OpenTest, OpenSet, Stat, Read, Close
    <2> QED
      BY <2>1, SameSpaces
  <1>7. UNCHANGED vars => NamesInv' /\ SameSpace
    <2>1. UNCHANGED vars => UNCHANGED nodes
      BY DEF vars, nodes
    <2> QED
      BY <2>1, SameSpaces
  <1>8. NamesInv' /\ (SameSpace \/ NS!Mount(Names, Names') \/ NS!Unmount(Names, Names'))
    BY <1>2, <1>3, <1>4, <1>5, <1>6, <1>7 DEF Next
  <1>9. CASE SameSpace
    <2>1. Names' = Names /\ Placed' = Placed
      BY <1>9 DEF SameSpace
    <2> HIDE DEF Names
    <2> QED
      BY <1>8, <2>1 DEF NS!vars, Placed
  <1>10. CASE NamesInv' /\ (NS!Mount(Names, Names') \/ NS!Unmount(Names, Names'))
    <2>1. (TreeInv /\ KidsLive(Here, Size, freed) => NS!Proper(Names, Placed))'
      BY NamesProper, PTL
    <2>2. NS!Proper(Names', Placed')
      BY <1>10, <2>1 DEF IInv, NamesInv, TreeNamed
    <2>3. NS!Proper(Names', {tree[i].obj : i \in DOMAIN tree \ freed}')
      BY <2>2 DEF Placed
    <2>4. \E old \in {Names}, new \in {Names'} :
             (NS!Mount(old, new) \/ NS!Unmount(old, new)) /\ NS!Proper(new, {tree[i].obj : i \in DOMAIN tree \ freed}')
      <3> USE DEF NS!Mount, NS!Unmount
      <3> WITNESS Names \in {Names}, Names' \in {Names'}
      <3> QED
        BY <1>10, <2>3
    <2>5. NS!Next
      BY <2>4 DEF NS!Next
    <2> QED
      BY <1>10, <2>5
  <1> QED
    BY <1>8, <1>9, <1>10

-----------------------------------------------------------------------------
(* Theorems                                                                *)

\* The lists of the tree hold the nodes whose parent they belong to, each
\* once, whatever list_remove() and tree_free_node() did.
THEOREM TypeCorrect == Spec => []TypeOK
  <1>1. ASSUME IInv PROVE TypeOK
    <2>1. /\ Size \in 1..MaxNodes /\ DOMAIN tree = Numbers(Size) /\ Born(Size) = Numbers(Size) \ {0}
      BY <1>1, Bounds DEF IInv
    <2>2. DOMAIN tree = 0..(Cardinality(DOMAIN tree) - 1)
      BY <2>1 DEF Numbers, Size
    <2>3. \A i \in DOMAIN tree : tree[i] \in Tree
      BY <1>1, <2>1 DEF IInv, TreeInv, SoundTree
    <2>4. ASSUME NEW i \in DOMAIN tree \ (freed \cup {0})
          PROVE  Cardinality({k \in DOMAIN tree[tree[i].parent].kids : tree[tree[i].parent].kids[k] = i}) = 1
      <3> DEFINE s == tree[tree[i].parent].kids
      <3>1. PICK k \in 1..Len(s) : s[k] = i
        BY <1>1, <2>1 DEF IInv, TreeInv, Linked
      <3>2. tree[i].parent \in Numbers(Size)
        BY <1>1, <2>1 DEF IInv, TreeInv, SoundTree
      <3>3. s \in Seq(Born(Size)) /\ \A x, y \in 1..Len(s) : s[x] = s[y] => x = y
        BY <1>1, <3>2 DEF IInv, TreeInv, SoundTree
      <3>4. DOMAIN s = 1..Len(s)
        BY <3>3, LenProperties
      <3>5. {x \in DOMAIN s : s[x] = i} = {k}
        BY <3>1, <3>3, <3>4
      <3> QED
        BY <3>5, FS_Singleton
    <2>5. freed \subseteq DOMAIN tree \ {0} /\ removing \in DOMAIN tree \cup {None}
      BY <1>1, <2>1 DEF IInv, TreeInv, RemovingInv
    <2> QED
      BY <1>1, <2>2, <2>3, <2>4, <2>5 DEF IInv, TypeOK, FlagsTyped, ThreadInv, Phases
  <1> QED
    BY <1>1, Inductive, PTL

\* vfs_open(): a file that is open is so for one thread, and stays open until
\* that closes it, as exec() holds binfmt_lock meanwhile and a node is mounted
\* but once.
THEOREM OneReader == Spec => []OpenForOne
  <1>1. ASSUME IInv PROVE OpenForOne
    BY <1>1 DEF IInv, OpenForOne, OpenInv, ThreadInv, Holds
  <1> QED
    BY <1>1, Inductive, PTL

\* binfmt_load(): a file of the ramdisk is busy only while somebody reads it.
THEOREM Closed == Spec => []ClosedAfterUse
  <1> QED
    BY Inductive, PTL DEF IInv

\* The tree is a name space, for look-ups that list_remove() does not overtake: a path
\* stands for one node; a mount changes no name and adds those on the way to one, also
\* while a node is being removed; an unmount, when it has ended, has taken away a node
\* and changed names below its path only.
THEOREM TreeImplementsNamespace == Spec => ImplementsNamespace
  <1>1. Init => NamesInv /\ NS!Init
    BY NamesInit
  <1>2. IInv /\ IInv' /\ NamesInv /\ [Next]_vars => NamesInv' /\ [NS!Next]_(NS!vars)
    BY NamesStep
  <1> QED
    BY <1>1, <1>2, Inductive, PTL DEF Spec, ImplementsNamespace, NS!Spec
=============================================================================
