--------------------------------- MODULE Vfs ---------------------------------
(***************************************************************************)
(* The virtual file system, generic/fs/vfs.c over lib/tree.c, lib/list.c   *)
(* and lib/hashmap.c, with its callers: ramdisk_init(), which mounts the   *)
(* files of the boot archive, and exec(), which opens, reads and closes an *)
(* executable under binfmt_lock.                                           *)
(*                                                                         *)
(* vfs_mount() and look-ups hold vfs_lock and are one step each; what      *)
(* vfs_mount() reads after it unlocked, vfs_open() and vfs_close() are     *)
(* steps of their own.  vfs_unmount() shifts the cells of a list and frees *)
(* nodes without the lock: it has a step where that begins and one where   *)
(* it has ended, and a walk in between may miss what it looks for, find    *)
(* something else, or go wrong.                                            *)
(* Lists are what a walk from their head finds; the first removal leaves   *)
(* the tail at a cell outside of the list (cut), and an insertion after    *)
(* that is counted but never found.                                        *)
(***************************************************************************)
EXTENDS Integers, FiniteSets, FiniteSetsExt, SequencesExt

CONSTANTS
    Proc,      \* threads that call exec()
    File,      \* file nodes of callers: numbers above those of the tree nodes
    NameOf,    \* their names
    OnRamfs,   \* the files whose fs is "ramfs"
    Archive,   \* entries of the boot archive: [path, file]
    Behind,    \* names that the memory behind the path of a directory may spell
    Mounts,    \* other calls of vfs_mount(): [path, file]
    ExecPaths, \* paths passed to exec()
    Paths,     \* paths that may be looked up or unmounted
    MaxNodes   \* bound: tree nodes ever created

None == -1

ASSUME VfsAssumption ==
    /\ None \notin Proc
    /\ MaxNodes \in Nat \ {0} /\ IsFiniteSet(File)
    /\ File \subseteq Nat /\ \A f \in File : f > MaxNodes
    /\ OnRamfs \subseteq File /\ NameOf \in [File -> STRING]
    /\ \A e \in Archive : e.file \in OnRamfs /\ e.path \in Seq(STRING) \ {<<>>}
    /\ <<>> \in Behind /\ Behind \subseteq Seq(STRING)
    /\ \A m \in Mounts : m.file \in File /\ m.path \in Seq(STRING)
    /\ <<>> \in Paths /\ Paths \subseteq Seq(STRING)
    /\ ExecPaths \subseteq Paths \ {<<>>}

VARIABLES
    tree,    \* tree nodes by number: [obj, parent, kids, cut]; 0 is the root
    freed,   \* the nodes that tree_free_node() has freed
    first,   \* its static flag
    removing,  \* the node that list_remove() is taking out, or None
    name,    \* fs_node->name of directories: number -> name
    vfsPtr,  \* fs_node->vfs_ptr of the mounted files
    ref,     \* fs_node->ref
    ops,     \* the operations of each file: "ramfs", "none" (NULL) or "wild"
    lock,    \* who holds binfmt_lock
    pc, at, obj,   \* of each thread: the tree node it has found, its data
    status   \* "ok"; "undefined"; "lost": a node was counted but not linked;
             \* "freed": a node was freed but not unlinked

vars == <<tree, freed, first, removing, name, vfsPtr, ref, ops, lock, pc, at, obj, status>>

threads == <<lock, pc, at, obj>>
nodes == <<tree, freed, first, removing, name, vfsPtr>>

Ids == 0..(MaxNodes - 1)
Objects == Ids \cup File
Tree == [obj : Objects, parent : Ids, kids : Seq(Ids), cut : BOOLEAN]

\* A directory made by create_or_traverse() is the node of its own number.
IsDirectory(o) == o \notin File

Leaf(o, parent) == [obj |-> o, parent |-> parent, kids |-> <<>>, cut |-> FALSE]

\* vfs_init().  Memory is not cleared: ref is one or the other, operations are
\* anything unless the caller stored NULL.
Init ==
    /\ tree = [i \in {0} |-> Leaf(0, 0)] /\ freed = {} /\ first = TRUE /\ removing = None
    /\ name = <<>> /\ vfsPtr = <<>>
    /\ ref \in {[o \in Objects |-> b] : b \in BOOLEAN}
    /\ ops = [f \in File |-> IF f \in OnRamfs THEN "wild" ELSE "none"]
    /\ lock = None
    /\ pc = [p \in Proc |-> "idle"]
    /\ at = [p \in Proc |-> None] /\ obj = [p \in Proc |-> None]
    /\ status = "ok"

-----------------------------------------------------------------------------
(* tree.c and list.c                                                       *)

\* The names of the nodes in the tree of t.
Called(t, i) == IF IsDirectory(t.tree[i].obj) THEN t.name[i] ELSE NameOf[t.tree[i].obj]

Matching(t, i, n) ==
    {k \in DOMAIN t.tree[i].kids : Called(t, t.tree[i].kids[k]) = n}

\* tree_match_child() that finds the youngest.
MatchLastChild(t, i, n) ==
    IF Matching(t, i, n) = {} THEN None ELSE t.tree[i].kids[Max(Matching(t, i, n))]

\* tree_match_child()
MatchChild(t, i, n) ==
    IF Matching(t, i, n) = {} THEN None ELSE t.tree[i].kids[Min(Matching(t, i, n))]

\* The cells of the list of i whose data list_remove() replaces by that of the
\* next one, and the last, which it cuts off.
Shifted(t, i) ==
    {k \in DOMAIN t.tree[i].kids : \E j \in 1..k : t.tree[i].kids[j] = removing}

\* What tree_match_child() may return instead when list_remove() overtakes it: it
\* steps over a child, or reads the next one from the cell of the one that matched.
Overtaken(t, i, n) ==
    LET kids  == t.tree[i].kids
        match == Matching(t, i, n)
    IN  IF match \subseteq Shifted(t, i)
        THEN {None} \cup {kids[k] : k \in match} \cup {kids[k + 1] : k \in match \ {Len(kids)}}
        ELSE {}

Answers(t, i, n) == {MatchChild(t, i, n)} \cup Overtaken(t, i, n)

\* f with the value v at x.
Extend(f, x, v) == [y \in DOMAIN f \cup {x} |-> IF y = x THEN v ELSE f[y]]

\* tree_insert_child(): the tree with a node for o; t.at is the new node.  The
\* node is not found in a list that was cut.
InsertChild(t, i, o) ==
    LET new    == Cardinality(DOMAIN t.tree)
        linked == [t.tree EXCEPT ![i].kids = Append(@, new)]
    IN  [t EXCEPT !.at = new,
                  !.lost = @ \/ t.tree[i].cut,
                  !.tree = Extend(linked, new, Leaf(o, i))]

\* create_or_traverse(): the walks that go on.  Without a node to mount (opt) it
\* creates nothing, and vfs_mount() returns NULL.
CreateOrTraverse(t, n, opt) ==
    LET new     == Cardinality(DOMAIN t.tree)
        created == [InsertChild(t, t.at, new) EXCEPT !.name = Extend(@, new, n)]
    IN  {[t EXCEPT !.at = child] : child \in Answers(t, t.at, n) \ {None}}
        \cup {x \in {created} : opt /\ None \in Answers(t, t.at, n)}

Here == [tree |-> tree, name |-> name, at |-> 0, lost |-> FALSE]

\* vfs_mount() after it has walked d, with or without a node to mount.
WalksTo(d, opt) ==
    LET walk[k \in 0..Len(d)] ==
            IF k = 0 THEN {Here} ELSE UNION {CreateOrTraverse(t, d[k], opt) : t \in walk[k - 1]}
    IN  walk[Len(d)]

\* The nodes that a look-up of p may come to.
Found(p) == {t.at : t \in WalksTo(p, FALSE)}

\* A walk of d may come to the list that list_remove() is at work on: it reads
\* cells, and nodes, that are being cut off and freed.
Meets(d) ==
    removing # None /\ \E k \in 0..Len(d) : tree[removing].parent \in Found(SubSeq(d, 1, k))

\* The node that a look-up of p comes to while nothing is being removed.
Lookup(p) ==
    LET level[k \in 0..Len(p)] ==
            IF k = 0 THEN 0
            ELSE LET up == level[k - 1] IN IF up = None THEN None ELSE MatchChild(Here, up, p[k])
    IN  level[Len(p)]

\* What tree_free_node() frees: i and all that is below it.
Subtree(i) ==
    LET reach[n \in 0..MaxNodes] ==
            IF n = 0 THEN {i}
            ELSE reach[n - 1] \cup UNION {Range(tree[k].kids) : k \in reach[n - 1]}
    IN  reach[MaxNodes]

-----------------------------------------------------------------------------
(* Mount and unmount                                                       *)

\* A caller mounts a node once.
Mountable(f) == status = "ok" /\ f \notin DOMAIN vfsPtr

\* The operations of f after filesystem->mount(), if it has a file system.
Mounted(f) == IF f \in OnRamfs THEN "ramfs" ELSE ops[f]

\* The list that is being shifted is longer in the tree of t.
Joins(t) ==
    removing # None /\ LET up == tree[removing].parent IN t.tree[up].kids # tree[up].kids

Fails(s) == status' = s /\ UNCHANGED <<nodes, ref, ops>>

\* vfs_mount() of f in the directory d; of the root it is said neither to which
\* file system f belongs nor that it is not open.  What joins the list that is
\* being shifted may be cut off with its last cell, or not counted.
Mount(d, f) ==
    /\ Mountable(f)
    /\ Cardinality(DOMAIN tree) + Len(d) < MaxNodes
    /\ \/ \E t \in WalksTo(d, TRUE) : LET new == InsertChild(t, t.at, f) IN
             \/ (new.lost \/ Joins(new)) /\ Fails("lost")
             \/ /\ ~new.lost
                /\ tree' = new.tree /\ name' = new.name
                /\ vfsPtr' = Extend(vfsPtr, f, IF d = <<>> THEN 0 ELSE new.at)
                /\ IF d = <<>> THEN UNCHANGED <<ref, ops>>
                   ELSE /\ ref' = [ref EXCEPT ![f] = FALSE]
                        /\ ops' = [ops EXCEPT ![f] = Mounted(f)]
                /\ UNCHANGED <<freed, first, removing, status>>
       \/ Meets(d) /\ Fails("undefined")
    /\ UNCHANGED threads

\* ramdisk_init(): the directory of an archive entry is what precedes its last
\* slash, or all of it when it has none.
DirOf(p) == IF Len(p) = 1 THEN p ELSE Front(p)

\* vfs_canonicalise() puts a slash in the place of the last 0 byte: vfs_mount()
\* goes on with what is in memory behind, and may run over its buffer for a name.
RamdiskEntry(e) ==
    \/ \E more \in Behind : Mount(DirOf(e.path) \o more, e.file)
    \/ Mountable(e.file) /\ Fails("undefined") /\ UNCHANGED threads

\* list_remove() that does not shift the data of the later cells.
UnlinkLast(i) ==
    LET up == tree[i].parent IN
    [tree EXCEPT ![up].kids = Front(@), ![up].cut = TRUE]

\* list_remove()
Unlink(i) ==
    LET up    == tree[i].parent
        place == CHOOSE k \in DOMAIN tree[up].kids : tree[up].kids[k] = i
    IN  [tree EXCEPT ![up].kids = RemoveAt(@, place), ![up].cut = TRUE]

\* vfs_unmount(), until list_remove() begins to shift cells: tree_free_node() takes out
\* the node of its first call only, and the last of a list with a pointer it has never
\* set.  Nobody unmounts meanwhile.
Unmount(p) ==
    LET n == Lookup(p)
        o == tree[n].obj
        i == IF IsDirectory(o) THEN n ELSE vfsPtr[o]
    IN  /\ status = "ok" /\ removing = None /\ n # None
        /\ IF p = <<>> \/ i = 0 THEN Fails("undefined")
           ELSE IF ~first THEN Fails("freed")
           ELSE IF i = Last(tree[tree[i].parent].kids) THEN Fails("undefined")
           ELSE removing' = i /\ UNCHANGED <<tree, freed, first, name, vfsPtr, ref, ops, status>>
        /\ UNCHANGED threads

\* The list is shifted, and tree_free_node() has freed the node and what is below.
Removed ==
    /\ status = "ok" /\ removing # None
    /\ tree' = Unlink(removing)
    /\ freed' = freed \cup Subtree(removing)
    /\ first' = FALSE /\ removing' = None
    /\ UNCHANGED <<name, vfsPtr, threads, ref, ops, status>>

-----------------------------------------------------------------------------
(* exec(): binfmt_load() of a file                                         *)

At(p, l) == pc[p] = l /\ status = "ok"

Goto(p, l) == pc' = [pc EXCEPT ![p] = l] /\ UNCHANGED lock

Stay(p, l) == Goto(p, l) /\ UNCHANGED <<at, obj>>

\* binfmt_load() returns, with or without success.
Return(p) ==
    /\ pc' = [pc EXCEPT ![p] = "idle"]
    /\ at' = [at EXCEPT ![p] = None] /\ obj' = [obj EXCEPT ![p] = None]
    /\ lock' = None

\* In kopen(), vfs_mount() without a node finds the tree node of a path and unlocks.
Find(p, a) ==
    \/ /\ \E n \in Found(a) : at' = [at EXCEPT ![p] = n]
       /\ lock' = p /\ pc' = [pc EXCEPT ![p] = "data"]
       /\ UNCHANGED <<nodes, ref, ops, obj, status>>
    \/ Meets(Front(a)) /\ Fails("undefined") /\ UNCHANGED threads

\* exec() that does not take binfmt_lock.
ExecNoLock(p, a) == At(p, "idle") /\ Find(p, a)

\* exec() takes binfmt_lock, and looks for the file,
Exec(p, a) == At(p, "idle") /\ lock = None /\ Find(p, a)

\* and then reads it.
FindData(p) ==
    /\ At(p, "data")
    /\ obj' = [obj EXCEPT ![p] = tree[at[p]].obj]
    /\ status' = IF at[p] \in freed THEN "undefined" ELSE status
    /\ Goto(p, "test") /\ UNCHANGED at
    /\ UNCHANGED <<nodes, ref, ops>>

\* vfs_open(): kopen() returns NULL for a busy node only.
OpenTest(p) ==
    /\ At(p, "test")
    /\ IF ref[obj[p]] THEN Return(p)
       ELSE Stay(p, IF IsDirectory(obj[p]) THEN "stat" ELSE "set")
    /\ UNCHANGED <<nodes, ref, ops, status>>

OpenSet(p) ==
    /\ At(p, "set")
    /\ ref' = [ref EXCEPT ![obj[p]] = TRUE]
    /\ status' = IF ops[obj[p]] = "wild" THEN "undefined" ELSE status
    /\ Stay(p, "stat")
    /\ UNCHANGED <<nodes, ops>>

\* fstat(): of a directory, a pointer nobody stored; binfmt_load() does not
\* close what it cannot stat.
Stat(p) ==
    /\ At(p, "stat")
    /\ IF IsDirectory(obj[p]) THEN Return(p) /\ status' \in {"ok", "undefined"}
       ELSE /\ IF ops[obj[p]] = "none" THEN Return(p) ELSE Stay(p, "read")
            /\ UNCHANGED status
    /\ UNCHANGED <<nodes, ref, ops>>

\* fread()
Read(p) ==
    /\ At(p, "read")
    /\ IF ref[obj[p]] THEN Stay(p, "close") ELSE Return(p)
    /\ UNCHANGED <<nodes, ref, ops, status>>

\* vfs_close() that leaves the node open.
CloseKeepsRef(p) ==
    /\ At(p, "close")
    /\ Return(p)
    /\ UNCHANGED <<nodes, ref, ops, status>>

\* kclose()
Close(p) ==
    /\ At(p, "close")
    /\ ref' = [ref EXCEPT ![obj[p]] = FALSE]
    /\ Return(p)
    /\ UNCHANGED <<nodes, ops, status>>

Next ==
    \/ \E e \in Archive : RamdiskEntry(e)
    \/ \E m \in Mounts : Mount(m.path, m.file)
    \/ \E p \in Paths : Unmount(p)
    \/ Removed
    \/ \E p \in Proc :
          \/ \E a \in ExecPaths : Exec(p, a)
          \/ FindData(p) \/ OpenTest(p) \/ OpenSet(p)
          \/ Stat(p) \/ Read(p) \/ Close(p)

Spec == Init /\ [][Next]_vars

-----------------------------------------------------------------------------
(* Properties                                                              *)

\* Lists hold the nodes whose parent they belong to, each once.
TypeOK ==
    /\ DOMAIN tree = 0..(Cardinality(DOMAIN tree) - 1)
    /\ \A i \in DOMAIN tree : tree[i] \in Tree
    /\ \A i \in DOMAIN tree \ (freed \cup {0}) :
          Cardinality({k \in DOMAIN tree[tree[i].parent].kids : tree[tree[i].parent].kids[k] = i}) = 1
    /\ freed \subseteq DOMAIN tree \ {0} /\ first \in BOOLEAN
    /\ removing \in DOMAIN tree \cup {None}
    /\ ref \in [Objects -> BOOLEAN]
    /\ ops \in [File -> {"ramfs", "none", "wild"}]
    /\ lock \in Proc \cup {None}
    /\ pc \in [Proc -> {"idle", "data", "test", "set", "stat", "read", "close"}]
    /\ at \in [Proc -> Ids \cup {None}] /\ obj \in [Proc -> Objects \cup {None}]
    /\ status \in {"ok", "undefined", "lost", "freed"}

\* A thread has the file open.
Holds(p, f) == obj[p] = f /\ (pc[p] \in {"read", "close"} \/ (pc[p] = "stat" /\ f \in File))

\* vfs_open(), "allowing write and read calls to go through": a file that is
\* open is so for one thread, and stays open until that closes it.
OpenForOne ==
    \A f \in File, p \in Proc : Holds(p, f) =>
        /\ ref[f]
        /\ \A q \in Proc \ {p} : ~Holds(q, f)

\* binfmt_load(): a file of the ramdisk is busy only while somebody reads it.
ClosedAfterUse ==
    \A i \in DOMAIN tree : LET f == tree[i].obj IN
        (~IsDirectory(f) /\ ops[f] = "ramfs" /\ ref[f] /\ status = "ok") => \E p \in Proc : Holds(p, f)

\* The paths that are found, and what they stand for, when nothing is being removed.
Names ==
    LET found == {<<p, Lookup(p)>> : p \in Paths}
    IN  {<<x[1], tree[x[2]].obj>> : x \in {x \in found : x[2] # None}}

\* The tree implements a name space, as those look-ups see it that no list_remove()
\* overtakes: an unmount has an effect on it when it ends.
NS == INSTANCE Namespace WITH
    mounted <- {tree[i].obj : i \in DOMAIN tree \ freed}, names <- Names

ImplementsNamespace == NS!Spec

\* vfs_mount(), "where it can be accessed through the vfs": a look-up finds what has the
\* name, also while something else is being unmounted.
LookupsFindNames == \A a \in ExecPaths : Found(a) \subseteq {Lookup(a)}

\* vfs_mount(), "where it can be accessed through the vfs".
MountsAreFound == status # "lost"

\* tree.c:50, "Remove node from parent's children, making it inaccessible".
FreedIsInaccessible == status # "freed"

\* ramdisk.c:87, "loads it into the vfs": an entry of the archive that is mounted,
\* with no unmount so far, is found at its path.
RamdiskPathsFound ==
    \A e \in Archive : (first /\ e.file \in DOMAIN vfsPtr) => <<e.path, e.file>> \in Names

=============================================================================
