------------------------------ MODULE Namespace ------------------------------
(***************************************************************************)
(* What the virtual file system promises of names: a path stands for one   *)
(* node.  A mount adds nodes and changes no name; an unmount takes away a  *)
(* node with everything below its path, and leaves the other names as they *)
(* were before it.  What a look-up may answer during an unmount is not     *)
(* said here.                                                              *)
(***************************************************************************)
EXTENDS Sequences, SequencesExt

VARIABLES
    mounted, \* the nodes that have a place
    names    \* the names there are: <<path, node>>

vars == <<mounted, names>>

Init == \A x \in names : x[1] = <<>> /\ x[2] \in mounted

\* A name stands for one node, which is mounted.
Proper(n, m) ==
    /\ \A x, y \in n : x[1] = y[1] => x = y
    /\ \A x \in n : x[2] \in m

\* A node gets the name of b, unless that is taken; what is missing of the
\* directories on the way to it appears with it.
Mount(old, new) ==
    LET added == new \ old IN
    /\ mounted \subseteq mounted'
    /\ old \subseteq new
    /\ \E b \in new : \A x \in added : IsPrefix(x[1], b[1])

\* What had the name of b is gone, and only names at or below it have changed:
\* a node that was mounted under a name already taken may get that now.
Unmount(old, new) ==
    LET changed == (old \ new) \cup (new \ old) IN
    /\ mounted' \subseteq mounted
    /\ \E b \in old : /\ b[2] \notin mounted'
                      /\ \A x \in changed : IsPrefix(b[1], x[1])

Next ==
    \E old \in {names}, new \in {names'} :
        (Mount(old, new) \/ Unmount(old, new)) /\ Proper(new, mounted')

Spec == Init /\ [][Next]_vars
=============================================================================
