---------------------------- MODULE AddressSpaces ----------------------------
(***************************************************************************)
(* What the virtual memory manager promises: address spaces, each a        *)
(* function from virtual pages to mappings, of which a call changes one.   *)
(* The pages of the processor and the kernel (fixed) are mapped in all of  *)
(* them, always; memory that a user task may touch belongs to one space.   *)
(* Nothing is promised after memory has run out or was overwritten, by a   *)
(* segment or by a free.                                                   *)
(***************************************************************************)
EXTENDS Integers, FiniteSets

CONSTANTS
    VPage      \* virtual pages

VARIABLES
    fixed,     \* page -> mapping, of the pages every space has
    space      \* root -> (page -> mapping); a mapping has a frame (to) and a
               \* flag for the user (u)

\* The pages of a space that a user task may touch, and their frames.
UserPages(s) == {v \in VPage : s[v].u}

UserFrames(s) == {s[v].to : v \in UserPages(s)}

\* No two pages of a space, and no two spaces, share a frame a user may touch.
Private(spaces) ==
    \A r \in DOMAIN spaces :
        /\ Cardinality(UserFrames(spaces[r])) = Cardinality(UserPages(spaces[r]))
        /\ \A q \in DOMAIN spaces \ {r} :
              UserFrames(spaces[r]) \cap UserFrames(spaces[q]) = {}

HasFixed(s) == \A v \in DOMAIN fixed : s[v] = fixed[v]

Init ==
    \A r \in DOMAIN space : HasFixed(space[r]) /\ UserPages(space[r]) = {}

\* A new space, and no change of the others.
Create ==
    \E r \in DOMAIN space' \ DOMAIN space :
        /\ DOMAIN space' = DOMAIN space \cup {r}
        /\ \A q \in DOMAIN space : space'[q] = space[q]
        /\ HasFixed(space'[r])
        /\ Private(space')

\* New pages for the user of one space, over what was mapped there; the pages
\* of the kernel, above the user's, stay.
MapUser ==
    \E r \in DOMAIN space :
        /\ DOMAIN space' = DOMAIN space
        /\ \A q \in DOMAIN space \ {r} : space'[q] = space[q]
        /\ \A v \in VPage : space'[r][v] # space[r][v] => space'[r][v].u
        /\ HasFixed(space'[r])
        /\ Private(space')

\* A space is freed.
Free == \E r \in DOMAIN space : space' = [q \in DOMAIN space \ {r} |-> space[q]]

NoPromise == DOMAIN space' = {}

Next == (Create \/ MapUser \/ Free \/ NoPromise) /\ UNCHANGED fixed

Spec == Init /\ [][Next]_<<fixed, space>>
=============================================================================
