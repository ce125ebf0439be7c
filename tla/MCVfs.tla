-------------------------------- MODULE MCVfs --------------------------------
(* Vfs with two names, an archive with a file in a directory and one outside *)
(* of any, and a file without operations that may be mounted beside them,   *)
(* under a name that is taken, or at the root.                             *)
EXTENDS Vfs

MCNames == [f \in {21, 22, 23} |-> IF f = 21 THEN "a" ELSE "b"]
MCArchive == {[path |-> <<"a", "b">>, file |-> 22], [path |-> <<"a">>, file |-> 21]}
MCMounts == {[path |-> <<>>, file |-> 23], [path |-> <<"a">>, file |-> 23],
             [path |-> <<"b">>, file |-> 23]}
MCBehind == {<<>>, <<"a">>}
MCPaths == {<<>>} \cup {<<n>> : n \in {"a", "b"}} \cup {<<n, k>> : n, k \in {"a", "b"}}
MCExec == {<<"a">>, <<"a", "b">>, <<"a", "a">>}
=============================================================================
