---------------------------- MODULE MCRemoteFileTree ----------------------------
(* A directory and something in it that the gitignores name, on a disk where both  *)
(* are still to come, or, where directories are indexed lazily, both are there.    *)
EXTENDS RemoteFileTree

MCPaths == {<<>>, <<"d">>, <<"d", "f">>}
MCIgnored == {<<"d", "f">>}

MCInit ==
    /\ Init
    /\ \/ \A p \in Paths \ {<<>>} : disk[p] = "none"
       \/ ~ git /\ disk[<<"d">>] = "dir" /\ disk[<<"d", "f">>] = "file"

MCSpec == MCInit /\ [][Next]_vars /\ Fairness
=============================================================================
