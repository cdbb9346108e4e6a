----------------------- MODULE MCRemoteServerManager -----------------------
(* RemoteServerManager on small instances.                                  *)
EXTENDS RemoteServerManager, TLC

Symmetry == Permutations(Sessions) \cup Permutations(Hosts)
                \cup Permutations(Conns)
=============================================================================
