----------------------- MODULE MCRemoteServerController -----------------------
(* RemoteServerController on small instances.                               *)
EXTENDS RemoteServerController, TLC

Symmetry == Permutations(Sessions) \cup Permutations(Conns)
===============================================================================
