----------------------------- MODULE HostPresence -----------------------------
(***************************************************************************)
(* What the RemoteServerManager promises to the owners of per-host models:  *)
(* a session is in the pool of at most one host, sessions join and leave    *)
(* pools one at a time, file trees are learned only from a host somebody is *)
(* in the pool of, and are dropped in the step in which its pool empties.   *)
(***************************************************************************)
CONSTANTS Sessions, Hosts

VARIABLES pool,   \* host -> the sessions connected to it
          trees   \* hosts whose file trees are held

Init ==
    /\ pool = [h \in Hosts |-> {}]
    /\ trees = {}

Join(s, h) ==
    /\ \A g \in Hosts : s \notin pool[g]
    /\ pool' = [pool EXCEPT ![h] = @ \cup {s}]
    /\ UNCHANGED trees

Leave(s, h) ==
    /\ s \in pool[h]
    /\ pool' = [pool EXCEPT ![h] = @ \ {s}]
    /\ trees' = IF pool[h] = {s} THEN trees \ {h} ELSE trees

Learn(h) ==
    /\ pool[h] # {}
    /\ trees' = trees \cup {h}
    /\ UNCHANGED pool

Next == \E h \in Hosts : Learn(h) \/ \E s \in Sessions : Join(s, h) \/ Leave(s, h)

Spec == Init /\ [][Next]_<<pool, trees>>
===============================================================================
