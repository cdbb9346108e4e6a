-------------------------- MODULE DaemonStartupProofs --------------------------
(***************************************************************************)
(* The flock around the start of a daemon, for any number of proxies.  The  *)
(* lock belongs to an inode, so mutual exclusion is the conjunction of two  *)
(* facts: who is past the flock holds the lock of the file it has open, and *)
(* all open files are the one at pid_path as long as nobody unlinked it.    *)
(***************************************************************************)
EXTENDS DaemonStartup, TLAPS

(* A daemon is spawned once, by a proxy that did not spawn one before.        *)
SpawnedOnce ==
    \A p \in Proxies : proxy[p] \in {"new", "opened", "locked", "clean", "spawn"} => daemon[p] = "none"

HoldersHold == \A p \in Proxies : proxy[p] \in Critical => holder[fd[p]] = p

OneFile ==
    (\A d \in Proxies : daemon[d] # "exited")
        => \A p \in Proxies : fd[p] # None2 => fd[p] = pidFile

Inv == TypeOK /\ SpawnedOnce /\ HoldersHold /\ OneFile

(* The name of no inode is an inode.                                          *)
LEMMA NoInode == None2 \notin Inodes
  BY StartupAssumption DEF None2, Inodes

LEMMA NewInodes == \A p \in Proxies : <<p, "proxy">> \in Inodes /\ <<p, "daemon">> \in Inodes
  BY DEF Inodes

LEMMA InitInv == Init => Inv
  BY NoInode, StartupAssumption
  DEF Init, Inv, TypeOK, SpawnedOnce, HoldersHold, OneFile, Critical, Exited, Running, Booting, Leaving, None2, Inodes

LEMMA TypeStep == TypeOK /\ [Next]_vars => TypeOK'
  <1> SUFFICES ASSUME TypeOK, [Next]_vars PROVE TypeOK'
    OBVIOUS
  <1> USE StartupAssumption, NoInode, NewInodes
  <1>1. ASSUME NEW p \in Proxies, Open(p) PROVE TypeOK'
    <2>1. pidFile' \in Inodes /\ fd' = [fd EXCEPT ![p] = pidFile'] /\ pidFile' # None2
      BY <1>1 DEF Open, TypeOK
    <2>2. fd[p] = None2
      BY <1>1 DEF Open, TypeOK, Critical
    <2>3. lone' \subseteq Proxies
      BY <1>1 DEF Open
    <2> QED
      BY <1>1, <2>1, <2>2, <2>3 DEF Open, TypeOK, files, serving, Critical, Exited
  <1>2. ASSUME NEW p \in Proxies, Lock(p) PROVE TypeOK'
    BY <1>2 DEF Lock, MayLock, TypeOK, files, serving, Critical, Exited
  <1>3. ASSUME NEW p \in Proxies, Check(p) PROVE TypeOK'
    BY <1>3 DEF Check, TypeOK, files, serving, Critical, Exited
  <1>4. ASSUME NEW p \in Proxies, RemoveStaleSocket(p) PROVE TypeOK'
    BY <1>4 DEF RemoveStaleSocket, StaleSocketGone, TypeOK, serving, Critical, Exited
  <1>5. ASSUME NEW p \in Proxies, Spawn(p) PROVE TypeOK'
    BY <1>5 DEF Spawn, TypeOK, files, serving, Critical, Exited, Running, Booting
  <1>6. ASSUME NEW p \in Proxies, SeesSocket(p) PROVE TypeOK'
    BY <1>6 DEF SeesSocket, TypeOK, files, serving, Critical, Exited
  <1>7. ASSUME NEW p \in Proxies, TimesOut(p) \/ Unlock(p) \/ Ends(p) PROVE TypeOK'
    <2>1. /\ holder' = Released(p)
          /\ fd' = [fd EXCEPT ![p] = None2]
          /\ \E s \in {"timeout", "connecting", "ended"} : proxy' = [proxy EXCEPT ![p] = s]
          /\ UNCHANGED <<daemon, out, files, serving, recycled, lone>>
      BY <1>7 DEF TimesOut, Unlock, Ends
    <2>2. holder' \in [Inodes -> Proxies \cup {None}]
      BY <2>1 DEF Released, TypeOK
    <2>3. \A i \in Inodes : holder'[i] # None => fd'[holder'[i]] = i
      BY <2>1 DEF Released, TypeOK
    <2> QED
      BY <2>1, <2>2, <2>3 DEF TypeOK, files, serving, Critical, Exited
  <1>8. ASSUME NEW p \in Proxies, Connect(p) PROVE TypeOK'
    BY <1>8 DEF Connect, Listening, TypeOK, files, Critical, Exited
  <1>9. ASSUME NEW p \in Proxies, Refused(p) PROVE TypeOK'
    BY <1>9 DEF Refused, TypeOK, files, serving, Critical, Exited
  <1>10. ASSUME NEW d \in Proxies, NEW from, NEW to \in {"dead", "exited"} \cup Running, At(d, from, to)
         PROVE daemon' \in [Proxies -> {"none", "dead", "exited"} \cup Running]
    BY <1>10 DEF At, TypeOK
  <1>11. ASSUME NEW d \in Proxies,
                \/ LooksForSocket(d) \/ RemovesSocket(d) \/ Bind(d) \/ Listen(d) \/ SetPermissions(d)
                \/ GraceExpires(d) \/ RemoveSocket(d) \/ RemovePid(d)
         PROVE TypeOK'
    <2> DEFINE Next1 == {"dead", "exited"} \cup Running
    <2>1. /\ \E from \in Running, to \in Next1 : At(d, from, to)
          /\ sock' \in Proxies \cup {None} /\ pidFile' \in Inodes \cup {None2}
          /\ UNCHANGED <<out, text>>
      BY <1>11 DEF LooksForSocket, RemovesSocket, Bind, Listen, SetPermissions, GraceExpires, RemoveSocket,
                   RemovePid, Running, Booting, Leaving, files, TypeOK, At
    <2>2. PICK from \in Running, to \in Next1 : At(d, from, to)
      BY <2>1
    <2>3. daemon' \in [Proxies -> {"none", "dead", "exited"} \cup Running]
      BY <1>10, <2>2
    <2>4. UNCHANGED <<proxy, fd, holder, serving, recycled, lone>>
      BY <2>2 DEF At
    <2> QED
      BY <2>1, <2>3, <2>4 DEF TypeOK, serving
  <1>12. ASSUME NEW d \in Proxies, OpenPidFile(d) PROVE TypeOK'
    <2>1. pidFile' \in Inodes
      BY <1>12 DEF OpenPidFile, TypeOK
    <2>2. At(d, "ready", "truncated") /\ "truncated" \in Running
      BY <1>12 DEF OpenPidFile, Running, Booting
    <2>3. daemon' \in [Proxies -> {"none", "dead", "exited"} \cup Running]
      BY <1>10, <2>2
    <2> QED
      BY <1>12, <2>1, <2>2, <2>3 DEF OpenPidFile, At, TypeOK, serving
  <1>13. ASSUME NEW d \in Proxies, WritePid(d) PROVE TypeOK'
    <2>1. At(d, "truncated", "serving") /\ "serving" \in Running
      BY <1>13 DEF WritePid, Running
    <2>2. daemon' \in [Proxies -> {"none", "dead", "exited"} \cup Running]
      BY <1>10, <2>1
    <2> QED
      BY <1>13, <2>1, <2>2 DEF WritePid, At, TypeOK, serving
  <1>14. ASSUME NEW p \in Proxies, Register(p) \/ Deregister(p) PROVE TypeOK'
    BY <1>14 DEF Register, Deregister, TypeOK, files
  <1>15. ASSUME NEW d \in Proxies, Crash(d) \/ RecyclePid(d) PROVE TypeOK'
    BY <1>15 DEF Crash, RecyclePid, TypeOK, files, serving
  <1>16. CASE UNCHANGED vars
    BY <1>16 DEF TypeOK, vars, files, serving
  <1> QED
    BY <1>1, <1>2, <1>3, <1>4, <1>5, <1>6, <1>7, <1>8, <1>9, <1>11, <1>12, <1>13, <1>14, <1>15, <1>16
    DEF Next, ProxyStep, DaemonStep

LEMMA LockStep == Inv /\ [Next]_vars => SpawnedOnce' /\ HoldersHold' /\ OneFile'
  <1> SUFFICES ASSUME Inv, [Next]_vars PROVE SpawnedOnce' /\ HoldersHold' /\ OneFile'
    OBVIOUS
  <1> USE StartupAssumption, NoInode, NewInodes
  <1>1. ASSUME NEW p \in Proxies, Open(p) PROVE SpawnedOnce' /\ HoldersHold' /\ OneFile'
    <2>1. fd[p] = None2 /\ fd' = [fd EXCEPT ![p] = pidFile'] /\ UNCHANGED <<holder, daemon>>
      BY <1>1 DEF Open, Inv, TypeOK, Critical
    <2>2. OneFile'
      BY <1>1, <2>1 DEF Open, Inv, OneFile, TypeOK
    <2>3. HoldersHold'
      BY <1>1, <2>1 DEF Open, Inv, HoldersHold, TypeOK, Critical
    <2> QED
      BY <1>1, <2>2, <2>3 DEF Open, Inv, SpawnedOnce, TypeOK
  <1>2. ASSUME NEW p \in Proxies, Lock(p) PROVE SpawnedOnce' /\ HoldersHold' /\ OneFile'
    <2>1. HoldersHold'
      BY <1>2 DEF Lock, MayLock, Inv, HoldersHold, TypeOK, Critical
    <2> QED
      BY <1>2, <2>1 DEF Lock, files, Inv, SpawnedOnce, OneFile, TypeOK
  <1>3. ASSUME NEW p \in Proxies, Check(p) \/ RemoveStaleSocket(p) \/ SeesSocket(p)
        PROVE SpawnedOnce' /\ HoldersHold' /\ OneFile'
    BY <1>3 DEF Check, RemoveStaleSocket, SeesSocket, files, Inv, SpawnedOnce, HoldersHold, OneFile, TypeOK, Critical
  <1>4. ASSUME NEW p \in Proxies, Spawn(p) PROVE SpawnedOnce' /\ HoldersHold' /\ OneFile'
    <2>1. daemon[p] = "none"
      BY <1>4 DEF Spawn, Inv, SpawnedOnce
    <2> QED
      BY <1>4, <2>1 DEF Spawn, files, Inv, SpawnedOnce, HoldersHold, OneFile, TypeOK, Critical
  <1>5. ASSUME NEW p \in Proxies, TimesOut(p) \/ Unlock(p) \/ Ends(p)
        PROVE SpawnedOnce' /\ HoldersHold' /\ OneFile'
    <2>1. /\ holder' = Released(p)
          /\ fd' = [fd EXCEPT ![p] = None2]
          /\ \E s \in {"timeout", "connecting", "ended"} : proxy' = [proxy EXCEPT ![p] = s]
          /\ UNCHANGED <<daemon, files>>
      BY <1>5 DEF TimesOut, Unlock, Ends
    <2>2. HoldersHold'
      <3> SUFFICES ASSUME NEW q \in Proxies, proxy'[q] \in Critical PROVE holder'[fd'[q]] = q
        BY DEF HoldersHold
      <3>1. q # p /\ proxy[q] \in Critical /\ fd'[q] = fd[q]
        BY <2>1 DEF Inv, TypeOK, Critical
      <3>2. fd[q] \in Inodes /\ holder[fd[q]] = q
        BY <3>1 DEF Inv, TypeOK, HoldersHold
      <3> QED
        BY <2>1, <3>1, <3>2 DEF Released
    <2>3. SpawnedOnce'
      BY <2>1 DEF Inv, SpawnedOnce, TypeOK
    <2> QED
      BY <2>1, <2>2, <2>3 DEF files, Inv, OneFile, TypeOK
  <1>6. ASSUME NEW p \in Proxies, Connect(p) \/ Refused(p) \/ Register(p) \/ Deregister(p) \/ RecyclePid(p)
        PROVE SpawnedOnce' /\ HoldersHold' /\ OneFile'
    BY <1>6 DEF Connect, Refused, Register, Deregister, RecyclePid, files, Inv, SpawnedOnce, HoldersHold,
                OneFile, TypeOK, Critical
  <1>7. ASSUME NEW d \in Proxies, NEW from \in Running, NEW to, At(d, from, to)
        PROVE SpawnedOnce' /\ HoldersHold'
    <2>1. daemon[d] # "none" /\ UNCHANGED <<proxy, fd, holder>>
      BY <1>7 DEF At, Running, Booting, Leaving
    <2>2. \A p \in Proxies : p # d => daemon'[p] = daemon[p]
      BY <1>7 DEF At, Inv, TypeOK
    <2>3. SpawnedOnce'
      BY <2>1, <2>2 DEF Inv, SpawnedOnce
    <2> QED
      BY <2>1, <2>3 DEF Inv, HoldersHold
  <1>8. ASSUME NEW d \in Proxies,
               \/ LooksForSocket(d) \/ RemovesSocket(d) \/ Bind(d) \/ Listen(d)
               \/ SetPermissions(d) \/ WritePid(d) \/ GraceExpires(d) \/ RemoveSocket(d)
        PROVE SpawnedOnce' /\ HoldersHold' /\ OneFile'
    <2> DEFINE Next1 == {"dead"} \cup Running
    <2>1. /\ \E from \in Running, to \in Next1 : At(d, from, to)
          /\ UNCHANGED pidFile
      BY <1>8 DEF LooksForSocket, RemovesSocket, Bind, Listen, SetPermissions, WritePid, GraceExpires,
                  RemoveSocket, Running, Booting, Leaving, files
    <2>2. PICK from \in Running, to \in Next1 : At(d, from, to)
      BY <2>1
    <2>3. OneFile'
      BY <2>1, <2>2 DEF At, Inv, OneFile, TypeOK, Running, Booting, Leaving
    <2> QED
      BY <1>7, <2>2, <2>3
  <1>9. ASSUME NEW d \in Proxies, RemovePid(d) PROVE SpawnedOnce' /\ HoldersHold' /\ OneFile'
    <2>1. At(d, "unlinking", "exited")
      BY <1>9 DEF RemovePid
    <2>2. daemon'[d] = "exited"
      BY <2>1 DEF At, Inv, TypeOK
    <2> QED
      BY <1>7, <2>1, <2>2 DEF OneFile, Running, Leaving
  <1>10. ASSUME NEW d \in Proxies, OpenPidFile(d) PROVE SpawnedOnce' /\ HoldersHold' /\ OneFile'
    <2>1. At(d, "ready", "truncated") /\ (pidFile # None2 => pidFile' = pidFile)
      BY <1>10 DEF OpenPidFile
    <2>2. OneFile'
      BY <2>1 DEF At, Inv, OneFile, TypeOK
    <2> QED
      BY <1>7, <2>1, <2>2 DEF Running, Booting
  <1>11. ASSUME NEW d \in Proxies, Crash(d) PROVE SpawnedOnce' /\ HoldersHold' /\ OneFile'
    BY <1>11 DEF Crash, files, Inv, SpawnedOnce, HoldersHold, OneFile, TypeOK, Running, Booting, Leaving
  <1>12. CASE UNCHANGED vars
    BY <1>12 DEF vars, files, Inv, SpawnedOnce, HoldersHold, OneFile
  <1> QED
    BY <1>1, <1>2, <1>3, <1>4, <1>5, <1>6, <1>8, <1>9, <1>10, <1>11, <1>12 DEF Next, ProxyStep, DaemonStep

(* The lock invariant holds in every reachable state.                         *)
THEOREM LockInvariant == Spec => []Inv
  <1>1. Inv /\ [Next]_vars => Inv'
    BY TypeStep, LockStep DEF Inv
  <1> QED
    BY InitInv, <1>1, PTL DEF Spec

(* Types, for any number of proxies and daemons (run, run_daemon).            *)
THEOREM TypeCorrect == Spec => []TypeOK
  BY LockInvariant, PTL DEF Inv

(* The flock of run keeps a second proxy out as long as no daemon unlinks the *)
(* pid file: only an exit (run_daemon's last remove_file) breaks it.          *)
THEOREM FlockExcludes == Spec => []TwoStartersNeedAnUnlink
  <1>1. Inv => TwoStartersNeedAnUnlink
    <2> SUFFICES ASSUME Inv, NEW p \in Proxies, NEW q \in Proxies, proxy[p] \in Critical, proxy[q] \in Critical,
                        \A d \in Proxies : daemon[d] # "exited"
                 PROVE p = q
      BY DEF TwoStartersNeedAnUnlink
    <2>1. fd[p] = pidFile /\ fd[q] = pidFile
      BY DEF Inv, TypeOK, OneFile
    <2> QED
      BY <2>1 DEF Inv, HoldersHold
  <1> QED
    BY LockInvariant, <1>1, PTL

----------------------------------------------------------------------------
(* A proxy that starts when nothing else runs.                                *)

(* No file is a proxy's before the proxy has made it.                         *)
FreshFiles ==
    \A p \in Proxies : proxy[p] = "new" =>
        /\ pidFile # <<p, "proxy">>
        /\ text[<<p, "proxy">>] = None
        /\ \A d \in Proxies : out[d] # <<p, "proxy">>

LEMMA FreshInit == Init => FreshFiles
  <1>1. \A p \in Proxies : <<p, "proxy">> # None2
    BY NewInodes, NoInode
  <1> QED
    BY <1>1, NewInodes DEF Init, FreshFiles

LEMMA FreshStep == Inv /\ FreshFiles /\ [Next]_vars => FreshFiles'
  <1> SUFFICES ASSUME Inv, FreshFiles, [Next]_vars PROVE FreshFiles'
    OBVIOUS
  <1>1. ASSUME UNCHANGED <<pidFile, text, out>>,
               \A p \in Proxies : proxy'[p] = "new" => proxy[p] = "new"
        PROVE  FreshFiles'
    BY <1>1 DEF FreshFiles
  <1>2. ASSUME NEW p \in Proxies, Open(p) PROVE FreshFiles'
    <2>1. /\ \A q \in Proxies : proxy'[q] = "new" => q # p /\ proxy[q] = "new"
          /\ pidFile' = pidFile \/ pidFile' = <<p, "proxy">>
          /\ UNCHANGED <<text, out>>
      BY <1>2 DEF Open, Inv, TypeOK
    <2> QED
      BY <2>1 DEF FreshFiles
  <1>3. ASSUME NEW p \in Proxies, ProxyStep(p) \/ Ends(p) PROVE FreshFiles'
    <2>1. \E s : s # "new" /\ proxy' = [proxy EXCEPT ![p] = s]
      BY <1>3 DEF ProxyStep, Lock, Check, RemoveStaleSocket, Spawn, SeesSocket, TimesOut,
                  Unlock, Connect, Refused, Ends
    <2>2. UNCHANGED <<pidFile, text, out>>
      BY <1>3 DEF ProxyStep, Lock, Check, RemoveStaleSocket, Spawn, SeesSocket, TimesOut,
                  Unlock, Connect, Refused, Ends, files
    <2> QED
      BY <1>1, <2>1, <2>2 DEF Inv, TypeOK
  <1>4. ASSUME NEW d \in Proxies,
               \/ LooksForSocket(d) \/ RemovesSocket(d) \/ Bind(d) \/ Listen(d)
               \/ SetPermissions(d) \/ GraceExpires(d) \/ RemoveSocket(d)
               \/ Register(d) \/ Deregister(d) \/ Crash(d) \/ RecyclePid(d)
        PROVE FreshFiles'
    <2>1. UNCHANGED <<pidFile, text, out, proxy>>
      BY <1>4 DEF LooksForSocket, RemovesSocket, Bind, Listen, SetPermissions, GraceExpires,
                  RemoveSocket, Register, Deregister, Crash, RecyclePid, At, files
    <2> QED
      BY <1>1, <2>1
  <1>5. ASSUME NEW d \in Proxies, RemovePid(d) PROVE FreshFiles'
    <2>1. pidFile' = None2 /\ UNCHANGED <<text, out, proxy>>
      BY <1>5 DEF RemovePid, At
    <2>2. \A p \in Proxies : <<p, "proxy">> # None2
      BY NewInodes, NoInode
    <2> QED
      BY <2>1, <2>2 DEF FreshFiles
  <1>6. ASSUME NEW d \in Proxies, OpenPidFile(d) PROVE FreshFiles'
    <2>1. /\ pidFile' = pidFile \/ pidFile' = <<d, "daemon">>
          /\ out' = [out EXCEPT ![d] = pidFile']
          /\ text' = [text EXCEPT ![pidFile'] = None]
          /\ UNCHANGED proxy
      BY <1>6 DEF OpenPidFile, At
    <2>2. \A p \in Proxies : <<p, "proxy">> # <<d, "daemon">>
      OBVIOUS
    <2>3. \A p \in Proxies : proxy'[p] = "new" => pidFile' # <<p, "proxy">>
      BY <2>1, <2>2 DEF FreshFiles
    <2>4. \A p \in Proxies : proxy'[p] = "new" => text'[<<p, "proxy">>] = None
      BY <2>1, NewInodes DEF FreshFiles, Inv, TypeOK
    <2>5. \A p, e \in Proxies : proxy'[p] = "new" => out'[e] # <<p, "proxy">>
      BY <2>1, <2>3 DEF FreshFiles, Inv, TypeOK
    <2> QED
      BY <2>3, <2>4, <2>5 DEF FreshFiles
  <1>7. ASSUME NEW d \in Proxies, WritePid(d) PROVE FreshFiles'
    <2>1. text' = [text EXCEPT ![out[d]] = d] /\ UNCHANGED <<pidFile, out, proxy>>
      BY <1>7 DEF WritePid, At
    <2>2. \A p \in Proxies : proxy[p] = "new" => text'[<<p, "proxy">>] = None
      BY <2>1, NewInodes DEF FreshFiles, Inv, TypeOK
    <2> QED
      BY <2>1, <2>2 DEF FreshFiles
  <1>8. CASE UNCHANGED vars
    BY <1>8 DEF vars, files, FreshFiles
  <1> QED
    BY <1>2, <1>3, <1>4, <1>5, <1>6, <1>7, <1>8 DEF Next, DaemonStep

(* The daemon of p on its way: the socket path is free until it has bound it,  *)
(* and its own from then on.                                                  *)
OwnDaemon(p) ==
    \/ daemon[p] \in {"booting", "binding"} /\ sock = None
    \/ daemon[p] \in {"bound", "listening", "ready", "truncated", "serving"} /\ sock = p

OthersIdle(p) ==
    \A q \in Proxies \ {p} : proxy[q] \in Exited \cup {"new"} /\ daemon[q] \notin Running

(* How far a proxy gets that was alone when it started, as long as nobody else  *)
(* starts and nobody interferes.                                              *)
LoneAhead(p) ==
    /\ OthersIdle(p)
    /\ proxy[p] \notin {"new", "reuse"}
    /\ proxy[p] \in {"opened", "locked"} => ~ CheckDaemonRunning
    /\ proxy[p] = "spawn" => sock = None
    /\ proxy[p] \in {"waiting", "started", "connecting"} => OwnDaemon(p)
    /\ proxy[p] \in {"started", "connecting"} => sock = p

LoneGetsOn == \A p \in lone : LoneAhead(p)

(* A pid file that names no living process stays so while the proxy that opens   *)
(* it only goes on to the lock.                                               *)
LEMMA StillNotRunning ==
    ASSUME Inv, ~ CheckDaemonRunning, UNCHANGED <<daemon, text, recycled>>,
           \A q \in Proxies : proxy[q] \in Exited => proxy'[q] \in Exited,
           pidFile' = pidFile \/ text[pidFile'] = None
    PROVE  ~ CheckDaemonRunning'
  <1> USE StartupAssumption, NoInode
  <1>1. SUFFICES ASSUME pidFile' # None2, text'[pidFile'] # None, PidAlive(text[pidFile])'
                 PROVE  FALSE
    BY DEF CheckDaemonRunning
  <1>2. pidFile' = pidFile /\ text[pidFile] \in Proxies
    BY <1>1 DEF Inv, TypeOK
  <1>3. PidAlive(text[pidFile])
    BY <1>1, <1>2 DEF PidAlive
  <1> QED
    BY <1>1, <1>2, <1>3 DEF CheckDaemonRunning

(* The start of the lone proxy itself.                                        *)
LEMMA LoneOpens ==
    ASSUME Inv, FreshFiles, NEW p \in Proxies, Open(p)
    PROVE  LoneGetsOn'
  <1>1. SUFFICES ASSUME NEW x \in lone' PROVE LoneAhead(x)'
    BY DEF LoneGetsOn
  <1>2. /\ x = p
        /\ \A q \in Proxies : proxy[q] \in Exited \cup {"new"}
        /\ \A d \in Proxies : daemon[d] \notin Running
        /\ ~ CheckDaemonRunning
    BY <1>1 DEF Open
  <1>3. /\ proxy[p] = "new" /\ proxy'[p] = "opened"
        /\ \A q \in Proxies : q # p => proxy'[q] = proxy[q]
        /\ UNCHANGED <<daemon, text, recycled>>
        /\ pidFile' = pidFile \/ pidFile' = <<p, "proxy">>
    BY DEF Open, Inv, TypeOK
  <1>4. ~ CheckDaemonRunning'
    <2>1. text[<<p, "proxy">>] = None
      BY <1>3 DEF FreshFiles
    <2>2. \A q \in Proxies : proxy[q] \in Exited => proxy'[q] \in Exited
      BY <1>3 DEF Exited
    <2> QED
      BY <1>2, <1>3, <2>1, <2>2, StillNotRunning
  <1>5. OthersIdle(p)'
    BY <1>2, <1>3 DEF OthersIdle
  <1> QED
    BY <1>2, <1>3, <1>4, <1>5 DEF LoneAhead

(* Its own steps.                                                             *)
LEMMA LoneProxySteps ==
    ASSUME Inv, NEW p \in Proxies, LoneAhead(p), ProxyStep(p) \/ Ends(p)
    PROVE  LoneAhead(p)'
  <1> USE StartupAssumption
  <1>0. \A q \in Proxies \ {p} : proxy'[q] = proxy[q] /\ daemon'[q] = daemon[q]
    BY DEF ProxyStep, Lock, Check, RemoveStaleSocket, Spawn, SeesSocket, TimesOut, Unlock,
           Connect, Refused, Ends, Inv, TypeOK
  <1>a. OthersIdle(p)'
    BY <1>0 DEF OthersIdle, LoneAhead
  <1>1. CASE Lock(p)
    <2>1. /\ proxy[p] = "opened" /\ proxy' = [proxy EXCEPT ![p] = "locked"]
          /\ UNCHANGED <<daemon, text, recycled, pidFile>>
      BY <1>1 DEF Lock, files
    <2>2. \A q \in Proxies : proxy[q] \in Exited => proxy'[q] \in Exited
      BY <2>1 DEF Exited, Inv, TypeOK
    <2>3. ~ CheckDaemonRunning'
      BY <2>1, <2>2, StillNotRunning DEF LoneAhead
    <2>4. proxy'[p] = "locked"
      BY <2>1 DEF Inv, TypeOK
    <2> QED
      BY <1>a, <2>3, <2>4 DEF LoneAhead
  <1>2. CASE Check(p)
    <2>1. proxy'[p] = "clean"
      BY <1>2 DEF Check, LoneAhead, Inv, TypeOK
    <2> QED
      BY <1>a, <2>1 DEF LoneAhead
  <1>3. CASE RemoveStaleSocket(p)
    <2>1. proxy'[p] = "spawn" /\ sock' = None
      BY <1>3 DEF RemoveStaleSocket, StaleSocketGone, Inv, TypeOK
    <2> QED
      BY <1>a, <2>1 DEF LoneAhead
  <1>4. CASE Spawn(p)
    <2>1. proxy'[p] = "waiting" /\ daemon'[p] = "booting" /\ sock' = None
      BY <1>4 DEF Spawn, files, LoneAhead, Inv, TypeOK
    <2> QED
      BY <1>a, <2>1 DEF LoneAhead, OwnDaemon
  <1>5. CASE SeesSocket(p)
    <2>1. /\ proxy[p] = "waiting" /\ proxy'[p] = "started"
          /\ sock # None /\ UNCHANGED <<sock, daemon>>
      BY <1>5 DEF SeesSocket, files, Inv, TypeOK
    <2> QED
      BY <1>a, <2>1 DEF LoneAhead, OwnDaemon
  <1>6. CASE Unlock(p)
    <2>1. proxy[p] = "started" /\ proxy'[p] = "connecting" /\ UNCHANGED <<sock, daemon>>
      BY <1>6 DEF Unlock, files, LoneAhead, Inv, TypeOK
    <2> QED
      BY <1>a, <2>1 DEF LoneAhead, OwnDaemon
  <1>7. CASE TimesOut(p) \/ Connect(p) \/ Refused(p) \/ Ends(p)
    <2>1. proxy'[p] \in {"timeout", "bridged", "refused", "ended"}
      BY <1>7 DEF TimesOut, Connect, Refused, Ends, Inv, TypeOK
    <2> QED
      BY <1>a, <2>1 DEF LoneAhead
  <1> QED
    BY <1>1, <1>2, <1>3, <1>4, <1>5, <1>6, <1>7 DEF ProxyStep

(* Those of its daemon.  It is not taken to leave before its proxy is through.  *)
LEMMA LoneDaemonSteps ==
    ASSUME Inv, NEW p \in Proxies, LoneAhead(p),
           \/ LooksForSocket(p) \/ RemovesSocket(p) \/ Bind(p) \/ Listen(p) \/ SetPermissions(p)
           \/ OpenPidFile(p) \/ WritePid(p) \/ GraceExpires(p) \/ RemoveSocket(p) \/ RemovePid(p)
    PROVE  LoneAhead(p)'
  <1> USE StartupAssumption
  <1>0. PICK from \in Running : \E to : At(p, from, to)
    BY DEF LooksForSocket, RemovesSocket, Bind, Listen, SetPermissions, OpenPidFile, WritePid,
           GraceExpires, RemoveSocket, RemovePid, Running, Booting, Leaving
  <1>1. PICK to : At(p, from, to)
    BY <1>0
  <1>2. /\ daemon[p] = from /\ daemon'[p] = to /\ UNCHANGED proxy
        /\ \A q \in Proxies \ {p} : daemon'[q] = daemon[q]
    BY <1>1 DEF At, Inv, TypeOK
  <1>3. OthersIdle(p)'
    BY <1>2 DEF OthersIdle, LoneAhead
  <1>4. proxy[p] \notin {"opened", "locked", "clean", "spawn"}
    BY <1>0, <1>2 DEF Inv, SpawnedOnce, Running, Booting, Leaving
  <1>5. ASSUME proxy[p] \in {"waiting", "started", "connecting"}
        PROVE  OwnDaemon(p)' /\ (sock = p => sock' = p)
    <2>1. OwnDaemon(p)
      BY <1>5 DEF LoneAhead
    <2>2. ~ (GraceExpires(p) \/ RemovesSocket(p) \/ RemoveSocket(p) \/ RemovePid(p))
      <3>1. ~ GraceExpires(p)
        BY <1>5 DEF GraceExpires, Exited
      <3> QED
        BY <2>1, <3>1 DEF OwnDaemon, RemovesSocket, RemoveSocket, RemovePid, At
    <2>3. CASE LooksForSocket(p) \/ Bind(p)
      BY <1>2, <2>1, <2>3 DEF OwnDaemon, LooksForSocket, Bind, At, files, Inv, TypeOK
    <2>4. CASE Listen(p) \/ SetPermissions(p) \/ OpenPidFile(p) \/ WritePid(p)
      BY <1>2, <2>1, <2>4 DEF OwnDaemon, Listen, SetPermissions, OpenPidFile, WritePid, At,
                              files, Inv, TypeOK
    <2> QED
      BY <2>2, <2>3, <2>4
  <1> QED
    BY <1>2, <1>3, <1>4, <1>5 DEF LoneAhead

(* Nobody else does anything that it would notice.                            *)
LEMMA LoneStep == Inv /\ FreshFiles /\ LoneGetsOn /\ [Next]_vars => LoneGetsOn'
  <1> SUFFICES ASSUME Inv, FreshFiles, LoneGetsOn, [Next]_vars PROVE LoneGetsOn'
    OBVIOUS
  <1>1. ASSUME NEW p \in Proxies, Open(p) PROVE LoneGetsOn'
    BY <1>1, LoneOpens
  <1>2. ASSUME NEW q \in Proxies, Crash(q) \/ RecyclePid(q) PROVE LoneGetsOn'
    BY <1>2 DEF Crash, RecyclePid, LoneGetsOn
  <1>3. ASSUME UNCHANGED <<proxy, daemon, text, pidFile, sock, recycled, lone>>
        PROVE  LoneGetsOn'
    BY <1>3 DEF LoneGetsOn, LoneAhead, OthersIdle, OwnDaemon, CheckDaemonRunning, PidAlive
  <1>4. ASSUME NEW q \in Proxies, Register(q) \/ Deregister(q) PROVE LoneGetsOn'
    BY <1>3, <1>4 DEF Register, Deregister, files
  <1>5. ASSUME NEW q \in Proxies, ProxyStep(q) \/ Ends(q) PROVE LoneGetsOn'
    <2>1. UNCHANGED lone
      BY <1>5 DEF ProxyStep, Lock, Check, RemoveStaleSocket, Spawn, SeesSocket, TimesOut, Unlock,
                  Connect, Refused, Ends
    <2>2. SUFFICES ASSUME NEW p \in lone PROVE LoneAhead(p)'
      BY <2>1 DEF LoneGetsOn
    <2>3. p \in Proxies /\ LoneAhead(p)
      BY DEF LoneGetsOn, Inv, TypeOK
    <2>4. proxy[q] \notin Exited \cup {"new"}
      BY <1>5 DEF ProxyStep, Lock, Check, RemoveStaleSocket, Spawn, SeesSocket, TimesOut, Unlock,
                  Connect, Refused, Ends, Exited
    <2>5. q = p
      BY <2>3, <2>4 DEF LoneAhead, OthersIdle
    <2> QED
      BY <1>5, <2>3, <2>5, LoneProxySteps
  <1>6. ASSUME NEW d \in Proxies,
               \/ LooksForSocket(d) \/ RemovesSocket(d) \/ Bind(d) \/ Listen(d)
               \/ SetPermissions(d) \/ OpenPidFile(d) \/ WritePid(d) \/ GraceExpires(d)
               \/ RemoveSocket(d) \/ RemovePid(d)
        PROVE  LoneGetsOn'
    <2>1. daemon[d] \in Running /\ UNCHANGED lone
      BY <1>6 DEF LooksForSocket, RemovesSocket, Bind, Listen, SetPermissions, OpenPidFile,
                  WritePid, GraceExpires, RemoveSocket, RemovePid, At, Running, Booting, Leaving
    <2>2. SUFFICES ASSUME NEW p \in lone PROVE LoneAhead(p)'
      BY <2>1 DEF LoneGetsOn
    <2>3. p \in Proxies /\ LoneAhead(p)
      BY DEF LoneGetsOn, Inv, TypeOK
    <2>4. d = p
      BY <2>1, <2>3 DEF LoneAhead, OthersIdle
    <2> QED
      BY <1>6, <2>3, <2>4, LoneDaemonSteps
  <1>7. CASE UNCHANGED vars
    BY <1>3, <1>7 DEF vars, files
  <1> QED
    BY <1>1, <1>2, <1>4, <1>5, <1>6, <1>7 DEF Next, DaemonStep

(* Whatever dead daemons and killed proxies left behind: a proxy that starts     *)
(* when nothing else runs (run, from its open to its connect) is turned away    *)
(* only by its own daemon between bind and listen.                             *)
THEOREM LoneProxyServed == Spec => LoneProxyMeetsItsDaemon
  <1>1. Init => LoneGetsOn
    BY DEF Init, LoneGetsOn
  <1>2. ASSUME Inv, LoneGetsOn, NEW p \in lone, Refused(p)
        PROVE  sock = p /\ daemon[p] = "bound"
    <2>1. /\ p \in Proxies /\ LoneAhead(p)
          /\ proxy[p] = "connecting" /\ sock \notin Listening
      BY <1>2 DEF LoneGetsOn, Refused, Inv, TypeOK
    <2>2. sock = p /\ OwnDaemon(p) /\ p # None
      BY <2>1, StartupAssumption DEF LoneAhead
    <2> QED
      BY <2>1, <2>2 DEF OwnDaemon, Listening
  <1>3. Inv /\ LoneGetsOn /\ [Next]_vars
          => [\A p \in lone : Refused(p) => sock = p /\ daemon[p] = "bound"]_vars
    BY <1>2
  <1> QED
    BY <1>1, <1>3, FreshInit, FreshStep, LoneStep, LockInvariant, PTL DEF Spec, LoneProxyMeetsItsDaemon
===============================================================================
