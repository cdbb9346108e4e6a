----------------------------- MODULE DaemonStartup -----------------------------
(***************************************************************************)
(* Who starts the daemon of a host, and who ends it.                        *)
(*                                                                          *)
(* Every SSH session runs one proxy.  A proxy takes an flock on the pid     *)
(* file, asks whether the process named in it is alive, starts a daemon if  *)
(* it is not, waits for the socket to appear, releases the lock and bridges *)
(* the session to the socket.  The daemon binds the socket, writes its pid, *)
(* serves, and exits after a grace period without connections.  All they    *)
(* share is two paths in one directory, so each call that touches a path is *)
(* a step of its own.  Both kinds of process may be killed at any time.     *)
(*                                                                          *)
(* A daemon carries the name of the proxy that spawned it.  The lock        *)
(* belongs to the file a proxy has open, not to its name: an inode is named *)
(* after the process that created it.                                       *)
(***************************************************************************)
EXTENDS FiniteSets

CONSTANTS
    Proxies,
    None

ASSUME StartupAssumption == None \notin Proxies

Inodes == Proxies \X {"proxy", "daemon"}
None2  == <<None, None>>   \* no inode

VARIABLES
    proxy,       \* where each proxy stands, or how it ended
    daemon,      \* where each daemon stands
    fd,          \* the pid file each proxy has open
    out,         \* the pid file each daemon has open for writing
    pidFile,     \* the inode at pid_path
    text,        \* what is written in each inode: a daemon's pid or nothing
    holder,      \* who has the flock of each inode
    sock,        \* whose socket is at socket_path
    conn,        \* the daemon each bridging proxy is connected to
    registered,  \* connections in some ServerModel's connection_senders
    recycled,    \* pids of dead daemons that other processes have now
    lone         \* history: started when nothing else ran; see Open

files     == <<pidFile, text, sock>>
serving   == <<conn, registered>>
vars      == <<proxy, daemon, fd, out, files, holder, serving, recycled, lone>>

Critical == {"locked", "clean", "spawn", "waiting", "started", "reuse"}
Exited   == {"timeout", "refused", "ended"}
Booting  == {"booting", "removing", "binding", "bound", "listening", "ready", "truncated"}
Leaving  == {"ending", "unlinking"}
Running  == Booting \cup Leaving \cup {"serving"}
Listening == {d \in Proxies : daemon[d] \in {"listening", "ready", "truncated", "serving"} \cup Leaving}

(* kill(pid, 0): the daemon runs, or is a zombie whose parent never waited    *)
(* for it, or its pid has been given to someone else.                         *)
PidAlive(d) ==
    \/ daemon[d] \in Running
    \/ daemon[d] # "none" /\ proxy[d] \notin Exited
    \/ d \in recycled

CheckDaemonRunning ==
    /\ pidFile # None2
    /\ text[pidFile] # None
    /\ PidAlive(text[pidFile])

----------------------------------------------------------------------------
(* The proxy: run, statement by statement.                                    *)
Open(p) ==
    /\ proxy[p] = "new"
    /\ proxy' = [proxy EXCEPT ![p] = "opened"]
    /\ pidFile' = IF pidFile = None2 THEN <<p, "proxy">> ELSE pidFile
    /\ fd' = [fd EXCEPT ![p] = pidFile']
    /\ lone' = IF /\ \A q \in Proxies : proxy[q] \in Exited \cup {"new"}
                  /\ \A d \in Proxies : daemon[d] \notin Running
                  /\ ~ CheckDaemonRunning
               THEN {p} ELSE {}
    /\ UNCHANGED <<daemon, out, text, sock, holder, serving, recycled>>

MayLock_Ignored(p) == TRUE
MayLock(p) == holder[fd[p]] = None

Lock(p) ==
    /\ proxy[p] = "opened"
    /\ MayLock(p)
    /\ proxy' = [proxy EXCEPT ![p] = "locked"]
    /\ holder' = [holder EXCEPT ![fd[p]] = p]
    /\ UNCHANGED <<daemon, fd, out, files, serving, recycled, lone>>

Check(p) ==
    /\ proxy[p] = "locked"
    /\ proxy' = [proxy EXCEPT ![p] = IF CheckDaemonRunning THEN "reuse" ELSE "clean"]
    /\ UNCHANGED <<daemon, fd, out, files, holder, serving, recycled, lone>>

StaleSocketGone_Kept == sock
StaleSocketGone == None

RemoveStaleSocket(p) ==
    /\ proxy[p] = "clean"
    /\ proxy' = [proxy EXCEPT ![p] = "spawn"]
    /\ sock' = StaleSocketGone
    /\ UNCHANGED <<daemon, fd, out, pidFile, text, holder, serving, recycled, lone>>

Spawn(p) ==
    /\ proxy[p] = "spawn"
    /\ proxy' = [proxy EXCEPT ![p] = "waiting"]
    /\ daemon' = [daemon EXCEPT ![p] = "booting"]
    /\ UNCHANGED <<fd, out, files, holder, serving, recycled, lone>>

SeesSocket(p) ==
    /\ proxy[p] = "waiting"
    /\ sock # None
    /\ proxy' = [proxy EXCEPT ![p] = "started"]
    /\ UNCHANGED <<daemon, fd, out, files, holder, serving, recycled, lone>>

(* The end of a proxy, by an error or by a signal, closes what it has open.   *)
Released_Forgotten(p) == holder
Released(p) == [i \in Inodes |-> IF holder[i] = p THEN None ELSE holder[i]]

TimesOut(p) ==
    /\ proxy[p] = "waiting"
    /\ sock = None
    /\ proxy' = [proxy EXCEPT ![p] = "timeout"]
    /\ fd' = [fd EXCEPT ![p] = None2]
    /\ holder' = Released(p)
    /\ UNCHANGED <<daemon, out, files, serving, recycled, lone>>

Unlock(p) ==
    /\ proxy[p] \in {"reuse", "started"}
    /\ proxy' = [proxy EXCEPT ![p] = "connecting"]
    /\ fd' = [fd EXCEPT ![p] = None2]
    /\ holder' = Released(p)
    /\ UNCHANGED <<daemon, out, files, serving, recycled, lone>>

Connect(p) ==
    /\ proxy[p] = "connecting"
    /\ sock \in Listening
    /\ proxy' = [proxy EXCEPT ![p] = "bridged"]
    /\ conn' = [conn EXCEPT ![p] = sock]
    /\ UNCHANGED <<daemon, fd, out, files, holder, registered, recycled, lone>>

Refused(p) ==
    /\ proxy[p] = "connecting"
    /\ sock \notin Listening
    /\ proxy' = [proxy EXCEPT ![p] = "refused"]
    /\ UNCHANGED <<daemon, fd, out, files, holder, serving, recycled, lone>>

(* The session closes the bridge, or sshd kills the proxy wherever it is.     *)
Ends(p) ==
    /\ proxy[p] \notin Exited \cup {"new"}
    /\ proxy' = [proxy EXCEPT ![p] = "ended"]
    /\ fd' = [fd EXCEPT ![p] = None2]
    /\ holder' = Released(p)
    /\ UNCHANGED <<daemon, out, files, serving, recycled, lone>>

----------------------------------------------------------------------------
(* The daemon: run_daemon, statement by statement.                            *)
At(d, from, to) ==
    /\ daemon[d] = from
    /\ daemon' = [daemon EXCEPT ![d] = to]
    /\ UNCHANGED <<proxy, fd, holder, serving, recycled, lone>>

LooksForSocket(d) ==
    /\ At(d, "booting", IF sock # None THEN "removing" ELSE "binding")
    /\ UNCHANGED <<out, files>>

RemovesSocket(d) ==
    /\ At(d, "removing", IF sock # None THEN "binding" ELSE "dead")
    /\ sock' = None
    /\ UNCHANGED <<out, pidFile, text>>

Bind(d) ==
    /\ At(d, "binding", IF sock = None THEN "bound" ELSE "dead")
    /\ sock' = IF sock = None THEN d ELSE sock
    /\ UNCHANGED <<out, pidFile, text>>

Listen(d) ==
    /\ At(d, "bound", "listening")
    /\ UNCHANGED <<out, files>>

SetPermissions(d) ==
    /\ At(d, "listening", IF sock # None THEN "ready" ELSE "dead")
    /\ UNCHANGED <<out, files>>

OpenPidFile(d) ==
    /\ At(d, "ready", "truncated")
    /\ pidFile' = IF pidFile = None2 THEN <<d, "daemon">> ELSE pidFile
    /\ out' = [out EXCEPT ![d] = pidFile']
    /\ text' = [text EXCEPT ![pidFile'] = None]
    /\ UNCHANGED sock

WritePid(d) ==
    /\ At(d, "truncated", "serving")
    /\ text' = [text EXCEPT ![out[d]] = d]
    /\ UNCHANGED <<out, pidFile, sock>>

Register(p) ==
    /\ conn[p] # None
    /\ daemon[conn[p]] = "serving"
    /\ p \notin registered
    /\ registered' = registered \cup {p}
    /\ UNCHANGED <<proxy, daemon, fd, out, files, holder, conn, recycled, lone>>

Deregister(p) ==
    /\ proxy[p] \in Exited
    /\ p \in registered
    /\ registered' = registered \ {p}
    /\ conn' = [conn EXCEPT ![p] = None]
    /\ UNCHANGED <<proxy, daemon, fd, out, files, holder, recycled, lone>>

NoConnections_OffByOne(d) == Cardinality({p \in registered : conn[p] = d}) = 1
NoConnections(d) == \A p \in registered : conn[p] # d

(* Ten minutes: the proxy that spawned the daemon is through with its start.  *)
(* (DaemonConnections tells the end of the timer from the closure that ends     *)
(* the daemon.)                                                               *)
GraceExpires(d) ==
    /\ At(d, "serving", "ending")
    /\ NoConnections(d)
    /\ proxy[d] \in Exited \cup {"bridged"}
    /\ proxy[d] = "bridged" => conn[d] # d
    /\ UNCHANGED <<out, files>>

RemoveSocket(d) ==
    /\ At(d, "ending", "unlinking")
    /\ sock' = None
    /\ UNCHANGED <<out, pidFile, text>>

RemovePid(d) ==
    /\ At(d, "unlinking", "exited")
    /\ pidFile' = None2
    /\ UNCHANGED <<out, text, sock>>

(* External: a crash, and another process that is given a dead daemon's pid.  *)
Crash(d) ==
    /\ daemon[d] \in Running
    /\ daemon' = [daemon EXCEPT ![d] = "dead"]
    /\ lone' = {}
    /\ UNCHANGED <<proxy, fd, out, files, holder, serving, recycled>>

RecyclePid(d) ==
    /\ daemon[d] \in {"dead", "exited"}
    /\ proxy[d] \in Exited
    /\ d \notin recycled
    /\ recycled' = recycled \cup {d}
    /\ lone' = {}
    /\ UNCHANGED <<proxy, daemon, fd, out, files, holder, serving>>

----------------------------------------------------------------------------
Init ==
    /\ proxy = [p \in Proxies |-> "new"]
    /\ daemon = [d \in Proxies |-> "none"]
    /\ fd = [p \in Proxies |-> None2]
    /\ out = [d \in Proxies |-> None2]
    /\ pidFile = None2
    /\ text = [i \in Inodes |-> None]
    /\ holder = [i \in Inodes |-> None]
    /\ sock = None
    /\ conn = [p \in Proxies |-> None]
    /\ registered = {}
    /\ recycled = {}
    /\ lone = {}

ProxyStep(p) ==
    \/ Lock(p) \/ Check(p) \/ RemoveStaleSocket(p) \/ Spawn(p) \/ SeesSocket(p)
    \/ TimesOut(p) \/ Unlock(p) \/ Connect(p) \/ Refused(p)

DaemonStep(d) ==
    \/ LooksForSocket(d) \/ RemovesSocket(d) \/ Bind(d) \/ Listen(d)
    \/ SetPermissions(d) \/ OpenPidFile(d) \/ WritePid(d)
    \/ Register(d) \/ Deregister(d)
    \/ GraceExpires(d) \/ RemoveSocket(d) \/ RemovePid(d)

Next ==
    \E p \in Proxies :
        \/ Open(p) \/ ProxyStep(p) \/ Ends(p)
        \/ DaemonStep(p) \/ Crash(p) \/ RecyclePid(p)

Spec == Init /\ [][Next]_vars

(* The operating system runs every process; nobody has to start or to kill one.*)
FairSpec ==
    /\ Spec
    /\ \A p \in Proxies : WF_vars(ProxyStep(p)) /\ WF_vars(DaemonStep(p))

----------------------------------------------------------------------------
(* Types; a pid file is open exactly while its proxy is in run, and a lock is *)
(* held only through an open file.                                            *)
TypeOK ==
    /\ proxy \in [Proxies -> {"new", "opened", "connecting", "bridged"} \cup Critical \cup Exited]
    /\ daemon \in [Proxies -> {"none", "dead", "exited"} \cup Running]
    /\ fd \in [Proxies -> Inodes \cup {None2}]
    /\ out \in [Proxies -> Inodes \cup {None2}]
    /\ pidFile \in Inodes \cup {None2}
    /\ text \in [Inodes -> Proxies \cup {None}]
    /\ holder \in [Inodes -> Proxies \cup {None}]
    /\ sock \in Proxies \cup {None}
    /\ conn \in [Proxies -> Proxies \cup {None}]
    /\ registered \subseteq Proxies /\ recycled \subseteq Proxies /\ lone \subseteq Proxies
    /\ \A p \in Proxies : fd[p] # None2 <=> proxy[p] \in Critical \cup {"opened"}
    /\ \A i \in Inodes : holder[i] # None => fd[holder[i]] = i

(* Two proxies are between their flock and its release only if a daemon on    *)
(* its way out has unlinked the file the first one locked.                    *)
TwoStartersNeedAnUnlink ==
    \A p, q \in Proxies :
        p # q /\ proxy[p] \in Critical /\ proxy[q] \in Critical
            => \E d \in Proxies : daemon[d] = "exited"

(* Whatever files dead daemons and killed proxies left, in whatever order     *)
(* they left them, a proxy that starts when nothing else runs is turned away, *)
(* unless its daemon is killed or another process interferes, only by a       *)
(* daemon of its own that is between bind and listen.                          *)
LoneProxyMeetsItsDaemon ==
    [][\A p \in lone : Refused(p) => sock = p /\ daemon[p] = "bound"]_vars

(* What the comment in run promises: as long as no proxy is cut short, the    *)
(* lock keeps a second one from starting a second daemon.                      *)
OneDaemon ==
    \A d, e \in Proxies :
        /\ {daemon[d], daemon[e]} \subseteq Running \ Leaving
        /\ \A p \in Proxies : proxy[p] \notin Exited
        => d = e

(* No proxy waits for its turn for good: whoever has the lock gives up after  *)
(* its timeout, and a lock ends with its process.                             *)
EveryProxyDecides ==
    \A p \in Proxies : proxy[p] = "opened" ~> proxy[p] \in {"bridged"} \cup Exited

(* A daemon whose last session is gone ends by itself, also when its socket   *)
(* or its pid file has been taken over by another daemon.                     *)
IdleDaemonsEnd ==
    \A d \in Proxies :
        daemon[d] = "serving" /\ (\A p \in Proxies : proxy[p] \in Exited) ~> daemon[d] \notin Running
===============================================================================
