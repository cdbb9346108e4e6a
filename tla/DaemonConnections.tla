--------------------------- MODULE DaemonConnections ---------------------------
(***************************************************************************)
(* The daemon's connections and the requests it answers on them, from the   *)
(* client's end of the ssh channel to ServerModel:                          *)
(*                                                                          *)
(*   client --stdin--> proxy thread t1 --socket--> reader task --> ServerModel *)
(*   client <-stdout-- proxy thread t2 <--socket-- writer loop <-- conn_rx     *)
(*                                                                          *)
(* ServerModel's closures run one at a time on the main thread, each is one *)
(* action.  Reader, writer, the proxy's two threads and the futures of      *)
(* requests run beside it.  A read from the socket and the closure the      *)
(* reader then awaits are one action: nothing else of the connection        *)
(* happens in between.  A frame that does not decode leaves the reader      *)
(* where it was and is left out.  Pushes are the subject of RemoteFileTree. *)
(***************************************************************************)
EXTENDS Naturals, Sequences, FiniteSets

CONSTANTS
    Conns,      \* connection ids; every accepted connection has a new one
    Requests,   \* request ids; every request has a new one
    None

ASSUME ConnectionsAssumption == None \notin Conns

VARIABLES
    client,     \* the client's end: unused, open, closed
    t1, t2,     \* the proxy's threads: unused, running, ended
    sock,       \* the proxy's socket: unused, open, shut
    inbox,      \* frames from the client that the reader has not read,
    stdin,      \* and how many of the last of them are on the way to t1's read
    delivered,  \* ids of the responses that came out of the proxy's stdout
    reader,     \* the reader task: unused, reading, done
    writer,     \* the connection's task: unused, accepted, draining, leaving, done
    chan,       \* conn_rx: ids of the responses to be written
    senders,    \* ServerModel.connection_senders
    inProgress, \* ServerModel.in_progress
    fileOps,    \* ServerModel.pending_file_ops, one per request
    asked,      \* how far the client is with a request: new, sent, aborted
    origin,     \* the connection a request came from
    kind,       \* how it is answered: unread, sync, spawned, file
    work,       \* its future: none, running, aborting, aborted, resolved, over
    timer,      \* is the grace timer running?
    expired,    \* has it run out, its closure still to run?
    up          \* does the daemon run?

bridgeVars  == <<client, t1, t2, sock, stdin, asked, origin>>
taskVars    == <<reader, writer, delivered>>
requestVars == <<inProgress, fileOps, kind, work>>
graceVars   == <<timer, expired>>
vars == <<bridgeVars, taskVars, requestVars, graceVars, inbox, chan, senders, up>>

Init ==
    /\ client = [c \in Conns |-> "unused"]
    /\ t1 = [c \in Conns |-> "unused"]
    /\ t2 = [c \in Conns |-> "unused"]
    /\ sock = [c \in Conns |-> "unused"]
    /\ inbox = [c \in Conns |-> <<>>]
    /\ stdin = [c \in Conns |-> 0]
    /\ delivered = [c \in Conns |-> <<>>]
    /\ reader = [c \in Conns |-> "unused"]
    /\ writer = [c \in Conns |-> "unused"]
    /\ chan = [c \in Conns |-> <<>>]
    /\ senders = {}
    /\ inProgress = {}
    /\ fileOps = {}
    /\ asked = [r \in Requests |-> "new"]
    /\ origin = [r \in Requests |-> None]
    /\ kind = [r \in Requests |-> "unread"]
    /\ work = [r \in Requests |-> "none"]
    /\ timer = TRUE
    /\ expired = FALSE
    /\ up = TRUE

----------------------------------------------------------------------------
(* The client, and the ssh process that carries its frames.                   *)
Connect(c) ==
    /\ up
    /\ client[c] = "unused"
    /\ client' = [client EXCEPT ![c] = "open"]
    /\ t1' = [t1 EXCEPT ![c] = "running"]
    /\ t2' = [t2 EXCEPT ![c] = "running"]
    /\ sock' = [sock EXCEPT ![c] = "open"]
    /\ writer' = [writer EXCEPT ![c] = "accepted"]
    /\ UNCHANGED <<stdin, asked, origin, reader, delivered, requestVars, graceVars, inbox,
                   chan, senders, up>>

Send(r, c) ==
    /\ client[c] = "open"
    /\ asked[r] = "new"
    /\ asked' = [asked EXCEPT ![r] = "sent"]
    /\ origin' = [origin EXCEPT ![r] = c]
    /\ inbox' = [inbox EXCEPT ![c] = Append(@, <<"request", r>>)]
    /\ stdin' = [stdin EXCEPT ![c] = @ + 1]
    /\ UNCHANGED <<client, t1, t2, sock, taskVars, requestVars, graceVars, chan, senders, up>>

(* send_abort, after the call's timeout.                                      *)
SendAbort(r) ==
    /\ asked[r] = "sent"
    /\ client[origin[r]] = "open"
    /\ asked' = [asked EXCEPT ![r] = "aborted"]
    /\ inbox' = [inbox EXCEPT ![origin[r]] = Append(@, <<"abort", r>>)]
    /\ stdin' = [stdin EXCEPT ![origin[r]] = @ + 1]
    /\ UNCHANGED <<client, t1, t2, sock, origin, taskVars, requestVars, graceVars, chan,
                   senders, up>>

ClientCloses(c) ==
    /\ client[c] = "open"
    /\ client' = [client EXCEPT ![c] = "closed"]
    /\ UNCHANGED <<t1, t2, sock, stdin, asked, origin, taskVars, requestVars, graceVars, inbox,
                   chan, senders, up>>

(* stdout is closed by the end of the proxy, not by that of a thread.         *)
ClientSeesEof(c) ==
    /\ t1[c] = "ended" /\ t2[c] = "ended"
    /\ ClientCloses(c)

----------------------------------------------------------------------------
(* The proxy's bridge.  Both threads shut the whole socket when they end; t1  *)
(* waits for stdin, and finds out about the socket when it writes.  What it has *)
(* written stays in the socket until the reader takes it; what ssh had under   *)
(* way when the client closed may never come.                                 *)
DaemonClosed(c) == ~ up \/ (reader[c] = "done" /\ writer[c] = "done")

StdinCopies(c) ==
    /\ t1[c] = "running"
    /\ stdin[c] > 0
    /\ sock[c] = "open" /\ ~ DaemonClosed(c)
    /\ stdin' = [stdin EXCEPT ![c] = @ - 1]
    /\ UNCHANGED <<client, t1, t2, sock, asked, origin, taskVars, requestVars, graceVars, inbox,
                   chan, senders, up>>

CopyEnds_StdinOnly(c) == client[c] = "closed"
CopyEnds(c) ==
    \/ client[c] = "closed"
    \/ stdin[c] > 0 /\ (sock[c] = "shut" \/ DaemonClosed(c))

SockAfterBridge_LeftOpen(c) == sock
SockAfterBridge(c) == [sock EXCEPT ![c] = "shut"]

StdinEnds(c) ==
    /\ t1[c] = "running"
    /\ CopyEnds(c)
    /\ t1' = [t1 EXCEPT ![c] = "ended"]
    /\ sock' = SockAfterBridge(c)
    /\ UNCHANGED <<client, t2, stdin, asked, origin, taskVars, requestVars, graceVars, inbox,
                   chan, senders, up>>

StdoutEnds(c) ==
    /\ t2[c] = "running"
    /\ sock[c] = "shut" \/ DaemonClosed(c)
    /\ t2' = [t2 EXCEPT ![c] = "ended"]
    /\ sock' = SockAfterBridge(c)
    /\ UNCHANGED <<client, t1, stdin, asked, origin, taskVars, requestVars, graceVars, inbox,
                   chan, senders, up>>

----------------------------------------------------------------------------
(* ServerModel: connections and the grace timer.                              *)
Register(c) ==
    /\ up
    /\ writer[c] = "accepted"
    /\ timer' = FALSE
    /\ senders' = senders \cup {c}
    /\ writer' = [writer EXCEPT ![c] = "draining"]
    /\ reader' = [reader EXCEPT ![c] = "reading"]
    /\ UNCHANGED <<bridgeVars, delivered, requestVars, expired, inbox, chan, up>>

(* deregister_connection: the second call for a connection changes nothing.   *)
TimerAfter_Ignored(left) == timer
TimerAfter(left) == timer \/ left = {}

Deregister(c) ==
    \/ /\ c \in senders
       /\ senders' = senders \ {c}
       /\ timer' = TimerAfter(senders \ {c})
    \/ /\ c \notin senders
       /\ UNCHANGED <<senders, timer>>

DeregisterLast_Forgotten(c) == UNCHANGED <<senders, timer>>
DeregisterLast(c) == Deregister(c)

GraceExpires ==
    /\ up
    /\ timer
    /\ timer' = FALSE
    /\ expired' = TRUE
    /\ UNCHANGED <<bridgeVars, taskVars, requestVars, inbox, chan, senders, up>>

(* The end of the daemon's process, and with it of all it had in memory.       *)
Gone ==
    /\ up' = FALSE
    /\ reader' = [c \in Conns |-> "unused"]
    /\ writer' = [c \in Conns |-> "unused"]
    /\ chan' = [c \in Conns |-> <<>>]
    /\ senders' = {}
    /\ inProgress' = {}
    /\ fileOps' = {}
    /\ kind' = [r \in Requests |-> "unread"]
    /\ work' = [r \in Requests |-> "none"]
    /\ timer' = FALSE
    /\ expired' = FALSE
    /\ UNCHANGED <<bridgeVars, delivered, inbox>>

(* The closure of a timer that ran out: abort() came too late for it.         *)
Terminate == up /\ expired /\ Gone

Crash == up /\ Gone

(* send_server_message, to one connection: dropped if it has no sender.       *)
Answer_Everyone(r) ==
    [c \in Conns |-> IF c \in senders THEN Append(chan[c], r) ELSE chan[c]]
Answer(r) ==
    [c \in Conns |-> IF c \in senders /\ c = origin[r] THEN Append(chan[c], r) ELSE chan[c]]

----------------------------------------------------------------------------
(* handle_message.                                                            *)
HandleRequest(c, r) ==
    \/ /\ kind' = [kind EXCEPT ![r] = "sync"]
       /\ work' = [work EXCEPT ![r] = "over"]
       /\ chan' = Answer(r)
       /\ UNCHANGED <<inProgress, fileOps>>
    \/ /\ kind' = [kind EXCEPT ![r] = "spawned"]
       /\ work' = [work EXCEPT ![r] = "running"]
       /\ inProgress' = inProgress \cup {r}
       /\ UNCHANGED <<chan, fileOps>>
    \/ /\ kind' = [kind EXCEPT ![r] = "file"]
       /\ work' = [work EXCEPT ![r] = "running"]
       /\ fileOps' = fileOps \cup {r}
       /\ UNCHANGED <<chan, inProgress>>

(* handle_abort: file operations and finished requests are not found.         *)
Aborts_FilesToo(r) == work[r] = "running"
Aborts(r) == r \in inProgress /\ work[r] = "running"

HandleAbort(r) ==
    /\ inProgress' = inProgress \ {r}
    /\ work' = IF Aborts(r) THEN [work EXCEPT ![r] = "aborting"] ELSE work
    /\ UNCHANGED <<chan, fileOps, kind>>

ReaderHandles(c) ==
    /\ up
    /\ reader[c] = "reading"
    /\ Len(inbox[c]) > stdin[c]
    /\ inbox' = [inbox EXCEPT ![c] = Tail(@)]
    /\ LET m == Head(inbox[c]) IN
          \/ m[1] = "request" /\ HandleRequest(c, m[2])
          \/ m[1] = "abort" /\ HandleAbort(m[2])
    /\ UNCHANGED <<bridgeVars, taskVars, graceVars, senders, up>>

(* What is in the socket can be read after its shutdown; then comes the EOF.  *)
ReaderEnds(c) ==
    /\ up
    /\ reader[c] = "reading"
    /\ Len(inbox[c]) = stdin[c]
    /\ sock[c] = "shut"
    /\ reader' = [reader EXCEPT ![c] = "done"]
    /\ Deregister(c)
    /\ UNCHANGED <<bridgeVars, writer, delivered, requestVars, expired, inbox, chan, up>>

----------------------------------------------------------------------------
(* Futures of requests, and the closures they end in.                         *)
Completes(r) ==
    /\ up
    /\ work[r] \in {"running", "aborting"}
    /\ work' = [work EXCEPT ![r] = "resolved"]
    /\ UNCHANGED <<bridgeVars, taskVars, graceVars, inProgress, fileOps, kind, inbox, chan,
                   senders, up>>

AbortTakesEffect(r) ==
    /\ up
    /\ work[r] = "aborting"
    /\ work' = [work EXCEPT ![r] = "aborted"]
    /\ UNCHANGED <<bridgeVars, taskVars, graceVars, inProgress, fileOps, kind, inbox, chan,
                   senders, up>>

(* on_resolve of spawn_request_handler, and FileModel's event for a file       *)
(* operation that ended well or badly.                                        *)
EntriesLeft_Kept(r) == inProgress
EntriesLeft(r) == inProgress \ {r}
OpsLeft_Kept(r) == fileOps
OpsLeft(r) == fileOps \ {r}

OnResolve(r) ==
    /\ up
    /\ work[r] = "resolved"
    /\ work' = [work EXCEPT ![r] = "over"]
    /\ inProgress' = EntriesLeft(r)
    /\ fileOps' = OpsLeft(r)
    /\ chan' = Answer(r)
    /\ UNCHANGED <<bridgeVars, taskVars, graceVars, kind, inbox, senders, up>>

OnAbort(r) ==
    /\ up
    /\ work[r] = "aborted"
    /\ work' = [work EXCEPT ![r] = "over"]
    /\ inProgress' = EntriesLeft(r)
    /\ UNCHANGED <<bridgeVars, taskVars, graceVars, fileOps, kind, inbox, chan, senders, up>>

----------------------------------------------------------------------------
(* The writer loop.  The task holds a sender of its own channel (conn_tx), so   *)
(* recv() never fails: the loop ends by a failed write or not at all.         *)
WriterWrites(c) ==
    /\ up
    /\ writer[c] = "draining"
    /\ chan[c] # <<>>
    /\ sock[c] = "open"
    /\ chan' = [chan EXCEPT ![c] = Tail(@)]
    /\ delivered' = [delivered EXCEPT ![c] = Append(@, Head(chan[c]))]
    /\ UNCHANGED <<bridgeVars, reader, writer, requestVars, graceVars, inbox, senders, up>>

(* The socket is shut, or the response is larger than a frame may be: the loop *)
(* ends on either.                                                            *)
WriteFails(c) ==
    /\ up
    /\ writer[c] = "draining"
    /\ chan[c] # <<>>
    /\ chan' = [chan EXCEPT ![c] = Tail(@)]
    /\ writer' = [writer EXCEPT ![c] = "leaving"]
    /\ UNCHANGED <<bridgeVars, reader, delivered, requestVars, graceVars, inbox, senders, up>>

WriterLeaves(c) ==
    /\ up
    /\ writer[c] = "leaving"
    /\ writer' = [writer EXCEPT ![c] = "done"]
    /\ DeregisterLast(c)
    /\ UNCHANGED <<bridgeVars, reader, delivered, requestVars, expired, inbox, chan, up>>

----------------------------------------------------------------------------
StdinStep(c) == StdinCopies(c) \/ StdinEnds(c)
ReaderStep(c) == ReaderHandles(c) \/ ReaderEnds(c)
WriterStep(c) == WriterWrites(c) \/ WriteFails(c) \/ WriterLeaves(c)
FutureStep(r) == AbortTakesEffect(r) \/ OnResolve(r) \/ OnAbort(r)

Next ==
    \/ \E c \in Conns :
          \/ Connect(c) \/ ClientCloses(c) \/ ClientSeesEof(c)
          \/ \E r \in Requests : Send(r, c)
          \/ StdinCopies(c) \/ StdinEnds(c) \/ StdoutEnds(c)
          \/ Register(c) \/ ReaderHandles(c) \/ ReaderEnds(c)
          \/ WriterWrites(c) \/ WriteFails(c) \/ WriterLeaves(c)
    \/ \E r \in Requests :
          \/ SendAbort(r) \/ Completes(r) \/ AbortTakesEffect(r) \/ OnResolve(r) \/ OnAbort(r)
    \/ GraceExpires \/ Terminate \/ Crash

Spec == Init /\ [][Next]_vars

(* Tasks, threads and closures run when they can; a file operation ends.  A    *)
(* command need not, nobody has to connect, send or close, and the timer is    *)
(* ten minutes long.                                                          *)
Fairness ==
    /\ \A c \in Conns :
          /\ WF_vars(StdinStep(c)) /\ WF_vars(StdoutEnds(c)) /\ WF_vars(ClientSeesEof(c))
          /\ WF_vars(Register(c)) /\ WF_vars(ReaderStep(c)) /\ WF_vars(WriterStep(c))
    /\ \A r \in Requests :
          /\ WF_vars(FutureStep(r))
          /\ WF_vars(kind[r] = "file" /\ Completes(r))

FairSpec == Spec /\ Fairness

----------------------------------------------------------------------------
(* Types; what t1 has not read the reader has not; only what was read has work, *)
(* and only spawned futures are aborted.                                      *)
TypeOK ==
    /\ client \in [Conns -> {"unused", "open", "closed"}]
    /\ t1 \in [Conns -> {"unused", "running", "ended"}]
    /\ t2 \in [Conns -> {"unused", "running", "ended"}]
    /\ sock \in [Conns -> {"unused", "open", "shut"}]
    /\ inbox \in [Conns -> Seq({"request", "abort"} \X Requests)]
    /\ stdin \in [Conns -> Nat]
    /\ \A c \in Conns : stdin[c] <= Len(inbox[c])
    /\ delivered \in [Conns -> Seq(Requests)]
    /\ reader \in [Conns -> {"unused", "reading", "done"}]
    /\ writer \in [Conns -> {"unused", "accepted", "draining", "leaving", "done"}]
    /\ chan \in [Conns -> Seq(Requests)]
    /\ senders \subseteq Conns
    /\ inProgress \subseteq Requests
    /\ fileOps \subseteq Requests
    /\ asked \in [Requests -> {"new", "sent", "aborted"}]
    /\ origin \in [Requests -> Conns \cup {None}]
    /\ kind \in [Requests -> {"unread", "sync", "spawned", "file"}]
    /\ work \in [Requests -> {"none", "running", "aborting", "aborted", "resolved", "over"}]
    /\ \A r \in Requests :
          /\ kind[r] = "unread" <=> work[r] = "none"
          /\ kind[r] = "sync" => work[r] = "over"
          /\ work[r] \in {"aborting", "aborted"} => kind[r] = "spawned"
    /\ timer \in BOOLEAN
    /\ expired \in BOOLEAN
    /\ up \in BOOLEAN

(* A request is answered on the connection it came from, and at most once,     *)
(* however it ends: at once, by its future, by its file event, or by a future  *)
(* that an abort came too late for.                                           *)
AnsweredOnceToItsAsker ==
    \A c \in Conns :
        LET all == delivered[c] \o chan[c] IN
        /\ \A i \in DOMAIN all : origin[all[i]] = c
        /\ \A i, j \in DOMAIN all : all[i] = all[j] => i = j

(* The maps of ServerModel agree with the tasks.  in_progress has what an      *)
(* Abort can still stop and nothing that is over, pending_file_ops what waits  *)
(* for its event.  connection_senders has no connection that one of its tasks  *)
(* has given up; whoever is read from without a sender lost it to a failed     *)
(* write.                                                                     *)
MapsMatchTasks ==
    /\ {r \in Requests : kind[r] = "spawned" /\ work[r] = "running"} \subseteq inProgress
    /\ inProgress \subseteq
          {r \in Requests : kind[r] = "spawned" /\ work[r] \in {"running", "resolved"}}
    /\ fileOps = {r \in Requests : kind[r] = "file" /\ work[r] \in {"running", "resolved"}}
    /\ \A c \in Conns :
          /\ c \in senders => reader[c] = "reading" /\ writer[c] \in {"draining", "leaving"}
          /\ reader[c] = "reading" /\ c \notin senders => writer[c] = "done"

(* The grace timer runs while nobody is connected and only then, although      *)
(* every connection is deregistered twice.                                    *)
TimedExactlyWhileIdle ==
    /\ timer => senders = {}
    /\ up /\ senders = {} => timer \/ expired

(* "Shutting the Unix socket here makes teardown deterministic and independent *)
(* of whatever the daemon is doing": a client that goes away ends the proxy's  *)
(* threads, and the shut socket reaches the reader, which deregisters.         *)
TeardownGetsThrough ==
    \A c \in Conns :
        client[c] = "closed" ~> t1[c] = "ended" /\ t2[c] = "ended" /\ c \notin senders

(* A request that is done is answered, unless its connection is lost.          *)
AnswersArrive ==
    \A r \in Requests :
        work[r] = "resolved" ~> \/ origin[r] \notin senders
                                \/ \E i \in DOMAIN delivered[origin[r]] : delivered[origin[r]][i] = r

(* The end of a daemon does not end its proxies, which wait for stdin; but the *)
(* next frame a client sends does, and with it all calls that still wait for   *)
(* an answer.  A frame that was in the socket by then does not: its call has   *)
(* only its own timeout.                                                      *)
DeadDaemonIsNoticed ==
    \A c \in Conns : ~ up /\ stdin[c] > 0 /\ client[c] = "open" ~> client[c] = "closed"

(* "When the reader exits (EOF / error) it calls deregister_connection, which  *)
(* drops conn_tx from ServerModel and causes conn_rx to close, naturally       *)
(* terminating the writer loop."                                              *)
WriterEnds ==
    \A c \in Conns : reader[c] = "done" ~> reader[c] # "done" \/ writer[c] = "done"
=============================================================================
