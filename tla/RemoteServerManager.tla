------------------------ MODULE RemoteServerManager ------------------------
(***************************************************************************)
(* The client-side RemoteServerManager: one connection to a remote-server   *)
(* process per SSH session, a reverse index from host to sessions, and the  *)
(* reconnect loop that runs after a spontaneous drop.                       *)
(*                                                                          *)
(* The maps of the manager are touched on the main thread only, so every    *)
(* closure that runs there is one action.  What makes the component hard is *)
(* everything that runs elsewhere and comes back later: the background task *)
(* of each connection attempt (transport.connect, the initialize handshake, *)
(* the reconnect delay) and, for every client ever created, the completion  *)
(* callback of its event stream, which names a session and not the client   *)
(* it belonged to.  An element of Conns stands for one run of               *)
(* run_connect_and_handshake together with the client it creates.           *)
(***************************************************************************)
EXTENDS Naturals, FiniteSets

CONSTANTS
    Sessions,              \* SessionId values
    Hosts,                 \* HostId values: one per daemon process
    Paths,                 \* working directories the user may move to
    Conns,                 \* identities of connection attempts (recycled)
    MaxReconnectAttempts,  \* MAX_RECONNECT_ATTEMPTS
    None                   \* the absent value of an Option

ASSUME NoneAssumption == None \notin Sessions \cup Hosts \cup Paths \cup Conns
ASSUME MaxReconnectAssumption == MaxReconnectAttempts \in Nat \ {0}

VARIABLES
    sessions,        \* SessionId -> RemoteSessionState
    hostToSessions,  \* host -> sessions reverse index (absent entry = {})
    conns,           \* the background task and the event stream of an attempt
    lastNav,         \* last_navigated_path
    bootstrapInfo,   \* sessions with an entry in session_bootstrap_info
    life,            \* which of connect_session / deregister_session was called
    told,            \* sessions whose current client was sent SessionBootstrapped
    asked,           \* paths requested on the session's current client
    events,          \* the events emitted by the last step
    remoteRepos      \* hosts that own an entry in RemoteRepoMetadataModel

vars == <<sessions, hostToSessions, conns, lastNav, bootstrapInfo, life,
          told, asked, events, remoteRepos>>

----------------------------------------------------------------------------
(* RemoteSessionState; a session absent from the map is Untracked.          *)

Untracked          == [tag |-> "untracked"]
Connecting         == [tag |-> "connecting"]
Initializing(c)    == [tag |-> "initializing", client |-> c]
Connected(c, h)    == [tag |-> "connected", client |-> c, host |-> h]
Reconnecting(n, h) == [tag |-> "reconnecting", attempt |-> n, host |-> h]
Disconnected       == [tag |-> "disconnected"]

SessionStates ==
    {Untracked, Connecting, Disconnected}
        \cup {Initializing(c) : c \in Conns}
        \cup {Connected(c, h) : c \in Conns, h \in Hosts}
        \cup {Reconnecting(n, h) : n \in 1..MaxReconnectAttempts, h \in Hosts}

IsConnected(s) == sessions[s].tag = "connected"

(* sessions.contains_key(&session_id)                                       *)
Tracked_Assumed(s) == TRUE
Tracked(s) == sessions[s] # Untracked

(* The entry of s owns the Child of attempt c; dropping the entry kills it. *)
Owns_OutlivesEntry(s, c) == conns[c].session = s
Owns(s, c) == /\ sessions[s].tag \in {"initializing", "connected"}
              /\ sessions[s].client = c

----------------------------------------------------------------------------
(* A connection attempt.  pc is the control point of its background task:    *)
(* "delay" (the timer before a reconnect), "connect" (transport.connect),    *)
(* "handshake" (initialize in flight), "ok" / "failed" (finished, its        *)
(* closure queued for the main thread), "free".  attempt = 0 is the task of  *)
(* connect_session.  stream is the client's event stream: "open", "eof"      *)
(* (reader task gone, completion callback queued) or "none".                 *)

FreeConn == [pc |-> "free", session |-> None, attempt |-> 0, host |-> None,
             stream |-> "none"]

NewTask(pc, s, n, h) ==
    [pc |-> pc, session |-> s, attempt |-> n, host |-> h, stream |-> "none"]

(* The task returned; the attempt is recycled once its stream is drained too. *)
Ended(r) == IF r.stream = "none"
            THEN FreeConn
            ELSE [r EXCEPT !.pc = "free", !.attempt = 0, !.host = None]

(* The stream was drained; the attempt is recycled once its task returned.    *)
Drained(r) == IF r.pc = "free" THEN FreeConn ELSE [r EXCEPT !.stream = "none"]

TaskRunning(c) == conns[c].pc # "free"

EndTask(c) == [conns EXCEPT ![c] = Ended(@)]

----------------------------------------------------------------------------
(* Events.  RemoteRepoMetadataModel is the subscriber that keeps state: it    *)
(* inserts on RepoMetadataSnapshot and clears a host on HostDisconnected.     *)

Event(type, about) == [type |-> type, about |-> about]

EventTypes == {"SessionConnecting", "SessionConnected", "SessionConnectionFailed",
               "SessionDisconnected", "SessionReconnected", "SessionDeregistered",
               "HostConnected", "HostDisconnected", "RepoMetadataSnapshot"}

Emit(E) ==
    /\ events' = E
    /\ remoteRepos' =
          {h \in Hosts : /\ Event("HostDisconnected", h) \notin E
                         /\ \/ h \in remoteRepos
                            \/ Event("RepoMetadataSnapshot", h) \in E}

(* The last session of the host left: HostDisconnected.                     *)
HostGone_TestedTooEarly(h, index) ==
    IF hostToSessions[h] = {} THEN {Event("HostDisconnected", h)} ELSE {}
HostGone(h, index) == IF index[h] = {} THEN {Event("HostDisconnected", h)} ELSE {}

RemoveFromHostIndex_Forgotten(h, s) == hostToSessions
RemoveFromHostIndex(h, s) == [hostToSessions EXCEPT ![h] = @ \ {s}]

----------------------------------------------------------------------------
(* The mutated forms of a definition stand before it under its name and a     *)
(* suffix; nothing uses them but the project's mutation runs.                  *)

(* A dropped connection is retried only if the session was Connected.         *)
ReconnectsFrom_AnyHostState(s) == sessions[s].tag \in {"connected", "reconnecting"}
ReconnectsFrom(s) == IsConnected(s)

(* attempt < MAX_RECONNECT_ATTEMPTS                                           *)
MayRetry_OffByOne(n) == n <= MaxReconnectAttempts
MayRetry(n) == n < MaxReconnectAttempts

(* last_navigated_path.remove                                                 *)
ForgetPath_Kept(s) == lastNav
ForgetPath(s) == [lastNav EXCEPT ![s] = None]

(* The SessionBootstrapped notification (re-)sent on every connect.           *)
ShellResent_FirstConnectOnly(s) == told
ShellResent(s) == IF s \in bootstrapInfo THEN told \cup {s} ELSE told

(* After the delay the task goes on only if the session is still tracked.     *)
AfterDelay_Inverted(c) ==
    IF Tracked(conns[c].session) THEN EndTask(c)
                                 ELSE [conns EXCEPT ![c].pc = "connect"]
AfterDelay(c) ==
    IF Tracked(conns[c].session) THEN [conns EXCEPT ![c].pc = "connect"]
                                 ELSE EndTask(c)

(* The shared bodies.  cs is conns as the calling closure leaves it, E the     *)
(* events the closure emits besides those of the body.                        *)

AttemptReconnect(s, n, h, cs) ==
    /\ sessions' = [sessions EXCEPT ![s] = Reconnecting(n, h)]
    /\ \E c \in {d \in Conns : cs[d] = FreeConn} :
          conns' = [cs EXCEPT ![c] = NewTask("delay", s, n, h)]

MarkSessionDisconnected(s, cs, E) ==
    \/ /\ ~ Tracked(s)
       /\ conns' = cs
       /\ Emit(E)
       /\ UNCHANGED <<sessions, hostToSessions, lastNav>>
    \/ /\ ReconnectsFrom(s)
       /\ LET h     == sessions[s].host
              index == RemoveFromHostIndex(h, s)
          IN  /\ hostToSessions' = index
              /\ Emit(E \cup HostGone(h, index))
              /\ AttemptReconnect(s, 1, h, cs)
       /\ lastNav' = ForgetPath(s)
    \/ /\ Tracked(s) /\ ~ ReconnectsFrom(s)
       /\ sessions' = [sessions EXCEPT ![s] = Disconnected]
       /\ conns' = cs
       /\ Emit(E)
       /\ UNCHANGED <<hostToSessions, lastNav>>

(* The entry is taken out of the map before its state is looked at.           *)
MarkSessionConnected(s, h, E) ==
    \/ /\ sessions[s].tag = "initializing"
       /\ sessions' = [sessions EXCEPT ![s] = Connected(@.client, h)]
       /\ hostToSessions' = [hostToSessions EXCEPT ![h] = @ \cup {s}]
       /\ Emit({Event("SessionConnected", s)} \cup E \cup
               (IF hostToSessions[h] = {} THEN {Event("HostConnected", h)} ELSE {}))
       /\ told' = ShellResent(s)
    \/ /\ sessions[s].tag # "initializing"
       /\ sessions' = [sessions EXCEPT ![s] = Untracked]
       /\ Emit({})
       /\ UNCHANGED <<hostToSessions, told>>

----------------------------------------------------------------------------
(* The calls of the rest of the application, on the main thread.              *)

(* connect_session looks at nothing: an entry the session has is replaced.     *)
StartConnection(s) ==
    /\ sessions' = [sessions EXCEPT ![s] = Connecting]
    /\ \E c \in {d \in Conns : conns[d] = FreeConn} :
          conns' = [conns EXCEPT ![c] = NewTask("connect", s, 0, None)]
    /\ Emit({Event("SessionConnecting", s)})
    /\ UNCHANGED <<hostToSessions, lastNav, bootstrapInfo, told, asked>>

(* A caller in good order connects a session at most once, and before its      *)
(* ExitShell: the hook that leads to deregister_session is installed by the   *)
(* bootstrap script, which the RemoteServerController holds back until the     *)
(* attempt is over.  How far it succeeds is the subject of that module.        *)
ConnectSession(s) ==
    /\ life[s] = "new"
    /\ life' = [life EXCEPT ![s] = "requested"]
    /\ StartConnection(s)

DeregisterSession(s) ==
    /\ life[s] # "closed"
    /\ life' = [life EXCEPT ![s] = "closed"]
    /\ sessions' = [sessions EXCEPT ![s] = Untracked]
    /\ lastNav' = ForgetPath(s)
    /\ bootstrapInfo' = bootstrapInfo \ {s}
    /\ \/ /\ sessions[s].tag \in {"connected", "reconnecting"}
          /\ LET h     == sessions[s].host
                 index == RemoveFromHostIndex(h, s)
             IN  /\ hostToSessions' = index
                 /\ Emit({Event("SessionDisconnected", s),
                          Event("SessionDeregistered", s)} \cup HostGone(h, index))
       \/ /\ sessions[s].tag \notin {"connected", "reconnecting"}
          /\ Emit({Event("SessionDeregistered", s)})
          /\ UNCHANGED hostToSessions
    /\ UNCHANGED <<conns, told, asked>>

NavigateToDirectory(s, p) ==
    /\ lastNav[s] # p
    /\ IsConnected(s)
    /\ lastNav' = [lastNav EXCEPT ![s] = p]
    /\ asked' = [asked EXCEPT ![s] = @ \cup {p}]
    /\ Emit({})
    /\ UNCHANGED <<sessions, hostToSessions, conns, bootstrapInfo, life, told>>

NotifySessionBootstrapped(s) ==
    /\ life[s] # "closed"
    /\ bootstrapInfo' = bootstrapInfo \cup {s}
    /\ told' = IF IsConnected(s) THEN told \cup {s} ELSE told
    /\ Emit({})
    /\ UNCHANGED <<sessions, hostToSessions, conns, lastNav, life, asked>>

----------------------------------------------------------------------------
(* The background task of an attempt and its main-thread closures.            *)

ReconnectDelayElapsed(c) ==
    /\ conns[c].pc = "delay"
    /\ conns' = AfterDelay(c)
    /\ Emit({})
    /\ UNCHANGED <<sessions, hostToSessions, lastNav, bootstrapInfo, life, told, asked>>

TransportConnectFails(c) ==
    /\ conns[c].pc = "connect"
    /\ conns' = [conns EXCEPT ![c].pc = "failed"]
    /\ Emit({})
    /\ UNCHANGED <<sessions, hostToSessions, lastNav, bootstrapInfo, life, told, asked>>

(* transport.connect returned a client: the closure that inserts Initializing *)
(* and starts to drain the client's event stream.                             *)
TransportConnected(c) ==
    LET s == conns[c].session IN
    /\ conns[c].pc = "connect"
    /\ Tracked(s)
    /\ sessions' = [sessions EXCEPT ![s] = Initializing(c)]
    /\ conns' = [conns EXCEPT ![c].pc = "handshake", ![c].stream = "open"]
    /\ told' = told \ {s}
    /\ asked' = [asked EXCEPT ![s] = {}]
    /\ Emit({})
    /\ UNCHANGED <<hostToSessions, lastNav, bootstrapInfo, life>>

(* ... unless the session was deregistered meanwhile: client and child are     *)
(* dropped and the attempt fails in its connect phase.                         *)
TransportConnectedTooLate(c) ==
    /\ conns[c].pc = "connect"
    /\ ~ Tracked(conns[c].session)
    /\ conns' = [conns EXCEPT ![c].pc = "failed"]
    /\ Emit({})
    /\ UNCHANGED <<sessions, hostToSessions, lastNav, bootstrapInfo, life, told, asked>>

(* The InitializeResponse arrives while the reader task is alive.              *)
HandshakeSucceeds(c, h) ==
    /\ conns[c].pc = "handshake"
    /\ conns[c].stream = "open"
    /\ conns' = [conns EXCEPT ![c].pc = "ok", ![c].host = h]
    /\ Emit({})
    /\ UNCHANGED <<sessions, hostToSessions, lastNav, bootstrapInfo, life, told, asked>>

(* An error response, the request timeout, or the end of the stream.           *)
HandshakeFails(c) ==
    /\ conns[c].pc = "handshake"
    /\ conns' = [conns EXCEPT ![c].pc = "failed"]
    /\ Emit({})
    /\ UNCHANGED <<sessions, hostToSessions, lastNav, bootstrapInfo, life, told, asked>>

InitialConnectSucceeded(c) ==
    /\ conns[c].pc = "ok"
    /\ conns[c].attempt = 0
    /\ MarkSessionConnected(conns[c].session, conns[c].host, {})
    /\ conns' = EndTask(c)
    /\ UNCHANGED <<lastNav, bootstrapInfo, life, asked>>

InitialConnectFailed(c) ==
    /\ conns[c].pc = "failed"
    /\ conns[c].attempt = 0
    /\ MarkSessionDisconnected(conns[c].session, EndTask(c),
                               {Event("SessionConnectionFailed", conns[c].session)})
    /\ UNCHANGED <<bootstrapInfo, life, told, asked>>

(* A reconnect that ends after its session left the map changes nothing.       *)
ReconnectAbandoned(c) ==
    /\ conns[c].pc \in {"ok", "failed"}
    /\ conns[c].attempt > 0
    /\ ~ Tracked(conns[c].session)
    /\ conns' = EndTask(c)
    /\ Emit({})
    /\ UNCHANGED <<sessions, hostToSessions, lastNav, bootstrapInfo, life, told, asked>>

ReconnectSucceeded(c) ==
    LET s == conns[c].session IN
    /\ conns[c].pc = "ok"
    /\ conns[c].attempt > 0
    /\ Tracked(s)
    /\ MarkSessionConnected(s, conns[c].host, {Event("SessionReconnected", s)})
    /\ conns' = EndTask(c)
    /\ UNCHANGED <<lastNav, bootstrapInfo, life, asked>>

(* handle_reconnect_failure, below the limit: the next attempt.                *)
ReconnectRetries(c) ==
    LET s == conns[c].session IN
    /\ conns[c].pc = "failed"
    /\ conns[c].attempt > 0
    /\ Tracked(s)
    /\ MayRetry(conns[c].attempt)
    /\ AttemptReconnect(s, conns[c].attempt + 1, conns[c].host, EndTask(c))
    /\ Emit({})
    /\ UNCHANGED <<hostToSessions, lastNav, bootstrapInfo, life, told, asked>>

(* handle_reconnect_failure, at the limit: give up.                            *)
ReconnectExhausted(c) ==
    LET s == conns[c].session IN
    /\ conns[c].pc = "failed"
    /\ conns[c].attempt > 0
    /\ Tracked(s)
    /\ ~ MayRetry(conns[c].attempt)
    /\ sessions' = [sessions EXCEPT ![s] = Disconnected]
    /\ conns' = EndTask(c)
    /\ Emit({Event("SessionDisconnected", s)})
    /\ UNCHANGED <<hostToSessions, lastNav, bootstrapInfo, life, told, asked>>

----------------------------------------------------------------------------
(* The event stream of a client.                                              *)

(* forward_client_event: dropped unless the session is Connected.             *)
PushEvent(c) ==
    LET s == conns[c].session IN
    /\ conns[c].stream # "none"
    /\ Emit(IF IsConnected(s)
            THEN {Event("RepoMetadataSnapshot", sessions[s].host)}
            ELSE {})
    /\ UNCHANGED <<sessions, hostToSessions, conns, lastNav, bootstrapInfo, life, told, asked>>

(* The process at the other end exits, the link drops, or the child is killed *)
(* because its state was dropped: the reader task ends and the event channel  *)
(* closes.                                                                    *)
StreamCloses(c) ==
    /\ conns[c].stream = "open"
    /\ conns' = [conns EXCEPT ![c].stream = "eof"]
    /\ Emit({})
    /\ UNCHANGED <<sessions, hostToSessions, lastNav, bootstrapInfo, life, told, asked>>

(* The completion callback: mark_session_disconnected of the session, whoever *)
(* its client is by now.                                                      *)
StreamCompleted(c) ==
    /\ conns[c].stream = "eof"
    /\ MarkSessionDisconnected(conns[c].session, [conns EXCEPT ![c] = Drained(@)], {})
    /\ UNCHANGED <<bootstrapInfo, life, told, asked>>

----------------------------------------------------------------------------
Init ==
    /\ sessions = [s \in Sessions |-> Untracked]
    /\ hostToSessions = [h \in Hosts |-> {}]
    /\ conns = [c \in Conns |-> FreeConn]
    /\ lastNav = [s \in Sessions |-> None]
    /\ bootstrapInfo = {}
    /\ life = [s \in Sessions |-> "new"]
    /\ told = {}
    /\ asked = [s \in Sessions |-> {}]
    /\ events = {}
    /\ remoteRepos = {}

Caller(s) ==
    \/ ConnectSession(s)
    \/ DeregisterSession(s)
    \/ NotifySessionBootstrapped(s)
    \/ \E p \in Paths : NavigateToDirectory(s, p)

(* The steps of an attempt's task that its executor always runs.              *)
TaskStep(c) ==
    \/ ReconnectDelayElapsed(c)
    \/ TransportConnected(c)
    \/ TransportConnectedTooLate(c)
    \/ TransportConnectFails(c)
    \/ HandshakeFails(c)
    \/ \E h \in Hosts : HandshakeSucceeds(c, h)
    \/ InitialConnectSucceeded(c)
    \/ InitialConnectFailed(c)
    \/ ReconnectAbandoned(c)
    \/ ReconnectSucceeded(c)
    \/ ReconnectRetries(c)
    \/ ReconnectExhausted(c)

(* A killed child always closes its stream; a live one may.                   *)
KilledStreamCloses(c) ==
    /\ StreamCloses(c)
    /\ ~ Owns(conns[c].session, c)

StreamStep(c) ==
    \/ PushEvent(c)
    \/ StreamCloses(c)
    \/ StreamCompleted(c)

Next ==
    \/ \E s \in Sessions : Caller(s)
    \/ \E c \in Conns : TaskStep(c) \/ StreamStep(c)

Spec == Init /\ [][Next]_vars

(* What goes on by itself: every request has a timeout and every process spawn *)
(* returns, so the task of an attempt never stays at one control point;        *)
(* SIGKILL closes the pipe of a dropped child; the main thread runs the         *)
(* callbacks queued for it.  Callers, network and success are owed nothing.     *)
GoesOn(c) == TaskStep(c) \/ KilledStreamCloses(c) \/ StreamCompleted(c)

----------------------------------------------------------------------------
ConnStates ==
    [pc : {"free", "delay", "connect", "handshake", "ok", "failed"},
     session : Sessions \cup {None},
     attempt : 0..MaxReconnectAttempts,
     host : Hosts \cup {None},
     stream : {"none", "open", "eof"}]

TypeOK ==
    /\ sessions \in [Sessions -> SessionStates]
    /\ hostToSessions \in [Hosts -> SUBSET Sessions]
    /\ conns \in [Conns -> ConnStates]
    /\ lastNav \in [Sessions -> Paths \cup {None}]
    /\ bootstrapInfo \subseteq Sessions
    /\ life \in [Sessions -> {"new", "requested", "closed"}]
    /\ told \subseteq Sessions
    /\ asked \in [Sessions -> SUBSET Paths]
    /\ events \subseteq [type : EventTypes, about : Sessions \cup Hosts]
    /\ remoteRepos \subseteq Hosts

(* The reverse index lists exactly the sessions that are Connected to the     *)
(* host, through every drop, reconnect to another daemon and teardown.        *)
HostIndexExact ==
    \A h \in Hosts :
        hostToSessions[h] =
            {s \in Sessions : IsConnected(s) /\ sessions[s].host = h}

(* At most one connection attempt is in flight for a session, and none while  *)
(* it is Connected: stale completion callbacks never fork the reconnect loop. *)
OneAttemptPerSession ==
    \A c \in Conns : TaskRunning(c) =>
        /\ ~ IsConnected(conns[c].session)
        /\ \A d \in Conns : TaskRunning(d) /\ conns[d].session = conns[c].session
                               => d = c

(* A session whose shell exited stays out of the map, whatever attempt,        *)
(* timer or callback of it is still under way.                                *)
ClosedStaysGone ==
    \A s \in Sessions : life[s] = "closed" => sessions[s] = Untracked

(* What the manager remembers of a session holds for the client the session   *)
(* has now, in whatever order bootstrap, connect, drop and reconnect came: its  *)
(* daemon has been told of the shell, and a path that navigate_to_directory     *)
(* would skip as a duplicate has been requested from it.                        *)
CachesAreOfThisClient ==
    \A s \in Sessions :
        /\ IsConnected(s) /\ s \in bootstrapInfo => s \in told
        /\ lastNav[s] # None => IsConnected(s) /\ lastNav[s] \in asked[s]

(* File trees are kept only for hosts with a Connected session.                *)
ReposOnlyOfConnectedHosts ==
    \A h \in remoteRepos : hostToSessions[h] # {}

(* HostConnected is emitted exactly when the host's first session arrives, and *)
(* the loss of its last one never goes unannounced.                            *)
HostEventsFollowIndex ==
    [][\A h \in Hosts :
          /\ Event("HostConnected", h) \in events'
                <=> hostToSessions[h] = {} /\ hostToSessions'[h] # {}
          /\ hostToSessions[h] # {} /\ hostToSessions'[h] = {}
                => Event("HostDisconnected", h) \in events']_vars

(* Towards the owners of per-host models the manager, with its index for the  *)
(* pools, behaves as the abstract HostPresence: no reconnect, give-up or       *)
(* teardown is ever seen as anything but single joins and leaves.              *)
Presence == INSTANCE HostPresence WITH pool <- hostToSessions, trees <- remoteRepos

ImplementsHostPresence == Presence!Spec

(* The reconnect loop ends: a session does not stay Reconnecting.              *)
ReconnectingEnds ==
    \A s \in Sessions :
        sessions[s].tag = "reconnecting" ~> sessions[s].tag # "reconnecting"
=============================================================================
