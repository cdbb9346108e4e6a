---------------------- MODULE RemoteServerManagerProofs ----------------------
(***************************************************************************)
(* Proofs about RemoteServerManager, for every number of sessions, daemons, *)
(* attempts and retries.                                                    *)
(***************************************************************************)
EXTENDS RemoteServerManager, TLAPS

(* What is known of an attempt's record: a task or a stream always has a    *)
(* session, and the task knows a host wherever its next closure uses one.   *)
AttemptShape ==
    \A c \in Conns :
        /\ conns[c].pc # "free" \/ conns[c].stream # "none"
              => conns[c].session \in Sessions
        /\ conns[c].pc = "ok" \/ (conns[c].pc # "free" /\ conns[c].attempt > 0)
              => conns[c].host \in Hosts

(* A session nobody connected has no entry and no attempt.                  *)
NewIsUntouched ==
    \A s \in Sessions : life[s] = "new" =>
        /\ sessions[s] = Untracked
        /\ \A c \in Conns : conns[c].session # s

Records == TypeOK /\ AttemptShape

Core == TypeOK /\ AttemptShape /\ NewIsUntouched /\ OneAttemptPerSession

(* The same of some sessions only: those that are connected in good order. All  *)
(* are kept by one argument.                                                   *)
Untouched(S) ==
    \A s \in S : life[s] = "new" =>
        /\ sessions[s] = Untracked
        /\ \A c \in Conns : conns[c].session # s

Single(S) ==
    \A c \in Conns : TaskRunning(c) /\ conns[c].session \in S =>
        /\ ~ IsConnected(conns[c].session)
        /\ \A d \in Conns : TaskRunning(d) /\ conns[d].session = conns[c].session
                               => d = c

Kept(S) == Records /\ Untouched(S) /\ Single(S)

LEMMA KeptForms == (Kept(Sessions) <=> Core) /\ (Kept({}) <=> Records)
BY DEF Kept, Records, Core, Untouched, NewIsUntouched, Single, OneAttemptPerSession,
   TaskRunning, AttemptShape

EventSet == SUBSET [type : EventTypes, about : Sessions \cup Hosts]

(* Whatever is emitted, the observers of the events keep their types.       *)
LEMMA EmitType ==
    ASSUME NEW E \in EventSet, Emit(E)
    PROVE  events' \in EventSet /\ remoteRepos' \subseteq Hosts
BY DEF Emit, EventSet

LEMMA EventType ==
    ASSUME NEW type \in EventTypes, NEW about \in Sessions \cup Hosts
    PROVE  Event(type, about) \in [type : EventTypes, about : Sessions \cup Hosts]
BY DEF Event

LEMMA StateTypes ==
    /\ Untracked \in SessionStates
    /\ Connecting \in SessionStates
    /\ Disconnected \in SessionStates
    /\ \A c \in Conns : Initializing(c) \in SessionStates
    /\ \A c \in Conns, h \in Hosts : Connected(c, h) \in SessionStates
    /\ \A n \in 1..MaxReconnectAttempts, h \in Hosts : Reconnecting(n, h) \in SessionStates
BY DEF SessionStates

(* An entry is one of the six states; its tag decides which.                *)
LEMMA StateCases ==
    ASSUME NEW x \in SessionStates
    PROVE  /\ x.tag = "untracked" <=> x = Untracked
           /\ x.tag = "connected" => x.host \in Hosts /\ x.client \in Conns
           /\ x.tag = "reconnecting" => x.host \in Hosts
           /\ x.tag = "initializing" => x.client \in Conns
BY DEF SessionStates, Untracked, Connecting, Disconnected, Initializing, Connected,
       Reconnecting

LEMMA CoreInit == Init => Core
BY NoneAssumption, MaxReconnectAssumption, StateTypes
   DEF Init, Core, TypeOK, AttemptShape, NewIsUntouched, OneAttemptPerSession,
       TaskRunning, FreeConn, ConnStates

(* What a step may do to an attempt that is not a new one: nothing, recycle   *)
(* it, or move its task or its stream on without changing whose it is.        *)
Advance(r, q) ==
    \/ q = r
    \/ q = FreeConn
    \/ /\ q.session = r.session
       /\ r.pc # "free" \/ r.stream # "none"
       /\ r.pc = "free" => q.pc = "free"
       /\ q.pc = "ok" => q.host \in Hosts
       /\ q.pc # "free" /\ q.attempt > 0
             => q.host \in Hosts \/ (r.attempt > 0 /\ q.host = r.host)

LEMMA EndTaskAdvances ==
    ASSUME Records, NEW c \in Conns, conns[c].pc # "free"
    PROVE  /\ EndTask(c) \in [Conns -> ConnStates]
           /\ \A d \in Conns : Advance(conns[d], EndTask(c)[d])
           /\ EndTask(c)[c].pc = "free"
           /\ \A d \in Conns : d # c => EndTask(c)[d] = conns[d]
<1>0. /\ conns[c] \in ConnStates
      /\ 0 \in 0..MaxReconnectAttempts
  BY MaxReconnectAssumption DEF Records, TypeOK
<1>1. /\ Ended(conns[c]) \in ConnStates
      /\ Ended(conns[c]).pc = "free"
  BY <1>0 DEF Ended, FreeConn, ConnStates
<1>2. EndTask(c)[c] = Ended(conns[c]) /\ \A d \in Conns : d # c => EndTask(c)[d] = conns[d]
  BY DEF EndTask, Records, TypeOK
<1>3. Advance(conns[c], Ended(conns[c]))
  BY <1>0 DEF Ended, Advance, ConnStates
<1>4. \A d \in Conns : Advance(conns[d], conns[d])
  BY DEF Advance
<1>5. EndTask(c) \in [Conns -> ConnStates]
  BY <1>1 DEF EndTask, Records, TypeOK
<1>. QED BY <1>1, <1>2, <1>3, <1>4, <1>5

LEMMA DrainAdvances ==
    ASSUME Records, NEW c \in Conns, conns[c].stream # "none",
           NEW cs, cs = [conns EXCEPT ![c] = Drained(@)]
    PROVE  /\ cs \in [Conns -> ConnStates]
           /\ \A d \in Conns : Advance(conns[d], cs[d])
           /\ \A d \in Conns : cs[d].pc # "free"
                 => conns[d].pc # "free" /\ cs[d].session = conns[d].session
<1>1. Drained(conns[c]) \in ConnStates
  BY MaxReconnectAssumption DEF Drained, FreeConn, Records, TypeOK, ConnStates
<1>2. cs[c] = Drained(conns[c]) /\ \A d \in Conns : d # c => cs[d] = conns[d]
  BY DEF Records, TypeOK
<1>3. Advance(conns[c], Drained(conns[c]))
  BY DEF Drained, Advance, Records, AttemptShape, TypeOK, ConnStates
<1>4. \A d \in Conns : Advance(conns[d], conns[d])
  BY DEF Advance
<1>5. cs[c].pc # "free" => conns[c].pc # "free" /\ cs[c].session = conns[c].session
  BY <1>2 DEF Drained, FreeConn, Records, TypeOK, ConnStates
<1>. QED BY <1>1, <1>2, <1>3, <1>4, <1>5 DEF Records, TypeOK

(* A step that leaves the map, the index and life alone and starts nothing.   *)
LEMMA KeptQuietStep ==
    ASSUME NEW S \in SUBSET Sessions, Kept(S),
           UNCHANGED <<sessions, life, hostToSessions>>,
           lastNav' \in [Sessions -> Paths \cup {None}],
           asked' \in [Sessions -> SUBSET Paths],
           bootstrapInfo' \subseteq Sessions,
           told' \subseteq Sessions,
           \E E \in EventSet : Emit(E),
           conns' \in [Conns -> ConnStates],
           \A c \in Conns : Advance(conns[c], conns'[c])
    PROVE  Kept(S)'
<1>1. TypeOK'
  BY EmitType DEF Kept, Records, TypeOK, EventSet
<1>2. AttemptShape'
  BY DEF Kept, Records, AttemptShape, FreeConn, Advance
<1>3. Untouched(S)'
  BY NoneAssumption DEF Kept, Records, Untouched, FreeConn, Advance
<1>4. Single(S)'
  BY DEF Kept, Records, Single, TaskRunning, IsConnected, FreeConn, Advance
<1>. QED BY <1>1, <1>2, <1>3, <1>4 DEF Kept, Records

(* A step that rewrites the entry of one session s that was connected at some *)
(* time, moves attempts on, and starts no attempt.                            *)
LEMMA KeptEntryStep ==
    ASSUME NEW S \in SUBSET Sessions, Kept(S),
           NEW s \in Sessions, NEW x \in SessionStates,
           sessions' = [sessions EXCEPT ![s] = x],
           life' \in [Sessions -> {"new", "requested", "closed"}],
           s \in S => life'[s] # "new",
           \A t \in Sessions : t # s => life'[t] = life[t],
           hostToSessions' \in [Hosts -> SUBSET Sessions],
           lastNav' \in [Sessions -> Paths \cup {None}],
           asked' \in [Sessions -> SUBSET Paths],
           bootstrapInfo' \subseteq Sessions,
           told' \subseteq Sessions,
           \E E \in EventSet : Emit(E),
           conns' \in [Conns -> ConnStates],
           \A c \in Conns : Advance(conns[c], conns'[c]),
           s \in S /\ x.tag = "connected" =>
              \A c \in Conns : conns'[c].pc # "free" => conns'[c].session # s
    PROVE  Kept(S)'
<1>1. TypeOK'
  BY EmitType DEF Kept, Records, TypeOK, EventSet
<1>2. AttemptShape'
  BY DEF Kept, Records, AttemptShape, FreeConn, Advance
<1>3. Untouched(S)'
  BY NoneAssumption DEF Kept, Records, Untouched, FreeConn, Advance, TypeOK
<1>4. Single(S)'
  BY DEF Kept, Records, Single, TaskRunning, IsConnected, FreeConn, Advance, TypeOK
<1>. QED BY <1>1, <1>2, <1>3, <1>4 DEF Kept, Records

(* ... and one that starts a new attempt for s, which has none in flight.     *)
LEMMA KeptNewTaskStep ==
    ASSUME NEW S \in SUBSET Sessions, Kept(S),
           NEW s \in Sessions, NEW x \in SessionStates,
           sessions' = [sessions EXCEPT ![s] = x],
           x.tag # "connected",
           life' \in [Sessions -> {"new", "requested", "closed"}],
           s \in S => life'[s] # "new",
           \A t \in Sessions : t # s => life'[t] = life[t],
           hostToSessions' \in [Hosts -> SUBSET Sessions],
           lastNav' \in [Sessions -> Paths \cup {None}],
           asked' \in [Sessions -> SUBSET Paths],
           bootstrapInfo' \subseteq Sessions,
           told' \subseteq Sessions,
           \E E \in EventSet : Emit(E),
           NEW cs \in [Conns -> ConnStates],
           \A c \in Conns : Advance(conns[c], cs[c]),
           s \in S => \A c \in Conns : cs[c].pc # "free" => cs[c].session # s,
           NEW d \in Conns, NEW pc \in {"delay", "connect"},
           NEW n \in 0..MaxReconnectAttempts, NEW h \in Hosts \cup {None},
           n > 0 => h \in Hosts,
           conns' = [cs EXCEPT ![d] = NewTask(pc, s, n, h)]
    PROVE  Kept(S)'
<1>a. conns' \in [Conns -> ConnStates]
  BY DEF NewTask, ConnStates
<1>b. /\ conns'[d] = NewTask(pc, s, n, h)
      /\ \A c \in Conns : c # d => conns'[c] = cs[c]
  BY DEF NewTask, ConnStates
<1>1. TypeOK'
  BY <1>a, EmitType DEF Kept, Records, TypeOK, EventSet
<1>2. AttemptShape'
  BY <1>b DEF Kept, Records, AttemptShape, FreeConn, Advance, NewTask
<1>3. Untouched(S)'
  BY <1>b, NoneAssumption DEF Kept, Records, Untouched, FreeConn, Advance, NewTask, TypeOK
<1>4. Single(S)'
  BY <1>b DEF Kept, Records, Single, TaskRunning, IsConnected, FreeConn, Advance,
              NewTask, TypeOK
<1>. QED BY <1>1, <1>2, <1>3, <1>4 DEF Kept, Records

(* The records an advancing task step leaves behind.                          *)
LEMMA SetPcAdvances ==
    ASSUME Records, NEW c \in Conns, conns[c].pc # "free",
           NEW pc \in {"connect", "failed"},
           NEW cs, cs = [conns EXCEPT ![c].pc = pc]
    PROVE  /\ cs \in [Conns -> ConnStates]
           /\ \A d \in Conns : Advance(conns[d], cs[d])
<1>1. conns[c] \in ConnStates
  BY DEF Records, TypeOK
<1>2. cs[c] = [conns[c] EXCEPT !.pc = pc] /\ \A d \in Conns : d # c => cs[d] = conns[d]
  BY DEF Records, TypeOK
<1>3. cs[c] \in ConnStates /\ Advance(conns[c], cs[c])
  BY <1>1, <1>2 DEF ConnStates, Advance, Records, AttemptShape
<1>4. \A d \in Conns : Advance(conns[d], conns[d])
  BY DEF Advance
<1>. QED BY <1>2, <1>3, <1>4 DEF Records, TypeOK

LEMMA NoEvents == {} \in EventSet
BY DEF EventSet

LEMMA KeptQuietActions ==
    ASSUME NEW S \in SUBSET Sessions, Kept(S)
    PROVE  /\ \A s \in Sessions : NotifySessionBootstrapped(s) => Kept(S)'
           /\ \A s \in Sessions, p \in Paths : NavigateToDirectory(s, p) => Kept(S)'
           /\ \A c \in Conns :
                 ReconnectDelayElapsed(c) \/ TransportConnectFails(c)
                   \/ TransportConnectedTooLate(c) \/ HandshakeFails(c)
                   \/ ReconnectAbandoned(c) \/ PushEvent(c) \/ StreamCloses(c)
                 => Kept(S)'
           /\ \A c \in Conns, h \in Hosts : HandshakeSucceeds(c, h) => Kept(S)'
<1>. USE NoEvents
<1>0. /\ Records /\ TypeOK
      /\ \A c \in Conns : Advance(conns[c], conns[c])
  BY DEF Kept, Records, Advance
<1>1. ASSUME NEW s \in Sessions, NotifySessionBootstrapped(s) PROVE Kept(S)'
  BY <1>0, <1>1, KeptQuietStep DEF NotifySessionBootstrapped, TypeOK
<1>2. ASSUME NEW s \in Sessions, NEW p \in Paths, NavigateToDirectory(s, p) PROVE Kept(S)'
  BY <1>0, <1>2, KeptQuietStep DEF NavigateToDirectory, TypeOK
<1>3. ASSUME NEW c \in Conns, ReconnectDelayElapsed(c) PROVE Kept(S)'
  BY <1>0, <1>3, KeptQuietStep, EndTaskAdvances, SetPcAdvances
     DEF ReconnectDelayElapsed, AfterDelay, TypeOK
<1>4. ASSUME NEW c \in Conns,
             TransportConnectFails(c) \/ TransportConnectedTooLate(c) \/ HandshakeFails(c)
      PROVE  Kept(S)'
  BY <1>0, <1>4, KeptQuietStep, SetPcAdvances
     DEF TransportConnectFails, TransportConnectedTooLate, HandshakeFails, TypeOK
<1>5. ASSUME NEW c \in Conns, ReconnectAbandoned(c) PROVE Kept(S)'
  BY <1>0, <1>5, KeptQuietStep, EndTaskAdvances DEF ReconnectAbandoned, TypeOK
<1>6. ASSUME NEW c \in Conns, PushEvent(c) PROVE Kept(S)'
  <2>1. conns[c].session \in Sessions
    BY <1>6 DEF PushEvent, Kept, Records, AttemptShape
  <2>2. IsConnected(conns[c].session) => sessions[conns[c].session].host \in Hosts
    BY <1>0, <2>1, StateCases DEF IsConnected, TypeOK
  <2>3. \E E \in EventSet : Emit(E)
    BY <1>6, <2>2, EventType DEF PushEvent, EventSet, EventTypes
  <2>. QED BY <1>0, <1>6, <2>3, KeptQuietStep DEF PushEvent, TypeOK
<1>7. ASSUME NEW c \in Conns, StreamCloses(c) PROVE Kept(S)'
  <2>1. /\ conns' \in [Conns -> ConnStates]
        /\ \A d \in Conns : Advance(conns[d], conns'[d])
    BY <1>0, <1>7 DEF StreamCloses, TypeOK, ConnStates, Advance, Kept, Records, AttemptShape
  <2>. QED BY <1>0, <1>7, <2>1, KeptQuietStep DEF StreamCloses, TypeOK
<1>8. ASSUME NEW c \in Conns, NEW h \in Hosts, HandshakeSucceeds(c, h) PROVE Kept(S)'
  <2>0. /\ conns[c] \in ConnStates
        /\ conns'[c] = [[conns[c] EXCEPT !.pc = "ok"] EXCEPT !.host = h]
        /\ \A d \in Conns : d # c => conns'[d] = conns[d]
        /\ conns' = [conns EXCEPT ![c] = conns'[c]]
    BY <1>0, <1>8 DEF HandshakeSucceeds, TypeOK
  <2>1. /\ conns' \in [Conns -> ConnStates]
        /\ \A d \in Conns : Advance(conns[d], conns'[d])
    BY <1>0, <1>8, <2>0 DEF HandshakeSucceeds, TypeOK, ConnStates, Advance
  <2>. QED BY <1>0, <1>8, <2>1, KeptQuietStep DEF HandshakeSucceeds, TypeOK
<1>. QED BY <1>1, <1>2, <1>3, <1>4, <1>5, <1>6, <1>7, <1>8

(* mark_session_connected, called by the closure of a task that ends.         *)
LEMMA MarkConnectedKept ==
    ASSUME NEW S \in SUBSET Sessions, Kept(S), NEW c \in Conns, conns[c].pc # "free",
           NEW E \in EventSet, NEW h \in Hosts,
           MarkSessionConnected(conns[c].session, h, E),
           conns' = EndTask(c),
           UNCHANGED <<lastNav, bootstrapInfo, life, asked>>
    PROVE  Kept(S)'
<1>. DEFINE s == conns[c].session
<1>0. /\ TypeOK
      /\ Records
      /\ s \in Sessions
      /\ s \in S => life[s] # "new"
  BY DEF Kept, Records, AttemptShape, Untouched
<1>1. s \in S => \A d \in Conns : conns'[d].pc # "free" => conns'[d].session # s
  <2>. SUFFICES ASSUME s \in S, NEW d \in Conns, conns'[d].pc # "free"
                PROVE  conns'[d].session # s
    OBVIOUS
  <2>1. d # c /\ conns'[d] = conns[d]
    BY <1>0, EndTaskAdvances
  <2>. QED BY <2>1 DEF Kept, Records, Single, TaskRunning
<1>2. CASE sessions[s].tag = "initializing"
  <2>1. sessions[s].client \in Conns
    BY <1>0, <1>2, StateCases DEF TypeOK
  <2>2. /\ sessions' = [sessions EXCEPT ![s] = Connected(sessions[s].client, h)]
        /\ hostToSessions' = [hostToSessions EXCEPT ![h] = @ \cup {s}]
        /\ told' = ShellResent(s)
        /\ Emit({Event("SessionConnected", s)} \cup E \cup
               (IF hostToSessions[h] = {} THEN {Event("HostConnected", h)} ELSE {}))
    BY <1>2 DEF MarkSessionConnected
  <2>3. \E F \in EventSet : Emit(F)
    <3>1. /\ Event("SessionConnected", s) \in [type : EventTypes, about : Sessions \cup Hosts]
          /\ Event("HostConnected", h) \in [type : EventTypes, about : Sessions \cup Hosts]
      BY <1>0, EventType DEF EventTypes
    <3>. QED BY <2>2, <3>1 DEF EventSet
  <2>4. told' \subseteq Sessions /\ hostToSessions' \in [Hosts -> SUBSET Sessions]
    BY <1>0, <2>2 DEF ShellResent, TypeOK
  <2>5. Connected(sessions[s].client, h) \in SessionStates
    BY <2>1, StateTypes
  <2>. QED BY <1>0, <1>1, <2>2, <2>3, <2>4, <2>5, EndTaskAdvances, KeptEntryStep DEF TypeOK
<1>3. CASE sessions[s].tag # "initializing"
  <2>1. /\ sessions' = [sessions EXCEPT ![s] = Untracked]
        /\ Emit({})
        /\ UNCHANGED <<hostToSessions, told>>
    BY <1>3 DEF MarkSessionConnected
  <2>2. Untracked.tag # "connected"
    BY DEF Untracked
  <2>. QED BY <1>0, <2>1, <2>2, NoEvents, StateTypes, EndTaskAdvances, KeptEntryStep DEF TypeOK
<1>. QED BY <1>2, <1>3

LEMMA HostGoneType ==
    ASSUME NEW h \in Hosts, NEW index
    PROVE  HostGone(h, index) \in EventSet
BY EventType DEF HostGone, EventSet, EventTypes

LEMMA FreshAttempt ==
    ASSUME NEW cs, NEW s, NEW n, NEW h, AttemptReconnect(s, n, h, cs)
    PROVE  /\ sessions' = [sessions EXCEPT ![s] = Reconnecting(n, h)]
           /\ \E c \in Conns : conns' = [cs EXCEPT ![c] = NewTask("delay", s, n, h)]
BY DEF AttemptReconnect

(* mark_session_disconnected, whoever calls it.                               *)
LEMMA MarkDisconnectedKept ==
    ASSUME NEW S \in SUBSET Sessions, Kept(S),
           NEW s \in Sessions, s \in S => life[s] # "new",
           NEW cs \in [Conns -> ConnStates],
           \A d \in Conns : Advance(conns[d], cs[d]),
           \A d \in Conns : cs[d].pc # "free"
                 => conns[d].pc # "free" /\ cs[d].session = conns[d].session,
           NEW E \in EventSet,
           MarkSessionDisconnected(s, cs, E),
           UNCHANGED <<bootstrapInfo, life, told, asked>>
    PROVE  Kept(S)'
<1>0. /\ TypeOK
      /\ IsConnected(s) => sessions[s].host \in Hosts
      /\ Disconnected.tag # "connected"
  BY StateCases DEF Kept, Records, TypeOK, IsConnected, Disconnected
<1>1. CASE ~ Tracked(s) /\ ~ IsConnected(s)
  <2>1. UNCHANGED <<sessions, hostToSessions, lastNav>> /\ conns' = cs /\ Emit(E)
    BY <1>1 DEF MarkSessionDisconnected, ReconnectsFrom
  <2>. QED BY <1>0, <2>1, KeptQuietStep DEF TypeOK
<1>2. CASE Tracked(s) /\ ~ IsConnected(s)
  <2>1. /\ sessions' = [sessions EXCEPT ![s] = Disconnected]
        /\ conns' = cs /\ Emit(E) /\ UNCHANGED <<hostToSessions, lastNav>>
    BY <1>2 DEF MarkSessionDisconnected, ReconnectsFrom
  <2>. QED BY <1>0, <2>1, StateTypes, KeptEntryStep DEF TypeOK
<1>3. CASE IsConnected(s)
  <2>. DEFINE h == sessions[s].host
              index == RemoveFromHostIndex(h, s)
  <2>0. Tracked(s)
    BY <1>3 DEF IsConnected, Tracked, Untracked
  <2>1. /\ hostToSessions' = index
        /\ Emit(E \cup HostGone(h, index))
        /\ AttemptReconnect(s, 1, h, cs)
        /\ lastNav' = ForgetPath(s)
    BY <1>3, <2>0 DEF MarkSessionDisconnected, ReconnectsFrom
  <2>2. E \cup HostGone(h, index) \in EventSet
    BY <1>0, <1>3, HostGoneType DEF EventSet
  <2>3. PICK d \in Conns : conns' = [cs EXCEPT ![d] = NewTask("delay", s, 1, h)]
    BY <2>1, FreshAttempt
  <2>4. s \in S => \A c \in Conns : cs[c].pc # "free" => cs[c].session # s
    BY <1>3 DEF Kept, Records, Single, TaskRunning
  <2>5. /\ 1 \in 1..MaxReconnectAttempts
        /\ 1 \in 0..MaxReconnectAttempts
        /\ Reconnecting(1, h) \in SessionStates
        /\ Reconnecting(1, h).tag # "connected"
    BY <1>0, <1>3, MaxReconnectAssumption, StateTypes DEF Reconnecting
  <2>6. /\ lastNav' \in [Sessions -> Paths \cup {None}]
        /\ hostToSessions' \in [Hosts -> SUBSET Sessions]
    BY <1>0, <2>1 DEF ForgetPath, RemoveFromHostIndex, TypeOK
  <2>7. sessions' = [sessions EXCEPT ![s] = Reconnecting(1, h)]
    BY <2>1, FreshAttempt
  <2>8. "delay" \in {"delay", "connect"} /\ h \in Hosts
    BY <1>0, <1>3
  <2>9. \E F \in EventSet : Emit(F)
    BY <2>1, <2>2
  <2>. HIDE DEF h, index
  <2>. QED BY <1>0, <2>3, <2>4, <2>5, <2>6, <2>7, <2>8, <2>9, KeptNewTaskStep DEF TypeOK
<1>. QED BY <1>1, <1>2, <1>3

(* connect_session: in good order, only of a session without an attempt.       *)
LEMMA StartKept ==
    ASSUME NEW S \in SUBSET Sessions, Kept(S), NEW s \in Sessions,
           StartConnection(s),
           life' \in [Sessions -> {"new", "requested", "closed"}],
           s \in S => life'[s] # "new",
           \A t \in Sessions : t # s => life'[t] = life[t],
           s \in S => \A c \in Conns : conns[c].session # s
    PROVE  Kept(S)'
<1>0. TypeOK /\ \A c \in Conns : Advance(conns[c], conns[c])
  BY DEF Kept, Records, Advance
<1>1. PICK d \in Conns : conns' = [conns EXCEPT ![d] = NewTask("connect", s, 0, None)]
  BY DEF StartConnection
<1>2. \E E \in EventSet : Emit(E)
  BY EventType DEF StartConnection, EventSet, EventTypes
<1>3. /\ 0 \in 0..MaxReconnectAttempts /\ ~ (0 > 0)
      /\ "connect" \in {"delay", "connect"} /\ None \in Hosts \cup {None}
      /\ Connecting \in SessionStates /\ Connecting.tag # "connected"
  BY MaxReconnectAssumption, StateTypes DEF Connecting
<1>4. /\ sessions' = [sessions EXCEPT ![s] = Connecting]
      /\ UNCHANGED <<hostToSessions, lastNav, bootstrapInfo, told, asked>>
  BY DEF StartConnection
<1>. QED BY <1>0, <1>1, <1>2, <1>3, <1>4, KeptNewTaskStep DEF TypeOK

LEMMA KeptLoudActions ==
    ASSUME NEW S \in SUBSET Sessions, Kept(S)
    PROVE  /\ \A s \in Sessions : ConnectSession(s) \/ DeregisterSession(s) => Kept(S)'
           /\ \A c \in Conns :
                 TransportConnected(c) \/ InitialConnectSucceeded(c)
                   \/ InitialConnectFailed(c) \/ ReconnectSucceeded(c)
                   \/ ReconnectRetries(c) \/ ReconnectExhausted(c) \/ StreamCompleted(c)
                 => Kept(S)'
<1>0. /\ Records /\ TypeOK
      /\ \A c \in Conns : Advance(conns[c], conns[c])
      /\ \A c \in Conns : conns[c].pc # "free" \/ conns[c].stream # "none"
            => /\ conns[c].session \in Sessions
               /\ conns[c].session \in S => life[conns[c].session] # "new"
  BY DEF Kept, Records, Advance, AttemptShape, Untouched
<1>1. ASSUME NEW s \in Sessions, ConnectSession(s) PROVE Kept(S)'
  <2>1. s \in S => \A c \in Conns : conns[c].session # s
    BY <1>1 DEF ConnectSession, Kept, Records, Untouched
  <2>2. /\ StartConnection(s)
        /\ life' \in [Sessions -> {"new", "requested", "closed"}]
        /\ life'[s] # "new"
        /\ \A t \in Sessions : t # s => life'[t] = life[t]
    BY <1>0, <1>1 DEF ConnectSession, TypeOK
  <2>. QED BY <2>1, <2>2, StartKept
<1>2. ASSUME NEW s \in Sessions, DeregisterSession(s) PROVE Kept(S)'
  <2>1. sessions[s].tag \in {"connected", "reconnecting"} => sessions[s].host \in Hosts
    BY <1>0, StateCases DEF TypeOK
  <2>2. /\ \E E \in EventSet : Emit(E)
        /\ hostToSessions' \in [Hosts -> SUBSET Sessions]
    <3>1. /\ Event("SessionDisconnected", s) \in [type : EventTypes, about : Sessions \cup Hosts]
          /\ Event("SessionDeregistered", s) \in [type : EventTypes, about : Sessions \cup Hosts]
      BY EventType DEF EventTypes
    <3>2. CASE sessions[s].tag \in {"connected", "reconnecting"}
      <4>. DEFINE h == sessions[s].host
                  index == RemoveFromHostIndex(h, s)
      <4>1. /\ hostToSessions' = index
            /\ Emit({Event("SessionDisconnected", s),
                     Event("SessionDeregistered", s)} \cup HostGone(h, index))
        BY <1>2, <3>2 DEF DeregisterSession
      <4>2. HostGone(h, index) \in EventSet
        BY <2>1, <3>2, HostGoneType
      <4>. QED BY <1>0, <3>1, <4>1, <4>2 DEF EventSet, RemoveFromHostIndex, TypeOK
    <3>3. CASE sessions[s].tag \notin {"connected", "reconnecting"}
      BY <1>0, <1>2, <3>1, <3>3 DEF DeregisterSession, EventSet, TypeOK
    <3>. QED BY <3>2, <3>3
  <2>3. /\ life' \in [Sessions -> {"new", "requested", "closed"}]
        /\ life'[s] # "new"
        /\ \A t \in Sessions : t # s => life'[t] = life[t]
        /\ sessions' = [sessions EXCEPT ![s] = Untracked]
        /\ lastNav' \in [Sessions -> Paths \cup {None}]
        /\ bootstrapInfo' \subseteq Sessions
        /\ UNCHANGED <<conns, told, asked>>
    BY <1>0, <1>2 DEF DeregisterSession, TypeOK, ForgetPath
  <2>4. Untracked \in SessionStates /\ Untracked.tag # "connected"
    BY StateTypes DEF Untracked
  <2>. QED BY <1>0, <2>2, <2>3, <2>4, KeptEntryStep DEF TypeOK
<1>3. ASSUME NEW c \in Conns, TransportConnected(c) PROVE Kept(S)'
  <2>. DEFINE s == conns[c].session
  <2>0. /\ conns[c] \in ConnStates /\ conns[c].pc = "connect"
        /\ conns'[c] = [[conns[c] EXCEPT !.pc = "handshake"] EXCEPT !.stream = "open"]
        /\ \A d \in Conns : d # c => conns'[d] = conns[d]
        /\ conns' = [conns EXCEPT ![c] = conns'[c]]
    BY <1>0, <1>3 DEF TransportConnected, TypeOK
  <2>a. conns'[c] \in ConnStates /\ Advance(conns[c], conns'[c])
    BY <2>0 DEF ConnStates, Advance
  <2>1. /\ conns' \in [Conns -> ConnStates]
        /\ \A d \in Conns : Advance(conns[d], conns'[d])
    BY <1>0, <2>0, <2>a DEF TypeOK
  <2>2. /\ Initializing(c) \in SessionStates
        /\ Initializing(c).tag # "connected"
    BY StateTypes DEF Initializing
  <2>3. /\ sessions' = [sessions EXCEPT ![s] = Initializing(c)]
        /\ told' \subseteq Sessions
        /\ asked' \in [Sessions -> SUBSET Paths]
        /\ Emit({})
        /\ UNCHANGED <<hostToSessions, lastNav, bootstrapInfo, life>>
    BY <1>0, <1>3 DEF TransportConnected, TypeOK
  <2>4. s \in Sessions /\ (s \in S => life[s] # "new")
    BY <1>0, <2>0
  <2>. HIDE DEF s
  <2>. QED BY <1>0, <2>1, <2>2, <2>3, <2>4, NoEvents, KeptEntryStep DEF TypeOK
<1>4. ASSUME NEW c \in Conns, InitialConnectSucceeded(c) \/ ReconnectSucceeded(c) PROVE Kept(S)'
  <2>1. /\ conns[c].pc = "ok" /\ conns[c].host \in Hosts
        /\ conns[c].session \in Sessions
    BY <1>0, <1>4 DEF InitialConnectSucceeded, ReconnectSucceeded, Kept, Records, AttemptShape
  <2>2. {Event("SessionReconnected", conns[c].session)} \in EventSet
    BY <2>1, EventType DEF EventSet, EventTypes
  <2>. QED BY <1>4, <2>1, <2>2, NoEvents, MarkConnectedKept
           DEF InitialConnectSucceeded, ReconnectSucceeded
<1>5. ASSUME NEW c \in Conns, InitialConnectFailed(c) PROVE Kept(S)'
  <2>1. /\ conns[c].pc = "failed"
        /\ conns[c].session \in Sessions /\ (conns[c].session \in S => life[conns[c].session] # "new")
    BY <1>0, <1>5 DEF InitialConnectFailed
  <2>2. {Event("SessionConnectionFailed", conns[c].session)} \in EventSet
    BY <2>1, EventType DEF EventSet, EventTypes
  <2>3. /\ EndTask(c) \in [Conns -> ConnStates]
        /\ \A d \in Conns : Advance(conns[d], EndTask(c)[d])
        /\ \A d \in Conns : EndTask(c)[d].pc # "free"
              => conns[d].pc # "free" /\ EndTask(c)[d].session = conns[d].session
    BY <1>0, <2>1, EndTaskAdvances
  <2>. QED BY <1>5, <2>1, <2>2, <2>3, MarkDisconnectedKept DEF InitialConnectFailed
<1>6. ASSUME NEW c \in Conns, ReconnectRetries(c) PROVE Kept(S)'
  <2>. DEFINE s == conns[c].session  n == conns[c].attempt + 1  h == conns[c].host
  <2>1. /\ conns[c].pc = "failed" /\ conns[c].attempt > 0 /\ MayRetry(conns[c].attempt)
        /\ s \in Sessions /\ (s \in S => life[s] # "new") /\ h \in Hosts
        /\ AttemptReconnect(s, n, h, EndTask(c))
        /\ Emit({})
        /\ UNCHANGED <<hostToSessions, lastNav, bootstrapInfo, life, told, asked>>
    BY <1>0, <1>6 DEF ReconnectRetries, Kept, Records, AttemptShape
  <2>2. n \in 1..MaxReconnectAttempts /\ n \in 0..MaxReconnectAttempts
    BY <1>0, <2>1, MaxReconnectAssumption DEF MayRetry, TypeOK, ConnStates
  <2>3. PICK d \in Conns : conns' = [EndTask(c) EXCEPT ![d] = NewTask("delay", s, n, h)]
    BY <2>1, FreshAttempt
  <2>4. sessions' = [sessions EXCEPT ![s] = Reconnecting(n, h)]
    BY <2>1, FreshAttempt
  <2>5. /\ EndTask(c) \in [Conns -> ConnStates]
        /\ \A e \in Conns : Advance(conns[e], EndTask(c)[e])
        /\ s \in S =>
              \A e \in Conns : EndTask(c)[e].pc # "free" => EndTask(c)[e].session # s
    BY <1>0, <2>1, EndTaskAdvances DEF Kept, Records, Single, TaskRunning
  <2>6. /\ Reconnecting(n, h) \in SessionStates
        /\ Reconnecting(n, h).tag # "connected"
        /\ "delay" \in {"delay", "connect"}
    BY <2>1, <2>2, StateTypes DEF Reconnecting
  <2>. HIDE DEF s, n, h
  <2>. QED BY <1>0, <2>1, <2>2, <2>3, <2>4, <2>5, <2>6, NoEvents, KeptNewTaskStep DEF TypeOK
<1>7. ASSUME NEW c \in Conns, ReconnectExhausted(c) PROVE Kept(S)'
  <2>. DEFINE s == conns[c].session
  <2>1. /\ conns[c].pc = "failed"
        /\ s \in Sessions /\ (s \in S => life[s] # "new")
        /\ sessions' = [sessions EXCEPT ![s] = Disconnected]
        /\ conns' = EndTask(c)
        /\ Emit({Event("SessionDisconnected", s)})
        /\ UNCHANGED <<hostToSessions, lastNav, bootstrapInfo, life, told, asked>>
    BY <1>0, <1>7 DEF ReconnectExhausted
  <2>2. {Event("SessionDisconnected", s)} \in EventSet
    BY <2>1, EventType DEF EventSet, EventTypes
  <2>3. Disconnected \in SessionStates /\ Disconnected.tag # "connected"
    BY StateTypes DEF Disconnected
  <2>. HIDE DEF s
  <2>. QED BY <1>0, <2>1, <2>2, <2>3, EndTaskAdvances, KeptEntryStep DEF TypeOK
<1>8. ASSUME NEW c \in Conns, StreamCompleted(c) PROVE Kept(S)'
  <2>. DEFINE cs == [conns EXCEPT ![c] = Drained(@)]
  <2>1. /\ conns[c].stream # "none"
        /\ conns[c].session \in Sessions /\ (conns[c].session \in S => life[conns[c].session] # "new")
        /\ MarkSessionDisconnected(conns[c].session, cs, {})
        /\ UNCHANGED <<bootstrapInfo, life, told, asked>>
    BY <1>0, <1>8 DEF StreamCompleted
  <2>2. /\ cs \in [Conns -> ConnStates]
        /\ \A d \in Conns : Advance(conns[d], cs[d])
        /\ \A d \in Conns : cs[d].pc # "free"
              => conns[d].pc # "free" /\ cs[d].session = conns[d].session
    BY <1>0, <2>1, DrainAdvances
  <2>. HIDE DEF cs
  <2>. QED BY <2>1, <2>2, NoEvents, MarkDisconnectedKept
<1>. QED BY <1>1, <1>2, <1>3, <1>4, <1>5, <1>6, <1>7, <1>8

LEMMA KeptStep ==
    ASSUME NEW S \in SUBSET Sessions, Kept(S), [Next]_vars
    PROVE  Kept(S)'
<1>1. CASE UNCHANGED vars
  BY <1>1 DEF vars, Kept, Records, TypeOK, AttemptShape, Untouched,
              Single, TaskRunning, IsConnected
<1>2. CASE Next
  BY <1>2, KeptQuietActions, KeptLoudActions DEF Next, Caller, TaskStep, StreamStep
<1>. QED BY <1>1, <1>2

LEMMA CoreStep == Core /\ [Next]_vars => Core'
<1>. SUFFICES ASSUME Core, [Next]_vars PROVE Core'
  OBVIOUS
<1>1. Kept(Sessions)
  BY KeptForms
<1>2. Kept(Sessions)'
  BY <1>1, KeptStep
<1>. QED BY <1>2 DEF Kept, Records, Core, Untouched, NewIsUntouched, Single, OneAttemptPerSession,
              TaskRunning, AttemptShape

LEMMA RecordsStep == Records /\ [Next]_vars => Records'
<1>. SUFFICES ASSUME Records, [Next]_vars PROVE Records'
  OBVIOUS
<1>1. Kept({})
  BY KeptForms
<1>2. Kept({})'
  BY <1>1, KeptStep
<1>. QED BY <1>2 DEF Kept

THEOREM CoreInvariant == Spec => []Core
BY CoreInit, CoreStep, PTL DEF Spec

(* Types hold along every behaviour of the manager.                           *)
THEOREM TypeCorrect == Spec => []TypeOK
<1>1. Core => TypeOK
  BY DEF Core
<1>. QED BY <1>1, CoreInvariant, PTL

(* However drops, timeouts, retries and stale callbacks interleave, a session  *)
(* never has two connection attempts in flight, nor one while it is Connected. *)
THEOREM SingleAttempt == Spec => []OneAttemptPerSession
<1>1. Core => OneAttemptPerSession
  BY DEF Core
<1>. QED BY <1>1, CoreInvariant, PTL

----------------------------------------------------------------------------
LEMMA UntrackedTags ==
    /\ Untracked.tag # "connected" /\ Untracked.tag # "initializing"
    /\ Untracked.tag = "untracked"
BY DEF Untracked

(* Nobody comes back: no action enters a session into the map that was not in  *)
(* it, but for ConnectSession, which a closed session is past.                 *)
LEMMA ClosedStep ==
    ASSUME Core, Next, NEW s \in Sessions, life'[s] = "closed",
           life[s] = "closed" => sessions[s] = Untracked
    PROVE  sessions'[s] = Untracked
<1>. USE UntrackedTags
<1>0. sessions \in [Sessions -> SessionStates] /\ life \in [Sessions -> {"new", "requested", "closed"}]
  BY DEF Core, TypeOK
<1>1. ASSUME NEW t \in Sessions, DeregisterSession(t) PROVE sessions'[s] = Untracked
  BY <1>0, <1>1 DEF DeregisterSession
<1>2. ASSUME NEW t \in Sessions, ConnectSession(t) PROVE sessions'[s] = Untracked
  BY <1>0, <1>2 DEF ConnectSession, StartConnection
<1>3. ASSUME NEW t \in Sessions,
             NotifySessionBootstrapped(t) \/ \E p \in Paths : NavigateToDirectory(t, p)
      PROVE  sessions'[s] = Untracked
  BY <1>0, <1>3 DEF NotifySessionBootstrapped, NavigateToDirectory
<1>4. ASSUME NEW c \in Conns, TransportConnected(c) PROVE sessions'[s] = Untracked
  BY <1>0, <1>4 DEF TransportConnected, Tracked
<1>5. ASSUME NEW c \in Conns, InitialConnectSucceeded(c) \/ ReconnectSucceeded(c)
      PROVE  sessions'[s] = Untracked
  BY <1>0, <1>5 DEF InitialConnectSucceeded, ReconnectSucceeded, MarkSessionConnected
<1>6. ASSUME NEW c \in Conns, InitialConnectFailed(c) \/ StreamCompleted(c)
      PROVE  sessions'[s] = Untracked
  BY <1>0, <1>6 DEF InitialConnectFailed, StreamCompleted, MarkSessionDisconnected,
                    AttemptReconnect, ReconnectsFrom, IsConnected, Tracked
<1>7. ASSUME NEW c \in Conns, ReconnectRetries(c) \/ ReconnectExhausted(c)
      PROVE  sessions'[s] = Untracked
  BY <1>0, <1>7 DEF ReconnectRetries, ReconnectExhausted, AttemptReconnect, Tracked
<1>8. ASSUME NEW c \in Conns,
             \/ ReconnectDelayElapsed(c) \/ TransportConnectedTooLate(c)
             \/ TransportConnectFails(c) \/ HandshakeFails(c) \/ ReconnectAbandoned(c)
             \/ \E h \in Hosts : HandshakeSucceeds(c, h)
             \/ PushEvent(c) \/ StreamCloses(c)
      PROVE  sessions'[s] = Untracked
  BY <1>0, <1>8 DEF ReconnectDelayElapsed, TransportConnectedTooLate, TransportConnectFails,
       HandshakeFails, ReconnectAbandoned, HandshakeSucceeds, PushEvent, StreamCloses
<1>. QED
  BY <1>1, <1>2, <1>3, <1>4, <1>5, <1>6, <1>7, <1>8 DEF Next, Caller, TaskStep, StreamStep

(* A session whose shell exited stays out of the map, whatever attempt, timer  *)
(* or callback of it comes back later.                                        *)
THEOREM ClosedForGood == Spec => []ClosedStaysGone
<1>1. Init => ClosedStaysGone
  BY DEF Init, ClosedStaysGone
<1>2. Core /\ ClosedStaysGone /\ [Next]_vars => ClosedStaysGone'
  <2>. SUFFICES ASSUME Core, ClosedStaysGone, [Next]_vars PROVE ClosedStaysGone'
    OBVIOUS
  <2>1. CASE UNCHANGED vars
    BY <2>1 DEF vars, ClosedStaysGone
  <2>2. CASE Next
    BY <2>2, ClosedStep DEF ClosedStaysGone
  <2>. QED BY <2>1, <2>2
<1>. QED BY <1>1, <1>2, CoreInvariant, PTL DEF Spec

(* What is remembered of one session, its shell and its path.                 *)
CachesFit(s) ==
    /\ IsConnected(s) /\ s \in bootstrapInfo => s \in told
    /\ lastNav[s] # None => IsConnected(s) /\ lastNav[s] \in asked[s]

(* Forgetting always fits; so does leaving the caches of a session alone.      *)
LEMMA CachesStep ==
    ASSUME Core, Next, NEW s \in Sessions, CachesFit(s)
    PROVE  CachesFit(s)'
<1>. USE UntrackedTags DEF IsConnected
<1>0. /\ TypeOK
      /\ \A c \in Conns : conns[c].pc # "free" => conns[c].session \in Sessions
                                              /\ ~ IsConnected(conns[c].session)
      /\ \A t \in Sessions : life[t] = "new" => ~ IsConnected(t)
  BY DEF Core, AttemptShape, NewIsUntouched, OneAttemptPerSession, TaskRunning
<1>1. ASSUME NEW t \in Sessions, DeregisterSession(t) PROVE CachesFit(s)'
  BY <1>0, <1>1 DEF DeregisterSession, CachesFit, ForgetPath, TypeOK
<1>2. ASSUME NEW t \in Sessions, ConnectSession(t) PROVE CachesFit(s)'
  BY <1>0, <1>2 DEF ConnectSession, StartConnection, CachesFit, Connecting, TypeOK
<1>3. ASSUME NEW t \in Sessions, NotifySessionBootstrapped(t) PROVE CachesFit(s)'
  BY <1>0, <1>3 DEF NotifySessionBootstrapped, CachesFit
<1>4. ASSUME NEW t \in Sessions, NEW p \in Paths, NavigateToDirectory(t, p)
      PROVE  CachesFit(s)'
  BY <1>0, <1>4 DEF NavigateToDirectory, CachesFit, TypeOK
<1>5. ASSUME NEW c \in Conns, TransportConnected(c) PROVE CachesFit(s)'
  BY <1>0, <1>5 DEF TransportConnected, CachesFit, Initializing, TypeOK
<1>6. ASSUME NEW c \in Conns, InitialConnectSucceeded(c) \/ ReconnectSucceeded(c)
      PROVE  CachesFit(s)'
  <2>1. PICK h : \E E : MarkSessionConnected(conns[c].session, h, E)
    BY <1>6 DEF InitialConnectSucceeded, ReconnectSucceeded
  <2>2. /\ conns[c].pc # "free"
        /\ UNCHANGED <<lastNav, bootstrapInfo, asked>>
    BY <1>6 DEF InitialConnectSucceeded, ReconnectSucceeded
  <2>. QED BY <1>0, <2>1, <2>2 DEF MarkSessionConnected, CachesFit, ShellResent, TypeOK
<1>7. ASSUME NEW c \in Conns, InitialConnectFailed(c) \/ StreamCompleted(c)
      PROVE  CachesFit(s)'
  <2>. DEFINE t == conns[c].session
  <2>1. PICK cs, E : MarkSessionDisconnected(t, cs, E)
    BY <1>7 DEF InitialConnectFailed, StreamCompleted
  <2>2. UNCHANGED <<bootstrapInfo, told, asked>>
    BY <1>7 DEF InitialConnectFailed, StreamCompleted
  <2>3. CASE IsConnected(t)
    BY <1>0, <2>1, <2>2, <2>3 DEF MarkSessionDisconnected, AttemptReconnect, ReconnectsFrom,
         Reconnecting, Tracked, CachesFit, ForgetPath, TypeOK
  <2>4. CASE ~ IsConnected(t)
    BY <1>0, <2>1, <2>2, <2>4 DEF MarkSessionDisconnected, ReconnectsFrom,
         Disconnected, CachesFit, TypeOK
  <2>. QED BY <2>3, <2>4
<1>8. ASSUME NEW c \in Conns, ReconnectRetries(c) \/ ReconnectExhausted(c)
      PROVE  CachesFit(s)'
  BY <1>0, <1>8 DEF ReconnectRetries, ReconnectExhausted, AttemptReconnect, Reconnecting,
       Disconnected, CachesFit, TypeOK
<1>9. ASSUME NEW c \in Conns,
             \/ ReconnectDelayElapsed(c) \/ TransportConnectedTooLate(c)
             \/ TransportConnectFails(c) \/ HandshakeFails(c) \/ ReconnectAbandoned(c)
             \/ \E h \in Hosts : HandshakeSucceeds(c, h)
             \/ PushEvent(c) \/ StreamCloses(c)
      PROVE  CachesFit(s)'
  BY <1>9 DEF ReconnectDelayElapsed, TransportConnectedTooLate, TransportConnectFails,
       HandshakeFails, ReconnectAbandoned, HandshakeSucceeds, PushEvent, StreamCloses, CachesFit
<1>. QED
  BY <1>1, <1>2, <1>3, <1>4, <1>5, <1>6, <1>7, <1>8, <1>9
     DEF Next, Caller, TaskStep, StreamStep

(* What the manager remembers of a Connected session holds for the client it   *)
(* has now: its daemon was told of the shell, and a path that a repeated        *)
(* navigate_to_directory would skip was asked of it.                           *)
THEOREM CachesFollowClient == Spec => []CachesAreOfThisClient
<1>1. Init => CachesAreOfThisClient
  BY UntrackedTags DEF Init, CachesAreOfThisClient, IsConnected
<1>2. Core /\ CachesAreOfThisClient /\ [Next]_vars => CachesAreOfThisClient'
  <2>. SUFFICES ASSUME Core, CachesAreOfThisClient, [Next]_vars PROVE CachesAreOfThisClient'
    OBVIOUS
  <2>1. CASE UNCHANGED vars
    BY <2>1 DEF vars, CachesAreOfThisClient, IsConnected
  <2>2. CASE Next
    BY <2>2, CachesStep DEF CachesAreOfThisClient, CachesFit
  <2>. QED BY <2>1, <2>2
<1>. QED BY <1>1, <1>2, CoreInvariant, PTL DEF Spec

----------------------------------------------------------------------------
(* The hosts' side: every step moves at most one session into or out of one pool, *)
(* from which follow the exactness of the reverse index, the host events and the    *)
(* refinement of HostPresence.                                                *)

(* host_id_for_session                                                      *)
HostOf(s) == IF IsConnected(s) THEN sessions[s].host ELSE None

HostInv == HostIndexExact /\ ReposOnlyOfConnectedHosts

LEMMA IndexByHostOf ==
    ASSUME Core
    PROVE  HostIndexExact <=>
              \A h \in Hosts : hostToSessions[h] = {s \in Sessions : HostOf(s) = h}
BY NoneAssumption DEF HostIndexExact, HostOf

(* The three ways a step can look from the hosts' side.                     *)
Stays ==
    /\ UNCHANGED hostToSessions
    /\ \A t \in Sessions : HostOf(t)' = HostOf(t)
    /\ \/ \E E \in EventSet :
             /\ Emit(E)
             /\ \A h \in Hosts :
                   /\ Event("HostConnected", h) \notin E
                   /\ Event("HostDisconnected", h) \in E => hostToSessions[h] = {}
                   /\ Event("RepoMetadataSnapshot", h) \notin E
       \/ \E h \in Hosts : /\ \E t \in Sessions : HostOf(t) = h
                           /\ Emit({Event("RepoMetadataSnapshot", h)})

Joins(s, h) ==
    /\ HostOf(s) = None /\ HostOf(s)' = h
    /\ \A t \in Sessions : t # s => HostOf(t)' = HostOf(t)
    /\ hostToSessions' = [hostToSessions EXCEPT ![h] = @ \cup {s}]
    /\ \E E \in EventSet :
          /\ Emit(E)
          /\ \A g \in Hosts :
                /\ Event("HostConnected", g) \in E <=> g = h /\ hostToSessions[h] = {}
                /\ Event("HostDisconnected", g) \notin E
                /\ Event("RepoMetadataSnapshot", g) \notin E

Leaves(s, h) ==
    /\ HostOf(s) = h /\ HostOf(s)' = None
    /\ \A t \in Sessions : t # s => HostOf(t)' = HostOf(t)
    /\ hostToSessions' = RemoveFromHostIndex(h, s)
    /\ \E E \in EventSet :
          /\ Emit(E)
          /\ \A g \in Hosts :
                /\ Event("HostConnected", g) \notin E
                /\ Event("HostDisconnected", g) \in E
                      <=> g = h /\ hostToSessions[h] \ {s} = {}
                /\ Event("RepoMetadataSnapshot", g) \notin E

HostMove ==
    \/ Stays
    \/ \E s \in Sessions, h \in Hosts : Joins(s, h) \/ Leaves(s, h)

----------------------------------------------------------------------------
(* A step that keeps the map and the index and emits nothing about hosts.    *)
LEMMA QuietStays ==
    ASSUME UNCHANGED <<sessions, hostToSessions>>, Emit({})
    PROVE  Stays
BY NoEvents DEF Stays, HostOf, IsConnected

(* Rewriting an entry that is Connected neither before nor after.            *)
LEMMA EntryStays ==
    ASSUME TypeOK, NEW s \in Sessions, NEW x, x.tag # "connected", ~ IsConnected(s),
           sessions' = [sessions EXCEPT ![s] = x],
           UNCHANGED hostToSessions,
           NEW E \in EventSet, Emit(E),
           \A e \in E : e.type \notin {"HostConnected", "HostDisconnected",
                                       "RepoMetadataSnapshot"}
    PROVE  Stays
<1>1. \A t \in Sessions : HostOf(t)' = HostOf(t)
  BY DEF HostOf, IsConnected, TypeOK
<1>. QED BY <1>1 DEF Stays, Event

LEMMA TagsDiffer ==
    /\ Untracked.tag # "connected"
    /\ Connecting.tag # "connected"
    /\ Disconnected.tag # "connected"
    /\ \A c \in Conns : Initializing(c).tag # "connected"
    /\ \A n, h : Reconnecting(n, h).tag # "connected"
    /\ \A c, h : Connected(c, h).tag = "connected" /\ Connected(c, h).host = h
BY DEF Untracked, Connecting, Disconnected, Initializing, Reconnecting, Connected

LEMMA MarkConnectedMoves ==
    ASSUME TypeOK, NEW s \in Sessions, NEW h \in Hosts,
           NEW E \in EventSet, \A e \in E : e.type = "SessionReconnected",
           MarkSessionConnected(s, h, E),
           ~ IsConnected(s)
    PROVE  HostMove
<1>1. CASE sessions[s].tag = "initializing"
  <2>. DEFINE F == {Event("SessionConnected", s)} \cup E \cup
               (IF hostToSessions[h] = {} THEN {Event("HostConnected", h)} ELSE {})
  <2>1. /\ sessions' = [sessions EXCEPT ![s] = Connected(sessions[s].client, h)]
        /\ hostToSessions' = [hostToSessions EXCEPT ![h] = @ \cup {s}]
        /\ Emit(F)
    BY <1>1 DEF MarkSessionConnected
  <2>2. /\ HostOf(s) = None /\ HostOf(s)' = h
        /\ \A t \in Sessions : t # s => HostOf(t)' = HostOf(t)
    BY <2>1, TagsDiffer DEF HostOf, IsConnected, TypeOK
  <2>3. F \in EventSet
    BY EventType DEF EventSet, EventTypes
  <2>4. \A g \in Hosts :
           /\ Event("HostConnected", g) \in F <=> g = h /\ hostToSessions[h] = {}
           /\ Event("HostDisconnected", g) \notin F
           /\ Event("RepoMetadataSnapshot", g) \notin F
    BY DEF Event
  <2>. HIDE DEF F
  <2>5. Joins(s, h)
    BY <2>1, <2>2, <2>3, <2>4 DEF Joins
  <2>. QED BY <2>5 DEF HostMove
<1>2. CASE sessions[s].tag # "initializing"
  <2>1. /\ sessions' = [sessions EXCEPT ![s] = Untracked]
        /\ Emit({}) /\ UNCHANGED hostToSessions
    BY <1>2 DEF MarkSessionConnected
  <2>. QED BY <2>1, NoEvents, TagsDiffer, EntryStays DEF HostMove
<1>. QED BY <1>1, <1>2

(* A Connected session loses its connection or its entry.                    *)
LEMMA ConnectedLeaves ==
    ASSUME TypeOK, NEW s \in Sessions, IsConnected(s), sessions[s].host \in Hosts,
           NEW x, x.tag # "connected",
           sessions' = [sessions EXCEPT ![s] = x],
           NEW index, index = RemoveFromHostIndex(sessions[s].host, s),
           hostToSessions' = index,
           NEW E \in EventSet,
           \A e \in E : e.type \notin {"HostConnected", "HostDisconnected",
                                       "RepoMetadataSnapshot"},
           Emit(E \cup HostGone(sessions[s].host, index))
    PROVE  HostMove
<1>. DEFINE h == sessions[s].host
            F == E \cup HostGone(h, index)
<1>1. /\ HostOf(s) = h /\ HostOf(s)' = None
      /\ \A t \in Sessions : t # s => HostOf(t)' = HostOf(t)
  BY DEF HostOf, IsConnected, TypeOK
<1>2. index[h] = hostToSessions[h] \ {s}
  BY DEF RemoveFromHostIndex, TypeOK
<1>3. F \in EventSet
  BY HostGoneType DEF EventSet
<1>4. \A g \in Hosts :
         /\ Event("HostConnected", g) \notin F
         /\ Event("HostDisconnected", g) \in F <=> g = h /\ hostToSessions[h] \ {s} = {}
         /\ Event("RepoMetadataSnapshot", g) \notin F
  BY <1>2 DEF Event, HostGone
<1>5. Emit(F) /\ hostToSessions' = RemoveFromHostIndex(h, s) /\ h \in Hosts
  OBVIOUS
<1>. HIDE DEF F, h
<1>6. Leaves(s, h)
  BY <1>1, <1>3, <1>4, <1>5 DEF Leaves
<1>. QED BY <1>5, <1>6 DEF HostMove

LEMMA MarkDisconnectedMoves ==
    ASSUME TypeOK, NEW s \in Sessions, NEW cs, NEW E \in EventSet,
           \A e \in E : e.type = "SessionConnectionFailed",
           MarkSessionDisconnected(s, cs, E)
    PROVE  HostMove
<1>1. CASE ~ Tracked(s) /\ ~ IsConnected(s)
  <2>1. UNCHANGED <<sessions, hostToSessions>> /\ Emit(E)
    BY <1>1 DEF MarkSessionDisconnected, ReconnectsFrom
  <2>2. Stays
    BY <2>1 DEF Stays, HostOf, IsConnected, Event
  <2>. QED BY <2>2 DEF HostMove
<1>2. CASE Tracked(s) /\ ~ IsConnected(s)
  <2>1. /\ sessions' = [sessions EXCEPT ![s] = Disconnected]
        /\ Emit(E) /\ UNCHANGED hostToSessions
    BY <1>2 DEF MarkSessionDisconnected, ReconnectsFrom
  <2>. QED BY <1>2, <2>1, TagsDiffer, EntryStays DEF HostMove
<1>3. CASE IsConnected(s)
  <2>0. Tracked(s) /\ sessions[s].host \in Hosts
    BY <1>3, StateCases DEF IsConnected, Tracked, Untracked, TypeOK
  <2>. DEFINE h == sessions[s].host
              index == RemoveFromHostIndex(h, s)
  <2>1. /\ hostToSessions' = index
        /\ Emit(E \cup HostGone(h, index))
        /\ AttemptReconnect(s, 1, h, cs)
    BY <1>3, <2>0 DEF MarkSessionDisconnected, ReconnectsFrom
  <2>2. sessions' = [sessions EXCEPT ![s] = Reconnecting(1, h)]
    BY <2>1, FreshAttempt
  <2>3. \A e \in E : e.type \notin {"HostConnected", "HostDisconnected", "RepoMetadataSnapshot"}
    OBVIOUS
  <2>4. Reconnecting(1, h).tag # "connected"
    BY TagsDiffer
  <2>. QED BY <1>3, <2>0, <2>1, <2>2, <2>3, <2>4, ConnectedLeaves
<1>. QED BY <1>1, <1>2, <1>3
(* deregister_session: the entry is dropped whatever state it is in.  In the  *)
(* Reconnecting state the session is in no pool any more, so only a second    *)
(* HostDisconnected of an empty pool can come of it.                          *)
LEMMA DeregisterMoves ==
    ASSUME TypeOK, HostIndexExact, NEW s \in Sessions, DeregisterSession(s)
    PROVE  HostMove
<1>. DEFINE h == sessions[s].host
            index == RemoveFromHostIndex(h, s)
            E == {Event("SessionDisconnected", s), Event("SessionDeregistered", s)}
<1>0. /\ sessions' = [sessions EXCEPT ![s] = Untracked]
      /\ Untracked.tag # "connected"
      /\ E \in EventSet
      /\ \A e \in E : e.type \notin {"HostConnected", "HostDisconnected",
                                     "RepoMetadataSnapshot"}
  <2>1. /\ Event("SessionDisconnected", s) \in [type : EventTypes, about : Sessions \cup Hosts]
        /\ Event("SessionDeregistered", s) \in [type : EventTypes, about : Sessions \cup Hosts]
    BY EventType DEF EventTypes
  <2>2. /\ Event("SessionDisconnected", s).type = "SessionDisconnected"
        /\ Event("SessionDeregistered", s).type = "SessionDeregistered"
    BY DEF Event
  <2>. QED BY <2>1, <2>2, TagsDiffer DEF DeregisterSession, EventSet
<1>1. CASE sessions[s].tag = "connected"
  <2>1. h \in Hosts /\ IsConnected(s)
    BY <1>1, StateCases DEF TypeOK, IsConnected
  <2>2. hostToSessions' = index /\ Emit(E \cup HostGone(h, index))
    BY <1>1 DEF DeregisterSession
  <2>. HIDE DEF E
  <2>. QED BY <1>0, <2>1, <2>2, ConnectedLeaves
<1>2. CASE sessions[s].tag = "reconnecting"
  <2>1. h \in Hosts /\ ~ IsConnected(s)
    BY <1>2, StateCases DEF TypeOK, IsConnected
  <2>2. hostToSessions' = index /\ Emit(E \cup HostGone(h, index))
    BY <1>2 DEF DeregisterSession
  <2>3. s \notin hostToSessions[h]
    BY <2>1 DEF HostIndexExact
  <2>4. index = hostToSessions
    BY <2>1, <2>3 DEF RemoveFromHostIndex, TypeOK
  <2>5. \A t \in Sessions : HostOf(t)' = HostOf(t)
    BY <1>0, <2>1 DEF HostOf, IsConnected, TypeOK
  <2>6. E \cup HostGone(h, index) \in EventSet
    BY <1>0, <2>1, HostGoneType DEF EventSet
  <2>7. \A g \in Hosts :
           /\ Event("HostConnected", g) \notin E \cup HostGone(h, index)
           /\ Event("HostDisconnected", g) \in E \cup HostGone(h, index)
                 => hostToSessions[g] = {}
           /\ Event("RepoMetadataSnapshot", g) \notin E \cup HostGone(h, index)
    BY <2>4 DEF Event, HostGone
  <2>. HIDE DEF E, index
  <2>8. Stays
    BY <2>2, <2>4, <2>5, <2>6, <2>7 DEF Stays
  <2>. QED BY <2>8 DEF HostMove
<1>3. CASE sessions[s].tag \notin {"connected", "reconnecting"}
  <2>1. /\ Emit({Event("SessionDeregistered", s)})
        /\ UNCHANGED hostToSessions
        /\ ~ IsConnected(s)
    BY <1>3 DEF DeregisterSession, IsConnected
  <2>2. /\ {Event("SessionDeregistered", s)} \in EventSet
        /\ \A e \in {Event("SessionDeregistered", s)} :
              e.type \notin {"HostConnected", "HostDisconnected", "RepoMetadataSnapshot"}
    BY <1>0 DEF EventSet
  <2>3. Stays
    BY <1>0, <2>1, <2>2, EntryStays
  <2>. QED BY <2>3 DEF HostMove
<1>. QED BY <1>1, <1>2, <1>3

(* The snapshot a client pushes is of the host its session is Connected to.   *)
LEMMA PushStays ==
    ASSUME Core, NEW c \in Conns, PushEvent(c)
    PROVE  Stays
<1>. DEFINE s == conns[c].session
<1>1. s \in Sessions /\ UNCHANGED <<sessions, hostToSessions>>
  BY DEF PushEvent, Core, AttemptShape
<1>2. \A t \in Sessions : HostOf(t)' = HostOf(t)
  BY <1>1 DEF HostOf, IsConnected
<1>3. CASE IsConnected(s)
  <2>1. sessions[s].host \in Hosts /\ HostOf(s) = sessions[s].host
    BY <1>1, <1>3, StateCases DEF IsConnected, HostOf, Core, TypeOK
  <2>2. Emit({Event("RepoMetadataSnapshot", sessions[s].host)})
    BY <1>3 DEF PushEvent
  <2>. QED BY <1>1, <1>2, <2>1, <2>2 DEF Stays
<1>4. CASE ~ IsConnected(s)
  BY <1>1, <1>4, QuietStays DEF PushEvent
<1>. QED BY <1>3, <1>4

LEMMA NextMoves ==
    ASSUME Core, HostIndexExact, Next
    PROVE  HostMove
<1>0. /\ TypeOK
      /\ \A c \in Conns : conns[c].pc # "free" =>
            conns[c].session \in Sessions /\ ~ IsConnected(conns[c].session)
      /\ \A c \in Conns : conns[c].stream # "none" => conns[c].session \in Sessions
  BY DEF Core, AttemptShape, OneAttemptPerSession, TaskRunning
<1>1. ASSUME NEW s \in Sessions, Caller(s) PROVE HostMove
  <2>1. CASE ConnectSession(s)
    <3>1. /\ sessions' = [sessions EXCEPT ![s] = Connecting]
          /\ UNCHANGED hostToSessions
          /\ Emit({Event("SessionConnecting", s)})
          /\ ~ IsConnected(s)
      BY <2>1, TagsDiffer DEF ConnectSession, StartConnection, Core, NewIsUntouched, IsConnected
    <3>2. /\ {Event("SessionConnecting", s)} \in EventSet
          /\ \A e \in {Event("SessionConnecting", s)} :
                e.type \notin {"HostConnected", "HostDisconnected", "RepoMetadataSnapshot"}
      <4>1. Event("SessionConnecting", s) \in [type : EventTypes, about : Sessions \cup Hosts]
        BY EventType DEF EventTypes
      <4>. QED BY <4>1 DEF EventSet, Event
    <3>3. Stays
      BY <1>0, <3>1, <3>2, TagsDiffer, EntryStays
    <3>. QED BY <3>3 DEF HostMove
  <2>2. CASE DeregisterSession(s)
    BY <1>0, <2>2, DeregisterMoves
  <2>3. CASE NotifySessionBootstrapped(s) \/ \E p \in Paths : NavigateToDirectory(s, p)
    BY <2>3, QuietStays DEF NotifySessionBootstrapped, NavigateToDirectory, HostMove
  <2>. QED BY <1>1, <2>1, <2>2, <2>3 DEF Caller
<1>2. ASSUME NEW c \in Conns, TaskStep(c) PROVE HostMove
  <2>1. CASE \/ ReconnectDelayElapsed(c) \/ TransportConnectedTooLate(c)
             \/ TransportConnectFails(c) \/ HandshakeFails(c) \/ ReconnectAbandoned(c)
             \/ \E h \in Hosts : HandshakeSucceeds(c, h)
    BY <2>1, QuietStays
       DEF ReconnectDelayElapsed, TransportConnectedTooLate, TransportConnectFails,
           HandshakeFails, ReconnectAbandoned, HandshakeSucceeds, HostMove
  <2>2. CASE TransportConnected(c)
    <3>1. /\ sessions' = [sessions EXCEPT ![conns[c].session] = Initializing(c)]
          /\ UNCHANGED hostToSessions /\ Emit({}) /\ conns[c].pc # "free"
      BY <2>2 DEF TransportConnected
    <3>2. Stays
      BY <1>0, <3>1, NoEvents, TagsDiffer, EntryStays
    <3>. QED BY <3>2 DEF HostMove
  <2>3. CASE InitialConnectSucceeded(c) \/ ReconnectSucceeded(c)
    <3>. DEFINE s == conns[c].session
    <3>1. /\ s \in Sessions /\ ~ IsConnected(s) /\ conns[c].host \in Hosts
          /\ \/ MarkSessionConnected(s, conns[c].host, {})
             \/ MarkSessionConnected(s, conns[c].host, {Event("SessionReconnected", s)})
      BY <1>0, <2>3 DEF InitialConnectSucceeded, ReconnectSucceeded, Core, AttemptShape
    <3>2. /\ {Event("SessionReconnected", s)} \in EventSet
          /\ \A e \in {Event("SessionReconnected", s)} : e.type = "SessionReconnected"
      <4>1. Event("SessionReconnected", s) \in [type : EventTypes, about : Sessions \cup Hosts]
        BY <3>1, EventType DEF EventTypes
      <4>. QED BY <4>1 DEF EventSet, Event
    <3>. HIDE DEF s
    <3>. QED BY <1>0, <3>1, <3>2, NoEvents, MarkConnectedMoves
  <2>4. CASE InitialConnectFailed(c)
    <3>. DEFINE s == conns[c].session
    <3>1. /\ s \in Sessions
          /\ MarkSessionDisconnected(s, EndTask(c), {Event("SessionConnectionFailed", s)})
      BY <1>0, <2>4 DEF InitialConnectFailed
    <3>2. /\ {Event("SessionConnectionFailed", s)} \in EventSet
          /\ \A e \in {Event("SessionConnectionFailed", s)} : e.type = "SessionConnectionFailed"
      <4>1. Event("SessionConnectionFailed", s) \in [type : EventTypes, about : Sessions \cup Hosts]
        BY <3>1, EventType DEF EventTypes
      <4>. QED BY <4>1 DEF EventSet, Event
    <3>. HIDE DEF s
    <3>. QED BY <1>0, <3>1, <3>2, MarkDisconnectedMoves
  <2>5. CASE ReconnectRetries(c)
    <3>. DEFINE s == conns[c].session  n == conns[c].attempt + 1  h == conns[c].host
    <3>1. /\ AttemptReconnect(s, n, h, EndTask(c))
          /\ s \in Sessions /\ ~ IsConnected(s)
          /\ Emit({}) /\ UNCHANGED hostToSessions
      BY <1>0, <2>5 DEF ReconnectRetries
    <3>2. sessions' = [sessions EXCEPT ![s] = Reconnecting(n, h)]
      BY <3>1, FreshAttempt
    <3>3. Reconnecting(n, h).tag # "connected"
      BY TagsDiffer
    <3>. HIDE DEF s, n, h
    <3>4. Stays
      BY <1>0, <3>1, <3>2, <3>3, NoEvents, EntryStays
    <3>. QED BY <3>4 DEF HostMove
  <2>6. CASE ReconnectExhausted(c)
    <3>. DEFINE s == conns[c].session
    <3>1. /\ sessions' = [sessions EXCEPT ![s] = Disconnected]
          /\ s \in Sessions /\ ~ IsConnected(s)
          /\ Emit({Event("SessionDisconnected", s)}) /\ UNCHANGED hostToSessions
      BY <1>0, <2>6 DEF ReconnectExhausted
    <3>2. /\ {Event("SessionDisconnected", s)} \in EventSet
          /\ \A e \in {Event("SessionDisconnected", s)} :
                e.type \notin {"HostConnected", "HostDisconnected", "RepoMetadataSnapshot"}
      <4>1. Event("SessionDisconnected", s) \in [type : EventTypes, about : Sessions \cup Hosts]
        BY <3>1, EventType DEF EventTypes
      <4>. QED BY <4>1 DEF EventSet, Event
    <3>. HIDE DEF s
    <3>3. Stays
      BY <1>0, <3>1, <3>2, TagsDiffer, EntryStays
    <3>. QED BY <3>3 DEF HostMove
  <2>. QED BY <1>2, <2>1, <2>2, <2>3, <2>4, <2>5, <2>6 DEF TaskStep
<1>3. ASSUME NEW c \in Conns, StreamStep(c) PROVE HostMove
  <2>1. CASE PushEvent(c)
    BY <2>1, PushStays DEF HostMove
  <2>2. CASE StreamCloses(c)
    BY <2>2, QuietStays DEF StreamCloses, HostMove
  <2>3. CASE StreamCompleted(c)
    <3>1. /\ conns[c].session \in Sessions
          /\ MarkSessionDisconnected(conns[c].session, [conns EXCEPT ![c] = Drained(@)], {})
      BY <1>0, <2>3 DEF StreamCompleted
    <3>. QED BY <1>0, <3>1, NoEvents, MarkDisconnectedMoves
  <2>. QED BY <1>3, <2>1, <2>2, <2>3 DEF StreamStep
<1>. QED BY <1>1, <1>2, <1>3 DEF Next

----------------------------------------------------------------------------
(* From the three moves: the index stays exact and the file trees follow it.  *)
LEMMA StayEvents ==
    ASSUME Stays
    PROVE  /\ \A h \in Hosts : Event("HostConnected", h) \notin events'
           /\ \A h \in remoteRepos' : h \in remoteRepos \/ \E t \in Sessions : HostOf(t) = h
<1>. DEFINE Goal ==
        /\ \A h \in Hosts : Event("HostConnected", h) \notin events'
        /\ \A h \in remoteRepos' : h \in remoteRepos \/ \E t \in Sessions : HostOf(t) = h
<1>1. ASSUME NEW E \in EventSet, Emit(E),
             \A h \in Hosts : /\ Event("HostConnected", h) \notin E
                              /\ Event("RepoMetadataSnapshot", h) \notin E
      PROVE  Goal
  BY <1>1 DEF Emit
<1>2. ASSUME NEW g \in Hosts, NEW t \in Sessions, HostOf(t) = g,
             Emit({Event("RepoMetadataSnapshot", g)})
      PROVE  Goal
  <2>1. events' = {Event("RepoMetadataSnapshot", g)}
    BY <1>2 DEF Emit
  <2>2. \A h \in Hosts : Event("HostConnected", h) \notin events'
    BY <2>1 DEF Event
  <2>3. \A h \in remoteRepos' : h \in remoteRepos \/ h = g
    BY <1>2 DEF Emit, Event
  <2>. QED BY <1>2, <2>2, <2>3
<1>3. QED
  <2>. HIDE DEF Goal
  <2>1. Goal
    BY <1>1, <1>2 DEF Stays
  <2>. QED BY <2>1 DEF Goal

LEMMA MoveKeepsHostInv ==
    ASSUME Core, Core', HostInv, HostMove
    PROVE  HostInv'
<1>. USE DEF HostInv
<1>0. /\ \A h \in Hosts : hostToSessions[h] = {s \in Sessions : HostOf(s) = h}
      /\ HostIndexExact' <=>
            \A h \in Hosts : hostToSessions'[h] = {s \in Sessions : HostOf(s)' = h}
      /\ hostToSessions \in [Hosts -> SUBSET Sessions]
      /\ None \notin Hosts
  <2>1. HostIndexExact' <=>
            \A h \in Hosts : hostToSessions'[h] = {s \in Sessions : HostOf(s)' = h}
    BY NoneAssumption DEF HostIndexExact, HostOf
  <2>. QED BY <2>1, IndexByHostOf, NoneAssumption DEF Core, TypeOK
<1>1. CASE Stays
  <2>1. HostIndexExact'
    BY <1>0, <1>1 DEF Stays
  <2>2. \A h \in remoteRepos' : h \in remoteRepos \/ \E t \in Sessions : HostOf(t) = h
    BY <1>1, StayEvents
  <2>3. ReposOnlyOfConnectedHosts'
    BY <1>0, <1>1, <2>2 DEF Stays, ReposOnlyOfConnectedHosts, Core, TypeOK
  <2>. QED BY <2>1, <2>3
<1>2. ASSUME NEW s \in Sessions, NEW h \in Hosts, Joins(s, h) PROVE HostInv'
  <2>1. /\ hostToSessions'[h] = hostToSessions[h] \cup {s}
        /\ \A g \in Hosts : g # h => hostToSessions'[g] = hostToSessions[g]
    BY <1>0, <1>2 DEF Joins
  <2>2. HostIndexExact'
    BY <1>0, <1>2, <2>1 DEF Joins
  <2>3. ReposOnlyOfConnectedHosts'
    BY <1>2, <2>1 DEF Joins, Emit, ReposOnlyOfConnectedHosts
  <2>. QED BY <2>2, <2>3
<1>3. ASSUME NEW s \in Sessions, NEW h \in Hosts, Leaves(s, h) PROVE HostInv'
  <2>1. /\ hostToSessions'[h] = hostToSessions[h] \ {s}
        /\ \A g \in Hosts : g # h => hostToSessions'[g] = hostToSessions[g]
    BY <1>0, <1>3 DEF Leaves, RemoveFromHostIndex
  <2>2. HostIndexExact'
    BY <1>0, <1>3, <2>1 DEF Leaves
  <2>3. ReposOnlyOfConnectedHosts'
    BY <1>3, <2>1 DEF Leaves, Emit, ReposOnlyOfConnectedHosts
  <2>. QED BY <2>2, <2>3
<1>. QED BY <1>1, <1>2, <1>3 DEF HostMove

LEMMA HostInvInit == Init => HostInv
BY DEF Init, HostInv, HostIndexExact, ReposOnlyOfConnectedHosts, IsConnected, Untracked

LEMMA StutterStays ==
    ASSUME UNCHANGED vars, HostInv
    PROVE  HostInv'
BY DEF vars, HostInv, HostIndexExact, ReposOnlyOfConnectedHosts, IsConnected

LEMMA HostInvariant == Spec => [](Core /\ HostInv)
<1>1. Init => Core /\ HostInv
  BY CoreInit, HostInvInit
<1>2. Core /\ HostInv /\ [Next]_vars => (Core /\ HostInv)'
  <2>. SUFFICES ASSUME Core, HostInv, [Next]_vars PROVE Core' /\ HostInv'
    OBVIOUS
  <2>1. Core'
    BY CoreStep
  <2>2. CASE Next
    BY <2>1, <2>2, NextMoves, MoveKeepsHostInv DEF HostInv
  <2>3. CASE UNCHANGED vars
    BY <2>1, <2>3, StutterStays
  <2>. QED BY <2>1, <2>2, <2>3
<1>. QED BY <1>1, <1>2, PTL DEF Spec

(* The reverse index lists exactly the sessions Connected to each host.       *)
THEOREM IndexExact == Spec => []HostIndexExact
<1>1. Core /\ HostInv => HostIndexExact
  BY DEF HostInv
<1>. QED BY <1>1, HostInvariant, PTL

(* File trees are held only for hosts somebody is Connected to.               *)
THEOREM ReposFollowHosts == Spec => []ReposOnlyOfConnectedHosts
<1>1. Core /\ HostInv => ReposOnlyOfConnectedHosts
  BY DEF HostInv
<1>. QED BY <1>1, HostInvariant, PTL
----------------------------------------------------------------------------
(* Host events.                                                               *)

LEMMA MoveEvents ==
    ASSUME Core, HostInv, HostMove
    PROVE  \A h \in Hosts :
              /\ Event("HostConnected", h) \in events'
                    <=> hostToSessions[h] = {} /\ hostToSessions'[h] # {}
              /\ hostToSessions[h] # {} /\ hostToSessions'[h] = {}
                    => Event("HostDisconnected", h) \in events'
<1>0. hostToSessions \in [Hosts -> SUBSET Sessions]
  BY DEF Core, TypeOK
<1>1. CASE Stays
  <2>1. \A h \in Hosts : Event("HostConnected", h) \notin events'
    BY <1>1, StayEvents
  <2>. QED BY <1>1, <2>1 DEF Stays
<1>2. ASSUME NEW s \in Sessions, NEW g \in Hosts, Joins(s, g),
             NEW h \in Hosts
      PROVE  /\ Event("HostConnected", h) \in events'
                    <=> hostToSessions[h] = {} /\ hostToSessions'[h] # {}
             /\ hostToSessions'[h] = {} => hostToSessions[h] = {}
  <2>1. hostToSessions'[h] = IF h = g THEN hostToSessions[h] \cup {s} ELSE hostToSessions[h]
    BY <1>0, <1>2 DEF Joins
  <2>2. Event("HostConnected", h) \in events' <=> h = g /\ hostToSessions[g] = {}
    BY <1>2 DEF Joins, Emit
  <2>. QED BY <2>1, <2>2
<1>3. ASSUME NEW s \in Sessions, NEW g \in Hosts, Leaves(s, g),
             NEW h \in Hosts
      PROVE  /\ Event("HostConnected", h) \notin events'
             /\ hostToSessions[h] = {} => hostToSessions'[h] = {}
             /\ hostToSessions[h] # {} /\ hostToSessions'[h] = {}
                   => Event("HostDisconnected", h) \in events'
  <2>1. hostToSessions'[h] = IF h = g THEN hostToSessions[h] \ {s} ELSE hostToSessions[h]
    BY <1>0, <1>3 DEF Leaves, RemoveFromHostIndex
  <2>2. /\ Event("HostConnected", h) \notin events'
        /\ Event("HostDisconnected", h) \in events' <=> h = g /\ hostToSessions[g] \ {s} = {}
    BY <1>3 DEF Leaves, Emit
  <2>. QED BY <2>1, <2>2
<1>. QED BY <1>1, <1>2, <1>3 DEF HostMove

(* HostConnected is emitted exactly when a host's first session arrives, and   *)
(* the departure of its last one is always announced.                          *)
THEOREM HostEvents == Spec => HostEventsFollowIndex
<1>1. Core /\ HostInv /\ [Next]_vars
      => [\A h \in Hosts :
             /\ Event("HostConnected", h) \in events'
                   <=> hostToSessions[h] = {} /\ hostToSessions'[h] # {}
             /\ hostToSessions[h] # {} /\ hostToSessions'[h] = {}
                   => Event("HostDisconnected", h) \in events']_vars
  BY NextMoves, MoveEvents DEF HostInv
<1>. QED BY <1>1, HostInvariant, PTL DEF Spec, HostEventsFollowIndex

----------------------------------------------------------------------------
(* The refinement: Stays is a stutter or a Learn, Joins a Join, Leaves a      *)
(* Leave.                                                                     *)

LEMMA PresenceInit == Init => Presence!Init
BY DEF Init, Presence!Init

LEMMA StayRefines ==
    ASSUME Core, HostInv, Stays
    PROVE  [Presence!Next]_<<hostToSessions, remoteRepos>>
<1>0. /\ UNCHANGED hostToSessions
      /\ remoteRepos \subseteq Hosts
      /\ \A h \in remoteRepos : hostToSessions[h] # {}
  BY DEF Stays, Core, TypeOK, HostInv, ReposOnlyOfConnectedHosts
<1>1. ASSUME NEW E \in EventSet, Emit(E),
             \A h \in Hosts :
                /\ Event("HostDisconnected", h) \in E => hostToSessions[h] = {}
                /\ Event("RepoMetadataSnapshot", h) \notin E
      PROVE  remoteRepos' = remoteRepos
  BY <1>0, <1>1 DEF Emit
<1>2. ASSUME NEW h \in Hosts, NEW t \in Sessions, HostOf(t) = h,
             Emit({Event("RepoMetadataSnapshot", h)})
      PROVE  Presence!Learn(h)
  <2>1. hostToSessions[h] # {}
    BY <1>2, IndexByHostOf DEF HostInv
  <2>2. remoteRepos' = remoteRepos \cup {h}
    BY <1>0, <1>2 DEF Emit, Event
  <2>. QED BY <1>0, <2>1, <2>2 DEF Presence!Learn
<1>. QED BY <1>0, <1>1, <1>2 DEF Stays, Presence!Next

LEMMA JoinRefines ==
    ASSUME Core, HostInv, NEW s \in Sessions, NEW h \in Hosts, Joins(s, h)
    PROVE  Presence!Next
<1>1. \A g \in Hosts : s \notin hostToSessions[g]
  BY NoneAssumption, IndexByHostOf DEF Joins, HostInv
<1>2. remoteRepos' = remoteRepos
  <2>1. remoteRepos \subseteq Hosts
    BY DEF Core, TypeOK
  <2>. QED BY <2>1 DEF Joins, Emit
<1>3. Presence!Join(s, h)
  BY <1>1, <1>2 DEF Joins, Presence!Join
<1>. QED BY <1>3 DEF Presence!Next

LEMMA LeaveRefines ==
    ASSUME Core, HostInv, NEW s \in Sessions, NEW h \in Hosts, Leaves(s, h)
    PROVE  Presence!Next
<1>1. s \in hostToSessions[h]
  BY IndexByHostOf DEF Leaves, HostInv
<1>2. hostToSessions[h] \ {s} = {} <=> hostToSessions[h] = {s}
  BY <1>1
<1>3. remoteRepos' = IF hostToSessions[h] = {s} THEN remoteRepos \ {h} ELSE remoteRepos
  <2>1. remoteRepos \subseteq Hosts
    BY DEF Core, TypeOK
  <2>. QED BY <1>2, <2>1 DEF Leaves, Emit
<1>4. Presence!Leave(s, h)
  BY <1>1, <1>3 DEF Leaves, RemoveFromHostIndex, Presence!Leave
<1>. QED BY <1>4 DEF Presence!Next

LEMMA PresenceStep ==
    Core /\ HostInv /\ [Next]_vars
        => [Presence!Next]_<<hostToSessions, remoteRepos>>
<1>1. ASSUME Core, HostInv, Next
      PROVE  [Presence!Next]_<<hostToSessions, remoteRepos>>
  BY <1>1, NextMoves, StayRefines, JoinRefines, LeaveRefines DEF HostMove, HostInv
<1>. QED BY <1>1 DEF vars

(* Seen from the per-host models, the manager is HostPresence: sessions join   *)
(* and leave pools one at a time, and file trees come and go with the pool.    *)
THEOREM RefinesHostPresence == Spec => ImplementsHostPresence
BY PresenceInit, PresenceStep, HostInvariant, PTL DEF Spec, ImplementsHostPresence, Presence!Spec
===============================================================================
