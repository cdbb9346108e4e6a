---------------------- MODULE RemoteServerControllerProofs ----------------------
(***************************************************************************)
(* The RemoteServerController and the manager it drives, for any number of  *)
(* sessions, daemons, attempts and retries.                                 *)
(***************************************************************************)
EXTENDS RemoteServerController, RemoteServerManagerProofs

----------------------------------------------------------------------------
(* The controller's own types; those of the manager come with Records.        *)
PaneTypes ==
    /\ \/ ctl = Idle
       \/ ctl \in [tag : {"check", "choice", "install", "connect"},
                   session : Sessions, stash : Sessions]
    /\ started \subseteq Sessions
    /\ shell \in started \cup {None}
    /\ script \in [Sessions -> 0..3]
    /\ blocks \subseteq Sessions
    /\ checks \subseteq Sessions
    /\ installs \subseteq Sessions
    /\ misused \subseteq Sessions
    /\ inherited \subseteq Sessions
    /\ discarded \subseteq Sessions

LEMMA FlushedType ==
    ASSUME PaneTypes, NEW sh \in Sessions \cup {None}
    PROVE  /\ Flushed(sh) \in [Sessions -> 0..3]
           /\ \A s \in Sessions : s # sh => Flushed(sh)[s] = script[s]
           /\ sh # None => Flushed(sh)[sh] \in 1..script[sh] + 1
BY DEF PaneTypes, Flushed

LEMMA StateTags ==
    /\ Idle.tag = "idle" /\ Idle.session = None /\ Idle.stash = None
    /\ \A s : /\ AwaitingCheck(s).tag = "check"
              /\ AwaitingCheck(s).session = s /\ AwaitingCheck(s).stash = s
    /\ \A s : /\ AwaitingUserChoice(s).tag = "choice"
              /\ AwaitingUserChoice(s).session = s /\ AwaitingUserChoice(s).stash = s
    /\ \A s, st : /\ AwaitingInstall(s, st).tag = "install"
                  /\ AwaitingInstall(s, st).session = s /\ AwaitingInstall(s, st).stash = st
    /\ \A s, st : /\ AwaitingConnect(s, st).tag = "connect"
                  /\ AwaitingConnect(s, st).session = s /\ AwaitingConnect(s, st).stash = st
BY DEF Idle, AwaitingCheck, AwaitingUserChoice, AwaitingInstall, AwaitingConnect

LEMMA AwaitingTypes ==
    ASSUME NEW s \in Sessions, NEW st \in Sessions,
           NEW x \in {AwaitingCheck(s), AwaitingUserChoice(s), AwaitingInstall(s, st),
                      AwaitingConnect(s, st)}
    PROVE  x \in [tag : {"check", "choice", "install", "connect"},
                  session : Sessions, stash : Sessions]
BY DEF AwaitingCheck, AwaitingUserChoice, AwaitingInstall, AwaitingConnect

(* Whoever waits for something knows for whom.                                *)
LEMMA WaitsForSession ==
    ASSUME PaneTypes, ctl.tag # "idle"
    PROVE  ctl.session \in Sessions /\ ctl.stash \in Sessions
BY StateTags DEF PaneTypes

LEMMA CheckState ==
    ASSUME NEW s, CheckAwaited(s)
    PROVE  ctl.tag = "check" /\ ctl.session = s /\ ctl.stash = s
BY StateTags DEF CheckAwaited

(* on_session_connected and on_session_connection_failed: two outcomes.        *)
LEMMA Reactions ==
    ASSUME PaneTypes, NEW E, ReactTo(E)
    PROVE  /\ ctl' = Idle \/ ctl' = ctl
           /\ script' \in [Sessions -> 0..3]
<1>1. shell \in Sessions \cup {None}
  BY DEF PaneTypes
<1>. QED BY <1>1, FlushedType DEF ReactTo, AfterOutcome, PaneTypes

(* The pane keeps its types in every step.                                    *)
LEMMA PaneTypesStep ==
    ASSUME PaneTypes, CtlNext
    PROVE  PaneTypes'
<1>. DEFINE Goal == PaneTypes'
            States == [tag : {"check", "choice", "install", "connect"},
                       session : Sessions, stash : Sessions]
<1>. USE DEF history
<1>0. /\ shell \in Sessions \cup {None}
      /\ ctl.tag # "idle" => ctl.session \in Sessions /\ ctl.stash \in Sessions
  BY WaitsForSession DEF PaneTypes
<1>1. ASSUME NEW s \in Sessions, SshInitShell(s) PROVE Goal
  <2>1. script' \in [Sessions -> 0..3]
    BY <1>1, FlushedType DEF SshInitShell, ScriptAtInit, PaneTypes
  <2>2. ctl' \in States
    BY <1>1, AwaitingTypes DEF SshInitShell
  <2>. QED BY <1>1, <2>1, <2>2 DEF SshInitShell, PaneTypes
<1>2. ASSUME ExitShell PROVE Goal
  <2>1. (ctl' = Idle \/ ctl' = ctl) /\ script' \in [Sessions -> 0..3]
    BY <1>2, Reactions DEF ExitShell
  <2>. QED BY <1>2, <2>1 DEF ExitShell, PaneTypes
<1>3. ASSUME ConnectionDrops PROVE Goal
  BY <1>3 DEF ConnectionDrops, PaneTypes
<1>4. ASSUME ShellBootstrapped PROVE Goal
  BY <1>4 DEF ShellBootstrapped, paneVars, PaneTypes
<1>5. ASSUME NEW s \in Sessions, CheckIgnored(s) PROVE Goal
  BY <1>5 DEF CheckIgnored, PaneTypes
<1>6. ASSUME NEW s \in Sessions, CheckFinds(s) PROVE Goal
  <2>1. ctl' \in States
    BY <1>6, AwaitingTypes, CheckState DEF CheckFinds
  <2>. QED BY <1>6, <2>1 DEF CheckFinds, Connect, PaneTypes
<1>7. ASSUME NEW s \in Sessions, CheckAsks(s) PROVE Goal
  <2>1. ctl' \in States
    BY <1>7, AwaitingTypes, CheckState DEF CheckAsks
  <2>. QED BY <1>7, <2>1 DEF CheckAsks, PaneTypes
<1>8. ASSUME NEW s \in Sessions, CheckInstalls(s) PROVE Goal
  <2>1. ctl' \in States
    BY <1>8, AwaitingTypes, CheckState DEF CheckInstalls
  <2>. QED BY <1>8, <2>1 DEF CheckInstalls, PaneTypes
<1>9. ASSUME NEW s \in Sessions, CheckGivesUp(s) PROVE Goal
  BY <1>0, <1>9, FlushedType DEF CheckGivesUp, ScriptAfterCheck, PaneTypes
<1>10. ASSUME NEW s \in Sessions, InstallClicked(s) PROVE Goal
  <2>1. CASE ctl.tag = "choice"
    <3>1. ctl' = AwaitingInstall(s, ctl.stash) /\ installs' = installs \cup {s}
      BY <1>10, <2>1 DEF InstallClicked
    <3>2. ctl' \in States
      BY <1>0, <2>1, <3>1, AwaitingTypes
    <3>. QED BY <1>10, <3>1, <3>2 DEF InstallClicked, PaneTypes
  <2>2. CASE ctl.tag # "choice"
    BY <1>10, <2>2 DEF InstallClicked, PaneTypes
  <2>. QED BY <2>1, <2>2
<1>11. ASSUME NEW s \in Sessions, SkipClicked(s) PROVE Goal
  BY <1>0, <1>11, FlushedType DEF SkipClicked, PaneTypes
<1>12. ASSUME NEW s \in Sessions, InstallSucceeds(s) PROVE Goal
  <2>1. ctl' \in States
    BY <1>0, <1>12, AwaitingTypes DEF InstallSucceeds
  <2>. QED BY <1>12, <2>1 DEF InstallSucceeds, Connect, PaneTypes
<1>13. ASSUME NEW s \in Sessions, InstallFails(s) PROVE Goal
  BY <1>0, <1>13, FlushedType DEF InstallFails, AfterInstallFailure, PaneTypes
<1>14. ASSUME NEW s \in Sessions, InstallIgnored(s) PROVE Goal
  BY <1>14 DEF InstallIgnored, PaneTypes
<1>15. ASSUME NEW c \in Conns, ManagerStep(c) PROVE Goal
  <2>1. (ctl' = Idle \/ ctl' = ctl) /\ script' \in [Sessions -> 0..3]
    BY <1>15, Reactions DEF ManagerStep
  <2>. QED BY <1>15, <2>1 DEF ManagerStep, PaneTypes
<1>. HIDE DEF Goal
<1>16. Goal
  BY <1>1, <1>2, <1>3, <1>4, <1>5, <1>6, <1>7, <1>8, <1>9, <1>10, <1>11, <1>12, <1>13, <1>14,
     <1>15 DEF CtlNext, CheckCompletes, InstallCompletes
<1>. QED BY <1>16 DEF Goal

----------------------------------------------------------------------------
(* Every step of the pane is, for the manager, one of its own or none, but for *)
(* the connecting of a session that is not new.                                *)
LEMMA ManagerStepsOnly ==
    ASSUME PaneTypes, CtlNext
    PROVE  \/ (Next \/ UNCHANGED vars) /\ UNCHANGED misused
           \/ \E s \in Sessions :
                 /\ StartConnection(s) /\ life[s] # "new"
                 /\ misused' = misused \cup {s}
                 /\ UNCHANGED life
<1>. DEFINE Again(s) == /\ StartConnection(s) /\ life[s] # "new"
                        /\ misused' = misused \cup {s}
                        /\ UNCHANGED life
            Goal == \/ (Next \/ UNCHANGED vars) /\ UNCHANGED misused
                    \/ \E s \in Sessions : Again(s)
<1>. USE DEF managerVars, history, paneVars
<1>1. ASSUME NEW s \in Sessions,
             SshInitShell(s) \/ CheckIgnored(s) \/ CheckAsks(s) \/ CheckInstalls(s)
               \/ CheckGivesUp(s) \/ InstallClicked(s) \/ SkipClicked(s)
               \/ InstallFails(s) \/ InstallIgnored(s)
      PROVE  Goal
  BY <1>1 DEF SshInitShell, CheckIgnored, CheckAsks, CheckInstalls, CheckGivesUp,
       InstallClicked, SkipClicked, InstallFails, InstallIgnored
<1>2. ASSUME ConnectionDrops PROVE Goal
  BY <1>2 DEF ConnectionDrops
<1>3. ASSUME NEW s \in Sessions, CheckFinds(s) \/ InstallSucceeds(s) PROVE Goal
  <2>1. (ConnectSession(s) /\ UNCHANGED misused) \/ Again(s)
    BY <1>3 DEF CheckFinds, InstallSucceeds, Connect
  <2>. HIDE DEF Again
  <2>. QED BY <2>1 DEF Next, Caller
<1>4. ASSUME ExitShell \/ ShellBootstrapped PROVE Goal
  <2>1. shell \in Sessions
    BY <1>4 DEF ExitShell, ShellBootstrapped, PaneTypes
  <2>2. DeregisterSession(shell) \/ NotifySessionBootstrapped(shell)
    BY <1>4 DEF ExitShell, ShellBootstrapped
  <2>3. UNCHANGED misused
    BY <1>4 DEF ExitShell, ShellBootstrapped
  <2>. QED BY <2>1, <2>2, <2>3 DEF Next, Caller
<1>5. ASSUME NEW c \in Conns, ManagerStep(c) PROVE Goal
  BY <1>5 DEF ManagerStep, Next, StreamStep
<1>. HIDE DEF Goal
<1>6. Goal
  BY <1>1, <1>2, <1>3, <1>4, <1>5 DEF CtlNext, CheckCompletes, InstallCompletes
<1>. QED BY <1>6 DEF Goal

(* The manager's records are well formed, and those of a session that is        *)
(* connected in good order are all that RemoteServerManager promises.           *)
InGoodOrder == Kept(Sessions \ misused)

LEMMA InGoodOrderStep ==
    ASSUME PaneTypes, InGoodOrder, CtlNext
    PROVE  InGoodOrder'
<1>1. PICK S \in SUBSET Sessions : S = Sessions \ misused
  OBVIOUS
<1>2. Kept(S)
  BY <1>1 DEF InGoodOrder
<1>3. CASE (Next \/ UNCHANGED vars) /\ UNCHANGED misused
  <2>1. Kept(S)'
    BY <1>2, <1>3, KeptStep
  <2>. QED BY <1>1, <1>3, <2>1 DEF InGoodOrder
<1>4. ASSUME NEW s \in Sessions, StartConnection(s), misused' = misused \cup {s},
             UNCHANGED life
      PROVE  InGoodOrder'
  <2>1. PICK T \in SUBSET Sessions : T = S \ {s}
    OBVIOUS
  <2>2. Kept(T)
    BY <1>2, <2>1 DEF Kept, Untouched, Single
  <2>3. /\ life' \in [Sessions -> {"new", "requested", "closed"}]
        /\ \A t \in Sessions : t # s => life'[t] = life[t]
    BY <1>2, <1>4 DEF Kept, Records, TypeOK
  <2>4. Kept(T)'
    BY <1>4, <2>1, <2>2, <2>3, StartKept
  <2>5. T = Sessions \ misused'
    BY <1>1, <1>4, <2>1
  <2>. QED BY <2>4, <2>5 DEF InGoodOrder
<1>. QED BY <1>3, <1>4, ManagerStepsOnly

LEMMA PaneInit == CtlInit => PaneTypes /\ InGoodOrder
<1>. SUFFICES ASSUME CtlInit PROVE PaneTypes /\ InGoodOrder
  OBVIOUS
<1>1. script \in [Sessions -> 0..3]
  BY DEF CtlInit
<1>2. PaneTypes
  BY <1>1 DEF CtlInit, PaneTypes
<1>3. Kept(Sessions)
  BY CoreInit, KeptForms DEF CtlInit
<1>4. Sessions \ misused = Sessions
  BY DEF CtlInit
<1>. QED BY <1>2, <1>3, <1>4 DEF InGoodOrder

LEMMA PaneInvariant == CtlSpec => [](PaneTypes /\ InGoodOrder)
<1>1. PaneTypes /\ InGoodOrder /\ [CtlNext]_ctlVars => PaneTypes' /\ InGoodOrder'
  <2>1. PaneTypes /\ InGoodOrder /\ CtlNext => PaneTypes' /\ InGoodOrder'
    BY PaneTypesStep, InGoodOrderStep
  <2>2. PaneTypes /\ UNCHANGED ctlVars => PaneTypes'
    BY DEF PaneTypes, ctlVars, paneVars, history
  <2>3. InGoodOrder /\ UNCHANGED ctlVars => InGoodOrder'
    BY DEF InGoodOrder, ctlVars, vars, paneVars, history, Kept, Records, TypeOK,
       AttemptShape, Untouched, Single, TaskRunning, IsConnected
  <2>. QED BY <2>1, <2>2, <2>3
<1>. QED BY PaneInit, <1>1, PTL DEF CtlSpec

(* Types of controller and manager together.                                   *)
THEOREM CtlTypeCorrect == CtlSpec => []CtlTypeOK
<1>1. PaneTypes /\ InGoodOrder => CtlTypeOK
  BY DEF PaneTypes, InGoodOrder, Kept, Records, CtlTypeOK
<1>. QED BY <1>1, PaneInvariant, PTL

----------------------------------------------------------------------------
(* The first attempts of sessions: those of connect_session.                  *)
First(cs, d) == cs[d].pc # "free" /\ cs[d].attempt = 0

LEMMA EndedTask ==
    ASSUME Records, NEW c \in Conns, conns[c].pc # "free"
    PROVE  \A d \in Conns : First(EndTask(c), d) => d # c /\ EndTask(c)[d] = conns[d]
BY EndTaskAdvances DEF First

(* A reconnect is nobody's first attempt.                                      *)
LEMMA Retried ==
    ASSUME NEW cs \in [Conns -> ConnStates], NEW s, NEW n \in Nat \ {0}, NEW h,
           AttemptReconnect(s, n, h, cs)
    PROVE  \A d \in Conns : First(conns', d) => conns'[d] = cs[d]
<1>1. PICK d \in Conns : conns' = [cs EXCEPT ![d] = NewTask("delay", s, n, h)]
  BY FreshAttempt
<1>2. \A e \in Conns : conns'[e] = IF e = d THEN NewTask("delay", s, n, h) ELSE cs[e]
  BY <1>1
<1>3. NewTask("delay", s, n, h).attempt # 0
  BY DEF NewTask
<1>. QED BY <1>2, <1>3 DEF First

LEMMA DisconnectedFirst ==
    ASSUME NEW s, NEW cs \in [Conns -> ConnStates], NEW E,
           MarkSessionDisconnected(s, cs, E)
    PROVE  \A d \in Conns : First(conns', d) => conns'[d] = cs[d]
<1>1. ASSUME AttemptReconnect(s, 1, sessions[s].host, cs)
      PROVE  \A d \in Conns : First(conns', d) => conns'[d] = cs[d]
  BY <1>1, Retried
<1>2. conns' = cs \/ AttemptReconnect(s, 1, sessions[s].host, cs)
  BY DEF MarkSessionDisconnected
<1>. QED BY <1>1, <1>2

(* What the manager does by itself begins no first attempt.                    *)
LEMMA FirstAttempts ==
    ASSUME Records, NEW c \in Conns, TaskStep(c) \/ StreamCloses(c) \/ StreamCompleted(c)
    PROVE  /\ UNCHANGED life
           /\ \A d \in Conns : First(conns', d) =>
                 First(conns, d) /\ conns'[d].session = conns[d].session
<1>. DEFINE Goal == \A d \in Conns : First(conns', d) =>
                       First(conns, d) /\ conns'[d].session = conns[d].session
<1>0. conns \in [Conns -> ConnStates]
  BY DEF Records, TypeOK
<1>1. ASSUME StreamCloses(c) \/ TransportConnected(c) PROVE Goal
  BY <1>0, <1>1 DEF StreamCloses, TransportConnected, First, ConnStates
<1>2. ASSUME \/ TransportConnectedTooLate(c) \/ TransportConnectFails(c) \/ HandshakeFails(c)
             \/ \E h \in Hosts : HandshakeSucceeds(c, h)
      PROVE  Goal
  BY <1>0, <1>2 DEF TransportConnectedTooLate, TransportConnectFails, HandshakeFails,
       HandshakeSucceeds, First, ConnStates
<1>3. ASSUME ReconnectDelayElapsed(c) PROVE Goal
  <2>1. conns[c].pc = "delay" /\ (conns' = EndTask(c) \/ conns' = [conns EXCEPT ![c].pc = "connect"])
    BY <1>3 DEF ReconnectDelayElapsed, AfterDelay
  <2>2. CASE conns' = EndTask(c)
    BY <2>1, <2>2, EndedTask DEF First
  <2>3. CASE conns' = [conns EXCEPT ![c].pc = "connect"]
    BY <1>0, <2>1, <2>3 DEF First, ConnStates
  <2>. QED BY <2>1, <2>2, <2>3
<1>4. ASSUME \/ InitialConnectSucceeded(c) \/ ReconnectAbandoned(c) \/ ReconnectSucceeded(c)
             \/ ReconnectExhausted(c)
      PROVE  Goal
  <2>1. conns[c].pc # "free" /\ conns' = EndTask(c)
    BY <1>4 DEF InitialConnectSucceeded, ReconnectAbandoned, ReconnectSucceeded,
         ReconnectExhausted
  <2>. QED BY <2>1, EndedTask DEF First
<1>5. ASSUME InitialConnectFailed(c) PROVE Goal
  <2>1. /\ conns[c].pc # "free"
        /\ MarkSessionDisconnected(conns[c].session, EndTask(c),
                                   {Event("SessionConnectionFailed", conns[c].session)})
    BY <1>5 DEF InitialConnectFailed
  <2>2. EndTask(c) \in [Conns -> ConnStates]
    BY <2>1, EndTaskAdvances
  <2>3. \A d \in Conns : First(conns', d) => conns'[d] = EndTask(c)[d]
    BY <2>1, <2>2, DisconnectedFirst
  <2>4. \A d \in Conns : First(EndTask(c), d) => EndTask(c)[d] = conns[d]
    BY <2>1, EndedTask
  <2>. QED BY <2>3, <2>4 DEF First
<1>6. ASSUME ReconnectRetries(c) PROVE Goal
  <2>1. /\ conns[c].pc # "free"
        /\ AttemptReconnect(conns[c].session, conns[c].attempt + 1, conns[c].host, EndTask(c))
    BY <1>6 DEF ReconnectRetries
  <2>2. EndTask(c) \in [Conns -> ConnStates]
    BY <2>1, EndTaskAdvances
  <2>3. conns[c].attempt + 1 \in Nat \ {0}
    BY <1>0, MaxReconnectAssumption DEF ConnStates
  <2>4. \A d \in Conns : First(conns', d) => conns'[d] = EndTask(c)[d]
    BY <2>1, <2>2, <2>3, Retried
  <2>5. \A d \in Conns : First(EndTask(c), d) => EndTask(c)[d] = conns[d]
    BY <2>1, EndedTask
  <2>. QED BY <2>4, <2>5 DEF First
<1>7. ASSUME StreamCompleted(c) PROVE Goal
  <2>. DEFINE cs == [conns EXCEPT ![c] = Drained(@)]
  <2>1. conns[c].stream # "none" /\ MarkSessionDisconnected(conns[c].session, cs, {})
    BY <1>7 DEF StreamCompleted
  <2>2. cs \in [Conns -> ConnStates]
    BY <2>1, DrainAdvances
  <2>3. \A d \in Conns : First(conns', d) => conns'[d] = cs[d]
    BY <2>1, <2>2, DisconnectedFirst
  <2>4. \A d \in Conns : First(cs, d) => First(conns, d) /\ cs[d].session = conns[d].session
    BY <1>0 DEF Drained, FreeConn, First, ConnStates
  <2>. HIDE DEF cs
  <2>. QED BY <2>3, <2>4 DEF First
<1>8. UNCHANGED life
  BY DEF TaskStep, ReconnectDelayElapsed, TransportConnected, TransportConnectedTooLate,
     TransportConnectFails, HandshakeFails, HandshakeSucceeds, InitialConnectSucceeded,
     InitialConnectFailed, ReconnectAbandoned, ReconnectSucceeded, ReconnectRetries,
     ReconnectExhausted, StreamCloses, StreamCompleted
<1>. HIDE DEF Goal
<1>9. Goal
  BY <1>1, <1>2, <1>3, <1>4, <1>5, <1>6, <1>7 DEF TaskStep
<1>. QED BY <1>8, <1>9 DEF Goal

(* Who has lost its client says that its host is gone, and nothing of a first  *)
(* attempt but what its caller says.                                           *)
LEMMA DisconnectedSays ==
    ASSUME NEW s, NEW cs, NEW E, MarkSessionDisconnected(s, cs, E)
    PROVE  \A e \in events' : e \in E \/ e.type = "HostDisconnected"
BY DEF MarkSessionDisconnected, Emit, HostGone, Event

(* mark_session_connected announces its own session, and only from Initializing. *)
LEMMA ConnectedSays ==
    ASSUME NEW s, NEW h, NEW E, MarkSessionConnected(s, h, E)
    PROVE  \A e \in events' :
              \/ e = Event("SessionConnected", s)
              \/ e \in E
              \/ e.type = "HostConnected"
BY DEF MarkSessionConnected, Emit, Event

(* Only the end of an attempt announces an outcome, that of its own session.   *)
LEMMA WhoAnnounces ==
    ASSUME Records, NEW c \in Conns, TaskStep(c) \/ StreamCloses(c) \/ StreamCompleted(c),
           NEW s \in Sessions, OutcomeFor(s, events')
    PROVE  /\ conns[c].pc # "free"
           /\ conns[c].session = s
           /\ \A d \in Conns : First(conns', d) => d # c /\ conns'[d] = conns[d]
<1>. DEFINE Goal == /\ conns[c].pc # "free"
                    /\ conns[c].session = s
                    /\ \A d \in Conns : First(conns', d) => d # c /\ conns'[d] = conns[d]
<1>1. PICK e \in events' : /\ e.type \in {"SessionConnected", "SessionConnectionFailed"}
                           /\ e.about = s
  BY DEF OutcomeFor
<1>2. events' # {}
  BY <1>1
<1>3. ASSUME \/ ReconnectDelayElapsed(c) \/ TransportConnected(c)
             \/ TransportConnectedTooLate(c) \/ TransportConnectFails(c) \/ HandshakeFails(c)
             \/ \E h \in Hosts : HandshakeSucceeds(c, h)
      PROVE  FALSE
  BY <1>2, <1>3 DEF Emit, ReconnectDelayElapsed, TransportConnected,
       TransportConnectedTooLate, TransportConnectFails, HandshakeFails, HandshakeSucceeds
<1>4. ASSUME ReconnectAbandoned(c) \/ ReconnectRetries(c) \/ StreamCloses(c) PROVE FALSE
  BY <1>2, <1>4 DEF Emit, ReconnectAbandoned, ReconnectRetries, StreamCloses
<1>5. ASSUME ReconnectExhausted(c) PROVE FALSE
  BY <1>1, <1>5 DEF Emit, Event, ReconnectExhausted
<1>6. ASSUME StreamCompleted(c) PROVE FALSE
  <2>1. MarkSessionDisconnected(conns[c].session, [conns EXCEPT ![c] = Drained(@)], {})
    BY <1>6 DEF StreamCompleted
  <2>2. e.type = "HostDisconnected"
    BY <1>1, <2>1, DisconnectedSays
  <2>. QED BY <1>1, <2>2
<1>7. ASSUME InitialConnectFailed(c) PROVE Goal
  <2>. DEFINE f == Event("SessionConnectionFailed", conns[c].session)
  <2>1. conns[c].pc # "free" /\ MarkSessionDisconnected(conns[c].session, EndTask(c), {f})
    BY <1>7 DEF InitialConnectFailed
  <2>2. EndTask(c) \in [Conns -> ConnStates]
    BY <2>1, EndTaskAdvances
  <2>3. e = f \/ e.type = "HostDisconnected"
    <3>. HIDE DEF f
    <3>. QED BY <2>1, DisconnectedSays
  <2>4. conns[c].session = s
    BY <1>1, <2>3 DEF Event
  <2>5. \A d \in Conns : First(conns', d) => conns'[d] = EndTask(c)[d]
    <3>. HIDE DEF f
    <3>. QED BY <2>1, <2>2, DisconnectedFirst
  <2>6. \A d \in Conns : First(EndTask(c), d) => d # c /\ EndTask(c)[d] = conns[d]
    BY <2>1, EndedTask
  <2>. QED BY <2>1, <2>4, <2>5, <2>6 DEF First
<1>8. ASSUME InitialConnectSucceeded(c) \/ ReconnectSucceeded(c) PROVE Goal
  <2>1. PICK E : /\ MarkSessionConnected(conns[c].session, conns[c].host, E)
                 /\ \A x \in E : x.type = "SessionReconnected"
    <3>1. CASE InitialConnectSucceeded(c)
      BY <3>1 DEF InitialConnectSucceeded
    <3>2. CASE ReconnectSucceeded(c)
      BY <3>2 DEF ReconnectSucceeded, Event
    <3>. QED BY <1>8, <3>1, <3>2
  <2>2. conns[c].pc # "free" /\ conns' = EndTask(c)
    BY <1>8 DEF InitialConnectSucceeded, ReconnectSucceeded
  <2>3. e = Event("SessionConnected", conns[c].session)
    BY <1>1, <2>1, ConnectedSays
  <2>4. conns[c].session = s
    BY <1>1, <2>3 DEF Event
  <2>5. \A d \in Conns : First(EndTask(c), d) => d # c /\ EndTask(c)[d] = conns[d]
    BY <2>2, EndedTask
  <2>. QED BY <2>2, <2>4, <2>5
<1>. HIDE DEF Goal
<1>9. Goal
  BY <1>3, <1>4, <1>5, <1>6, <1>7, <1>8 DEF TaskStep
<1>. QED BY <1>9 DEF Goal

(* The attempt whose outcome is announced is over, and no other was first, if   *)
(* the session is connected once.                                              *)
LEMMA OutcomeEndsFirst ==
    ASSUME InGoodOrder,
           NEW c \in Conns, TaskStep(c) \/ StreamCloses(c) \/ StreamCompleted(c),
           NEW s \in Sessions, s \notin misused, OutcomeFor(s, events')
    PROVE  \A d \in Conns : First(conns', d) => conns'[d].session # s
<1>1. /\ conns[c].pc # "free"
      /\ conns[c].session = s
      /\ \A d \in Conns : First(conns', d) => d # c /\ conns'[d] = conns[d]
  BY WhoAnnounces DEF InGoodOrder, Kept
<1>2. SUFFICES ASSUME NEW d \in Conns, First(conns', d), conns'[d].session = s
               PROVE  FALSE
  OBVIOUS
<1>3. d # c /\ conns[d].pc # "free" /\ conns[d].session = s
  BY <1>1, <1>2 DEF First
<1>. QED BY <1>1, <1>3 DEF InGoodOrder, Kept, Single, TaskRunning

----------------------------------------------------------------------------
(* The invariant, of every pane: SSH connections may end at any point.         *)

(* Who waits for something holds the stash of the shell at the PTY, if there    *)
(* is one, and that shell has at most the script it inherited.                  *)
HoldsStash ==
    ctl.tag # "idle" /\ shell # None =>
        /\ ctl.stash = shell
        /\ script[shell] <= (IF shell \in inherited THEN 1 ELSE 0)

(* Nothing is known of a session whose shell has not announced itself.         *)
Unstarted ==
    \A s \in Sessions \ started :
        script[s] = 0 /\ life[s] = "new" /\ s \notin blocks \cup checks \cup installs

(* A session has one check, block or install at a time, and but for the shells  *)
(* that inherited a script it has not been connected while it has one.          *)
Probing ==
    /\ checks \cap installs = {} /\ checks \cap blocks = {} /\ installs \cap blocks = {}
    /\ \A s \in (checks \cup installs \cup blocks) \ inherited : life[s] = "new"

(* The check and the install of the shell at the PTY are those awaited, unless  *)
(* a stale Skip has thrown the state away; till they end it has no script.      *)
ProbesOfShell ==
    /\ shell \in checks => ctl = Idle \/ ctl = AwaitingCheck(shell)
    /\ shell \in installs => ctl = Idle \/ ctl = AwaitingInstall(shell, shell)
    /\ shell \in (checks \cup installs) \ inherited => script[shell] = 0

(* The shell at the PTY is connected with AwaitingConnect, and not before; a    *)
(* stale block may have made another session the one to connect.                *)
LifeOfShell ==
    shell # None /\ shell \notin inherited =>
        /\ ctl.tag \in {"check", "choice", "install"} => life[shell] = "new"
        /\ ctl.tag = "connect" => ctl.session = shell \/ life[shell] = "new"

Held ==
    /\ HoldsStash
    /\ Unstarted
    /\ Probing
    /\ ProbesOfShell
    /\ LifeOfShell
    /\ ManagerUsedAsSpecified
    /\ BootstrapHeldWhileConnecting
    /\ OneScriptPerShell
    /\ StashNeverLost

LEMMA HeldInit == CtlInit => Held
<1>. SUFFICES ASSUME CtlInit PROVE Held
  OBVIOUS
<1>1. /\ ctl.tag = "idle" /\ shell = None
      /\ blocks = {} /\ checks = {} /\ installs = {} /\ misused = {}
  BY StateTags DEF CtlInit
<1>2. \A s \in Sessions : script[s] = 0 /\ life[s] = "new"
  BY DEF CtlInit, Init
<1>3. \A c \in Conns : ~ TaskRunning(c)
  BY DEF CtlInit, Init, TaskRunning, FreeConn
<1>. QED BY <1>1, <1>2, <1>3 DEF Held, HoldsStash, Unstarted, Probing, ProbesOfShell,
       LifeOfShell, TaskRunning, ManagerUsedAsSpecified,
       BootstrapHeldWhileConnecting, OneScriptPerShell, StashNeverLost

(* Scripts and stash: every write but the one to a new shell ends the wait of   *)
(* the shell written to.                                                       *)
LEMMA StashStep ==
    ASSUME PaneTypes, Held, CtlNext
    PROVE  HoldsStash' /\ OneScriptPerShell' /\ StashNeverLost'
<1>. DEFINE Goal == HoldsStash' /\ OneScriptPerShell' /\ StashNeverLost'
<1>. USE DEF history
<1>0. /\ shell # None => shell \in Sessions /\ shell \in started
      /\ None \notin Sessions /\ script \in [Sessions -> 0..3]
      /\ HoldsStash /\ OneScriptPerShell /\ StashNeverLost /\ Unstarted
  BY NoneAssumption DEF PaneTypes, Held
(* The wait ends with the script.                                              *)
<1>f. ASSUME ctl.tag # "idle", ctl' = Idle, script' = Flushed(shell),
             shell' \in {shell, None}, UNCHANGED <<inherited, discarded>>
      PROVE  Goal
  <2>1. /\ script' \in [Sessions -> 0..3]
        /\ \A s \in Sessions : s # shell => script'[s] = script[s]
        /\ shell # None => script'[shell] \in 1..script[shell] + 1
    BY <1>0, <1>f, FlushedType
  <2>2. ctl'.tag = "idle"
    BY <1>f, StateTags
  <2>3. HoldsStash' /\ StashNeverLost'
    BY <1>0, <1>f, <2>1, <2>2 DEF HoldsStash, StashNeverLost
  <2>4. OneScriptPerShell'
    BY <1>0, <1>f, <2>1 DEF HoldsStash, OneScriptPerShell
  <2>. QED BY <2>3, <2>4
(* The wait goes on, or there was none.                                        *)
<1>k. ASSUME \/ ctl' = ctl
             \/ ctl.tag # "idle" /\ ctl'.tag # "idle" /\ ctl'.stash = ctl.stash,
             shell' \in {shell, None}, UNCHANGED <<script, inherited, discarded>>
      PROVE  Goal
  BY <1>0, <1>k DEF HoldsStash, StashNeverLost, OneScriptPerShell
<1>1. ASSUME NEW s \in Sessions, SshInitShell(s) PROVE Goal
  <2>1. /\ shell = None /\ s \notin started /\ shell' = s /\ script[s] = 0
        /\ ctl'.tag = "check" /\ ctl'.stash = s
    BY <1>0, <1>1, StateTags DEF SshInitShell, Unstarted
  <2>2. CASE ctl = Idle
    BY <1>0, <1>1, <2>1, <2>2 DEF SshInitShell, ScriptAtInit, HoldsStash, OneScriptPerShell,
       StashNeverLost
  <2>3. CASE ctl # Idle
    <3>1. script' = Flushed(s) /\ inherited' = inherited \cup {s}
      BY <1>1, <2>3 DEF SshInitShell, ScriptAtInit
    <3>2. /\ script' \in [Sessions -> 0..3]
          /\ \A t \in Sessions : t # s => script'[t] = script[t]
          /\ script'[s] \in 1..script[s] + 1
      BY <1>0, <3>1, FlushedType
    <3>. QED BY <1>0, <2>1, <3>1, <3>2 DEF HoldsStash, OneScriptPerShell, StashNeverLost
  <2>. QED BY <2>2, <2>3
<1>2. ASSUME ExitShell PROVE Goal
  <2>1. /\ shell' = None /\ UNCHANGED <<inherited, discarded>>
        /\ \/ ctl.tag # "idle" /\ ctl' = Idle /\ script' = Flushed(shell)
           \/ UNCHANGED <<ctl, script>>
    BY <1>2 DEF ExitShell, ReactTo, AfterOutcome
  <2>. QED BY <1>f, <1>k, <2>1
<1>3. ASSUME ConnectionDrops \/ ShellBootstrapped PROVE Goal
  <2>1. shell' \in {shell, None} /\ UNCHANGED <<ctl, script, inherited, discarded>>
    BY <1>3 DEF ConnectionDrops, ShellBootstrapped, paneVars
  <2>. QED BY <1>k, <2>1
<1>4. ASSUME NEW s \in Sessions,
             CheckIgnored(s) \/ InstallIgnored(s) \/ CheckFinds(s) \/ CheckAsks(s)
               \/ CheckInstalls(s) \/ InstallClicked(s) \/ InstallSucceeds(s)
      PROVE  Goal
  <2>1. shell' = shell /\ UNCHANGED <<script, inherited, discarded>>
    BY <1>4 DEF CheckIgnored, InstallIgnored, CheckFinds, CheckAsks, CheckInstalls,
         InstallClicked, InstallSucceeds
  <2>2. CASE CheckFinds(s) \/ CheckAsks(s) \/ CheckInstalls(s)
    <3>1. ctl.tag # "idle" /\ ctl'.tag # "idle" /\ ctl'.stash = ctl.stash
      BY <2>2, CheckState, StateTags DEF CheckFinds, CheckAsks, CheckInstalls
    <3>. QED BY <1>k, <2>1, <3>1
  <2>3. CASE InstallClicked(s) \/ InstallSucceeds(s)
    <3>1. \/ ctl' = ctl
          \/ ctl.tag # "idle" /\ ctl'.tag # "idle" /\ ctl'.stash = ctl.stash
      BY <2>3, StateTags DEF InstallClicked, InstallSucceeds
    <3>. QED BY <1>k, <2>1, <3>1
  <2>4. CASE CheckIgnored(s) \/ InstallIgnored(s)
    <3>1. ctl' = ctl
      BY <2>4 DEF CheckIgnored, InstallIgnored
    <3>. QED BY <1>k, <2>1, <3>1
  <2>. QED BY <1>4, <2>2, <2>3, <2>4
<1>5. ASSUME NEW s \in Sessions, CheckGivesUp(s) \/ InstallFails(s) PROVE Goal
  <2>1. /\ ctl.tag # "idle" /\ ctl' = Idle /\ script' = Flushed(shell)
        /\ shell' = shell /\ UNCHANGED <<inherited, discarded>>
    BY <1>5, CheckState DEF CheckGivesUp, ScriptAfterCheck, InstallFails, AfterInstallFailure
  <2>. QED BY <1>f, <2>1
<1>6. ASSUME NEW s \in Sessions, SkipClicked(s) PROVE Goal
  <2>1. /\ ctl' = Idle /\ shell' = shell /\ UNCHANGED inherited
        /\ script' = IF ctl.tag = "choice" THEN Flushed(shell) ELSE script
        /\ discarded' = IF ctl.tag \in {"idle", "choice"} THEN discarded
                                                         ELSE discarded \cup {ctl.stash}
    BY <1>6 DEF SkipClicked
  <2>2. CASE ctl.tag = "choice"
    BY <1>f, <2>1, <2>2
  <2>3. CASE ctl.tag = "idle"
    <3>1. ctl = Idle
      BY <2>3, StateTags DEF PaneTypes
    <3>. QED BY <1>k, <2>1, <2>3, <3>1
  <2>4. CASE ctl.tag \notin {"idle", "choice"}
    <3>1. ctl'.tag = "idle"
      BY <2>1, StateTags
    <3>. QED BY <1>0, <2>1, <2>4, <3>1 DEF HoldsStash, OneScriptPerShell, StashNeverLost
  <2>. QED BY <2>2, <2>3, <2>4
<1>7. ASSUME NEW c \in Conns, ManagerStep(c) PROVE Goal
  <2>1. /\ shell' = shell /\ UNCHANGED <<inherited, discarded>>
        /\ \/ ctl.tag # "idle" /\ ctl' = Idle /\ script' = Flushed(shell)
           \/ UNCHANGED <<ctl, script>>
    BY <1>7 DEF ManagerStep, ReactTo, AfterOutcome
  <2>. QED BY <1>f, <1>k, <2>1
<1>. HIDE DEF Goal
<1>8. Goal
  BY <1>1, <1>2, <1>3, <1>4, <1>5, <1>6, <1>7 DEF CtlNext, CheckCompletes, InstallCompletes
<1>. QED BY <1>8 DEF Goal
(* Checks, blocks and installs: what they are of is not connected yet.          *)
LEMMA ProbesStep ==
    ASSUME PaneTypes, InGoodOrder, Held, CtlNext
    PROVE  Unstarted' /\ Probing' /\ ProbesOfShell' /\ LifeOfShell' /\ ManagerUsedAsSpecified'
<1>. DEFINE Goal == /\ Unstarted' /\ Probing' /\ ProbesOfShell' /\ LifeOfShell'
                    /\ ManagerUsedAsSpecified'
<1>. USE DEF history, managerVars
<1>0. /\ shell # None => shell \in Sessions /\ shell \in started
      /\ None \notin Sessions /\ script \in [Sessions -> 0..3]
      /\ started \subseteq Sessions /\ checks \subseteq Sessions
      /\ installs \subseteq Sessions /\ blocks \subseteq Sessions
  BY NoneAssumption DEF PaneTypes
<1>a. HoldsStash /\ Unstarted /\ Probing /\ ProbesOfShell /\ LifeOfShell
        /\ ManagerUsedAsSpecified
  BY DEF Held
<1>b. Records /\ life \in [Sessions -> {"new", "requested", "closed"}]
  BY DEF InGoodOrder, Kept, Records, TypeOK
(* A check is over, the first thing a shell waits for: it is the shell's.        *)
<1>c. ASSUME NEW s \in checks, CheckAwaited(s)
      PROVE  /\ ctl = AwaitingCheck(s) /\ ctl.tag = "check" /\ ctl.stash = s
             /\ shell # None => shell = s
             /\ shell \notin installs
             /\ s \notin installs /\ s \notin blocks /\ s \in Sessions /\ s \in started
             /\ shell # None /\ shell \notin inherited => life[s] = "new" /\ script[s] = 0
  <2>1. ctl = AwaitingCheck(s) /\ ctl.tag = "check" /\ ctl.stash = s
    BY <1>c, CheckState DEF CheckAwaited
  <2>2. shell # None => shell = s
    BY <1>a, <2>1 DEF HoldsStash
  <2>3. s \notin installs /\ s \notin blocks /\ s \in Sessions /\ s \in started
    BY <1>0, <1>a, <1>c DEF Probing, Unstarted
  <2>4. shell \notin installs
    BY <1>0, <2>2, <2>3
  <2>5. shell # None /\ shell \notin inherited => life[s] = "new" /\ script[s] = 0
    BY <1>a, <1>c, <2>1, <2>2 DEF ProbesOfShell, LifeOfShell
  <2>. QED BY <2>1, <2>2, <2>3, <2>4, <2>5
(* An install is the shell's, if the shell has one.                             *)
<1>d. ASSUME ctl.tag = "install"
      PROVE  shell \notin checks /\ (shell \in installs => ctl.session = shell)
  BY <1>a, <1>d, StateTags DEF ProbesOfShell
<1>e. ASSUME ctl.tag \in {"choice", "connect"}
      PROVE  shell \notin checks /\ shell \notin installs
  BY <1>a, <1>e, StateTags DEF ProbesOfShell
<1>s. ASSUME NEW s \in Sessions, Connect(s), s \in checks \cup installs
      PROVE  /\ \A t \in Sessions : t # s => life'[t] = life[t]
             /\ misused' \subseteq inherited
             /\ s \notin inherited => life[s] = "new"
  <2>1. s \notin inherited => life[s] = "new"
    BY <1>a, <1>s DEF Probing
  <2>2. CASE ConnectSession(s) /\ misused' = misused
    BY <1>a, <1>b, <2>1, <2>2 DEF ConnectSession, ManagerUsedAsSpecified
  <2>3. CASE life[s] # "new" /\ life' = life /\ misused' = misused \cup {s}
    BY <1>a, <2>1, <2>3 DEF ManagerUsedAsSpecified
  <2>. QED BY <1>s, <2>1, <2>2, <2>3 DEF Connect
<1>1. ASSUME NEW s \in Sessions, SshInitShell(s) PROVE Goal
  <2>1. /\ shell = None /\ s \notin started /\ started' = started \cup {s} /\ shell' = s
        /\ ctl' = AwaitingCheck(s) /\ ctl'.tag = "check" /\ checks' = checks \cup {s}
        /\ UNCHANGED <<life, blocks, installs, misused>>
    BY <1>1, StateTags DEF SshInitShell, vars
  <2>2. script[s] = 0 /\ life[s] = "new" /\ s \notin blocks \cup checks \cup installs
    BY <1>a, <2>1 DEF Unstarted
  <2>3. /\ \A t \in Sessions : t # s => script'[t] = script[t]
        /\ s \notin inherited' => script'[s] = 0
        /\ inherited \subseteq inherited'
    <3>1. CASE ctl = Idle
      BY <1>1, <2>2, <3>1 DEF SshInitShell, ScriptAtInit
    <3>2. CASE ctl # Idle
      BY <1>1, <3>2, FlushedType DEF SshInitShell, ScriptAtInit
    <3>. QED BY <3>1, <3>2
  <2>4. Unstarted'
    BY <1>a, <2>1, <2>3 DEF Unstarted
  <2>5. Probing'
    BY <1>a, <2>1, <2>2, <2>3 DEF Probing
  <2>6. ProbesOfShell' /\ LifeOfShell'
    BY <2>1, <2>2, <2>3 DEF ProbesOfShell, LifeOfShell
  <2>. QED BY <1>a, <2>1, <2>3, <2>4, <2>5, <2>6 DEF ManagerUsedAsSpecified
<1>2. ASSUME ExitShell PROVE Goal
  <2>1. /\ shell # None /\ script[shell] > 0 /\ blocks' = blocks \ {shell} /\ shell' = None
        /\ \A t \in Sessions : t # shell => life'[t] = life[t]
        /\ UNCHANGED <<started, checks, installs, misused, inherited>>
    BY <1>2, <1>b DEF ExitShell, DeregisterSession
  <2>2. shell \in checks \cup installs => shell \in inherited
    BY <1>0, <1>a, <2>1 DEF ProbesOfShell
  <2>3. \A t \in Sessions : t # shell => script'[t] = script[t]
    BY <1>0, <1>2, FlushedType DEF ExitShell, ReactTo
  <2>4. Unstarted'
    BY <1>0, <1>a, <2>1, <2>3 DEF Unstarted
  <2>5. Probing'
    BY <1>0, <1>a, <2>1, <2>2 DEF Probing
  <2>6. ProbesOfShell' /\ LifeOfShell'
    BY <1>0, <2>1 DEF ProbesOfShell, LifeOfShell
  <2>. QED BY <1>a, <2>1, <2>4, <2>5, <2>6 DEF ManagerUsedAsSpecified
(* The connection drops, or nothing that is looked at here moves.               *)
<1>k. ASSUME shell' \in {shell, None}, checks' \subseteq checks, installs' \subseteq installs,
             UNCHANGED <<life, ctl, started, script, blocks, misused, inherited>>
      PROVE  Goal
  BY <1>0, <1>a, <1>k DEF Unstarted, Probing, ProbesOfShell, LifeOfShell,
     ManagerUsedAsSpecified
<1>3. ASSUME ConnectionDrops \/ ShellBootstrapped PROVE Goal
  <2>1. /\ shell' \in {shell, None}
        /\ UNCHANGED <<life, ctl, started, script, blocks, checks, installs, misused, inherited>>
    BY <1>3 DEF ConnectionDrops, ShellBootstrapped, NotifySessionBootstrapped, paneVars, vars
  <2>. QED BY <1>k, <2>1
<1>4. ASSUME NEW s \in Sessions, CheckIgnored(s) \/ InstallIgnored(s) PROVE Goal
  <2>1. /\ shell' = shell /\ checks' \subseteq checks /\ installs' \subseteq installs
        /\ UNCHANGED <<life, ctl, started, script, blocks, misused, inherited>>
    BY <1>4 DEF CheckIgnored, InstallIgnored, vars
  <2>. QED BY <1>k, <2>1
(* The wait ends before any connect, and what was awaited is gone.               *)
<1>f. ASSUME shell' = shell, ctl' = Idle,
             \/ script' = script
             \/ script' = Flushed(shell) /\ shell \notin checks' \cup installs',
             checks' \subseteq checks, installs' \subseteq installs, blocks' \subseteq blocks,
             UNCHANGED <<life, started, misused, inherited>>
      PROVE  Goal
  <2>1. /\ \A t \in Sessions : t # shell => script'[t] = script[t]
        /\ shell \in checks' \cup installs' => script' = script
    BY <1>0, <1>f, FlushedType
  <2>2. ctl'.tag = "idle"
    BY <1>f, StateTags
  <2>3. Unstarted' /\ Probing'
    BY <1>0, <1>a, <1>f, <2>1 DEF Unstarted, Probing
  <2>4. ProbesOfShell' /\ LifeOfShell'
    BY <1>a, <1>f, <2>1, <2>2 DEF ProbesOfShell, LifeOfShell
  <2>. QED BY <1>a, <1>f, <2>3, <2>4 DEF ManagerUsedAsSpecified
<1>5. ASSUME NEW s \in Sessions, CheckGivesUp(s) PROVE Goal
  <2>1. /\ s \in checks /\ CheckAwaited(s) /\ checks' = checks \ {s}
        /\ ctl' = Idle /\ script' = Flushed(shell)
        /\ UNCHANGED <<life, started, shell, blocks, installs, misused, inherited>>
    BY <1>5 DEF CheckGivesUp, ScriptAfterCheck, vars
  <2>2. shell \notin checks' \cup installs'
    BY <1>0, <1>c, <2>1
  <2>. QED BY <1>f, <2>1, <2>2
<1>6. ASSUME NEW s \in Sessions, InstallFails(s) PROVE Goal
  <2>1. /\ s \in installs /\ installs' = installs \ {s} /\ ctl.tag = "install" /\ ctl.session = s
        /\ ctl' = Idle /\ script' = Flushed(shell)
        /\ UNCHANGED <<life, started, shell, blocks, checks, misused, inherited>>
    BY <1>6 DEF InstallFails, AfterInstallFailure, vars
  <2>2. shell \notin checks' \cup installs'
    BY <1>d, <2>1
  <2>. QED BY <1>f, <2>1, <2>2
<1>7. ASSUME NEW s \in Sessions, SkipClicked(s) PROVE Goal
  <2>1. /\ blocks' = blocks \ {s} /\ ctl' = Idle
        /\ script' = IF ctl.tag = "choice" THEN Flushed(shell) ELSE script
        /\ UNCHANGED <<life, started, shell, checks, installs, misused, inherited>>
    BY <1>7 DEF SkipClicked, vars
  <2>2. ctl.tag = "choice" => shell \notin checks' \cup installs'
    BY <1>e, <2>1
  <2>. QED BY <1>f, <2>1, <2>2
<1>8. ASSUME NEW s \in Sessions, CheckFinds(s) PROVE Goal
  <2>1. /\ s \in checks /\ CheckAwaited(s) /\ checks' = checks \ {s}
        /\ ctl' = AwaitingConnect(s, ctl.stash) /\ Connect(s)
        /\ ctl'.tag = "connect" /\ ctl'.session = s
        /\ UNCHANGED <<started, shell, script, blocks, installs, inherited>>
    BY <1>8, StateTags DEF CheckFinds
  <2>2. Unstarted' /\ Probing'
    BY <1>0, <1>a, <1>c, <1>s, <2>1 DEF Unstarted, Probing
  <2>3. ProbesOfShell' /\ LifeOfShell'
    BY <1>0, <1>c, <2>1 DEF ProbesOfShell, LifeOfShell
  <2>. QED BY <1>s, <2>1, <2>2, <2>3 DEF ManagerUsedAsSpecified
<1>9. ASSUME NEW s \in Sessions, InstallSucceeds(s) PROVE Goal
  <2>1. /\ s \in installs /\ installs' = installs \ {s} /\ ctl.tag = "install" /\ ctl.session = s
        /\ ctl' = AwaitingConnect(s, ctl.stash) /\ Connect(s)
        /\ ctl'.tag = "connect" /\ ctl'.session = s
        /\ UNCHANGED <<started, shell, script, blocks, checks, inherited>>
    BY <1>9, StateTags DEF InstallSucceeds
  <2>2. s \notin checks /\ s \notin blocks /\ s \in started
    BY <1>a, <2>1 DEF Probing, Unstarted
  <2>3. Unstarted' /\ Probing'
    BY <1>0, <1>a, <1>s, <2>1, <2>2 DEF Unstarted, Probing
  <2>4. ProbesOfShell'
    BY <1>0, <1>d, <2>1 DEF ProbesOfShell
  <2>5. LifeOfShell'
    BY <1>0, <1>a, <1>s, <2>1 DEF LifeOfShell
  <2>. QED BY <1>s, <2>1, <2>3, <2>4, <2>5 DEF ManagerUsedAsSpecified
<1>10. ASSUME NEW s \in Sessions, CheckAsks(s) PROVE Goal
  <2>1. /\ s \in checks /\ CheckAwaited(s) /\ checks' = checks \ {s}
        /\ ctl'.tag = "choice" /\ blocks' = blocks \cup {s}
        /\ UNCHANGED <<life, started, shell, script, installs, misused, inherited>>
    BY <1>10, StateTags DEF CheckAsks, vars
  <2>2. Unstarted' /\ Probing'
    BY <1>0, <1>a, <1>c, <2>1 DEF Unstarted, Probing
  <2>3. ProbesOfShell' /\ LifeOfShell'
    BY <1>0, <1>c, <2>1 DEF ProbesOfShell, LifeOfShell
  <2>. QED BY <1>a, <2>1, <2>2, <2>3 DEF ManagerUsedAsSpecified
<1>11. ASSUME NEW s \in Sessions, CheckInstalls(s) PROVE Goal
  <2>1. /\ s \in checks /\ CheckAwaited(s) /\ checks' = checks \ {s}
        /\ ctl' = AwaitingInstall(s, s) /\ ctl'.tag = "install" /\ installs' = installs \cup {s}
        /\ UNCHANGED <<life, started, shell, script, blocks, misused, inherited>>
    BY <1>11, CheckState, StateTags DEF CheckInstalls, vars
  <2>2. Unstarted' /\ Probing'
    BY <1>0, <1>a, <1>c, <2>1 DEF Unstarted, Probing
  <2>3. ProbesOfShell' /\ LifeOfShell'
    BY <1>0, <1>c, <2>1 DEF ProbesOfShell, LifeOfShell
  <2>. QED BY <1>a, <2>1, <2>2, <2>3 DEF ManagerUsedAsSpecified
<1>12. ASSUME NEW s \in Sessions, InstallClicked(s) PROVE Goal
  <2>1. /\ s \in blocks /\ blocks' = blocks \ {s}
        /\ UNCHANGED <<life, started, shell, script, checks, misused, inherited>>
    BY <1>12 DEF InstallClicked, vars
  <2>2. s \notin checks /\ s \notin installs /\ s \in started
    BY <1>a, <2>1 DEF Probing, Unstarted
  <2>3. CASE ctl.tag = "choice"
    <3>1. /\ ctl' = AwaitingInstall(s, ctl.stash) /\ ctl'.tag = "install"
          /\ installs' = installs \cup {s}
      BY <1>12, <2>3, StateTags DEF InstallClicked
    <3>2. shell # None => ctl.stash = shell /\ (s = shell /\ shell \notin inherited => script[shell] = 0)
      BY <1>0, <1>a, <2>3 DEF HoldsStash
    <3>3. Unstarted' /\ Probing'
      BY <1>0, <1>a, <2>1, <2>2, <3>1 DEF Unstarted, Probing
    <3>4. ProbesOfShell'
      BY <1>0, <1>e, <2>1, <2>3, <3>1, <3>2 DEF ProbesOfShell
    <3>5. LifeOfShell'
      BY <1>a, <2>1, <2>3, <3>1 DEF LifeOfShell
    <3>. QED BY <1>a, <2>1, <3>3, <3>4, <3>5 DEF ManagerUsedAsSpecified
  <2>4. CASE ctl.tag # "choice"
    <3>1. UNCHANGED <<ctl, installs>>
      BY <1>12, <2>4 DEF InstallClicked
    <3>. QED BY <1>a, <2>1, <3>1 DEF Unstarted, Probing, ProbesOfShell, LifeOfShell,
         ManagerUsedAsSpecified
  <2>. QED BY <2>3, <2>4
<1>13. ASSUME NEW c \in Conns, ManagerStep(c) PROVE Goal
  <2>1. /\ TaskStep(c) \/ StreamCloses(c) \/ StreamCompleted(c)
        /\ UNCHANGED <<started, shell, blocks, checks, installs, misused, inherited>>
        /\ \/ ctl.tag = "connect" /\ ctl' = Idle /\ script' = Flushed(shell)
           \/ UNCHANGED <<ctl, script>>
    BY <1>13 DEF ManagerStep, ReactTo, AfterOutcome
  <2>2. UNCHANGED life
    BY <1>b, <2>1, FirstAttempts
  <2>3. ctl.tag = "connect" => shell \notin checks' \cup installs'
    BY <1>e, <2>1
  <2>. QED BY <1>f, <1>k, <2>1, <2>2, <2>3
<1>. HIDE DEF Goal
<1>14. Goal
  BY <1>1, <1>2, <1>3, <1>4, <1>5, <1>6, <1>7, <1>8, <1>9, <1>10, <1>11, <1>12, <1>13
     DEF CtlNext, CheckCompletes, InstallCompletes
<1>. QED BY <1>14 DEF Goal
(* The first attempt of the shell at the PTY is the one its script waits for.    *)
LEMMA FirstStep ==
    ASSUME PaneTypes, InGoodOrder, Held, CtlNext
    PROVE  BootstrapHeldWhileConnecting'
<1>. DEFINE HeldBack == \A d \in Conns :
                           First(conns, d) /\ conns[d].session = shell
                              => script[shell] = 0 \/ shell \in inherited
            Goal == HeldBack'
<1>. USE DEF history, managerVars
<1>0. /\ shell # None => shell \in Sessions /\ shell \in started
      /\ None \notin Sessions /\ script \in [Sessions -> 0..3]
      /\ \A d \in Conns : First(conns, d) => conns[d].session \in Sessions
  BY NoneAssumption DEF PaneTypes, InGoodOrder, Kept, Records, AttemptShape, First
<1>a. /\ Unstarted /\ Probing /\ ProbesOfShell /\ LifeOfShell
      /\ ManagerUsedAsSpecified
      /\ HeldBack
  BY DEF Held, BootstrapHeldWhileConnecting, TaskRunning, First
<1>b. /\ Records
      /\ \A d \in Conns : First(conns, d) /\ conns[d].session \notin inherited
            => life[conns[d].session] # "new"
  BY <1>0, <1>a DEF InGoodOrder, Kept, Untouched, ManagerUsedAsSpecified
(* Nothing that is looked at here moves, or the script goes to a shell that has *)
(* no first attempt.                                                           *)
<1>k. ASSUME UNCHANGED <<conns, life, misused, inherited>>, shell' \in {shell, None},
             \/ script' = script
             \/ shell # None /\ shell \notin inherited => life[shell] = "new"
      PROVE  Goal
  <2>1. \A d \in Conns : First(conns', d) => First(conns, d) /\ conns'[d] = conns[d]
    BY <1>k DEF First
  <2>. QED BY <1>0, <1>a, <1>b, <1>k, <2>1
<1>1. ASSUME NEW s \in Sessions, SshInitShell(s) PROVE Goal
  <2>1. s \notin started /\ shell' = s /\ conns' = conns /\ inherited \subseteq inherited'
    BY <1>1 DEF SshInitShell, vars
  <2>2. life[s] = "new"
    BY <1>a, <2>1 DEF Unstarted
  <2>. QED BY <1>b, <2>1, <2>2 DEF First
<1>2. ASSUME ExitShell PROVE Goal
  <2>1. shell' = None /\ conns' = conns
    BY <1>2 DEF ExitShell, DeregisterSession
  <2>. QED BY <1>0, <2>1 DEF First
<1>3. ASSUME ConnectionDrops \/ ShellBootstrapped PROVE Goal
  <2>1. /\ shell' \in {shell, None}
        /\ UNCHANGED <<conns, life, script, misused, inherited>>
    BY <1>3 DEF ConnectionDrops, ShellBootstrapped, NotifySessionBootstrapped, paneVars, vars
  <2>. QED BY <1>k, <2>1
<1>4. ASSUME NEW s \in Sessions,
             CheckIgnored(s) \/ InstallIgnored(s) \/ CheckAsks(s) \/ CheckInstalls(s)
               \/ InstallClicked(s)
      PROVE  Goal
  <2>1. shell' = shell /\ UNCHANGED <<conns, life, script, misused, inherited>>
    BY <1>4 DEF CheckIgnored, InstallIgnored, CheckAsks, CheckInstalls, InstallClicked, vars
  <2>. QED BY <1>k, <2>1
<1>5. ASSUME NEW s \in Sessions, CheckGivesUp(s) \/ InstallFails(s) \/ SkipClicked(s)
      PROVE  Goal
  <2>1. shell' = shell /\ UNCHANGED <<conns, life, misused, inherited>>
    BY <1>5 DEF CheckGivesUp, InstallFails, SkipClicked, vars
  <2>2. script' = script \/ ctl.tag \in {"check", "choice", "install"}
    BY <1>5, CheckState DEF CheckGivesUp, InstallFails, SkipClicked
  <2>3. \/ script' = script
        \/ shell # None /\ shell \notin inherited => life[shell] = "new"
    BY <1>a, <2>2 DEF LifeOfShell
  <2>. QED BY <1>k, <2>1, <2>3
<1>6. ASSUME NEW s \in Sessions, CheckFinds(s) \/ InstallSucceeds(s) PROVE Goal
  <2>1. /\ Connect(s) /\ s \in checks \cup installs
        /\ UNCHANGED <<shell, script, inherited>>
    BY <1>6 DEF CheckFinds, InstallSucceeds
  <2>2. StartConnection(s)
    BY <2>1 DEF Connect, ConnectSession
  <2>3. PICK c \in Conns : conns' = [conns EXCEPT ![c] = NewTask("connect", s, 0, None)]
    BY <2>2 DEF StartConnection
  <2>4. /\ conns'[c].session = s
        /\ \A d \in Conns : d # c => conns'[d] = conns[d]
    BY <1>b, <2>3 DEF Records, TypeOK, NewTask
  <2>5. \A d \in Conns : First(conns', d) =>
            \/ d = c
            \/ First(conns, d) /\ conns'[d] = conns[d] /\ d # c
    BY <2>4 DEF First
  <2>6. shell = s => script[s] = 0 \/ s \in inherited
    BY <1>a, <2>1 DEF ProbesOfShell
  <2>. QED BY <1>a, <2>1, <2>4, <2>5, <2>6
<1>7. ASSUME NEW c \in Conns, ManagerStep(c) PROVE Goal
  <2>1. /\ TaskStep(c) \/ StreamCloses(c) \/ StreamCompleted(c)
        /\ ReactTo(events')
        /\ UNCHANGED <<started, shell, blocks, misused, inherited>>
    BY <1>7 DEF ManagerStep
  <2>2. /\ UNCHANGED life
        /\ \A d \in Conns : First(conns', d) =>
              First(conns, d) /\ conns'[d].session = conns[d].session
    BY <1>b, <2>1, FirstAttempts
  <2>3. CASE ctl.tag = "connect" /\ OutcomeFor(ctl.session, events')
    <3>1. ASSUME NEW d \in Conns, First(conns', d), conns'[d].session = shell,
                 shell \notin inherited
          PROVE  FALSE
      <4>1. First(conns, d) /\ conns[d].session = shell /\ shell \in Sessions
        BY <1>0, <2>2, <3>1
      <4>2. ctl.session = shell
        BY <1>0, <1>a, <1>b, <2>3, <3>1, <4>1 DEF LifeOfShell
      <4>3. shell \notin misused
        BY <1>a, <3>1 DEF ManagerUsedAsSpecified
      <4>4. OutcomeFor(shell, events')
        BY <2>3, <4>2
      <4>. QED BY <1>a, <2>1, <3>1, <4>1, <4>3, <4>4, OutcomeEndsFirst
    <3>. QED BY <2>1, <3>1
  <2>4. CASE ~ (ctl.tag = "connect" /\ OutcomeFor(ctl.session, events'))
    <3>1. script' = script
      BY <2>1, <2>4 DEF ReactTo
    <3>. QED BY <1>a, <2>1, <2>2, <3>1
  <2>. QED BY <2>3, <2>4
<1>. HIDE DEF Goal
<1>8. Goal
  BY <1>1, <1>2, <1>3, <1>4, <1>5, <1>6, <1>7 DEF CtlNext, CheckCompletes, InstallCompletes
<1>. QED BY <1>8 DEF Goal, BootstrapHeldWhileConnecting, TaskRunning, First

LEMMA HeldInvariant == CtlSpec => [](PaneTypes /\ Held)
<1>1. PaneTypes /\ InGoodOrder /\ Held /\ [CtlNext]_ctlVars => Held'
  <2>1. PaneTypes /\ InGoodOrder /\ Held /\ CtlNext => Held'
    BY StashStep, ProbesStep, FirstStep DEF Held
  <2>2. Held /\ UNCHANGED ctlVars => Held'
    BY DEF ctlVars, vars, paneVars, history, Held, HoldsStash, Unstarted, Probing,
       ProbesOfShell, CheckAwaited, LifeOfShell, ManagerUsedAsSpecified,
       BootstrapHeldWhileConnecting, TaskRunning, OneScriptPerShell, StashNeverLost
  <2>. QED BY <2>1, <2>2
<1>. QED BY <1>1, HeldInit, PaneInvariant, PTL DEF CtlSpec

(* connect_session is called for a session once, and only before its ExitShell, *)
(* if the session's shell was not sent another's script as it started.          *)
THEOREM UsedAsSpecified == CtlSpec => []ManagerUsedAsSpecified
<1>1. Held => ManagerUsedAsSpecified
  BY DEF Held
<1>. QED BY <1>1, HeldInvariant, PTL

(* The bootstrap script is written no sooner than SessionConnected or           *)
(* SessionConnectionFailed of the first attempt, but as the inherited script of  *)
(* another shell.                                                              *)
THEOREM BootstrapHeld == CtlSpec => []BootstrapHeldWhileConnecting
<1>1. Held => BootstrapHeldWhileConnecting
  BY DEF Held
<1>. QED BY <1>1, HeldInvariant, PTL

(* No shell gets its script twice: not by a reconnect, a stale block, a late     *)
(* check or a late install.                                                    *)
THEOREM BootstrappedOnce == CtlSpec => []OneScriptPerShell
<1>1. Held => OneScriptPerShell
  BY DEF Held
<1>. QED BY <1>1, HeldInvariant, PTL

(* The controller holds the stash of the shell that still waits for its script,  *)
(* unless a Skip of another session's block has thrown it away: no late result   *)
(* and no other session's event ever does.                                      *)
THEOREM StashKept == CtlSpec => []StashNeverLost
<1>1. Held => StashNeverLost
  BY DEF Held
<1>. QED BY <1>1, HeldInvariant, PTL

NoneInherited == inherited = {}

(* As long as no shell is sent another's script, the pane is a user of the       *)
(* manager as RemoteServerManager specifies it: its checks, clicks and installs  *)
(* reach connect_session in the order that module asks for, and what is proved   *)
(* of the manager holds of the manager of the pane.                             *)
THEOREM DrivesTheManager == CtlSpec /\ []NoneInherited => Spec
<1>1. CtlInit => Init
  BY DEF CtlInit
<1>2. /\ PaneTypes /\ Held /\ NoneInherited
      /\ PaneTypes' /\ Held' /\ NoneInherited'
      /\ [CtlNext]_ctlVars
      => [Next]_vars
  <2>1. ASSUME PaneTypes, Held', NoneInherited', CtlNext PROVE [Next]_vars
    <3>1. misused' = {}
      BY <2>1 DEF Held, NoneInherited, ManagerUsedAsSpecified
    <3>. QED BY <2>1, <3>1, ManagerStepsOnly
  <2>2. UNCHANGED ctlVars => UNCHANGED vars
    BY DEF ctlVars
  <2>. QED BY <2>1, <2>2
<1>. QED BY <1>1, <1>2, HeldInvariant, PTL DEF CtlSpec, Spec

----------------------------------------------------------------------------
(* Where no SSH connection ends before its shell is bootstrapped.               *)

(* Whoever waits is at the PTY without a script, and a choice block is shown for *)
(* the session that waits for the choice.                                       *)
Orderly ==
    /\ inherited = {} /\ discarded = {}
    /\ ctl.tag # "idle" => shell # None /\ script[shell] = 0
    /\ \A s \in blocks : ctl.tag = "choice" /\ ctl.stash = s

LEMMA OrderlyStep ==
    ASSUME ~ SilentDrops, PaneTypes, Held, Orderly, CtlNext
    PROVE  Orderly'
<1>. DEFINE Goal == Orderly'
<1>. USE DEF history, managerVars
<1>0. /\ Orderly /\ HoldsStash /\ Unstarted
      /\ ctl.tag = "idle" => ctl = Idle
      /\ shell # None => shell \in Sessions
  BY StateTags DEF Held, PaneTypes
<1>1. ASSUME NEW s \in Sessions, SshInitShell(s) PROVE Goal
  <2>1. shell = None /\ s \notin started /\ shell' = s /\ ctl = Idle
    BY <1>0, <1>1 DEF SshInitShell, Orderly
  <2>2. UNCHANGED <<script, blocks, inherited, discarded>>
    BY <1>1, <2>1 DEF SshInitShell, ScriptAtInit
  <2>3. script[s] = 0 /\ blocks = {} /\ s # None
    BY <1>0, <2>1, StateTags, NoneAssumption DEF Unstarted, Orderly
  <2>. QED BY <1>0, <2>1, <2>2, <2>3 DEF Orderly
<1>2. ASSUME ExitShell \/ ConnectionDrops PROVE Goal
  <2>1. shell # None /\ script[shell] > 0 /\ blocks' \subseteq blocks
          /\ UNCHANGED <<inherited, discarded>>
    BY <1>2 DEF ExitShell, ConnectionDrops
  <2>2. ctl.tag = "idle" /\ blocks = {}
    BY <1>0, <2>1 DEF Orderly
  <2>3. ctl' = ctl
    BY <1>2, <2>2 DEF ExitShell, ConnectionDrops, ReactTo
  <2>. QED BY <1>0, <2>1, <2>2, <2>3 DEF Orderly
<1>3. ASSUME ShellBootstrapped PROVE Goal
  BY <1>0, <1>3 DEF ShellBootstrapped, paneVars, Orderly
<1>4. ASSUME NEW s \in Sessions, CheckIgnored(s) \/ InstallIgnored(s) PROVE Goal
  BY <1>0, <1>4 DEF CheckIgnored, InstallIgnored, Orderly
<1>5. ASSUME NEW s \in Sessions,
             CheckFinds(s) \/ CheckAsks(s) \/ CheckInstalls(s) \/ CheckGivesUp(s)
               \/ InstallSucceeds(s) \/ InstallFails(s)
      PROVE  Goal
  <2>1. ctl.tag \in {"check", "install"} /\ blocks = {}
    BY <1>0, <1>5, CheckState DEF CheckFinds, CheckAsks, CheckInstalls, CheckGivesUp,
         InstallSucceeds, InstallFails, Orderly
  <2>2. UNCHANGED <<shell, inherited, discarded>>
    BY <1>5 DEF CheckFinds, CheckAsks, CheckInstalls, CheckGivesUp, InstallSucceeds,
         InstallFails
  <2>3. ctl'.tag = "idle" \/ script' = script
    BY <1>5, StateTags DEF CheckFinds, CheckAsks, CheckInstalls, CheckGivesUp,
         InstallSucceeds, InstallFails, AfterInstallFailure
  <2>4. CASE CheckAsks(s)
    <3>1. blocks' = {s} /\ ctl'.tag = "choice" /\ ctl'.stash = s
      BY <2>1, <2>4, CheckState, StateTags DEF CheckAsks
    <3>. QED BY <1>0, <2>1, <2>2, <2>3, <3>1 DEF Orderly
  <2>5. CASE ~ CheckAsks(s)
    <3>1. blocks' = {}
      BY <1>5, <2>1, <2>5 DEF CheckFinds, CheckInstalls, CheckGivesUp, InstallSucceeds,
           InstallFails
    <3>. QED BY <1>0, <2>1, <2>2, <2>3, <3>1 DEF Orderly
  <2>. QED BY <2>4, <2>5
<1>6. ASSUME NEW s \in Sessions, InstallClicked(s) \/ SkipClicked(s) PROVE Goal
  <2>1. s \in blocks /\ blocks' = blocks \ {s}
    BY <1>6 DEF InstallClicked, SkipClicked
  <2>2. ctl.tag = "choice" /\ blocks' = {}
    BY <1>0, <2>1 DEF Orderly
  <2>3. /\ UNCHANGED <<shell, inherited, discarded>>
        /\ ctl'.tag = "idle" \/ script' = script
    BY <1>6, <2>2, StateTags DEF InstallClicked, SkipClicked
  <2>. QED BY <1>0, <2>2, <2>3 DEF Orderly
<1>7. ASSUME NEW c \in Conns, ManagerStep(c) PROVE Goal
  <2>1. /\ UNCHANGED <<shell, blocks, inherited, discarded>>
        /\ \/ ctl.tag = "connect" /\ ctl' = Idle
           \/ UNCHANGED <<ctl, script>>
    BY <1>7 DEF ManagerStep, ReactTo, AfterOutcome
  <2>2. ctl.tag = "connect" => blocks = {}
    BY <1>0 DEF Orderly
  <2>. QED BY <1>0, <2>1, <2>2, StateTags DEF Orderly
<1>. HIDE DEF Goal
<1>8. Goal
  BY <1>1, <1>2, <1>3, <1>4, <1>5, <1>6, <1>7 DEF CtlNext, CheckCompletes, InstallCompletes
<1>. QED BY <1>8 DEF Goal

(* Then no shell is ever sent another's script and no stash is thrown away: the  *)
(* exceptions the theorems above make are all the work of connections that end   *)
(* before their shell is bootstrapped.                                          *)
THEOREM OrderlyPane ==
    ASSUME ~ SilentDrops
    PROVE  CtlSpec => [](NoneInherited /\ discarded = {})
<1>1. CtlInit => Orderly
  BY StateTags DEF CtlInit, Orderly
<1>2. PaneTypes /\ Held /\ Orderly /\ [CtlNext]_ctlVars => Orderly'
  <2>1. PaneTypes /\ Held /\ Orderly /\ CtlNext => Orderly'
    BY OrderlyStep
  <2>2. Orderly /\ UNCHANGED ctlVars => Orderly'
    BY DEF Orderly, ctlVars, paneVars, history
  <2>. QED BY <2>1, <2>2
<1>3. Orderly => NoneInherited /\ discarded = {}
  BY DEF Orderly, NoneInherited
<1>. QED BY <1>1, <1>2, <1>3, HeldInvariant, PTL DEF CtlSpec
===============================================================================
