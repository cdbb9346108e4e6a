------------------------ MODULE RemoteServerController ------------------------
(***************************************************************************)
(* The RemoteServerController of one terminal pane, composed with the       *)
(* RemoteServerManager it drives.                                           *)
(*                                                                          *)
(* When an SSH shell announces itself, the controller holds the bootstrap   *)
(* script back (the stash), has the manager look for the remote-server      *)
(* binary, may ask the user and install it, connects, and writes the script *)
(* to the PTY when the outcome is known.  It learns every outcome from the  *)
(* manager's events, which are delivered in the step that emits them.       *)
(*                                                                          *)
(* The pane, its SSH connections and its user are the environment.  Only a  *)
(* bootstrapped shell runs the ExitShell hook that makes the view call      *)
(* deregister_session; a connection that drops says nothing.                *)
(***************************************************************************)
EXTENDS RemoteServerManager

CONSTANT SilentDrops   \* may an SSH connection end before its shell is bootstrapped?

ASSUME SilentDropsAssumption == SilentDrops \in BOOLEAN

VARIABLES
    ctl,       \* SshInitState: its tag, its session_id, the session of its stash
    started,   \* sessions whose SSH shell has announced itself (ids are never reused)
    shell,     \* the SSH session at the other end of the PTY, or None
    script,    \* how often the bootstrap script was written to a session's shell
    blocks,    \* sessions whose SshRemoteServerChoiceBlock is shown
    checks,    \* check_binary tasks in flight
    installs,  \* install_binary tasks in flight
    \* Three records of what has happened, which no step looks at:
    misused,   \* sessions connected when they were no longer new
    inherited, \* sessions whose shell was sent the script of another as it started
    discarded  \* sessions whose stash was thrown away

managerVars == vars
history == <<misused, inherited, discarded>>
paneVars == <<started, shell, script, blocks, checks, installs, history>>
ctlVars == <<vars, ctl, paneVars>>

----------------------------------------------------------------------------
(* SshInitState.  AwaitingCheck and AwaitingUserChoice have no session_id of  *)
(* their own: theirs is the stash's.                                         *)
Idle                   == [tag |-> "idle", session |-> None, stash |-> None]
AwaitingCheck(s)       == [tag |-> "check", session |-> s, stash |-> s]
AwaitingUserChoice(s)  == [tag |-> "choice", session |-> s, stash |-> s]
AwaitingInstall(s, st) == [tag |-> "install", session |-> s, stash |-> st]
AwaitingConnect_StashTaken(s, st) == [tag |-> "connect", session |-> s, stash |-> None]
AwaitingConnect(s, st) == [tag |-> "connect", session |-> s, stash |-> st]

(* flush_stashed_bootstrap: the script goes to whatever shell the PTY has.   *)
(* More than three writes are not told apart.                                *)
Flushed(sh) == IF sh = None THEN script
               ELSE [script EXCEPT ![sh] = IF @ < 3 THEN @ + 1 ELSE 3]

(* The script a new SSH shell gets before anything is known: an old stash's.  *)
ScriptAtInit_Eager(s) == Flushed(s)
ScriptAtInit(s) == IF ctl = Idle THEN script ELSE Flushed(s)

(* connect_session_for_current_identity: neither it nor connect_session asks   *)
(* whether the session has been connected before, or has exited meanwhile.     *)
Connect(s) ==
    \/ /\ ConnectSession(s)
       /\ UNCHANGED misused
    \/ /\ life[s] # "new"
       /\ StartConnection(s)
       /\ misused' = misused \cup {s}
       /\ UNCHANGED life

(* A SessionConnected or SessionConnectionFailed about s, among the events.   *)
OutcomeFor_AnySession(s, E) ==
    \E e \in E : e.type \in {"SessionConnected", "SessionConnectionFailed"}
OutcomeFor(s, E) ==
    \E e \in E : /\ e.type \in {"SessionConnected", "SessionConnectionFailed"}
                 /\ e.about = s

(* The state after the flush that ends AwaitingConnect.                       *)
AfterOutcome_StateKept == ctl
AfterOutcome == Idle

(* on_session_connected, on_session_connection_failed                         *)
ReactTo(E) ==
    \/ /\ ctl.tag = "connect"
       /\ OutcomeFor(ctl.session, E)
       /\ ctl' = AfterOutcome
       /\ script' = Flushed(shell)
    \/ /\ ~ (ctl.tag = "connect" /\ OutcomeFor(ctl.session, E))
       /\ UNCHANGED <<ctl, script>>

----------------------------------------------------------------------------
(* The pane.                                                                  *)

(* on_ssh_init_shell_requested, by the InitShell hook of a new SSH shell.     *)
SshInitShell(s) ==
    /\ shell = None
    /\ s \notin started
    /\ started' = started \cup {s}
    /\ shell' = s
    /\ script' = ScriptAtInit(s)
    /\ ctl' = AwaitingCheck(s)
    /\ checks' = checks \cup {s}
    /\ inherited' = IF ctl = Idle THEN inherited ELSE inherited \cup {s}
    /\ UNCHANGED <<managerVars, blocks, installs, misused, discarded>>

(* The bootstrapped shell finds its end and says so: deregister_session, and   *)
(* the view removes the session's choice block.                               *)
ExitShell ==
    /\ shell # None
    /\ script[shell] > 0
    /\ DeregisterSession(shell)
    /\ blocks' = blocks \ {shell}
    /\ shell' = None
    /\ ReactTo(events')
    /\ UNCHANGED <<started, checks, installs, history>>

(* The SSH connection ends without a word from the remote shell.              *)
ConnectionDrops ==
    /\ shell # None
    /\ script[shell] > 0 \/ SilentDrops
    /\ shell' = None
    /\ UNCHANGED <<managerVars, ctl, started, script, blocks, checks, installs, history>>

(* complete_bootstrapped_session, by the Bootstrapped hook.                   *)
ShellBootstrapped ==
    /\ shell # None
    /\ script[shell] > 0
    /\ NotifySessionBootstrapped(shell)
    /\ UNCHANGED <<ctl, paneVars>>

----------------------------------------------------------------------------
(* on_binary_check_complete, for the session whose check ended: it counts only *)
(* if the state waits for this very check.                                    *)
CheckAwaited(s) == ctl = AwaitingCheck(s)

CheckIgnored(s) ==
    /\ s \in checks
    /\ checks' = checks \ {s}
    /\ ~ CheckAwaited(s)
    /\ UNCHANGED <<managerVars, ctl, started, shell, script, blocks, installs, history>>

CheckFinds(s) ==
    /\ s \in checks
    /\ checks' = checks \ {s}
    /\ CheckAwaited(s)
    /\ ctl' = AwaitingConnect(s, ctl.stash)
    /\ Connect(s)
    /\ UNCHANGED <<started, shell, script, blocks, installs, inherited, discarded>>

(* No binary: the install mode is AlwaysAsk or AlwaysInstall.                 *)
CheckAsks(s) ==
    /\ s \in checks
    /\ checks' = checks \ {s}
    /\ CheckAwaited(s)
    /\ ctl' = AwaitingUserChoice(ctl.stash)
    /\ blocks' = blocks \cup {s}
    /\ UNCHANGED <<managerVars, started, shell, script, installs, history>>

CheckInstalls(s) ==
    /\ s \in checks
    /\ checks' = checks \ {s}
    /\ CheckAwaited(s)
    /\ ctl' = AwaitingInstall(s, ctl.stash)
    /\ installs' = installs \cup {s}
    /\ UNCHANGED <<managerVars, started, shell, script, blocks, history>>

(* The check failed, or the mode is NeverInstall.                             *)
ScriptAfterCheck_Forgotten == script
ScriptAfterCheck == Flushed(shell)
CheckGivesUp(s) ==
    /\ s \in checks
    /\ checks' = checks \ {s}
    /\ CheckAwaited(s)
    /\ ctl' = Idle
    /\ script' = ScriptAfterCheck
    /\ UNCHANGED <<managerVars, started, shell, blocks, installs, history>>

(* handle_ssh_remote_server_install: the click names the block's session, the *)
(* stash is the controller's.                                                 *)
InstallClicked(s) ==
    /\ s \in blocks
    /\ blocks' = blocks \ {s}
    /\ \/ /\ ctl.tag = "choice"
          /\ ctl' = AwaitingInstall(s, ctl.stash)
          /\ installs' = installs \cup {s}
       \/ /\ ctl.tag # "choice"
          /\ UNCHANGED <<ctl, installs>>
    /\ UNCHANGED <<managerVars, started, shell, script, checks, history>>

(* handle_ssh_remote_server_skip: the state is replaced before it is matched. *)
SkipClicked(s) ==
    /\ s \in blocks
    /\ blocks' = blocks \ {s}
    /\ ctl' = Idle
    /\ script' = IF ctl.tag = "choice" THEN Flushed(shell) ELSE script
    /\ discarded' = IF ctl.tag \in {"idle", "choice"} THEN discarded
                                                    ELSE discarded \cup {ctl.stash}
    /\ UNCHANGED <<managerVars, started, shell, checks, installs, misused, inherited>>

(* on_binary_install_complete                                                 *)
InstallSucceeds(s) ==
    /\ s \in installs
    /\ installs' = installs \ {s}
    /\ ctl.tag = "install" /\ ctl.session = s
    /\ ctl' = AwaitingConnect(s, ctl.stash)
    /\ Connect(s)
    /\ UNCHANGED <<started, shell, script, blocks, checks, inherited, discarded>>

AfterInstallFailure_StateKept == ctl
AfterInstallFailure == Idle
InstallFails(s) ==
    /\ s \in installs
    /\ installs' = installs \ {s}
    /\ ctl.tag = "install" /\ ctl.session = s
    /\ ctl' = AfterInstallFailure
    /\ script' = Flushed(shell)
    /\ UNCHANGED <<managerVars, started, shell, blocks, checks, history>>

InstallIgnored(s) ==
    /\ s \in installs
    /\ installs' = installs \ {s}
    /\ ~ (ctl.tag = "install" /\ ctl.session = s)
    /\ UNCHANGED <<managerVars, ctl, started, shell, script, blocks, checks, history>>

----------------------------------------------------------------------------
(* The steps of the manager that no caller triggers.  Pushed file trees and    *)
(* directory changes neither read nor write anything of the controller's.      *)
ManagerStep(c) ==
    /\ TaskStep(c) \/ StreamCloses(c) \/ StreamCompleted(c)
    /\ ReactTo(events')
    /\ UNCHANGED <<started, shell, blocks, checks, installs, history>>

CtlInit ==
    /\ Init
    /\ ctl = Idle
    /\ started = {}
    /\ shell = None
    /\ script = [s \in Sessions |-> 0]
    /\ blocks = {}
    /\ checks = {}
    /\ installs = {}
    /\ misused = {}
    /\ inherited = {}
    /\ discarded = {}

CheckCompletes(s) ==
    CheckIgnored(s) \/ CheckFinds(s) \/ CheckAsks(s) \/ CheckInstalls(s) \/ CheckGivesUp(s)

InstallCompletes(s) == InstallSucceeds(s) \/ InstallFails(s) \/ InstallIgnored(s)

CtlNext ==
    \/ \E s \in Sessions :
          \/ SshInitShell(s)
          \/ CheckCompletes(s)
          \/ InstallClicked(s)
          \/ SkipClicked(s)
          \/ InstallCompletes(s)
    \/ ExitShell
    \/ ConnectionDrops
    \/ ShellBootstrapped
    \/ \E c \in Conns : ManagerStep(c)

CtlSpec == CtlInit /\ [][CtlNext]_ctlVars

(* check_binary and install_binary run under SSH timeouts, so both end; the    *)
(* manager's tasks and streams go on by themselves.  The user owes nothing.    *)
(* None of these steps is disabled but by being taken, or by another of its     *)
(* connection: one condition for each connection is enough.                    *)
CtlFairness ==
    /\ \A s \in Sessions : WF_ctlVars(CheckCompletes(s) \/ InstallCompletes(s))
    /\ \A c \in Conns : WF_ctlVars(GoesOn(c) /\ ManagerStep(c))

CtlFairSpec == CtlSpec /\ CtlFairness

----------------------------------------------------------------------------
CtlTypeOK ==
    /\ TypeOK
    /\ \/ ctl = Idle
       \/ ctl \in [tag : {"check", "choice", "install", "connect"},
                   session : Sessions, stash : Sessions]
    /\ started \subseteq Sessions
    /\ shell \in started \cup {None}
    /\ script \in [Sessions -> 0..3]
    /\ blocks \subseteq Sessions
    /\ checks \subseteq Sessions
    /\ installs \subseteq Sessions
    /\ misused \subseteq Sessions
    /\ inherited \subseteq Sessions
    /\ discarded \subseteq Sessions

(* What RemoteServerManager asks of its caller, to connect a session once and  *)
(* never after its ExitShell, is kept for every session but those that got    *)
(* hold of another's script as they started: only they can be bootstrapped, and *)
(* exit, before their own stash is through with its check or install.          *)
ManagerUsedAsSpecified == misused \subseteq inherited

(* "Bootstrap is flushed only once SessionConnected arrives (or on connection  *)
(* failure)": the shell at the PTY has no script while its first attempt is    *)
(* under way, unless another session's was flushed to it as it started.        *)
BootstrapHeldWhileConnecting ==
    \A c \in Conns :
        TaskRunning(c) /\ conns[c].attempt = 0 /\ conns[c].session = shell
            => script[shell] = 0 \/ shell \in inherited

(* No shell is bootstrapped twice: not by the SessionConnected that every      *)
(* reconnect emits again, not by a stale block, a late check or a late install. *)
(* One that was sent another session's script as it started gets its own too,  *)
(* once.                                                                       *)
OneScriptPerShell ==
    \A s \in Sessions : script[s] <= (IF s \in inherited THEN 2 ELSE 1)

(* The stash is never lost but by one way: an SSH shell that is waiting for its *)
(* script is the one the controller holds the stash of, unless a click on Skip *)
(* in the block of another session found the controller in another state than  *)
(* AwaitingUserChoice.                                                         *)
StashNeverLost ==
    shell # None /\ script[shell] = 0 => ctl.stash = shell \/ shell \in discarded

(* A check or an install never keeps the shell waiting for good.               *)
ProbesEnd == ctl.tag \in {"check", "install"} ~> ctl.tag \notin {"check", "install"}

(* "... so the SSH session is not permanently blocked": the wait for the       *)
(* connection ends, by success or failure.                                     *)
ConnectingEnds == ctl.tag = "connect" ~> ctl.tag # "connect"

(* After teardown every task of the session returns and every stream of it is  *)
(* drained, killed children included; unless the session was connected again,  *)
(* for which nobody will ever call deregister_session.                         *)
ClosedLeavesNothing ==
    \A s \in Sessions :
        life[s] = "closed" ~> s \in misused \/ \A c \in Conns : conns[c].session # s
=============================================================================
