# Verification of labradorcli's remote server

labradorcli is a terminal emulator with agent features (Rust, one application crate under `app/` and
some fifty crates under `crates/`). This project verifies the part of it in which most is
concurrent, distributed and recoverable: the *remote server*. When a user opens an SSH session, the
client can run a helper on the far host, and from then on browse files, run commands and follow the
repository there. It follows a directory from the disk of that host, through its watcher, its tree
and the connections, to the copy the client shows.

All paths below are relative to the repository's root.

1. [The system](#1-the-system): inventory, interactions, what is hard
2. [Modules](#2-modules): which module models what, and how
3. [Runs](#3-runs): what TLC checks, bounds, fairness
4. [Proofs](#4-proofs): what TLAPS proves, and how
5. [Disagreements](#5-disagreements): where code and text differ
6. [What is not modelled](#6-what-is-not-modelled), and the [plan](#7-plan)

## 1. The system

```
 pane (PTY)          client process                         |  remote host
+---------+  hooks  +------------------------+              |
| shell   |-------->| RemoteServerController |              |
|         |<--------|  (one per pane)        |              |
+---------+ script  +-----------+------------+              |
                     calls |    ^ events                    |
                    +------v----+------------+   owns       |  +-------+  flock, pid file   +-------+
                    | RemoteServerManager    |-----+        |  | proxy |  socket path       | proxy |
                    |  sessions, host index  |     |        |  +---+---+                    +---+---+
                    +------+-----------------+  +--v------+ |      |     +---------------+      |
                  events   |                    | Remote- | | stdio|     | daemon        |      |
                    +------v-----------------+  | Server- |<------>+-----| connections   |------+
                    | RemoteRepoMetadataModel|  | Client  | | (ssh)      | ServerModel   |
                    +------------------------+  +---------+ |            | file trees    |
                                                            |            +---------------+
```

### Components

**RemoteServerManager** (`crates/remote_server/src/manager.rs`). One per process. State: the
state of each SSH session (Connecting, Initializing, Connected, Reconnecting, Disconnected), the
reverse index from host to sessions, the last directory each session navigated to, what is known
of each session's shell. Operations: `connect_session`, `deregister_session`,
`navigate_to_directory`, `notify_session_bootstrapped`, and the closures that background tasks
send to the main thread: end of transport connect, end of handshake, end of reconnect delay,
pushes and the end of the event stream. Hard: the closures of several attempts and several
clients of one session come back in any order, and name the session, not the client.
Correct when: the index is exact; at most one attempt per session; what was torn down stays
gone; every new connection learns what the old one knew; per-host data lives as long as the
host's pool; the reconnect loop ends.

**RemoteServerClient** (`crates/remote_server/src/client/mod.rs`, `protocol.rs`). One per
connection. State: a concurrent map from request id to the oneshot of the waiting call, an
atomic flag, an outbound and an event channel. Operations: `send_request` by any number of
tasks, `writer_task`, `reader_task`. Hard: all three touch map and flag concurrently on a thread
pool. Correct when: no call waits for an answer that cannot come, no sender outlives its call.

**RemoteServerController** (`app/src/terminal/writeable_pty/remote_server_controller.rs`). One
per pane. State: `SshInitState`, which holds the bootstrap script of a new SSH shell back while
the helper is looked for, installed and connected. Operations: the InitShell hook, the ends of
check and install, the user's choice, the manager's events. Hard: every answer may arrive after
the SSH session it is about has gone and another one has begun. Correct when: every SSH shell
gets its script exactly once, and not before the first attempt is decided. (With connections that
end unannounced the code has exceptions to both; section 2 names them.)

**Proxy and daemon start-up** (`app/src/remote_server/unix/proxy.rs`, `unix/mod.rs`). One proxy
per SSH session, one daemon per host and identity. State: the pid file and its flock, the socket
path, both in one directory. Operations: `run`, `check_daemon_running`, `wait_for_socket`,
`bridge_stdio_to_socket`, `run_daemon`, and the grace timer of `ServerModel`. Hard: separate
processes that share only paths, and that may be killed at any statement. Correct when: one
daemon serves all sessions, leftovers of killed processes do no harm, nobody waits for good, idle
daemons end.

**Daemon: connections and ServerModel** (`app/src/remote_server/unix/mod.rs`,
`server_model.rs`). State: outbound sender per connection, requests in progress with their
abort handles, pending file operations, an executor per session, the roots each connection has
been sent a snapshot of, the grace timer. Hard: abort racing completion, disconnect with requests
in flight, reader and writer tasks that both deregister.

**File trees** (`crates/repo_metadata/src`). `file_tree_store.rs`: a tree kept as two maps
(entries and children). `local_model.rs`: repositories that are pending, indexed or failed, lazy
directories with reference counts, watcher events computed off the main thread and applied when
they finish. `file_tree_update.rs` and `crates/remote_server/src/repo_metadata_proto.rs`: the
incremental update sent to clients. `remote_model.rs`: the client's copy. Hard: a copy that must
stay equal to its origin under rename, reordering, and removal during indexing.

**Watcher** (`crates/watcher/src/lib.rs`): debounces and merges file-system events.

The remaining parts (terminal grid, sessions and PTY, shared sessions, agents, IPC, persistence,
user interface) are listed in PROJECT.json with the reason they are left out.

### Interactions

| from | to | by |
|---|---|---|
| pane's shell | controller, view | DCS hooks InitShell, Bootstrapped, ExitShell |
| controller | manager | `check_binary`, `install_binary`, `connect_session` |
| view | manager | `deregister_session` on ExitShell |
| manager | controller, view, RemoteRepoMetadataModel | emitted events, delivered in the same main-thread turn |
| manager | client | owns it, and the ssh child whose death closes the stream |
| client | daemon | length-prefixed frames through ssh and the proxy |
| proxy | daemon | spawn; flock and pid file; socket |
| ServerModel | clients | responses; file-tree pushes per connection |

### Hazards

PROJECT.json lists 40, each at the line where it bites and with the properties that would catch
it. The ones that shaped the project: callbacks that outlive what they are about (manager, controller);
a flag and a map that are updated in two steps while others read them (client); teardown in a
state that has been half torn down already (manager), or by two tasks that do not know of each
other (daemon); paths that change owner between two system calls (start-up); events that no path
may forget to emit (controller, which waits for them); an abort that races the completion it
should prevent (daemon); a mark that something was sent, against a receiver that was not ready to
take it, and one copy fed by several connections of different speed (file trees); a disk that is
read at one time and written into the tree at another, with events about it still under way
(repositories).

Three have no property, because what goes wrong there does go wrong and no text promises otherwise;
the models do it and the other properties are checked with it. An SSH shell that ends before its
bootstrap announces its end to nobody (`view.rs:10633`), so the manager keeps its session. A pid
that belongs to a zombie or to another process by now passes for a daemon (`proxy.rs:141`). A grace
timer that has just run out ends a daemon with a proxy (`server_model.rs:323`).

## 2. Modules

| module | models | lines of code it stands for |
|---|---|---|
| `RemoteServerManager` | the manager | `manager.rs` 115-294, 389-1438 |
| `HostPresence` | abstract: what the manager promises to owners of per-host data | refined by `RemoteServerManager` |
| `RemoteServerController` | the controller, EXTENDing the manager it drives | `remote_server_controller.rs` 29-444 |
| `RemoteServerClient` | `send_request`, reader and writer tasks | `client/mod.rs` 147-592 |
| `DaemonStartup` | proxies, daemons, their files | `proxy.rs` 47-297, `unix/mod.rs` 26-101, `server_model.rs` 310-371 |
| `DaemonConnections` | the bridge, connection tasks, requests and the grace timer | `proxy.rs` 231-293, `unix/mod.rs` 73-208, `server_model.rs` 185-560 |
| `FileTree` | a repository's tree and its updates, as operators | `file_tree_store.rs`, `file_tree_state.rs`, `file_tree_update.rs`, `entry.rs` 90-227, `local_model.rs` 556-775, `repo_metadata_proto.rs` 72-270 |
| `RemoteFileTree` | disk, daemon's tree, pushes per connection, client's copy | `server_model.rs` 264-901, `manager.rs` 887-1128, `remote_model.rs`, `repositories.rs` 49-132 |
| `LocalRepo` | watcher, debouncer and pool around one directory of the local model | `local_model.rs` 196-953, `watcher/src/lib.rs` 66-360, `file_tree/view.rs` 405-1551 |
| `RemoteServerManagerProofs`, `RemoteServerControllerProofs`, `RemoteServerClientProofs`, `DaemonStartupProofs`, `DaemonConnectionsProofs`, `RemoteFileTreeProofs`, `LocalRepoProofs`, `LocalRepoTreeProofs` | proofs | |
| `MCRemoteServerManager`, `MCRemoteServerController`, `MCRemoteFileTree`, `MCLocalRepo` | paths and symmetry sets for TLC | |

How they fit together: `RemoteServerController` is composed with the whole manager. `RemoteFileTree`
uses `FileTree` and keeps, of the manager, that a connection is initializing, connected or lost.
`DaemonConnections` takes a connection apart that `RemoteFileTree` has as one channel, and tells
the grace timer from its closure where `DaemonStartup` has one step. `LocalRepo` takes the path
from disk to tree apart that `RemoteFileTree` does in one step. Larger compositions exceed TLC.

PROJECT.json's "map" names the lines of every single definition. An operator with a suffix
(`MayRetry_OffByOne`) is a deliberately wrong form of the operator that follows it. The project
substitutes it, one at a time, to see that each checked property can fail.

### RemoteServerManager

The entity system runs main-thread closures one at a time and delivers the events one emits
before the next, so each closure is one action. What runs elsewhere is an element of `Conns`:
one run of `run_connect_and_handshake` and the client it makes, with the control point of the
task (`pc`), the attempt number and host its closure captured, and the state of its event
stream. An element is reused when both task and stream are over. `sessions`, `hostToSessions`,
`lastNav` and `bootstrapInfo` are the manager's maps, an absent entry being `Untracked`, `{}` or
`None`. `events` holds what the last step emitted. `told` and `asked` record what the session's
current client was sent, `remoteRepos` what the subscriber RemoteRepoMetadataModel keeps.

`mark_session_disconnected` and `mark_session_connected` are shared operators, because the code
calls them from several closures; the closures pass in how they leave `conns` and what else they
emit. A daemon's identity comes back in the handshake, so `HandshakeSucceeds` chooses any host:
a reconnect may find another daemon. Left out: accessors, telemetry, platform detection and token
rotation, which only reads the manager's state to send notifications.

Assumption: a session is connected once and not after its ExitShell (`life`). `connect_session`
itself looks at nothing: it writes Connecting over whatever there is and starts an attempt
(`StartConnection`), and only the caller makes `ConnectSession` of it. The controller nearly always
keeps to that; the run `controller` checks it as `ManagerUsedAsSpecified` and `UsedAsSpecified`
proves it, both with the one exception the code has, which the next but one section describes.

### HostPresence

Two variables: the pool of each host and the hosts whose trees are held. Sessions join one pool
at a time and leave it; trees are learned only from a host with a pool and disappear in the very
step in which the pool empties. The manager implements it with `pool <- hostToSessions` and
`trees <- remoteRepos`.

### RemoteServerController

`ctl` is `SshInitState` with the session it is about and the session whose script is stashed,
which the code lets differ. `script` counts how often a shell was given its script. The
manager's steps are reused unchanged; `ReactTo` is the controller's subscription, applied to the
events of the same step. The user (`InstallClicked`, `SkipClicked`), the pane
(`SshInitShell`, `ExitShell`, `ConnectionDrops`) and the background tasks of check and install
are the environment. `SilentDrops` says whether an SSH connection may end before its shell is
bootstrapped, so that no hook reports its end; it may in every passing run. Directory changes and
pushed trees are not part of the composition: they neither read nor write anything of the
controller's.

A silent drop leaves the controller waiting, and the shell that comes next finds it so. The code
then does three things that its callers would not expect, and a history variable records each for
the properties to except it and nothing else.

- `inherited`: the new shell is sent the stash of the dropped session as it announces itself, and
  its own later. So it can have two scripts, and be bootstrapped while its check still runs.
- `misused`: a shell that was bootstrapped so early can exit before its check or installation ends. If
  it does, the late result still finds the controller waiting for it, and `Connect` calls
  `connect_session` for a session that was deregistered. The manager makes a new entry and a new
  attempt, and nobody deregisters them any more.
- `discarded`: a click on Skip in the block of the dropped session replaces the state before it
  looks at it, and with it the stash of the present shell.

### RemoteServerClient

Every access to the map or the flag is an action. `send_request` is `Insert`, `CheckPasses` or
`CheckFindsDead`, `Enqueue` or `EnqueueFails`, and one of `Receive`, `Timeout`, `CallDropped`. The
reader ends in three separate steps (`ReaderStores`, `ReaderClears`, `ReaderStops`), the writer,
after a failed write, in two. The peer may answer in any order, push, send frames that do
not decode, and close either direction.

### DaemonStartup

Every system call on a shared path is an action. A daemon has the name of the proxy that
spawned it. A pid file is an *inode*, named after its creator: flock belongs to the inode and
`unlink` only takes the name away, so two proxies can lock "the pid file" at once. `Ends` kills a
proxy anywhere and releases what it held, `Crash` kills a daemon anywhere, `RecyclePid` gives the
pid of a dead daemon to another process; a daemon whose parent proxy still runs is a zombie,
which `kill(pid, 0)` takes for alive.

Two assumptions about time. The grace period (ten minutes) is longer than a start takes:
`GraceExpires` waits until the proxy that spawned the daemon is through with its start, on the
daemon or elsewhere. And a proxy's ten-second timeout may expire at any point where the socket is
missing. The library's `UnixListener::bind` is two system calls, `bind` and `listen`, hence `Bind`
and `Listen`.

### DaemonConnections

A connection is the client's end (`client`), the proxy's two copying threads (`t1`, `t2`) and the
socket both of them shut, the daemon's reader task and writer loop, and what is under way in
either direction (`inbox`, `chan`, `delivered`). Of the frames on the way to the daemon, the last
`stdin` ones have not been copied into the socket yet (`StdinCopies`). Only these can make `t1`
notice that the daemon is gone, by a write that fails; with nothing left to copy it stays in its
read of stdin. `senders`, `inProgress`, `fileOps` and `timer` are
ServerModel's own fields. A request is answered in one of three ways, which `HandleRequest` leaves
open: at once, by a future that `spawn_request_handler` makes abortable, or by an event of
FileModel. `work` is the control point of its future: an abort that comes while it runs may or may
not stop it (`aborting`), one that comes after it resolved is too late, and the closure that
removes the entry and answers is a step of its own (`OnResolve`, `OnAbort`). `DeregisterLast` is the
writer's call to `deregister_connection`, the reader's is in `ReaderEnds`. The end of the daemon, by
its timer or by a crash, loses all it had in memory and nothing of the proxies.

### FileTree

A tree is two functions from paths: `state` for `state_map` and `kids` for
`parent_to_child_map`. They are kept apart because the code keeps them apart: `remove` follows
links, `insert_entry_at_path` writes one map over the other, and a path can be in the first and
not be linked in the second. `Shown` is what a walk from the root meets. `Update` is
`RepoMetadataUpdate`; that its nodes come parents first is all that is kept of their order, and
`ApplyPatch` folds them level by level. `AddFile`, `AddEmptyDirectory`, `AddDirectorySubtree` and
`MutateRemove` are the cases of `apply_file_tree_mutations`, each with what it appends to the
update that is sent.

### RemoteFileTree

`disk`, `batch` and `WatcherEvent` are the host's file system and the watcher in one step;
`repo`, `tree` and `sent` are the daemon's, `copy` the client's, and `chan` the pushes on each
connection. `Register` to `Lose` are what a connection goes through, `Navigate`, `Detect` and
`Resolve` the three phases of NavigatedToDirectory, `AskToLoad`, `LoadDirectory` and
`DeliverAnswer` a directory load, whose answer does not travel in `chan` because the client's
request task hands it over itself. The first disk is any: a repository is there before somebody
connects to it.

Three history variables serve the properties only. `deaf` has the connections on which a snapshot
came before the client was Connected; it was dropped, and `trees_placeholder` shows what follows.
`stale` says that a connection was lost with pushes undelivered while another one kept the copy
alive: what it brought is in nobody's copy until the next snapshot. `half` has the directories of
which the daemon has not passed on everything, so that `CopyCovers` can be about the disk and not
about the daemon's tree. A directory gets there in three ways, each of them something the code does:
the daemon's tree has it as loaded without an entry that is on the disk (`HalfListed`), something
was added to it that the daemon skips because it has not got the directory as loaded (`FoundShut`),
or an answer to a load calls it loaded without what is in it (`CalledLoaded`). A directory that a
push itself calls loaded is never excused for what that push leaves out, and one that the daemon has
as loaded not for an addition that is not pushed. The snapshot that follows a navigation takes the
directories out again that it has whole, if no answer is under way.

`TypeOK` asks more of the copy than of the daemon's tree. In the copy only directories have links,
the links lead to entries, and every entry but the root is linked (`LinksLead`). In the daemon's
tree a link leads from a directory to one of its children, and that is all: `load_at_path` writes a
file over a directory that keeps its links, and takes links from entries that stay.

### LocalRepo

`window`, `watched` and `cmds` are the watcher's thread, `events` its channel to the main thread; a
command fails when `watch_filtered` or `unwatch` returns an error, which is logged and never reaches the
model (`refused`: the last one did). `tasks` and `indexers` the two kinds of jobs on the pool, each in
two phases (they look at the disk, the main thread uses it later). `state`, `tree` and `lazy` are
LocalRepoMetadataModel's, `registered` the views'. The Merge operators are
`deduplicate_and_merge_raw_notifier_events` for one event. The directory is flat, as moves and counts
are what matters here; trees of some depth are `RemoteFileTree`'s.

`excused` names, file by file, the changes the code is known to lose, so that `TreeIsDisk` holds
everything else against it. The list is in the module at "The disk"; it is the result of taking
TLC's counterexamples one by one to the code, and section 5 repeats it. The last entry, in `Flush`,
came from the proof: it takes four changes, one more than the run has.

## 3. Runs

| run | asks | bounds | distinct states |
|---|---|---|---|
| `manager` | safety, event discipline, refinement of HostPresence | 2 sessions, 2 hosts, 1 path, 3 attempts, 2 retries; symmetry | 432117 |
| `controller` | script held, written once, never lost; the manager used as it should be | 3 sessions, 1 host, 2 attempts, 1 retry, silent drops; symmetry | 1969647 |
| `remote_live` | check and install end, the reconnect loop ends, teardown leaves nothing | 2 sessions, 1 host, 2 attempts, 1 retry, silent drops | 126811 |
| `client` | correlation and shutdown, safety and liveness | 2 concurrent calls, 1 push | 90216 |
| `startup` | lock, stale files, progress | 2 proxies, 2 daemons | 84813 |
| `daemon` | answers, maps, timer, teardown from either end | 2 connections, 1 request | 22287 |
| `trees` | the copy keeps up with the disk; navigation shows it | 2 connections; the paths `/`, `/d` and `/d/f`, the last ignored, both there at first (lazy indexing) or neither; 2 changes, 2 requests | 231362 |
| `repos` | the tree ends up like the disk; states have their owners | 3 files, 2 views, 3 changes, 2 calls; symmetry | 2222710 |
| `controller_connecting`, `startup_one_daemon`, `daemon_writer`, `trees_placeholder` | one disagreement each, see 5 | small | |

*Are the bounds enough?* Two sessions and two hosts are the least for which an index can be wrong in
both directions and a reconnect can change hosts; three attempts let a session have a draining
stream of an old client, a running attempt and a sibling session's client at the same time; two
retries are the least with a first, a middle and a last failure. The controller needs three sessions: one whose
block stays behind, one whose check or installation is late, and the one at the PTY, whose stash is
at stake; two attempts are the old session's and the new one's. One path suffices: the
deduplication compares with a single remembered path. Two concurrent calls suffice for the client,
where calls meet only in the map, on which every operation is by key or on the whole; one push makes
the reader's branches happen between answers. Two proxies and their two daemons show every pairwise
race; a third multiplies the state space beyond eight million. The proofs of section 4 hold for any
number of all of them.

Two connections to the daemon are what it takes to deregister one and not the last, and for an
answer to have somewhere else to go; one request meets its own abort and its own connection's end,
and requests meet one another only in maps that are used by key. In `trees` the second connection is
the one that is slower, or the one that keeps the copy while the first is lost; two levels below
which a name can be a file or a directory are the least on which a parent can be absent, unloaded or
replaced, and two changes replace one by the other; two requests are a navigation and a load, or two
navigations. Starting with a full directory leaves both changes for the time after indexing. The
invariant of section 4 has also been run with other trees (two files in an ignored directory, three
levels) and, by simulation, with three connections, six changes and six requests. In `repos` three
files are a rename, its source's source and the file it replaces; with three changes the window
merges a chain, or two events are on the pool at once; two calls are two views, or a view and a
detected repository, and every view can also close. `excused` has one entry that it takes four
changes to need; there the proof of `TreeFollowsDisk`, for any number of them, says what the run
cannot.

`MaxChanges`, `MaxAsks` and `MaxCalls` bound what happens to the disk and what is asked by the user's
client; changes of the disk, navigations with loads, and calls that index. `MaxPushes` bounds the peer's
pushes and undecodable frames, `MaxReconnectAttempts` is the code's constant at its value 2 (1 in
`controller`, `remote_live` and the disagreement of the controller), `script` counts to 3 (the inherited
one, its own, and one too many). `Conns` bounds the attempts and undrained streams that exist at once;
an action that needs a free one waits.

*Symmetry* is used only for safety and step properties, over sets no definition singles an
element out of. *Deadlock* checking is off everywhere: sessions end, processes exit, and
a user who does nothing is not an error.

*Fairness.* Weak fairness of each task, because the executor runs what can run: for a connection
everything its attempt's task (each await in it has a timeout), its stream, whose child was killed,
and its completion callback have to do is one step of `GoesOn`, which is weaker than fairness of
each; check and install tasks, which end by ssh's timeouts (`RemoteServerController`); reader and
calls (`RemoteServerClient`, where the 120 s timer gets no fairness, so that a call must end without
it); processes (`DaemonStartup`); threads, tasks and closures, and file operations, but not commands
(`DaemonConnections`); the daemon's indexing and the main thread's deliveries to a connected session
(`RemoteFileTree`). Never assumed: that a user, a peer or the network does anything, that an attempt
succeeds, that a daemon's command ends, that anything is killed.

*What the passing runs show.*

- `manager`: whatever order callbacks come in, the index is exact (`HostIndexExact`), stale
  callbacks never start a second attempt (`OneAttemptPerSession`), an exited session stays gone
  (`ClosedStaysGone`), every new daemon is told the session's shell and asked for its directory
  anew (`CachesAreOfThisClient`), and a late push never revives a lost host's trees
  (`ReposOnlyOfConnectedHosts`).
- `controller`, `remote_live`: with connections that end unannounced at any point, the script is
  held back while the first attempt runs (`BootstrapHeldWhileConnecting`) and written once
  (`OneScriptPerShell`), but for what a shell inherits; no late result and no event of another session
  loses the stash (`StashNeverLost`), only a stale Skip does; `connect_session` is called once and in
  time (`ManagerUsedAsSpecified`), but for sessions whose shell inherited a script. Under fairness no
  check or installation keeps a shell waiting, reconnecting ends, and nothing of an exited session is
  left over (`ClosedLeavesNothing`), if it is not connected again.
- `client`: the order "flag, then clear" in `reader_task` is what makes a lost connection end every
  call (`DeadConnectionEndsCalls`); with the two swapped TLC finds the call that waits 120 s.
- `startup`: the lock admits one starter at a time except after a daemon's exit has unlinked the
  file (`TwoStartersNeedAnUnlink`); a proxy that starts alone, with any leftovers, is refused at
  most in the bind/listen window (`LoneProxyMeetsItsDaemon`); nobody waits for the lock for good and
  no idle daemon stays.
- `daemon`: an answer goes once and to the connection that asked, whatever abort, completion and
  disconnect do to one another (`AnsweredOnceToItsAsker`); the maps never keep what is over
  (`MapsMatchTasks`); two tasks that deregister the same connection start the timer once
  (`TimedExactlyWhileIdle`); and shutting the socket is what gets teardown through to the proxy's
  threads and the daemon's reader (`TeardownGetsThrough`). The end of the daemon reaches a client
  only with the next frame it sends, and then ends all its calls (`DeadDaemonIsNoticed`). A call whose
  frame was in the socket already, when nothing more is sent, has only its own timeout.
- `trees`: what is on the disk in a directory that the client shows as loaded, the client shows, although
  two channels and the answers to loads deliver in any order, and a connection marked as served is
  (`CopyKeepsUp`); a navigation ends with a tree (`NavigationShowsTree`). The exceptions are the
  history variables above.
- `repos`: except for the changes in `excused`, debouncing, renames, the two phases on the pool and the
  queue of registrations lose nothing (`TreeIsDisk`); a directory is indexed by one task at a time and
  an open view keeps its tree (`StateHasItsOwner`); once the watcher's queue is worked
  off, what is shown is watched and what is not is not, unless the last command failed
  (`WatchFollows`).

## 4. Proofs

8964 obligations, checked by TLAPS with Z3, Zenon and LS4. Assumptions on constants: the absent
value is none of the others, the attempt limit is a positive natural, the push bound is a natural,
the views, which are counted, are finite, and so are the paths of `RemoteFileTree`, which are
sequences of names and closed under taking the parent. Nothing else is assumed about sizes, and
finiteness of nothing else.

*Manager* (`RemoteServerManagerProofs`). The inductive invariant is

    Kept(S) == Records /\ Untouched(S) /\ Single(S)        Records == TypeOK /\ AttemptShape

for a set `S` of sessions that are connected as the module asks. `Core` is `Kept(Sessions)`, what the
manager keeps if all are; the controller needs the other instances. `Single(Sessions)` is
`OneAttemptPerSession`. It is not inductive alone: `connect_session` starts an attempt without
looking for another, so it is needed that a session nobody connected has none (`Untouched`), and
types need that a running reconnect knows its host and every attempt in use its session
(`AttemptShape`). Every action either leaves attempts where they are or further on (`Advance`),
changes one entry, or starts one fresh attempt; one lemma per kind, then one step per action.
`ClosedStaysGone` then needs only that every closure which writes an entry looks for it first
(`ClosedStep`). `CachesAreOfThisClient` is inductive together with `Core` (`CachesStep`): a session
gets a new client only from an attempt, so never while it is Connected, and whatever ends the
Connected state forgets the path. On top, `HostInv` (exact index, trees only of connected hosts) is
shown by classifying each step as *stays*, *joins* or *leaves* (`NextMoves`), and the same
classification gives `HostEventsFollowIndex` and the refinement of `HostPresence`.

*Controller* (`RemoteServerControllerProofs`). Nothing is assumed of the connections. The manager's
part of the invariant is `InGoodOrder == Kept(Sessions \ misused)`: a session that is connected a
second time only spoils what is known of itself. The pane's part is `Held`. Who waits, holds the stash
of the shell at the PTY, which has no script but an inherited one (`HoldsStash`); a session has one
check, block or installation at a time and, unless it inherited, has not been connected while it has
one (`Probing`); the check and the installation of the shell at the PTY are the awaited ones or were
thrown away (`ProbesOfShell`); and `connect_session` comes with `AwaitingConnect` (`LifeOfShell`), so a
check or an installation that fails finds no attempt under way and may release the script. One lemma
each shows what a step does to the stash (`StashStep`), to checks, blocks and installations
(`ProbesStep`), and to first attempts (`FirstStep`). When the manager announces an outcome, the attempt
it is about is over and no other attempt of that session is a first one (`WhoAnnounces`,
`OutcomeEndsFirst`): here `Single` of the manager is what the controller's promise rests on.

`DrivesTheManager` says when the theorems about the manager hold of the composition: as long as no
shell inherits a script (`NoneInherited`), each step of the pane is for the manager one of its own or
none. That hypothesis is needed, as `misused` above shows. `OrderlyPane` says when it is met: where
connections end only after their bootstrap, no shell ever inherits and no stash is discarded, because
whoever waits is at the PTY and a block is always that of the session which waits for the choice
(`Orderly`). There the four properties hold without their exceptions.

*Client* (`RemoteServerClientProofs`). `NoCallOutlivesConnection` rests on the argument of the
code's own comments: the flag is set before the map is cleared (`FlagFirst`), an unanswered call
still has its sender in the map (`NotDeaf`), and a oneshot is empty when its call begins
(`Untouched`). `TimeoutsOnlyWhileAlive` follows: after the reader's farewell the only calls in
the map are about to read the flag.

*Start-up* (`DaemonStartupProofs`). Mutual exclusion of the lock is two facts: whoever is past the
flock holds the lock of the file it has open (`HoldersHold`), and all open files are the one at
the path as long as no daemon has exited (`OneFile`). `SpawnedOnce` is what keeps an exited daemon
exited. `LoneProxyMeetsItsDaemon` follows one proxy from its open to its connect (`LoneAhead`): the pid
file it finds names no living process and no step before its check changes that (`StillNotRunning`),
which for a pid file of its own needs that nobody has written it before (`FreshFiles`); from the spawn on
the socket path is free until its daemon has bound it, and its daemon's afterwards (`OwnDaemon`).

*Daemon's connections* (`DaemonConnectionsProofs`). The maps are followed request by request and
connection by connection (`RequestMapsMatch`, `SendersMatch`); the timer is one conjunct, as a
second deregistration finds nothing. `AnsweredOnceToItsAsker` goes along the way of a request: it is
sent once and on one connection (`Sent`), so its frame is in one inbox once, and while it is there
nothing works on it (`Frames`); the handler that takes the frame makes one future or one answer of
it, and what was answered is over (`Answers`).

*Repositories* (`LocalRepoProofs`). `Inv` puts three things side by side. A count above zero
means indexed and is backed by as many registered views (`CountedIsIndexed`, `CountIsBacked`);
from this and from `OneIndexer` follows who owns a state. And what counts of the watcher's queue is its
last command, or the registration itself if the queue is empty and that command did not fail
(`LastCommandFits`).

*Tree and disk* (`LocalRepoTreeProofs`). Between a change of the disk and the tree there are a window,
a queue of events and a set of tasks without order. The invariant follows one file that is not excused
and asks which batch decides about it. If the window removes the file, the window does: when it
closes it also adds exactly what is on the disk (`WindowAdds`). Otherwise something before it does,
and has to end in `Want`, what is there and is not yet to be added by the window: the last event that
touches the file, or the one task if there is no such event, or the tree itself (`Coming`). `OneTask`
is what the missing order of tasks needs. `MissedIsRemoved` is needed because a task that looks for a
file in vain adds nothing and removes nothing: it must name the file among its removals, or a later
batch must. Each merge of an event into the window keeps `Want` (`CreateMerges`, `RemoveMerges`,
`RenameMerges`), and each stage hands its batch on to the next (`FlushStep`, `HandleStep`,
`ComputeStep`, `ApplyStep`). A tree that was read but is not in the model yet has nothing on its way
(`ScanFaithful`).

*Trees and their copies* (`RemoteFileTreeProofs`). The model applies updates by folds over sets and
sequences, and a fold of the community modules is a CHOOSE of a function that fits an equation. That
one exists (`FoldExists`) and that it keeps what every step keeps (`FoldStays`) is shown by
induction over the subsets of a finite set, and stated of sets and functions, because no fact may
have an operator as its parameter; each fold of the model then has a lemma that says its steps are
such a function. `Types` goes through all operations of the store. It needs that a tree which is
being patched always has the directories it was made with, in the copy down to the last link; the
order of levels in a patch is what makes a directory be there before what is in it.

A snapshot is faithful (`SnapshotsAreFaithful`): it has exactly what is shown, parents first, and
applied to an empty tree it links every one of them. `MarksRight` then follows a mark from the push
that sets it to the copy: the snapshot is in the channel, or it came while the client was not
Connected, or there is a copy, which only the loss of all sessions takes away.

`CopyCovers` is followed for one path that is on the disk, not in the watcher's batch, and in no
directory of `half` (`Due`). `Lists` says of a copy that it has the path if it has the directory as
loaded. A message *spares* the path if it is an update that does not remove it and calls its
directory loaded only with the path in it; it *fixes* the path if whatever the copy was, it lists
the path afterwards. The invariant is: every message of a channel spares the path or has one that
fixes it at its place or behind it (`ChanRight`); the copy lists the path, or one that fixes it is
on its way to a connected client, or the copy is stale (`CopyRight`); and the daemon's tree has the
path if it shows its directory as loaded (`TreeRight`), so that every snapshot fixes it. That a
fixing message behind a spoiling one may be on another connection is no trouble, because a message
that spoils is followed by its remedy on its own. Needed beside it (`Side`): who is not connected
has an empty channel, an answer removes nothing and its directories are in `half`, and what is on
the disk below something that the batch removes is in the batch as added. A watcher event keeps the
invariant because what it calls loaded it lists (`WatcherBatchIsWhole`), and what it adds it names
unless the directory was shut when its turn came (`BatchNames`).

| theorem | property |
|---|---|
| `RemoteServerManagerProofs!TypeCorrect`, `SingleAttempt`, `ClosedForGood`, `CachesFollowClient` | `TypeOK`, `OneAttemptPerSession`, `ClosedStaysGone`, `CachesAreOfThisClient` |
| `RemoteServerManagerProofs!IndexExact`, `ReposFollowHosts`, `HostEvents`, `RefinesHostPresence` | `HostIndexExact`, `ReposOnlyOfConnectedHosts`, `HostEventsFollowIndex`, `ImplementsHostPresence` |
| `RemoteServerControllerProofs!CtlTypeCorrect` | `CtlTypeOK` |
| `RemoteServerControllerProofs!DrivesTheManager`, `OrderlyPane` | when the composition implements the manager; when nothing is inherited or discarded |
| `RemoteServerControllerProofs!UsedAsSpecified`, `BootstrapHeld`, `BootstrappedOnce`, `StashKept` | `ManagerUsedAsSpecified`, `BootstrapHeldWhileConnecting`, `OneScriptPerShell`, `StashNeverLost` |
| `RemoteServerClientProofs!TypeCorrect`, `NothingOutlivesConnection`, `TimeoutsNeedAReader`, `EntriesEnd` | `TypeOK`, `NoCallOutlivesConnection`, `TimeoutsOnlyWhileAlive`, `EntriesEndWithCalls` |
| `DaemonStartupProofs!TypeCorrect`, `FlockExcludes`, `LoneProxyServed` | `TypeOK`, `TwoStartersNeedAnUnlink`, `LoneProxyMeetsItsDaemon` |
| `DaemonConnectionsProofs!TypeCorrect`, `MapsFollowTasks`, `GraceOnlyWhileIdle`, `OneAnswerToTheAsker` | `TypeOK`, `MapsMatchTasks`, `TimedExactlyWhileIdle`, `AnsweredOnceToItsAsker` |
| `RemoteFileTreeProofs!RemoteTreesCorrect`, `CopyKeepsUpWithDaemon` | `TypeOK`, `CopyKeepsUp` |
| `RemoteFileTreeProofs!MarksAreRight`, `SnapshotsAreFaithful` | the second part of `CopyKeepsUp`; what a snapshot shows |
| `LocalRepoProofs!TypeCorrect`, `OwnersKnown`, `WatchFits` | `TypeOK`, `StateHasItsOwner`, `WatchFollows` |
| `LocalRepoTreeProofs!TreeFollowsDisk` | `TreeIsDisk` |

*Only model-checked*: all liveness, which is out of the prover's reach. Every other property of a
passing run has its theorem.

## 5. Disagreements

Each is a run that TLC ends with a counterexample; PROJECT.json quotes the text that the code
departs from.

- `startup_one_daemon`: the proxy gives the lock up when the socket appears, the daemon writes its
  pid later. A proxy waiting for the lock finds no pid, removes the live socket and starts a
  second daemon.
- `controller_connecting`: a client that drops between its InitializeResponse and
  `mark_session_connected` produces neither of the two events the controller waits for; the
  shell never gets its script. `mark_session_disconnected` makes an Initializing session Disconnected
  and emits nothing (`manager.rs:1259-1264`). `mark_session_connected` also takes the entry out of the map on
  this path and emits nothing, so the session disappears from the manager without
  SessionDeregistered.
- `daemon_writer`: the task of a connection keeps a sender of the channel it drains, so the channel
  never closes and the writer loop, with its half of the socket, outlives the reader for good.
- `trees_placeholder`: the daemon marks a root as sent to every registered connection, the client
  drops what comes before it is Connected. The push after its navigation, which is there for
  just this client, is then skipped.

Noticed on the way, without a run of their own. Start-up and controller:

- The socket's path exists before it listens: a proxy that connects in between is refused and does
  not try again (`Bind`, `Listen` in `DaemonStartup`).
- The closure of a grace timer that has run out does not look at the connections again: a proxy that
  registers in between loses its daemon (`expired` in `DaemonConnections`).
- Skip on a choice block left by an earlier connection throws the stash of the present one
  away, because the state is replaced before it is looked at (`discarded`, which `StashNeverLost`
  excepts).
- A shell that announces itself while the controller waits for a dropped one is sent the dropped one's
  script, and so can exit before its own check or installation ends. That result then connects the
  session again, and its entry, ssh child and reconnect loop have nobody left who would deregister them
  (`misused`).
- A debug build stops before either, at the assertion in `remote_server_controller.rs:161` that
  InitShell finds the state Idle.
- The view removes a choice block only on SessionDeregistered (`view.rs:4196`), which needs an
  ExitShell hook that an unbootstrapped shell does not have.

Manager:

- The completion callback of a failed reconnect attempt's client marks the session
  Disconnected, documented as final, while the next attempt is pending, which then brings it back.
- Deregistering a Reconnecting session announces the loss of its host a second time.

Daemon and file trees:

- The end of a connection leaves the commands it asked for running.
- An answer to a directory load does not mark the directory as loaded in the client's copy
  when the copy has it already, so it is asked for again whenever it is opened.
- `AddDirectorySubtree` marks an unloaded parent as loaded without its other children
  (`local_model.rs:718-722`). If a snapshot to another connection carries that directory before a load of it is
  answered, it comes to the client as loaded, is not asked for again, and lacks its other entries for good.
- To load a directory again makes its loaded subdirectories unloaded. In a lazily indexed directory what is
  added to them is then no longer pushed, while the client shows them as loaded.
- The answer to the load of a directory that has been emptied can list children that are gone, as loaded.
- A load and a removal in one debounce window can leave entries that no link leads to, or that
  the disk no longer has.

The local model, each a conjunct of what `excused` collects:

- Changes between the reading of the disk and the arrival of the watch, or of the tree, are lost.
- A rename in the window forgets the file it replaces and what had been renamed to it before.
- A move whose target is gone when its event is handled leaves its source in the tree.
- Two tasks on the same file may be applied in either order.
- Events that were under way when a directory was read are applied to the newer tree.
- A file that is created and renamed in one window stays among the created ones (`lib.rs:269`,
  `337-360`). If it comes back and goes again before the event is handled, the removal that
  follows only cancels the new creation in its window, and the file stays in the tree.

A registration with the watcher that fails (`watcher/src/lib.rs:76-94`, for example because there are
too many watches) is logged, and `local_model.rs:379` drops its result: the tree counts as indexed, is
shown, follows nothing that happens on the disk, and nobody tries again (`refused` in `LocalRepo`).

And, of its counts: the upgrade of a lazily loaded path to a repository drops its count, so after an
indexing that failed, an older view's removal can take the tree from a newer view
(`ViewsAreCounted` holds up to the first upgrade); the watch that a lazily loaded directory had
stays if that indexing fails.

## 6. What is not modelled

Process spawning, ssh, installation scripts and platform detection are reduced to
success or failure. The encoding of frames is not modelled: a frame is whole, undecodable or
too large, which is all that reader and writer distinguish.

Of the daemon: session executors and the auth token, each of them a single assignment per message; what
a command does and what a file operation writes, so also that two writes of one path, each a
task of its own, may reach the disk in either order. Of the file trees: file ids, extensions, the
ignored flag, `rename_path`, which only the view calls, and the read-only queries. Of the local
model: several nested repositories, between which `find_repository_for_path` decides, and events
on the contents of files. Of the watcher: renames that come in halves, and `DirectoryWatcher` with its
subscribers.

Everything outside the remote server is out of scope: user interface, emulator, agents, persistence
and the rest are some two thousand files, in which concurrency is incidental or belongs to a service
that is not in the repository. PROJECT.json says why, part by part.

## 7. Plan

In order of what is most worth knowing:

1. Candidates for modules of their own: the sync queue, in-band command execution over a PTY, and
   `DirectoryWatcher`.
2. A refinement between the two models of the way from disk to tree: `RemoteFileTree` without its
   connections as the abstraction of a `LocalRepo` with a tree of some depth.
