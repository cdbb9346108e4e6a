----------------------------- MODULE RemoteFileTree -----------------------------
(***************************************************************************)
(* One repository of a remote host, the tree the daemon keeps of it and the  *)
(* copy of that tree in the client, which all the sessions of the host share. *)
(*                                                                          *)
(*   disk --watcher--> tree (LocalRepoMetadataModel)                         *)
(*        --RepositoryUpdated, IncrementalUpdateReady--> ServerModel          *)
(*        --one channel per connection--> forward_client_event               *)
(*        --> copy (RemoteRepoMetadataModel)                                 *)
(*                                                                          *)
(* Connections are those of RemoteServerManager; here they only connect and   *)
(* are lost, a session that reconnects has a new one.  Watcher batches are    *)
(* computed and applied in one step and in order; LocalRepo takes them apart. *)
(***************************************************************************)
EXTENDS FileTree

CONSTANTS Conns,
          MaxChanges,   \* bound: changes of the disk
          MaxAsks,      \* bound: navigations and loads
          NoTree,       \* a tree or copy that is not there
          NoPath

ASSUME AbsentAssumption == NoTree \notin Trees /\ NoPath \notin Paths

VARIABLES
    disk,       \* what is on the disk of the host: none, file or dir for a path
    batch,      \* what the watcher has collected: added and deleted paths
    git,        \* is the directory a git repository?
    repo,       \* its state in the daemon: none, pending, indexed, failed
    tree,       \* its tree in the daemon
    link,       \* a session's connection: unused, initializing, connected, lost
    sent,       \* is the root in snapshot_sent_roots_by_connection?
    chan,       \* pushes on their way to the client
    nav,        \* the session's NavigatedToDirectory: idle, asked, detected, done
    want,       \* the directory it has asked to load
    answers,    \* answers to such requests on their way to the main thread
    copy,       \* the client's tree
    deaf,       \* connections on which a snapshot came before they were connected
    stale,      \* was a connection lost with pushes that others have had?
    half,       \* history: directories of which the daemon has not passed on everything
    changes, asks

daemonVars == <<repo, tree, sent>>
clientVars == <<copy, deaf, stale>>
vars == <<disk, batch, git, daemonVars, link, chan, nav, want, answers, clientVars, half, changes, asks>>

NoBatch == [added |-> {}, deleted |-> {}]
Registered == {c \in Conns : link[c] \in {"initializing", "connected"}}
Connected == {c \in Conns : link[c] = "connected"}

Init ==
    /\ disk \in [Paths -> {"none", "file", "dir"}]
    /\ disk[<<>>] = "dir"
    /\ \A p \in Paths \ {<<>>} : disk[p] # "none" => disk[Parent(p)] = "dir"
    /\ batch = NoBatch
    /\ git \in BOOLEAN
    /\ repo = "none"
    /\ tree = NoTree
    /\ link = [c \in Conns |-> "unused"]
    /\ sent = [c \in Conns |-> FALSE]
    /\ chan = [c \in Conns |-> <<>>]
    /\ nav = [c \in Conns |-> "idle"]
    /\ want = [c \in Conns |-> NoPath]
    /\ answers = {}
    /\ copy = NoTree
    /\ deaf = {}
    /\ stale = FALSE
    /\ half = {}
    /\ changes = 0
    /\ asks = 0

----------------------------------------------------------------------------
(* The disk, and the watcher, which forgets what comes and goes in one batch.  *)
Change(d, b) ==
    /\ changes < MaxChanges
    /\ changes' = changes + 1
    /\ disk' = d
    /\ batch' = IF repo = "indexed" THEN b ELSE batch
    /\ UNCHANGED <<git, daemonVars, link, chan, nav, want, answers, clientVars, asks, half>>

CreateOnDisk(p, kind) ==
    /\ p # <<>>
    /\ disk[p] = "none"
    /\ disk[Parent(p)] = "dir"
    /\ Change([disk EXCEPT ![p] = kind], [batch EXCEPT !.added = @ \cup {p}])

RemoveFromDisk(p) ==
    /\ p # <<>>
    /\ disk[p] # "none"
    /\ LET gone == {q \in Paths : Under(q, p) /\ disk[q] # "none"} IN
       Change([q \in Paths |-> IF q \in gone THEN "none" ELSE disk[q]],
              [added |-> batch.added \ gone, deleted |-> batch.deleted \cup (gone \ batch.added)])

----------------------------------------------------------------------------
(* ServerModel's pushes: to everybody, or to one connection.                  *)
Push(to, kind, u) == [c \in Conns |-> IF c \in to THEN Append(chan[c], [kind |-> kind, update |-> u]) ELSE chan[c]]

(* The handler of RepositoryUpdated.                                          *)
SnapshotToAll_Connected(t) ==
    /\ chan' = Push(Connected, "snapshot", SnapshotOf(t))
    /\ sent' = [c \in Conns |-> sent[c] \/ c \in Registered]
SnapshotToAll(t) ==
    /\ chan' = Push(Registered, "snapshot", SnapshotOf(t))
    /\ sent' = [c \in Conns |-> sent[c] \/ c \in Registered]

(* Git indexing, started by the event that navigation detected the repository. *)
IndexCompletes ==
    /\ repo = "pending"
    /\ repo' = "indexed"
    /\ tree' = BuildTree(disk, <<>>, MaxDepth + 1, TRUE)
    /\ SnapshotToAll(tree')
    /\ UNCHANGED <<disk, batch, git, link, nav, want, answers, clientVars, changes, asks, half>>

IndexFails ==
    /\ repo = "pending"
    /\ repo' = "failed"
    /\ UNCHANGED <<disk, batch, git, tree, sent, link, chan, nav, want, answers, clientVars,
                   changes, asks, half>>

(* handle_watcher_event: what is added is looked at in an order of its own, and *)
(* a directory that is too large is only named.                               *)
AddPath(acc, p, fails) ==
    IF disk[p] = "none" THEN acc
    ELSE IF disk[p] = "file" THEN AddFile(acc, p, ~ git)
    ELSE IF fails THEN AddEmptyDirectory(acc, p, ~ git)
    ELSE AddDirectorySubtree(acc, p, ~ git, BuildTree(disk, p, MaxDepth + 1, git))

AllAdded(acc, order, fails) == FoldLeft(LAMBDA a, p : AddPath(a, p, fails), acc, order)

(* History, for CopyCovers.  half collects the directories of which the daemon did   *)
(* not have or pass on everything: that its tree, so what a snapshot of it tells a    *)
(* client, has as loaded without something on the disk; that it did not have as loaded *)
(* when it came to something added to them, and of which no push names it; or that an *)
(* answer calls loaded.                                                           *)
LoadedIn(t) == {<<>>} \cup {p \in Shown(t) : t.state[p] = "loaded"}
HalfListed(t) == LoadedIn(t) \cap {Parent(p) : p \in {q \in Paths \ Shown(t) : q # <<>> /\ disk[q] # "none"}}
NodesIn(u) == UNION {u.patches[k].nodes : k \in DOMAIN u.patches}
Named(u) == {n[1] : n \in NodesIn(u)}
CalledLoaded(u) == {n[1] : n \in {m \in NodesIn(u) : m[2] = "loaded"}}
FoundShut(start, order, fails) ==
    {order[k] : k \in {j \in DOMAIN order :
        AllAdded(start, SubSeq(order, 1, j - 1), fails).tree.state[Parent(order[j])] # "loaded"}}

WatcherEvent ==
    /\ repo = "indexed"
    /\ batch # NoBatch
    /\ \E order \in SetToSeqs(batch.added), fails \in BOOLEAN :
          LET start == FoldSet(LAMBDA p, acc : MutateRemove(acc, p),
                               [tree |-> tree, sent |-> Update({}, <<>>)], batch.deleted)
              end == AllAdded(start, order, fails)
          IN  /\ tree' = end.tree
              /\ chan' = Push(Registered, "update", end.sent)
              /\ half' = half \cup HalfListed(end.tree)
                               \cup ({Parent(p) : p \in FoundShut(start, order, fails) \ Named(end.sent)}
                                    \ CalledLoaded(end.sent))
    /\ batch' = NoBatch
    /\ UNCHANGED <<disk, git, repo, sent, link, nav, want, answers, clientVars, changes, asks>>

----------------------------------------------------------------------------
(* Connections.                                                               *)
Register(c) ==
    /\ link[c] = "unused"
    /\ link' = [link EXCEPT ![c] = "initializing"]
    /\ sent' = [sent EXCEPT ![c] = FALSE]
    /\ UNCHANGED <<disk, batch, git, repo, tree, chan, nav, want, answers, clientVars, changes, asks, half>>

MarkConnected(c) ==
    /\ link[c] = "initializing"
    /\ link' = [link EXCEPT ![c] = "connected"]
    /\ UNCHANGED <<disk, batch, git, daemonVars, chan, nav, want, answers, clientVars, changes, asks, half>>

(* With its last session the client drops what it knows of the host.  What a   *)
(* request has started in the daemon goes on.                                 *)
CopyAfterLoss_Always(c) == NoTree
CopyAfterLoss(c) == IF Connected \subseteq {c} THEN NoTree ELSE copy

Lose(c) ==
    /\ c \in Registered
    /\ link' = [link EXCEPT ![c] = "lost"]
    /\ sent' = [sent EXCEPT ![c] = FALSE]
    /\ chan' = [chan EXCEPT ![c] = <<>>]
    /\ nav' = nav \/ (nav[c] = "asked" /\ nav' = [nav EXCEPT ![c] = "idle"])
    /\ want' \in {want, [want EXCEPT ![c] = NoPath]}
    /\ answers' \in {answers, {a \in answers : a.conn # c}}
    /\ copy' = CopyAfterLoss(c)
    /\ stale' = (copy' # NoTree /\ (stale \/ chan[c] # <<>>))
    /\ UNCHANGED <<disk, batch, git, repo, tree, deaf, changes, asks, half>>

----------------------------------------------------------------------------
(* NavigatedToDirectory: the request, the detection, the handler's end.        *)
Navigate(c) ==
    /\ link[c] = "connected"
    /\ nav[c] \in {"idle", "done"}
    /\ asks < MaxAsks
    /\ asks' = asks + 1
    /\ nav' = [nav EXCEPT ![c] = "asked"]
    /\ UNCHANGED <<disk, batch, git, daemonVars, link, chan, want, answers, clientVars, changes, half>>

Detect(c) ==
    /\ nav[c] = "asked"
    /\ nav' = [nav EXCEPT ![c] = "detected"]
    /\ repo' = IF git /\ repo \in {"none", "failed"} THEN "pending" ELSE repo
    /\ UNCHANGED <<disk, batch, git, tree, sent, link, chan, want, answers, clientVars, changes, asks, half>>

AlreadySent_Anyone(c) == \E d \in Conns : sent[d]
AlreadySent(c) == sent[c]

ResolveGit(c) ==
    /\ git
    /\ IF ~ AlreadySent(c) /\ repo = "indexed"
       THEN /\ chan' = Push({c} \cap Registered, "snapshot", SnapshotOf(tree))
            /\ sent' = [sent EXCEPT ![c] = c \in Registered]
       ELSE UNCHANGED <<chan, sent>>
    /\ UNCHANGED <<repo, tree, half>>

(* index_lazy_loaded_path, which fails on too many files: the next navigation     *)
(* tries again.  The RepositoryUpdated of a new tree pushes it once more, which    *)
(* is not seen here.                                                          *)
ResolveLazily(c) ==
    /\ ~ git
    /\ \/ /\ repo = "indexed"
          /\ chan' = Push(Registered, "snapshot", SnapshotOf(tree))
          /\ half' = IF answers = {} THEN half \cap HalfListed(tree) ELSE half
          /\ UNCHANGED <<repo, tree, sent>>
       \/ /\ repo # "indexed"
          /\ repo' = "indexed"
          /\ tree' = BuildTree(disk, <<>>, 1, FALSE)
          /\ SnapshotToAll(tree')
          /\ UNCHANGED half
       \/ /\ repo # "indexed"
          /\ repo' = "failed"
          /\ UNCHANGED <<tree, sent, chan, half>>

Resolve(c) ==
    /\ nav[c] = "detected"
    /\ nav' = [nav EXCEPT ![c] = "done"]
    /\ ResolveGit(c) \/ ResolveLazily(c)
    /\ UNCHANGED <<disk, batch, git, link, want, answers, clientVars, changes, asks>>

----------------------------------------------------------------------------
(* LoadRepoMetadataDirectory: for a directory that the view shows as closed.    *)
AskToLoad(c, p) ==
    /\ link[c] = "connected"
    /\ want[c] = NoPath
    /\ copy # NoTree
    /\ p \in Shown(copy) /\ copy.state[p] = "unloaded"
    /\ asks < MaxAsks
    /\ asks' = asks + 1
    /\ want' = [want EXCEPT ![c] = p]
    /\ UNCHANGED <<disk, batch, git, daemonVars, link, chan, nav, answers, clientVars, changes, half>>

LoadDirectory(c) ==
    /\ want[c] # NoPath
    /\ want' = [want EXCEPT ![c] = NoPath]
    /\ IF repo = "indexed" /\ disk[want[c]] # "none"
       THEN LET listed == ListDirectory(tree', want[c]) IN
            /\ tree' = LoadAtPath(tree, want[c], disk)
            /\ answers' = answers \cup {[conn |-> d, update |-> listed] : d \in {c} \cap Registered}
            /\ half' = half \cup (HalfListed(tree') \ {want[c]}) \cup CalledLoaded(listed)
       ELSE UNCHANGED <<tree, answers, half>>
    /\ UNCHANGED <<disk, batch, git, repo, sent, link, chan, nav, clientVars, changes, asks>>

----------------------------------------------------------------------------
(* The client's main thread.                                                  *)
ApplyIncremental(u) == IF copy = NoTree THEN NoTree ELSE ApplyUpdate(copy, u)

Deliver(c) ==
    /\ c \in Registered
    /\ chan[c] # <<>>
    /\ chan' = [chan EXCEPT ![c] = Tail(@)]
    /\ LET m == Head(chan[c]) IN
       IF link[c] = "connected"
       THEN /\ copy' = IF m.kind = "snapshot" THEN FromSnapshot(m.update) ELSE ApplyIncremental(m.update)
            /\ stale' = (stale /\ m.kind # "snapshot")
            /\ UNCHANGED deaf
       ELSE /\ deaf' = IF m.kind = "snapshot" THEN deaf \cup {c} ELSE deaf
            /\ UNCHANGED <<copy, stale>>
    /\ UNCHANGED <<disk, batch, git, daemonVars, link, nav, want, answers, changes, asks, half>>

(* Answers come from the request's task, whatever has become of the session.    *)
DeliverAnswer(a) ==
    /\ a \in answers
    /\ answers' = answers \ {a}
    /\ copy' = ApplyIncremental(a.update)
    /\ UNCHANGED <<disk, batch, git, daemonVars, link, chan, nav, want, deaf, stale, changes, asks, half>>

----------------------------------------------------------------------------
Next ==
    \/ \E p \in Paths : RemoveFromDisk(p) \/ \E kind \in {"file", "dir"} : CreateOnDisk(p, kind)
    \/ IndexCompletes \/ IndexFails \/ WatcherEvent
    \/ \E c \in Conns :
          \/ Register(c) \/ MarkConnected(c) \/ Lose(c)
          \/ Navigate(c) \/ Detect(c) \/ Resolve(c)
          \/ \E p \in Paths : AskToLoad(c, p)
          \/ LoadDirectory(c) \/ Deliver(c)
    \/ \E a \in answers : DeliverAnswer(a)

Spec == Init /\ [][Next]_vars

(* The daemon and the main thread go on; the disk, the user and the link need not. *)
(* What is to be done for a connection stays to be done until the connection is     *)
(* lost, so one condition per connection is enough, and the weakest.                *)
Fairness ==
    /\ WF_vars(IndexCompletes \/ IndexFails)
    /\ \A c \in Conns :
          WF_vars(Detect(c) \/ Resolve(c) \/ (link[c] = "connected" /\ Deliver(c)))

FairSpec == Spec /\ Fairness

----------------------------------------------------------------------------
(* Types.  A link leads from a path to one right below it.  In the client's copy    *)
(* the two maps also agree: only a directory has links, they lead to entries, and     *)
(* every entry but the root is linked from its parent.  In the daemon's tree they     *)
(* need not: load_at_path can make a file of a directory that keeps its links.        *)
Patches == [parent : Paths, nodes : SUBSET (Paths \X {"file", "loaded", "unloaded"})]
Updates == [removed : SUBSET Paths, patches : Seq(Patches)]
Messages == [kind : {"snapshot", "update"}, update : Updates]

LinksToChildren(t) == \A p \in Paths : \A q \in t.kids[p] : q # <<>> /\ Parent(q) = p
LinksLead(t) ==
    \A p \in Paths : /\ t.kids[p] # {} => IsDir(t, p)
                     /\ \A q \in t.kids[p] : t.state[q] # "none"
                     /\ p # <<>> /\ t.state[p] # "none" => p \in t.kids[Parent(p)]

TypeOK ==
    /\ disk \in [Paths -> {"none", "file", "dir"}]
    /\ batch \in [added : SUBSET Paths, deleted : SUBSET Paths]
    /\ git \in BOOLEAN
    /\ repo \in {"none", "pending", "indexed", "failed"}
    /\ tree \in Trees \cup {NoTree} /\ copy \in Trees \cup {NoTree}
    /\ link \in [Conns -> {"unused", "initializing", "connected", "lost"}]
    /\ sent \in [Conns -> BOOLEAN]
    /\ chan \in [Conns -> Seq(Messages)]
    /\ nav \in [Conns -> {"idle", "asked", "detected", "done"}]
    /\ want \in [Conns -> Paths \cup {NoPath}]
    /\ answers \subseteq [conn : Conns, update : Updates]
    /\ deaf \subseteq Conns /\ stale \in BOOLEAN /\ half \subseteq Paths
    /\ tree # NoTree => LinksToChildren(tree)
    /\ copy # NoTree => LinksToChildren(copy) /\ LinksLead(copy)

SnapshotComing(c) == \E k \in DOMAIN chan[c] : chan[c][k].kind = "snapshot"

(* When nothing is on its way any more, the copy shows everything that is on the    *)
(* disk in a directory that it shows, with all those above, as loaded: through        *)
(* snapshots and updates that come over connections of different speed, and answers   *)
(* that they overtake.  Except after a connection was lost with undelivered pushes,    *)
(* and in the directories of half, which the daemon itself called loaded without      *)
(* having or without telling all that is in them.                                    *)
Quiet == batch = NoBatch /\ \A c \in Connected : chan[c] = <<>>

CopyCovers ==
    repo = "indexed" /\ copy # NoTree /\ ~ stale /\ Quiet =>
        \A p \in Paths \ {<<>>} :
           /\ disk[p] # "none" /\ Parent(p) \notin half
           /\ \A a \in Above(p) : a \in Shown(copy) /\ copy.state[a] = "loaded"
           => p \in Shown(copy)

(* A connection that the daemon will not send the tree again has it: the mark is    *)
(* never set for a client that has no tree and gets none, unless the snapshot came  *)
(* while the client was still initializing.                                        *)
MarkedIsServed ==
    \A c \in Connected \ deaf : sent[c] /\ ~ SnapshotComing(c) => copy # NoTree

(* What the daemon believes it has sent, the client shows.                          *)
CopyKeepsUp == CopyCovers /\ MarkedIsServed

(* server_model.rs:774-778: the push after a navigation is there so that the client  *)
(* of an indexed repository is not left with only a placeholder root.               *)
PlaceholderFilled ==
    repo = "indexed" /\ (\E c \in Connected : nav[c] = "done") /\ (\A c \in Conns : ~ SnapshotComing(c))
    => copy # NoTree

(* A session that has told the daemon its directory sees the tree at last, unless    *)
(* the repository cannot be indexed or its snapshot came too early.                 *)
NavigationShowsTree ==
    \A c \in Conns :
        nav[c] = "asked" ~> copy # NoTree \/ link[c] # "connected" \/ c \in deaf \/ repo = "failed"
=============================================================================
