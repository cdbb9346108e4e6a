-------------------------------- MODULE LocalRepo --------------------------------
(***************************************************************************)
(* One directory of LocalRepoMetadataModel and what runs beside it:          *)
(*                                                                          *)
(*   disk --> debouncer --> event --> main thread --> task on the pool        *)
(*        (window)       (events)   handle_watcher_event   (tasks)           *)
(*        --> main thread: apply_file_tree_mutations --> tree                 *)
(*                                                                          *)
(* The watcher's thread takes its registrations from a queue of its own, and  *)
(* the index of a git repository is built on the pool too.  Both look at the  *)
(* disk when they run, the main thread uses what they saw later.              *)
(*                                                                          *)
(* The directory is flat, FileTree has the operations on trees of more than    *)
(* one level.  Events on the contents of files are left out, and so are moves  *)
(* into and out of the directory.                                            *)
(***************************************************************************)
EXTENDS Naturals, Sequences, FiniteSets, SequencesExt

CONSTANTS Files,
          Views,        \* file tree views, in which the directory can be shown
          MaxChanges,   \* bound: changes of the disk
          MaxCalls,     \* bound: views opened, repositories detected
          NotYet, Failed

ASSUME RepoAssumption ==
    /\ IsFiniteSet(Views)
    /\ \A S \in SUBSET Files : S # NotYet /\ S # Failed
    /\ NotYet # Failed

VARIABLES
    disk,       \* the files in the directory
    window,     \* what the debouncer has merged so far
    watched,    \* does the watcher's thread watch the directory?
    cmds,       \* its queue
    refused,    \* did the last command that it took fail?
    events,     \* events on their way to the main thread
    tasks,      \* compute_file_tree_mutations, running or done
    indexers,   \* build_tree for index_directory, running or done
    state,      \* repositories[directory]: none, pending, indexed, failed
    tree,
    lazy,       \* its count in lazy_loaded_paths, 0 for no entry
    registered, \* the views that have it in registered_lazy_loaded_paths
    upgraded,   \* has a lazily loaded directory become a repository?
    excused,    \* files whose changes are known to get lost, see below
    changes, calls

watcherVars == <<window, watched, cmds, refused, events>>
poolVars == <<tasks, indexers>>
modelVars == <<state, tree, lazy>>
ghostVars == <<upgraded, excused>>
vars == <<disk, watcherVars, poolVars, modelVars, registered, ghostVars, changes, calls>>

NothingYet == [created |-> {}, deleted |-> {}, moved |-> {}]

Init ==
    /\ disk \in SUBSET Files
    /\ window = NothingYet
    /\ watched = FALSE
    /\ cmds = <<>>
    /\ refused = FALSE
    /\ events = <<>>
    /\ tasks = <<>>
    /\ indexers = <<>>
    /\ state = "none"
    /\ tree = {}
    /\ lazy = 0
    /\ registered = {}
    /\ upgraded = FALSE
    /\ excused = {}
    /\ changes = 0
    /\ calls = 0

(* What a batch adds, if it is there, and what it removes before that.         *)
Added(b) == b.created \cup {m.to : m \in b.moved}
Removals(b) == b.deleted \cup {m.from : m \in b.moved}
Touched(b) == Added(b) \cup Removals(b)
InFlight ==
    Touched(window)
    \cup (UNION {Touched(e) : e \in ToSet(events)})
    \cup (UNION {Touched(t.batch) : t \in ToSet(tasks)})

----------------------------------------------------------------------------
(* deduplicate_and_merge_raw_notifier_events, one event at a time.             *)
SourceOf(w, p) == {m.from : m \in {n \in w.moved : n.to = p}}
Unmoved(w, p) == {m \in w.moved : m.to # p}

MergeCreate(w, p) == [w EXCEPT !.created = @ \cup {p}]

MergeRemove_TargetOnly(w, p) ==
    IF p \in w.created THEN [w EXCEPT !.created = @ \ {p}]
    ELSE [w EXCEPT !.deleted = @ \cup {p}, !.moved = Unmoved(w, p)]
MergeRemove(w, p) ==
    IF p \in w.created THEN [w EXCEPT !.created = @ \ {p}]
    ELSE [w EXCEPT !.deleted = @ \cup (IF SourceOf(w, p) = {} THEN {p} ELSE SourceOf(w, p)),
                   !.moved = Unmoved(w, p)]

MergeRename(w, p, q) ==
    LET source == IF SourceOf(w, p) = {} THEN p ELSE CHOOSE s \in SourceOf(w, p) : TRUE
        rest == {m \in Unmoved(w, p) : m.to # q}
    IN  [w EXCEPT !.moved = rest \cup {[to |-> q, from |-> source]}]

----------------------------------------------------------------------------
(* The disk.  What is lost of its changes is kept in excused, file by file:      *)
(*   - a change of a tree that has been read and is not watched yet, or whose     *)
(*     events are dropped because it is not in the model yet;                    *)
(*   - the file that a rename replaces, and what was renamed to it before: the    *)
(*     window forgets both (Rename);                                            *)
(*   - a file that an event adds although it was renamed before the window closed:    *)
(*     if it comes back and goes again meanwhile, nobody removes it (Flush);        *)
(*   - the source of a move whose target is gone when the event is handled;       *)
(*   - a file with two tasks at once, which may end in either order (HandleEvent);  *)
(*   - a file of which the disk is read while its events are still on their way     *)
(*     (Scan, IndexLazily).                                                      *)
HasReadDisk == state = "indexed" \/ \E k \in DOMAIN indexers : indexers[k] \notin {NotYet, Failed}

Change(d, w, touched, replaced) ==
    /\ changes < MaxChanges
    /\ changes' = changes + 1
    /\ disk' = d
    /\ window' = IF watched THEN w ELSE window
    /\ excused' = excused \cup replaced
                  \cup (IF HasReadDisk /\ ~ (watched /\ state = "indexed") THEN touched ELSE {})
    /\ UNCHANGED <<watched, cmds, refused, events, poolVars, modelVars, registered, upgraded, calls>>

Create(p) ==
    /\ p \notin disk
    /\ Change(disk \cup {p}, MergeCreate(window, p), {p}, {})
Delete(p) ==
    /\ p \in disk
    /\ Change(disk \ {p}, MergeRemove(window, p), {p}, {})
Rename(p, q) ==
    /\ p \in disk /\ q # p
    /\ Change((disk \ {p}) \cup {q}, MergeRename(window, p, q), {p, q},
              SourceOf(window, q) \cup (disk \cap {q}))

----------------------------------------------------------------------------
(* The watcher.  watch_filtered and unwatch may fail (too many watches, a path  *)
(* that is gone): the error is logged, and nobody waits for the answer.         *)
WatcherCommand ==
    /\ cmds # <<>>
    /\ cmds' = Tail(cmds)
    /\ \/ watched' = (Head(cmds) = "watch") /\ refused' = FALSE
       \/ watched' = watched /\ refused' = TRUE
    /\ UNCHANGED <<disk, window, events, poolVars, modelVars, registered, ghostVars, changes, calls>>

Flush ==
    /\ window # NothingYet
    /\ events' = Append(events, window)
    /\ window' = NothingYet
    /\ excused' = excused \cup (Added(window) \ disk)
    /\ UNCHANGED <<disk, watched, cmds, refused, poolVars, modelVars, registered, upgraded, changes, calls>>

(* handle_watcher_event.  What was added or moved must still be there: its path  *)
(* is looked up on the disk to find the repository.  The source of a move whose  *)
(* target is gone is not removed then.                                        *)
Scoped(b) == [created |-> b.created \cap disk,
              deleted |-> b.deleted,
              moved |-> {m \in b.moved : m.to \in disk}]

HandleEvent ==
    /\ events # <<>>
    /\ events' = Tail(events)
    /\ LET b == Head(events) IN
       IF state = "indexed"
       THEN /\ tasks' = IF Scoped(b) = NothingYet THEN tasks
                        ELSE Append(tasks, [batch |-> Scoped(b), found |-> NotYet])
            /\ excused' = excused \cup {m.from : m \in {n \in b.moved : n.to \notin disk}}
                          \cup (Touched(b) \cap UNION {Touched(t.batch) : t \in ToSet(tasks)})
       ELSE UNCHANGED <<tasks, excused>>
    /\ UNCHANGED <<disk, window, watched, cmds, refused, indexers, modelVars, registered, upgraded, changes, calls>>

(* compute_file_tree_mutations and apply_file_tree_mutations.                   *)
Additions(b) == Added(b) \cap disk

Compute(k) ==
    /\ tasks[k].found = NotYet
    /\ tasks' = [tasks EXCEPT ![k].found = Additions(tasks[k].batch)]
    /\ UNCHANGED <<disk, watcherVars, indexers, modelVars, registered, ghostVars, changes, calls>>

Apply(k) ==
    /\ tasks[k].found # NotYet
    /\ tasks' = RemoveAt(tasks, k)
    /\ tree' = IF state = "indexed" THEN (tree \ Removals(tasks[k].batch)) \cup tasks[k].found ELSE tree
    /\ UNCHANGED <<disk, watcherVars, indexers, state, lazy, registered, ghostVars, changes, calls>>

----------------------------------------------------------------------------
(* add_repository_internal and remove_repository.                              *)
Add(files) ==
    /\ cmds' = Append(cmds, "watch")
    /\ state' = "indexed"
    /\ tree' = files

WatchAfterRemoval_Kept == cmds
WatchAfterRemoval == IF state = "none" THEN cmds ELSE Append(cmds, "unwatch")

(* index_lazy_loaded_path, for a view that has not registered.  The disk is read *)
(* on the spot; a view counts itself in only if the path is lazily loaded now.   *)
LazyAfterIndex_Once == IF lazy > 0 THEN lazy ELSE IF state \in {"indexed", "pending"} THEN 0 ELSE 1
LazyAfterIndex == IF lazy > 0 THEN lazy + 1 ELSE IF state \in {"indexed", "pending"} THEN 0 ELSE 1

IndexLazily(v) ==
    /\ calls < MaxCalls
    /\ v \notin registered
    /\ calls' = calls + 1
    /\ lazy' = LazyAfterIndex
    /\ IF lazy = 0 /\ state \notin {"indexed", "pending"}
       THEN Add(disk) /\ excused' = InFlight
       ELSE UNCHANGED <<cmds, state, tree, excused>>
    /\ registered' = IF lazy' > 0 THEN registered \cup {v} ELSE registered
    /\ UNCHANGED <<disk, window, watched, refused, events, poolVars, upgraded, changes>>

(* Too many files, or no directory any more.                                   *)
LazyIndexFails(v) ==
    /\ calls < MaxCalls
    /\ v \notin registered
    /\ lazy = 0 /\ state \notin {"indexed", "pending"}
    /\ calls' = calls + 1
    /\ UNCHANGED <<disk, watcherVars, poolVars, modelVars, registered, ghostVars, changes>>

(* remove_lazy_loaded_path, by a view that has registered.                      *)
LazyAfterRemoval_Unguarded == lazy - 1
LazyAfterRemoval == IF lazy > 0 THEN lazy - 1 ELSE 0

RemoveLazily(v) ==
    /\ v \in registered
    /\ registered' = registered \ {v}
    /\ lazy' = LazyAfterRemoval
    /\ IF lazy = 1
       THEN /\ state' = "none"
            /\ tree' = {}
            /\ cmds' = WatchAfterRemoval
       ELSE UNCHANGED <<state, tree, cmds>>
    /\ UNCHANGED <<disk, window, watched, refused, events, poolVars, ghostVars, changes, calls>>

(* index_directory, on DetectedGitRepo.                                        *)
MustIndex_Again == state # "indexed" \/ lazy > 0
MustIndex == state \in {"none", "failed"} \/ (state = "indexed" /\ lazy > 0)

IndexDirectory ==
    /\ calls < MaxCalls
    /\ calls' = calls + 1
    /\ MustIndex
    /\ upgraded' = (upgraded \/ lazy > 0)
    /\ lazy' = 0
    /\ state' = "pending"
    /\ tree' = {}
    /\ indexers' = Append(indexers, NotYet)
    /\ UNCHANGED <<disk, watcherVars, tasks, registered, excused, changes>>

Scan(k) ==
    /\ indexers[k] = NotYet
    /\ \/ indexers' = [indexers EXCEPT ![k] = disk] /\ excused' = InFlight
       \/ indexers' = [indexers EXCEPT ![k] = Failed] /\ UNCHANGED excused
    /\ UNCHANGED <<disk, watcherVars, tasks, modelVars, registered, upgraded, changes, calls>>

(* Whatever the state has become; it fails, too, if the directory is gone.       *)
Indexed(k) ==
    /\ indexers[k] # NotYet
    /\ indexers' = RemoveAt(indexers, k)
    /\ \/ indexers[k] # Failed /\ Add(indexers[k])
       \/ state' = "failed" /\ tree' = {} /\ UNCHANGED cmds
    /\ UNCHANGED <<disk, window, watched, refused, events, tasks, lazy, registered, ghostVars, changes, calls>>

----------------------------------------------------------------------------
Next ==
    \/ \E p \in Files : Create(p) \/ Delete(p) \/ \E q \in Files : Rename(p, q)
    \/ WatcherCommand \/ Flush \/ HandleEvent
    \/ \E k \in DOMAIN tasks : Compute(k) \/ Apply(k)
    \/ \E v \in Views : IndexLazily(v) \/ LazyIndexFails(v) \/ RemoveLazily(v)
    \/ IndexDirectory
    \/ \E k \in DOMAIN indexers : Scan(k) \/ Indexed(k)

Spec == Init /\ [][Next]_vars

----------------------------------------------------------------------------
Batches == [created : SUBSET Files, deleted : SUBSET Files, moved : SUBSET [to : Files, from : Files]]

TypeOK ==
    /\ disk \subseteq Files
    /\ window \in Batches
    /\ watched \in BOOLEAN
    /\ cmds \in Seq({"watch", "unwatch"})
    /\ refused \in BOOLEAN
    /\ events \in Seq(Batches)
    /\ tasks \in Seq([batch : Batches, found : (SUBSET Files) \cup {NotYet}])
    /\ indexers \in Seq((SUBSET Files) \cup {NotYet, Failed})
    /\ state \in {"none", "pending", "indexed", "failed"}
    /\ tree \subseteq Files
    /\ lazy \in 0 .. Cardinality(Views)
    /\ registered \subseteq Views
    /\ upgraded \in BOOLEAN
    /\ excused \subseteq Files

(* When everything has been worked off, the tree has what the disk has.          *)
Settled ==
    /\ state = "indexed"
    /\ cmds = <<>> /\ window = NothingYet /\ events = <<>> /\ tasks = <<>>

TreeIsDisk == Settled => \A p \in Files \ excused : p \in tree <=> p \in disk

(* A directory is being indexed exactly while a task does it: nothing starts a    *)
(* second one, and nobody else writes over Pending.                             *)
OneIndexer == Len(indexers) = (IF state = "pending" THEN 1 ELSE 0)

(* The count is that of the views, and while there is a view the tree is kept,    *)
(* until the directory becomes a repository, which forgets who has registered.    *)
ViewsAreCounted ==
    ~ upgraded => lazy = Cardinality(registered) /\ (registered # {} => state = "indexed")

(* What the state says, somebody answers for: a task for Pending, the views for    *)
(* a tree that is lazily loaded.                                              *)
StateHasItsOwner == OneIndexer /\ ViewsAreCounted

(* The registrations reach the watcher's thread late but in order, whatever       *)
(* failed before: if the last one is carried out, a tree is watched, and a         *)
(* directory that nobody shows is not.  If it fails, nobody tries again.          *)
WatchFollows ==
    cmds = <<>> /\ ~ refused => (state = "indexed" => watched) /\ (state = "none" => ~ watched)
=============================================================================
