----------------------------- MODULE LocalRepoProofs -----------------------------
(***************************************************************************)
(* Who answers for the state of a directory, for any number of files, views,  *)
(* changes and calls: Pending has its one task, a count its views, and the    *)
(* last registration in the watcher's queue is the one the state calls for.   *)
(***************************************************************************)
EXTENDS LocalRepo, FiniteSetTheorems, SequenceTheorems, TLAPS

(* Only an indexed directory is counted, and never for more views than have it. *)
CountedIsIndexed == lazy > 0 => state = "indexed"
CountIsBacked == IsFiniteSet(registered) /\ lazy \in Nat /\ lazy <= Cardinality(registered)

(* What the watcher will have been told last; of what it has been told nothing   *)
(* is known if the last command failed.                                        *)
WillWatch == IF cmds = <<>> THEN watched ELSE cmds[Len(cmds)] = "watch"
LastCommandFits ==
    cmds # <<>> \/ ~ refused => (state = "indexed" => WillWatch) /\ (state = "none" => ~ WillWatch)

Inv == TypeOK /\ CountedIsIndexed /\ CountIsBacked /\ StateHasItsOwner /\ LastCommandFits

----------------------------------------------------------------------------
(* Sequences.                                                                 *)
LEMMA AppendType ==
  ASSUME NEW S, NEW s \in Seq(S), NEW e \in S
  PROVE  /\ Append(s, e) \in Seq(S)
         /\ Append(s, e) # <<>>
         /\ Len(Append(s, e)) = Len(s) + 1
         /\ Append(s, e)[Len(Append(s, e))] = e
  OBVIOUS

LEMMA TailType ==
  ASSUME NEW S, NEW s \in Seq(S), s # <<>>
  PROVE  /\ Head(s) \in S /\ Tail(s) \in Seq(S)
         /\ Tail(s) = <<>> => Head(s) = s[Len(s)]
         /\ Tail(s) # <<>> => Tail(s)[Len(Tail(s))] = s[Len(s)]
  <1>1. /\ Len(s) \in Nat \ {0} /\ Head(s) = s[1] /\ Head(s) \in S
        /\ Tail(s) \in Seq(S) /\ Len(Tail(s)) = Len(s) - 1
    OBVIOUS
  <1>2. ASSUME Tail(s) # <<>> PROVE Tail(s)[Len(Tail(s))] = s[Len(s)]
    <2>1. Len(Tail(s)) \in 1 .. Len(s) - 1
      BY <1>1, <1>2
    <2> QED
      BY <1>1, <2>1
  <1>3. ASSUME Tail(s) = <<>> PROVE Head(s) = s[Len(s)]
    <2>1. Len(Tail(s)) = Len(s) - 1 /\ Len(s) \in Nat
      BY <1>1
    <2>2. Len(<<>>) = Len(s) - 1
      BY <1>3, <2>1, Zenon
    <2>3. Len(<<>>) = 0
      BY EmptySeq
    <2>4. Len(s) - 1 = 0
      BY <2>2, <2>3, Zenon
    <2>5. \A n \in Nat : n - 1 = 0 => n = 1
      OBVIOUS
    <2>6. Len(s) = 1
      BY <2>1, <2>4, <2>5, Zenon
    <2> QED
      BY <1>1, <2>6
  <1> QED
    BY <1>1, <1>2, <1>3

LEMMA RemoveAtType ==
  ASSUME NEW S, NEW s \in Seq(S), NEW k \in DOMAIN s
  PROVE  RemoveAt(s, k) \in Seq(S) /\ Len(RemoveAt(s, k)) = Len(s) - 1
  BY DEF RemoveAt

----------------------------------------------------------------------------
LEMMA InitInv == Init => Inv
  <1> SUFFICES ASSUME Init PROVE Inv
    OBVIOUS
  <1>1. Cardinality(Views) \in Nat /\ Cardinality({}) = 0 /\ IsFiniteSet({})
    BY FS_EmptySet, FS_CardinalityType, RepoAssumption
  <1>2. cmds = <<>> /\ tasks = <<>> /\ indexers = <<>> /\ events = <<>> /\ registered = {} /\ lazy = 0
        /\ state = "none" /\ watched = FALSE /\ refused = FALSE /\ Len(indexers) = 0
    BY DEF Init
  <1>3. TypeOK
    <2>1. NothingYet \in Batches
      BY DEF NothingYet, Batches
    <2>2. \A S : <<>> \in Seq(S)
      BY EmptySeq
    <2>3. lazy \in 0 .. Cardinality(Views)
      BY <1>1, <1>2
    <2>4. cmds \in Seq({"watch", "unwatch"}) /\ events \in Seq(Batches)
          /\ tasks \in Seq([batch : Batches, found : (SUBSET Files) \cup {NotYet}])
          /\ indexers \in Seq((SUBSET Files) \cup {NotYet, Failed})
      BY <1>2, <2>2
    <2> QED
      BY <1>2, <2>1, <2>3, <2>4 DEF Init, TypeOK
  <1> QED
    BY <1>1, <1>2, <1>3 DEF Inv, CountedIsIndexed, CountIsBacked, StateHasItsOwner,
      OneIndexer, ViewsAreCounted, LastCommandFits, WillWatch

(* The disk and the merging of its events keep the types.                      *)
LEMMA SourceType == \A w \in Batches, p \in Files : SourceOf(w, p) \subseteq Files
  BY DEF Batches, SourceOf

LEMMA MergeType ==
  ASSUME NEW w \in Batches, NEW p \in Files, NEW q \in Files
  PROVE  MergeCreate(w, p) \in Batches /\ MergeRemove(w, p) \in Batches /\ MergeRename(w, p, q) \in Batches
  <1>1. MergeCreate(w, p) \in Batches
    BY DEF MergeCreate, Batches
  <1>2. Unmoved(w, p) \subseteq [to : Files, from : Files]
    BY DEF Unmoved, Batches
  <1>3. MergeRemove(w, p) \in Batches
    BY <1>2, SourceType DEF MergeRemove, Batches
  <1>4. MergeRename(w, p, q) \in Batches
    <2> DEFINE source == IF SourceOf(w, p) = {} THEN p ELSE CHOOSE s \in SourceOf(w, p) : TRUE
    <2>1. source \in Files
      BY SourceType
    <2> HIDE DEF source
    <2> DEFINE rest == {m \in Unmoved(w, p) : m.to # q} \cup {[to |-> q, from |-> source]}
    <2>2. rest \subseteq [to : Files, from : Files]
      BY <1>2, <2>1
    <2>3. MergeRename(w, p, q) = [w EXCEPT !.moved = rest]
      BY DEF MergeRename, source
    <2> QED
      BY <2>2, <2>3 DEF Batches
  <1> QED
    BY <1>1, <1>3, <1>4

----------------------------------------------------------------------------
(* A view counts itself in at most once, and out only if it is in.             *)
LEMMA CountStep == CountIsBacked /\ [Next]_vars => CountIsBacked'
  <1> SUFFICES ASSUME CountIsBacked, [Next]_vars PROVE CountIsBacked'
    OBVIOUS
  <1>1. /\ IsFiniteSet(registered) /\ Cardinality(registered) \in Nat
        /\ lazy \in Nat /\ lazy <= Cardinality(registered)
    BY FS_CardinalityType DEF CountIsBacked
  <1>2. ASSUME NEW v \in Views, IndexLazily(v) PROVE CountIsBacked'
    <2>1. lazy' \in Nat /\ lazy' <= lazy + 1
      BY <1>1, <1>2 DEF IndexLazily, LazyAfterIndex
    <2>2. CASE lazy' > 0
      <3>1. registered' = registered \cup {v} /\ v \notin registered
        BY <1>2, <2>2 DEF IndexLazily
      <3>2. IsFiniteSet(registered') /\ Cardinality(registered') = Cardinality(registered) + 1
        BY <1>1, <3>1, FS_AddElement
      <3> QED
        BY <1>1, <2>1, <3>2 DEF CountIsBacked
    <2>3. CASE ~ (lazy' > 0)
      BY <1>1, <1>2, <2>1, <2>3 DEF IndexLazily, CountIsBacked
    <2> QED
      BY <2>2, <2>3
  <1>3. ASSUME NEW v \in Views, RemoveLazily(v) PROVE CountIsBacked'
    <2>1. lazy' \in Nat /\ lazy' <= Cardinality(registered) - 1
      <3>1. Cardinality(registered) # 0
        BY <1>1, <1>3, FS_EmptySet DEF RemoveLazily
      <3> QED
        BY <1>1, <1>3, <3>1 DEF RemoveLazily, LazyAfterRemoval
    <2>2. IsFiniteSet(registered') /\ Cardinality(registered') = Cardinality(registered) - 1
      BY <1>1, <1>3, FS_RemoveElement DEF RemoveLazily
    <2> QED
      BY <2>1, <2>2 DEF CountIsBacked
  <1>4. CASE IndexDirectory
    BY <1>1, <1>4 DEF IndexDirectory, CountIsBacked
  <1>5. CASE UNCHANGED <<lazy, registered>>
    BY <1>5 DEF CountIsBacked
  <1>6. \/ UNCHANGED <<lazy, registered>> \/ IndexDirectory
        \/ \E v \in Views : IndexLazily(v) \/ RemoveLazily(v)
    BY DEF Next, vars, modelVars, Create, Delete, Rename, Change, WatcherCommand, Flush, HandleEvent,
           Compute, Apply, LazyIndexFails, Scan, Indexed
  <1> QED
    BY <1>2, <1>3, <1>4, <1>5, <1>6

(* Types: one step per action.                                                *)
LEMMA TypeStep == TypeOK /\ CountIsBacked /\ [Next]_vars => TypeOK'
  <1> SUFFICES ASSUME TypeOK, CountIsBacked, [Next]_vars PROVE TypeOK'
    OBVIOUS
  <1> DEFINE Tasks == [batch : Batches, found : (SUBSET Files) \cup {NotYet}]
             Found == (SUBSET Files) \cup {NotYet, Failed}
  <1>t. /\ disk \subseteq Files /\ window \in Batches /\ cmds \in Seq({"watch", "unwatch"})
        /\ events \in Seq(Batches) /\ tasks \in Seq(Tasks) /\ indexers \in Seq(Found)
        /\ tree \subseteq Files /\ registered \subseteq Views /\ excused \subseteq Files
    BY DEF TypeOK
  <1>e. \A k \in DOMAIN tasks : /\ tasks[k] \in Tasks /\ tasks[k].batch \in Batches
                              /\ tasks[k].found \in (SUBSET Files) \cup {NotYet}
    <2> SUFFICES ASSUME NEW k \in DOMAIN tasks
                 PROVE  /\ tasks[k] \in Tasks /\ tasks[k].batch \in Batches
                        /\ tasks[k].found \in (SUBSET Files) \cup {NotYet}
      OBVIOUS
    <2>1. tasks[k] \in Tasks
      <3> HIDE DEF Tasks
      <3> QED
        BY <1>t
    <2> QED
      BY <2>1
  <1>n. NothingYet \in Batches
    BY DEF NothingYet, Batches
  <1>b. \A b \in Batches : Touched(b) \subseteq Files /\ Scoped(b) \in Batches
                           /\ Additions(b) \subseteq Files
    <2> SUFFICES ASSUME NEW b \in Batches
                 PROVE  Touched(b) \subseteq Files /\ Scoped(b) \in Batches /\ Additions(b) \subseteq Files
      OBVIOUS
    <2>1. Added(b) \subseteq Files /\ Removals(b) \subseteq Files
      BY DEF Added, Removals, Batches
    <2>2. Scoped(b) \in Batches
      BY DEF Scoped, Batches
    <2> QED
      BY <2>1, <2>2 DEF Touched, Additions
  <1>f. InFlight \subseteq Files
    <2>1. \A e \in ToSet(events) : e \in Batches
      BY <1>t DEF ToSet
    <2>2. \A t \in ToSet(tasks) : t.batch \in Batches
      BY <1>e DEF ToSet
    <2>3. UNION {Touched(e) : e \in ToSet(events)} \subseteq Files
      BY <2>1, <1>b
    <2>4. UNION {Touched(t.batch) : t \in ToSet(tasks)} \subseteq Files
      BY <2>2, <1>b
    <2> QED
      BY <2>3, <2>4, <1>b, <1>t DEF InFlight
  <1>1. ASSUME NEW p \in Files, Create(p) PROVE TypeOK'
    <2>1. MergeCreate(window, p) \in Batches
      BY <1>t, MergeType
    <2> QED
      BY <1>1, <2>1 DEF Create, Change, TypeOK, poolVars, modelVars
  <1>2. ASSUME NEW p \in Files, Delete(p) PROVE TypeOK'
    <2>1. MergeRemove(window, p) \in Batches
      BY <1>t, MergeType
    <2> QED
      BY <1>2, <2>1 DEF Delete, Change, TypeOK, poolVars, modelVars
  <1>3. ASSUME NEW p \in Files, NEW q \in Files, Rename(p, q) PROVE TypeOK'
    <2>1. MergeRename(window, p, q) \in Batches /\ SourceOf(window, q) \subseteq Files
      BY <1>t, MergeType, SourceType
    <2> QED
      BY <1>3, <2>1 DEF Rename, Change, TypeOK, poolVars, modelVars
  <1>4. CASE WatcherCommand
    <2>1. Tail(cmds) \in Seq({"watch", "unwatch"})
      BY <1>4, <1>t, TailType DEF WatcherCommand
    <2> QED
      BY <1>4, <2>1 DEF WatcherCommand, TypeOK, poolVars, modelVars, ghostVars
  <1>5. CASE Flush
    <2>1. Append(events, window) \in Seq(Batches)
      BY <1>t, AppendType
    <2>2. excused' \subseteq Files
      BY <1>5, <1>t, <1>b DEF Flush, Touched
    <2> QED
      BY <1>5, <2>1, <2>2, <1>n DEF Flush, TypeOK, poolVars, modelVars
  <1>6. CASE HandleEvent
    <2>1. Tail(events) \in Seq(Batches) /\ Head(events) \in Batches
      BY <1>6, <1>t, TailType DEF HandleEvent
    <2> DEFINE b == Head(events)
               task == [batch |-> Scoped(b), found |-> NotYet]
    <2>2. Append(tasks, task) \in Seq(Tasks)
      <3>1. task \in Tasks
        BY <2>1, <1>b
      <3> QED
        BY <3>1, <1>t, AppendType
    <2>3. tasks' = tasks \/ tasks' = Append(tasks, task)
      BY <1>6 DEF HandleEvent
    <2>4. tasks' \in Seq(Tasks)
      BY <2>2, <2>3, <1>t
    <2>5. excused' \subseteq Files
      <3>1. {m.from : m \in {n \in b.moved : n.to \notin disk}} \subseteq Files
        BY <2>1 DEF Batches
      <3>2. excused' \subseteq excused \cup {m.from : m \in {n \in b.moved : n.to \notin disk}} \cup Touched(b)
        BY <1>6 DEF HandleEvent
      <3> QED
        BY <3>1, <3>2, <2>1, <1>b, <1>t
    <2> QED
      BY <1>6, <2>1, <2>4, <2>5 DEF HandleEvent, TypeOK, modelVars
  <1>7. ASSUME NEW k \in DOMAIN tasks, Compute(k) PROVE TypeOK'
    <2>1. tasks[k] \in Tasks /\ Additions(tasks[k].batch) \subseteq Files
      BY <1>e, <1>b
    <2>2. [tasks[k] EXCEPT !.found = Additions(tasks[k].batch)] \in Tasks
      BY <2>1
    <2>3. tasks' \in Seq(Tasks)
      BY <1>7, <2>2, <1>t DEF Compute
    <2> QED
      BY <1>7, <2>3 DEF Compute, TypeOK, watcherVars, modelVars, ghostVars
  <1>8. ASSUME NEW k \in DOMAIN tasks, Apply(k) PROVE TypeOK'
    <2>1. RemoveAt(tasks, k) \in Seq(Tasks)
      BY <1>t, RemoveAtType
    <2>2. tasks[k].found \in (SUBSET Files) \cup {NotYet} /\ tasks[k].found # NotYet
      BY <1>8, <1>e DEF Apply
    <2>3. tree' \subseteq Files
      BY <1>8, <2>2, <1>t DEF Apply
    <2> QED
      <3>1. UNCHANGED <<disk, window, watched, cmds, refused, events, indexers, state, lazy, registered, upgraded, excused>>
            /\ tasks' = RemoveAt(tasks, k)
        BY <1>8 DEF Apply, watcherVars, ghostVars
      <3> QED
        BY <2>1, <2>3, <3>1 DEF TypeOK
  <1>c. ASSUME registered' \subseteq Views PROVE lazy' \in 0 .. Cardinality(Views)
    <2>1. CountIsBacked'
      BY CountStep
    <2>2. /\ Cardinality(registered') <= Cardinality(Views)
          /\ Cardinality(registered') \in Nat /\ Cardinality(Views) \in Nat
      BY <1>c, <2>1, RepoAssumption, FS_Subset, FS_CardinalityType DEF CountIsBacked
    <2> QED
      BY <2>1, <2>2 DEF CountIsBacked
  <1>w. \A c \in {"watch", "unwatch"} : Append(cmds, c) \in Seq({"watch", "unwatch"})
    BY <1>t, AppendType
  <1>9. ASSUME NEW v \in Views, IndexLazily(v) PROVE TypeOK'
    <2>1. registered' \subseteq Views
      BY <1>9, <1>t DEF IndexLazily
    <2>2. cmds' \in Seq({"watch", "unwatch"}) /\ tree' \subseteq Files /\ excused' \subseteq Files
          /\ state' \in {"none", "pending", "indexed", "failed"}
      BY <1>9, <1>t, <1>w, <1>f DEF IndexLazily, Add, TypeOK
    <2> QED
      BY <1>9, <1>c, <2>1, <2>2 DEF IndexLazily, TypeOK, poolVars
  <1>10. ASSUME NEW v \in Views, LazyIndexFails(v) PROVE TypeOK'
    BY <1>10 DEF LazyIndexFails, TypeOK, watcherVars, poolVars, modelVars, ghostVars
  <1>11. ASSUME NEW v \in Views, RemoveLazily(v) PROVE TypeOK'
    <2>1. registered' \subseteq Views
      BY <1>11, <1>t DEF RemoveLazily
    <2>2. cmds' \in Seq({"watch", "unwatch"}) /\ tree' \subseteq Files
          /\ state' \in {"none", "pending", "indexed", "failed"}
      BY <1>11, <1>t, <1>w DEF RemoveLazily, WatchAfterRemoval, TypeOK
    <2> QED
      BY <1>11, <1>c, <2>1, <2>2 DEF RemoveLazily, TypeOK, poolVars, ghostVars
  <1>12. CASE IndexDirectory
    <2>1. Append(indexers, NotYet) \in Seq(Found)
      BY <1>t, AppendType
    <2>2. 0 \in 0 .. Cardinality(Views)
      BY RepoAssumption, FS_CardinalityType
    <2> QED
      BY <1>12, <2>1, <2>2 DEF IndexDirectory, TypeOK, watcherVars
  <1>13. ASSUME NEW k \in DOMAIN indexers, Scan(k) PROVE TypeOK'
    <2>1. [indexers EXCEPT ![k] = disk] \in Seq(Found) /\ [indexers EXCEPT ![k] = Failed] \in Seq(Found)
      BY <1>t
    <2>2. indexers' \in Seq(Found) /\ excused' \subseteq Files
      BY <1>13, <2>1, <1>t, <1>f DEF Scan
    <2> QED
      BY <1>13, <2>2 DEF Scan, TypeOK, watcherVars, modelVars
  <1>14. ASSUME NEW k \in DOMAIN indexers, Indexed(k) PROVE TypeOK'
    <2>1. RemoveAt(indexers, k) \in Seq(Found)
      BY <1>t, RemoveAtType
    <2>2. indexers[k] \in Found /\ indexers[k] # NotYet
      BY <1>14, <1>t DEF Indexed
    <2>3. cmds' \in Seq({"watch", "unwatch"}) /\ tree' \subseteq Files
          /\ state' \in {"none", "pending", "indexed", "failed"}
      BY <1>14, <2>2, <1>t, <1>w DEF Indexed, Add
    <2> QED
      BY <1>14, <2>1, <2>3 DEF Indexed, TypeOK, ghostVars
  <1>15. CASE UNCHANGED vars
    BY <1>15 DEF vars, TypeOK, watcherVars, poolVars, modelVars, ghostVars
  <1> QED
    BY <1>1, <1>2, <1>3, <1>4, <1>5, <1>6, <1>7, <1>8, <1>9, <1>10, <1>11, <1>12, <1>13, <1>14, <1>15 DEF Next

----------------------------------------------------------------------------
(* A task is started by making the state Pending, and it is the only one that  *)
(* ends it.                                                                   *)
LEMMA OneIndexerStep == TypeOK /\ OneIndexer /\ CountedIsIndexed /\ [Next]_vars => OneIndexer' /\ CountedIsIndexed'
  <1> SUFFICES ASSUME TypeOK, OneIndexer, CountedIsIndexed, [Next]_vars
               PROVE  OneIndexer' /\ CountedIsIndexed'
    OBVIOUS
  <1> DEFINE Found == (SUBSET Files) \cup {NotYet, Failed}
  <1>t. indexers \in Seq(Found) /\ Len(indexers) \in Nat /\ lazy \in Nat
    <2>1. Cardinality(Views) \in Nat
      BY RepoAssumption, FS_CardinalityType
    <2> QED
      BY <2>1 DEF TypeOK
  <1> HIDE DEF Found
  <1>1. ASSUME NEW v \in Views, IndexLazily(v) PROVE OneIndexer' /\ CountedIsIndexed'
    BY <1>1, <1>t DEF IndexLazily, LazyAfterIndex, Add, poolVars, OneIndexer, CountedIsIndexed
  <1>2. ASSUME NEW v \in Views, RemoveLazily(v) PROVE OneIndexer' /\ CountedIsIndexed'
    BY <1>2, <1>t DEF RemoveLazily, LazyAfterRemoval, poolVars, OneIndexer, CountedIsIndexed
  <1>3. CASE IndexDirectory
    <2>1. Len(indexers) = 0
      BY <1>3, <1>t DEF IndexDirectory, MustIndex, OneIndexer
    <2>2. Len(Append(indexers, NotYet)) = 1
      BY <1>t, <2>1, AppendType DEF Found
    <2> QED
      BY <1>3, <2>2 DEF IndexDirectory, OneIndexer, CountedIsIndexed
  <1>4. ASSUME NEW k \in DOMAIN indexers, Scan(k) PROVE OneIndexer' /\ CountedIsIndexed'
    <2>1. Len(indexers') = Len(indexers)
      BY <1>4, <1>t DEF Scan
    <2> QED
      BY <1>4, <2>1 DEF Scan, modelVars, OneIndexer, CountedIsIndexed
  <1>5. ASSUME NEW k \in DOMAIN indexers, Indexed(k) PROVE OneIndexer' /\ CountedIsIndexed'
    <2>1. Len(indexers) # 0
      BY <1>5, <1>t
    <2>2. state = "pending" /\ Len(indexers) = 1
      BY <2>1 DEF OneIndexer
    <2>3. Len(indexers') = 0
      BY <1>5, <1>t, <2>2, RemoveAtType DEF Indexed
    <2>4. lazy' = 0 /\ state' \in {"indexed", "failed"}
      BY <1>5, <1>t, <2>2 DEF Indexed, Add, CountedIsIndexed
    <2> QED
      BY <2>3, <2>4 DEF OneIndexer, CountedIsIndexed
  <1>6. CASE UNCHANGED <<indexers, state, lazy>>
    BY <1>6 DEF OneIndexer, CountedIsIndexed
  <1>7. \/ UNCHANGED <<indexers, state, lazy>> \/ IndexDirectory
        \/ \E v \in Views : IndexLazily(v) \/ RemoveLazily(v)
        \/ \E k \in DOMAIN indexers : Scan(k) \/ Indexed(k)
    BY DEF Next, vars, modelVars, poolVars, Create, Delete, Rename, Change, WatcherCommand, Flush,
           HandleEvent, Compute, Apply, LazyIndexFails
  <1> QED
    BY <1>1, <1>2, <1>3, <1>4, <1>5, <1>6, <1>7

(* Until the first upgrade the count is exact.                                 *)
LEMMA ViewsStep ==
  TypeOK /\ OneIndexer /\ CountedIsIndexed /\ CountIsBacked /\ ViewsAreCounted /\ [Next]_vars => ViewsAreCounted'
  <1> SUFFICES ASSUME TypeOK, OneIndexer, CountedIsIndexed, CountIsBacked, ViewsAreCounted, [Next]_vars,
                      ~ upgraded'
               PROVE  lazy' = Cardinality(registered') /\ (registered' # {} => state' = "indexed")
    BY DEF ViewsAreCounted
  <1>t. /\ IsFiniteSet(registered) /\ Cardinality(registered) \in Nat /\ lazy \in Nat
        /\ Cardinality({}) = 0 /\ (Cardinality(registered) = 0 => registered = {})
    BY FS_EmptySet, FS_CardinalityType DEF CountIsBacked
  <1> DEFINE Goal == lazy' = Cardinality(registered') /\ (registered' # {} => state' = "indexed")
  <1>1. ASSUME NEW v \in Views, IndexLazily(v) PROVE Goal
    <2>1. ~ upgraded /\ lazy = Cardinality(registered) /\ v \notin registered
      BY <1>1 DEF IndexLazily, ViewsAreCounted
    <2>2. CASE lazy' > 0
      <3>1. lazy' = lazy + 1 /\ registered' = registered \cup {v} /\ state' = "indexed"
        BY <1>1, <1>t, <2>2 DEF IndexLazily, LazyAfterIndex, Add, CountedIsIndexed
      <3> QED
        BY <1>t, <2>1, <3>1, FS_AddElement
    <2>3. CASE ~ (lazy' > 0)
      <3>1. lazy' = 0 /\ lazy = 0 /\ registered' = registered
        BY <1>1, <1>t, <2>3 DEF IndexLazily, LazyAfterIndex
      <3> QED
        BY <1>t, <2>1, <3>1
    <2> QED
      BY <2>2, <2>3
  <1>2. ASSUME NEW v \in Views, RemoveLazily(v) PROVE Goal
    <2>1. /\ lazy = Cardinality(registered) /\ v \in registered /\ state = "indexed"
          /\ registered' = registered \ {v}
      BY <1>2 DEF RemoveLazily, ViewsAreCounted, ghostVars
    <2>2. lazy > 0
      BY <1>t, <2>1
    <2>3. lazy' = lazy - 1 /\ (lazy # 1 => state' = "indexed")
      BY <1>2, <1>t, <2>1, <2>2 DEF RemoveLazily, LazyAfterRemoval
    <2>4. Cardinality(registered') = lazy - 1 /\ IsFiniteSet(registered')
      BY <1>t, <2>1, FS_RemoveElement
    <2>5. lazy = 1 => registered' = {}
      BY <2>4, FS_EmptySet
    <2> QED
      BY <2>3, <2>4, <2>5
  <1>3. CASE IndexDirectory
    <2>1. ~ (upgraded \/ lazy > 0)
      BY <1>3, Zenon DEF IndexDirectory
    <2>2. lazy' = 0 /\ registered' = registered
      BY <1>3 DEF IndexDirectory
    <2> QED
      BY <1>t, <2>1, <2>2 DEF ViewsAreCounted
  <1>4. ASSUME NEW k \in DOMAIN indexers, Indexed(k) PROVE Goal
    <2>1. Len(indexers) # 0
      BY DEF TypeOK
    <2>2. state = "pending"
      BY <2>1 DEF OneIndexer
    <2> QED
      BY <1>4, <1>t, <2>2 DEF Indexed, Add, ghostVars, ViewsAreCounted, CountedIsIndexed
  <1>5. CASE UNCHANGED <<lazy, registered, state, upgraded>>
    BY <1>5 DEF ViewsAreCounted
  <1>6. \/ UNCHANGED <<lazy, registered, state, upgraded>> \/ IndexDirectory
        \/ \E v \in Views : IndexLazily(v) \/ RemoveLazily(v)
        \/ \E k \in DOMAIN indexers : Indexed(k)
    BY DEF Next, vars, modelVars, ghostVars, Create, Delete, Rename, Change, WatcherCommand, Flush,
           HandleEvent, Compute, Apply, LazyIndexFails, Scan
  <1> QED
    BY <1>1, <1>2, <1>3, <1>4, <1>5, <1>6

(* Every registration goes to the end of the queue, with the state it is for.   *)
LEMMA CommandStep == TypeOK /\ LastCommandFits /\ CountedIsIndexed /\ [Next]_vars => LastCommandFits'
  <1> SUFFICES ASSUME TypeOK, LastCommandFits, CountedIsIndexed, [Next]_vars PROVE LastCommandFits'
    OBVIOUS
  <1>t. cmds \in Seq({"watch", "unwatch"})
    BY DEF TypeOK
  <1>1. ASSUME NEW c \in {"watch", "unwatch"}, cmds' = Append(cmds, c) PROVE WillWatch' <=> c = "watch"
    <2>1. cmds' # <<>> /\ cmds'[Len(cmds')] = c
      BY <1>t, <1>1, AppendType
    <2> QED
      BY <2>1 DEF WillWatch
  <1>2. CASE WatcherCommand
    <2>1. /\ cmds' = Tail(cmds) /\ cmds # <<>> /\ state' = state
          /\ watched' = (Head(cmds) = "watch") \/ refused' = TRUE
      BY <1>2 DEF WatcherCommand, modelVars
    <2>2. (cmds' # <<>> \/ ~ refused') => (WillWatch' <=> cmds[Len(cmds)] = "watch")
      <3>1. CASE Tail(cmds) = <<>>
        BY <1>t, <2>1, <3>1, TailType DEF WillWatch
      <3>2. CASE Tail(cmds) # <<>>
        BY <1>t, <2>1, <3>2, TailType DEF WillWatch
      <3> QED
        BY <3>1, <3>2
    <2> QED
      BY <2>1, <2>2 DEF LastCommandFits, WillWatch
  <1>3. CASE UNCHANGED <<state, cmds, refused, watched>>
    BY <1>3 DEF LastCommandFits, WillWatch
  <1>4. CASE cmds' = Append(cmds, "watch") /\ state' = "indexed"
    BY <1>1, <1>4 DEF LastCommandFits
  <1>5. CASE cmds' = Append(cmds, "unwatch") /\ state' = "none"
    BY <1>1, <1>5 DEF LastCommandFits
  <1>6. CASE state' \in {"pending", "failed"}
    BY <1>6 DEF LastCommandFits
  <1>7. ASSUME NEW v \in Views, RemoveLazily(v)
        PROVE  \/ UNCHANGED <<state, cmds, refused, watched>>
               \/ cmds' = Append(cmds, "unwatch") /\ state' = "none"
    <2>1. lazy = 1 => state = "indexed"
      BY DEF CountedIsIndexed
    <2> QED
      BY <1>7, <2>1 DEF RemoveLazily, WatchAfterRemoval
  <1>8. \/ UNCHANGED <<state, cmds, refused, watched>> \/ WatcherCommand
        \/ cmds' = Append(cmds, "watch") /\ state' = "indexed"
        \/ state' \in {"pending", "failed"}
        \/ \E v \in Views : RemoveLazily(v)
    BY DEF Next, vars, modelVars, watcherVars, Create, Delete, Rename, Change, Flush, HandleEvent, Compute, Apply,
           IndexLazily, LazyIndexFails, IndexDirectory, Scan, Indexed, Add
  <1> QED
    BY <1>2, <1>3, <1>4, <1>5, <1>6, <1>7, <1>8

----------------------------------------------------------------------------
LEMMA InvStep == Inv /\ [Next]_vars => Inv'
  BY TypeStep, CountStep, OneIndexerStep, ViewsStep, CommandStep DEF Inv, StateHasItsOwner

LEMMA InvHolds == Spec => []Inv
  BY InitInv, InvStep, PTL DEF Spec

(* The variables keep their types; in particular no count exceeds the views.    *)
THEOREM TypeCorrect == Spec => []TypeOK
  <1>1. Inv => TypeOK
    BY DEF Inv
  <1> QED
    BY <1>1, InvHolds, PTL

(* Whatever views, detections and failures do to one another, a directory is     *)
(* indexed by at most one task, Pending ends only with it, and a view that has   *)
(* registered keeps its tree up to the first upgrade to a repository.            *)
THEOREM OwnersKnown == Spec => []StateHasItsOwner
  <1>1. Inv => StateHasItsOwner
    BY DEF Inv
  <1> QED
    BY <1>1, InvHolds, PTL

(* When the watcher's thread has worked off its queue and its last command did    *)
(* not fail, what is indexed is watched and what was removed is not, whatever     *)
(* commands failed before.                                                    *)
THEOREM WatchFits == Spec => []WatchFollows
  <1>1. Inv => WatchFollows
    BY DEF Inv, WatchFollows, LastCommandFits, WillWatch
  <1> QED
    BY <1>1, InvHolds, PTL
=============================================================================
