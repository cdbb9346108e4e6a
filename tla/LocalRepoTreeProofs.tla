--------------------------- MODULE LocalRepoTreeProofs ---------------------------
(***************************************************************************)
(* Why the tree ends up like the disk, for any number of files and changes.   *)
(*                                                                          *)
(* A file that is not excused is in the end what the last batch that touches  *)
(* it makes of it.  Before the window, that is what the last event says, or    *)
(* the one task if there is no event, or the tree: Coming.  A window that       *)
(* removes the file decides alone.  Any other has to find it absent, or, if     *)
(* it does not touch it, as it is on the disk: both are Want.                  *)
(***************************************************************************)
EXTENDS LocalRepoProofs

LastEvent(p, i) ==
    /\ p \in Touched(events[i])
    /\ \A j \in DOMAIN events : j > i => p \notin Touched(events[j])
InEvents(p) == \E i \in DOMAIN events : p \in Touched(events[i])
InTasks(p) == \E k \in DOMAIN tasks : p \in Touched(tasks[k].batch)

Result(t, p) == IF t.found = NotYet THEN p \in Added(t.batch) ELSE p \in t.found
Want(p) == p \in disk /\ p \notin Added(window)

WindowAdds(p) == p \in disk /\ p \in Touched(window) => p \in Added(window)

EventsRight(p) == \A i \in DOMAIN events : LastEvent(p, i) => (p \in Added(events[i]) <=> Want(p))
TasksRight(p) == \A k \in DOMAIN tasks : p \in Touched(tasks[k].batch) => (Result(tasks[k], p) <=> Want(p))
TreeRight(p) == ~ InTasks(p) => (p \in tree <=> Want(p))
Coming(p) == EventsRight(p) /\ (~ InEvents(p) => TasksRight(p) /\ TreeRight(p))

OneTask(p) ==
    \A i, j \in DOMAIN tasks : p \in Touched(tasks[i].batch) /\ p \in Touched(tasks[j].batch) => i = j

(* A task that did not find what it was to add is followed by a removal.       *)
MissedIsRemoved(p) ==
    \A k \in DOMAIN tasks :
        tasks[k].found # NotYet /\ p \in Touched(tasks[k].batch) /\ p \notin tasks[k].found
        => p \in Removals(tasks[k].batch) \/ p \in Removals(window) \/ InEvents(p)

Faithful(p) ==
    /\ WindowAdds(p)
    /\ p \notin Removals(window) => Coming(p)
    /\ OneTask(p)
    /\ MissedIsRemoved(p)

UniqueTargets == \A m, n \in window.moved : m.to = n.to => m = n
FoundIsAdded == \A k \in DOMAIN tasks : tasks[k].found # NotYet => tasks[k].found \subseteq Added(tasks[k].batch)

(* A tree that has been read, and is not in the model yet.                     *)
ScanFaithful ==
    \A k \in DOMAIN indexers :
        indexers[k] \notin {NotYet, Failed} =>
            \A p \in Files \ excused : p \notin InFlight /\ (p \in indexers[k] <=> p \in disk)

TreeInv ==
    /\ UniqueTargets
    /\ FoundIsAdded
    /\ ScanFaithful
    /\ state = "indexed" => \A p \in Files \ excused : Faithful(p)

----------------------------------------------------------------------------
(* What merging one event does to the window: a file other than those that are  *)
(* excused is removed by it if it was, and otherwise wanted if it was.           *)
MergedTo(d, w, p) ==
    /\ p \in Removals(window) => p \in Removals(w)
    /\ p \notin Removals(w) => (Want(p) <=> p \in d /\ p \notin Added(w))
    /\ p \in d /\ p \in Touched(w) => p \in Added(w)

LEMMA CreateMerges ==
  ASSUME TypeOK, NEW p \in Files, p \notin disk, NEW r \in Files, WindowAdds(r)
  PROVE  MergedTo(disk \cup {p}, MergeCreate(window, p), r)
  <1>1. /\ Removals(MergeCreate(window, p)) = Removals(window)
        /\ Added(MergeCreate(window, p)) = Added(window) \cup {p}
    BY DEF MergeCreate, Removals, Added, TypeOK, Batches
  <1> QED
    BY <1>1 DEF MergedTo, WindowAdds, Want, Touched

LEMMA RemoveMerges ==
  ASSUME TypeOK, UniqueTargets, NEW p \in Files, p \in disk, NEW r \in Files, WindowAdds(r)
  PROVE  MergedTo(disk \ {p}, MergeRemove(window, p), r)
  <1> DEFINE w == MergeRemove(window, p)
             S == SourceOf(window, p)
  <1>t. window \in Batches
    BY DEF TypeOK
  <1>1. CASE p \in window.created
    <2>1. w = [window EXCEPT !.created = @ \ {p}]
      BY <1>1 DEF MergeRemove
    <2>2. Removals(w) = Removals(window)
      BY <1>t, <2>1 DEF Removals, Batches
    <2>3. \A q : q # p => (q \in Added(w) <=> q \in Added(window))
      BY <1>t, <2>1 DEF Added, Batches
    <2>4. p \in Added(window)
      BY <1>1 DEF Added
    <2> HIDE DEF w
    <2>5. MergedTo(disk \ {p}, w, r)
      BY <2>2, <2>3, <2>4 DEF MergedTo, WindowAdds, Want, Touched
    <2> QED
      BY <2>5 DEF w
  <1>2. CASE p \notin window.created
    <2>1. /\ w.created = window.created
          /\ w.deleted = window.deleted \cup (IF S = {} THEN {p} ELSE S)
          /\ w.moved = Unmoved(window, p)
      BY <1>t, <1>2 DEF MergeRemove, Batches
    <2> HIDE DEF w
    <2>2. \A q : q \in Removals(window) => q \in Removals(w)
      BY <2>1 DEF Removals, Unmoved, SourceOf
    <2>3. \A q : q # p => (q \in Added(w) <=> q \in Added(window))
      BY <2>1 DEF Added, Unmoved
    <2>4. p \in Removals(w) \/ p \in Added(window)
      BY <2>1 DEF Removals, Added, SourceOf
    <2>5. \A q : q # p /\ q \in Removals(w) => q \in Removals(window)
      BY <2>1 DEF Removals, Unmoved, SourceOf
    <2>6. MergedTo(disk \ {p}, w, r)
      BY <2>2, <2>3, <2>4, <2>5 DEF MergedTo, WindowAdds, Want, Touched
    <2> QED
      BY <2>6 DEF w
  <1> QED
    BY <1>1, <1>2

LEMMA RenameMerges ==
  ASSUME TypeOK, UniqueTargets, NEW p \in Files, NEW q \in Files, p \in disk, p # q,
         NEW r \in Files, r \notin SourceOf(window, q) \cup (disk \cap {q}), WindowAdds(r)
  PROVE  MergedTo((disk \ {p}) \cup {q}, MergeRename(window, p, q), r)
  <1> DEFINE w == MergeRename(window, p, q)
             S == SourceOf(window, p)
             source == IF S = {} THEN p ELSE CHOOSE s \in S : TRUE
  <1>t. window \in Batches
    BY DEF TypeOK
  <1>1. /\ w.created = window.created /\ w.deleted = window.deleted
        /\ w.moved = {m \in Unmoved(window, p) : m.to # q} \cup {[to |-> q, from |-> source]}
    BY <1>t DEF MergeRename, Batches
  <1>2. (S = {} => source = p) /\ (S # {} => source \in S)
    OBVIOUS
  <1>3. \A s, u \in S : s = u
    BY DEF SourceOf, UniqueTargets
  <1> HIDE DEF w, source
  <1>4. \A x : x \in Removals(window) /\ x \notin SourceOf(window, q) => x \in Removals(w)
    <2> SUFFICES ASSUME NEW x, x \in Removals(window), x \notin SourceOf(window, q)
                 PROVE  x \in Removals(w)
      OBVIOUS
    <2>1. CASE x \in window.deleted
      BY <1>1, <2>1 DEF Removals
    <2>2. CASE x \notin window.deleted
      <3>1. PICK m \in window.moved : m.from = x
        BY <2>2 DEF Removals
      <3>2. m.to # q
        BY <3>1 DEF SourceOf
      <3>3. CASE m.to = p
        <4>1. x = source
          BY <1>2, <1>3, <3>1, <3>3 DEF SourceOf
        <4>2. [to |-> q, from |-> source] \in w.moved
          BY <1>1
        <4> QED
          BY <4>1, <4>2 DEF Removals
      <3>4. CASE m.to # p
        BY <1>1, <3>1, <3>2, <3>4 DEF Removals, Unmoved
      <3> QED
        BY <3>3, <3>4
    <2> QED
      BY <2>1, <2>2
  <1>5. q \in Added(w)
    BY <1>1 DEF Added
  <1>6. \A x : x \notin {p, q} => (x \in Added(w) <=> x \in Added(window))
    BY <1>1 DEF Added, Unmoved
  <1>7. p \in Removals(w) \/ p \in Added(window)
    <2>1. CASE S = {}
      <3>1. [to |-> q, from |-> p] \in w.moved
        BY <1>1, <1>2, <2>1
      <3> QED
        BY <3>1 DEF Removals
    <2>2. CASE S # {}
      BY <2>2 DEF Added, SourceOf
    <2> QED
      BY <2>1, <2>2
  <1>8. \A x : x # p /\ x \in Removals(w) => x \in Removals(window)
    BY <1>1, <1>2 DEF Removals, Unmoved, SourceOf
  <1>9. MergedTo((disk \ {p}) \cup {q}, w, r)
    BY <1>4, <1>5, <1>6, <1>7, <1>8 DEF MergedTo, WindowAdds, Want, Touched
  <1> QED
    BY <1>9 DEF w

----------------------------------------------------------------------------
(* One step, for one file.                                                    *)
LEMMA ChangeFaithful ==
  ASSUME NEW r \in Files, Faithful(r), MergedTo(disk', window', r), UNCHANGED <<events, tasks, tree>>
  PROVE  Faithful(r)'
  <1>1. /\ r \in Removals(window) => r \in Removals(window')
        /\ r \notin Removals(window') => (Want(r) <=> Want(r)')
        /\ WindowAdds(r)'
    BY DEF MergedTo, Want, WindowAdds
  <1>2. r \notin Removals(window') => Coming(r)'
    BY <1>1 DEF Faithful, Coming, EventsRight, TasksRight, TreeRight, LastEvent, InEvents, InTasks, Result
  <1>3. OneTask(r)'
    BY DEF Faithful, OneTask
  <1>4. MissedIsRemoved(r)'
    BY <1>1 DEF Faithful, MissedIsRemoved, InEvents
  <1> QED
    BY <1>1, <1>2, <1>3, <1>4 DEF Faithful

(* An unwatched change, or one that merges.                                    *)
LEMMA DiskStep ==
  ASSUME TypeOK, UniqueTargets, state = "indexed", NEW r \in Files, Faithful(r), r \notin excused',
         \E p \in Files : Create(p) \/ Delete(p) \/ \E q \in Files : Rename(p, q)
  PROVE  Faithful(r)'
  <1>1. UNCHANGED <<events, tasks, tree>>
    BY DEF Create, Delete, Rename, Change, poolVars, modelVars
  <1>2. WindowAdds(r)
    BY DEF Faithful
  <1>3. ASSUME NEW d, window' = window, disk' = d, r \in d <=> r \in disk PROVE MergedTo(disk', window', r)
    BY <1>2, <1>3 DEF MergedTo, WindowAdds, Want
  <1>4. ASSUME NEW p \in Files, Create(p) PROVE MergedTo(disk', window', r)
    <2>1. CASE watched
      BY <1>2, <1>4, <2>1, CreateMerges DEF Create, Change
    <2>2. CASE ~ watched
      <3>1. r # p
        BY <1>4, <2>2 DEF Create, Change, HasReadDisk
      <3> QED
        BY <1>3, <1>4, <2>2, <3>1 DEF Create, Change
    <2> QED
      BY <2>1, <2>2
  <1>5. ASSUME NEW p \in Files, Delete(p) PROVE MergedTo(disk', window', r)
    <2>1. CASE watched
      BY <1>2, <1>5, <2>1, RemoveMerges DEF Delete, Change
    <2>2. CASE ~ watched
      <3>1. r # p
        BY <1>5, <2>2 DEF Delete, Change, HasReadDisk
      <3> QED
        BY <1>3, <1>5, <2>2, <3>1 DEF Delete, Change
    <2> QED
      BY <2>1, <2>2
  <1>6. ASSUME NEW p \in Files, NEW q \in Files, Rename(p, q) PROVE MergedTo(disk', window', r)
    <2>1. r \notin SourceOf(window, q) \cup (disk \cap {q}) /\ p \in disk /\ p # q
      BY <1>6 DEF Rename, Change
    <2>2. CASE watched
      BY <1>2, <1>6, <2>1, <2>2, RenameMerges DEF Rename, Change
    <2>3. CASE ~ watched
      <3>1. r # p /\ r # q
        BY <1>6, <2>3 DEF Rename, Change, HasReadDisk
      <3> QED
        BY <1>3, <1>6, <2>3, <3>1 DEF Rename, Change
    <2> QED
      BY <2>2, <2>3
  <1> QED
    BY <1>1, <1>4, <1>5, <1>6, ChangeFaithful

(* The window becomes the last event.                                          *)
LEMMA FlushStep ==
  ASSUME TypeOK, NEW r \in Files, Faithful(r), r \notin excused', Flush
  PROVE  Faithful(r)'
  <1>t. events \in Seq(Batches) /\ window \in Batches
    BY DEF TypeOK
  <1> DEFINE n == Len(events) + 1
  <1>1. /\ Len(events) \in Nat /\ DOMAIN events = 1 .. Len(events) /\ DOMAIN events' = 1 .. n
        /\ events'[n] = window /\ \A i \in DOMAIN events : events'[i] = events[i]
    BY <1>t DEF Flush
  <1>2. /\ Touched(NothingYet) = {} /\ Added(NothingYet) = {} /\ Removals(NothingYet) = {}
    BY DEF NothingYet, Touched, Added, Removals
  <1>3. /\ UNCHANGED <<disk, tasks, tree>> /\ window' = NothingYet
        /\ r \notin Added(window) \ disk
    BY DEF Flush, poolVars, modelVars
  <1>4. WindowAdds(r)'
    BY <1>2, <1>3 DEF WindowAdds
  <1>5. Want(r)' <=> r \in disk
    BY <1>2, <1>3 DEF Want
  <1>6. InEvents(r)' <=> InEvents(r) \/ r \in Touched(window)
    BY <1>1 DEF InEvents
  <1>7. CASE r \in Touched(window)
    <2>1. r \in Added(window) <=> r \in disk
      BY <1>3, <1>7 DEF Faithful, WindowAdds
    <2>2. \A i \in DOMAIN events' : LastEvent(r, i)' => i = n
      BY <1>1, <1>7 DEF LastEvent
    <2>3. Coming(r)'
      BY <1>1, <1>5, <1>6, <1>7, <2>1, <2>2 DEF Coming, EventsRight
    <2>4. MissedIsRemoved(r)'
      BY <1>6, <1>7 DEF MissedIsRemoved
    <2> QED
      BY <1>3, <1>4, <2>3, <2>4 DEF Faithful, OneTask
  <1>8. CASE r \notin Touched(window)
    <2>1. Coming(r)
      BY <1>8 DEF Faithful, Touched
    <2>2. Want(r)' <=> Want(r)
      BY <1>5, <1>8 DEF Want, Touched
    <2>3. \A i \in DOMAIN events' : LastEvent(r, i)' => i \in DOMAIN events /\ LastEvent(r, i)
      BY <1>1, <1>8 DEF LastEvent
    <2>4. EventsRight(r)'
      BY <1>1, <2>1, <2>2, <2>3 DEF Coming, EventsRight
    <2>5. ~ InEvents(r)' => TasksRight(r)' /\ TreeRight(r)'
      BY <1>3, <1>6, <2>1, <2>2 DEF Coming, TasksRight, TreeRight, InTasks, Result
    <2>6. MissedIsRemoved(r)'
      BY <1>3, <1>6, <1>8 DEF Faithful, MissedIsRemoved, Touched
    <2> QED
      BY <1>3, <1>4, <2>4, <2>5, <2>6 DEF Faithful, Coming, OneTask
  <1> QED
    BY <1>7, <1>8

(* What the lookup on the disk takes out of an event is not on the disk, or      *)
(* excused.                                                                   *)
LEMMA ScopedKeeps ==
  ASSUME NEW b \in Batches, NEW r, r \notin {m.from : m \in {n \in b.moved : n.to \notin disk}}
  PROVE  /\ r \in Added(Scoped(b)) <=> r \in Added(b) /\ r \in disk
         /\ r \in Removals(Scoped(b)) <=> r \in Removals(b)
  BY DEF Scoped, Added, Removals

(* The first event becomes a task.                                             *)
LEMMA HandleStep ==
  ASSUME TypeOK, state = "indexed", NEW r \in Files, Faithful(r), r \notin excused', HandleEvent
  PROVE  Faithful(r)'
  <1> DEFINE b == Head(events)
             Tasks == [batch : Batches, found : (SUBSET Files) \cup {NotYet}]
             task == [batch |-> Scoped(b), found |-> NotYet]
  <1>t. events \in Seq(Batches) /\ events # <<>> /\ tasks \in Seq(Tasks)
    BY DEF TypeOK, HandleEvent
  <1>1. /\ b \in Batches /\ events' = Tail(events) /\ Len(events) \in Nat \ {0}
        /\ DOMAIN events = 1 .. Len(events) /\ DOMAIN events' = 1 .. Len(events) - 1
        /\ b = events[1] /\ \A i \in DOMAIN events' : events'[i] = events[i + 1]
    BY <1>t, HeadTailProperties DEF HandleEvent
  <1>2. /\ UNCHANGED <<disk, window, tree>>
        /\ r \notin {m.from : m \in {n \in b.moved : n.to \notin disk}}
        /\ r \in Touched(b) => ~ InTasks(r)
    <2>1. r \notin Touched(b) \cap UNION {Touched(t.batch) : t \in ToSet(tasks)}
      BY DEF HandleEvent
    <2>2. InTasks(r) => r \in UNION {Touched(t.batch) : t \in ToSet(tasks)}
      BY DEF InTasks, ToSet
    <2> QED
      BY <2>1, <2>2 DEF HandleEvent, modelVars
  <1>3. /\ r \in Added(Scoped(b)) <=> r \in Added(b) /\ r \in disk
        /\ r \in Removals(Scoped(b)) <=> r \in Removals(b)
    BY <1>1, <1>2, ScopedKeeps
  <1>4. WindowAdds(r)' /\ (Want(r)' <=> Want(r)) /\ (Want(r) => r \in disk)
    BY <1>2 DEF Faithful, WindowAdds, Want
  <1> HIDE DEF b, Tasks
  <1>5. InEvents(r) <=> r \in Touched(b) \/ InEvents(r)'
    <2>1. ASSUME NEW i \in DOMAIN events, r \in Touched(events[i]) PROVE r \in Touched(b) \/ InEvents(r)'
      <3>1. CASE i = 1
        BY <1>1, <2>1, <3>1
      <3>2. CASE i # 1
        <4>1. i - 1 \in DOMAIN events' /\ events'[i - 1] = events[i]
          BY <1>1, <3>2
        <4> QED
          BY <2>1, <4>1 DEF InEvents
      <3> QED
        BY <3>1, <3>2
    <2>2. ASSUME NEW i \in DOMAIN events', r \in Touched(events'[i]) PROVE InEvents(r)
      <3>1. i + 1 \in DOMAIN events /\ events'[i] = events[i + 1]
        BY <1>1
      <3> QED
        BY <2>2, <3>1 DEF InEvents
    <2>3. r \in Touched(b) => InEvents(r)
      <3>1. 1 \in DOMAIN events
        BY <1>1
      <3> QED
        BY <1>1, <3>1 DEF InEvents
    <2> QED
      BY <2>1, <2>2, <2>3 DEF InEvents
  <1>6. EventsRight(r) => EventsRight(r)'
    <2> SUFFICES ASSUME EventsRight(r), NEW i \in DOMAIN events', LastEvent(r, i)'
                 PROVE  r \in Added(events'[i]) <=> Want(r)'
      BY DEF EventsRight
    <2>1. i + 1 \in DOMAIN events /\ events'[i] = events[i + 1]
      BY <1>1
    <2>2. LastEvent(r, i + 1)
      <3>1. r \in Touched(events[i + 1])
        BY <2>1 DEF LastEvent
      <3>2. ASSUME NEW j \in DOMAIN events, j > i + 1 PROVE r \notin Touched(events[j])
        <4>1. j - 1 \in DOMAIN events' /\ j - 1 > i /\ events'[j - 1] = events[j]
          BY <1>1, <3>2
        <4> QED
          BY <4>1 DEF LastEvent
      <3> QED
        BY <3>1, <3>2 DEF LastEvent
    <2> QED
      BY <1>4, <2>1, <2>2 DEF EventsRight
  <1>7. /\ \/ tasks' = tasks /\ r \notin Touched(Scoped(b))
           \/ /\ DOMAIN tasks' = 1 .. Len(tasks) + 1 /\ DOMAIN tasks = 1 .. Len(tasks) /\ Len(tasks) \in Nat
              /\ tasks'[Len(tasks) + 1] = task
              /\ \A k \in DOMAIN tasks : tasks'[k] = tasks[k]
    <2>1. CASE Scoped(b) = NothingYet
      <3>1. tasks' = tasks
        BY <2>1 DEF HandleEvent, b
      <3>2. Touched(Scoped(b)) = {}
        BY <2>1 DEF NothingYet, Touched, Added, Removals
      <3> QED
        BY <3>1, <3>2
    <2>2. CASE Scoped(b) # NothingYet
      <3>1. tasks' = Append(tasks, task)
        BY <2>2 DEF HandleEvent, b
      <3> HIDE DEF task
      <3> QED
        BY <1>t, <3>1
    <2> QED
      BY <2>1, <2>2
  <1>8. CASE r \notin Touched(b)
    <2>1. r \notin Touched(Scoped(b)) /\ (InEvents(r)' <=> InEvents(r))
      BY <1>3, <1>5, <1>8 DEF Touched
    <2>2. InTasks(r)' <=> InTasks(r)
      BY <1>7, <2>1 DEF InTasks
    <2>3. TasksRight(r) => TasksRight(r)'
      BY <1>4, <1>7, <2>1 DEF TasksRight, Result
    <2>4. OneTask(r)'
      BY <1>7, <2>1 DEF Faithful, OneTask
    <2>5. MissedIsRemoved(r)'
      BY <1>2, <1>7, <2>1 DEF Faithful, MissedIsRemoved
    <2> QED
      BY <1>2, <1>4, <1>6, <2>1, <2>2, <2>3, <2>4, <2>5 DEF Faithful, Coming, TreeRight
  <1>9. CASE r \in Touched(b)
    <2>1. ~ InTasks(r)
      BY <1>2, <1>9
    <2>2. OneTask(r)'
      BY <1>7, <2>1 DEF OneTask, InTasks
    <2>3. MissedIsRemoved(r)'
      BY <1>7, <2>1 DEF MissedIsRemoved, InTasks
    <2>4. ASSUME r \notin Removals(window), ~ InEvents(r)' PROVE TasksRight(r)' /\ TreeRight(r)'
      <3>1. LastEvent(r, 1)
        <4>1. ASSUME NEW j \in DOMAIN events, j > 1 PROVE r \notin Touched(events[j])
          <5>1. j - 1 \in DOMAIN events' /\ events'[j - 1] = events[j]
            BY <1>1, <4>1
          <5> QED
            BY <2>4, <5>1 DEF InEvents
        <4> QED
          BY <1>1, <1>9, <4>1 DEF LastEvent
      <3>2. r \in Added(b) <=> Want(r)
        <4>1. 1 \in DOMAIN events
          BY <1>1
        <4> QED
          BY <1>1, <2>4, <3>1, <4>1 DEF Faithful, Coming, EventsRight
      <3>3. (r \in Added(Scoped(b)) <=> Want(r)) /\ r \in Touched(Scoped(b))
        BY <1>3, <1>4, <1>9, <3>2 DEF Touched
      <3>4. TasksRight(r)'
        BY <1>4, <1>7, <2>1, <3>3 DEF TasksRight, Result, InTasks
      <3>5. InTasks(r)'
        BY <1>7, <3>3 DEF InTasks
      <3> QED
        BY <3>4, <3>5 DEF TreeRight
    <2> QED
      BY <1>2, <1>4, <1>6, <2>2, <2>3, <2>4 DEF Faithful, Coming
  <1> QED
    BY <1>8, <1>9

(* The disk is looked at.                                                      *)
LEMMA ComputeStep ==
  ASSUME TypeOK, NEW r \in Files, Faithful(r), NEW k \in DOMAIN tasks, Compute(k)
  PROVE  Faithful(r)'
  <1>1. /\ UNCHANGED <<disk, window, events, tree>>
        /\ tasks[k].found = NotYet /\ NotYet # Additions(tasks[k].batch)
        /\ DOMAIN tasks' = DOMAIN tasks
        /\ \A j \in DOMAIN tasks : tasks'[j].batch = tasks[j].batch
        /\ \A j \in DOMAIN tasks \ {k} : tasks'[j] = tasks[j]
        /\ tasks'[k].found = Additions(tasks[k].batch)
    <2>1. /\ tasks[k].found = NotYet
          /\ UNCHANGED <<disk, window, events, tree>>
          /\ tasks' = [tasks EXCEPT ![k].found = Additions(tasks[k].batch)]
      BY DEF Compute, watcherVars, modelVars
    <2> DEFINE Tasks == [batch : Batches, found : (SUBSET Files) \cup {NotYet}]
    <2>t. tasks \in Seq(Tasks)
      BY DEF TypeOK
    <2> HIDE DEF Tasks
    <2>r. tasks[k] \in Tasks /\ DOMAIN tasks = 1 .. Len(tasks)
      BY <2>t
    <2> USE DEF Tasks
    <2>2. tasks[k] \in [batch : Batches, found : (SUBSET Files) \cup {NotYet}] /\ DOMAIN tasks = 1 .. Len(tasks)
      BY <2>r
    <2>3. Additions(tasks[k].batch) \in SUBSET Files
      BY <2>2 DEF Additions, Added, Batches
    <2>4. NotYet # Additions(tasks[k].batch)
      BY <2>3, RepoAssumption
    <2> QED
      BY <2>1, <2>2, <2>4
  <1>2. WindowAdds(r)' /\ (Want(r)' <=> Want(r)) /\ (Want(r) => r \in disk)
    BY <1>1 DEF Faithful, WindowAdds, Want
  <1>3. /\ InEvents(r)' <=> InEvents(r)
        /\ InTasks(r)' <=> InTasks(r)
        /\ EventsRight(r) => EventsRight(r)'
        /\ OneTask(r)'
    BY <1>1, <1>2 DEF Faithful, InEvents, InTasks, EventsRight, LastEvent, OneTask
  <1>4. TasksRight(r) => TasksRight(r)'
    <2> SUFFICES ASSUME TasksRight(r), NEW j \in DOMAIN tasks, r \in Touched(tasks[j].batch)
                 PROVE  Result(tasks'[j], r) <=> Want(r)
      BY <1>1, <1>2 DEF TasksRight
    <2>1. CASE j # k
      BY <1>1, <2>1 DEF TasksRight
    <2>2. CASE j = k
      <3>1. r \in Added(tasks[k].batch) <=> Want(r)
        BY <1>1, <2>2 DEF TasksRight, Result
      <3>2. Result(tasks'[k], r) <=> r \in Added(tasks[k].batch) /\ r \in disk
        BY <1>1 DEF Result, Additions
      <3> QED
        BY <1>2, <2>2, <3>1, <3>2
    <2> QED
      BY <2>1, <2>2
  <1>5. MissedIsRemoved(r)'
    <2> SUFFICES ASSUME NEW j \in DOMAIN tasks, tasks'[j].found # NotYet, r \in Touched(tasks[j].batch),
                        r \notin tasks'[j].found, r \notin Removals(window), ~ InEvents(r)
                 PROVE  r \in Removals(tasks[j].batch)
      BY <1>1, <1>3 DEF MissedIsRemoved
    <2>1. CASE j # k
      BY <1>1, <2>1 DEF Faithful, MissedIsRemoved
    <2>2. CASE j = k
      <3>1. r \in Added(tasks[k].batch) <=> Want(r)
        BY <1>1, <2>2 DEF Faithful, Coming, TasksRight, Result
      <3>2. r \notin Added(tasks[k].batch)
        BY <1>1, <1>2, <2>2, <3>1 DEF Additions
      <3> QED
        BY <2>2, <3>2 DEF Touched
    <2> QED
      BY <2>1, <2>2
  <1> QED
    BY <1>1, <1>2, <1>3, <1>4, <1>5 DEF Faithful, Coming, TreeRight

LEMMA RemoveAtElements ==
  ASSUME NEW S, NEW s \in Seq(S), NEW k \in DOMAIN s
  PROVE  /\ DOMAIN RemoveAt(s, k) = 1 .. Len(s) - 1
         /\ \A j \in 1 .. Len(s) - 1 : RemoveAt(s, k)[j] = s[IF j < k THEN j ELSE j + 1]
  <1> DEFINE a == SubSeq(s, 1, k - 1)
             b == SubSeq(s, k + 1, Len(s))
  <1>1. Len(s) \in Nat /\ k \in 1 .. Len(s)
    OBVIOUS
  <1>2. a \in Seq(S) /\ Len(a) = k - 1 /\ \A j \in 1 .. k - 1 : a[j] = s[j]
    BY <1>1
  <1>3. b \in Seq(S) /\ Len(b) = Len(s) - k /\ \A j \in 1 .. Len(s) - k : b[j] = s[k + j]
    BY <1>1
  <1> HIDE DEF a, b
  <1>4. a \o b \in Seq(S) /\ Len(a \o b) = Len(s) - 1 /\ DOMAIN (a \o b) = 1 .. Len(s) - 1
    BY <1>1, <1>2, <1>3
  <1>5. ASSUME NEW j \in 1 .. Len(s) - 1 PROVE (a \o b)[j] = s[IF j < k THEN j ELSE j + 1]
    <2>1. CASE j < k
      BY <1>1, <1>2, <1>3, <2>1
    <2>2. CASE ~ (j < k)
      <3>1. j - (k - 1) \in 1 .. Len(s) - k /\ k + (j - (k - 1)) = j + 1
        BY <1>1, <2>2
      <3>2. (a \o b)[j] = b[j - (k - 1)]
        <4>1. \A i \in 1 .. Len(a) + Len(b) : (a \o b)[i] = IF i <= Len(a) THEN a[i] ELSE b[i - Len(a)]
          BY <1>2, <1>3, ConcatProperties
        <4>2. j \in 1 .. Len(a) + Len(b) /\ ~ (j <= Len(a)) /\ Len(a) = k - 1
          BY <1>1, <1>2, <1>3, <2>2
        <4> QED
          BY <4>1, <4>2
      <3> QED
        BY <1>3, <2>2, <3>1, <3>2
    <2> QED
      BY <2>1, <2>2
  <1> QED
    BY <1>4, <1>5 DEF RemoveAt, a, b

(* The tree is changed.                                                        *)
LEMMA ApplyStep ==
  ASSUME TypeOK, FoundIsAdded, state = "indexed", NEW r \in Files, Faithful(r), NEW k \in DOMAIN tasks, Apply(k)
  PROVE  Faithful(r)'
  <1> DEFINE Tasks == [batch : Batches, found : (SUBSET Files) \cup {NotYet}]
             At(j) == IF j < k THEN j ELSE j + 1
  <1>t. tasks \in Seq(Tasks) /\ Len(tasks) \in Nat /\ DOMAIN tasks = 1 .. Len(tasks)
    BY DEF TypeOK
  <1> HIDE DEF Tasks
  <1>1. /\ UNCHANGED <<disk, window, events>>
        /\ tasks[k].found # NotYet
        /\ tree' = (tree \ Removals(tasks[k].batch)) \cup tasks[k].found
        /\ tasks' = RemoveAt(tasks, k)
    BY DEF Apply, watcherVars
  <1>2. /\ DOMAIN tasks' = 1 .. Len(tasks) - 1
        /\ \A j \in DOMAIN tasks' : tasks'[j] = tasks[At(j)]
    BY <1>t, <1>1, RemoveAtElements
  <1>3. /\ \A j \in DOMAIN tasks' : At(j) \in DOMAIN tasks \ {k}
        /\ \A i, j \in DOMAIN tasks' : At(i) = At(j) => i = j
        /\ \A j \in DOMAIN tasks \ {k} : \E i \in DOMAIN tasks' : At(i) = j
    <2>1. k \in 1 .. Len(tasks)
      BY <1>t
    <2>2. ASSUME NEW j \in DOMAIN tasks \ {k} PROVE \E i \in DOMAIN tasks' : At(i) = j
      <3>1. CASE j < k
        BY <1>t, <1>2, <2>1, <3>1
      <3>2. CASE ~ (j < k)
        <4>1. j - 1 \in DOMAIN tasks' /\ At(j - 1) = j
          BY <1>t, <1>2, <2>1, <3>2
        <4> QED
          BY <4>1
      <3> QED
        BY <3>1, <3>2
    <2> QED
      BY <1>t, <1>2, <2>1, <2>2
  <1> HIDE DEF At
  <1>4. WindowAdds(r)' /\ (Want(r)' <=> Want(r))
    BY <1>1 DEF Faithful, WindowAdds, Want
  <1>5. /\ InEvents(r)' <=> InEvents(r)
        /\ EventsRight(r) => EventsRight(r)'
    BY <1>1, <1>4 DEF InEvents, EventsRight, LastEvent
  <1>6. OneTask(r)'
    BY <1>2, <1>3 DEF Faithful, OneTask
  <1>7. MissedIsRemoved(r)'
    BY <1>1, <1>2, <1>3, <1>5 DEF Faithful, MissedIsRemoved
  <1>8. TasksRight(r) => TasksRight(r)'
    BY <1>2, <1>3, <1>4 DEF TasksRight
  <1>9. ASSUME r \notin Removals(window), ~ InEvents(r) PROVE TreeRight(r)'
    <2>1. CASE r \in Touched(tasks[k].batch)
      <3>1. ~ InTasks(r)'
        BY <1>2, <1>3, <2>1 DEF Faithful, OneTask, InTasks
      <3>2. r \in tasks[k].found <=> Want(r)
        BY <1>1, <1>9, <2>1 DEF Faithful, Coming, TasksRight, Result
      <3>3. r \notin tasks[k].found => r \in Removals(tasks[k].batch)
        BY <1>1, <1>9, <2>1 DEF Faithful, MissedIsRemoved
      <3> QED
        BY <1>1, <1>4, <3>2, <3>3 DEF TreeRight
    <2>2. CASE r \notin Touched(tasks[k].batch)
      <3>1. InTasks(r)' <=> InTasks(r)
        BY <1>2, <1>3, <2>2 DEF InTasks
      <3>2. r \notin Removals(tasks[k].batch) /\ r \notin tasks[k].found
        BY <1>1, <2>2 DEF Touched, FoundIsAdded
      <3> QED
        BY <1>1, <1>4, <1>9, <3>1, <3>2 DEF Faithful, Coming, TreeRight
    <2> QED
      BY <2>1, <2>2
  <1> QED
    BY <1>1, <1>4, <1>5, <1>6, <1>7, <1>8, <1>9 DEF Faithful, Coming

----------------------------------------------------------------------------
(* What holds of all files.                                                    *)
LEMMA UniqueStep == TypeOK /\ UniqueTargets /\ [Next]_vars => UniqueTargets'
  <1> SUFFICES ASSUME TypeOK, UniqueTargets, [Next]_vars PROVE UniqueTargets'
    OBVIOUS
  <1>t. window \in Batches
    BY DEF TypeOK
  <1>1. ASSUME NEW p \in Files, Create(p) PROVE UniqueTargets'
    <2>1. MergeCreate(window, p).moved = window.moved
      BY <1>t DEF MergeCreate, Batches
    <2> QED
      BY <1>1, <2>1 DEF Create, Change, UniqueTargets
  <1>2. ASSUME NEW p \in Files, Delete(p) PROVE UniqueTargets'
    <2>1. MergeRemove(window, p).moved \subseteq window.moved
      BY <1>t DEF MergeRemove, Unmoved, Batches
    <2> QED
      BY <1>2, <2>1 DEF Delete, Change, UniqueTargets
  <1>3. ASSUME NEW p \in Files, NEW q \in Files, Rename(p, q) PROVE UniqueTargets'
    <2>1. \E source : MergeRename(window, p, q).moved
                     = {m \in Unmoved(window, p) : m.to # q} \cup {[to |-> q, from |-> source]}
      BY <1>t DEF MergeRename, Batches
    <2>2. \A m, n \in MergeRename(window, p, q).moved : m.to = n.to => m = n
      <3>1. PICK source : MergeRename(window, p, q).moved
                     = {m \in Unmoved(window, p) : m.to # q} \cup {[to |-> q, from |-> source]}
        BY <2>1
      <3>2. \A m, n \in Unmoved(window, p) : m.to = n.to => m = n
        BY DEF Unmoved, UniqueTargets
      <3> QED
        BY <3>1, <3>2
    <2> QED
      BY <1>3, <2>2 DEF Rename, Change, UniqueTargets
  <1>4. CASE Flush
    BY <1>4 DEF Flush, NothingYet, UniqueTargets
  <1>5. CASE UNCHANGED window
    BY <1>5 DEF UniqueTargets
  <1>6. \/ UNCHANGED window \/ Flush
        \/ \E p \in Files : Create(p) \/ Delete(p) \/ \E q \in Files : Rename(p, q)
    BY DEF Next, vars, watcherVars, WatcherCommand, HandleEvent, Compute, Apply, IndexLazily, LazyIndexFails,
           RemoveLazily, IndexDirectory, Scan, Indexed
  <1> QED
    BY <1>1, <1>2, <1>3, <1>4, <1>5, <1>6

LEMMA FoundStep == TypeOK /\ FoundIsAdded /\ [Next]_vars => FoundIsAdded'
  <1> SUFFICES ASSUME TypeOK, FoundIsAdded, [Next]_vars PROVE FoundIsAdded'
    OBVIOUS
  <1> DEFINE Tasks == [batch : Batches, found : (SUBSET Files) \cup {NotYet}]
  <1>t. tasks \in Seq(Tasks) /\ DOMAIN tasks = 1 .. Len(tasks) /\ Len(tasks) \in Nat
    BY DEF TypeOK
  <1>1. CASE HandleEvent
    <2>1. CASE UNCHANGED tasks
      BY <2>1 DEF FoundIsAdded
    <2>2. CASE ~ UNCHANGED tasks
      <3> DEFINE task == [batch |-> Scoped(Head(events)), found |-> NotYet]
      <3>1. tasks' = Append(tasks, task)
        BY <1>1, <2>2 DEF HandleEvent
      <3>2. task.found = NotYet
        OBVIOUS
      <3> HIDE DEF task, Tasks
      <3>3. \A k \in DOMAIN tasks' : tasks'[k] = task \/ (k \in DOMAIN tasks /\ tasks'[k] = tasks[k])
        BY <1>t, <3>1
      <3> QED
        BY <3>2, <3>3 DEF FoundIsAdded
    <2> QED
      BY <2>1, <2>2
  <1>2. ASSUME NEW k \in DOMAIN tasks, Compute(k) PROVE FoundIsAdded'
    <2>1. tasks' = [tasks EXCEPT ![k].found = Additions(tasks[k].batch)]
      BY <1>2 DEF Compute
    <2>2. tasks[k] \in Tasks
      <3> HIDE DEF Tasks
      <3> QED
        BY <1>t
    <2>3. Additions(tasks[k].batch) \subseteq Added(tasks[k].batch)
      BY DEF Additions
    <2>4. /\ DOMAIN tasks' = DOMAIN tasks
          /\ tasks'[k].found = Additions(tasks[k].batch) /\ tasks'[k].batch = tasks[k].batch
          /\ \A j \in DOMAIN tasks \ {k} : tasks'[j] = tasks[j]
      BY <1>t, <2>1, <2>2
    <2> QED
      BY <2>3, <2>4 DEF FoundIsAdded
  <1>3. ASSUME NEW k \in DOMAIN tasks, Apply(k) PROVE FoundIsAdded'
    <2> HIDE DEF Tasks
    <2>1. \A j \in DOMAIN tasks' : \E i \in DOMAIN tasks : tasks'[j] = tasks[i]
      <3> SUFFICES ASSUME NEW j \in DOMAIN tasks' PROVE \E i \in DOMAIN tasks : tasks'[j] = tasks[i]
        OBVIOUS
      <3>1. j \in 1 .. Len(tasks) - 1 /\ tasks'[j] = tasks[IF j < k THEN j ELSE j + 1]
        BY <1>t, <1>3, RemoveAtElements DEF Apply
      <3>2. (IF j < k THEN j ELSE j + 1) \in DOMAIN tasks
        BY <1>t, <3>1
      <3> QED
        BY <3>1, <3>2
    <2> QED
      BY <2>1 DEF FoundIsAdded
  <1>4. CASE UNCHANGED tasks
    BY <1>4 DEF FoundIsAdded
  <1>5. UNCHANGED tasks \/ HandleEvent \/ \E k \in DOMAIN tasks : Compute(k) \/ Apply(k)
    BY DEF Next, vars, poolVars, watcherVars, Create, Delete, Rename, Change, WatcherCommand, Flush, IndexLazily,
           LazyIndexFails, RemoveLazily, IndexDirectory, Scan, Indexed
  <1> QED
    BY <1>1, <1>2, <1>3, <1>4, <1>5

(* What is on its way, in the words of this module.                             *)
LEMMA InFlightParts ==
  ASSUME NEW p
  PROVE  /\ p \in InFlight <=> p \in Touched(window) \/ InEvents(p) \/ InTasks(p)
         /\ (p \in InFlight)' <=> p \in Touched(window') \/ InEvents(p)' \/ InTasks(p)'
  BY DEF InFlight, InEvents, InTasks, ToSet

LEMMA MergeTouches ==
  ASSUME TypeOK, NEW p \in Files, NEW q \in Files
  PROVE  /\ Touched(MergeCreate(window, p)) \subseteq Touched(window) \cup {p}
         /\ Touched(MergeRemove(window, p)) \subseteq Touched(window) \cup {p}
         /\ Touched(MergeRename(window, p, q)) \subseteq Touched(window) \cup {p, q}
  <1>t. window \in Batches
    BY DEF TypeOK
  <1>1. Touched(MergeCreate(window, p)) \subseteq Touched(window) \cup {p}
    BY <1>t DEF MergeCreate, Touched, Added, Removals, Batches
  <1>2. Touched(MergeRemove(window, p)) \subseteq Touched(window) \cup {p}
    <2>1. CASE p \in window.created
      BY <1>t, <2>1 DEF MergeRemove, Touched, Added, Removals, Batches
    <2>2. CASE p \notin window.created
      <3> DEFINE w == MergeRemove(window, p)
      <3>1. /\ w.created = window.created
            /\ w.deleted \subseteq window.deleted \cup {p} \cup SourceOf(window, p)
            /\ w.moved \subseteq window.moved
        BY <1>t, <2>2 DEF MergeRemove, Unmoved, Batches
      <3>2. SourceOf(window, p) \subseteq Removals(window)
        BY DEF SourceOf, Removals
      <3> HIDE DEF w
      <3>3. Touched(w) \subseteq Touched(window) \cup {p}
        BY <3>1, <3>2 DEF Touched, Added, Removals
      <3> QED
        BY <3>3 DEF w
    <2> QED
      BY <2>1, <2>2
  <1>3. Touched(MergeRename(window, p, q)) \subseteq Touched(window) \cup {p, q}
    <2> DEFINE w == MergeRename(window, p, q)
               S == SourceOf(window, p)
               source == IF S = {} THEN p ELSE CHOOSE s \in S : TRUE
    <2>1. /\ w.created = window.created /\ w.deleted = window.deleted
          /\ w.moved \subseteq window.moved \cup {[to |-> q, from |-> source]}
      BY <1>t DEF MergeRename, Unmoved, Batches
    <2>2. source \in S \cup {p}
      OBVIOUS
    <2>3. S \subseteq Removals(window)
      BY DEF SourceOf, Removals
    <2> HIDE DEF w, source, S
    <2>4. Touched(w) \subseteq Touched(window) \cup {p, q}
      BY <2>1, <2>2, <2>3 DEF Touched, Added, Removals
    <2> QED
      BY <2>4 DEF w
  <1> QED
    BY <1>1, <1>2, <1>3

ScannedRight(files) == \A p \in Files \ excused : p \notin InFlight /\ (p \in files <=> p \in disk)

(* While a tree that has been read waits, what changes is excused.              *)
LEMMA ScannedChange ==
  ASSUME TypeOK, HasReadDisk, state # "indexed", NEW F, ScannedRight(F),
         \E p \in Files : Create(p) \/ Delete(p) \/ \E q \in Files : Rename(p, q)
  PROVE  ScannedRight(F)'
  <1> SUFFICES ASSUME NEW r \in Files, r \notin excused'
               PROVE  (r \notin InFlight)' /\ (r \in F <=> r \in disk')
    BY DEF ScannedRight
  <1>1. UNCHANGED <<events, tasks>> /\ excused \subseteq excused'
    BY DEF Create, Delete, Rename, Change, poolVars
  <1>2. r \notin Touched(window) /\ ~ InEvents(r) /\ ~ InTasks(r) /\ (r \in F <=> r \in disk)
    BY <1>1, InFlightParts DEF ScannedRight
  <1>3. ASSUME NEW p \in Files, Create(p) PROVE r \notin Touched(window') /\ (r \in disk' <=> r \in disk)
    <2>1. r # p
      BY <1>3 DEF Create, Change
    <2>2. r \notin Touched(MergeCreate(window, p))
      BY <1>2, <2>1, MergeTouches
    <2> QED
      BY <1>2, <1>3, <2>1, <2>2 DEF Create, Change
  <1>4. ASSUME NEW p \in Files, Delete(p) PROVE r \notin Touched(window') /\ (r \in disk' <=> r \in disk)
    <2>1. r # p
      BY <1>4 DEF Delete, Change
    <2>2. r \notin Touched(MergeRemove(window, p))
      BY <1>2, <2>1, MergeTouches
    <2> QED
      BY <1>2, <1>4, <2>1, <2>2 DEF Delete, Change
  <1>5. ASSUME NEW p \in Files, NEW q \in Files, Rename(p, q)
        PROVE  r \notin Touched(window') /\ (r \in disk' <=> r \in disk)
    <2>1. r # p /\ r # q
      BY <1>5 DEF Rename, Change
    <2>2. r \notin Touched(MergeRename(window, p, q))
      BY <1>2, <2>1, MergeTouches
    <2> QED
      BY <1>2, <1>5, <2>1, <2>2 DEF Rename, Change
  <1>6. r \notin Touched(window') /\ (r \in disk' <=> r \in disk)
    BY <1>3, <1>4, <1>5
  <1> QED
    BY <1>1, <1>2, <1>6, InFlightParts DEF InEvents, InTasks

(* Nothing else puts more on its way.                                          *)
LEMMA ScannedKeeps ==
  ASSUME TypeOK, NEW F, ScannedRight(F), state # "indexed",
         \/ Flush \/ HandleEvent
         \/ \E k \in DOMAIN tasks : Compute(k) \/ Apply(k)
         \/ UNCHANGED <<disk, window, events, tasks, excused>>
  PROVE  ScannedRight(F)'
  <1> DEFINE Tasks == [batch : Batches, found : (SUBSET Files) \cup {NotYet}]
  <1>t. tasks \in Seq(Tasks) /\ DOMAIN tasks = 1 .. Len(tasks) /\ Len(tasks) \in Nat
    BY DEF TypeOK
  <1>e. events \in Seq(Batches) /\ DOMAIN events = 1 .. Len(events) /\ Len(events) \in Nat
    BY DEF TypeOK
  <1> SUFFICES ASSUME NEW r \in Files, r \notin excused'
               PROVE  (r \notin InFlight)' /\ (r \in F <=> r \in disk')
    BY DEF ScannedRight
  <1>1. disk' = disk /\ excused \subseteq excused'
    BY DEF Flush, HandleEvent, Compute, Apply, ghostVars
  <1>2. r \notin Touched(window) /\ ~ InEvents(r) /\ ~ InTasks(r) /\ (r \in F <=> r \in disk)
    BY <1>1, InFlightParts DEF ScannedRight
  <1>3. CASE Flush
    <2>1. /\ DOMAIN events' = 1 .. Len(events) + 1 /\ events'[Len(events) + 1] = window
          /\ \A i \in DOMAIN events : events'[i] = events[i]
      <3>1. window \in Batches
        BY DEF TypeOK
      <3>2. /\ Len(Append(events, window)) = Len(events) + 1
            /\ \A i \in 1 .. Len(events) : Append(events, window)[i] = events[i]
            /\ Append(events, window)[Len(events) + 1] = window
            /\ Append(events, window) \in Seq(Batches)
        BY <1>e, <3>1, AppendProperties
      <3>3. events' = Append(events, window) /\ DOMAIN Append(events, window) = 1 .. Len(Append(events, window))
        BY <1>3, <3>2 DEF Flush
      <3> QED
        BY <1>e, <3>2, <3>3
    <2>2. ~ InEvents(r)'
      BY <1>e, <1>2, <2>1 DEF InEvents
    <2>3. r \notin Touched(window')
      BY <1>3 DEF Flush, NothingYet, Touched, Added, Removals
    <2>4. ~ InTasks(r)'
      BY <1>2, <1>3 DEF Flush, poolVars, InTasks
    <2> QED
      BY <1>1, <1>2, <2>2, <2>3, <2>4, InFlightParts
  <1>4. CASE HandleEvent
    <2>1. \A i \in DOMAIN events' : i + 1 \in DOMAIN events /\ events'[i] = events[i + 1]
      <3>1. events # <<>> /\ events' = Tail(events)
        BY <1>4 DEF HandleEvent
      <3>2. /\ Tail(events) \in Seq(Batches) /\ Len(Tail(events)) = Len(events) - 1
            /\ \A i \in 1 .. Len(Tail(events)) : Tail(events)[i] = events[i + 1]
        BY <1>e, <3>1, HeadTailProperties
      <3>3. DOMAIN Tail(events) = 1 .. Len(events) - 1
        BY <3>2
      <3> SUFFICES ASSUME NEW i \in 1 .. Len(events) - 1
                   PROVE  i + 1 \in DOMAIN events /\ Tail(events)[i] = events[i + 1]
        BY <3>1, <3>3
      <3> QED
        BY <1>e, <3>2
    <2>2. ~ InEvents(r)'
      BY <1>2, <2>1 DEF InEvents
    <2>3. UNCHANGED <<window, tasks>>
      BY <1>4 DEF HandleEvent
    <2> QED
      BY <1>1, <1>2, <2>2, <2>3, InFlightParts DEF InTasks
  <1>5. ASSUME NEW k \in DOMAIN tasks, Compute(k) PROVE (r \notin InFlight)' /\ (r \in F <=> r \in disk')
    <2>1. UNCHANGED <<window, events>>
      BY <1>5 DEF Compute, watcherVars
    <2>2. tasks' = [tasks EXCEPT ![k].found = Additions(tasks[k].batch)]
      BY <1>5 DEF Compute
    <2>3. tasks[k] \in Tasks
      <3> HIDE DEF Tasks
      <3> QED
        BY <1>t
    <2>4. DOMAIN tasks' = DOMAIN tasks /\ \A j \in DOMAIN tasks : tasks'[j].batch = tasks[j].batch
      BY <1>t, <2>2, <2>3
    <2>5. ~ InTasks(r)'
      BY <1>2, <2>4 DEF InTasks
    <2> QED
      BY <1>1, <1>2, <2>1, <2>5, InFlightParts DEF InEvents
  <1>6. ASSUME NEW k \in DOMAIN tasks, Apply(k) PROVE (r \notin InFlight)' /\ (r \in F <=> r \in disk')
    <2> HIDE DEF Tasks
    <2>1. UNCHANGED <<window, events>>
      BY <1>6 DEF Apply, watcherVars
    <2>2. \A j \in DOMAIN tasks' : \E i \in DOMAIN tasks : tasks'[j] = tasks[i]
      <3> SUFFICES ASSUME NEW j \in DOMAIN tasks' PROVE \E i \in DOMAIN tasks : tasks'[j] = tasks[i]
        OBVIOUS
      <3>1. j \in 1 .. Len(tasks) - 1 /\ tasks'[j] = tasks[IF j < k THEN j ELSE j + 1]
        BY <1>t, <1>6, RemoveAtElements DEF Apply
      <3>2. (IF j < k THEN j ELSE j + 1) \in DOMAIN tasks
        BY <1>t, <3>1
      <3> QED
        BY <3>1, <3>2
    <2>3. ~ InTasks(r)'
      BY <1>2, <2>2 DEF InTasks
    <2> QED
      BY <1>1, <1>2, <2>1, <2>3, InFlightParts DEF InEvents
  <1>7. CASE UNCHANGED <<disk, window, events, tasks, excused>>
    BY <1>2, <1>7, InFlightParts DEF InEvents, InTasks
  <1> QED
    BY <1>3, <1>4, <1>5, <1>6, <1>7

(* Only a pending directory has somebody who reads it.                          *)
OneReads == DOMAIN indexers \subseteq {1} /\ (state # "pending" => DOMAIN indexers = {})

LEMMA NobodyReads == Inv => OneReads
  <1> SUFFICES ASSUME Inv PROVE OneReads
    OBVIOUS
  <1> DEFINE Found == (SUBSET Files) \cup {NotYet, Failed}
  <1>1. indexers \in Seq(Found) /\ OneIndexer
    BY DEF Inv, TypeOK, StateHasItsOwner
  <1> HIDE DEF Found
  <1>2. DOMAIN indexers = 1 .. Len(indexers)
    BY <1>1
  <1> QED
    BY <1>1, <1>2 DEF OneIndexer, OneReads

LEMMA ScanStep ==
  ASSUME Inv, Inv', ScanFaithful, [Next]_vars
  PROVE  ScanFaithful'
  <1>o. /\ DOMAIN indexers \subseteq {1} /\ (state # "pending" => DOMAIN indexers = {})
        /\ DOMAIN indexers' \subseteq {1} /\ (state' # "pending" => DOMAIN indexers' = {})
    <2>1. OneReads /\ OneReads'
      BY NobodyReads, PTL
    <2> QED
      BY <2>1 DEF OneReads
  <1> SUFFICES ASSUME NEW k \in DOMAIN indexers', NEW F, F = indexers'[k], F \notin {NotYet, Failed}
               PROVE  ScannedRight(F)'
    BY DEF ScanFaithful, ScannedRight
  <1>p. state' = "pending"
    BY <1>o
  <1>t. TypeOK
    BY DEF Inv
  <1>r. ASSUME UNCHANGED indexers PROVE HasReadDisk /\ state = "pending" /\ ScannedRight(F)
    BY <1>o, <1>r DEF HasReadDisk, ScanFaithful, ScannedRight
  <1>1. CASE \E p \in Files : Create(p) \/ Delete(p) \/ \E q \in Files : Rename(p, q)
    <2>1. UNCHANGED indexers
      BY <1>1 DEF Create, Delete, Rename, Change, poolVars
    <2> QED
      BY <1>1, <1>r, <1>t, <2>1, ScannedChange
  <1>2. CASE Flush \/ HandleEvent \/ \E j \in DOMAIN tasks : Compute(j) \/ Apply(j)
    <2>1. UNCHANGED indexers
      BY <1>2 DEF Flush, HandleEvent, Compute, Apply, poolVars
    <2> QED
      BY <1>2, <1>r, <1>t, <2>1, ScannedKeeps
  <1>3. CASE WatcherCommand \/ (\E v \in Views : IndexLazily(v) \/ LazyIndexFails(v) \/ RemoveLazily(v)) \/ UNCHANGED vars
    <2>1. UNCHANGED indexers
      BY <1>3 DEF WatcherCommand, IndexLazily, LazyIndexFails, RemoveLazily, poolVars, vars
    <2>2. UNCHANGED <<disk, window, events, tasks, excused>>
      BY <1>3, <1>r, <2>1 DEF WatcherCommand, IndexLazily, LazyIndexFails, RemoveLazily, poolVars, watcherVars,
         ghostVars, vars
    <2> QED
      BY <1>r, <1>t, <2>1, <2>2, ScannedKeeps
  <1>4. CASE IndexDirectory
    <2>1. state # "pending" /\ indexers' = Append(indexers, NotYet)
      BY <1>4 DEF IndexDirectory, MustIndex
    <2>2. indexers' = <<NotYet>>
      <3>1. Len(indexers) = 0 /\ indexers \in Seq((SUBSET Files) \cup {NotYet, Failed})
        BY <2>1 DEF Inv, StateHasItsOwner, OneIndexer, TypeOK
      <3>2. indexers = <<>>
        BY <3>1, EmptySeq
      <3> QED
        BY <2>1, <3>2
    <2> QED
      BY <2>2
  <1>5. ASSUME NEW j \in DOMAIN indexers, Scan(j) PROVE ScannedRight(F)'
    <2>1. /\ indexers' = [indexers EXCEPT ![j] = disk] /\ excused' = InFlight
          /\ UNCHANGED <<disk, window, events, tasks>>
      <3>1. indexers' # [indexers EXCEPT ![j] = Failed]
        BY <1>o
      <3> QED
        BY <1>5, <3>1 DEF Scan, watcherVars
    <2>2. F = disk
      BY <1>o, <2>1
    <2>3. (InFlight)' = InFlight
      BY <2>1 DEF InFlight
    <2> QED
      BY <2>1, <2>2, <2>3 DEF ScannedRight
  <1>6. ASSUME NEW j \in DOMAIN indexers, Indexed(j) PROVE FALSE
    BY <1>6, <1>p DEF Indexed, Add
  <1> QED
    BY <1>1, <1>2, <1>3, <1>4, <1>5, <1>6 DEF Next

----------------------------------------------------------------------------
(* A tree that has just been read has nothing on its way to it.                 *)
LEMMA Established ==
  ASSUME NEW r, r \notin Touched(window'), ~ InEvents(r)', ~ InTasks(r)', r \in tree' <=> r \in disk'
  PROVE  Faithful(r)'
  <1>1. WindowAdds(r)' /\ (Want(r)' <=> r \in disk')
    BY DEF WindowAdds, Want, Touched
  <1>2. EventsRight(r)' /\ TasksRight(r)' /\ OneTask(r)' /\ MissedIsRemoved(r)'
    BY DEF EventsRight, LastEvent, InEvents, TasksRight, OneTask, MissedIsRemoved, InTasks
  <1> QED
    BY <1>1, <1>2 DEF Faithful, Coming, TreeRight

LEMMA NothingMoves ==
  ASSUME NEW r, Faithful(r), UNCHANGED <<disk, window, events, tasks, tree>>
  PROVE  Faithful(r)'
  BY DEF Faithful, WindowAdds, Coming, EventsRight, TasksRight, TreeRight, LastEvent, InEvents, InTasks, Result, Want,
     OneTask, MissedIsRemoved

LEMMA FileStep ==
  ASSUME Inv, TreeInv, [Next]_vars, state' = "indexed", NEW r \in Files, r \notin excused'
  PROVE  Faithful(r)'
  <1>t. TypeOK /\ UniqueTargets /\ FoundIsAdded
    BY DEF Inv, TreeInv
  <1>f. ASSUME state = "indexed", excused \subseteq excused' PROVE Faithful(r)
    BY <1>f DEF TreeInv
  <1>1. CASE \E p \in Files : Create(p) \/ Delete(p) \/ \E q \in Files : Rename(p, q)
    <2>1. state = "indexed" /\ excused \subseteq excused'
      BY <1>1 DEF Create, Delete, Rename, Change, modelVars
    <2> QED
      BY <1>1, <1>f, <1>t, <2>1, DiskStep
  <1>2. CASE Flush
    <2>1. state = "indexed" /\ excused \subseteq excused'
      BY <1>2 DEF Flush, modelVars
    <2> QED
      BY <1>2, <1>f, <1>t, <2>1, FlushStep
  <1>3. CASE HandleEvent
    <2>1. state = "indexed" /\ excused \subseteq excused'
      BY <1>3 DEF HandleEvent, modelVars
    <2> QED
      BY <1>3, <1>f, <1>t, <2>1, HandleStep
  <1>4. ASSUME NEW k \in DOMAIN tasks, Compute(k) PROVE Faithful(r)'
    <2>1. state = "indexed" /\ excused \subseteq excused'
      BY <1>4 DEF Compute, modelVars, ghostVars
    <2> QED
      BY <1>4, <1>f, <1>t, <2>1, ComputeStep
  <1>5. ASSUME NEW k \in DOMAIN tasks, Apply(k) PROVE Faithful(r)'
    <2>1. state = "indexed" /\ excused \subseteq excused'
      BY <1>5 DEF Apply, ghostVars
    <2> QED
      BY <1>5, <1>f, <1>t, <2>1, ApplyStep
  <1>6. ASSUME NEW v \in Views, IndexLazily(v) PROVE Faithful(r)'
    <2>1. UNCHANGED <<disk, window, events, tasks>>
      BY <1>6 DEF IndexLazily, poolVars
    <2>2. CASE lazy = 0 /\ state \notin {"indexed", "pending"}
      <3>1. tree' = disk /\ r \notin InFlight
        BY <1>6, <2>2 DEF IndexLazily, Add
      <3>2. r \notin Touched(window') /\ ~ InEvents(r)' /\ ~ InTasks(r)'
        BY <2>1, <3>1, InFlightParts DEF InEvents, InTasks
      <3> QED
        BY <2>1, <3>1, <3>2, Established
    <2>3. CASE ~ (lazy = 0 /\ state \notin {"indexed", "pending"})
      <3>1. UNCHANGED <<state, tree, excused>>
        BY <1>6, <2>3 DEF IndexLazily
      <3> QED
        BY <1>f, <2>1, <3>1, NothingMoves
    <2> QED
      BY <2>2, <2>3
  <1>7. ASSUME NEW k \in DOMAIN indexers, Indexed(k) PROVE Faithful(r)'
    <2>1. /\ indexers[k] \notin {NotYet, Failed} /\ tree' = indexers[k]
          /\ UNCHANGED <<disk, window, events, tasks, excused>>
      BY <1>7 DEF Indexed, Add, ghostVars
    <2>2. r \notin InFlight /\ (r \in indexers[k] <=> r \in disk)
      BY <2>1 DEF TreeInv, ScanFaithful
    <2>3. r \notin Touched(window') /\ ~ InEvents(r)' /\ ~ InTasks(r)'
      BY <2>1, <2>2, InFlightParts DEF InEvents, InTasks
    <2> QED
      BY <2>1, <2>2, <2>3, Established
  <1>8. CASE WatcherCommand \/ (\E v \in Views : LazyIndexFails(v) \/ RemoveLazily(v)) \/ UNCHANGED vars
    <2>1. UNCHANGED <<disk, window, events, tasks, state, tree, excused>>
      BY <1>8 DEF WatcherCommand, LazyIndexFails, RemoveLazily, watcherVars, poolVars, modelVars, ghostVars, vars
    <2> QED
      BY <1>f, <2>1, NothingMoves
  <1>9. ~ IndexDirectory
    BY DEF IndexDirectory
  <1>10. ASSUME NEW k \in DOMAIN indexers, Scan(k) PROVE FALSE
    <2>1. state = "indexed"
      BY <1>10 DEF Scan, modelVars
    <2> QED
      BY <2>1, NobodyReads DEF OneReads
  <1> QED
    BY <1>1, <1>2, <1>3, <1>4, <1>5, <1>6, <1>7, <1>8, <1>9, <1>10 DEF Next

LEMMA InitTree == Init => TreeInv
  BY DEF Init, NothingYet, TreeInv, UniqueTargets, FoundIsAdded, ScanFaithful

LEMMA TreeStep == Inv /\ Inv' /\ TreeInv /\ [Next]_vars => TreeInv'
  <1> SUFFICES ASSUME Inv, Inv', TreeInv, [Next]_vars PROVE TreeInv'
    OBVIOUS
  <1>1. UniqueTargets' /\ FoundIsAdded' /\ ScanFaithful'
    BY UniqueStep, FoundStep, ScanStep DEF TreeInv, Inv
  <1>2. ASSUME state' = "indexed", NEW r \in Files, r \notin excused' PROVE Faithful(r)'
    BY <1>2, FileStep
  <1> QED
    BY <1>1, <1>2 DEF TreeInv

LEMMA TreeInvHolds == Spec => []TreeInv
  BY InitTree, TreeStep, InvHolds, PTL DEF Spec

(* However changes, windows, events, tasks and the views' calls interleave, once  *)
(* everything has been worked off the tree of an indexed directory has the files   *)
(* the disk has, but for those whose changes the code is known to lose.           *)
THEOREM TreeFollowsDisk == Spec => []TreeIsDisk
  <1>1. TreeInv => TreeIsDisk
    <2> SUFFICES ASSUME TreeInv, Settled, NEW p \in Files, p \notin excused
                 PROVE  p \in tree <=> p \in disk
      BY DEF TreeIsDisk
    <2>1. Touched(window) = {} /\ ~ InEvents(p) /\ ~ InTasks(p)
      BY DEF Settled, NothingYet, Touched, Added, Removals, InEvents, InTasks
    <2>2. TreeRight(p)
      BY <2>1 DEF TreeInv, Settled, Faithful, Coming, Touched
    <2> QED
      BY <2>1, <2>2 DEF TreeRight, Want, Touched
  <1> QED
    BY <1>1, TreeInvHolds, PTL
=============================================================================
