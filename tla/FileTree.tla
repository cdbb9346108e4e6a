-------------------------------- MODULE FileTree --------------------------------
(***************************************************************************)
(* FileTreeEntry and the FileTreeMapStore under it, as operators.  A path is *)
(* the sequence of names below the root of the repository, the root is <<>>. *)
(* A tree is the record of                                                  *)
(*    state: what state_map has for a path: none, file, loaded or unloaded,  *)
(*           the last two for directories;                                  *)
(*    kids:  parent_to_child_map, {} standing for a missing key.             *)
(* The two maps are separate in the code and can disagree: a path without a  *)
(* link from its parent is in the map and is not shown.  File ids, extensions *)
(* and the ignored flag of entries are left out, renames happen elsewhere.    *)
(***************************************************************************)
EXTENDS Naturals, Sequences, SequencesExt, FiniteSetsExt

CONSTANTS Paths,    \* the root and everything that can be below it
          Ignored   \* what the gitignores name; what is below is ignored too

ASSUME PathsAssumption ==
    /\ IsFiniteSet(Paths) /\ Paths \subseteq Seq(STRING)
    /\ <<>> \in Paths
    /\ \A p \in Paths : p # <<>> => Front(p) \in Paths
    /\ Ignored \subseteq Paths \ {<<>>}

MaxDepth == Max({Len(p) : p \in Paths})
Parent(p) == Front(p)
Above(p) == {SubSeq(p, 1, k) : k \in 0 .. Len(p) - 1}
Below(p) == {q \in Paths : p \in Above(q)}
Under(q, p) == q = p \/ p \in Above(q)

Trees == [state : [Paths -> {"none", "file", "loaded", "unloaded"}],
          kids : [Paths -> SUBSET Paths]]

IsDir(t, p) == t.state[p] \in {"loaded", "unloaded"}
HasParentDir(t, p) == p # <<>> /\ IsDir(t, Parent(p))

EmptyTree == [state |-> [p \in Paths |-> "none"], kids |-> [p \in Paths |-> {}]]
NewForDirectory == [EmptyTree EXCEPT !.state[<<>>] = "loaded"]

(* children() of a file, or of what is not there, is empty.                   *)
Children(t, p) == IF IsDir(t, p) THEN t.kids[p] ELSE {}

(* What a walk from the root comes across.                                    *)
Shown(t) ==
    {p \in Paths : /\ t.state[p] # "none"
                   /\ \A q \in Above(p) : SubSeq(p, 1, Len(q) + 1) \in Children(t, q)}

----------------------------------------------------------------------------
(* The operations of the store.                                               *)

RemovePath_LinkKept(t, p) ==
    [t EXCEPT !.state = [q \in Paths |-> IF Under(q, p) THEN "none" ELSE t.state[q]]]

(* remove: the links lead to what goes with p, whatever state_map says of it.  *)
RemovePath(t, p) ==
    LET gone == {q \in Paths : /\ Under(q, p)
                               /\ \A a \in Above(q) :
                                     Under(a, p) => SubSeq(q, 1, Len(a) + 1) \in t.kids[a]}
    IN  [state |-> [q \in Paths |-> IF q \in gone THEN "none" ELSE t.state[q]],
         kids |-> [q \in Paths |-> IF q \in gone THEN {}
                                   ELSE IF IsDir(t, q) THEN t.kids[q] \ {p} ELSE t.kids[q]]]

InsertChild(t, p, s) ==
    IF HasParentDir(t, p)
    THEN [t EXCEPT !.state[p] = s, !.kids[Parent(p)] = @ \cup {p}]
    ELSE t

(* A child that is linked is left as it is, be it a file.                     *)
FindOrInsertDirectory(t, p) ==
    IF p \in Children(t, Parent(p)) THEN t ELSE InsertChild(t, p, "unloaded")

EnsureParents(t, p) ==
    FoldLeft(LAMBDA u, k : IF \A j \in 0 .. k - 1 : IsDir(u, SubSeq(p, 1, j))
                           THEN FindOrInsertDirectory(u, SubSeq(p, 1, k)) ELSE u,
             t, [k \in 1 .. Len(p) |-> k])

(* insert_entry_at_path: the maps of the new subtree over those of the tree.   *)
(* A directory that has no children brings no key for them.                   *)
InsertEntry(t, p, sub) ==
    LET both == [state |-> [q \in Paths |-> IF sub.state[q] # "none" THEN sub.state[q] ELSE t.state[q]],
                 kids |-> [q \in Paths |-> IF sub.kids[q] # {} THEN sub.kids[q] ELSE t.kids[q]]]
    IN  IF HasParentDir(both, p) THEN [both EXCEPT !.kids[Parent(p)] = @ \cup {p}] ELSE both

----------------------------------------------------------------------------
(* Entries built from the disk, a function from Paths to none, file and dir.   *)

(* The entry at p with what is at most depth levels under it; directories at    *)
(* the last level are not opened, nor are ignored ones if lazy.               *)
BuildTree(disk, p, depth, lazy) ==
    LET opened(q) == /\ disk[q] = "dir"
                     /\ Len(q) < Len(p) + depth
                     /\ ~ (lazy /\ \E a \in Ignored : Under(q, a))
        read == {q \in Paths : /\ Under(q, p)
                               /\ disk[q] # "none"
                               /\ \A a \in Above(q) : Under(a, p) => opened(a)}
    IN  [state |-> [q \in Paths |-> IF q \notin read THEN "none"
                                    ELSE IF disk[q] = "file" THEN "file"
                                    ELSE IF opened(q) THEN "loaded" ELSE "unloaded"],
         kids |-> [q \in Paths |-> {r \in read \ {p} : Parent(r) = q}]]

(* load_at_path opens p and lists its children.  What is a file by now becomes *)
(* a directory without any.                                                   *)
LoadAtPath(t, p, disk) ==
    InsertEntry(t, p, [BuildTree(disk, p, 1, FALSE) EXCEPT !.state[p] = "loaded"])

----------------------------------------------------------------------------
(* Updates, as the server sends and the client applies them: removals first,   *)
(* then the patches one by one.  A patch has a parent and nodes <<path, state>>; *)
(* in a message every directory comes before what is in it, and that is all     *)
(* that matters of their order.                                               *)
Update(removed, patches) == [removed |-> removed, patches |-> patches]
Patch(p, nodes) == [parent |-> p, nodes |-> nodes]
NodesOf(t, S) == {<<p, t.state[p]>> : p \in {q \in S : t.state[q] # "none"}}

Flatten_FilesForgotten(sub) == NodesOf(sub, {p \in Paths : sub.state[p] # "file"})
Flatten(sub) == NodesOf(sub, Paths)
SnapshotOf(t) == Update({}, <<Patch(<<>>, NodesOf(t, Shown(t) \ {<<>>}))>>)
ListDirectory(t, p) ==
    LET nodes == NodesOf(t, Children(t, p)) IN
    Update({}, IF nodes = {} THEN <<>> ELSE <<Patch(p, nodes)>>)

(* A file that is there already keeps its entry, whatever it is an entry of.    *)
ApplyNode(t, node) ==
    IF node[2] = "file" /\ t.state[node[1]] # "none" THEN t ELSE InsertChild(t, node[1], node[2])

ApplyPatch(t, patch) ==
    FoldLeft(LAMBDA u, k : FoldSet(LAMBDA n, v : ApplyNode(v, n), u,
                                   {n \in patch.nodes : Len(n[1]) = k}),
             EnsureParents(t, patch.parent),
             [k \in 1 .. MaxDepth |-> k])

ApplyUpdate(t, u) ==
    FoldLeft(ApplyPatch, FoldSet(LAMBDA p, v : RemovePath(v, p), t, u.removed), u.patches)

FromSnapshot(u) == ApplyUpdate(NewForDirectory, u)

----------------------------------------------------------------------------
(* apply_file_tree_mutations.  An accumulator has the tree and the update that  *)
(* will be sent; a mutation that is skipped is not sent either.               *)

(* loaded() of a file is true.                                                *)
ParentLoaded(t, p) == p # <<>> => t.state[Parent(p)] \in {"file", "loaded"}

Mutate(acc, t, p, nodes) == [tree |-> t, sent |-> [acc.sent EXCEPT !.patches = Append(@, Patch(Parent(p), nodes))]]

MutateRemove(acc, p) == [tree |-> RemovePath(acc.tree, p), sent |-> [acc.sent EXCEPT !.removed = @ \cup {p}]]

ParentsMade(acc, p) == EnsureParents(acc.tree, Parent(p))

(* t is the tree with p under its parents.  They stay made although the         *)
(* mutation is then given up.                                                 *)
AddUnder(acc, p, lazy, t, nodes) ==
    IF p = <<>> \/ (lazy /\ ~ ParentLoaded(acc.tree, p)) THEN acc
    ELSE IF ~ HasParentDir(ParentsMade(acc, p), p) THEN [acc EXCEPT !.tree = ParentsMade(acc, p)]
    ELSE Mutate(acc, t, p, nodes)

AddFile(acc, p, lazy) ==
    AddUnder(acc, p, lazy, ApplyNode(ParentsMade(acc, p), <<p, "file">>), {<<p, "file">>})

AddEmptyDirectory(acc, p, lazy) ==
    AddUnder(acc, p, lazy, InsertChild(ParentsMade(acc, p), p, "unloaded"), {<<p, "unloaded">>})

AddDirectorySubtree(acc, p, lazy, sub) ==
    LET opened == [ParentsMade(acc, p) EXCEPT !.state[Parent(p)] = "loaded"] IN
    AddUnder(acc, p, lazy, InsertEntry(RemovePath(opened, p), p, sub), Flatten(sub))
=============================================================================
