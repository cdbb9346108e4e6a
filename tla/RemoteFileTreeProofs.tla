-------------------------- MODULE RemoteFileTreeProofs --------------------------
(***************************************************************************)
(* Proofs about RemoteFileTree, for every repository and any number of        *)
(* connections, changes and requests.                                         *)
(*                                                                          *)
(* The trees are folds over sets and sequences.  A fold is a function that     *)
(* CHOOSE picks among those that satisfy its equation: that there is one, and   *)
(* what holds of it, is shown by induction over the subsets of a finite set,    *)
(* stated of sets and functions because no fact may have an operator as its     *)
(* parameter.                                                                 *)
(***************************************************************************)
EXTENDS RemoteFileTree, FiniteSetTheorems, SequenceTheorems, TLAPS

----------------------------------------------------------------------------
(* Induction and recursion over the subsets of a finite set.                   *)
LEMMA LeastNat ==
    ASSUME NEW T, T \subseteq Nat, T # {}
    PROVE  \E x \in T : \A y \in T : ~ (y < x)
<1>1. IsWellFoundedOn(OpToRel(<, Nat), Nat)
  BY NatLessThanWellFounded
<1>2. PICK x \in T : \A y \in T : ~ (<<y, x>> \in OpToRel(<, Nat))
  BY <1>1, WFMin
<1>3. \A y \in T : y < x => <<y, x>> \in OpToRel(<, Nat)
  BY DEF OpToRel
<1>. QED BY <1>2, <1>3

LEMMA NatInduct ==
    ASSUME NEW N, 0 \in N, \A n \in Nat : n \in N => n + 1 \in N
    PROVE  Nat \subseteq N
<1>. SUFFICES ASSUME Nat \ N # {} PROVE FALSE
  OBVIOUS
<1>1. PICK x \in Nat \ N : \A y \in Nat \ N : ~ (y < x)
  <2>. DEFINE T == Nat \ N
  <2>1. T \subseteq Nat /\ T # {}
    OBVIOUS
  <2>. HIDE DEF T
  <2>2. \E x \in T : \A y \in T : ~ (y < x)
    BY <2>1, LeastNat
  <2>. QED BY <2>2 DEF T
<1>2. x # 0 /\ x - 1 \in Nat /\ x - 1 < x
  BY <1>1
<1>3. x - 1 \in N
  BY <1>1, <1>2
<1>4. (x - 1) + 1 \in N
  BY <1>2, <1>3
<1>. QED BY <1>1, <1>4

LEMMA SubsetInduct ==
    ASSUME NEW X, IsFiniteSet(X), NEW U, {} \in U,
           \A s \in SUBSET X : s # {} => \E x \in s : s \ {x} \in U => s \in U
    PROVE  SUBSET X \subseteq U
<1>. DEFINE N == {n \in Nat : \A s \in SUBSET X : Cardinality(s) = n => s \in U}
<1>1. \A s \in SUBSET X : IsFiniteSet(s) /\ Cardinality(s) \in Nat
  BY FS_Subset, FS_CardinalityType
<1>2. 0 \in N
  BY <1>1, FS_EmptySet
<1>3. ASSUME NEW n \in Nat, n \in N PROVE n + 1 \in N
  <2>. SUFFICES ASSUME NEW s \in SUBSET X, Cardinality(s) = n + 1 PROVE s \in U
    OBVIOUS
  <2>1. s # {}
    BY FS_EmptySet
  <2>2. PICK x \in s : s \ {x} \in U => s \in U
    BY <2>1
  <2>3. Cardinality(s \ {x}) = Cardinality(s) - 1
    BY <1>1, FS_RemoveElement
  <2>4. Cardinality(s \ {x}) = n /\ s \ {x} \in SUBSET X
    BY <2>3
  <2>. QED BY <1>3, <2>2, <2>4
<1>4. Nat \subseteq N
  <2>. HIDE DEF N
  <2>. QED BY <1>2, <1>3, NatInduct
<1>. QED BY <1>1, <1>4

(* Folding G over X, taken apart by ch, starting from b.                       *)
TakesApart(X, ch) == \A s \in SUBSET X : s # {} => ch[s] \in s
IsFold(h, X, b, G, ch) == \A s \in SUBSET X : h[s] = IF s = {} THEN b ELSE G[ch[s]][h[s \ {ch[s]}]]

LEMMA FoldExists ==
    ASSUME NEW X, IsFiniteSet(X), NEW T, NEW b \in T, NEW G \in [X -> [T -> T]],
           NEW ch, TakesApart(X, ch)
    PROVE  \E h \in [SUBSET X -> T] : IsFold(h, X, b, G, ch)
<1>. USE DEF TakesApart
<1>. DEFINE D(n) == {s \in SUBSET X : Cardinality(s) <= n}
            Fits(h, n) == \A s \in D(n) : h[s] = IF s = {} THEN b ELSE G[ch[s]][h[s \ {ch[s]}]]
            N == {n \in Nat : \E h \in [SUBSET X -> T] : Fits(h, n)}
<1>1. \A s \in SUBSET X : IsFiniteSet(s) /\ Cardinality(s) \in Nat
  BY FS_Subset, FS_CardinalityType
<1>2. 0 \in N
  <2>1. D(0) = {{}}
    BY <1>1, FS_EmptySet
  <2>2. Fits([s \in SUBSET X |-> b], 0)
    BY <2>1
  <2>3. [s \in SUBSET X |-> b] \in [SUBSET X -> T]
    OBVIOUS
  <2>. QED BY <2>2, <2>3
<1>3. ASSUME NEW n \in Nat, n \in N PROVE n + 1 \in N
  <2>1. PICK h \in [SUBSET X -> T] : Fits(h, n)
    BY <1>3
  <2>. DEFINE g == [s \in SUBSET X |-> IF s = {} THEN b ELSE G[ch[s]][h[s \ {ch[s]}]]]
  <2>2. g \in [SUBSET X -> T]
    OBVIOUS
  <2>3. ASSUME NEW s \in D(n) PROVE g[s] = h[s]
    BY <2>1
  <2>4. ASSUME NEW s \in D(n + 1), s # {} PROVE s \ {ch[s]} \in D(n)
    <3>1. ch[s] \in s
      BY <2>4
    <3>2. Cardinality(s \ {ch[s]}) = Cardinality(s) - 1
      BY <1>1, <3>1, FS_RemoveElement
    <3>. QED BY <1>1, <2>4, <3>2
  <2>5. Fits(g, n + 1)
    BY <2>3, <2>4
  <2>6. n + 1 \in Nat
    OBVIOUS
  <2>. HIDE DEF g, Fits
  <2>. QED BY <2>2, <2>5, <2>6
<1>4. Nat \subseteq N
  <2>. HIDE DEF N
  <2>. QED BY <1>2, <1>3, NatInduct
<1>5. Cardinality(X) \in N
  BY <1>1, <1>4
<1>6. \A s \in SUBSET X : s \in D(Cardinality(X))
  BY FS_Subset
<1>. QED BY <1>5, <1>6 DEF IsFold

(* A function that is such a fold wherever it has got so far within T stays      *)
(* within T.                                                                  *)
IsFoldWithin(T, f, X, b, G, ch) ==
    /\ f[{}] = b
    /\ \A s \in SUBSET X : s # {} /\ f[s \ {ch[s]}] \in T => f[s] = G[ch[s]][f[s \ {ch[s]}]]

LEMMA FoldStays ==
    ASSUME NEW X, IsFiniteSet(X), NEW T, NEW b \in T, NEW G \in [X -> [T -> T]],
           NEW ch, TakesApart(X, ch), NEW f, IsFoldWithin(T, f, X, b, G, ch)
    PROVE  (\A s \in SUBSET X : f[s] \in T) /\ IsFold(f, X, b, G, ch)
<1>. DEFINE U == {s \in SUBSET X : f[s] \in T}
<1>1. {} \in U
  BY DEF IsFoldWithin
<1>2. ASSUME NEW s \in SUBSET X, s # {} PROVE \E x \in s : s \ {x} \in U => s \in U
  <2>1. ch[s] \in s
    BY <1>2 DEF TakesApart
  <2>2. ASSUME s \ {ch[s]} \in U PROVE s \in U
    <3>1. f[s] = G[ch[s]][f[s \ {ch[s]}]] /\ f[s \ {ch[s]}] \in T
      BY <1>2, <2>2 DEF IsFoldWithin
    <3>. QED BY <2>1, <3>1
  <2>. QED BY <2>1, <2>2
<1>3. SUBSET X \subseteq U
  <2>. HIDE DEF U
  <2>. QED BY <1>1, <1>2, SubsetInduct
<1>. QED BY <1>3 DEF IsFoldWithin, IsFold

(* FoldLeft takes the domain of a sequence apart from its end.                 *)
LEMMA MaxIsLast ==
    ASSUME NEW n \in Nat, NEW s \in SUBSET (1 .. n), s # {}
    PROVE  Max(s) \in s /\ \A y \in s : Max(s) >= y
<1>. DEFINE T == {n - x : x \in s}
<1>1. T \subseteq Nat /\ T # {}
  <2>1. \A x \in s : x \in Int /\ x <= n
    OBVIOUS
  <2>2. \A x \in s : n - x \in Nat
    BY <2>1
  <2>3. T \subseteq Nat
    BY <2>2
  <2>4. \E x \in s : n - x \in T
    OBVIOUS
  <2>. QED BY <2>3, <2>4
<1>2. PICK d \in T : \A y \in T : ~ (y < d)
  <2>. HIDE DEF T
  <2>. QED BY <1>1, LeastNat
<1>3. PICK x \in s : d = n - x
  OBVIOUS
<1>4. \A y \in s : x >= y
  <2>. TAKE y \in s
  <2>1. n - y \in T
    OBVIOUS
  <2>2. ~ (n - y < n - x)
    BY <1>2, <1>3, <2>1
  <2>. QED BY <2>2
<1>5. \E m \in s : \A y \in s : m >= y
  BY <1>4
<1>. QED BY <1>5 DEF Max

LEMMA MaxOfInterval ==
    ASSUME NEW n \in Nat, NEW i \in 1 .. n
    PROVE  Max(1 .. i) = i /\ (1 .. i) \ {i} = 1 .. (i - 1)
<1>1. 1 .. i \in SUBSET (1 .. n) /\ 1 .. i # {}
  OBVIOUS
<1>2. i \in 1 .. i
  OBVIOUS
<1>3. Max(1 .. i) \in 1 .. i /\ Max(1 .. i) >= i
  BY <1>1, <1>2, MaxIsLast
<1>. QED BY <1>3

(* So a fold over the numbers 1 .. n is the last of n steps from b.             *)
AreSteps(f, n, T, b, G) ==
    /\ f[0] = b
    /\ \A k \in 0 .. n : f[k] \in T
    /\ \A k \in 1 .. n : f[k] = G[k][f[k - 1]]

FromTheEnd(X, n, ch) == X = 1 .. n /\ \A s \in SUBSET X : ch[s] = Max(s)
IsLastOfSteps(v, n, T, b, G) == \E f : v = f[n] /\ AreSteps(f, n, T, b, G)

LEMMA FoldOfSteps ==
    ASSUME NEW n \in Nat, NEW X, NEW ch, FromTheEnd(X, n, ch),
           NEW T, NEW b \in T, NEW G \in [X -> [T -> T]],
           NEW fold, IsFoldWithin(T, fold, X, b, G, ch)
    PROVE  fold[X] \in T /\ IsLastOfSteps(fold[X], n, T, b, G)
<1>. USE DEF FromTheEnd
<1>. DEFINE f == [k \in 0 .. n |-> fold[1 .. k]]
<1>1. IsFiniteSet(X)
  BY FS_Interval
<1>2. TakesApart(X, ch)
  BY MaxIsLast DEF TakesApart
<1>3. (\A s \in SUBSET X : fold[s] \in T) /\ IsFold(fold, X, b, G, ch)
  BY <1>1, <1>2, FoldStays
<1>4. \A k \in 0 .. n : f[k] = fold[1 .. k] /\ 1 .. k \in SUBSET X
  OBVIOUS
<1>5. 1 .. 0 = {} /\ {} \in SUBSET X /\ 0 \in 0 .. n /\ n \in 0 .. n
  OBVIOUS
<1>. HIDE DEF f
<1>6. ASSUME NEW k \in 1 .. n PROVE f[k] = G[k][f[k - 1]]
  <2>1. Max(1 .. k) = k /\ (1 .. k) \ {k} = 1 .. (k - 1)
    BY MaxOfInterval
  <2>2. 1 .. k \in SUBSET X /\ 1 .. k # {}
    <3>1. k \in 1 .. k /\ 1 .. k \subseteq 1 .. n
      OBVIOUS
    <3>. QED BY <3>1
  <2>3. fold[1 .. k] = G[ch[1 .. k]][fold[(1 .. k) \ {ch[1 .. k]}]] /\ ch[1 .. k] = k
    BY <1>3, <2>1, <2>2 DEF IsFold
  <2>4. k - 1 \in 0 .. n /\ k \in 0 .. n
    OBVIOUS
  <2>. QED BY <1>4, <2>1, <2>3, <2>4
<1>7. f[0] = b
  BY <1>3, <1>4, <1>5 DEF IsFold
<1>8. fold[X] = f[n]
  BY <1>4, <1>5
<1>9. \A k \in 0 .. n : f[k] \in T
  BY <1>3, <1>4
<1>10. AreSteps(f, n, T, b, G)
  BY <1>6, <1>7, <1>9 DEF AreSteps
<1>. QED BY <1>5, <1>8, <1>9, <1>10 DEF IsLastOfSteps

----------------------------------------------------------------------------
(* Paths.                                                                     *)
LEMMA PathLength ==
    ASSUME NEW p \in Paths
    PROVE  /\ p \in Seq(STRING) /\ Len(p) \in Nat
           /\ p # <<>> => Len(p) > 0
BY PathsAssumption, EmptySeq

LEMMA Prefix ==
    ASSUME NEW p \in Paths, NEW k \in 0 .. Len(p)
    PROVE  /\ SubSeq(p, 1, k) \in Seq(STRING)
           /\ Len(SubSeq(p, 1, k)) = k
           /\ \A i \in 1 .. k : SubSeq(p, 1, k)[i] = p[i]
<1>1. p \in Seq(STRING) /\ Len(p) \in Nat
  BY PathLength
<1>2. k \in Int /\ \A i \in 1 .. k : p[i] \in STRING
  BY <1>1, ElementOfSeq
<1>. QED BY <1>1, <1>2, SubSeqProperties

LEMMA ParentPath ==
    ASSUME NEW p \in Paths, p # <<>>
    PROVE  /\ Parent(p) \in Paths
           /\ Parent(p) = SubSeq(p, 1, Len(p) - 1)
           /\ Len(Parent(p)) = Len(p) - 1
<1>1. Parent(p) = SubSeq(p, 1, Len(p) - 1) /\ Parent(p) \in Paths
  BY PathsAssumption DEF Parent, Front
<1>2. Len(p) - 1 \in 0 .. Len(p)
  BY PathLength
<1>. QED BY <1>1, <1>2, Prefix

LEMMA SubSeqOfParent ==
    ASSUME NEW p \in Paths, p # <<>>, NEW k \in 0 .. Len(p) - 1
    PROVE  SubSeq(Parent(p), 1, k) = SubSeq(p, 1, k)
<1>1. Len(p) \in Nat /\ Parent(p) = SubSeq(p, 1, Len(p) - 1) /\ p \in Seq(STRING)
  BY PathLength, ParentPath
<1>2. Parent(p) \in Paths /\ Len(Parent(p)) = Len(p) - 1
  BY ParentPath
<1>3. \A i \in 1 .. k : SubSeq(Parent(p), 1, k)[i] = p[i] /\ SubSeq(p, 1, k)[i] = p[i]
  BY <1>1, <1>2, Prefix
<1>. QED BY <1>1, <1>2, <1>3, Prefix, SeqEqual

LEMMA PrefixPath ==
    ASSUME NEW p \in Paths, NEW k \in 0 .. Len(p)
    PROVE  SubSeq(p, 1, k) \in Paths
<1>. DEFINE N == {n \in Nat : \A q \in Paths : Len(q) = n => \A j \in 0 .. n : SubSeq(q, 1, j) \in Paths}
<1>1. 0 \in N
  <2>. SUFFICES ASSUME NEW q \in Paths, Len(q) = 0, NEW j \in 0 .. 0 PROVE SubSeq(q, 1, j) \in Paths
    OBVIOUS
  <2>1. SubSeq(q, 1, Len(q)) = q
    BY PathLength, SubSeqFull
  <2>2. j = Len(q)
    OBVIOUS
  <2>. QED BY <2>1, <2>2
<1>2. ASSUME NEW n \in Nat, n \in N PROVE n + 1 \in N
  <2>. SUFFICES ASSUME NEW q \in Paths, Len(q) = n + 1, NEW j \in 0 .. n + 1
                PROVE  SubSeq(q, 1, j) \in Paths
    OBVIOUS
  <2>1. CASE j = n + 1
    BY <2>1, PathLength, SubSeqFull
  <2>2. CASE j \in 0 .. n
    <3>1. q # <<>>
      OBVIOUS
    <3>2. Parent(q) \in Paths /\ Len(Parent(q)) = n /\ SubSeq(Parent(q), 1, j) = SubSeq(q, 1, j)
      BY <2>2, <3>1, ParentPath, SubSeqOfParent
    <3>. QED BY <1>2, <2>2, <3>2
  <2>. QED BY <2>1, <2>2
<1>3. Nat \subseteq N
  <2>. HIDE DEF N
  <2>. QED BY <1>1, <1>2, NatInduct
<1>. QED BY <1>3, PathLength

LEMMA AboveParent ==
    ASSUME NEW p \in Paths, p # <<>>
    PROVE  Above(p) = Above(Parent(p)) \cup {Parent(p)}
<1>1. Len(p) \in Nat /\ Len(p) > 0
  BY PathLength
<1>2. 0 .. Len(p) - 1 = (0 .. Len(Parent(p)) - 1) \cup {Len(p) - 1}
  BY <1>1, ParentPath
<1>3. \A k \in 0 .. Len(p) - 1 : SubSeq(p, 1, k) = SubSeq(Parent(p), 1, k)
  BY SubSeqOfParent
<1>4. SubSeq(p, 1, Len(p) - 1) = Parent(p)
  BY ParentPath
<1>. QED BY <1>2, <1>3, <1>4 DEF Above

LEMMA AbovePaths ==
    ASSUME NEW p \in Paths, NEW a \in Above(p)
    PROVE  /\ a \in Paths
           /\ Len(a) < Len(p)
           /\ a = SubSeq(p, 1, Len(a))
<1>1. PICK k \in 0 .. Len(p) - 1 : a = SubSeq(p, 1, k)
  BY DEF Above
<1>2. Len(p) \in Nat /\ p \in Seq(STRING)
  BY PathLength
<1>3. a \in Paths
  BY <1>1, <1>2, PrefixPath
<1>4. Len(a) = k
  BY <1>1, <1>2, Prefix
<1>. QED BY <1>1, <1>2, <1>3, <1>4

(* What is next on the way down from a to p.                                   *)
LEMMA StepDown ==
    ASSUME NEW p \in Paths, p # <<>>, NEW a \in Above(p)
    PROVE  SubSeq(p, 1, Len(a) + 1) = IF a = Parent(p) THEN p ELSE SubSeq(Parent(p), 1, Len(a) + 1)
<1>1. Len(p) \in Nat /\ p \in Seq(STRING) /\ Len(a) \in Nat /\ Len(a) < Len(p) /\ a = SubSeq(p, 1, Len(a))
  BY AbovePaths, PathLength
<1>2. CASE a = Parent(p)
  BY <1>1, <1>2, ParentPath, SubSeqFull
<1>3. CASE a # Parent(p)
  <2>1. Len(a) # Len(p) - 1
    BY <1>1, <1>3, ParentPath
  <2>. QED BY <1>1, <1>3, <2>1, SubSeqOfParent
<1>. QED BY <1>2, <1>3

LEMMA RootIsNotUnder ==
    ASSUME NEW p \in Paths, p # <<>>
    PROVE  ~ Under(<<>>, p)
BY DEF Under, Above

LEMMA LongestPath == MaxDepth \in Nat /\ \A p \in Paths : Len(p) \in 0 .. MaxDepth
<1>. DEFINE L == {Len(p) : p \in Paths}
            U == {s \in SUBSET Paths : \E n \in Nat : \A p \in s : Len(p) <= n}
<1>1. \A p \in Paths : Len(p) \in Nat
  BY PathLength
<1>2. {} \in U
  OBVIOUS
<1>3. ASSUME NEW s \in SUBSET Paths, s # {} PROVE \E x \in s : s \ {x} \in U => s \in U
  <2>1. PICK x \in s : TRUE
    BY <1>3
  <2>2. ASSUME s \ {x} \in U PROVE s \in U
    <3>1. PICK n \in Nat : \A p \in s \ {x} : Len(p) <= n
      BY <2>2
    <3>2. n + Len(x) \in Nat /\ \A p \in s : Len(p) <= n + Len(x)
      BY <1>1, <3>1
    <3>. QED BY <3>2
  <2>. QED BY <2>1, <2>2
<1>4. SUBSET Paths \subseteq U
  <2>. HIDE DEF U
  <2>. QED BY <1>2, <1>3, PathsAssumption, SubsetInduct
<1>5. PICK n \in Nat : \A p \in Paths : Len(p) <= n
  BY <1>4
<1>. DEFINE B == {n - Len(p) : p \in Paths}
<1>6. B \subseteq Nat /\ B # {}
  BY <1>1, <1>5, PathsAssumption
<1>7. PICK d \in B : \A y \in B : ~ (y < d)
  <2>. HIDE DEF B
  <2>. QED BY <1>6, LeastNat
<1>8. PICK p \in Paths : d = n - Len(p)
  OBVIOUS
<1>9. \A q \in Paths : Len(p) >= Len(q)
  <2>. TAKE q \in Paths
  <2>1. n - Len(q) \in B
    OBVIOUS
  <2>2. ~ (n - Len(q) < n - Len(p))
    BY <1>7, <1>8, <2>1
  <2>. QED BY <1>1, <2>2
<1>10. \E m \in L : \A y \in L : m >= y
  BY <1>9
<1>11. MaxDepth \in L /\ \A y \in L : MaxDepth >= y
  BY <1>10 DEF MaxDepth, Max
<1>. QED BY <1>1, <1>11

----------------------------------------------------------------------------
(* Trees as the daemon and as the client keep them, and what each operation     *)
(* keeps of that.                                                             *)
DaemonTrees == {t \in Trees : LinksToChildren(t)}
ClientTrees == {t \in DaemonTrees : LinksLead(t)}
EntryStates == {"file", "loaded", "unloaded"}
Nodes == Paths \X EntryStates

LEMMA NewForDirectoryIsTree == NewForDirectory \in ClientTrees
BY PathsAssumption DEF NewForDirectory, EmptyTree, ClientTrees, DaemonTrees, Trees, LinksToChildren, LinksLead

LEMMA InsertChildKeeps ==
    ASSUME NEW t \in DaemonTrees, NEW p \in Paths, NEW s \in EntryStates
    PROVE  /\ InsertChild(t, p, s) \in DaemonTrees
           /\ t \in ClientTrees /\ (s = "file" => t.state[p] = "none") => InsertChild(t, p, s) \in ClientTrees
<1>. DEFINE u == [t EXCEPT !.state[p] = s, !.kids[Parent(p)] = @ \cup {p}]
<1>. SUFFICES ASSUME HasParentDir(t, p)
              PROVE  /\ u \in DaemonTrees
                     /\ t \in ClientTrees /\ (s = "file" => t.state[p] = "none") => u \in ClientTrees
  BY DEF InsertChild
<1>1. p # <<>> /\ Parent(p) \in Paths /\ Parent(p) # p /\ IsDir(t, Parent(p))
  BY ParentPath, PathLength DEF HasParentDir
<1>2. u \in Trees
  BY <1>1 DEF DaemonTrees, Trees, EntryStates
<1>3. /\ \A q \in Paths : u.state[q] = IF q = p THEN s ELSE t.state[q]
      /\ \A q \in Paths : u.kids[q] = IF q = Parent(p) THEN t.kids[q] \cup {p} ELSE t.kids[q]
  BY <1>1 DEF DaemonTrees, Trees
<1>. HIDE DEF u
<1>4. LinksToChildren(u)
  BY <1>1, <1>3 DEF LinksToChildren, DaemonTrees
<1>5. ASSUME t \in ClientTrees, s = "file" => t.state[p] = "none" PROVE LinksLead(u)
  <2>1. /\ \A q \in Paths : t.kids[q] # {} => t.state[q] \in {"loaded", "unloaded"}
        /\ \A q \in Paths : \A r \in t.kids[q] : r \in Paths /\ t.state[r] # "none"
        /\ t.state[Parent(p)] \in {"loaded", "unloaded"}
    BY <1>1, <1>5 DEF LinksLead, ClientTrees, DaemonTrees, Trees, IsDir
  <2>2. \A q \in Paths : u.kids[q] # {} => u.state[q] \in {"loaded", "unloaded"}
    BY <1>1, <1>3, <1>5, <2>1 DEF EntryStates
  <2>3. \A q \in Paths : \A r \in u.kids[q] : u.state[r] # "none"
    BY <1>1, <1>3, <1>5, <2>1 DEF EntryStates
  <2>4. ASSUME NEW q \in Paths, q # <<>>, u.state[q] # "none" PROVE q \in u.kids[Parent(q)]
    <3>1. Parent(q) \in Paths /\ t \in Trees
      BY <1>5, <2>4, ParentPath DEF DaemonTrees
    <3>2. q # p => q \in t.kids[Parent(q)]
      BY <1>3, <1>5, <2>4 DEF ClientTrees, LinksLead
    <3>. QED BY <1>3, <2>4, <3>1, <3>2
  <2>. QED BY <2>2, <2>3, <2>4 DEF LinksLead, IsDir
<1>. QED BY <1>2, <1>4, <1>5 DEF DaemonTrees, ClientTrees

LEMMA RemovePathIsTree ==
    ASSUME NEW t \in DaemonTrees, NEW p
    PROVE  RemovePath(t, p) \in DaemonTrees
<1>1. RemovePath(t, p) \in Trees
  BY DEF RemovePath, DaemonTrees, Trees
<1>2. \A q \in Paths : RemovePath(t, p).kids[q] \subseteq t.kids[q]
  BY DEF RemovePath, DaemonTrees, Trees
<1>. QED BY <1>1, <1>2 DEF DaemonTrees, LinksToChildren

LEMMA RemovePathKeeps ==
    ASSUME NEW t \in ClientTrees, NEW p \in Paths
    PROVE  RemovePath(t, p) \in ClientTrees
<1>. DEFINE gone == {q \in Paths : /\ Under(q, p)
                                  /\ \A a \in Above(q) :
                                        Under(a, p) => SubSeq(q, 1, Len(a) + 1) \in t.kids[a]}
            u == RemovePath(t, p)
<1>1. t \in DaemonTrees /\ t \in Trees /\ LinksLead(t) /\ LinksToChildren(t)
  BY DEF ClientTrees, DaemonTrees
<1>2. u \in DaemonTrees
  BY <1>1, RemovePathIsTree
<1>3. \A q \in Paths :
         /\ u.state[q] = IF q \in gone THEN "none" ELSE t.state[q]
         /\ u.kids[q] = IF q \in gone THEN {} ELSE IF IsDir(t, q) THEN t.kids[q] \ {p} ELSE t.kids[q]
  BY <1>1 DEF RemovePath
<1>4. \A q \in Paths : q \in gone <=> /\ Under(q, p)
                                     /\ \A a \in Above(q) :
                                           Under(a, p) => SubSeq(q, 1, Len(a) + 1) \in t.kids[a]
  OBVIOUS
<1>. HIDE DEF u, gone
<1>5. ASSUME NEW q \in Paths, NEW r \in u.kids[q] PROVE r \notin gone
  <2>. SUFFICES ASSUME r \in gone PROVE FALSE
    OBVIOUS
  <2>0. t.kids[q] # {} => IsDir(t, q)
    BY <1>1 DEF LinksLead
  <2>1. q \notin gone /\ r \in t.kids[q] /\ IsDir(t, q) /\ r # p
    BY <1>3, <1>5, <2>0
  <2>2. r \in Paths /\ r # <<>> /\ Parent(r) = q
    BY <1>1, <2>1 DEF LinksToChildren, Trees
  <2>3. Above(r) = Above(q) \cup {q}
    BY <2>2, AboveParent
  <2>4. Under(q, p)
    BY <1>4, <2>1, <2>2, <2>3 DEF Under
  <2>5. ASSUME NEW a \in Above(q), Under(a, p) PROVE SubSeq(q, 1, Len(a) + 1) \in t.kids[a]
    <3>1. a \in Above(r) /\ a # q
      BY <2>3, <2>5, AbovePaths, PathLength
    <3>2. SubSeq(r, 1, Len(a) + 1) = SubSeq(q, 1, Len(a) + 1)
      BY <2>2, <3>1, StepDown
    <3>. QED BY <1>4, <2>2, <2>5, <3>1, <3>2
  <2>. QED BY <1>4, <2>1, <2>4, <2>5
<1>6. LinksLead(u)
  <2>1. \A q \in Paths : u.kids[q] \subseteq t.kids[q] /\ (u.kids[q] # {} => q \notin gone)
    BY <1>3
  <2>2. \A q \in Paths : \A r \in t.kids[q] : r \in Paths
    BY <1>1 DEF Trees
  <2>3. ASSUME NEW q \in Paths, q # <<>>, u.state[q] # "none" PROVE q \in u.kids[Parent(q)]
    <3>1. q \notin gone /\ q \in t.kids[Parent(q)] /\ Parent(q) \in Paths /\ IsDir(t, Parent(q))
      BY <1>1, <1>3, <2>3, ParentPath DEF LinksLead
    <3>2. Above(q) = Above(Parent(q)) \cup {Parent(q)}
      BY <2>3, AboveParent
    <3>3. Parent(q) \notin gone
      <4>. SUFFICES ASSUME Parent(q) \in gone PROVE FALSE
        OBVIOUS
      <4>1. Under(q, p)
        BY <1>4, <3>1, <3>2 DEF Under
      <4>2. ASSUME NEW a \in Above(q), Under(a, p) PROVE SubSeq(q, 1, Len(a) + 1) \in t.kids[a]
        BY <1>4, <2>3, <3>1, <3>2, <4>2, StepDown
      <4>. QED BY <1>4, <3>1, <4>1, <4>2
    <3>4. p \in gone
      <4>1. ASSUME NEW a \in Above(p) PROVE ~ Under(a, p)
        <5>1. a \in Paths /\ Len(a) < Len(p) /\ Len(a) \in Nat /\ Len(p) \in Nat
          BY AbovePaths, PathLength
        <5>. QED BY <5>1, AbovePaths DEF Under
      <4>. QED BY <1>4, <4>1 DEF Under
    <3>. QED BY <1>3, <3>1, <3>3, <3>4
  <2>. QED BY <1>1, <1>3, <1>5, <2>1, <2>2, <2>3 DEF LinksLead, IsDir
<1>. QED BY <1>2, <1>6 DEF ClientTrees, u

LEMMA ApplyNodeKeeps ==
    ASSUME NEW t \in ClientTrees, NEW n \in Nodes
    PROVE  ApplyNode(t, n) \in ClientTrees
BY InsertChildKeeps DEF ApplyNode, Nodes, ClientTrees

LEMMA FindOrInsertKeeps ==
    ASSUME NEW t \in DaemonTrees, NEW p \in Paths
    PROVE  /\ FindOrInsertDirectory(t, p) \in DaemonTrees
           /\ t \in ClientTrees => FindOrInsertDirectory(t, p) \in ClientTrees
BY InsertChildKeeps DEF FindOrInsertDirectory, EntryStates

----------------------------------------------------------------------------
(* The folds of the model.  Each starts with the equation of its own function.   *)
ParentStep(p, u, k) ==
    IF \A j \in 0 .. k - 1 : IsDir(u, SubSeq(p, 1, j)) THEN FindOrInsertDirectory(u, SubSeq(p, 1, k)) ELSE u

Parents(p, b, seq) == FoldLeft(LAMBDA u, k : ParentStep(p, u, k), b, seq)

LEMMA ParentsFold ==
    ASSUME NEW T, NEW b \in T, NEW p, NEW R, NEW seq \in Seq(R),
           \A v \in T : \A k \in 1 .. Len(seq) : ParentStep(p, v, seq[k]) \in T
    PROVE  Parents(p, b, seq) \in T
<1>. DEFINE X == 1 .. Len(seq)
            F(it) == [s \in SUBSET X |-> IF s = {} THEN b ELSE ParentStep(p, it[s \ {Max(s)}], seq[Max(s)])]
            fold == CHOOSE it : it = F(it)
            G == [k \in X |-> [v \in T |-> ParentStep(p, v, seq[k])]]
            ch == [s \in SUBSET X |-> Max(s)]
<1>1. Len(seq) \in Nat /\ IsFiniteSet(X) /\ DOMAIN seq = X
  BY LenProperties, FS_Interval
<1>2. \A s \in SUBSET X : s # {} => Max(s) \in s
  BY <1>1, MaxIsLast
<1>3. Parents(p, b, seq) = fold[X]
  BY <1>1 DEF Parents, FoldLeft, MapThenFoldSet
<1>4. TakesApart(X, ch) /\ G \in [X -> [T -> T]]
  BY <1>2 DEF TakesApart
<1>5. PICK h \in [SUBSET X -> T] : IsFold(h, X, b, G, ch)
  <2>. HIDE DEF G, ch, X
  <2>. QED BY <1>1, <1>4, FoldExists
<1>6. h = F(h)
  <2>1. ASSUME NEW s \in SUBSET X, s # {} PROVE h[s] = ParentStep(p, h[s \ {Max(s)}], seq[Max(s)])
    BY <1>2, <1>5, <2>1 DEF IsFold
  <2>. QED BY <1>5, <2>1 DEF IsFold
<1>7. fold = F(fold)
  BY <1>6
<1>. HIDE DEF fold
<1>8. fold[{}] = b /\ \A s \in SUBSET X : s # {} => fold[s] = ParentStep(p, fold[s \ {Max(s)}], seq[Max(s)])
  BY <1>7
<1>9. IsFoldWithin(T, fold, X, b, G, ch)
  <2>1. ASSUME NEW s \in SUBSET X, s # {}, fold[s \ {ch[s]}] \in T
        PROVE  fold[s] = G[ch[s]][fold[s \ {ch[s]}]]
    <3>1. ch[s] = Max(s) /\ Max(s) \in X
      BY <1>2, <2>1
    <3>2. G[Max(s)][fold[s \ {Max(s)}]] = ParentStep(p, fold[s \ {Max(s)}], seq[Max(s)])
      BY <2>1, <3>1
    <3>. QED BY <1>8, <2>1, <3>1, <3>2
  <2>. QED BY <1>8, <2>1 DEF IsFoldWithin
<1>10. FromTheEnd(X, Len(seq), ch)
  BY DEF FromTheEnd
<1>11. fold[X] \in T
  <2>. HIDE DEF G, X, ch
  <2>. QED BY <1>1, <1>4, <1>9, <1>10, FoldOfSteps
<1>. QED BY <1>3, <1>11

NodesApplied(b, S) == FoldSet(LAMBDA n, v : ApplyNode(v, n), b, S)

IsNodesApplied(v, b, S) ==
    \E f : /\ v = f[S]
          /\ f[{}] = b
          /\ \A s \in SUBSET S : s # {} => \E x \in s : f[s] = ApplyNode(f[s \ {x}], x)

LEMMA NodesFold ==
    ASSUME NEW T, NEW b \in T, NEW S, IsFiniteSet(S),
           \A v \in T : \A x \in S : ApplyNode(v, x) \in T
    PROVE  /\ NodesApplied(b, S) \in T
           /\ IsNodesApplied(NodesApplied(b, S), b, S)
<1>. DEFINE Pick(s) == CHOOSE x \in s : TRUE
            F(it) == [s \in SUBSET S |-> IF s = {} THEN b ELSE ApplyNode(it[s \ {Pick(s)}], Pick(s))]
            fold == CHOOSE it : it = F(it)
            G == [x \in S |-> [v \in T |-> ApplyNode(v, x)]]
            ch == [s \in SUBSET S |-> Pick(s)]
<1>1. \A s \in SUBSET S : s # {} => Pick(s) \in s
  OBVIOUS
<1>2. NodesApplied(b, S) = fold[S]
  BY DEF NodesApplied, FoldSet, MapThenFoldSet
<1>. HIDE DEF Pick
<1>3. TakesApart(S, ch) /\ G \in [S -> [T -> T]]
  BY <1>1 DEF TakesApart
<1>4. PICK h \in [SUBSET S -> T] : IsFold(h, S, b, G, ch)
  <2>. HIDE DEF G, ch
  <2>. QED BY <1>3, FoldExists
<1>5. h = F(h)
  <2>1. ASSUME NEW s \in SUBSET S, s # {} PROVE h[s] = ApplyNode(h[s \ {Pick(s)}], Pick(s))
    BY <1>1, <1>4, <2>1 DEF IsFold
  <2>. QED BY <1>4, <2>1 DEF IsFold
<1>6. fold = F(fold)
  BY <1>5
<1>. HIDE DEF fold
<1>7. fold[{}] = b /\ \A s \in SUBSET S : s # {} => fold[s] = ApplyNode(fold[s \ {Pick(s)}], Pick(s))
  BY <1>6
<1>8. IsFoldWithin(T, fold, S, b, G, ch)
  <2>1. ASSUME NEW s \in SUBSET S, s # {}, fold[s \ {ch[s]}] \in T
        PROVE  fold[s] = G[ch[s]][fold[s \ {ch[s]}]]
    <3>1. ch[s] = Pick(s) /\ Pick(s) \in S
      BY <1>1, <2>1
    <3>2. G[Pick(s)][fold[s \ {Pick(s)}]] = ApplyNode(fold[s \ {Pick(s)}], Pick(s))
      BY <2>1, <3>1
    <3>. QED BY <1>7, <2>1, <3>1, <3>2
  <2>. QED BY <1>7, <2>1 DEF IsFoldWithin
<1>9. \A s \in SUBSET S : fold[s] \in T
  <2>. HIDE DEF G, ch
  <2>. QED BY <1>3, <1>8, FoldStays
<1>10. IsNodesApplied(fold[S], b, S)
  BY <1>1, <1>7 DEF IsNodesApplied
<1>. QED BY <1>2, <1>9, <1>10

LevelStep(patch, u, k) == NodesApplied(u, {n \in patch.nodes : Len(n[1]) = k})
Levels(patch, b, seq) == FoldLeft(LAMBDA u, k : LevelStep(patch, u, k), b, seq)

LEMMA LevelsFold ==
    ASSUME NEW T, NEW b \in T, NEW patch, NEW R, NEW seq \in Seq(R),
           \A v \in T : \A k \in 1 .. Len(seq) : LevelStep(patch, v, seq[k]) \in T
    PROVE  /\ Levels(patch, b, seq) \in T
           /\ IsLastOfSteps(Levels(patch, b, seq), Len(seq), T, b,
                            [k \in 1 .. Len(seq) |-> [v \in T |-> LevelStep(patch, v, seq[k])]])
<1>. DEFINE X == 1 .. Len(seq)
            F(it) == [s \in SUBSET X |-> IF s = {} THEN b ELSE LevelStep(patch, it[s \ {Max(s)}], seq[Max(s)])]
            fold == CHOOSE it : it = F(it)
            G == [k \in X |-> [v \in T |-> LevelStep(patch, v, seq[k])]]
            ch == [s \in SUBSET X |-> Max(s)]
<1>1. Len(seq) \in Nat /\ IsFiniteSet(X) /\ DOMAIN seq = X
  BY LenProperties, FS_Interval
<1>2. \A s \in SUBSET X : s # {} => Max(s) \in s
  BY <1>1, MaxIsLast
<1>3. Levels(patch, b, seq) = fold[X]
  BY <1>1 DEF Levels, FoldLeft, MapThenFoldSet
<1>4. TakesApart(X, ch) /\ G \in [X -> [T -> T]]
  BY <1>2 DEF TakesApart
<1>5. PICK h \in [SUBSET X -> T] : IsFold(h, X, b, G, ch)
  <2>. HIDE DEF G, ch, X
  <2>. QED BY <1>1, <1>4, FoldExists
<1>6. h = F(h)
  <2>1. ASSUME NEW s \in SUBSET X, s # {} PROVE h[s] = LevelStep(patch, h[s \ {Max(s)}], seq[Max(s)])
    BY <1>2, <1>5, <2>1 DEF IsFold
  <2>. QED BY <1>5, <2>1 DEF IsFold
<1>7. fold = F(fold)
  BY <1>6
<1>. HIDE DEF fold
<1>8. fold[{}] = b /\ \A s \in SUBSET X : s # {} => fold[s] = LevelStep(patch, fold[s \ {Max(s)}], seq[Max(s)])
  BY <1>7
<1>9. IsFoldWithin(T, fold, X, b, G, ch)
  <2>1. ASSUME NEW s \in SUBSET X, s # {}, fold[s \ {ch[s]}] \in T
        PROVE  fold[s] = G[ch[s]][fold[s \ {ch[s]}]]
    <3>1. ch[s] = Max(s) /\ Max(s) \in X
      BY <1>2, <2>1
    <3>2. G[Max(s)][fold[s \ {Max(s)}]] = LevelStep(patch, fold[s \ {Max(s)}], seq[Max(s)])
      BY <2>1, <3>1
    <3>. QED BY <1>8, <2>1, <3>1, <3>2
  <2>. QED BY <1>8, <2>1 DEF IsFoldWithin
<1>10. FromTheEnd(X, Len(seq), ch)
  BY DEF FromTheEnd
<1>11. fold[X] \in T /\ IsLastOfSteps(fold[X], Len(seq), T, b, G)
  <2>. HIDE DEF G, X, ch
  <2>. QED BY <1>1, <1>4, <1>9, <1>10, FoldOfSteps
<1>. QED BY <1>3, <1>11

AllRemoved(b, S) == FoldSet(LAMBDA p, v : RemovePath(v, p), b, S)

LEMMA RemovedFold ==
    ASSUME NEW T, NEW b \in T, NEW S, IsFiniteSet(S),
           \A v \in T : \A x \in S : RemovePath(v, x) \in T
    PROVE  AllRemoved(b, S) \in T
<1>. DEFINE Pick(s) == CHOOSE x \in s : TRUE
            F(it) == [s \in SUBSET S |-> IF s = {} THEN b ELSE RemovePath(it[s \ {Pick(s)}], Pick(s))]
            fold == CHOOSE it : it = F(it)
            G == [x \in S |-> [v \in T |-> RemovePath(v, x)]]
            ch == [s \in SUBSET S |-> Pick(s)]
<1>1. \A s \in SUBSET S : s # {} => Pick(s) \in s
  OBVIOUS
<1>2. AllRemoved(b, S) = fold[S]
  BY DEF AllRemoved, FoldSet, MapThenFoldSet
<1>. HIDE DEF Pick
<1>3. TakesApart(S, ch) /\ G \in [S -> [T -> T]]
  BY <1>1 DEF TakesApart
<1>4. PICK h \in [SUBSET S -> T] : IsFold(h, S, b, G, ch)
  <2>. HIDE DEF G, ch
  <2>. QED BY <1>3, FoldExists
<1>5. h = F(h)
  <2>1. ASSUME NEW s \in SUBSET S, s # {} PROVE h[s] = RemovePath(h[s \ {Pick(s)}], Pick(s))
    BY <1>1, <1>4, <2>1 DEF IsFold
  <2>. QED BY <1>4, <2>1 DEF IsFold
<1>6. fold = F(fold)
  BY <1>5
<1>. HIDE DEF fold
<1>7. fold[{}] = b /\ \A s \in SUBSET S : s # {} => fold[s] = RemovePath(fold[s \ {Pick(s)}], Pick(s))
  BY <1>6
<1>8. IsFoldWithin(T, fold, S, b, G, ch)
  <2>1. ASSUME NEW s \in SUBSET S, s # {}, fold[s \ {ch[s]}] \in T
        PROVE  fold[s] = G[ch[s]][fold[s \ {ch[s]}]]
    <3>1. ch[s] = Pick(s) /\ Pick(s) \in S
      BY <1>1, <2>1
    <3>2. G[Pick(s)][fold[s \ {Pick(s)}]] = RemovePath(fold[s \ {Pick(s)}], Pick(s))
      BY <2>1, <3>1
    <3>. QED BY <1>7, <2>1, <3>1, <3>2
  <2>. QED BY <1>7, <2>1 DEF IsFoldWithin
<1>9. \A s \in SUBSET S : fold[s] \in T
  <2>. HIDE DEF G, ch
  <2>. QED BY <1>3, <1>8, FoldStays
<1>. QED BY <1>2, <1>9

PatchesApplied(b, seq) == FoldLeft(ApplyPatch, b, seq)

PatchSteps(seq, T) == [k \in 1 .. Len(seq) |-> [v \in T |-> ApplyPatch(v, seq[k])]]

LEMMA PatchesFold ==
    ASSUME NEW T, NEW b \in T, NEW R, NEW seq \in Seq(R),
           \A v \in T : \A k \in 1 .. Len(seq) : ApplyPatch(v, seq[k]) \in T
    PROVE  /\ PatchesApplied(b, seq) \in T
           /\ IsLastOfSteps(PatchesApplied(b, seq), Len(seq), T, b, PatchSteps(seq, T))
<1>. DEFINE X == 1 .. Len(seq)
            F(it) == [s \in SUBSET X |-> IF s = {} THEN b ELSE ApplyPatch(it[s \ {Max(s)}], seq[Max(s)])]
            fold == CHOOSE it : it = F(it)
            G == [k \in X |-> [v \in T |-> ApplyPatch(v, seq[k])]]
            ch == [s \in SUBSET X |-> Max(s)]
<1>1. Len(seq) \in Nat /\ IsFiniteSet(X) /\ DOMAIN seq = X
  BY LenProperties, FS_Interval
<1>2. \A s \in SUBSET X : s # {} => Max(s) \in s
  BY <1>1, MaxIsLast
<1>3. PatchesApplied(b, seq) = fold[X]
  BY <1>1 DEF PatchesApplied, FoldLeft, MapThenFoldSet
<1>4. TakesApart(X, ch) /\ G \in [X -> [T -> T]]
  BY <1>2 DEF TakesApart
<1>5. PICK h \in [SUBSET X -> T] : IsFold(h, X, b, G, ch)
  <2>. HIDE DEF G, ch, X
  <2>. QED BY <1>1, <1>4, FoldExists
<1>6. h = F(h)
  <2>1. ASSUME NEW s \in SUBSET X, s # {} PROVE h[s] = ApplyPatch(h[s \ {Max(s)}], seq[Max(s)])
    BY <1>2, <1>5, <2>1 DEF IsFold
  <2>. QED BY <1>5, <2>1 DEF IsFold
<1>7. fold = F(fold)
  BY <1>6
<1>. HIDE DEF fold
<1>8. fold[{}] = b /\ \A s \in SUBSET X : s # {} => fold[s] = ApplyPatch(fold[s \ {Max(s)}], seq[Max(s)])
  BY <1>7
<1>9. IsFoldWithin(T, fold, X, b, G, ch)
  <2>1. ASSUME NEW s \in SUBSET X, s # {}, fold[s \ {ch[s]}] \in T
        PROVE  fold[s] = G[ch[s]][fold[s \ {ch[s]}]]
    <3>1. ch[s] = Max(s) /\ Max(s) \in X
      BY <1>2, <2>1
    <3>2. G[Max(s)][fold[s \ {Max(s)}]] = ApplyPatch(fold[s \ {Max(s)}], seq[Max(s)])
      BY <2>1, <3>1
    <3>. QED BY <1>8, <2>1, <3>1, <3>2
  <2>. QED BY <1>8, <2>1 DEF IsFoldWithin
<1>10. FromTheEnd(X, Len(seq), ch)
  BY DEF FromTheEnd
<1>11. fold[X] \in T /\ IsLastOfSteps(fold[X], Len(seq), T, b, G)
  <2>. HIDE DEF G, X, ch
  <2>. QED BY <1>1, <1>4, <1>9, <1>10, FoldOfSteps
<1>. QED BY <1>3, <1>11 DEF PatchSteps

AllDeleted(b, S) == FoldSet(LAMBDA p, acc : MutateRemove(acc, p), b, S)

LEMMA DeletedFold ==
    ASSUME NEW T, NEW b \in T, NEW S, IsFiniteSet(S),
           \A v \in T : \A x \in S : MutateRemove(v, x) \in T
    PROVE  AllDeleted(b, S) \in T
<1>. DEFINE Pick(s) == CHOOSE x \in s : TRUE
            F(it) == [s \in SUBSET S |-> IF s = {} THEN b ELSE MutateRemove(it[s \ {Pick(s)}], Pick(s))]
            fold == CHOOSE it : it = F(it)
            G == [x \in S |-> [v \in T |-> MutateRemove(v, x)]]
            ch == [s \in SUBSET S |-> Pick(s)]
<1>1. \A s \in SUBSET S : s # {} => Pick(s) \in s
  OBVIOUS
<1>2. AllDeleted(b, S) = fold[S]
  BY DEF AllDeleted, FoldSet, MapThenFoldSet
<1>. HIDE DEF Pick
<1>3. TakesApart(S, ch) /\ G \in [S -> [T -> T]]
  BY <1>1 DEF TakesApart
<1>4. PICK h \in [SUBSET S -> T] : IsFold(h, S, b, G, ch)
  <2>. HIDE DEF G, ch
  <2>. QED BY <1>3, FoldExists
<1>5. h = F(h)
  <2>1. ASSUME NEW s \in SUBSET S, s # {} PROVE h[s] = MutateRemove(h[s \ {Pick(s)}], Pick(s))
    BY <1>1, <1>4, <2>1 DEF IsFold
  <2>. QED BY <1>4, <2>1 DEF IsFold
<1>6. fold = F(fold)
  BY <1>5
<1>. HIDE DEF fold
<1>7. fold[{}] = b /\ \A s \in SUBSET S : s # {} => fold[s] = MutateRemove(fold[s \ {Pick(s)}], Pick(s))
  BY <1>6
<1>8. IsFoldWithin(T, fold, S, b, G, ch)
  <2>1. ASSUME NEW s \in SUBSET S, s # {}, fold[s \ {ch[s]}] \in T
        PROVE  fold[s] = G[ch[s]][fold[s \ {ch[s]}]]
    <3>1. ch[s] = Pick(s) /\ Pick(s) \in S
      BY <1>1, <2>1
    <3>2. G[Pick(s)][fold[s \ {Pick(s)}]] = MutateRemove(fold[s \ {Pick(s)}], Pick(s))
      BY <2>1, <3>1
    <3>. QED BY <1>7, <2>1, <3>1, <3>2
  <2>. QED BY <1>7, <2>1 DEF IsFoldWithin
<1>9. \A s \in SUBSET S : fold[s] \in T
  <2>. HIDE DEF G, ch
  <2>. QED BY <1>3, <1>8, FoldStays
<1>. QED BY <1>2, <1>9

(* The accumulators that the paths of seq lead to, one after the other.          *)
AreAdded(f, b, seq, fails, T) ==
    /\ f[0] = b
    /\ \A k \in 0 .. Len(seq) : f[k] \in T
    /\ \A k \in 1 .. Len(seq) : f[k] = AddPath(f[k - 1], seq[k], fails)
IsAdded(v, b, seq, fails, T) == \E f : AreAdded(f, b, seq, fails, T) /\ v = f[Len(seq)]

LEMMA AddedFold ==
    ASSUME NEW T, NEW b \in T, NEW fails, NEW R, NEW seq \in Seq(R),
           \A v \in T : \A k \in 1 .. Len(seq) : AddPath(v, seq[k], fails) \in T
    PROVE  /\ AllAdded(b, seq, fails) \in T
           /\ IsAdded(AllAdded(b, seq, fails), b, seq, fails, T)
<1>. DEFINE X == 1 .. Len(seq)
            F(it) == [s \in SUBSET X |-> IF s = {} THEN b ELSE AddPath(it[s \ {Max(s)}], seq[Max(s)], fails)]
            fold == CHOOSE it : it = F(it)
            G == [k \in X |-> [v \in T |-> AddPath(v, seq[k], fails)]]
            ch == [s \in SUBSET X |-> Max(s)]
<1>1. Len(seq) \in Nat /\ IsFiniteSet(X) /\ DOMAIN seq = X
  BY LenProperties, FS_Interval
<1>2. \A s \in SUBSET X : s # {} => Max(s) \in s
  BY <1>1, MaxIsLast
<1>3. AllAdded(b, seq, fails) = fold[X]
  BY <1>1 DEF AllAdded, FoldLeft, MapThenFoldSet
<1>4. TakesApart(X, ch) /\ G \in [X -> [T -> T]]
  BY <1>2 DEF TakesApart
<1>5. PICK h \in [SUBSET X -> T] : IsFold(h, X, b, G, ch)
  <2>. HIDE DEF G, ch, X
  <2>. QED BY <1>1, <1>4, FoldExists
<1>6. h = F(h)
  <2>1. ASSUME NEW s \in SUBSET X, s # {} PROVE h[s] = AddPath(h[s \ {Max(s)}], seq[Max(s)], fails)
    BY <1>2, <1>5, <2>1 DEF IsFold
  <2>. QED BY <1>5, <2>1 DEF IsFold
<1>7. fold = F(fold)
  BY <1>6
<1>. HIDE DEF fold
<1>8. fold[{}] = b /\ \A s \in SUBSET X : s # {} => fold[s] = AddPath(fold[s \ {Max(s)}], seq[Max(s)], fails)
  BY <1>7
<1>9. IsFoldWithin(T, fold, X, b, G, ch)
  <2>1. ASSUME NEW s \in SUBSET X, s # {}, fold[s \ {ch[s]}] \in T
        PROVE  fold[s] = G[ch[s]][fold[s \ {ch[s]}]]
    <3>1. ch[s] = Max(s) /\ Max(s) \in X
      BY <1>2, <2>1
    <3>2. G[Max(s)][fold[s \ {Max(s)}]] = AddPath(fold[s \ {Max(s)}], seq[Max(s)], fails)
      BY <2>1, <3>1
    <3>. QED BY <1>8, <2>1, <3>1, <3>2
  <2>. QED BY <1>8, <2>1 DEF IsFoldWithin
<1>10. FromTheEnd(X, Len(seq), ch)
  BY DEF FromTheEnd
<1>11. fold[X] \in T /\ IsLastOfSteps(fold[X], Len(seq), T, b, G)
  <2>. HIDE DEF G, X, ch
  <2>. QED BY <1>1, <1>4, <1>9, <1>10, FoldOfSteps
<1>12. PICK f : fold[X] = f[Len(seq)] /\ AreSteps(f, Len(seq), T, b, G)
  <2>. HIDE DEF G, X
  <2>. QED BY <1>11 DEF IsLastOfSteps
<1>13. ASSUME NEW k \in 1 .. Len(seq) PROVE f[k] = AddPath(f[k - 1], seq[k], fails)
  <2>1. f[k] = G[k][f[k - 1]] /\ k - 1 \in 0 .. Len(seq)
    BY <1>1, <1>12 DEF AreSteps
  <2>2. f[k - 1] \in T
    BY <1>12, <2>1 DEF AreSteps
  <2>. QED BY <2>1, <2>2
<1>. HIDE DEF G, X
<1>14. AreAdded(f, b, seq, fails, T)
  BY <1>12, <1>13 DEF AreSteps, AreAdded
<1>. QED BY <1>3, <1>11, <1>12, <1>14 DEF IsAdded

LEMMA AddedPrefix ==
    ASSUME NEW T, NEW b \in T, NEW fails, NEW R, NEW seq \in Seq(R),
           \A v \in T : \A k \in 1 .. Len(seq) : AddPath(v, seq[k], fails) \in T,
           NEW f, AreAdded(f, b, seq, fails, T), NEW k \in 1 .. Len(seq)
    PROVE  AllAdded(b, SubSeq(seq, 1, k - 1), fails) = f[k - 1]
<1>. DEFINE s == SubSeq(seq, 1, k - 1)
<1>1. Len(seq) \in Nat /\ k \in Nat
  BY LenProperties
<1>2. s \in Seq(R) /\ Len(s) = k - 1 /\ \A j \in 1 .. k - 1 : s[j] = seq[j]
  <2>1. \A j \in 1 .. k - 1 : seq[j] \in R
    BY <1>1, ElementOfSeq
  <2>2. /\ s \in Seq(R) /\ Len(s) = IF 1 <= k - 1 THEN (k - 1) - 1 + 1 ELSE 0
        /\ \A j \in 1 .. (k - 1) - 1 + 1 : s[j] = seq[1 + j - 1]
    BY <1>1, <2>1, SubSeqProperties
  <2>3. (k - 1) - 1 + 1 = k - 1 /\ \A j \in 1 .. k - 1 : 1 + j - 1 = j
    BY <1>1
  <2>. QED BY <1>1, <2>2, <2>3
<1>. HIDE DEF s
<1>3. s \in Seq(R) /\ \A v \in T : \A j \in 1 .. Len(s) : AddPath(v, s[j], fails) \in T
  BY <1>1, <1>2
<1>4. PICK g : AreAdded(g, b, s, fails, T) /\ AllAdded(b, s, fails) = g[Len(s)]
  <2>1. IsAdded(AllAdded(b, s, fails), b, s, fails, T)
    BY <1>3, AddedFold
  <2>. QED BY <2>1 DEF IsAdded
<1>. DEFINE N == {n \in Nat : n <= k - 1 => g[n] = f[n]}
<1>5. 0 \in N
  BY <1>4 DEF AreAdded
<1>6. ASSUME NEW n \in Nat, n \in N PROVE n + 1 \in N
  <2>. SUFFICES ASSUME n + 1 <= k - 1 PROVE g[n + 1] = f[n + 1]
    OBVIOUS
  <2>1. n + 1 \in 1 .. k - 1 /\ n + 1 \in 1 .. Len(seq) /\ (n + 1) - 1 = n
    BY <1>1
  <2>2. g[n + 1] = AddPath(g[n], s[n + 1], fails) /\ f[n + 1] = AddPath(f[n], seq[n + 1], fails)
    BY <1>2, <1>4, <2>1 DEF AreAdded
  <2>. QED BY <1>2, <1>6, <2>1, <2>2
<1>7. Nat \subseteq N
  <2>. HIDE DEF N
  <2>. QED BY <1>5, <1>6, NatInduct
<1>8. k - 1 \in N
  BY <1>1, <1>7
<1>. QED BY <1>1, <1>2, <1>4, <1>8 DEF s

----------------------------------------------------------------------------
(* What they keep.                                                            *)
LEMMA EnsureParentsKeeps ==
    ASSUME NEW p \in Paths, NEW t \in DaemonTrees
    PROVE  /\ EnsureParents(t, p) \in DaemonTrees
           /\ t \in ClientTrees => EnsureParents(t, p) \in ClientTrees
<1>. DEFINE seq == [k \in 1 .. Len(p) |-> k]
<1>1. seq \in Seq(Nat) /\ Len(seq) = Len(p) /\ \A k \in 1 .. Len(p) : seq[k] = k
  BY PathLength
<1>2. EnsureParents(t, p) = Parents(p, t, seq)
  BY DEF EnsureParents, ParentStep, Parents
<1>3. ASSUME NEW T \in {DaemonTrees, ClientTrees}, t \in T PROVE EnsureParents(t, p) \in T
  <2>1. ASSUME NEW v \in T, NEW k \in 1 .. Len(seq) PROVE ParentStep(p, v, seq[k]) \in T
    <3>1. SubSeq(p, 1, seq[k]) \in Paths
      BY <1>1, PathLength, PrefixPath
    <3>. QED BY <3>1, FindOrInsertKeeps DEF ParentStep, ClientTrees
  <2>. HIDE DEF seq
  <2>2. Parents(p, t, seq) \in T
    BY <1>1, <1>3, <2>1, ParentsFold
  <2>. QED BY <1>2, <2>2
<1>. QED BY <1>3

LEMMA NodesAreFinite ==
    ASSUME NEW S \in SUBSET Nodes
    PROVE  IsFiniteSet(S)
<1>1. IsFiniteSet(EntryStates)
  <2>1. EntryStates = ({"file"} \cup {"loaded"}) \cup {"unloaded"}
    BY DEF EntryStates
  <2>2. IsFiniteSet({"file"}) /\ IsFiniteSet({"loaded"}) /\ IsFiniteSet({"unloaded"})
    BY FS_Singleton
  <2>3. IsFiniteSet({"file"} \cup {"loaded"})
    BY <2>2, FS_Union
  <2>. QED BY <2>1, <2>2, <2>3, FS_Union
<1>2. IsFiniteSet(Nodes)
  BY <1>1, PathsAssumption, FS_Product DEF Nodes
<1>. QED BY <1>2, FS_Subset

LEMMA LevelStepKeeps ==
    ASSUME NEW patch \in Patches, NEW k, NEW u \in ClientTrees
    PROVE  LevelStep(patch, u, k) \in ClientTrees
<1>. DEFINE S == {n \in patch.nodes : Len(n[1]) = k}
<1>1. S \in SUBSET Nodes
  BY DEF Patches, Nodes, EntryStates
<1>2. LevelStep(patch, u, k) = NodesApplied(u, S)
  BY DEF LevelStep
<1>. HIDE DEF S
<1>3. IsFiniteSet(S) /\ \A v \in ClientTrees : \A n \in S : ApplyNode(v, n) \in ClientTrees
  BY <1>1, NodesAreFinite, ApplyNodeKeeps
<1>4. NodesApplied(u, S) \in ClientTrees
  BY <1>3, NodesFold
<1>. QED BY <1>2, <1>4

LEMMA ApplyPatchSteps ==
    ASSUME NEW patch \in Patches, NEW t \in ClientTrees
    PROVE  \E f : /\ ApplyPatch(t, patch) = f[MaxDepth]
                  /\ f[0] = EnsureParents(t, patch.parent)
                  /\ \A k \in 0 .. MaxDepth : f[k] \in ClientTrees
                  /\ \A k \in 1 .. MaxDepth : f[k] = LevelStep(patch, f[k - 1], k)
<1>. DEFINE seq == [k \in 1 .. MaxDepth |-> k]
            b == EnsureParents(t, patch.parent)
<1>1. seq \in Seq(Nat) /\ Len(seq) = MaxDepth /\ \A k \in 1 .. MaxDepth : seq[k] = k
  BY LongestPath
<1>2. ApplyPatch(t, patch) = Levels(patch, b, seq)
  BY DEF ApplyPatch, LevelStep, Levels, NodesApplied
<1>3. b \in ClientTrees
  BY EnsureParentsKeeps DEF Patches, ClientTrees
<1>. HIDE DEF seq, b
<1>4. \A v \in ClientTrees : \A k \in 1 .. Len(seq) : LevelStep(patch, v, seq[k]) \in ClientTrees
  BY LevelStepKeeps
<1>. DEFINE G == [k \in 1 .. Len(seq) |-> [v \in ClientTrees |-> LevelStep(patch, v, seq[k])]]
<1>5. IsLastOfSteps(Levels(patch, b, seq), Len(seq), ClientTrees, b, G)
  BY <1>1, <1>3, <1>4, LevelsFold
<1>6. PICK f : Levels(patch, b, seq) = f[MaxDepth] /\ AreSteps(f, MaxDepth, ClientTrees, b, G)
  BY <1>1, <1>5 DEF IsLastOfSteps
<1>7. ASSUME NEW k \in 1 .. MaxDepth PROVE f[k] = LevelStep(patch, f[k - 1], k)
  <2>1. k - 1 \in 0 .. MaxDepth
    BY LongestPath
  <2>2. f[k - 1] \in ClientTrees /\ f[k] = G[k][f[k - 1]]
    BY <1>6, <2>1 DEF AreSteps
  <2>. QED BY <1>1, <2>2
<1>. HIDE DEF G
<1>. QED BY <1>2, <1>6, <1>7 DEF b, AreSteps

LEMMA ApplyPatchKeeps ==
    ASSUME NEW patch \in Patches, NEW t \in ClientTrees
    PROVE  ApplyPatch(t, patch) \in ClientTrees
BY ApplyPatchSteps, LongestPath

LEMMA ApplyUpdateKeeps ==
    ASSUME NEW u \in Updates, NEW t \in ClientTrees
    PROVE  ApplyUpdate(t, u) \in ClientTrees
<1>. DEFINE b == AllRemoved(t, u.removed)
<1>1. u.removed \in SUBSET Paths /\ u.patches \in Seq(Patches) /\ Len(u.patches) \in Nat
  BY LenProperties DEF Updates
<1>2. IsFiniteSet(u.removed) /\ \A v \in ClientTrees : \A p \in u.removed : RemovePath(v, p) \in ClientTrees
  BY <1>1, RemovePathKeeps, PathsAssumption, FS_Subset
<1>3. b \in ClientTrees
  BY <1>2, RemovedFold
<1>4. \A v \in ClientTrees : \A k \in 1 .. Len(u.patches) : ApplyPatch(v, u.patches[k]) \in ClientTrees
  BY <1>1, ApplyPatchKeeps, ElementOfSeq
<1>5. ApplyUpdate(t, u) = PatchesApplied(b, u.patches)
  BY DEF ApplyUpdate, AllRemoved, PatchesApplied
<1>. HIDE DEF b
<1>6. PatchesApplied(b, u.patches) \in ClientTrees
  BY <1>1, <1>3, <1>4, PatchesFold
<1>. QED BY <1>5, <1>6

LEMMA FromSnapshotIsTree ==
    ASSUME NEW u \in Updates
    PROVE  FromSnapshot(u) \in ClientTrees
BY NewForDirectoryIsTree, ApplyUpdateKeeps DEF FromSnapshot

----------------------------------------------------------------------------
(* The daemon's side: trees read from the disk, mutations and what is sent.     *)
Accs == [tree : DaemonTrees, sent : Updates]
Batches == [added : SUBSET (Paths \ {<<>>}), deleted : SUBSET (Paths \ {<<>>})]
Disks == [Paths -> {"none", "file", "dir"}]

LEMMA BuildTreeIsTree ==
    ASSUME NEW d \in Disks, NEW p \in Paths, NEW depth, NEW lazy
    PROVE  BuildTree(d, p, depth, lazy) \in DaemonTrees
<1>. DEFINE t == BuildTree(d, p, depth, lazy)
<1>1. t \in Trees
  BY DEF BuildTree, Trees
<1>2. ASSUME NEW q \in Paths, NEW r \in t.kids[q] PROVE r # <<>> /\ Parent(r) = q
  <2>1. r \in Paths /\ Under(r, p) /\ r # p /\ Parent(r) = q
    BY <1>2 DEF BuildTree
  <2>2. p \in Above(r)
    BY <2>1 DEF Under
  <2>3. Len(p) < Len(r)
    BY <2>1, <2>2, AbovePaths
  <2>. QED BY <2>1, <2>3, PathLength
<1>. QED BY <1>1, <1>2 DEF DaemonTrees, LinksToChildren

LEMMA InsertEntryIsTree ==
    ASSUME NEW t \in DaemonTrees, NEW sub \in DaemonTrees, NEW p \in Paths
    PROVE  InsertEntry(t, p, sub) \in DaemonTrees
<1>. DEFINE both == [state |-> [q \in Paths |-> IF sub.state[q] # "none" THEN sub.state[q] ELSE t.state[q]],
                     kids |-> [q \in Paths |-> IF sub.kids[q] # {} THEN sub.kids[q] ELSE t.kids[q]]]
            linked == [both EXCEPT !.kids[Parent(p)] = @ \cup {p}]
<1>1. both \in Trees
  BY DEF DaemonTrees, Trees
<1>2. LinksToChildren(both)
  BY DEF DaemonTrees, LinksToChildren
<1>3. InsertEntry(t, p, sub) = IF HasParentDir(both, p) THEN linked ELSE both
  BY DEF InsertEntry
<1>. HIDE DEF both
<1>4. ASSUME HasParentDir(both, p) PROVE linked \in DaemonTrees
  <2>1. p # <<>> /\ Parent(p) \in Paths
    BY <1>4, ParentPath DEF HasParentDir
  <2>2. linked \in Trees
    BY <1>1, <2>1 DEF Trees
  <2>3. \A q \in Paths : linked.kids[q] = IF q = Parent(p) THEN both.kids[q] \cup {p} ELSE both.kids[q]
    BY <1>1, <2>1 DEF Trees
  <2>. HIDE DEF linked
  <2>4. LinksToChildren(linked)
    <3>. SUFFICES ASSUME NEW q \in Paths, NEW r \in linked.kids[q] PROVE r # <<>> /\ Parent(r) = q
      BY DEF LinksToChildren
    <3>1. r \in both.kids[q] \/ (q = Parent(p) /\ r = p)
      BY <2>3
    <3>. QED BY <1>2, <2>1, <3>1 DEF LinksToChildren
  <2>. QED BY <2>2, <2>4 DEF DaemonTrees
<1>. QED BY <1>1, <1>2, <1>3, <1>4 DEF DaemonTrees

LEMMA StateChangeIsTree ==
    ASSUME NEW t \in DaemonTrees, NEW p \in Paths, NEW s \in EntryStates
    PROVE  [t EXCEPT !.state[p] = s] \in DaemonTrees
BY DEF DaemonTrees, Trees, EntryStates, LinksToChildren

LEMMA LoadAtPathIsTree ==
    ASSUME NEW t \in DaemonTrees, NEW p \in Paths, NEW d \in Disks
    PROVE  LoadAtPath(t, p, d) \in DaemonTrees
BY BuildTreeIsTree, StateChangeIsTree, InsertEntryIsTree DEF LoadAtPath, EntryStates

LEMMA NodesOfAreNodes ==
    ASSUME NEW t \in Trees, NEW S \in SUBSET Paths
    PROVE  NodesOf(t, S) \in SUBSET Nodes
BY DEF NodesOf, Nodes, EntryStates, Trees

LEMMA PatchIsPatch ==
    ASSUME NEW p \in Paths, NEW nodes \in SUBSET Nodes
    PROVE  Patch(p, nodes) \in Patches
BY DEF Patch, Patches, Nodes, EntryStates

LEMMA SnapshotIsUpdate ==
    ASSUME NEW t \in Trees
    PROVE  SnapshotOf(t) \in Updates
<1>1. Patch(<<>>, NodesOf(t, Shown(t) \ {<<>>})) \in Patches
  BY NodesOfAreNodes, PatchIsPatch, PathsAssumption DEF Shown
<1>. QED BY <1>1 DEF SnapshotOf, Update, Updates

LEMMA ListIsUpdate ==
    ASSUME NEW t \in Trees, NEW p \in Paths
    PROVE  ListDirectory(t, p) \in Updates
<1>1. Patch(p, NodesOf(t, Children(t, p))) \in Patches
  BY NodesOfAreNodes, PatchIsPatch DEF Children, Trees
<1>. QED BY <1>1 DEF ListDirectory, Update, Updates

LEMMA MutateIsAcc ==
    ASSUME NEW acc \in Accs, NEW t \in DaemonTrees, NEW p \in Paths, p # <<>>, NEW nodes \in SUBSET Nodes
    PROVE  Mutate(acc, t, p, nodes) \in Accs
<1>1. Patch(Parent(p), nodes) \in Patches
  BY ParentPath, PatchIsPatch
<1>2. Append(acc.sent.patches, Patch(Parent(p), nodes)) \in Seq(Patches)
  BY <1>1, AppendProperties DEF Accs, Updates
<1>. QED BY <1>2 DEF Mutate, Accs, Updates

LEMMA MutateRemoveIsAcc ==
    ASSUME NEW acc \in Accs, NEW p \in Paths
    PROVE  MutateRemove(acc, p) \in Accs
BY RemovePathIsTree DEF MutateRemove, Accs, Updates

LEMMA AddUnderIsAcc ==
    ASSUME NEW acc \in Accs, NEW p \in Paths, NEW lazy, NEW t, p # <<>> => t \in DaemonTrees,
           NEW nodes \in SUBSET Nodes
    PROVE  AddUnder(acc, p, lazy, t, nodes) \in Accs
<1>1. p # <<>> => ParentsMade(acc, p) \in DaemonTrees
  BY ParentPath, EnsureParentsKeeps DEF ParentsMade, Accs
<1>. QED BY <1>1, MutateIsAcc DEF AddUnder, Accs

LEMMA AddPathIsAcc ==
    ASSUME NEW acc \in Accs, NEW p \in Paths, NEW fails, disk \in Disks
    PROVE  AddPath(acc, p, fails) \in Accs
<1>. DEFINE made == ParentsMade(acc, p)
            opened == [made EXCEPT !.state[Parent(p)] = "loaded"]
            sub == BuildTree(disk, p, MaxDepth + 1, git)
<1>1. p # <<>> => made \in DaemonTrees /\ Parent(p) \in Paths
  BY ParentPath, EnsureParentsKeeps DEF ParentsMade, Accs
<1>2. AddFile(acc, p, ~ git) \in Accs
  <2>1. p # <<>> => ApplyNode(made, <<p, "file">>) \in DaemonTrees
    BY <1>1, InsertChildKeeps DEF ApplyNode, EntryStates
  <2>2. {<<p, "file">>} \in SUBSET Nodes
    BY DEF Nodes, EntryStates
  <2>. QED BY <2>1, <2>2, AddUnderIsAcc DEF AddFile
<1>3. AddEmptyDirectory(acc, p, ~ git) \in Accs
  <2>1. p # <<>> => InsertChild(made, p, "unloaded") \in DaemonTrees
    BY <1>1, InsertChildKeeps DEF EntryStates
  <2>2. {<<p, "unloaded">>} \in SUBSET Nodes
    BY DEF Nodes, EntryStates
  <2>. QED BY <2>1, <2>2, AddUnderIsAcc DEF AddEmptyDirectory
<1>4. AddDirectorySubtree(acc, p, ~ git, sub) \in Accs
  <2>1. sub \in DaemonTrees
    BY BuildTreeIsTree
  <2>. HIDE DEF sub
  <2>2. Flatten(sub) \in SUBSET Nodes
    BY <2>1, NodesOfAreNodes DEF Flatten, DaemonTrees
  <2>3. p # <<>> => opened \in DaemonTrees
    BY <1>1, StateChangeIsTree DEF EntryStates
  <2>4. p # <<>> => InsertEntry(RemovePath(opened, p), p, sub) \in DaemonTrees
    BY <2>1, <2>3, RemovePathIsTree, InsertEntryIsTree
  <2>. QED BY <2>2, <2>4, AddUnderIsAcc DEF AddDirectorySubtree
<1>. QED BY <1>2, <1>3, <1>4 DEF AddPath

LEMMA OrderIsSeq ==
    ASSUME batch \in Batches, NEW order \in SetToSeqs(batch.added)
    PROVE  order \in Seq(Paths) /\ \A j \in DOMAIN order : order[j] \in batch.added
<1>1. batch.added \in SUBSET Paths /\ Cardinality(batch.added) \in Nat
  BY PathsAssumption, FS_Subset, FS_CardinalityType DEF Batches
<1>2. order \in [1 .. Cardinality(batch.added) -> batch.added]
  BY DEF SetToSeqs
<1>. QED BY <1>1, <1>2

LEMMA StartIsAcc ==
    ASSUME tree \in DaemonTrees, batch \in Batches
    PROVE  AllDeleted([tree |-> tree, sent |-> Update({}, <<>>)], batch.deleted) \in Accs
<1>. DEFINE first == [tree |-> tree, sent |-> Update({}, <<>>)]
<1>1. first \in Accs
  BY DEF Accs, Update, Updates
<1>2. batch.deleted \in SUBSET Paths /\ IsFiniteSet(batch.deleted)
  BY PathsAssumption, FS_Subset DEF Batches
<1>3. \A acc \in Accs : \A r \in batch.deleted : MutateRemove(acc, r) \in Accs
  BY <1>2, MutateRemoveIsAcc
<1>. HIDE DEF first
<1>4. AllDeleted(first, batch.deleted) \in Accs
  BY <1>1, <1>2, <1>3, DeletedFold
<1>. QED BY <1>4 DEF first

LEMMA WatcherBatchIsAcc ==
    ASSUME tree \in DaemonTrees, disk \in Disks,
           batch \in Batches, NEW order \in SetToSeqs(batch.added), NEW fails
    PROVE  AllAdded(AllDeleted([tree |-> tree, sent |-> Update({}, <<>>)], batch.deleted), order, fails) \in Accs
<1>. DEFINE start == AllDeleted([tree |-> tree, sent |-> Update({}, <<>>)], batch.deleted)
<1>1. start \in Accs
  BY StartIsAcc
<1>. HIDE DEF start
<1>2. order \in Seq(Paths)
  BY OrderIsSeq
<1>3. \A acc \in Accs : \A k \in 1 .. Len(order) : AddPath(acc, order[k], fails) \in Accs
  BY <1>2, AddPathIsAcc, ElementOfSeq
<1>4. AllAdded(start, order, fails) \in Accs
  BY <1>1, <1>2, <1>3, AddedFold
<1>. QED BY <1>4 DEF start

----------------------------------------------------------------------------
(* Types.  An indexed repository has its tree, which is what the handlers that  *)
(* send or change it take for granted.                                        *)
Types ==
    /\ disk \in Disks
    /\ batch \in Batches
    /\ git \in BOOLEAN
    /\ repo \in {"none", "pending", "indexed", "failed"}
    /\ repo = "indexed" => tree # NoTree
    /\ tree \in DaemonTrees \cup {NoTree}
    /\ copy \in ClientTrees \cup {NoTree}
    /\ link \in [Conns -> {"unused", "initializing", "connected", "lost"}]
    /\ sent \in [Conns -> BOOLEAN]
    /\ chan \in [Conns -> Seq(Messages)]
    /\ nav \in [Conns -> {"idle", "asked", "detected", "done"}]
    /\ want \in [Conns -> Paths \cup {NoPath}]
    /\ answers \subseteq [conn : Conns, update : Updates]
    /\ deaf \subseteq Conns /\ stale \in BOOLEAN
    /\ half \subseteq Paths

LEMMA TypesAreTypeOK == Types => TypeOK
BY DEF Types, TypeOK, DaemonTrees, ClientTrees, Disks, Batches

LEMMA NoTreeIsNone == NoTree \notin DaemonTrees /\ NoTree \notin ClientTrees
BY AbsentAssumption DEF DaemonTrees, ClientTrees

LEMMA HalfListedIsPaths ==
    ASSUME NEW t
    PROVE  LoadedIn(t) \subseteq Paths /\ HalfListed(t) \subseteq Paths
BY PathsAssumption DEF HalfListed, LoadedIn, Shown

LEMMA PushIsTyped ==
    ASSUME chan \in [Conns -> Seq(Messages)], NEW to, NEW kind \in {"snapshot", "update"}, NEW u \in Updates
    PROVE  Push(to, kind, u) \in [Conns -> Seq(Messages)]
<1>. DEFINE m == [kind |-> kind, update |-> u]
<1>1. m \in Messages
  BY DEF Messages
<1>2. \A c \in Conns : Append(chan[c], m) \in Seq(Messages)
  BY <1>1, AppendProperties
<1>. QED BY <1>2 DEF Push

LEMMA SnapshotToAllIsTyped ==
    ASSUME chan \in [Conns -> Seq(Messages)], sent \in [Conns -> BOOLEAN],
           NEW t \in DaemonTrees, SnapshotToAll(t)
    PROVE  chan' \in [Conns -> Seq(Messages)] /\ sent' \in [Conns -> BOOLEAN]
<1>1. SnapshotOf(t) \in Updates
  BY SnapshotIsUpdate DEF DaemonTrees
<1>2. chan' \in [Conns -> Seq(Messages)]
  BY <1>1, PushIsTyped DEF SnapshotToAll
<1>3. sent' \in [Conns -> BOOLEAN]
  <2>1. \A c \in Conns : (sent[c] \/ c \in Registered) \in BOOLEAN
    OBVIOUS
  <2>. QED BY <2>1 DEF SnapshotToAll
<1>. QED BY <1>2, <1>3

LEMMA InitTypes == Init => Types
<1>. SUFFICES ASSUME Init PROVE Types
  OBVIOUS
<1>1. <<>> \in Seq(Messages)
  BY EmptySeq
<1>. QED BY <1>1 DEF Init, Types, Disks, Batches, NoBatch

LEMMA ChangeTypes ==
    ASSUME Types, NEW d \in Disks, NEW b \in Batches, Change(d, b)
    PROVE  Types'
BY DEF Types, Change, daemonVars, clientVars

LEMMA DiskTypes ==
    ASSUME Types, NEW p \in Paths, RemoveFromDisk(p) \/ \E kind \in {"file", "dir"} : CreateOnDisk(p, kind)
    PROVE  Types'
<1>1. ASSUME NEW kind \in {"file", "dir"}, CreateOnDisk(p, kind) PROVE Types'
  <2>1. [disk EXCEPT ![p] = kind] \in Disks
    BY DEF Types, Disks
  <2>2. [batch EXCEPT !.added = @ \cup {p}] \in Batches
    BY <1>1 DEF Types, Batches, CreateOnDisk
  <2>. QED BY <1>1, <2>1, <2>2, ChangeTypes DEF CreateOnDisk
<1>2. ASSUME RemoveFromDisk(p) PROVE Types'
  <2>. DEFINE gone == {q \in Paths : Under(q, p) /\ disk[q] # "none"}
  <2>1. [q \in Paths |-> IF q \in gone THEN "none" ELSE disk[q]] \in Disks
    BY DEF Types, Disks
  <2>2. [added |-> batch.added \ gone, deleted |-> batch.deleted \cup (gone \ batch.added)]
           \in Batches
    <3>1. <<>> \notin gone
      BY <1>2, RootIsNotUnder DEF RemoveFromDisk
    <3>2. gone \subseteq Paths \ {<<>>}
      BY <3>1
    <3>. HIDE DEF gone
    <3>. QED BY <3>2 DEF Types, Batches
  <2>. QED BY <1>2, <2>1, <2>2, ChangeTypes DEF RemoveFromDisk
<1>. QED BY <1>1, <1>2

LEMMA IndexTypes ==
    ASSUME Types, IndexCompletes \/ IndexFails
    PROVE  Types'
<1>1. CASE IndexCompletes
  <2>1. tree' \in DaemonTrees
    BY <1>1, BuildTreeIsTree, PathsAssumption DEF IndexCompletes, Types
  <2>2. chan' \in [Conns -> Seq(Messages)] /\ sent' \in [Conns -> BOOLEAN]
    BY <1>1, <2>1, SnapshotToAllIsTyped DEF IndexCompletes, Types
  <2>. QED BY <1>1, <2>1, <2>2, NoTreeIsNone DEF IndexCompletes, Types, clientVars
<1>2. CASE IndexFails
  BY <1>2 DEF IndexFails, Types, clientVars
<1>. QED BY <1>1, <1>2

LEMMA WatcherTypes ==
    ASSUME Types, WatcherEvent
    PROVE  Types'
<1>1. tree \in DaemonTrees /\ repo = "indexed"
  BY DEF WatcherEvent, Types
<1>2. PICK order \in SetToSeqs(batch.added), fails \in BOOLEAN :
         LET start == AllDeleted([tree |-> tree, sent |-> Update({}, <<>>)], batch.deleted)
             end == AllAdded(start, order, fails)
         IN  /\ tree' = end.tree /\ chan' = Push(Registered, "update", end.sent)
             /\ half' = half \cup HalfListed(end.tree)
                             \cup ({Parent(p) : p \in FoundShut(start, order, fails) \ Named(end.sent)}
                                  \ CalledLoaded(end.sent))
  BY DEF WatcherEvent, AllDeleted
<1>. DEFINE start == AllDeleted([tree |-> tree, sent |-> Update({}, <<>>)], batch.deleted)
            end == AllAdded(start, order, fails)
<1>3. end \in Accs
  BY <1>1, WatcherBatchIsAcc DEF Types
<1>4. /\ tree' = end.tree /\ chan' = Push(Registered, "update", end.sent)
      /\ half' = half \cup HalfListed(end.tree)
                      \cup ({Parent(p) : p \in FoundShut(start, order, fails) \ Named(end.sent)} \ CalledLoaded(end.sent))
  BY <1>2
<1>. HIDE DEF start, end
<1>5. tree' \in DaemonTrees /\ end.sent \in Updates
  BY <1>3, <1>4 DEF Accs
<1>6. chan' \in [Conns -> Seq(Messages)]
  BY <1>4, <1>5, PushIsTyped DEF Types
<1>7. batch' \in Batches
  BY DEF WatcherEvent, NoBatch, Batches
<1>8. half' \subseteq Paths
  <2>1. \A p \in FoundShut(start, order, fails) : Parent(p) \in Paths
    <3>1. \A j \in DOMAIN order : order[j] \in batch.added
      BY OrderIsSeq DEF Types
    <3>. QED BY <3>1, ParentPath DEF FoundShut, Types, Batches
  <2>. QED BY <1>4, <2>1, HalfListedIsPaths DEF Types
<1>. QED BY <1>1, <1>5, <1>6, <1>7, <1>8, NoTreeIsNone DEF WatcherEvent, Types, clientVars

LEMMA ConnectionTypes ==
    ASSUME Types, NEW c \in Conns, Register(c) \/ MarkConnected(c) \/ Lose(c)
    PROVE  Types'
<1>1. CASE Register(c)
  BY <1>1 DEF Register, Types, clientVars
<1>2. CASE MarkConnected(c)
  BY <1>2 DEF MarkConnected, Types, daemonVars, clientVars
<1>3. CASE Lose(c)
  <2>1. /\ link' \in [Conns -> {"unused", "initializing", "connected", "lost"}]
        /\ sent' \in [Conns -> BOOLEAN]
    BY <1>3 DEF Lose, Types
  <2>2. chan' \in [Conns -> Seq(Messages)]
    BY <1>3, EmptySeq DEF Lose, Types
  <2>3. nav' \in [Conns -> {"idle", "asked", "detected", "done"}]
    BY <1>3 DEF Lose, Types
  <2>4. want' \in [Conns -> Paths \cup {NoPath}]
    BY <1>3 DEF Lose, Types
  <2>5. answers' \subseteq [conn : Conns, update : Updates]
    BY <1>3 DEF Lose, Types
  <2>6. copy' \in ClientTrees \cup {NoTree} /\ stale' \in BOOLEAN
    BY <1>3 DEF Lose, Types, CopyAfterLoss
  <2>. QED BY <1>3, <2>1, <2>2, <2>3, <2>4, <2>5, <2>6 DEF Lose, Types
<1>. QED BY <1>1, <1>2, <1>3

LEMMA ResolveTypes ==
    ASSUME Types, NEW c \in Conns, Resolve(c)
    PROVE  Types'
<1>1. nav' \in [Conns -> {"idle", "asked", "detected", "done"}]
  BY DEF Resolve, Types
<1>2. ASSUME repo = "indexed" PROVE \A to : Push(to, "snapshot", SnapshotOf(tree)) \in [Conns -> Seq(Messages)]
  <2>1. SnapshotOf(tree) \in Updates
    BY <1>2, SnapshotIsUpdate DEF Types, DaemonTrees
  <2>. QED BY <2>1, PushIsTyped DEF Types
<1>3. CASE ResolveGit(c)
  <2>1. chan' \in [Conns -> Seq(Messages)] /\ sent' \in [Conns -> BOOLEAN]
    <3>1. CASE ~ AlreadySent(c) /\ repo = "indexed"
      <4>1. [sent EXCEPT ![c] = c \in Registered] \in [Conns -> BOOLEAN]
        BY DEF Types
      <4>. QED BY <1>2, <1>3, <3>1, <4>1 DEF ResolveGit
    <3>2. CASE ~ (~ AlreadySent(c) /\ repo = "indexed")
      BY <1>3, <3>2 DEF ResolveGit, Types
    <3>. QED BY <3>1, <3>2
  <2>. QED BY <1>1, <1>3, <2>1 DEF Resolve, ResolveGit, Types, clientVars
<1>4. CASE ResolveLazily(c)
  <2>1. CASE /\ repo = "indexed"
             /\ chan' = Push(Registered, "snapshot", SnapshotOf(tree))
             /\ half' = IF answers = {} THEN half \cap HalfListed(tree) ELSE half
             /\ UNCHANGED <<repo, tree, sent>>
    BY <1>1, <1>2, <2>1 DEF Resolve, Types, clientVars
  <2>2. CASE /\ repo' = "indexed"
             /\ tree' = BuildTree(disk, <<>>, 1, FALSE)
             /\ SnapshotToAll(tree')
             /\ UNCHANGED half
    <3>1. tree' \in DaemonTrees
      BY <2>2, BuildTreeIsTree, PathsAssumption DEF Types
    <3>2. chan' \in [Conns -> Seq(Messages)] /\ sent' \in [Conns -> BOOLEAN]
      BY <2>2, <3>1, SnapshotToAllIsTyped DEF Types
    <3>. QED BY <1>1, <2>2, <3>1, <3>2, NoTreeIsNone DEF Resolve, Types, clientVars
  <2>3. CASE repo' = "failed" /\ UNCHANGED <<tree, sent, chan, half>>
    BY <1>1, <2>3 DEF Resolve, Types, clientVars
  <2>. QED BY <1>4, <2>1, <2>2, <2>3 DEF ResolveLazily
<1>. QED BY <1>3, <1>4 DEF Resolve

LEMMA NodesArePaths ==
    ASSUME NEW u \in Updates
    PROVE  Named(u) \subseteq Paths /\ CalledLoaded(u) \subseteq Paths
<1>1. \A k \in DOMAIN u.patches : u.patches[k].nodes \subseteq Paths \X {"file", "loaded", "unloaded"}
  <2>1. \A k \in DOMAIN u.patches : u.patches[k] \in Patches
    BY ElementOfSeq DEF Updates
  <2>. QED BY <2>1 DEF Patches
<1>2. \A n \in NodesIn(u) : n[1] \in Paths
  BY <1>1 DEF NodesIn
<1>. QED BY <1>2 DEF Named, CalledLoaded

LEMMA RequestTypes ==
    ASSUME Types, NEW c \in Conns,
           Navigate(c) \/ Detect(c) \/ (\E p \in Paths : AskToLoad(c, p)) \/ LoadDirectory(c)
    PROVE  Types'
<1>1. CASE Navigate(c)
  BY <1>1 DEF Navigate, Types, daemonVars, clientVars
<1>2. CASE Detect(c)
  BY <1>2 DEF Detect, Types, clientVars
<1>3. ASSUME NEW p \in Paths, AskToLoad(c, p) PROVE Types'
  BY <1>3 DEF AskToLoad, Types, daemonVars, clientVars
<1>4. CASE LoadDirectory(c)
  <2>1. want' \in [Conns -> Paths \cup {NoPath}] /\ want[c] \in Paths
    BY <1>4 DEF LoadDirectory, Types
  <2>2. CASE repo = "indexed" /\ disk[want[c]] # "none"
    <3>1. tree' \in DaemonTrees
      BY <1>4, <2>1, <2>2, LoadAtPathIsTree DEF LoadDirectory, Types
    <3>2. ListDirectory(tree', want[c]) \in Updates
      BY <2>1, <3>1, ListIsUpdate DEF DaemonTrees
    <3>3. answers' \subseteq [conn : Conns, update : Updates]
      BY <1>4, <2>2, <3>2 DEF LoadDirectory, Types
    <3>4. CalledLoaded(ListDirectory(tree', want[c])) \subseteq Paths
      BY <3>2, NodesArePaths
    <3>5. half' \subseteq Paths
      <4>1. HalfListed(tree') \subseteq Paths
        BY HalfListedIsPaths
      <4>. QED BY <1>4, <2>2, <3>4, <4>1 DEF LoadDirectory, Types
    <3>. QED BY <1>4, <2>1, <2>2, <3>1, <3>3, <3>5, NoTreeIsNone DEF LoadDirectory, Types, clientVars
  <2>3. CASE ~ (repo = "indexed" /\ disk[want[c]] # "none")
    BY <1>4, <2>1, <2>3 DEF LoadDirectory, Types, clientVars
  <2>. QED BY <2>2, <2>3
<1>. QED BY <1>1, <1>2, <1>3, <1>4

LEMMA IncrementalIsTree ==
    ASSUME copy \in ClientTrees \cup {NoTree}, NEW u \in Updates
    PROVE  /\ ApplyIncremental(u) \in ClientTrees \cup {NoTree}
           /\ copy # NoTree => ApplyIncremental(u) # NoTree
BY ApplyUpdateKeeps, NoTreeIsNone DEF ApplyIncremental

LEMMA DeliverTypes ==
    ASSUME Types, NEW c \in Conns, Deliver(c)
    PROVE  Types'
<1>. DEFINE m == Head(chan[c])
<1>1. chan[c] \in Seq(Messages) /\ chan[c] # <<>>
  BY DEF Deliver, Types
<1>2. m \in Messages /\ Tail(chan[c]) \in Seq(Messages)
  BY <1>1, HeadTailProperties
<1>3. chan' \in [Conns -> Seq(Messages)]
  BY <1>2 DEF Deliver, Types
<1>. HIDE DEF m
<1>4. m.update \in Updates
  BY <1>2 DEF Messages
<1>5. copy' \in ClientTrees \cup {NoTree} /\ stale' \in BOOLEAN /\ deaf' \subseteq Conns
  BY <1>4, IncrementalIsTree, FromSnapshotIsTree DEF Deliver, Types, m
<1>. QED BY <1>3, <1>5 DEF Deliver, Types, daemonVars

LEMMA DeliverAnswerTypes ==
    ASSUME Types, NEW a \in answers, DeliverAnswer(a)
    PROVE  Types'
<1>1. a.update \in Updates
  BY DEF Types
<1>2. copy' \in ClientTrees \cup {NoTree}
  BY <1>1, IncrementalIsTree DEF DeliverAnswer, Types
<1>. QED BY <1>2 DEF DeliverAnswer, Types, daemonVars

LEMMA NextTypes == Types /\ [Next]_vars => Types'
<1>. SUFFICES ASSUME Types, [Next]_vars PROVE Types'
  OBVIOUS
<1>1. CASE UNCHANGED vars
  BY <1>1 DEF vars, Types, daemonVars, clientVars
<1>2. CASE Next
  BY <1>2, DiskTypes, IndexTypes, WatcherTypes, ConnectionTypes, ResolveTypes, RequestTypes, DeliverTypes,
     DeliverAnswerTypes DEF Next
<1>. QED BY <1>1, <1>2

LEMMA TypesHold == Spec => []Types
BY InitTypes, NextTypes, PTL DEF Spec

(* Every tree of the daemon links from a path only to what is right below it,     *)
(* and the client's copy, which all updates of all connections and all late        *)
(* answers are applied to, never has a link that leads to nothing or starts at a   *)
(* file (TypeOK).                                                             *)
THEOREM RemoteTreesCorrect == Spec => []TypeOK
BY TypesHold, TypesAreTypeOK, PTL

----------------------------------------------------------------------------
(* The daemon's mark.  A connection that is still initializing can only have it   *)
(* with the snapshot before it; as soon as the connection is established, either    *)
(* that is still so or there is a copy.                                        *)
Served(c) == SnapshotComing(c) \/ (link[c] = "connected" /\ copy # NoTree)
MarksRight == \A c \in Registered \ deaf : sent[c] => Served(c)

LEMMA MarksAreServed == MarksRight => MarkedIsServed
BY DEF MarksRight, MarkedIsServed, Served, Connected, Registered

LEMMA PushKeepsComing ==
    ASSUME chan \in [Conns -> Seq(Messages)], NEW to, NEW kind, NEW u, chan' = Push(to, kind, u), NEW c \in Conns
    PROVE  /\ SnapshotComing(c) => SnapshotComing(c)'
           /\ c \in to /\ kind = "snapshot" => SnapshotComing(c)'
<1>. DEFINE m == [kind |-> kind, update |-> u]
            q == Append(chan[c], m)
<1>1. chan'[c] = IF c \in to THEN q ELSE chan[c]
  BY DEF Push
<1>2. chan[c] \in Seq(Messages) /\ Len(chan[c]) \in Nat
  BY LenProperties
<1>3. /\ DOMAIN chan[c] = 1 .. Len(chan[c])
      /\ DOMAIN q = 1 .. Len(chan[c]) + 1
      /\ \A k \in DOMAIN chan[c] : q[k] = chan[c][k]
      /\ q[Len(chan[c]) + 1] = m
  BY <1>2
<1>. HIDE DEF q
<1>4. SnapshotComing(c) => SnapshotComing(c)'
  BY <1>1, <1>2, <1>3 DEF SnapshotComing
<1>5. ASSUME c \in to, kind = "snapshot" PROVE SnapshotComing(c)'
  <2>1. Len(chan[c]) + 1 \in DOMAIN q /\ q[Len(chan[c]) + 1].kind = "snapshot"
    BY <1>2, <1>3, <1>5
  <2>. QED BY <1>1, <1>5, <2>1 DEF SnapshotComing
<1>. QED BY <1>4, <1>5

LEMMA TailKeepsComing ==
    ASSUME chan \in [Conns -> Seq(Messages)], NEW c \in Conns, chan[c] # <<>>,
           chan'[c] = Tail(chan[c]), SnapshotComing(c)
    PROVE  Head(chan[c]).kind = "snapshot" \/ SnapshotComing(c)'
<1>. DEFINE q == chan[c]
<1>1. q \in Seq(Messages) /\ Len(q) \in Nat /\ q # <<>> /\ DOMAIN q = 1 .. Len(q)
  BY LenProperties
<1>2. PICK k \in DOMAIN q : q[k].kind = "snapshot"
  BY DEF SnapshotComing
<1>. HIDE DEF q
<1>3. Head(q) = q[1]
  BY <1>1
<1>4. CASE k = 1
  BY <1>2, <1>3, <1>4 DEF q
<1>5. CASE k # 1
  <2>1. k - 1 \in DOMAIN Tail(q) /\ Tail(q)[k - 1] = q[k]
    BY <1>1, <1>2, <1>5
  <2>. QED BY <1>2, <2>1 DEF SnapshotComing, q
<1>. QED BY <1>4, <1>5

(* What leaves marks, connections and the copy alone and only adds to the channels. *)
LEMMA MarksStay ==
    ASSUME MarksRight, UNCHANGED <<sent, link, deaf>>, copy # NoTree => copy' # NoTree,
           \A c \in Conns : SnapshotComing(c) => SnapshotComing(c)'
    PROVE  MarksRight'
BY DEF MarksRight, Served, Registered

LEMMA UnchangedComing ==
    ASSUME UNCHANGED chan
    PROVE  \A c \in Conns : SnapshotComing(c) => SnapshotComing(c)'
BY DEF SnapshotComing

LEMMA SnapshotToAllMarks ==
    ASSUME Types, NEW t, SnapshotToAll(t), UNCHANGED <<link, deaf>>
    PROVE  MarksRight'
<1>1. \A c \in Registered : SnapshotComing(c)'
  BY PushKeepsComing DEF SnapshotToAll, Types, Registered
<1>. QED BY <1>1 DEF MarksRight, Served, Registered

LEMMA LoseMarks ==
    ASSUME Types, MarksRight, NEW d \in Conns, Lose(d)
    PROVE  MarksRight'
<1>. SUFFICES ASSUME NEW c \in Registered' \ deaf', sent'[c] PROVE Served(c)'
  BY DEF MarksRight
<1>1. c \in Conns /\ c # d /\ c \in Registered \ deaf /\ link'[c] = link[c] /\ sent[c] /\ chan'[c] = chan[c]
  BY DEF Lose, Types, Registered
<1>2. CASE SnapshotComing(c)
  BY <1>1, <1>2 DEF Served, SnapshotComing
<1>3. CASE link[c] = "connected" /\ copy # NoTree
  <2>1. ~ (Connected \subseteq {d})
    BY <1>1, <1>3 DEF Connected
  <2>2. copy' = copy
    BY <2>1 DEF Lose, CopyAfterLoss
  <2>. QED BY <1>1, <1>3, <2>2 DEF Served
<1>. QED BY <1>1, <1>2, <1>3 DEF MarksRight, Served

LEMMA DeliverMarks ==
    ASSUME Types, MarksRight, NEW d \in Conns, Deliver(d)
    PROVE  MarksRight'
<1>. SUFFICES ASSUME NEW c \in Registered' \ deaf', sent'[c] PROVE Served(c)'
  BY DEF MarksRight
<1>. DEFINE m == Head(chan[d])
<1>1. /\ c \in Conns /\ c \in Registered /\ sent[c] /\ link' = link
      /\ chan[d] \in Seq(Messages) /\ chan[d] # <<>> /\ chan'[d] = Tail(chan[d])
      /\ c # d => chan'[c] = chan[c]
  BY DEF Deliver, Types, Registered, daemonVars
<1>2. m.update \in Updates
  <2>1. m \in Messages
    BY <1>1, HeadTailProperties
  <2>. QED BY <2>1 DEF Messages
<1>3. \/ /\ link[d] = "connected"
         /\ copy' = IF m.kind = "snapshot" THEN FromSnapshot(m.update) ELSE ApplyIncremental(m.update)
         /\ deaf' = deaf
      \/ /\ link[d] # "connected"
         /\ deaf' = IF m.kind = "snapshot" THEN deaf \cup {d} ELSE deaf
         /\ copy' = copy
  BY DEF Deliver
<1>. HIDE DEF m
<1>4. copy # NoTree => copy' # NoTree
  BY <1>2, <1>3, IncrementalIsTree, FromSnapshotIsTree, NoTreeIsNone DEF Types
<1>5. c \notin deaf
  BY <1>3
<1>6. CASE link[c] = "connected" /\ copy # NoTree
  BY <1>1, <1>4, <1>6 DEF Served
<1>7. CASE SnapshotComing(c) /\ c # d
  BY <1>1, <1>7 DEF Served, SnapshotComing
<1>8. CASE SnapshotComing(c) /\ c = d
  <2>1. m.kind = "snapshot" \/ SnapshotComing(c)'
    BY <1>1, <1>8, TailKeepsComing DEF Types, m
  <2>2. m.kind = "snapshot" => link[c] = "connected" /\ copy' # NoTree
    BY <1>2, <1>3, <1>8, FromSnapshotIsTree, NoTreeIsNone
  <2>. QED BY <1>1, <2>1, <2>2 DEF Served
<1>. QED BY <1>1, <1>5, <1>6, <1>7, <1>8 DEF MarksRight, Served

LEMMA ResolveMarks ==
    ASSUME Types, MarksRight, NEW c \in Conns, Resolve(c)
    PROVE  MarksRight'
<1>1. UNCHANGED <<link, deaf, copy>>
  BY DEF Resolve, clientVars
<1>2. CASE UNCHANGED <<chan, sent>>
  BY <1>1, <1>2, MarksStay, UnchangedComing
<1>3. CASE /\ chan' = Push({c} \cap Registered, "snapshot", SnapshotOf(tree))
           /\ sent' = [sent EXCEPT ![c] = c \in Registered]
  <2>. DEFINE to == {c} \cap Registered
  <2>1. \A d \in Conns : /\ SnapshotComing(d) => SnapshotComing(d)'
                         /\ d \in to => SnapshotComing(d)'
    <3>1. chan \in [Conns -> Seq(Messages)] /\ chan' = Push(to, "snapshot", SnapshotOf(tree))
      BY <1>3 DEF Types
    <3>. HIDE DEF to
    <3>. QED BY <3>1, PushKeepsComing
  <2>2. \A d \in Conns : d # c => sent'[d] = sent[d]
    BY <1>3 DEF Types
  <2>. QED BY <1>1, <2>1, <2>2 DEF MarksRight, Served, Registered
<1>4. CASE chan' = Push(Registered, "snapshot", SnapshotOf(tree)) /\ UNCHANGED sent
  <2>1. \A d \in Conns : SnapshotComing(d) => SnapshotComing(d)'
    BY <1>4, PushKeepsComing DEF Types
  <2>. QED BY <1>1, <1>4, <2>1, MarksStay
<1>5. CASE SnapshotToAll(tree')
  BY <1>1, <1>5, SnapshotToAllMarks
<1>. QED BY <1>2, <1>3, <1>4, <1>5 DEF Resolve, ResolveGit, ResolveLazily

LEMMA NextMarks == Types /\ MarksRight /\ [Next]_vars => MarksRight'
<1>. SUFFICES ASSUME Types, MarksRight, [Next]_vars PROVE MarksRight'
  OBVIOUS
<1>1. CASE UNCHANGED vars
  BY <1>1, MarksStay, UnchangedComing DEF vars, daemonVars, clientVars
<1>2. ASSUME NEW p \in Paths, RemoveFromDisk(p) \/ \E kind \in {"file", "dir"} : CreateOnDisk(p, kind) PROVE MarksRight'
  BY <1>2, MarksStay, UnchangedComing DEF RemoveFromDisk, CreateOnDisk, Change, daemonVars, clientVars
<1>3. CASE IndexCompletes
  BY <1>3, SnapshotToAllMarks DEF IndexCompletes, clientVars
<1>4. CASE IndexFails
  BY <1>4, MarksStay, UnchangedComing DEF IndexFails, clientVars
<1>5. CASE WatcherEvent
  <2>1. \E u : chan' = Push(Registered, "update", u)
    BY <1>5 DEF WatcherEvent
  <2>2. \A c \in Conns : SnapshotComing(c) => SnapshotComing(c)'
    BY <2>1, PushKeepsComing DEF Types
  <2>. QED BY <1>5, <2>2, MarksStay DEF WatcherEvent, clientVars
<1>6. ASSUME NEW c \in Conns, Register(c) PROVE MarksRight'
  BY <1>6 DEF Register, MarksRight, Served, Registered, SnapshotComing, Types, clientVars
<1>7. ASSUME NEW c \in Conns, MarkConnected(c) PROVE MarksRight'
  BY <1>7 DEF MarkConnected, MarksRight, Served, Registered, SnapshotComing, Types, daemonVars, clientVars
<1>8. ASSUME NEW c \in Conns, Navigate(c) \/ Detect(c) \/ (\E p \in Paths : AskToLoad(c, p)) \/ LoadDirectory(c)
      PROVE  MarksRight'
  BY <1>8, MarksStay, UnchangedComing DEF Navigate, Detect, AskToLoad, LoadDirectory, daemonVars, clientVars
<1>9. ASSUME NEW a \in answers, DeliverAnswer(a) PROVE MarksRight'
  <2>1. a.update \in Updates
    BY DEF Types
  <2>2. copy # NoTree => copy' # NoTree
    BY <1>9, <2>1, IncrementalIsTree DEF DeliverAnswer, Types
  <2>. QED BY <1>9, <2>2, MarksStay, UnchangedComing DEF DeliverAnswer, daemonVars
<1>. QED BY <1>1, <1>2, <1>3, <1>4, <1>5, <1>6, <1>7, <1>8, <1>9, LoseMarks, DeliverMarks, ResolveMarks DEF Next

(* Once the daemon has marked a connection it never sends it the tree of its own     *)
(* accord again, so the mark must be right: the connection has the snapshot before   *)
(* it or its client has a copy, unless the snapshot came while the client was still   *)
(* initializing (CopyKeepsUp's second part).                                       *)
THEOREM MarksAreRight == Spec => []MarkedIsServed
<1>1. Init => MarksRight
  BY DEF Init, MarksRight, Registered
<1>2. Types /\ MarksRight /\ [Next]_vars => MarksRight'
  BY NextMarks
<1>3. Spec => []MarksRight
  BY <1>1, <1>2, TypesHold, PTL DEF Spec
<1>. QED BY <1>3, MarksAreServed, PTL

----------------------------------------------------------------------------
(* The snapshot.  A client that starts from it has what a walk through the      *)
(* daemon's tree comes across.  Copied(t, D) is what it has of t when it has     *)
(* got to the entries D.                                                      *)
Listed(t) == Shown(t) \ {<<>>}
UpTo(t, k) == {p \in Listed(t) : Len(p) <= k}
Copied(t, D) ==
    [state |-> [p \in Paths |-> IF p = <<>> THEN "loaded" ELSE IF p \in D THEN t.state[p] ELSE "none"],
     kids |-> [p \in Paths |-> {q \in D : Parent(q) = p}]]

LEMMA ListedIsLinked ==
    ASSUME NEW t \in DaemonTrees, NEW p \in Listed(t)
    PROVE  /\ p \in Paths /\ p # <<>> /\ t.state[p] \in EntryStates
           /\ Parent(p) \in Shown(t) /\ IsDir(t, Parent(p))
<1>1. /\ p \in Paths /\ p # <<>> /\ t.state[p] \in EntryStates
      /\ \A q \in Above(p) : SubSeq(p, 1, Len(q) + 1) \in Children(t, q)
  BY DEF Listed, Shown, DaemonTrees, Trees, EntryStates
<1>2. Above(p) = Above(Parent(p)) \cup {Parent(p)} /\ Parent(p) \in Paths
  BY <1>1, AboveParent, ParentPath
<1>3. IsDir(t, Parent(p))
  BY <1>1, <1>2 DEF Children
<1>4. ASSUME NEW q \in Above(Parent(p)) PROVE SubSeq(Parent(p), 1, Len(q) + 1) \in Children(t, q)
  <2>1. q # Parent(p)
    BY <1>2, <1>4, AbovePaths, PathLength
  <2>. QED BY <1>1, <1>2, <2>1, StepDown
<1>5. Parent(p) \in Shown(t)
  BY <1>2, <1>3, <1>4 DEF Shown, IsDir
<1>. QED BY <1>1, <1>3, <1>5

LEMMA CopyNode ==
    ASSUME NEW t \in DaemonTrees, NEW D \in SUBSET Listed(t),
           NEW p \in Listed(t), p \notin D, Parent(p) \in D \cup {<<>>}
    PROVE  ApplyNode(Copied(t, D), <<p, t.state[p]>>) = Copied(t, D \cup {p})
<1>. DEFINE c == Copied(t, D)
            e == Copied(t, D \cup {p})
            u == [c EXCEPT !.state[p] = t.state[p], !.kids[Parent(p)] = @ \cup {p}]
<1>1. /\ p \in Paths /\ p # <<>> /\ t.state[p] \in EntryStates
      /\ IsDir(t, Parent(p)) /\ Parent(p) \in Paths
  BY ListedIsLinked, ParentPath
<1>2. c.state[p] = "none"
  BY <1>1 DEF Copied
<1>3. HasParentDir(c, p)
  BY <1>1 DEF Copied, HasParentDir, IsDir
<1>4. ApplyNode(c, <<p, t.state[p]>>) = u
  BY <1>2, <1>3 DEF ApplyNode, InsertChild
<1>5. c \in Trees /\ e \in Trees
  <2>1. D \cup {p} \in SUBSET Paths /\ t \in Trees
    BY <1>1, ListedIsLinked DEF DaemonTrees
  <2>. QED BY <2>1 DEF Copied, Trees
<1>6. e.state = [c.state EXCEPT ![p] = t.state[p]]
  BY <1>1 DEF Copied
<1>7. e.kids = [c.kids EXCEPT ![Parent(p)] = @ \cup {p}]
  BY <1>1 DEF Copied
<1>. HIDE DEF c, e
<1>8. u \in Trees
  BY <1>1, <1>5 DEF Trees, EntryStates
<1>9. u.state = e.state /\ u.kids = e.kids
  BY <1>5, <1>6, <1>7 DEF Trees
<1>. HIDE DEF u
<1>10. u = e
  BY <1>5, <1>8, <1>9 DEF Trees
<1>. QED BY <1>4, <1>10 DEF c, e

LEMMA CopyLevel ==
    ASSUME NEW t \in DaemonTrees, NEW k \in 1 .. MaxDepth, Copied(t, UpTo(t, k - 1)) \in ClientTrees
    PROVE  LevelStep(Patch(<<>>, NodesOf(t, Listed(t))), Copied(t, UpTo(t, k - 1)), k) = Copied(t, UpTo(t, k))
<1>. DEFINE S == {n \in NodesOf(t, Listed(t)) : Len(n[1]) = k}
            D == UpTo(t, k - 1)
            Got(s) == Copied(t, D \cup {n[1] : n \in s})
<1>1. \A p \in Listed(t) : p \in Paths /\ p # <<>> /\ Len(p) \in Nat /\ t.state[p] \in EntryStates
  BY ListedIsLinked, PathLength
<1>2. k \in Nat /\ k - 1 \in Nat
  BY LongestPath
<1>3. \A n \in S : /\ n[1] \in Listed(t) /\ Len(n[1]) = k
                   /\ n = <<n[1], t.state[n[1]]>>
                   /\ n \in Nodes
  BY <1>1 DEF NodesOf, Nodes
<1>4. \A p \in Listed(t) : Len(p) = k => <<p, t.state[p]>> \in S
  BY <1>1 DEF NodesOf, EntryStates
<1>5. IsFiniteSet(S)
  BY <1>3, NodesAreFinite
<1>6. LevelStep(Patch(<<>>, NodesOf(t, Listed(t))), Copied(t, D), k) = NodesApplied(Copied(t, D), S)
  BY DEF LevelStep, Patch
<1>. HIDE DEF S
<1>7. PICK f : /\ NodesApplied(Copied(t, D), S) = f[S]
               /\ f[{}] = Copied(t, D)
               /\ \A s \in SUBSET S : s # {} => \E x \in s : f[s] = ApplyNode(f[s \ {x}], x)
  <2>1. \A v \in ClientTrees : \A x \in S : ApplyNode(v, x) \in ClientTrees
    BY <1>3, ApplyNodeKeeps
  <2>. DEFINE b == Copied(t, D)
  <2>2. b \in ClientTrees
    OBVIOUS
  <2>. HIDE DEF b
  <2>3. IsNodesApplied(NodesApplied(b, S), b, S)
    BY <1>5, <2>1, <2>2, NodesFold
  <2>. QED BY <2>3 DEF b, IsNodesApplied
<1>. DEFINE U == {s \in SUBSET S : f[s] = Got(s)}
<1>8. {} \in U
  <2>1. D \cup {n[1] : n \in {}} = D
    OBVIOUS
  <2>. QED BY <1>7, <2>1
<1>9. ASSUME NEW s \in SUBSET S, s # {} PROVE \E x \in s : s \ {x} \in U => s \in U
  <2>1. PICK x \in s : f[s] = ApplyNode(f[s \ {x}], x)
    BY <1>7, <1>9
  <2>. DEFINE E == D \cup {n[1] : n \in s \ {x}}
              p == x[1]
  <2>2. p \in Listed(t) /\ Len(p) = k /\ x = <<p, t.state[p]>>
    BY <1>3, <2>1
  <2>3. E \in SUBSET Listed(t)
    BY <1>3 DEF UpTo
  <2>4. p \notin E
    <3>1. p \notin D
      BY <1>2, <2>2 DEF UpTo
    <3>2. \A n \in s \ {x} : n[1] # p
      BY <1>3, <2>2
    <3>. QED BY <3>1, <3>2
  <2>5. Parent(p) \in E \cup {<<>>}
    <3>1. Parent(p) \in Shown(t) /\ Len(Parent(p)) = k - 1
      BY <1>1, <2>2, ListedIsLinked, ParentPath
    <3>. QED BY <1>2, <3>1 DEF UpTo, Listed
  <2>6. E \cup {p} = D \cup {n[1] : n \in s}
    BY <2>1
  <2>7. ASSUME s \ {x} \in U PROVE s \in U
    <3>1. f[s \ {x}] = Copied(t, E)
      BY <2>7
    <3>. HIDE DEF E, p
    <3>2. f[s] = Copied(t, E \cup {p})
      BY <2>1, <2>2, <2>3, <2>4, <2>5, <3>1, CopyNode
    <3>. QED BY <2>6, <3>2
  <2>. QED BY <2>7
<1>10. S \in U
  <2>. HIDE DEF U
  <2>. QED BY <1>5, <1>8, <1>9, SubsetInduct
<1>11. D \cup {n[1] : n \in S} = UpTo(t, k)
  <2>1. \A p \in Listed(t) : Len(p) <= k <=> Len(p) <= k - 1 \/ Len(p) = k
    BY <1>1, <1>2
  <2>. QED BY <1>3, <1>4, <2>1 DEF UpTo
<1>. QED BY <1>6, <1>7, <1>10, <1>11

LEMMA NoParentsNeeded ==
    ASSUME NEW t
    PROVE  EnsureParents(t, <<>>) = t
<1>. DEFINE seq == [k \in 1 .. Len(<<>>) |-> k]
<1>1. Len(<<>>) = 0 /\ seq \in Seq(Nat) /\ Len(seq) = 0
  OBVIOUS
<1>2. EnsureParents(t, <<>>) = Parents(<<>>, t, seq)
  BY DEF EnsureParents, ParentStep, Parents
<1>. HIDE DEF seq
<1>3. \A v \in {t} : \A k \in 1 .. Len(seq) : ParentStep(<<>>, v, seq[k]) \in {t}
  BY <1>1
<1>4. t \in {t}
  OBVIOUS
<1>5. Parents(<<>>, t, seq) \in {t}
  BY <1>1, <1>3, <1>4, ParentsFold
<1>. QED BY <1>2, <1>5

LEMMA NothingRemoved ==
    ASSUME NEW t
    PROVE  AllRemoved(t, {}) = t
<1>1. t \in {t} /\ IsFiniteSet({}) /\ \A v \in {t} : \A x \in {} : RemovePath(v, x) \in {t}
  BY FS_EmptySet
<1>2. AllRemoved(t, {}) \in {t}
  BY <1>1, RemovedFold
<1>. QED BY <1>2

LEMMA OnePatch ==
    ASSUME NEW t \in ClientTrees, NEW patch \in Patches
    PROVE  ApplyUpdate(t, Update({}, <<patch>>)) = ApplyPatch(t, patch)
<1>. DEFINE seq == <<patch>>
<1>1. seq \in Seq(Patches) /\ Len(seq) = 1 /\ seq[1] = patch
  OBVIOUS
<1>2. ApplyUpdate(t, Update({}, seq)) = PatchesApplied(AllRemoved(t, {}), seq)
  BY DEF ApplyUpdate, Update, AllRemoved, PatchesApplied
<1>. HIDE DEF seq
<1>3. \A v \in ClientTrees : \A k \in 1 .. Len(seq) : ApplyPatch(v, seq[k]) \in ClientTrees
  BY <1>1, ApplyPatchKeeps
<1>4. IsLastOfSteps(PatchesApplied(t, seq), Len(seq), ClientTrees, t, PatchSteps(seq, ClientTrees))
  BY <1>1, <1>3, PatchesFold
<1>5. PICK f : PatchesApplied(t, seq) = f[1] /\ f[0] = t /\ f[1] = PatchSteps(seq, ClientTrees)[1][f[1 - 1]]
  BY <1>1, <1>4 DEF IsLastOfSteps, AreSteps
<1>6. f[1] = ApplyPatch(t, patch)
  BY <1>1, <1>5 DEF PatchSteps
<1>. QED BY <1>2, <1>5, <1>6, NothingRemoved DEF seq

LEMMA SnapshotIsCopied ==
    ASSUME NEW t \in DaemonTrees
    PROVE  FromSnapshot(SnapshotOf(t)) = Copied(t, Listed(t))
<1>. DEFINE patch == Patch(<<>>, NodesOf(t, Listed(t)))
<1>1. patch \in Patches /\ patch.parent = <<>>
  BY NodesOfAreNodes, PatchIsPatch, PathsAssumption DEF Listed, Shown, DaemonTrees, Patch
<1>2. FromSnapshot(SnapshotOf(t)) = ApplyPatch(NewForDirectory, patch)
  BY <1>1, OnePatch, NewForDirectoryIsTree DEF FromSnapshot, SnapshotOf, Listed
<1>3. PICK f : /\ ApplyPatch(NewForDirectory, patch) = f[MaxDepth]
               /\ f[0] = NewForDirectory
               /\ \A k \in 0 .. MaxDepth : f[k] \in ClientTrees
               /\ \A k \in 1 .. MaxDepth : f[k] = LevelStep(patch, f[k - 1], k)
  BY <1>1, ApplyPatchSteps, NewForDirectoryIsTree, NoParentsNeeded
<1>4. \A p \in Listed(t) : p \in Paths /\ Len(p) \in 0 .. MaxDepth /\ Len(p) > 0
  BY ListedIsLinked, PathLength, LongestPath
<1>. DEFINE N == {n \in Nat : n \in 0 .. MaxDepth => f[n] = Copied(t, UpTo(t, n))}
<1>5. 0 \in N
  <2>1. UpTo(t, 0) = {}
    BY <1>4 DEF UpTo
  <2>2. Copied(t, {}) = NewForDirectory
    <3>1. Copied(t, {}).state = NewForDirectory.state
      BY PathsAssumption DEF Copied, NewForDirectory, EmptyTree
    <3>2. Copied(t, {}).kids = NewForDirectory.kids
      BY DEF Copied, NewForDirectory, EmptyTree
    <3>3. NewForDirectory = [state |-> NewForDirectory.state, kids |-> NewForDirectory.kids]
      BY NewForDirectoryIsTree DEF ClientTrees, DaemonTrees, Trees
    <3>4. Copied(t, {}) = [state |-> Copied(t, {}).state, kids |-> Copied(t, {}).kids]
      BY DEF Copied
    <3>. QED BY <3>1, <3>2, <3>3, <3>4
  <2>. QED BY <1>3, <2>1, <2>2
<1>6. ASSUME NEW n \in Nat, n \in N PROVE n + 1 \in N
  <2>. SUFFICES ASSUME n + 1 \in 0 .. MaxDepth PROVE f[n + 1] = Copied(t, UpTo(t, n + 1))
    OBVIOUS
  <2>1. n \in 0 .. MaxDepth /\ n + 1 \in 1 .. MaxDepth /\ (n + 1) - 1 = n
    BY LongestPath
  <2>2. f[n] = Copied(t, UpTo(t, n)) /\ f[n] \in ClientTrees
    BY <1>3, <1>6, <2>1
  <2>. HIDE DEF patch
  <2>3. f[n + 1] = LevelStep(patch, f[n], n + 1)
    BY <1>3, <2>1
  <2>4. LevelStep(patch, Copied(t, UpTo(t, n)), n + 1) = Copied(t, UpTo(t, n + 1))
    BY <2>1, <2>2, CopyLevel DEF patch
  <2>. QED BY <2>2, <2>3, <2>4
<1>7. MaxDepth \in N
  <2>1. Nat \subseteq N
    <3>. HIDE DEF N
    <3>. QED BY <1>5, <1>6, NatInduct
  <2>. QED BY <2>1, LongestPath
<1>8. UpTo(t, MaxDepth) = Listed(t)
  BY <1>4, LongestPath DEF UpTo
<1>. QED BY <1>2, <1>3, <1>7, <1>8, LongestPath

LEMMA CopiedIsShown ==
    ASSUME NEW t \in DaemonTrees
    PROVE  Shown(Copied(t, Listed(t))) = Listed(t) \cup {<<>>}
<1>. DEFINE c == Copied(t, Listed(t))
            N == {n \in Nat : \A p \in Listed(t) \cup {<<>>} : Len(p) = n => p \in Shown(c)}
<1>1. \A p \in Listed(t) \cup {<<>>} : p \in Paths /\ Len(p) \in Nat
  BY ListedIsLinked, PathLength, PathsAssumption
<1>2. ASSUME NEW p \in Paths PROVE /\ c.state[p] # "none" <=> p \in Listed(t) \cup {<<>>}
                                   /\ c.kids[p] = {q \in Listed(t) : Parent(q) = p}
                                   /\ IsDir(t, p) /\ p \in Listed(t) => IsDir(c, p)
  <2>1. p \in Listed(t) => t.state[p] # "none"
    BY ListedIsLinked DEF EntryStates
  <2>. QED BY <2>1 DEF Copied, IsDir
<1>3. IsDir(c, <<>>)
  BY PathsAssumption DEF Copied, IsDir
<1>. HIDE DEF c
<1>4. <<>> \in Shown(c)
  <2>1. Above(<<>>) = {}
    BY DEF Above
  <2>. QED BY <1>1, <1>2, <2>1 DEF Shown
<1>5. 0 \in N
  BY <1>1, <1>4, PathLength
<1>6. ASSUME NEW n \in Nat, n \in N PROVE n + 1 \in N
  <2>. SUFFICES ASSUME NEW p \in Listed(t), Len(p) = n + 1 PROVE p \in Shown(c)
    BY <1>4
  <2>1. /\ p \in Paths /\ p # <<>>
        /\ Parent(p) \in Shown(t) /\ IsDir(t, Parent(p))
        /\ Parent(p) \in Paths /\ Len(Parent(p)) = n
        /\ Above(p) = Above(Parent(p)) \cup {Parent(p)}
    BY ListedIsLinked, ParentPath, AboveParent
  <2>2. Parent(p) \in Listed(t) \cup {<<>>} /\ Parent(p) \in Shown(c) /\ IsDir(c, Parent(p))
    BY <1>2, <1>3, <1>6, <2>1 DEF Listed
  <2>3. p \in Children(c, Parent(p))
    BY <1>2, <2>1, <2>2 DEF Children
  <2>4. ASSUME NEW q \in Above(p) PROVE SubSeq(p, 1, Len(q) + 1) \in Children(c, q)
    <3>1. CASE q = Parent(p)
      BY <2>1, <2>3, <2>4, <3>1, StepDown
    <3>2. CASE q # Parent(p)
      BY <2>1, <2>2, <2>4, <3>2, StepDown DEF Shown
    <3>. QED BY <3>1, <3>2
  <2>. QED BY <1>2, <2>1, <2>4 DEF Shown
<1>7. Nat \subseteq N
  <2>. HIDE DEF N
  <2>. QED BY <1>5, <1>6, NatInduct
<1>8. Listed(t) \cup {<<>>} \subseteq Shown(c)
  BY <1>1, <1>7
<1>9. Shown(c) \subseteq Listed(t) \cup {<<>>}
  BY <1>2 DEF Shown
<1>. QED BY <1>8, <1>9 DEF c

(* In every state with a tree, a client that is sent its snapshot and applies it to *)
(* an empty copy shows exactly what the daemon's tree shows, and each entry below     *)
(* the root as the same kind: the nodes are listed, sent by level and inserted        *)
(* one by one under parents that must be there already, and none is dropped.        *)
THEOREM SnapshotsAreFaithful ==
    Spec => [](tree # NoTree =>
                  LET shown == FromSnapshot(SnapshotOf(tree)) IN
                  /\ Shown(shown) = Shown(tree) \cup {<<>>}
                  /\ \A p \in Shown(tree) \ {<<>>} : shown.state[p] = tree.state[p])
<1>. DEFINE Faithful ==
       tree # NoTree =>
          LET shown == FromSnapshot(SnapshotOf(tree)) IN
          /\ Shown(shown) = Shown(tree) \cup {<<>>}
          /\ \A p \in Shown(tree) \ {<<>>} : shown.state[p] = tree.state[p]
<1>1. Types => Faithful
  <2>. SUFFICES ASSUME Types, tree # NoTree
                PROVE  LET shown == FromSnapshot(SnapshotOf(tree)) IN
                       /\ Shown(shown) = Shown(tree) \cup {<<>>}
                       /\ \A p \in Shown(tree) \ {<<>>} : shown.state[p] = tree.state[p]
    OBVIOUS
  <2>1. tree \in DaemonTrees
    BY DEF Types
  <2>2. FromSnapshot(SnapshotOf(tree)) = Copied(tree, Listed(tree))
    BY <2>1, SnapshotIsCopied
  <2>3. Shown(Copied(tree, Listed(tree))) = Shown(tree) \cup {<<>>}
    BY <2>1, CopiedIsShown DEF Listed
  <2>4. \A p \in Shown(tree) \ {<<>>} : Copied(tree, Listed(tree)).state[p] = tree.state[p]
    BY DEF Copied, Listed, Shown
  <2>. QED BY <2>2, <2>3, <2>4
<1>. HIDE DEF Faithful
<1>2. Spec => []Faithful
  BY <1>1, TypesHold, PTL
<1>. QED BY <1>2 DEF Faithful

----------------------------------------------------------------------------
(* What is shown of a directory.  A copy lists p if it has p or does not have the  *)
(* directory of p as loaded.  A patch is whole for p if it has p when it has that    *)
(* directory as loaded.                                                       *)
Lists(t, p) == t.state[Parent(p)] = "loaded" => t.state[p] # "none"
Listing(p) == {t \in ClientTrees : Lists(t, p)}
NamesIn(nodes, p) == \E n \in nodes : n[1] = p
WholeIn(nodes, p) == <<Parent(p), "loaded">> \in nodes => NamesIn(nodes, p)

LEMMA ApplyNodeLists ==
    ASSUME NEW t \in ClientTrees, NEW n \in Nodes, NEW p \in Paths, p # <<>>
    PROVE  /\ n[1] = p => Lists(ApplyNode(t, n), p)
           /\ Lists(t, p) /\ n # <<Parent(p), "loaded">> => Lists(ApplyNode(t, n), p)
<1>. DEFINE q == n[1]
            u == [t EXCEPT !.state[q] = n[2], !.kids[Parent(q)] = @ \cup {q}]
<1>1. Parent(p) \in Paths /\ Parent(p) # p
  BY ParentPath, PathLength
<1>2. n[1] \in Paths /\ n[2] \in EntryStates /\ n = <<n[1], n[2]>>
  BY DEF Nodes
<1>3. t \in Trees
  BY DEF ClientTrees, DaemonTrees
<1>4. \A r \in Paths : u.state[r] = IF r = q THEN n[2] ELSE t.state[r]
  BY <1>2, <1>3 DEF Trees
<1>5. ApplyNode(t, n) = IF n[2] = "file" /\ t.state[q] # "none" THEN t
                        ELSE IF HasParentDir(t, q) THEN u ELSE t
  BY DEF ApplyNode, InsertChild
<1>. HIDE DEF u
<1>6. n[1] = p => Lists(ApplyNode(t, n), p)
  BY <1>1, <1>2, <1>4, <1>5 DEF Lists, HasParentDir, IsDir, EntryStates
<1>7. Lists(t, p) /\ n # <<Parent(p), "loaded">> => Lists(ApplyNode(t, n), p)
  BY <1>1, <1>2, <1>4, <1>5 DEF Lists, EntryStates
<1>. QED BY <1>6, <1>7

LEMMA FindOrInsertLists ==
    ASSUME NEW p \in Paths, p # <<>>, NEW t \in Listing(p), NEW q \in Paths
    PROVE  FindOrInsertDirectory(t, q) \in Listing(p)
<1>. DEFINE u == [t EXCEPT !.state[q] = "unloaded", !.kids[Parent(q)] = @ \cup {q}]
<1>1. t \in ClientTrees /\ t \in Trees /\ Lists(t, p)
  BY DEF Listing, ClientTrees, DaemonTrees
<1>2. \A r \in Paths : u.state[r] = IF r = q THEN "unloaded" ELSE t.state[r]
  BY <1>1 DEF Trees
<1>3. FindOrInsertDirectory(t, q) \in {t, u}
  BY DEF FindOrInsertDirectory, InsertChild
<1>. HIDE DEF u
<1>4. Lists(FindOrInsertDirectory(t, q), p)
  BY <1>1, <1>2, <1>3, ParentPath DEF Lists
<1>5. FindOrInsertDirectory(t, q) \in ClientTrees
  BY <1>1, FindOrInsertKeeps DEF ClientTrees
<1>. QED BY <1>4, <1>5 DEF Listing

LEMMA RemovePathLists ==
    ASSUME NEW p \in Paths, p # <<>>, NEW t \in Listing(p), NEW r \in Paths, ~ Under(p, r)
    PROVE  RemovePath(t, r) \in Listing(p)
<1>1. t \in ClientTrees /\ Lists(t, p) /\ RemovePath(t, r) \in ClientTrees /\ Parent(p) \in Paths
  BY RemovePathKeeps, ParentPath DEF Listing
<1>2. /\ RemovePath(t, r).state[p] = t.state[p]
      /\ RemovePath(t, r).state[Parent(p)] \in {"none", t.state[Parent(p)]}
  BY <1>1 DEF RemovePath
<1>. QED BY <1>1, <1>2 DEF Listing, Lists

LEMMA EnsureParentsLists ==
    ASSUME NEW p \in Paths, p # <<>>, NEW t \in Listing(p), NEW q \in Paths
    PROVE  EnsureParents(t, q) \in Listing(p)
<1>. DEFINE seq == [k \in 1 .. Len(q) |-> k]
<1>1. seq \in Seq(Nat) /\ Len(seq) = Len(q) /\ \A k \in 1 .. Len(q) : seq[k] = k
  BY PathLength
<1>2. EnsureParents(t, q) = Parents(q, t, seq)
  BY DEF EnsureParents, ParentStep, Parents
<1>3. ASSUME NEW v \in Listing(p), NEW k \in 1 .. Len(seq) PROVE ParentStep(q, v, seq[k]) \in Listing(p)
  <2>1. SubSeq(q, 1, seq[k]) \in Paths
    BY <1>1, PathLength, PrefixPath
  <2>. QED BY <2>1, FindOrInsertLists DEF ParentStep
<1>. HIDE DEF seq
<1>4. Parents(q, t, seq) \in Listing(p)
  BY <1>1, <1>3, ParentsFold
<1>. QED BY <1>2, <1>4

(* One level of a patch: it leaves p listed unless it makes the directory of p     *)
(* loaded, and the level that has p makes it listed.                              *)
LEMMA LevelLists ==
    ASSUME NEW p \in Paths, p # <<>>, NEW patch \in Patches, NEW t \in Listing(p), NEW k,
           ~ (<<Parent(p), "loaded">> \in patch.nodes /\ Len(Parent(p)) = k)
    PROVE  LevelStep(patch, t, k) \in Listing(p)
<1>. DEFINE S == {n \in patch.nodes : Len(n[1]) = k}
<1>1. S \in SUBSET Nodes /\ <<Parent(p), "loaded">> \notin S
  BY DEF Patches, Nodes, EntryStates
<1>2. LevelStep(patch, t, k) = NodesApplied(t, S)
  BY DEF LevelStep
<1>. HIDE DEF S
<1>3. ASSUME NEW v \in Listing(p), NEW n \in S PROVE ApplyNode(v, n) \in Listing(p)
  BY <1>1, ApplyNodeLists, ApplyNodeKeeps DEF Listing
<1>4. NodesApplied(t, S) \in Listing(p)
  BY <1>1, <1>3, NodesAreFinite, NodesFold
<1>. QED BY <1>2, <1>4

LEMMA LevelNames ==
    ASSUME NEW p \in Paths, p # <<>>, NEW patch \in Patches, NEW t \in ClientTrees, NamesIn(patch.nodes, p)
    PROVE  LevelStep(patch, t, Len(p)) \in Listing(p)
<1>. DEFINE S == {n \in patch.nodes : Len(n[1]) = Len(p)}
<1>1. S \in SUBSET Nodes /\ IsFiniteSet(S)
  BY NodesAreFinite DEF Patches, Nodes, EntryStates
<1>2. \A n \in S : n # <<Parent(p), "loaded">>
  BY ParentPath, PathLength
<1>3. NamesIn(S, p)
  BY DEF NamesIn
<1>4. LevelStep(patch, t, Len(p)) = NodesApplied(t, S)
  BY DEF LevelStep
<1>. HIDE DEF S
<1>5. \A v \in ClientTrees : \A n \in S : ApplyNode(v, n) \in ClientTrees
  BY <1>1, ApplyNodeKeeps
<1>6. IsNodesApplied(NodesApplied(t, S), t, S)
  BY <1>1, <1>5, NodesFold
<1>7. PICK f : /\ NodesApplied(t, S) = f[S]
               /\ f[{}] = t
               /\ \A s \in SUBSET S : s # {} => \E x \in s : f[s] = ApplyNode(f[s \ {x}], x)
  BY <1>6 DEF IsNodesApplied
<1>. DEFINE U == {s \in SUBSET S : f[s] \in ClientTrees /\ (NamesIn(s, p) => Lists(f[s], p))}
<1>8. {} \in U
  BY <1>7 DEF NamesIn
<1>9. ASSUME NEW s \in SUBSET S, s # {} PROVE \E x \in s : s \ {x} \in U => s \in U
  <2>1. PICK x \in s : f[s] = ApplyNode(f[s \ {x}], x)
    BY <1>7, <1>9
  <2>2. ASSUME s \ {x} \in U PROVE s \in U
    <3>1. /\ f[s \ {x}] \in ClientTrees /\ x \in Nodes /\ x # <<Parent(p), "loaded">>
          /\ f[s] \in ClientTrees
      BY <1>1, <1>2, <1>5, <2>1, <2>2
    <3>2. ASSUME NamesIn(s, p) PROVE Lists(f[s], p)
      <4>1. CASE x[1] = p
        BY <2>1, <3>1, <4>1, ApplyNodeLists
      <4>2. CASE x[1] # p
        <5>1. NamesIn(s \ {x}, p)
          BY <3>2, <4>2 DEF NamesIn
        <5>2. Lists(f[s \ {x}], p)
          BY <2>2, <5>1
        <5>. QED BY <2>1, <3>1, <5>2, ApplyNodeLists
      <4>. QED BY <4>1, <4>2
    <3>. QED BY <3>1, <3>2
  <2>. QED BY <2>1, <2>2
<1>10. S \in U
  <2>. HIDE DEF U
  <2>. QED BY <1>1, <1>8, <1>9, SubsetInduct
<1>. QED BY <1>3, <1>4, <1>7, <1>10 DEF Listing

LEMMA ApplyPatchLists ==
    ASSUME NEW p \in Paths, p # <<>>, NEW patch \in Patches, NEW t \in ClientTrees,
           WholeIn(patch.nodes, p), Lists(t, p) \/ NamesIn(patch.nodes, p)
    PROVE  ApplyPatch(t, patch) \in Listing(p)
<1>1. PICK f : /\ ApplyPatch(t, patch) = f[MaxDepth]
               /\ f[0] = EnsureParents(t, patch.parent)
               /\ \A k \in 0 .. MaxDepth : f[k] \in ClientTrees
               /\ \A k \in 1 .. MaxDepth : f[k] = LevelStep(patch, f[k - 1], k)
  BY ApplyPatchSteps
<1>2. MaxDepth \in Nat /\ Len(p) \in 1 .. MaxDepth /\ Len(Parent(p)) = Len(p) - 1
  BY LongestPath, PathLength, ParentPath
<1>. DEFINE named == NamesIn(patch.nodes, p)
            N == {n \in Nat : n \in 0 .. MaxDepth /\ (named => n >= Len(p)) => Lists(f[n], p)}
<1>3. 0 \in N
  <2>1. CASE named
    BY <1>2, <2>1
  <2>2. CASE ~ named
    <3>1. t \in Listing(p) /\ patch.parent \in Paths
      BY <2>2 DEF Listing, Patches
    <3>. QED BY <1>1, <3>1, EnsureParentsLists DEF Listing
  <2>. QED BY <2>1, <2>2
<1>4. ASSUME NEW n \in Nat, n \in N PROVE n + 1 \in N
  <2>. SUFFICES ASSUME n + 1 \in 0 .. MaxDepth, named => n + 1 >= Len(p) PROVE Lists(f[n + 1], p)
    OBVIOUS
  <2>1. n \in 0 .. MaxDepth /\ n + 1 \in 1 .. MaxDepth /\ (n + 1) - 1 = n
    BY <1>2
  <2>2. f[n] \in ClientTrees /\ f[n + 1] = LevelStep(patch, f[n], n + 1)
    BY <1>1, <2>1
  <2>3. CASE named /\ n + 1 = Len(p)
    BY <2>2, <2>3, LevelNames DEF Listing
  <2>4. CASE ~ (named /\ n + 1 = Len(p))
    <3>1. Lists(f[n], p)
      BY <1>2, <1>4, <2>1, <2>4
    <3>2. ~ (<<Parent(p), "loaded">> \in patch.nodes /\ Len(Parent(p)) = n + 1)
      BY <1>2, <2>1, <2>4 DEF WholeIn
    <3>. QED BY <2>2, <3>1, <3>2, LevelLists DEF Listing
  <2>. QED BY <2>3, <2>4
<1>5. MaxDepth \in N
  <2>1. Nat \subseteq N
    <3>. HIDE DEF N
    <3>. QED BY <1>3, <1>4, NatInduct
  <2>. QED BY <1>2, <2>1
<1>6. Lists(f[MaxDepth], p) /\ f[MaxDepth] \in ClientTrees
  BY <1>1, <1>2, <1>5
<1>. QED BY <1>1, <1>6 DEF Listing

----------------------------------------------------------------------------
(* Updates.  One that is whole for p and names it makes the copy list p, and so    *)
(* does a snapshot that is whole for p: whatever the copy was before.  One that is  *)
(* whole and takes nothing away above p leaves it listed.                         *)
Whole(u, p) == \A k \in DOMAIN u.patches : WholeIn(u.patches[k].nodes, p)
Touches(u, p) == \E r \in u.removed : Under(p, r)
Spares(m, p) == m.kind = "update" /\ Whole(m.update, p) /\ ~ Touches(m.update, p)
Fixes(m, p) ==
    /\ Whole(m.update, p)
    /\ IF m.kind = "snapshot" THEN m.update.removed = {} /\ (p \in Named(m.update) \/ Parent(p) # <<>>)
       ELSE p \in Named(m.update)

LEMMA PatchesOf ==
    ASSUME NEW u \in Updates
    PROVE  /\ u.patches \in Seq(Patches) /\ Len(u.patches) \in Nat
           /\ DOMAIN u.patches = 1 .. Len(u.patches)
           /\ \A k \in 1 .. Len(u.patches) : u.patches[k] \in Patches
BY ElementOfSeq, LenProperties DEF Updates

LEMMA NamedSomewhere ==
    ASSUME NEW u, NEW p, p \in Named(u)
    PROVE  \E k \in DOMAIN u.patches : NamesIn(u.patches[k].nodes, p)
BY DEF Named, NodesIn, NamesIn

LEMMA RemovedFirst ==
    ASSUME NEW u \in Updates, NEW t \in ClientTrees
    PROVE  AllRemoved(t, u.removed) \in ClientTrees
<1>1. IsFiniteSet(u.removed) /\ \A v \in ClientTrees : \A r \in u.removed : RemovePath(v, r) \in ClientTrees
  BY RemovePathKeeps, PathsAssumption, FS_Subset DEF Updates
<1>. QED BY <1>1, RemovedFold

LEMMA UpdateSpares ==
    ASSUME NEW p \in Paths, p # <<>>, NEW u \in Updates, Whole(u, p), ~ Touches(u, p), NEW t \in Listing(p)
    PROVE  ApplyUpdate(t, u) \in Listing(p)
<1>. DEFINE b == AllRemoved(t, u.removed)
<1>1. IsFiniteSet(u.removed) /\ u.removed \subseteq Paths
  BY PathsAssumption, FS_Subset DEF Updates
<1>2. \A v \in Listing(p) : \A r \in u.removed : RemovePath(v, r) \in Listing(p)
  BY <1>1, RemovePathLists DEF Touches
<1>3. b \in Listing(p)
  BY <1>1, <1>2, RemovedFold
<1>4. ASSUME NEW v \in Listing(p), NEW k \in 1 .. Len(u.patches) PROVE ApplyPatch(v, u.patches[k]) \in Listing(p)
  <2>1. u.patches[k] \in Patches /\ WholeIn(u.patches[k].nodes, p)
    BY PatchesOf DEF Whole
  <2>. QED BY <2>1, ApplyPatchLists DEF Listing
<1>5. ApplyUpdate(t, u) = PatchesApplied(b, u.patches)
  BY DEF ApplyUpdate, AllRemoved, PatchesApplied
<1>. HIDE DEF b
<1>6. PatchesApplied(b, u.patches) \in Listing(p)
  BY <1>3, <1>4, PatchesOf, PatchesFold
<1>. QED BY <1>5, <1>6

LEMMA UpdateNames ==
    ASSUME NEW p \in Paths, p # <<>>, NEW u \in Updates, Whole(u, p), p \in Named(u), NEW t \in ClientTrees
    PROVE  ApplyUpdate(t, u) \in Listing(p)
<1>. DEFINE b == AllRemoved(t, u.removed)
            seq == u.patches
            last == Len(seq)
<1>1. /\ seq \in Seq(Patches) /\ last \in Nat
      /\ \A k \in 1 .. last : seq[k] \in Patches /\ WholeIn(seq[k].nodes, p)
  BY PatchesOf DEF Whole
<1>2. PICK i \in 1 .. last : NamesIn(seq[i].nodes, p)
  BY PatchesOf, NamedSomewhere
<1>3. b \in ClientTrees
  BY RemovedFirst
<1>4. ApplyUpdate(t, u) = PatchesApplied(b, seq)
  BY DEF ApplyUpdate, AllRemoved, PatchesApplied
<1>. HIDE DEF b, seq
<1>5. \A v \in ClientTrees : \A k \in 1 .. Len(seq) : ApplyPatch(v, seq[k]) \in ClientTrees
  BY <1>1, ApplyPatchKeeps
<1>6. IsLastOfSteps(PatchesApplied(b, seq), Len(seq), ClientTrees, b, PatchSteps(seq, ClientTrees))
  BY <1>1, <1>3, <1>5, PatchesFold
<1>7. PICK f : /\ PatchesApplied(b, seq) = f[last]
               /\ AreSteps(f, last, ClientTrees, b, PatchSteps(seq, ClientTrees))
  BY <1>6 DEF IsLastOfSteps
<1>8. /\ \A k \in 0 .. last : f[k] \in ClientTrees
      /\ \A k \in 1 .. last : f[k] = PatchSteps(seq, ClientTrees)[k][f[k - 1]]
  BY <1>7 DEF AreSteps
<1>. HIDE DEF last
<1>9. ASSUME NEW k \in 1 .. last PROVE k - 1 \in 0 .. last /\ f[k] = ApplyPatch(f[k - 1], seq[k])
  <2>1. k - 1 \in 0 .. last
    BY <1>1
  <2>2. f[k - 1] \in ClientTrees
    BY <1>8, <2>1
  <2>. QED BY <1>8, <2>1, <2>2 DEF PatchSteps, last
<1>. DEFINE N == {n \in Nat : n \in i .. last => Lists(f[n], p)}
<1>10. 0 \in N
  BY <1>1
<1>11. ASSUME NEW n \in Nat, n \in N PROVE n + 1 \in N
  <2>. SUFFICES ASSUME n + 1 \in i .. last PROVE Lists(f[n + 1], p)
    OBVIOUS
  <2>1. n + 1 \in 1 .. last /\ (n + 1) - 1 = n /\ n \in 0 .. last
    BY <1>1
  <2>2. f[n] \in ClientTrees /\ f[n + 1] = ApplyPatch(f[n], seq[n + 1])
    BY <1>8, <1>9, <2>1
  <2>3. Lists(f[n], p) \/ NamesIn(seq[n + 1].nodes, p)
    <3>1. n + 1 = i \/ n \in i .. last
      BY <1>1, <2>1
    <3>. QED BY <1>2, <1>11, <3>1
  <2>. QED BY <1>1, <2>1, <2>2, <2>3, ApplyPatchLists DEF Listing
<1>12. last \in N
  <2>1. Nat \subseteq N
    <3>. HIDE DEF N
    <3>. QED BY <1>10, <1>11, NatInduct
  <2>. QED BY <1>1, <2>1
<1>13. Lists(f[last], p) /\ f[last] \in ClientTrees
  BY <1>1, <1>2, <1>8, <1>12
<1>. QED BY <1>4, <1>7, <1>13 DEF Listing

LEMMA SnapshotFixes ==
    ASSUME NEW p \in Paths, p # <<>>, NEW m \in Messages, m.kind = "snapshot", Fixes(m, p)
    PROVE  FromSnapshot(m.update) \in Listing(p)
<1>1. m.update \in Updates /\ Whole(m.update, p) /\ ~ Touches(m.update, p)
  BY DEF Messages, Fixes, Touches
<1>2. CASE p \in Named(m.update)
  BY <1>1, <1>2, UpdateNames, NewForDirectoryIsTree DEF FromSnapshot
<1>3. CASE Parent(p) # <<>>
  <2>1. NewForDirectory \in Listing(p)
    BY <1>3, ParentPath, NewForDirectoryIsTree DEF Listing, Lists, NewForDirectory, EmptyTree
  <2>. QED BY <1>1, <2>1, UpdateSpares DEF FromSnapshot
<1>. QED BY <1>2, <1>3 DEF Fixes

----------------------------------------------------------------------------
(* What the daemon sends.                                                     *)
SnapshotMessage(t) == [kind |-> "snapshot", update |-> SnapshotOf(t)]
ListsIfLoaded(t, p) == Parent(p) \in LoadedIn(t) => p \in Shown(t)

LEMMA SnapshotIsWhole ==
    ASSUME NEW t \in DaemonTrees, NEW p \in Paths, p # <<>>, ListsIfLoaded(t, p)
    PROVE  Fixes(SnapshotMessage(t), p)
<1>. DEFINE nodes == NodesOf(t, Shown(t) \ {<<>>})
            u == SnapshotOf(t)
<1>1. u.removed = {} /\ DOMAIN u.patches = {1} /\ u.patches[1].nodes = nodes
  BY DEF SnapshotOf, Update, Patch
<1>2. p \in Shown(t) => <<p, t.state[p]>> \in nodes
  BY DEF NodesOf, Shown
<1>3. <<Parent(p), "loaded">> \in nodes => Parent(p) \in LoadedIn(t)
  BY DEF NodesOf, LoadedIn
<1>4. Parent(p) = <<>> => Parent(p) \in LoadedIn(t)
  BY DEF LoadedIn
<1>. HIDE DEF nodes, u
<1>5. Whole(u, p)
  BY <1>1, <1>2, <1>3 DEF Whole, WholeIn, NamesIn, ListsIfLoaded
<1>6. p \in Named(u) \/ Parent(p) # <<>>
  <2>1. ASSUME p \in Shown(t) PROVE p \in Named(u)
    <3>1. <<p, t.state[p]>> \in NodesIn(u)
      BY <1>1, <1>2, <2>1 DEF NodesIn
    <3>. QED BY <3>1 DEF Named
  <2>. QED BY <1>4, <2>1 DEF ListsIfLoaded
<1>. QED BY <1>1, <1>5, <1>6 DEF Fixes, SnapshotMessage, u

(* A directory that was opened has all its children of the disk.               *)
LEMMA OpenedLists ==
    ASSUME NEW d \in Disks, NEW b \in Paths, NEW depth, NEW lazy, NEW p \in Paths, p # <<>>,
           d[p] # "none", BuildTree(d, b, depth, lazy).state[Parent(p)] = "loaded"
    PROVE  /\ BuildTree(d, b, depth, lazy).state[p] # "none"
           /\ p \in BuildTree(d, b, depth, lazy).kids[Parent(p)]
<1>. DEFINE t == BuildTree(d, b, depth, lazy)
            opened(q) == /\ d[q] = "dir"
                         /\ Len(q) < Len(b) + depth
                         /\ ~ (lazy /\ \E a \in Ignored : Under(q, a))
            read == {q \in Paths : /\ Under(q, b)
                                   /\ d[q] # "none"
                                   /\ \A a \in Above(q) : Under(a, b) => opened(a)}
<1>1. \A q \in Paths : /\ t.state[q] = IF q \notin read THEN "none"
                                       ELSE IF d[q] = "file" THEN "file"
                                       ELSE IF opened(q) THEN "loaded" ELSE "unloaded"
                       /\ t.kids[q] = {r \in read \ {b} : Parent(r) = q}
  BY DEF BuildTree
<1>2. Parent(p) \in Paths /\ Above(p) = Above(Parent(p)) \cup {Parent(p)} /\ Len(Parent(p)) < Len(p)
  BY ParentPath, AboveParent, PathLength
<1>3. Parent(p) \in read /\ opened(Parent(p))
  BY <1>1, <1>2
<1>4. Under(p, b) /\ p # b
  <2>1. Under(Parent(p), b)
    BY <1>3
  <2>2. Under(p, b)
    BY <1>2, <2>1 DEF Under
  <2>3. b = Parent(p) \/ (b \in Above(Parent(p)) /\ Len(b) < Len(Parent(p)))
    BY <1>2, <2>1, AbovePaths DEF Under
  <2>4. p # b
    BY <1>2, <2>3, PathLength
  <2>. QED BY <2>2, <2>4
<1>5. p \in read
  BY <1>2, <1>3, <1>4
<1>. HIDE DEF t, opened
<1>6. t.state[p] # "none"
  BY <1>1, <1>5
<1>7. p \in t.kids[Parent(p)]
  BY <1>1, <1>2, <1>4, <1>5
<1>. QED BY <1>6, <1>7 DEF t

LEMMA ShownBelow ==
    ASSUME NEW t \in DaemonTrees, NEW p \in Paths, p # <<>>,
           Parent(p) \in Shown(t), IsDir(t, Parent(p)), p \in t.kids[Parent(p)], t.state[p] # "none"
    PROVE  p \in Shown(t)
<1>1. Above(p) = Above(Parent(p)) \cup {Parent(p)} /\ Parent(p) \in Paths
  BY AboveParent, ParentPath
<1>2. ASSUME NEW q \in Above(p) PROVE SubSeq(p, 1, Len(q) + 1) \in Children(t, q)
  <2>1. CASE q = Parent(p)
    BY <2>1, StepDown DEF Children
  <2>2. CASE q # Parent(p)
    BY <1>1, <2>2, StepDown DEF Shown
  <2>. QED BY <2>1, <2>2
<1>. QED BY <1>2 DEF Shown

LEMMA RootIsShown ==
    ASSUME NEW t, t.state[<<>>] # "none"
    PROVE  <<>> \in Shown(t)
BY PathsAssumption DEF Shown, Above

LEMMA LoadedIsShown ==
    ASSUME NEW t, t.state[<<>>] = "loaded", NEW q \in LoadedIn(t)
    PROVE  q \in Shown(t) /\ t.state[q] = "loaded"
BY RootIsShown DEF LoadedIn

LEMMA BuiltTreeLists ==
    ASSUME NEW d \in Disks, d[<<>>] = "dir", NEW depth \in Nat \ {0}, NEW lazy, NEW p \in Paths, p # <<>>, d[p] # "none"
    PROVE  ListsIfLoaded(BuildTree(d, <<>>, depth, lazy), p)
<1>. DEFINE t == BuildTree(d, <<>>, depth, lazy)
<1>1. t \in DaemonTrees
  BY BuildTreeIsTree, PathsAssumption
<1>2. t.state[<<>>] = "loaded"
  <2>1. \A a \in Ignored : ~ Under(<<>>, a)
    BY RootIsNotUnder, PathsAssumption
  <2>2. Above(<<>>) = {} /\ Under(<<>>, <<>>) /\ Len(<<>>) < Len(<<>>) + depth
    BY DEF Above, Under
  <2>. QED BY <2>1, <2>2, PathsAssumption DEF BuildTree
<1>. SUFFICES ASSUME Parent(p) \in LoadedIn(t) PROVE p \in Shown(t)
  BY DEF ListsIfLoaded
<1>3. Parent(p) \in Shown(t) /\ t.state[Parent(p)] = "loaded"
  BY <1>2, LoadedIsShown
<1>4. t.state[p] # "none" /\ p \in t.kids[Parent(p)]
  BY <1>3, OpenedLists, PathsAssumption
<1>. HIDE DEF t
<1>. QED BY <1>1, <1>3, <1>4, ShownBelow DEF IsDir

LEMMA LoadedDirectoryLists ==
    ASSUME NEW t \in DaemonTrees, NEW d \in Disks, NEW p \in Paths, p # <<>>, d[p] # "none", d[Parent(p)] = "dir"
    PROVE  ListsIfLoaded(LoadAtPath(t, Parent(p), d), p)
<1>. DEFINE w == Parent(p)
            built == BuildTree(d, w, 1, FALSE)
            sub == [built EXCEPT !.state[w] = "loaded"]
            u == LoadAtPath(t, w, d)
            both == [state |-> [q \in Paths |-> IF sub.state[q] # "none" THEN sub.state[q] ELSE t.state[q]],
                     kids |-> [q \in Paths |-> IF sub.kids[q] # {} THEN sub.kids[q] ELSE t.kids[q]]]
<1>1. w \in Paths /\ w # p /\ u \in DaemonTrees /\ built \in DaemonTrees
  <2>1. w \in Paths /\ w # p
    BY ParentPath, PathLength
  <2>. HIDE DEF w
  <2>. QED BY <2>1, LoadAtPathIsTree, BuildTreeIsTree
<1>2. built.state[w] = "loaded"
  <2>1. \A a \in Above(w) : ~ Under(a, w)
    <3>. SUFFICES ASSUME NEW a \in Above(w), Under(a, w) PROVE FALSE
      OBVIOUS
    <3>1. a \in Paths /\ Len(a) < Len(w) /\ (w = a \/ Len(w) < Len(a))
      BY <1>1, AbovePaths DEF Under
    <3>. QED BY <1>1, <3>1, PathLength
  <2>2. Len(w) < Len(w) + 1 /\ Under(w, w)
    BY <1>1, PathLength DEF Under
  <2>. QED BY <1>1, <2>1, <2>2 DEF BuildTree
<1>3. built.state[p] # "none" /\ p \in built.kids[w]
  BY <1>1, <1>2, OpenedLists
<1>. HIDE DEF built, w
<1>4. /\ sub.state[w] = "loaded" /\ sub.state[p] # "none" /\ p \in sub.kids[w]
  BY <1>1, <1>2, <1>3 DEF DaemonTrees, Trees
<1>. HIDE DEF sub
<1>5. both.state[w] = "loaded" /\ both.state[p] # "none" /\ p \in both.kids[w]
  BY <1>1, <1>4
<1>6. u = IF HasParentDir(both, w) THEN [both EXCEPT !.kids[Parent(w)] = @ \cup {w}] ELSE both
  BY DEF LoadAtPath, InsertEntry, sub, built
<1>7. both.kids = [q \in Paths |-> both.kids[q]]
  OBVIOUS
<1>. HIDE DEF both, u
<1>8. u.state[w] = "loaded" /\ u.state[p] # "none" /\ p \in u.kids[w]
  BY <1>1, <1>5, <1>6, <1>7
<1>. SUFFICES ASSUME w \in LoadedIn(u) PROVE p \in Shown(u)
  BY DEF ListsIfLoaded, w, u
<1>9. w \in Shown(u)
  BY <1>8, RootIsShown DEF LoadedIn
<1>. QED BY <1>1, <1>8, <1>9, ShownBelow DEF IsDir, w

(* What the watcher sends: it takes nothing away but what was deleted, and when it  *)
(* sends a directory as loaded it sends all that is in it.                       *)
OnDisk == {p \in Paths \ {<<>>} : disk[p] # "none"}
WholeAccs == {acc \in Accs : acc.sent.removed \subseteq batch.deleted /\ \A p \in OnDisk : Whole(acc.sent, p)}

LEMMA MutateIsWhole ==
    ASSUME NEW acc \in WholeAccs, NEW t \in DaemonTrees, NEW q \in Paths, q # <<>>, NEW nodes \in SUBSET Nodes,
           \A p \in OnDisk : WholeIn(nodes, p)
    PROVE  Mutate(acc, t, q, nodes) \in WholeAccs
<1>. DEFINE patch == Patch(Parent(q), nodes)
            new == Mutate(acc, t, q, nodes)
<1>1. new \in Accs /\ acc \in Accs
  BY MutateIsAcc DEF WholeAccs
<1>2. acc.sent \in Updates /\ new.sent \in Updates
  BY <1>1 DEF Accs
<1>3. patch.nodes = nodes
  BY DEF Patch
<1>4. new.sent.removed = acc.sent.removed /\ new.sent.patches = Append(acc.sent.patches, patch)
  BY <1>2 DEF Mutate, Updates
<1>. HIDE DEF new, patch
<1>5. ASSUME NEW k \in DOMAIN new.sent.patches
      PROVE  \/ k \in DOMAIN acc.sent.patches /\ new.sent.patches[k] = acc.sent.patches[k]
             \/ new.sent.patches[k] = patch
  <2>1. /\ acc.sent.patches \in Seq(Patches) /\ Len(acc.sent.patches) \in Nat
        /\ DOMAIN acc.sent.patches = 1 .. Len(acc.sent.patches)
    BY <1>2, PatchesOf
  <2>. QED BY <1>4, <2>1
<1>6. \A p \in OnDisk : Whole(new.sent, p)
  BY <1>3, <1>5 DEF Whole, WholeAccs
<1>. QED BY <1>1, <1>4, <1>6 DEF WholeAccs, new

LEMMA AddUnderIsWhole ==
    ASSUME NEW acc \in WholeAccs, NEW q \in Paths, NEW lazy, NEW t, q # <<>> => t \in DaemonTrees,
           NEW nodes \in SUBSET Nodes, \A p \in OnDisk : WholeIn(nodes, p)
    PROVE  AddUnder(acc, q, lazy, t, nodes) \in WholeAccs
<1>1. acc \in Accs
  BY DEF WholeAccs
<1>2. ASSUME q # <<>> PROVE [acc EXCEPT !.tree = ParentsMade(acc, q)] \in WholeAccs
  <2>1. ParentsMade(acc, q) \in DaemonTrees
    BY <1>1, <1>2, ParentPath, EnsureParentsKeeps DEF ParentsMade, Accs
  <2>. QED BY <2>1 DEF WholeAccs, Accs
<1>. QED BY <1>2, MutateIsWhole DEF AddUnder

LEMMA AddPathIsWhole ==
    ASSUME NEW acc \in WholeAccs, NEW q \in Paths, NEW fails, disk \in Disks
    PROVE  AddPath(acc, q, fails) \in WholeAccs
<1>. DEFINE made == ParentsMade(acc, q)
            opened == [made EXCEPT !.state[Parent(q)] = "loaded"]
            sub == BuildTree(disk, q, MaxDepth + 1, git)
<1>0. acc \in Accs
  BY DEF WholeAccs
<1>1. q # <<>> => made \in DaemonTrees /\ Parent(q) \in Paths
  BY <1>0, ParentPath, EnsureParentsKeeps DEF ParentsMade, Accs
<1>2. AddFile(acc, q, ~ git) \in WholeAccs
  <2>1. q # <<>> => ApplyNode(made, <<q, "file">>) \in DaemonTrees
    BY <1>1, InsertChildKeeps DEF ApplyNode, EntryStates
  <2>2. {<<q, "file">>} \in SUBSET Nodes /\ \A p \in OnDisk : WholeIn({<<q, "file">>}, p)
    BY DEF Nodes, EntryStates, WholeIn
  <2>. HIDE DEF made
  <2>. QED BY <2>1, <2>2, AddUnderIsWhole DEF AddFile, made
<1>3. AddEmptyDirectory(acc, q, ~ git) \in WholeAccs
  <2>1. q # <<>> => InsertChild(made, q, "unloaded") \in DaemonTrees
    BY <1>1, InsertChildKeeps DEF EntryStates
  <2>2. {<<q, "unloaded">>} \in SUBSET Nodes /\ \A p \in OnDisk : WholeIn({<<q, "unloaded">>}, p)
    BY DEF Nodes, EntryStates, WholeIn
  <2>. QED BY <2>1, <2>2, AddUnderIsWhole DEF AddEmptyDirectory
<1>4. AddDirectorySubtree(acc, q, ~ git, sub) \in WholeAccs
  <2>1. sub \in DaemonTrees
    BY BuildTreeIsTree
  <2>2. ASSUME NEW p \in OnDisk, <<Parent(p), "loaded">> \in Flatten(sub) PROVE <<p, sub.state[p]>> \in Flatten(sub)
    <3>1. p \in Paths /\ p # <<>> /\ disk[p] # "none"
      BY DEF OnDisk
    <3>2. sub.state[Parent(p)] = "loaded"
      BY <2>2 DEF Flatten, NodesOf
    <3>3. sub.state[p] # "none"
      BY <3>1, <3>2, OpenedLists
    <3>. QED BY <3>1, <3>3 DEF Flatten, NodesOf
  <2>. HIDE DEF sub
  <2>3. Flatten(sub) \in SUBSET Nodes
    BY <2>1, NodesOfAreNodes DEF Flatten, DaemonTrees
  <2>4. \A p \in OnDisk : WholeIn(Flatten(sub), p)
    BY <2>2 DEF WholeIn, NamesIn
  <2>5. q # <<>> => opened \in DaemonTrees
    BY <1>1, StateChangeIsTree DEF EntryStates
  <2>6. q # <<>> => InsertEntry(RemovePath(opened, q), q, sub) \in DaemonTrees
    BY <2>1, <2>5, RemovePathIsTree, InsertEntryIsTree
  <2>. QED BY <2>3, <2>4, <2>6, AddUnderIsWhole DEF AddDirectorySubtree
<1>. QED BY <1>2, <1>3, <1>4 DEF AddPath

LEMMA WatcherBatchIsWhole ==
    ASSUME tree \in DaemonTrees, disk \in Disks, batch \in Batches, NEW order \in SetToSeqs(batch.added), NEW fails
    PROVE  AllAdded(AllDeleted([tree |-> tree, sent |-> Update({}, <<>>)], batch.deleted), order, fails) \in WholeAccs
<1>. DEFINE first == [tree |-> tree, sent |-> Update({}, <<>>)]
            start == AllDeleted(first, batch.deleted)
<1>1. first \in WholeAccs
  BY DEF WholeAccs, Accs, Update, Updates, Whole
<1>2. batch.deleted \in SUBSET Paths /\ IsFiniteSet(batch.deleted)
  BY PathsAssumption, FS_Subset DEF Batches
<1>. HIDE DEF first
<1>3. ASSUME NEW acc \in WholeAccs, NEW r \in batch.deleted PROVE MutateRemove(acc, r) \in WholeAccs
  <2>1. MutateRemove(acc, r) \in Accs /\ acc.sent \in Updates
    BY <1>2, MutateRemoveIsAcc DEF WholeAccs, Accs
  <2>2. /\ MutateRemove(acc, r).sent.removed = acc.sent.removed \cup {r}
        /\ MutateRemove(acc, r).sent.patches = acc.sent.patches
    BY <2>1 DEF MutateRemove, Updates
  <2>. QED BY <2>1, <2>2 DEF WholeAccs, Whole
<1>4. start \in WholeAccs
  BY <1>1, <1>2, <1>3, DeletedFold
<1>. HIDE DEF start
<1>5. order \in Seq(Paths)
  BY OrderIsSeq
<1>6. \A acc \in WholeAccs : \A k \in 1 .. Len(order) : AddPath(acc, order[k], fails) \in WholeAccs
  BY <1>5, AddPathIsWhole, ElementOfSeq
<1>7. AllAdded(start, order, fails) \in WholeAccs
  BY <1>4, <1>5, <1>6, AddedFold
<1>. QED BY <1>7 DEF start, first

----------------------------------------------------------------------------
(* A path that the batch adds is named in what is sent, unless its directory was     *)
(* not loaded when its turn came.                                              *)
LEMMA MutateNames ==
    ASSUME NEW acc \in Accs, NEW t, NEW q, NEW nodes
    PROVE  /\ Named(acc.sent) \subseteq Named(Mutate(acc, t, q, nodes).sent)
           /\ \A n \in nodes : n[1] \in Named(Mutate(acc, t, q, nodes).sent)
<1>. DEFINE patch == Patch(Parent(q), nodes)
            new == Mutate(acc, t, q, nodes)
            last == Len(acc.sent.patches) + 1
<1>1. acc.sent \in Updates /\ patch.nodes = nodes
  BY DEF Accs, Patch
<1>2. /\ acc.sent.patches \in Seq(Patches) /\ Len(acc.sent.patches) \in Nat
      /\ DOMAIN acc.sent.patches = 1 .. Len(acc.sent.patches)
  BY <1>1, PatchesOf
<1>3. new.sent.patches = Append(acc.sent.patches, patch)
  BY <1>1 DEF Mutate, Updates
<1>. HIDE DEF patch, new
<1>4. /\ \A k \in DOMAIN acc.sent.patches : k \in DOMAIN new.sent.patches /\ new.sent.patches[k] = acc.sent.patches[k]
      /\ last \in DOMAIN new.sent.patches /\ new.sent.patches[last] = patch
  BY <1>2, <1>3
<1>5. NodesIn(acc.sent) \subseteq NodesIn(new.sent) /\ nodes \subseteq NodesIn(new.sent)
  BY <1>1, <1>4 DEF NodesIn
<1>. QED BY <1>5 DEF Named, new

LEMMA AddUnderNames ==
    ASSUME NEW acc \in Accs, NEW q, NEW lazy, NEW t, NEW nodes
    PROVE  Named(acc.sent) \subseteq Named(AddUnder(acc, q, lazy, t, nodes).sent)
BY MutateNames DEF AddUnder, Accs

LEMMA AddPathNames ==
    ASSUME NEW acc \in Accs, NEW q, NEW fails
    PROVE  Named(acc.sent) \subseteq Named(AddPath(acc, q, fails).sent)
BY AddUnderNames DEF AddPath, AddFile, AddEmptyDirectory, AddDirectorySubtree

LEMMA EnsureParentsKeepsDir ==
    ASSUME NEW p \in Paths, NEW t \in DaemonTrees, NEW a \in Paths, IsDir(t, a)
    PROVE  IsDir(EnsureParents(t, p), a)
<1>. DEFINE seq == [k \in 1 .. Len(p) |-> k]
            T == {v \in DaemonTrees : IsDir(v, a)}
<1>1. seq \in Seq(Nat) /\ Len(seq) = Len(p) /\ \A k \in 1 .. Len(p) : seq[k] = k
  BY PathLength
<1>2. EnsureParents(t, p) = Parents(p, t, seq)
  BY DEF EnsureParents, ParentStep, Parents
<1>3. ASSUME NEW v \in T, NEW k \in 1 .. Len(seq) PROVE ParentStep(p, v, seq[k]) \in T
  <2>1. SubSeq(p, 1, seq[k]) \in Paths
    BY <1>1, PathLength, PrefixPath
  <2>2. ASSUME NEW x \in Paths PROVE IsDir(InsertChild(v, x, "unloaded"), a)
    BY <2>2 DEF InsertChild, IsDir, DaemonTrees, Trees
  <2>3. ASSUME NEW x \in Paths PROVE FindOrInsertDirectory(v, x) \in T
    BY <2>2, <2>3, FindOrInsertKeeps DEF FindOrInsertDirectory
  <2>. QED BY <2>1, <2>3 DEF ParentStep
<1>. HIDE DEF seq
<1>4. Parents(p, t, seq) \in T
  <2>. HIDE DEF T
  <2>1. t \in T
    BY DEF T
  <2>. QED BY <1>1, <1>3, <2>1, ParentsFold
<1>. QED BY <1>2, <1>4

LEMMA BuiltTreeHasRoot ==
    ASSUME NEW d \in Disks, NEW p \in Paths, NEW depth, NEW lazy, d[p] # "none"
    PROVE  BuildTree(d, p, depth, lazy).state[p] # "none"
<1>1. \A a \in Above(p) : ~ Under(a, p)
  <2>. SUFFICES ASSUME NEW a \in Above(p), Under(a, p) PROVE FALSE
    OBVIOUS
  <2>1. a \in Paths /\ Len(a) < Len(p) /\ Len(a) \in Nat /\ Len(p) \in Nat
    BY AbovePaths, PathLength
  <2>2. p \in Above(a)
    BY <2>1 DEF Under
  <2>3. Len(p) < Len(a)
    BY <2>1, <2>2, AbovePaths
  <2>. QED BY <2>1, <2>3
<1>2. Under(p, p)
  BY DEF Under
<1>. QED BY <1>1, <1>2 DEF BuildTree

LEMMA AddPathNamesIt ==
    ASSUME NEW acc \in Accs, NEW p \in Paths, p # <<>>, NEW fails, disk \in Disks, disk[p] # "none",
           acc.tree.state[Parent(p)] = "loaded"
    PROVE  p \in Named(AddPath(acc, p, fails).sent)
<1>1. Parent(p) \in Paths /\ acc.tree \in DaemonTrees
  BY ParentPath DEF Accs
<1>2. HasParentDir(ParentsMade(acc, p), p)
  <2>1. IsDir(acc.tree, Parent(p))
    BY DEF IsDir
  <2>. QED BY <1>1, <2>1, EnsureParentsKeepsDir DEF ParentsMade, HasParentDir
<1>3. ParentLoaded(acc.tree, p)
  BY DEF ParentLoaded
<1>4. ASSUME NEW t, NEW nodes, NEW s, <<p, s>> \in nodes
      PROVE  p \in Named(AddUnder(acc, p, ~ git, t, nodes).sent)
  <2>1. AddUnder(acc, p, ~ git, t, nodes) = Mutate(acc, t, p, nodes)
    BY <1>2, <1>3 DEF AddUnder
  <2>2. <<p, s>>[1] \in Named(Mutate(acc, t, p, nodes).sent)
    BY <1>4, MutateNames
  <2>. QED BY <2>1, <2>2
<1>5. p \in Named(AddFile(acc, p, ~ git).sent)
  <2>. DEFINE t == ApplyNode(ParentsMade(acc, p), <<p, "file">>)
              nodes == {<<p, "file">>}
  <2>1. <<p, "file">> \in nodes /\ AddUnder(acc, p, ~ git, t, nodes) = AddFile(acc, p, ~ git)
    BY DEF AddFile
  <2>. HIDE DEF t, nodes
  <2>. QED BY <1>4, <2>1
<1>6. p \in Named(AddEmptyDirectory(acc, p, ~ git).sent)
  <2>. DEFINE t == InsertChild(ParentsMade(acc, p), p, "unloaded")
              nodes == {<<p, "unloaded">>}
  <2>1. <<p, "unloaded">> \in nodes /\ AddUnder(acc, p, ~ git, t, nodes) = AddEmptyDirectory(acc, p, ~ git)
    BY DEF AddEmptyDirectory
  <2>. HIDE DEF t, nodes
  <2>. QED BY <1>4, <2>1
<1>7. p \in Named(AddDirectorySubtree(acc, p, ~ git, BuildTree(disk, p, MaxDepth + 1, git)).sent)
  <2>. DEFINE sub == BuildTree(disk, p, MaxDepth + 1, git)
  <2>1. <<p, sub.state[p]>> \in Flatten(sub)
    BY BuiltTreeHasRoot DEF Flatten, NodesOf
  <2>. HIDE DEF sub
  <2>2. p \in Named(AddDirectorySubtree(acc, p, ~ git, sub).sent)
    BY <1>4, <2>1 DEF AddDirectorySubtree
  <2>. QED BY <2>2 DEF sub
<1>. QED BY <1>5, <1>6, <1>7 DEF AddPath

LEMMA OrderHasAll ==
    ASSUME batch \in Batches, NEW order \in SetToSeqs(batch.added), NEW p \in batch.added
    PROVE  \E j \in DOMAIN order : p = order[j]
<1>. DEFINE D == 1 .. Cardinality(batch.added)
            rest == batch.added \ {p}
<1>1. batch.added \in SUBSET Paths /\ IsFiniteSet(batch.added) /\ Cardinality(batch.added) \in Nat
  BY PathsAssumption, FS_Subset, FS_CardinalityType DEF Batches
<1>2. IsFiniteSet(rest) /\ Cardinality(rest) = Cardinality(batch.added) - 1
  BY <1>1, FS_RemoveElement
<1>3. IsFiniteSet(D) /\ Cardinality(D) = Cardinality(batch.added)
  BY <1>1, FS_Interval
<1>4. order \in [D -> batch.added] /\ \A i, j \in D : i # j => order[i] # order[j]
  BY DEF SetToSeqs
<1>. SUFFICES ASSUME \A j \in DOMAIN order : order[j] # p PROVE FALSE
  OBVIOUS
<1>5. order \in [D -> rest]
  BY <1>4
<1>6. Cardinality(rest) < Cardinality(D)
  BY <1>1, <1>2, <1>3
<1>. HIDE DEF D, rest
<1>7. \E i, j \in D : i # j /\ order[i] = order[j]
  BY <1>2, <1>3, <1>5, <1>6, FS_PigeonHole
<1>. QED BY <1>4, <1>7

LEMMA WholeNames ==
    ASSUME NEW u \in Updates, NEW p, Whole(u, p), Parent(p) \in CalledLoaded(u)
    PROVE  p \in Named(u)
<1>1. PICK k \in DOMAIN u.patches : <<Parent(p), "loaded">> \in u.patches[k].nodes
  <2>1. PICK m \in NodesIn(u) : m[2] = "loaded" /\ m[1] = Parent(p)
    BY DEF CalledLoaded
  <2>2. PICK k \in DOMAIN u.patches : m \in u.patches[k].nodes
    BY DEF NodesIn
  <2>3. m = <<m[1], m[2]>>
    BY <2>2, PatchesOf DEF Patches
  <2>. QED BY <2>1, <2>2, <2>3
<1>. QED BY <1>1 DEF Whole, WholeIn, NamesIn, Named, NodesIn

LEMMA BatchNames ==
    ASSUME NEW start \in Accs, NEW order \in Seq(Paths), NEW fails, disk \in Disks,
           NEW j \in DOMAIN order, order[j] # <<>>, disk[order[j]] # "none",
           order[j] \notin FoundShut(start, order, fails)
    PROVE  order[j] \in Named(AllAdded(start, order, fails).sent)
<1>. DEFINE p == order[j]
<1>1. Len(order) \in Nat /\ DOMAIN order = 1 .. Len(order) /\ j \in 1 .. Len(order) /\ p \in Paths
  BY LenProperties, ElementOfSeq
<1>2. \A acc \in Accs : \A k \in 1 .. Len(order) : AddPath(acc, order[k], fails) \in Accs
  BY AddPathIsAcc, ElementOfSeq
<1>3. PICK f : AreAdded(f, start, order, fails, Accs) /\ AllAdded(start, order, fails) = f[Len(order)]
  <2>1. IsAdded(AllAdded(start, order, fails), start, order, fails, Accs)
    BY <1>2, AddedFold
  <2>. QED BY <2>1 DEF IsAdded
<1>4. AllAdded(start, SubSeq(order, 1, j - 1), fails) = f[j - 1]
  BY <1>1, <1>2, <1>3, AddedPrefix
<1>5. f[j - 1].tree.state[Parent(p)] = "loaded"
  BY <1>4 DEF FoundShut
<1>6. f[j] = AddPath(f[j - 1], p, fails) /\ f[j - 1] \in Accs
  BY <1>1, <1>3 DEF AreAdded
<1>. HIDE DEF p
<1>7. p \in Named(f[j].sent)
  BY <1>1, <1>5, <1>6, AddPathNamesIt DEF p
<1>. DEFINE N == {n \in Nat : j + n <= Len(order) => p \in Named(f[j + n].sent)}
<1>8. 0 \in N
  BY <1>1, <1>7
<1>9. ASSUME NEW n \in Nat, n \in N PROVE n + 1 \in N
  <2>. SUFFICES ASSUME j + (n + 1) <= Len(order) PROVE p \in Named(f[j + (n + 1)].sent)
    OBVIOUS
  <2>1. j + n \in 0 .. Len(order) /\ j + (n + 1) \in 1 .. Len(order) /\ (j + (n + 1)) - 1 = j + n
    BY <1>1
  <2>2. f[j + (n + 1)] = AddPath(f[j + n], order[j + (n + 1)], fails) /\ f[j + n] \in Accs
    BY <1>3, <2>1 DEF AreAdded
  <2>3. p \in Named(f[j + n].sent)
    BY <1>9, <2>1
  <2>. QED BY <2>2, <2>3, AddPathNames
<1>10. Nat \subseteq N
  <2>. HIDE DEF N
  <2>. QED BY <1>8, <1>9, NatInduct
<1>11. Len(order) - j \in N /\ j + (Len(order) - j) = Len(order)
  BY <1>1, <1>10
<1>. QED BY <1>1, <1>3, <1>11 DEF p

----------------------------------------------------------------------------
(* What holds apart from the copy's contents.                                  *)
DiskRight == disk[<<>>] = "dir" /\ \A p \in OnDisk : disk[Parent(p)] = "dir"
BatchRight == \A r \in batch.deleted : \A p \in OnDisk : Under(p, r) => p \in batch.added
ClosedAreEmpty == \A c \in Conns \ Registered : chan[c] = <<>>
NothingYet == repo # "indexed" => (\A c \in Conns : chan[c] = <<>>) /\ copy = NoTree /\ batch = NoBatch
CopyHasSession == copy # NoTree => Connected # {}
AnswersRight == \A a \in answers : a.update.removed = {} /\ CalledLoaded(a.update) \subseteq half
Side == DiskRight /\ BatchRight /\ ClosedAreEmpty /\ NothingYet /\ CopyHasSession /\ AnswersRight

LEMMA InitSide == Init => Side
<1>. SUFFICES ASSUME Init PROVE Side
  OBVIOUS
<1>1. DiskRight
  BY DEF Init, DiskRight, OnDisk
<1>. QED BY <1>1 DEF Init, Side, BatchRight, NoBatch, ClosedAreEmpty, NothingYet, CopyHasSession, AnswersRight

LEMMA UnderParent ==
    ASSUME NEW p \in Paths, p # <<>>, NEW r, Under(Parent(p), r)
    PROVE  Under(p, r)
BY AboveParent DEF Under

LEMMA UnderTransitive ==
    ASSUME NEW q \in Paths, NEW r \in Paths, NEW p \in Paths, Under(q, r), Under(r, p)
    PROVE  Under(q, p)
<1>1. ASSUME r \in Above(q), p \in Above(r) PROVE p \in Above(q)
  <2>1. Len(q) \in Nat /\ r = SubSeq(q, 1, Len(r)) /\ Len(r) < Len(q) /\ Len(r) \in Nat
    BY <1>1, AbovePaths, PathLength
  <2>2. p = SubSeq(r, 1, Len(p)) /\ Len(p) < Len(r) /\ Len(p) \in Nat
    BY <1>1, AbovePaths, PathLength
  <2>3. Len(SubSeq(q, 1, Len(p))) = Len(p) /\ \A i \in 1 .. Len(p) : SubSeq(q, 1, Len(p))[i] = q[i]
    BY <2>1, <2>2, Prefix
  <2>4. \A i \in 1 .. Len(r) : r[i] = q[i]
    BY <2>1, Prefix
  <2>5. \A i \in 1 .. Len(p) : p[i] = r[i]
    BY <2>2, Prefix
  <2>6. \A i \in 1 .. Len(p) : p[i] = SubSeq(q, 1, Len(p))[i]
    BY <2>1, <2>2, <2>3, <2>4, <2>5
  <2>7. p \in Seq(STRING) /\ SubSeq(q, 1, Len(p)) \in Seq(STRING)
    BY <2>1, <2>2, PathLength, Prefix
  <2>8. p = SubSeq(q, 1, Len(p))
    BY <2>3, <2>6, <2>7, SeqEqual
  <2>9. Len(p) \in 0 .. Len(q) - 1
    BY <2>1, <2>2
  <2>. QED BY <2>8, <2>9 DEF Above
<1>. QED BY <1>1 DEF Under

LEMMA DiskSide ==
    ASSUME Types, Side, NEW p \in Paths, RemoveFromDisk(p) \/ \E kind \in {"file", "dir"} : CreateOnDisk(p, kind)
    PROVE  Side'
<1>1. ASSUME NEW kind \in {"file", "dir"}, CreateOnDisk(p, kind) PROVE DiskRight' /\ BatchRight' /\ NothingYet'
  <2>1. /\ p # <<>> /\ disk[p] = "none" /\ disk[Parent(p)] = "dir" /\ Parent(p) \in Paths /\ Parent(p) # p
        /\ \A q \in Paths : disk'[q] = IF q = p THEN kind ELSE disk[q]
        /\ batch' = IF repo = "indexed" THEN [batch EXCEPT !.added = @ \cup {p}] ELSE batch
        /\ UNCHANGED <<repo, chan, copy>>
    BY <1>1, ParentPath, PathLength DEF CreateOnDisk, Change, Types, Disks, daemonVars, clientVars
  <2>2. OnDisk' = OnDisk \cup {p}
    BY <2>1 DEF OnDisk
  <2>3. DiskRight'
    <3>1. \A q \in OnDisk : Parent(q) \in Paths /\ disk[Parent(q)] = "dir"
      BY ParentPath DEF OnDisk, Side, DiskRight
    <3>. QED BY <2>1, <2>2, <3>1, PathsAssumption DEF Side, DiskRight
  <2>4. BatchRight'
    <3>1. CASE repo = "indexed"
      <4>1. batch'.added = batch.added \cup {p} /\ batch'.deleted = batch.deleted
        BY <2>1, <3>1 DEF Types, Batches
      <4>. QED BY <2>2, <4>1 DEF Side, BatchRight
    <3>2. CASE repo # "indexed"
      <4>1. batch' = NoBatch
        BY <2>1, <3>2 DEF Side, NothingYet
      <4>. QED BY <4>1 DEF BatchRight, NoBatch
    <3>. QED BY <3>1, <3>2
  <2>. QED BY <2>1, <2>3, <2>4 DEF Side, NothingYet
<1>2. ASSUME RemoveFromDisk(p) PROVE DiskRight' /\ BatchRight' /\ NothingYet'
  <2>. DEFINE gone == {q \in Paths : Under(q, p) /\ disk[q] # "none"}
  <2>1. /\ p # <<>>
        /\ \A q \in Paths : disk'[q] = IF q \in gone THEN "none" ELSE disk[q]
        /\ batch' = IF repo = "indexed"
                    THEN [added |-> batch.added \ gone, deleted |-> batch.deleted \cup (gone \ batch.added)]
                    ELSE batch
        /\ UNCHANGED <<repo, chan, copy>>
    BY <1>2 DEF RemoveFromDisk, Change, daemonVars, clientVars
  <2>2. <<>> \notin gone
    BY <2>1, RootIsNotUnder
  <2>3. \A q \in Paths : q \in gone <=> Under(q, p) /\ disk[q] # "none"
    OBVIOUS
  <2>. HIDE DEF gone
  <2>4. OnDisk' = OnDisk \ gone
    BY <2>1 DEF OnDisk
  <2>5. DiskRight'
    <3>1. ASSUME NEW q \in OnDisk \ gone PROVE disk'[Parent(q)] = "dir"
      <4>1. q \in Paths /\ q # <<>> /\ Parent(q) \in Paths /\ disk[Parent(q)] = "dir"
        BY ParentPath DEF OnDisk, Side, DiskRight
      <4>2. Parent(q) \notin gone
        BY <2>3, <3>1, <4>1, UnderParent DEF OnDisk
      <4>. QED BY <2>1, <4>1, <4>2
    <3>. QED BY <2>1, <2>2, <2>4, <3>1, PathsAssumption DEF Side, DiskRight
  <2>6. BatchRight'
    <3>1. CASE repo = "indexed"
      <4>1. batch'.added = batch.added \ gone /\ batch'.deleted = batch.deleted \cup (gone \ batch.added)
        BY <2>1, <3>1
      <4>2. ASSUME NEW r \in gone, NEW q \in OnDisk \ gone PROVE ~ Under(q, r)
        <5>1. q \in Paths /\ r \in Paths /\ disk[q] # "none" /\ Under(r, p) /\ ~ Under(q, p)
          BY <2>3, <4>2 DEF OnDisk, gone
        <5>. QED BY <5>1, UnderTransitive
      <4>. QED BY <2>4, <4>1, <4>2 DEF Side, BatchRight
    <3>2. CASE repo # "indexed"
      <4>1. batch' = NoBatch
        BY <2>1, <3>2 DEF Side, NothingYet
      <4>. QED BY <4>1 DEF BatchRight, NoBatch
    <3>. QED BY <3>1, <3>2
  <2>. QED BY <2>1, <2>5, <2>6 DEF Side, NothingYet
<1>3. UNCHANGED <<chan, link, copy, answers, half>>
  BY DEF RemoveFromDisk, CreateOnDisk, Change, daemonVars, clientVars
<1>. QED BY <1>1, <1>2, <1>3 DEF Side, ClosedAreEmpty, CopyHasSession, AnswersRight, Registered, Connected

(* A push goes to registered connections, and only for an indexed repository.      *)
LEMMA PushSide ==
    ASSUME Types, Side, repo' = "indexed", NEW to, to \subseteq Registered, NEW kind, NEW u, chan' = Push(to, kind, u),
           UNCHANGED link
    PROVE  ClosedAreEmpty' /\ NothingYet'
<1>1. \A c \in Conns \ Registered : chan'[c] = chan[c]
  BY DEF Push
<1>. QED BY <1>1 DEF Side, ClosedAreEmpty, NothingYet, Registered

LEMMA IndexSide ==
    ASSUME Types, Side, IndexCompletes \/ IndexFails
    PROVE  Side'
<1>1. UNCHANGED <<disk, batch, link, copy, answers, half>> /\ repo # "indexed"
  BY DEF IndexCompletes, IndexFails, clientVars
<1>2. ClosedAreEmpty' /\ NothingYet'
  <2>1. CASE IndexCompletes
    BY <1>1, <2>1, PushSide DEF IndexCompletes, SnapshotToAll
  <2>2. CASE IndexFails
    BY <2>2 DEF IndexFails, Side, ClosedAreEmpty, NothingYet, Registered, clientVars
  <2>. QED BY <2>1, <2>2
<1>. QED BY <1>1, <1>2 DEF Side, DiskRight, OnDisk, BatchRight, CopyHasSession, Connected, AnswersRight

LEMMA WatcherSide ==
    ASSUME Types, Side, WatcherEvent
    PROVE  Side'
<1>1. PICK u : chan' = Push(Registered, "update", u)
  BY DEF WatcherEvent
<1>2. UNCHANGED <<disk, repo, link, copy, answers>> /\ half \subseteq half' /\ repo = "indexed" /\ batch' = NoBatch
  BY DEF WatcherEvent, clientVars
<1>3. ClosedAreEmpty' /\ NothingYet'
  BY <1>1, <1>2, PushSide
<1>4. BatchRight'
  BY <1>2 DEF BatchRight, NoBatch
<1>. QED BY <1>2, <1>3, <1>4 DEF Side, DiskRight, OnDisk, CopyHasSession, Connected, AnswersRight

LEMMA ConnectionSide ==
    ASSUME Types, Side, NEW c \in Conns, Register(c) \/ MarkConnected(c) \/ Lose(c)
    PROVE  Side'
<1>1. UNCHANGED <<disk, batch, repo, half>> /\ answers' \subseteq answers
  BY DEF Register, MarkConnected, Lose, daemonVars, clientVars
<1>2. ClosedAreEmpty' /\ NothingYet' /\ CopyHasSession'
  <2>1. CASE Register(c)
    BY <2>1 DEF Register, Types, Side, ClosedAreEmpty, NothingYet, CopyHasSession, Registered, Connected, clientVars
  <2>2. CASE MarkConnected(c)
    BY <2>2 DEF MarkConnected, Types, Side, ClosedAreEmpty, NothingYet, CopyHasSession, Registered, Connected,
                daemonVars, clientVars
  <2>3. CASE Lose(c)
    <3>1. /\ \A d \in Conns : link'[d] = IF d = c THEN "lost" ELSE link[d]
          /\ \A d \in Conns : chan'[d] = IF d = c THEN <<>> ELSE chan[d]
          /\ copy' = IF Connected \subseteq {c} THEN NoTree ELSE copy
          /\ repo' = repo /\ batch' = batch
      BY <2>3 DEF Lose, Types, CopyAfterLoss
    <3>2. \A d \in Connected : d # c => d \in Connected'
      BY <3>1 DEF Connected
    <3>. QED BY <3>1, <3>2 DEF Side, ClosedAreEmpty, NothingYet, CopyHasSession, Registered
  <2>. QED BY <2>1, <2>2, <2>3
<1>. QED BY <1>1, <1>2 DEF Side, DiskRight, OnDisk, BatchRight, AnswersRight

LEMMA ResolveSide ==
    ASSUME Types, Side, NEW c \in Conns, Resolve(c)
    PROVE  Side'
<1>1. UNCHANGED <<disk, batch, link, copy, answers>>
  BY DEF Resolve, clientVars
<1>2. AnswersRight'
  <2>1. half' = half \/ answers = {}
    BY DEF Resolve, ResolveGit, ResolveLazily
  <2>. QED BY <1>1, <2>1 DEF Side, AnswersRight
<1>3. ClosedAreEmpty' /\ NothingYet'
  <2>1. CASE UNCHANGED chan /\ (repo' = repo \/ repo # "indexed")
    BY <1>1, <2>1 DEF Side, ClosedAreEmpty, NothingYet, Registered
  <2>2. ASSUME NEW to, to \subseteq Registered, NEW t, chan' = Push(to, "snapshot", t), repo' = "indexed"
        PROVE  ClosedAreEmpty' /\ NothingYet'
    BY <1>1, <2>2, PushSide
  <2>3. CASE ResolveGit(c)
    BY <2>1, <2>2, <2>3 DEF ResolveGit
  <2>4. CASE ResolveLazily(c)
    BY <2>1, <2>2, <2>4 DEF ResolveLazily, SnapshotToAll
  <2>. QED BY <2>3, <2>4 DEF Resolve
<1>. QED BY <1>1, <1>2, <1>3 DEF Side, DiskRight, OnDisk, BatchRight, CopyHasSession, Connected

LEMMA ListIsAnswer ==
    ASSUME NEW t, NEW p
    PROVE  ListDirectory(t, p).removed = {}
BY DEF ListDirectory, Update

LEMMA RequestSide ==
    ASSUME Types, Side, NEW c \in Conns,
           Navigate(c) \/ Detect(c) \/ (\E p \in Paths : AskToLoad(c, p)) \/ LoadDirectory(c)
    PROVE  Side'
<1>1. UNCHANGED <<disk, batch, link, copy, chan>> /\ (repo' = repo \/ (repo # "indexed" /\ repo' # "indexed"))
  <2>1. CASE Detect(c)
    BY <2>1 DEF Detect, clientVars
  <2>2. CASE ~ Detect(c)
    BY <2>2 DEF Navigate, AskToLoad, LoadDirectory, daemonVars, clientVars
  <2>. QED BY <2>1, <2>2
<1>2. AnswersRight'
  <2>1. CASE UNCHANGED <<answers, half>>
    BY <2>1 DEF Side, AnswersRight
  <2>2. CASE /\ answers' = answers \cup {[conn |-> d, update |-> ListDirectory(tree', want[c])] : d \in {c} \cap Registered}
             /\ half' = half \cup (HalfListed(tree') \ {want[c]}) \cup CalledLoaded(ListDirectory(tree', want[c]))
    <3>1. \A a \in answers' : a \in answers \/ a.update = ListDirectory(tree', want[c])
      BY <2>2
    <3>. QED BY <2>2, <3>1, ListIsAnswer DEF Side, AnswersRight
  <2>. QED BY <2>1, <2>2 DEF Navigate, Detect, AskToLoad, LoadDirectory
<1>. QED BY <1>1, <1>2 DEF Side, DiskRight, OnDisk, BatchRight, ClosedAreEmpty, NothingYet, CopyHasSession, Registered,
                            Connected

LEMMA DeliverSide ==
    ASSUME Types, Side, NEW c \in Conns, Deliver(c)
    PROVE  Side'
<1>1. UNCHANGED <<disk, batch, link, repo, answers, half>>
  BY DEF Deliver, daemonVars
<1>2. /\ c \in Registered /\ chan[c] # <<>>
      /\ \A d \in Conns : d # c => chan'[d] = chan[d]
      /\ copy' = copy \/ c \in Connected
  BY DEF Deliver, Types, Connected
<1>3. repo = "indexed"
  BY <1>2 DEF Side, NothingYet
<1>. QED BY <1>1, <1>2, <1>3 DEF Side, DiskRight, OnDisk, BatchRight, ClosedAreEmpty, NothingYet, CopyHasSession,
                            AnswersRight, Registered, Connected

LEMMA DeliverAnswerSide ==
    ASSUME Types, Side, NEW a \in answers, DeliverAnswer(a)
    PROVE  Side'
<1>1. UNCHANGED <<disk, batch, link, repo, chan, half>> /\ answers' \subseteq answers
  BY DEF DeliverAnswer, daemonVars
<1>2. copy = NoTree => copy' = NoTree
  BY DEF DeliverAnswer, ApplyIncremental
<1>. QED BY <1>1, <1>2 DEF Side, DiskRight, OnDisk, BatchRight, ClosedAreEmpty, NothingYet, CopyHasSession,
                            AnswersRight, Registered, Connected

LEMMA NextSide == Types /\ Side /\ [Next]_vars => Side'
<1>. SUFFICES ASSUME Types, Side, [Next]_vars PROVE Side'
  OBVIOUS
<1>1. CASE UNCHANGED vars
  BY <1>1 DEF vars, daemonVars, clientVars, Side, DiskRight, OnDisk, BatchRight, ClosedAreEmpty, NothingYet,
              CopyHasSession, AnswersRight, Registered, Connected
<1>2. CASE Next
  BY <1>2, DiskSide, IndexSide, WatcherSide, ConnectionSide, ResolveSide, RequestSide, DeliverSide,
     DeliverAnswerSide DEF Next
<1>. QED BY <1>1, <1>2

----------------------------------------------------------------------------
(* The argument for CopyCovers.  A path is due when it is on the disk, the watcher   *)
(* has told of it and the daemon has had and passed on everything of its directory.  *)
(* For a path that is due, the daemon's tree lists it; a push on its way leaves it    *)
(* listed, or it is followed by one that makes it so; and the copy lists it or some    *)
(* connection brings what makes it so.  A snapshot that is older than what the copy   *)
(* has, and overtakes, is harmless for that reason only.                          *)
Due == {p \in OnDisk : p \notin batch.added /\ Parent(p) \notin half}

FixedFrom(c, k, p) == \E j \in DOMAIN chan[c] : j >= k /\ Fixes(chan[c][j], p)
ChanRight(p) == \A c \in Conns : \A k \in DOMAIN chan[c] : Spares(chan[c][k], p) \/ FixedFrom(c, k, p)
Mended(p) == \E c \in Connected : \E j \in DOMAIN chan[c] : Fixes(chan[c][j], p)
CopyRight(p) == copy # NoTree /\ ~ stale => Lists(copy, p) \/ Mended(p)
TreeRight(p) == repo = "indexed" => ListsIfLoaded(tree, p)
Right(p) == ChanRight(p) /\ CopyRight(p) /\ TreeRight(p)
AllRight == \A p \in Due : Right(p)

LEMMA DueIsPath == \A p \in Due : p \in Paths /\ p # <<>> /\ disk[p] # "none"
BY DEF Due, OnDisk

LEMMA NothingIsRight ==
    ASSUME NothingYet', repo' # "indexed"
    PROVE  AllRight'
BY DEF NothingYet, AllRight, Right, ChanRight, CopyRight, TreeRight

LEMMA LessDue ==
    ASSUME UNCHANGED <<disk, batch>>, half \subseteq half'
    PROVE  Due' \subseteq Due
BY DEF Due, OnDisk

LEMMA StaysRight ==
    ASSUME AllRight, Due' \subseteq Due, Connected \subseteq Connected', UNCHANGED <<chan, copy, stale, repo, tree>>
    PROVE  AllRight'
BY DEF AllRight, Right, ChanRight, FixedFrom, CopyRight, Mended, TreeRight

(* A push leaves right what it spares, and makes right what it fixes.              *)
LEMMA PushIsRight ==
    ASSUME chan \in [Conns -> Seq(Messages)], ClosedAreEmpty, NEW to, to \subseteq Registered,
           NEW kind, NEW u, chan' = Push(to, kind, u), NEW p
    PROVE  LET m == [kind |-> kind, update |-> u] IN
           /\ ChanRight(p) /\ (Spares(m, p) \/ Fixes(m, p)) => ChanRight(p)'
           /\ to = Registered /\ Fixes(m, p) => ChanRight(p)'
<1>. DEFINE m == [kind |-> kind, update |-> u]
<1>1. ASSUME NEW c \in Conns
      PROVE  /\ chan[c] \in Seq(Messages) /\ Len(chan[c]) \in Nat /\ DOMAIN chan[c] = 1 .. Len(chan[c])
             /\ chan'[c] = IF c \in to THEN Append(chan[c], m) ELSE chan[c]
  BY LenProperties DEF Push
<1>2. ASSUME NEW c \in to
      PROVE  /\ DOMAIN chan'[c] = 1 .. Len(chan[c]) + 1 /\ chan'[c][Len(chan[c]) + 1] = m
             /\ \A k \in DOMAIN chan[c] : k \in DOMAIN chan'[c] /\ chan'[c][k] = chan[c][k]
  <2>1. c \in Conns
    BY DEF Registered
  <2>2. /\ chan[c] \in Seq(Messages) /\ Len(chan[c]) \in Nat /\ DOMAIN chan[c] = 1 .. Len(chan[c])
        /\ chan'[c] = Append(chan[c], m)
    BY <1>1, <2>1
  <2>. HIDE DEF m
  <2>. QED BY <2>2
<1>. HIDE DEF m
<1>3. ASSUME NEW c \in to, Fixes(m, p), NEW k \in DOMAIN chan'[c] PROVE FixedFrom(c, k, p)'
  <2>1. c \in Conns
    BY DEF Registered
  <2>. QED BY <1>1, <1>2, <1>3, <2>1 DEF FixedFrom
<1>4. ASSUME NEW c \in Conns, NEW k \in DOMAIN chan[c], FixedFrom(c, k, p) PROVE FixedFrom(c, k, p)'
  <2>1. \A j \in DOMAIN chan[c] : j \in DOMAIN chan'[c] /\ chan'[c][j] = chan[c][j]
    BY <1>1, <1>2
  <2>. QED BY <1>4, <2>1 DEF FixedFrom
<1>5. ASSUME ChanRight(p), Spares(m, p), NEW c \in Conns, NEW k \in DOMAIN chan'[c]
      PROVE  Spares(chan'[c][k], p) \/ FixedFrom(c, k, p)'
  <2>1. CASE k \in DOMAIN chan[c]
    <3>1. chan'[c][k] = chan[c][k]
      BY <1>1, <1>2, <2>1
    <3>. QED BY <1>4, <1>5, <2>1, <3>1 DEF ChanRight
  <2>2. CASE k \notin DOMAIN chan[c]
    <3>1. c \in to /\ chan'[c][k] = m
      BY <1>1, <1>2, <1>5, <2>2
    <3>. QED BY <1>5, <3>1
  <2>. QED BY <2>1, <2>2
<1>6. ASSUME ChanRight(p), Fixes(m, p), NEW c \in Conns, NEW k \in DOMAIN chan'[c]
      PROVE  Spares(chan'[c][k], p) \/ FixedFrom(c, k, p)'
  <2>1. CASE c \in to
    BY <1>3, <1>6, <2>1
  <2>2. CASE c \notin to
    BY <1>1, <1>4, <1>6, <2>2 DEF ChanRight
  <2>. QED BY <2>1, <2>2
<1>7. ASSUME to = Registered, Fixes(m, p), NEW c \in Conns, NEW k \in DOMAIN chan'[c]
      PROVE  Spares(chan'[c][k], p) \/ FixedFrom(c, k, p)'
  <2>1. c \in to
    <3>. SUFFICES ASSUME c \notin to PROVE FALSE
      OBVIOUS
    <3>1. chan'[c] = <<>>
      BY <1>1, <1>7 DEF ClosedAreEmpty
    <3>. QED BY <1>7, <3>1
  <2>. QED BY <1>3, <1>7, <2>1
<1>8. ChanRight(p) /\ (Spares(m, p) \/ Fixes(m, p)) => ChanRight(p)'
  BY <1>5, <1>6 DEF ChanRight
<1>9. to = Registered /\ Fixes(m, p) => ChanRight(p)'
  BY <1>7 DEF ChanRight
<1>. QED BY <1>8, <1>9 DEF m

LEMMA PushMends ==
    ASSUME chan \in [Conns -> Seq(Messages)], NEW to, to \subseteq Registered,
           NEW kind, NEW u, chan' = Push(to, kind, u), UNCHANGED link, NEW p
    PROVE  /\ Mended(p) => Mended(p)'
           /\ to = Registered /\ Connected # {} /\ Fixes([kind |-> kind, update |-> u], p) => Mended(p)'
<1>. DEFINE m == [kind |-> kind, update |-> u]
<1>1. ASSUME NEW c \in Conns
      PROVE  /\ \A k \in DOMAIN chan[c] : k \in DOMAIN chan'[c] /\ chan'[c][k] = chan[c][k]
             /\ c \in to => Len(chan[c]) + 1 \in DOMAIN chan'[c] /\ chan'[c][Len(chan[c]) + 1] = m
  <2>1. /\ chan[c] \in Seq(Messages) /\ Len(chan[c]) \in Nat /\ DOMAIN chan[c] = 1 .. Len(chan[c])
        /\ chan'[c] = IF c \in to THEN Append(chan[c], m) ELSE chan[c]
    BY LenProperties DEF Push
  <2>. HIDE DEF m
  <2>. QED BY <2>1
<1>. HIDE DEF m
<1>2. Connected' = Connected /\ Connected \subseteq Conns /\ Connected \subseteq Registered
  BY DEF Connected, Registered
<1>3. Mended(p) => Mended(p)'
  BY <1>1, <1>2 DEF Mended
<1>4. ASSUME to = Registered, Connected # {}, Fixes(m, p) PROVE Mended(p)'
  <2>1. PICK c \in Connected : TRUE
    BY <1>4
  <2>2. Len(chan[c]) + 1 \in DOMAIN chan'[c] /\ chan'[c][Len(chan[c]) + 1] = m
    BY <1>1, <1>2, <1>4
  <2>. QED BY <1>2, <1>4, <2>2 DEF Mended
<1>. QED BY <1>3, <1>4 DEF m

(* A snapshot of a tree that lists p, to everybody.                               *)
LEMMA SnapshotToAllIsRight ==
    ASSUME Types, Side, NEW t \in DaemonTrees, NEW p \in Paths, p # <<>>, ListsIfLoaded(t, p),
           chan' = Push(Registered, "snapshot", SnapshotOf(t)), tree' = t, UNCHANGED <<link, copy>>
    PROVE  Right(p)'
<1>1. Fixes([kind |-> "snapshot", update |-> SnapshotOf(t)], p)
  BY SnapshotIsWhole DEF SnapshotMessage
<1>. DEFINE to == Registered
            u == SnapshotOf(t)
<1>2. /\ chan \in [Conns -> Seq(Messages)] /\ ClosedAreEmpty
      /\ to \subseteq Registered /\ to = Registered /\ chan' = Push(to, "snapshot", u)
      /\ Fixes([kind |-> "snapshot", update |-> u], p)
  BY <1>1 DEF Types, Side
<1>. HIDE DEF to, u
<1>3. ChanRight(p)'
  BY <1>2, PushIsRight
<1>4. copy # NoTree => Mended(p)'
  BY <1>2, PushMends DEF Side, CopyHasSession
<1>. QED BY <1>3, <1>4 DEF Right, CopyRight, TreeRight

LEMMA DiskIsRight ==
    ASSUME Types, Side, AllRight, NEW p \in Paths, RemoveFromDisk(p) \/ \E kind \in {"file", "dir"} : CreateOnDisk(p, kind)
    PROVE  AllRight'
<1>1. UNCHANGED <<chan, link, copy, stale, repo, tree, half>>
  BY DEF RemoveFromDisk, CreateOnDisk, Change, daemonVars, clientVars
<1>2. CASE repo = "indexed"
  <2>1. ASSUME NEW kind \in {"file", "dir"}, CreateOnDisk(p, kind) PROVE Due' \subseteq Due
    <3>1. /\ \A q \in Paths : disk'[q] = IF q = p THEN kind ELSE disk[q]
          /\ batch'.added = batch.added \cup {p}
      BY <1>2, <2>1 DEF CreateOnDisk, Change, Types, Disks, Batches
    <3>. QED BY <1>1, <3>1 DEF Due, OnDisk
  <2>2. ASSUME RemoveFromDisk(p) PROVE Due' \subseteq Due
    <3>. DEFINE gone == {q \in Paths : Under(q, p) /\ disk[q] # "none"}
    <3>1. /\ \A q \in Paths : disk'[q] = IF q \in gone THEN "none" ELSE disk[q]
          /\ batch'.added = batch.added \ gone
      BY <1>2, <2>2 DEF RemoveFromDisk, Change
    <3>. HIDE DEF gone
    <3>. QED BY <1>1, <3>1 DEF Due, OnDisk
  <2>3. Due' \subseteq Due
    BY <2>1, <2>2
  <2>4. Connected \subseteq Connected'
    BY <1>1 DEF Connected
  <2>. QED BY <1>1, <2>3, <2>4, StaysRight
<1>3. CASE repo # "indexed"
  BY <1>1, <1>3, DiskSide, NothingIsRight DEF Side
<1>. QED BY <1>2, <1>3

LEMMA IndexIsRight ==
    ASSUME Types, Side, IndexCompletes \/ IndexFails
    PROVE  AllRight'
<1>1. CASE IndexCompletes
  <2>1. UNCHANGED <<disk, link, copy>> /\ tree' = BuildTree(disk, <<>>, MaxDepth + 1, TRUE)
        /\ chan' = Push(Registered, "snapshot", SnapshotOf(tree'))
    BY <1>1 DEF IndexCompletes, SnapshotToAll, clientVars
  <2>2. tree' \in DaemonTrees
    BY <2>1, BuildTreeIsTree, PathsAssumption DEF Types
  <2>3. ASSUME NEW p \in Due' PROVE Right(p)'
    <3>1. p \in Paths /\ p # <<>> /\ disk[p] # "none"
      BY <2>1 DEF Due, OnDisk
    <3>2. ListsIfLoaded(tree', p)
      <4>1. MaxDepth + 1 \in Nat \ {0} /\ disk \in Disks /\ disk[<<>>] = "dir"
        BY LongestPath DEF Types, Side, DiskRight
      <4>. QED BY <2>1, <3>1, <4>1, BuiltTreeLists
    <3>. QED BY <2>1, <2>2, <3>1, <3>2, SnapshotToAllIsRight
  <2>. QED BY <2>3 DEF AllRight
<1>2. CASE IndexFails
  <2>1. repo' # "indexed"
    BY <1>2 DEF IndexFails
  <2>. QED BY <2>1, IndexSide, NothingIsRight DEF Side
<1>. QED BY <1>1, <1>2

LEMMA WatcherIsRight ==
    ASSUME Types, Side, AllRight, WatcherEvent
    PROVE  AllRight'
<1>1. tree \in DaemonTrees /\ repo = "indexed" /\ UNCHANGED <<disk, repo, link, copy, stale>> /\ batch' = NoBatch
  BY DEF WatcherEvent, Types, clientVars
<1>2. PICK order \in SetToSeqs(batch.added), fails \in BOOLEAN :
         LET start == AllDeleted([tree |-> tree, sent |-> Update({}, <<>>)], batch.deleted)
             end == AllAdded(start, order, fails)
         IN  /\ tree' = end.tree /\ chan' = Push(Registered, "update", end.sent)
             /\ half' = half \cup HalfListed(end.tree)
                             \cup ({Parent(p) : p \in FoundShut(start, order, fails) \ Named(end.sent)}
                                  \ CalledLoaded(end.sent))
  BY DEF WatcherEvent, AllDeleted
<1>. DEFINE start == AllDeleted([tree |-> tree, sent |-> Update({}, <<>>)], batch.deleted)
            end == AllAdded(start, order, fails)
            u == end.sent
            m == [kind |-> "update", update |-> u]
<1>3. end \in WholeAccs
  BY <1>1, WatcherBatchIsWhole DEF Types
<1>4. /\ tree' = end.tree /\ chan' = Push(Registered, "update", u)
      /\ half' = half \cup HalfListed(tree')
                      \cup ({Parent(p) : p \in FoundShut(start, order, fails) \ Named(u)} \ CalledLoaded(u))
  BY <1>2
<1>9. start \in Accs /\ disk \in Disks /\ batch \in Batches /\ order \in Seq(Paths)
  BY <1>1, StartIsAcc, OrderIsSeq DEF Types
<1>10. ASSUME NEW p \in batch.added, disk[p] # "none", Parent(p) \notin half', Whole(u, p) PROVE p \in Named(u)
  <2>1. PICK j \in DOMAIN order : p = order[j]
    BY <1>9, <1>10, OrderHasAll
  <2>2. CASE p \in FoundShut(start, order, fails)
    <3>. SUFFICES ASSUME p \notin Named(u) PROVE FALSE
      OBVIOUS
    <3>1. Parent(p) \in CalledLoaded(u)
      BY <1>4, <1>10, <2>2
    <3>2. u \in Updates
      BY <1>3 DEF WholeAccs, Accs
    <3>. HIDE DEF u
    <3>. QED BY <1>10, <3>1, <3>2, WholeNames
  <2>3. CASE p \notin FoundShut(start, order, fails)
    <3>1. p # <<>>
      BY <1>9 DEF Batches
    <3>. HIDE DEF start
    <3>2. p \in Named(AllAdded(start, order, fails).sent)
      BY <1>9, <1>10, <2>1, <2>3, <3>1, BatchNames
    <3>. QED BY <3>2
  <2>. QED BY <2>2, <2>3
<1>. HIDE DEF start, end
<1>5. u \in Updates /\ u.removed \subseteq batch.deleted /\ \A p \in OnDisk : Whole(u, p)
  BY <1>3 DEF WholeAccs, Accs
<1>6. m.kind = "update" /\ m.update = u
  OBVIOUS
<1>. DEFINE to == Registered
<1>7. /\ chan \in [Conns -> Seq(Messages)] /\ ClosedAreEmpty
      /\ to \subseteq Registered /\ to = Registered /\ chan' = Push(to, "update", u)
  BY <1>4 DEF Types, Side
<1>8. ASSUME NEW p \in Due' PROVE Right(p)'
  <2>1. p \in Paths /\ p # <<>> /\ disk[p] # "none" /\ p \in OnDisk /\ Parent(p) \notin half' /\ Whole(u, p)
    BY <1>1, <1>5 DEF Due, OnDisk
  <2>2. TreeRight(p)'
    <3>1. ASSUME Parent(p) \in LoadedIn(tree'), p \notin Shown(tree') PROVE FALSE
      BY <1>4, <2>1, <3>1 DEF HalfListed
    <3>. QED BY <3>1 DEF TreeRight, ListsIfLoaded
  <2>3. CASE p \in batch.added
    <3>1. p \in Named(u)
      BY <1>10, <2>1, <2>3
    <3>2. Fixes([kind |-> "update", update |-> u], p)
      BY <2>1, <3>1 DEF Fixes
    <3>. HIDE DEF m, u, to
    <3>3. ChanRight(p)'
      BY <1>7, <3>2, PushIsRight
    <3>4. copy # NoTree => Mended(p)'
      BY <1>1, <1>7, <3>2, PushMends DEF Side, CopyHasSession
    <3>. QED BY <1>1, <2>2, <3>3, <3>4 DEF Right, CopyRight
  <2>4. CASE p \notin batch.added
    <3>1. p \in Due
      BY <1>4, <2>1, <2>4 DEF Due
    <3>2. ~ Touches(u, p)
      BY <1>5, <2>1, <2>4 DEF Side, BatchRight, Touches
    <3>3. Spares([kind |-> "update", update |-> u], p)
      BY <2>1, <3>2 DEF Spares
    <3>4. ChanRight(p) /\ CopyRight(p)
      BY <3>1 DEF AllRight, Right
    <3>. HIDE DEF m, u, to
    <3>5. ChanRight(p)'
      BY <1>7, <3>3, <3>4, PushIsRight
    <3>6. Mended(p) => Mended(p)'
      BY <1>1, <1>7, PushMends
    <3>. QED BY <1>1, <2>2, <3>4, <3>5, <3>6 DEF Right, CopyRight
  <2>. QED BY <2>3, <2>4
<1>. QED BY <1>8 DEF AllRight

LEMMA ConnectionIsRight ==
    ASSUME Types, Side, AllRight, NEW c \in Conns, Register(c) \/ MarkConnected(c) \/ Lose(c)
    PROVE  AllRight'
<1>1. UNCHANGED <<disk, batch, repo, tree, half>>
  BY DEF Register, MarkConnected, Lose, daemonVars
<1>2. Due' = Due
  BY <1>1 DEF Due, OnDisk
<1>3. CASE Register(c) \/ MarkConnected(c)
  <2>1. UNCHANGED <<chan, copy, stale>> /\ Connected \subseteq Connected'
    BY <1>3 DEF Register, MarkConnected, Types, Connected, clientVars
  <2>. QED BY <1>1, <1>2, <2>1, StaysRight
<1>4. CASE Lose(c)
  <2>1. /\ \A d \in Conns : link'[d] = IF d = c THEN "lost" ELSE link[d]
        /\ \A d \in Conns : chan'[d] = IF d = c THEN <<>> ELSE chan[d]
        /\ copy' \in {NoTree, copy}
        /\ stale' = (copy' # NoTree /\ (stale \/ chan[c] # <<>>))
    BY <1>4 DEF Lose, Types, CopyAfterLoss
  <2>2. ASSUME NEW p \in Due PROVE Right(p)'
    <3>1. Right(p)
      BY <2>2 DEF AllRight
    <3>2. ChanRight(p)'
      BY <2>1, <3>1 DEF Right, ChanRight, FixedFrom
    <3>3. CopyRight(p)'
      <4>. SUFFICES ASSUME copy' # NoTree, ~ stale' PROVE Lists(copy', p) \/ Mended(p)'
        BY DEF CopyRight
      <4>1. copy' = copy /\ copy # NoTree /\ chan[c] = <<>> /\ (Lists(copy, p) \/ Mended(p))
        BY <2>1, <3>1 DEF Right, CopyRight
      <4>2. ASSUME Mended(p) PROVE Mended(p)'
        <5>1. PICK d \in Connected : \E j \in DOMAIN chan[d] : Fixes(chan[d][j], p)
          BY <4>2 DEF Mended
        <5>2. d # c
          BY <4>1, <5>1
        <5>3. d \in Connected' /\ chan'[d] = chan[d]
          BY <2>1, <5>1, <5>2 DEF Connected
        <5>. QED BY <5>1, <5>3 DEF Mended
      <4>. QED BY <4>1, <4>2
    <3>. QED BY <1>1, <3>1, <3>2, <3>3 DEF Right, TreeRight
  <2>. QED BY <1>2, <2>2 DEF AllRight
<1>. QED BY <1>3, <1>4

LEMMA ResolveIsRight ==
    ASSUME Types, Side, AllRight, NEW c \in Conns, Resolve(c)
    PROVE  AllRight'
<1>1. UNCHANGED <<disk, batch, link, copy, stale>>
  BY DEF Resolve, clientVars
<1>2. Connected' = Connected
  BY <1>1 DEF Connected
<1>3. CASE UNCHANGED <<chan, repo, tree, half>>
  BY <1>1, <1>2, <1>3, LessDue, StaysRight
<1>4. CASE /\ repo = "indexed"
           /\ chan' = Push({c} \cap Registered, "snapshot", SnapshotOf(tree))
           /\ UNCHANGED <<repo, tree, half>>
  <2>. DEFINE to == {c} \cap Registered
              u == SnapshotOf(tree)
  <2>1. /\ chan \in [Conns -> Seq(Messages)] /\ ClosedAreEmpty
        /\ to \subseteq Registered /\ chan' = Push(to, "snapshot", u)
    BY <1>4 DEF Types, Side
  <2>2. ASSUME NEW p \in Due PROVE Right(p)'
    <3>1. p \in Paths /\ p # <<>> /\ Right(p) /\ ListsIfLoaded(tree, p) /\ tree \in DaemonTrees
      BY <1>4, DueIsPath DEF AllRight, Right, TreeRight, Types
    <3>2. Fixes([kind |-> "snapshot", update |-> u], p)
      BY <3>1, SnapshotIsWhole DEF SnapshotMessage
    <3>. HIDE DEF to, u
    <3>3. ChanRight(p)'
      BY <2>1, <3>1, <3>2, PushIsRight DEF Right
    <3>4. Mended(p) => Mended(p)'
      BY <1>1, <2>1, PushMends
    <3>. QED BY <1>1, <1>4, <3>1, <3>3, <3>4 DEF Right, CopyRight, TreeRight
  <2>. QED BY <1>1, <1>4, <2>2, LessDue DEF AllRight
<1>5. CASE /\ repo = "indexed"
           /\ chan' = Push(Registered, "snapshot", SnapshotOf(tree))
           /\ half' = IF answers = {} THEN half \cap HalfListed(tree) ELSE half
           /\ UNCHANGED <<repo, tree, sent>>
  <2>1. ASSUME NEW p \in Due' PROVE Right(p)'
    <3>1. p \in Paths /\ p # <<>> /\ disk[p] # "none" /\ p \in OnDisk /\ p \notin batch.added /\ Parent(p) \notin half'
      BY <1>1 DEF Due, OnDisk
    <3>2. ListsIfLoaded(tree, p)
      <4>1. CASE Parent(p) \notin half
        <5>1. p \in Due
          BY <3>1, <4>1 DEF Due
        <5>. QED BY <1>5, <5>1 DEF AllRight, Right, TreeRight
      <4>2. CASE Parent(p) \in half
        <5>1. Parent(p) \notin HalfListed(tree)
          BY <1>5, <3>1, <4>2
        <5>. QED BY <3>1, <5>1 DEF HalfListed, ListsIfLoaded
      <4>. QED BY <4>1, <4>2
    <3>3. tree \in DaemonTrees
      BY <1>5 DEF Types
    <3>. QED BY <1>1, <1>5, <3>1, <3>2, <3>3, SnapshotToAllIsRight
  <2>. QED BY <2>1 DEF AllRight
<1>6. CASE /\ repo' = "indexed"
           /\ tree' = BuildTree(disk, <<>>, 1, FALSE)
           /\ SnapshotToAll(tree')
           /\ UNCHANGED half
  <2>1. tree' \in DaemonTrees
    BY <1>6, BuildTreeIsTree, PathsAssumption DEF Types
  <2>2. ASSUME NEW p \in Due' PROVE Right(p)'
    <3>1. p \in Paths /\ p # <<>> /\ disk[p] # "none"
      BY <1>1 DEF Due, OnDisk
    <3>2. ListsIfLoaded(tree', p)
      <4>1. 1 \in Nat \ {0} /\ disk \in Disks /\ disk[<<>>] = "dir"
        BY DEF Types, Side, DiskRight
      <4>. QED BY <1>6, <3>1, <4>1, BuiltTreeLists
    <3>. QED BY <1>1, <1>6, <2>1, <3>1, <3>2, SnapshotToAllIsRight DEF SnapshotToAll
  <2>. QED BY <2>2 DEF AllRight
<1>7. CASE repo' = "failed"
  BY <1>7, ResolveSide, NothingIsRight DEF Side
<1>. QED BY <1>3, <1>4, <1>5, <1>6, <1>7 DEF Resolve, ResolveGit, ResolveLazily

LEMMA RequestIsRight ==
    ASSUME Types, Side, AllRight, NEW c \in Conns,
           Navigate(c) \/ Detect(c) \/ (\E p \in Paths : AskToLoad(c, p)) \/ LoadDirectory(c)
    PROVE  AllRight'
<1>1. UNCHANGED <<disk, batch, chan, link, copy, stale>>
  BY DEF Navigate, Detect, AskToLoad, LoadDirectory, daemonVars, clientVars
<1>2. Connected' = Connected
  BY <1>1 DEF Connected
<1>3. CASE UNCHANGED <<repo, tree, half>>
  BY <1>1, <1>2, <1>3, LessDue, StaysRight
<1>4. CASE repo' # "indexed"
  BY <1>4, RequestSide, NothingIsRight DEF Side
<1>5. CASE /\ repo = "indexed" /\ repo' = repo /\ disk[want[c]] # "none" /\ want[c] # NoPath
           /\ tree' = LoadAtPath(tree, want[c], disk)
           /\ half' = half \cup (HalfListed(tree') \ {want[c]}) \cup CalledLoaded(ListDirectory(tree', want[c]))
  <2>1. Due' \subseteq Due
    BY <1>1, <1>5, LessDue
  <2>2. ASSUME NEW p \in Due' PROVE Right(p)'
    <3>1. Right(p) /\ p \in Paths /\ p # <<>> /\ disk[p] # "none" /\ p \in OnDisk /\ Parent(p) \notin half'
      BY <1>1, <2>1 DEF AllRight, Due, OnDisk
    <3>2. ListsIfLoaded(tree', p)
      <4>1. CASE Parent(p) = want[c]
        <5>1. tree \in DaemonTrees /\ disk \in Disks /\ disk[Parent(p)] = "dir"
          BY <1>5, <3>1 DEF Types, Side, DiskRight
        <5>. QED BY <1>5, <3>1, <4>1, <5>1, LoadedDirectoryLists
      <4>2. CASE Parent(p) # want[c]
        <5>1. ASSUME Parent(p) \in LoadedIn(tree'), p \notin Shown(tree') PROVE Parent(p) \in HalfListed(tree')
          BY <1>1, <3>1, <5>1 DEF HalfListed
        <5>. QED BY <1>5, <3>1, <4>2, <5>1 DEF ListsIfLoaded
      <4>. QED BY <4>1, <4>2
    <3>. QED BY <1>1, <1>2, <3>1, <3>2 DEF Right, ChanRight, FixedFrom, CopyRight, Mended, TreeRight
  <2>. QED BY <2>2 DEF AllRight
<1>6. CASE Detect(c)
  BY <1>3, <1>4, <1>6 DEF Detect
<1>7. CASE LoadDirectory(c)
  BY <1>3, <1>5, <1>7 DEF LoadDirectory
<1>. QED BY <1>3, <1>6, <1>7 DEF Navigate, AskToLoad, daemonVars

LEMMA DeliverIsRight ==
    ASSUME Types, Side, AllRight, NEW c \in Conns, Deliver(c)
    PROVE  AllRight'
<1>. DEFINE q == chan[c]
            m == Head(q)
<1>1. /\ UNCHANGED <<disk, batch, link, repo, tree, half>>
      /\ c \in Registered /\ q \in Seq(Messages) /\ q # <<>>
      /\ chan'[c] = Tail(q)
      /\ \A d \in Conns : d # c => chan'[d] = chan[d]
  BY DEF Deliver, Types, daemonVars
<1>2. Due' = Due /\ Connected' = Connected
  BY <1>1 DEF Due, OnDisk, Connected
<1>3. \/ /\ c \in Connected
         /\ copy' = IF m.kind = "snapshot" THEN FromSnapshot(m.update) ELSE ApplyIncremental(m.update)
         /\ stale' = (stale /\ m.kind # "snapshot")
      \/ c \notin Connected /\ UNCHANGED <<copy, stale>>
  BY DEF Deliver, Connected
<1>. HIDE DEF m, q
<1>4. /\ Len(q) \in Nat /\ DOMAIN q = 1 .. Len(q) /\ 1 \in DOMAIN q /\ q[1] = m /\ m \in Messages
      /\ DOMAIN Tail(q) = 1 .. Len(q) - 1
      /\ \A k \in DOMAIN Tail(q) : k + 1 \in DOMAIN q /\ Tail(q)[k] = q[k + 1]
      /\ \A j \in DOMAIN q : j # 1 => j - 1 \in DOMAIN Tail(q) /\ Tail(q)[j - 1] = q[j]
  <2>1. Len(q) \in Nat /\ DOMAIN q = 1 .. Len(q) /\ Len(q) # 0
    BY <1>1, LenProperties
  <2>2. q[1] \in Messages
    BY <1>1, <2>1, ElementOfSeq
  <2>. QED BY <1>1, <2>1, <2>2 DEF m
<1>5. ASSUME NEW p \in Due PROVE Right(p)'
  <2>1. Right(p) /\ p \in Paths /\ p # <<>>
    BY <1>5, DueIsPath DEF AllRight
  <2>2. ChanRight(p)'
    <3>1. ASSUME NEW k \in DOMAIN Tail(q), ~ Spares(Tail(q)[k], p) PROVE FixedFrom(c, k, p)'
      <4>1. k + 1 \in DOMAIN q /\ FixedFrom(c, k + 1, p) /\ k \in Nat
        BY <1>1, <1>4, <2>1, <3>1 DEF Right, ChanRight, Registered, q
      <4>2. PICK j \in DOMAIN q : j >= k + 1 /\ Fixes(q[j], p)
        BY <4>1 DEF FixedFrom, q
      <4>3. j # 1 /\ j - 1 >= k
        BY <1>4, <4>1, <4>2
      <4>4. j - 1 \in DOMAIN Tail(q) /\ Tail(q)[j - 1] = q[j]
        BY <1>4, <4>3
      <4>. QED BY <1>1, <4>2, <4>3, <4>4 DEF FixedFrom
    <3>2. ASSUME NEW d \in Conns, d # c, NEW k \in DOMAIN chan'[d] PROVE Spares(chan'[d][k], p) \/ FixedFrom(d, k, p)'
      BY <1>1, <2>1, <3>2 DEF Right, ChanRight, FixedFrom
    <3>. QED BY <1>1, <3>1, <3>2 DEF ChanRight
  <2>3. TreeRight(p)'
    BY <1>1, <2>1 DEF Right, TreeRight
  <2>4. ASSUME Mended(p) PROVE Mended(p)' \/ (c \in Connected /\ Fixes(m, p))
    <3>0. PICK d \in Connected : \E j \in DOMAIN chan[d] : Fixes(chan[d][j], p)
      BY <2>4 DEF Mended
    <3>1. PICK j \in DOMAIN chan[d] : Fixes(chan[d][j], p)
      BY <3>0
    <3>2. CASE d = c /\ j = 1
      BY <1>4, <3>0, <3>1, <3>2 DEF q
    <3>3. CASE d = c /\ j # 1
      <4>1. j - 1 \in DOMAIN chan'[c] /\ chan'[c][j - 1] = chan[c][j]
        BY <1>1, <1>4, <3>1, <3>3 DEF q
      <4>. QED BY <1>2, <3>1, <3>3, <4>1 DEF Mended
    <3>4. CASE d # c
      BY <1>1, <1>2, <3>1, <3>4 DEF Mended, Connected
    <3>. QED BY <3>2, <3>3, <3>4
  <2>5. c \in Connected => Spares(m, p) \/ Fixes(m, p) \/ Mended(p)'
    <3>. SUFFICES ASSUME c \in Connected, ~ Spares(m, p), ~ Fixes(m, p) PROVE Mended(p)'
      OBVIOUS
    <3>1. FixedFrom(c, 1, p)
      BY <1>4, <2>1 DEF Right, ChanRight, q
    <3>2. Mended(p)
      BY <3>1 DEF FixedFrom, Mended
    <3>. QED BY <2>4, <3>2
  <2>6. CopyRight(p)'
    <3>. SUFFICES ASSUME copy' # NoTree, ~ stale', ~ Mended(p)' PROVE Lists(copy', p)
      BY DEF CopyRight
    <3>1. CASE c \notin Connected
      BY <1>3, <2>1, <2>4, <3>1 DEF Right, CopyRight
    <3>2. CASE c \in Connected /\ m.kind = "snapshot"
      <4>1. Fixes(m, p) /\ copy' = FromSnapshot(m.update)
        BY <1>3, <2>5, <3>2 DEF Spares
      <4>. QED BY <1>4, <2>1, <3>2, <4>1, SnapshotFixes DEF Listing
    <3>3. CASE c \in Connected /\ m.kind # "snapshot"
      <4>1. copy # NoTree /\ copy \in ClientTrees /\ copy' = ApplyUpdate(copy, m.update) /\ ~ stale
        BY <1>3, <3>3 DEF ApplyIncremental, Types
      <4>2. m.update \in Updates
        BY <1>4 DEF Messages
      <4>3. CASE Fixes(m, p)
        BY <2>1, <3>3, <4>1, <4>2, <4>3, UpdateNames DEF Fixes, Listing
      <4>4. CASE ~ Fixes(m, p)
        <5>1. Spares(m, p) /\ Lists(copy, p)
          BY <2>1, <2>4, <2>5, <3>3, <4>1, <4>4 DEF Right, CopyRight
        <5>. QED BY <2>1, <4>1, <4>2, <5>1, UpdateSpares DEF Spares, Listing
      <4>. QED BY <4>3, <4>4
    <3>. QED BY <3>1, <3>2, <3>3
  <2>. QED BY <2>2, <2>3, <2>6 DEF Right
<1>. QED BY <1>2, <1>5 DEF AllRight

LEMMA DeliverAnswerIsRight ==
    ASSUME Types, Side, AllRight, NEW a \in answers, DeliverAnswer(a)
    PROVE  AllRight'
<1>1. UNCHANGED <<disk, batch, link, repo, tree, half, chan, stale>> /\ copy' = ApplyIncremental(a.update)
  BY DEF DeliverAnswer, daemonVars
<1>2. Due' = Due /\ Connected' = Connected
  BY <1>1 DEF Due, OnDisk, Connected
<1>3. a.update \in Updates /\ a.update.removed = {} /\ CalledLoaded(a.update) \subseteq half
  BY DEF Types, Side, AnswersRight
<1>4. ASSUME NEW p \in Due PROVE Right(p)'
  <2>1. Right(p) /\ p \in Paths /\ p # <<>> /\ Parent(p) \notin half
    BY <1>4, DueIsPath DEF AllRight, Due
  <2>2. Whole(a.update, p) /\ ~ Touches(a.update, p)
    <3>1. ASSUME NEW k \in DOMAIN a.update.patches, <<Parent(p), "loaded">> \in a.update.patches[k].nodes
          PROVE  Parent(p) \in CalledLoaded(a.update)
      <4>1. <<Parent(p), "loaded">> \in NodesIn(a.update)
        BY <3>1 DEF NodesIn
      <4>. QED BY <4>1 DEF CalledLoaded
    <3>. QED BY <1>3, <2>1, <3>1 DEF Whole, WholeIn, Touches
  <2>3. ASSUME copy # NoTree, Lists(copy, p) PROVE Lists(copy', p)
    <3>1. copy \in ClientTrees /\ copy' = ApplyUpdate(copy, a.update)
      BY <1>1, <2>3 DEF Types, ApplyIncremental
    <3>. QED BY <1>3, <2>1, <2>2, <2>3, <3>1, UpdateSpares DEF Listing
  <2>4. copy' # NoTree => copy # NoTree
    BY <1>1 DEF ApplyIncremental
  <2>5. CopyRight(p)'
    BY <1>1, <1>2, <2>1, <2>3, <2>4 DEF Right, CopyRight, Mended
  <2>. QED BY <1>1, <1>2, <2>1, <2>5 DEF Right, ChanRight, FixedFrom, TreeRight
<1>. QED BY <1>2, <1>4 DEF AllRight

LEMMA NextIsRight == Types /\ Side /\ AllRight /\ [Next]_vars => AllRight'
<1>. SUFFICES ASSUME Types, Side, AllRight, [Next]_vars PROVE AllRight'
  OBVIOUS
<1>1. CASE UNCHANGED vars
  <2>1. UNCHANGED <<disk, batch, half, chan, copy, stale, repo, tree>> /\ Connected' = Connected
    BY <1>1 DEF vars, daemonVars, clientVars, Connected
  <2>. QED BY <2>1, LessDue, StaysRight
<1>2. CASE Next
  BY <1>2, DiskIsRight, IndexIsRight, WatcherIsRight, ConnectionIsRight, ResolveIsRight, RequestIsRight,
     DeliverIsRight, DeliverAnswerIsRight DEF Next
<1>. QED BY <1>1, <1>2

(* What is due is shown, once its directory is: nothing is on its way that could     *)
(* still make it so, so the copy lists it, and what the copy has is linked.         *)
LEMMA RightCovers == Types /\ AllRight => CopyCovers
<1>. SUFFICES ASSUME Types, AllRight, copy # NoTree, ~ stale, Quiet, NEW p \in Paths \ {<<>>},
                     disk[p] # "none", Parent(p) \notin half,
                     \A a \in Above(p) : a \in Shown(copy) /\ copy.state[a] = "loaded"
              PROVE  p \in Shown(copy)
  BY DEF CopyCovers
<1>1. p \in Due
  BY DEF Quiet, NoBatch, Due, OnDisk
<1>2. ~ Mended(p)
  BY DEF Quiet, Mended
<1>3. copy \in ClientTrees /\ Lists(copy, p)
  BY <1>1, <1>2 DEF Types, AllRight, Right, CopyRight
<1>4. Parent(p) \in Shown(copy) /\ copy.state[Parent(p)] = "loaded"
  BY AboveParent
<1>5. copy.state[p] # "none" /\ p \in copy.kids[Parent(p)]
  BY <1>3, <1>4 DEF Lists, ClientTrees, LinksLead
<1>. QED BY <1>3, <1>4, <1>5, ShownBelow DEF ClientTrees, IsDir

(* When nothing is on its way, the copy shows all that is on the disk in a directory  *)
(* it shows as loaded, whichever of its connections brought what it has and in which   *)
(* order, unless the daemon did not have or pass on everything of that directory or    *)
(* a connection was lost with pushes; and the daemon's marks are right, as above        *)
(* (CopyKeepsUp).                                                             *)
THEOREM CopyKeepsUpWithDaemon == Spec => []CopyKeepsUp
<1>1. Init => AllRight
  BY DEF Init, AllRight, Right, ChanRight, CopyRight, TreeRight
<1>2. Spec => []Side
  BY InitSide, NextSide, TypesHold, PTL DEF Spec
<1>3. Spec => []AllRight
  BY <1>1, <1>2, NextIsRight, TypesHold, PTL DEF Spec
<1>4. Spec => []CopyCovers
  BY <1>3, RightCovers, TypesHold, PTL
<1>. QED BY <1>4, MarksAreRight, PTL DEF CopyKeepsUp
=============================================================================
