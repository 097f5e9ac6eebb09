----------------------------- MODULE TreeProofs -----------------------------
(***************************************************************************)
(* What the operations of module Tree preserve, for every tree.            *)
(***************************************************************************)
EXTENDS Tree, SequenceTheorems, FiniteSetTheorems, TLAPS

-----------------------------------------------------------------------------
(* Paths, ordered by "is an ancestor of", form a forest.                   *)

\* A path is a sequence of names, and its proper prefixes are paths too.
LEMMA PathFacts ==
    ASSUME NEW p \in Path
    PROVE  /\ p \in Seq(Name)
           /\ Len(p) \in Nat
           /\ Root \in Path
           /\ p # Root => Parent(p) \in Path /\ Len(p) > 0 /\ Len(Parent(p)) = Len(p) - 1
  <1>1. p \in Seq(Name) /\ Len(p) \in Nat /\ Root \in Path
    BY PathAssumption DEF Root
  <1>2. ASSUME p # Root
        PROVE  Parent(p) \in Path /\ Len(p) > 0 /\ Len(Parent(p)) = Len(p) - 1
    <2>1. Len(p) # 0
      <3> SUFFICES ASSUME Len(p) = 0 PROVE FALSE
        OBVIOUS
      <3>1. p = <<>>
        BY <1>1
      <3> QED
        BY <1>2, <3>1 DEF Root
    <2>2. Len(p) > 0 /\ Len(p) - 1 \in 0..Len(p)
      BY <1>1, <2>1
    <2>3. Parent(p) \in Path
      BY <2>2, PathAssumption DEF Parent
    <2>4. Len(Parent(p)) = Len(p) - 1
      <3> DEFINE m == Len(p) - 1
      <3>1. m \in Int /\ m >= 0 /\ \A i \in 1..m : p[i] \in Name
        BY <1>1, <2>2
      <3>2. Len(SubSeq(p, 1, m)) = IF 1 <= m THEN m - 1 + 1 ELSE 0
        BY <3>1, SubSeqProperties
      <3>3. Parent(p) = SubSeq(p, 1, m)
        BY DEF Parent
      <3> HIDE DEF m
      <3>4. Len(Parent(p)) = m
        BY <3>1, <3>2, <3>3
      <3> QED
        BY <3>4 DEF m
    <2> QED
      BY <2>2, <2>3, <2>4
  <1> QED
    BY <1>1, <1>2

\* AtOrAbove is a partial order.
LEMMA AboveRefl == ASSUME NEW p \in Path PROVE AtOrAbove(p, p)
  BY PathFacts DEF AtOrAbove

\* An ancestor's ancestor is an ancestor.
LEMMA AboveTrans ==
    ASSUME NEW p \in Path, NEW q \in Path, NEW r \in Path,
           AtOrAbove(p, q), AtOrAbove(q, r)
    PROVE  AtOrAbove(p, r)
  <1>1. Len(p) \in Nat /\ Len(q) \in Nat /\ Len(r) \in Nat
    BY PathFacts
  <1> QED
    BY <1>1 DEF AtOrAbove

\* Two paths at or above each other are the same.
LEMMA AboveAntisym ==
    ASSUME NEW p \in Path, NEW q \in Path, AtOrAbove(p, q), AtOrAbove(q, p)
    PROVE  p = q
  <1>1. p \in Seq(Name) /\ q \in Seq(Name) /\ Len(p) \in Nat /\ Len(q) \in Nat
    BY PathFacts
  <1>2. Len(p) = Len(q) /\ \A i \in 1..Len(p) : p[i] = q[i]
    BY <1>1 DEF AtOrAbove
  <1> QED
    BY <1>1, <1>2

\* The ancestors of a path form a chain.
LEMMA AboveChain ==
    ASSUME NEW p \in Path, NEW q \in Path, NEW r \in Path,
           AtOrAbove(p, r), AtOrAbove(q, r)
    PROVE  AtOrAbove(p, q) \/ AtOrAbove(q, p)
  <1>1. Len(p) \in Nat /\ Len(q) \in Nat /\ Len(r) \in Nat
    BY PathFacts
  <1> QED
    BY <1>1 DEF AtOrAbove

\* The root, where walk starts, is above every path.
LEMMA RootAbove == ASSUME NEW p \in Path PROVE AtOrAbove(Root, p)
  <1>1. Len(Root) = 0 /\ Len(p) \in Nat
    BY PathFacts DEF Root
  <1> QED
    BY <1>1 DEF AtOrAbove

\* The parent is the lowest proper ancestor.
LEMMA ParentFacts ==
    ASSUME NEW p \in Path, p # Root
    PROVE  /\ Parent(p) \in Path
           /\ Above(Parent(p), p)
           /\ \A q \in Path : Above(q, p) => AtOrAbove(q, Parent(p))
  <1>1. /\ p \in Seq(Name) /\ Len(p) \in Nat /\ Len(p) > 0
        /\ Parent(p) \in Path /\ Len(Parent(p)) = Len(p) - 1
    BY PathFacts
  <1>2. \A i \in 1..Len(Parent(p)) : Parent(p)[i] = p[i]
    BY <1>1 DEF Parent
  <1>3. Above(Parent(p), p)
    BY <1>1, <1>2 DEF Above, AtOrAbove
  <1>4. ASSUME NEW q \in Path, Above(q, p) PROVE AtOrAbove(q, Parent(p))
    <2>1. q \in Seq(Name) /\ Len(q) \in Nat
      BY PathFacts
    <2>2. Len(q) # Len(p)
      <3> SUFFICES ASSUME Len(q) = Len(p) PROVE FALSE
        OBVIOUS
      <3>1. \A i \in 1..Len(p) : q[i] = p[i]
        BY <1>4 DEF Above, AtOrAbove
      <3>2. q = p
        BY <3>1, <2>1, <1>1
      <3> QED
        BY <3>2, <1>4 DEF Above
    <2>3. Len(q) <= Len(Parent(p))
      BY <2>1, <2>2, <1>1, <1>4 DEF Above, AtOrAbove
    <2> QED
      BY <2>1, <2>3, <1>1, <1>2, <1>4 DEF Above, AtOrAbove
  <1> QED
    BY <1>1, <1>3, <1>4

\* Between a path and a proper descendant lies a child.
LEMMA ChildTowards ==
    ASSUME NEW p \in Path, NEW q \in Path, Above(p, q)
    PROVE  \E c \in Path : c # Root /\ Parent(c) = p /\ AtOrAbove(c, q)
  <1> DEFINE n == Len(p) + 1
             c == SubSeq(q, 1, n)
  <1>1. p \in Seq(Name) /\ q \in Seq(Name) /\ Len(p) \in Nat /\ Len(q) \in Nat
    BY PathFacts
  <1>2. Len(p) < Len(q)
    <2> SUFFICES ASSUME Len(p) = Len(q) PROVE FALSE
      BY <1>1 DEF Above, AtOrAbove
    <2>1. \A i \in 1..Len(q) : p[i] = q[i]
      BY DEF Above, AtOrAbove
    <2>2. p = q
      BY <2>1, <1>1
    <2> QED
      BY <2>2 DEF Above
  <1>3. n \in 0..Len(q) /\ c \in Path
    BY <1>1, <1>2, PathAssumption
  <1>4. Len(c) = n /\ \A i \in 1..n : c[i] = q[i]
    BY <1>1, <1>2, <1>3
  <1>5. c # Root
    <2> HIDE DEF c
    <2> SUFFICES ASSUME c = <<>> PROVE FALSE
      BY DEF Root
    <2>1. Len(c) = 0
      OBVIOUS
    <2> QED
      BY <1>1, <1>4, <2>1
  <1>6. Parent(c) = p
    <2>1. c \in Seq(Name) /\ Len(c) - 1 = Len(p)
      BY <1>1, <1>3, <1>4, PathFacts
    <2>2. Parent(c) \in Seq(Name) /\ Len(Parent(c)) = Len(p)
      BY <1>1, <1>4, <2>1 DEF Parent
    <2>3. \A i \in 1..Len(p) : Parent(c)[i] = p[i]
      BY <1>1, <1>4, <2>1 DEF Parent, Above, AtOrAbove
    <2> QED
      BY <1>1, <2>2, <2>3
  <1>7. AtOrAbove(c, q)
    BY <1>1, <1>2, <1>4 DEF AtOrAbove
  <1> QED
    BY <1>3, <1>5, <1>6, <1>7

-----------------------------------------------------------------------------
(* Trees.                                                                  *)

\* A node above an attached one has a child on the way down to it.
LEMMA ChildOnTheWay ==
    ASSUME NEW t, WellFormed(t), NEW p \in Path, NEW q \in Path,
           Above(p, q), Present(t, q)
    PROVE  \E c \in Children(t, p) : AtOrAbove(c, q)
  <1>1. PICK c \in Path : c # Root /\ Parent(c) = p /\ AtOrAbove(c, q)
    BY ChildTowards
  <1>2. Present(t, c)
    <2>1. CASE c = q
      BY <2>1
    <2>2. CASE c # q
      BY <1>1, <2>2 DEF WellFormed, Above, IsDir, Present
    <2> QED
      BY <2>1, <2>2
  <1> QED
    BY <1>1, <1>2 DEF Children

\* The children of a node are attached below it.
LEMMA ChildFacts ==
    ASSUME NEW t, NEW p \in Path, NEW c \in Children(t, p)
    PROVE  c \in Path /\ c # Root /\ Parent(c) = p /\ Above(p, c) /\ Present(t, c)
  BY ParentFacts DEF Children

\* The tree after a put, node by node.
LEMMA PutNodes ==
    ASSUME NEW t \in [Path -> Node], NEW p \in Path, p # Root, NEW v \in Value
    PROVE  LET u == PutTree(t, p, v)
           IN  /\ u \in [Path -> Node]
               /\ u[p].val = v
               /\ Children(t, p) = {} => u[p].kind = "leaf"
               /\ Children(t, p) # {} => u[p].kind = "dir"
               /\ \A q \in Path : Above(q, p) => u[q].kind = "dir" /\ u[q].val = t[q].val
               /\ \A q \in Path : q # p /\ ~Above(q, p) => u[q] = t[q]
  BY DEF PutTree, WithDirs, Node, Kind, Data, Above

\* Put keeps the tree in order, removes no node and leaves no new directory
\* without children.
LEMMA PutPreserves ==
    ASSUME NEW t, TreeOK(t), NEW p \in Path, NEW v \in Value
    PROVE  LET u == PutTree(t, p, v)
           IN  /\ TreeOK(u)
               /\ \A q \in Path : Present(t, q) => Present(u, q)
               /\ \A q \in Path : Cleanable(u, q) => Cleanable(t, q)
  <1> DEFINE u == PutTree(t, p, v)
  <1>1. CASE p = Root
    <2>1. u = t
      BY <1>1 DEF PutTree
    <2> QED
      BY <2>1
  <1>2. CASE p # Root
    <2>1. /\ u[p].val = v
          /\ Children(t, p) = {} => u[p].kind = "leaf"
          /\ Children(t, p) # {} => u[p].kind = "dir"
          /\ \A q \in Path : Above(q, p) => u[q].kind = "dir" /\ u[q].val = t[q].val
          /\ \A q \in Path : q # p /\ ~Above(q, p) => u[q] = t[q]
      BY <1>2, PutNodes DEF TreeOK
    <2>2. u \in [Path -> Node]
      BY <1>2, PutNodes DEF TreeOK
    <2> HIDE DEF u
    <2>3. \A q \in Path : Present(t, q) => Present(u, q)
      BY <2>1 DEF Present
    <2>4. \A q \in Path : Children(t, q) \subseteq Children(u, q)
      BY <2>3 DEF Children
    <2>5. ASSUME NEW q \in Path, NEW r \in Path, Above(q, r), Present(u, r)
          PROVE  IsDir(u, q)
      <3>1. CASE AtOrAbove(r, p)
        <4>1. Above(q, p)
          BY <2>5, <3>1, AboveTrans, AboveAntisym DEF Above
        <4> QED
          BY <2>1, <4>1 DEF IsDir, Above
      <3>2. CASE ~AtOrAbove(r, p)
        <4>1. Present(t, r)
          BY <2>1, <2>5, <3>2, AboveRefl DEF Present, Above
        <4>2. IsDir(t, q)
          BY <2>5, <4>1 DEF TreeOK, WellFormed
        <4>3. q = p => Children(t, p) # {}
          BY <2>5, <4>1, ChildOnTheWay DEF TreeOK
        <4> QED
          BY <2>1, <4>2, <4>3 DEF IsDir
      <3> QED
        BY <3>1, <3>2
    <2>6. ASSUME NEW q \in Path, ~Present(u, q) PROVE u[q] = Absent
      BY <2>1, <2>6 DEF Present, TreeOK, WellFormed
    <2>7. u[Root] = EmptyDir
      <3>1. Root \in Path /\ Above(Root, p)
        BY <1>2, PathFacts, RootAbove DEF Above
      <3>2. u[Root] \in Node /\ u[Root].kind = "dir" /\ u[Root].val = Empty
        BY <2>1, <2>2, <3>1 DEF TreeOK, WellFormed, EmptyDir
      <3> QED
        BY <3>2 DEF Node, EmptyDir
    <2>8. WellFormed(u)
      BY <2>5, <2>6, <2>7 DEF WellFormed
    <2>9. LeavesHoldValues(u)
      BY <2>1 DEF TreeOK, LeavesHoldValues, IsLeaf
    <2>10. ASSUME NEW q \in Path, Cleanable(u, q)
           PROVE  q # p /\ ~Above(q, p)
      <3>1. q # p
        BY <2>1, <2>4, <2>10 DEF Cleanable, IsDir
      <3>2. Present(u, p)
        BY <2>1 DEF Present
      <3>3. ~Above(q, p)
        BY <2>8, <2>10, <3>2, ChildOnTheWay DEF Cleanable
      <3> QED
        BY <3>1, <3>3
    <2>11. ASSUME NEW q \in Path, Cleanable(u, q)
           PROVE  u[q] = t[q] /\ Cleanable(t, q)
      BY <2>1, <2>4, <2>10, <2>11 DEF Cleanable, IsDir
    <2>12. HiddenByChildren(u)
      BY <2>11 DEF TreeOK, HiddenByChildren, Cleanable
    <2> QED
      BY <2>2, <2>3, <2>8, <2>9, <2>11, <2>12 DEF TreeOK, u
  <1> QED
    BY <1>1, <1>2

\* The tree after Watch created the watched node, node by node.
LEMMA WatchNodes ==
    ASSUME NEW t \in [Path -> Node], NEW p \in Path
    PROVE  LET u == WatchTree(t, p)
           IN  /\ u \in [Path -> Node]
               /\ Present(t, p) => u[p] = t[p]
               /\ ~Present(t, p) => u[p] = EmptyDir
               /\ \A q \in Path : Above(q, p) => u[q].kind = "dir" /\ u[q].val = t[q].val
               /\ \A q \in Path : q # p /\ ~Above(q, p) => u[q] = t[q]
  BY DEF WatchTree, WithDirs, Node, Kind, Data, Above, EmptyDir

\* Watch keeps the tree in order, removes no node, and the only directory
\* without children that it adds is the one it was asked to watch.
LEMMA WatchPreserves ==
    ASSUME NEW t, TreeOK(t), NEW p \in Path
    PROVE  LET u == WatchTree(t, p)
           IN  /\ TreeOK(u)
               /\ Present(u, p)
               /\ \A q \in Path : Present(t, q) => Present(u, q)
               /\ \A q \in Path : Cleanable(u, q) => q = p \/ Cleanable(t, q)
  <1> DEFINE u == WatchTree(t, p)
  <1>1. /\ Present(t, p) => u[p] = t[p]
        /\ ~Present(t, p) => u[p] = EmptyDir
        /\ \A q \in Path : Above(q, p) => u[q].kind = "dir" /\ u[q].val = t[q].val
        /\ \A q \in Path : q # p /\ ~Above(q, p) => u[q] = t[q]
    BY WatchNodes DEF TreeOK
  <1>2. u \in [Path -> Node]
    BY WatchNodes DEF TreeOK
  <1> HIDE DEF u
  <1>3. Present(u, p) /\ \A q \in Path : Present(t, q) => Present(u, q)
    BY <1>1 DEF Present, EmptyDir
  <1>4. \A q \in Path : Children(t, q) \subseteq Children(u, q)
    BY <1>3 DEF Children
  <1>5. ASSUME NEW q \in Path, NEW r \in Path, Above(q, r), Present(u, r)
        PROVE  IsDir(u, q)
    <2>1. CASE AtOrAbove(r, p)
      <3>1. Above(q, p)
        BY <1>5, <2>1, AboveTrans, AboveAntisym DEF Above
      <3> QED
        BY <1>1, <3>1 DEF IsDir
    <2>2. CASE ~AtOrAbove(r, p)
      <3>1. Present(t, r)
        BY <1>1, <1>5, <2>2, AboveRefl DEF Present, Above
      <3>2. IsDir(t, q)
        BY <1>5, <3>1 DEF TreeOK, WellFormed
      <3> QED
        BY <1>1, <3>2 DEF IsDir, Present
    <2> QED
      BY <2>1, <2>2
  <1>6. ASSUME NEW q \in Path, ~Present(u, q) PROVE u[q] = Absent
    BY <1>1, <1>6 DEF Present, EmptyDir, TreeOK, WellFormed
  <1>7. u[Root] = EmptyDir
    <2>1. Root \in Path /\ (Above(Root, p) \/ Root = p)
      BY PathFacts, RootAbove DEF Above
    <2>2. u[Root] \in Node /\ u[Root].kind = "dir" /\ u[Root].val = Empty
      BY <1>1, <1>2, <2>1 DEF TreeOK, WellFormed, EmptyDir
    <2> QED
      BY <2>2 DEF Node, EmptyDir
  <1>8. WellFormed(u)
    BY <1>5, <1>6, <1>7 DEF WellFormed
  <1>9. LeavesHoldValues(u)
    BY <1>1 DEF TreeOK, LeavesHoldValues, IsLeaf, EmptyDir
  <1>10. ASSUME NEW q \in Path, Cleanable(u, q) PROVE ~Above(q, p)
    BY <1>3, <1>8, <1>10, ChildOnTheWay DEF Cleanable
  <1>11. ASSUME NEW q \in Path, Cleanable(u, q) PROVE q = p \/ Cleanable(t, q)
    BY <1>1, <1>4, <1>10, <1>11 DEF Cleanable, IsDir
  <1>12. HiddenByChildren(u)
    <2> SUFFICES ASSUME NEW q \in Path, Cleanable(u, q) PROVE u[q].val = Empty
      BY DEF HiddenByChildren, Cleanable
    <2>1. CASE u[q] = EmptyDir
      BY <2>1 DEF EmptyDir
    <2>2. CASE u[q] # EmptyDir
      <3>1. u[q] = t[q]
        BY <1>1, <1>10, <2>2
      <3>2. Cleanable(t, q)
        BY <1>4, <3>1 DEF Cleanable, IsDir
      <3> QED
        BY <3>1, <3>2 DEF TreeOK, HiddenByChildren, Cleanable
    <2> QED
      BY <2>1, <2>2
  <1> QED
    BY <1>2, <1>3, <1>8, <1>9, <1>11, <1>12 DEF TreeOK, u

-----------------------------------------------------------------------------
(* Remove.                                                                 *)

\* What is removed goes with everything attached below it.
LEMMA RemovedDownward ==
    ASSUME NEW t, WellFormed(t), NEW W \in SUBSET Path, NEW p \in Path,
           NEW q \in Removed(t, W, p), NEW r \in Path, AtOrAbove(q, r), Present(t, r)
    PROVE  r \in Removed(t, W, p)
  <1>0. q \in Path /\ q # Root
    BY DEF Removed, RemovedAbove, RemovedBelow
  <1>1. r # Root
    BY <1>0, PathFacts, RootAbove, AboveAntisym
  <1>2. CASE AtOrAbove(p, r)
    <2>1. \A w \in W : ~AtOrAbove(r, w)
      <3> SUFFICES ASSUME NEW w \in W, AtOrAbove(r, w) PROVE FALSE
        OBVIOUS
      <3>1. AtOrAbove(q, w) /\ AtOrAbove(p, w)
        BY <1>0, <1>2, AboveTrans
      <3> QED
        BY <3>1 DEF Removed, RemovedAbove, RemovedBelow
    <2> QED
      BY <1>1, <1>2, <2>1 DEF Removed, RemovedBelow
  <1>3. CASE ~AtOrAbove(p, r)
    <2>1. q \notin RemovedBelow(W, p)
      BY <1>0, <1>3, AboveTrans DEF RemovedBelow
    <2>2. q \in RemovedAbove(t, W, p)
      BY <2>1 DEF Removed
    <2>3. AtOrAbove(r, p) /\ r # p
      BY <1>3, <2>2, AboveRefl DEF RemovedAbove
    <2>4. ASSUME NEW x \in Path, AtOrAbove(r, x), Present(t, x), ~AtOrAbove(p, x)
          PROVE  AtOrAbove(x, p) /\ t[x].val = Empty /\ x \notin W
      <3>1. AtOrAbove(q, x)
        BY <1>0, <2>4, AboveTrans
      <3> QED
        BY <2>2, <2>4, <3>1 DEF RemovedAbove
    <2> QED
      BY <1>1, <2>2, <2>3, <2>4 DEF Removed, RemovedAbove, Above
  <1> QED
    BY <1>2, <1>3

\* A watched node is not removed.
LEMMA WatchedNotRemoved ==
    ASSUME NEW t, NEW W \in SUBSET Path, NEW p \in Path,
           NEW w \in W, Present(t, w)
    PROVE  w \notin Removed(t, W, p)
  <1>1. w \in Path /\ AtOrAbove(w, w)
    BY AboveRefl
  <1>2. w \notin RemovedBelow(W, p)
    BY <1>1 DEF RemovedBelow
  <1>3. ASSUME w \in RemovedAbove(t, W, p) PROVE FALSE
    <2>1. ~AtOrAbove(p, w)
      BY <1>1, <1>3, AboveAntisym DEF RemovedAbove, Above
    <2> QED
      BY <1>1, <1>3, <2>1 DEF RemovedAbove
  <1> QED
    BY <1>2, <1>3 DEF Removed

\* When a child is removed and its parent is not below p, the parent is above p.
LEMMA ParentOfRemoved ==
    ASSUME NEW t, NEW W \in SUBSET Path, NEW p \in Path, NEW q \in Path,
           ~AtOrAbove(p, q), NEW c \in Children(t, q), c \in Removed(t, W, p)
    PROVE  /\ Above(q, p)
           /\ p \in RemovedBelow(W, p)
           /\ c = p \/ c \in RemovedAbove(t, W, p)
  <1>1. c \in Path /\ c # Root /\ Parent(c) = q /\ Above(q, c)
    BY ChildFacts
  <1>2. CASE c \in RemovedBelow(W, p)
    <2>1. c = p
      <3>1. AtOrAbove(p, c)
        BY <1>2 DEF RemovedBelow
      <3> QED
        BY <1>1, <3>1, ParentFacts DEF Above
    <2> QED
      BY <1>1, <1>2, <2>1
  <1>3. CASE c \in RemovedAbove(t, W, p)
    <2>1. Above(c, p) /\ p \in RemovedBelow(W, p)
      BY <1>3 DEF RemovedAbove
    <2>2. Above(q, p)
      BY <1>1, <2>1, AboveTrans, AboveAntisym DEF Above
    <2> QED
      BY <1>3, <2>1, <2>2
  <1> QED
    BY <1>2, <1>3 DEF Removed

\* A directory above p that loses all its children is removed too, unless it
\* is the root, is watched or has a value.
LEMMA EmptiedIsRemoved ==
    ASSUME NEW t, WellFormed(t), NEW W \in SUBSET Path, NEW p \in Path,
           NEW q \in Path, q # Root, q \notin W, t[q].val = Empty,
           ~AtOrAbove(p, q),
           Children(t, q) # {}, Children(t, q) \subseteq Removed(t, W, p)
    PROVE  q \in Removed(t, W, p)
  <1>1. PICK c \in Children(t, q) : c \in Removed(t, W, p)
    OBVIOUS
  <1>2. Above(q, p) /\ p \in RemovedBelow(W, p)
    BY <1>1, ParentOfRemoved
  <1>3. ASSUME NEW r \in Path, AtOrAbove(q, r), Present(t, r), ~AtOrAbove(p, r)
        PROVE  AtOrAbove(r, p) /\ t[r].val = Empty /\ r \notin W
    <2>1. CASE r = q
      BY <1>2, <2>1 DEF Above
    <2>2. CASE r # q
      <3>1. PICK d \in Children(t, q) : AtOrAbove(d, r)
        BY <1>3, <2>2, ChildOnTheWay DEF Above
      <3>2. d = p \/ d \in RemovedAbove(t, W, p)
        BY ParentOfRemoved
      <3>3. d \in RemovedAbove(t, W, p)
        BY <1>3, <3>1, <3>2
      <3> QED
        BY <1>3, <3>1, <3>3 DEF RemovedAbove
    <2> QED
      BY <2>1, <2>2
  <1> QED
    BY <1>2, <1>3 DEF Removed, RemovedAbove

\* The tree after Remove, node by node.
LEMMA RemoveNodes ==
    ASSUME NEW t \in [Path -> Node], NEW W \in SUBSET Path, NEW p \in Path
    PROVE  LET u == RemoveTree(t, W, p)
               G == Removed(t, W, p)
               R == Restored(t, W, p)
           IN  /\ u \in [Path -> Node]
               /\ \A q \in Path : q \in G => u[q] = Absent
               /\ \A q \in Path : q \notin G /\ AtOrAbove(p, q) => u[q] = EmptyDir
               /\ \A q \in Path : q \notin G /\ ~AtOrAbove(p, q) /\ q \in R =>
                      u[q].kind = "leaf" /\ u[q].val = t[q].val
               /\ \A q \in Path : q \notin G /\ ~AtOrAbove(p, q) /\ q \notin R =>
                      u[q] = t[q]
  BY DEF RemoveTree, Node, Kind, Data, EmptyDir, Absent

\* Remove keeps the tree in order and every watched node attached.  Of the
\* directories without children that it leaves, the watched ones aside, none
\* is new, and the node it was called for is not among them.
LEMMA RemovePreserves ==
    ASSUME NEW t, TreeOK(t), NEW W \in SUBSET Path, \A w \in W : Present(t, w),
           NEW p \in Path
    PROVE  LET u == RemoveTree(t, W, p)
           IN  /\ TreeOK(u)
               /\ \A w \in W : Present(u, w)
               /\ \A q \in Path : Cleanable(u, q) /\ q # Root /\ q \notin W =>
                      Cleanable(t, q) /\ q # p
  <1> DEFINE u == RemoveTree(t, W, p)
             G == Removed(t, W, p)
             R == Restored(t, W, p)
  <1>1. /\ \A q \in Path : q \in G => u[q] = Absent
        /\ \A q \in Path : q \notin G /\ AtOrAbove(p, q) => u[q] = EmptyDir
        /\ \A q \in Path : q \notin G /\ ~AtOrAbove(p, q) /\ q \in R =>
               u[q].kind = "leaf" /\ u[q].val = t[q].val
        /\ \A q \in Path : q \notin G /\ ~AtOrAbove(p, q) /\ q \notin R => u[q] = t[q]
    <2>1. t \in [Path -> Node]
      BY DEF TreeOK
    <2> QED
      BY <2>1, RemoveNodes
  <1>2. u \in [Path -> Node]
    BY RemoveNodes DEF TreeOK
  <1> HIDE DEF u
  <1>3. WellFormed(t)
    BY DEF TreeOK
  <1>5. ASSUME NEW r \in Path, Present(u, r), r # Root PROVE r \notin G /\ Present(t, r)
    <2>1. r \notin G
      BY <1>1, <1>5 DEF Present, Absent
    <2>2. CASE AtOrAbove(p, r)
      <3>1. PICK w \in W : AtOrAbove(r, w)
        BY <1>5, <2>1, <2>2 DEF Removed, RemovedBelow
      <3> QED
        BY <1>3, <2>1, <3>1 DEF WellFormed, Above, IsDir, Present
    <2>3. CASE ~AtOrAbove(p, r) /\ r \notin R
      BY <1>1, <1>5, <2>1, <2>3 DEF Present
    <2>4. CASE r \in R
      BY <1>3, <2>1, <2>4 DEF WellFormed, Restored, Present, Absent
    <2> QED
      BY <2>1, <2>2, <2>3, <2>4
  <1>6. ASSUME NEW q \in Path, NEW r \in Path, Above(q, r), Present(u, r)
        PROVE  IsDir(u, q)
    <2>1. r # Root
      BY <1>6, PathFacts, RootAbove, AboveAntisym DEF Above
    <2>2. r \notin G /\ Present(t, r)
      BY <1>5, <1>6, <2>1
    <2>3. q \notin G
      BY <1>3, <1>6, <2>2, RemovedDownward DEF Above
    <2>4. IsDir(t, q)
      BY <1>3, <1>6, <2>2 DEF WellFormed
    <2>5. q \notin R
      <3> SUFFICES ASSUME q \in R PROVE FALSE
        OBVIOUS
      <3>1. PICK c \in Children(t, q) : AtOrAbove(c, r)
        BY <1>3, <1>6, <2>2, ChildOnTheWay
      <3>2. c \in G
        BY DEF Restored
      <3> QED
        BY <1>3, <2>2, <3>1, <3>2, RemovedDownward
    <2>6. CASE AtOrAbove(p, q)
      BY <1>1, <2>3, <2>6 DEF IsDir, EmptyDir
    <2>7. CASE ~AtOrAbove(p, q)
      BY <1>1, <2>3, <2>4, <2>5, <2>7 DEF IsDir
    <2> QED
      BY <2>6, <2>7
  <1>7. ASSUME NEW q \in Path, ~Present(u, q) PROVE u[q] = Absent
    BY <1>1, <1>3, <1>7 DEF Present, EmptyDir, WellFormed
  <1>8. u[Root] = EmptyDir
    <2>1. Root \in Path /\ Root \notin G /\ Root \notin R
      BY PathFacts DEF Removed, RemovedAbove, RemovedBelow, Restored
    <2> QED
      BY <1>1, <1>3, <2>1 DEF WellFormed
  <1>9. WellFormed(u)
    BY <1>6, <1>7, <1>8 DEF WellFormed
  <1>10. LeavesHoldValues(u)
    <2> SUFFICES ASSUME NEW q \in Path, IsLeaf(u, q) PROVE u[q].val \in Value
      BY DEF LeavesHoldValues
    <2>1. q \notin G /\ ~AtOrAbove(p, q)
      BY <1>1 DEF IsLeaf, Absent, EmptyDir
    <2>2. CASE q \in R
      <3>1. t[q].val # Empty /\ t[q].val \in Data
        BY <2>2 DEF Restored, TreeOK, Node
      <3> QED
        BY <1>1, <2>1, <2>2, <3>1 DEF Data
    <2>3. CASE q \notin R
      BY <1>1, <2>1, <2>3 DEF IsLeaf, TreeOK, LeavesHoldValues
    <2> QED
      BY <2>2, <2>3
  <1>11. \A w \in W : w \notin G /\ Present(u, w)
    <2> SUFFICES ASSUME NEW w \in W PROVE w \notin G /\ Present(u, w)
      OBVIOUS
    <2>1. w \in Path /\ w \notin G /\ Present(t, w)
      BY WatchedNotRemoved
    <2> QED
      BY <1>1, <2>1 DEF Present, EmptyDir
  <1>12. ASSUME NEW q \in Path, NEW c \in Children(t, q), c \notin G
         PROVE  c \in Children(u, q)
    <2>1. c \in Path /\ c # Root /\ Parent(c) = q /\ Present(t, c)
      BY ChildFacts
    <2>2. Present(u, c)
      BY <1>1, <1>12, <2>1 DEF Present, EmptyDir
    <2> QED
      BY <2>1, <2>2 DEF Children
  <1>13. ASSUME NEW q \in Path, Cleanable(u, q), ~AtOrAbove(p, q)
         PROVE  u[q] = t[q] /\ IsDir(t, q) /\ Children(t, q) \subseteq G
    <2>1. q \notin G /\ q \notin R
      BY <1>1, <1>13 DEF Cleanable, IsDir, Absent
    <2> QED
      BY <1>1, <1>12, <1>13, <2>1 DEF Cleanable, IsDir
  <1>14. HiddenByChildren(u)
    <2> SUFFICES ASSUME NEW q \in Path, Cleanable(u, q), u[q].val # Empty PROVE FALSE
      BY DEF HiddenByChildren, Cleanable
    <2>1. q \notin G /\ q \notin R /\ ~AtOrAbove(p, q) /\ q # Root
      BY <1>1, <1>8 DEF Absent, EmptyDir, Cleanable, IsDir
    <2>2. u[q] = t[q] /\ IsDir(t, q) /\ Children(t, q) \subseteq G
      BY <1>13, <2>1
    <2>3. Children(t, q) # {}
      BY <2>2 DEF TreeOK, HiddenByChildren
    <2>4. Above(q, p)
      BY <2>1, <2>2, <2>3, ParentOfRemoved
    <2> QED
      BY <2>1, <2>2, <2>4 DEF Restored
  <1>15. ASSUME NEW q \in Path, Cleanable(u, q), q # Root, q \notin W
         PROVE  Cleanable(t, q) /\ q # p
    <2>1. q \notin G
      BY <1>1, <1>15 DEF Cleanable, IsDir, Absent
    <2>2. ~AtOrAbove(p, q)
      <3> SUFFICES ASSUME AtOrAbove(p, q) PROVE FALSE
        OBVIOUS
      <3>1. PICK w \in W : AtOrAbove(q, w)
        BY <1>15, <2>1 DEF Removed, RemovedBelow
      <3>2. PICK c \in Children(u, q) : AtOrAbove(c, w)
        BY <1>9, <1>11, <1>15, <3>1, ChildOnTheWay DEF Above
      <3> QED
        BY <1>15 DEF Cleanable
    <2>3. u[q] = t[q] /\ IsDir(t, q) /\ Children(t, q) \subseteq G
      BY <1>13, <1>15, <2>2
    <2>4. t[q].val = Empty
      BY <1>14, <1>15, <2>3 DEF HiddenByChildren, Cleanable
    <2>5. Children(t, q) = {}
      BY <1>3, <1>15, <2>1, <2>2, <2>3, <2>4, EmptiedIsRemoved
    <2> QED
      BY <2>2, <2>3, <2>5, AboveRefl DEF Cleanable
  <1> QED
    BY <1>2, <1>9, <1>10, <1>11, <1>14, <1>15 DEF TreeOK, u

\* The same for Clean.
LEMMA CleanPreserves ==
    ASSUME NEW t, TreeOK(t), NEW W \in SUBSET Path, \A w \in W : Present(t, w),
           NEW p \in Path
    PROVE  LET u == CleanTree(t, W, p)
           IN  /\ TreeOK(u)
               /\ \A w \in W : Present(u, w)
               /\ \A q \in Path : Cleanable(u, q) /\ q # Root /\ q \notin W =>
                      Cleanable(t, q) /\ q # p
  <1>1. CASE ~Cleanable(t, p)
    BY <1>1 DEF CleanTree
  <1>2. CASE Cleanable(t, p) /\ p \in W
    <2>1. t[p].val = Empty
      BY <1>2 DEF TreeOK, HiddenByChildren, Cleanable
    <2> QED
      BY <1>2, <2>1 DEF CleanTree
  <1>3. CASE Cleanable(t, p) /\ p \notin W
    <2>1. CleanTree(t, W, p) = RemoveTree(t, W, p)
      BY <1>3 DEF CleanTree, TreeOK, HiddenByChildren, Cleanable
    <2> QED
      BY <2>1, RemovePreserves
  <1> QED
    BY <1>1, <1>2, <1>3

-----------------------------------------------------------------------------
(* Events tell exactly what a reader can see of a change.                  *)

\* An operation sends finitely many events.
LEMMA EventsFinite ==
    ASSUME NEW es \in SUBSET Event
    PROVE  IsFiniteSet(es)
  <1>1. ASSUME NEW a PROVE IsFiniteSet(Events(a, Path))
    <2> DEFINE f == [p \in Path |-> [action |-> a, path |-> p]]
    <2>1. f \in Surjection(Path, Events(a, Path))
      BY DEF Surjection, Events
    <2>2. IsFiniteSet(Path)
      BY PathAssumption
    <2> QED
      BY <2>1, <2>2, FS_Surjection
  <1>2. IsFiniteSet(Events("UPDATE", Path) \cup Events("DELETE", Path))
    BY <1>1, FS_Union
  <1>3. es \in SUBSET (Events("UPDATE", Path) \cup Events("DELETE", Path))
    BY DEF Event, Events
  <1> QED
    BY <1>2, <1>3, FS_Subset

\* The events of the operations are events.
LEMMA EventTypes ==
    ASSUME NEW t, NEW W, NEW p \in Path, NEW v
    PROVE  /\ PutEvents(t, p, v) \in SUBSET Event
           /\ WatchEvents(t, p) \in SUBSET Event
           /\ RemoveEvents(t, W, p) \in SUBSET Event
           /\ CleanEvents(t, W, p) \in SUBSET Event
  <1>1. \A a \in {"UPDATE", "DELETE"} : \A S \in SUBSET Path : Events(a, S) \in SUBSET Event
    BY DEF Events, Event
  <1>2. WithDirsEvents(t, p) \in SUBSET Event
    BY <1>1 DEF WithDirsEvents
  <1>3. PutEvents(t, p, v) \in SUBSET Event
    BY <1>1, <1>2 DEF PutEvents
  <1>4. RemoveEvents(t, W, p) \in SUBSET Event
    BY <1>1 DEF RemoveEvents, Restored
  <1>5. CleanEvents(t, W, p) \in SUBSET Event
    BY <1>1, <1>4 DEF CleanEvents
  <1> QED
    BY <1>2, <1>3, <1>4, <1>5 DEF WatchEvents

\* A reader of q sees something else in u than in t.
Differs(t, u, q) ==
    \/ IsLeaf(t, q) /\ ~IsLeaf(u, q)
    \/ ~IsLeaf(t, q) /\ IsLeaf(u, q)
    \/ IsLeaf(t, q) /\ IsLeaf(u, q) /\ t[q].val # u[q].val

\* The events name exactly the paths at which the trees differ.
Reports(t, u, es) ==
    \A q \in Path : (\E e \in es : e.path = q) <=> Differs(t, u, q)

\* GetValue at p returns something else exactly when a leaf at or below p differs.
LEMMA VisibleDiffers ==
    ASSUME NEW t, NEW u, NEW p \in Path
    PROVE  Visible(t, p) # Visible(u, p) <=>
              \E q \in Path : AtOrAbove(p, q) /\ Differs(t, u, q)
  <1> DEFINE See(x, q) == AtOrAbove(p, q) /\ IsLeaf(x, q)
  <1>1. \A x, y : \A q \in Path :
           <<q, y>> \in Visible(x, p) <=> See(x, q) /\ x[q].val = y
    BY DEF Visible
  <1>2. ASSUME NEW q \in Path, AtOrAbove(p, q), Differs(t, u, q)
        PROVE  Visible(t, p) # Visible(u, p)
    <2>1. CASE IsLeaf(t, q) /\ ~IsLeaf(u, q)
      <3>1. <<q, t[q].val>> \in Visible(t, p) /\ <<q, t[q].val>> \notin Visible(u, p)
        BY <1>1, <1>2, <2>1
      <3> QED
        BY <3>1
    <2>2. CASE ~IsLeaf(t, q) /\ IsLeaf(u, q)
      <3>1. <<q, u[q].val>> \notin Visible(t, p) /\ <<q, u[q].val>> \in Visible(u, p)
        BY <1>1, <1>2, <2>2
      <3> QED
        BY <3>1
    <2>3. CASE IsLeaf(t, q) /\ IsLeaf(u, q) /\ t[q].val # u[q].val
      <3>1. <<q, t[q].val>> \in Visible(t, p) /\ <<q, t[q].val>> \notin Visible(u, p)
        BY <1>1, <1>2, <2>3
      <3> QED
        BY <3>1
    <2> QED
      BY <1>2, <2>1, <2>2, <2>3 DEF Differs
  <1>3. ASSUME \A q \in Path : AtOrAbove(p, q) => ~Differs(t, u, q)
        PROVE  Visible(t, p) = Visible(u, p)
    <2>1. \A q \in Path : AtOrAbove(p, q) =>
              /\ IsLeaf(t, q) <=> IsLeaf(u, q)
              /\ IsLeaf(t, q) => t[q].val = u[q].val
      BY <1>3 DEF Differs
    <2> QED
      BY <2>1 DEF Visible
  <1> QED
    BY <1>2, <1>3

\* The paths of events.
LEMMA EventPaths ==
    ASSUME NEW a, NEW S, NEW q
    PROVE  (\E e \in Events(a, S) : e.path = q) <=> q \in S
  <1> DEFINE ev(x) == [action |-> a, path |-> x]
  <1>1. \A x : ev(x).path = x
    OBVIOUS
  <1>2. Events(a, S) = {ev(x) : x \in S}
    BY DEF Events
  <1> HIDE DEF ev
  <1>3. ASSUME NEW e \in Events(a, S), e.path = q PROVE q \in S
    <2>1. PICK x \in S : e = ev(x)
      BY <1>2
    <2> QED
      BY <1>1, <1>3, <2>1
  <1>4. ASSUME q \in S PROVE \E e \in Events(a, S) : e.path = q
    <2>1. ev(q) \in Events(a, S)
      BY <1>2, <1>4
    <2> QED
      BY <1>1, <2>1
  <1> QED
    BY <1>3, <1>4

\* AsDir reports every leaf on the way to p as deleted, and p may then differ.
LEMMA DirsPaths ==
    ASSUME NEW t, NEW p \in Path, NEW q \in Path
    PROVE  (\E e \in WithDirsEvents(t, p) : e.path = q) <=> Above(q, p) /\ IsLeaf(t, q)
  <1> DEFINE S == {x \in Path : Above(x, p) /\ IsLeaf(t, x)}
  <1>1. (\E e \in Events("DELETE", S) : e.path = q) <=> q \in S
    BY EventPaths
  <1> QED
    BY <1>1 DEF WithDirsEvents

\* internalPut reports what it changes.
LEMMA PutReports ==
    ASSUME NEW t, TreeOK(t), NEW p \in Path, NEW v \in Value
    PROVE  Reports(t, PutTree(t, p, v), PutEvents(t, p, v))
  <1> DEFINE u == PutTree(t, p, v)
  <1>1. CASE p = Root
    BY <1>1 DEF PutTree, PutEvents, Reports, Differs
  <1>2. CASE p # Root
    <2>1. ASSUME NEW q \in Path
          PROVE  (\E e \in PutEvents(t, p, v) : e.path = q) <=>
                    \/ Above(q, p) /\ IsLeaf(t, q)
                    \/ q = p /\ PutShows(t, p, v)
      <3>1. (\E e \in Events("UPDATE", {x \in {p} : PutShows(t, x, v)}) : e.path = q) <=>
               q \in {x \in {p} : PutShows(t, x, v)}
        BY EventPaths
      <3> QED
        BY <1>2, <3>1, DirsPaths DEF PutEvents
    <2>2. /\ u[p].val = v
          /\ Children(t, p) = {} => u[p].kind = "leaf"
          /\ Children(t, p) # {} => u[p].kind = "dir"
          /\ \A q \in Path : Above(q, p) => u[q].kind = "dir" /\ u[q].val = t[q].val
          /\ \A q \in Path : q # p /\ ~Above(q, p) => u[q] = t[q]
      BY <1>2, PutNodes DEF TreeOK
    <2>3. Children(t, p) # {} => ~IsLeaf(t, p)
      <3> SUFFICES ASSUME NEW c \in Children(t, p) PROVE ~IsLeaf(t, p)
        OBVIOUS
      <3> QED
        BY ChildFacts DEF TreeOK, WellFormed, IsDir, IsLeaf
    <2>4. ~Above(p, p)
      BY DEF Above
    <2>5. Differs(t, u, p) <=> PutShows(t, p, v)
      BY <2>2, <2>3 DEF Differs, PutShows, IsLeaf
    <2>6. ASSUME NEW q \in Path, q # p
          PROVE  Differs(t, u, q) <=> Above(q, p) /\ IsLeaf(t, q)
      BY <2>2, <2>6 DEF Differs, IsLeaf
    <2> QED
      BY <2>1, <2>4, <2>5, <2>6 DEF Reports
  <1> QED
    BY <1>1, <1>2

\* Watch reports the leaves that its directories take the place of.
LEMMA WatchReports ==
    ASSUME NEW t, TreeOK(t), NEW p \in Path
    PROVE  Reports(t, WatchTree(t, p), WatchEvents(t, p))
  <1> DEFINE u == WatchTree(t, p)
  <1>1. /\ Present(t, p) => u[p] = t[p]
        /\ ~Present(t, p) => u[p] = EmptyDir
        /\ \A q \in Path : Above(q, p) => u[q].kind = "dir" /\ u[q].val = t[q].val
        /\ \A q \in Path : q # p /\ ~Above(q, p) => u[q] = t[q]
    BY WatchNodes DEF TreeOK
  <1>2. ~Above(p, p)
    BY DEF Above
  <1>3. ~Differs(t, u, p)
    BY <1>1 DEF Differs, IsLeaf, Present, EmptyDir
  <1>4. ASSUME NEW q \in Path, q # p
        PROVE  Differs(t, u, q) <=> Above(q, p) /\ IsLeaf(t, q)
    BY <1>1, <1>4 DEF Differs, IsLeaf
  <1> QED
    BY <1>2, <1>3, <1>4, DirsPaths DEF Reports, WatchEvents

\* node.Remove reports the leaves at and below p and the ancestor that becomes
\* a leaf again.  What its cascade removes above p were directories.
LEMMA RemoveReports ==
    ASSUME NEW t, TreeOK(t), NEW W \in SUBSET Path, NEW p \in Path, Present(t, p)
    PROVE  Reports(t, RemoveTree(t, W, p), RemoveEvents(t, W, p))
  <1> DEFINE u == RemoveTree(t, W, p)
             G == Removed(t, W, p)
             R == Restored(t, W, p)
  <1>1. /\ \A q \in Path : q \in G => u[q] = Absent
        /\ \A q \in Path : q \notin G /\ AtOrAbove(p, q) => u[q] = EmptyDir
        /\ \A q \in Path : q \notin G /\ ~AtOrAbove(p, q) /\ q \in R =>
               u[q].kind = "leaf" /\ u[q].val = t[q].val
        /\ \A q \in Path : q \notin G /\ ~AtOrAbove(p, q) /\ q \notin R => u[q] = t[q]
    BY RemoveNodes DEF TreeOK
  <1>2. ASSUME NEW q \in Path
        PROVE  (\E e \in RemoveEvents(t, W, p) : e.path = q) <=>
                  (AtOrAbove(p, q) /\ IsLeaf(t, q)) \/ q \in R
    <2>1. (\E e \in Events("DELETE", {x \in Path : AtOrAbove(p, x) /\ IsLeaf(t, x)}) :
              e.path = q) <=> q \in {x \in Path : AtOrAbove(p, x) /\ IsLeaf(t, x)}
      BY EventPaths
    <2>2. (\E e \in Events("UPDATE", R) : e.path = q) <=> q \in R
      BY EventPaths
    <2> QED
      BY <2>1, <2>2 DEF RemoveEvents
  <1>3. ASSUME NEW q \in Path, Above(q, p) PROVE IsDir(t, q) /\ ~AtOrAbove(p, q)
    BY <1>3, AboveAntisym DEF TreeOK, WellFormed, Above
  <1>4. ASSUME NEW q \in R
        PROVE  q \in Path /\ q \notin G /\ ~AtOrAbove(p, q) /\ ~IsLeaf(t, q)
    <2>1. q \in Path /\ Above(q, p) /\ t[q].val # Empty
      BY DEF Restored
    <2>2. IsDir(t, q) /\ ~AtOrAbove(p, q)
      BY <1>3, <2>1
    <2>3. q \notin RemovedAbove(t, W, p)
      BY <2>1, <2>2, AboveRefl DEF RemovedAbove, IsDir, Present
    <2> QED
      BY <2>1, <2>2, <2>3 DEF Removed, RemovedBelow, IsDir, IsLeaf
  <1>5. ASSUME NEW q \in Path
        PROVE  Differs(t, u, q) <=> (AtOrAbove(p, q) /\ IsLeaf(t, q)) \/ q \in R
    <2>1. CASE AtOrAbove(p, q)
      <3>1. ~IsLeaf(u, q)
        BY <1>1, <2>1 DEF IsLeaf, Absent, EmptyDir
      <3> QED
        BY <1>4, <2>1, <3>1 DEF Differs
    <2>2. CASE ~AtOrAbove(p, q) /\ q \in R
      <3>1. IsLeaf(u, q) /\ ~IsLeaf(t, q)
        BY <1>1, <1>4, <2>2 DEF IsLeaf
      <3> QED
        BY <2>2, <3>1 DEF Differs
    <2>3. CASE ~AtOrAbove(p, q) /\ q \notin R /\ q \in G
      <3>1. IsDir(t, q)
        BY <1>3, <2>3 DEF Removed, RemovedBelow, RemovedAbove
      <3> QED
        BY <1>1, <2>3, <3>1 DEF Differs, IsDir, IsLeaf, Absent
    <2>4. CASE ~AtOrAbove(p, q) /\ q \notin R /\ q \notin G
      BY <1>1, <2>4 DEF Differs, IsLeaf
    <2> QED
      BY <2>1, <2>2, <2>3, <2>4
  <1> QED
    BY <1>2, <1>5 DEF Reports

\* node.Clean reports what it changes, whether it removes the node or not.
LEMMA CleanReports ==
    ASSUME NEW t, TreeOK(t), NEW W \in SUBSET Path, NEW p \in Path
    PROVE  Reports(t, CleanTree(t, W, p), CleanEvents(t, W, p))
  <1>1. CASE Cleanable(t, p) /\ p \notin W
    <2>1. t[p].val = Empty /\ Present(t, p)
      BY <1>1 DEF Cleanable, TreeOK, HiddenByChildren, IsDir, Present
    <2> QED
      BY <1>1, <2>1, RemoveReports DEF CleanTree, CleanEvents
  <1>2. CASE ~(Cleanable(t, p) /\ p \notin W)
    <2>1. CleanTree(t, W, p) = t /\ CleanEvents(t, W, p) = {}
      BY <1>2 DEF CleanTree, CleanEvents, Cleanable, TreeOK, HiddenByChildren
    <2> QED
      BY <2>1 DEF Reports, Differs
  <1> QED
    BY <1>1, <1>2

=============================================================================
