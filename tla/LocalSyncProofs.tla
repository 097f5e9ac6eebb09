-------------------------- MODULE LocalSyncProofs --------------------------
(***************************************************************************)
(* The local sync shows what the backend shows once every event has been   *)
(* processed, for any paths and values, any number of requests and any     *)
(* capacity of the channel.                                                *)
(*                                                                         *)
(* InStep speaks of an empty channel.  The invariant says what a channel   *)
(* that is not empty will have made of the copy when it is: the last event *)
(* at, above or below a leaf that shows puts that leaf, and a value that   *)
(* does not show is taken back by a delete that is still to come.  That    *)
(* holds of the events alone, whatever tree they are applied to, which is  *)
(* why those from before the copy may be applied to it again.              *)
(***************************************************************************)
EXTENDS LocalSync, TreeProofs

Message == [action : {"UPDATE", "DELETE"}, path : Path, val : Data]

\* What the sync is to show when it has processed the channel.
Shown == IF pc \in {"loop", "returned"} /\ ~open THEN atStop ELSE Visible(from, Root)

Shows(L, p) == \E l \in L : l[1] = p

Update(l) == [action |-> "UPDATE", path |-> l[1], val |-> l[2]]

Comparable(p, q) == AtOrAbove(p, q) \/ AtOrAbove(q, p)

\* The leaves of a tree: none is above another.
Leaves(L) ==
    /\ L \in SUBSET (Path \X Value)
    /\ \A l, m \in L : Comparable(l[1], m[1]) => l = m

\* An event that touches a leaf that shows is the put of it, or one follows.
LastWord(L, s) ==
    \A l \in L : \A i \in DOMAIN s :
        Comparable(s[i].path, l[1]) =>
            s[i] = Update(l) \/ \E j \in DOMAIN s : j > i /\ s[j] = Update(l)

\* A put of what does not show is followed by a delete of it.
TakenBack(L, s) ==
    \A i \in DOMAIN s : s[i].action = "UPDATE" /\ ~Shows(L, s[i].path) =>
        \E j \in DOMAIN s :
            j > i /\ s[j].action = "DELETE" /\ s[j].path = s[i].path

\* Where no event is to come, the tree t shows L and hides nothing else.
InPlace(L, s, t) ==
    /\ \A l \in L :
          (\A i \in DOMAIN s : ~Comparable(s[i].path, l[1])) =>
              IsLeaf(t, l[1]) /\ t[l[1]].val = l[2]
    /\ \A p \in Path :
          /\ ~Shows(L, p)
          /\ \A i \in DOMAIN s : s[i].path = p => s[i].action # "DELETE"
          => t[p].val = Empty

\* A tree nobody watches has no empty directories.
Pruned(t) == \A p \in Path \ {Root} : ~Cleanable(t, p)

\* An update puts a value, and not at the root.
ValuesInUpdates(s) ==
    \A i \in DOMAIN s :
        s[i].action = "UPDATE" => s[i].val \in Value /\ s[i].path # Root

TypeOK ==
    /\ TreeOK(from)
    /\ TreeOK(to)
    /\ chan \in Seq(Message)
    /\ ValuesInUpdates(chan)
    /\ Len(chan) <= BufLen
    /\ open \in BOOLEAN
    /\ pc \in {"watch", "copy", "loop", "returned"}
    /\ writes \in 0..MaxWrites
    /\ dropped \in BOOLEAN

LoopInv ==
    /\ pc = "watch" => ~open /\ chan = <<>>
    /\ pc = "copy" => open
    /\ pc = "returned" => ~open /\ chan = <<>>

EventsInv == ~dropped => LastWord(Shown, chan) /\ TakenBack(Shown, chan)

CopyInv == ~dropped /\ pc \in {"loop", "returned"} => InPlace(Shown, chan, to)

Inv == TypeOK /\ LoopInv /\ Leaves(Shown) /\ Pruned(to) /\ EventsInv /\ CopyInv

-----------------------------------------------------------------------------
(* Trees.                                                                  *)

\* What GetValue returns at the root are the leaves and their values.
LEMMA VisibleFacts ==
    ASSUME NEW t, TreeOK(t)
    PROVE  /\ \A p \in Path : Shows(Visible(t, Root), p) <=> IsLeaf(t, p)
           /\ \A p \in Path : \A v : <<p, v>> \in Visible(t, Root) <=>
                                   IsLeaf(t, p) /\ t[p].val = v
           /\ \A l \in Visible(t, Root) :
                  /\ l[1] \in Path /\ l = <<l[1], l[2]>>
                  /\ IsLeaf(t, l[1]) /\ t[l[1]].val = l[2]
  <1>1. \A p \in Path : AtOrAbove(Root, p)
    BY RootAbove
  <1>2. \A l \in Visible(t, Root) :
           /\ l[1] \in Path /\ l = <<l[1], l[2]>>
           /\ IsLeaf(t, l[1]) /\ t[l[1]].val = l[2]
    BY <1>1 DEF Visible
  <1>3. \A p \in Path : \A v : <<p, v>> \in Visible(t, Root) <=>
                              IsLeaf(t, p) /\ t[p].val = v
    BY <1>1 DEF Visible
  <1>4. \A p \in Path : Shows(Visible(t, Root), p) <=> IsLeaf(t, p)
    <2> TAKE p \in Path
    <2>1. IsLeaf(t, p) => Shows(Visible(t, Root), p)
      <3>1. IsLeaf(t, p) => <<p, t[p].val>> \in Visible(t, Root)
        BY <1>3
      <3> QED
        BY <3>1 DEF Shows
    <2>2. Shows(Visible(t, Root), p) => IsLeaf(t, p)
      BY <1>2 DEF Shows
    <2> QED
      BY <2>1, <2>2
  <1> QED
    BY <1>2, <1>3, <1>4

\* No leaf is above another.
LEMMA LeavesApart ==
    ASSUME NEW t, TreeOK(t), NEW p \in Path, NEW q \in Path,
           IsLeaf(t, p), IsLeaf(t, q), Comparable(p, q)
    PROVE  p = q
  BY DEF TreeOK, WellFormed, IsLeaf, IsDir, Present, Above, Comparable

\* What a tree shows is a set of leaves, none above another.
LEMMA VisibleLeaves ==
    ASSUME NEW t, TreeOK(t)
    PROVE  Leaves(Visible(t, Root))
  <1>1. Visible(t, Root) \in SUBSET (Path \X Value)
    BY DEF Visible, TreeOK, LeavesHoldValues
  <1>2. ASSUME NEW l \in Visible(t, Root), NEW m \in Visible(t, Root),
               Comparable(l[1], m[1])
        PROVE  l = m
    <2>1. /\ l[1] \in Path /\ l = <<l[1], l[2]>>
          /\ IsLeaf(t, l[1]) /\ t[l[1]].val = l[2]
          /\ m[1] \in Path /\ m = <<m[1], m[2]>>
          /\ IsLeaf(t, m[1]) /\ t[m[1]].val = m[2]
      BY VisibleFacts
    <2>2. l[1] = m[1]
      BY <1>2, <2>1, LeavesApart
    <2> QED
      BY <2>1, <2>2
  <1> QED
    BY <1>1, <1>2 DEF Leaves

\* Without empty directories there is a leaf below every node that has children:
\* the lowest of the nodes below it.
LEMMA LeafBelow ==
    ASSUME NEW t, TreeOK(t), Pruned(t), NEW p \in Path, Children(t, p) # {}
    PROVE  \E r \in Path : Above(p, r) /\ IsLeaf(t, r)
  <1> DEFINE D(r) == {x \in Path : AtOrAbove(r, x)}
             S == {r \in Path : Above(p, r) /\ Present(t, r)}
             T == {D(r) : r \in S}
  <1>1. S # {}
    BY ChildFacts
  <1>2. PICK m \in T : \A y \in T : <<y, m>> \notin StrictSubsetOrdering(Path)
    <2>1. T \subseteq FiniteSubsetsOf(Path)
      BY PathAssumption, FS_FiniteSubsetsOfFinite
    <2>2. T # {}
      BY <1>1
    <2> HIDE DEF T
    <2> QED
      BY <2>1, <2>2, FS_StrictSubsetOrderingWellFounded, WFMin
  <1>3. PICK r \in S : m = D(r)
    OBVIOUS
  <1>4. Children(t, r) = {}
    <2> SUFFICES ASSUME NEW c \in Children(t, r) PROVE FALSE
      OBVIOUS
    <2>1. c \in Path /\ c # Root /\ Above(r, c) /\ Present(t, c)
      BY ChildFacts
    <2>2. Above(p, c)
      BY <2>1, AboveTrans, AboveAntisym DEF Above
    <2>3. D(c) \subseteq D(r)
      BY <2>1, AboveTrans DEF Above
    <2>4. r \in D(r) /\ r \notin D(c)
      BY <2>1, AboveRefl, AboveAntisym DEF Above
    <2>5. D(c) \in T /\ D(c) \in SUBSET Path /\ D(r) \in SUBSET Path
      BY <2>1, <2>2
    <2> HIDE DEF D, T
    <2> QED
      BY <1>2, <1>3, <2>3, <2>4, <2>5 DEF StrictSubsetOrdering
  <1>5. r # Root
    BY RootAbove, AboveAntisym, PathFacts DEF Above
  <1>6. ~IsDir(t, r)
    BY <1>4, <1>5 DEF Pruned, Cleanable
  <1> QED
    BY <1>6 DEF TreeOK, Node, Kind, IsDir, IsLeaf, Present

\* The copy has the leaves of the tree it is made from, and nothing else.
LEMMA CopyFacts ==
    ASSUME NEW t, TreeOK(t)
    PROVE  LET u == CopyOf(Visible(t, Root))
           IN  /\ TreeOK(u) /\ Pruned(u)
               /\ \A p \in Path : IsLeaf(t, p) => u[p] = t[p]
               /\ \A p \in Path : ~IsLeaf(t, p) => u[p].val = Empty
  <1> DEFINE L == Visible(t, Root)
             u == CopyOf(L)
             way(p) == \E l \in L : Above(p, l[1])
  <1>1. \A p \in Path : (\E l \in L : l[1] = p) <=> IsLeaf(t, p)
    BY VisibleFacts DEF Shows
  <1>2. ASSUME NEW p \in Path, IsLeaf(t, p) PROVE u[p] = t[p]
    <2>1. PICK x \in L : x[1] = p /\ (CHOOSE l \in L : l[1] = p) = x
      BY <1>1, <1>2
    <2>2. x[2] = t[p].val
      BY <2>1, VisibleFacts
    <2>3. u[p] = [kind |-> "leaf", val |-> t[p].val]
      BY <2>1, <2>2 DEF CopyOf
    <2> QED
      BY <1>2, <2>3 DEF TreeOK, Node, IsLeaf
  <1>3. ASSUME NEW p \in Path, ~IsLeaf(t, p)
        PROVE  u[p] = IF p = Root \/ way(p) THEN EmptyDir ELSE Absent
    BY <1>1, <1>3 DEF CopyOf
  <1>4. \A p \in Path : way(p) => ~IsLeaf(t, p)
    <2> SUFFICES ASSUME NEW p \in Path, NEW l \in L, Above(p, l[1]), IsLeaf(t, p)
                 PROVE  FALSE
      OBVIOUS
    <2>1. l[1] \in Path /\ IsLeaf(t, l[1])
      BY VisibleFacts
    <2> QED
      BY <2>1, LeavesApart DEF Above, Comparable
  <1>5. ~IsLeaf(t, Root) /\ Root \in Path
    BY PathFacts, PathAssumption DEF TreeOK, WellFormed, IsLeaf, EmptyDir, Root
  <1>6. \A p \in Path : Present(u, p) <=> IsLeaf(t, p) \/ p = Root \/ way(p)
    BY <1>2, <1>3 DEF Present, IsLeaf, EmptyDir, Absent
  <1>7. \A p \in Path : IsDir(u, p) <=> p = Root \/ way(p)
    BY <1>2, <1>3, <1>4, <1>5 DEF IsDir, IsLeaf, EmptyDir, Absent
  <1>8. \A p \in Path : IsLeaf(u, p) <=> IsLeaf(t, p)
    BY <1>2, <1>3 DEF IsLeaf, EmptyDir, Absent
  <1>9. u \in [Path -> Node]
    <2>1. \A p \in Path : u[p] \in Node
      BY <1>2, <1>3 DEF TreeOK, EmptyDir, Absent, Node, Kind, Data
    <2>2. u = [p \in Path |-> u[p]]
      BY DEF CopyOf
    <2> QED
      BY <2>1, <2>2
  <1>10. ASSUME NEW p \in Path, NEW q \in Path, Above(q, p), Present(u, p)
         PROVE  IsDir(u, q)
    <2>1. CASE IsLeaf(t, p)
      BY <1>1, <1>7, <1>10, <2>1
    <2>2. CASE way(p)
      <3>1. PICK l \in L : Above(p, l[1])
        BY <2>2
      <3>2. l[1] \in Path
        BY VisibleFacts
      <3>3. Above(q, l[1])
        BY <1>10, <3>1, <3>2, AboveTrans, AboveAntisym DEF Above
      <3> QED
        BY <1>7, <3>3
    <2>3. CASE p = Root
      BY <1>5, <1>10, <2>3, RootAbove, AboveAntisym DEF Above
    <2> QED
      BY <1>6, <1>10, <2>1, <2>2, <2>3
  <1>11. \A p \in Path : ~IsLeaf(t, p) => u[p].val = Empty
    BY <1>3 DEF EmptyDir, Absent
  <1>12. WellFormed(u)
    <2>1. \A p \in Path : ~Present(u, p) => u[p] = Absent
      BY <1>3, <1>6
    <2> QED
      BY <1>3, <1>5, <1>10, <2>1 DEF WellFormed
  <1>13. LeavesHoldValues(u)
    BY <1>2, <1>8 DEF TreeOK, LeavesHoldValues
  <1>14. HiddenByChildren(u)
    BY <1>7, <1>4, <1>5, <1>11 DEF HiddenByChildren
  <1>15. ASSUME NEW p \in Path \ {Root} PROVE ~Cleanable(u, p)
    <2> SUFFICES ASSUME IsDir(u, p) PROVE Children(u, p) # {}
      BY DEF Cleanable
    <2>1. PICK l \in L : Above(p, l[1])
      BY <1>7, <1>15
    <2>2. l[1] \in Path /\ IsLeaf(t, l[1])
      BY VisibleFacts
    <2>3. Present(u, l[1])
      BY <1>6, <2>2
    <2> QED
      BY <1>12, <2>1, <2>2, <2>3, ChildOnTheWay
  <1> QED
    BY <1>2, <1>9, <1>11, <1>12, <1>13, <1>14, <1>15 DEF TreeOK, Pruned

-----------------------------------------------------------------------------
(* Events.                                                                 *)

Deletion(q) == [action |-> "DELETE", path |-> q]
Updating(q) == [action |-> "UPDATE", path |-> q]

\* A deletion tells that a leaf goes, an update that one comes or changes.
Tells(t, u, es) ==
    \A q \in Path :
        /\ Deletion(q) \in es <=> IsLeaf(t, q) /\ ~IsLeaf(u, q)
        /\ Updating(q) \in es <=>
              IsLeaf(u, q) /\ (IsLeaf(t, q) => t[q].val # u[q].val)

\* Events that report a change tell of it, if deletions are of what is no leaf
\* afterwards and updates of what is.
LEMMA ReportsTell ==
    ASSUME NEW t, NEW u, NEW es \in SUBSET Event, Reports(t, u, es),
           \A q \in Path : Deletion(q) \in es => ~IsLeaf(u, q),
           \A q \in Path : Updating(q) \in es => IsLeaf(u, q)
    PROVE  Tells(t, u, es)
  <1>1. ASSUME NEW q \in Path
        PROVE  (\E e \in es : e.path = q) <=> Deletion(q) \in es \/ Updating(q) \in es
    <2>1. \A e \in es : e.path = q => e = Deletion(q) \/ e = Updating(q)
      BY DEF Event, Deletion, Updating
    <2>2. Deletion(q).path = q /\ Updating(q).path = q
      BY DEF Deletion, Updating
    <2> QED
      BY <2>1, <2>2
  <1>2. \A q \in Path : Deletion(q) \in es \/ Updating(q) \in es <=> Differs(t, u, q)
    BY <1>1 DEF Reports
  <1> QED
    BY <1>2 DEF Tells, Differs

\* Which events a set of paths gives.
LEMMA EventsOf ==
    ASSUME NEW S, NEW q
    PROVE  /\ Deletion(q) \in Events("DELETE", S) <=> q \in S
           /\ Updating(q) \in Events("UPDATE", S) <=> q \in S
           /\ Deletion(q) \notin Events("UPDATE", S)
           /\ Updating(q) \notin Events("DELETE", S)
  BY DEF Events, Deletion, Updating

\* The events of node.Put tell what became of every leaf.
LEMMA PutTells ==
    ASSUME NEW t, TreeOK(t), NEW p \in Path, p # Root, NEW v \in Value
    PROVE  Tells(t, PutTree(t, p, v), PutEvents(t, p, v))
  <1> DEFINE u == PutTree(t, p, v)
             es == PutEvents(t, p, v)
  <1>1. /\ Children(t, p) = {} => u[p].kind = "leaf"
        /\ \A q \in Path : Above(q, p) => u[q].kind = "dir"
    BY PutNodes DEF TreeOK
  <1>2. ASSUME NEW q \in Path, Deletion(q) \in es PROVE ~IsLeaf(u, q)
    <2>1. Above(q, p)
      BY <1>2, EventsOf DEF PutEvents, WithDirsEvents
    <2> QED
      BY <1>1, <2>1 DEF IsLeaf
  <1>3. ASSUME NEW q \in Path, Updating(q) \in es PROVE IsLeaf(u, q)
    <2>1. q = p /\ PutShows(t, p, v)
      BY <1>3, EventsOf DEF PutEvents, WithDirsEvents
    <2> QED
      BY <1>1, <2>1 DEF IsLeaf, PutShows
  <1>4. es \in SUBSET Event /\ Reports(t, u, es)
    BY EventTypes, PutReports
  <1> HIDE DEF u, es
  <1>5. Tells(t, u, es)
    BY <1>2, <1>3, <1>4, ReportsTell
  <1> QED
    BY <1>5 DEF u, es

\* The events of node.Remove tell what became of every leaf.
LEMMA RemoveTells ==
    ASSUME NEW t, TreeOK(t), NEW W \in SUBSET Path, NEW p \in Path, Present(t, p)
    PROVE  Tells(t, RemoveTree(t, W, p), RemoveEvents(t, W, p))
  <1> DEFINE u == RemoveTree(t, W, p)
             es == RemoveEvents(t, W, p)
             G == Removed(t, W, p)
             R == Restored(t, W, p)
  <1>1. /\ \A q \in Path : q \in G => u[q] = Absent
        /\ \A q \in Path : q \notin G /\ AtOrAbove(p, q) => u[q] = EmptyDir
        /\ \A q \in Path : q \notin G /\ ~AtOrAbove(p, q) /\ q \in R =>
               u[q].kind = "leaf"
    BY RemoveNodes DEF TreeOK
  <1>2. ASSUME NEW q \in Path, Deletion(q) \in es PROVE ~IsLeaf(u, q)
    <2>1. AtOrAbove(p, q)
      BY <1>2, EventsOf DEF RemoveEvents
    <2> QED
      BY <1>1, <2>1 DEF IsLeaf, Absent, EmptyDir
  <1>3. ASSUME NEW q \in Path, Updating(q) \in es PROVE IsLeaf(u, q)
    <2>1. q \in R
      BY <1>3, EventsOf DEF RemoveEvents
    <2>2. Above(q, p) /\ t[q].val # Empty
      BY <2>1 DEF Restored
    <2>3. ~AtOrAbove(p, q) /\ Present(t, q)
      BY <2>2, AboveAntisym DEF Above, TreeOK, WellFormed, IsDir, Present
    <2>4. q \notin G
      BY <2>2, <2>3, AboveRefl DEF Removed, RemovedBelow, RemovedAbove
    <2> QED
      BY <1>1, <2>1, <2>3, <2>4 DEF IsLeaf
  <1>4. es \in SUBSET Event /\ Reports(t, u, es)
    BY EventTypes, RemoveReports
  <1> HIDE DEF u, es
  <1>5. Tells(t, u, es)
    BY <1>2, <1>3, <1>4, ReportsTell
  <1> QED
    BY <1>5 DEF u, es

\* The event e as it is sent, with the value that shows in u.
Sending(e, u) == [action |-> e.action, path |-> e.path, val |-> u[e.path].val]

\* m sends the events es, each at least once, and deletions first.
Batch(m, es, u) ==
    /\ m \in Seq(Message)
    /\ \A i \in DOMAIN m : \E e \in es : m[i] = Sending(e, u)
    /\ \A e \in es : \E i \in DOMAIN m : m[i] = Sending(e, u)
    /\ \A i, j \in DOMAIN m :
          m[i].action = "DELETE" /\ m[j].action = "UPDATE" => i < j

\* A sequence of all elements of a set has them all, and no other.
LEMMA SeqsFacts ==
    ASSUME NEW S, IsFiniteSet(S), NEW s \in SetToSeqs(S)
    PROVE  /\ s \in Seq(S)
           /\ \A x \in S : \E i \in DOMAIN s : s[i] = x
  <1> DEFINE n == Cardinality(S)
  <1>1. n \in Nat
    BY FS_CardinalityType
  <1>2. s \in [1..n -> S] /\ \A i, j \in 1..n : i # j => s[i] # s[j]
    BY DEF SetToSeqs
  <1>3. s \in Injection(1..n, S)
    BY <1>2 DEF Injection, IsInjective
  <1>4. Cardinality(1..n) = n
    BY <1>1, FS_Interval
  <1>5. s \in Surjection(1..n, S)
    BY <1>3, <1>4, FS_Injection
  <1> QED
    BY <1>1, <1>2, <1>5 DEF Surjection

\* A sequence over D is one over any larger set.
LEMMA LargerSeq ==
    ASSUME NEW D, NEW E, D \subseteq E, NEW d \in Seq(D)
    PROVE  d \in Seq(E)
  OBVIOUS

\* z is s followed by m, element by element.
Joined(z, s, m) ==
    /\ \A i \in DOMAIN s : i \in DOMAIN z /\ z[i] = s[i]
    /\ \A k \in DOMAIN m : Len(s) + k \in DOMAIN z /\ z[Len(s) + k] = m[k]
    /\ \A i \in DOMAIN z : i \in DOMAIN s \/ \E k \in DOMAIN m : i = Len(s) + k
    /\ \A i \in DOMAIN s : \A k \in DOMAIN m : i < Len(s) + k

\* A concatenation joins its parts.
LEMMA ConcatFacts ==
    ASSUME NEW S, NEW s \in Seq(S), NEW m \in Seq(S)
    PROVE  /\ s \o m \in Seq(S)
           /\ Len(s \o m) = Len(s) + Len(m)
           /\ Joined(s \o m, s, m)
  <1>1. /\ s \o m \in Seq(S)
        /\ Len(s \o m) = Len(s) + Len(m)
        /\ \A i \in 1..(Len(s) + Len(m)) :
              (s \o m)[i] = IF i <= Len(s) THEN s[i] ELSE m[i - Len(s)]
    BY ConcatProperties
  <1>2. Len(s) \in Nat /\ Len(m) \in Nat
    OBVIOUS
  <1>3. DOMAIN s = 1..Len(s) /\ DOMAIN m = 1..Len(m)
        /\ DOMAIN (s \o m) = 1..(Len(s) + Len(m))
    BY <1>1
  <1>4. \A i \in DOMAIN (s \o m) : i \notin DOMAIN s => i - Len(s) \in DOMAIN m
    BY <1>2, <1>3
  <1>5. \A i \in DOMAIN (s \o m) : i = Len(s) + (i - Len(s))
    BY <1>2, <1>3
  <1>6. \A k \in DOMAIN m : (Len(s) + k) - Len(s) = k /\ ~(Len(s) + k <= Len(s))
                            /\ Len(s) + k \in 1..(Len(s) + Len(m))
    BY <1>2, <1>3
  <1>7. \A i \in DOMAIN s : i <= Len(s) /\ i \in 1..(Len(s) + Len(m))
    BY <1>2, <1>3
  <1>8. \A k \in DOMAIN m : (s \o m)[Len(s) + k] = m[k]
    BY <1>1, <1>6
  <1>9. \A i \in DOMAIN s : (s \o m)[i] = s[i]
    BY <1>1, <1>7
  <1>10. \A i \in DOMAIN s : \A k \in DOMAIN m : i < Len(s) + k
    BY <1>2, <1>3
  <1>11. \A i \in DOMAIN (s \o m) : i \in DOMAIN s \/ \E k \in DOMAIN m : i = Len(s) + k
    BY <1>4, <1>5
  <1>12. /\ \A i \in DOMAIN s : i \in DOMAIN (s \o m)
         /\ \A k \in DOMAIN m : Len(s) + k \in DOMAIN (s \o m)
    BY <1>3, <1>6, <1>7
  <1>13. Joined(s \o m, s, m)
    BY <1>8, <1>9, <1>10, <1>11, <1>12, Zenon DEF Joined
  <1> QED
    BY <1>1, <1>13

\* What the channel holds after a request's messages were queued.
LEMMA ConcatMessages ==
    ASSUME NEW s \in Seq(Message), NEW m \in Seq(Message),
           ValuesInUpdates(s), ValuesInUpdates(m)
    PROVE  /\ s \o m \in Seq(Message) /\ Len(s \o m) = Len(s) + Len(m)
           /\ ValuesInUpdates(s \o m)
  <1> DEFINE z == s \o m
  <1>1. z \in Seq(Message) /\ Len(z) = Len(s) + Len(m) /\ Joined(z, s, m)
    BY ConcatFacts, Zenon
  <1> HIDE DEF z
  <1>2. ValuesInUpdates(z)
    BY <1>1 DEF ValuesInUpdates, Joined
  <1> QED
    BY <1>1, <1>2 DEF z

\* Whatever order an operation takes, it sends all its events, deletions first.
LEMMA OrdersBatch ==
    ASSUME NEW u \in [Path -> Node], NEW es \in SUBSET Event, NEW s \in Orders(es)
    PROVE  Batch([i \in DOMAIN s |-> [action |-> s[i].action,
                                      path |-> s[i].path,
                                      val |-> u[s[i].path].val]], es, u)
  <1> DEFINE D == {e \in es : e.action = "DELETE"}
             U == {e \in es : e.action = "UPDATE"}
             m == [i \in DOMAIN s |-> Sending(s[i], u)]
  <1>1. PICK d \in SetToSeqs(D), w \in SetToSeqs(U) : s = d \o w
    BY DEF Orders
  <1>2. D \in SUBSET Event /\ U \in SUBSET Event /\ es = D \cup U
    BY DEF Event
  <1>3. /\ d \in Seq(D) /\ \A e \in D : \E i \in DOMAIN d : d[i] = e
        /\ w \in Seq(U) /\ \A e \in U : \E i \in DOMAIN w : w[i] = e
    <2>1. IsFiniteSet(D) /\ IsFiniteSet(U)
      BY <1>2, EventsFinite
    <2> HIDE DEF D, U
    <2> QED
      BY <2>1, SeqsFacts
  <1>4. d \in Seq(es) /\ w \in Seq(es)
    <2>1. D \subseteq es /\ U \subseteq es
      OBVIOUS
    <2> HIDE DEF D, U
    <2> QED
      BY <1>3, <2>1, LargerSeq
  <1>5. /\ s \in Seq(es)
        /\ \A i \in DOMAIN d : i \in DOMAIN s /\ s[i] = d[i]
        /\ \A k \in DOMAIN w : Len(d) + k \in DOMAIN s /\ s[Len(d) + k] = w[k]
        /\ \A i \in DOMAIN s : i \in DOMAIN d \/ \E k \in DOMAIN w : i = Len(d) + k
        /\ \A i \in DOMAIN d : \A k \in DOMAIN w : i < Len(d) + k
    <2>1. s \in Seq(es) /\ Joined(s, d, w)
      <3>1. d \o w \in Seq(es) /\ Joined(d \o w, d, w)
        BY <1>4, ConcatFacts, Zenon
      <3> QED
        BY <1>1, <3>1
    <2> QED
      BY <2>1 DEF Joined
  <1>6. /\ \A i \in DOMAIN d : d[i].action = "DELETE"
        /\ \A k \in DOMAIN w : w[k].action = "UPDATE"
    BY <1>3
  <1>7. \A e \in es : \E i \in DOMAIN s : s[i] = e
    <2> HIDE DEF D, U
    <2>1. ASSUME NEW e \in D PROVE \E i \in DOMAIN s : s[i] = e
      <3>1. PICK i \in DOMAIN d : d[i] = e
        BY <1>3
      <3> QED
        BY <1>5, <3>1
    <2>2. ASSUME NEW e \in U PROVE \E i \in DOMAIN s : s[i] = e
      <3>1. PICK k \in DOMAIN w : w[k] = e
        BY <1>3
      <3> QED
        BY <1>5, <3>1
    <2> QED
      BY <1>2, <2>1, <2>2
  <1>8. \A i \in DOMAIN s : s[i].action = "DELETE" <=> i \in DOMAIN d
    BY <1>5, <1>6
  <1>9. \A i \in DOMAIN s : s[i].action = "UPDATE" => \E k \in DOMAIN w : i = Len(d) + k
    BY <1>5, <1>6
  <1>10. \A i, j \in DOMAIN s : s[i].action = "DELETE" /\ s[j].action = "UPDATE" => i < j
    BY <1>5, <1>8, <1>9
  <1> HIDE DEF D, U
  <1>11. \A i \in DOMAIN s : s[i] \in es /\ m[i] = Sending(s[i], u)
    BY <1>5
  <1>12. \A e \in es : Sending(e, u) \in Message /\ Sending(e, u).action = e.action
    BY DEF Sending, Message, Event, Node
  <1>13. m \in Seq(Message) /\ DOMAIN m = DOMAIN s
    <2>1. DOMAIN m = 1..Len(s) /\ Len(s) \in Nat /\ m \in [1..Len(s) -> Message]
      BY <1>5, <1>11, <1>12
    <2> QED
      BY <2>1, <1>5
  <1>14. Batch(m, es, u)
    BY <1>7, <1>10, <1>11, <1>12, <1>13 DEF Batch
  <1> QED
    BY <1>14 DEF Sending

-----------------------------------------------------------------------------
(* A request: the backend's tree t becomes u, and the channel s gets m.    *)

\* An event that touches a leaf of u comes with the update of that leaf.
LEMMA TouchedIsUpdated ==
    ASSUME NEW t, NEW u, TreeOK(t), TreeOK(u), NEW es \in SUBSET Event,
           Tells(t, u, es), NEW p \in Path, IsLeaf(u, p),
           NEW e \in es, Comparable(e.path, p)
    PROVE  /\ Updating(p) \in es
           /\ e.action = "UPDATE" => e.path = p
  <1>1. e.path \in Path /\ (e = Deletion(e.path) \/ e = Updating(e.path))
    BY DEF Event, Deletion, Updating
  <1>2. CASE e = Updating(e.path)
    <2>1. IsLeaf(u, e.path)
      BY <1>1, <1>2 DEF Tells
    <2>2. e.path = p
      BY <1>1, <2>1, LeavesApart
    <2> QED
      BY <1>2, <2>2
  <1>3. CASE e = Deletion(e.path)
    <2>1. IsLeaf(t, e.path) /\ ~IsLeaf(u, e.path)
      BY <1>1, <1>3 DEF Tells
    <2>2. ~IsLeaf(t, p)
      BY <1>1, <2>1, LeavesApart
    <2>3. e.action # "UPDATE"
      BY <1>3 DEF Deletion
    <2> QED
      BY <2>2, <2>3 DEF Tells
  <1> QED
    BY <1>1, <1>2, <1>3

\* A leaf of u that no event touches was there before.
LEMMA UntouchedStays ==
    ASSUME NEW t, NEW u, TreeOK(t), TreeOK(u), NEW es \in SUBSET Event,
           Tells(t, u, es), NEW l \in Visible(u, Root),
           \A e \in es : ~Comparable(e.path, l[1])
    PROVE  l \in Visible(t, Root)
  <1>1. l[1] \in Path /\ l = <<l[1], l[2]>> /\ IsLeaf(u, l[1]) /\ u[l[1]].val = l[2]
    BY VisibleFacts
  <1>2. Comparable(l[1], l[1])
    BY <1>1, AboveRefl DEF Comparable
  <1>3. Updating(l[1]) \notin es
    BY <1>2 DEF Updating
  <1>4. IsLeaf(t, l[1]) /\ t[l[1]].val = l[2]
    BY <1>1, <1>3 DEF Tells
  <1> QED
    BY <1>1, <1>4, VisibleFacts

\* The channel still ends in the last word on each leaf.
LEMMA SendLastWord ==
    ASSUME NEW t, NEW u, TreeOK(t), TreeOK(u), NEW es \in SUBSET Event,
           Tells(t, u, es), NEW s \in Seq(Message), NEW m, Batch(m, es, u),
           LastWord(Visible(t, Root), s)
    PROVE  LastWord(Visible(u, Root), s \o m)
  <1> DEFINE z == s \o m
  <1> SUFFICES ASSUME NEW l \in Visible(u, Root), NEW i \in DOMAIN z,
                      Comparable(z[i].path, l[1]), z[i] # Update(l)
               PROVE  \E j \in DOMAIN z : j > i /\ z[j] = Update(l)
    BY DEF LastWord
  <1>1. l[1] \in Path /\ IsLeaf(u, l[1]) /\ u[l[1]].val = l[2] /\ m \in Seq(Message)
    BY VisibleFacts DEF Batch
  <1>2. /\ \A x \in DOMAIN s : x \in DOMAIN z /\ z[x] = s[x]
        /\ \A k \in DOMAIN m : Len(s) + k \in DOMAIN z /\ z[Len(s) + k] = m[k]
        /\ \A x \in DOMAIN z : x \in DOMAIN s \/ \E k \in DOMAIN m : x = Len(s) + k
        /\ \A x \in DOMAIN s : \A k \in DOMAIN m : x < Len(s) + k
    <2>1. Joined(z, s, m)
      BY <1>1, ConcatFacts
    <2> HIDE DEF z
    <2> QED
      BY <2>1 DEF Joined
  <1> HIDE DEF z
  <1>3. \A e \in es : Sending(e, u).path = e.path /\ Sending(e, u).action = e.action
    BY DEF Sending
  <1>4. CASE \E e \in es : Comparable(e.path, l[1])
    <2>1. Updating(l[1]) \in es
      BY <1>1, <1>4, TouchedIsUpdated
    <2>2. Sending(Updating(l[1]), u) = Update(l)
      BY <1>1 DEF Sending, Updating, Update
    <2>3. PICK k \in DOMAIN m : m[k] = Update(l)
      BY <2>1, <2>2 DEF Batch
    <2>4. CASE i \in DOMAIN s
      <3>1. Len(s) + k \in DOMAIN z /\ z[Len(s) + k] = Update(l)
            /\ i < Len(s) + k
        BY <1>2, <2>3, <2>4
      <3>2. i \in Int /\ Len(s) + k \in Int
        BY <2>4 DEF Batch
      <3>3. Len(s) + k > i
        BY <3>1, <3>2
      <3> QED
        BY <3>1, <3>3
    <2>5. ASSUME NEW n \in DOMAIN m, i = Len(s) + n
          PROVE  \E j \in DOMAIN z : j > i /\ z[j] = Update(l)
      <3>1. z[i] = m[n]
        BY <1>2, <2>5
      <3>2. PICK e \in es : m[n] = Sending(e, u)
        BY DEF Batch
      <3>3. e.action # "UPDATE"
        <4> SUFFICES ASSUME e.action = "UPDATE" PROVE FALSE
          OBVIOUS
        <4>1. Comparable(e.path, l[1])
          BY <1>3, <3>1, <3>2
        <4>2. e.path = l[1]
          BY <1>1, <4>1, TouchedIsUpdated
        <4>3. e = Updating(l[1])
          BY <4>2 DEF Event, Updating
        <4> QED
          BY <2>2, <3>1, <3>2, <4>3
      <3>4. m[n].action = "DELETE" /\ m[k].action = "UPDATE"
        BY <1>3, <2>3, <3>2, <3>3 DEF Event, Update
      <3>5. n < k
        BY <3>4 DEF Batch
      <3>6. n \in Int /\ k \in Int /\ Len(s) \in Int
        BY <1>1
      <3>7. Len(s) + k > i
        BY <2>5, <3>5, <3>6
      <3> QED
        BY <1>2, <2>3, <3>7
    <2> QED
      BY <1>2, <2>4, <2>5
  <1>5. CASE \A e \in es : ~Comparable(e.path, l[1])
    <2>1. l \in Visible(t, Root)
      BY <1>5, UntouchedStays
    <2>2. i \in DOMAIN s
      <3> SUFFICES ASSUME NEW n \in DOMAIN m, i = Len(s) + n PROVE FALSE
        BY <1>2
      <3>1. PICK e \in es : m[n] = Sending(e, u)
        BY DEF Batch
      <3> QED
        BY <1>2, <1>3, <1>5, <3>1
    <2>3. PICK j \in DOMAIN s : j > i /\ s[j] = Update(l)
      BY <1>2, <2>1, <2>2 DEF LastWord
    <2> QED
      BY <1>2, <2>3
  <1> QED
    BY <1>4, <1>5

\* A put of what does not show in u is still taken back.
LEMMA SendTakenBack ==
    ASSUME NEW t, NEW u, TreeOK(t), TreeOK(u), NEW es \in SUBSET Event,
           Tells(t, u, es), NEW s \in Seq(Message), NEW m, Batch(m, es, u),
           TakenBack(Visible(t, Root), s)
    PROVE  TakenBack(Visible(u, Root), s \o m)
  <1> DEFINE z == s \o m
  <1> SUFFICES ASSUME NEW i \in DOMAIN z, z[i].action = "UPDATE",
                      ~Shows(Visible(u, Root), z[i].path)
               PROVE  \E j \in DOMAIN z :
                         j > i /\ z[j].action = "DELETE" /\ z[j].path = z[i].path
    BY DEF TakenBack
  <1>1. m \in Seq(Message)
    BY DEF Batch
  <1>2. /\ \A x \in DOMAIN s : x \in DOMAIN z /\ z[x] = s[x]
        /\ \A k \in DOMAIN m : Len(s) + k \in DOMAIN z /\ z[Len(s) + k] = m[k]
        /\ \A x \in DOMAIN z : x \in DOMAIN s \/ \E k \in DOMAIN m : x = Len(s) + k
        /\ \A x \in DOMAIN s : \A k \in DOMAIN m : x < Len(s) + k
    <2>1. Joined(z, s, m)
      BY <1>1, ConcatFacts
    <2> HIDE DEF z
    <2> QED
      BY <2>1 DEF Joined
  <1> HIDE DEF z
  <1>3. \A e \in es : Sending(e, u).path = e.path /\ Sending(e, u).action = e.action
    BY DEF Sending
  <1>4. i \in DOMAIN s
    <2> SUFFICES ASSUME NEW n \in DOMAIN m, i = Len(s) + n PROVE FALSE
      BY <1>2
    <2>1. PICK e \in es : m[n] = Sending(e, u)
      BY DEF Batch
    <2>2. e.action = "UPDATE" /\ e.path = z[i].path /\ e.path \in Path
      BY <1>2, <1>3, <2>1 DEF Event
    <2>3. e = Updating(e.path)
      BY <2>2 DEF Event, Updating
    <2>4. IsLeaf(u, e.path)
      BY <2>2, <2>3 DEF Tells
    <2> QED
      BY <2>2, <2>4, VisibleFacts
  <1> DEFINE p == z[i].path
  <1>5. p \in Path /\ z[i] = s[i]
    <2>1. z[i] = s[i] /\ s[i] \in Message
      BY <1>2, <1>4
    <2> QED
      BY <2>1 DEF Message
  <1>6. ~IsLeaf(u, p)
    BY <1>5, VisibleFacts
  <1>7. CASE IsLeaf(t, p)
    <2>1. Deletion(p) \in es
      BY <1>5, <1>6, <1>7 DEF Tells
    <2>2. PICK k \in DOMAIN m : m[k] = Sending(Deletion(p), u)
      BY <2>1 DEF Batch
    <2>3. m[k].action = "DELETE" /\ m[k].path = p
      BY <2>2 DEF Sending, Deletion
    <2>4. i < Len(s) + k /\ i \in Int /\ Len(s) + k \in Int
      BY <1>1, <1>2, <1>4
    <2>5. Len(s) + k > i
      BY <2>4
    <2> QED
      BY <1>2, <2>3, <2>5
  <1>8. CASE ~IsLeaf(t, p)
    <2>1. ~Shows(Visible(t, Root), s[i].path)
      BY <1>5, <1>8, VisibleFacts
    <2>2. PICK j \in DOMAIN s : j > i /\ s[j].action = "DELETE" /\ s[j].path = s[i].path
      BY <1>4, <1>5, <2>1 DEF TakenBack
    <2> QED
      BY <1>2, <1>5, <2>2
  <1> QED
    BY <1>7, <1>8

\* A copy c that was in place but for s is in place but for s and m.
LEMMA SendInPlace ==
    ASSUME NEW t, NEW u, TreeOK(t), TreeOK(u), NEW es \in SUBSET Event,
           Tells(t, u, es), NEW s \in Seq(Message), NEW m, Batch(m, es, u),
           NEW c, InPlace(Visible(t, Root), s, c)
    PROVE  InPlace(Visible(u, Root), s \o m, c)
  <1> DEFINE z == s \o m
  <1>1. m \in Seq(Message)
    BY DEF Batch
  <1>2. /\ \A x \in DOMAIN s : x \in DOMAIN z /\ z[x] = s[x]
        /\ \A k \in DOMAIN m : Len(s) + k \in DOMAIN z /\ z[Len(s) + k] = m[k]
    <2>1. Joined(z, s, m)
      BY <1>1, ConcatFacts
    <2> HIDE DEF z
    <2> QED
      BY <2>1 DEF Joined
  <1> HIDE DEF z
  <1>3. \A e \in es : Sending(e, u).path = e.path /\ Sending(e, u).action = e.action
    BY DEF Sending
  <1>4. ASSUME NEW l \in Visible(u, Root),
               \A i \in DOMAIN z : ~Comparable(z[i].path, l[1])
        PROVE  IsLeaf(c, l[1]) /\ c[l[1]].val = l[2]
    <2>1. ASSUME NEW e \in es PROVE ~Comparable(e.path, l[1])
      <3>1. PICK k \in DOMAIN m : m[k] = Sending(e, u)
        BY DEF Batch
      <3>2. z[Len(s) + k].path = e.path
        BY <1>2, <1>3, <3>1
      <3> QED
        BY <1>2, <1>4, <3>2
    <2>2. l \in Visible(t, Root)
      BY <2>1, UntouchedStays
    <2>3. \A i \in DOMAIN s : ~Comparable(s[i].path, l[1])
      BY <1>2, <1>4
    <2> QED
      BY <2>2, <2>3 DEF InPlace
  <1>5. ASSUME NEW p \in Path, ~Shows(Visible(u, Root), p),
               \A i \in DOMAIN z : z[i].path = p => z[i].action # "DELETE"
        PROVE  c[p].val = Empty
    <2>1. Deletion(p) \notin es
      <3> SUFFICES ASSUME Deletion(p) \in es PROVE FALSE
        OBVIOUS
      <3>1. PICK k \in DOMAIN m : m[k] = Sending(Deletion(p), u)
        BY DEF Batch
      <3>2. m[k].action = "DELETE" /\ m[k].path = p
        BY <3>1 DEF Sending, Deletion
      <3> QED
        BY <1>2, <1>5, <3>2
    <2>2. ~Shows(Visible(t, Root), p)
      BY <1>5, <2>1, VisibleFacts DEF Tells
    <2>3. \A i \in DOMAIN s : s[i].path = p => s[i].action # "DELETE"
      BY <1>2, <1>5
    <2> QED
      BY <2>2, <2>3 DEF InPlace
  <1> QED
    BY <1>4, <1>5 DEF InPlace, z

-----------------------------------------------------------------------------
(* The loop processes the head of the channel s.                           *)

\* The rest of a sequence, element by element.
LEMMA RestFacts ==
    ASSUME NEW S, NEW s \in Seq(S), s # <<>>
    PROVE  /\ Head(s) = s[1] /\ 1 \in DOMAIN s /\ s[1] \in S
           /\ Tail(s) \in Seq(S) /\ Len(Tail(s)) = Len(s) - 1
           /\ \A k \in DOMAIN Tail(s) : k + 1 \in DOMAIN s /\ Tail(s)[k] = s[k + 1]
           /\ \A i \in DOMAIN s : i # 1 => i - 1 \in DOMAIN Tail(s)
                                            /\ s[i] = Tail(s)[i - 1]
           /\ \A i \in DOMAIN s : \A j \in DOMAIN s : j > i => j # 1
           /\ \A k \in DOMAIN Tail(s) : \A j \in DOMAIN s : j > k + 1 => j - 1 > k
  <1>1. /\ Tail(s) \in Seq(S) /\ Len(Tail(s)) = Len(s) - 1
        /\ \A i \in 1..Len(Tail(s)) : Tail(s)[i] = s[i + 1]
        /\ Head(s) = s[1] /\ Head(s) \in S
    BY HeadTailProperties
  <1>2. Len(s) \in Nat /\ Len(s) > 0
    BY EmptySeq
  <1>3. DOMAIN s = 1..Len(s) /\ DOMAIN Tail(s) = 1..(Len(s) - 1)
    BY <1>1
  <1>4. \A k \in DOMAIN Tail(s) : k + 1 \in DOMAIN s
    BY <1>2, <1>3
  <1>5. \A i \in DOMAIN s : i # 1 => i - 1 \in DOMAIN Tail(s) /\ (i - 1) + 1 = i
    BY <1>2, <1>3
  <1>6. /\ \A i \in DOMAIN s : \A j \in DOMAIN s : j > i => j # 1
        /\ \A k \in DOMAIN Tail(s) : \A j \in DOMAIN s : j > k + 1 => j - 1 > k
        /\ 1 \in DOMAIN s
    BY <1>2, <1>3
  <1>7. \A k \in DOMAIN Tail(s) : Tail(s)[k] = s[k + 1]
    BY <1>1, <1>3
  <1>8. \A i \in DOMAIN s : i # 1 => s[i] = Tail(s)[i - 1]
    BY <1>5, <1>7
  <1> QED
    BY <1>1, <1>4, <1>5, <1>6, <1>7, <1>8

\* What the channel says of leaves holds of its rest: only later events are used.
LEMMA RestSettles ==
    ASSUME NEW L, NEW s \in Seq(Message), s # <<>>, LastWord(L, s), TakenBack(L, s)
    PROVE  LastWord(L, Tail(s)) /\ TakenBack(L, Tail(s))
  <1> DEFINE z == Tail(s)
  <1>1. /\ \A k \in DOMAIN z : k + 1 \in DOMAIN s /\ z[k] = s[k + 1]
        /\ \A i \in DOMAIN s : i # 1 => i - 1 \in DOMAIN z /\ s[i] = z[i - 1]
        /\ \A i \in DOMAIN s : \A j \in DOMAIN s : j > i => j # 1
        /\ \A k \in DOMAIN z : \A j \in DOMAIN s : j > k + 1 => j - 1 > k
    BY RestFacts
  <1> HIDE DEF z
  <1>2. ASSUME NEW l \in L, NEW i \in DOMAIN z, Comparable(z[i].path, l[1])
        PROVE  z[i] = Update(l) \/ \E j \in DOMAIN z : j > i /\ z[j] = Update(l)
    <2>1. s[i + 1] = Update(l) \/ \E j \in DOMAIN s : j > i + 1 /\ s[j] = Update(l)
      BY <1>1, <1>2 DEF LastWord
    <2> QED
      BY <1>1, <2>1
  <1>3. ASSUME NEW i \in DOMAIN z, z[i].action = "UPDATE", ~Shows(L, z[i].path)
        PROVE  \E j \in DOMAIN z :
                  j > i /\ z[j].action = "DELETE" /\ z[j].path = z[i].path
    <2>1. PICK j \in DOMAIN s :
             j > i + 1 /\ s[j].action = "DELETE" /\ s[j].path = s[i + 1].path
      BY <1>1, <1>3 DEF TakenBack
    <2> QED
      BY <1>1, <2>1
  <1> QED
    BY <1>2, <1>3 DEF LastWord, TakenBack, z

\* An event that comes with no later one for the leaf l is the put of l, or does
\* not touch it.
LEMMA HeadIsLast ==
    ASSUME NEW L, NEW s \in Seq(Message), s # <<>>, LastWord(L, s),
           Leaves(L), NEW l \in L,
           \A i \in DOMAIN Tail(s) : ~Comparable(Tail(s)[i].path, l[1])
    PROVE  \/ Head(s) = Update(l)
           \/ \A i \in DOMAIN s : ~Comparable(s[i].path, l[1])
  <1>1. /\ Head(s) = s[1] /\ 1 \in DOMAIN s
        /\ \A i \in DOMAIN s : i # 1 => i - 1 \in DOMAIN Tail(s)
                                         /\ s[i] = Tail(s)[i - 1]
        /\ \A i \in DOMAIN s : \A j \in DOMAIN s : j > i => j # 1
    BY RestFacts
  <1>2. \A i \in DOMAIN s : i # 1 => ~Comparable(s[i].path, l[1])
    BY <1>1
  <1>3. Comparable(Update(l).path, l[1])
    <2>1. l[1] \in Path
      BY DEF Leaves
    <2> QED
      BY <2>1, AboveRefl DEF Update, Comparable
  <1>4. ~\E j \in DOMAIN s : j > 1 /\ s[j] = Update(l)
    BY <1>1, <1>2, <1>3
  <1> QED
    BY <1>1, <1>2, <1>4 DEF LastWord

\* to.Put of an event: a leaf that shows is put where nothing is left below it,
\* and any other value will be taken back.
LEMMA PutInPlace ==
    ASSUME NEW L, Leaves(L), NEW s \in Seq(Message), s # <<>>,
           LastWord(L, s), TakenBack(L, s), NEW t, TreeOK(t), Pruned(t),
           InPlace(L, s, t), Head(s).action = "UPDATE", Head(s).val \in Value,
           Head(s).path # Root
    PROVE  InPlace(L, Tail(s), PutTree(t, Head(s).path, Head(s).val))
  <1> DEFINE q == Head(s).path
             v == Head(s).val
             u == PutTree(t, q, v)
             z == Tail(s)
  <1>1. /\ Head(s) = s[1] /\ 1 \in DOMAIN s /\ s[1] \in Message
        /\ \A i \in DOMAIN s : i # 1 => i - 1 \in DOMAIN z /\ s[i] = z[i - 1]
        /\ \A i \in DOMAIN s : \A j \in DOMAIN s : j > i => j # 1
    BY RestFacts
  <1>2. q \in Path
    BY <1>1 DEF Message
  <1>3. /\ u[q].val = v
        /\ Children(t, q) = {} => u[q].kind = "leaf"
        /\ \A p \in Path : Above(p, q) => u[p].val = t[p].val
        /\ \A p \in Path : p # q /\ ~Above(p, q) => u[p] = t[p]
    BY <1>2, PutNodes DEF TreeOK
  <1>4. ASSUME NEW p \in Path, ~Shows(L, p),
               \A i \in DOMAIN z : z[i].path = p => z[i].action # "DELETE"
        PROVE  u[p].val = Empty
    <2>1. \A i \in DOMAIN s : s[i].path = p => s[i].action # "DELETE"
      BY <1>1, <1>4
    <2>2. t[p].val = Empty
      BY <1>4, <2>1 DEF InPlace
    <2>3. p # q
      BY <1>1, <1>4, <2>1 DEF TakenBack
    <2> QED
      BY <1>3, <2>2, <2>3
  <1>5. ASSUME NEW l \in L, \A i \in DOMAIN z : ~Comparable(z[i].path, l[1])
        PROVE  IsLeaf(u, l[1]) /\ u[l[1]].val = l[2]
    <2>1. l[1] \in Path
      BY DEF Leaves
    <2>2. CASE \A i \in DOMAIN s : ~Comparable(s[i].path, l[1])
      <3>1. IsLeaf(t, l[1]) /\ t[l[1]].val = l[2]
        BY <2>2 DEF InPlace
      <3>2. ~Comparable(q, l[1])
        BY <1>1, <2>2
      <3>3. u[l[1]] = t[l[1]]
        BY <1>2, <1>3, <2>1, <3>2, AboveRefl DEF Comparable, Above
      <3> QED
        BY <3>1, <3>3 DEF IsLeaf
    <2>3. CASE Head(s) = Update(l)
      <3>1. q = l[1] /\ v = l[2]
        BY <2>3 DEF Update
      <3>2. Children(t, q) = {}
        <4> SUFFICES ASSUME Children(t, q) # {} PROVE FALSE
          OBVIOUS
        <4>1. PICK r \in Path : Above(q, r) /\ IsLeaf(t, r)
          BY <1>2, LeafBelow
        <4>2. t[r].val # Empty
          BY <4>1, LocalSyncAssumption DEF TreeOK, LeavesHoldValues
        <4>3. Comparable(r, l[1]) /\ r # l[1]
          BY <3>1, <4>1 DEF Comparable, Above
        <4>4. ~Shows(L, r)
          <5> SUFFICES ASSUME NEW m \in L, m[1] = r PROVE FALSE
            BY DEF Shows
          <5> QED
            BY <4>3 DEF Leaves
        <4>5. PICK i \in DOMAIN s : s[i].path = r /\ s[i].action = "DELETE"
          BY <4>2, <4>4 DEF InPlace
        <4>6. i # 1
          BY <1>1, <4>5
        <4> QED
          BY <1>1, <1>5, <4>3, <4>5, <4>6
      <3> QED
        BY <1>3, <3>1, <3>2 DEF IsLeaf
    <2> QED
      BY <1>5, <2>2, <2>3, HeadIsLast
  <1> QED
    BY <1>4, <1>5 DEF InPlace

\* to.Delete of an event: no leaf that will not be put again is below it, and
\* what it leaves of the node holds no value.
LEMMA RemoveInPlace ==
    ASSUME NEW L, Leaves(L), NEW s \in Seq(Message), s # <<>>,
           LastWord(L, s), NEW t, TreeOK(t), InPlace(L, s, t),
           Head(s).action = "DELETE",
           NEW u, u = IF Present(t, Head(s).path)
                      THEN RemoveTree(t, {}, Head(s).path) ELSE t
    PROVE  InPlace(L, Tail(s), u)
  <1> DEFINE q == Head(s).path
             z == Tail(s)
  <1>1. /\ Head(s) = s[1] /\ 1 \in DOMAIN s /\ s[1] \in Message
        /\ \A i \in DOMAIN s : i # 1 => i - 1 \in DOMAIN z /\ s[i] = z[i - 1]
    BY RestFacts
  <1>2. q \in Path
    BY <1>1 DEF Message
  <1>3. /\ \A p \in Path : u[p].val \in {t[p].val, Empty}
        /\ u[q].val = Empty
        /\ \A p \in Path : ~Comparable(p, q) => u[p] = t[p]
    <2>1. CASE Present(t, q)
      <3> DEFINE G == Removed(t, {}, q)
                 R == Restored(t, {}, q)
      <3>1. u = RemoveTree(t, {}, q)
        BY <2>1
      <3>2. /\ \A p \in Path : p \in G => u[p] = Absent
            /\ \A p \in Path : p \notin G /\ AtOrAbove(q, p) => u[p] = EmptyDir
            /\ \A p \in Path : p \notin G /\ ~AtOrAbove(q, p) /\ p \in R =>
                   u[p].val = t[p].val
            /\ \A p \in Path : p \notin G /\ ~AtOrAbove(q, p) /\ p \notin R => u[p] = t[p]
        <4>1. t \in [Path -> Node] /\ {} \in SUBSET Path
          BY DEF TreeOK
        <4>2. /\ RemoveTree(t, {}, q) \in [Path -> Node]
              /\ \A p \in Path : p \in G => RemoveTree(t, {}, q)[p] = Absent
              /\ \A p \in Path : p \notin G /\ AtOrAbove(q, p) =>
                     RemoveTree(t, {}, q)[p] = EmptyDir
              /\ \A p \in Path : p \notin G /\ ~AtOrAbove(q, p) /\ p \in R =>
                     /\ RemoveTree(t, {}, q)[p].kind = "leaf"
                     /\ RemoveTree(t, {}, q)[p].val = t[p].val
              /\ \A p \in Path : p \notin G /\ ~AtOrAbove(q, p) /\ p \notin R =>
                     RemoveTree(t, {}, q)[p] = t[p]
          <5> HIDE DEF q
          <5> QED
            BY <1>2, <4>1, RemoveNodes, Zenon
        <4> QED
          BY <3>1, <4>2
      <3>3. \A p \in Path : p \in G \cup R => Comparable(p, q)
        BY DEF Removed, RemovedBelow, RemovedAbove, Restored, Comparable, Above
      <3>4. \A p \in Path : AtOrAbove(q, p) => Comparable(p, q)
        BY DEF Comparable
      <3>5. AtOrAbove(q, q)
        BY <1>2, AboveRefl
      <3>6. Absent.val = Empty /\ EmptyDir.val = Empty
        BY DEF Absent, EmptyDir
      <3> HIDE DEF G, R
      <3>7. \A p \in Path : u[p].val \in {t[p].val, Empty}
        BY <3>2, <3>6
      <3>8. u[q].val = Empty
        BY <1>2, <3>2, <3>5, <3>6
      <3>9. \A p \in Path : ~Comparable(p, q) => u[p] = t[p]
        BY <3>2, <3>3, <3>4
      <3> QED
        BY <3>7, <3>8, <3>9
    <2>2. CASE ~Present(t, q)
      <3>1. t[q].val = Empty
        BY <1>2, <2>2 DEF TreeOK, WellFormed, Absent
      <3> QED
        BY <2>2, <3>1
    <2> QED
      BY <2>1, <2>2
  <1>4. ASSUME NEW p \in Path, ~Shows(L, p),
               \A i \in DOMAIN z : z[i].path = p => z[i].action # "DELETE"
        PROVE  u[p].val = Empty
    <2>1. CASE p = q
      BY <1>3, <2>1
    <2>2. CASE p # q
      <3>1. \A i \in DOMAIN s : s[i].path = p => s[i].action # "DELETE"
        BY <1>1, <1>4, <2>2
      <3>2. t[p].val = Empty
        BY <1>4, <3>1 DEF InPlace
      <3> QED
        BY <1>3, <3>2
    <2> QED
      BY <2>1, <2>2
  <1>5. ASSUME NEW l \in L, \A i \in DOMAIN z : ~Comparable(z[i].path, l[1])
        PROVE  IsLeaf(u, l[1]) /\ u[l[1]].val = l[2]
    <2>1. l[1] \in Path
      BY DEF Leaves
    <2>2. Head(s) # Update(l)
      BY DEF Update
    <2>3. \A i \in DOMAIN s : ~Comparable(s[i].path, l[1])
      BY <1>5, <2>2, HeadIsLast
    <2>4. IsLeaf(t, l[1]) /\ t[l[1]].val = l[2]
      BY <2>3 DEF InPlace
    <2>5. ~Comparable(l[1], q)
      BY <1>1, <2>3 DEF Comparable
    <2> QED
      BY <1>3, <2>1, <2>4, <2>5 DEF IsLeaf
  <1> QED
    BY <1>4, <1>5 DEF InPlace

\* With nothing left to process, a tree in place shows exactly L.
LEMMA Settled ==
    ASSUME NEW L, Leaves(L), NEW t, TreeOK(t), InPlace(L, <<>>, t)
    PROVE  Visible(t, Root) = L
  <1>1. DOMAIN <<>> = {}
    OBVIOUS
  <1>2. \A l \in L : l[1] \in Path /\ l = <<l[1], l[2]>>
                     /\ IsLeaf(t, l[1]) /\ t[l[1]].val = l[2]
    BY <1>1 DEF InPlace, Leaves
  <1>3. ASSUME NEW l \in Visible(t, Root) PROVE l \in L
    <2>1. l[1] \in Path /\ l = <<l[1], l[2]>> /\ IsLeaf(t, l[1]) /\ t[l[1]].val = l[2]
      BY VisibleFacts
    <2>2. t[l[1]].val # Empty
      BY <2>1, LocalSyncAssumption DEF TreeOK, LeavesHoldValues
    <2>3. PICK m \in L : m[1] = l[1]
      BY <1>1, <2>1, <2>2 DEF InPlace, Shows
    <2> QED
      BY <1>2, <2>1, <2>3
  <1>4. ASSUME NEW l \in L PROVE l \in Visible(t, Root)
    BY <1>2, <1>4, VisibleFacts
  <1> QED
    BY <1>3, <1>4

-----------------------------------------------------------------------------
(* The invariant.                                                          *)

\* The tree that newStore makes is in order and shows nothing.
LEMMA NewTreeFacts == TreeOK(NewTree) /\ Pruned(NewTree) /\ Visible(NewTree, Root) = {}
  <1>1. NewTree \in [Path -> Node]
    BY DEF NewTree, Node, Kind, Data, EmptyDir, Absent
  <1>2. \A p \in Path : NewTree[p] = IF p = Root THEN EmptyDir ELSE Absent
    BY DEF NewTree
  <1>3. ~\E q \in Path : Above(q, Root)
    BY RootAbove, AboveAntisym, PathFacts DEF Above
  <1>4. Root \in Path
    BY PathAssumption DEF Root
  <1>5. WellFormed(NewTree)
    BY <1>2, <1>3, <1>4 DEF WellFormed, Present, IsDir, EmptyDir, Absent
  <1>6. LeavesHoldValues(NewTree) /\ HiddenByChildren(NewTree) /\ Pruned(NewTree)
    BY <1>2 DEF LeavesHoldValues, HiddenByChildren, Pruned, Cleanable, IsLeaf, IsDir,
                EmptyDir, Absent
  <1>7. Visible(NewTree, Root) = {}
    BY <1>2 DEF Visible, IsLeaf, EmptyDir, Absent
  <1> QED
    BY <1>1, <1>5, <1>6, <1>7 DEF TreeOK

\* The invariant holds when Sync starts.
LEMMA InitInv == Init => Inv
  <1> SUFFICES ASSUME Init PROVE Inv
    OBVIOUS
  <1>1. TypeOK
    <2>1. <<>> \in Seq(Message) /\ Len(<<>>) = 0 /\ ValuesInUpdates(<<>>)
      BY DEF ValuesInUpdates
    <2>2. 0 <= BufLen /\ 0 \in 0..MaxWrites
      BY LocalSyncAssumption
    <2> QED
      BY <2>1, <2>2, NewTreeFacts DEF Init, TypeOK
  <1>2. Shown = {}
    BY NewTreeFacts DEF Init, Shown
  <1>3. LastWord({}, chan) /\ TakenBack({}, chan)
    <2>1. DOMAIN chan = {}
      BY DEF Init
    <2> QED
      BY <2>1 DEF LastWord, TakenBack
  <1>4. Leaves({})
    BY DEF Leaves
  <1> QED
    BY <1>1, <1>2, <1>3, <1>4, NewTreeFacts DEF Inv, LoopInv, EventsInv, CopyInv, Init

\* A step that changes neither what is to be shown nor the channel nor the copy.
LEMMA SameShown ==
    ASSUME Inv, TypeOK', LoopInv', Shown' = Shown, chan' = chan, to' = to,
           dropped' = dropped,
           pc' \in {"loop", "returned"} => pc \in {"loop", "returned"}
    PROVE  Inv'
  BY DEF Inv, EventsInv, CopyInv

\* A request keeps the invariant, if its events tell what it changes.
LEMMA ChangeStep ==
    ASSUME Inv, NEW t, TreeOK(t), NEW es \in SUBSET Event, Tells(from, t, es),
           Change(t, es)
    PROVE  Inv'
  <1> DEFINE Sent(s) == [i \in DOMAIN s |-> [action |-> s[i].action,
                                             path |-> s[i].path,
                                             val |-> t[s[i].path].val]]
  <1>1. PICK s \in Orders(es) : Send(Sent(s))
    BY DEF Change
  <1> DEFINE m == Sent(s)
  <1>2. Batch(m, es, t)
    BY OrdersBatch DEF TreeOK
  <1>3. Send(m)
    BY <1>1
  <1> HIDE DEF m
  <1>4. /\ from' = t /\ writes' = writes + 1 /\ writes < MaxWrites
        /\ UNCHANGED <<open, to, pc, atStop>>
    BY DEF Change
  <1>5. writes' \in 0..MaxWrites
    BY <1>4, LocalSyncAssumption DEF Inv, TypeOK
  <1>6. CASE ~open
    <2>1. UNCHANGED <<chan, dropped>>
      BY <1>3, <1>6 DEF Send
    <2>2. TypeOK' /\ LoopInv'
      BY <1>4, <1>5, <2>1 DEF Inv, TypeOK, LoopInv
    <2>3. CASE pc \in {"loop", "returned"}
      <3>1. Shown' = Shown
        BY <1>4, <1>6, <2>3 DEF Shown
      <3> QED
        BY <1>4, <2>1, <2>2, <3>1, SameShown
    <2>4. CASE pc \notin {"loop", "returned"}
      <3>1. pc = "watch" /\ chan = <<>>
        BY <1>6, <2>4 DEF Inv, TypeOK, LoopInv
      <3>2. Shown' = Visible(t, Root)
        BY <1>4, <2>4 DEF Shown
      <3>3. DOMAIN chan' = {}
        BY <2>1, <3>1
      <3>4. EventsInv' /\ CopyInv'
        BY <1>4, <2>4, <3>3 DEF EventsInv, CopyInv, LastWord, TakenBack
      <3> QED
        BY <1>4, <2>2, <3>2, <3>4, VisibleLeaves DEF Inv
    <2> QED
      BY <2>3, <2>4
  <1>7. CASE open
    <2> DEFINE room == BufLen - Len(chan)
               n == IF Len(m) <= room THEN Len(m) ELSE room
    <2>1. chan' = chan \o SubSeq(m, 1, n) /\ dropped' = (dropped \/ Len(m) > room)
      BY <1>3, <1>7 DEF Send
    <2>2. m \in Seq(Message) /\ chan \in Seq(Message) /\ room \in Nat /\ Len(m) \in Nat
      BY <1>2, LocalSyncAssumption DEF Batch, Inv, TypeOK
    <2>3. n \in 0..Len(m) /\ n <= room
      BY <2>2
    <2> DEFINE k == SubSeq(m, 1, n)
    <2>4. /\ k \in Seq(Message) /\ Len(k) = n
          /\ \A i \in DOMAIN k : i \in DOMAIN m /\ k[i] = m[i]
      <3>1. \A i \in 1..n : m[i] \in Message
        BY <2>2, <2>3
      <3> HIDE DEF n
      <3> QED
        BY <2>2, <2>3
    <2>5. Len(m) <= room => k = m
      <3> SUFFICES ASSUME Len(m) <= room PROVE SubSeq(m, 1, Len(m)) = m
        OBVIOUS
      <3> QED
        BY <2>2
    <2>6. \A i \in DOMAIN m : m[i].action = "UPDATE" =>
             m[i].val \in Value /\ m[i].path # Root
      <3> TAKE i \in DOMAIN m
      <3> SUFFICES ASSUME m[i].action = "UPDATE"
                   PROVE  m[i].val \in Value /\ m[i].path # Root
        OBVIOUS
      <3>1. PICK e \in es : m[i] = Sending(e, t)
        BY <1>2 DEF Batch
      <3>2. m[i].path = e.path /\ e.action = "UPDATE" /\ m[i].val = t[e.path].val
        BY <3>1 DEF Sending
      <3>3. e.path \in Path /\ e = Updating(e.path)
        BY <3>2 DEF Event, Updating
      <3>4. IsLeaf(t, e.path)
        BY <3>3 DEF Tells
      <3> QED
        BY <3>2, <3>3, <3>4 DEF TreeOK, LeavesHoldValues, WellFormed, IsLeaf, EmptyDir
    <2>7. TypeOK'
      <3>1. /\ chan' \in Seq(Message) /\ Len(chan') = Len(chan) + n
            /\ ValuesInUpdates(chan')
        <4>1. chan' = chan \o k
          BY <2>1
        <4>2. ValuesInUpdates(chan) /\ ValuesInUpdates(k)
          BY <2>4, <2>6 DEF Inv, TypeOK, ValuesInUpdates
        <4> HIDE DEF k, n
        <4> QED
          BY <2>2, <2>4, <4>1, <4>2, ConcatMessages
      <3>2. Len(chan') <= BufLen
        <4>1. Len(chan) \in Nat /\ BufLen \in Nat /\ n \in Int /\ n <= BufLen - Len(chan)
          BY <2>2, <2>3, LocalSyncAssumption
        <4> HIDE DEF n
        <4> QED
          BY <3>1, <4>1
      <3>3. dropped' \in BOOLEAN
        BY <2>1 DEF Inv, TypeOK
      <3> QED
        BY <1>4, <1>5, <3>1, <3>2, <3>3 DEF Inv, TypeOK
    <2>8. LoopInv'
      BY <1>4, <1>7 DEF Inv, LoopInv
    <2>9. Shown = Visible(from, Root) /\ Shown' = Visible(t, Root)
      BY <1>4, <1>7 DEF Shown
    <2>10. ASSUME ~dropped' PROVE ~dropped /\ chan' = chan \o m
      <3>1. ~dropped /\ ~(Len(m) > room)
        BY <2>1, <2>10
      <3>2. Len(m) <= room
        BY <2>2, <3>1
      <3> QED
        BY <2>1, <2>5, <3>1, <3>2
    <2>11. TreeOK(from)
      BY DEF Inv, TypeOK
    <2>12. EventsInv'
      <3> SUFFICES ASSUME ~dropped'
                   PROVE  LastWord(Visible(t, Root), chan') /\ TakenBack(Visible(t, Root), chan')
        BY <2>9 DEF EventsInv
      <3>1. LastWord(Visible(from, Root), chan) /\ TakenBack(Visible(from, Root), chan)
        BY <2>9, <2>10 DEF Inv, EventsInv
      <3> QED
        BY <1>2, <2>2, <2>10, <2>11, <3>1, SendLastWord, SendTakenBack
    <2>13. CopyInv'
      <3> SUFFICES ASSUME ~dropped', pc \in {"loop", "returned"}
                   PROVE  InPlace(Visible(t, Root), chan', to)
        BY <1>4, <2>9 DEF CopyInv
      <3>1. InPlace(Visible(from, Root), chan, to)
        BY <2>9, <2>10 DEF Inv, CopyInv
      <3> QED
        BY <1>2, <2>2, <2>10, <2>11, <3>1, SendInPlace
    <2> QED
      BY <1>4, <2>7, <2>8, <2>9, <2>12, <2>13, VisibleLeaves DEF Inv
  <1> QED
    BY <1>6, <1>7 DEF Inv, TypeOK

\* Processing one event keeps the invariant.
LEMMA ProcessStep ==
    ASSUME Inv, ProcessEvent
    PROVE  Inv'
  <1> DEFINE e == Head(chan)
             q == e.path
  <1>1. /\ pc = "loop" /\ chan # <<>> /\ chan' = Tail(chan) /\ to' = Applied(e)
        /\ UNCHANGED <<from, open, pc, writes, dropped, atStop>>
    BY DEF ProcessEvent
  <1>2. chan \in Seq(Message) /\ TreeOK(to) /\ Pruned(to) /\ Leaves(Shown)
    BY DEF Inv, TypeOK
  <1>3. /\ e = chan[1] /\ 1 \in DOMAIN chan /\ e \in Message
        /\ Tail(chan) \in Seq(Message) /\ Len(Tail(chan)) = Len(chan) - 1
        /\ \A k \in DOMAIN Tail(chan) : k + 1 \in DOMAIN chan /\ Tail(chan)[k] = chan[k + 1]
    BY <1>1, <1>2, RestFacts
  <1>4. q \in Path /\ e.action \in {"UPDATE", "DELETE"}
        /\ (e.action = "UPDATE" => e.val \in Value /\ q # Root)
    BY <1>3 DEF Message, Inv, TypeOK, ValuesInUpdates
  <1>5. Shown' = Shown
    BY <1>1 DEF Shown
  <1>6. TreeOK(to') /\ Pruned(to')
    <2>1. CASE e.action = "UPDATE"
      <3>1. to' = PutTree(to, q, e.val)
        BY <1>1, <2>1 DEF Applied
      <3> QED
        BY <1>2, <1>4, <2>1, <3>1, PutPreserves DEF Pruned
    <2>2. CASE e.action = "DELETE" /\ Present(to, q)
      <3>1. to' = RemoveTree(to, {}, q)
        BY <1>1, <2>2 DEF Applied
      <3>2. /\ TreeOK(RemoveTree(to, {}, q))
            /\ \A p \in Path : Cleanable(RemoveTree(to, {}, q), p) /\ p # Root /\ p \notin {} =>
                   Cleanable(to, p) /\ p # q
        <4>1. {} \in SUBSET Path /\ \A w \in {} : Present(to, w)
          OBVIOUS
        <4> HIDE DEF q
        <4> QED
          BY <1>2, <1>4, <4>1, RemovePreserves
      <3> QED
        BY <1>2, <3>1, <3>2 DEF Pruned
    <2>3. CASE e.action = "DELETE" /\ ~Present(to, q)
      BY <1>1, <1>2, <2>3 DEF Applied
    <2> QED
      BY <1>4, <2>1, <2>2, <2>3
  <1>7. TypeOK'
    <2>1. Len(chan') <= BufLen
      <3>1. Len(chan) \in Nat /\ BufLen \in Nat /\ Len(chan) <= BufLen
        BY <1>2, LocalSyncAssumption DEF Inv, TypeOK
      <3> QED
        BY <1>1, <1>3, <3>1
    <2>2. ValuesInUpdates(chan')
      BY <1>1, <1>3 DEF Inv, TypeOK, ValuesInUpdates
    <2> QED
      BY <1>1, <1>3, <1>6, <2>1, <2>2 DEF Inv, TypeOK
  <1>8. LoopInv'
    BY <1>1 DEF Inv, LoopInv
  <1>9. EventsInv' /\ CopyInv'
    <2> SUFFICES ASSUME ~dropped
                 PROVE  /\ LastWord(Shown, Tail(chan)) /\ TakenBack(Shown, Tail(chan))
                        /\ InPlace(Shown, Tail(chan), to')
      BY <1>1, <1>5 DEF EventsInv, CopyInv
    <2>1. /\ LastWord(Shown, chan) /\ TakenBack(Shown, chan)
          /\ InPlace(Shown, chan, to)
      BY <1>1 DEF Inv, EventsInv, CopyInv
    <2>2. CASE e.action = "UPDATE"
      <3>1. to' = PutTree(to, q, e.val)
        BY <1>1, <2>2 DEF Applied
      <3>2. InPlace(Shown, Tail(chan), PutTree(to, Head(chan).path, Head(chan).val))
        BY <1>1, <1>2, <1>4, <2>1, <2>2, PutInPlace
      <3> QED
        BY <1>1, <1>2, <2>1, <3>1, <3>2, RestSettles
    <2>3. CASE e.action = "DELETE"
      <3>1. to' = IF Present(to, q) THEN RemoveTree(to, {}, q) ELSE to
        BY <1>1, <2>3 DEF Applied
      <3>2. InPlace(Shown, Tail(chan), to')
        BY <1>1, <1>2, <2>1, <2>3, <3>1, RemoveInPlace
      <3> QED
        BY <1>1, <1>2, <2>1, <3>2, RestSettles
    <2> QED
      BY <1>4, <2>2, <2>3
  <1> QED
    BY <1>2, <1>5, <1>6, <1>7, <1>8, <1>9 DEF Inv

\* The first copy is in place, whatever the channel holds already.
LEMMA CopyStep ==
    ASSUME Inv, Copy
    PROVE  Inv'
  <1> DEFINE L == Visible(from, Root)
  <1>1. /\ pc = "copy" /\ pc' = "loop" /\ to' = CopyOf(L)
        /\ UNCHANGED <<from, chan, open, writes, dropped, atStop>>
    BY DEF Copy
  <1>2. TreeOK(from) /\ open
    BY <1>1 DEF Inv, TypeOK, LoopInv
  <1>3. /\ TreeOK(to') /\ Pruned(to')
        /\ \A p \in Path : IsLeaf(from, p) => to'[p] = from[p]
        /\ \A p \in Path : ~IsLeaf(from, p) => to'[p].val = Empty
    BY <1>1, <1>2, CopyFacts
  <1>4. Shown = L /\ Shown' = L
    BY <1>1, <1>2 DEF Shown
  <1>5. InPlace(L, chan, to')
    <2>1. \A l \in L : IsLeaf(to', l[1]) /\ to'[l[1]].val = l[2]
      BY <1>2, <1>3, VisibleFacts DEF IsLeaf
    <2>2. \A p \in Path : ~Shows(L, p) => to'[p].val = Empty
      BY <1>2, <1>3, VisibleFacts
    <2> QED
      BY <2>1, <2>2 DEF InPlace
  <1>6. TypeOK' /\ LoopInv'
    BY <1>1, <1>2, <1>3 DEF Inv, TypeOK, LoopInv
  <1>7. EventsInv' /\ CopyInv'
    BY <1>1, <1>4, <1>5 DEF Inv, EventsInv, CopyInv
  <1> QED
    BY <1>3, <1>4, <1>6, <1>7 DEF Inv

\* Every step of the backend and of Sync preserves the invariant.
LEMMA NextInv == Inv /\ [Next]_vars => Inv'
  <1> SUFFICES ASSUME Inv, [Next]_vars PROVE Inv'
    OBVIOUS
  <1>0. TreeOK(from)
    BY DEF Inv, TypeOK
  <1>1. ASSUME NEW p \in Path \ {Root}, NEW v \in Value, Put(p, v) PROVE Inv'
    <2>1. TreeOK(PutTree(from, p, v))
      BY <1>0, PutPreserves
    <2>2. PutEvents(from, p, v) \in SUBSET Event
      BY EventTypes
    <2>3. Tells(from, PutTree(from, p, v), PutEvents(from, p, v))
      BY <1>0, PutTells
    <2> QED
      BY <1>1, <2>1, <2>2, <2>3, ChangeStep DEF Put
  <1>2. ASSUME NEW p \in Path, Delete(p) PROVE Inv'
    <2>1. Watched \in SUBSET Path /\ \A w \in Watched : Present(from, w)
      BY <1>0, PathAssumption
         DEF Watched, Root, TreeOK, WellFormed, Present, EmptyDir
    <2>2. TreeOK(RemoveTree(from, Watched, p))
      BY <1>0, <2>1, RemovePreserves
    <2>3. RemoveEvents(from, Watched, p) \in SUBSET Event
      BY EventTypes
    <2>4. Tells(from, RemoveTree(from, Watched, p), RemoveEvents(from, Watched, p))
      BY <1>0, <1>2, <2>1, RemoveTells DEF Delete
    <2> QED
      BY <1>2, <2>2, <2>3, <2>4, ChangeStep DEF Delete
  <1>3. CASE Watch
    <2>1. TypeOK' /\ LoopInv'
      BY <1>3 DEF Watch, Inv, TypeOK, LoopInv
    <2>2. Shown' = Shown
      BY <1>3 DEF Watch, Shown
    <2> QED
      BY <1>3, <2>1, <2>2, SameShown DEF Watch
  <1>4. CASE Copy
    BY <1>4, CopyStep
  <1>5. CASE ProcessEvent
    BY <1>5, ProcessStep
  <1>6. CASE Return
    <2>1. TypeOK' /\ LoopInv'
      BY <1>6 DEF Return, Inv, TypeOK, LoopInv
    <2>2. Shown' = Shown
      BY <1>6 DEF Return, Shown
    <2> QED
      BY <1>6, <2>1, <2>2, SameShown DEF Return
  <1>7. CASE Stop
    <2>1. TypeOK' /\ LoopInv'
      BY <1>7 DEF Stop, Inv, TypeOK, LoopInv
    <2>2. Shown' = Shown
      BY <1>7 DEF Stop, Shown
    <2> QED
      BY <1>7, <2>1, <2>2, SameShown DEF Stop
  <1>8. CASE UNCHANGED vars
    <2>1. TypeOK' /\ LoopInv' /\ Shown' = Shown
      BY <1>8 DEF vars, Inv, TypeOK, LoopInv, Shown
    <2> QED
      BY <1>8, <2>1, SameShown DEF vars
  <1> QED
    BY <1>1, <1>2, <1>3, <1>4, <1>5, <1>6, <1>7, <1>8 DEF Next, internalSync

\* The channel settles on what shows: the invariant holds of every behaviour.
THEOREM Invariance == Spec => []Inv
  BY InitInv, NextInv, PTL DEF Spec

\* A sync that has processed every event shows what the backend shows.
THEOREM SyncInStep == Spec => []InStep
  <1>1. Inv => InStep
    <2> SUFFICES ASSUME Inv, pc = "loop", open, chan = <<>>, ~dropped
                 PROVE  Visible(to, Root) = Visible(from, Root)
      BY DEF InStep
    <2>1. Shown = Visible(from, Root)
      BY DEF Shown
    <2>2. InPlace(Shown, <<>>, to) /\ Leaves(Shown) /\ TreeOK(to)
      BY DEF Inv, TypeOK, CopyInv
    <2> QED
      BY <2>1, <2>2, Settled
  <1> QED
    BY <1>1, Invariance, PTL

\* A sync that was stopped and has returned shows what the backend showed when
\* it was stopped: w.Remove closes the channel, and the loop goes on to its end.
ReturnsInStep == pc = "returned" /\ ~dropped => Visible(to, Root) = atStop

\* The safety half of StopsInStep, for any number of events in the channel.
THEOREM SyncReturnsInStep == Spec => []ReturnsInStep
  <1>1. Inv => ReturnsInStep
    <2> SUFFICES ASSUME Inv, pc = "returned", ~dropped PROVE Visible(to, Root) = atStop
      BY DEF ReturnsInStep
    <2>1. Shown = atStop /\ chan = <<>>
      BY DEF Inv, LoopInv, Shown
    <2>2. InPlace(Shown, <<>>, to) /\ Leaves(Shown) /\ TreeOK(to)
      BY <2>1 DEF Inv, TypeOK, CopyInv
    <2> QED
      BY <2>1, <2>2, Settled
  <1> QED
    BY <1>1, Invariance, PTL

=============================================================================
