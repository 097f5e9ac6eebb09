--------------------------- MODULE ReadingProofs ---------------------------
(***************************************************************************)
(* Theorems about module Reading: what a host reads is what its rules let  *)
(* it read.                                                                *)
(***************************************************************************)
EXTENDS Reading, TreeProofs, WellFoundedInduction

-----------------------------------------------------------------------------
(* Sequences.                                                              *)

\* A nonempty set of indices has a largest one.
LEMMA LastIndex ==
    ASSUME NEW n \in Nat, NEW T \in SUBSET (1..n), T # {}
    PROVE  Max(T) \in T /\ \A i \in T : i <= Max(T)
  <1> DEFINE Less == OpToRel(<, Nat)
             U == {n - i : i \in T}
  <1>1. IsWellFoundedOn(Less, Nat)
    BY NatLessThanWellFounded
  <1>2. U \subseteq Nat /\ U # {}
    <2>1. \A i \in T : n - i \in Nat
      OBVIOUS
    <2> QED
      BY <2>1
  <1>3. PICK x \in U : \A y \in U : <<y, x>> \notin Less
    <2> HIDE DEF Less, U
    <2> QED
      BY <1>1, <1>2, WFMin
  <1>4. ASSUME NEW y \in U PROVE x <= y
    <2>1. <<y, x>> \in Nat \X Nat /\ <<y, x>> \notin Less
      BY <1>2, <1>3
    <2> QED
      BY <2>1 DEF OpToRel
  <1>5. PICK k \in T : x = n - k
    BY <1>3
  <1>6. ASSUME NEW i \in T PROVE k >= i
    <2>1. n - i \in U /\ i \in Nat /\ k \in Nat
      OBVIOUS
    <2>2. n - k <= n - i
      BY <1>4, <1>5, <2>1
    <2> QED
      BY <2>1, <2>2
  <1>7. Max(T) \in T /\ \A i \in T : Max(T) >= i
    BY <1>6 DEF Max
  <1> QED
    BY <1>7

\* A sequence, longer by one component.
LEMMA AppendFacts ==
    ASSUME NEW S, NEW s \in Seq(S), NEW x \in S
    PROVE  LET u == Append(s, x)
           IN  /\ u \in Seq(S) /\ Len(u) = Len(s) + 1 /\ Len(s) \in Nat
               /\ u # Root /\ Parent(u) = s
               /\ u[Len(u)] = x /\ \A i \in 1..Len(s) : u[i] = s[i]
  <1> DEFINE u == Append(s, x)
  <1>1. /\ u \in Seq(S) /\ Len(u) = Len(s) + 1 /\ Len(s) \in Nat
        /\ u[Len(s) + 1] = x /\ \A i \in 1..Len(s) : u[i] = s[i]
    OBVIOUS
  <1> HIDE DEF u
  <1>2. u # Root
    BY <1>1 DEF Root
  <1>3. Parent(u) \in Seq(S) /\ Len(Parent(u)) = Len(s) /\ \A i \in 1..Len(s) : Parent(u)[i] = s[i]
    BY <1>1 DEF Parent
  <1>4. Parent(u) = s
    BY <1>3
  <1> QED
    BY <1>1, <1>2, <1>4 DEF u

\* A sequence, shorter by one component.
LEMMA ParentAppend ==
    ASSUME NEW S, NEW s \in Seq(S), s # Root
    PROVE  /\ Parent(s) \in Seq(S) /\ Len(Parent(s)) = Len(s) - 1 /\ Len(s) \in Nat \ {0}
           /\ s[Len(s)] \in S /\ s = Append(Parent(s), s[Len(s)])
           /\ \A i \in 1..(Len(s) - 1) : Parent(s)[i] = s[i]
  <1>1. Len(s) \in Nat /\ Len(s) # 0
    BY DEF Root
  <1>2. s[Len(s)] \in S
    <2>1. s \in [1..Len(s) -> S] /\ Len(s) \in 1..Len(s)
      BY <1>1, LenProperties
    <2> QED
      BY <2>1
  <1>3. /\ Parent(s) \in Seq(S) /\ Len(Parent(s)) = Len(s) - 1
        /\ \A i \in 1..(Len(s) - 1) : Parent(s)[i] = s[i]
    <2> DEFINE m == Len(s) - 1
    <2>1. m \in 0..Len(s) /\ Parent(s) = SubSeq(s, 1, m)
      BY <1>1 DEF Parent
    <2> HIDE DEF m
    <2>2. /\ SubSeq(s, 1, m) \in Seq(S) /\ Len(SubSeq(s, 1, m)) = m
          /\ \A i \in 1..m : SubSeq(s, 1, m)[i] = s[i]
      BY <1>1, <2>1
    <2> QED
      BY <2>1, <2>2 DEF m
  <1> DEFINE u == Append(Parent(s), s[Len(s)])
  <1>4. /\ u \in Seq(S) /\ Len(u) = Len(s)
        /\ u[Len(s)] = s[Len(s)] /\ \A i \in 1..(Len(s) - 1) : u[i] = s[i]
    <2>1. /\ u \in Seq(S) /\ Len(u) = Len(Parent(s)) + 1
          /\ u[Len(Parent(s)) + 1] = s[Len(s)]
          /\ \A i \in 1..Len(Parent(s)) : u[i] = Parent(s)[i]
      BY <1>2, <1>3
    <2> QED
      BY <1>1, <1>3, <2>1
  <1> HIDE DEF u
  <1>5. \A i \in 1..Len(s) : u[i] = s[i]
    BY <1>1, <1>4
  <1>6. u = s
    BY <1>1, <1>4, <1>5
  <1> QED
    BY <1>1, <1>2, <1>3, <1>6 DEF u

\* The prefixes of a sequence are the sequences at or above it.
LEMMA PrefixFacts ==
    ASSUME NEW S, NEW s \in Seq(S)
    PROVE  PrefixesOf(s) = {m \in Seq(S) : AtOrAbove(m, s)}
  <1>1. Len(s) \in Nat
    OBVIOUS
  <1>2. ASSUME NEW n \in 0..Len(s)
        PROVE  SubSeq(s, 1, n) \in Seq(S) /\ AtOrAbove(SubSeq(s, 1, n), s)
    <2>1. /\ SubSeq(s, 1, n) \in Seq(S) /\ Len(SubSeq(s, 1, n)) = n
          /\ \A i \in 1..n : SubSeq(s, 1, n)[i] = s[i]
      BY <1>1
    <2> QED
      BY <1>1, <2>1 DEF AtOrAbove
  <1>3. ASSUME NEW m \in Seq(S), AtOrAbove(m, s)
        PROVE  Len(m) \in 0..Len(s) /\ m = SubSeq(s, 1, Len(m))
    <2>1. Len(m) \in 0..Len(s) /\ \A i \in 1..Len(m) : m[i] = s[i]
      BY <1>1, <1>3 DEF AtOrAbove
    <2> DEFINE u == SubSeq(s, 1, Len(m))
    <2>2. u \in Seq(S) /\ Len(u) = Len(m) /\ \A i \in 1..Len(m) : u[i] = s[i]
      BY <1>1, <2>1
    <2> HIDE DEF u
    <2>3. m = u
      BY <2>1, <2>2
    <2> QED
      BY <2>1, <2>3 DEF u
  <1> QED
    BY <1>2, <1>3 DEF PrefixesOf

\* The order of prefixes, for sequences that need not be paths.
LEMMA PrefixOrder ==
    ASSUME NEW S, NEW r \in Seq(S), NEW s \in Seq(S)
    PROVE  /\ AtOrAbove(s, s)
           /\ AtOrAbove(Root, s)
           /\ Above(r, s) <=> AtOrAbove(r, s) /\ Len(r) < Len(s)
           /\ r # Root /\ AtOrAbove(r, s) => Above(Parent(r), s)
           /\ s # Root => (AtOrAbove(r, s) <=> r = s \/ AtOrAbove(r, Parent(s)))
  <1>1. Len(r) \in Nat /\ Len(s) \in Nat /\ Len(Root) = 0
    BY DEF Root
  <1>2. AtOrAbove(s, s) /\ AtOrAbove(Root, s)
    BY <1>1 DEF AtOrAbove
  <1>3. AtOrAbove(r, s) /\ ~(Len(r) < Len(s)) => r = s
    <2> SUFFICES ASSUME AtOrAbove(r, s), ~(Len(r) < Len(s)) PROVE r = s
      OBVIOUS
    <2>1. Len(r) = Len(s) /\ \A i \in 1..Len(r) : r[i] = s[i]
      BY <1>1 DEF AtOrAbove
    <2> QED
      BY <2>1
  <1>4. Above(r, s) <=> AtOrAbove(r, s) /\ Len(r) < Len(s)
    BY <1>1, <1>3 DEF Above
  <1>5. ASSUME r # Root, AtOrAbove(r, s) PROVE Above(Parent(r), s)
    <2>1. Parent(r) \in Seq(S) /\ Len(Parent(r)) = Len(r) - 1 /\ Len(r) # 0
          /\ \A i \in 1..(Len(r) - 1) : Parent(r)[i] = r[i]
      BY <1>5, ParentAppend
    <2>2. AtOrAbove(Parent(r), s) /\ Len(Parent(r)) # Len(s)
      BY <1>1, <1>5, <2>1 DEF AtOrAbove
    <2> QED
      BY <2>2 DEF Above
  <1>6. ASSUME s # Root PROVE AtOrAbove(r, s) <=> r = s \/ AtOrAbove(r, Parent(s))
    <2>1. Len(Parent(s)) = Len(s) - 1 /\ Len(s) # 0
          /\ \A i \in 1..(Len(s) - 1) : Parent(s)[i] = s[i]
      BY <1>6, ParentAppend
    <2> DEFINE ps == Parent(s)
    <2> HIDE DEF ps
    <2>2. Len(ps) = Len(s) - 1 /\ Len(s) # 0 /\ \A i \in 1..(Len(s) - 1) : ps[i] = s[i]
      BY <2>1 DEF ps
    <2>3. ASSUME AtOrAbove(r, ps) PROVE AtOrAbove(r, s)
      <3>1. Len(r) <= Len(s) - 1 /\ \A i \in 1..Len(r) : r[i] = ps[i]
        BY <2>2, <2>3 DEF AtOrAbove
      <3>2. \A i \in 1..Len(r) : r[i] = s[i]
        BY <1>1, <2>2, <3>1
      <3> QED
        BY <1>1, <3>1, <3>2 DEF AtOrAbove
    <2>4. ASSUME AtOrAbove(r, s), Len(r) < Len(s) PROVE AtOrAbove(r, ps)
      <3>1. Len(r) <= Len(s) - 1 /\ \A i \in 1..Len(r) : r[i] = s[i]
        BY <1>1, <2>4 DEF AtOrAbove
      <3>2. \A i \in 1..Len(r) : r[i] = ps[i]
        BY <1>1, <2>2, <3>1
      <3> QED
        BY <1>1, <2>2, <3>1, <3>2 DEF AtOrAbove
    <2> QED
      BY <1>2, <1>3, <2>3, <2>4 DEF ps
  <1> QED
    BY <1>2, <1>4, <1>5, <1>6

\* The prefixes of a parent.
LEMMA ParentPrefix ==
    ASSUME NEW S, NEW s \in Seq(S), s # Root, NEW k \in 0..(Len(s) - 1)
    PROVE  /\ SubSeq(s, 1, k) \in Seq(S) /\ Len(SubSeq(s, 1, k)) = k
           /\ SubSeq(Parent(s), 1, k) = SubSeq(s, 1, k)
  <1>1. /\ Parent(s) \in Seq(S) /\ Len(Parent(s)) = Len(s) - 1 /\ Len(s) \in Nat \ {0}
        /\ \A i \in 1..(Len(s) - 1) : Parent(s)[i] = s[i]
    BY ParentAppend
  <1> DEFINE u == SubSeq(s, 1, k)
             w == SubSeq(Parent(s), 1, k)
  <1>2. u \in Seq(S) /\ Len(u) = k /\ \A i \in 1..k : u[i] = s[i]
    BY <1>1
  <1>3. w \in Seq(S) /\ Len(w) = k /\ \A i \in 1..k : w[i] = Parent(s)[i]
    BY <1>1
  <1> HIDE DEF u, w
  <1>4. k \in Nat /\ \A i \in 1..k : w[i] = u[i]
    <2> DEFINE ps == Parent(s)
    <2> HIDE DEF ps
    <2>1. k \in Nat /\ \A i \in 1..k : i \in 1..(Len(s) - 1)
      BY <1>1
    <2>2. /\ \A i \in 1..(Len(s) - 1) : ps[i] = s[i]
          /\ \A i \in 1..k : w[i] = ps[i]
      BY <1>1, <1>3 DEF ps
    <2> QED
      BY <1>2, <2>1, <2>2
  <1>5. w = u
    BY <1>2, <1>3, <1>4
  <1> QED
    BY <1>2, <1>5 DEF u, w

\* The prefixes of a sequence that is longer by one component.
LEMMA PrefixAppend ==
    ASSUME NEW S, NEW s \in Seq(S), NEW x \in S
    PROVE  /\ PrefixesOf(Append(s, x)) = PrefixesOf(s) \cup {Append(s, x)}
           /\ \A m \in PrefixesOf(s) : Len(m) \in Nat /\ Len(m) < Len(Append(s, x))
  <1> DEFINE u == Append(s, x)
  <1>1. u \in Seq(S) /\ Len(u) = Len(s) + 1 /\ Len(s) \in Nat /\ u # Root /\ Parent(u) = s
    BY AppendFacts
  <1> HIDE DEF u
  <1>2. PrefixesOf(u) = {m \in Seq(S) : AtOrAbove(m, u)}
    BY <1>1, PrefixFacts
  <1>3. PrefixesOf(s) = {m \in Seq(S) : AtOrAbove(m, s)}
    BY PrefixFacts
  <1>4. \A m \in Seq(S) : AtOrAbove(m, u) <=> m = u \/ AtOrAbove(m, s)
    BY <1>1, PrefixOrder
  <1>5. PrefixesOf(u) = PrefixesOf(s) \cup {u}
    BY <1>1, <1>2, <1>3, <1>4
  <1>6. \A m \in PrefixesOf(s) : Len(m) \in Nat /\ Len(m) < Len(u)
    BY <1>1, <1>3 DEF AtOrAbove
  <1> QED
    BY <1>5, <1>6 DEF u

\* Nothing of the way is left, or nothing of it is done.
LEMMA WayFacts ==
    ASSUME NEW S, NEW s \in Seq(S), NEW w \in Seq(S)
    PROVE  s \o <<>> = s /\ <<>> \o w = w /\ (s \o w = <<>> => s = <<>>)
  <1>1. s \o <<>> = s /\ <<>> \o w = w /\ Len(s) \in Nat /\ Len(w) \in Nat
    OBVIOUS
  <1>2. Len(s \o w) = Len(s) + Len(w)
    OBVIOUS
  <1>3. ASSUME s \o w = <<>> PROVE s = <<>>
    <2>1. Len(s \o w) = 0
      BY <1>3, Zenon, EmptySeq
    <2>2. Len(s) = 0
      BY <1>1, <1>2, <2>1
    <2> QED
      BY <2>2
  <1> QED
    BY <1>1, <1>3

\* A component goes from the rest of the way to the place reached.
LEMMA WayStep ==
    ASSUME NEW S, NEW s \in Seq(S), NEW w \in Seq(S), w # <<>>
    PROVE  /\ Head(w) \in S /\ Tail(w) \in Seq(S)
           /\ Append(s, Head(w)) \o Tail(w) = s \o w
           /\ AtOrAbove(Append(s, Head(w)), s \o w)
           /\ Append(s, Head(w)) = SubSeq(s \o w, 1, Len(s) + 1)
           /\ Len(s) + 1 \in 0..Len(s \o w)
  <1>0. Len(s) \in Nat /\ Len(w) \in Nat
    OBVIOUS
  <1> DEFINE x == Head(w)
             r == Tail(w)
             u == Append(s, x)
  <1>1. Len(w) >= 1
    BY <1>0
  <1>2. /\ x \in S /\ x = w[1] /\ r \in Seq(S) /\ Len(r) = Len(w) - 1
        /\ \A i \in 1..(Len(w) - 1) : r[i] = w[i + 1]
    BY <1>1
  <1> HIDE DEF x, r
  <1>3. /\ u \in Seq(S) /\ Len(u) = Len(s) + 1 /\ u[Len(s) + 1] = x
        /\ \A i \in 1..Len(s) : u[i] = s[i]
    BY <1>2
  <1> HIDE DEF u
  <1> DEFINE all == s \o w
             new == u \o r
  <1>4. /\ all \in Seq(S) /\ Len(all) = Len(s) + Len(w)
        /\ \A i \in 1..Len(s) : all[i] = s[i]
        /\ \A i \in 1..Len(w) : all[Len(s) + i] = w[i]
    BY ConcatProperties, <1>0
  <1>5. /\ new \in Seq(S) /\ Len(new) = Len(s) + Len(w)
        /\ \A i \in 1..(Len(s) + 1) : new[i] = u[i]
        /\ \A i \in 1..(Len(w) - 1) : new[Len(s) + 1 + i] = r[i]
    <2>1. /\ new \in Seq(S) /\ Len(new) = Len(u) + Len(r)
          /\ \A i \in 1..Len(u) : new[i] = u[i]
          /\ \A i \in 1..Len(r) : new[Len(u) + i] = r[i]
      <3>1. u \in Seq(S) /\ r \in Seq(S) /\ Len(u) \in Nat /\ Len(r) \in Nat
        BY <1>2, <1>3
      <3> QED
        BY <3>1, ConcatProperties
    <2> HIDE DEF new
    <2>2. Len(u) + Len(r) = Len(s) + Len(w)
      BY <1>0, <1>2, <1>3
    <2> QED
      BY <1>2, <1>3, <2>1, <2>2
  <1> HIDE DEF all, new
  <1>6. \A i \in 1..(Len(s) + 1) : all[i] = u[i]
    <2> SUFFICES ASSUME NEW i \in 1..(Len(s) + 1) PROVE all[i] = u[i]
      OBVIOUS
    <2>1. CASE i = Len(s) + 1
      BY <1>0, <1>1, <1>2, <1>3, <1>4, <2>1
    <2>2. CASE i # Len(s) + 1
      BY <1>0, <1>3, <1>4, <2>2
    <2> QED
      BY <2>1, <2>2
  <1>7. \A i \in 1..Len(all) : new[i] = all[i]
    <2> SUFFICES ASSUME NEW i \in 1..Len(all) PROVE new[i] = all[i]
      OBVIOUS
    <2>1. CASE i <= Len(s) + 1
      BY <1>0, <1>5, <1>6, <2>1
    <2>2. CASE i > Len(s) + 1
      <3> DEFINE j == i - Len(s) - 1
      <3>1. j \in 1..(Len(w) - 1) /\ j + 1 \in 1..Len(w) /\ i = Len(s) + 1 + j
            /\ i = Len(s) + (j + 1)
        BY <1>0, <1>1, <1>4, <2>2
      <3> HIDE DEF j
      <3>2. new[i] = r[j]
        BY <1>5, <3>1
      <3>3. r[j] = w[j + 1]
        BY <1>2, <3>1
      <3>4. all[i] = w[j + 1]
        BY <1>4, <3>1
      <3> QED
        BY <3>2, <3>3, <3>4
    <2> QED
      BY <1>0, <1>4, <2>1, <2>2
  <1>8. new = all
    BY <1>4, <1>5, <1>7
  <1>9. Len(s) + 1 \in 0..Len(all) /\ Len(u) <= Len(all)
    BY <1>0, <1>1, <1>3, <1>4
  <1>10. AtOrAbove(u, all)
    BY <1>3, <1>6, <1>9 DEF AtOrAbove
  <1> DEFINE n == Len(s) + 1
             c == SubSeq(all, 1, n)
  <1>11. c \in Seq(S) /\ Len(c) = n /\ \A i \in 1..n : c[i] = all[i]
    <2>1. n \in 0..Len(all)
      BY <1>9
    <2> HIDE DEF n
    <2> QED
      BY <1>4, <2>1
  <1> HIDE DEF c, n
  <1>12. c = u
    BY <1>3, <1>6, <1>11 DEF n
  <1> QED
    BY <1>2, <1>8, <1>9, <1>10, <1>12 DEF x, r, u, all, new, c, n

-----------------------------------------------------------------------------
(* The access tree.                                                        *)

\* The components of a rule's path.
Component == Name \cup {Wild}

\* The rules of a list.
LEMMA RuleFacts ==
    ASSUME NEW R \in Seq(Rule), NEW i \in DOMAIN R
    PROVE  R[i].path \in Seq(Component) /\ R[i].mode \in Mode /\ i \in 1..Len(R)
  <1>1. R \in [1..Len(R) -> Rule] /\ DOMAIN R = 1..Len(R)
    BY LenProperties
  <1> QED
    BY <1>1 DEF Rule, Component

\* The nodes of the access tree are the mentioned paths.
LEMMA AccessNodes ==
    ASSUME NEW R \in Seq(Rule)
    PROVE  /\ DOMAIN NewAccessTree(R) = {m \in Seq(Component) : Mentioned(R, m)}
           /\ DOMAIN NewAccessTree(R)
                = {Root} \cup UNION {PrefixesOf(R[i].path) : i \in DOMAIN R}
           /\ Root \in DOMAIN NewAccessTree(R)
           /\ NoNode \notin DOMAIN NewAccessTree(R)
  <1> DEFINE D == UNION {PrefixesOf(R[i].path) : i \in DOMAIN R}
  <1>1. DOMAIN NewAccessTree(R) = {Root} \cup D
    BY DEF NewAccessTree
  <1>2. ASSUME NEW i \in DOMAIN R
        PROVE  \A m : m \in PrefixesOf(R[i].path)
                        <=> m \in Seq(Component) /\ AtOrAbove(m, R[i].path)
    <2>1. PICK s \in Seq(Component) : s = R[i].path
      BY RuleFacts
    <2>2. PrefixesOf(s) = {m \in Seq(Component) : AtOrAbove(m, s)}
      BY PrefixFacts
    <2>3. \A m : m \in PrefixesOf(s) <=> m \in Seq(Component) /\ AtOrAbove(m, s)
      BY <2>2
    <2> QED
      BY <2>1, <2>3, Zenon
  <1>3. Root \in Seq(Component)
    BY DEF Root
  <1>4. D = {m \in Seq(Component) : \E i \in DOMAIN R : AtOrAbove(m, R[i].path)}
    BY <1>2
  <1> HIDE DEF D
  <1>5. DOMAIN NewAccessTree(R) = {m \in Seq(Component) : Mentioned(R, m)}
    BY <1>1, <1>3, <1>4 DEF Mentioned
  <1>6. NoNode \notin Seq(Component)
    BY ReadingAssumption DEF Component
  <1> QED
    BY <1>1, <1>5, <1>6 DEF D

\* A node has the mode of the last rule for its path, if there is one.
LEMMA AccessModes ==
    ASSUME NEW R \in Seq(Rule), NEW m \in DOMAIN NewAccessTree(R)
    PROVE  /\ NewAccessTree(R)[m] \in Mode
           /\ RuleFor(R, m) = {} => NewAccessTree(R)[m] = Nil
           /\ \A r \in RuleFor(R, m) : r.mode = NewAccessTree(R)[m]
  <1> DEFINE mine == {i \in DOMAIN R : R[i].path = m}
  <1>1. NewAccessTree(R)[m] = IF mine = {} THEN Nil ELSE R[Max(mine)].mode
    BY DEF NewAccessTree
  <1>2. DOMAIN R = 1..Len(R) /\ Len(R) \in Nat
    BY LenProperties
  <1>3. CASE mine = {}
    <2>1. RuleFor(R, m) = {}
      <3> SUFFICES ASSUME NEW r \in RuleFor(R, m) PROVE FALSE
        OBVIOUS
      <3>1. PICK i \in DOMAIN R : R[i] = r /\ r.path = m
        BY DEF RuleFor
      <3>2. i \in mine
        BY <3>1
      <3> QED
        BY <1>3, <3>2
    <2> QED
      BY <1>1, <1>3, <2>1 DEF Mode
  <1>4. CASE mine # {}
    <2>1. mine \in SUBSET (1..Len(R))
      BY <1>2
    <2>2. Max(mine) \in mine /\ \A i \in mine : i <= Max(mine)
      <3> HIDE DEF mine
      <3> QED
        BY <1>2, <1>4, <2>1, LastIndex
    <2>3. PICK k \in mine : k = Max(mine)
      BY <2>2
    <2>4. R[k] \in RuleFor(R, m)
      <3>1. k \in DOMAIN R /\ R[k].path = m
        OBVIOUS
      <3>2. ASSUME NEW j \in DOMAIN R, j > k PROVE R[j].path # m
        <4>1. j \in mine => j <= k
          BY <2>2, <2>3
        <4>2. j \in Nat /\ k \in Nat
          BY <1>2
        <4> QED
          BY <3>2, <4>1, <4>2
      <3> QED
        BY <3>1, <3>2 DEF RuleFor
    <2>5. ASSUME NEW r \in RuleFor(R, m) PROVE r = R[k]
      <3>1. PICK i \in DOMAIN R : /\ R[i] = r /\ r.path = m
                                  /\ \A j \in DOMAIN R : j > i => R[j].path # m
        BY DEF RuleFor
      <3>2. i \in mine /\ ~(k > i)
        BY <3>1
      <3>3. i <= k /\ i \in Nat /\ k \in Nat
        BY <1>2, <2>2, <2>3, <3>2
      <3>4. i = k
        BY <3>2, <3>3
      <3> QED
        BY <3>1, <3>4
    <2>6. R[k].mode \in Mode
      BY RuleFacts
    <2> QED
      BY <1>1, <1>4, <2>3, <2>4, <2>5, <2>6
  <1> QED
    BY <1>3, <1>4

\* A node has a child when some rule is for a path below it.
LEMMA AccessChildren ==
    ASSUME NEW R \in Seq(Rule), NEW m \in DOMAIN NewAccessTree(R)
    PROVE  HasChild(NewAccessTree(R), m) <=> \E i \in DOMAIN R : Above(m, R[i].path)
  <1> DEFINE A == NewAccessTree(R)
  <1>1. DOMAIN A = {n \in Seq(Component) : Mentioned(R, n)}
    BY AccessNodes
  <1> HIDE DEF A
  <1>2. m \in Seq(Component)
    BY <1>1 DEF A
  <1>3. ASSUME NEW n \in DOMAIN A, n # Root, Parent(n) = m
        PROVE  \E i \in DOMAIN R : Above(m, R[i].path)
    <2>1. n \in Seq(Component)
      BY <1>1
    <2>2. PICK i \in DOMAIN R : AtOrAbove(n, R[i].path)
      BY <1>1, <1>3 DEF Mentioned
    <2>3. R[i].path \in Seq(Component)
      BY RuleFacts
    <2> QED
      BY <1>3, <2>1, <2>2, <2>3, PrefixOrder
  <1>4. ASSUME NEW i \in DOMAIN R, Above(m, R[i].path)
        PROVE  \E n \in DOMAIN A : n # Root /\ Parent(n) = m
    <2> DEFINE s == R[i].path
               n == SubSeq(s, 1, Len(m) + 1)
    <2>1. s \in Seq(Component)
      BY RuleFacts
    <2> HIDE DEF s
    <2>2. AtOrAbove(m, s) /\ Len(m) < Len(s) /\ Len(m) \in Nat /\ Len(s) \in Nat
      BY <1>2, <1>4, <2>1, PrefixOrder DEF s
    <2>3. /\ n \in Seq(Component) /\ Len(n) = Len(m) + 1
          /\ \A j \in 1..(Len(m) + 1) : n[j] = s[j]
      BY <2>1, <2>2
    <2> HIDE DEF n
    <2>4. AtOrAbove(n, s)
      BY <2>2, <2>3 DEF AtOrAbove
    <2>5. n # Root
      BY <2>2, <2>3 DEF Root
    <2>6. /\ Parent(n) \in Seq(Component) /\ Len(Parent(n)) = Len(m)
          /\ \A j \in 1..Len(m) : Parent(n)[j] = n[j]
      <3>1. /\ Parent(n) \in Seq(Component) /\ Len(Parent(n)) = Len(n) - 1
            /\ \A j \in 1..(Len(n) - 1) : Parent(n)[j] = n[j]
        BY <2>3, <2>5, ParentAppend
      <3>2. Len(n) - 1 = Len(m)
        BY <2>2, <2>3
      <3> QED
        BY <3>1, <3>2
    <2>7. \A j \in 1..Len(m) : Parent(n)[j] = m[j]
      BY <2>2, <2>3, <2>6 DEF AtOrAbove
    <2>8. Parent(n) = m
      BY <1>2, <2>6, <2>7
    <2>9. n \in DOMAIN A
      BY <1>1, <2>3, <2>4 DEF Mentioned, s
    <2> QED
      BY <2>5, <2>8, <2>9
  <1> QED
    BY <1>3, <1>4 DEF HasChild, A

-----------------------------------------------------------------------------
(* What the rules say of a path, from what they say of its parent.         *)

\* The i-th component of m stands for that of p.
Stands(R, m, p, i) ==
    \/ m[i] = p[i]
    \/ m[i] = Wild /\ ~Mentioned(R, Append(SubSeq(m, 1, i - 1), p[i]))

\* The governing path, by the access tree's nodes.
LEMMA GoverningNodes ==
    ASSUME NEW R \in Seq(Rule), NEW p, NEW m
    PROVE  m \in Governing(R, p) <=>
              /\ m \in DOMAIN NewAccessTree(R)
              /\ Len(m) = Len(p)
              /\ \A i \in 1..Len(p) : Stands(R, m, p, i)
  BY AccessNodes DEF Governing, Stands

\* The root governs the root.
LEMMA GoverningRoot ==
    ASSUME NEW R \in Seq(Rule)
    PROVE  Governing(R, Root) = {Root}
  <1>1. Len(Root) = 0
    BY DEF Root
  <1>2. Root \in Governing(R, Root)
    <2>1. Root \in DOMAIN NewAccessTree(R)
      BY AccessNodes
    <2>2. \A i \in 1..Len(Root) : Stands(R, Root, Root, i)
      BY <1>1
    <2> QED
      BY <2>1, <2>2, GoverningNodes
  <1>3. ASSUME NEW m \in Governing(R, Root) PROVE m = Root
    <2>1. m \in Seq(Component) /\ Len(m) = 0
      BY <1>1, AccessNodes, GoverningNodes
    <2> QED
      BY <2>1 DEF Root
  <1> QED
    BY <1>2, <1>3

\* What governs a child extends what governs the parent.
LEMMA GoverningParent ==
    ASSUME NEW R \in Seq(Rule), NEW p \in Seq(Name), NEW n \in Name,
           NEW m \in Seq(Component), NEW x \in Component
    PROVE  Append(m, x) \in Governing(R, Append(p, n)) <=>
              /\ m \in Governing(R, p)
              /\ Append(m, x) \in DOMAIN NewAccessTree(R)
              /\ x = n \/ (x = Wild /\ ~Mentioned(R, Append(m, n)))
  <1> DEFINE A == NewAccessTree(R)
             q == Append(p, n)
             u == Append(m, x)
  <1>1. /\ q \in Seq(Name) /\ Len(q) = Len(p) + 1 /\ Len(p) \in Nat
        /\ q[Len(q)] = n /\ \A i \in 1..Len(p) : q[i] = p[i]
    BY AppendFacts
  <1>2. /\ u \in Seq(Component) /\ Len(u) = Len(m) + 1 /\ Len(m) \in Nat
        /\ u # Root /\ Parent(u) = m
        /\ u[Len(u)] = x /\ \A i \in 1..Len(m) : u[i] = m[i]
    BY AppendFacts
  <1> HIDE DEF q, u, A
  <1>3. u \in DOMAIN A => m \in DOMAIN A
    <2> SUFFICES ASSUME u \in DOMAIN A PROVE m \in DOMAIN A
      OBVIOUS
    <2>1. PICK i \in DOMAIN R : AtOrAbove(u, R[i].path)
      BY <1>2, AccessNodes DEF Mentioned, A
    <2>2. R[i].path \in Seq(Component)
      BY RuleFacts
    <2>3. AtOrAbove(m, R[i].path)
      BY <1>2, <2>1, <2>2, PrefixOrder DEF Above
    <2> QED
      BY <2>3, AccessNodes DEF Mentioned, A
  <1>4. ASSUME Len(m) = Len(p), NEW i \in 1..Len(p)
        PROVE  Stands(R, u, q, i) <=> Stands(R, m, p, i)
    <2>1. i - 1 \in 0..(Len(u) - 1)
      BY <1>1, <1>2, <1>4
    <2>2. SubSeq(u, 1, i - 1) = SubSeq(m, 1, i - 1)
      BY <1>2, <2>1, ParentPrefix
    <2>3. u[i] = m[i] /\ q[i] = p[i]
      BY <1>1, <1>2, <1>4
    <2> QED
      BY <2>2, <2>3 DEF Stands
  <1>5. ASSUME Len(m) = Len(p)
        PROVE  Stands(R, u, q, Len(q)) <=> x = n \/ (x = Wild /\ ~Mentioned(R, Append(m, n)))
    <2>1. Len(u) = Len(q) /\ Len(q) - 1 = Len(u) - 1
      BY <1>1, <1>2, <1>5
    <2>2. SubSeq(u, 1, Len(q) - 1) = m
      BY <1>2, <2>1 DEF Parent
    <2>3. u[Len(q)] = x /\ q[Len(q)] = n
      BY <1>1, <1>2, <2>1
    <2> QED
      BY <2>2, <2>3, Zenon DEF Stands
  <1>6. u \in Governing(R, q) <=> /\ u \in DOMAIN A
                                  /\ Len(u) = Len(q)
                                  /\ \A i \in 1..Len(q) : Stands(R, u, q, i)
    BY GoverningNodes DEF A
  <1>7. m \in Governing(R, p) <=> /\ m \in DOMAIN A
                                  /\ Len(m) = Len(p)
                                  /\ \A i \in 1..Len(p) : Stands(R, m, p, i)
    BY GoverningNodes DEF A
  <1>8. Len(u) = Len(q) <=> Len(m) = Len(p)
    BY <1>1, <1>2
  <1>9. (\A i \in 1..Len(q) : Stands(R, u, q, i))
          <=> Stands(R, u, q, Len(q)) /\ \A i \in 1..Len(p) : Stands(R, u, q, i)
    BY <1>1
  <1>10. u \in Governing(R, q) <=> /\ m \in Governing(R, p)
                                   /\ u \in DOMAIN A
                                   /\ x = n \/ (x = Wild /\ ~Mentioned(R, Append(m, n)))
    BY <1>3, <1>4, <1>5, <1>6, <1>7, <1>8, <1>9
  <1> QED
    BY <1>10 DEF q, u, A

\* The node that GetChild finds governs the child.
LEMMA GoverningStep ==
    ASSUME NEW R \in Seq(Rule), NEW p \in Seq(Name), NEW n \in Name,
           NEW an \in DOMAIN NewAccessTree(R) \cup {NoNode},
           Governing(R, p) = {an} \ {NoNode}
    PROVE  LET c == GetChild(NewAccessTree(R), an, n)
           IN  /\ c \in DOMAIN NewAccessTree(R) \cup {NoNode}
               /\ Governing(R, Append(p, n)) = {c} \ {NoNode}
  <1> DEFINE A == NewAccessTree(R)
             c == GetChild(A, an, n)
             G == Governing(R, Append(p, n))
  <1>1. DOMAIN A = {m \in Seq(Component) : Mentioned(R, m)} /\ NoNode \notin DOMAIN A
    BY AccessNodes
  <1> HIDE DEF A
  <1>2. c \in DOMAIN A \cup {NoNode}
    BY DEF GetChild
  <1>3. ASSUME NEW u \in G
        PROVE  \E m \in Governing(R, p), x \in Component : u = Append(m, x)
    <2>1. u \in Seq(Component) /\ Len(u) = Len(Append(p, n))
      BY <1>1, GoverningNodes DEF A
    <2>2. u # Root
      <3>1. Len(Append(p, n)) = Len(p) + 1 /\ Len(p) \in Nat
        BY AppendFacts
      <3> QED
        BY <2>1, <3>1 DEF Root
    <2>3. PICK m \in Seq(Component), x \in Component : u = Append(m, x)
      BY <2>1, <2>2, ParentAppend
    <2> QED
      BY <2>3, GoverningParent
  <1>4. CASE an = NoNode
    <2>1. Governing(R, p) = {} /\ c = NoNode
      BY <1>4 DEF GetChild
    <2> QED
      BY <1>2, <1>3, <2>1 DEF A
  <1>5. CASE an # NoNode
    <2>1. an \in Seq(Component) /\ Governing(R, p) = {an}
      BY <1>1, <1>5 DEF A
    <2>2. n \in Component /\ Wild \in Component /\ Wild # n
      BY ReadingAssumption DEF Component
    <2>3. \A x \in Component :
            Append(an, x) \in G <=> /\ Append(an, x) \in DOMAIN A
                                    /\ x = n \/ (x = Wild /\ ~Mentioned(R, Append(an, n)))
      BY <2>1, GoverningParent DEF A
    <2>4. Mentioned(R, Append(an, n)) <=> Append(an, n) \in DOMAIN A
      BY <1>1, <2>1, <2>2, AppendFacts
    <2>5. ASSUME NEW u \in G PROVE u = c /\ c # NoNode
      <3>1. PICK x \in Component : u = Append(an, x)
        BY <1>3, <2>1
      <3> QED
        BY <1>1, <1>5, <2>3, <2>4, <3>1 DEF GetChild
    <2>6. ASSUME c # NoNode PROVE c \in G
      BY <1>5, <2>2, <2>3, <2>4, <2>6 DEF GetChild
    <2> QED
      BY <1>2, <2>5, <2>6 DEF A
  <1> QED
    BY <1>4, <1>5

\* The rule that governs q sets a mode.
Sets(R, q) == \E m \in Governing(R, q) : \E r \in RuleFor(R, m) : r.mode # Nil

\* The mode of the rule that governs q.
ModeBy(R, q) ==
    (CHOOSE r \in RuleFor(R, CHOOSE x \in Governing(R, q) : TRUE) : TRUE).mode

\* The mode that the deepest path of a set gives.
ModeFrom(R, set) ==
    IF set = {} THEN Nil
    ELSE ModeBy(R, CHOOSE q \in set : \A o \in set : Len(o) <= Len(q))

\* ModeAt in these terms.
LEMMA ModeAtFrom ==
    ASSUME NEW R, NEW p
    PROVE  ModeAt(R, p) = ModeFrom(R, {q \in PrefixesOf(p) : Sets(R, q)})
  BY Zenon DEF ModeAt, ModeFrom, ModeBy, Sets

\* The node that governs q says whether q's rule sets a mode, and which.
LEMMA ModeOfNode ==
    ASSUME NEW R \in Seq(Rule), NEW q, NEW an \in DOMAIN NewAccessTree(R) \cup {NoNode},
           Governing(R, q) = {an} \ {NoNode}
    PROVE  /\ Sets(R, q) <=> an # NoNode /\ NewAccessTree(R)[an] # Nil
           /\ Sets(R, q) => ModeBy(R, q) = NewAccessTree(R)[an]
  <1> DEFINE A == NewAccessTree(R)
  <1>1. NoNode \notin DOMAIN A
    BY AccessNodes
  <1>2. CASE an = NoNode
    BY <1>2 DEF Sets
  <1>3. CASE an # NoNode
    <2>1. Governing(R, q) = {an} /\ an \in DOMAIN A
      BY <1>3
    <2>2. /\ RuleFor(R, an) = {} => A[an] = Nil
          /\ \A r \in RuleFor(R, an) : r.mode = A[an]
      BY <2>1, AccessModes
    <2> HIDE DEF A
    <2>3. Sets(R, q) <=> A[an] # Nil
      BY <2>1, <2>2 DEF Sets
    <2>4. (CHOOSE x \in Governing(R, q) : TRUE) = an
      BY <2>1
    <2>5. RuleFor(R, an) # {} => (CHOOSE r \in RuleFor(R, an) : TRUE) \in RuleFor(R, an)
      OBVIOUS
    <2>6. Sets(R, q) => ModeBy(R, q) = A[an]
      BY <2>1, <2>2, <2>4, <2>5 DEF ModeBy, Sets
    <2> QED
      BY <1>3, <2>3, <2>6 DEF A
  <1> QED
    BY <1>2, <1>3

\* A rule that is deeper than the others decides.
LEMMA DeepestDecides ==
    ASSUME NEW R, NEW set, NEW q \in set,
           \A o \in set : o # q => Len(o) \in Nat /\ Len(o) < Len(q),
           Len(q) \in Nat
    PROVE  ModeFrom(R, set) = ModeBy(R, q)
  <1> DEFINE d == CHOOSE u \in set : \A o \in set : Len(o) <= Len(u)
  <1>1. \A o \in set : Len(o) <= Len(q)
    OBVIOUS
  <1>2. d \in set /\ \A o \in set : Len(o) <= Len(d)
    BY <1>1
  <1>3. d = q
    BY <1>2
  <1> QED
    BY <1>3, Zenon DEF ModeFrom

\* The root of the access tree has the root's mode.
LEMMA ModeRoot ==
    ASSUME NEW R \in Seq(Rule)
    PROVE  ModeAt(R, Root) = NewAccessTree(R)[Root]
  <1> DEFINE set == {q \in PrefixesOf(Root) : Sets(R, q)}
             A == NewAccessTree(R)
  <1>1. PrefixesOf(Root) = {Root}
    <2>1. Root \in Seq(Component) /\ Len(Root) = 0
      BY DEF Root
    <2>2. PrefixesOf(Root) = {m \in Seq(Component) : AtOrAbove(m, Root)}
      BY <2>1, PrefixFacts
    <2>3. AtOrAbove(Root, Root)
      BY <2>1, PrefixOrder
    <2>4. ASSUME NEW m \in Seq(Component), AtOrAbove(m, Root) PROVE m = Root
      BY <2>1, <2>4 DEF AtOrAbove, Root
    <2> QED
      BY <2>1, <2>2, <2>3, <2>4
  <1>2. Root \in DOMAIN A /\ Root # NoNode /\ Governing(R, Root) = {Root} \ {NoNode}
    BY AccessNodes, GoverningRoot
  <1>3. /\ Sets(R, Root) <=> A[Root] # Nil
        /\ Sets(R, Root) => ModeBy(R, Root) = A[Root]
    BY <1>2, ModeOfNode
  <1>4. ModeAt(R, Root) = ModeFrom(R, set)
    BY ModeAtFrom
  <1>5. Sets(R, Root) => set = {Root}
    BY <1>1
  <1>6. ~Sets(R, Root) => set = {}
    BY <1>1
  <1> HIDE DEF set, A
  <1>7. Len(Root) \in Nat
    BY DEF Root
  <1>8. CASE Sets(R, Root)
    <2>1. ModeFrom(R, set) = ModeBy(R, Root)
      BY <1>5, <1>7, <1>8, DeepestDecides
    <2> QED
      BY <1>3, <1>4, <1>8, <2>1 DEF A
  <1>9. CASE ~Sets(R, Root)
    BY <1>3, <1>4, <1>6, <1>9 DEF ModeFrom, A
  <1> QED
    BY <1>8, <1>9

\* The mode of a child is that of the node that governs it, or the parent's.
LEMMA ModeStep ==
    ASSUME NEW R \in Seq(Rule), NEW p \in Seq(Name), NEW n \in Name,
           NEW c \in DOMAIN NewAccessTree(R) \cup {NoNode},
           Governing(R, Append(p, n)) = {c} \ {NoNode}
    PROVE  ModeAt(R, Append(p, n)) = IF c # NoNode /\ NewAccessTree(R)[c] # Nil
                                     THEN NewAccessTree(R)[c] ELSE ModeAt(R, p)
  <1> DEFINE A == NewAccessTree(R)
             u == Append(p, n)
             old == {q \in PrefixesOf(p) : Sets(R, q)}
             new == {q \in PrefixesOf(u) : Sets(R, q)}
  <1>1. /\ Sets(R, u) <=> c # NoNode /\ A[c] # Nil
        /\ Sets(R, u) => ModeBy(R, u) = A[c]
    BY ModeOfNode
  <1>2. ModeAt(R, p) = ModeFrom(R, old) /\ ModeAt(R, u) = ModeFrom(R, new)
    BY ModeAtFrom
  <1>3. /\ PrefixesOf(u) = PrefixesOf(p) \cup {u}
        /\ \A m \in PrefixesOf(p) : Len(m) \in Nat /\ Len(m) < Len(u)
    BY PrefixAppend
  <1>4. Len(u) \in Nat
    BY AppendFacts
  <1> HIDE DEF A, u
  <1>5. CASE Sets(R, u)
    <2>1. u \in new /\ \A o \in new : o # u => Len(o) \in Nat /\ Len(o) < Len(u)
      BY <1>3, <1>5
    <2>2. ModeFrom(R, new) = ModeBy(R, u)
      <3> HIDE DEF new
      <3> QED
        BY <1>4, <2>1, DeepestDecides
    <2> QED
      BY <1>1, <1>2, <1>5, <2>2 DEF A, u
  <1>6. CASE ~Sets(R, u)
    <2>1. new = old
      BY <1>3, <1>6
    <2> HIDE DEF new, old
    <2> QED
      BY <1>1, <1>2, <1>6, <2>1 DEF A, u
  <1> QED
    BY <1>5, <1>6

-----------------------------------------------------------------------------
(* The traveller.                                                          *)

\* What enter lets through: p's own rule says so, or there are rules further down,
\* or no rule is about p and the mode from above says so.
Passable(R, p) ==
    IF Governing(R, p) = {} THEN ModeAt(R, p) = Read
    ELSE \E m \in Governing(R, p) :
            \/ \E i \in DOMAIN R : Above(m, R[i].path)
            \/ \E r \in RuleFor(R, m) : r.mode = Read

\* A traveller can get from the root to p.
Readable(R, p) == \A q \in PrefixesOf(p) \ {Root} : Passable(R, q)

\* What a traveller gets to see at p.
Reached(t, R, p) == {l \in Visible(t, p) : Readable(R, l[1])}

\* The node and the mode of the access tree are those that hold at p.
InStep(R, p, an, mode) == mode = ModeAt(R, p) /\ Governing(R, p) = {an} \ {NoNode}

\* The traveller is in step, and every frame of its stack is in step with the
\* ancestor it goes back to.
InStepAll(R, T) ==
    /\ T \in Traveller(NewAccessTree(R))
    /\ Len(T.stack) = Len(T.at)
    /\ InStep(R, T.at, T.an, T.mode)
    /\ \A i \in 1..Len(T.at) :
          InStep(R, SubSeq(T.at, 1, i - 1), T.stack[i].an, T.stack[i].mode)

\* A traveller on tree t is in step, and at a node that the rules let it reach.
TravellerOK(t, R, T) ==
    /\ InStepAll(R, T)
    /\ Present(t, T.at)
    /\ Readable(R, T.at)

\* enter decides as the rules do.
LEMMA PassableStep ==
    ASSUME NEW R \in Seq(Rule), NEW p \in Seq(Name), NEW n \in Name,
           NEW c \in DOMAIN NewAccessTree(R) \cup {NoNode},
           Governing(R, Append(p, n)) = {c} \ {NoNode},
           NEW mode \in Mode, mode = ModeAt(R, p)
    PROVE  Passable(R, Append(p, n)) <=> Lets(NewAccessTree(R), c, mode)
  <1> DEFINE A == NewAccessTree(R)
             u == Append(p, n)
  <1>1. NoNode \notin DOMAIN A
    BY AccessNodes
  <1>2. ModeAt(R, u) = IF c # NoNode /\ A[c] # Nil THEN A[c] ELSE ModeAt(R, p)
    BY ModeStep
  <1>3. c \in DOMAIN A => A[c] \in Mode
    BY AccessModes
  <1>4. \A x \in Mode : x >= Read <=> x = Read
    BY DEF Mode, Nil, Forbidden, Read
  <1> HIDE DEF u
  <1>5. CASE c = NoNode
    <2>1. Governing(R, u) = {}
      BY <1>5 DEF u
    <2>2. Passable(R, u) <=> mode = Read
      BY <1>2, <1>5, <2>1 DEF Passable
    <2> QED
      BY <1>4, <1>5, <2>2 DEF Lets, u
  <1>6. CASE c # NoNode
    <2>1. c \in DOMAIN A /\ Governing(R, u) = {c}
      BY <1>6 DEF u
    <2>2. HasChild(A, c) <=> \E i \in DOMAIN R : Above(c, R[i].path)
      BY <2>1, AccessChildren
    <2>3. /\ RuleFor(R, c) = {} => A[c] = Nil
          /\ \A r \in RuleFor(R, c) : r.mode = A[c]
      BY <2>1, AccessModes
    <2> HIDE DEF A
    <2>4. A[c] >= Read <=> A[c] = Read
      BY <1>3, <1>4, <2>1
    <2>5. A[c] = Read <=> \E r \in RuleFor(R, c) : r.mode = Read
      BY <2>3 DEF Nil, Read
    <2>6. Passable(R, u) <=> HasChild(A, c) \/ A[c] = Read
      BY <2>1, <2>2, <2>5 DEF Passable
    <2>7. Lets(A, c, mode) <=> HasChild(A, c) \/ A[c] = Read
      BY <1>6, <2>4 DEF Lets
    <2> QED
      BY <2>6, <2>7 DEF A, u
  <1> QED
    BY <1>5, <1>6

\* What the rules let through below a node, and above it.
LEMMA ReadableStep ==
    ASSUME NEW R, NEW p \in Seq(Name), NEW n \in Name
    PROVE  Readable(R, Append(p, n)) <=> Readable(R, p) /\ Passable(R, Append(p, n))
  <1>1. PrefixesOf(Append(p, n)) = PrefixesOf(p) \cup {Append(p, n)}
    BY PrefixAppend
  <1>2. Append(p, n) # Root
    BY AppendFacts
  <1> QED
    BY <1>1, <1>2 DEF Readable

\* enter takes a traveller in step to a child that is there and that the rules
\* let through, and keeps it in step; otherwise it leaves it alone.
LEMMA EnterFacts ==
    ASSUME NEW t, NEW R \in Seq(Rule), NEW T, TravellerOK(t, R, T), NEW n \in Name
    PROVE  LET A == NewAccessTree(R)
               u == Append(T.at, n)
               E == EnterChild(A, T, n)
           IN  /\ CanEnter(t, A, T, n) <=> u \in Path /\ Present(t, u) /\ Passable(R, u)
               /\ E.at = u
               /\ CanEnter(t, A, T, n) => TravellerOK(t, R, E)
  <1> DEFINE A == NewAccessTree(R)
             u == Append(T.at, n)
             c == GetChild(A, T.an, n)
             m == IF c # NoNode /\ A[c] # Nil THEN A[c] ELSE T.mode
             f == [an |-> T.an, mode |-> T.mode]
             U == [at |-> u, an |-> c, mode |-> m, stack |-> Append(T.stack, f)]
             can == CanEnter(t, A, T, n)
  <1>1. /\ T.at \in Path /\ T.an \in DOMAIN A \cup {NoNode} /\ T.mode \in Mode
        /\ T.stack \in Seq(Frame(A)) /\ Len(T.stack) = Len(T.at)
        /\ T.mode = ModeAt(R, T.at) /\ Governing(R, T.at) = {T.an} \ {NoNode}
    BY DEF TravellerOK, InStepAll, Traveller, InStep
  <1>2. T.at \in Seq(Name) /\ Len(T.at) \in Nat
    BY <1>1, PathFacts
  <1>3. c \in DOMAIN A \cup {NoNode} /\ Governing(R, u) = {c} \ {NoNode}
    BY <1>1, <1>2, GoverningStep
  <1>4. ModeAt(R, u) = m
    <2> HIDE DEF c
    <2>1. ModeAt(R, u) = IF c # NoNode /\ A[c] # Nil THEN A[c] ELSE ModeAt(R, T.at)
      BY <1>2, <1>3, ModeStep, Zenon
    <2> QED
      BY <1>1, <2>1
  <1>5. Passable(R, u) <=> Lets(A, c, T.mode)
    BY <1>1, <1>2, <1>3, PassableStep
  <1>6. /\ can <=> u \in Path /\ Present(t, u) /\ Lets(A, c, T.mode)
        /\ EnterChild(A, T, n) = U
    BY DEF CanEnter, EnterChild
  <1>7. m \in Mode
    BY <1>1, <1>3, AccessModes
  <1>8. /\ u \in Seq(Name) /\ Len(u) = Len(T.at) + 1 /\ u # Root /\ Parent(u) = T.at
    BY <1>2, AppendFacts
  <1> HIDE DEF A, u, c, m
  <1>9. can <=> u \in Path /\ Present(t, u) /\ Passable(R, u)
    BY <1>5, <1>6
  <1>10. ASSUME can PROVE TravellerOK(t, R, U)
    <2>1. u \in Path /\ Present(t, u) /\ Passable(R, u)
      BY <1>9, <1>10
    <2>2. f \in Frame(A)
      BY <1>1 DEF Frame
    <2>3. /\ U.stack \in Seq(Frame(A)) /\ Len(U.stack) = Len(T.at) + 1
          /\ U.stack[Len(T.at) + 1] = f
          /\ \A i \in 1..Len(T.at) : U.stack[i] = T.stack[i]
      BY <1>1, <2>2, AppendFacts
    <2>4. U \in Traveller(A) /\ U.at = u /\ U.an = c /\ U.mode = m
      BY <1>3, <1>7, <2>1, <2>3 DEF Traveller
    <2> HIDE DEF U
    <2>5. InStep(R, U.at, U.an, U.mode)
      BY <1>3, <1>4, <2>4 DEF InStep
    <2>6. ASSUME NEW i \in 1..Len(u)
          PROVE  InStep(R, SubSeq(u, 1, i - 1), U.stack[i].an, U.stack[i].mode)
      <3>1. CASE i = Len(u)
        <4>1. SubSeq(u, 1, i - 1) = T.at
          BY <1>8, <3>1 DEF Parent
        <4>2. U.stack[i].an = T.an /\ U.stack[i].mode = T.mode
          BY <1>8, <2>3, <3>1
        <4> QED
          BY <1>1, <4>1, <4>2 DEF InStep
      <3>2. CASE i # Len(u)
        <4>1. i \in 1..Len(T.at) /\ i - 1 \in 0..(Len(u) - 1)
          BY <1>2, <1>8, <3>2
        <4>2. SubSeq(u, 1, i - 1) = SubSeq(T.at, 1, i - 1)
          BY <1>8, <4>1, ParentPrefix
        <4>3. InStep(R, SubSeq(T.at, 1, i - 1), T.stack[i].an, T.stack[i].mode)
          BY <4>1 DEF TravellerOK, InStepAll
        <4> QED
          BY <2>3, <4>1, <4>2, <4>3
      <3> QED
        BY <3>1, <3>2
    <2>7. InStepAll(R, U)
      BY <1>8, <2>3, <2>4, <2>5, <2>6 DEF InStepAll, A
    <2>8. Readable(R, u)
      BY <1>2, <2>1, ReadableStep DEF TravellerOK, u
    <2> QED
      BY <2>1, <2>4, <2>7, <2>8 DEF TravellerOK
  <1> QED
    BY <1>6, <1>9, <1>10 DEF A, u

\* newTraveller and BackToRoot put a traveller at the root.
LEMMA AtRootFacts ==
    ASSUME NEW t, TreeOK(t), NEW R \in Seq(Rule)
    PROVE  TravellerOK(t, R, AtRoot(NewAccessTree(R))) /\ AtRoot(NewAccessTree(R)).at = Root
  <1> DEFINE A == NewAccessTree(R)
             T == AtRoot(A)
  <1>1. Root \in DOMAIN A /\ A[Root] \in Mode /\ Root # NoNode
    BY AccessNodes, AccessModes
  <1>2. ModeAt(R, Root) = A[Root] /\ Governing(R, Root) = {Root}
    BY ModeRoot, GoverningRoot
  <1> HIDE DEF A
  <1>3. /\ T.at = Root /\ T.an = Root /\ T.mode = A[Root] /\ T.stack = <<>>
        /\ Len(T.at) = 0 /\ Len(T.stack) = 0
    BY DEF AtRoot, Root
  <1>4. T \in Traveller(A)
    BY <1>1, PathAssumption DEF AtRoot, Traveller, Root
  <1> HIDE DEF T
  <1>5. InStepAll(R, T)
    <2>1. InStep(R, T.at, T.an, T.mode)
      BY <1>1, <1>2, <1>3 DEF InStep
    <2> QED
      BY <1>3, <1>4, <2>1 DEF InStepAll, A
  <1>6. Present(t, Root)
    BY DEF TreeOK, WellFormed, Present, EmptyDir
  <1>7. Readable(R, Root)
    <2>1. Root \in Seq(Name) /\ Len(Root) = 0
      BY DEF Root
    <2>2. PrefixesOf(Root) = {m \in Seq(Name) : AtOrAbove(m, Root)}
      BY <2>1, PrefixFacts
    <2>3. ASSUME NEW m \in Seq(Name), AtOrAbove(m, Root) PROVE m = Root
      BY <2>1, <2>3 DEF AtOrAbove, Root
    <2> QED
      BY <2>2, <2>3 DEF Readable
  <1> QED
    BY <1>3, <1>5, <1>6, <1>7 DEF TravellerOK, A, T

\* Back takes a traveller in step to the parent, in step.
LEMMA BackFacts ==
    ASSUME NEW t, TreeOK(t), NEW R \in Seq(Rule), NEW T, TravellerOK(t, R, T), T.at # Root
    PROVE  TravellerOK(t, R, Back(T)) /\ Back(T).at = Parent(T.at)
  <1> DEFINE A == NewAccessTree(R)
             n == Len(T.at)
             p == Parent(T.at)
             U == Back(T)
  <1>1. /\ T.at \in Path /\ T.stack \in Seq(Frame(A)) /\ Len(T.stack) = n
        /\ \A i \in 1..n :
             InStep(R, SubSeq(T.at, 1, i - 1), T.stack[i].an, T.stack[i].mode)
    BY DEF TravellerOK, InStepAll, Traveller
  <1>2. T.at \in Seq(Name) /\ p \in Path /\ p \in Seq(Name)
    BY <1>1, PathFacts
  <1>3. n \in Nat \ {0} /\ Len(p) = n - 1
    BY <1>2, ParentAppend
  <1>4. n \in 1..n /\ n - 1 \in 0..n /\ n - 1 \in Nat
    BY <1>3
  <1>5. /\ T.stack[n].an \in DOMAIN A \cup {NoNode} /\ T.stack[n].mode \in Mode
        /\ SubSeq(T.stack, 1, n - 1) \in Seq(Frame(A))
        /\ Len(SubSeq(T.stack, 1, n - 1)) = n - 1
        /\ \A i \in 1..(n - 1) : SubSeq(T.stack, 1, n - 1)[i] = T.stack[i]
    <2> HIDE DEF A, n
    <2>1. T.stack \in [1..n -> Frame(A)]
      BY <1>1, LenProperties
    <2>2. T.stack[n] \in Frame(A)
      BY <1>4, <2>1
    <2>3. T.stack[n].an \in DOMAIN A \cup {NoNode} /\ T.stack[n].mode \in Mode
      BY <2>2 DEF Frame
    <2> DEFINE k == n - 1
    <2>4. k \in 0..Len(T.stack) /\ k \in Nat
      BY <1>1, <1>4
    <2> HIDE DEF k
    <2>5. /\ SubSeq(T.stack, 1, k) \in Seq(Frame(A)) /\ Len(SubSeq(T.stack, 1, k)) = k
          /\ \A i \in 1..k : SubSeq(T.stack, 1, k)[i] = T.stack[i]
      BY <1>1, <2>4
    <2> QED
      BY <2>3, <2>5 DEF k
  <1>6. /\ U.at = p /\ U.an = T.stack[n].an /\ U.mode = T.stack[n].mode
        /\ U.stack = SubSeq(T.stack, 1, n - 1)
    BY <1>1 DEF Back, Last, Front
  <1>7. U \in Traveller(A)
    BY <1>1, <1>2, <1>5 DEF Back, Last, Front, Traveller
  <1> HIDE DEF A, n, U, p
  <1>8. InStep(R, U.at, U.an, U.mode)
    <2>1. SubSeq(T.at, 1, n - 1) = p
      BY DEF Parent, n, p
    <2> QED
      BY <1>1, <1>4, <1>6, <2>1
  <1>9. ASSUME NEW i \in 1..Len(U.at)
        PROVE  InStep(R, SubSeq(U.at, 1, i - 1), U.stack[i].an, U.stack[i].mode)
    <2>1. i \in 1..n /\ i \in 1..(n - 1) /\ i - 1 \in 0..(n - 1)
      BY <1>3, <1>6
    <2>2. SubSeq(p, 1, i - 1) = SubSeq(T.at, 1, i - 1)
      BY <1>2, <2>1, ParentPrefix DEF n, p
    <2>3. U.stack[i] = T.stack[i]
      BY <1>5, <1>6, <2>1
    <2> QED
      BY <1>1, <1>6, <2>1, <2>2, <2>3
  <1>10. InStepAll(R, U)
    BY <1>3, <1>5, <1>6, <1>7, <1>8, <1>9 DEF InStepAll, A
  <1>11. Present(t, p)
    <2>1. Above(p, T.at)
      BY <1>1, ParentFacts DEF p
    <2> QED
      BY <1>1, <1>2, <2>1 DEF TravellerOK, TreeOK, WellFormed, Present, IsDir
  <1>12. Readable(R, p)
    <2>1. T.at = Append(p, T.at[n]) /\ T.at[n] \in Name
      BY <1>2, ParentAppend DEF n, p
    <2> QED
      BY <1>2, <2>1, ReadableStep DEF TravellerOK
  <1> QED
    BY <1>6, <1>10, <1>11, <1>12 DEF TravellerOK, U, p

\* A BackStep of as many steps as Enter went down from the root ends at the root.
LEMMA BackStepFacts ==
    ASSUME NEW t, TreeOK(t), NEW R \in Seq(Rule), NEW T, TravellerOK(t, R, T)
    PROVE  LET U == BackStep(T, Len(T.at))
           IN  TravellerOK(t, R, U) /\ U.at = Root
  <1> DEFINE A == NewAccessTree(R)
             n == Len(T.at)
             U == BackStep(T, n)
  <1>1. /\ T.at \in Path /\ T.stack \in Seq(Frame(A)) /\ Len(T.stack) = n
        /\ \A i \in 1..n :
             InStep(R, SubSeq(T.at, 1, i - 1), T.stack[i].an, T.stack[i].mode)
    BY DEF TravellerOK, InStepAll, Traveller
  <1>2. T.at \in Seq(Name) /\ n \in Nat
    BY <1>1, PathFacts
  <1>3. CASE n = 0
    <2>1. T.at = Root
      BY <1>2, <1>3 DEF Root
    <2> QED
      BY <1>3, <2>1 DEF BackStep
  <1>4. CASE n # 0
    <2>1. 1 \in 1..n /\ n - n = 0 /\ n - n + 1 = 1 /\ 1 - 1 = 0
      BY <1>2, <1>4
    <2>2. SubSeq(T.at, 1, 0) = Root /\ SubSeq(T.stack, 1, 0) = <<>>
      BY <1>1, <1>2 DEF Root
    <2>3. InStep(R, Root, T.stack[1].an, T.stack[1].mode)
      BY <1>1, <2>1, <2>2
    <2>4. T.stack[1] \in Frame(A)
      <3> HIDE DEF A, n
      <3>1. T.stack \in [1..n -> Frame(A)]
        BY <1>1, LenProperties
      <3> QED
        BY <2>1, <3>1
    <2> HIDE DEF n
    <2>5. U = [at |-> Root, an |-> T.stack[1].an, mode |-> T.stack[1].mode, stack |-> <<>>]
      BY <1>1, <1>4, <2>1, <2>2 DEF BackStep, n
    <2>6. U \in Traveller(A)
      BY <2>4, <2>5, PathAssumption DEF Traveller, Frame, Root
    <2> HIDE DEF A, U
    <2>7. /\ U.at = Root /\ U.an = T.stack[1].an /\ U.mode = T.stack[1].mode
          /\ Len(U.stack) = 0 /\ Len(U.at) = 0
      BY <2>5 DEF Root
    <2>8. InStepAll(R, U)
      BY <2>3, <2>6, <2>7 DEF InStepAll, A
    <2>9. TravellerOK(t, R, AtRoot(NewAccessTree(R))) /\ AtRoot(NewAccessTree(R)).at = Root
      BY AtRootFacts
    <2>10. Present(t, Root) /\ Readable(R, Root)
      BY <2>9 DEF TravellerOK
    <2> QED
      BY <2>7, <2>8, <2>10 DEF TravellerOK, U, n
  <1> QED
    BY <1>3, <1>4

-----------------------------------------------------------------------------
(* What a traveller reads.                                                 *)

\* What is read for the paths of a set.
ReachedAll(t, R, P) == UNION {Reached(t, R, p) : p \in P}

\* It adds up.
LEMMA ReachedSums ==
    ASSUME NEW t, NEW R, NEW P, NEW Q
    PROVE  ReachedAll(t, R, P \cup Q) = ReachedAll(t, R, P) \cup ReachedAll(t, R, Q)
  BY DEF ReachedAll

\* Nothing, or one path.
LEMMA ReachedOne ==
    ASSUME NEW t, NEW R, NEW p
    PROVE  ReachedAll(t, R, {}) = {} /\ ReachedAll(t, R, {p}) = Reached(t, R, p)
  BY DEF ReachedAll

\* A leaf, or a directory's children, are what is read of a node.
LEMMA ReachedNode ==
    ASSUME NEW t, TreeOK(t), NEW R, NEW p \in Path, Present(t, p), Readable(R, p)
    PROVE  /\ Reached(t, R, p) =
                (IF IsDir(t, p) THEN {} ELSE {<<p, t[p].val>>})
                  \cup ReachedAll(t, R, IF IsDir(t, p) THEN Children(t, p) ELSE {})
           /\ ~IsDir(t, p) => t[p].val \in Value
  <1>1. WellFormed(t) /\ LeavesHoldValues(t) /\ t \in [Path -> Node]
    BY DEF TreeOK
  <1>2. ~IsDir(t, p) => IsLeaf(t, p)
    BY <1>1 DEF Present, IsDir, IsLeaf, Node, Kind
  <1>3. CASE ~IsDir(t, p)
    <2>1. ASSUME NEW q \in Path, AtOrAbove(p, q), IsLeaf(t, q) PROVE q = p
      BY <1>1, <1>3, <2>1 DEF WellFormed, Above, Present, IsLeaf
    <2>2. Visible(t, p) = {<<p, t[p].val>>}
      BY <1>2, <1>3, <2>1, AboveRefl DEF Visible
    <2>3. Reached(t, R, p) = {<<p, t[p].val>>}
      BY <2>2 DEF Reached
    <2> QED
      BY <1>1, <1>2, <1>3, <2>3, ReachedOne DEF LeavesHoldValues
  <1>4. CASE IsDir(t, p)
    <2>1. ASSUME NEW l \in Reached(t, R, p) PROVE l \in ReachedAll(t, R, Children(t, p))
      <3>1. PICK q \in Path : l = <<q, t[q].val>> /\ AtOrAbove(p, q) /\ IsLeaf(t, q)
        BY DEF Reached, Visible
      <3>2. q # p /\ Present(t, q)
        BY <1>4, <3>1 DEF IsDir, IsLeaf, Present
      <3>3. PICK c \in Children(t, p) : AtOrAbove(c, q)
        BY <1>1, <3>1, <3>2, ChildOnTheWay DEF Above
      <3>4. l \in Reached(t, R, c)
        BY <3>1, <3>3 DEF Reached, Visible
      <3> QED
        BY <3>4 DEF ReachedAll
    <2>2. ASSUME NEW l \in ReachedAll(t, R, Children(t, p)) PROVE l \in Reached(t, R, p)
      <3>1. PICK c \in Children(t, p) : l \in Reached(t, R, c)
        BY DEF ReachedAll
      <3>2. PICK q \in Path : l = <<q, t[q].val>> /\ AtOrAbove(c, q) /\ IsLeaf(t, q)
        BY <3>1 DEF Reached, Visible
      <3>3. c \in Path /\ AtOrAbove(p, c)
        BY ChildFacts DEF Above
      <3>4. AtOrAbove(p, q)
        BY <3>2, <3>3, AboveTrans
      <3> QED
        BY <3>1, <3>2, <3>4 DEF Reached, Visible
    <2> QED
      BY <1>4, <2>1, <2>2
  <1> QED
    BY <1>3, <1>4

\* Nothing is read below a node that is not there or not let through.
LEMMA ReachedNothing ==
    ASSUME NEW t, TreeOK(t), NEW R, NEW p \in Path, NEW c \in Path,
           c # Root, AtOrAbove(c, p), ~(Present(t, c) /\ Passable(R, c))
    PROVE  Reached(t, R, p) = {}
  <1> SUFFICES ASSUME NEW l \in Reached(t, R, p) PROVE FALSE
    OBVIOUS
  <1>1. PICK q \in Path : l = <<q, t[q].val>> /\ AtOrAbove(p, q) /\ IsLeaf(t, q)
    BY DEF Reached, Visible
  <1>2. AtOrAbove(c, q)
    BY <1>1, AboveTrans
  <1>3. Present(t, c)
    BY <1>1, <1>2 DEF TreeOK, WellFormed, Above, Present, IsDir, IsLeaf
  <1>4. q \in Seq(Name) /\ c \in Seq(Name)
    BY PathFacts
  <1>5. c \in PrefixesOf(q)
    BY <1>2, <1>4, PrefixFacts
  <1>6. Readable(R, q)
    BY <1>1 DEF Reached
  <1> QED
    BY <1>3, <1>5, <1>6 DEF Readable

-----------------------------------------------------------------------------
(* What a traveller reads is what the rules say, with enter's departures.  *)

\* What governs a path governs, cut to length, its prefixes.
LEMMA GoverningPrefix ==
    ASSUME NEW R \in Seq(Rule), NEW p \in Seq(Name), NEW k \in 0..Len(p),
           NEW m \in Governing(R, p)
    PROVE  /\ SubSeq(m, 1, k) \in Governing(R, SubSeq(p, 1, k))
           /\ m \in Seq(Component) /\ Len(m) = Len(p)
           /\ SubSeq(m, 1, k) \in Seq(Component) /\ Len(SubSeq(m, 1, k)) = k
           /\ AtOrAbove(SubSeq(m, 1, k), m)
  <1> DEFINE A == NewAccessTree(R)
             n == SubSeq(m, 1, k)
             q == SubSeq(p, 1, k)
  <1>1. /\ m \in DOMAIN A /\ Len(m) = Len(p) /\ Len(p) \in Nat
        /\ \A i \in 1..Len(p) : Stands(R, m, p, i)
    BY GoverningNodes
  <1>2. DOMAIN A = {x \in Seq(Component) : Mentioned(R, x)}
    BY AccessNodes
  <1>3. m \in Seq(Component) /\ Mentioned(R, m)
    BY <1>1, <1>2
  <1>4. /\ n \in Seq(Component) /\ Len(n) = k /\ \A i \in 1..k : n[i] = m[i]
        /\ Len(q) = k /\ \A i \in 1..k : q[i] = p[i]
    BY <1>1, <1>3
  <1>5. AtOrAbove(n, m)
    <2> HIDE DEF n
    <2> QED
      BY <1>1, <1>4 DEF AtOrAbove
  <1>6. Mentioned(R, n)
    <2> HIDE DEF n
    <2>1. CASE m = Root
      BY <1>4, <1>5, <2>1 DEF Root, AtOrAbove, Mentioned
    <2>2. CASE \E i \in DOMAIN R : AtOrAbove(m, R[i].path)
      <3>1. PICK i \in DOMAIN R : AtOrAbove(m, R[i].path)
        BY <2>2
      <3>2. PICK s \in Seq(Component) : s = R[i].path
        BY RuleFacts
      <3>3. AtOrAbove(n, s)
        BY <1>1, <1>4, <1>5, <3>1, <3>2 DEF AtOrAbove
      <3> QED
        BY <3>2, <3>3 DEF Mentioned
    <2> QED
      BY <1>3, <2>1, <2>2 DEF Mentioned
  <1>7. ASSUME NEW i \in 1..k PROVE Stands(R, n, q, i)
    <2>1. i \in 1..Len(p) /\ i - 1 \in 0..k /\ n[i] = m[i] /\ q[i] = p[i]
      BY <1>1, <1>4
    <2>2. SubSeq(n, 1, i - 1) = SubSeq(m, 1, i - 1)
      <3> DEFINE j == i - 1
                 a == SubSeq(n, 1, j)
                 b == SubSeq(m, 1, j)
      <3>1. j \in 0..Len(n) /\ j \in 0..Len(m) /\ j \in Nat
        BY <1>1, <1>4, <2>1
      <3> HIDE DEF j, n
      <3>2. /\ a \in Seq(Component) /\ Len(a) = j /\ \A x \in 1..j : a[x] = n[x]
            /\ b \in Seq(Component) /\ Len(b) = j /\ \A x \in 1..j : b[x] = m[x]
        BY <1>3, <1>4, <3>1
      <3>3. \A x \in 1..j : x \in 1..k
        BY <1>4, <3>1
      <3> HIDE DEF a, b
      <3>4. a = b
        BY <1>4, <3>1, <3>2, <3>3
      <3> QED
        BY <3>4 DEF a, b, j
    <2> HIDE DEF n, q
    <2> QED
      BY <1>1, <2>1, <2>2 DEF Stands
  <1> HIDE DEF n, q
  <1>8. n \in Governing(R, q)
    BY <1>2, <1>4, <1>6, <1>7, GoverningNodes
  <1> QED
    BY <1>1, <1>3, <1>4, <1>5, <1>8 DEF n, q

\* Two paths that govern the same place and agree up to a component agree on it:
\* a wildcard stands only where the name is not mentioned.
LEMMA GoverningAgree ==
    ASSUME NEW R \in Seq(Rule), NEW p \in Seq(Name), NEW k \in 1..Len(p),
           NEW m \in Governing(R, p), NEW o \in Governing(R, p),
           SubSeq(m, 1, k - 1) = SubSeq(o, 1, k - 1), m[k] = p[k]
    PROVE  o[k] = p[k]
  <1> SUFFICES ASSUME o[k] # p[k] PROVE FALSE
    OBVIOUS
  <1>1. /\ Stands(R, o, p, k) /\ Len(p) \in Nat /\ Len(m) = Len(p)
        /\ k \in 0..Len(p) /\ k - 1 \in 0..Len(p) /\ p[k] \in Name
    BY GoverningNodes
  <1>2. ~Mentioned(R, Append(SubSeq(m, 1, k - 1), m[k]))
    BY <1>1 DEF Stands
  <1>3. /\ m \in Seq(Component) /\ SubSeq(m, 1, k) \in Governing(R, SubSeq(p, 1, k))
    BY <1>1, GoverningPrefix
  <1>4. Mentioned(R, SubSeq(m, 1, k))
    BY <1>3, AccessNodes, GoverningNodes
  <1>5. SubSeq(m, 1, k) = Append(SubSeq(m, 1, k - 1), m[k])
    <2> DEFINE n == SubSeq(m, 1, k)
               b == SubSeq(m, 1, k - 1)
               a == Append(b, m[k])
    <2>1. n \in Seq(Component) /\ Len(n) = k /\ \A i \in 1..k : n[i] = m[i]
      BY <1>1, <1>3
    <2>2. b \in Seq(Component) /\ Len(b) = k - 1 /\ \A i \in 1..(k - 1) : b[i] = m[i]
      <3> DEFINE j == k - 1
      <3>1. j \in 0..Len(m)
        BY <1>1
      <3> HIDE DEF j
      <3>2. /\ SubSeq(m, 1, j) \in Seq(Component) /\ Len(SubSeq(m, 1, j)) = j
            /\ \A i \in 1..j : SubSeq(m, 1, j)[i] = m[i]
        BY <1>3, <3>1
      <3> QED
        BY <3>2 DEF j
    <2> HIDE DEF n, b
    <2>3. m[k] \in Component
      BY <1>1 DEF Component
    <2>4. /\ a \in Seq(Component) /\ Len(a) = k /\ a[k] = m[k]
          /\ \A i \in 1..(k - 1) : a[i] = b[i]
      BY <1>1, <2>2, <2>3
    <2> HIDE DEF a
    <2>5. n = a
      BY <1>1, <2>1, <2>2, <2>4
    <2> QED
      BY <2>5 DEF n, a, b
  <1> QED
    BY <1>2, <1>4, <1>5

\* At most one path governs a place.
LEMMA GoverningUnique ==
    ASSUME NEW R \in Seq(Rule), NEW p \in Seq(Name),
           NEW m \in Governing(R, p), NEW o \in Governing(R, p)
    PROVE  m = o
  <1> DEFINE Same(k) == SubSeq(m, 1, k) = SubSeq(o, 1, k)
             T == {j \in 1..(Len(p) + 1) : Same(j - 1)}
  <1>1. /\ Len(p) \in Nat /\ m \in Seq(Component) /\ o \in Seq(Component)
        /\ Len(m) = Len(p) /\ Len(o) = Len(p)
    <2>1. Len(p) \in Nat /\ 0 \in 0..Len(p)
      OBVIOUS
    <2> QED
      BY <2>1, GoverningPrefix
  <1>2. \A k \in 0..Len(p) : /\ SubSeq(m, 1, k) \in Seq(Component) /\ Len(SubSeq(m, 1, k)) = k
                            /\ SubSeq(o, 1, k) \in Seq(Component) /\ Len(SubSeq(o, 1, k)) = k
                            /\ \A i \in 1..k : SubSeq(m, 1, k)[i] = m[i] /\ SubSeq(o, 1, k)[i] = o[i]
    BY <1>1
  <1>3. ASSUME NEW k \in 0..Len(p)
        PROVE  Same(k) <=> \A i \in 1..k : m[i] = o[i]
    <2> DEFINE a == SubSeq(m, 1, k)
               b == SubSeq(o, 1, k)
    <2>1. /\ a \in Seq(Component) /\ Len(a) = k /\ b \in Seq(Component) /\ Len(b) = k
          /\ \A i \in 1..k : a[i] = m[i] /\ b[i] = o[i]
      BY <1>2
    <2> HIDE DEF a, b
    <2>2. a = b <=> \A i \in 1..k : m[i] = o[i]
      BY <2>1
    <2> QED
      BY <2>2 DEF a, b
  <1> HIDE DEF Same
  <1>4. 1 \in T
    <2>1. Same(0)
      BY <1>1, <1>3
    <2> QED
      BY <1>1, <2>1
  <1>5. PICK J \in T : \A j \in T : j <= J
    <2>1. Len(p) + 1 \in Nat /\ T \in SUBSET (1..(Len(p) + 1)) /\ T # {}
      BY <1>1, <1>4
    <2> HIDE DEF T
    <2> QED
      BY <2>1, LastIndex
  <1>6. J = Len(p) + 1
    <2> SUFFICES ASSUME J # Len(p) + 1 PROVE FALSE
      OBVIOUS
    <2>1. J \in 1..Len(p) /\ J - 1 \in 0..Len(p) /\ J \in 0..Len(p) /\ Same(J - 1)
          /\ J + 1 \in 1..(Len(p) + 1) /\ (J + 1) - 1 = J
      BY <1>1, <1>5
    <2>2. ~Same(J)
      <3> SUFFICES ASSUME Same(J) PROVE FALSE
        OBVIOUS
      <3>1. PICK n \in 1..(Len(p) + 1) : n = J + 1 /\ n - 1 = J
        BY <2>1
      <3>2. Same(n - 1)
        BY <3>1
      <3>3. n \in T
        BY <3>2
      <3> HIDE DEF T
      <3>4. n <= J
        BY <1>5, <3>3
      <3> QED
        BY <2>1, <3>1, <3>4
    <2>3. \A i \in 1..(J - 1) : m[i] = o[i]
      BY <1>3, <2>1
    <2>4. m[J] # o[J]
      BY <1>3, <2>1, <2>2, <2>3
    <2>5. /\ m[J] = p[J] \/ m[J] = Wild
          /\ o[J] = p[J] \/ o[J] = Wild
      BY <2>1, GoverningNodes DEF Stands
    <2>6. SubSeq(m, 1, J - 1) = SubSeq(o, 1, J - 1)
      BY <2>1 DEF Same
    <2>7. m[J] = p[J] => o[J] = p[J]
      BY <2>1, <2>6, GoverningAgree
    <2>8. o[J] = p[J] => m[J] = p[J]
      BY <2>1, <2>6, GoverningAgree
    <2> QED
      BY <2>4, <2>5, <2>7, <2>8
  <1>7. \A i \in 1..Len(p) : m[i] = o[i]
    <2>1. Same(Len(p)) /\ Len(p) \in 0..Len(p)
      BY <1>1, <1>5, <1>6
    <2> QED
      BY <1>3, <2>1
  <1> QED
    BY <1>1, <1>7

\* The path that governs a place is a node of the access tree, whose mode its
\* rules have.
LEMMA GoverningMode ==
    ASSUME NEW R \in Seq(Rule), NEW p \in Seq(Name), NEW m \in Governing(R, p)
    PROVE  LET A == NewAccessTree(R)
           IN  /\ m \in DOMAIN A /\ A[m] \in Mode
               /\ \A o \in Governing(R, p) : o = m
               /\ \A r \in RuleFor(R, m) : r.mode = A[m]
               /\ Sets(R, p) <=> A[m] # Nil
               /\ Sets(R, p) => ModeBy(R, p) = A[m]
               /\ A[m] # Nil => RuleFor(R, m) # {}
  <1> DEFINE A == NewAccessTree(R)
  <1>0. NoNode \notin DOMAIN A
    BY AccessNodes
  <1>1. m \in DOMAIN A /\ m # NoNode
    <2>1. m \in DOMAIN A
      BY GoverningNodes
    <2> QED
      BY <1>0, <2>1
  <1>2. Governing(R, p) = {m}
    BY GoverningUnique
  <1>3. Governing(R, p) = {m} \ {NoNode}
    BY <1>1, <1>2
  <1>4. /\ Sets(R, p) <=> A[m] # Nil
        /\ Sets(R, p) => ModeBy(R, p) = A[m]
    BY <1>1, <1>3, ModeOfNode
  <1>5. /\ A[m] \in Mode /\ (RuleFor(R, m) = {} => A[m] = Nil)
        /\ \A r \in RuleFor(R, m) : r.mode = A[m]
    BY <1>1, AccessModes
  <1> HIDE DEF A
  <1> QED
    BY <1>1, <1>2, <1>4, <1>5 DEF A

\* A prefix, by its length.
LEMMA PrefixOf ==
    ASSUME NEW p \in Seq(Name), NEW q \in PrefixesOf(p)
    PROVE  /\ q \in Seq(Name) /\ Len(q) \in 0..Len(p) /\ Len(p) \in Nat
           /\ q = SubSeq(p, 1, Len(q))
           /\ \A o \in PrefixesOf(p) : Len(o) < Len(q) => o \in PrefixesOf(q)
           /\ \A o \in PrefixesOf(p) : Len(o) = Len(q) => o = q
           /\ \A o \in PrefixesOf(p) : Len(q) <= Len(o) => q = SubSeq(o, 1, Len(q))
           /\ PrefixesOf(q) \subseteq PrefixesOf(p) /\ q \in PrefixesOf(q)
  <1>1. Len(p) \in Nat
    OBVIOUS
  <1>2. ASSUME NEW o \in PrefixesOf(p)
        PROVE  o \in Seq(Name) /\ Len(o) \in 0..Len(p) /\ o = SubSeq(p, 1, Len(o))
               /\ \A i \in 1..Len(o) : o[i] = p[i]
    <2>1. PICK k \in 0..Len(p) : o = SubSeq(p, 1, k)
      BY DEF PrefixesOf
    <2>2. o \in Seq(Name) /\ Len(o) = k /\ \A i \in 1..k : o[i] = p[i]
      BY <1>1, <2>1
    <2> QED
      BY <2>1, <2>2
  <1>3. PrefixesOf(p) = {m \in Seq(Name) : AtOrAbove(m, p)}
    BY PrefixFacts
  <1>4. PrefixesOf(q) = {m \in Seq(Name) : AtOrAbove(m, q)}
    BY <1>2, PrefixFacts
  <1>5. ASSUME NEW o \in PrefixesOf(p), Len(o) <= Len(q) PROVE AtOrAbove(o, q)
    BY <1>1, <1>2, <1>5 DEF AtOrAbove
  <1>6. ASSUME NEW o \in Seq(Name), AtOrAbove(o, q) PROVE AtOrAbove(o, p)
    BY <1>1, <1>2, <1>6 DEF AtOrAbove
  <1>7. ASSUME NEW o \in PrefixesOf(p), Len(q) <= Len(o) PROVE q = SubSeq(o, 1, Len(q))
    <2> DEFINE b == SubSeq(o, 1, Len(q))
    <2>1. o \in Seq(Name) /\ q \in Seq(Name) /\ Len(q) \in 0..Len(o)
      BY <1>1, <1>2, <1>7
    <2>2. b \in Seq(Name) /\ Len(b) = Len(q) /\ \A i \in 1..Len(q) : b[i] = o[i]
      BY <2>1
    <2>3. \A i \in 1..Len(q) : q[i] = p[i] /\ o[i] = p[i]
      BY <1>1, <1>2, <1>7
    <2> HIDE DEF b
    <2>4. \A i \in 1..Len(q) : q[i] = b[i]
      BY <2>2, <2>3
    <2>5. q = b
      BY <2>1, <2>2, <2>4
    <2> QED
      BY <2>5 DEF b
  <1>8. ASSUME NEW o \in PrefixesOf(p), Len(o) = Len(q) PROVE o = q
    BY <1>2, <1>8
  <1>9. Len(q) <= Len(q)
    BY <1>2
  <1> QED
    BY <1>1, <1>2, <1>3, <1>4, <1>5, <1>6, <1>7, <1>8, <1>9

\* Where nothing deeper than q sets a mode, p has q's.
LEMMA ModeFromAbove ==
    ASSUME NEW R, NEW p \in Seq(Name), NEW q \in PrefixesOf(p),
           \A o \in PrefixesOf(p) : Len(q) < Len(o) => ~Sets(R, o)
    PROVE  ModeAt(R, p) = ModeAt(R, q)
  <1>1. {o \in PrefixesOf(p) : Sets(R, o)} = {o \in PrefixesOf(q) : Sets(R, o)}
    <2>1. PrefixesOf(q) \subseteq PrefixesOf(p)
      BY PrefixOf
    <2>2. ASSUME NEW o \in PrefixesOf(p), Sets(R, o) PROVE o \in PrefixesOf(q)
      <3>1. Len(o) \in Nat /\ Len(q) \in Nat /\ q \in PrefixesOf(q)
        BY PrefixOf
      <3>2. Len(o) < Len(q) \/ Len(o) = Len(q)
        BY <2>2, <3>1
      <3> QED
        BY <3>1, <3>2, PrefixOf
    <2> QED
      BY <2>1, <2>2
  <1> QED
    BY <1>1, ModeAtFrom

\* A place that sets a mode has it.
LEMMA ModeOwn ==
    ASSUME NEW R, NEW p \in Seq(Name), Sets(R, p)
    PROVE  ModeAt(R, p) = ModeBy(R, p)
  <1> DEFINE set == {o \in PrefixesOf(p) : Sets(R, o)}
  <1>1. p \in PrefixesOf(p)
    BY PrefixFacts, PrefixOrder
  <1>2. /\ p \in set /\ Len(p) \in Nat
        /\ \A o \in set : o # p => Len(o) \in Nat /\ Len(o) < Len(p)
    BY <1>1, PrefixOf
  <1> HIDE DEF set
  <1>3. ModeFrom(R, set) = ModeBy(R, p)
    BY <1>2, DeepestDecides
  <1> QED
    BY <1>3, ModeAtFrom DEF set

\* What governs a path extends what governs its prefixes.
LEMMA GoverningAbove ==
    ASSUME NEW R \in Seq(Rule), NEW p \in Seq(Name), NEW q \in PrefixesOf(p),
           NEW m \in Governing(R, p)
    PROVE  /\ m \in Seq(Component) /\ Len(m) = Len(p)
           /\ \E n \in Governing(R, q) :
                 n \in Seq(Component) /\ Len(n) = Len(q) /\ AtOrAbove(n, m)
  <1>1. PICK k \in 0..Len(p) : k = Len(q) /\ q = SubSeq(p, 1, k)
    BY PrefixOf
  <1>2. PICK n : n = SubSeq(m, 1, k)
    OBVIOUS
  <1>3. /\ n \in Governing(R, SubSeq(p, 1, k)) /\ m \in Seq(Component) /\ Len(m) = Len(p)
        /\ n \in Seq(Component) /\ Len(n) = k /\ AtOrAbove(n, m)
    BY <1>2, GoverningPrefix
  <1>4. n \in Governing(R, q) /\ Len(n) = Len(q)
    BY <1>1, <1>3
  <1> QED
    BY <1>3, <1>4

\* Rules below the path that governs p lie below those that govern p's prefixes.
LEMMA ExposedReadable ==
    ASSUME NEW R \in Seq(Rule), NEW p \in Seq(Name), Exposed(R, p)
    PROVE  Readable(R, p)
  <1>1. PICK m \in Governing(R, p), i \in DOMAIN R : Above(m, R[i].path)
    BY DEF Exposed
  <1>2. PICK s \in Seq(Component) : s = R[i].path
    BY RuleFacts
  <1> SUFFICES ASSUME NEW q \in PrefixesOf(p) \ {Root} PROVE Passable(R, q)
    BY DEF Readable
  <1>3. PICK n \in Governing(R, q) : /\ n \in Seq(Component) /\ AtOrAbove(n, m)
                                     /\ m \in Seq(Component)
    BY GoverningAbove
  <1>4. n \in Governing(R, q) /\ n \in Seq(Component) /\ AtOrAbove(n, m) /\ m \in Seq(Component)
    BY <1>3
  <1>5. Above(m, s)
    BY <1>1, <1>2
  <1>6. AtOrAbove(m, s) /\ Len(m) < Len(s)
    BY <1>4, <1>5, PrefixOrder
  <1>7. AtOrAbove(n, s) /\ Len(n) < Len(s)
    BY <1>3, <1>4, <1>6 DEF AtOrAbove
  <1>8. Above(n, s)
    BY <1>4, <1>7, PrefixOrder
  <1>9. \E j \in DOMAIN R : Above(n, R[j].path)
    BY <1>2, <1>8
  <1> QED
    BY <1>4, <1>9 DEF Passable

\* Below a path that has no rules below nothing is governed.
LEMMA LastGoverning ==
    ASSUME NEW R \in Seq(Rule), NEW p \in Seq(Name), NEW q \in PrefixesOf(p),
           NEW m \in Governing(R, q), ~\E i \in DOMAIN R : Above(m, R[i].path),
           NEW o \in PrefixesOf(p), Len(q) < Len(o)
    PROVE  Governing(R, o) = {}
  <1> SUFFICES ASSUME NEW n \in Governing(R, o) PROVE FALSE
    OBVIOUS
  <1>1. /\ q \in Seq(Name) /\ o \in Seq(Name) /\ Len(q) \in Nat /\ Len(o) \in Nat
        /\ q \in PrefixesOf(o)
    BY PrefixOf
  <1>2. PICK c \in Governing(R, q) :
           /\ n \in Seq(Component) /\ Len(n) = Len(o)
           /\ c \in Seq(Component) /\ Len(c) = Len(q) /\ AtOrAbove(c, n)
    BY <1>1, GoverningAbove
  <1>3. c = m
    BY <1>1, <1>2, GoverningUnique
  <1>4. Mentioned(R, n) /\ n # Root
    <2>1. n \in DOMAIN NewAccessTree(R)
      BY GoverningNodes
    <2>2. Mentioned(R, n)
      BY <2>1, AccessNodes
    <2> QED
      BY <1>1, <1>2, <2>2 DEF Root
  <1>5. PICK i \in DOMAIN R : AtOrAbove(n, R[i].path)
    BY <1>4 DEF Mentioned
  <1>6. PICK s \in Seq(Component) : s = R[i].path
    BY RuleFacts
  <1>7. AtOrAbove(n, s)
    BY <1>5, <1>6
  <1>8. AtOrAbove(c, s) /\ Len(c) < Len(s)
    BY <1>1, <1>2, <1>7 DEF AtOrAbove
  <1>9. Above(c, s)
    BY <1>2, <1>8, PrefixOrder
  <1> QED
    BY <1>3, <1>6, <1>9

\* A place is reached exactly when its deepest rule lets it be read and nothing is
\* withheld on the way, or when there are rules below.
LEMMA ReadableMeaning ==
    ASSUME NEW R \in Seq(Rule), NEW p \in Seq(Name), p # Root
    PROVE  Readable(R, p) <=> (Allowed(R, p) /\ ~Withheld(R, p)) \/ Exposed(R, p)
  <1> DEFINE None(m) == ~\E i \in DOMAIN R : Above(m, R[i].path)
  <1>1. p \in PrefixesOf(p)
    BY PrefixFacts, PrefixOrder
  <1>2. ASSUME Readable(R, p), ~Exposed(R, p) PROVE Allowed(R, p)
    <2>1. Passable(R, p)
      BY <1>1, <1>2 DEF Readable
    <2>2. CASE Governing(R, p) = {}
      BY <2>1, <2>2 DEF Passable, Allowed
    <2>3. CASE Governing(R, p) # {}
      <3>1. PICK m \in Governing(R, p) : \E r \in RuleFor(R, m) : r.mode = Read
        BY <1>2, <2>1, <2>3 DEF Passable, Exposed
      <3>2. NewAccessTree(R)[m] = Read
        BY <3>1, GoverningMode
      <3>3. Sets(R, p) /\ ModeBy(R, p) = Read
        BY <3>2, GoverningMode DEF Read, Nil
      <3> QED
        BY <3>3, ModeOwn DEF Allowed
    <2> QED
      BY <2>2, <2>3
  <1>3. ASSUME Readable(R, p), Withheld(R, p) PROVE FALSE
    <2>0. PICK q \in PrefixesOf(p) \ {Root} :
             \E m \in Governing(R, q) : None(m) /\ \A r \in RuleFor(R, m) : r.mode = Nil
      BY <1>3 DEF Withheld
    <2>1. PICK m \in Governing(R, q) : None(m) /\ \A r \in RuleFor(R, m) : r.mode = Nil
      BY <2>0
    <2>2. Passable(R, q) /\ q \in Seq(Name)
      BY <1>3, PrefixOf DEF Readable
    <2>3. \A o \in Governing(R, q) : o = m
      BY <2>2, GoverningUnique
    <2>4. \E r \in RuleFor(R, m) : r.mode = Read
      BY <2>1, <2>2, <2>3 DEF Passable
    <2> QED
      BY <2>1, <2>4 DEF Read, Nil
  <1>4. ASSUME Allowed(R, p), ~Withheld(R, p), NEW q \in PrefixesOf(p) \ {Root}
        PROVE  Passable(R, q)
    <2>1. q \in PrefixesOf(p) /\ q \in Seq(Name) /\ Len(q) \in 0..Len(p)
      BY PrefixOf
    <2>2. CASE Governing(R, q) = {}
      <3>1. ASSUME NEW o \in PrefixesOf(p), Len(q) < Len(o) PROVE ~Sets(R, o)
        <4>1. o \in Seq(Name) /\ q \in PrefixesOf(o)
          BY <2>1, <3>1, PrefixOf
        <4>2. Governing(R, o) = {}
          BY <2>2, <4>1, GoverningAbove
        <4> QED
          BY <4>2 DEF Sets
      <3>2. ModeAt(R, p) = ModeAt(R, q)
        BY <2>1, <3>1, ModeFromAbove
      <3> QED
        BY <1>4, <2>2, <3>2 DEF Passable, Allowed
    <2>3. CASE Governing(R, q) # {}
      <3>1. PICK m \in Governing(R, q) : TRUE
        BY <2>3
      <3>2. CASE ~None(m)
        BY <3>1, <3>2 DEF Passable
      <3>3. CASE None(m)
        <4>1. PICK r \in RuleFor(R, m) : r.mode # Nil
          BY <1>4, <3>1, <3>3 DEF Withheld
        <4>2. Sets(R, q)
          BY <3>1, <4>1 DEF Sets
        <4>3. ModeBy(R, q) = r.mode
          <5>1. r.mode = NewAccessTree(R)[m] /\ ModeBy(R, q) = NewAccessTree(R)[m]
            BY <2>1, <4>1, <4>2, GoverningMode
          <5> QED
            BY <5>1
        <4>4. ASSUME NEW o \in PrefixesOf(p), Len(q) < Len(o) PROVE ~Sets(R, o)
          <5>1. Governing(R, o) = {}
            BY <2>1, <3>3, <4>4, LastGoverning
          <5> QED
            BY <5>1 DEF Sets
        <4>5. ModeAt(R, p) = ModeAt(R, q)
          BY <2>1, <4>4, ModeFromAbove
        <4>6. r.mode = Read
          BY <1>4, <2>1, <4>2, <4>3, <4>5, ModeOwn DEF Allowed
        <4> QED
          BY <3>1, <4>6 DEF Passable
      <3> QED
        BY <3>2, <3>3
    <2> QED
      BY <2>2, <2>3
  <1>5. Allowed(R, p) /\ ~Withheld(R, p) => Readable(R, p)
    BY <1>4 DEF Readable
  <1> QED
    BY <1>2, <1>3, <1>5, ExposedReadable

\* What is read is what is served: the root is no leaf.
LEMMA ReachedServed ==
    ASSUME NEW t, TreeOK(t), NEW R \in Seq(Rule), NEW p
    PROVE  Reached(t, R, p) = Served(t, R, p)
  <1>1. ASSUME NEW l \in Visible(t, p) PROVE l[1] \in Seq(Name) /\ l[1] # Root
    <2>1. PICK q \in Path : l = <<q, t[q].val>> /\ IsLeaf(t, q)
      BY DEF Visible
    <2>2. q \in Seq(Name)
      BY PathFacts
    <2>3. t[Root] = EmptyDir
      BY DEF TreeOK, WellFormed
    <2>4. q # Root
      BY <2>1, <2>3 DEF IsLeaf, EmptyDir
    <2> QED
      BY <2>1, <2>2, <2>4
  <1>2. ASSUME NEW l \in Visible(t, p)
        PROVE  Readable(R, l[1]) <=> \/ Allowed(R, l[1]) /\ ~Withheld(R, l[1])
                                     \/ Exposed(R, l[1])
    BY <1>1, ReadableMeaning
  <1> QED
    BY <1>2 DEF Reached, Served

-----------------------------------------------------------------------------
(* The invariant.  Its parts take the variables' values for one host.      *)

PC == {"idle", "rules", "mapping", "open", "enter", "value", "self",
       "links", "enterLink", "valueLink", "close"}

OpenPC  == {"enter", "value", "self", "links", "enterLink", "valueLink", "close"}
EnterPC == {"enter", "enterLink"}
ValuePC == {"value", "valueLink"}

\* A part of the request that is not in use is empty.
Unused(q, a, L, lf, w, k, td, g) ==
    /\ a.self => a.path = Root
    /\ lf \subseteq L
    /\ q \notin EnterPC => w = <<>>
    /\ q \notin ValuePC => td = {}
    /\ q \notin EnterPC \cup ValuePC => k = 0
    /\ q \notin {"links", "enterLink", "valueLink"} => L = {}
    /\ q \notin OpenPC => g = {}

\* Enter starts at the root and is on its way to a path; the loops of GetValue
\* that are not done are at the node or at ancestors of it that GetValue visits.
Place(q, a, at, w, k, td) ==
    /\ q \in {"self", "links"} => at = Root
    /\ q \in EnterPC => k = Len(at) /\ at \o w \in Path
    /\ q = "enter" => at \o w = a.path
    /\ q = "value" /\ a.path = Root => k = Len(at)
    /\ q \in ValuePC =>
          /\ k <= Len(at)
          /\ \A c \in td : /\ c # Root
                           /\ AtOrAbove(Parent(c), at)
                           /\ Len(at) <= Len(Parent(c)) + k

\* What the request has still to read, and what it has to read altogether.
Owed(q, at, lf, w, td) == lf \cup td \cup (IF q \in EnterPC THEN {at \o w} ELSE {})
Due(a, L) == L \cup (IF a.self THEN {} ELSE {a.path})

\* What was read and what is still to be read make what the rules let it read.
Account(t, q, a, R, at, L, lf, w, td, g) ==
    g \cup ReachedAll(t, R, Owed(q, at, lf, w, td)) = ReachedAll(t, R, Due(a, L))

HostOK(t, q, a, R, T, L, lf, w, k, td, g) ==
    /\ Unused(q, a, L, lf, w, k, td, g)
    /\ q \in OpenPC => /\ TravellerOK(t, R, T)
                       /\ Place(q, a, T.at, w, k, td)
                       /\ Account(t, q, a, R, T.at, L, lf, w, td, g)

\* The types of what the requests share, and of the requests.
SharedTypes ==
    /\ rules \in [Host -> RuleLists \cup InitialRules \cup {NoRules}]
    /\ mapping \in [Host -> Mappings \cup {NoMapping}]
    /\ changes \in 0..MaxChanges

RequestTypes ==
    /\ pc \in [Host -> PC]
    /\ ask \in [Host -> Ask]
    /\ under \in [Host -> Seq(Rule)]
    /\ DOMAIN tr = Host
    /\ links \in [Host -> SUBSET Path] /\ left \in [Host -> SUBSET Path]
    /\ way \in [Host -> Seq(Name)]
    /\ step \in [Host -> Nat]
    /\ todo \in [Host -> SUBSET Path]
    /\ got \in [Host -> SUBSET (Path \X Value)]

RequestOK(h) == HostOK(tree, pc[h], ask[h], under[h], tr[h], links[h], left[h],
                       way[h], step[h], todo[h], got[h])

IndInv ==
    /\ TreeOK(tree)
    /\ SharedTypes
    /\ RequestTypes
    /\ \A h \in Host : RequestOK(h)

\* The request of h stays as it is.
Still(h) ==
    /\ pc'[h] = pc[h] /\ ask'[h] = ask[h] /\ under'[h] = under[h] /\ tr'[h] = tr[h]
    /\ links'[h] = links[h] /\ left'[h] = left[h] /\ way'[h] = way[h]
    /\ step'[h] = step[h] /\ todo'[h] = todo[h] /\ got'[h] = got[h]

\* A step of one request is settled by what it does to that request.
LEMMA OneHost ==
    ASSUME IndInv, NEW h \in Host, UNCHANGED Shared, RequestTypes',
           \A g \in Host \ {h} : Still(g),
           HostOK(tree, pc'[h], ask'[h], under'[h], tr'[h], links'[h], left'[h],
                  way'[h], step'[h], todo'[h], got'[h])
    PROVE  IndInv'
  <1>1. tree' = tree /\ rules' = rules /\ mapping' = mapping /\ changes' = changes
    BY DEF Shared
  <1>2. TreeOK(tree)' /\ SharedTypes'
    BY <1>1 DEF IndInv, SharedTypes
  <1>3. ASSUME NEW g \in Host PROVE RequestOK(g)'
    <2>1. CASE g = h
      BY <1>1, <2>1 DEF RequestOK
    <2>2. CASE g # h
      BY <1>1, <2>2 DEF RequestOK, IndInv, Still
    <2> QED
      BY <2>1, <2>2
  <1> QED
    BY <1>2, <1>3 DEF IndInv

\* The initial states.
LEMMA IndInit == Init => IndInv
  <1> SUFFICES ASSUME Init PROVE IndInv
    OBVIOUS
  <1>1. TreeOK(tree)
    BY ReadingAssumption DEF Init
  <1>2. SharedTypes
    BY ReadingAssumption DEF Init, SharedTypes
  <1>3. NoAsk \in Ask /\ <<>> \in Seq(Rule) /\ <<>> \in Seq(Name)
    BY PathAssumption DEF NoAsk, Ask, Root
  <1>4. RequestTypes
    BY <1>3 DEF Init, RequestTypes, PC
  <1>5. ASSUME NEW h \in Host PROVE RequestOK(h)
    BY DEF Init, RequestOK, HostOK, Unused, EnterPC, ValuePC, OpenPC, NoAsk
  <1> QED
    BY <1>1, <1>2, <1>4, <1>5 DEF IndInv

\* The syncs change nothing that an open traveller uses.
LEMMA ChangeSteps ==
    ASSUME IndInv,
           \/ \E p \in Path \ {Root}, v \in Value : PutData(p, v)
           \/ \E p \in Path \ {Root} : DeleteData(p)
           \/ \E h \in Host : \/ \E rs \in RuleLists : PutRules(h, rs)
                              \/ DeleteRules(h)
                              \/ \E M \in Mappings \cup {NoMapping} : ChangeMapping(h, M)
    PROVE  IndInv'
  <1>1. /\ pc' = pc /\ ask' = ask /\ under' = under /\ tr' = tr /\ links' = links
        /\ left' = left /\ way' = way /\ step' = step /\ todo' = todo /\ got' = got
    BY DEF PutData, DeleteData, PutRules, DeleteRules, ChangeMapping, Change, request
  <1>2. RequestTypes'
    BY <1>1 DEF IndInv, RequestTypes
  <1>3. changes' \in 0..MaxChanges
    BY ReadingAssumption
       DEF IndInv, SharedTypes, PutData, DeleteData, PutRules, DeleteRules, ChangeMapping, Change
  <1>4. SharedTypes'
    BY <1>3 DEF IndInv, SharedTypes, PutData, DeleteData, PutRules, DeleteRules, ChangeMapping
  <1>5. CASE tree' = tree
    BY <1>1, <1>2, <1>4, <1>5 DEF IndInv, RequestOK
  <1>6. CASE /\ \A h \in Host : pc[h] \notin OpenPC
             /\ TreeOK(tree')
    <2>1. ASSUME NEW h \in Host PROVE RequestOK(h)'
      BY <1>1, <1>6 DEF IndInv, RequestOK, HostOK
    <2> QED
      BY <1>2, <1>4, <1>6, <2>1 DEF IndInv
  <1>7. ASSUME NEW p \in Path \ {Root}, NEW v \in Value, PutData(p, v)
        PROVE  TreeOK(tree') /\ \A h \in Host : pc[h] \notin OpenPC
    BY <1>7, PutPreserves DEF IndInv, TreeOK, PutData, Open, OpenPC
  <1>8. ASSUME NEW p \in Path \ {Root}, DeleteData(p)
        PROVE  TreeOK(tree') /\ \A h \in Host : pc[h] \notin OpenPC
    BY <1>8, RemovePreserves DEF IndInv, TreeOK, DeleteData, Open, OpenPC
  <1> QED
    BY <1>5, <1>6, <1>7, <1>8 DEF PutRules, DeleteRules, ChangeMapping

\* Request, GetRules and GetRulesOfMapping, before a traveller is open.
LEMMA RulesSteps ==
    ASSUME IndInv, NEW h \in Host,
           \/ \E a \in Ask : (a.self => a.path = Root) /\ Request(h, a)
           \/ GetRules(h)
           \/ GetRulesOfMapping(h)
    PROVE  IndInv'
  <1>1. /\ UNCHANGED Shared /\ pc[h] \notin OpenPC /\ RequestTypes /\ RequestOK(h)
        /\ tr' = tr /\ links' = links /\ left' = left /\ way' = way /\ step' = step
        /\ todo' = todo /\ got' = got
    BY DEF IndInv, Request, GetRules, GetRulesOfMapping, OpenPC, Shared
  <1>2. /\ \E q \in PC \ OpenPC : pc' = [pc EXCEPT ![h] = q]
        /\ \E a \in Ask : (a.self => a.path = Root) /\ ask' = [ask EXCEPT ![h] = a]
        /\ \E R \in Seq(Rule) : under' = [under EXCEPT ![h] = R]
    <2>1. ask[h] \in Ask /\ (ask[h].self => ask[h].path = Root) /\ under[h] \in Seq(Rule)
          /\ ask = [ask EXCEPT ![h] = ask[h]] /\ under = [under EXCEPT ![h] = under[h]]
      BY <1>1 DEF RequestTypes, RequestOK, HostOK, Unused
    <2>2. CASE \E a \in Ask : (a.self => a.path = Root) /\ Request(h, a)
      BY <2>1, <2>2 DEF Request, Go, PC, OpenPC
    <2>3. CASE GetRules(h)
      <3>1. rules[h] # NoRules => rules[h] \in Seq(Rule)
        BY ReadingAssumption DEF IndInv, SharedTypes
      <3> QED
        BY <2>1, <2>3, <3>1 DEF GetRules, Go, PC, OpenPC
    <2>4. CASE GetRulesOfMapping(h)
      <3>1. NoAsk \in Ask /\ NoAsk.self = FALSE
        BY PathAssumption DEF NoAsk, Ask, Root
      <3>2. CASE mapping[h] = NoMapping
        BY <2>1, <2>4, <3>1, <3>2 DEF GetRulesOfMapping, Go, PC, OpenPC
      <3>3. CASE mapping[h] # NoMapping
        <4>1. mapping[h] \subseteq Path
          BY <3>3, ReadingAssumption DEF IndInv, SharedTypes
        <4>2. PICK s \in SetToSeqs(mapping[h]) :
                under' = [under EXCEPT ![h] = [i \in DOMAIN s |-> [path |-> s[i], mode |-> Read]]]
          BY <2>4, <3>3 DEF GetRulesOfMapping
        <4>3. [i \in DOMAIN s |-> [path |-> s[i], mode |-> Read]] \in Seq(Rule)
          <5> DEFINE n == Cardinality(mapping[h])
          <5>1. n \in Nat
            BY <4>1, PathAssumption, FS_Subset, FS_CardinalityType
          <5>2. s \in [1..n -> mapping[h]]
            BY DEF SetToSeqs
          <5>3. \A i \in 1..n : [path |-> s[i], mode |-> Read] \in Rule
            <6>1. \A p \in Path : p \in Seq(Name \cup {Wild})
              BY PathAssumption
            <6> QED
              BY <4>1, <5>2, <6>1 DEF Rule, Mode
          <5> HIDE DEF n
          <5> QED
            BY <5>1, <5>2, <5>3
        <4> QED
          BY <2>1, <2>4, <3>3, <4>2, <4>3 DEF GetRulesOfMapping, Go, PC, OpenPC
      <3> QED
        BY <3>2, <3>3
    <2> QED
      BY <2>2, <2>3, <2>4
  <1>3. PICK q \in PC \ OpenPC : pc' = [pc EXCEPT ![h] = q]
    BY <1>2
  <1>4. PICK a \in Ask : (a.self => a.path = Root) /\ ask' = [ask EXCEPT ![h] = a]
    BY <1>2
  <1>5. PICK R \in Seq(Rule) : under' = [under EXCEPT ![h] = R]
    BY <1>2
  <1>6. RequestTypes'
    BY <1>1, <1>3, <1>4, <1>5 DEF RequestTypes
  <1>7. \A g \in Host \ {h} : Still(g)
    BY <1>1, <1>3, <1>4, <1>5 DEF RequestTypes, Still
  <1>8. pc'[h] = q /\ ask'[h] = a
    BY <1>1, <1>3, <1>4 DEF RequestTypes
  <1>9. HostOK(tree, pc'[h], ask'[h], under'[h], tr'[h], links'[h], left'[h],
               way'[h], step'[h], todo'[h], got'[h])
    BY <1>1, <1>4, <1>8
       DEF RequestOK, HostOK, Unused, PC, OpenPC, EnterPC, ValuePC
  <1> QED
    BY <1>1, <1>6, <1>7, <1>9, OneHost

\* OpenTraveller: a Root is on its way to the path asked for, and owes it all.
LEMMA OpenStep ==
    ASSUME IndInv, NEW h \in Host, OpenTraveller(h)
    PROVE  IndInv'
  <1> DEFINE a == ask[h]
             R == under[h]
             T == AtRoot(NewAccessTree(R))
             q == IF a.self THEN "self" ELSE "enter"
  <1>1. /\ UNCHANGED Shared /\ pc[h] = "open" /\ RequestTypes /\ RequestOK(h)
        /\ pc' = [pc EXCEPT ![h] = q]
        /\ tr' = [tr EXCEPT ![h] = T]
        /\ way' = [way EXCEPT ![h] = a.path]
        /\ ask' = ask /\ under' = under /\ links' = links /\ left' = left
        /\ step' = step /\ todo' = todo /\ got' = got
    BY DEF IndInv, OpenTraveller, Go, AccessOf, Shared
  <1>2. a \in Ask /\ a.path \in Path /\ a.self \in BOOLEAN /\ R \in Seq(Rule)
    BY <1>1 DEF RequestTypes, Ask
  <1>3. a.path \in Seq(Name) /\ Root \in Path
    BY <1>2, PathAssumption DEF Root
  <1>4. TravellerOK(tree, R, T) /\ T.at = Root
    BY <1>2, AtRootFacts DEF IndInv
  <1>5. /\ a.self => a.path = Root
        /\ links[h] = {} /\ left[h] = {} /\ step[h] = 0 /\ todo[h] = {} /\ got[h] = {}
    BY <1>1 DEF RequestOK, HostOK, Unused, EnterPC, ValuePC, OpenPC
  <1>6. T.at \o a.path = a.path /\ Len(T.at) = 0
    BY <1>3, <1>4, WayFacts DEF Root
  <1> HIDE DEF T, R, a
  <1>7. HostOK(tree, q, a, R, T, {}, {}, a.path, 0, {}, {})
    <2>1. Unused(q, a, {}, {}, a.path, 0, {}, {})
      BY <1>5 DEF Unused, EnterPC, ValuePC, OpenPC, Root
    <2>2. Place(q, a, T.at, a.path, 0, {})
      BY <1>2, <1>3, <1>4, <1>5, <1>6 DEF Place, EnterPC, ValuePC
    <2>3. Owed(q, T.at, {}, a.path, {}) = Due(a, {})
      BY <1>6 DEF Owed, Due, EnterPC
    <2>4. Account(tree, q, a, R, T.at, {}, {}, a.path, {}, {})
      BY <2>3 DEF Account
    <2> QED
      BY <1>4, <2>1, <2>2, <2>4 DEF HostOK
  <1>8. /\ pc'[h] = q /\ ask'[h] = a /\ under'[h] = R /\ tr'[h] = T
        /\ links'[h] = {} /\ left'[h] = {} /\ way'[h] = a.path /\ step'[h] = 0
        /\ todo'[h] = {} /\ got'[h] = {}
    BY <1>1, <1>5 DEF RequestTypes, a, R
  <1>9. RequestTypes'
    BY <1>1, <1>3 DEF RequestTypes, PC
  <1>10. \A g \in Host \ {h} : Still(g)
    BY <1>1 DEF RequestTypes, Still
  <1> QED
    BY <1>1, <1>7, <1>8, <1>9, <1>10, OneHost

\* What the invariant says of a request whose traveller is open.
LEMMA OpenFacts ==
    ASSUME IndInv, NEW h \in Host, pc[h] \in OpenPC
    PROVE  /\ TreeOK(tree) /\ RequestTypes
           /\ ask[h] \in Ask /\ under[h] \in Seq(Rule) /\ way[h] \in Seq(Name)
           /\ step[h] \in Nat /\ links[h] \subseteq Path /\ left[h] \subseteq Path
           /\ todo[h] \subseteq Path /\ got[h] \subseteq Path \X Value
           /\ TravellerOK(tree, under[h], tr[h])
           /\ tr[h].at \in Path /\ tr[h].at \in Seq(Name) /\ Len(tr[h].at) \in Nat
           /\ Unused(pc[h], ask[h], links[h], left[h], way[h], step[h], todo[h], got[h])
           /\ Place(pc[h], ask[h], tr[h].at, way[h], step[h], todo[h])
           /\ Account(tree, pc[h], ask[h], under[h], tr[h].at, links[h], left[h],
                      way[h], todo[h], got[h])
  <1>1. /\ TreeOK(tree) /\ RequestTypes
        /\ HostOK(tree, pc[h], ask[h], under[h], tr[h], links[h], left[h], way[h],
                  step[h], todo[h], got[h])
    BY DEF IndInv, RequestOK
  <1>2. /\ ask[h] \in Ask /\ under[h] \in Seq(Rule) /\ way[h] \in Seq(Name)
        /\ step[h] \in Nat /\ links[h] \subseteq Path /\ left[h] \subseteq Path
        /\ todo[h] \subseteq Path /\ got[h] \subseteq Path \X Value
    BY <1>1 DEF RequestTypes
  <1>3. TravellerOK(tree, under[h], tr[h])
    BY <1>1 DEF HostOK
  <1>4. tr[h].at \in Path
    BY <1>3 DEF TravellerOK, InStepAll, Traveller
  <1>5. tr[h].at \in Seq(Name) /\ Len(tr[h].at) \in Nat
    BY <1>4, PathFacts
  <1> QED
    BY <1>1, <1>2, <1>3, <1>4, <1>5 DEF HostOK

\* EnterNext goes on towards the same path, or back to the root from one that
\* serves nothing.
LEMMA EnterNextStep ==
    ASSUME IndInv, NEW h \in Host, EnterNext(h)
    PROVE  IndInv'
  <1> DEFINE q == pc[h]
             a == ask[h]
             R == under[h]
             T == tr[h]
             L == links[h]
             lf == left[h]
             w == way[h]
             k == step[h]
             g == got[h]
             x == Head(w)
             u == Append(T.at, x)
             can == CanEnter(tree, NewAccessTree(R), T, x)
             E == EnterChild(NewAccessTree(R), T, x)
             B == BackStep(T, k)
             b == IF q = "enter" THEN "close" ELSE "links"
  <1>1. q \in EnterPC /\ w # <<>> /\ q \in OpenPC /\ q \in PC
    BY DEF EnterNext, Entering, EnterPC, OpenPC, PC
  <1>2. /\ UNCHANGED Shared /\ ask' = ask /\ under' = under /\ links' = links
        /\ left' = left /\ todo' = todo /\ got' = got
        /\ can => /\ tr' = [tr EXCEPT ![h] = E]
                   /\ way' = [way EXCEPT ![h] = Tail(w)]
                   /\ step' = [step EXCEPT ![h] = k + 1]
                   /\ pc' = pc
        /\ ~can => /\ tr' = [tr EXCEPT ![h] = B]
                    /\ way' = [way EXCEPT ![h] = <<>>]
                    /\ step' = [step EXCEPT ![h] = 0]
                    /\ pc' = [pc EXCEPT ![h] = b]
    BY DEF EnterNext, Go, AccessOf, Shared
  <1>3. /\ TreeOK(tree) /\ RequestTypes
        /\ R \in Seq(Rule) /\ w \in Seq(Name) /\ k \in Nat
        /\ TravellerOK(tree, R, T) /\ T.at \in Path /\ T.at \in Seq(Name)
        /\ Len(T.at) \in Nat
        /\ Unused(q, a, L, lf, w, k, todo[h], g)
        /\ Place(q, a, T.at, w, k, todo[h])
        /\ Account(tree, q, a, R, T.at, L, lf, w, todo[h], g)
    BY <1>1, OpenFacts
  <1>4. /\ k = Len(T.at) /\ T.at \o w \in Path /\ todo[h] = {}
        /\ q = "enter" => T.at \o w = a.path
    BY <1>1, <1>3 DEF Place, Unused, EnterPC, ValuePC
  <1>5. /\ x \in Name /\ Tail(w) \in Seq(Name) /\ u \o Tail(w) = T.at \o w
        /\ AtOrAbove(u, T.at \o w)
        /\ u = SubSeq(T.at \o w, 1, Len(T.at) + 1) /\ Len(T.at) + 1 \in 0..Len(T.at \o w)
    <2> HIDE DEF T, w
    <2>1. T.at \in Seq(Name) /\ w \in Seq(Name) /\ w # <<>>
      BY <1>1, <1>3
    <2> QED
      BY <2>1, WayStep
  <1>6. u \in Path /\ u # Root /\ Len(u) = k + 1
    <2>1. u \in Path
      BY <1>4, <1>5, PathAssumption
    <2>2. u # Root /\ Len(u) = Len(T.at) + 1
      <3> HIDE DEF T, x
      <3>1. T.at \in Seq(Name) /\ x \in Name
        BY <1>3, <1>5
      <3> QED
        BY <3>1, AppendFacts
    <2> QED
      BY <1>4, <2>1, <2>2
  <1>7. /\ can <=> u \in Path /\ Present(tree, u) /\ Passable(R, u)
        /\ E.at = u /\ (can => TravellerOK(tree, R, E))
    <2> HIDE DEF T, x, R
    <2>1. TravellerOK(tree, R, T) /\ R \in Seq(Rule) /\ x \in Name
      BY <1>3, <1>5
    <2> QED
      BY <2>1, EnterFacts
  <1>8. TravellerOK(tree, R, B) /\ B.at = Root
    BY <1>3, <1>4, BackStepFacts
  <1> HIDE DEF can, E, B, u, x
  <1>9. CASE can
    <2>1. /\ pc'[h] = q /\ ask'[h] = a /\ under'[h] = R /\ tr'[h] = E
          /\ links'[h] = L /\ left'[h] = lf /\ way'[h] = Tail(w) /\ step'[h] = k + 1
          /\ todo'[h] = {} /\ got'[h] = g
      <3>1. /\ pc' = pc /\ ask' = ask /\ under' = under /\ links' = links /\ left' = left
            /\ todo' = todo /\ got' = got
        BY <1>2, <1>9
      <3>2. /\ tr' = [tr EXCEPT ![h] = E] /\ way' = [way EXCEPT ![h] = Tail(w)]
            /\ step' = [step EXCEPT ![h] = k + 1]
        BY <1>2, <1>9
      <3>3. DOMAIN tr = Host /\ DOMAIN way = Host /\ DOMAIN step = Host
        BY <1>3 DEF RequestTypes
      <3>4. todo[h] = {}
        BY <1>4
      <3> HIDE DEF E
      <3> QED
        BY <3>1, <3>2, <3>3, <3>4
    <2>2. RequestTypes'
      <3>1. Tail(w) \in Seq(Name) /\ k + 1 \in Nat
        <4>1. w \in Seq(Name) /\ w # <<>> /\ k \in Nat
          BY <1>1, <1>3
        <4> HIDE DEF w, k
        <4> QED
          BY <4>1
      <3>2. /\ tr' = [tr EXCEPT ![h] = E] /\ way' = [way EXCEPT ![h] = Tail(w)]
            /\ step' = [step EXCEPT ![h] = k + 1] /\ pc' = pc
        BY <1>2, <1>9
      <3> HIDE DEF w, k
      <3> QED
        BY <1>2, <1>3, <3>1, <3>2 DEF RequestTypes
    <2>3. \A o \in Host \ {h} : Still(o)
      BY <1>2, <1>3, <1>9 DEF RequestTypes, Still
    <2>4. HostOK(tree, q, a, R, E, L, lf, Tail(w), k + 1, {}, g)
      <3> HIDE DEF q, a, R, T, L, lf, w, k, g
      <3>1. Unused(q, a, L, lf, Tail(w), k + 1, {}, g)
        BY <1>1, <1>3 DEF Unused
      <3>2. Place(q, a, E.at, Tail(w), k + 1, {})
        BY <1>1, <1>4, <1>5, <1>6, <1>7, <1>9 DEF Place, EnterPC, ValuePC
      <3>3. Owed(q, E.at, lf, Tail(w), {}) = Owed(q, T.at, lf, w, {})
        BY <1>5, <1>7, <1>9 DEF Owed
      <3>4. Account(tree, q, a, R, E.at, L, lf, Tail(w), {}, g)
        BY <1>3, <1>4, <3>3 DEF Account
      <3> QED
        BY <1>7, <1>9, <3>1, <3>2, <3>4 DEF HostOK
    <2> QED
      BY <1>2, <2>1, <2>2, <2>3, <2>4, OneHost
  <1>10. CASE ~can
    <2>1. /\ pc'[h] = b /\ ask'[h] = a /\ under'[h] = R /\ tr'[h] = B
          /\ links'[h] = L /\ left'[h] = lf /\ way'[h] = <<>> /\ step'[h] = 0
          /\ todo'[h] = {} /\ got'[h] = g
      BY <1>2, <1>3, <1>4, <1>10 DEF RequestTypes
    <2>2. RequestTypes'
      <3>1. b \in PC /\ <<>> \in Seq(Name)
        BY DEF PC
      <3>2. /\ tr' = [tr EXCEPT ![h] = B] /\ way' = [way EXCEPT ![h] = <<>>]
            /\ step' = [step EXCEPT ![h] = 0] /\ pc' = [pc EXCEPT ![h] = b]
        BY <1>2, <1>10
      <3> HIDE DEF b
      <3> QED
        BY <1>2, <1>3, <3>1, <3>2 DEF RequestTypes
    <2>3. \A o \in Host \ {h} : Still(o)
      BY <1>2, <1>3, <1>10 DEF RequestTypes, Still
    <2>4. HostOK(tree, b, a, R, B, L, lf, <<>>, 0, {}, g)
      <3> HIDE DEF q, a, R, T, L, lf, w, k, g
      <3>1. Unused(b, a, L, lf, <<>>, 0, {}, g)
        BY <1>1, <1>3 DEF Unused, EnterPC, ValuePC, OpenPC
      <3>2. Place(b, a, B.at, <<>>, 0, {})
        BY <1>8 DEF Place, EnterPC, ValuePC
      <3>3. Reached(tree, R, T.at \o w) = {}
        BY <1>3, <1>4, <1>5, <1>6, <1>7, <1>10, ReachedNothing
      <3>4. Owed(q, T.at, lf, w, {}) = Owed(b, B.at, lf, <<>>, {}) \cup {T.at \o w}
        BY <1>1 DEF Owed, EnterPC
      <3>5. ReachedAll(tree, R, Owed(q, T.at, lf, w, {}))
              = ReachedAll(tree, R, Owed(b, B.at, lf, <<>>, {})) \cup {}
        <4>1. ReachedAll(tree, R, {T.at \o w}) = {}
          BY <3>3, ReachedOne
        <4> DEFINE P == Owed(b, B.at, lf, <<>>, {})
                   r == T.at \o w
        <4> HIDE DEF P, r
        <4>2. ReachedAll(tree, R, P \cup {r}) = ReachedAll(tree, R, P) \cup ReachedAll(tree, R, {r})
          BY ReachedSums
        <4> QED
          BY <3>4, <4>1, <4>2 DEF P, r
      <3>6. Account(tree, b, a, R, B.at, L, lf, <<>>, {}, g)
        BY <1>3, <1>4, <3>5 DEF Account
      <3> QED
        BY <1>8, <3>1, <3>2, <3>6 DEF HostOK
    <2> QED
      BY <1>2, <2>1, <2>2, <2>3, <2>4, OneHost
  <1> QED
    BY <1>9, <1>10

\* StartValue: GetValue takes over what Enter was on its way to.
LEMMA StartValueStep ==
    ASSUME IndInv, NEW h \in Host, StartValue(h)
    PROVE  IndInv'
  <1> DEFINE q == pc[h]
             a == ask[h]
             R == under[h]
             T == tr[h]
             L == links[h]
             lf == left[h]
             g == got[h]
             b == IF q = "enter" THEN "value" ELSE "valueLink"
             td == IF IsDir(tree, T.at) THEN Children(tree, T.at) ELSE {}
             new == IF IsDir(tree, T.at) THEN {} ELSE {<<T.at, tree[T.at].val>>}
  <1>1. q \in EnterPC /\ way[h] = <<>> /\ q \in OpenPC
    BY DEF StartValue, Entering, EnterPC, OpenPC
  <1>2. /\ UNCHANGED Shared /\ ask' = ask /\ under' = under /\ tr' = tr
        /\ links' = links /\ left' = left /\ way' = way
        /\ pc' = [pc EXCEPT ![h] = b]
        /\ step' = [step EXCEPT ![h] = 0]
        /\ todo' = [todo EXCEPT ![h] = td]
        /\ got' = [got EXCEPT ![h] = g \cup new]
    BY DEF StartValue, Go, Loop, LeafAt, Shared
  <1>3. /\ TreeOK(tree) /\ RequestTypes /\ g \subseteq Path \X Value
        /\ R \in Seq(Rule) /\ step[h] \in Nat
        /\ TravellerOK(tree, R, T) /\ T.at \in Path /\ T.at \in Seq(Name)
        /\ Len(T.at) \in Nat
        /\ Unused(q, a, L, lf, <<>>, step[h], todo[h], g)
        /\ Place(q, a, T.at, <<>>, step[h], todo[h])
        /\ Account(tree, q, a, R, T.at, L, lf, <<>>, todo[h], g)
    BY <1>1, OpenFacts
  <1>4. /\ todo[h] = {} /\ T.at \o <<>> = T.at
        /\ q = "enter" => T.at = a.path
    <2>1. T.at \o <<>> = T.at
      BY <1>3, WayFacts
    <2> QED
      BY <1>1, <1>3, <2>1 DEF Place, Unused, EnterPC, ValuePC
  <1>5. Reached(tree, R, T.at) = new \cup ReachedAll(tree, R, td)
        /\ (~IsDir(tree, T.at) => tree[T.at].val \in Value)
    BY <1>3, ReachedNode DEF TravellerOK
  <1>6. new \subseteq Path \X Value
    BY <1>3, <1>5
  <1>7. /\ td \subseteq Path
        /\ \A c \in td : c # Root /\ Parent(c) = T.at
    BY DEF Children
  <1> HIDE DEF td, new
  <1>8. /\ pc'[h] = b /\ ask'[h] = a /\ under'[h] = R /\ tr'[h] = T
        /\ links'[h] = L /\ left'[h] = lf /\ way'[h] = <<>> /\ step'[h] = 0
        /\ todo'[h] = td /\ got'[h] = g \cup new
    BY <1>1, <1>2, <1>3 DEF RequestTypes
  <1>9. RequestTypes'
    BY <1>2, <1>3, <1>6, <1>7 DEF RequestTypes, PC
  <1>10. \A o \in Host \ {h} : Still(o)
    BY <1>2, <1>3 DEF RequestTypes, Still
  <1>11. HostOK(tree, b, a, R, T, L, lf, <<>>, 0, td, g \cup new)
    <2> HIDE DEF q, a, R, T, L, lf, g
    <2>1. Unused(b, a, L, lf, <<>>, 0, td, g \cup new)
      BY <1>1, <1>3 DEF Unused, EnterPC, ValuePC, OpenPC
    <2>2. Place(b, a, T.at, <<>>, 0, td)
      <3>1. AtOrAbove(T.at, T.at) /\ Len(Root) = 0
        BY <1>3, AboveRefl DEF Root
      <3> QED
        BY <1>1, <1>3, <1>4, <1>7, <3>1 DEF Place, EnterPC, ValuePC
    <2>3. Owed(q, T.at, lf, <<>>, {}) = lf \cup {T.at} /\ Owed(b, T.at, lf, <<>>, td) = lf \cup td
      BY <1>1, <1>4 DEF Owed, EnterPC
    <2>4. ReachedAll(tree, R, lf \cup {T.at})
            = ReachedAll(tree, R, lf) \cup (new \cup ReachedAll(tree, R, td))
      <3>1. ReachedAll(tree, R, {T.at}) = new \cup ReachedAll(tree, R, td)
        BY <1>5, ReachedOne
      <3> QED
        BY <3>1, ReachedSums
    <2>5. ReachedAll(tree, R, lf \cup td)
            = ReachedAll(tree, R, lf) \cup ReachedAll(tree, R, td)
      BY ReachedSums
    <2>6. Account(tree, b, a, R, T.at, L, lf, <<>>, td, g \cup new)
      BY <1>3, <1>4, <2>3, <2>4, <2>5 DEF Account
    <2> QED
      BY <1>3, <2>1, <2>2, <2>6 DEF HostOK
  <1> QED
    BY <1>2, <1>8, <1>9, <1>10, <1>11, OneHost

\* EnterOne: the child's loop and leaf take the place of the child, which serves
\* nothing where it is skipped.
LEMMA EnterOneStep ==
    ASSUME IndInv, NEW h \in Host, NEW c \in Path, EnterOne(h, c)
    PROVE  IndInv'
  <1> DEFINE q == pc[h]
             a == ask[h]
             R == under[h]
             T == tr[h]
             L == links[h]
             lf == left[h]
             k == step[h]
             td == todo[h]
             g == got[h]
             x == Last(c)
             can == CanEnter(tree, NewAccessTree(R), T, x)
             E == EnterChild(NewAccessTree(R), T, x)
             kids == IF IsDir(tree, c) THEN Children(tree, c) ELSE {}
             new == IF IsDir(tree, c) THEN {} ELSE {<<c, tree[c].val>>}
             rest == td \ {c}
  <1>1. q \in ValuePC /\ q \in OpenPC /\ q \in PC /\ c \in td /\ Parent(c) = T.at
    BY DEF EnterOne, Valuing, NextOf, ValuePC, OpenPC, PC
  <1>2. /\ UNCHANGED Shared /\ pc' = pc /\ ask' = ask /\ under' = under /\ links' = links
        /\ left' = left /\ way' = way
        /\ can => /\ tr' = [tr EXCEPT ![h] = E]
                  /\ step' = [step EXCEPT ![h] = k + 1]
                  /\ todo' = [todo EXCEPT ![h] = rest \cup kids]
                  /\ got' = [got EXCEPT ![h] = g \cup new]
        /\ ~can => /\ todo' = [todo EXCEPT ![h] = rest]
                   /\ tr' = tr /\ step' = step /\ got' = got
    BY DEF EnterOne, AccessOf, Loop, LeafAt, Shared
  <1>3. /\ TreeOK(tree) /\ RequestTypes /\ g \subseteq Path \X Value /\ td \subseteq Path
        /\ R \in Seq(Rule) /\ k \in Nat
        /\ TravellerOK(tree, R, T) /\ T.at \in Path /\ T.at \in Seq(Name)
        /\ Len(T.at) \in Nat
        /\ Unused(q, a, L, lf, way[h], k, td, g)
        /\ Place(q, a, T.at, way[h], k, td)
        /\ Account(tree, q, a, R, T.at, L, lf, way[h], td, g)
    BY <1>1, OpenFacts
  <1>4. /\ way[h] = <<>> /\ c # Root /\ k <= Len(T.at)
        /\ q = "value" /\ a.path = Root => k = Len(T.at)
        /\ \A o \in td : o # Root /\ AtOrAbove(Parent(o), T.at) /\ Len(T.at) <= Len(Parent(o)) + k
    BY <1>1, <1>3 DEF Place, Unused, EnterPC, ValuePC
  <1>5. x \in Name /\ c = Append(T.at, x) /\ Len(c) = Len(T.at) + 1 /\ Len(c) \in Nat
    <2>1. c \in Seq(Name)
      BY PathFacts
    <2>2. c[Len(c)] \in Name /\ c = Append(Parent(c), c[Len(c)])
          /\ Len(Parent(c)) = Len(c) - 1 /\ Len(c) \in Nat
      BY <1>4, <2>1, ParentAppend
    <2> QED
      BY <1>1, <2>2 DEF Last
  <1>6. /\ can <=> Append(T.at, x) \in Path /\ Present(tree, Append(T.at, x))
                     /\ Passable(R, Append(T.at, x))
        /\ E.at = Append(T.at, x) /\ (can => TravellerOK(tree, R, E))
    <2> HIDE DEF T, x, R
    <2>1. TravellerOK(tree, R, T) /\ R \in Seq(Rule) /\ x \in Name
      BY <1>3, <1>5
    <2> QED
      BY <2>1, EnterFacts
  <1>7. /\ can <=> Present(tree, c) /\ Passable(R, c)
        /\ E.at = c /\ (can => TravellerOK(tree, R, E))
    BY <1>5, <1>6
  <1>8. /\ kids \subseteq Path
        /\ \A o \in kids : o # Root /\ Parent(o) = c
    BY DEF Children
  <1> HIDE DEF can, E, x
  <1>9. CASE can
    <2>1. Reached(tree, R, c) = new \cup ReachedAll(tree, R, kids)
          /\ (~IsDir(tree, c) => tree[c].val \in Value)
      BY <1>3, <1>7, <1>9, ReachedNode DEF TravellerOK
    <2>2. new \subseteq Path \X Value
      BY <2>1
    <2> HIDE DEF kids, new
    <2>3. /\ tr' = [tr EXCEPT ![h] = E] /\ step' = [step EXCEPT ![h] = k + 1]
          /\ todo' = [todo EXCEPT ![h] = rest \cup kids]
          /\ got' = [got EXCEPT ![h] = g \cup new]
      BY <1>2, <1>9
    <2>4. /\ pc'[h] = q /\ ask'[h] = a /\ under'[h] = R /\ tr'[h] = E
          /\ links'[h] = L /\ left'[h] = lf /\ way'[h] = <<>> /\ step'[h] = k + 1
          /\ todo'[h] = rest \cup kids /\ got'[h] = g \cup new
      BY <1>2, <1>3, <1>4, <2>3 DEF RequestTypes
    <2>5. RequestTypes'
      <3>1. k + 1 \in Nat /\ rest \cup kids \subseteq Path /\ g \cup new \subseteq Path \X Value
        BY <1>3, <1>8, <2>2
      <3> HIDE DEF k, rest, g
      <3> QED
        BY <1>2, <1>3, <2>3, <3>1 DEF RequestTypes
    <2>6. \A o \in Host \ {h} : Still(o)
      BY <1>2, <1>3, <2>3 DEF RequestTypes, Still
    <2>7. HostOK(tree, q, a, R, E, L, lf, <<>>, k + 1, rest \cup kids, g \cup new)
      <3> HIDE DEF q, a, R, T, L, lf, k, td, g
      <3>1. Unused(q, a, L, lf, <<>>, k + 1, rest \cup kids, g \cup new)
        BY <1>1, <1>3 DEF Unused
      <3>2. Place(q, a, E.at, <<>>, k + 1, rest \cup kids)
        <4>1. ASSUME NEW o \in rest
              PROVE  o # Root /\ AtOrAbove(Parent(o), c) /\ Len(c) <= Len(Parent(o)) + (k + 1)
          <5>1. o # Root /\ AtOrAbove(Parent(o), T.at) /\ Len(T.at) <= Len(Parent(o)) + k
                /\ o \in Path
            BY <1>3, <1>4
          <5>2. AtOrAbove(T.at, c) /\ Parent(o) \in Path /\ Len(Parent(o)) \in Nat
            BY <1>1, <1>4, <5>1, ParentFacts, PathFacts DEF Above
          <5>3. AtOrAbove(Parent(o), c)
            BY <1>3, <5>1, <5>2, AboveTrans
          <5> QED
            BY <1>3, <1>5, <5>1, <5>2, <5>3
        <4>2. ASSUME NEW o \in kids
              PROVE  o # Root /\ AtOrAbove(Parent(o), c) /\ Len(c) <= Len(Parent(o)) + (k + 1)
          <5>1. k \in Nat /\ Len(c) \in Nat
            BY <1>3, <1>5
          <5>2. AtOrAbove(c, c)
            BY AboveRefl
          <5>3. Len(c) <= Len(c) + (k + 1)
            BY <5>1
          <5>4. o # Root /\ Parent(o) = c
            BY <1>8
          <5> QED
            BY <5>2, <5>3, <5>4
        <4>3. k + 1 <= Len(c) /\ (q = "value" /\ a.path = Root => k + 1 = Len(c))
          BY <1>3, <1>4, <1>5
        <4> HIDE DEF rest
        <4> QED
          BY <1>1, <1>7, <4>1, <4>2, <4>3 DEF Place, EnterPC, ValuePC
      <3>3. Owed(q, T.at, lf, <<>>, td) = (lf \cup rest) \cup {c}
            /\ Owed(q, E.at, lf, <<>>, rest \cup kids) = (lf \cup rest) \cup kids
        BY <1>1 DEF Owed, EnterPC, ValuePC
      <3> DEFINE P == lf \cup rest
      <3> HIDE DEF P
      <3>4. ReachedAll(tree, R, P \cup {c}) = ReachedAll(tree, R, P) \cup (new \cup ReachedAll(tree, R, kids))
        <4>1. ReachedAll(tree, R, {c}) = new \cup ReachedAll(tree, R, kids)
          BY <2>1, ReachedOne
        <4> QED
          BY <4>1, ReachedSums
      <3>5. ReachedAll(tree, R, P \cup kids) = ReachedAll(tree, R, P) \cup ReachedAll(tree, R, kids)
        BY ReachedSums
      <3>6. Account(tree, q, a, R, E.at, L, lf, <<>>, rest \cup kids, g \cup new)
        <4>1. /\ Owed(q, T.at, lf, <<>>, td) = P \cup {c}
              /\ Owed(q, E.at, lf, <<>>, rest \cup kids) = P \cup kids
          BY <3>3 DEF P
        <4>2. g \cup ReachedAll(tree, R, P \cup {c}) = ReachedAll(tree, R, Due(a, L))
          BY <1>3, <1>4, <4>1 DEF Account
        <4> HIDE DEF new, kids, rest, E
        <4> QED
          BY <3>4, <3>5, <4>1, <4>2 DEF Account
      <3> QED
        BY <1>7, <1>9, <3>1, <3>2, <3>6 DEF HostOK
    <2>8. HostOK(tree, pc'[h], ask'[h], under'[h], tr'[h], links'[h], left'[h],
                 way'[h], step'[h], todo'[h], got'[h])
      <3> HIDE DEF q, a, R, E, L, lf, k, rest, kids, g, new
      <3> QED
        BY <2>4, <2>7
    <2> QED
      BY <1>2, <2>5, <2>6, <2>8, OneHost
  <1>10. CASE ~can
    <2>1. todo' = [todo EXCEPT ![h] = rest] /\ tr' = tr /\ step' = step /\ got' = got
      BY <1>2, <1>10
    <2>2. /\ pc'[h] = q /\ ask'[h] = a /\ under'[h] = R /\ tr'[h] = T
          /\ links'[h] = L /\ left'[h] = lf /\ way'[h] = <<>> /\ step'[h] = k
          /\ todo'[h] = rest /\ got'[h] = g
      BY <1>2, <1>3, <1>4, <2>1 DEF RequestTypes
    <2>3. RequestTypes'
      BY <1>2, <1>3, <2>1 DEF RequestTypes
    <2>4. \A o \in Host \ {h} : Still(o)
      BY <1>2, <1>3, <2>1 DEF RequestTypes, Still
    <2>5. HostOK(tree, q, a, R, T, L, lf, <<>>, k, rest, g)
      <3> HIDE DEF q, a, R, T, L, lf, k, td, g
      <3>1. Unused(q, a, L, lf, <<>>, k, rest, g)
        BY <1>1, <1>3 DEF Unused
      <3>2. Place(q, a, T.at, <<>>, k, rest)
        BY <1>1, <1>4 DEF Place, EnterPC, ValuePC
      <3>3. Reached(tree, R, c) = {}
        BY <1>3, <1>4, <1>7, <1>10, AboveRefl, ReachedNothing
      <3>4. Owed(q, T.at, lf, <<>>, td) = (lf \cup rest) \cup {c}
            /\ Owed(q, T.at, lf, <<>>, rest) = lf \cup rest
        BY <1>1 DEF Owed, EnterPC, ValuePC
      <3> DEFINE P == lf \cup rest
      <3> HIDE DEF P
      <3>5. ReachedAll(tree, R, P \cup {c}) = ReachedAll(tree, R, P)
        <4>1. ReachedAll(tree, R, {c}) = {}
          BY <3>3, ReachedOne
        <4> QED
          BY <4>1, ReachedSums
      <3>6. Account(tree, q, a, R, T.at, L, lf, <<>>, rest, g)
        BY <1>3, <1>4, <3>4, <3>5 DEF Account, P
      <3> QED
        BY <1>3, <3>1, <3>2, <3>6 DEF HostOK
    <2> QED
      BY <1>2, <2>2, <2>3, <2>4, <2>5, OneHost
  <1> QED
    BY <1>9, <1>10

\* LeaveOne: the loops that are not done are at the parent or above it.
LEMMA LeaveOneStep ==
    ASSUME IndInv, NEW h \in Host, LeaveOne(h)
    PROVE  IndInv'
  <1> DEFINE q == pc[h]
             a == ask[h]
             R == under[h]
             T == tr[h]
             L == links[h]
             lf == left[h]
             k == step[h]
             td == todo[h]
             g == got[h]
             B == Back(T)
  <1>1. q \in ValuePC /\ q \in OpenPC /\ k > 0 /\ \A c \in td : Parent(c) # T.at
    BY DEF LeaveOne, Valuing, NextOf, ValuePC, OpenPC
  <1>2. /\ UNCHANGED Shared /\ pc' = pc /\ ask' = ask /\ under' = under /\ links' = links
        /\ left' = left /\ way' = way /\ todo' = todo /\ got' = got
        /\ tr' = [tr EXCEPT ![h] = B] /\ step' = [step EXCEPT ![h] = k - 1]
    BY DEF LeaveOne, Shared
  <1>3. /\ TreeOK(tree) /\ RequestTypes /\ td \subseteq Path
        /\ R \in Seq(Rule) /\ k \in Nat
        /\ TravellerOK(tree, R, T) /\ T.at \in Path /\ T.at \in Seq(Name)
        /\ Len(T.at) \in Nat
        /\ Unused(q, a, L, lf, way[h], k, td, g)
        /\ Place(q, a, T.at, way[h], k, td)
        /\ Account(tree, q, a, R, T.at, L, lf, way[h], td, g)
    BY <1>1, OpenFacts
  <1>4. /\ way[h] = <<>> /\ k <= Len(T.at)
        /\ q = "value" /\ a.path = Root => k = Len(T.at)
        /\ \A c \in td : c # Root /\ AtOrAbove(Parent(c), T.at) /\ Len(T.at) <= Len(Parent(c)) + k
    BY <1>1, <1>3 DEF Place, Unused, EnterPC, ValuePC
  <1>5. T.at # Root
    <2>1. Len(Root) = 0
      BY DEF Root
    <2> QED
      BY <1>1, <1>3, <1>4, <2>1
  <1>6. Len(Parent(T.at)) = Len(T.at) - 1 /\ k - 1 \in Nat
    BY <1>1, <1>3, <1>5, PathFacts
  <1>7. TravellerOK(tree, R, B) /\ B.at = Parent(T.at)
    BY <1>3, <1>5, BackFacts
  <1> HIDE DEF B
  <1>8. /\ pc'[h] = q /\ ask'[h] = a /\ under'[h] = R /\ tr'[h] = B
        /\ links'[h] = L /\ left'[h] = lf /\ way'[h] = <<>> /\ step'[h] = k - 1
        /\ todo'[h] = td /\ got'[h] = g
    BY <1>2, <1>3, <1>4 DEF RequestTypes
  <1>9. RequestTypes'
    <2> HIDE DEF k
    <2> QED
      BY <1>2, <1>3, <1>6 DEF RequestTypes
  <1>10. \A o \in Host \ {h} : Still(o)
    BY <1>2, <1>3 DEF RequestTypes, Still
  <1>11. HostOK(tree, q, a, R, B, L, lf, <<>>, k - 1, td, g)
    <2> HIDE DEF q, a, R, T, L, lf, k, td, g
    <2>1. Unused(q, a, L, lf, <<>>, k - 1, td, g)
      BY <1>1, <1>3 DEF Unused
    <2>2. Place(q, a, B.at, <<>>, k - 1, td)
      <3> DEFINE p == Parent(T.at)
      <3>1. ASSUME NEW c \in td
            PROVE  c # Root /\ AtOrAbove(Parent(c), p) /\ Len(p) <= Len(Parent(c)) + (k - 1)
        <4>1. c # Root /\ AtOrAbove(Parent(c), T.at) /\ Len(T.at) <= Len(Parent(c)) + k
              /\ c \in Path /\ Parent(c) # T.at
          BY <1>1, <1>3, <1>4
        <4>2. Parent(c) \in Path /\ Len(Parent(c)) \in Nat
          BY <4>1, ParentFacts, PathFacts
        <4>3. AtOrAbove(Parent(c), p)
          BY <1>3, <1>5, <4>1, <4>2, ParentFacts DEF Above
        <4> QED
          BY <1>3, <1>6, <4>1, <4>2, <4>3
      <3>2. k - 1 <= Len(p) /\ (q = "value" /\ a.path = Root => k - 1 = Len(p))
        BY <1>3, <1>4, <1>6
      <3> HIDE DEF p
      <3> QED
        BY <1>1, <1>7, <3>1, <3>2 DEF Place, EnterPC, ValuePC, p
    <2>3. Owed(q, B.at, lf, <<>>, td) = Owed(q, T.at, lf, <<>>, td)
      BY <1>1 DEF Owed, EnterPC, ValuePC
    <2>4. Account(tree, q, a, R, B.at, L, lf, <<>>, td, g)
      BY <1>3, <1>4, <2>3 DEF Account
    <2> QED
      BY <1>7, <2>1, <2>2, <2>4 DEF HostOK
  <1> QED
    BY <1>2, <1>8, <1>9, <1>10, <1>11, OneHost

\* EndValue: every loop is done, so nothing of the value is owed any more.
LEMMA EndValueStep ==
    ASSUME IndInv, NEW h \in Host, EndValue(h)
    PROVE  IndInv'
  <1> DEFINE q == pc[h]
             a == ask[h]
             R == under[h]
             T == tr[h]
             L == links[h]
             lf == left[h]
             g == got[h]
             b == IF q # "value" THEN "links" ELSE IF a.path = Root THEN "self" ELSE "close"
             E == IF q # "value" THEN AtRoot(NewAccessTree(R)) ELSE T
  <1>1. /\ q \in ValuePC /\ q \in OpenPC /\ step[h] = 0
        /\ \A c \in todo[h] : Parent(c) # T.at
    BY DEF EndValue, Valuing, NextOf, ValuePC, OpenPC
  <1>2. /\ TreeOK(tree) /\ RequestTypes /\ todo[h] \subseteq Path
        /\ R \in Seq(Rule)
        /\ TravellerOK(tree, R, T) /\ T.at \in Path /\ T.at \in Seq(Name)
        /\ Len(T.at) \in Nat
        /\ Unused(q, a, L, lf, way[h], 0, todo[h], g)
        /\ Place(q, a, T.at, way[h], 0, todo[h])
        /\ Account(tree, q, a, R, T.at, L, lf, way[h], todo[h], g)
    BY <1>1, OpenFacts
  <1>3. /\ UNCHANGED Shared /\ ask' = ask /\ under' = under /\ links' = links
        /\ left' = left /\ way' = way /\ step' = step /\ todo' = todo /\ got' = got
        /\ pc' = [pc EXCEPT ![h] = b]
        /\ DOMAIN tr' = Host /\ tr'[h] = E /\ \A o \in Host \ {h} : tr'[o] = tr[o]
    BY <1>2 DEF EndValue, Go, AccessOf, BackToRoot, Shared, RequestTypes
  <1>4. /\ way[h] = <<>>
        /\ q = "value" /\ a.path = Root => Len(T.at) = 0
        /\ \A c \in todo[h] : c # Root /\ AtOrAbove(Parent(c), T.at)
                                /\ Len(T.at) <= Len(Parent(c)) + 0
    BY <1>1, <1>2 DEF Place, Unused, EnterPC, ValuePC
  <1>5. todo[h] = {}
    <2> SUFFICES ASSUME NEW c \in todo[h] PROVE FALSE
      OBVIOUS
    <2>1. c \in Path /\ c # Root /\ AtOrAbove(Parent(c), T.at)
          /\ Len(T.at) <= Len(Parent(c)) + 0 /\ Parent(c) # T.at
      BY <1>1, <1>2, <1>4
    <2>2. Parent(c) \in Seq(Name) /\ Len(Parent(c)) \in Nat
      BY <2>1, PathFacts
    <2>3. Above(Parent(c), T.at)
      BY <2>1 DEF Above
    <2>4. Len(Parent(c)) < Len(T.at)
      BY <1>2, <2>2, <2>3, PrefixOrder
    <2> QED
      BY <1>2, <2>1, <2>2, <2>4
  <1>6. q = "value" /\ a.path = Root => T.at = Root
    BY <1>2, <1>4 DEF Root
  <1>7. TravellerOK(tree, R, E) /\ (q # "value" => E.at = Root) /\ (q = "value" => E = T)
    BY <1>2, AtRootFacts
  <1> HIDE DEF E
  <1>8. /\ pc'[h] = b /\ ask'[h] = a /\ under'[h] = R /\ tr'[h] = E
        /\ links'[h] = L /\ left'[h] = lf /\ way'[h] = <<>> /\ step'[h] = 0
        /\ todo'[h] = {} /\ got'[h] = g
    BY <1>1, <1>2, <1>3, <1>4, <1>5 DEF RequestTypes
  <1>9. RequestTypes'
    <2>1. b \in PC
      BY DEF PC
    <2> HIDE DEF b
    <2> QED
      BY <1>2, <1>3, <2>1 DEF RequestTypes
  <1>10. \A o \in Host \ {h} : Still(o)
    BY <1>2, <1>3 DEF RequestTypes, Still
  <1>11. HostOK(tree, b, a, R, E, L, lf, <<>>, 0, {}, g)
    <2> HIDE DEF q, a, R, T, L, lf, g
    <2>1. Unused(b, a, L, lf, <<>>, 0, {}, g)
      BY <1>1, <1>2 DEF Unused, EnterPC, ValuePC, OpenPC
    <2>2. Place(b, a, E.at, <<>>, 0, {})
      BY <1>6, <1>7 DEF Place, EnterPC, ValuePC
    <2>3. Owed(b, E.at, lf, <<>>, {}) = Owed(q, T.at, lf, <<>>, {})
      BY <1>1 DEF Owed, EnterPC, ValuePC
    <2>4. Account(tree, b, a, R, E.at, L, lf, <<>>, {}, g)
      BY <1>2, <1>4, <1>5, <2>3 DEF Account
    <2> QED
      BY <1>7, <2>1, <2>2, <2>4 DEF HostOK
  <1> QED
    BY <1>3, <1>8, <1>9, <1>10, <1>11, OneHost

\* ReadMapping: the links are due, and owed.
LEMMA ReadMappingStep ==
    ASSUME IndInv, NEW h \in Host, ReadMapping(h)
    PROVE  IndInv'
  <1> DEFINE a == ask[h]
             R == under[h]
             T == tr[h]
             g == got[h]
             M == IF mapping[h] = NoMapping THEN {} ELSE mapping[h]
  <1>1. pc[h] = "self" /\ pc[h] \in OpenPC
    BY DEF ReadMapping, OpenPC
  <1>2. /\ UNCHANGED Shared /\ ask' = ask /\ under' = under /\ tr' = tr
        /\ way' = way /\ step' = step /\ todo' = todo /\ got' = got
        /\ pc' = [pc EXCEPT ![h] = "links"]
        /\ links' = [links EXCEPT ![h] = M]
        /\ left' = [left EXCEPT ![h] = M]
    BY DEF ReadMapping, Go, Shared
  <1>3. /\ TreeOK(tree) /\ RequestTypes /\ R \in Seq(Rule)
        /\ TravellerOK(tree, R, T)
        /\ Unused("self", a, links[h], left[h], way[h], step[h], todo[h], g)
        /\ Place("self", a, T.at, way[h], step[h], todo[h])
        /\ Account(tree, "self", a, R, T.at, links[h], left[h], way[h], todo[h], g)
    BY <1>1, OpenFacts
  <1>4. M \subseteq Path
    BY ReadingAssumption DEF IndInv, SharedTypes
  <1>5. /\ links[h] = {} /\ left[h] = {} /\ way[h] = <<>> /\ step[h] = 0 /\ todo[h] = {}
        /\ T.at = Root
    BY <1>3 DEF Unused, Place, EnterPC, ValuePC
  <1> HIDE DEF M
  <1>6. /\ pc'[h] = "links" /\ ask'[h] = a /\ under'[h] = R /\ tr'[h] = T
        /\ links'[h] = M /\ left'[h] = M /\ way'[h] = <<>> /\ step'[h] = 0
        /\ todo'[h] = {} /\ got'[h] = g
    BY <1>2, <1>3, <1>5 DEF RequestTypes
  <1>7. RequestTypes'
    BY <1>2, <1>3, <1>4 DEF RequestTypes, PC
  <1>8. \A o \in Host \ {h} : Still(o)
    BY <1>2, <1>3 DEF RequestTypes, Still
  <1>9. HostOK(tree, "links", a, R, T, M, M, <<>>, 0, {}, g)
    <2> HIDE DEF a, R, T, g
    <2>1. Unused("links", a, M, M, <<>>, 0, {}, g)
      BY <1>3 DEF Unused, EnterPC, ValuePC, OpenPC
    <2>2. Place("links", a, T.at, <<>>, 0, {})
      BY <1>5 DEF Place, EnterPC, ValuePC
    <2> DEFINE D == IF a.self THEN {} ELSE {a.path}
    <2>3. /\ Owed("self", T.at, {}, <<>>, {}) = {} /\ Due(a, {}) = D
          /\ Owed("links", T.at, M, <<>>, {}) = M /\ Due(a, M) = D \cup M
      BY DEF Owed, Due, EnterPC
    <2> HIDE DEF D
    <2>4. g \cup ReachedAll(tree, R, {}) = ReachedAll(tree, R, D)
      BY <1>3, <1>5, <2>3 DEF Account
    <2>5. g = ReachedAll(tree, R, D)
      BY <2>4, ReachedOne
    <2>6. ReachedAll(tree, R, D \cup M) = ReachedAll(tree, R, D) \cup ReachedAll(tree, R, M)
      BY ReachedSums
    <2>7. Account(tree, "links", a, R, T.at, M, M, <<>>, {}, g)
      BY <2>3, <2>5, <2>6 DEF Account
    <2> QED
      BY <1>3, <2>1, <2>2, <2>7 DEF HostOK
  <1> QED
    BY <1>2, <1>6, <1>7, <1>8, <1>9, OneHost

\* ReadLink: Enter is on its way to the link, from the root.
LEMMA ReadLinkStep ==
    ASSUME IndInv, NEW h \in Host, NEW l \in Path, ReadLink(h, l)
    PROVE  IndInv'
  <1> DEFINE a == ask[h]
             R == under[h]
             T == tr[h]
             L == links[h]
             lf == left[h]
             g == got[h]
             rest == lf \ {l}
  <1>1. pc[h] = "links" /\ pc[h] \in OpenPC /\ l \in lf
    BY DEF ReadLink, OpenPC
  <1>2. /\ UNCHANGED Shared /\ ask' = ask /\ under' = under /\ tr' = tr
        /\ links' = links /\ step' = step /\ todo' = todo /\ got' = got
        /\ pc' = [pc EXCEPT ![h] = "enterLink"]
        /\ left' = [left EXCEPT ![h] = rest]
        /\ way' = [way EXCEPT ![h] = l]
    BY DEF ReadLink, Go, Shared
  <1>3. /\ TreeOK(tree) /\ RequestTypes /\ R \in Seq(Rule) /\ lf \subseteq Path
        /\ TravellerOK(tree, R, T)
        /\ Unused("links", a, L, lf, way[h], step[h], todo[h], g)
        /\ Place("links", a, T.at, way[h], step[h], todo[h])
        /\ Account(tree, "links", a, R, T.at, L, lf, way[h], todo[h], g)
    BY <1>1, OpenFacts
  <1>4. /\ way[h] = <<>> /\ step[h] = 0 /\ todo[h] = {} /\ T.at = Root
    BY <1>3 DEF Unused, Place, EnterPC, ValuePC
  <1>5. l \in Seq(Name) /\ T.at \o l = l /\ Len(T.at) = 0
    <2>1. l \in Seq(Name) /\ <<>> \in Seq(Name) /\ Len(Root) = 0
      BY PathFacts DEF Root
    <2>2. <<>> \o l = l
      BY <2>1, WayFacts
    <2> QED
      BY <1>4, <2>1, <2>2 DEF Root
  <1>6. /\ pc'[h] = "enterLink" /\ ask'[h] = a /\ under'[h] = R /\ tr'[h] = T
        /\ links'[h] = L /\ left'[h] = rest /\ way'[h] = l /\ step'[h] = 0
        /\ todo'[h] = {} /\ got'[h] = g
    BY <1>2, <1>3, <1>4 DEF RequestTypes
  <1>7. RequestTypes'
    <2>1. rest \subseteq Path
      BY <1>3
    <2> HIDE DEF rest
    <2> QED
      BY <1>2, <1>3, <1>5, <2>1 DEF RequestTypes, PC
  <1>8. \A o \in Host \ {h} : Still(o)
    BY <1>2, <1>3 DEF RequestTypes, Still
  <1>9. HostOK(tree, "enterLink", a, R, T, L, rest, l, 0, {}, g)
    <2> HIDE DEF a, R, T, L, lf, g
    <2>1. Unused("enterLink", a, L, rest, l, 0, {}, g)
      BY <1>3 DEF Unused, EnterPC, ValuePC, OpenPC
    <2>2. Place("enterLink", a, T.at, l, 0, {})
      BY <1>5 DEF Place, EnterPC, ValuePC
    <2>3. Owed("enterLink", T.at, rest, l, {}) = Owed("links", T.at, lf, <<>>, {})
      BY <1>1, <1>5 DEF Owed, EnterPC
    <2>4. Account(tree, "enterLink", a, R, T.at, L, rest, l, {}, g)
      BY <1>3, <1>4, <2>3 DEF Account
    <2> QED
      BY <1>3, <2>1, <2>2, <2>4 DEF HostOK
  <1> QED
    BY <1>2, <1>6, <1>7, <1>8, <1>9, OneHost

\* Close leaves nothing of the request.
LEMMA CloseStep ==
    ASSUME IndInv, NEW h \in Host, Close(h)
    PROVE  IndInv'
  <1>1. /\ pc[h] \in {"links", "close"} /\ (pc[h] = "links" => left[h] = {})
        /\ UNCHANGED Shared /\ left' = left /\ way' = way /\ step' = step /\ todo' = todo
        /\ pc' = [pc EXCEPT ![h] = "idle"]
        /\ ask' = [ask EXCEPT ![h] = NoAsk]
        /\ under' = [under EXCEPT ![h] = <<>>]
        /\ tr' = [tr EXCEPT ![h] = AtRoot(NewAccessTree(<<>>))]
        /\ links' = [links EXCEPT ![h] = {}]
        /\ got' = [got EXCEPT ![h] = {}]
    BY DEF Close, Finished, Go, Shared
  <1>2. RequestTypes /\ Unused(pc[h], ask[h], links[h], left[h], way[h], step[h], todo[h], got[h])
    BY <1>1, OpenFacts DEF OpenPC
  <1>3. left[h] = {} /\ way[h] = <<>> /\ step[h] = 0 /\ todo[h] = {}
    BY <1>1, <1>2 DEF Unused, EnterPC, ValuePC
  <1>4. NoAsk \in Ask /\ <<>> \in Seq(Rule) /\ NoAsk.self = FALSE
    BY PathAssumption DEF NoAsk, Ask, Root
  <1>5. RequestTypes'
    BY <1>1, <1>2, <1>4 DEF RequestTypes, PC
  <1>6. \A o \in Host \ {h} : Still(o)
    BY <1>1, <1>2 DEF RequestTypes, Still
  <1>7. /\ pc'[h] = "idle" /\ ask'[h] = NoAsk /\ links'[h] = {} /\ left'[h] = {}
        /\ way'[h] = <<>> /\ step'[h] = 0 /\ todo'[h] = {} /\ got'[h] = {}
    BY <1>1, <1>2, <1>3 DEF RequestTypes
  <1>8. HostOK(tree, pc'[h], ask'[h], under'[h], tr'[h], links'[h], left'[h],
               way'[h], step'[h], todo'[h], got'[h])
    BY <1>4, <1>7 DEF HostOK, Unused, EnterPC, ValuePC, OpenPC
  <1> QED
    BY <1>1, <1>5, <1>6, <1>8, OneHost

-----------------------------------------------------------------------------
(* The theorems.                                                           *)

\* The invariant holds in every state.
LEMMA Invariance == Spec => []IndInv
  <1>1. IndInv /\ [Next]_vars => IndInv'
    <2> SUFFICES ASSUME IndInv, [Next]_vars PROVE IndInv'
      OBVIOUS
    <2>1. CASE UNCHANGED vars
      <3>1. /\ tree' = tree /\ rules' = rules /\ mapping' = mapping /\ changes' = changes
            /\ pc' = pc /\ ask' = ask /\ under' = under /\ tr' = tr /\ links' = links
            /\ left' = left /\ way' = way /\ step' = step /\ todo' = todo /\ got' = got
        BY <2>1 DEF vars, request
      <3> QED
        BY <3>1 DEF IndInv, SharedTypes, RequestTypes, RequestOK
    <2>2. CASE Next
      BY <2>2, ChangeSteps, RulesSteps, OpenStep, EnterNextStep, StartValueStep,
         EnterOneStep, LeaveOneStep, EndValueStep, ReadMappingStep, ReadLinkStep,
         CloseStep, Zenon DEF Next
    <2> QED
      BY <2>1, <2>2
  <1> QED
    BY <1>1, IndInit, PTL DEF Spec

\* Types, and a stack that is as deep as the node the traveller is at: Back never
\* pops an empty stack.
THEOREM TypeCorrect == Spec => []TypeOK
  <1>1. IndInv => TypeOK
    <2> SUFFICES ASSUME IndInv PROVE TypeOK
      OBVIOUS
    <2>1. ASSUME NEW h \in Host, Open(h)
          PROVE  tr[h] \in Traveller(AccessOf(h)) /\ Len(tr[h].stack) = Len(tr[h].at)
      <3>1. pc[h] \in OpenPC
        BY <2>1 DEF Open, OpenPC
      <3>2. TravellerOK(tree, under[h], tr[h])
        BY <3>1, OpenFacts
      <3> QED
        BY <3>2 DEF TravellerOK, InStepAll, AccessOf
    <2>2. ASSUME NEW h \in Host
          PROVE  /\ left[h] \subseteq links[h] /\ links[h] \subseteq Path
                 /\ todo[h] \subseteq Path /\ got[h] \subseteq Path \X Value
      BY DEF IndInv, RequestTypes, RequestOK, HostOK, Unused
    <2> QED
      BY <2>1, <2>2 DEF TypeOK, IndInv, TreeOK, SharedTypes, RequestTypes, PC
  <1> QED
    BY <1>1, Invariance, PTL

\* The traveller's node and mode in the access tree are those that the rules give
\* the place it is at, however it came there (enter, Back, BackStep).
THEOREM TravellerFollowsRules == Spec => []TravellerInStep
  <1>1. IndInv => TravellerInStep
    <2> SUFFICES ASSUME IndInv, NEW h \in Host, Open(h)
                 PROVE  /\ tr[h].mode = ModeAt(under[h], tr[h].at)
                        /\ Governing(under[h], tr[h].at) = {tr[h].an} \ {NoNode}
      BY DEF TravellerInStep
    <2>1. TravellerOK(tree, under[h], tr[h])
      BY OpenFacts DEF Open, OpenPC
    <2> QED
      BY <2>1 DEF TravellerOK, InStepAll, InStep
  <1> QED
    BY <1>1, Invariance, PTL

\* Every link of a mapping is read from the root (getMappingData).
THEOREM LinksAreReadFromRoot == Spec => []LinksFromRoot
  <1>1. IndInv => LinksFromRoot
    <2> SUFFICES ASSUME IndInv, NEW h \in Host, pc[h] \in {"self", "links"}
                 PROVE  tr[h].at = Root
      BY DEF LinksFromRoot
    <2>1. Place(pc[h], ask[h], tr[h].at, way[h], step[h], todo[h])
      BY OpenFacts DEF OpenPC
    <2> QED
      BY <2>1 DEF Place
  <1> QED
    BY <1>1, Invariance, PTL

\* A reply is exactly what the rules, and the two departures of enter, let the
\* host read of one state of the data, for every list of rules, data and mapping
\* (MetadataRepo.Root and Self).
THEOREM RepliesFollowRules == Spec => []ServesByRules
  <1>1. IndInv => ServesByRules
    <2> SUFFICES ASSUME IndInv, NEW h \in Host, Finished(h)
                 PROVE  got[h] = UNION {Served(tree, under[h], p) : p \in Due(ask[h], links[h])}
      BY DEF ServesByRules, Due
    <2>1. /\ pc[h] \in OpenPC /\ pc[h] \in {"links", "close"}
          /\ pc[h] = "links" => left[h] = {}
      BY DEF Finished, OpenPC
    <2>2. /\ Unused(pc[h], ask[h], links[h], left[h], way[h], step[h], todo[h], got[h])
          /\ Account(tree, pc[h], ask[h], under[h], tr[h].at, links[h], left[h],
                     way[h], todo[h], got[h])
      BY <2>1, OpenFacts
    <2>3. Owed(pc[h], tr[h].at, left[h], way[h], todo[h]) = {}
      BY <2>1, <2>2 DEF Unused, Owed, EnterPC, ValuePC
    <2>4. ReachedAll(tree, under[h], {}) = {}
      BY ReachedOne
    <2>5. got[h] = ReachedAll(tree, under[h], Due(ask[h], links[h]))
      BY <2>2, <2>3, <2>4 DEF Account
    <2>6. TreeOK(tree) /\ under[h] \in Seq(Rule)
      BY DEF IndInv, RequestTypes
    <2>7. \A p : Reached(tree, under[h], p) = Served(tree, under[h], p)
      BY <2>6, ReachedServed
    <2> QED
      BY <2>5, <2>7 DEF ReachedAll
  <1> QED
    BY <1>1, Invariance, PTL

=============================================================================
