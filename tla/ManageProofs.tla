---------------------------- MODULE ManageProofs ----------------------------
(***************************************************************************)
(* Theorems on the management API: stores that followed etcd show what     *)
(* stores filled from etcd would, requests for data leave mappings and     *)
(* rules alone, deletes and replaces are exact, and mappings are links.    *)
(***************************************************************************)
EXTENDS Manage, FiniteSetTheorems, FunctionTheorems, TLAPS

-----------------------------------------------------------------------------
(* Keys.                                                                   *)

\* Concatenation, component by component.
LEMMA CatFacts ==
    ASSUME NEW S, NEW r \in Seq(S), NEW s \in Seq(S)
    PROVE  /\ r \o s \in Seq(S)
           /\ Len(r \o s) = Len(r) + Len(s)
           /\ Len(r) \in Nat /\ Len(s) \in Nat
           /\ \A i \in 1..Len(r) : (r \o s)[i] = r[i]
           /\ \A i \in 1..Len(s) : (r \o s)[Len(r) + i] = s[i]
  OBVIOUS

\* A key with one more component.
LEMMA AppendFacts ==
    ASSUME NEW S, NEW s \in Seq(S), NEW x \in S
    PROVE  /\ Append(s, x) \in Seq(S)
           /\ Len(Append(s, x)) = Len(s) + 1 /\ Len(s) \in Nat
           /\ \A i \in 1..Len(s) : Append(s, x)[i] = s[i]
           /\ Append(s, x)[Len(s) + 1] = x
  OBVIOUS

\* Sequences with the same components are equal.
LEMMA SeqEqual ==
    ASSUME NEW S, NEW r \in Seq(S), NEW s \in Seq(S), Len(r) = Len(s),
           \A i \in 1..Len(r) : r[i] = s[i]
    PROVE  r = s
  OBVIOUS

\* A key with one component.
LEMMA SingleKeys ==
    ASSUME NEW S, NEW k \in Seq(S), k # <<>>
    PROVE  /\ Len(k) > 1 => \A n : k # <<n>>
           /\ k # <<k[1]>> => Len(k) > 1
  <1>1. PICK x \in Nat : x = Len(k)
    OBVIOUS
  <1>2. \A n : Len(<<n>>) = 1
    OBVIOUS
  <1>3. Len(k) > 1 => x # 1
    BY <1>1
  <1>4. x = 1 => k = <<k[1]>>
    <2>1. Len(k) = 1 => k = <<k[1]>>
      OBVIOUS
    <2> QED
      BY <1>1, <2>1, Zenon
  <1>5. x # 0
    BY <1>1
  <1>6. x # 1 => x > 1
    BY <1>5
  <1>7. Len(k) > 1 => \A n : k # <<n>>
    BY <1>1, <1>2, <1>3, Zenon
  <1>8. k # <<k[1]>> => x > 1
    BY <1>4, <1>6, Zenon
  <1> QED
    BY <1>1, <1>7, <1>8

\* A key is at or above itself, and the root above all others.
LEMMA AboveFacts ==
    ASSUME NEW S, NEW s \in Seq(S)
    PROVE  /\ AtOrAbove(s, s)
           /\ AtOrAbove(Root, s)
           /\ s # Root => Above(Root, s) /\ 1 \in 1..Len(s) /\ s[1] \in S
           /\ Len(s) \in Nat /\ (s = Root <=> Len(s) = 0)
  <1>1. Len(s) \in Nat /\ (s = Root <=> Len(s) = 0) /\ Len(Root) = 0
    BY DEF Root
  <1>2. s # Root => 1 \in 1..Len(s) /\ s[1] \in S
    BY <1>1
  <1> QED
    BY <1>1, <1>2 DEF AtOrAbove, Above

\* The roots of the mappings and of the rules.
LEMMA RootFacts ==
    /\ MappingRoot \in Seq(Name) /\ Len(MappingRoot) = 2
    /\ MappingRoot[1] = Metad /\ MappingRoot[2] = MappingDir
    /\ RuleRoot \in Seq(Name) /\ Len(RuleRoot) = 2
    /\ RuleRoot[1] = Metad /\ RuleRoot[2] = RuleDir
    /\ MappingDir # RuleDir
  BY ManageAssumption DEF MappingRoot, RuleRoot

\* Config keys are below /_metad, in one of two directories.
LEMMA ConfigFacts ==
    ASSUME NEW k \in Seq(Name)
    PROVE  /\ IsMappingKey(k) <=> Len(k) >= 2 /\ k[1] = Metad /\ k[2] = MappingDir
           /\ IsRuleKey(k) <=> Len(k) >= 2 /\ k[1] = Metad /\ k[2] = RuleDir
           /\ IsConfigKey(k) => k # Root /\ k[1] = Metad /\ Len(k) >= 2
           /\ ~(IsMappingKey(k) /\ IsRuleKey(k))
  <1>1. Len(k) \in Nat /\ (k = Root <=> Len(k) = 0)
    BY AboveFacts
  <1>2. 1..2 = {1, 2}
    OBVIOUS
  <1>3. IsMappingKey(k) <=> Len(k) >= 2 /\ k[1] = Metad /\ k[2] = MappingDir
    BY <1>1, <1>2, RootFacts DEF IsMappingKey, AtOrAbove
  <1>4. IsRuleKey(k) <=> Len(k) >= 2 /\ k[1] = Metad /\ k[2] = RuleDir
    BY <1>1, <1>2, RootFacts DEF IsRuleKey, AtOrAbove
  <1> QED
    BY <1>1, <1>3, <1>4, RootFacts DEF IsConfigKey

\* The components of the key of a mapping.
LEMMA MappingKeyShape ==
    ASSUME NEW p \in Seq(Name)
    PROVE  /\ MappingRoot \o p \in Seq(Name)
           /\ Len(MappingRoot \o p) = 2 + Len(p) /\ Len(p) \in Nat
           /\ (MappingRoot \o p)[1] = Metad /\ (MappingRoot \o p)[2] = MappingDir
           /\ \A i \in 1..Len(p) : (MappingRoot \o p)[2 + i] = p[i]
  <1> DEFINE k == MappingRoot \o p
  <1>1. MappingRoot \in Seq(Name) /\ Len(MappingRoot) = 2
    BY RootFacts
  <1>2. /\ k \in Seq(Name) /\ Len(k) = Len(MappingRoot) + Len(p) /\ Len(p) \in Nat
        /\ \A i \in 1..Len(MappingRoot) : k[i] = MappingRoot[i]
        /\ \A i \in 1..Len(p) : k[Len(MappingRoot) + i] = p[i]
    BY <1>1, CatFacts
  <1> HIDE DEF k
  <1>3. k[1] = Metad /\ k[2] = MappingDir
    BY <1>1, <1>2, RootFacts
  <1>4. Len(k) = 2 + Len(p) /\ \A i \in 1..Len(p) : k[2 + i] = p[i]
    BY <1>1, <1>2
  <1> QED
    BY <1>2, <1>3, <1>4 DEF k

\* The key of a mapping, and the path it is trimmed to.
LEMMA MappingKeyFacts ==
    ASSUME NEW p \in Seq(Name)
    PROVE  /\ MappingRoot \o p \in Seq(Name)
           /\ IsMappingKey(MappingRoot \o p)
           /\ MappingRoot \o p # Root /\ (MappingRoot \o p)[1] = Metad
           /\ Trimmed(MappingRoot \o p) = p
           /\ \A q \in Seq(Name) :
                 /\ AtOrAbove(q, p) => AtOrAbove(MappingRoot \o q, MappingRoot \o p)
                 /\ MappingRoot \o q = MappingRoot \o p => q = p
  <1> DEFINE k == MappingRoot \o p
  <1>1. /\ k \in Seq(Name) /\ Len(k) = 2 + Len(p) /\ Len(p) \in Nat
        /\ k[1] = Metad /\ k[2] = MappingDir
        /\ \A i \in 1..Len(p) : k[2 + i] = p[i]
    BY MappingKeyShape
  <1> HIDE DEF k
  <1>2. IsMappingKey(k) /\ k # Root
    BY <1>1, ConfigFacts DEF IsConfigKey
  <1>3. Trimmed(k) = p
    <2> DEFINE t == SubSeq(k, 3, Len(k))
    <2>1. t \in Seq(Name) /\ Len(t) = Len(p) /\ \A i \in 1..Len(p) : t[i] = k[2 + i]
      BY <1>1
    <2> HIDE DEF t
    <2>2. t = p
      BY <1>1, <2>1, SeqEqual
    <2> QED
      BY <2>2 DEF Trimmed, t
  <1>4. ASSUME NEW q \in Seq(Name), AtOrAbove(q, p) PROVE AtOrAbove(MappingRoot \o q, k)
    <2> DEFINE l == MappingRoot \o q
    <2>1. /\ Len(l) = 2 + Len(q) /\ Len(q) \in Nat /\ l[1] = Metad /\ l[2] = MappingDir
          /\ \A i \in 1..Len(q) : l[2 + i] = q[i]
      BY MappingKeyShape
    <2> HIDE DEF l
    <2>2. Len(q) <= Len(p) /\ \A i \in 1..Len(q) : q[i] = p[i]
      BY <1>4 DEF AtOrAbove
    <2>3. ASSUME NEW i \in 1..Len(l) PROVE l[i] = k[i]
      <3>1. CASE i = 1 \/ i = 2
        BY <1>1, <2>1, <3>1
      <3>2. CASE i > 2
        <4>1. i - 2 \in 1..Len(q) /\ i - 2 \in 1..Len(p) /\ 2 + (i - 2) = i
          BY <1>1, <2>1, <2>2, <3>2
        <4> QED
          BY <1>1, <2>1, <2>2, <4>1
      <3> QED
        BY <2>1, <3>1, <3>2
    <2> QED
      BY <1>1, <2>1, <2>2, <2>3 DEF AtOrAbove, l
  <1>5. ASSUME NEW q \in Seq(Name), MappingRoot \o q = k PROVE q = p
    <2> DEFINE l == MappingRoot \o q
    <2>1. /\ Len(l) = 2 + Len(q) /\ Len(q) \in Nat
          /\ \A i \in 1..Len(q) : l[2 + i] = q[i]
      BY MappingKeyShape
    <2>2. l = k
      BY <1>5
    <2> HIDE DEF l
    <2>3. Len(q) = Len(p) /\ \A i \in 1..Len(q) : q[i] = p[i]
      BY <1>1, <2>1, <2>2
    <2> QED
      BY <2>3, SeqEqual
  <1> QED
    BY <1>1, <1>2, <1>3, <1>4, <1>5 DEF k

\* The key of a host's rules.
LEMMA RuleKeyFacts ==
    ASSUME NEW h \in Ip
    PROVE  /\ Append(RuleRoot, h) \in Seq(Name) /\ Append(RuleRoot, h) # Root
           /\ Append(RuleRoot, h)[1] = Metad
           /\ IsRuleKey(Append(RuleRoot, h)) /\ ~IsMappingKey(Append(RuleRoot, h))
           /\ Append(RuleRoot, h)[Len(Append(RuleRoot, h))] = h
  <1> DEFINE k == Append(RuleRoot, h)
  <1>1. h \in Name
    BY ManageAssumption
  <1>2. k \in Seq(Name) /\ Len(k) = 3 /\ k[1] = Metad /\ k[2] = RuleDir /\ k[3] = h
    <2>1. 1 \in 1..Len(RuleRoot) /\ 2 \in 1..Len(RuleRoot) /\ Len(RuleRoot) + 1 = 3
      BY RootFacts
    <2>2. /\ k \in Seq(Name) /\ Len(k) = Len(RuleRoot) + 1
          /\ \A i \in 1..Len(RuleRoot) : k[i] = RuleRoot[i]
          /\ k[Len(RuleRoot) + 1] = h
      <3>1. RuleRoot \in Seq(Name)
        BY RootFacts
      <3> QED
        BY <1>1, <3>1, AppendFacts
    <2> HIDE DEF k
    <2> QED
      BY <2>1, <2>2, RootFacts
  <1> HIDE DEF k
  <1>3. IsRuleKey(k) /\ ~IsMappingKey(k) /\ k # Root
    BY <1>2, ConfigFacts DEF IsConfigKey
  <1> QED
    BY <1>2, <1>3 DEF k

-----------------------------------------------------------------------------
(* What requests write.                                                    *)

\* The components that Clean keeps, and those of them up to i.
Kept(s) == {i \in DOMAIN s : s[i] \in Name /\ \A j \in i..Len(s) : Down(s, i, j) > Up(s, i, j)}
UpTo(s, i) == {j \in Kept(s) : j <= i}

\* A cleaned key consists of names: each kept component at its rank.
LEMMA CleanFacts ==
    ASSUME NEW s \in Seq(Key)
    PROVE  /\ Clean(s) \in Seq(Name)
           /\ Len(Clean(s)) = Cardinality(Kept(s))
           /\ \A i \in Kept(s) : /\ Cardinality(UpTo(s, i)) \in 1..Len(Clean(s))
                                 /\ Clean(s)[Cardinality(UpTo(s, i))] = s[i]
  <1> DEFINE kept == Kept(s)
             c == Cardinality(kept)
             upto(i) == UpTo(s, i)
             rank == [i \in kept |-> Cardinality(upto(i))]
             nth(n) == CHOOSE i \in kept : Cardinality(upto(i)) = n
  <1>0. \A i : upto(i) = {j \in kept : j <= i}
    BY DEF UpTo
  <1>1. /\ kept \subseteq 1..Len(s) /\ Len(s) \in Nat
        /\ \A i \in kept : s[i] \in Name /\ i \in Nat /\ i >= 1
    BY DEF Kept
  <1>2. Clean(s) = [n \in 1..c |-> s[nth(n)]]
    BY Zenon DEF Clean, Kept, UpTo
  <1> HIDE DEF kept, upto
  <1>3. IsFiniteSet(kept) /\ c \in Nat
    <2>1. IsFiniteSet(1..Len(s))
      BY <1>1, FS_Interval
    <2> QED
      BY <1>1, <2>1, FS_Subset, FS_CardinalityType
  <1> HIDE DEF c
  <1>4. ASSUME NEW i \in kept PROVE IsFiniteSet(upto(i)) /\ i \in upto(i) /\ Cardinality(upto(i)) \in 1..c
    <2>1. upto(i) \in SUBSET kept /\ i \in upto(i)
      BY <1>0, <1>1
    <2>2. IsFiniteSet(upto(i)) /\ Cardinality(upto(i)) <= c /\ Cardinality(upto(i)) \in Nat
      BY <1>3, <2>1, FS_Subset, FS_CardinalityType DEF c
    <2>3. Cardinality(upto(i)) # 0
      BY <2>1, <2>2, FS_EmptySet
    <2> QED
      BY <1>3, <2>1, <2>2, <2>3
  <1>5. ASSUME NEW i \in kept, NEW j \in kept, i < j
        PROVE  Cardinality(upto(i)) # Cardinality(upto(j))
    <2>1. upto(i) \in SUBSET upto(j) /\ j \notin upto(i) /\ j \in upto(j)
      <3>1. \A o \in kept : o \in Nat
        BY <1>1
      <3>2. \A o \in kept : o <= i => o <= j
        BY <1>5, <3>1
      <3>3. ~(j <= i) /\ j <= j
        BY <1>5, <3>1
      <3> QED
        BY <1>0, <3>2, <3>3
    <2>2. IsFiniteSet(upto(j))
      BY <1>4
    <2> QED
      BY <2>1, <2>2, FS_Subset
  <1>6. ASSUME NEW i \in kept, NEW j \in kept, Cardinality(upto(i)) = Cardinality(upto(j))
        PROVE  i = j
    <2>1. i \in Nat /\ j \in Nat
      BY <1>1
    <2> QED
      BY <1>5, <1>6, <2>1
  <1>7. ASSUME NEW n \in 1..c PROVE \E i \in kept : Cardinality(upto(i)) = n
    <2>1. rank \in [kept -> 1..c] /\ \A i, j \in kept : rank[i] = rank[j] => i = j
      BY <1>4, <1>6
    <2>2. IsFiniteSet(1..c) /\ Cardinality(1..c) = c
      BY <1>3, FS_Interval
    <2> HIDE DEF rank
    <2>3. rank \in Injection(kept, 1..c)
      BY <2>1, Fun_IsInj
    <2>4. rank \in Surjection(kept, 1..c)
      BY <2>2, <2>3, FS_Injection DEF c
    <2>5. PICK i \in kept : rank[i] = n
      <3>1. \A t \in 1..c : \E i \in kept : rank[i] = t
        BY ONLY <2>4, Fun_SurjectionProperties, Zenon
      <3> QED
        BY <3>1
    <2> QED
      BY <2>5 DEF rank
  <1>8. ASSUME NEW n \in 1..c PROVE nth(n) \in kept /\ Cardinality(upto(nth(n))) = n
    BY <1>7
  <1> HIDE DEF nth
  <1>9. Clean(s) \in Seq(Name) /\ Len(Clean(s)) = c
    <2>1. \A n \in 1..c : s[nth(n)] \in Name
      BY <1>1, <1>8
    <2> QED
      BY <1>2, <1>3, <2>1
  <1>10. ASSUME NEW i \in kept PROVE Clean(s)[Cardinality(upto(i))] = s[i]
    <2>1. PICK n \in 1..c : n = Cardinality(upto(i))
      BY <1>4
    <2>2. nth(n) = i
      BY <1>6, <1>8, <2>1
    <2>3. Clean(s)[n] = s[nth(n)]
      BY <1>2
    <2> QED
      BY <2>1, <2>2, <2>3
  <1>11. \A i \in kept : Cardinality(upto(i)) \in 1..Len(Clean(s))
    BY <1>4, <1>9
  <1> QED
    BY <1>9, <1>10, <1>11 DEF kept, upto, c

\* Where no ".." is, the names that a key begins with stay where they are, and a key
\* of names is clean.
LEMMA CleanKeeps ==
    ASSUME NEW s \in Seq(Key), NEW n \in 0..Len(s), \A i \in 1..n : s[i] \in Name,
           \A i \in 1..Len(s) : s[i] # DotDot
    PROVE  /\ Len(Clean(s)) \in Nat /\ Len(Clean(s)) >= n
           /\ \A i \in 1..n : Clean(s)[i] = s[i]
           /\ n = Len(s) => Clean(s) = s
  <1>1. Len(s) \in Nat /\ DOMAIN s = 1..Len(s)
    OBVIOUS
  <1>2. ASSUME NEW i \in 1..Len(s), s[i] \in Name PROVE i \in Kept(s)
    <2>1. ASSUME NEW j \in i..Len(s) PROVE Down(s, i, j) > Up(s, i, j)
      <3> DEFINE d == {m \in i..j : s[m] \in Name}
                 u == {m \in i..j : s[m] = DotDot}
      <3>1. u = {}
        BY <1>1
      <3>2. i \in d /\ d \in SUBSET (i..j)
        BY <1>2
      <3> HIDE DEF d, u
      <3>3. IsFiniteSet(i..j)
        BY FS_Interval
      <3>4. IsFiniteSet(d)
        BY <3>2, <3>3, FS_Subset
      <3>5. Cardinality(d) \in Nat /\ Cardinality(d) # 0 /\ Cardinality(u) = 0
        BY <3>1, <3>2, <3>4, FS_EmptySet, FS_CardinalityType
      <3>6. Down(s, i, j) = Cardinality(d) /\ Up(s, i, j) = Cardinality(u)
        BY DEF Down, Up, d, u
      <3> QED
        BY <3>5, <3>6
    <2> QED
      BY <1>1, <1>2, <2>1 DEF Kept
  <1>3. Kept(s) \subseteq 1..Len(s)
    BY DEF Kept
  <1>4. ASSUME NEW i \in 1..n PROVE i \in 1..Len(Clean(s)) /\ Clean(s)[i] = s[i]
    <2>1. i \in Kept(s)
      BY <1>1, <1>2
    <2>2. UpTo(s, i) = 1..i
      <3>1. \A j \in 1..i : j \in 1..n /\ j \in 1..Len(s) /\ j <= i
        BY <1>1
      <3>2. \A j \in 1..Len(s) : j <= i => j \in 1..i
        BY <1>1
      <3> QED
        BY <1>2, <1>3, <3>1, <3>2 DEF UpTo
    <2>3. Cardinality(UpTo(s, i)) = i
      <3>1. Cardinality(1..i) = i
        BY FS_Interval
      <3> QED
        BY <2>2, <3>1
    <2> QED
      BY <2>1, <2>3, CleanFacts
  <1>5. Clean(s) \in Seq(Name) /\ Len(Clean(s)) \in Nat
    BY CleanFacts
  <1>6. Len(Clean(s)) >= n
    <2>1. CASE n = 0
      BY <1>5, <2>1
    <2>2. CASE n # 0
      BY <1>4, <1>5, <2>2
    <2> QED
      BY <2>1, <2>2
  <1>7. ASSUME n = Len(s) PROVE Clean(s) = s
    <2>1. Kept(s) = 1..Len(s)
      BY <1>1, <1>2, <1>3, <1>7
    <2>2. Cardinality(1..Len(s)) = Len(s)
      <3>1. PICK m \in Nat : m = Len(s)
        BY <1>1
      <3>2. Cardinality(1..m) = m
        BY FS_Interval
      <3> QED
        BY <3>1, <3>2
    <2>3. Len(Clean(s)) = Len(s)
      BY <2>1, <2>2, CleanFacts
    <2>4. s \in Seq(Name)
      BY <1>1, <1>7
    <2>5. \A i \in 1..Len(s) : Clean(s)[i] = s[i]
      BY <1>4, <1>7
    <2> QED
      BY <1>5, <2>3, <2>4, <2>5, SeqEqual
  <1> QED
    BY <1>4, <1>5, <1>6, <1>7

\* Sequences of names are sequences of keys.
LEMMA KeySeqs == Name \subseteq Key /\ Seq(Name) \subseteq Seq(Key)
  BY DEF Key

\* The values of requests.
Json(b) == IsJson(b, Key, Value \cup {Nil})

\* The places of the texts that Flatten finds.
Entries(b) == {r \in Leaves(b) : r # <<>> /\ r[1] # EmptyKey}

\* The place of a text is in an object or a list at each of the places above it.
LEMMA EntryFacts ==
    ASSUME NEW b, Json(b), NEW q \in Entries(b)
    PROVE  /\ q \in DOMAIN b /\ q \in Seq(Key) /\ q # <<>>
           /\ Len(q) \in Nat \ {0}
           /\ b[q].kind \in {"text", "null"}
           /\ <<q[1]>> \in DOMAIN b
           /\ Len(q) > 1 => Above(<<q[1]>>, q)
           /\ Len(q) = 1 => q = <<q[1]>>
  <1>1. /\ q \in DOMAIN b /\ q \in Seq(Key) /\ q # <<>>
        /\ b[q].kind \in {"text", "null"}
        /\ \A n \in 0..Len(q) : SubSeq(q, 1, n) \in DOMAIN b
    BY DEF Json, IsJson, Entries, Leaves
  <1>2. Len(q) \in Nat \ {0}
    BY <1>1
  <1> DEFINE t == SubSeq(q, 1, 1)
  <1>3. t = <<q[1]>> /\ t \in DOMAIN b
    <2>1. t \in DOMAIN b
      BY <1>1, <1>2
    <2>2. t \in Seq(Key) /\ Len(t) = 1 /\ t[1] = q[1]
      BY <1>1, <1>2
    <2> HIDE DEF t
    <2> QED
      BY <2>1, <2>2
  <1>4. Len(<<q[1]>>) = 1 /\ <<q[1]>>[1] = q[1]
    OBVIOUS
  <1>5. Len(q) > 1 => Above(<<q[1]>>, q)
    BY <1>2, <1>4 DEF Above, AtOrAbove
  <1>6. Len(q) = 1 => q = <<q[1]>>
    BY <1>1, <1>2
  <1> QED
    BY <1>1, <1>2, <1>3, <1>5, <1>6

\* The key of a place.
KeyAt(base, q) == Clean(base \o q)

\* It consists of names.
LEMMA AtFacts ==
    ASSUME NEW base \in Seq(Name), NEW q \in Seq(Key)
    PROVE  base \o q \in Seq(Key) /\ KeyAt(base, q) \in Seq(Name)
  <1>1. base \o q \in Seq(Key)
    <2>1. base \in Seq(Key)
      BY KeySeqs
    <2> QED
      BY <2>1, CatFacts
  <1> QED
    BY <1>1, CleanFacts DEF KeyAt

\* The texts of an object with their keys, place by place.
EntryKeys(base, b) == {<<KeyAt(base, q), b[q].text>> : q \in Entries(b)}

\* They are what Flatten finds.
LEMMA FlatPairs ==
    ASSUME NEW b, NEW base
    PROVE  Puts(base, b) = EntryKeys(base, b)
  <1> DEFINE P == {<<KeyAt(base, e[1]), e[2]>> : e \in Flatten(b)}
  <1>1. Flatten(b) = {<<q, b[q].text>> : q \in Entries(b)}
    BY Zenon DEF Flatten, Entries
  <1>2. ASSUME NEW e \in Flatten(b)
        PROVE  \E q \in Entries(b) : <<KeyAt(base, e[1]), e[2]>> = <<KeyAt(base, q), b[q].text>>
    <2>1. PICK q \in Entries(b) : e = <<q, b[q].text>>
      BY <1>1
    <2>2. e[1] = q /\ e[2] = b[q].text
      BY <2>1
    <2> QED
      BY <2>2
  <1>3. ASSUME NEW q \in Entries(b) PROVE <<KeyAt(base, q), b[q].text>> \in P
    <2> DEFINE e == <<q, b[q].text>>
    <2>1. e \in Flatten(b) /\ e[1] = q /\ e[2] = b[q].text
      BY <1>1
    <2> HIDE DEF e
    <2> QED
      BY <2>1
  <1>4. P = EntryKeys(base, b)
    BY <1>2, <1>3 DEF EntryKeys
  <1>5. Puts(base, b) = P
    BY Zenon DEF Puts, KeyAt
  <1> QED
    BY <1>4, <1>5, Zenon

\* The keys and texts that an object puts.
LEMMA FlatPutsFacts ==
    ASSUME NEW b, NEW base
    PROVE  /\ \A k \in DOMAIN FlatPuts(base, b) :
                 \E q \in Entries(b) : k = KeyAt(base, q) /\ FlatPuts(base, b)[k] = b[q].text
           /\ \A q \in Entries(b) : KeyAt(base, q) \in DOMAIN FlatPuts(base, b)
           /\ ~Clash(base, b) => \A q \in Entries(b) :
                                    FlatPuts(base, b)[KeyAt(base, q)] = b[q].text
  <1> DEFINE P == Puts(base, b)
             F == FlatPuts(base, b)
  <1>1. F = [p \in {e[1] : e \in P} |-> (CHOOSE e \in P : e[1] = p)[2]]
    BY Zenon DEF FlatPuts, AsMap
  <1>2. P = {<<KeyAt(base, q), b[q].text>> : q \in Entries(b)}
    BY FlatPairs, Zenon DEF EntryKeys
  <1> HIDE DEF P
  <1>3. ASSUME NEW k \in DOMAIN F
        PROVE  \E q \in Entries(b) : k = KeyAt(base, q) /\ F[k] = b[q].text
    <2> DEFINE e == CHOOSE x \in P : x[1] = k
    <2>1. \E x \in P : x[1] = k
      BY <1>1, <1>3
    <2>2. e \in P /\ e[1] = k
      BY <2>1
    <2>3. F[k] = e[2]
      BY <1>1, <1>3
    <2> HIDE DEF e
    <2>4. PICK q \in Entries(b) : e = <<KeyAt(base, q), b[q].text>>
      BY <1>2, <2>2
    <2> QED
      BY <2>2, <2>3, <2>4
  <1>4. ASSUME NEW q \in Entries(b) PROVE KeyAt(base, q) \in DOMAIN F
    <2> DEFINE x == <<KeyAt(base, q), b[q].text>>
    <2>1. x \in P /\ x[1] = KeyAt(base, q)
      BY <1>2
    <2>2. DOMAIN F = {e[1] : e \in P}
      BY <1>1
    <2> HIDE DEF x, F
    <2> QED
      BY <2>1, <2>2
  <1>5. ASSUME ~Clash(base, b), NEW q \in Entries(b) PROVE F[KeyAt(base, q)] = b[q].text
    <2>1. PICK r \in Entries(b) : KeyAt(base, q) = KeyAt(base, r) /\ F[KeyAt(base, q)] = b[r].text
      BY <1>3, <1>4
    <2> DEFINE e == <<q, b[q].text>>
               g == <<r, b[r].text>>
    <2>2. e \in Flatten(b) /\ g \in Flatten(b)
      BY DEF Flatten, Entries
    <2>3. e[1] = q /\ g[1] = r /\ e[2] = b[q].text /\ g[2] = b[r].text
      OBVIOUS
    <2>4. \A x, y \in Flatten(b) : KeyAt(base, x[1]) = KeyAt(base, y[1]) => x = y
      BY <1>5, Zenon DEF Clash, KeyAt
    <2> HIDE DEF e, g
    <2>5. e = g
      BY <2>1, <2>2, <2>3, <2>4
    <2> QED
      BY <2>1, <2>3, <2>5
  <1> QED
    BY <1>3, <1>4, <1>5

-----------------------------------------------------------------------------
(* The keys in etcd and the stores that follow them.                       *)

\* What keys were put in mappings that lead elsewhere.
Excuses ==
    {x \in {"odd", "climbed"} : (x = "odd" /\ odd = TRUE) \/ (x = "climbed" /\ climbed = TRUE)}

\* A mapping: below an ip, a link; o are the excuses for others.
MappingOK(p, v, o) ==
    /\ p # Root /\ v \in Link
    /\ "climbed" \in o \/ (p[1] \in Ip /\ (Len(p) > 1 \/ "odd" \in o))

\* What is below /_metad is a mapping or the rules of a host.
KeyOK(k, v, o) ==
    k # Root /\ k[1] = Metad =>
        \/ \E p \in Seq(Name) : k = MappingRoot \o p /\ MappingOK(p, v, o)
        \/ \E h \in Ip : k = Append(RuleRoot, h)

KeysOK(e, o) == \A k \in DOMAIN e : k \in Seq(Name) /\ KeyOK(k, e[k], o)

LinksOK(m, o) == \A p \in DOMAIN m : p \in Seq(Name) /\ MappingOK(p, m[p], o)

\* No mapping is in the data store.
DataOK(d) == \A k \in DOMAIN d : k \in Seq(Name) /\ k # Root /\ ~IsMappingKey(k)

\* The data store has the data of etcd.
Agree(e, d) ==
    \A k \in Seq(Name) : k # Root /\ ~IsConfigKey(k) =>
        (k \in DOMAIN d <=> k \in DOMAIN e) /\ (k \in DOMAIN e => d[k] = e[k])

\* The part of etcd that is for the mapping store.
MappingPart(e) == TrimmedMap(Only(e, MappingKeys(DOMAIN e)))

\* A mapping key is a mapping's path behind the root of the mappings.
LEMMA MappingKeyIs ==
    ASSUME NEW e, NEW o, KeysOK(e, o), NEW k \in DOMAIN e, IsMappingKey(k)
    PROVE  /\ Trimmed(k) \in Seq(Name) /\ k = MappingRoot \o Trimmed(k)
           /\ MappingOK(Trimmed(k), e[k], o)
  <1>1. k \in Seq(Name) /\ KeyOK(k, e[k], o)
    BY DEF KeysOK
  <1>2. k # Root /\ k[1] = Metad
    BY <1>1, ConfigFacts DEF IsConfigKey
  <1>3. ~\E h \in Ip : k = Append(RuleRoot, h)
    BY RuleKeyFacts
  <1>4. PICK p \in Seq(Name) : k = MappingRoot \o p /\ MappingOK(p, e[k], o)
    BY <1>1, <1>2, <1>3 DEF KeyOK
  <1>5. Trimmed(k) = p
    BY <1>4, MappingKeyFacts
  <1> QED
    BY <1>4, <1>5

\* The paths that some keys of etcd are trimmed to.
LEMMA TrimmedKeys ==
    ASSUME NEW e, NEW o, KeysOK(e, o), NEW K, K \subseteq DOMAIN e
    PROVE  {Trimmed(k) : k \in MappingKeys(K)} = {p \in Seq(Name) : MappingRoot \o p \in K}
  <1>1. ASSUME NEW k \in MappingKeys(K)
        PROVE  Trimmed(k) \in Seq(Name) /\ MappingRoot \o Trimmed(k) \in K
    <2>1. k \in K /\ k \in DOMAIN e /\ IsMappingKey(k)
      BY DEF MappingKeys
    <2> QED
      BY <2>1, MappingKeyIs
  <1>2. ASSUME NEW p \in Seq(Name), MappingRoot \o p \in K
        PROVE  \E k \in MappingKeys(K) : p = Trimmed(k)
    <2>1. MappingRoot \o p \in MappingKeys(K) /\ Trimmed(MappingRoot \o p) = p
      BY <1>2, MappingKeyFacts DEF MappingKeys
    <2> QED
      BY <2>1
  <1> QED
    BY <1>1, <1>2

\* The mapping part of etcd, path by path.
LEMMA MappingPartFacts ==
    ASSUME NEW e, NEW o, KeysOK(e, o)
    PROVE  /\ DOMAIN MappingPart(e) = {p \in Seq(Name) : MappingRoot \o p \in DOMAIN e}
           /\ \A p \in DOMAIN MappingPart(e) : MappingPart(e)[p] = e[MappingRoot \o p]
           /\ LinksOK(MappingPart(e), o)
  <1> DEFINE K == MappingKeys(DOMAIN e)
             O == Only(e, K)
             T == {Trimmed(k) : k \in K}
  <1>1. DOMAIN O = K /\ \A k \in K : O[k] = e[k]
    BY DEF Only, MappingKeys
  <1>2. MappingPart(e) = [p \in {Trimmed(k) : k \in DOMAIN O} |-> O[MappingRoot \o p]]
    BY Zenon DEF MappingPart, TrimmedMap
  <1>3. T = {p \in Seq(Name) : MappingRoot \o p \in DOMAIN e}
    BY TrimmedKeys
  <1>4. MappingPart(e) = [p \in T |-> O[MappingRoot \o p]]
    BY <1>1, <1>2
  <1>5. ASSUME NEW p \in T
        PROVE  /\ p \in Seq(Name) /\ MappingRoot \o p \in DOMAIN e
               /\ MappingPart(e)[p] = e[MappingRoot \o p]
               /\ MappingOK(p, e[MappingRoot \o p], o)
    <2>1. p \in Seq(Name) /\ MappingRoot \o p \in DOMAIN e
      BY <1>3
    <2>2. IsMappingKey(MappingRoot \o p) /\ Trimmed(MappingRoot \o p) = p
      BY <2>1, MappingKeyFacts
    <2>3. MappingRoot \o p \in K
      BY <2>1, <2>2 DEF MappingKeys
    <2>4. MappingPart(e)[p] = O[MappingRoot \o p]
      <3> HIDE DEF O, T
      <3> QED
        BY <1>4
    <2>5. MappingOK(p, e[MappingRoot \o p], o)
      BY <2>1, <2>2, MappingKeyIs
    <2> HIDE DEF O, K
    <2> QED
      BY <1>1, <2>1, <2>3, <2>4, <2>5
  <1> HIDE DEF T, O, K
  <1>6. DOMAIN MappingPart(e) = T
    BY <1>4
  <1> QED
    BY <1>3, <1>5, <1>6 DEF LinksOK

\* The hosts of some rule keys of etcd.
LEMMA HostsOfKeys ==
    ASSUME NEW e, NEW o, KeysOK(e, o), NEW K, K \subseteq DOMAIN e
    PROVE  Hosts(RuleKeys(K)) = {h \in Ip : Append(RuleRoot, h) \in K}
  <1>1. ASSUME NEW k \in RuleKeys(K)
        PROVE  k[Len(k)] \in Ip /\ Append(RuleRoot, k[Len(k)]) \in K
    <2>1. k \in K /\ k \in DOMAIN e /\ IsRuleKey(k)
      BY DEF RuleKeys
    <2>2. k \in Seq(Name) /\ KeyOK(k, e[k], o)
      BY <2>1 DEF KeysOK
    <2>3. k # Root /\ k[1] = Metad /\ ~IsMappingKey(k)
      BY <2>1, <2>2, ConfigFacts DEF IsConfigKey
    <2>4. ~\E p \in Seq(Name) : k = MappingRoot \o p
      BY <2>3, MappingKeyFacts
    <2>5. PICK h \in Ip : k = Append(RuleRoot, h)
      BY <2>2, <2>3, <2>4 DEF KeyOK
    <2> QED
      BY <2>1, <2>5, RuleKeyFacts
  <1>2. ASSUME NEW h \in Ip, Append(RuleRoot, h) \in K
        PROVE  \E k \in RuleKeys(K) : h = k[Len(k)]
    <2>1. Append(RuleRoot, h) \in RuleKeys(K)
      BY <1>2, RuleKeyFacts DEF RuleKeys
    <2>2. h = Append(RuleRoot, h)[Len(Append(RuleRoot, h))]
      BY RuleKeyFacts
    <2> QED
      BY <2>1, <2>2
  <1> QED
    BY <1>1, <1>2 DEF Hosts

\* r is the store t after the deletes D and the puts g, key by key.
Followed(r, t, D, g) ==
    /\ DOMAIN r = {p \in DOMAIN g : p # Root}
                     \cup {p \in DOMAIN t : \A q \in D : ~AtOrAbove(q, p)}
    /\ \A p \in DOMAIN g : p # Root => r[p] = g[p]
    /\ \A p \in DOMAIN t : p \in DOMAIN r /\ ~(p \in DOMAIN g /\ p # Root) => r[p] = t[p]

\* That is what the operators compute.
LEMMA StoreFacts ==
    ASSUME NEW t, NEW D, NEW g
    PROVE  Followed(StorePut(StoreDelete(t, D), g), t, D, g)
  <1> DEFINE r == StorePut(StoreDelete(t, D), g)
             L == {p \in DOMAIN t : \A q \in D : ~AtOrAbove(q, p)}
             G == {p \in DOMAIN g : p # Root}
             d == StoreDelete(t, D)
             o == Only(g, DOMAIN g \ {Root})
  <1>1. DOMAIN d = L /\ \A p \in L : d[p] = t[p]
    <2>1. d = [k \in DOMAIN t \cap L |-> t[k]]
      BY Zenon DEF StoreDelete, Only
    <2>2. DOMAIN t \cap L = L
      OBVIOUS
    <2> HIDE DEF L, d
    <2> QED
      BY <2>1, <2>2
  <1>2. DOMAIN o = G /\ \A p \in G : o[p] = g[p]
    BY DEF Only
  <1>3. r = [k \in DOMAIN o \cup DOMAIN d |-> IF k \in DOMAIN o THEN o[k] ELSE d[k]]
    BY Zenon DEF StorePut, Over
  <1> HIDE DEF L, G, d, o, r
  <1>4. DOMAIN r = G \cup L
    BY <1>1, <1>2, <1>3
  <1>5. \A p \in G : r[p] = g[p]
    BY <1>1, <1>2, <1>3
  <1>6. \A p \in L : p \notin G => r[p] = t[p]
    BY <1>1, <1>2, <1>3
  <1> QED
    <2>1. Followed(r, t, D, g)
      BY <1>4, <1>5, <1>6 DEF Followed, L, G
    <2> QED
      BY <2>1 DEF r

\* r is a store filled anew with g, key by key.
Filled(r, g) ==
    /\ DOMAIN r = {p \in DOMAIN g : p # Root}
    /\ \A p \in DOMAIN r : r[p] = g[p]

\* That is what the initial Get makes of it.
LEMMA FreshFacts ==
    ASSUME NEW g
    PROVE  Filled(StorePut(<<>>, g), g)
  <1> DEFINE r == StorePut(<<>>, g)
             G == {p \in DOMAIN g : p # Root}
             o == Only(g, DOMAIN g \ {Root})
             n == <<>>
  <1>1. DOMAIN n = {}
    OBVIOUS
  <1>2. DOMAIN o = G /\ \A p \in G : o[p] = g[p]
    BY DEF Only
  <1>3. r = [k \in DOMAIN o \cup DOMAIN n |-> IF k \in DOMAIN o THEN o[k] ELSE n[k]]
    BY Zenon DEF StorePut, Over
  <1> HIDE DEF G, o, n, r
  <1>4. DOMAIN r = G /\ \A p \in G : r[p] = g[p]
    BY <1>1, <1>2, <1>3
  <1>5. Filled(r, g)
    BY <1>4 DEF Filled, G
  <1> QED
    BY <1>5 DEF r

\* etcd with the keys D of it deleted and then the keys of f put.
After(e, D, f) == Over(f, Only(e, DOMAIN e \ D))

\* The same key by key.
IsAfter(c, e, D, f) ==
    /\ DOMAIN c = DOMAIN f \cup (DOMAIN e \ D)
    /\ \A k \in DOMAIN f : c[k] = f[k]
    /\ \A k \in DOMAIN e : k \notin D /\ k \notin DOMAIN f => c[k] = e[k]

\* What is then at a key.
LEMMA AfterFacts ==
    ASSUME NEW e, NEW D, NEW f
    PROVE  IsAfter(After(e, D, f), e, D, f)
  <1> DEFINE c == After(e, D, f)
             o == Only(e, DOMAIN e \ D)
  <1>1. DOMAIN o = DOMAIN e \ D /\ \A k \in DOMAIN e \ D : o[k] = e[k]
    BY DEF Only
  <1>2. c = [k \in DOMAIN f \cup DOMAIN o |-> IF k \in DOMAIN f THEN f[k] ELSE o[k]]
    BY Zenon DEF After, Over
  <1> HIDE DEF o, c
  <1>3. IsAfter(c, e, D, f)
    BY <1>1, <1>2 DEF IsAfter
  <1> QED
    BY <1>3 DEF c

\* A key that was put once is an excuse for ever.
LEMMA OddStays ==
    ASSUME NEW p, NEW v, NEW k, NEW o, NEW n, o \subseteq n
    PROVE  /\ MappingOK(p, v, o) => MappingOK(p, v, n)
           /\ KeyOK(k, v, o) => KeyOK(k, v, n)
  <1>1. ASSUME NEW q PROVE MappingOK(q, v, o) => MappingOK(q, v, n)
    BY DEF MappingOK
  <1> QED
    BY <1>1 DEF KeyOK

\* etcd keeps its shape if the puts have it.
LEMMA AfterKeys ==
    ASSUME NEW e, NEW D, NEW f, NEW o, NEW n, o \subseteq n,
           KeysOK(e, o), KeysOK(f, n)
    PROVE  KeysOK(After(e, D, f), n)
  <1> SUFFICES ASSUME NEW k \in DOMAIN After(e, D, f)
               PROVE  k \in Seq(Name) /\ KeyOK(k, After(e, D, f)[k], n)
    BY DEF KeysOK
  <1> DEFINE c == After(e, D, f)
  <1>0. IsAfter(c, e, D, f)
    BY AfterFacts
  <1>1. CASE k \in DOMAIN f
    BY <1>0, <1>1 DEF KeysOK, IsAfter
  <1>2. CASE k \notin DOMAIN f
    <2>1. k \in DOMAIN e /\ c[k] = e[k]
      <3>1. k \in DOMAIN c
        OBVIOUS
      <3> HIDE DEF c
      <3> QED
        BY <1>0, <1>2, <3>1 DEF IsAfter
    <2>2. k \in Seq(Name) /\ KeyOK(k, e[k], o)
      BY <2>1 DEF KeysOK
    <2> QED
      BY <2>1, <2>2, OddStays
  <1> QED
    BY <1>1, <1>2

\* The mapping store keeps having links.
LEMMA FollowLinks ==
    ASSUME NEW m, NEW D, NEW f, NEW o, NEW n, o \subseteq n,
           LinksOK(m, o), KeysOK(f, n)
    PROVE  LinksOK(StorePut(StoreDelete(m, D), MappingPart(f)), n)
  <1> DEFINE r == StorePut(StoreDelete(m, D), MappingPart(f))
             g == MappingPart(f)
  <1>1. LinksOK(g, n)
    BY MappingPartFacts
  <1>2. /\ DOMAIN r \subseteq DOMAIN g \cup DOMAIN m
        /\ \A p \in DOMAIN g : p # Root => r[p] = g[p]
        /\ \A p \in DOMAIN m : p \in DOMAIN r /\ ~(p \in DOMAIN g /\ p # Root) => r[p] = m[p]
    <2>1. Followed(r, m, D, g)
      BY StoreFacts
    <2> HIDE DEF r, g
    <2> QED
      BY <2>1 DEF Followed
  <1> HIDE DEF r, g
  <1>3. ASSUME NEW p \in DOMAIN r PROVE p \in Seq(Name) /\ MappingOK(p, r[p], n)
    <2>1. CASE p \in DOMAIN g
      <3>1. p \in Seq(Name) /\ MappingOK(p, g[p], n)
        BY <1>1, <2>1 DEF LinksOK
      <3>2. p # Root
        BY <3>1 DEF MappingOK
      <3> QED
        BY <1>2, <2>1, <3>1, <3>2
    <2>2. CASE p \notin DOMAIN g
      <3>1. p \in DOMAIN m /\ r[p] = m[p]
        BY <1>2, <2>2
      <3>2. p \in Seq(Name) /\ MappingOK(p, m[p], o)
        BY <3>1 DEF LinksOK
      <3> QED
        BY <3>1, <3>2, OddStays
    <2> QED
      BY <2>1, <2>2
  <1> QED
    BY <1>3 DEF LinksOK, r

\* The filter of the watch keeps mappings out of the data store.
LEMMA FollowDataOK ==
    ASSUME NEW d, NEW D, NEW f, NEW n, DataOK(d), KeysOK(f, n)
    PROVE  DataOK(StorePut(StoreDelete(d, D), Only(f, DataKeys(DOMAIN f))))
  <1> DEFINE g == Only(f, DataKeys(DOMAIN f))
             r == StorePut(StoreDelete(d, D), g)
  <1>1. \A k \in DOMAIN g : k \in DOMAIN f /\ ~IsMappingKey(k)
    BY DEF Only, DataKeys, IsConfigKey
  <1>2. DOMAIN r \subseteq {p \in DOMAIN g : p # Root} \cup DOMAIN d
    <2>1. Followed(r, d, D, g)
      BY StoreFacts
    <2> HIDE DEF r, g
    <2> QED
      BY <2>1 DEF Followed
  <1> HIDE DEF r, g
  <1>3. DataOK(r)
    BY <1>1, <1>2 DEF DataOK, KeysOK
  <1> QED
    BY <1>3 DEF r, g

\* As long as no key is the directory of another, the data store follows etcd.
LEMMA FollowAgrees ==
    ASSUME NEW e, NEW d, NEW D, NEW f, NEW o, KeysOK(e, o), ~Mixed(e), Agree(e, d)
    PROVE  Agree(After(e, D, f), StorePut(StoreDelete(d, DataKeys(D \cap DOMAIN e)),
                                          Only(f, DataKeys(DOMAIN f))))
  <1> DEFINE g == Only(f, DataKeys(DOMAIN f))
             X == DataKeys(D \cap DOMAIN e)
             r == StorePut(StoreDelete(d, X), g)
             c == After(e, D, f)
  <1>1. IsAfter(c, e, D, f)
    BY AfterFacts
  <1>2. /\ DOMAIN g = {k \in DOMAIN f : ~IsConfigKey(k)}
        /\ \A k \in DOMAIN g : g[k] = f[k]
    BY DEF Only, DataKeys
  <1>3. Followed(r, d, X, g)
    BY StoreFacts
  <1>4. \A k : k \in X <=> k \in D /\ k \in DOMAIN e /\ ~IsConfigKey(k)
    BY DEF DataKeys
  <1> HIDE DEF g, X, r, c
  <1>5. ASSUME NEW k \in Seq(Name), k # Root, ~IsConfigKey(k)
        PROVE  (k \in DOMAIN r <=> k \in DOMAIN c) /\ (k \in DOMAIN c => r[k] = c[k])
    <2>1. (k \in DOMAIN d <=> k \in DOMAIN e) /\ (k \in DOMAIN e => d[k] = e[k])
      BY <1>5 DEF Agree
    <2>2. k \in DOMAIN e => ((\A q \in X : ~AtOrAbove(q, k)) <=> k \notin D)
      <3>1. AtOrAbove(k, k)
        BY AboveFacts
      <3>2. k \in DOMAIN e => \A q \in X : AtOrAbove(q, k) => q = k
        BY <1>4 DEF Mixed, Above
      <3> QED
        BY <1>4, <1>5, <3>1, <3>2
    <2>3. CASE k \in DOMAIN f
      BY <1>1, <1>2, <1>3, <1>5, <2>3 DEF IsAfter, Followed
    <2>4. CASE k \notin DOMAIN f
      BY <1>1, <1>2, <1>3, <2>1, <2>2, <2>4 DEF IsAfter, Followed
    <2> QED
      BY <2>3, <2>4
  <1>6. Agree(c, r)
    BY <1>5 DEF Agree
  <1> QED
    BY <1>6 DEF c, r, g, X

\* The same for the mapping store, of which there is nothing else to follow.
LEMMA FollowMappingIs ==
    ASSUME NEW e, NEW D, NEW f, NEW o, NEW n, o \subseteq n,
           KeysOK(e, o), KeysOK(f, n), ~Mixed(e)
    PROVE  StorePut(StoreDelete(StorePut(<<>>, MappingPart(e)),
                                {Trimmed(k) : k \in MappingKeys(D \cap DOMAIN e)}),
                    MappingPart(f))
             = StorePut(<<>>, MappingPart(After(e, D, f)))
  <1> DEFINE X == {Trimmed(k) : k \in MappingKeys(D \cap DOMAIN e)}
             c == After(e, D, f)
             t == StorePut(<<>>, MappingPart(e))
             r == StorePut(StoreDelete(t, X), MappingPart(f))
             z == StorePut(<<>>, MappingPart(c))
             At(p) == MappingRoot \o p
  <1>1. IsAfter(c, e, D, f) /\ KeysOK(c, n)
    BY AfterFacts, AfterKeys
  <1>2. Followed(r, t, X, MappingPart(f)) /\ Filled(t, MappingPart(e)) /\ Filled(z, MappingPart(c))
    BY StoreFacts, FreshFacts
  <1>3. X = {p \in Seq(Name) : At(p) \in D \cap DOMAIN e}
    BY TrimmedKeys
  <1>4. r = [p \in DOMAIN r |-> r[p]] /\ z = [p \in DOMAIN z |-> z[p]]
    BY DEF StorePut, Over
  <1> HIDE DEF X, c, t, r, z
  <1>5. /\ DOMAIN t = {p \in Seq(Name) : At(p) \in DOMAIN e}
        /\ \A p \in DOMAIN t : p # Root /\ t[p] = e[At(p)]
    BY <1>2, MappingPartFacts DEF Filled, LinksOK, MappingOK
  <1>6. /\ DOMAIN z = {p \in Seq(Name) : At(p) \in DOMAIN c}
        /\ \A p \in DOMAIN z : p # Root /\ z[p] = c[At(p)]
    BY <1>1, <1>2, MappingPartFacts DEF Filled, LinksOK, MappingOK
  <1>7. /\ DOMAIN MappingPart(f) = {p \in Seq(Name) : At(p) \in DOMAIN f}
        /\ \A p \in DOMAIN MappingPart(f) : p # Root /\ MappingPart(f)[p] = f[At(p)]
    BY MappingPartFacts DEF LinksOK, MappingOK
  <1>8. ASSUME NEW p \in Seq(Name), At(p) \in DOMAIN e
        PROVE  (\A q \in X : ~AtOrAbove(q, p)) <=> At(p) \notin D
    <2>1. AtOrAbove(p, p)
      BY AboveFacts
    <2>2. ASSUME NEW q \in X, AtOrAbove(q, p) PROVE q = p
      <3>1. q \in Seq(Name) /\ At(q) \in DOMAIN e
        BY <1>3
      <3>2. AtOrAbove(At(q), At(p)) /\ (At(q) = At(p) => q = p)
        BY <2>2, <3>1, MappingKeyFacts
      <3> HIDE DEF At
      <3> QED
        BY <1>8, <3>1, <3>2 DEF Mixed, Above
    <2> HIDE DEF At
    <2> QED
      BY <1>3, <1>8, <2>1, <2>2
  <1> HIDE DEF At
  <1>9. ASSUME NEW p
        PROVE  (p \in DOMAIN r <=> p \in DOMAIN z) /\ (p \in DOMAIN z => r[p] = z[p])
    <2>1. CASE p \in DOMAIN MappingPart(f)
      BY <1>1, <1>2, <1>6, <1>7, <2>1 DEF Followed, IsAfter
    <2>2. CASE p \notin DOMAIN MappingPart(f)
      <3>1. CASE p \in Seq(Name) /\ At(p) \in DOMAIN e
        <4>1. At(p) \notin DOMAIN f
          BY <1>7, <2>2, <3>1
        <4>2. p \in DOMAIN r <=> At(p) \notin D
          BY <1>2, <1>5, <1>8, <2>2, <3>1 DEF Followed
        <4>3. p \in DOMAIN z <=> At(p) \notin D
          BY <1>1, <1>6, <3>1, <4>1 DEF IsAfter
        <4>4. p \in DOMAIN z => r[p] = t[p] /\ t[p] = e[At(p)]
          BY <1>2, <1>5, <2>2, <3>1, <4>2, <4>3 DEF Followed
        <4>5. p \in DOMAIN z => z[p] = c[At(p)] /\ c[At(p)] = e[At(p)]
          BY <1>1, <1>6, <3>1, <4>1, <4>3 DEF IsAfter
        <4> QED
          BY <4>2, <4>3, <4>4, <4>5
      <3>2. CASE ~(p \in Seq(Name) /\ At(p) \in DOMAIN e)
        <4>1. p \notin DOMAIN r
          BY <1>2, <1>5, <2>2, <3>2 DEF Followed
        <4>2. p \notin DOMAIN z
          BY <1>1, <1>6, <1>7, <2>2, <3>2 DEF IsAfter
        <4> QED
          BY <4>1, <4>2
      <3> QED
        BY <3>1, <3>2
    <2> QED
      BY <2>1, <2>2
  <1>10. DOMAIN r = DOMAIN z
    BY <1>9
  <1>11. r = z
    BY <1>4, <1>9, <1>10
  <1> QED
    BY <1>11 DEF r, z, t, X, c

\* The access store follows the rule keys.
LEMMA FollowRulesIs ==
    ASSUME NEW e, NEW D, NEW f, NEW o, NEW n, o \subseteq n,
           KeysOK(e, o), KeysOK(f, n)
    PROVE  (Hosts(RuleKeys(DOMAIN e)) \ Hosts(RuleKeys(D \cap DOMAIN e)))
              \cup Hosts(RuleKeys(DOMAIN f))
             = Hosts(RuleKeys(DOMAIN After(e, D, f)))
  <1> DEFINE c == After(e, D, f)
             At(h) == Append(RuleRoot, h)
  <1>1. IsAfter(c, e, D, f) /\ KeysOK(c, n)
    BY AfterFacts, AfterKeys
  <1> HIDE DEF c
  <1>2. Hosts(RuleKeys(DOMAIN e)) = {h \in Ip : At(h) \in DOMAIN e}
    BY HostsOfKeys
  <1>3. Hosts(RuleKeys(D \cap DOMAIN e)) = {h \in Ip : At(h) \in D \cap DOMAIN e}
    BY HostsOfKeys
  <1>4. Hosts(RuleKeys(DOMAIN f)) = {h \in Ip : At(h) \in DOMAIN f}
    BY HostsOfKeys
  <1>5. Hosts(RuleKeys(DOMAIN c)) = {h \in Ip : At(h) \in DOMAIN c}
    BY <1>1, HostsOfKeys
  <1> HIDE DEF At
  <1>6. DOMAIN c = DOMAIN f \cup (DOMAIN e \ D)
    BY <1>1 DEF IsAfter
  <1> QED
    BY <1>2, <1>3, <1>4, <1>5, <1>6 DEF c

\* The texts of etcd's data.
Held(e) == {<<k, e[k]>> : k \in {l \in DOMAIN e : l # Root /\ ~IsConfigKey(l)}}

\* A data store that agrees with etcd shows the texts of etcd's data, if no key is
\* the directory of another.
LEMMA ShownIsHeld ==
    ASSUME NEW e, NEW d, NEW o, KeysOK(e, o), ~Mixed(e), Agree(e, d), DataOK(d)
    PROVE  Shown(d) = Held(e)
  <1> DEFINE V == {l \in DOMAIN d : AtOrAbove(Root, l) /\ ~IsDir(d, l)}
             H == {l \in DOMAIN e : l # Root /\ ~IsConfigKey(l)}
  <1>1. Visible(d, Root) = {<<q, d[q]>> : q \in V}
    BY Zenon DEF Visible
  <1>2. ASSUME NEW q \in V, ~IsRuleKey(q) PROVE q \in H /\ d[q] = e[q]
    <2>1. q \in Seq(Name) /\ q # Root /\ ~IsConfigKey(q) /\ q \in DOMAIN d
      BY <1>2 DEF DataOK, IsConfigKey
    <2> QED
      BY <2>1 DEF Agree
  <1>3. ASSUME NEW q \in H PROVE q \in V /\ ~IsRuleKey(q) /\ d[q] = e[q]
    <2>1. q \in Seq(Name) /\ q # Root /\ ~IsConfigKey(q) /\ q \in DOMAIN e
      BY DEF KeysOK
    <2>2. q \in DOMAIN d /\ d[q] = e[q]
      BY <2>1 DEF Agree
    <2>3. AtOrAbove(Root, q)
      BY <2>1, AboveFacts
    <2>4. ASSUME NEW l \in DOMAIN d, Above(q, l) PROVE FALSE
      <3>1. l \in Seq(Name) /\ l # Root /\ ~IsMappingKey(l)
        BY DEF DataOK
      <3>2. CASE ~IsConfigKey(l)
        <4>1. l \in DOMAIN e
          BY <3>1, <3>2 DEF Agree
        <4> QED
          BY <2>1, <2>4, <4>1 DEF Mixed
      <3>3. CASE IsConfigKey(l)
        <4>1. l[1] = Metad
          BY <3>1, <3>3, ConfigFacts
        <4>2. q[1] = Metad
          <5>1. 1 \in 1..Len(q)
            BY <2>1, AboveFacts
          <5> QED
            BY <2>4, <4>1, <5>1 DEF Above, AtOrAbove
        <4>3. KeyOK(q, e[q], o)
          BY <2>1 DEF KeysOK
        <4> QED
          BY <2>1, <4>2, <4>3, MappingKeyFacts, RuleKeyFacts DEF KeyOK, IsConfigKey
      <3> QED
        BY <3>2, <3>3
    <2> QED
      BY <2>1, <2>2, <2>3, <2>4 DEF IsDir, IsConfigKey
  <1> HIDE DEF V, H
  <1>4. Shown(d) = {l \in {<<q, d[q]>> : q \in V} : ~IsRuleKey(l[1])}
    BY <1>1 DEF Shown
  <1>5. Held(e) = {<<k, e[k]>> : k \in H}
    BY Zenon DEF Held, H
  <1>6. ASSUME NEW x \in Shown(d) PROVE x \in Held(e)
    <2>1. PICK q \in V : x = <<q, d[q]>>
      BY <1>4
    <2>2. ~IsRuleKey(q)
      BY <1>4, <2>1
    <2> QED
      BY <1>2, <1>5, <2>1, <2>2
  <1>7. ASSUME NEW x \in Held(e) PROVE x \in Shown(d)
    <2>1. PICK q \in H : x = <<q, e[q]>>
      BY <1>5
    <2>2. q \in V /\ ~IsRuleKey(q) /\ x = <<q, d[q]>> /\ x[1] = q
      BY <1>3, <2>1
    <2> QED
      BY <1>4, <2>2
  <1> QED
    BY <1>6, <1>7

\* A data store filled anew agrees with etcd, and has no mapping.
LEMMA FreshDataFacts ==
    ASSUME NEW e, NEW o, KeysOK(e, o), NEW d,
           d = StorePut(<<>>, Only(e, DOMAIN e \ MappingKeys(DOMAIN e)))
    PROVE  DataOK(d) /\ Agree(e, d)
  <1> DEFINE g == Only(e, DOMAIN e \ MappingKeys(DOMAIN e))
  <1>1. Filled(d, g)
    BY FreshFacts
  <1>2. /\ DOMAIN g = {k \in DOMAIN e : ~IsMappingKey(k)}
        /\ \A k \in DOMAIN g : g[k] = e[k]
    BY DEF Only, MappingKeys
  <1> HIDE DEF g
  <1>3. /\ DOMAIN d = {k \in DOMAIN e : ~IsMappingKey(k) /\ k # Root}
        /\ \A k \in DOMAIN d : d[k] = e[k]
    BY <1>1, <1>2 DEF Filled
  <1> QED
    BY <1>3 DEF DataOK, Agree, KeysOK, IsConfigKey

-----------------------------------------------------------------------------
(* The inductive invariant.                                                *)

Inv ==
    /\ KeysOK(etcd, Excuses)
    /\ LinksOK(mapping, Excuses)
    /\ DataOK(data)
    /\ access = FreshAccess
    /\ mixed \in BOOLEAN /\ odd \in BOOLEAN /\ climbed \in BOOLEAN
    /\ mixed = FALSE => ~Mixed(etcd) /\ Agree(etcd, data) /\ mapping = FreshMapping

\* The initial state: nothing is there.
LEMMA InvInit == Init => Inv
  <1> SUFFICES ASSUME Init PROVE Inv
    OBVIOUS
  <1>1. DOMAIN etcd = {} /\ DOMAIN data = {} /\ DOMAIN mapping = {} /\ etcd = <<>> /\ mapping = <<>>
    BY DEF Init
  <1>2. KeysOK(etcd, Excuses) /\ LinksOK(mapping, Excuses) /\ DataOK(data) /\ ~Mixed(etcd)
        /\ Agree(etcd, data)
    BY <1>1 DEF KeysOK, LinksOK, DataOK, Mixed, Agree
  <1>3. access = FreshAccess
    <2>1. FreshAccess = {}
      BY <1>1 DEF FreshAccess, Hosts, RuleKeys
    <2> QED
      BY <2>1 DEF Init
  <1>4. mapping = FreshMapping
    <2>1. FreshMapping = StorePut(<<>>, MappingPart(etcd))
      BY DEF FreshMapping, MappingPart
    <2>2. Filled(FreshMapping, MappingPart(etcd))
      BY <2>1, FreshFacts
    <2>3. DOMAIN MappingPart(etcd) = {}
      BY <1>1, <1>2, MappingPartFacts
    <2>4. DOMAIN FreshMapping = {}
      BY <2>2, <2>3 DEF Filled
    <2>5. FreshMapping = [p \in DOMAIN FreshMapping |-> FreshMapping[p]]
      BY <2>1 DEF StorePut, Over
    <2>6. <<>> = [p \in {} |-> FreshMapping[p]]
      OBVIOUS
    <2> QED
      BY <1>1, <2>4, <2>5, <2>6
  <1> QED
    BY <1>2, <1>3, <1>4 DEF Inv, Init

\* A request keeps the invariant whatever it deletes, if its puts have the right
\* shape.
LEMMA CommitKeeps ==
    ASSUME Inv, NEW D, NEW f, Commit(D, f),
           odd' \in BOOLEAN, climbed' \in BOOLEAN, Excuses \subseteq Excuses', KeysOK(f, Excuses')
    PROVE  Inv'
  <1> DEFINE X == D \cap DOMAIN etcd
  <1>1. /\ etcd' = After(etcd, D, f)
        /\ data' = StorePut(StoreDelete(data, DataKeys(X)), Only(f, DataKeys(DOMAIN f)))
        /\ mapping' = StorePut(StoreDelete(mapping, {Trimmed(k) : k \in MappingKeys(X)}),
                               MappingPart(f))
        /\ access' = (access \ Hosts(RuleKeys(X))) \cup Hosts(RuleKeys(DOMAIN f))
        /\ mixed' = (mixed \/ Mixed(etcd'))
    BY Zenon DEF Commit, Committed, Follow, FollowData, FollowMapping, FollowRules, After,
                 MappingPart
  <1>2. /\ KeysOK(etcd, Excuses) /\ LinksOK(mapping, Excuses) /\ DataOK(data)
        /\ mixed \in BOOLEAN /\ access = Hosts(RuleKeys(DOMAIN etcd))
    BY DEF Inv, FreshAccess
  <1>3. KeysOK(etcd', Excuses')
    BY <1>1, <1>2, AfterKeys
  <1>4. LinksOK(mapping', Excuses')
    BY <1>1, <1>2, FollowLinks
  <1>5. DataOK(data')
    BY <1>1, <1>2, FollowDataOK
  <1>6. access' = FreshAccess'
    <2>1. access' = Hosts(RuleKeys(DOMAIN After(etcd, D, f)))
      BY <1>1, <1>2, FollowRulesIs
    <2> QED
      BY <1>1, <2>1 DEF FreshAccess
  <1>7. mixed' \in BOOLEAN /\ (mixed' = FALSE => mixed = FALSE /\ ~Mixed(etcd'))
    BY <1>1, <1>2
  <1>8. ASSUME mixed' = FALSE PROVE Agree(etcd', data') /\ mapping' = FreshMapping'
    <2>1. ~Mixed(etcd) /\ Agree(etcd, data) /\ mapping = StorePut(<<>>, MappingPart(etcd))
      BY <1>7, <1>8 DEF Inv, FreshMapping, MappingPart
    <2>2. Agree(etcd', data')
      BY <1>1, <1>2, <2>1, FollowAgrees
    <2>3. mapping' = StorePut(<<>>, MappingPart(After(etcd, D, f)))
      BY <1>1, <1>2, <2>1, FollowMappingIs
    <2>4. mapping' = FreshMapping'
      BY <1>1, <2>3 DEF FreshMapping, MappingPart
    <2> QED
      BY <2>2, <2>4
  <1> QED
    BY <1>3, <1>4, <1>5, <1>6, <1>7, <1>8 DEF Inv

\* A restart makes the stores what they are compared with.
LEMMA RestartKeeps ==
    ASSUME Inv, Restart
    PROVE  Inv'
  <1>1. /\ etcd' = etcd /\ mixed' = mixed /\ odd' = odd /\ climbed' = climbed
        /\ Excuses' = Excuses
        /\ data' = StorePut(<<>>, Only(etcd, DOMAIN etcd \ MappingKeys(DOMAIN etcd)))
        /\ mapping' = FreshMapping /\ access' = FreshAccess
    BY DEF Restart, FreshData, Excuses
  <1>2. KeysOK(etcd, Excuses)
    BY DEF Inv
  <1>3. DataOK(data') /\ Agree(etcd, data')
    BY <1>1, <1>2, FreshDataFacts
  <1>4. mapping' = FreshMapping' /\ access' = FreshAccess'
    BY <1>1 DEF FreshMapping, FreshAccess
  <1>5. LinksOK(mapping', Excuses)
    <2> DEFINE g == MappingPart(etcd)
    <2>1. mapping' = StorePut(<<>>, g)
      BY <1>1 DEF FreshMapping, MappingPart
    <2>2. LinksOK(g, Excuses)
      BY <1>2, MappingPartFacts
    <2> HIDE DEF g
    <2>3. Filled(mapping', g)
      BY <2>1, FreshFacts
    <2> QED
      BY <2>2, <2>3 DEF Filled, LinksOK
  <1> QED
    BY <1>1, <1>2, <1>3, <1>4, <1>5 DEF Inv

-----------------------------------------------------------------------------
(* The requests.                                                           *)

\* Keys that are not below /_metad.
Plain(f) == \A k \in DOMAIN f : k \in Seq(Name) /\ (k # Root => k[1] # Metad)

\* They are neither mappings nor rules.
LEMMA PlainKeys ==
    ASSUME NEW f, Plain(f), NEW o
    PROVE  KeysOK(f, o) /\ \A k \in DOMAIN f : ~IsConfigKey(k)
  BY ConfigFacts DEF Plain, KeysOK, KeyOK

\* The text that is put for what is no object and no list.
PutText(b) == IF b[<<>>].kind = "text" THEN b[<<>>].text ELSE Word

\* Requests for data put keys that are not below /_metad.
LEMMA DataPutKeys ==
    ASSUME NEW r \in DataPut
    PROVE  /\ r[1] \in Seq(Name) /\ Json(r[2])
           /\ r[1] # Root => r[1][1] # Metad
           /\ \A v : Plain(Single(r[1], v))
           /\ Plain(FlatPuts(r[1], r[2]))
  <1> DEFINE p == r[1]
             b == r[2]
             keys == {l[1] : l \in Puts(p, b)}
  <1>1. p \in Seq(Name) /\ Json(b)
    BY ManageAssumption, PathAssumption DEF Json
  <1>2. \A k \in {p} \cup keys : k # Root => k[1] # Metad
    BY KeysAssumption, Zenon
  <1>3. Puts(p, b) = {<<KeyAt(p, q), b[q].text>> : q \in Entries(b)}
    BY FlatPairs, Zenon DEF EntryKeys
  <1> HIDE DEF p, b
  <1>4. \A v : Plain(Single(p, v))
    BY <1>1, <1>2 DEF Plain, Single
  <1>5. ASSUME NEW k \in DOMAIN FlatPuts(p, b)
        PROVE  k \in Seq(Name) /\ (k # Root => k[1] # Metad)
    <2>0. \A l \in DOMAIN FlatPuts(p, b) :
             \E q \in Entries(b) : l = KeyAt(p, q) /\ FlatPuts(p, b)[l] = b[q].text
      BY FlatPutsFacts
    <2>1. PICK q \in Entries(b) : k = KeyAt(p, q)
      BY <2>0
    <2>2. k \in Seq(Name)
      BY <1>1, <2>1, EntryFacts, AtFacts
    <2> DEFINE x == <<k, b[q].text>>
    <2>3. x \in Puts(p, b) /\ x[1] = k
      BY <1>3, <2>1
    <2> HIDE DEF x
    <2>4. k \in keys
      BY <2>3
    <2> QED
      BY <1>2, <2>2, <2>4
  <1>6. Plain(FlatPuts(p, b))
    BY <1>5 DEF Plain
  <1> QED
    BY <1>1, <1>2, <1>4, <1>6 DEF p, b

\* A key of three components or more in the directory of the mappings.
LEMMA MappingKeyOf ==
    ASSUME NEW k \in Seq(Name), Len(k) >= 3, k[1] = Metad, k[2] = MappingDir
    PROVE  /\ Trimmed(k) \in Seq(Name) /\ Trimmed(k) # Root
           /\ k = MappingRoot \o Trimmed(k)
           /\ Trimmed(k)[1] = k[3] /\ Len(Trimmed(k)) = Len(k) - 2
  <1> DEFINE t == SubSeq(k, 3, Len(k))
             l == MappingRoot \o t
  <1>1. /\ t \in Seq(Name) /\ Len(t) = Len(k) - 2 /\ Len(k) \in Nat
        /\ \A i \in 1..Len(k) - 2 : t[i] = k[2 + i]
    OBVIOUS
  <1> HIDE DEF t
  <1>2. /\ l \in Seq(Name) /\ Len(l) = 2 + Len(t) /\ l[1] = Metad /\ l[2] = MappingDir
        /\ \A i \in 1..Len(t) : l[2 + i] = t[i]
    BY <1>1, MappingKeyShape
  <1> HIDE DEF l
  <1>3. ASSUME NEW i \in 1..Len(k) PROVE l[i] = k[i]
    <2>1. CASE i = 1 \/ i = 2
      BY <1>2, <2>1
    <2>2. CASE i > 2
      <3>1. i - 2 \in 1..Len(k) - 2 /\ 2 + (i - 2) = i
        BY <1>1, <2>2
      <3> QED
        BY <1>1, <1>2, <3>1
    <2> QED
      BY <1>1, <2>1, <2>2
  <1>4. l = k
    BY <1>1, <1>2, <1>3, SeqEqual
  <1>5. t[1] = k[3] /\ t # Root
    <2>1. 1 \in 1..Len(k) - 2 /\ 2 + 1 = 3
      BY <1>1
    <2>2. t[1] = k[3]
      BY <1>1, <2>1
    <2>3. t # Root
      BY <1>1, <2>1, AboveFacts
    <2> QED
      BY <2>2, <2>3
  <1> QED
    BY <1>1, <1>4, <1>5 DEF Trimmed, t, l

\* The checks of PutMapping: what it writes are links, below an ip if there is no
\* "..", and only "" or "." makes one of the ip itself.
LEMMA MappingPutKeys ==
    ASSUME NEW r \in MappingPut, Accepted(r[1], r[2]), NEW n,
           HasKey(r[2], {DotDot}) => "climbed" \in n,
           HasKey(r[2], {EmptyKey, Dot}) => "odd" \in n
    PROVE  /\ ~IsTree(r[2]) => KeysOK(Single(MappingRoot \o r[1], PutText(r[2])), n)
           /\ IsTree(r[2]) => KeysOK(FlatPuts(MappingRoot \o r[1], r[2]), n)
  <1> DEFINE p == r[1]
             b == r[2]
             base == MappingRoot \o p
  <1>1. p \in Seq(Name) /\ Json(b)
    BY ManageAssumption, PathAssumption DEF Json
  <1>2. /\ Accepted(p, b)
        /\ HasKey(b, {DotDot}) => "climbed" \in n
        /\ HasKey(b, {EmptyKey, Dot}) => "odd" \in n
        /\ \A l \in Puts(base, b) : Above(MappingRoot, l[1])
    BY KeysAssumption
  <1> HIDE DEF p, b
  <1>3. /\ base \in Seq(Name) /\ Len(base) = 2 + Len(p) /\ Len(p) \in Nat
        /\ base[1] = Metad /\ base[2] = MappingDir
        /\ \A i \in 1..Len(p) : base[2 + i] = p[i]
    BY <1>1, MappingKeyShape
  <1>4. ASSUME ~IsTree(b) PROVE KeysOK(Single(base, PutText(b)), n)
    <2>1. p # Root /\ p[1] \in Ip /\ Len(p) > 1 /\ IsLink(b, <<>>)
      BY <1>2, <1>4 DEF Accepted, checkIps, checkMapping, IsMap, IsTree
    <2>2. PutText(b) \in Link
      BY <2>1 DEF IsLink, PutText
    <2>3. MappingOK(p, PutText(b), n)
      BY <2>1, <2>2 DEF MappingOK
    <2> HIDE DEF base
    <2>4. DOMAIN Single(base, PutText(b)) = {base} /\ Single(base, PutText(b))[base] = PutText(b)
      BY DEF Single
    <2>5. KeyOK(base, PutText(b), n)
      BY <1>1, <2>3 DEF KeyOK, base
    <2> QED
      BY <1>3, <2>4, <2>5 DEF KeysOK
  <1> HIDE DEF base
  <1>5. ASSUME IsTree(b), NEW q \in Entries(b)
        PROVE  KeyAt(base, q) \in Seq(Name) /\ KeyOK(KeyAt(base, q), b[q].text, n)
    <2> DEFINE s == base \o q
               k == KeyAt(base, q)
    <2>1. /\ q \in DOMAIN b /\ q \in Seq(Key) /\ q # <<>> /\ Len(q) \in Nat \ {0}
          /\ b[q].kind \in {"text", "null"}
          /\ <<q[1]>> \in DOMAIN b
          /\ Len(q) > 1 => Above(<<q[1]>>, q)
          /\ Len(q) = 1 => q = <<q[1]>>
      BY <1>1, EntryFacts
    <2>2. /\ s \in Seq(Key) /\ Len(s) = Len(base) + Len(q)
          /\ \A i \in 1..Len(base) : s[i] = base[i]
          /\ \A i \in 1..Len(q) : s[Len(base) + i] = q[i]
      <3>1. base \in Seq(Key)
        BY <1>3, KeySeqs
      <3> QED
        BY <2>1, <3>1, CatFacts
    <2>3. k \in Seq(Name) /\ k = Clean(s)
      BY <1>3, <2>1, AtFacts DEF KeyAt
    <2> HIDE DEF s, k
    <2>4. ASSUME "climbed" \notin n
          PROVE  /\ \A i \in 1..Len(q) : q[i] # DotDot
                 /\ "odd" \in n \/ \A i \in 1..Len(q) : q[i] \in Name
      <3> DEFINE e == <<q, b[q].text>>
      <3>1. e \in Flatten(b) /\ e[1] = q
        BY DEF Flatten, Entries
      <3> HIDE DEF e
      <3>2. DOMAIN q = 1..Len(q) /\ \A i \in 1..Len(q) : q[i] \in Key
        BY <2>1
      <3>3. \A i \in 1..Len(q) : q[i] # DotDot
        BY <1>2, <1>5, <2>4, <3>1, <3>2 DEF HasKey
      <3>4. ASSUME NEW i \in 1..Len(q), q[i] \notin Name PROVE "odd" \in n
        <4>1. q[i] \in {EmptyKey, Dot}
          BY <3>2, <3>3, <3>4 DEF Key
        <4>2. HasKey(b, {EmptyKey, Dot})
          BY <1>5, <3>1, <3>2, <4>1 DEF HasKey
        <4> QED
          BY <1>2, <4>2
      <3> QED
        BY <3>3, <3>4
    <2>5. /\ IsLink(b, q)
          /\ p = Root => q[1] \in Ip /\ Len(q) > 1
          /\ p # Root => p[1] \in Ip /\ Len(p) >= 1
      <3>1. CASE p = Root
        <4>1. Len(<<q[1]>>) = 1 /\ <<q[1]>>[1] = q[1]
          OBVIOUS
        <4>2. q[1] \in Ip /\ checkMapping(b, <<q[1]>>)
          BY <1>2, <2>1, <3>1, <4>1 DEF Accepted, checkIps
        <4>3. Len(q) > 1
          BY <2>1, <4>2 DEF checkMapping
        <4>4. IsLink(b, q)
          BY <2>1, <4>2, <4>3 DEF checkMapping
        <4> QED
          BY <3>1, <4>2, <4>3, <4>4
      <3>2. CASE p # Root
        <4>1. /\ b[<<>>].kind = "map"
              /\ \A l \in DOMAIN b : Above(<<>>, l) => b[l].kind = "map" \/ IsLink(b, l)
          BY <1>2, <1>5, <3>2 DEF Accepted, IsLink, IsTree, checkMapping
        <4>2. Above(<<>>, q)
          BY <2>1, AboveFacts DEF Root
        <4>3. IsLink(b, q) /\ p[1] \in Ip
          BY <1>2, <2>1, <3>2, <4>1, <4>2 DEF Accepted
        <4>4. Len(p) >= 1
          BY <1>1, <3>2, AboveFacts
        <4> QED
          BY <3>2, <4>3, <4>4
      <3> QED
        BY <3>1, <3>2
    <2>6. Len(s) >= 3 /\ s[1] = Metad /\ s[2] = MappingDir /\ s[3] \in Ip
      <3>1. 1 \in 1..Len(base) /\ 2 \in 1..Len(base) /\ Len(s) >= 3
        BY <1>3, <2>1, <2>2
      <3>2. CASE p = Root
        <4>1. Len(base) = 2 /\ 1 \in 1..Len(q) /\ 2 + 1 = 3
          BY <1>1, <1>3, <2>1, <3>2, AboveFacts
        <4>2. s[Len(base) + 1] = q[1]
          BY <2>2, <4>1
        <4>3. s[3] = q[1]
          BY <4>1, <4>2
        <4> QED
          BY <1>3, <2>2, <2>5, <3>1, <3>2, <4>3
      <3>3. CASE p # Root
        <4>1. 3 \in 1..Len(base) /\ 1 \in 1..Len(p) /\ 2 + 1 = 3
          BY <1>3, <2>5, <3>3
        <4>2. s[3] = base[3] /\ base[3] = p[1]
          BY <1>3, <2>2, <4>1
        <4> QED
          BY <1>3, <2>2, <2>5, <3>1, <3>3, <4>2
      <3> QED
        BY <3>2, <3>3
    <2>7. ASSUME "climbed" \notin n
          PROVE  \A i \in 1..Len(s) : s[i] # DotDot /\ ("odd" \in n \/ s[i] \in Name)
      <3>1. ASSUME NEW i \in 1..Len(s) PROVE s[i] # DotDot /\ ("odd" \in n \/ s[i] \in Name)
        <4>1. CASE i \in 1..Len(base)
          <5>1. s[i] \in Name
            BY <1>3, <2>2, <4>1
          <5> QED
            BY <5>1, ManageAssumption
        <4>2. CASE i \notin 1..Len(base)
          <5>1. i - Len(base) \in 1..Len(q) /\ Len(base) + (i - Len(base)) = i
            BY <1>3, <2>1, <2>2, <4>2
          <5>2. s[i] = q[i - Len(base)]
            BY <2>2, <5>1
          <5> QED
            BY <2>4, <2>7, <5>1, <5>2
        <4> QED
          BY <4>1, <4>2
      <3> QED
        BY <3>1
    <2>8. Len(k) >= 3 /\ Len(k) \in Nat /\ k[1] = Metad /\ k[2] = MappingDir
      <3> DEFINE x == <<k, b[q].text>>
      <3>1. x \in Puts(base, b) /\ x[1] = k
        BY FlatPairs DEF EntryKeys, k
      <3> HIDE DEF x
      <3>2. Above(MappingRoot, k)
        BY <1>2, <3>1
      <3>3. Len(k) \in Nat /\ Len(k) >= 2 /\ k[1] = Metad /\ k[2] = MappingDir /\ k # MappingRoot
        BY <2>3, <3>2, ConfigFacts DEF Above, IsMappingKey
      <3>4. 1..2 = {1, 2}
        OBVIOUS
      <3>5. Len(k) # 2
        BY <2>3, <3>3, <3>4, RootFacts, SeqEqual
      <3>6. \A m \in Nat : m >= 2 /\ m # 2 => m >= 3
        OBVIOUS
      <3>7. Len(k) >= 3
        BY <3>3, <3>5, <3>6
      <3> QED
        BY <3>3, <3>7
    <2>9. ASSUME "climbed" \notin n PROVE k[3] \in Ip
      <3>1. 3 \in 0..Len(s) /\ 1..3 = {1, 2, 3}
        BY <2>2, <2>6
      <3>2. \A i \in 1..3 : s[i] \in Name
        BY <2>6, <3>1, ManageAssumption
      <3>3. Len(k) \in Nat /\ Len(k) >= 3 /\ \A i \in 1..3 : k[i] = s[i]
        BY <2>2, <2>3, <2>7, <2>9, <3>1, <3>2, CleanKeeps
      <3> QED
        BY <2>6, <3>1, <3>3
    <2>10. "climbed" \in n \/ "odd" \in n \/ Len(k) > 3
      <3>1. ASSUME "climbed" \notin n, "odd" \notin n PROVE Len(k) > 3
        <4>1. Len(s) \in 0..Len(s) /\ \A i \in 1..Len(s) : s[i] \in Name
          <5>1. Len(s) \in 0..Len(s)
            BY <2>2
          <5>2. \A i \in 1..Len(s) : s[i] \in Name
            BY <2>7, <3>1, Zenon
          <5> QED
            BY <5>1, <5>2
        <4>2. k = s
          BY <2>2, <2>3, <2>7, <3>1, <4>1, CleanKeeps
        <4>3. Len(s) > 3
          BY <1>1, <1>3, <2>1, <2>2, <2>5, AboveFacts
        <4> QED
          BY <4>2, <4>3
      <3> QED
        BY <3>1
    <2> DEFINE t == Trimmed(k)
    <2>11. /\ t \in Seq(Name) /\ t # Root /\ k = MappingRoot \o t
           /\ t[1] = k[3] /\ Len(t) = Len(k) - 2
      BY <2>3, <2>8, MappingKeyOf
    <2> HIDE DEF t
    <2>12. "climbed" \in n \/ Len(t) > 1 \/ "odd" \in n
      BY <2>10, <2>11, <2>8
    <2>13. MappingOK(t, b[q].text, n)
      BY <2>5, <2>9, <2>11, <2>12 DEF MappingOK, IsLink
    <2>14. KeyOK(k, b[q].text, n)
      BY <2>11, <2>13 DEF KeyOK
    <2> QED
      BY <2>3, <2>14 DEF k
  <1>6. ASSUME IsTree(b) PROVE KeysOK(FlatPuts(base, b), n)
    <2> DEFINE f == FlatPuts(base, b)
    <2>1. \A k \in DOMAIN f : \E q \in Entries(b) : k = KeyAt(base, q) /\ f[k] = b[q].text
      BY FlatPutsFacts
    <2> HIDE DEF f
    <2>2. KeysOK(f, n)
      BY <1>5, <1>6, <2>1 DEF KeysOK
    <2> QED
      BY <2>2 DEF f
  <1> QED
    BY <1>4, <1>6 DEF p, b, base

\* What a put commits.
LEMMA PutCommits ==
    ASSUME NEW base, NEW b, NEW replace, Put(base, b, replace)
    PROVE  /\ ~IsTree(b) => Commit({}, Single(base, PutText(b)))
           /\ IsTree(b) => Commit(IF replace THEN DirKeys(base) ELSE {},
                                  IF Clash(base, b) THEN <<>> ELSE FlatPuts(base, b))
  BY Zenon DEF Put, PutText

\* Nothing put has the right shape.
LEMMA NoKeys == \A o : KeysOK(<<>>, o) /\ Plain(<<>>)
  BY DEF KeysOK, Plain

\* A request to put data keeps the invariant.
LEMMA PutDataKeeps ==
    ASSUME Inv, NEW r \in DataPut, NEW replace, PutData(r[1], r[2], replace)
    PROVE  Inv'
  <1>1. Put(r[1], r[2], replace) /\ odd' \in BOOLEAN /\ climbed' \in BOOLEAN /\ Excuses' = Excuses
    BY DEF PutData, Inv, Excuses
  <1>2. /\ \A v : KeysOK(Single(r[1], v), Excuses)
        /\ KeysOK(FlatPuts(r[1], r[2]), Excuses) /\ KeysOK(<<>>, Excuses)
    BY DataPutKeys, PlainKeys, NoKeys
  <1>3. CASE ~IsTree(r[2])
    <2>1. Commit({}, Single(r[1], PutText(r[2])))
      BY <1>1, <1>3, PutCommits
    <2> QED
      BY <1>1, <1>2, <2>1, CommitKeeps
  <1>4. CASE IsTree(r[2])
    <2> DEFINE D == IF replace THEN DirKeys(r[1]) ELSE {}
               f == IF Clash(r[1], r[2]) THEN <<>> ELSE FlatPuts(r[1], r[2])
    <2>1. Commit(D, f)
      BY <1>1, <1>4, PutCommits
    <2>2. KeysOK(f, Excuses)
      BY <1>2
    <2> HIDE DEF D, f
    <2> QED
      BY <1>1, <2>1, <2>2, CommitKeeps
  <1> QED
    BY <1>3, <1>4

\* A request to put a mapping keeps it, by the checks of PutMapping, and its excuses.
LEMMA PutMappingKeeps ==
    ASSUME Inv, NEW r \in MappingPut, NEW replace, PutMapping(r[1], r[2], replace)
    PROVE  Inv'
  <1>1. CASE ~Accepted(r[1], r[2])
    <2>1. UNCHANGED <<etcd, data, mapping, access, mixed, odd, climbed>>
      BY <1>1 DEF PutMapping
    <2> QED
      BY <2>1 DEF Inv, FreshAccess, FreshMapping, Mixed, Excuses
  <1>2. CASE Accepted(r[1], r[2])
    <2> DEFINE base == MappingRoot \o r[1]
    <2>1. /\ Put(base, r[2], replace) /\ odd \in BOOLEAN /\ climbed \in BOOLEAN
          /\ odd' = (odd \/ HasKey(r[2], {EmptyKey, Dot}))
          /\ climbed' = (climbed \/ HasKey(r[2], {DotDot}))
      BY <1>2 DEF PutMapping, Inv
    <2>2. /\ odd' \in BOOLEAN /\ climbed' \in BOOLEAN /\ Excuses \subseteq Excuses'
          /\ HasKey(r[2], {EmptyKey, Dot}) => "odd" \in Excuses'
          /\ HasKey(r[2], {DotDot}) => "climbed" \in Excuses'
      <3>1. /\ odd' \in BOOLEAN /\ (odd = TRUE => odd' = TRUE)
            /\ HasKey(r[2], {EmptyKey, Dot}) => odd' = TRUE
        BY <2>1 DEF HasKey
      <3>2. /\ climbed' \in BOOLEAN /\ (climbed = TRUE => climbed' = TRUE)
            /\ HasKey(r[2], {DotDot}) => climbed' = TRUE
        BY <2>1 DEF HasKey
      <3>3. "odd" # "climbed"
        OBVIOUS
      <3> QED
        BY <3>1, <3>2, <3>3 DEF Excuses
    <2>3. /\ ~IsTree(r[2]) => KeysOK(Single(base, PutText(r[2])), Excuses')
          /\ IsTree(r[2]) => KeysOK(FlatPuts(base, r[2]), Excuses')
      BY <1>2, <2>2, MappingPutKeys
    <2>4. KeysOK(<<>>, Excuses')
      BY NoKeys
    <2> HIDE DEF base
    <2>5. CASE ~IsTree(r[2])
      <3>1. Commit({}, Single(base, PutText(r[2])))
        BY <2>1, <2>5, PutCommits
      <3> QED
        BY <2>2, <2>3, <2>5, <3>1, CommitKeeps
    <2>6. CASE IsTree(r[2])
      <3> DEFINE D == IF replace THEN DirKeys(base) ELSE {}
                 f == IF Clash(base, r[2]) THEN <<>> ELSE FlatPuts(base, r[2])
      <3>1. Commit(D, f)
        BY <2>1, <2>6, PutCommits
      <3>2. KeysOK(f, Excuses')
        BY <2>3, <2>4, <2>6
      <3> HIDE DEF D, f
      <3> QED
        BY <2>2, <3>1, <3>2, CommitKeeps
    <2> QED
      BY <2>5, <2>6
  <1> QED
    BY <1>1, <1>2

\* The other requests write at most the key of a host's rules.
LEMMA OtherRequestsKeep ==
    ASSUME Inv,
           \/ \E r \in DataDelete : DeleteData(r[1], r[2])
           \/ \E r \in MappingDelete : DeleteMapping(r[1], r[2])
           \/ \E h \in Ip : PutAccessRule(h) \/ DeleteAccessRule(h)
    PROVE  Inv'
  <1>1. odd' \in BOOLEAN /\ climbed' \in BOOLEAN /\ Excuses' = Excuses
    BY DEF Inv, Excuses, DeleteData, DeleteMapping, PutAccessRule, DeleteAccessRule
  <1>2. \E D, f : Commit(D, f) /\ KeysOK(f, Excuses)
    <2>1. ASSUME NEW r \in DataDelete, DeleteData(r[1], r[2]) PROVE \E D : Commit(D, <<>>)
      BY <2>1 DEF DeleteData
    <2>2. ASSUME NEW r \in MappingDelete, DeleteMapping(r[1], r[2]) PROVE \E D : Commit(D, <<>>)
      BY <2>2 DEF DeleteMapping
    <2>3. ASSUME NEW h \in Ip, DeleteAccessRule(h) PROVE \E D : Commit(D, <<>>)
      BY <2>3 DEF DeleteAccessRule
    <2>4. ASSUME NEW h \in Ip, PutAccessRule(h) PROVE \E D, f : Commit(D, f) /\ KeysOK(f, Excuses)
      <3> DEFINE k == Append(RuleRoot, h)
                 f == Single(k, Word)
      <3>1. Commit({}, f)
        BY <2>4 DEF PutAccessRule
      <3>2. k \in Seq(Name) /\ KeyOK(k, Word, Excuses)
        BY RuleKeyFacts DEF KeyOK
      <3> HIDE DEF k
      <3>3. KeysOK(f, Excuses)
        BY <3>2 DEF KeysOK, Single
      <3> HIDE DEF f
      <3> QED
        BY <3>1, <3>3
    <2>5. \A D : Commit(D, <<>>) => \E f : Commit(D, f) /\ KeysOK(f, Excuses)
      BY NoKeys
    <2> QED
      BY <2>1, <2>2, <2>3, <2>4, <2>5
  <1>3. PICK D, f : Commit(D, f) /\ KeysOK(f, Excuses)
    BY <1>2
  <1> QED
    BY <1>1, <1>3, CommitKeeps

\* Every step keeps the invariant.
LEMMA InvNext == Inv /\ [Next]_vars => Inv'
  <1> SUFFICES ASSUME Inv, [Next]_vars PROVE Inv'
    OBVIOUS
  <1>1. CASE UNCHANGED vars
    BY <1>1 DEF Inv, vars, FreshAccess, FreshMapping, Mixed, Excuses
  <1>2. CASE Next
    <2>1. CASE \E r \in DataPut, replace \in BOOLEAN : PutData(r[1], r[2], replace)
      BY <2>1, PutDataKeeps
    <2>2. CASE \E r \in MappingPut, replace \in BOOLEAN : PutMapping(r[1], r[2], replace)
      BY <2>2, PutMappingKeeps
    <2>3. CASE \/ \E r \in DataDelete : DeleteData(r[1], r[2])
               \/ \E r \in MappingDelete : DeleteMapping(r[1], r[2])
               \/ \E h \in Ip : PutAccessRule(h) \/ DeleteAccessRule(h)
      BY <2>3, OtherRequestsKeep
    <2>4. CASE Restart
      BY <2>4, RestartKeeps
    <2> QED
      BY <1>2, <2>1, <2>2, <2>3, <2>4 DEF Next
  <1> QED
    BY <1>1, <1>2

\* The invariant holds always.
LEMMA Invariance == Spec => []Inv
  BY InvInit, InvNext, PTL DEF Spec

\* Stores that have followed etcd show what stores filled from it would.
THEOREM StoresAgree == Spec => []RestartAgrees
  <1>1. ASSUME Inv PROVE RestartAgrees
    <2> SUFFICES ASSUME ~mixed PROVE /\ Shown(data) = Shown(FreshData)
                                     /\ mapping = FreshMapping
                                     /\ access = FreshAccess
      BY DEF RestartAgrees
    <2>1. /\ KeysOK(etcd, Excuses) /\ DataOK(data) /\ ~Mixed(etcd) /\ Agree(etcd, data)
          /\ mapping = FreshMapping /\ access = FreshAccess
      BY <1>1 DEF Inv
    <2>2. DataOK(FreshData) /\ Agree(etcd, FreshData)
      BY <2>1, FreshDataFacts DEF FreshData
    <2>3. Shown(data) = Held(etcd) /\ Shown(FreshData) = Held(etcd)
      BY <2>1, <2>2, ShownIsHeld
    <2> QED
      BY <2>1, <2>3
  <1> QED
    BY <1>1, Invariance, PTL

\* What the mapping store shows are links below ips.
THEOREM MappingsCorrect == Spec => []MappingsAreLinks
  <1>1. ASSUME Inv PROVE MappingsAreLinks
    <2> DEFINE V == {l \in DOMAIN mapping : AtOrAbove(Root, l) /\ ~IsDir(mapping, l)}
    <2>1. Visible(mapping, Root) = {<<q, mapping[q]>> : q \in V}
      BY Zenon DEF Visible
    <2>2. V \subseteq DOMAIN mapping
      OBVIOUS
    <2> HIDE DEF V
    <2>3. ASSUME NEW l \in Visible(mapping, Root)
          PROVE  /\ l[2] \in Link
                 /\ climbed \/ (l[1][1] \in Ip /\ (Len(l[1]) > 1 \/ odd))
      <3>1. PICK q \in V : l = <<q, mapping[q]>>
        BY <2>1
      <3>2. l[1] = q /\ l[2] = mapping[q]
        BY <3>1
      <3>3. /\ MappingOK(q, mapping[q], Excuses)
            /\ odd \in BOOLEAN /\ climbed \in BOOLEAN
        BY <1>1, <2>2 DEF Inv, LinksOK
      <3>4. ("odd" \in Excuses <=> odd) /\ ("climbed" \in Excuses <=> climbed)
        BY <3>3 DEF Excuses
      <3> QED
        BY <3>2, <3>3, <3>4 DEF MappingOK
    <2> QED
      BY <2>3 DEF MappingsAreLinks
  <1> QED
    BY <1>1, Invariance, PTL

-----------------------------------------------------------------------------
(* Deleting all data.                                                      *)

\* The keys that Expand shows.
ShownKeys(m) ==
    {k \in DOMAIN m \ {<<>>} : \A l \in DOMAIN m \ {<<>>} : ~Above(l, k)}

\* The names at the top of an expanded map: those of the keys, with an object unless
\* the name is itself a key.
LEMMA ExpandFacts ==
    ASSUME NEW m, DOMAIN m \subseteq Seq(Name)
    PROVE  /\ \A q \in DOMAIN Expand(m) \ {<<>>} : \E k \in ShownKeys(m) : k[1] = q[1]
           /\ \A k \in ShownKeys(m) :
                 /\ k \in DOMAIN Expand(m)
                 /\ Expand(m)[<<k[1]>>].kind = "map" <=> k # <<k[1]>>
  <1> DEFINE shown == ShownKeys(m)
             U == UNION {{SubSeq(k, 1, n) : n \in 0..Len(k)} : k \in shown}
             E == Expand(m)
  <1>1. E = [q \in {<<>>} \cup U |-> IF q \in shown THEN TextNode(m[q]) ELSE MapNode]
    BY Zenon DEF Expand, ShownKeys
  <1>2. \A k \in shown : k \in Seq(Name) /\ k # <<>> /\ k \in DOMAIN m
    BY DEF ShownKeys
  <1>3. \A k \in shown : \A l \in shown : ~Above(l, k)
    BY DEF ShownKeys
  <1> HIDE DEF shown
  <1>4. \A q \in U : \E k \in shown : \E n \in 0..Len(k) : q = SubSeq(k, 1, n)
    OBVIOUS
  <1>5. \A k \in shown : \A n \in 0..Len(k) : SubSeq(k, 1, n) \in U
    OBVIOUS
  <1> HIDE DEF U
  <1>6. DOMAIN E = {<<>>} \cup U
    BY <1>1
  <1>7. ASSUME NEW q \in DOMAIN E \ {<<>>} PROVE \E k \in shown : k[1] = q[1]
    <2>1. PICK k \in shown : \E n \in 0..Len(k) : q = SubSeq(k, 1, n)
      BY <1>4, <1>6
    <2>2. PICK n \in 0..Len(k) : q = SubSeq(k, 1, n)
      BY <2>1
    <2>3. n # 0
      BY <1>2, <2>2
    <2>4. SubSeq(k, 1, n)[1] = k[1]
      BY <1>2, <2>2, <2>3
    <2> QED
      BY <2>2, <2>4
  <1>8. ASSUME NEW k \in shown
        PROVE  k \in DOMAIN E /\ (E[<<k[1]>>].kind = "map" <=> k # <<k[1]>>)
    <2>1. k \in Seq(Name) /\ Len(k) \in Nat \ {0}
      BY <1>2
    <2>2. SubSeq(k, 1, Len(k)) = k /\ SubSeq(k, 1, 1) = <<k[1]>>
      <3> DEFINE s == SubSeq(k, 1, 1)
                 t == SubSeq(k, 1, Len(k))
      <3>1. s \in Seq(Name) /\ Len(s) = 1 /\ s[1] = k[1]
        BY <2>1
      <3>2. t \in Seq(Name) /\ Len(t) = Len(k) /\ \A i \in 1..Len(k) : t[i] = k[i]
        BY <2>1
      <3> HIDE DEF s, t
      <3>3. s = <<k[1]>>
        BY <3>1
      <3>4. t = k
        BY <2>1, <3>2, SeqEqual
      <3> QED
        BY <3>3, <3>4 DEF s, t
    <2>3. k \in DOMAIN E /\ <<k[1]>> \in DOMAIN E
      <3>1. Len(k) \in 0..Len(k) /\ 1 \in 0..Len(k)
        BY <2>1
      <3>2. SubSeq(k, 1, Len(k)) \in U /\ SubSeq(k, 1, 1) \in U
        BY <1>5, <3>1
      <3> QED
        BY <1>6, <2>2, <3>2
    <2>4. <<k[1]>> \in shown <=> k = <<k[1]>>
      <3>1. Len(<<k[1]>>) = 1 /\ <<k[1]>>[1] = k[1]
        OBVIOUS
      <3>2. AtOrAbove(<<k[1]>>, k)
        BY <2>1, <3>1 DEF AtOrAbove
      <3> QED
        BY <1>3, <3>2 DEF Above
    <2>5. E[<<k[1]>>] = IF <<k[1]>> \in shown THEN TextNode(m[<<k[1]>>]) ELSE MapNode
      BY <1>1, <1>6, <2>3
    <2>6. TextNode(m[<<k[1]>>]).kind = "text" /\ MapNode.kind = "map"
      BY DEF TextNode, MapNode
    <2>7. E[<<k[1]>>].kind = "map" <=> k # <<k[1]>>
      <3> HIDE DEF E
      <3>1. CASE k = <<k[1]>>
        <4>1. E[<<k[1]>>] = TextNode(m[<<k[1]>>])
          BY <2>4, <2>5, <3>1
        <4> QED
          BY <2>6, <3>1, <4>1
      <3>2. CASE k # <<k[1]>>
        <4>1. E[<<k[1]>>] = MapNode
          BY <2>4, <2>5, <3>2
        <4> QED
          BY <2>6, <3>2, <4>1
      <3> QED
        BY <3>1, <3>2
    <2> QED
      BY <2>3, <2>7
  <1> QED
    BY <1>7, <1>8 DEF shown

\* A delete of all data takes all keys of data, and a key below /_metad only for a
\* directory whose name "_metad" begins with.
LEMMA AllDataFacts ==
    ASSUME DOMAIN etcd \subseteq Seq(Name)
    PROVE  /\ \A k \in AllData \cap DOMAIN etcd : IsConfigKey(k) =>
                 \E l \in DOMAIN etcd : Len(l) > 1 /\ <<l[1], Metad>> \in Begins
           /\ KeysOK(etcd, Excuses) /\ ~Mixed(etcd) =>
                 \A k \in DOMAIN etcd : ~IsConfigKey(k) => k \in AllData
  <1> DEFINE m == Only(etcd, DOMAIN etcd \ MappingKeys(DOMAIN etcd))
             A == AllKeys
             names == {r \in DOMAIN A \ {<<>>} : r[1] # Metad}
  <1>1. DOMAIN m = {k \in DOMAIN etcd : ~IsMappingKey(k)}
    BY DEF Only, MappingKeys
  <1>2. DOMAIN m \subseteq Seq(Name)
    BY <1>1
  <1>3. A = Expand(m)
    BY Zenon DEF AllKeys
  <1> HIDE DEF m
  <1>4. /\ \A q \in DOMAIN A \ {<<>>} : \E k \in ShownKeys(m) : k[1] = q[1]
        /\ \A k \in ShownKeys(m) :
              k \in DOMAIN A /\ (A[<<k[1]>>].kind = "map" <=> k # <<k[1]>>)
    BY <1>2, <1>3, ExpandFacts
  <1>5. AllData = {Root} \cup UNION {NameKeys(A, q[1]) : q \in names}
    BY Zenon DEF AllData
  <1> HIDE DEF A
  <1>6. ASSUME NEW k \in AllData, k \in DOMAIN etcd, IsConfigKey(k)
        PROVE  \E l \in DOMAIN etcd : Len(l) > 1 /\ <<l[1], Metad>> \in Begins
    <2>1. k \in Seq(Name) /\ k # Root /\ k[1] = Metad /\ Len(k) >= 2
      BY <1>6, ConfigFacts
    <2>2. PICK q \in names : k \in NameKeys(A, q[1])
      BY <1>5, <2>1
    <2>3. PICK n : n = q[1]
      OBVIOUS
    <2>4. n # Metad /\ q \in DOMAIN A \ {<<>>} /\ k \in NameKeys(A, n)
      BY <2>2, <2>3
    <2>5. PICK l \in ShownKeys(m) : l[1] = n
      BY <1>4, <2>3, <2>4
    <2>6. k # <<n>>
      BY <2>1, SingleKeys DEF Root
    <2>7. A[<<n>>].kind = "map" /\ StartsWith(k[1], n)
      BY <2>4, <2>6 DEF NameKeys
    <2>8. <<n, Metad>> \in Begins
      BY <2>1, <2>4, <2>7 DEF StartsWith
    <2>9. l # <<n>> /\ l \in DOMAIN etcd /\ l # <<>> /\ l \in Seq(Name)
      BY <1>1, <1>2, <1>4, <2>5, <2>7 DEF ShownKeys
    <2>10. Len(l) > 1
      BY <2>9, <2>5, SingleKeys
    <2> QED
      BY <2>5, <2>8, <2>9, <2>10
  <1>7. ASSUME KeysOK(etcd, Excuses), ~Mixed(etcd), NEW k \in DOMAIN etcd, ~IsConfigKey(k) PROVE k \in AllData
    <2>1. CASE k = Root
      BY <1>5, <2>1
    <2>2. CASE k # Root
      <3>1. k \in Seq(Name) /\ k[1] # Metad
        <4>1. k \in Seq(Name) /\ KeyOK(k, etcd[k], Excuses)
          BY <1>7 DEF KeysOK
        <4> QED
          BY <1>7, <2>2, <4>1, MappingKeyFacts, RuleKeyFacts DEF KeyOK, IsConfigKey
      <3>2. k \in ShownKeys(m)
        BY <1>1, <1>7, <2>2 DEF ShownKeys, Mixed, IsConfigKey, Root
      <3>3. k \in names
        BY <1>4, <2>2, <3>1, <3>2 DEF Root
      <3>4. k \in NameKeys(A, k[1])
        <4>1. CASE k = <<k[1]>>
          BY <1>4, <3>2, <4>1 DEF NameKeys
        <4>2. CASE k # <<k[1]>>
          BY <1>4, <2>2, <3>2, <4>2 DEF NameKeys, StartsWith
        <4> QED
          BY <4>1, <4>2
      <3> QED
        BY <1>5, <3>3, <3>4
    <2> QED
      BY <2>1, <2>2
  <1> QED
    BY <1>6, <1>7

\* The name of a directory of etcd begins "_metad".
Shadowed == \E l \in DOMAIN etcd : Len(l) > 1 /\ <<l[1], Metad>> \in Begins

\* A delete of a directory or a key that is not below /_metad takes no config key, if
\* no directory's name begins "_metad".
LEMMA DirKeysFacts ==
    ASSUME DOMAIN etcd \subseteq Seq(Name), NEW q \in Seq(Name), q # Root => q[1] # Metad, NEW t
    PROVE  /\ \A k \in DOMAIN etcd : IsConfigKey(k) /\ k \in DirKeys(q) => Shadowed
           /\ \A k \in DOMAIN etcd : IsConfigKey(k) /\ k \in DeleteKeys(t, q, q) => Shadowed
  <1>1. ASSUME NEW k \in DOMAIN etcd, IsConfigKey(k), k \in DirKeys(q) PROVE Shadowed
    <2>1. k \in Seq(Name) /\ k # Root /\ k[1] = Metad
      BY <1>1, ConfigFacts
    <2>2. CASE q = Root
      BY <1>1, <2>2, AllDataFacts DEF DirKeys, Shadowed
    <2>3. CASE q # Root
      <3>1. Above(q, k)
        BY <1>1, <2>3 DEF DirKeys
      <3>2. 1 \in 1..Len(q)
        BY <2>3, AboveFacts
      <3>3. q[1] = k[1]
        BY <3>1, <3>2 DEF Above, AtOrAbove
      <3> QED
        BY <2>1, <2>3, <3>3
    <2> QED
      BY <2>2, <2>3
  <1>2. ASSUME NEW k \in DOMAIN etcd, IsConfigKey(k), k \in DeleteKeys(t, q, q) PROVE Shadowed
    <2>1. k \in DirKeys(q) \/ k = q
      BY <1>2 DEF DeleteKeys
    <2>2. k # q
      <3>1. k \in Seq(Name) /\ k # Root /\ k[1] = Metad
        BY <1>2, ConfigFacts
      <3> QED
        BY <3>1
    <2> QED
      BY <1>1, <1>2, <2>1, <2>2
  <1> QED
    BY <1>1, <1>2

\* What a request to delete data names is not below /_metad.
LEMMA TargetFacts ==
    ASSUME NEW r \in DataDelete, NEW q \in DataTargets(r[1], r[2])
    PROVE  q \in Seq(Name) /\ (q # Root => q[1] # Metad)
  <1>1. r[1] \in Seq(Name) /\ r[2] \subseteq Key
    BY ManageAssumption, PathAssumption
  <1>2. q # Root => q[1] # Metad
    BY KeysAssumption
  <1>3. q = r[1] \/ \E s \in r[2] : q = Sub(r[1], s)
    BY DEF DataTargets
  <1>4. ASSUME NEW s \in r[2] PROVE Sub(r[1], s) \in Seq(Name)
    <2>1. Append(r[1], s) \in Seq(Key)
      BY <1>1, KeySeqs, AppendFacts
    <2> QED
      BY <2>1, CleanFacts DEF Sub
  <1> QED
    BY <1>1, <1>2, <1>3, <1>4

\* Subs that are names are children of the path.
LEMMA NamedTargets ==
    ASSUME NEW p \in Seq(Name), NEW S \in SUBSET Name
    PROVE  DataTargets(p, S) = IF S = {} THEN {p} ELSE {Append(p, s) : s \in S}
  <1>1. ASSUME NEW s \in S PROVE Sub(p, s) = Append(p, s)
    <2> DEFINE a == Append(p, s)
    <2>1. a \in Seq(Name) /\ Len(a) \in 0..Len(a) /\ a \in Seq(Key)
      BY KeySeqs, AppendFacts
    <2> HIDE DEF a
    <2>2. \A i \in 1..Len(a) : a[i] \in Name /\ a[i] # DotDot
      BY <2>1, ManageAssumption
    <2>3. Clean(a) = a
      BY <2>1, <2>2, CleanKeeps
    <2> QED
      BY <2>3 DEF Sub, a
  <1> QED
    BY <1>1 DEF DataTargets

\* A request for data changes config keys only if it deletes one.
LEMMA ConfigStays ==
    ASSUME NEW D, NEW f, Plain(f), Commit(D, f),
           \A k \in DOMAIN etcd : IsConfigKey(k) => k \notin D
    PROVE  Config(etcd') = Config(etcd)
  <1>1. etcd' = After(etcd, D, f)
    BY Zenon DEF Commit, Committed, After
  <1>2. DOMAIN etcd' = DOMAIN f \cup (DOMAIN etcd \ D)
    BY <1>1, AfterFacts DEF IsAfter
  <1>3. \A k \in DOMAIN f : ~IsConfigKey(k)
    BY PlainKeys
  <1> QED
    BY <1>2, <1>3 DEF Config

\* The requests say which they are.
LEMMA OtherRequests ==
    ASSUME Next
    PROVE  /\ last'.op = "putData" =>
                 \E r \in DataPut, replace \in BOOLEAN : PutData(r[1], r[2], replace)
           /\ last'.op = "deleteData" => \E r \in DataDelete : DeleteData(r[1], r[2])
  <1>1. \A r \in DataPut, replace \in BOOLEAN :
           PutData(r[1], r[2], replace) => last'.op = "putData"
    BY DEF PutData, Requested
  <1>2. \A r \in DataDelete : DeleteData(r[1], r[2]) => last'.op = "deleteData"
    BY DEF DeleteData, Requested
  <1>3. \A r \in MappingPut, replace \in BOOLEAN :
           PutMapping(r[1], r[2], replace) => last'.op = "putMapping"
    BY DEF PutMapping, Requested
  <1>4. \A r \in MappingDelete : DeleteMapping(r[1], r[2]) => last'.op = "deleteMapping"
    BY DEF DeleteMapping, Requested
  <1>5. \A h \in Ip : PutAccessRule(h) \/ DeleteAccessRule(h) => last'.op = "rule"
    BY DEF PutAccessRule, DeleteAccessRule, Requested
  <1>6. Restart => last'.op = "restart"
    BY DEF Restart
  <1> QED
    BY <1>1, <1>2, <1>3, <1>4, <1>5, <1>6 DEF Next

\* Requests for data leave mappings and rules alone.
THEOREM ConfigIsKept == Spec => ConfigKept
  <1>1. ASSUME Inv, [Next]_vars
        PROVE  [last'.op \in {"putData", "deleteData"} /\ requests' # requests
                  => \/ Config(etcd') = Config(etcd)
                     \/ \E k \in DOMAIN etcd : Len(k) > 1 /\ <<k[1], Metad>> \in Begins]_vars
    <2> SUFFICES ASSUME Next, last'.op \in {"putData", "deleteData"}, requests' # requests,
                        ~Shadowed
                 PROVE  Config(etcd') = Config(etcd)
      BY <1>1 DEF Shadowed
    <2>1. DOMAIN etcd \subseteq Seq(Name)
      BY <1>1 DEF Inv, KeysOK
    <2>2. ASSUME NEW r \in DataPut, NEW replace \in BOOLEAN, PutData(r[1], r[2], replace)
          PROVE  Config(etcd') = Config(etcd)
      <3>1. Put(r[1], r[2], replace)
        BY <2>2 DEF PutData
      <3>2. /\ r[1] \in Seq(Name) /\ (r[1] # Root => r[1][1] # Metad)
            /\ \A v : Plain(Single(r[1], v))
            /\ Plain(FlatPuts(r[1], r[2])) /\ Plain(<<>>)
        BY DataPutKeys, NoKeys
      <3>3. CASE ~IsTree(r[2])
        <4>1. Commit({}, Single(r[1], PutText(r[2])))
          BY <3>1, <3>3, PutCommits
        <4> QED
          BY <3>2, <4>1, ConfigStays
      <3>4. CASE IsTree(r[2])
        <4> DEFINE D == IF replace THEN DirKeys(r[1]) ELSE {}
                   f == IF Clash(r[1], r[2]) THEN <<>> ELSE FlatPuts(r[1], r[2])
        <4>1. Commit(D, f)
          BY <3>1, <3>4, PutCommits
        <4>2. Plain(f)
          BY <3>2
        <4>3. \A k \in DOMAIN etcd : IsConfigKey(k) => k \notin D
          BY <2>1, <3>2, DirKeysFacts
        <4> HIDE DEF D, f
        <4> QED
          BY <4>1, <4>2, <4>3, ConfigStays
      <3> QED
        BY <3>3, <3>4
    <2>3. ASSUME NEW r \in DataDelete, DeleteData(r[1], r[2])
          PROVE  Config(etcd') = Config(etcd)
      <3> DEFINE D == UNION {DeleteKeys(data, q, q) : q \in DataTargets(r[1], r[2])}
      <3>1. Commit(D, <<>>)
        BY <2>3 DEF DeleteData
      <3>2. \A k \in DOMAIN etcd : IsConfigKey(k) => k \notin D
        BY <2>1, TargetFacts, DirKeysFacts
      <3> HIDE DEF D
      <3> QED
        BY <3>1, <3>2, NoKeys, ConfigStays
    <2> QED
      BY <2>2, <2>3, OtherRequests
  <1> QED
    BY <1>1, Invariance, PTL DEF Spec, ConfigKept

-----------------------------------------------------------------------------
(* Deletes and replaces.                                                   *)

\* No key is the directory of another, and the data store has followed etcd.
InStep == Inv /\ mixed = FALSE

\* The data store then shows the texts of etcd's data, none of them a directory.
LEMMA InStepFacts ==
    ASSUME InStep
    PROVE  /\ KeysOK(etcd, Excuses) /\ ~Mixed(etcd) /\ Shown(data) = Held(etcd)
           /\ \A k \in DOMAIN etcd : k # Root /\ ~IsConfigKey(k) =>
                 k \in Seq(Name) /\ k \in DOMAIN data /\ ~IsDir(data, k)
  <1>1. KeysOK(etcd, Excuses) /\ ~Mixed(etcd) /\ Agree(etcd, data) /\ DataOK(data)
    BY DEF InStep, Inv
  <1>2. Shown(data) = Held(etcd)
    BY <1>1, ShownIsHeld
  <1>3. ASSUME NEW k \in DOMAIN etcd, k # Root, ~IsConfigKey(k)
        PROVE  k \in Seq(Name) /\ k \in DOMAIN data /\ ~IsDir(data, k)
    <2> DEFINE V == {l \in DOMAIN data : AtOrAbove(Root, l) /\ ~IsDir(data, l)}
               x == <<k, etcd[k]>>
    <2>1. k \in Seq(Name) /\ k \in DOMAIN data
      BY <1>1, <1>3 DEF KeysOK, Agree
    <2>2. x \in Held(etcd) /\ x[1] = k
      BY <1>3 DEF Held
    <2>3. Visible(data, Root) = {<<q, data[q]>> : q \in V}
      BY Zenon DEF Visible
    <2>4. \A q \in V : ~IsDir(data, q)
      OBVIOUS
    <2> HIDE DEF V, x
    <2>5. x \in Visible(data, Root)
      BY <1>2, <2>2 DEF Shown
    <2>6. PICK q \in V : x = <<q, data[q]>>
      BY <2>3, <2>5
    <2>7. q = k
      BY <2>2, <2>6
    <2> QED
      BY <2>1, <2>4, <2>7
  <1> QED
    BY <1>1, <1>2, <1>3

\* Deleting the directory takes all data below it.
LEMMA DirKeysTake ==
    ASSUME InStep, NEW q \in Seq(Name), NEW k \in DOMAIN etcd, k # Root, ~IsConfigKey(k)
    PROVE  Above(q, k) => k \in DirKeys(q)
  <1>1. CASE q = Root
    BY <1>1, InStepFacts, AllDataFacts DEF DirKeys, KeysOK
  <1>2. CASE q # Root
    BY <1>2 DEF DirKeys
  <1> QED
    BY <1>1, <1>2

\* A delete of a path takes the data at and below it, and no other.
LEMMA DeleteKeysAre ==
    ASSUME InStep, NEW q \in Seq(Name), NEW k \in DOMAIN etcd, k # Root, ~IsConfigKey(k)
    PROVE  k \in DeleteKeys(data, q, q) <=> AtOrAbove(q, k)
  <1>1. k \in Seq(Name) /\ k \in DOMAIN data /\ ~IsDir(data, k)
    BY InStepFacts
  <1>2. ASSUME k \in DeleteKeys(data, q, q) PROVE AtOrAbove(q, k)
    <2>1. k = q \/ k \in DirKeys(q)
      BY <1>2 DEF DeleteKeys
    <2>2. CASE q = Root
      BY <1>1, <2>2, AboveFacts
    <2>3. CASE q # Root
      BY <1>1, <2>1, <2>3, AboveFacts DEF DirKeys, Above
    <2> QED
      BY <2>2, <2>3
  <1>3. ASSUME AtOrAbove(q, k) PROVE k \in DeleteKeys(data, q, q)
    <2>1. Found(data, q)
      <3> DEFINE V == {l \in DOMAIN data : AtOrAbove(q, l) /\ ~IsDir(data, l)}
      <3>1. k \in V
        BY <1>1, <1>3
      <3>2. Visible(data, q) = {<<l, data[l]>> : l \in V}
        BY Zenon DEF Visible
      <3> HIDE DEF V
      <3> QED
        BY <3>1, <3>2 DEF Found
    <2>2. CASE q = k
      BY <1>1, <2>1, <2>2 DEF DeleteKeys
    <2>3. CASE q # k
      <3>1. Above(q, k)
        BY <1>3, <2>3 DEF Above
      <3>2. IsDir(data, q)
        BY <1>1, <3>1 DEF IsDir
      <3> QED
        BY <2>1, <3>1, <3>2, DirKeysTake DEF DeleteKeys
    <2> QED
      BY <2>2, <2>3
  <1> QED
    BY <1>2, <1>3

\* After a commit that leaves no key the directory of another, the data store shows
\* the texts put and those that were not deleted.
LEMMA ShownAfter ==
    ASSUME InStep, NEW D, NEW f, Plain(f), Commit(D, f), Inv', mixed' = FALSE
    PROVE  /\ Shown(data)' = Held(etcd')
           /\ \A k : k \in DOMAIN etcd' <=> k \in DOMAIN f \/ (k \in DOMAIN etcd /\ k \notin D)
           /\ \A k \in DOMAIN etcd' : etcd'[k] = IF k \in DOMAIN f THEN f[k] ELSE etcd[k]
  <1>1. Shown(data)' = Held(etcd')
    <2>1. KeysOK(etcd', Excuses') /\ ~Mixed(etcd') /\ Agree(etcd', data') /\ DataOK(data')
      BY DEF Inv
    <2>2. Shown(data') = Held(etcd')
      BY <2>1, ShownIsHeld
    <2> QED
      BY <2>2
  <1>2. etcd' = After(etcd, D, f)
    BY Zenon DEF Commit, Committed, After
  <1>3. IsAfter(etcd', etcd, D, f)
    BY <1>2, AfterFacts
  <1>4. /\ \A k : k \in DOMAIN etcd' <=> k \in DOMAIN f \/ (k \in DOMAIN etcd /\ k \notin D)
        /\ \A k \in DOMAIN etcd' : etcd'[k] = IF k \in DOMAIN f THEN f[k] ELSE etcd[k]
    BY <1>3 DEF IsAfter
  <1> QED
    BY <1>1, <1>4

\* A delete of data takes what it names and nothing else.
THEOREM DeletesAreExact == Spec => DeleteExact
  <1> DEFINE named(p, S) == IF S = {} THEN {p} ELSE {Append(p, s) : s \in S}
  <1>1. ASSUME Inv, [Next]_vars
        PROVE  [last'.op = "deleteData" /\ requests' # requests /\ ~mixed
                  /\ last'.subs \subseteq Name
                  => Shown(data') = {l \in Shown(data) : \A q \in named(last'.path, last'.subs) :
                                                            ~AtOrAbove(q, l[1])}]_vars
    <2> SUFFICES ASSUME Next, last'.op = "deleteData", requests' # requests, ~mixed,
                        last'.subs \subseteq Name
                 PROVE  Shown(data') =
                          {l \in Shown(data) : \A q \in named(last'.path, last'.subs) :
                                                  ~AtOrAbove(q, l[1])}
      BY <1>1
    <2> HIDE DEF named
    <2>1. InStep
      BY <1>1 DEF InStep, Inv
    <2>2. \E r \in DataDelete : DeleteData(r[1], r[2])
      BY OtherRequests
    <2>3. PICK r \in DataDelete : DeleteData(r[1], r[2])
      BY <2>2
    <2> DEFINE T == DataTargets(r[1], r[2])
               D == UNION {DeleteKeys(data, q, q) : q \in T}
    <2>4. Commit(D, <<>>) /\ last'.path = r[1] /\ last'.subs = r[2]
      BY <2>3 DEF DeleteData, Requested
    <2>5. ASSUME NEW k \in DOMAIN etcd, k # Root, ~IsConfigKey(k)
          PROVE  k \in D <=> \E q \in T : AtOrAbove(q, k)
      <3>1. \A q \in T : k \in DeleteKeys(data, q, q) <=> AtOrAbove(q, k)
        BY <2>1, <2>5, TargetFacts, DeleteKeysAre
      <3> QED
        BY <3>1
    <2> HIDE DEF D
    <2>6. Inv'
      BY <1>1, InvNext
    <2>7. mixed' = FALSE
      <3>1. DOMAIN etcd' \subseteq DOMAIN etcd
        <4>1. etcd' = After(etcd, D, <<>>)
          BY <2>4, Zenon DEF Commit, Committed, After
        <4>2. IsAfter(etcd', etcd, D, <<>>)
          BY <4>1, AfterFacts
        <4>3. DOMAIN <<>> = {}
          OBVIOUS
        <4> QED
          BY <4>2, <4>3 DEF IsAfter
      <3>2. ~Mixed(etcd)
        BY <2>1, InStepFacts
      <3>3. ~Mixed(etcd')
        BY <3>1, <3>2 DEF Mixed
      <3> QED
        BY <2>1, <2>4, <3>3 DEF Commit, InStep
    <2>8. /\ Shown(data') = Held(etcd')
          /\ \A k : k \in DOMAIN etcd' <=> k \in DOMAIN etcd /\ k \notin D
          /\ \A k \in DOMAIN etcd' : etcd'[k] = etcd[k]
      <3>1. DOMAIN <<>> = {} /\ Plain(<<>>)
        BY NoKeys
      <3>2. Shown(data)' = Shown(data')
        OBVIOUS
      <3> QED
        BY <2>1, <2>4, <2>6, <2>7, <3>1, <3>2, ShownAfter
    <2>9. Shown(data) = Held(etcd)
      BY <2>1, InStepFacts
    <2> HIDE DEF T
    <2>10. Held(etcd') = {l \in Held(etcd) : \A q \in T : ~AtOrAbove(q, l[1])}
      <3>1. ASSUME NEW l \in Held(etcd') PROVE l \in Held(etcd) /\ \A q \in T : ~AtOrAbove(q, l[1])
        <4>1. PICK k \in DOMAIN etcd' : k # Root /\ ~IsConfigKey(k) /\ l = <<k, etcd'[k]>>
          BY DEF Held
        <4>2. k \in DOMAIN etcd /\ k \notin D /\ l = <<k, etcd[k]>> /\ l[1] = k
          BY <2>8, <4>1
        <4> QED
          BY <2>5, <4>1, <4>2 DEF Held
      <3>2. ASSUME NEW l \in Held(etcd), \A q \in T : ~AtOrAbove(q, l[1]) PROVE l \in Held(etcd')
        <4>1. PICK k \in DOMAIN etcd : k # Root /\ ~IsConfigKey(k) /\ l = <<k, etcd[k]>>
          BY DEF Held
        <4>2. l[1] = k /\ k \notin D
          BY <2>5, <3>2, <4>1
        <4>3. k \in DOMAIN etcd' /\ l = <<k, etcd'[k]>>
          BY <2>8, <4>1, <4>2
        <4> QED
          BY <4>1, <4>3 DEF Held
      <3> QED
        BY <3>1, <3>2
    <2>11. T = named(last'.path, last'.subs)
      <3>1. r[1] \in Seq(Name)
        BY ManageAssumption, PathAssumption
      <3> QED
        BY <2>4, <3>1, NamedTargets DEF T, named
    <2> QED
      BY <2>8, <2>9, <2>10, <2>11
  <1>2. DeleteExact <=> [][last'.op = "deleteData" /\ requests' # requests /\ ~mixed
                  /\ last'.subs \subseteq Name
                  => Shown(data') = {l \in Shown(data) : \A q \in named(last'.path, last'.subs) :
                                                            ~AtOrAbove(q, l[1])}]_vars
    BY Zenon DEF DeleteExact
  <1> QED
    BY <1>1, <1>2, Invariance, PTL DEF Spec

\* A POST of an object replaces what is shown below its path.
THEOREM PostsReplace == Spec => []PostReplaces
  <1>1. Init => PostReplaces
    BY DEF Init, PostReplaces, NoRequest
  <1>2. ASSUME Inv, PostReplaces, [Next]_vars PROVE PostReplaces'
    <2>1. CASE UNCHANGED vars
      <3>1. last' = last /\ mixed' = mixed /\ data' = data
        BY <2>1 DEF vars
      <3> QED
        BY <1>2, <3>1, Zenon DEF PostReplaces
    <2>2. CASE Next
      <3> SUFFICES ASSUME last'.op = "putData", ~mixed', last'.replace,
                          IsTree(last'.body), ~Clash(last'.path, last'.body)
                   PROVE  /\ {l \in Shown(data') : Above(last'.path, l[1])}
                               \subseteq Puts(last'.path, last'.body)
                          /\ {l \in Puts(last'.path, last'.body) : l[1] # Root}
                               \subseteq Shown(data')
        BY DEF PostReplaces
      <3>1. \E r \in DataPut, replace \in BOOLEAN : PutData(r[1], r[2], replace)
        BY <2>2, OtherRequests
      <3>2. PICK r \in DataPut, replace \in BOOLEAN : PutData(r[1], r[2], replace)
        BY <3>1
      <3> DEFINE p == r[1]
                 b == r[2]
                 f == FlatPuts(p, b)
                 D == DirKeys(p)
      <3>3. last'.path = p /\ last'.body = b /\ last'.replace = replace /\ Put(p, b, replace)
        BY <3>2 DEF PutData, Requested
      <3>4. IsTree(b) /\ ~Clash(p, b) /\ replace
        BY <3>3
      <3>5. Commit(D, f)
        BY <3>3, <3>4, PutCommits
      <3>6. p \in Seq(Name) /\ Json(b) /\ Plain(f)
        BY DataPutKeys
      <3> HIDE DEF p, b
      <3>7. /\ \A k \in DOMAIN f : \E q \in Entries(b) : k = KeyAt(p, q) /\ f[k] = b[q].text
            /\ \A q \in Entries(b) : KeyAt(p, q) \in DOMAIN f /\ f[KeyAt(p, q)] = b[q].text
        BY <3>4, FlatPutsFacts
      <3> HIDE DEF f, D
      <3>8. Inv' /\ mixed' = FALSE /\ InStep
        <4>2. Inv' /\ Inv
          BY <1>2, InvNext
        <4>3. mixed' = FALSE
          BY <4>2 DEF Inv
        <4>4. mixed = FALSE
          BY <3>5, <4>2, <4>3 DEF Commit, Inv
        <4> QED
          BY <4>2, <4>3, <4>4 DEF InStep
      <3>9. /\ Shown(data') = Held(etcd')
            /\ \A k : k \in DOMAIN etcd' <=> k \in DOMAIN f \/ (k \in DOMAIN etcd /\ k \notin D)
            /\ \A k \in DOMAIN etcd' : etcd'[k] = IF k \in DOMAIN f THEN f[k] ELSE etcd[k]
        <4>1. Shown(data)' = Shown(data')
          OBVIOUS
        <4> QED
          BY <3>5, <3>6, <3>8, <4>1, ShownAfter
      <3> DEFINE R == Puts(p, b)
      <3>10. R = {<<KeyAt(p, q), b[q].text>> : q \in Entries(b)}
        BY FlatPairs, Zenon DEF EntryKeys
      <3> HIDE DEF R
      <3>11. ASSUME NEW l \in Held(etcd'), Above(p, l[1]) PROVE l \in R
        <4>1. PICK k \in DOMAIN etcd' : k # Root /\ ~IsConfigKey(k) /\ l = <<k, etcd'[k]>>
          BY DEF Held
        <4>2. l[1] = k
          BY <4>1
        <4>3. k \in DOMAIN f
          <5>1. k \in DOMAIN etcd => k \in D
            BY <3>6, <3>8, <3>11, <4>1, <4>2, DirKeysTake DEF D
          <5> QED
            BY <3>9, <5>1
        <4>4. PICK q \in Entries(b) : k = KeyAt(p, q) /\ f[k] = b[q].text
          BY <3>7, <4>3
        <4>5. l = <<KeyAt(p, q), b[q].text>>
          BY <3>9, <4>1, <4>3, <4>4
        <4> QED
          BY <3>10, <4>5
      <3>12. ASSUME NEW l \in R, l[1] # Root PROVE l \in Held(etcd')
        <4>1. PICK q \in Entries(b) : l = <<KeyAt(p, q), b[q].text>>
          BY <3>10
        <4> DEFINE k == KeyAt(p, q)
        <4>2. k \in DOMAIN f /\ f[k] = b[q].text /\ l = <<k, b[q].text>> /\ l[1] = k
          BY <3>7, <4>1
        <4> HIDE DEF k
        <4>3. ~IsConfigKey(k)
          BY <3>6, <4>2, PlainKeys
        <4>4. k \in DOMAIN etcd' /\ l = <<k, etcd'[k]>> /\ k # Root
          BY <3>9, <3>12, <4>2
        <4> QED
          BY <4>3, <4>4 DEF Held
      <3> QED
        BY <3>3, <3>9, <3>11, <3>12 DEF R
    <2> QED
      BY <1>2, <2>1, <2>2
  <1> QED
    BY <1>1, <1>2, Invariance, PTL DEF Spec

-----------------------------------------------------------------------------
(* Expand undoes Flatten.                                                  *)

\* The texts of a value as a map, place by place.
LEMMA AsMapFacts ==
    ASSUME NEW b
    PROVE  /\ DOMAIN AsMap(Flatten(b)) = Entries(b)
           /\ \A q \in Entries(b) : AsMap(Flatten(b))[q] = b[q].text
  <1> DEFINE P == Flatten(b)
             F == AsMap(P)
  <1>1. P = {<<q, b[q].text>> : q \in Entries(b)}
    BY Zenon DEF Flatten, Entries
  <1> HIDE DEF P
  <1>2. F = [p \in {e[1] : e \in P} |-> (CHOOSE e \in P : e[1] = p)[2]]
    BY Zenon DEF AsMap
  <1>3. ASSUME NEW e \in P PROVE e[1] \in Entries(b) /\ e[2] = b[e[1]].text
    <2>1. PICK q \in Entries(b) : e = <<q, b[q].text>>
      BY <1>1
    <2> QED
      BY <2>1
  <1>4. ASSUME NEW q \in Entries(b) PROVE \E e \in P : e[1] = q
    <2> DEFINE e == <<q, b[q].text>>
    <2>1. e \in P /\ e[1] = q
      BY <1>1
    <2> HIDE DEF e
    <2> QED
      BY <2>1
  <1>5. {e[1] : e \in P} = Entries(b)
    BY <1>3, <1>4
  <1>6. ASSUME NEW q \in Entries(b) PROVE F[q] = b[q].text
    <2> DEFINE e == CHOOSE x \in P : x[1] = q
    <2>1. e \in P /\ e[1] = q
      BY <1>4
    <2>2. F[q] = e[2]
      BY <1>2, <1>5
    <2> HIDE DEF e
    <2> QED
      BY <1>3, <2>1, <2>2
  <1>7. DOMAIN F = Entries(b)
    BY <1>2, <1>5
  <1> QED
    BY <1>6, <1>7 DEF P

\* A sequence and its prefixes.
LEMMA PrefixFacts ==
    ASSUME NEW S, NEW k \in Seq(S)
    PROVE  /\ \A n \in 0..Len(k) : /\ AtOrAbove(SubSeq(k, 1, n), k)
                                   /\ SubSeq(k, 1, n) # <<>> => SubSeq(k, 1, n)[1] = k[1]
           /\ \A p \in Seq(S) : AtOrAbove(p, k) =>
                 Len(p) \in 0..Len(k) /\ p = SubSeq(k, 1, Len(p))
           /\ SubSeq(k, 1, Len(k)) = k /\ Len(k) \in 0..Len(k)
  <1>0. Len(k) \in Nat
    OBVIOUS
  <1>1. ASSUME NEW n \in 0..Len(k)
        PROVE  /\ SubSeq(k, 1, n) \in Seq(S)
               /\ Len(SubSeq(k, 1, n)) = n
               /\ \A i \in 1..n : SubSeq(k, 1, n)[i] = k[i]
    BY <1>0
  <1>2. ASSUME NEW n \in 0..Len(k)
        PROVE  /\ AtOrAbove(SubSeq(k, 1, n), k)
               /\ SubSeq(k, 1, n) # <<>> => SubSeq(k, 1, n)[1] = k[1]
    <2> DEFINE s == SubSeq(k, 1, n)
    <2>1. s \in Seq(S) /\ Len(s) = n /\ \A i \in 1..n : s[i] = k[i]
      BY <1>1
    <2> HIDE DEF s
    <2>2. AtOrAbove(s, k)
      BY <1>0, <2>1 DEF AtOrAbove
    <2>3. s # <<>> => s[1] = k[1]
      <3>1. s # <<>> => n # 0
        BY <2>1
      <3> QED
        BY <2>1, <3>1
    <2> QED
      BY <2>2, <2>3 DEF s
  <1>3. ASSUME NEW p \in Seq(S), AtOrAbove(p, k)
        PROVE  Len(p) \in 0..Len(k) /\ p = SubSeq(k, 1, Len(p))
    <2>1. Len(p) \in Nat /\ Len(p) <= Len(k) /\ \A i \in 1..Len(p) : p[i] = k[i]
      BY <1>3 DEF AtOrAbove
    <2>2. Len(p) \in 0..Len(k)
      BY <1>0, <2>1
    <2> DEFINE s == SubSeq(k, 1, Len(p))
    <2>3. s \in Seq(S) /\ Len(s) = Len(p) /\ \A i \in 1..Len(p) : s[i] = k[i]
      BY <1>1, <2>2
    <2> HIDE DEF s
    <2>4. p = s
      BY <2>1, <2>3, SeqEqual
    <2> QED
      BY <2>2, <2>4 DEF s
  <1>4. AtOrAbove(k, k) /\ Len(k) \in 0..Len(k)
    BY <1>0, AboveFacts
  <1> QED
    BY <1>2, <1>3, <1>4

\* Flatten loses the lists, the nulls, the objects without a text and what is below an
\* empty key at the top, and nothing else: Expand has all the rest.
THEOREM ExpandUndoesFlatten ==
    ASSUME NEW K, NEW V, NEW b, IsJson(b, K, V), IsTree(b)
    PROVE  RoundTrip(b)
  <1> DEFINE m == AsMap(Flatten(b))
             E == Entries(b)
             c == Named(b)
             X == {<<>>} \cup UNION {{SubSeq(k, 1, n) : n \in 0..Len(k)} : k \in E}
             Y == {<<>>} \cup {p \in DOMAIN c : \E r \in E : AtOrAbove(p, r)}
  <1>1. DOMAIN m = E /\ \A q \in E : m[q] = b[q].text
    BY AsMapFacts
  <1>2. /\ <<>> \in DOMAIN b /\ DOMAIN b \subseteq Seq(K)
        /\ \A q \in DOMAIN b : \A n \in 0..Len(q) : SubSeq(q, 1, n) \in DOMAIN b
        /\ \A p, q \in DOMAIN b : Above(p, q) => b[p].kind \in {"map", "list"}
        /\ b[<<>>].kind \in {"map", "list"}
    BY DEF IsJson, IsTree
  <1>3. \A q \in E : /\ q \in DOMAIN b /\ q \in Seq(K) /\ q # <<>> /\ q[1] # EmptyKey
                     /\ b[q].kind \in {"text", "null"}
    BY <1>2 DEF Entries, Leaves
  <1>4. ShownKeys(m) = E
    <2>1. \A k, l \in E : ~Above(l, k)
      BY <1>2, <1>3
    <2> HIDE DEF m, E
    <2> QED
      BY <1>1, <1>3, <2>1 DEF ShownKeys
  <1>5. /\ DOMAIN c = {r \in DOMAIN b : r = <<>> \/ r[1] # EmptyKey}
        /\ \A q \in DOMAIN c : c[q] = b[q]
    BY DEF Named
  <1>6. Leaves(c) = E
    <2> HIDE DEF c
    <2> QED
      BY <1>2, <1>5 DEF Leaves, Entries
  <1>7. Expand(m) = [q \in X |-> IF q \in E THEN TextNode(m[q]) ELSE MapNode]
    <2>1. Expand(m) = [q \in {<<>>} \cup UNION {{SubSeq(k, 1, n) : n \in 0..Len(k)} : k \in ShownKeys(m)} |->
                         IF q \in ShownKeys(m) THEN TextNode(m[q]) ELSE MapNode]
      BY Zenon DEF Expand, ShownKeys
    <2> HIDE DEF m, E
    <2> QED
      BY <1>4, <2>1, Zenon
  <1>8. Normal(c) = [q \in Y |-> IF q \in E THEN TextNode(c[q].text) ELSE MapNode]
    <2>1. Normal(c) = [q \in {<<>>} \cup {p \in DOMAIN c : \E r \in Leaves(c) : AtOrAbove(p, r)} |->
                         IF q \in Leaves(c) THEN TextNode(c[q].text) ELSE MapNode]
      BY Zenon DEF Normal
    <2> HIDE DEF c, E
    <2> QED
      BY <1>6, <2>1, Zenon
  <1> HIDE DEF m, E, c
  <1>9. ASSUME NEW q \in X PROVE q \in Y
    <2>1. CASE q = <<>>
      BY <2>1
    <2>2. CASE q # <<>>
      <3>1. PICK k \in E : \E n \in 0..Len(k) : q = SubSeq(k, 1, n)
        BY <2>2
      <3>2. PICK n \in 0..Len(k) : q = SubSeq(k, 1, n)
        BY <3>1
      <3>3. q \in DOMAIN b
        BY <1>2, <1>3, <3>2
      <3>4. AtOrAbove(q, k) /\ q[1] = k[1]
        BY <1>3, <2>2, <3>2, PrefixFacts
      <3> QED
        BY <1>3, <1>5, <3>3, <3>4
    <2> QED
      BY <2>1, <2>2
  <1>10. ASSUME NEW q \in Y PROVE q \in X
    <2>1. CASE q = <<>>
      BY <2>1
    <2>2. CASE q # <<>>
      <3>1. PICK r \in E : q \in DOMAIN c /\ AtOrAbove(q, r)
        BY <2>2
      <3>2. q \in Seq(K) /\ r \in Seq(K)
        BY <1>2, <1>3, <1>5, <3>1
      <3>3. Len(q) \in 0..Len(r) /\ q = SubSeq(r, 1, Len(q))
        BY <3>1, <3>2, PrefixFacts
      <3>4. \A n \in 0..Len(r) : SubSeq(r, 1, n) \in X
        OBVIOUS
      <3> HIDE DEF X
      <3>5. SubSeq(r, 1, Len(q)) \in X
        BY <3>3, <3>4
      <3> QED
        BY <3>3, <3>5, Zenon
    <2> QED
      BY <2>1, <2>2
  <1>11. X = Y
    BY <1>9, <1>10
  <1>12. \A q \in E : m[q] = c[q].text
    BY <1>1, <1>3, <1>5
  <1> HIDE DEF X, Y
  <1>13. Expand(m) = Normal(c)
    BY <1>7, <1>8, <1>11, <1>12
  <1> QED
    BY <1>13, Zenon DEF RoundTrip, m, c

=============================================================================
