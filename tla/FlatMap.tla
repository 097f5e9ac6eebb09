------------------------------ MODULE FlatMap ------------------------------
(***************************************************************************)
(* util/flatmap: Flatten turns the JSON value of a request into one text   *)
(* per path, the keys of etcd and of the store; Expand is its reverse.     *)
(*                                                                         *)
(* A value is a function from the places in it, sequences of keys, to what *)
(* is there: <<>> is the value itself, <<"a", "0">> the first element of   *)
(* the list at its key "a".  Keys are names, but also "", "." and "..".    *)
(* Numbers and booleans are the texts that they are formatted as.          *)
(*                                                                         *)
(* The operators say at once what the recursion of the code collects step  *)
(* by step; module FlatOps has that recursion.                             *)
(***************************************************************************)
EXTENDS Paths

CONSTANTS
    EmptyKey,       \* the key ""
    Dot, DotDot,    \* the keys "." and ".."
    IndexName,      \* the keys "0", "1", ... of a list's elements
    Nil             \* the empty string, the text of null

\* What is at a place.
TextNode(x) == [kind |-> "text", text |-> x]
NullNode    == [kind |-> "null", text |-> Nil]
MapNode     == [kind |-> "map",  text |-> Nil]
ListNode    == [kind |-> "list", text |-> Nil]

\* Values from the values of their keys or elements.
Text(x) == [q \in {<<>>} |-> TextNode(x)]
Null    == [q \in {<<>>} |-> NullNode]
Map(f)  ==
    [q \in {<<>>} \cup UNION {{<<k>> \o r : r \in DOMAIN f[k]} : k \in DOMAIN f} |->
        IF q = <<>> THEN MapNode ELSE f[Head(q)][Tail(q)]]
List(s) ==
    [q \in {<<>>} \cup UNION {{<<IndexName[i]>> \o r : r \in DOMAIN s[i]} : i \in DOMAIN s} |->
        IF q = <<>> THEN ListNode
        ELSE s[CHOOSE i \in DOMAIN s : IndexName[i] = Head(q)][Tail(q)]]

IsMap(b)  == b[<<>>].kind = "map"
IsTree(b) == b[<<>>].kind \in {"map", "list"}

\* JSON values with keys in K and texts in V: only objects and lists have values
\* below them.
IsJson(b, K, V) ==
    /\ <<>> \in DOMAIN b
    /\ DOMAIN b \subseteq Seq(K)
    /\ \A q \in DOMAIN b :
          /\ b[q] \in {TextNode(x) : x \in V} \cup {NullNode, MapNode, ListNode}
          /\ \A n \in 0..Len(q) : SubSeq(q, 1, n) \in DOMAIN b
    /\ \A p, q \in DOMAIN b : Above(p, q) => b[p].kind \in {"map", "list"}

Leaves(b) == {q \in DOMAIN b : b[q].kind \in {"text", "null"}}

\* Mutant: lists are formatted as they are.
FlattenListAsText(b) ==
    {<<q, b[q].text>> : q \in {r \in DOMAIN b :
        /\ b[r].kind \in {"text", "null", "list"}
        /\ r # <<>> /\ r[1] # EmptyKey
        /\ \A p \in DOMAIN b : Above(p, r) => b[p].kind # "list" \/ p = <<>>}}

\* The texts, as pairs of a path and its text.  "skip empty key node", at the top
\* only: below it the prefix is not empty.
Flatten(b) ==
    {<<q, b[q].text>> : q \in {r \in Leaves(b) : r # <<>> /\ r[1] # EmptyKey}}

-----------------------------------------------------------------------------
\* Expand(m, "/"): an object at every proper prefix of a key, and a text at the
\* key; a path with a text hides the paths below it.  A text at "/" hides nothing:
\* it would be the value of an empty key.
Expand(m) ==
    LET keys  == DOMAIN m \ {<<>>}
        shown == {k \in keys : \A l \in keys : ~Above(l, k)}
    IN  [q \in {<<>>} \cup UNION {{SubSeq(k, 1, n) : n \in 0..Len(k)} : k \in shown} |->
            IF q \in shown THEN TextNode(m[q]) ELSE MapNode]

\* A set of pairs in which no path has two texts, as a function.
AsMap(pairs) ==
    [p \in {e[1] : e \in pairs} |-> (CHOOSE e \in pairs : e[1] = p)[2]]

-----------------------------------------------------------------------------
\* What is left of a value: lists are maps with numbers for keys, null is the
\* empty string, and an object without a text in it is not there.
Normal(b) ==
    [q \in {<<>>} \cup {p \in DOMAIN b : \E r \in Leaves(b) : AtOrAbove(p, r)} |->
        IF q \in Leaves(b) THEN TextNode(b[q].text) ELSE MapNode]

\* The object without its empty key.
Named(b) == [q \in {r \in DOMAIN b : r = <<>> \/ r[1] # EmptyKey} |-> b[q]]

\* Expand undoes Flatten, up to what a flat map cannot tell ("if origin map include
\* slice, Expand(Flatten(map)) will lose the slice info").
RoundTrip(b) == Expand(AsMap(Flatten(b))) = Normal(Named(b))

=============================================================================
