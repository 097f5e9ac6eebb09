------------------------------ MODULE Reading ------------------------------
(***************************************************************************)
(* MetadataRepo.Root and Self (metadata/metarepo.go): a request finds the  *)
(* rules of its host, opens a traveller on the data store, which holds     *)
(* worldLock for reading until Close, and reads what the rules let it.     *)
(* Data, rules and mapping change between its steps.                       *)
(***************************************************************************)
EXTENDS Access

CONSTANTS
    Host,
    RuleLists,      \* the rules that a host may be given
    InitialRules,   \* the rules a host may have after the first sync
    InitialTrees,   \* the data there may be after the first sync
    Mappings,       \* what a host may be mapped to, sets of data paths
    NoRules,        \* accessStore has no entry for the host
    NoMapping,      \* the mapping store has none
    MaxChanges      \* bound on changes of data, rules and mapping

ASSUME ReadingAssumption ==
    /\ Wild \notin Name
    /\ NoNode \notin Seq(Name \cup {Wild})
    /\ RuleLists \subseteq Seq(Rule)
    /\ InitialRules \subseteq Seq(Rule) \cup {NoRules} /\ NoRules \notin Seq(Rule)
    /\ \A t \in InitialTrees : TreeOK(t)
    /\ NoMapping \notin Mappings
    /\ \A M \in Mappings : M # {} /\ M \subseteq Path
    /\ MaxChanges \in Nat

VARIABLES
    tree,       \* the data store's nodes
    rules,      \* accessStore: the list that the host's access tree is made from
    mapping,    \* the mapping store
    changes,
    pc,         \* where a host's request is
    ask,        \* what it asks for: a path, or its own data
    under,      \* the rules whose access tree it uses
    tr,         \* its traveller
    links,      \* the mapping that self read
    left,       \* the links that are still to be read
    way,        \* the components that Enter has still to enter
    step,       \* how many nodes Enter, or GetValue, has gone down
    todo,       \* the children that the loops of GetValue have still to enter
    got         \* the leaves read so far

request == <<pc, ask, under, tr, links, left, way, step, todo, got>>
vars == <<tree, rules, mapping, changes, request>>

Ask == [self : BOOLEAN, path : Path]
NoAsk == [self |-> FALSE, path |-> Root]

AccessOf(h) == NewAccessTree(under[h])

\* The traveller is open: its host's request is a reader of worldLock.
Open(h) == pc[h] \in {"enter", "value", "self", "links", "enterLink", "valueLink", "close"}

\* In Enter, of the path asked for or of a link, and in GetValue after it.
Entering(h) == pc[h] \in {"enter", "enterLink"}
Valuing(h)  == pc[h] \in {"value", "valueLink"}

\* Nothing is left to read; the deferred Close is next.
Finished(h) == pc[h] = "close" \/ (pc[h] = "links" /\ left[h] = {})

Init ==
    /\ tree \in InitialTrees
    /\ rules \in [Host -> InitialRules]
    /\ mapping \in [Host -> Mappings \cup {NoMapping}]
    /\ changes = 0
    /\ pc = [h \in Host |-> "idle"]
    /\ ask = [h \in Host |-> NoAsk]
    /\ under = [h \in Host |-> <<>>]
    /\ tr = [h \in Host |-> AtRoot(NewAccessTree(<<>>))]
    /\ links = [h \in Host |-> {}]
    /\ left = [h \in Host |-> {}]
    /\ way = [h \in Host |-> <<>>]
    /\ step = [h \in Host |-> 0]
    /\ todo = [h \in Host |-> {}]
    /\ got = [h \in Host |-> {}]

-----------------------------------------------------------------------------
(* The syncs.  A writer of the data store waits for every open traveller.  *)

Change == changes < MaxChanges /\ changes' = changes + 1 /\ UNCHANGED request

PutData(p, v) ==
    /\ Change
    /\ \A h \in Host : ~Open(h)
    /\ tree' = PutTree(tree, p, v)
    /\ UNCHANGED <<rules, mapping>>

DeleteData(p) ==
    /\ Change
    /\ \A h \in Host : ~Open(h)
    /\ Present(tree, p)
    /\ tree' = RemoveTree(tree, {}, p)
    /\ UNCHANGED <<rules, mapping>>

\* accessStore.Put and Delete replace the host's tree; a traveller that is open
\* keeps the one it has.  A list that cannot be decoded is put as an empty one.
PutRules(h, rs) ==
    /\ Change
    /\ rules' = [rules EXCEPT ![h] = rs]
    /\ UNCHANGED <<tree, mapping>>

DeleteRules(h) ==
    /\ Change
    /\ rules[h] # NoRules
    /\ rules' = [rules EXCEPT ![h] = NoRules]
    /\ UNCHANGED <<tree, mapping>>

ChangeMapping(h, M) ==
    /\ Change
    /\ mapping[h] # M
    /\ mapping' = [mapping EXCEPT ![h] = M]
    /\ UNCHANGED <<tree, rules>>

-----------------------------------------------------------------------------
(* A request. *)

Go(h, at) == pc' = [pc EXCEPT ![h] = at]

Shared == <<tree, rules, mapping, changes>>

Request(h, a) ==
    /\ pc[h] = "idle"
    /\ Go(h, "rules")
    /\ ask' = [ask EXCEPT ![h] = a]
    /\ UNCHANGED <<Shared, under, tr, links, left, way, step, todo, got>>

\* getAccessTree asks the access store first.
GetRules(h) ==
    /\ pc[h] = "rules"
    /\ IF rules[h] # NoRules
       THEN Go(h, "open") /\ under' = [under EXCEPT ![h] = rules[h]]
       ELSE Go(h, "mapping") /\ UNCHANGED under
    /\ UNCHANGED <<Shared, ask, tr, links, left, way, step, todo, got>>

\* Otherwise every path the host is mapped to is a rule that lets it read.
GetRulesOfMapping(h) ==
    /\ pc[h] = "mapping"
    /\ IF mapping[h] # NoMapping
       THEN /\ Go(h, "open")
            /\ \E s \in SetToSeqs(mapping[h]) :
                  under' = [under EXCEPT ![h] =
                              [i \in DOMAIN s |-> [path |-> s[i], mode |-> Read]]]
            /\ UNCHANGED ask
       ELSE Go(h, "idle") /\ ask' = [ask EXCEPT ![h] = NoAsk] /\ UNCHANGED under
    /\ UNCHANGED <<Shared, tr, links, left, way, step, todo, got>>

\* Root goes on to Enter the path asked for, Self to read the mapping.
OpenTraveller(h) ==
    /\ pc[h] = "open"
    /\ Go(h, IF ask[h].self THEN "self" ELSE "enter")
    /\ tr' = [tr EXCEPT ![h] = AtRoot(AccessOf(h))]
    /\ way' = [way EXCEPT ![h] = ask[h].path]
    /\ UNCHANGED <<Shared, ask, under, links, left, step, todo, got>>

\* One round of the loop in Enter; a refusal takes the traveller back to where
\* Enter began, and ends a Root, or this link.
EnterNext(h) ==
    /\ Entering(h)
    /\ way[h] # <<>>
    /\ IF CanEnter(tree, AccessOf(h), tr[h], Head(way[h]))
       THEN /\ tr' = [tr EXCEPT ![h] = EnterChild(AccessOf(h), @, Head(way[h]))]
            /\ way' = [way EXCEPT ![h] = Tail(@)]
            /\ step' = [step EXCEPT ![h] = @ + 1]
            /\ UNCHANGED pc
       ELSE /\ tr' = [tr EXCEPT ![h] = BackStep(@, step[h])]
            /\ way' = [way EXCEPT ![h] = <<>>]
            /\ step' = [step EXCEPT ![h] = 0]
            /\ Go(h, IF pc[h] = "enter" THEN "close" ELSE "links")
    /\ UNCHANGED <<Shared, ask, under, links, left, todo, got>>

\* What a call of GetValue at p starts with: a loop over the children, or a value.
Loop(p)   == IF IsDir(tree, p) THEN Children(tree, p) ELSE {}
LeafAt(p) == IF IsDir(tree, p) THEN {} ELSE {<<p, tree[p].val>>}

\* Enter is through: GetValue is called.
StartValue(h) ==
    /\ Entering(h)
    /\ way[h] = <<>>
    /\ Go(h, IF pc[h] = "enter" THEN "value" ELSE "valueLink")
    /\ step' = [step EXCEPT ![h] = 0]
    /\ todo' = [todo EXCEPT ![h] = Loop(tr[h].at)]
    /\ got' = [got EXCEPT ![h] = @ \cup LeafAt(tr[h].at)]
    /\ UNCHANGED <<Shared, ask, under, tr, links, left, way>>

\* The children of the node that the innermost loop of GetValue has left.
NextOf(h) == {c \in todo[h] : Parent(c) = tr[h].at}

\* The loop takes a child, in map order, and skips it or calls GetValue there.
EnterOne(h, c) ==
    /\ Valuing(h)
    /\ c \in NextOf(h)
    /\ IF CanEnter(tree, AccessOf(h), tr[h], Last(c))
       THEN /\ tr' = [tr EXCEPT ![h] = EnterChild(AccessOf(h), @, Last(c))]
            /\ step' = [step EXCEPT ![h] = @ + 1]
            /\ todo' = [todo EXCEPT ![h] = (@ \ {c}) \cup Loop(c)]
            /\ got' = [got EXCEPT ![h] = @ \cup LeafAt(c)]
       ELSE /\ todo' = [todo EXCEPT ![h] = @ \ {c}]
            /\ UNCHANGED <<tr, step, got>>
    /\ UNCHANGED <<Shared, pc, ask, under, links, left, way>>

\* A call of GetValue returns to the loop of the parent, which goes Back.
LeaveOne(h) ==
    /\ Valuing(h)
    /\ NextOf(h) = {}
    /\ step[h] > 0
    /\ tr' = [tr EXCEPT ![h] = Back(@)]
    /\ step' = [step EXCEPT ![h] = @ - 1]
    /\ UNCHANGED <<Shared, pc, ask, under, links, left, way, todo, got>>

\* GetValue returns to Root, which at "/" goes on to add self, or to
\* getMappingData, which goes back to the root.
EndValue(h) ==
    /\ Valuing(h)
    /\ NextOf(h) = {}
    /\ step[h] = 0
    /\ IF pc[h] = "value"
       THEN Go(h, IF ask[h].path = Root THEN "self" ELSE "close") /\ UNCHANGED tr
       ELSE Go(h, "links") /\ tr' = [tr EXCEPT ![h] = BackToRoot(AccessOf(h))]
    /\ UNCHANGED <<Shared, ask, under, links, left, way, step, todo, got>>

\* self reads the mapping, again, under the lock of the mapping store only.
ReadMapping(h) ==
    /\ pc[h] = "self"
    /\ LET M == IF mapping[h] = NoMapping THEN {} ELSE mapping[h]
       IN  links' = [links EXCEPT ![h] = M] /\ left' = [left EXCEPT ![h] = M]
    /\ Go(h, "links")
    /\ UNCHANGED <<Shared, ask, under, tr, way, step, todo, got>>

\* getMappingData enters one link; the loop takes them in map order.
ReadLink(h, l) ==
    /\ pc[h] = "links"
    /\ l \in left[h]
    /\ left' = [left EXCEPT ![h] = @ \ {l}]
    /\ way' = [way EXCEPT ![h] = l]
    /\ Go(h, "enterLink")
    /\ UNCHANGED <<Shared, ask, under, tr, links, step, todo, got>>

\* Close gives the lock back and drops what the traveller holds; the reply is out.
Close(h) ==
    /\ Finished(h)
    /\ Go(h, "idle")
    /\ ask' = [ask EXCEPT ![h] = NoAsk]
    /\ under' = [under EXCEPT ![h] = <<>>]
    /\ tr' = [tr EXCEPT ![h] = AtRoot(NewAccessTree(<<>>))]
    /\ links' = [links EXCEPT ![h] = {}]
    /\ got' = [got EXCEPT ![h] = {}]
    /\ UNCHANGED <<Shared, left, way, step, todo>>

-----------------------------------------------------------------------------
Next ==
    \/ \E p \in Path \ {Root}, v \in Value : PutData(p, v)
    \/ \E p \in Path \ {Root} : DeleteData(p)
    \/ \E h \in Host :
          \/ \E rs \in RuleLists : PutRules(h, rs)
          \/ DeleteRules(h)
          \/ \E M \in Mappings \cup {NoMapping} : ChangeMapping(h, M)
          \/ \E a \in Ask : (a.self => a.path = Root) /\ Request(h, a)
          \/ GetRules(h)
          \/ GetRulesOfMapping(h)
          \/ OpenTraveller(h)
          \/ EnterNext(h)
          \/ StartValue(h)
          \/ \E c \in Path : EnterOne(h, c)
          \/ LeaveOne(h)
          \/ EndValue(h)
          \/ ReadMapping(h)
          \/ \E l \in Path : ReadLink(h, l)
          \/ Close(h)

Spec == Init /\ [][Next]_vars

-----------------------------------------------------------------------------
(* Properties. *)

\* Types.  The traveller's stack is as deep as the node it is at.
TypeOK ==
    /\ tree \in [Path -> Node]
    /\ rules \in [Host -> RuleLists \cup InitialRules \cup {NoRules}]
    /\ mapping \in [Host -> Mappings \cup {NoMapping}]
    /\ changes \in 0..MaxChanges
    /\ pc \in [Host -> {"idle", "rules", "mapping", "open", "enter", "value", "self",
                        "links", "enterLink", "valueLink", "close"}]
    /\ ask \in [Host -> Ask]
    /\ under \in [Host -> Seq(Rule)]
    /\ way \in [Host -> Seq(Name)]
    /\ step \in [Host -> Nat]
    /\ \A h \in Host :
        /\ Open(h) => /\ tr[h] \in Traveller(AccessOf(h))
                      /\ Len(tr[h].stack) = Len(tr[h].at)
        /\ left[h] \subseteq links[h] /\ links[h] \subseteq Path
        /\ todo[h] \subseteq Path
        /\ got[h] \subseteq Path \X Value

\* However the traveller came to where it is, through refused paths, subtrees
\* read by GetValue and steps back, its node and mode in the access tree are
\* those that the rules give that place (Back, BackStep, enter).
TravellerInStep ==
    \A h \in Host : Open(h) =>
        /\ tr[h].mode = ModeAt(under[h], tr[h].at)
        /\ Governing(under[h], tr[h].at) = {tr[h].an} \ {NoNode}

\* Every link of a mapping is read from the root: one that cannot be entered
\* does not move the start of the next (getMappingData).
LinksFromRoot ==
    \A h \in Host : pc[h] \in {"self", "links"} => tr[h].at = Root

\* A reply is made of exactly these leaves of one state of the data, by the rules
\* the request started with, whatever is changed meanwhile: those whose deepest
\* rule lets them be read, exact names before wildcards (docs/api.md), without
\* what a rule of mode -1 withholds, and with every leaf that has rules below its
\* place, which enter passes without a look at the leaf's own mode.
ServesByRules ==
    \A h \in Host : Finished(h) =>
        got[h] = UNION {Served(tree, under[h], p) :
                            p \in links[h] \cup
                                  (IF ask[h].self THEN {} ELSE {ask[h].path})}

\* No reply contains a leaf that has a rule of mode 0 of its own, exact or by
\* wildcards, the mode that the documentation calls forbidden (docs/api.md,
\* "0 forbidden").
ForbiddenNotServed ==
    \A h \in Host : Finished(h) =>
        \A l \in got[h] : \A m \in Governing(under[h], l[1]) :
            \A r \in RuleFor(under[h], m) : r.mode # Forbidden

=============================================================================
