------------------------------- MODULE Access -------------------------------
(***************************************************************************)
(* Access rules (store/access.go) and the traveller (store/traveller.go),  *)
(* which walks the node tree and the rules of one host side by side.       *)
(*                                                                         *)
(* A rule's path may use a wildcard for a component.  An access tree maps  *)
(* the paths of its nodes to modes; the order of a node's children does    *)
(* not matter, since names are unique among them and GetChild prefers the  *)
(* exact name wherever it stands.                                          *)
(***************************************************************************)
EXTENDS Tree, Integers, SequencesExt

CONSTANTS
    Wild,       \* the component "*"
    NoNode      \* a nil *accessNode

Nil       == -1
Forbidden == 0
Read      == 1

Mode == {Nil, Forbidden, Read}

\* Access rules as CheckAccessRules and the decoder of a list let them pass.
Rule == [path : Seq(Name \cup {Wild}), mode : Mode]

\* The node m and its ancestors.
PrefixesOf(m) == {SubSeq(m, 1, n) : n \in 0..Len(m)}

\* A later rule for the same path overwrites the mode.  CheckAccessRules means
\* to refuse such lists, and lets them pass: its set of paths stays empty.
NewAccessTree(rules) ==
    [m \in {Root} \cup UNION {PrefixesOf(rules[i].path) : i \in DOMAIN rules} |->
        LET mine == {i \in DOMAIN rules : rules[i].path = m}
        IN  IF mine = {} THEN Nil ELSE rules[Max(mine)].mode]

HasChild(A, m) == \E n \in DOMAIN A : n # Root /\ Parent(n) = m

\* Mutant: the wildcard wins over the exact name.
GetChildWildFirst(A, m, name) ==
    CASE m = NoNode                     -> NoNode
      [] Append(m, Wild) \in DOMAIN A   -> Append(m, Wild)
      [] Append(m, name) \in DOMAIN A   -> Append(m, name)
      [] OTHER                          -> NoNode

\* accessNode.GetChild, not strict; enter asks it of a node that is not nil.
GetChild(A, m, name) ==
    IF m = NoNode THEN NoNode
    ELSE IF Append(m, name) \in DOMAIN A THEN Append(m, name)
    ELSE IF Append(m, Wild) \in DOMAIN A THEN Append(m, Wild)
    ELSE NoNode

-----------------------------------------------------------------------------
(* The traveller: where it is in the node tree and in the access tree, the *)
(* mode that holds there, and what it has to go back to.                   *)

Frame(A) == [an : DOMAIN A \cup {NoNode}, mode : Mode]

Traveller(A) ==
    [at : Path, an : DOMAIN A \cup {NoNode}, mode : Mode, stack : Seq(Frame(A))]

\* newTraveller.
AtRoot(A) == [at |-> Root, an |-> Root, mode |-> A[Root], stack |-> <<>>]

\* enter lets the traveller in: a rule below is a reason to.
Lets(A, an, mode) ==
    IF an = NoNode THEN mode >= Read ELSE HasChild(A, an) \/ A[an] >= Read

\* enter(name), one component: whether it returns TRUE, and the traveller then.
CanEnter(t, A, tr, name) ==
    LET n == Append(tr.at, name)
    IN  n \in Path /\ Present(t, n) /\ Lets(A, GetChild(A, tr.an, name), tr.mode)

EnterChild(A, tr, name) ==
    LET an == GetChild(A, tr.an, name)
    IN  [at    |-> Append(tr.at, name),
         an    |-> an,
         mode  |-> IF an # NoNode /\ A[an] # Nil THEN A[an] ELSE tr.mode,
         stack |-> Append(tr.stack, [an |-> tr.an, mode |-> tr.mode])]

\* Mutant: Pop leaves the element on the stack.
BackWithoutPop(tr) ==
    [at |-> Parent(tr.at), an |-> Last(tr.stack).an, mode |-> Last(tr.stack).mode,
     stack |-> tr.stack]

\* Mutant: Back keeps the mode.
BackKeepingMode(tr) ==
    [at |-> Parent(tr.at), an |-> Last(tr.stack).an, mode |-> tr.mode,
     stack |-> Front(tr.stack)]

Back(tr) ==
    [at |-> Parent(tr.at), an |-> Last(tr.stack).an, mode |-> Last(tr.stack).mode,
     stack |-> Front(tr.stack)]

\* Mutant: the loop of BackStep starts at 1.
BackStepLess(tr, step) ==
    IF step < 2 THEN tr
    ELSE LET top == tr.stack[Len(tr.stack) - step + 2]
         IN  [at |-> SubSeq(tr.at, 1, Len(tr.at) - step + 1), an |-> top.an,
              mode |-> top.mode, stack |-> SubSeq(tr.stack, 1, Len(tr.stack) - step + 1)]

\* Back, step times: the last frame that is popped is what holds.
BackStep(tr, step) ==
    IF step = 0 THEN tr
    ELSE LET top == tr.stack[Len(tr.stack) - step + 1]
         IN  [at |-> SubSeq(tr.at, 1, Len(tr.at) - step), an |-> top.an,
              mode |-> top.mode, stack |-> SubSeq(tr.stack, 1, Len(tr.stack) - step)]

\* Clean empties the stack, whatever was on it.
BackToRoot(A) == AtRoot(A)

-----------------------------------------------------------------------------
(* What a list of rules means (docs/api.md, "Access rule path              *)
(* description"): exact names before wildcards, deep rules before shallow. *)

\* The last rule for exactly this path.
RuleFor(rules, m) ==
    {r \in {rules[i] : i \in DOMAIN rules} :
        \E i \in DOMAIN rules :
            /\ rules[i] = r /\ r.path = m
            /\ \A j \in DOMAIN rules : j > i => rules[j].path # m}

\* Some rule is for m or for something below it.
Mentioned(rules, m) ==
    m = Root \/ \E i \in DOMAIN rules : AtOrAbove(m, rules[i].path)

\* The mentioned path that stands for p, if there is one: a wildcard stands for
\* a name only where no rule mentions the name itself.
Governing(rules, p) ==
    {m \in {Root} \cup UNION {PrefixesOf(rules[i].path) : i \in DOMAIN rules} :
        /\ Len(m) = Len(p)
        /\ \A i \in 1..Len(p) :
              \/ m[i] = p[i]
              \/ /\ m[i] = Wild
                 /\ ~Mentioned(rules, Append(SubSeq(m, 1, i - 1), p[i]))}

\* The mode of the deepest rule that governs p or an ancestor and sets one.
ModeAt(rules, p) ==
    LET set == {q \in PrefixesOf(p) : \E m \in Governing(rules, q) :
                                        \E r \in RuleFor(rules, m) : r.mode # Nil}
        deepest == CHOOSE q \in set : \A o \in set : Len(o) <= Len(q)
        m == CHOOSE x \in Governing(rules, deepest) : TRUE
    IN  IF set = {} THEN Nil ELSE (CHOOSE r \in RuleFor(rules, m) : TRUE).mode

\* The documented meaning: the deepest rule that governs p lets it be read.
Allowed(rules, p) == ModeAt(rules, p) = Read

\* The code departs from it in two places, both in enter.  Where rules lie below
\* the path that governs p, enter lets the traveller in on its way to them and
\* does not look at p's own mode ("if an HasChild, means exist other rule for
\* future access"): a leaf there is served, a forbidden one too.
Exposed(rules, p) ==
    \E m \in Governing(rules, p), i \in DOMAIN rules : Above(m, rules[i].path)

\* And a rule of mode -1, which the documentation does not list, with no rules
\* below it refuses its node and what is below, whatever the mode from above.
Withheld(rules, p) ==
    \E q \in PrefixesOf(p) \ {Root} : \E m \in Governing(rules, q) :
        /\ ~\E i \in DOMAIN rules : Above(m, rules[i].path)
        /\ \A r \in RuleFor(rules, m) : r.mode = Nil

\* What a host with these rules gets when it asks for p.
Served(t, rules, p) ==
    {l \in Visible(t, p) : \/ Allowed(rules, l[1]) /\ ~Withheld(rules, l[1])
                          \/ Exposed(rules, l[1])}

=============================================================================
