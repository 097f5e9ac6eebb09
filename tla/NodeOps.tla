------------------------------ MODULE NodeOps ------------------------------
(***************************************************************************)
(* The recursion of store/node.go as the code runs it: one node at a time, *)
(* up to the parent and down to the children, in every order in which Go   *)
(* may range over a map.  Store uses the closed forms of module Tree       *)
(* instead; the properties below say that the two agree.                   *)
(*                                                                         *)
(* A configuration of a running operation is a tree and the events that    *)
(* were sent so far; an operation maps it to the set of its outcomes.      *)
(***************************************************************************)
EXTENDS Tree

Config(t, es) == [t |-> t, es |-> es]

SetNode(s, p, n) == [s EXCEPT !.t[p] = n]

NotifyAt(s, action, p) == [s EXCEPT !.es = @ \cup Events(action, {p})]

AsDir(s, p) == NotifyAt([s EXCEPT !.t[p].kind = "dir"], "DELETE", p)

AsLeaf(s, p) == NotifyAt([s EXCEPT !.t[p].kind = "leaf"], "UPDATE", p)

\* node.Add of the node n as a new child at p.
Add(s, p, n) ==
    SetNode(IF IsDir(s.t, Parent(p)) THEN s ELSE AsDir(s, Parent(p)), p, n)

checkDir(s, p) == IF Present(s.t, p) THEN s ELSE Add(s, p, EmptyDir)

\* store.walk over the first n components of p.
RECURSIVE walk(_, _, _)
walk(s, p, n) ==
    IF n = 0 THEN s ELSE checkDir(walk(s, p, n - 1), SubSeq(p, 1, n))

Write(s, p, v) ==
    LET old == s.t[p].val
        set == [s EXCEPT !.t[p].val = v]
    IN  IF IsDir(s.t, p)
        THEN IF Children(s.t, p) = {} THEN AsLeaf(set, p) ELSE set
        ELSE IF old # v THEN NotifyAt(set, "UPDATE", p) ELSE set

internalPutNode(t, p, v) ==
    IF p = Root THEN Config(t, {})
    ELSE LET s == walk(Config(t, {}), p, Len(p) - 1)
         IN  IF Present(s.t, p) THEN Write(s, p, v)
             ELSE NotifyAt(Add(s, p, [kind |-> "leaf", val |-> v]), "UPDATE", p)

watchNode(t, p) ==
    IF p = Root THEN Config(t, {})
    ELSE checkDir(walk(Config(t, {}), p, Len(p) - 1), p)

-----------------------------------------------------------------------------
RECURSIVE nodeRemove(_, _, _), nodeClean(_, _, _), removeChildren(_, _, _)

nodeRemove(s, W, p) ==
    IF ~IsDir(s.t, p)
    THEN IF p \in W
         THEN {AsDir(SetNode(s, p, EmptyDir), p)}
         ELSE nodeClean(NotifyAt(SetNode(s, p, Absent), "DELETE", p), W, Parent(p))
    ELSE LET cleared == [s EXCEPT !.t[p].val = Empty]
             Detach(o) == IF /\ p # Root
                             /\ Present(o.t, p)
                             /\ Children(o.t, p) = {}
                             /\ p \notin W
                          THEN nodeClean(SetNode(o, p, Absent), W, Parent(p))
                          ELSE {o}
         IN  UNION {Detach(o) : o \in removeChildren(cleared, W, Children(s.t, p))}

\* for _, node := range n.Children { node.Remove() }
removeChildren(s, W, C) ==
    IF C = {} THEN {s}
    ELSE UNION {UNION {removeChildren(o, W, C \ {c}) : o \in nodeRemove(s, W, c)} : c \in C}

\* Mutant: Clean removes a node without looking at its value.
nodeCleanBlindly(s, W, p) ==
    IF ~Cleanable(s.t, p) \/ p \in W THEN {s} ELSE nodeRemove(s, W, p)

nodeClean(s, W, p) ==
    IF ~Cleanable(s.t, p) THEN {s}
    ELSE IF s.t[p].val # Empty THEN {AsLeaf(s, p)}
    ELSE IF p \in W THEN {s}
    ELSE nodeRemove(s, W, p)

-----------------------------------------------------------------------------
(* The closed forms are what the recursion computes, for the tree t, the   *)
(* watched nodes W and puts of the values V.                               *)

PutAgrees(t, V) ==
    \A p \in Path :
        /\ \A v \in V :
              internalPutNode(t, p, v) = Config(PutTree(t, p, v), PutEvents(t, p, v))
        /\ watchNode(t, p) = Config(WatchTree(t, p), WatchEvents(t, p))

RemoveAgrees(t, W) ==
    \A p \in Path : Present(t, p) =>
        /\ nodeRemove(Config(t, {}), W, p) =
              {Config(RemoveTree(t, W, p), RemoveEvents(t, W, p))}
        /\ nodeClean(Config(t, {}), W, p) =
              {Config(CleanTree(t, W, p), CleanEvents(t, W, p))}

=============================================================================
