-------------------------------- MODULE Tree --------------------------------
(***************************************************************************)
(* The node tree of store/node.go as a value, and the effect that each of  *)
(* its recursive operations has on the whole tree.                         *)
(*                                                                         *)
(* A tree maps every path to the node attached there.  A leaf holds a      *)
(* value; a directory may hold one too, "hidden" behind its children: it   *)
(* was put there before, or while, the node had children, and becomes      *)
(* visible again when the last child goes.                                 *)
(*                                                                         *)
(* The code walks pointers; here each operation says which nodes are gone, *)
(* converted or kept when it returns.  Module NodeOps holds the recursion  *)
(* of the code itself and compares the two.                                *)
(***************************************************************************)
EXTENDS Paths

CONSTANTS
    Value,      \* values that clients put
    Empty       \* the empty string, which the code also uses for "no value"

Data == Value \cup {Empty}

Kind == {"none", "leaf", "dir"}

Node == [kind : Kind, val : Data]

Absent   == [kind |-> "none", val |-> Empty]
EmptyDir == [kind |-> "dir",  val |-> Empty]

Present(t, p) == t[p].kind # "none"
IsDir(t, p)   == t[p].kind = "dir"
IsLeaf(t, p)  == t[p].kind = "leaf"

Children(t, p) == {c \in Path : c # Root /\ Parent(c) = p /\ Present(t, c)}

\* newStore: only the root, a directory.
NewTree == [p \in Path |-> IF p = Root THEN EmptyDir ELSE Absent]

\* What GetValue returns for the node at p, flattened: the leaves at or
\* below p.  Empty directories and hidden values do not show.
Visible(t, p) ==
    {<<q, t[q].val>> : q \in {r \in Path : AtOrAbove(p, r) /\ IsLeaf(t, r)}}

-----------------------------------------------------------------------------
(* What holds of every tree between two operations.                        *)

\* The pointers form a tree: the root is a directory without a value, every
\* ancestor of an attached node is a directory, and nothing is left of a node
\* that is not attached.
WellFormed(t) ==
    /\ t[Root] = EmptyDir
    /\ \A p, q \in Path : Above(q, p) /\ Present(t, p) => IsDir(t, q)
    /\ \A p \in Path : ~Present(t, p) => t[p] = Absent

\* A leaf holds a value that a client put.
LeavesHoldValues(t) == \A p \in Path : IsLeaf(t, p) => t[p].val \in Value

\* A hidden value is hidden by a child.
HiddenByChildren(t) ==
    \A p \in Path : IsDir(t, p) /\ Children(t, p) = {} => t[p].val = Empty

TreeOK(t) ==
    /\ t \in [Path -> Node]
    /\ WellFormed(t)
    /\ LeavesHoldValues(t)
    /\ HiddenByChildren(t)

-----------------------------------------------------------------------------
Event == [action : {"UPDATE", "DELETE"}, path : Path]

Events(action, paths) == {[action |-> action, path |-> p] : p \in paths}

-----------------------------------------------------------------------------
(* walk(dir(p), checkDir): every proper ancestor of p exists and is a      *)
(* directory.  A leaf on the way gets a child, so Add turns it into a      *)
(* directory that keeps its value, and AsDir reports it as deleted.        *)

\* Mutant: AsDir drops the value that the leaf had.
WithDirsForgetting(t, p) ==
    [q \in Path |-> IF Above(q, p) THEN EmptyDir ELSE t[q]]

WithDirs(t, p) ==
    [q \in Path |-> IF Above(q, p) THEN [t[q] EXCEPT !.kind = "dir"] ELSE t[q]]

\* Mutant: AsDir notifies nobody.
WithDirsSilently(t, p) == {}

WithDirsEvents(t, p) ==
    Events("DELETE", {q \in Path : Above(q, p) /\ IsLeaf(t, q)})

(* store.internalPut: newKV, or node.Write on the node that is there.  A   *)
(* directory with children hides the value, a childless one becomes a leaf.*)

\* Mutant: Write makes a leaf of a directory that has children.
PutTreeAsLeaf(t, p, v) ==
    IF p = Root THEN t
    ELSE [WithDirs(t, p) EXCEPT ![p] = [kind |-> "leaf", val |-> v]]

PutTree(t, p, v) ==
    IF p = Root THEN t
    ELSE [WithDirs(t, p) EXCEPT ![p] =
            [kind |-> IF Children(t, p) = {} THEN "leaf" ELSE "dir",
             val  |-> v]]

\* The put changes what a reader of p sees.
PutShows(t, p, v) ==
    /\ Children(t, p) = {}
    /\ IsLeaf(t, p) => t[p].val # v

PutEvents(t, p, v) ==
    IF p = Root THEN {}
    ELSE WithDirsEvents(t, p)
            \cup Events("UPDATE", {q \in {p} : PutShows(t, q, v)})

(* store.Watch before it registers the watcher: the watched node and its   *)
(* ancestors exist, created as empty directories where they did not.       *)

WatchTree(t, p) ==
    LET d == WithDirs(t, p)
    IN  IF Present(t, p) THEN d ELSE [d EXCEPT ![p] = EmptyDir]

WatchEvents(t, p) == WithDirsEvents(t, p)

-----------------------------------------------------------------------------
(* node.Remove on the attached node at p, when the nodes in W have         *)
(* watchers.  No node with a watcher at or below it is removed.            *)

\* Mutant: Remove does not ask HasWatcher.
RemovedBelowWatched(W, p) == {q \in Path : q # Root /\ AtOrAbove(p, q)}

RemovedBelow(W, p) ==
    {q \in Path : q # Root /\ AtOrAbove(p, q) /\ \A w \in W : ~AtOrAbove(q, w)}

\* Mutant: Remove does not clean the parent.
RemovedAboveNothing(t, W, p) == {}

\* parent.Clean() calls parent.Remove(), which calls its parent's Clean, as long
\* as that leaves a node without children, value and watcher: q goes when the
\* other nodes at and below it are on the way down to p and have neither.
RemovedAbove(t, W, p) ==
    {q \in Path :
        /\ q # Root
        /\ Above(q, p)
        /\ p \in RemovedBelow(W, p)
        /\ \A r \in Path :
              AtOrAbove(q, r) /\ Present(t, r) /\ ~AtOrAbove(p, r) =>
                 /\ AtOrAbove(r, p)
                 /\ t[r].val = Empty
                 /\ r \notin W}

Removed(t, W, p) == RemovedBelow(W, p) \cup RemovedAbove(t, W, p)

\* Mutant: Clean does not call AsLeaf.
RestoredNothing(t, W, p) == {}

\* The ancestor whose hidden value comes back: Clean calls AsLeaf on it.
Restored(t, W, p) ==
    {q \in Path :
        /\ q # Root
        /\ Above(q, p)
        /\ t[q].val # Empty
        /\ Children(t, q) \subseteq Removed(t, W, p)}

\* Mutant: Remove clears a watched leaf and does not call AsDir.
RemoveTreeLeavingLeaf(t, W, p) ==
    [q \in Path |->
        IF q \in Removed(t, W, p) THEN Absent
        ELSE IF AtOrAbove(p, q) THEN [t[q] EXCEPT !.val = Empty]
        ELSE IF q \in Restored(t, W, p) THEN [t[q] EXCEPT !.kind = "leaf"]
        ELSE t[q]]

RemoveTree(t, W, p) ==
    [q \in Path |->
        IF q \in Removed(t, W, p) THEN Absent
        ELSE IF AtOrAbove(p, q) THEN EmptyDir
        ELSE IF q \in Restored(t, W, p) THEN [t[q] EXCEPT !.kind = "leaf"]
        ELSE t[q]]

RemoveEvents(t, W, p) ==
    Events("DELETE", {q \in Path : AtOrAbove(p, q) /\ IsLeaf(t, q)})
        \cup Events("UPDATE", Restored(t, W, p))

(* node.Clean on the attached node at p. *)

Cleanable(t, p) == IsDir(t, p) /\ Children(t, p) = {}

\* Mutant: Clean does not remove an empty directory.
CleanTreeKeepingDir(t, W, p) ==
    IF Cleanable(t, p) /\ t[p].val # Empty THEN [t EXCEPT ![p].kind = "leaf"] ELSE t

CleanTree(t, W, p) ==
    IF ~Cleanable(t, p) THEN t
    ELSE IF t[p].val # Empty THEN [t EXCEPT ![p].kind = "leaf"]
    ELSE IF p \in W THEN t
    ELSE RemoveTree(t, W, p)

CleanEvents(t, W, p) ==
    IF ~Cleanable(t, p) THEN {}
    ELSE IF t[p].val # Empty THEN Events("UPDATE", {p})
    ELSE IF p \in W THEN {}
    ELSE RemoveEvents(t, W, p)

=============================================================================
