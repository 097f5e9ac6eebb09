--------------------------------- MODULE KV ---------------------------------
(***************************************************************************)
(* What a store promises its clients: a map from paths to values with a    *)
(* version number.  Whether the tree shows a path as a leaf or hides its   *)
(* value in a directory, who watches what and which directories wait to    *)
(* be collected is invisible here.                                         *)
(***************************************************************************)
EXTENDS Paths

CONSTANTS Value, Missing, MaxVersion

VARIABLES
    kv,         \* the value last put at each path and not deleted since
    version     \* store.version

vars == <<kv, version>>

Init ==
    /\ kv = [p \in Path |-> Missing]
    /\ version = 0

\* A value put at the root is ignored, but counts as a change.
Put(p, v) ==
    /\ version < MaxVersion
    /\ version' = version + 1
    /\ kv' = IF p = Root THEN kv ELSE [kv EXCEPT ![p] = v]

\* Deleting a path deletes everything below it.
Delete(p) ==
    /\ version < MaxVersion
    /\ version' = version + 1
    /\ kv' = [q \in Path |-> IF AtOrAbove(p, q) THEN Missing ELSE kv[q]]

Next ==
    \E p \in Path :
        \/ \E v \in Value : Put(p, v)
        \/ Delete(p)

Spec == Init /\ [][Next]_vars

=============================================================================
