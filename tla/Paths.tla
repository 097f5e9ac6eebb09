------------------------------- MODULE Paths -------------------------------
(***************************************************************************)
(* Node paths.  store.walk (store/store.go) splits a cleaned path such as  *)
(* "/a/b" at its slashes and skips empty components, so a path is the      *)
(* sequence of its components and "/" is the empty sequence.               *)
(*                                                                         *)
(* Path is the set of paths the clients of a store use, closed under       *)
(* taking prefixes because walk visits every prefix.                       *)
(***************************************************************************)
EXTENDS Naturals, Sequences, FiniteSets

CONSTANTS
    Name,       \* path components
    Path        \* the paths in use, sequences of components

ASSUME PathAssumption ==
    /\ Path \subseteq Seq(Name)
    /\ <<>> \in Path
    /\ \A p \in Path : \A n \in 0..Len(p) : SubSeq(p, 1, n) \in Path
    /\ IsFiniteSet(Path)

Root == <<>>

\* node.parent of the node at p, p # Root.
Parent(p) == SubSeq(p, 1, Len(p) - 1)

\* The node at p is the node at q or one of its ancestors: the nodes that
\* internalNotify visits on its way from q up to the root.
AtOrAbove(p, q) ==
    /\ Len(p) <= Len(q)
    /\ \A i \in 1..Len(p) : p[i] = q[i]

Above(p, q) == AtOrAbove(p, q) /\ p # q

=============================================================================
