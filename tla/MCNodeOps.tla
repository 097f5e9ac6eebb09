----------------------------- MODULE MCNodeOps -----------------------------
(* The recursion of node.go against its closed forms, in every state that  *)
(* the store of MCStore reaches.                                           *)
EXTENDS MCStore, NodeOps

\* The operations start with worldLock free.  They do not look at the channels,
\* so the states in which those are empty stand for the others.
AtRest ==
    /\ Unlocked
    /\ cleanChan = <<>>
    /\ cleaning = None
    /\ \A w \in Watcher : unread[w] = 0

\* internalPut, Watch, node.Remove and node.Clean, node by node, leave the tree
\* and send the events that Tree's closed forms say, also for a value that is not
\* in the tree, and whatever the order in which Go ranges over a node's children:
\* that order cannot be observed.
RecursionAgrees ==
    AtRest => PutAgrees(tree, Value \cup {v2}) /\ RemoveAgrees(tree, Watched)

=============================================================================
