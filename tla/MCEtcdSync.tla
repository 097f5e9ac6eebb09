----------------------------- MODULE MCEtcdSync -----------------------------
(* EtcdSync on a small instance. *)
EXTENDS EtcdSync, TLC

CONSTANTS a, b, c, v1

MCName == {a, b, c}

\* A directory with two keys.
MCPath == {<<>>, <<a>>, <<a, b>>, <<a, c>>}

\* The keys of the data that flatmap makes of JSON objects: no key is the
\* directory of another.
LeafKeys == {<<a, b>>, <<a, c>>}

MCBulks == { << <<a>>, {<< <<a, b>>, v1 >>, << <<a, c>>, v1 >>} >> }

NoBulks == {}

=============================================================================
