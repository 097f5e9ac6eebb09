---------------------------- MODULE MCLocalSync ----------------------------
(* LocalSync on a small instance. *)
EXTENDS LocalSync

CONSTANTS a, b, c

MCName == {a, b, c}

\* A directory with two children, one of which may itself be a directory.
MCPath == {<<>>, <<a>>, <<a, b>>, <<a, c>>}

=============================================================================
