------------------------------ MODULE MCStore ------------------------------
(* Store on a small instance. *)
EXTENDS Store, TLC

CONSTANTS a, b, c, b2, v1, v2, w1, w2

MCName == {a, b, c, b2}

\* One chain of three and a sibling of its second node.
MCPath == {<<>>, <<a>>, <<a, b>>, <<a, b, c>>, <<a, b2>>}

\* A value above another, as flatmap yields for nested maps put over a text.
MCBulks == { {<< <<a>>, v1 >>, << <<a, b>>, v1 >>},
             {<< <<a, b, c>>, v1 >>, << <<a, b2>>, v1>>} }

MCSymmetry == Permutations({w1, w2})

=============================================================================
