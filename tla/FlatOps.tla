------------------------------ MODULE FlatOps ------------------------------
(***************************************************************************)
(* util/flatmap as the code has it, key by key: the recursion that the     *)
(* operators of FlatMap sum up.  And the path.Clean of Go's library, which *)
(* makes keys of the places, component by component.                       *)
(***************************************************************************)
EXTENDS FlatMap

\* The keys of the value at place p.
KeysAt(b, p) == {q[Len(p) + 1] : q \in {r \in DOMAIN b : Above(p, r)}}

\* flatten(result, prefix, v): the texts at and below prefix.
RECURSIVE flatten(_, _)
flatten(b, prefix) ==
    CASE b[prefix].kind = "text" -> {<<prefix, b[prefix].text>>}
      [] b[prefix].kind = "null" -> {<<prefix, Nil>>}
      [] OTHER -> UNION {flatten(b, Append(prefix, k)) : k \in KeysAt(b, prefix)}

flattenTop(b) == UNION {flatten(b, <<k>>) : k \in KeysAt(b, <<>>) \ {EmptyKey}}

RECURSIVE expandMap(_, _)

\* A path with a text hides the paths below it.
expand(m, p) == IF p \in DOMAIN m THEN Text(m[p]) ELSE expandMap(m, p)

expandMap(m, p) ==
    LET below == {q \in DOMAIN m : Above(p, q)}
    IN  Map([k \in {q[Len(p) + 1] : q \in below} |-> expand(m, Append(p, k))])

\* The closed forms are what the recursion computes.
FlattenAgrees(b) == flattenTop(b) = Flatten(b)
ExpandAgrees(m)  == expandMap(m, <<>>) = Expand(m)

\* path.Clean of a rooted path: out is what is left of the components before s.
RECURSIVE resolve(_, _)
resolve(out, s) ==
    IF s = <<>> THEN out
    ELSE resolve(CASE Head(s) \in {EmptyKey, Dot} -> out
                   [] Head(s) = DotDot -> IF out = <<>> THEN out ELSE Parent(out)
                   [] OTHER -> Append(out, Head(s)),
                 Tail(s))

=============================================================================
