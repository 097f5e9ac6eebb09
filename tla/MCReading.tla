----------------------------- MODULE MCReading -----------------------------
(* Reading on a small instance, after the example of docs/api.md. *)
EXTENDS Reading

CONSTANTS clusters, cl1, cl2, env, v1

MCName == {clusters, cl1, cl2, env}

MCPath == {<<>>, <<clusters>>, <<clusters, cl1>>, <<clusters, cl1, env>>,
           <<clusters, cl2>>, <<clusters, cl2, env>>}

On(path, mode) == [path |-> path, mode |-> mode]

\* The example of the documentation.
Guide == << On(<<>>, Forbidden), On(<<clusters>>, Read),
            On(<<clusters, Wild, env>>, Forbidden), On(<<clusters, cl1>>, Read) >>

\* Every list of at most two rules, with lists that name a path twice.
Short == SeqOf([path : {<<>>, <<clusters>>, <<clusters, cl1>>, <<clusters, Wild>>,
                        <<clusters, cl1, env>>, <<clusters, Wild, env>>},
                mode : Mode], 2)

MCInitialRules == Short \cup {Guide, NoRules}

\* The lists with the two modes that the documentation has.
MCDocumentedRules == {rs \in Short : \A i \in DOMAIN rs : rs[i].mode # Nil}

MCRuleLists == {Guide, << On(<<>>, Read) >>, <<>>}

\* Two leaves at different depths, and a directory that hides a value.
Full(t) == PutTree(PutTree(t, <<clusters, cl1, env>>, v1), <<clusters, cl2>>, v1)

MCInitialTrees == {Full(NewTree), PutTree(Full(NewTree), <<clusters, cl2, env>>, v1)}

MCMappings == { {<<clusters, cl1>>},
                {<<clusters, cl1, env>>, <<clusters, cl2, env>>} }

=============================================================================
