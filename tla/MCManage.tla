------------------------------ MODULE MCManage ------------------------------
(* Manage on a small instance. *)
EXTENDS Manage, FlatOps, TLC

CONSTANTS x, xs, a, b, u, ip, k, w, link, i0, i1

MCName == {x, xs, a, b, u, ip, k, i0, i1, Metad, MappingDir, RuleDir}

MCPath == UNION {{SubSeq(p, 1, n) : n \in 0..Len(p)} :
                    p \in {<<x, a, i0>>, <<x, a, i1>>, <<x, b>>, <<xs>>, <<u, a>>, <<ip, k, a>>,
                           <<Metad, MappingDir, ip, k, a>>, <<Metad, RuleDir, ip>>}}

MCIndex == <<i0, i1>>

\* As "node" and "nodes", and "_" and "_metad".
MCBegins == {<<x, xs>>, <<u, Metad>>}

MCDataPut ==
    { << <<>>, Text(w) >>,
      << <<x>>, Text(w) >>,
      << <<x>>, Map(<<>>) >>,
      << <<x>>, Map(a :> Text(w) @@ b :> Null) >>,
      << <<x>>, Map(a :> List(<<Text(w), Text(link)>>)) >>,
      << <<x>>, Map(a :> Map(EmptyKey :> Text(w)) @@ b :> Map(<<>>)) >>,
      << <<>>, Map(u :> Map(a :> Text(w)) @@ EmptyKey :> Text(w)) >>,
      << <<x>>, Map(a :> Map(EmptyKey :> Map(i0 :> Text(w)) @@ i0 :> Text(link))) >>,
      << <<>>, Map(xs :> Text(w)) >>,
      << <<x, a>>, Null >>,
      << <<x, a>>, Map(DotDot :> Map(b :> Text(w)) @@ i0 :> Text(w)) >>,
      << <<x>>, Map(Dot :> Map(a :> Text(link)) @@ a :> Map(DotDot :> Map(b :> Text(w)))) >>,
      << <<x>>, Map(a :> Map(DotDot :> Map(DotDot :> Map(DotDot :> Map(xs :> Text(w)))))) >> }

MCDataDelete ==
    { << <<>>, {} >>, << <<x>>, {} >>, << <<x>>, {a} >>, << <<x>>, {a, b} >>,
      << <<x>>, {b, EmptyKey} >>, << <<x, a>>, {DotDot} >>, << <<x>>, {Dot} >> }

MCMappingPut ==
    { << <<>>, Map(ip :> Map(k :> Text(link))) >>,
      << <<>>, Map(ip :> Map(EmptyKey :> Text(link))) >>,
      << <<>>, Map(ip :> Map(Dot :> Text(link))) >>,
      << <<ip>>, Map(DotDot :> Map(k :> Text(link))) >>,
      << <<ip, k>>, Map(DotDot :> Map(DotDot :> Map(a :> Text(link)))) >>,
      << <<>>, Map(x :> Map(k :> Text(link))) >>,
      << <<ip>>, Text(link) >>,
      << <<ip, k>>, Text(link) >>,
      << <<ip, k>>, Text(w) >>,
      << <<ip>>, Map(k :> Map(a :> Text(link))) >> }

MCMappingDelete == { << <<>>, {} >>, << <<ip>>, {} >>, << <<ip>>, {k, EmptyKey} >>,
                     << <<ip, k>>, {DotDot} >> }

\* Expand undoes Flatten for every value that a request puts, up to what a flat map
\* cannot tell, and both are what the recursion of util/flatmap computes: Flatten of
\* that value, Expand of all that is in etcd.  The keys are what path.Clean leaves of
\* them component by component.
FlatMapRoundTrip ==
    /\ last.op = "putData" /\ IsTree(last.body) =>
          /\ FlattenAgrees(last.body) /\ RoundTrip(last.body)
          /\ \A e \in Flatten(last.body) :
                Clean(last.path \o e[1]) = resolve(<<>>, last.path \o e[1])
    /\ ExpandAgrees(etcd)

=============================================================================
