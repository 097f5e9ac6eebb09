------------------------------- MODULE Manage -------------------------------
(***************************************************************************)
(* The management API: the handlers of metad.go for /v1/data, /v1/mapping  *)
(* and /v1/rule, the checks of metadata/metarepo.go, the keys that         *)
(* backends/etcdv3/client.go writes, and the three stores that follow      *)
(* them, filled anew when metad restarts.                                  *)
(*                                                                         *)
(* The data's prefix in etcd is the default "/": data, mappings            *)
(* (/_metad/mapping) and rules (/_metad/rule) share one key space, and     *)
(* filters keep them apart.                                                *)
(*                                                                         *)
(* A store is what module KV promises of it (StoreProofs!ImplementsKV):    *)
(* the texts put and not deleted since, of which those above another do    *)
(* not show.                                                               *)
(*                                                                         *)
(* Requests come one after the other, and the stores have followed one     *)
(* before the next comes; module EtcdSync is about what happens when they  *)
(* have not.                                                               *)
(***************************************************************************)
EXTENDS FlatMap

CONSTANTS
    Value,          \* the texts that are not empty
    Metad, MappingDir, RuleDir,     \* /_metad/mapping/<group>, /_metad/rule/<group>
    Begins,         \* pairs of names of which the first is a string prefix of the second
    Ip,             \* the names that net.ParseIP takes
    Link,           \* the texts that begin with "/"
    Word,           \* fmt.Sprintf("%v", nil)
    DataPut,        \* the requests to put data: pairs of a path and a value
    DataDelete,     \* the requests to delete data: pairs of a path and its subs
    MappingPut,     \* the same for mappings
    MappingDelete,
    MaxRequests     \* bound on the number of requests

\* The keys of objects, and the subs of deletes.
Key == Name \cup {EmptyKey, Dot, DotDot}

ASSUME ManageAssumption ==
    /\ Nil \notin Value
    /\ Link \subseteq Value
    /\ Word \in Value
    /\ {Metad, MappingDir, RuleDir} \cup Ip \subseteq Name
    /\ MappingDir # RuleDir
    /\ {EmptyKey, Dot, DotDot} \cap Name = {}
    /\ Cardinality({EmptyKey, Dot, DotDot}) = 3
    /\ \A r \in DataPut \cup MappingPut :
          r[1] \in Path /\ IsJson(r[2], Key, Value \cup {Nil})
    /\ \A r \in DataDelete \cup MappingDelete : r[1] \in Path /\ r[2] \subseteq Key
    /\ MaxRequests \in Nat

VARIABLES
    etcd,           \* the keys in etcd and their values
    data,           \* the data store
    mapping,        \* the mapping store
    access,         \* the hosts that have rules in the access store
    last,           \* the last request
    requests,       \* number of requests so far
    mixed,          \* history: a key was once the directory of another
    odd,            \* history: a mapping with a key "" or "." was put
    climbed         \* history: a mapping with a key ".." was put

vars == <<etcd, data, mapping, access, last, requests, mixed, odd, climbed>>

MappingRoot == <<Metad, MappingDir>>
RuleRoot    == <<Metad, RuleDir>>

IsMappingKey(k) == AtOrAbove(MappingRoot, k)
IsRuleKey(k)    == AtOrAbove(RuleRoot, k)
IsConfigKey(k)  == IsMappingKey(k) \/ IsRuleKey(k)

\* TrimPathPrefix of a key with a prefix of two components.
Trimmed(k) == SubSeq(k, 3, Len(k))

NoRequest == [op |-> "none"]

Init ==
    /\ etcd = <<>>
    /\ data = <<>>
    /\ mapping = <<>>
    /\ access = {}
    /\ last = NoRequest
    /\ requests = 0
    /\ mixed = FALSE
    /\ odd = FALSE
    /\ climbed = FALSE

-----------------------------------------------------------------------------
(* The stores follow etcd.                                                 *)

\* The keys of f that are in K, the keys of f over those of g, and one key.
Only(f, K)   == [k \in DOMAIN f \cap K |-> f[k]]
Over(f, g)   == [k \in DOMAIN f \cup DOMAIN g |-> IF k \in DOMAIN f THEN f[k] ELSE g[k]]
Single(k, v) == [l \in {k} |-> v]

\* newProcessSyncChangeFunc for a set of deleted keys, and for the puts f.
StoreDelete(t, D) == Only(t, {p \in DOMAIN t : \A q \in D : ~AtOrAbove(q, p)})

StorePut(t, f) == Over(Only(f, DOMAIN f \ {Root}), t)

IsDir(t, p) == p = Root \/ \E q \in DOMAIN t : Above(p, q)

\* The leaves at and below p.
Visible(t, p) ==
    {<<q, t[q]>> : q \in {l \in DOMAIN t : AtOrAbove(p, l) /\ ~IsDir(t, l)}}

\* The keys among K that the prefixes and the filters leave to each watch.
DataKeys(K)    == {k \in K : ~IsConfigKey(k)}
MappingKeys(K) == {k \in K : IsMappingKey(k)}
RuleKeys(K)    == {k \in K : IsRuleKey(k)}

TrimmedMap(f) == [p \in {Trimmed(k) : k \in DOMAIN f} |-> f[MappingRoot \o p]]

Hosts(K) == {k[Len(k)] : k \in K}

\* etcd with the keys D deleted and then the keys of f put.
Committed(D, f) == Over(f, Only(etcd, DOMAIN etcd \ D))

\* Mutant: the watch does not skip the mapping keys.
FollowDataUnfiltered(D, f) == StorePut(StoreDelete(data, D), f)

\* The watch of the data's prefix skips mapping and rule keys.
FollowData(D, f) ==
    StorePut(StoreDelete(data, DataKeys(D)), Only(f, DataKeys(DOMAIN f)))

FollowMapping(D, f) ==
    StorePut(StoreDelete(mapping, {Trimmed(k) : k \in MappingKeys(D)}),
             TrimmedMap(Only(f, MappingKeys(DOMAIN f))))

FollowRules(D, f) == (access \ Hosts(RuleKeys(D))) \cup Hosts(RuleKeys(DOMAIN f))

\* The watches of the three prefixes deliver the deletes D and the puts f.
Follow(D, f) ==
    /\ data' = FollowData(D, f)
    /\ mapping' = FollowMapping(D, f)
    /\ access' = FollowRules(D, f)

Mixed(e) == \E k, l \in DOMAIN e : Above(k, l)

Commit(D, f) ==
    /\ etcd' = Committed(D, f)
    /\ Follow(D \cap DOMAIN etcd, f)
    /\ mixed' = (mixed \/ Mixed(etcd'))

\* The initial Get of each prefix: of the config keys the data's Get skips only
\* the mappings.
FreshData    == StorePut(<<>>, Only(etcd, DOMAIN etcd \ MappingKeys(DOMAIN etcd)))
FreshMapping == StorePut(<<>>, TrimmedMap(Only(etcd, MappingKeys(DOMAIN etcd))))
FreshAccess  == Hosts(RuleKeys(DOMAIN etcd))

Restart ==
    /\ data' = FreshData
    /\ mapping' = FreshMapping
    /\ access' = FreshAccess
    /\ last' = [op |-> "restart"]
    /\ UNCHANGED <<etcd, requests, mixed, odd, climbed>>

-----------------------------------------------------------------------------
(* etcdv3/client.go.                                                       *)

\* The number of names, and of "..", among the components i to j of s.
Down(s, i, j) == Cardinality({n \in i..j : s[n] \in Name})
Up(s, i, j)   == Cardinality({n \in i..j : s[n] = DotDot})

\* path.Clean of a rooted path resolves "", "." and "..": a name is left if nowhere
\* behind it there have been as many ".." as names from it on.
Clean(s) ==
    LET kept   == {i \in DOMAIN s : s[i] \in Name
                                      /\ \A j \in i..Len(s) : Down(s, i, j) > Up(s, i, j)}
        nth(n) == CHOOSE i \in kept : Cardinality({j \in kept : j <= i}) = n
    IN  [n \in 1..Cardinality(kept) |-> s[nth(n)]]

\* AppendPathPrefix of the places of the texts, each with its text.
Puts(base, b) == {<<Clean(base \o e[1]), e[2]>> : e \in Flatten(b)}

FlatPuts(base, b) == AsMap(Puts(base, b))

\* Two entries with the same key: etcd refuses the transaction.
Clash(base, b) ==
    \E e, g \in Flatten(b) : e # g /\ Clean(base \o e[1]) = Clean(base \o g[1])

\* The string name begins with the string n.
StartsWith(name, n) == name = n \/ <<n, name>> \in Begins

\* The keys that a transaction deletes for a name of m2: all that the name is a
\* string prefix of, if there is an object, or the single key.
NameKeys(m2, n) ==
    IF m2[<<n>>].kind = "map" THEN {k \in DOMAIN etcd \ {Root} : StartsWith(k[1], n)}
    ELSE {<<n>>}

\* What internalGets("", "/") gets, expanded.
AllKeys == Expand(Only(etcd, DOMAIN etcd \ MappingKeys(DOMAIN etcd)))

\* Mutant: "_metad" is deleted like the other names.
AllDataAndConfig ==
    {Root} \cup UNION {NameKeys(AllKeys, q[1]) : q \in DOMAIN AllKeys \ {<<>>}}

\* internalDelete of "/" as a directory: the names that Expand finds, of which the
\* empty one stands for the key "/", but not "_metad".
AllData ==
    {Root} \cup UNION {NameKeys(AllKeys, q[1]) :
                        q \in {r \in DOMAIN AllKeys \ {<<>>} : r[1] # Metad}}

\* Mutant: the prefix of a directory has no slash at its end.
DirKeysUnslashed(base) ==
    IF base = Root THEN AllData
    ELSE {k \in DOMAIN etcd : /\ Len(k) >= Len(base)
                              /\ AtOrAbove(Parent(base), k)
                              /\ StartsWith(k[Len(base)], base[Len(base)])}

DirKeys(base) == IF base = Root THEN AllData ELSE {k \in DOMAIN etcd : Above(base, k)}

\* Mutant: an object is merged although it should replace.
PutMerging(base, b, replace) ==
    IF ~IsTree(b)
    THEN Commit({}, Single(base, IF b[<<>>].kind = "text" THEN b[<<>>].text ELSE Word))
    ELSE Commit({}, IF Clash(base, b) THEN <<>> ELSE FlatPuts(base, b))

\* internalPut
Put(base, b, replace) ==
    IF ~IsTree(b)
    THEN Commit({}, Single(base, IF b[<<>>].kind = "text" THEN b[<<>>].text ELSE Word))
    ELSE Commit(IF replace THEN DirKeys(base) ELSE {},
                IF Clash(base, b) THEN <<>> ELSE FlatPuts(base, b))

-----------------------------------------------------------------------------
(* The handlers.                                                           *)

Requested(r) ==
    /\ requests < MaxRequests
    /\ requests' = requests + 1
    /\ last' = r

\* dataUpdate: POST replaces, PUT merges.
PutData(p, b, replace) ==
    /\ Requested([op |-> "putData", path |-> p, body |-> b, replace |-> replace])
    /\ Put(p, b, replace)
    /\ UNCHANGED <<odd, climbed>>

\* store.Get, which treats an empty directory as not found.
Found(t, p) == p = Root \/ Visible(t, p) # {}

\* The keys that a delete of p takes, when the store t tells whether p is a
\* directory; base is p's key.
DeleteKeys(t, p, base) ==
    IF ~Found(t, p) THEN {} ELSE IF IsDir(t, p) THEN DirKeys(base) ELSE {base}

\* path.Join(nodePath, sub): "" and "." lead to the node itself and ".." to its
\* parent, which checkSubs lets pass.
Sub(p, s) == Clean(Append(p, s))

\* DeleteData, which does not look for empty subs.
DataTargets(p, S) == IF S = {} THEN {p} ELSE {Sub(p, s) : s \in S}

DeleteData(p, S) ==
    /\ Requested([op |-> "deleteData", path |-> p, subs |-> S])
    /\ Commit(UNION {DeleteKeys(data, q, q) : q \in DataTargets(p, S)}, <<>>)
    /\ UNCHANGED <<odd, climbed>>

\* checkMappingPath of the value at place q of b.
IsLink(b, q) == b[q].kind = "text" /\ b[q].text \in Link

\* checkMapping of it: an object whose values are links or such objects.  A key with a
\* slash, which it refuses, is no Key.
checkMapping(b, q) ==
    /\ b[q].kind = "map"
    /\ \A r \in DOMAIN b : Above(q, r) => b[r].kind = "map" \/ IsLink(b, r)

\* PutMapping's check of "/": an object of ips.
checkIps(b) ==
    IsMap(b) /\ \A q \in DOMAIN b : Len(q) = 1 => q[1] \in Ip /\ checkMapping(b, q)

\* Mutant: the mapping of an ip may be any text that is a path.
AcceptedAsLink(p, b) ==
    IF p = Root THEN checkIps(b) ELSE p[1] \in Ip /\ (checkMapping(b, <<>>) \/ IsLink(b, <<>>))

\* PutMapping's checks: "/" takes an object of ips, "/ip" an object, and what is
\* below it an object or a path.
Accepted(p, b) ==
    IF p = Root THEN checkIps(b)
    ELSE p[1] \in Ip /\ (checkMapping(b, <<>>) \/ (Len(p) > 1 /\ IsLink(b, <<>>)))

\* An object has one of the keys K on the way to a text.
HasKey(b, K) == IsTree(b) /\ \E e \in Flatten(b) : \E i \in DOMAIN e[1] : e[1][i] \in K

PutMapping(p, b, replace) ==
    /\ Requested([op |-> "putMapping", path |-> p])
    /\ IF Accepted(p, b)
       THEN /\ Put(MappingRoot \o p, b, replace)
            /\ odd' = (odd \/ HasKey(b, {EmptyKey, Dot}))
            /\ climbed' = (climbed \/ HasKey(b, {DotDot}))
       ELSE UNCHANGED <<etcd, data, mapping, access, mixed, odd, climbed>>

\* DeleteMapping passes over empty subs.
MappingTargets(p, S) == IF S = {} THEN {p} ELSE {Sub(p, s) : s \in S \ {EmptyKey}}

DeleteMapping(p, S) ==
    /\ Requested([op |-> "deleteMapping", path |-> p])
    /\ Commit(UNION {DeleteKeys(mapping, q, MappingRoot \o q) : q \in MappingTargets(p, S)},
              <<>>)
    /\ UNCHANGED <<odd, climbed>>

PutAccessRule(h) ==
    /\ Requested([op |-> "rule"])
    /\ Commit({}, Single(Append(RuleRoot, h), Word))
    /\ UNCHANGED <<odd, climbed>>

DeleteAccessRule(h) ==
    /\ Requested([op |-> "rule"])
    /\ Commit({Append(RuleRoot, h)}, <<>>)
    /\ UNCHANGED <<odd, climbed>>

\* No request for data names a path below /_metad, or leads to one by "..", and none
\* for mappings leads out of the directory of the mappings: MappingDir stands for two
\* names, that of the mappings and that of the group.
ASSUME KeysAssumption ==
    /\ \A r \in DataPut : \A k \in {r[1]} \cup {l[1] : l \in Puts(r[1], r[2])} :
          k # Root => k[1] # Metad
    /\ \A r \in DataDelete : \A k \in DataTargets(r[1], r[2]) : k # Root => k[1] # Metad
    /\ \A r \in MappingPut : \A l \in Puts(MappingRoot \o r[1], r[2]) : Above(MappingRoot, l[1])

Next ==
    \/ \E r \in DataPut, replace \in BOOLEAN : PutData(r[1], r[2], replace)
    \/ \E r \in DataDelete : DeleteData(r[1], r[2])
    \/ \E r \in MappingPut, replace \in BOOLEAN : PutMapping(r[1], r[2], replace)
    \/ \E r \in MappingDelete : DeleteMapping(r[1], r[2])
    \/ \E h \in Ip : PutAccessRule(h) \/ DeleteAccessRule(h)
    \/ Restart

Spec == Init /\ [][Next]_vars

-----------------------------------------------------------------------------
(* Properties.                                                             *)

\* What the data store shows, but for the rules, which are shown as data after
\* a restart.
Shown(t) == {l \in Visible(t, Root) : ~IsRuleKey(l[1])}

\* A POST of an object replaces all that is shown below its path: what is shown there
\* then is what the object flattens to, whatever was put, deleted and restarted
\* before, and the keys that ".." leads elsewhere are shown there.  Not when etcd
\* refuses the object, and a text and a directory must not have been put at one path.
PostReplaces ==
    last.op = "putData" /\ ~mixed =>
        (last.replace /\ IsTree(last.body) /\ ~Clash(last.path, last.body) =>
            LET put == Puts(last.path, last.body)
            IN  /\ {l \in Shown(data) : Above(last.path, l[1])} \subseteq put
                /\ {l \in put : l[1] # Root} \subseteq Shown(data))

\* Stores that follow etcd's changes show what stores filled from etcd would: a
\* restart changes nothing for readers, two metads agree, and no mapping is shown
\* as data, which the initial Get and the watch filter each for itself.  Texts and
\* directories at one path break this: etcd keeps both, and deletes only one.
RestartAgrees ==
    ~mixed => /\ Shown(data) = Shown(FreshData)
              /\ mapping = FreshMapping
              /\ access = FreshAccess

\* Self and getAccessTree rely on an ip's mapping being an object of links: the
\* checks see to it through every merge, replace and delete.  They look at the
\* names of the keys and not where they lead: "" or "." in an object of ips makes a
\* link of the ip itself, and ".." leads out of the ip.
MappingsAreLinks ==
    \A l \in Visible(mapping, Root) :
        /\ l[2] \in Link
        /\ climbed \/ (l[1][1] \in Ip /\ (Len(l[1]) > 1 \/ odd))

Config(e) == {k \in DOMAIN e : IsConfigKey(k)}

\* Requests for data leave the mappings and rules alone, also the delete of all
\* data, unless the name of a directory is the beginning of "_metad" ("when delete
\* "/", should avoid delete mapping").
ConfigKept ==
    [][last'.op \in {"putData", "deleteData"} /\ requests' # requests
         => \/ Config(etcd') = Config(etcd)
            \/ \E k \in DOMAIN etcd : Len(k) > 1 /\ <<k[1], Metad>> \in Begins]_vars

\* A delete of data takes what it names and nothing else, if its subs are names
\* ("", "." and ".." take the node or its parent) and no text and directory shared
\* a path.
DeleteExact ==
    [][last'.op = "deleteData" /\ requests' # requests /\ ~mixed
         /\ last'.subs \subseteq Name
         => LET named == IF last'.subs = {} THEN {last'.path}
                         ELSE {Append(last'.path, s) : s \in last'.subs}
            IN  Shown(data') = {l \in Shown(data) : \A q \in named : ~AtOrAbove(q, l[1])}]_vars

=============================================================================
