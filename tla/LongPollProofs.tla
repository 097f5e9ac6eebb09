--------------------------- MODULE LongPollProofs ---------------------------
(***************************************************************************)
(* Waiting for a change, for any number of clients, data paths, writes,    *)
(* changes of the mapping and restarts.                                    *)
(***************************************************************************)
EXTENDS LongPoll, TLAPS

\* The current content belongs to the current version, and a handler that has
\* read a version early has not read one from the future.
PastInv ==
    /\ \A c \in Client : Asked(c, data, mapping) \in past[version][c]
    /\ \A c \in Client : wanted[c] <= version

\* From WatchSelf's reading of the mapping on, the handler has the current one,
\* or it was changed in the window before the mapping is watched, or stopChan
\* is closed.
MappedInv ==
    \A c \in Client : kind[c] = "self" /\ ~slipped[c] =>
        /\ pc[c] = "watchMapping" => target[c] = mapping
        /\ HearsMapping(c) /\ ~stopped[c] => target[c] = mapping

Inv ==
    /\ TypeOK
    /\ PastInv
    /\ VersionNotAhead
    /\ MappedInv

-----------------------------------------------------------------------------
\* A channel holds events.
LEMMA RoomType == \A c \in Client : Room(c) \in Nat /\ 0 <= Room(c) /\ AggLen \in Nat
  BY LongPollAssumption DEF Room

\* Root and Self return a content or nothing.
LEMMA AskedType ==
    ASSUME NEW c, NEW d \in [DataPath -> Datum], NEW m \in DataPath \cup {Unmapped}
    PROVE  Asked(c, d, m) \in Datum
  BY LongPollAssumption DEF Asked, Datum

\* A process that starts has a history of one version.
LEMMA PastType ==
    ASSUME NEW d \in [DataPath -> Datum], NEW m \in DataPath \cup {Unmapped},
           NEW v \in 0..MaxVersion
    PROVE  /\ PastOf(d, m, v) \in [0..MaxVersion -> [Client -> SUBSET Datum]]
           /\ \A c \in Client : Asked(c, d, m) \in PastOf(d, m, v)[v][c]
  <1>1. \A c \in Client : Asked(c, d, m) \in Datum
    BY AskedType
  <1> QED
    BY <1>1 DEF PastOf

\* The initial states: metad has done its initial sync.
LEMMA InvInit == Init => Inv
  <1> SUFFICES ASSUME Init PROVE Inv
    OBVIOUS
  <1>1. /\ past \in [0..MaxVersion -> [Client -> SUBSET Datum]]
        /\ \A c \in Client : Asked(c, data, mapping) \in past[version][c]
    BY PastType DEF Init
  <1>2. TypeOK
    <2>1. MaxVersion \in Nat /\ MaxMappings \in Nat /\ MaxRestarts \in Nat /\ BufLen \in Nat
      BY LongPollAssumption
    <2>2. RootPath \in DataPath
      BY LongPollAssumption
    <2>3. /\ wanted \in [Client -> 0..MaxVersion] /\ chan \in [Client -> Nat]
          /\ \A c \in Client : chan[c] <= Room(c)
          /\ prev \in [Client -> 0..MaxVersion]
          /\ mappings \in 0..MaxMappings /\ restarts \in 0..MaxRestarts
      BY <2>1, RoomType DEF Init
    <2>4. /\ stopped \in [Client -> BOOLEAN] /\ ours \in [Client -> BOOLEAN]
          /\ remapped \in [Client -> BOOLEAN] /\ slipped \in [Client -> BOOLEAN]
      BY DEF Init
    <2> QED
      BY <1>1, <2>2, <2>3, <2>4 DEF Init, TypeOK, PC, Idle
  <1>3. PastInv
    BY <1>1, LongPollAssumption DEF Init, PastInv
  <1>4. VersionNotAhead
    BY DEF Init, VersionNotAhead
  <1>5. MappedInv
    BY DEF Init, MappedInv, HearsMapping, Registered, Idle
  <1> QED
    BY <1>2, <1>3, <1>4, <1>5 DEF Inv

-----------------------------------------------------------------------------
(* The world.                                                              *)

\* A write adds a version: the contents that clients got stay where they were.
LEMMA WriteStep ==
    ASSUME Inv, NEW p \in DataPath, NEW x \in Datum, Write(p, x)
    PROVE  Inv'
  <1> DEFINE new == [c \in Client |-> {Asked(c, data', mapping)}]
  <1>1. /\ version < MaxVersion /\ version' = version + 1
        /\ data' = [data EXCEPT ![p] = x]
        /\ chan' = [c \in Client |-> Notified(c, p, x)]
        /\ past' = [past EXCEPT ![version + 1] = new]
        /\ UNCHANGED <<mapping, mappings, restarts, kind, pc, target, wanted, stopped,
                       prev, got, ours, remapped, slipped>>
    BY DEF Write
  <1>2. TypeOK /\ version \in 0..MaxVersion /\ MaxVersion \in Nat
    BY LongPollAssumption DEF Inv, TypeOK
  <1>3. version + 1 \in 0..MaxVersion /\ data' \in [DataPath -> Datum]
    BY <1>1, <1>2 DEF TypeOK
  <1>4. \A c \in Client : Asked(c, data', mapping) \in Datum
    BY <1>2, <1>3, AskedType DEF TypeOK
  <1>5. /\ past' \in [0..MaxVersion -> [Client -> SUBSET Datum]]
        /\ past'[version + 1] = new
        /\ \A v \in 0..version : past'[v] = past[v]
    <2>1. new \in [Client -> SUBSET Datum]
      BY <1>4
    <2>2. past \in [0..MaxVersion -> [Client -> SUBSET Datum]]
      BY <1>2 DEF TypeOK
    <2>3. \A v \in 0..version : v \in 0..MaxVersion /\ v # version + 1
      BY <1>2
    <2> HIDE DEF new
    <2> QED
      BY <1>1, <1>3, <2>1, <2>2, <2>3
  <1>6. TypeOK'
    <2>1. chan' \in [Client -> Nat] /\ \A c \in Client : (chan[c] <= Room(c))'
      <3>1. \A c \in Client : Notified(c, p, x) \in Nat /\ Notified(c, p, x) <= Room(c)
        BY <1>2, RoomType DEF Notified, TypeOK
      <3>2. \A c \in Client : Room(c)' = Room(c)
        BY <1>1 DEF Room, Aggregated
      <3> QED
        BY <1>1, <3>1, <3>2
    <2> QED
      BY <1>1, <1>2, <1>3, <1>5, <2>1 DEF TypeOK
  <1>7. \A c \in Client : Asked(c, data, mapping)' = Asked(c, data', mapping)
    BY <1>1 DEF Asked, OfSelf
  <1>8. PastInv'
    <2>1. \A c \in Client : Asked(c, data, mapping)' \in past'[version'][c]
      <3>1. \A c \in Client : Asked(c, data', mapping) \in new[c]
        OBVIOUS
      <3> HIDE DEF new
      <3> QED
        BY <1>1, <1>5, <1>7, <3>1
    <2>2. \A c \in Client : wanted'[c] <= version'
      BY <1>1, <1>2 DEF Inv, TypeOK, PastInv
    <2> QED
      BY <2>1, <2>2 DEF PastInv
  <1>9. VersionNotAhead'
    <2> SUFFICES ASSUME NEW c \in Client, prev[c] > 0, ours[c]
                 PROVE  \E v \in prev[c]..version + 1 : got[c] \in past'[v][c]
      BY <1>1 DEF VersionNotAhead
    <2>1. PICK v \in prev[c]..version : got[c] \in past[v][c]
      BY DEF Inv, VersionNotAhead
    <2>2. v \in 0..version /\ v \in prev[c]..version + 1
      BY <1>2 DEF TypeOK
    <2> QED
      BY <1>5, <2>1, <2>2
  <1>10. MappedInv'
    BY <1>1 DEF Inv, MappedInv, HearsMapping, Registered
  <1> QED
    BY <1>6, <1>8, <1>9, <1>10 DEF Inv

\* A change of the mapping is heard, or falls into the window.
LEMMA ChangeMappingStep ==
    ASSUME Inv, NEW p \in DataPath \cup {Unmapped}, ChangeMapping(p)
    PROVE  Inv'
  <1> DEFINE new == [c \in Client |-> past[version][c] \cup {Asked(c, data, p)}]
  <1>1. /\ mappings < MaxMappings /\ mapping' = p /\ mappings' = mappings + 1
        /\ stopped' = [c \in Client |-> stopped[c] \/ HearsMapping(c)]
        /\ past' = [past EXCEPT ![version] = new]
        /\ remapped' = [c \in Client |-> remapped[c] \/ OfSelf(c)]
        /\ slipped' = [c \in Client |-> slipped[c] \/ pc[c] = "watchMapping"]
        /\ UNCHANGED <<data, version, restarts, kind, pc, target, wanted, chan, prev, got, ours>>
    BY DEF ChangeMapping
  <1>2. TypeOK /\ version \in 0..MaxVersion /\ MaxVersion \in Nat
    BY LongPollAssumption DEF Inv, TypeOK
  <1>3. \A c \in Client : Asked(c, data, p) \in Datum
    BY <1>2, AskedType DEF TypeOK
  <1>4. /\ past' \in [0..MaxVersion -> [Client -> SUBSET Datum]]
        /\ past'[version] = new
        /\ \A v \in 0..MaxVersion : v # version => past'[v] = past[v]
    <2>1. new \in [Client -> SUBSET Datum]
      BY <1>2, <1>3 DEF TypeOK
    <2> QED
      BY <1>1, <1>2, <2>1 DEF TypeOK
  <1>5. TypeOK'
    <2>1. /\ stopped' \in [Client -> BOOLEAN] /\ remapped' \in [Client -> BOOLEAN]
          /\ slipped' \in [Client -> BOOLEAN]
      BY <1>1, <1>2 DEF TypeOK, HearsMapping, OfSelf
    <2>2. mappings' \in 0..MaxMappings
      BY <1>1, <1>2, LongPollAssumption DEF TypeOK
    <2>3. \A c \in Client : Room(c)' = Room(c)
      BY <1>1 DEF Room, Aggregated
    <2> QED
      BY <1>1, <1>2, <1>4, <2>1, <2>2, <2>3 DEF TypeOK
  <1>6. PastInv'
    <2>1. \A c \in Client : Asked(c, data, mapping)' = Asked(c, data, p)
      BY <1>1 DEF Asked, OfSelf
    <2> QED
      BY <1>1, <1>4, <2>1 DEF Inv, PastInv
  <1>7. VersionNotAhead'
    <2> SUFFICES ASSUME NEW c \in Client, prev[c] > 0, ours[c]
                 PROVE  \E v \in prev[c]..version : got[c] \in past'[v][c]
      BY <1>1 DEF VersionNotAhead
    <2>1. PICK v \in prev[c]..version : got[c] \in past[v][c]
      BY DEF Inv, VersionNotAhead
    <2>2. v \in 0..MaxVersion
      BY <1>2 DEF TypeOK
    <2> QED
      BY <1>4, <2>1, <2>2
  <1>8. MappedInv'
    <2> SUFFICES ASSUME NEW c \in Client, kind'[c] = "self", ~slipped'[c]
                 PROVE  /\ pc'[c] = "watchMapping" => target'[c] = mapping'
                        /\ HearsMapping(c)' /\ ~stopped'[c] => target'[c] = mapping'
      BY DEF MappedInv
    <2>1. pc'[c] # "watchMapping"
      BY <1>1
    <2>2. HearsMapping(c)' => stopped'[c]
      BY <1>1 DEF HearsMapping, Registered
    <2> QED
      BY <2>1, <2>2
  <1> QED
    BY <1>5, <1>6, <1>7, <1>8 DEF Inv

\* After a restart no version is known to be of this process.
LEMMA RestartStep ==
    ASSUME Inv, NEW v \in 0..MaxVersion, Restart(v)
    PROVE  Inv'
  <1>1. /\ restarts < MaxRestarts /\ restarts' = restarts + 1 /\ version' = v
        /\ NoRequest
        /\ past' = PastOf(data, mapping, v)
        /\ ours' = [c \in Client |-> FALSE]
        /\ UNCHANGED <<data, mapping, mappings, kind, prev, got, remapped>>
    BY DEF Restart
  <1>2. TypeOK
    BY DEF Inv
  <1>3. /\ past' \in [0..MaxVersion -> [Client -> SUBSET Datum]]
        /\ \A c \in Client : Asked(c, data, mapping) \in past'[v][c]
    BY <1>1, <1>2, PastType DEF TypeOK
  <1>4. TypeOK'
    <2>1. restarts' \in 0..MaxRestarts
      BY <1>1, <1>2, LongPollAssumption DEF TypeOK
    <2>2. /\ pc' \in [Client -> PC] /\ target' \in [Client -> DataPath]
          /\ stopped' \in [Client -> BOOLEAN] /\ slipped' \in [Client -> BOOLEAN]
          /\ ours' \in [Client -> BOOLEAN]
      BY <1>1, LongPollAssumption DEF NoRequest, PC, Idle
    <2>3. /\ wanted' \in [Client -> 0..MaxVersion] /\ chan' \in [Client -> Nat]
          /\ \A c \in Client : (chan[c] <= Room(c))'
      <3>1. \A c \in Client : Room(c)' = Room(c)
        BY <1>1 DEF Room, Aggregated
      <3> QED
        BY <1>1, <3>1, LongPollAssumption, RoomType DEF NoRequest
    <2> QED
      BY <1>1, <1>2, <1>3, <2>1, <2>2, <2>3 DEF TypeOK
  <1>5. PastInv'
    <2>1. \A c \in Client : Asked(c, data, mapping)' = Asked(c, data, mapping)
      BY <1>1 DEF Asked, OfSelf
    <2>2. \A c \in Client : wanted'[c] = 0 /\ 0 <= v
      BY <1>1, LongPollAssumption DEF NoRequest
    <2> QED
      BY <1>1, <1>3, <2>1, <2>2 DEF PastInv
  <1>6. VersionNotAhead'
    BY <1>1 DEF VersionNotAhead
  <1>7. MappedInv'
    BY <1>1 DEF MappedInv, NoRequest, HearsMapping, Registered, Idle
  <1> QED
    BY <1>4, <1>5, <1>6, <1>7 DEF Inv

-----------------------------------------------------------------------------
(* The handlers.                                                           *)

\* A step of one handler that replies nothing: it stays with the mapping that it
\* has read.
LEMMA HandlerStep ==
    ASSUME Inv, NEW c \in Client,
           UNCHANGED <<world, kind, prev, got, past, ours, remapped>>,
           NEW l \in PC, pc' = [pc EXCEPT ![c] = l],
           NEW t \in DataPath, target' = [target EXCEPT ![c] = t],
           NEW n \in 0..MaxVersion, wanted' = [wanted EXCEPT ![c] = n], n <= version,
           NEW m \in Nat, m <= Room(c), chan' = [chan EXCEPT ![c] = m],
           NEW a \in BOOLEAN, stopped' = [stopped EXCEPT ![c] = a],
           NEW b \in BOOLEAN, slipped' = [slipped EXCEPT ![c] = b],
           kind[c] = "self" /\ ~b =>
              /\ l = "watchMapping" => t = mapping
              /\ l \in {"watchData", "wait", "batch", "remove", "abandoned"} /\ ~a =>
                    t = mapping
    PROVE  Inv'
  <1>1. UNCHANGED <<data, version, mapping, mappings, restarts>>
    BY DEF world
  <1>2. TypeOK'
    <2>1. \A x \in Client : Room(x)' = Room(x)
      BY DEF Room, Aggregated
    <2>2. \A x \in Client : (chan[x] <= Room(x))'
      BY <2>1 DEF Inv, TypeOK
    <2> QED
      BY <1>1, <2>2 DEF Inv, TypeOK
  <1>3. PastInv'
    <2>1. \A x \in Client : Asked(x, data, mapping)' = Asked(x, data, mapping)
      BY <1>1 DEF Asked, OfSelf
    <2>2. \A x \in Client : wanted'[x] <= version'
      BY <1>1 DEF Inv, TypeOK, PastInv
    <2> QED
      BY <1>1, <2>1, <2>2 DEF Inv, PastInv
  <1>4. VersionNotAhead'
    BY <1>1 DEF Inv, VersionNotAhead
  <1>5. MappedInv'
    <2> SUFFICES ASSUME NEW x \in Client, kind[x] = "self", ~slipped'[x]
                 PROVE  /\ pc'[x] = "watchMapping" => target'[x] = mapping
                        /\ HearsMapping(x)' /\ ~stopped'[x] => target'[x] = mapping
      BY <1>1 DEF MappedInv
    <2>1. CASE x = c
      <3>1. pc'[c] = l /\ target'[c] = t /\ stopped'[c] = a /\ slipped'[c] = b
        BY DEF Inv, TypeOK
      <3> QED
        BY <2>1, <3>1 DEF HearsMapping, Registered
    <2>2. CASE x # c
      <3>1. /\ pc'[x] = pc[x] /\ target'[x] = target[x] /\ stopped'[x] = stopped[x]
            /\ slipped'[x] = slipped[x]
        BY <2>2 DEF Inv, TypeOK
      <3> QED
        BY <3>1 DEF Inv, MappedInv, HearsMapping, Registered
    <2> QED
      BY <2>1, <2>2
  <1> QED
    BY <1>2, <1>3, <1>4, <1>5 DEF Inv

\* The reply: what is read now was there at the version that it is tagged with,
\* or later.
LEMMA ReplyStep ==
    ASSUME Inv, NEW c \in Client, ReadAndReply(c)
    PROVE  Inv'
  <1>1. PICK v \in ReplyVersions(c) : prev' = [prev EXCEPT ![c] = v]
    BY DEF ReadAndReply
  <1>2. /\ pc' = [pc EXCEPT ![c] = Idle]
        /\ got' = [got EXCEPT ![c] = Asked(c, data, mapping)]
        /\ ours' = [ours EXCEPT ![c] = TRUE]
        /\ remapped' = [remapped EXCEPT ![c] = FALSE]
        /\ wanted' = [wanted EXCEPT ![c] = 0]
        /\ UNCHANGED <<data, version, mapping, mappings, restarts, kind, target, chan,
                       stopped, past, slipped>>
    BY DEF ReadAndReply, Goto, world
  <1>3. /\ TypeOK /\ version \in 0..MaxVersion /\ MaxVersion \in Nat
        /\ wanted[c] \in 0..MaxVersion /\ wanted[c] <= version
    BY LongPollAssumption DEF Inv, TypeOK, PastInv
  <1>4. v \in 0..MaxVersion /\ v <= version
    BY <1>3 DEF ReplyVersions
  <1>5. Asked(c, data, mapping) \in Datum
    BY <1>3, AskedType DEF TypeOK
  <1>6. TypeOK'
    <2>1. \A x \in Client : Room(x)' = Room(x)
      BY <1>2 DEF Room, Aggregated
    <2> QED
      BY <1>1, <1>2, <1>3, <1>4, <1>5, <2>1 DEF TypeOK, PC, Idle
  <1>7. PastInv'
    <2>1. \A x \in Client : Asked(x, data, mapping)' = Asked(x, data, mapping)
      BY <1>2 DEF Asked, OfSelf
    <2>2. \A x \in Client : wanted'[x] <= version'
      BY <1>2, <1>3 DEF Inv, TypeOK, PastInv
    <2> QED
      BY <1>2, <2>1, <2>2 DEF Inv, PastInv
  <1>8. VersionNotAhead'
    <2> SUFFICES ASSUME NEW x \in Client, prev'[x] > 0, ours'[x]
                 PROVE  \E n \in prev'[x]..version : got'[x] \in past[n][x]
      BY <1>2 DEF VersionNotAhead
    <2>1. CASE x = c
      <3>1. prev'[c] = v /\ got'[c] = Asked(c, data, mapping)
        BY <1>1, <1>2, <1>3 DEF TypeOK
      <3>2. version \in v..version
        BY <1>3, <1>4
      <3> QED
        BY <2>1, <3>1, <3>2 DEF Inv, PastInv
    <2>2. CASE x # c
      <3>1. prev'[x] = prev[x] /\ got'[x] = got[x] /\ ours'[x] = ours[x]
        BY <1>1, <1>2, <1>3, <2>2 DEF TypeOK
      <3> QED
        BY <3>1 DEF Inv, VersionNotAhead
    <2> QED
      BY <2>1, <2>2
  <1>9. MappedInv'
    <2>1. \A x \in Client : x # c => pc'[x] = pc[x]
      BY <1>2, <1>3 DEF TypeOK
    <2>2. pc'[c] = Idle
      BY <1>2, <1>3 DEF TypeOK
    <2> QED
      BY <1>2, <2>1, <2>2 DEF Inv, MappedInv, HearsMapping, Registered, Idle
  <1> QED
    BY <1>6, <1>7, <1>8, <1>9 DEF Inv

\* A variable of the handlers that a step leaves alone.
LEMMA SameAt ==
    ASSUME NEW S, NEW f \in [Client -> S], NEW c \in Client
    PROVE  f = [f EXCEPT ![c] = f[c]] /\ f[c] \in S
  OBVIOUS

\* Every step of a request preserves the invariant.
LEMMA RequestsStep ==
    ASSUME Inv, NEW c \in Client,
           Request(c) \/ RequestNow(c) \/ Disconnect(c) \/ GiveUp(c) \/ Handler(c)
    PROVE  Inv'
  <1>1. /\ TypeOK /\ version \in 0..MaxVersion /\ MaxVersion \in Nat /\ BufLen \in Nat
        /\ RootPath \in DataPath /\ 0 \in 0..MaxVersion /\ 0 <= version
        /\ 0 \in Nat /\ Room(c) \in Nat /\ 0 <= Room(c)
    BY LongPollAssumption, RoomType DEF Inv, TypeOK
  <1>2. /\ target = [target EXCEPT ![c] = target[c]] /\ target[c] \in DataPath
        /\ wanted = [wanted EXCEPT ![c] = wanted[c]] /\ wanted[c] \in 0..MaxVersion
        /\ chan = [chan EXCEPT ![c] = chan[c]] /\ chan[c] \in Nat /\ chan[c] <= Room(c)
        /\ stopped = [stopped EXCEPT ![c] = stopped[c]] /\ stopped[c] \in BOOLEAN
        /\ slipped = [slipped EXCEPT ![c] = slipped[c]] /\ slipped[c] \in BOOLEAN
    BY <1>1, SameAt DEF TypeOK
  <1>3. wanted[c] <= version /\ version <= version
    BY <1>1 DEF Inv, PastInv
  <1>4. kind[c] = "self" /\ ~slipped[c] =>
           /\ pc[c] = "watchMapping" => target[c] = mapping
           /\ pc[c] \in {"watchData", "wait", "batch", "remove", "abandoned"} /\ ~stopped[c] =>
                 target[c] = mapping
    BY DEF Inv, MappedInv, HearsMapping, Registered
  <1> DEFINE Rest == UNCHANGED <<world, kind, prev, got, past, ours, remapped>>
  <1>5. ASSUME Request(c) PROVE Inv'
    <2>1. /\ Rest /\ pc' = [pc EXCEPT ![c] = "check"] /\ "check" \in PC
          /\ UNCHANGED <<target, wanted, chan, stopped, slipped>>
      BY <1>5 DEF Request, Goto, history, PC
    <2>2. /\ target' = [target EXCEPT ![c] = target[c]]
          /\ wanted' = [wanted EXCEPT ![c] = wanted[c]]
          /\ chan' = [chan EXCEPT ![c] = chan[c]]
          /\ stopped' = [stopped EXCEPT ![c] = stopped[c]]
          /\ slipped' = [slipped EXCEPT ![c] = slipped[c]]
      BY <1>2, <2>1
    <2>3. PICK l \in PC : /\ pc' = [pc EXCEPT ![c] = l]
                          /\ l \notin {"watchMapping", "watchData", "wait", "batch",
                                       "remove", "abandoned"}
      BY <2>1
    <2>4. Rest
      BY <2>1
    <2> QED
      BY <1>2, <1>3, <2>2, <2>3, <2>4, HandlerStep
  <1>6. ASSUME RequestNow(c) PROVE Inv'
    <2>1. /\ Rest /\ pc' = [pc EXCEPT ![c] = "read"] /\ "read" \in PC
          /\ wanted' = [wanted EXCEPT ![c] = version]
          /\ UNCHANGED <<target, chan, stopped, slipped>>
      BY <1>6 DEF RequestNow, Goto, history, PC
    <2>2. /\ target' = [target EXCEPT ![c] = target[c]]
          /\ chan' = [chan EXCEPT ![c] = chan[c]]
          /\ stopped' = [stopped EXCEPT ![c] = stopped[c]]
          /\ slipped' = [slipped EXCEPT ![c] = slipped[c]]
      BY <1>2, <2>1
    <2>3. PICK l \in PC : /\ pc' = [pc EXCEPT ![c] = l]
                          /\ l \notin {"watchMapping", "watchData", "wait", "batch",
                                       "remove", "abandoned"}
      BY <2>1
    <2>4. PICK n \in 0..MaxVersion : wanted' = [wanted EXCEPT ![c] = n] /\ n <= version
      BY <1>1, <1>3, <2>1
    <2>5. Rest
      BY <2>1
    <2> QED
      BY <1>2, <2>2, <2>3, <2>4, <2>5, HandlerStep
  <1>7. ASSUME CheckVersion(c) PROVE Inv'
    <2>1. PICK l \in {"read", "getMapping", "watchData"} :
             /\ pc' = [pc EXCEPT ![c] = l]
             /\ l = "watchData" => kind[c] # "self"
      BY <1>7 DEF CheckVersion, Goto, OfSelf
    <2>2. /\ Rest /\ l \in PC
          /\ wanted' = [wanted EXCEPT ![c] = version]
          /\ target' = [target EXCEPT ![c] = RootPath]
          /\ UNCHANGED <<chan, stopped, slipped>>
      BY <1>7 DEF CheckVersion, history, PC
    <2> QED
      BY <1>1, <1>2, <1>3, <2>1, <2>2, HandlerStep
  <1>8. ASSUME GetMapping(c) PROVE Inv'
    <2>1. /\ Rest /\ "read" \in PC /\ "watchMapping" \in PC
          /\ slipped' = [slipped EXCEPT ![c] = FALSE]
          /\ UNCHANGED <<wanted, chan, stopped>>
      BY <1>8 DEF GetMapping, PC
    <2>2. CASE mapping = Unmapped
      <3>1. pc' = [pc EXCEPT ![c] = "read"] /\ target' = target
        BY <1>8, <2>2 DEF GetMapping, Goto
      <3>2. /\ target' = [target EXCEPT ![c] = target[c]]
            /\ wanted' = [wanted EXCEPT ![c] = wanted[c]]
            /\ chan' = [chan EXCEPT ![c] = chan[c]]
            /\ stopped' = [stopped EXCEPT ![c] = stopped[c]]
        BY <1>2, <2>1, <3>1
      <3>3. PICK l \in PC : /\ pc' = [pc EXCEPT ![c] = l]
                            /\ l \notin {"watchMapping", "watchData", "wait", "batch",
                                         "remove", "abandoned"}
        BY <2>1, <3>1
      <3> QED
        BY <1>2, <1>3, <2>1, <3>2, <3>3, HandlerStep
    <2>3. CASE mapping # Unmapped
      <3>1. pc' = [pc EXCEPT ![c] = "watchMapping"] /\ target' = [target EXCEPT ![c] = mapping]
        BY <1>8, <2>3 DEF GetMapping, Goto
      <3>2. mapping \in DataPath
        BY <1>1, <2>3 DEF TypeOK
      <3> QED
        BY <1>2, <1>3, <2>1, <3>1, <3>2, HandlerStep
    <2> QED
      BY <2>2, <2>3
  <1>9. ASSUME WatchMapping(c) PROVE Inv'
    <2>1. /\ Rest /\ pc' = [pc EXCEPT ![c] = "watchData"] /\ "watchData" \in PC
          /\ stopped' = [stopped EXCEPT ![c] = FALSE] /\ pc[c] = "watchMapping"
          /\ UNCHANGED <<target, wanted, chan, slipped>>
      BY <1>9 DEF WatchMapping, Goto, history, PC
    <2> QED
      BY <1>2, <1>3, <1>4, <2>1, HandlerStep
  <1>10. ASSUME NEW l \in {"wait", "batch", "remove", "abandoned"},
                NEW m \in Nat, m <= Room(c),
                pc[c] \in {"watchData", "wait", "batch"},
                pc' = [pc EXCEPT ![c] = l], chan' = [chan EXCEPT ![c] = m],
                UNCHANGED <<world, kind, target, wanted, stopped, prev, got, history>>
         PROVE  Inv'
    <2>1. Rest /\ l \in PC /\ UNCHANGED <<target, wanted, stopped, slipped>>
      BY <1>10 DEF history, PC
    <2> QED
      BY <1>2, <1>3, <1>4, <1>10, <2>1, HandlerStep
  <1>11. ASSUME WatchData(c) PROVE Inv'
    BY <1>1, <1>10, <1>11 DEF WatchData, Goto
  <1>12. ASSUME ReceiveEvent(c) PROVE Inv'
    <2>1. PICK l \in {"batch", "remove"} : pc' = [pc EXCEPT ![c] = l]
      BY <1>12 DEF ReceiveEvent, Goto
    <2>2. /\ chan[c] - 1 \in Nat /\ chan[c] - 1 <= Room(c)
          /\ chan' = [chan EXCEPT ![c] = chan[c] - 1]
      BY <1>1, <1>2, <1>12 DEF ReceiveEvent
    <2> QED
      BY <1>10, <1>12, <2>1, <2>2 DEF ReceiveEvent
  <1>13. ASSUME TimerFires(c) \/ Stopped(c) \/ Disconnect(c) PROVE Inv'
    <2>1. /\ pc[c] \in {"wait", "batch"}
          /\ UNCHANGED <<world, kind, target, wanted, chan, stopped, prev, got, history>>
      BY <1>13 DEF TimerFires, Stopped, Disconnect
    <2>2. PICK l \in {"remove", "abandoned"} : pc' = [pc EXCEPT ![c] = l]
      BY <1>13 DEF TimerFires, Stopped, Disconnect, Goto
    <2>3. chan' = [chan EXCEPT ![c] = chan[c]]
      BY <1>2, <2>1
    <2> QED
      BY <1>2, <1>10, <2>1, <2>2, <2>3
  <1>14. ASSUME RemoveWatchers(c) PROVE Inv'
    <2>1. PICK l \in {"read", Idle} : pc' = [pc EXCEPT ![c] = l]
      BY <1>14 DEF RemoveWatchers, Goto
    <2>2. PICK n \in {wanted[c], 0} : wanted' = [wanted EXCEPT ![c] = n]
      BY <1>1, <1>14 DEF RemoveWatchers, TypeOK
    <2>3. /\ Rest /\ l \in PC /\ l \notin {"watchMapping", "watchData", "wait", "batch",
                                          "remove", "abandoned"}
          /\ chan' = [chan EXCEPT ![c] = 0]
          /\ stopped' = [stopped EXCEPT ![c] = FALSE]
          /\ target' = [target EXCEPT ![c] = RootPath]
          /\ slipped' = [slipped EXCEPT ![c] = FALSE]
      BY <1>14 DEF RemoveWatchers, PC, Idle
    <2>4. n \in 0..MaxVersion /\ n <= version
      BY <1>1, <1>2, <1>3
    <2> QED
      BY <1>1, <2>1, <2>2, <2>3, <2>4, HandlerStep
  <1>15. ASSUME RemoveHangs(c) PROVE Inv'
    <2>1. /\ Rest /\ UNCHANGED <<target, wanted, chan, stopped, slipped>>
          /\ pc' = [pc EXCEPT ![c] = "stuck"] /\ "stuck" \in PC
      BY <1>15 DEF RemoveHangs, Goto, history, PC
    <2>2. /\ target' = [target EXCEPT ![c] = target[c]]
          /\ wanted' = [wanted EXCEPT ![c] = wanted[c]]
          /\ chan' = [chan EXCEPT ![c] = chan[c]]
          /\ stopped' = [stopped EXCEPT ![c] = stopped[c]]
          /\ slipped' = [slipped EXCEPT ![c] = slipped[c]]
      BY <1>2, <2>1
    <2>3. PICK l \in PC : /\ pc' = [pc EXCEPT ![c] = l]
                          /\ l \notin {"watchMapping", "watchData", "wait", "batch",
                                       "remove", "abandoned"}
      BY <2>1
    <2>4. Rest
      BY <2>1
    <2> QED
      BY <1>2, <1>3, <2>2, <2>3, <2>4, HandlerStep
  <1>16. ASSUME GiveUp(c) PROVE Inv'
    <2>1. PICK l \in PC : /\ pc' = [pc EXCEPT ![c] = l]
                          /\ l \notin {"watchMapping", "watchData", "wait", "batch",
                                       "remove", "abandoned"}
      BY <1>16 DEF GiveUp, Goto, PC, Idle
    <2>2. /\ Rest
          /\ chan' = [chan EXCEPT ![c] = 0]
          /\ stopped' = [stopped EXCEPT ![c] = FALSE]
          /\ target' = [target EXCEPT ![c] = RootPath]
          /\ slipped' = [slipped EXCEPT ![c] = FALSE]
          /\ wanted' = [wanted EXCEPT ![c] = 0]
      BY <1>16 DEF GiveUp
    <2> QED
      BY <1>1, <2>1, <2>2, HandlerStep
  <1> QED
    BY <1>5, <1>6, <1>7, <1>8, <1>9, <1>11, <1>12, <1>13, <1>14, <1>15, <1>16, ReplyStep
       DEF Handler

\* Every step preserves the invariant.
LEMMA InvNext == Inv /\ [Next]_vars => Inv'
  <1> SUFFICES ASSUME Inv, [Next]_vars PROVE Inv'
    OBVIOUS
  <1>1. CASE UNCHANGED vars
    <2>1. UNCHANGED <<data, version, mapping, mappings, restarts, kind, pc, target, wanted,
                      chan, stopped, prev, got, past, ours, remapped, slipped>>
      BY <1>1 DEF vars, world, handler, history
    <2> QED
      BY <2>1 DEF Inv, TypeOK, PastInv, VersionNotAhead, MappedInv, Asked, OfSelf,
                  HearsMapping, Registered, Room, Aggregated
  <1> QED
    BY <1>1, WriteStep, ChangeMappingStep, RestartStep, RequestsStep DEF Next

\* The inductive invariant holds in every reachable state.
THEOREM Invariance == Spec => []Inv
  BY InvInit, InvNext, PTL DEF Spec

\* Type correctness of the handlers' state.
THEOREM TypeCorrect == Spec => []TypeOK
  <1>1. Inv => TypeOK
    BY DEF Inv
  <1> QED
    BY <1>1, Invariance, PTL

\* Whatever is written, mapped and restarted between a handler's reading of the
\* version and its reading of the data, the reply is at least as new as the
\* version that it is tagged with.
THEOREM RepliesNotStale == Spec => []VersionNotAhead
  <1>1. Inv => VersionNotAhead
    BY DEF Inv
  <1> QED
    BY <1>1, Invariance, PTL

\* A sleeping request of /self watches what its ip is mapped to, except for the
\* window between WatchSelf's reading and watching of the mapping.
THEOREM SleepersWatchMapped == Spec => []WatchesMapped
  <1>1. Inv => WatchesMapped
    BY DEF Inv, MappedInv, WatchesMapped, Asleep, HearsMapping, Registered
  <1> QED
    BY <1>1, Invariance, PTL

=============================================================================
