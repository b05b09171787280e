----------------------------- MODULE MilvusMeta -----------------------------
(***************************************************************************)
(* What milvus keeps in the store and how it changes it while birdwatcher  *)
(* works on the same keys. Milvus is not part of this repository: the key  *)
(* layout is the one the code under src/ builds and lists, the life of a   *)
(* collection is the one its states and tombstones imply.                  *)
(*                                                                         *)
(*   none -> created -> serving -> dropping -> tombstoned -> gone          *)
(*                                                                         *)
(* A collection is live while created or serving. Its metadata is written  *)
(* before the metadata of its channels and segments; a dropped one leaves  *)
(* tombstones, and then orphans that nothing refers to.                    *)
(***************************************************************************)
EXTENDS MetaKV

CONSTANTS
    Collections,     \* collection ids, as path components
    DbId,            \* the database of each, "0" before databases existed
    Channel,         \* the virtual channel of each
    Segment,         \* the segment of each
    SnapshotId,      \* the id with the timestamp suffix of a snapshot key
    Importing,       \* the collections whose segment an import has opened
    InitialLives,    \* the lives of the collections behaviours start from
    Logs,            \* log ids; FirstLog is the one a new segment has
    FirstLog,
    MaxMilvus        \* bound: steps milvus takes in a behaviour

VARIABLES
    life,            \* where each collection is in its life
    milvusSteps      \* how many steps milvus has taken

milvusVars == <<store, life, milvusSteps>>

Lives == {"none", "created", "serving", "dropping", "tombstoned", "gone"}

RootKinds == {"collection", "collection-snapshot", "fields",
              "fields-snapshot", "partitions"}
DataKinds == {"watch", "checkpoint", "removal", "segment", "binlog",
              "index", "stats-task", "compaction-task"}

CollectionPath(c) ==
    IF DbId[c] = "0" THEN <<"root-coord", "collection">>
    ELSE <<"root-coord", "database", "collection-info", DbId[c]>>

\* The aliases of milvus before 2.1, under root-coord/collection-alias, which a
\* listing of collections reads too, are left out.
KeyOf(kind, c) ==
    CASE kind = "collection" -> Append(CollectionPath(c), c)
      [] kind = "collection-snapshot" ->
             Append(<<"snapshots">> \o CollectionPath(c), SnapshotId[c])
      [] kind = "fields" -> <<"root-coord", "fields", c, "100">>
      [] kind = "fields-snapshot" ->
             <<"snapshots", "root-coord", "fields", c, "100_ts">>
      [] kind = "partitions" -> <<"root-coord", "partitions", c, "p">>
      [] kind = "watch" -> <<"channelwatch", "node", Channel[c]>>
      [] kind = "checkpoint" -> <<"datacoord-meta", "channel-cp", Channel[c]>>
      [] kind = "removal" ->
             <<"datacoord-meta", "channel-removal", Channel[c]>>
      [] kind = "segment" -> <<"datacoord-meta", "s", c, "p", Segment[c]>>
      [] kind = "binlog" ->
             <<"datacoord-meta", "binlog", c, "p", Segment[c], "100">>
      [] kind = "index" -> <<"field-index", c, Channel[c]>>
      [] kind = "stats-task" -> <<"datacoord-meta", "stats-task", Segment[c]>>
      [] kind = "compaction-task" ->
             <<"datacoord-meta", "compaction-task", "Mix", "job", Segment[c]>>

SessionKey == <<"session", "querynode-7">>
ConfigKey  == <<"config", "gc.interval">>
JobKey     == <<"datacoord-meta", "import-job", "7">>
BackupKey(c) == <<"birdwatcher", "backup">> \o KeyOf("binlog", c)

OwnedBy(k, kinds, c) == \E kind \in kinds : k = KeyOf(kind, c)

\* The identifiers are texts of their own; no two collections share one.
ASSUME LayoutAssumption ==
    /\ Empty \notin Collections
    /\ \A c, d \in Collections :
           c # d => /\ Channel[c] # Channel[d] /\ Segment[c] # Segment[d]
                    /\ SnapshotId[c] # SnapshotId[d]

\* No other key occurs.
ASSUME KeysAssumption ==
    \A k \in Key : \/ k \in {SessionKey, ConfigKey, JobKey}
                   \/ \E c \in Collections :
                          k = BackupKey(c) \/ OwnedBy(k, RootKinds \union DataKinds, c)

\* The fixed components of the keys and prefixes, and which begin another.
FixedComponents ==
    {"root-coord", "collection", "database", "collection-info", "fields",
     "partitions", "snapshots", "channelwatch", "datacoord-meta", "channel-cp",
     "channel-removal", "s", "binlog", "stats-task", "compaction-task",
     "field-index", "session", "config", "import-job", "birdwatcher"}

ASSUME BeginsAssumption ==
    \A a, b \in FixedComponents :
        <<a, b>> \in Begins =>
            <<a, b>> \in {<<"s", "session">>, <<"s", "snapshots">>,
                         <<"s", "stats-task">>, <<"collection", "collection-info">>}

\* Milvus allocates the ids of collections: none is the id of a database, a
\* field, a partition or a segment, which is why the walk may compare every
\* component of a key with them. No text begins a shorter one.
ASSUME IdsAssumption ==
    /\ \A c, d \in Collections : c \notin {DbId[d], "100", "100_ts", "p", Segment[d]}
    /\ <<"statslog", "s">> \notin Begins

-----------------------------------------------------------------------------
(* Values: one record for every kind of object.                            *)

Object(kind, c, state, logs) ==
    [kind |-> kind, coll |-> c, state |-> state, logs |-> logs]

NewObject(kind, c) ==
    Object(kind, c,
           CASE kind = "collection" -> "created"
             [] kind = "segment" -> IF c \in Importing THEN "importing"
                                    ELSE "flushed"
             [] OTHER -> "set",
           IF kind = "binlog" THEN {FirstLog} ELSE {})

ASSUME ValuesAssumption ==
    /\ InitialLives \subseteq [Collections -> Lives]
    /\ Absent # Tombstone
    /\ \A c \in Collections, kind \in RootKinds \union DataKinds :
           NewObject(kind, c) \notin {Absent, Tombstone}

\* What the keys of collection c hold when its life has come to l.
ValueAt(kind, c, l) ==
    CASE l = "none" -> Absent
      [] l = "created" /\ kind \in DataKinds -> Absent
      [] l = "dropping" /\ kind = "collection" ->
             Object(kind, c, "dropping", {})
      [] l = "tombstoned" /\ kind \in RootKinds -> Tombstone
      [] l = "gone" /\ kind \in {"collection", "collection-snapshot"} -> Absent
      [] l = "gone" /\ kind \in RootKinds -> Tombstone
      [] OTHER -> NewObject(kind, c)

InitialValue(k) ==
    IF \E c \in Collections : OwnedBy(k, RootKinds \union DataKinds, c)
    THEN LET c == CHOOSE d \in Collections :
                      OwnedBy(k, RootKinds \union DataKinds, d)
             kind == CHOOSE d \in RootKinds \union DataKinds : k = KeyOf(d, c)
         IN ValueAt(kind, c, life[c])
    ELSE CASE k = SessionKey -> Object("session", Empty, "set", {})
           [] k = ConfigKey -> Object("config", Empty, "set", {})
           [] k = JobKey -> Object("job", Empty, "set", {})
           [] OTHER -> Absent

MilvusInit ==
    /\ life \in InitialLives
    /\ store = [k \in Key |-> InitialValue(k)]
    /\ milvusSteps = 0

-----------------------------------------------------------------------------
(* Steps of milvus. *)

Moves(c, from, to) ==
    /\ milvusSteps < MaxMilvus
    /\ life[c] = from
    /\ life' = [life EXCEPT ![c] = to]
    /\ milvusSteps' = milvusSteps + 1

Puts(c, kinds) ==
    store' = [k \in Key |-> IF OwnedBy(k, kinds, c)
                            THEN NewObject(CHOOSE d \in kinds : k = KeyOf(d, c), c)
                            ELSE store[k]]

CreateCollection(c) == Moves(c, "none", "created") /\ Puts(c, RootKinds)

ServeCollection(c) == Moves(c, "created", "serving") /\ Puts(c, DataKinds)

MarkDropping(c) ==
    /\ Moves(c, "serving", "dropping")
    /\ store' = Save(store, KeyOf("collection", c),
                     Object("collection", c, "dropping", {}))

\* The catalog turns what it still finds into tombstones.
DropCollection(c) ==
    /\ Moves(c, "dropping", "tombstoned")
    /\ store' = [k \in Key |->
                    IF OwnedBy(k, RootKinds, c) /\ store[k] # Absent
                    THEN Tombstone ELSE store[k]]

ExpireTombstones(c) ==
    /\ Moves(c, "tombstoned", "gone")
    /\ store' = [k \in Key |->
                    IF OwnedBy(k, {"collection", "collection-snapshot"}, c)
                    THEN Absent ELSE store[k]]

\* A flush adds a log to the field binlog of a segment.
FlushLog(c, l) ==
    LET k == KeyOf("binlog", c) IN
    /\ milvusSteps < MaxMilvus
    /\ life[c] = "serving"
    /\ Load(k) # Absent
    /\ l \notin store[k].logs
    /\ store' = Save(store, k, Object("binlog", c, "set", store[k].logs \union {l}))
    /\ milvusSteps' = milvusSteps + 1
    /\ UNCHANGED life

\* Compaction drops the segment and its logs.
DropSegment(c) ==
    /\ milvusSteps < MaxMilvus
    /\ life[c] = "serving"
    /\ Load(KeyOf("segment", c)) # Absent
    /\ store' = Remove(Remove(store, KeyOf("segment", c)), KeyOf("binlog", c))
    /\ milvusSteps' = milvusSteps + 1
    /\ UNCHANGED life

LiveCollections == {c \in Collections : life[c] \in {"created", "serving"}}
=============================================================================
