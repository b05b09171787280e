--------------------------- MODULE MCShowCommands ---------------------------
(***************************************************************************)
(* Collections 1 and 12, segments 44 and 441, broadcast tasks 7 and 77,    *)
(* channels a_1v1 and a_1v10: identifiers that begin others.               *)
(***************************************************************************)
EXTENDS ShowCommands

Obj(kind, id) == ("kind" :> kind) @@ ("id" :> id)
Coll(id, chs) == Obj("collection", id) @@ [name |-> IF id = "1" THEN "books" ELSE "films", db |-> "1", state |-> "Created",
                                           props |-> {"ttl"}, chs |-> chs]
Seg(id, ch, state, dml, start, stats) ==
    Obj("segment", id) @@ [coll |-> "1", part |-> "p", state |-> state, level |-> "L1",
        sorted |-> TRUE, version |-> 2, ch |-> ch, dml |-> dml, start |-> start, stats |-> stats]
Comp(id, state) ==
    Obj("compaction", id) @@ [coll |-> "1", part |-> "p", name |-> "books", type |-> "Mix",
        trigger |-> "3", inputs |-> {"44"}, state |-> state]
Stats(id, time, reason) ==
    Obj("stats", id) @@ [coll |-> "1", seg |-> "44", type |-> "Text", state |-> "Init",
        time |-> time, reason |-> reason]
Session(id, server, main, address) ==
    Obj("session", id) @@ [server |-> server, main |-> main, address |-> address]
Part(kind, id, of) == Obj(kind, id) @@ [of |-> of]

\* Keys in the store's order with their values.
E(k, v) == [k |-> k, v |-> v]
Entries == <<
    E(<<Root, "config", "quota">>, Obj("config", "quota")),
    E(<<"channelwatch", "9", "a_1v1">>, Obj("watch", "a_1v1") @@ [coll |-> "1", schema |-> TRUE]),
    E(<<"channelwatch", "9", "a_1v10">>, Obj("watch", "a_1v10") @@ [coll |-> "12", schema |-> FALSE]),
    E(<<"datacoord-meta", "binlog", "1", "p", "44", "100">>, Part("log", "100", "44")),
    E(<<"datacoord-meta", "binlog", "1", "p", "441", "100">>, Part("log", "100", "441")),
    E(<<"datacoord-meta", "channel-cp", "a_1v1">>, [kind |-> "cp", ch |-> "a_1v1", pos |-> 5]),
    E(<<"datacoord-meta", "channel-cp", "a_1v10">>, [kind |-> "cp", ch |-> "a_1v10", pos |-> 6]),
    E(<<"datacoord-meta", "compaction-task", "8">>, Comp("8", "executing")),
    E(<<"datacoord-meta", "compaction-task", "9">>, Comp("9", "cleaned")),
    E(<<"datacoord-meta", "deltalog", "1", "p", "44", "0">>, Part("log", "0", "44")),
    E(<<"datacoord-meta", "import-job", "20">>, Obj("job", "20") @@ [coll |-> "1", state |-> "Failed"]),
    E(<<"datacoord-meta", "import-job", "21">>, Obj("job", "21") @@ [coll |-> "12", state |-> "Pending"]),
    E(<<"datacoord-meta", "import-task", "31">>, Part("task", "31", "20")),
    E(<<"datacoord-meta", "preimport-task", "30">>, Part("task", "30", "20")),
    E(<<"datacoord-meta", "s", "1", "p", "44">>, Seg("44", "a_1v1", "Flushed", 3, 1, {"100"})),
    E(<<"datacoord-meta", "s", "1", "p", "441">>, Seg("441", "a_1v1", "Growing", 0, 4, {})),
    E(<<"datacoord-meta", "s", "1", "p", "45">>, Seg("45", "a_1v10", "Dropped", 2, 1, {"100"})),
    E(<<"datacoord-meta", "stats-task", "50">>, Stats("50", 1, "")),
    E(<<"datacoord-meta", "stats-task", "51">>, Stats("51", 2, "oom")),
    E(<<"field-index", "1", "500">>, Obj("index", "500") @@ [coll |-> "1", field |-> "100"]),
    E(<<"field-index", "12", "501">>, Obj("index", "501") @@ [coll |-> "12", field |-> "101"]),
    E(<<"queryCoord-ResourceGroup", "rg">>, Obj("group", "rg") @@ [name |-> "rg"]),
    E(<<"querycoord-collection-loadinfo", "1">>, Obj("loaded", "1") @@ [coll |-> "1"]),
    E(<<"querycoord-partition-loadinfo", "1", "p">>, Obj("partload", "p") @@ [coll |-> "1", part |-> "p"]),
    E(<<"querycoord-replica", "1", "60">>, Obj("replica", "60") @@ [coll |-> "1"]),
    E(<<"querycoord-replica", "12", "61">>, Obj("replica", "61") @@ [coll |-> "12"]),
    E(<<"root-coord", "aliases", "old">>, Obj("alias", "old") @@ [db |-> "0"]),
    E(<<"root-coord", "credential", "users", "root">>, Obj("user", "root")),
    E(<<"root-coord", "database", "alias", "1", "new">>, Obj("alias", "new") @@ [db |-> "1"]),
    E(<<"root-coord", "database", "collection-info", "1", "1">>, Coll("1", <<"a_1v1", "a_1v10">>)),
    E(<<"root-coord", "database", "collection-info", "1", "12">>, Coll("12", <<>>)),
    E(<<"root-coord", "database", "db-info", "1">>, Obj("database", "1") @@ [name |-> "default"]),
    E(<<"root-coord", "fields", "1", "100">>, Part("field", "100", "1")),
    E(<<"root-coord", "fields", "12", "101">>, Part("field", "101", "12")),
    E(<<"root-coord", "functions", "1", "bm25">>, Part("field", "bm25", "1")),
    E(<<"root-coord", "partitions", "1", "p">>, Part("partition", "p", "1")),
    E(<<"segment-index", "1", "p", "44", "70">>, Part("segindex", "70", "44") @@ [coll |-> "1", index |-> "500"]),
    E(<<"segment-index", "1", "p", "44", "71">>, Part("segindex", "71", "44") @@ [coll |-> "1", index |-> "599"]),
    E(<<"session", "datacoord">>, Session("1", "datacoord", TRUE, "dc")),
    E(<<"session", "datacoord-2">>, Session("2", "datacoord", FALSE, "dc2")),
    E(<<"session", "mixcoord">>, Session("3", "mixcoord", TRUE, "mc")),
    E(<<"session", "querynode-4">>, Session("4", "querynode", FALSE, "qn4")),
    E(<<"session", "querynode-5">>, Session("5", "querynode", FALSE, "qn5")),
    E(<<"streamingcoord-meta", "broadcast-task", "7">>, Obj("broadcast", "7")),
    E(<<"streamingcoord-meta", "broadcast-task", "77">>, Obj("broadcast", "77")),
    E(<<"streamingcoord-meta", "pchannel", "a">>, Obj("pchannel", "a")),
    E(<<"streamingcoord-meta", "replicate-configuration">>, Obj("repcfg", "") @@ [valid |-> TRUE]),
    E(<<"streamingcoord-meta", "replicating-pchannel", "c">>, Obj("cdc", "c")),
    E(<<"streamingnode-meta", "wal", "a", "segment-assign", "46">>, Part("assign", "46", "a_1v1")),
    E(<<"streamingnode-meta", "wal", "a", "segment-assign", "47">>, Part("assign", "47", "gone")),
    E(<<"streamingnode-meta", "wal", "a", "vchannel", "a_1v1">>, Obj("vchannel", "a_1v1")),
    E(<<"streamingnode-meta", "wal", "a", "vchannel", "a_1v1", "schema", "0">>, Part("schema", "0", "a_1v1")),
    E(<<"streamingnode-meta", "wal", "a", "vchannel", "a_1v10">>, Obj("vchannel", "a_1v10"))>>

Order == [i \in DOMAIN Entries |-> Entries[i].k]
Full == [k \in {Entries[i].k : i \in DOMAIN Entries} |->
             LET i == CHOOSE i \in DOMAIN Entries : Entries[i].k = k IN Entries[i].v]
Beginnings == {<<"1", "12">>, <<"44", "441">>, <<"7", "77">>, <<"a_1v1", "a_1v10">>,
               <<"datacoord", "datacoord-2">>, <<"datacoord", "datacoord-meta">>}

K == [mix |-> <<"session", "mixcoord">>, task7 |-> <<"streamingcoord-meta", "broadcast-task", "7">>,
      cp |-> <<"datacoord-meta", "channel-cp", "a_1v1">>,
      cp10 |-> <<"datacoord-meta", "channel-cp", "a_1v10">>,
      coll1 |-> <<"root-coord", "database", "collection-info", "1", "1">>,
      coll12 |-> <<"root-coord", "database", "collection-info", "1", "12">>,
      seg44 |-> <<"datacoord-meta", "s", "1", "p", "44">>,
      seg441 |-> <<"datacoord-meta", "s", "1", "p", "441">>,
      field |-> <<"root-coord", "fields", "1", "100">>, index |-> <<"field-index", "1", "500">>,
      part |-> <<"root-coord", "partitions", "1", "p">>,
      qn4 |-> <<"session", "querynode-4">>, qn5 |-> <<"session", "querynode-5">>,
      alias |-> <<"root-coord", "aliases", "old">>,
      log |-> <<"datacoord-meta", "binlog", "1", "p", "44", "100">>,
      pch |-> <<"streamingcoord-meta", "pchannel", "a">>,
      rep |-> <<"streamingcoord-meta", "replicate-configuration">>,
      comp |-> <<"datacoord-meta", "compaction-task", "8">>]

\* A cluster with separate coordinators; the same during an upgrade, with
\* dropped metadata; one with hardly any metadata of a kind.
Stores ==
    {[Full EXCEPT ![K.mix] = Absent, ![K.cp10] = Absent],
     [Full EXCEPT ![K.coll12] = Tombstone, ![K.cp] = Absent, ![K.alias] = Tombstone],
     [Full EXCEPT ![K.task7] = Absent, ![K.part] = Absent, ![K.qn4] = Absent,
                  ![K.qn5] = Absent, ![K.pch] = Absent, ![K.rep] = Absent, ![K.coll1] = Absent,
                  ![K.cp] = Absent, ![K.cp10] = Absent]}

MilvusChanges ==
    LET C(k, old, new) == [key |-> k, old |-> old, new |-> new] IN
    {C(K.coll12, Tombstone, Full[K.coll12]), C(K.coll1, Full[K.coll1], Tombstone),
     C(K.cp, Absent, Full[K.cp]), C(K.cp10, Absent, Full[K.cp10]),
     C(K.seg44, Full[K.seg44], [Full[K.seg44] EXCEPT !.state = "Dropped"]),
     C(K.seg441, Full[K.seg441], [Full[K.seg441] EXCEPT !.state = "Flushed", !.stats = {"100"}]),
     C(K.field, Full[K.field], Absent), C(K.index, Full[K.index], Absent),
     C(K.qn5, Full[K.qn5], Absent), C(K.log, Full[K.log], Absent),
     C(K.comp, Full[K.comp], [Full[K.comp] EXCEPT !.state = "completed"]),
     C(K.task7, Full[K.task7], Absent), C(K.alias, Full[K.alias], Absent)}

Loaded == [qn4 |-> <<Full[K.seg44]>>, qn5 |-> <<[Full[K.seg44] EXCEPT !.stats = {}],
                                                [Full[K.seg441] EXCEPT !.stats = {"100"}]>>]

None == [x \in {} |-> ""]
Cmd(name, p, format) == [name |-> name, p |-> p, format |-> format, global |-> ""]
WithGlobal(name, format) == [name |-> name, p |-> None, format |-> "", global |-> format]
Of1 == [coll |-> "1"]

Commands ==
    {Cmd(n, None, f) : n \in {"alias", "channel-watch", "collections", "database", "replica",
                              "session", "user"}, f \in {"", "json", "table", "odd"}}
    \cup {Cmd("partition", Of1, f) : f \in {"", "json"}}
    \cup {Cmd("checkpoint", Of1, f) : f \in {"", "json"}}
    \cup {Cmd("segment", None, f) : f \in {"line", "table", "statistics", "odd"}}
    \cup {WithGlobal(n, g) : n \in {"collection-loaded", "compactions", "partition-loaded",
                                    "resource-group", "alias"}, g \in {"", "json", "odd"}}
    \cup {Cmd(n, None, "") : n \in {"bulkinsert", "config-etcd", "index", "json-stats",
              "loaded-json-stats", "partition", "replicate", "segment-index", "stats-task",
              "wal-broadcast", "wal-distribution", "wal-recovery-storage", "checkpoint"}}
    \cup {Cmd(n, Of1, "") : n \in {"bulkinsert", "channel-watch", "collection-loaded",
              "compactions", "index", "loaded-json-stats", "partition-loaded", "replica",
              "segment-index", "json-stats", "stats-task"}}
    \cup {Cmd("alias", [db |-> "1"], ""), Cmd("bulkinsert", [id |-> "20", detail |-> TRUE], ""),
          Cmd("bulkinsert", [detail |-> TRUE], ""), Cmd("bulkinsert", [state |-> "Failed"], ""),
          Cmd("channel-watch", [withoutSchema |-> TRUE], ""),
          Cmd("collections", [id |-> "1"], ""), Cmd("collections", [id |-> "1", state |-> "Odd"], ""),
          Cmd("collections", [property |-> "ttl", db |-> "1"], "line"),
          Cmd("collections", [name |-> "films"], ""),
          Cmd("compactions", [all |-> TRUE, seg |-> "44"], ""),
          Cmd("compactions", [seg |-> "45", type |-> "Mix"], ""),
          Cmd("database", [name |-> "default", id |-> "1"], ""),
          Cmd("resource-group", [name |-> "rg"], ""),
          Cmd("segment", [coll |-> "1", state |-> "Flushed"], "line"),
          Cmd("segment", [id |-> "44", level |-> "L1", version |-> 2], "statistics"),
          Cmd("segment-index", [coll |-> "1", seg |-> "44"], ""),
          Cmd("segment-index", [seg |-> "44", index |-> "500"], ""),
          Cmd("segment-index", [field |-> "101"], ""),
          Cmd("segment-index", [coll |-> "1", field |-> "100"], ""),
          Cmd("segment-index", [coll |-> "1", field |-> "101"], ""),
          Cmd("json-stats", [state |-> "Dropped", field |-> "100"], ""),
          Cmd("loaded-json-stats", [field |-> "100"], ""),
          Cmd("loaded-json-stats", [unbuilt |-> TRUE, seg |-> "441"], ""),
          Cmd("stats-task", [since |-> 2, failed |-> TRUE], ""),
          Cmd("stats-task", [since |-> Absent], ""), Cmd("stats-task", [id |-> "50"], ""),
          Cmd("wal-broadcast", [id |-> "7"], ""), Cmd("wal-distribution", [id |-> "a"], ""),
          Cmd("wal-recovery-storage", [pchannel |-> "a"], ""),
          Cmd("wal-recovery-storage", [pchannel |-> "a", vchannel |-> "a_1v1"], ""),
          Cmd("etcd-kv-tree", [prefix |-> <<"root-coord", "">>, top |-> 2], ""),
          Cmd("etcd-kv-tree", [prefix |-> <<"datacoord">>, top |-> 9], ""),
          Cmd("etcd-kv-tree", [prefix |-> <<"root-coord">>, top |-> 9], "")}
=============================================================================
