-------------------------- MODULE MCRepairCommands --------------------------
(***************************************************************************)
(* Collections 1 and 12 (an identifier that begins the other), with a      *)
(* legacy collection 3 outside any database; segments 44 and 441; tasks 7  *)
(* and 77; a channel x_12 whose name has no version.                       *)
(***************************************************************************)
EXTENDS RepairCommands

Coll(id, db, chs) == [kind |-> "collection", id |-> id, db |-> db, level |-> "Strong",
                      chs |-> chs, fields |-> {}, dynamic |-> FALSE]
Field(id, ts) == [kind |-> "field", id |-> id, ts |-> ts, nullable |-> FALSE,
                  cluster |-> TRUE, dynamic |-> FALSE]
Seg(id, part, state, ch, dml, start) ==
    [kind |-> "segment", id |-> id, coll |-> "1", part |-> part, state |-> state,
     ch |-> ch, dml |-> dml, start |-> start]
Log(field, child, files) ==
    [kind |-> "log", field |-> field, child |-> child, files |-> files]
Watch(c, ch, schema) == [kind |-> "watch", coll |-> c, ch |-> ch, schema |-> schema]
P(k, v) == [k |-> k, v |-> v]
Index(c, id, params, typeParams, deleted) ==
    [kind |-> "index", coll |-> c, id |-> id, params |-> params,
     typeParams |-> typeParams, deleted |-> deleted]
Loading(c) == [kind |-> "loaded", coll |-> c]
Task(id, state) == [kind |-> "task", id |-> id, state |-> state, acked |-> 1]

K == [coll1 |-> <<"root-coord", "database", "collection-info", "1", "1">>,
      coll12 |-> <<"root-coord", "database", "collection-info", "1", "12">>,
      coll3 |-> <<"root-coord", "collection", "3">>,
      field1 |-> <<"root-coord", "fields", "1", "100">>,
      field1b |-> <<"root-coord", "fields", "1", "101">>,
      field12 |-> <<"root-coord", "fields", "12", "102">>,
      snap1 |-> <<"snapshots", "root-coord", "fields", "1", "100_ts1">>,
      snap1b |-> <<"snapshots", "root-coord", "fields", "1", "100_ts2">>,
      history |-> <<"snapshots", "root-coord", "collection", "3", "ts1">>,
      db |-> <<"root-coord", "database", "db-info", "1">>,
      part |-> <<"root-coord", "partitions", "1", "p">>,
      seg44 |-> <<"datacoord-meta", "s", "1", "p", "44">>,
      seg441 |-> <<"datacoord-meta", "s", "1", "q", "441">>,
      log44 |-> <<"datacoord-meta", "binlog", "1", "p", "44", "100">>,
      log44w |-> <<"datacoord-meta", "binlog", "1", "p", "44", "0">>,
      delta44 |-> <<"datacoord-meta", "deltalog", "1", "p", "44", "0">>,
      cp |-> <<"datacoord-meta", "channel-cp", "a_1v0">>,
      cp12 |-> <<"datacoord-meta", "channel-cp", "a_12v0">>,
      cpx |-> <<"datacoord-meta", "channel-cp", "x_12">>,
      load1 |-> <<"querycoord-collection-loadinfo", "1">>,
      load12 |-> <<"querycoord-collection-loadinfo", "12">>,
      loadp |-> <<"querycoord-partition-loadinfo", "1", "p">>,
      watch |-> <<"channelwatch", "9", "a_1v0">>,
      watch12 |-> <<"channelwatch", "9", "a_12v0">>,
      index |-> <<"field-index", "1", "500">>,
      index12 |-> <<"field-index", "12", "501">>,
      session |-> <<"session", "datacoord-1">>,
      task7 |-> <<"streamingcoord-meta", "broadcast-task", "7">>,
      task77 |-> <<"streamingcoord-meta", "broadcast-task", "77">>,
      pch |-> <<"streamingcoord-meta", "pchannel", "a">>,
      vch |-> <<"streamingnode-meta", "wal", "a", "vchannel", "a_1v0">>,
      schema |-> <<"streamingnode-meta", "wal", "a", "vchannel", "a_1v0", "schema", "0">>,
      schema5 |-> <<"streamingnode-meta", "wal", "a", "vchannel", "a_1v0", "schema", "5">>,
      config |-> <<"config", "quota">>,
      backup44 |-> <<"repair", "datacoord-meta", "binlog", "1", "p", "44", "100">>]

Names == <<"watch", "watch12", "config", "delta44", "log44w", "log44", "cp",
           "cp12", "cpx", "seg44", "seg441", "index", "index12", "load1",
           "load12", "loadp", "backup44", "coll3",
           "coll1", "coll12", "db", "field1", "field1b", "field12", "part",
           "session", "history", "snap1", "snap1b", "task7", "task77", "pch",
           "schema", "schema5", "vch">>
Order == [i \in DOMAIN Names |-> K[Names[i]]]

Beginnings == {<<"1", "12">>, <<"44", "441">>, <<"7", "77">>, <<"a_1v0", "a_12v0">>,
               <<"s", "snapshots">>}

MixedLogs == [log44 |-> Log("100", {}, 1), log44w |-> Log("0", {"100", "101"}, 1)]

Full ==
    [coll1 |-> Coll("1", "1", {"a_1v0"}), coll12 |-> Coll("12", "1", {"a_12v0"}),
     coll3 |-> Coll("3", "0", {"b_3v0"}),
     field1 |-> Field("100", 0), field1b |-> Field("101", 0),
     field12 |-> Field("102", 0),
     snap1 |-> Field("100", 1), snap1b |-> Field("100", 2),
     history |-> Coll("3", "0", {"b_3v0"}),
     db |-> [kind |-> "db", id |-> "1", name |-> "default"],
     part |-> [kind |-> "partition", id |-> "p", state |-> "Created"],
     seg44 |-> Seg("44", "p", "Flushed", "a_1v0", 3, 1),
     seg441 |-> Seg("441", "q", "Growing", "a_12v0", 0, 4),
     log44 |-> MixedLogs.log44, log44w |-> Absent, delta44 |-> Absent,
     cp |-> CheckpointValue("a_1v0", 2), cp12 |-> CheckpointValue("a_12v0", 2),
     cpx |-> Absent,
     load1 |-> Loading("1"), load12 |-> Loading("12"), loadp |-> Loading("1"),
     watch |-> Watch("1", "a_1v0", Absent), watch12 |-> Absent,
     index |-> Index("1", "500", {P("index_type", "HNSW"), P("M", "8"), P("dim", "4")},
                     {P("metric_type", "L2")}, FALSE),
     index12 |-> Index("12", "501", {P("index_type", "FLAT"), P("metric_type", "IP")},
                       {}, FALSE),
     session |-> [kind |-> "session", server |-> "datacoord", address |-> "dc"],
     task7 |-> Task("7", "acked"), task77 |-> Task("77", "acked"),
     pch |-> [kind |-> "pchannel", name |-> "a"],
     vch |-> [kind |-> "vchannel", ch |-> "a_1v0", coll |-> "1"],
     schema |-> Absent, schema5 |-> Absent, config |-> Absent, backup44 |-> Absent]

StoreOf(f) == [k \in {K[n] : n \in DOMAIN K} |->
                  f[CHOOSE n \in DOMAIN K : K[n] = k]]

\* A healthy store; one with logs in both layouts, a dropped collection, a
\* segment without logs and a task whose only match is a longer identifier.
Stores ==
    {StoreOf(Full),
     StoreOf([Full EXCEPT !.log44w = MixedLogs.log44w, !.task7 = Absent,
              !.cp12 = Absent, !.field12 = Absent]),
     StoreOf([Full EXCEPT !.log44 = Absent, !.coll1 = Tombstone, !.seg441.state = "Flushed",
              !.part.state = "Dropping", !.cpx = CheckpointValue("x_12", 2), !.snap1b = Absent, !.vch.coll = "12",
              !.watch12 = Watch("12", "a_12v0", Absent)])}

MilvusChanges ==
    LET Change(n, old, new) == [key |-> K[n], old |-> old, new |-> new] IN
    {Change("log44", Absent, Full.log44), Change("log44w", MixedLogs.log44w, Absent),
     Change("delta44", Absent, Log("0", {}, 1)),
     Change("part", Full.part, [Full.part EXCEPT !.state = "Dropping"]),
     Change("coll1", Full.coll1, Tombstone), Change("coll12", Full.coll12, Absent),
     Change("index", Full.index, [Full.index EXCEPT !.deleted = TRUE]),
     Change("watch", Full.watch, [Full.watch EXCEPT !.schema = {Full.field1}]),
     Change("schema5", Absent, SchemaValue({Full.field1})),
     Change("seg441", Full.seg441, [Full.seg441 EXCEPT !.dml = 6]),
     Change("load1", Full.load1, Absent), Change("load1", Absent, Full.load1),
     Change("task7", Full.task7, Absent)}

Channels == [a_1v0 |-> [pchannel |-> "a", version |-> 0, ids |-> {"1"}, parses |-> TRUE],
             a_12v0 |-> [pchannel |-> "a", version |-> 0, ids |-> {"1", "12"}, parses |-> TRUE],
             x_12 |-> [pchannel |-> "x", version |-> 0, ids |-> {"1", "12"}, parses |-> FALSE],
             b_3v0 |-> [pchannel |-> "b", version |-> 0, ids |-> {"3"}, parses |-> TRUE]]

Info == [x \in {"1"} |-> "default"]
Last == CheckpointValue("a_1v0", 9)
Lost == {<<"44", "binlog">>, <<"44", "deltalog">>}

Cmd(name, coll, arg, ch, run) ==
    [name |-> name, coll |-> coll, arg |-> arg, ch |-> ch, run |-> run]

Commands ==
    UNION {{Cmd("empty-segment", "", "", "", run), Cmd("mixed-binlogs", "", "", "", run),
            Cmd("verify-segment", "1", "", "", run),
            Cmd("segment-part-dropping", "1", "", "", run),
            Cmd("segment-part-dropping", "", "", "", run),
            Cmd("channel-watch", "", "", "", run),
            Cmd("checkpoint", "1", "latest-cp", "a_1v0", run),
            Cmd("checkpoint", "12", "latest-cp", "a_1v0", run),
            Cmd("checkpoint", "1", "latest-msgid", "a_1v0", run),
            Cmd("checkpoint", "1", "other", "a_1v0", run),
            Cmd("legacy-collection-remnant", "", "", "", run),
            Cmd("legacy-collection-remnant", "12", "", "", run),
            Cmd("collection-info", "1", "file", "", run),
            Cmd("collection-info", "12", "1", "", run),
            Cmd("diskann_index_params", "", "", "", run),
            Cmd("add_index_params", "1", "retrieve_friendly", "", run),
            Cmd("wal-broadcast-task", "7", "reset", "", run),
            Cmd("wal-broadcast-task", "7", "remove", "", run),
            Cmd("wal-recovery-storage", "", "", "", run),
            Cmd("channel", "1", "", "", run), Cmd("channel", "12", "", "", run),
            Cmd("channel", "", "", "", run),
            Cmd("consistency-level", "12", "Bounded", "", run),
            Cmd("field-attr", "1", "100", "", run)} : run \in BOOLEAN}
    \cup {Cmd("index_metric_type", "1", "", "", FALSE),
          Cmd("index_metric_type", "12", "", "", FALSE),
          Cmd("manual-compaction", "1", "", "", FALSE),
          Cmd("manual-compaction", "", "", "", FALSE),
          Cmd("config-etcd", "", "quota", "", FALSE),
          Cmd("force-release", "1", "", "", FALSE),
          Cmd("force-release", "1", "all", "", FALSE)}
=============================================================================
