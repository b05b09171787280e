--------------------------- MODULE MCSegmentScan ----------------------------
(* Segments of four partitions: s1 with two batches and its own deletes, s2 *)
(* in storage v2, an L0 segment, a dropped one, one with a file that ends   *)
(* early, one that cannot be read, one with delete logs out of time order,  *)
(* one with an empty object and one whose files have two row groups.        *)
EXTENDS SegmentScan, TLC

File(cols, parts) == [magic |-> "", desc |-> "", cols |-> cols,
                      parts |-> parts]
Whole(groups) == [cut |-> "", groups |-> groups]
V2File(cols, parts) == [File(cols, parts) EXCEPT !.magic = "fail"]
Column(f, vals) == File(<<f>>, <<Whole(<<[i \in DOMAIN vals |-> <<vals[i]>>]>>)>>)
Groups(f, a, b) == File(<<f>>, <<Whole(<< <<a>>, <<b>> >>)>>)
Delta(recs) == File(<<0>>, <<Whole(<<[i \in DOMAIN recs |->
                   <<[pk |-> recs[i][1], ts |-> recs[i][2]]>>]>>)>>)

MCObject ==
    (* s1: two batches; columns row id, ts, pk, partition key *)
    "1.0.1"   :> Column(0, <<1, 2, 3>>)   @@ "1.0.2"   :> Column(0, <<4>>) @@
    "1.1.1"   :> Column(1, <<5, 6, 7>>)   @@ "1.1.2"   :> Column(1, <<8>>) @@
    "1.100.1" :> Column(100, <<1, 2, 3>>) @@ "1.100.2" :> Column(100, <<1>>) @@
    "1.101.1" :> Column(101, <<1, 0, 1>>) @@ "1.101.2" :> Column(101, <<0>>) @@
    "1.d1"    :> Delta(<< <<2, 6>>, <<1, 6>> >>) @@
    "1.d2"    :> Delta(<< <<2, 9>> >>) @@
    (* s2: a v2 file of two row groups and a wide column *)
    "2.0.1" :> V2File(<<0, 1, 100>>, <<Whole(<< << <<1, 3, 3>> >> >>),
                                     Whole(<< << <<2, 7, 2>> >> >>)>>) @@
    "2.101.1" :> V2File(<<101>>, <<Whole(<< << <<0>> >> >>), Whole(<< << <<1>> >> >>)>>) @@
    "0.d1" :> Delta(<< <<3, 4>> >>) @@
    (* s4: cut inside; s5: missing *)
    "4.0.1" :> Column(0, <<1>>) @@ "4.1.1" :> Column(1, <<5>>) @@
    "4.100.1" :> File(<<100>>, <<[cut |-> "inside", groups |-> << << <<7>> >> >>]>>) @@
    "4.101.1" :> Column(101, <<1>>) @@
    "4.d1" :> File(<<0>>, <<[cut |-> "fixed", groups |-> <<>>]>>) @@
    (* s7: the later delete is read first; s8: an empty object; s9: two groups *)
    "7.0.1" :> Column(0, <<1>>) @@ "7.1.1" :> Column(1, <<6>>) @@
    "7.100.1" :> Column(100, <<5>>) @@ "7.101.1" :> Column(101, <<1>>) @@
    "7.d1" :> Delta(<< <<5, 9>> >>) @@ "7.d2" :> Delta(<< <<5, 3>> >>) @@
    "8.1.1" :> [File(<<1>>, <<>>) EXCEPT !.magic = "eof", !.desc = "eof"] @@
    "9.0.1" :> Groups(0, <<1>>, <<2>>) @@ "9.1.1" :> Groups(1, <<5>>, <<6>>) @@
    "9.100.1" :> Groups(100, <<8>>, <<9>>) @@ "9.101.1" :> Groups(101, <<0>>, <<1>>)

Log(f, logs) == [field |-> f, logs |-> logs]
Seg(id, level, state, part, version, binlogs, deltas) ==
    [id |-> id, level |-> level, state |-> state, part |-> part,
     version |-> version, binlogs |-> binlogs, deltas |-> deltas]

S1 == Seg("s1", "L1", "Flushed", "p1", 1,
          <<Log(0, <<"1.0.1", "1.0.2">>), Log(1, <<"1.1.1", "1.1.2">>),
            Log(100, <<"1.100.1", "1.100.2">>), Log(101, <<"1.101.1", "1.101.2">>)>>,
          <<"1.d1", "1.d2">>)
S2 == Seg("s2", "L2", "Flushed", "p1", 2,
          <<Log(0, <<"2.0.1">>), Log(101, <<"2.101.1">>)>>, <<>>)
S3 == Seg("s3", "L1", "Dropped", "p1", 1, S1.binlogs, <<>>)
S4 == Seg("s4", "L1", "Flushed", "p0", 1,
          <<Log(0, <<"4.0.1">>), Log(1, <<"4.1.1">>), Log(100, <<"4.100.1">>),
            Log(101, <<"4.101.1">>)>>, <<"4.d1">>)
S5 == Seg("s5", "L1", "Flushed", "p0", 1,
          <<Log(0, <<"5.0.1">>), Log(1, <<"4.1.1">>), Log(100, <<"4.100.1">>),
            Log(101, <<"4.101.1">>)>>, <<"5.d1">>)
S6 == Seg("s6", "L1", "Dropped", "p2", 1,
          <<Log(0, <<"1.0.2">>), Log(1, <<"1.1.2">>), Log(100, <<"1.100.2">>)>>, <<>>)
S7 == Seg("s7", "L1", "Flushed", "p3", 1,
          <<Log(0, <<"7.0.1">>), Log(1, <<"7.1.1">>), Log(100, <<"7.100.1">>),
            Log(101, <<"7.101.1">>)>>, <<"7.d1", "7.d2">>)
S8 == Seg("s8", "L1", "Flushed", "p4", 1,
          <<Log(0, <<"7.0.1">>), Log(1, <<"8.1.1">>), Log(100, <<"7.100.1">>),
            Log(101, <<"7.101.1">>)>>, <<>>)
S9 == Seg("s9", "L1", "Flushed", "p4", 1,
          <<Log(0, <<"9.0.1">>), Log(1, <<"9.1.1">>), Log(100, <<"9.100.1">>),
            Log(101, <<"9.101.1">>)>>, <<>>)
L0 == Seg("l0", "L0", "Flushed", "p1", 1, <<>>, <<"0.d1">>)

MCSegments == <<L0, S1, S2, S3, S4, S5, S6, S7, S8, S9>>
MCPartitions == <<"p0", "p1", "p3">>
MCHash == 0 :> 6 @@ 1 :> 4

Command(name, action, part) ==
    [name |-> name, action |-> action, limit |-> 0, expr |-> "",
     ignoreDelete |-> FALSE, fields |-> {}, segment |-> "", partition |-> part,
     unhealthy |-> FALSE, stopIfErr |-> FALSE, format |-> "stdout"]
Scan(action, part) == Command("scan-binlog", action, part)

MCCommands ==
    {Scan("count", "p1"), Scan("count", ""), Scan("dedup", "p1"),
     Scan("locate", "p1"), Scan("other", "p1"),
     [Scan("count", "p1") EXCEPT !.ignoreDelete = TRUE],
     [Scan("count", "p1") EXCEPT !.fields = {101}, !.expr = "v"],
     [Scan("count", "") EXCEPT !.expr = "odd"],
     [Scan("dedup", "p1") EXCEPT !.unhealthy = TRUE],
     [Scan("locate", "p1") EXCEPT !.limit = 2],
     [Scan("count", "p2") EXCEPT !.unhealthy = TRUE, !.fields = {101}],
     [Scan("count", "p0") EXCEPT !.segment = "s4"],
     Scan("count", "p3"), Scan("dedup", "p3"), Scan("locate", "p3"), Scan("count", "p4"),
     Command("scan-deltalog", "other", ""),
     [Command("scan-deltalog", "count", "") EXCEPT !.segment = "s1"],
     [Command("scan-deltalog", "locate", "") EXCEPT !.limit = 1],
     [Command("scan-deltalog", "count", "") EXCEPT !.expr = "pk", !.segment = "s1"],
     [Command("scan-deltalog", "locate", "") EXCEPT !.limit = 1, !.segment = "s1"],
     Command("download-pk", "", ""), Command("assemble-indexfiles", "", ""),
     [Command("download-segment", "", "") EXCEPT !.segment = "s1"],
     Command("check-partition-key", "", "")}
    \cup {[Command("check-partition-key", "", "") EXCEPT !.stopIfErr = st, !.format = fm] :
            st \in BOOLEAN, fm \in {"stdout", "json", "json-pk", "parquet"}}

MCFolder ==
    LET file(key, data) == [head |-> TRUE, key |-> key, cut |-> "", data |-> <<data>>]
    IN MetaName :> file(MetaName, [name |-> "ivf", num |-> 2])
       @@ <<"ivf", 0>> :> file(<<"ivf", 0>>, "a") @@ <<"ivf", 1>> :> file(<<"ivf", 1>>, "b")

=============================================================================
