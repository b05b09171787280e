---------------------------- MODULE ShowCommands ----------------------------
(***************************************************************************)
(* The `show` commands. A command lists metadata with one or more reads,   *)
(* some of which depend on what earlier ones found, asks nodes where it    *)
(* has to, and then prints what it holds, in one of several formats.       *)
(* milvus changes the store between any two reads, and a read may fail.    *)
(*                                                                         *)
(* What is printed is the set of rows and the total; layout and wording    *)
(* are left out. A filter that the user does not give is not in the        *)
(* domain of cmd.p.                                                        *)
(***************************************************************************)
EXTENDS MetaKV, FiniteSets, TLC

CONSTANTS
    Invocations,    \* commands: [name, p, format, global]; global is
                    \* the output format of the configuration, or ""
    InitialStores,  \* the stores a behaviour may start from
    Changes,        \* what milvus may do to a key: [key, old, new]
    LoadedOn,       \* address -> the segments that a query node has loaded
    MaxChanges,     \* bound: changes by milvus in a behaviour
    MaxFaults       \* bound: failing reads in a behaviour

VARIABLES
    cmd,      \* the command of this behaviour
    todo,     \* reads still to make, the next one first
    mem,      \* what has been read: tag -> sequence of objects
    out,      \* "idle", "running", "error", "panic", "message", "shown"
    shown,    \* what is printed: [rows, total]
    changes, faults,
    (* history of the command *)
    ever,     \* the values each key has had since the command began
    missed    \* the reads that failed and were passed over

vars == <<store, cmd, todo, mem, out, shown, changes, faults, ever, missed>>

-----------------------------------------------------------------------------
(* Reads and filters. *)

\* A read whose failure ends the command, and one whose failure is ignored.
Must(prefix, as) == [do |-> "list", at |-> prefix, as |-> as, for |-> Absent, must |-> TRUE]
May(prefix, as, x) == [do |-> "list", at |-> prefix, as |-> as, for |-> x, must |-> FALSE]
Ask(session) == [do |-> "rpc", at |-> <<session.address>>, as |-> "loaded",
                 for |-> session, must |-> FALSE]

Given(f) == f \in DOMAIN cmd.p
Param(f) == cmd.p[f]

\* p.F == 0 || p.F == v
Same(f, v) == Given(f) => cmd.p[f] = v
Flag(f) == Given(f) /\ cmd.p[f]

Concat(ss) ==
    LET F[i \in 0 .. Len(ss)] == IF i = 0 THEN <<>> ELSE F[i - 1] \o ss[i]
    IN F[Len(ss)]
MapSeq(s, f(_)) == [i \in DOMAIN s |-> f(s[i])]
Objects(rows) == {rows[i] : i \in DOMAIN rows}

-----------------------------------------------------------------------------
(* Where things are. Prefixes without a closing slash also read what goes  *)
(* on after the last component. Keys are relative to the meta path of the  *)
(* instance; those under its root path only begin with Root.               *)

Root == "."

\* Mutant: the aliases from before databases are forgotten.
ListDatabaseAlias == <<Must(<<"root-coord", "database", "alias">>, "rows")>>

ListAlias == <<Must(<<"root-coord", "aliases">>, "rows"),
               Must(<<"root-coord", "database", "alias">>, "rows")>>
ListImportJobs == <<Must(<<"datacoord-meta", "import-job", "">>, "rows")>>
ListPreImportTasks(job) == <<May(<<"datacoord-meta", "preimport-task", "">>, "pretasks", job)>>
ListImportTasks(job) == <<May(<<"datacoord-meta", "import-task", "">>, "tasks", job)>>
ListChannelWatch == <<Must(<<"channelwatch", "">>, "rows")>>
ListCollectionsAs(tag) == <<Must(<<"root-coord", "collection">>, tag),
                            Must(<<"root-coord", "database", "collection-info">>, tag)>>
CollectionParts(c) ==
    <<May(<<"root-coord", "fields", c.id>>, "fields", c),
      May(<<"root-coord", "struct-array-fields", c.id>>, "fields", c),
      May(<<"root-coord", "functions", c.id, "">>, "fields", c)>>
ListCollectionLoadedInfo == <<Must(<<"querycoord-collection-loadinfo">>, "rows")>>
ListCompactionTask == <<Must(<<"datacoord-meta", "compaction-task", "">>, "rows")>>
ListEtcdConfigs == <<Must(<<Root, "config">>, "rows")>>
ListDatabase == <<Must(<<"root-coord", "database", "db-info", "">>, "rows")>>
ListIndexAs(tag) == <<Must(<<"field-index", "">>, tag)>>
ListSegmentIndex == <<Must(<<"segment-index", "">>, "segindexes")>>
ListCollectionPartitions(c) == <<Must(<<"root-coord", "partitions", c, "">>, "rows")>>
ListPartitionLoadedInfo == <<Must(<<"querycoord-partition-loadinfo">>, "rows")>>
ListReplicas == <<Must(<<"querycoord-replica", "">>, "rows")>>
ListReplicateConfiguration == <<Must(<<"streamingcoord-meta", "replicate-configuration">>, "config")>>
ListReplicatePChannel == <<Must(<<"streamingcoord-meta", "replicating-pchannel", "">>, "rows")>>
ListResourceGroups == <<Must(<<"queryCoord-ResourceGroup", "">>, "rows")>>
ListSegmentsAs(tag) == <<Must(<<"datacoord-meta", "s", "">>, tag)>>
ListSessionsAs(tag) == <<Must(<<"session">>, tag)>>
ListStatsTask == <<Must(<<"datacoord-meta", "stats-task", "">>, "rows")>>
\* The root path is given, not the meta path.
ListUsers == <<Must(<<Root, "root-coord", "credential", "users">>, "rows")>>

ListWalBroadcast ==
    IF Given("id") THEN <<Must(<<"streamingcoord-meta", "broadcast-task", Param("id")>>, "rows")>>
    ELSE <<Must(<<"streamingcoord-meta", "broadcast-task", "">>, "rows")>>

ListWALDistribution(pchannel, tag) ==
    IF pchannel # "" THEN <<Must(<<"streamingcoord-meta", "pchannel", pchannel>>, tag)>>
    ELSE <<Must(<<"streamingcoord-meta", "pchannel", "">>, tag)>>

ListWALRecoveryStorage(pchannel) ==
    ListWALDistribution(pchannel, "config")
    \o <<Must(<<"streamingnode-meta", "wal", pchannel, "">>, "rows")>>

getChannelCheckpoint(ch) == <<May(<<"datacoord-meta", "channel-cp", ch>>, "checkpoint", ch)>>
SegmentsOfChannel(ch) == <<May(<<"datacoord-meta", "s", "">>, "segments", ch)>>
SegmentLogs(s) ==
    MapSeq(<<"binlog", "statslog", "deltalog">>,
           LAMBDA kind : May(<<"datacoord-meta", kind, s.coll, s.part, s.id>>, "logs", s))

-----------------------------------------------------------------------------
(* What each command keeps of the objects it lists. *)

AliasCommand(o) == Same("db", o.db)
BulkInsertCommand(o) == Same("id", o.id) /\ Same("coll", o.coll) /\ Same("state", o.state)
ChannelWatchedCommand(o) ==
    Same("coll", o.coll) /\ (Flag("withoutSchema") => ~o.schema)

CollectionCommand(o) ==
    IF Given("id") THEN o.id = Param("id")
    ELSE /\ Same("name", o.name) /\ Same("db", o.db) /\ Same("state", o.state)
         /\ Given("property") => Param("property") \in o.props

CollectionLoadedCommand(o) == Same("coll", o.coll)

Finished(o) == o.state \in {"cleaned", "completed"}
CompactionTaskCommand(o) ==
    /\ Same("name", o.name) /\ Same("type", o.type) /\ Same("coll", o.coll)
    /\ Same("part", o.part) /\ Same("trigger", o.trigger) /\ Same("id", o.id)
    /\ Given("seg") => Param("seg") \in o.inputs
    /\ ~Flag("all") => ~Finished(o)
    /\ Same("state", o.state)

DatabaseCommand(o) == Same("name", o.name) /\ Same("id", o.id)
IndexCommand(o) == Same("coll", o.coll)
PartitionLoadedCommand(o) == Same("coll", o.coll) /\ Same("part", o.part)
ReplicaCommand(o) == Same("coll", o.coll)
ResourceGroupCommand(o) == Same("name", o.name)

SegmentCommand(o) ==
    /\ Same("coll", o.coll) /\ Same("part", o.part) /\ Same("id", o.id)
    /\ Same("state", o.state) /\ Same("level", o.level)
    /\ Same("sorted", o.sorted) /\ Same("version", o.version)

\* The state defaults to Flushed.
JSONStatsCommand(o) ==
    /\ Same("coll", o.coll) /\ Same("part", o.part) /\ Same("id", o.id)
    /\ o.state = IF Given("state") THEN Param("state") ELSE "Flushed"

StatsTaskCommand(o) ==
    /\ Same("type", o.type) /\ Same("id", o.id) /\ Same("state", o.state)
    /\ Same("coll", o.coll) /\ Same("seg", o.seg)
    /\ Given("since") => o.time >= Param("since")
    /\ Flag("failed") => o.reason # ""

SegmentOfIndex(o) == Same("coll", o.coll) /\ Same("seg", o.id)
SegmentIndexFilter(o) == Same("coll", o.coll) /\ Same("seg", o.of) /\ Same("index", o.index)

\* && binds tighter than ||: without a collection every index is kept. With
\* one, the segment is compared with the field of the index.
IndexFilter(o) ==
    \/ ~Given("coll")
    \/ /\ o.coll = Param("coll")
       /\ Same("seg", o.field) /\ Same("field", o.field) /\ Same("index", o.id)

\* The flushed segments that should have loaded stats.
ExpectedStats(o) ==
    /\ Same("coll", o.coll) /\ Same("seg", o.id) /\ o.state = "Flushed"
    /\ ~Flag("unbuilt") =>
           IF Given("field") THEN Param("field") \in o.stats ELSE o.stats # {}

LoadedStats(o) ==
    /\ Same("coll", o.coll) /\ Same("seg", o.id)
    /\ IF Given("field") THEN Param("field") \in o.stats ELSE o.stats # {}

Keep(o) ==
    CASE cmd.name = "alias" -> AliasCommand(o)
      [] cmd.name = "bulkinsert" -> BulkInsertCommand(o)
      [] cmd.name = "channel-watch" -> ChannelWatchedCommand(o)
      [] cmd.name = "collections" -> CollectionCommand(o)
      [] cmd.name = "collection-loaded" -> CollectionLoadedCommand(o)
      [] cmd.name = "compactions" -> CompactionTaskCommand(o)
      [] cmd.name = "database" -> DatabaseCommand(o)
      [] cmd.name = "index" -> IndexCommand(o)
      [] cmd.name = "partition-loaded" -> PartitionLoadedCommand(o)
      [] cmd.name = "replica" -> ReplicaCommand(o)
      [] cmd.name = "resource-group" -> ResourceGroupCommand(o)
      [] cmd.name = "segment" -> SegmentCommand(o)
      [] cmd.name = "json-stats" -> JSONStatsCommand(o)
      [] cmd.name = "stats-task" -> StatsTaskCommand(o)
      [] cmd.name = "segment-index" -> SegmentOfIndex(o)
      [] cmd.name = "loaded-json-stats" -> ExpectedStats(o)
      [] cmd.name \in {"checkpoint", "config-etcd", "etcd-kv-tree", "partition", "replicate",
                       "session", "user", "wal-broadcast", "wal-distribution",
                       "wal-recovery-storage"} -> TRUE

Kept(tag) == SelectSeq(mem[tag], LAMBDA o : Keep(o))

-----------------------------------------------------------------------------
(* The reads of a command, and the ones that follow from what a read finds. *)

FirstReads ==
    CASE cmd.name = "alias" -> ListAlias
      [] cmd.name = "bulkinsert" -> ListImportJobs
      [] cmd.name = "channel-watch" -> ListChannelWatch
      [] cmd.name = "checkpoint" -> ListCollectionsAs("collections")
      [] cmd.name = "collections" -> ListCollectionsAs("rows")
      [] cmd.name = "collection-loaded" -> ListCollectionLoadedInfo
      [] cmd.name = "compactions" -> ListCompactionTask
      [] cmd.name = "config-etcd" -> ListEtcdConfigs
      [] cmd.name = "etcd-kv-tree" -> <<Must(Param("prefix"), "rows")>>
      [] cmd.name = "database" -> ListDatabase
      [] cmd.name = "index" -> ListIndexAs("rows")
      [] cmd.name = "loaded-json-stats" -> ListSegmentsAs("rows") \o ListSessionsAs("sessions")
      [] cmd.name = "partition" -> ListCollectionPartitions(Param("coll"))
      [] cmd.name = "partition-loaded" -> ListPartitionLoadedInfo
      [] cmd.name = "replica" -> ListCollectionsAs("collections") \o ListReplicas
      [] cmd.name = "replicate" -> ListReplicateConfiguration \o ListReplicatePChannel
      [] cmd.name = "resource-group" -> ListResourceGroups
      [] cmd.name \in {"segment", "json-stats"} -> ListSegmentsAs("rows")
      [] cmd.name = "segment-index" ->
             ListSegmentsAs("rows") \o ListSegmentIndex \o ListIndexAs("indexes")
      [] cmd.name = "session" -> ListSessionsAs("rows")
      [] cmd.name = "stats-task" -> ListStatsTask
      [] cmd.name = "user" -> ListUsers
      [] cmd.name = "wal-broadcast" -> ListWalBroadcast
      [] cmd.name = "wal-distribution" ->
             ListWALDistribution(IF Given("id") THEN Param("id") ELSE "", "rows")
      [] cmd.name = "wal-recovery-storage" -> ListWALRecoveryStorage(Param("pchannel"))

\* Refused before anything is read: no collection, no channel, a time that
\* does not parse.
PartitionRefused == cmd.name = "partition" /\ ~Given("coll")
RecoveryRefused == cmd.name = "wal-recovery-storage" /\ ~Given("pchannel")
StatsTaskRefused ==
    cmd.name = "stats-task" /\ Given("since") /\ Param("since") = Absent
Refused == PartitionRefused \/ RecoveryRefused \/ StatsTaskRefused

Go(calls, m) == [todo |-> calls, mem |-> m, out |-> "running"]
Stop(how, m) == [todo |-> <<>>, mem |-> m, out |-> how]
Continue(m) == Go(Tail(todo), m)

Add(m, tag, rows) == [m EXCEPT ![tag] = @ \o rows]
Of(x, rows) == MapSeq(rows, LAMBDA o : [of |-> x, obj |-> o])

CollectionsRead(call) == call.at = <<"root-coord", "database", "collection-info">>

\* GetCollectionByIDVersion: the first collection with the identifier.
ById(rows, id) == SelectSeq(rows, LAMBDA o : o.id = id)

\* ListCollections fills in fields, struct fields and functions; an error
\* there is dropped.
FillCollections(kept) == Concat(MapSeq(kept, LAMBDA c : CollectionParts(c)))

\* The collections are read; what the three commands do next.
FoundById(m) == IF Given("coll") THEN ById(m["collections"], Param("coll")) ELSE <<>>

ThenCollections(m) ==
    LET kept == SelectSeq(m["rows"], LAMBDA o : Keep(o)) IN
    IF Given("id") /\ kept = <<>> THEN Stop("error", m)
    ELSE Go(FillCollections(kept) \o Tail(todo), m)

ThenCheckpoints(m) ==
    LET found == FoundById(m) IN
    IF found = <<>> THEN Stop("error", m)
    ELSE Go(FillCollections(found)
            \o Concat(MapSeq(found[1].chs, LAMBDA ch : getChannelCheckpoint(ch)))
            \o Tail(todo), [m EXCEPT !["collections"] = found])

ThenReplicas(m) ==
    IF ~Given("coll") THEN Go(FillCollections(m["collections"]) \o Tail(todo), m)
    ELSE IF FoundById(m) = <<>> THEN Stop("error", m)
    ELSE Go(FillCollections(FoundById(m)) \o Tail(todo),
            [m EXCEPT !["collections"] = FoundById(m)])

AfterCollections(call, m) ==
    IF ~CollectionsRead(call) THEN Continue(m)
    ELSE IF cmd.name = "collections" THEN ThenCollections(m)
    ELSE IF cmd.name = "checkpoint" THEN ThenCheckpoints(m)
    ELSE ThenReplicas(m)

\* Mutant: the newest position, which skips what older segments still need.
NewestOf(segs) == CHOOSE s \in segs : \A t \in segs : t.pos <= s.pos

\* The oldest position is the one consumption has to start from.
OldestOf(segs) == CHOOSE s \in segs : \A t \in segs : s.pos <= t.pos

\* A segment's position: its checkpoint, else its start.
SegmentPosition(s) == IF s.dml # 0 THEN s.dml ELSE s.start

CheckpointRow(ch, source, pos, from) ==
    [kind |-> "checkpoint", ch |-> ch, source |-> source, pos |-> pos, from |-> from]

getCheckpointFromSegments(ch, rows) ==
    LET segs == {s \in Objects(rows) : /\ s.coll = Param("coll") /\ s.ch = ch
                                       /\ s.state \in {"Flushed", "Growing", "Flushing"}
                                       /\ s.dml # 0 \/ s.start # 0}
        at == {[pos |-> SegmentPosition(s), id |-> s.id] : s \in segs}
    IN IF segs = {} THEN CheckpointRow(ch, "segment", 0, "")
       ELSE CheckpointRow(ch, "segment", OldestOf(at).pos, OldestOf(at).id)

AfterCheckpoint(call, ok, rows) ==
    IF call.as = "checkpoint" THEN
        IF ok /\ Len(rows) = 1
        THEN Continue(Add(mem, "rows", <<CheckpointRow(call.for, "channel", rows[1].pos, rows[1].ch)>>))
        ELSE Go(SegmentsOfChannel(call.for) \o Tail(todo), mem)
    ELSE Continue(Add(mem, "rows",
             <<IF ok THEN getCheckpointFromSegments(call.for, rows)
               ELSE CheckpointRow(call.for, "none", 0, "")>>))

\* A job whose tasks cannot be listed is not printed; the total counts it.
AfterImport(call, ok, rows) ==
    IF call.as = "rows" THEN
        LET m == Add(mem, "rows", rows)
            jobs == SelectSeq(rows, LAMBDA o : Keep(o))
        IN IF ~Flag("detail") \/ jobs = <<>> THEN Continue(m)
           ELSE IF ~Given("id") THEN Stop("message", mem)
           ELSE Go(Concat(MapSeq(jobs, LAMBDA j : ListPreImportTasks(j) \o ListImportTasks(j))), m)
    ELSE IF ~ok THEN
        Go(SelectSeq(Tail(todo), LAMBDA r : r.for # call.for),
           Add(mem, "dropped", <<call.for>>))
    ELSE Continue(Add(mem, call.as, Of(call.for,
             SelectSeq(rows, LAMBDA o : o.of = call.for.id))))

\* The logs of a segment are loaded together: one listing that fails leaves
\* it without logs.
AfterLogs(call, ok, rows) ==
    IF ok THEN Continue(Add(mem, "logs", Of(call.for, rows)))
    ELSE Go(SelectSeq(Tail(todo), LAMBDA r : r.for # call.for),
            [mem EXCEPT !["logs"] = SelectSeq(@, LAMBDA e : e.of # call.for)])

QueryNodes(rows) == SelectSeq(rows, LAMBDA s : s.server = "querynode")

\* Logs are read for the formats that print or add them up.
AfterSegments(m, rows) ==
    LET logged(o) == /\ Keep(o)
                     /\ \/ cmd.format = "table"
                        \/ cmd.format = "statistics" /\ o.state # "Dropped"
    IN Go(Concat(MapSeq(SelectSeq(rows, logged), LAMBDA o : SegmentLogs(o))), m)

AfterSessions(m, rows) ==
    IF QueryNodes(rows) = <<>> THEN Stop("message", mem)
    ELSE Go(MapSeq(QueryNodes(rows), LAMBDA s : Ask(s)), m)

\* By identifier, the first task that the prefix finds.
WalBroadcastCommand(m, rows) ==
    IF ~Given("id") THEN Continue(m)
    ELSE IF rows = <<>> THEN Stop("error", m)
    ELSE Continue([m EXCEPT !["rows"] = <<rows[1]>>])

\* The first configuration is taken without asking whether there is one.
ReplicateCommand(m, rows) ==
    IF rows = <<>> THEN Stop("panic", m)
    ELSE IF rows[1].valid THEN Continue(m) ELSE Stop("error", m)

Then(call, ok, rows) ==
    IF call.must /\ ~ok THEN
        \* show bulkinsert, segment and json-stats print the error and return nil
        Stop(IF cmd.name \in {"bulkinsert", "segment", "json-stats"} THEN "message" ELSE "error", mem)
    ELSE IF cmd.name = "bulkinsert" THEN AfterImport(call, ok, rows)
    ELSE IF call.as \in {"checkpoint", "segments"} THEN AfterCheckpoint(call, ok, rows)
    ELSE IF call.as = "logs" THEN AfterLogs(call, ok, rows)
    ELSE IF call.as \in {"fields", "loaded"} THEN Continue(Add(mem, call.as, Of(call.for, rows)))
    ELSE LET m == Add(mem, call.as, rows) IN
    IF \/ cmd.name \in {"checkpoint", "collections"}
       \/ cmd.name = "replica" /\ call.as = "collections"
    THEN AfterCollections(call, m)
    ELSE IF cmd.name = "segment" THEN AfterSegments(m, rows)
    ELSE IF call.as = "sessions" THEN AfterSessions(m, rows)
    ELSE IF cmd.name = "wal-broadcast" THEN WalBroadcastCommand(m, rows)
    ELSE IF cmd.name = "replicate" /\ call.as = "config" THEN ReplicateCommand(m, rows)
    ELSE IF rows = <<>> /\ (cmd.name = "partition" \/ call.as = "config") THEN Stop("error", m)
    ELSE Continue(m)

-----------------------------------------------------------------------------
(* What is printed of it. *)

Printed(rows, total) == [out |-> "shown", rows |-> rows, total |-> total]
Nothing == Printed(<<>>, Absent)
Failed(how) == [out |-> how, rows |-> <<>>, total |-> Absent]

Formats == {"default", "plain", "json", "table", "line"}
Plain(f) == f \in {"default", "plain"}

\* The format of the command, of the configuration, or the default. Commands
\* without a format parameter take the one of the configuration.
NameFormat(name) == IF name \in Formats \cup {""} THEN name ELSE "default"
OutputFormat(own) ==
    IF own # "" THEN own
    ELSE IF cmd.global # "" THEN NameFormat(cmd.global) ELSE "default"
Format == OutputFormat(NameFormat(cmd.format))
PresetFormat == OutputFormat("")

\* Rows with their number in plain text and JSON, nothing otherwise.
Table(f, rows) == IF Plain(f) \/ f = "json" THEN Printed(rows, Len(rows)) ELSE Nothing
PlainOnly(f, rows) == IF Plain(f) THEN Printed(rows, Len(rows)) ELSE Nothing
\* The same, with the number in JSON only.
CountedInJSON(f, rows) ==
    IF Plain(f) THEN Printed(rows, Absent)
    ELSE IF f = "json" THEN Printed(rows, Len(rows)) ELSE Nothing

Aliases(f) == CountedInJSON(f, Kept("rows"))
ChannelsWatched(f) ==
    IF Plain(f) THEN Printed(Kept("rows"), Len(Kept("rows")))
    ELSE IF f = "json" THEN Printed(Kept("rows"), Absent) ELSE Nothing
Checkpoints(f) == CountedInJSON(f, mem["rows"])

\* Found by identifier, the collection is not counted.
CollectionTotal == IF Given("id") THEN 0 ELSE Len(Kept("rows"))
CollectionRows ==
    LET kept == IF Given("id") THEN SubSeq(Kept("rows"), 1, 1) ELSE Kept("rows")
        parts(c) == {e.obj : e \in {e \in Objects(mem["fields"]) : e.of = c}}
    IN MapSeq(kept, LAMBDA c : [obj |-> c, parts |-> parts(c)])
Collections(f) ==
    IF Plain(f) \/ f = "json" THEN Printed(CollectionRows, CollectionTotal)
    ELSE IF f = "line" THEN Printed(CollectionRows, Absent) ELSE Nothing

CollectionsLoaded(f) == PlainOnly(f, Kept("rows"))
\* The total counts every task listed, before the filters.
CompactionTasks(f) ==
    IF Plain(f) \/ f = "json" THEN Printed(Kept("rows"), Len(mem["rows"])) ELSE Nothing
Databases(f) == Table(f, Kept("rows"))
Partitions(f) == Table(f, mem["rows"])
PartitionsLoaded(f) == PlainOnly(f, Kept("rows"))
ResourceGroups(f) == PlainOnly(f, Kept("rows"))
Users(f) == Table(f, mem["rows"])

\* Replicas are printed with the name of their collection. It need not have
\* been there when collections were listed: plain text dereferences it, JSON
\* leaves the name empty.
Replicas(f) ==
    LET of(r) == {c \in Objects(mem["collections"]) : c.id = r.coll}
        name(r) == IF of(r) = {} THEN "" ELSE (CHOOSE c \in of(r) : TRUE).name
    IN IF Plain(f) /\ \E r \in Objects(Kept("rows")) : of(r) = {} THEN Failed("panic")
       ELSE CountedInJSON(f, MapSeq(Kept("rows"), LAMBDA r : [obj |-> r, name |-> name(r)]))

\* Plain text prints sessions by component: one mixcoord hides the separate
\* coordinators, and a component that is in neither list is not printed.
Coordinators(rows) ==
    IF \E s \in Objects(rows) : s.server = "mixcoord" THEN {"mixcoord"}
    ELSE {"rootcoord", "datacoord", "querycoord", "indexcoord"}
NodeKinds == {"datanode", "querynode", "indexnode", "proxy", "streamingnode"}
PrintedSession(rows, s) ==
    \/ s.server \in NodeKinds
    \/ /\ s.server \in Coordinators(rows)
       \* the main one, and those with another server identifier
       /\ \/ s.main
          \/ ~\E t \in Objects(rows) : t.server = s.server /\ t.main /\ t.id = s.id
Sessions(f) ==
    IF Plain(f) THEN Printed(SelectSeq(mem["rows"], LAMBDA s : PrintedSession(mem["rows"], s)), Absent)
    ELSE IF f = "json" THEN Printed(mem["rows"], Absent) ELSE Nothing

ImportJobs ==
    LET jobs == Kept("rows")
        tasks(tag, j) == {e.obj : e \in {e \in Objects(mem[tag]) : e.of = j}}
        printed == SelectSeq(jobs, LAMBDA j : j \notin Objects(mem["dropped"]))
    IN Printed(IF Flag("detail")
               THEN MapSeq(printed, LAMBDA j :
                        [obj |-> j, parts |-> tasks("pretasks", j) \cup tasks("tasks", j)])
               ELSE MapSeq(jobs, LAMBDA j : [obj |-> j, parts |-> {}]), Len(jobs))

\* The total counts the segments that are not dropped. With statistics the
\* logs are added up instead of printing segments.
Segments ==
    LET rows == Kept("rows")
        healthy == Len(SelectSeq(rows, LAMBDA s : s.state # "Dropped"))
        logs(s) == {e.obj : e \in {e \in Objects(mem["logs"]) : e.of = s}}
    IN IF rows # <<>> /\ cmd.format \notin {"table", "line", "statistics"} THEN Failed("error")
       ELSE Printed(MapSeq(rows, LAMBDA s : [obj |-> s, parts |-> logs(s)]), healthy)

\* The indexes of flushed segments, where the index is known.
SegmentIndexes ==
    LET segs == SelectSeq(Kept("rows"), LAMBDA s : s.state \in {"Flushed", "Flushing"})
        known == {x.id : x \in {x \in Objects(mem["indexes"]) : IndexFilter(x)}}
        built == {x \in Objects(mem["segindexes"]) : SegmentIndexFilter(x)}
        of(s) == {x \in built : x.of = s.id /\ x.index \in known}
    IN Printed(MapSeq(segs, LAMBDA s : [obj |-> s, parts |-> of(s)]), Absent)

Built(s) == IF Given("field") THEN Param("field") \in s.stats ELSE s.stats # {}
\* With --detail the files of the statistics are read from object storage as
\* well and described; an error there is printed and changes nothing else.
JSONStats ==
    LET rows == Kept("rows") IN
    IF rows = <<>> THEN Nothing
    ELSE Printed(MapSeq(rows, LAMBDA s : [obj |-> s, built |-> Built(s)]), Len(rows))

\* Expected segments, and whether a node that answered has loaded them.
LoadedJSONStats ==
    LET loaded == {e.obj.id : e \in {e \in Objects(mem["loaded"]) : LoadedStats(e.obj)}} IN
    Printed(MapSeq(Kept("rows"), LAMBDA s : [obj |-> s, loaded |-> s.id \in loaded]),
            Len(Kept("rows")))

ConfigEtcd == Printed(mem["rows"], Absent)
Indexes == Printed(Kept("rows"), Absent)
WALDistribution == Printed(mem["rows"], Absent)
Broadcasts == Printed(mem["rows"], Absent)
CDCTasks == Printed(mem["rows"], Absent)
StatsTasks == Printed(Kept("rows"), Absent)

\* Vchannels by a prefix of the name, with their segments and schemas.
VChannels == SelectSeq(mem["rows"], LAMBDA o : o.kind = "vchannel")
WALTable ==
    LET wanted(v) == Given("vchannel") => (\/ v.id = Param("vchannel")
                                           \/ <<Param("vchannel"), v.id>> \in Begins)
        of(v) == {o \in Objects(mem["rows"]) : o.kind \in {"assign", "schema"} /\ o.of = v.id}
    IN MapSeq(SelectSeq(VChannels, LAMBDA v : wanted(v)),
              LAMBDA v : [obj |-> v, parts |-> of(v)])

\* What belongs to no vchannel. It is appended to the table after the table
\* was rendered, so what is written out has none of it.
Redundant ==
    SelectSeq(mem["rows"], LAMBDA o :
        /\ o.kind \in {"assign", "schema"}
        /\ o.of \notin {v.id : v \in Objects(VChannels)})

WALRecovery == Printed(WALTable, Absent)

-----------------------------------------------------------------------------
(* show etcd-kv-tree: the keys under a prefix, counted by the first          *)
(* components after it, level by level.                                      *)

\* A prefix that does not end in a slash leaves an empty first part, or the
\* rest of a component.
PartsAfter(k, base) ==
    IF HasSlash(base) THEN SubSeq(k, Len(base), Len(k))
    ELSE <<IF k[Len(base)] = base[Len(base)] THEN "" ELSE k[Len(base)]>>
         \o SubSeq(k, Len(base) + 1, Len(k))

getNthLevelPrefix(k, base, level) ==
    LET parts == PartsAfter(k, base) IN
    IF Len(parts) < level THEN <<>>
    ELSE Join(base) \o SelectSeq(SubSeq(parts, 1, level), LAMBDA x : x # "")

countKeysAtEachLevel(keys, base, level) ==
    LET at(k) == getNthLevelPrefix(k, base, level)
        all == {at(k) : k \in keys} \ {<<>>}
    IN {[prefix |-> p, count |-> Cardinality({k \in keys : at(k) = p})] : p \in all}

\* The order of equal counts is not fixed.
printTopKPrefixes(counts, k) ==
    {T \in SUBSET counts :
        /\ Cardinality(T) = IF Cardinality(counts) < k THEN Cardinality(counts) ELSE k
        /\ \A x \in T, y \in counts \ T : x.count >= y.count}

KVTree ==
    LET keys == {o.path : o \in Objects(mem["rows"])}
        counts(n) == countKeysAtEachLevel(keys, Param("prefix"), n)
    IN {Printed(<<[level |-> 1, top |-> a], [level |-> 2, top |-> b]>>, Absent) :
            a \in printTopKPrefixes(counts(1), Param("top")),
            b \in printTopKPrefixes(counts(2), Param("top"))}

Outputs ==
    CASE cmd.name = "alias" -> {Aliases(Format)}
      [] cmd.name = "bulkinsert" -> {ImportJobs}
      [] cmd.name = "channel-watch" -> {ChannelsWatched(Format)}
      [] cmd.name = "checkpoint" -> {Checkpoints(Format)}
      [] cmd.name = "collections" -> {Collections(Format)}
      [] cmd.name = "collection-loaded" -> {CollectionsLoaded(PresetFormat)}
      [] cmd.name = "compactions" -> {CompactionTasks(PresetFormat)}
      [] cmd.name = "database" -> {Databases(Format)}
      [] cmd.name = "etcd-kv-tree" -> KVTree
      [] cmd.name = "json-stats" -> {JSONStats}
      [] cmd.name = "loaded-json-stats" -> {LoadedJSONStats}
      [] cmd.name = "partition" -> {Partitions(Format)}
      [] cmd.name = "partition-loaded" -> {PartitionsLoaded(PresetFormat)}
      [] cmd.name = "replica" -> {Replicas(Format)}
      [] cmd.name = "resource-group" -> {ResourceGroups(PresetFormat)}
      [] cmd.name = "segment" -> {Segments}
      [] cmd.name = "segment-index" -> {SegmentIndexes}
      [] cmd.name = "session" -> {Sessions(Format)}
      [] cmd.name = "stats-task" -> {StatsTasks}
      [] cmd.name = "user" -> {Users(Format)}
      [] cmd.name = "wal-recovery-storage" -> {WALRecovery}
      [] cmd.name = "config-etcd" -> {ConfigEtcd}
      [] cmd.name = "index" -> {Indexes}
      [] cmd.name = "wal-distribution" -> {WALDistribution}
      [] cmd.name = "wal-broadcast" -> {Broadcasts}
      [] cmd.name = "replicate" -> {CDCTasks}

-----------------------------------------------------------------------------
Tags == {"rows", "collections", "fields", "config", "sessions", "loaded", "logs",
         "pretasks", "tasks", "dropped", "indexes", "segindexes"}

Init ==
    /\ store \in InitialStores
    /\ cmd \in Invocations
    /\ todo = <<>> /\ mem = [t \in Tags |-> <<>>]
    /\ out = "idle" /\ shown = Nothing
    /\ changes = 0 /\ faults = 0
    /\ ever = [k \in Key |-> {}] /\ missed = {}

Begin ==
    /\ out = "idle"
    /\ IF Refused THEN out' = "error" /\ todo' = <<>>
       ELSE out' = "running" /\ todo' = FirstReads
    /\ ever' = [k \in Key |-> {store[k]}]
    /\ UNCHANGED <<store, cmd, mem, shown, changes, faults, missed>>

Proceed(then) == todo' = then.todo /\ mem' = then.mem /\ out' = then.out

\* The values of a listing that parse; show etcd-kv-tree reads only keys.
ValuesAt(p) ==
    IF cmd.name = "etcd-kv-tree"
    THEN MapSeq(LoadWithPrefix(p), LAMBDA k : [kind |-> "key", path |-> k])
    ELSE MapSeq(ListObj2Models(p), LAMBDA m : m.obj)

ReadList ==
    /\ out = "running" /\ todo # <<>> /\ Head(todo).do = "list"
    /\ Proceed(Then(Head(todo), TRUE, ValuesAt(Head(todo).at)))
    /\ UNCHANGED <<store, cmd, shown, changes, faults, ever, missed>>

\* A query node is dialled and asked for what it has loaded.
AskNode ==
    /\ out = "running" /\ todo # <<>> /\ Head(todo).do = "rpc"
    /\ Proceed(Then(Head(todo), TRUE, LoadedOn[Head(todo).at[1]]))
    /\ UNCHANGED <<store, cmd, shown, changes, faults, ever, missed>>

ReadFails ==
    /\ out = "running" /\ todo # <<>> /\ faults < MaxFaults
    /\ faults' = faults + 1
    /\ missed' = missed \cup {Head(todo)}
    /\ Proceed(Then(Head(todo), FALSE, <<>>))
    /\ UNCHANGED <<store, cmd, shown, changes, ever>>

Show ==
    /\ out = "running" /\ todo = <<>>
    /\ \E o \in Outputs : out' = o.out /\ shown' = o
    /\ UNCHANGED <<store, cmd, todo, mem, changes, faults, ever, missed>>

MilvusStep ==
    /\ out = "running" /\ changes < MaxChanges
    /\ \E c \in Changes :
          /\ store[c.key] = c.old
          /\ store' = Save(store, c.key, c.new)
          /\ ever' = [ever EXCEPT ![c.key] = @ \cup {c.new}]
    /\ changes' = changes + 1
    /\ UNCHANGED <<cmd, todo, mem, out, shown, faults, missed>>

Next == Begin \/ ReadList \/ AskNode \/ ReadFails \/ Show \/ MilvusStep

Spec == Init /\ [][Next]_vars

-----------------------------------------------------------------------------
(* Properties. *)

Steady(k) == Cardinality(ever[k]) = 1 /\ store[k] \notin {Absent, Tombstone}
WasAt(o) == \E k \in Key : o \in ever[k]

Row(r) == IF "obj" \in DOMAIN r THEN r.obj ELSE r
Rows == {Row(r) : r \in Objects(shown.rows)}

\* The kind of object that a command is about.
KindOf ==
    [alias |-> "alias", bulkinsert |-> "job", collections |-> "collection",
     compactions |-> "compaction", database |-> "database", index |-> "index",
     partition |-> "partition", replica |-> "replica", replicate |-> "cdc",
     segment |-> "segment", session |-> "session"]
    @@ ("channel-watch" :> "watch") @@ ("collection-loaded" :> "loaded")
    @@ ("config-etcd" :> "config") @@ ("json-stats" :> "segment")
    @@ ("loaded-json-stats" :> "segment") @@ ("partition-loaded" :> "partload")
    @@ ("resource-group" :> "group") @@ ("stats-task" :> "stats")
    @@ ("wal-broadcast" :> "broadcast") @@ ("wal-distribution" :> "pchannel")

\* What the user asked for, whatever the command: every parameter that is an
\* attribute of the object has its value. An identifier given to `show
\* collections` overrides the other parameters.
Asked(o) ==
    /\ \A f \in DOMAIN cmd.p \cap DOMAIN o :
           \/ o[f] = cmd.p[f]
           \/ cmd.name = "collections" /\ Given("id") /\ f # "id"
    /\ cmd.name = "collections" /\ ~Given("id") /\ Given("property") =>
           Param("property") \in o.props
    /\ cmd.name = "compactions" =>
           /\ Given("seg") => Param("seg") \in o.inputs
           /\ o.state \in {"cleaned", "completed"} => Flag("all")
    /\ cmd.name = "channel-watch" /\ Flag("withoutSchema") => ~o.schema
    /\ cmd.name = "stats-task" => /\ Given("since") => o.time >= Param("since")
                                  /\ Flag("failed") => o.reason # ""
    /\ cmd.name = "json-stats" /\ ~Given("state") => o.state = "Flushed"
    /\ cmd.name = "loaded-json-stats" => ExpectedStats(o)
    /\ cmd.name = "partition" => o.of = Param("coll")

\* The commands that look an identifier up by an open prefix.
PrefixMatched(o) ==
    /\ cmd.name \in {"wal-broadcast", "wal-distribution"} /\ Given("id")
    /\ <<Param("id"), o.id>> \in Begins

\* Formats in which a command prints nothing at all.
Silent ==
    \/ /\ cmd.name \in {"collection-loaded", "partition-loaded", "resource-group"}
       /\ ~Plain(PresetFormat)
    \/ cmd.name = "compactions" /\ PresetFormat \notin {"default", "plain", "json"}
    \/ /\ cmd.name \in {"alias", "channel-watch", "checkpoint", "database", "partition", "replica",
                       "session", "user"}
       /\ Format \notin {"default", "plain", "json"}
    \/ cmd.name = "collections" /\ Format = "table"

\* Sessions that plain text leaves out.
HiddenSession(o) ==
    cmd.name = "session" /\ Plain(Format) /\ ~PrintedSession(mem["rows"], o)

\* A job whose tasks could not be listed is left out of the details.
Unlisted(o) == cmd.name = "bulkinsert" /\ o \in Objects(mem["dropped"])

\* The total of compactions counts the tasks that are there, asked for or not.
CompactionsThere(n) ==
    LET task(v) == v \notin {Absent, Tombstone} /\ v.kind = "compaction" IN
    /\ Cardinality({k \in Key : Steady(k) /\ task(store[k])}) <= n
    /\ n <= Cardinality({k \in Key : \E v \in ever[k] : task(v)})

TotalExact ==
    CASE shown.total = Absent -> TRUE
      [] cmd.name = "compactions" -> CompactionsThere(shown.total)
      [] cmd.name = "segment" ->
             shown.total = Len(SelectSeq(shown.rows, LAMBDA r : r.obj.state # "Dropped"))
      [] cmd.name = "collections" /\ Given("id") -> shown.total = 0
      [] OTHER -> shown.total = Len(shown.rows) + Len(mem["dropped"])

\* The checkpoints are those of the channels that the collection had.
ChannelsExact ==
    \E k \in Key : \E c \in ever[k] \ {Absent, Tombstone} :
        /\ c.kind = "collection" /\ c.id = Param("coll")
        /\ MapSeq(shown.rows, LAMBDA r : r.ch) = c.chs
        /\ shown.total \in {Absent, Len(c.chs)}

\* A command prints what was asked for and nothing else: every object that
\* was there, unchanged, for as long as the command ran and that matches its
\* parameters, and only objects that were there at some time and match them;
\* and a total that it prints is the number of what it printed, or for
\* compactions of what is there. It is judged by one uniform rule, not by the
\* filter of the command, and while milvus changes the store between reads,
\* reads fail and dropped objects leave marks. The exceptions are named:
\* identifiers looked up by an open prefix (ShownById), users, which are
\* looked for where milvus has none (UsersShown), sessions hidden in plain
\* text, formats that print nothing, details that could not be listed, and
\* the total of a collection found by identifier.
ListingExact ==
    out = "shown" /\ ~Silent =>
        /\ cmd.name = "checkpoint" => ChannelsExact
        /\ cmd.name \in DOMAIN KindOf =>
              /\ \A k \in Key :
                    LET o == store[k] IN
                    Steady(k) /\ o.kind = KindOf[cmd.name] /\ Asked(o) =>
                        o \in Rows \/ HiddenSession(o) \/ Unlisted(o)
              /\ \A o \in Rows : /\ WasAt(o) /\ o.kind = KindOf[cmd.name]
                                 /\ Asked(o) \/ PrefixMatched(o)
              /\ TotalExact

\* An object that was looked up by its identifier has it ("broadcast id to
\* show", wal_broadcast.go).
\* The code does not keep it: see the findings.
ShownById ==
    out = "shown" /\ cmd.name \in {"wal-broadcast", "wal-distribution"} /\ Given("id") =>
        \A o \in Rows : o.id = Param("id")

\* show user prints the users that milvus has ("display user info from
\* rootcoord meta", user.go).
\* The code does not keep it: see the findings.
UsersShown ==
    out = "shown" /\ cmd.name = "user" /\ ~Silent =>
        \A k \in Key : Steady(k) /\ store[k].kind = "user" => store[k] \in Rows

\* The parts printed with an object: fields of a collection, logs and built
\* indexes of a segment, tasks of a job, segments and schemas of a vchannel.
PartKinds ==
    [collections |-> {"field"}, segment |-> {"log"}, bulkinsert |-> {"task"}]
    @@ ("segment-index" :> {"segindex"}) @@ ("wal-recovery-storage" :> {"assign", "schema"})

\* A built index was asked for, and its index was there on the field asked for.
IndexAsked(x) ==
    /\ SegmentIndexFilter(x)
    /\ \E k \in Key : /\ Steady(k) /\ store[k].kind = "index" /\ store[k].id = x.index
                      /\ Same("field", store[k].field)
OnField(x) ==
    \E k \in Key : \E v \in ever[k] \ {Absent, Tombstone} :
        v.kind = "index" /\ v.id = x.index /\ Same("field", v.field)

ReadsParts ==
    CASE cmd.name = "segment" -> cmd.format \in {"table", "statistics"}
      [] cmd.name = "bulkinsert" -> Flag("detail")
      [] OTHER -> TRUE

PartsExact(r) ==
    /\ \A k \in Key :
          LET x == store[k] IN
          /\ Steady(k) /\ x.kind \in PartKinds[cmd.name] /\ x.of = r.obj.id
          /\ ReadsParts /\ ~\E c \in missed : c.for = r.obj
          /\ cmd.name = "segment" /\ cmd.format = "statistics" => r.obj.state # "Dropped"
          /\ cmd.name = "segment-index" => IndexAsked(x) /\ ~(Given("coll") /\ Given("seg"))
          => x \in r.parts
    /\ \A x \in r.parts :
          /\ WasAt(x) /\ x.kind \in PartKinds[cmd.name]
          /\ \/ x.of = r.obj.id
             \/ cmd.name \in {"collections", "segment"} /\ <<r.obj.id, x.of>> \in Begins
          /\ cmd.name = "segment-index" =>
                 SegmentIndexFilter(x) /\ (Given("coll") => OnField(x))

\* The keys of the checkpoints that a lookup by an open prefix can find.
CheckpointKeys(ch) == {k \in Key : HasPrefix(k, <<"datacoord-meta", "channel-cp", ch>>)}

CheckpointExact(r) ==
    LET own == <<"datacoord-meta", "channel-cp", r.ch>>
        alone == \A k \in CheckpointKeys(r.ch) \ {own} : ever[k] \subseteq {Absent, Tombstone}
        asked == ~\E c \in missed : c.as = "checkpoint" /\ c.for = r.ch
    IN /\ own \in Key /\ alone /\ asked /\ Steady(own) =>
              r.source = "channel" /\ r.pos = store[own].pos
       /\ r.source = "channel" =>
              \E k \in CheckpointKeys(r.ch) :
                  \E v \in ever[k] \ {Absent, Tombstone} : v.pos = r.pos
       /\ r.source = "segment" =>
              \A k \in Key : LET s == store[k] IN
                  /\ Steady(k) /\ s.kind = "segment" /\ s.ch = r.ch /\ s.coll = Param("coll")
                  /\ s.state \in {"Flushed", "Growing", "Flushing"} /\ SegmentPosition(s) > 0
                  => r.pos > 0 /\ r.pos <= SegmentPosition(s)

\* The name printed with a replica is the one of its collection.
NameExact(r) ==
    LET named(c) == c.kind = "collection" /\ c.id = r.obj.coll /\ c.name = r.name IN
    /\ r.name # "" => \E k \in Key : \E c \in ever[k] \ {Absent, Tombstone} : named(c)
    /\ \A k \in Key : LET c == store[k] IN
           Steady(k) /\ c.kind = "collection" /\ c.id = r.obj.coll => named(c)

LoadedExact(r) ==
    LET has(a) == \E i \in DOMAIN LoadedOn[a] :
                      LET s == LoadedOn[a][i] IN s.id = r.obj.id /\ LoadedStats(s)
    IN /\ r.loaded => \E a \in DOMAIN LoadedOn : has(a)
       /\ ~r.loaded =>
              \A k \in Key : LET s == store[k] IN
                  /\ Steady(k) /\ s.kind = "session" /\ s.server = "querynode"
                  /\ ~\E c \in missed : c.for = s
                  => ~has(s.address)

\* Every count is the number of keys under that prefix, between those that
\* stayed and those that ever were; what is left out is not greater.
TreeExact(r) ==
    LET base == Param("prefix")
        in(k, p) == HasPrefix(k, base) /\ getNthLevelPrefix(k, base, r.level) = p
        atLeast(p) == Cardinality({k \in Key : Absent \notin ever[k] /\ in(k, p)})
        atMost(p) == Cardinality({k \in Key : ever[k] # {Absent} /\ in(k, p)})
        printed == {t.prefix : t \in r.top}
        others == {getNthLevelPrefix(k, base, r.level) :
                       k \in {k \in Key : HasPrefix(k, base)}} \ (printed \cup {<<>>})
    IN /\ \A t \in r.top : t.count \in atLeast(t.prefix) .. atMost(t.prefix)
       /\ \A p \in others, t \in r.top : atLeast(p) <= t.count
       /\ Cardinality(r.top) < Param("top") => \A p \in others : atLeast(p) = 0

\* What a command puts together from several reads belongs together: the
\* parts printed with an object are its own and complete, unless their own
\* read failed; the checkpoint of a channel is its own where it has one, and
\* else no later than the position of any segment that still needs the
\* channel; a replica has the name of its collection; a segment reported as
\* not loaded is loaded by no node that answered; and the counts of a key tree
\* are the keys. The exceptions are the open prefixes (PartsOwn,
\* CheckpointOwn) and two filters of segment-index (SegmentIndexesListed,
\* FieldFiltered), which the code does not keep.
JoinExact ==
    out = "shown" =>
        /\ cmd.name \in DOMAIN PartKinds => \A r \in Objects(shown.rows) : PartsExact(r)
        /\ cmd.name = "checkpoint" => \A r \in Objects(shown.rows) : CheckpointExact(r)
        /\ cmd.name = "replica" => \A r \in Objects(shown.rows) : NameExact(r)
        /\ cmd.name = "loaded-json-stats" => \A r \in Objects(shown.rows) : LoadedExact(r)
        /\ cmd.name = "etcd-kv-tree" => \A r \in Objects(shown.rows) : TreeExact(r)

\* The logs printed with a segment ("segment id to display", segment.go) and
\* the fields printed with a collection are its own.
\* The code does not keep it: see the findings.
PartsOwn ==
    out = "shown" /\ cmd.name \in {"segment", "collections"} =>
        \A r \in Objects(shown.rows) : \A x \in r.parts : x.of = r.obj.id

\* A "Channel Checkpoint" (checkpoint.go) is the checkpoint of the channel.
\* The code does not keep it: see the findings.
CheckpointOwn ==
    out = "shown" /\ cmd.name = "checkpoint" =>
        \A r \in Objects(shown.rows) : r.source = "channel" => r.from = r.ch

\* With a segment to filter with (segment_index.go), the built indexes of
\* that segment are printed.
\* The code does not keep it: see the findings.
SegmentIndexesListed ==
    out = "shown" /\ cmd.name = "segment-index" =>
        \A r \in Objects(shown.rows) : \A k \in Key :
            LET x == store[k] IN
            Steady(k) /\ x.kind = "segindex" /\ x.of = r.obj.id /\ IndexAsked(x) => x \in r.parts

\* With a field to filter with (segment_index.go), only indexes on that field
\* are printed.
\* The code does not keep it: see the findings.
FieldFiltered ==
    out = "shown" /\ cmd.name = "segment-index" =>
        \A r \in Objects(shown.rows) : \A x \in r.parts : OnField(x)

\* The "Redundant Segments" and "Redundant Schemas" of wal-recovery-storage
\* (wal_recovery_storage.go) are printed.
\* The code does not keep it: see the findings.
RedundantShown ==
    out = "shown" /\ cmd.name = "wal-recovery-storage" =>
        Objects(Redundant) \subseteq Objects(shown.rows)
=============================================================================
