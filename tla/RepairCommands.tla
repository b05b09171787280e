--------------------------- MODULE RepairCommands ---------------------------
(***************************************************************************)
(* The `repair` and `set` commands, `verify-segment --fix` and             *)
(* `force-release`: commands that read metadata, decide what is wrong and  *)
(* write the store, one call at a time, while milvus changes the same      *)
(* store between any two calls. Any call may fail, and a failed change may *)
(* have reached the store. The commands of the instance itself go through  *)
(* the audit KV, which writes its file piece by piece around each change.  *)
(*                                                                         *)
(* A running command is a stack of calls still to make. After says, for    *)
(* each call and its outcome, which calls replace it: it is the code       *)
(* between two calls. mem holds what the command has read so far.          *)
(***************************************************************************)
EXTENDS MetaKV, FiniteSets

CONSTANTS
    Invocations,    \* commands with their parameters: [name, coll, arg, run]
    InitialStores,  \* the stores a behaviour may start from
    Changes,        \* what milvus may do to a key: [key, old, new]
    DroppedObjects, \* paths of log files that object storage has lost
    LastMessage,    \* the position of the last message of a pchannel
    Channel,        \* of a vchannel name: [pchannel, version, ids, parses]
    InfoFile,       \* the collection info file: id -> [db, name]
    MaxChanges,     \* bound: changes by milvus in a behaviour
    MaxFaults       \* bound: failing calls in a behaviour

CommandNames ==
    {"empty-segment", "mixed-binlogs", "verify-segment", "segment-part-dropping",
     "channel-watch", "checkpoint", "legacy-collection-remnant",
     "consistency-level", "collection-info", "index_metric_type",
     "diskann_index_params", "add_index_params", "wal-broadcast-task",
     "wal-recovery-storage", "manual-compaction", "channel", "field-attr",
     "config-etcd", "force-release"}

ASSUME InvocationsAssumption == \A c \in Invocations : c.name \in CommandNames

ASSUME StoresAssumption ==
    \A s \in InitialStores : s = [k \in Key |-> s[k]]

\* Keys are relative to the base path of the instance, where no directory has
\* one of the names that force-release --all removes.
QueryCoordNames == {"queryCoord-", "querycoord-"}
ASSUME QueryCoordAssumption == \A k \in Key : k[1] \notin QueryCoordNames

VARIABLES
    cmd,      \* the command of this behaviour
    todo,     \* calls still to make, the next one first
    mem,      \* what it has read: tag -> sequence of [key, obj]
    out,      \* "idle", "running", "done", "panic", "killed"
    opened,   \* the audit file could be opened
    audit,    \* the pieces written to it: [op, key, val]
    pend,     \* pieces of the last call that are still to be written
    announced,\* the header of the next save is written
    sent,     \* requests made to the coordinators
    changes, faults,
    (* history of the command *)
    ever,     \* the values each key has had since it began, but for those
              \* that it wrote itself
    made,     \* the changes it made: [key, old, new]
    unsure,   \* its changes whose answer was lost
    blind,    \* the objects whose logs or fields it failed to list
    misread,  \* a listing of it paired objects with the wrong keys
    skipped   \* keys whose record could not be written to the audit file

auditVars == <<opened, audit, pend, announced>>
cmdVars == <<cmd, todo, mem, out, sent>>
histVars == <<ever, made, unsure, blind, misread, skipped>>
vars == <<store, cmdVars, auditVars, changes, faults, histVars>>

-----------------------------------------------------------------------------
(* Calls. *)

Call(do, key, val, as) == [do |-> do, key |-> key, val |-> val, as |-> as]
List(prefix, as) == Call("list", prefix, Absent, as)
ListFor(prefix, s, as) == Call("list", prefix, s, as)
PutCall(key, val) == Call("save", key, val, "put")
RemoveCall(key, as) == Call("remove", key, Absent, as)

Rest == Tail(todo)

\* What follows a call: the calls to make next, what is remembered, and how
\* the command stands.
Go(calls, m) == [todo |-> calls, mem |-> m, out |-> "running"]
Return(m) == [todo |-> <<>>, mem |-> m, out |-> "done"]
Panic(m) == [todo |-> <<>>, mem |-> m, out |-> "panic"]

Remember(as, rows) == [mem EXCEPT ![as] = rows]

MapSeq(s, f(_)) == [i \in DOMAIN s |-> f(s[i])]
Objects(rows) == {rows[i].obj : i \in DOMAIN rows}

-----------------------------------------------------------------------------
(* Where things are. Listings by a prefix that does not end in a slash also *)
(* read the objects whose identifier goes on.                               *)

CollectionPrefixes ==
    <<<<"root-coord", "collection">>,
      <<"root-coord", "database", "collection-info">>>>
CollectionLists == MapSeq(CollectionPrefixes, LAMBDA p : List(p, "collections"))
FieldsPrefix(c) == <<"root-coord", "fields", c>>
SegmentPrefix == <<"datacoord-meta", "s", "">>
SegmentKey(s) == <<"datacoord-meta", "s", s.coll, s.part, s.id>>
LogPrefix(kind, s) == <<"datacoord-meta", kind, s.coll, s.part, s.id>>
BinlogKey(s, f) == Append(LogPrefix("binlog", s), f)
WatchPrefix == <<"channelwatch", "">>
CheckpointKey(ch) == <<"datacoord-meta", "channel-cp", ch>>
IndexPrefix == <<"field-index", "">>
IndexKey(x) == <<"field-index", x.coll, x.id>>
SessionPrefix == <<"session">>
BroadcastKey(id) == <<"streamingcoord-meta", "broadcast-task", id>>
PChannelPrefix == <<"streamingcoord-meta", "pchannel", "">>
RecoveryPrefix(p) == <<"streamingnode-meta", "wal", p, "">>
SchemaPrefix(p, v) == <<"streamingnode-meta", "wal", p, "vchannel", v, "schema">>
SnapshotFields(c) == <<"snapshots", "root-coord", "fields", c>>
HistoryPrefix(c) == <<"snapshots", "root-coord", "collection", c>>
BackupKey(k) == <<"repair">> \o k

\* GetCollectionByIDVersion: the first of the collections listed with this
\* identifier.
CollectionsOf(id) == Where(mem["collections"], LAMBDA m : m.obj.id = id)

-----------------------------------------------------------------------------
(* repair empty-segment. FillFieldsIfV2 stops at the first listing that     *)
(* fails, and its error is not looked at.                                   *)

Suspect(s) == s.state \in {"Flushed", "Flushing", "Sealed"}

FillCalls(s) ==
    <<ListFor(LogPrefix("binlog", s), s, "logs"),
      ListFor(LogPrefix("deltalog", s), s, "logs"),
      ListFor(LogPrefix("statslog", s), s, "logs-last")>>

RemoveSegmentCalls(s) ==
    <<RemoveCall(SegmentKey(s), "segment")>>
    \o MapSeq(<<"binlog", "deltalog", "statslog">>,
              LAMBDA kind : RemoveCall(LogPrefix(kind, s), "log"))

\* Mutant: only the last listing counts.
NoLogsLeft(rows) == Len(rows) <= 1

IsEmptySegment(rows) == \A i \in DOMAIN rows : rows[i].obj.files = 0

\* What is left when the other listings of the same segment are not made.
AfterFill(call) ==
    Where(Rest, LAMBDA k : k.do # "list" \/ k.val # call.val)

RemoveIfEmpty(call, rows, rest) ==
    IF cmd.run /\ IsEmptySegment(rows)
    THEN Go(RemoveSegmentCalls(call.val) \o rest, Remember("logs", <<>>))
    ELSE Go(rest, Remember("logs", <<>>))

EmptySegment(call, ok, rows) ==
    IF call.as = "segments" THEN
        IF ok THEN Go(Flatten(MapSeq(Where(rows, LAMBDA m : Suspect(m.obj)),
                                     LAMBDA m : FillCalls(m.obj))), mem)
        ELSE Return(mem)
    ELSE IF call.as = "logs" /\ ok THEN
        Go(Rest, Remember("logs", mem["logs"] \o rows))
    ELSE IF call.as \in {"logs", "logs-last"} THEN
        RemoveIfEmpty(call, mem["logs"] \o rows, AfterFill(call))
    ELSE IF call.as = "segment" /\ ~ok THEN
        Go(SubSeq(Rest, 4, Len(Rest)), mem)
    ELSE Go(Rest, mem)

-----------------------------------------------------------------------------
(* repair segment-part-dropping. *)

SegmentPartDrop(call, ok, rows) ==
    IF call.do = "list" /\ ~ok THEN Return(mem)
    ELSE IF call.as = "partitions" THEN
        Go(Rest, Remember("partitions", Where(rows, LAMBDA m :
               /\ cmd.arg \in {"", m.obj.id}
               /\ m.obj.state \in {"Dropping", "Dropped"})))
    ELSE IF call.as = "segments" THEN
        LET parts == {o.id : o \in Objects(mem["partitions"])}
            hit == Where(rows, LAMBDA m : /\ m.obj.state # "Dropped"
                                          /\ m.obj.part \in parts)
        IN Go(IF cmd.run
              THEN Flatten(MapSeq(hit, LAMBDA m : RemoveSegmentCalls(m.obj)))
              ELSE <<>>, mem)
    ELSE IF call.as = "segment" /\ ~ok THEN
        Go(SubSeq(Rest, 4, Len(Rest)), mem)
    ELSE Go(Rest, mem)

-----------------------------------------------------------------------------
(* repair mixed-binlogs: all the verdicts are reached before anything is    *)
(* written; then every key is loaded, saved under repair/ and removed. The  *)
(* three kinds of logs of a segment are listed once, when the first is      *)
(* asked for; if one of the listings fails the segment has no logs.         *)

LazyLoad(s) ==
    MapSeq(<<"binlog", "statslog", "deltalog">>,
           LAMBDA kind : ListFor(LogPrefix(kind, s), s, kind))

V1(rows) == {o.field : o \in {o \in Objects(rows) : o.child = {}}}
V2(rows) == UNION {o.child : o \in Objects(rows)}

\* The maps v1binlogs and v2binlogs hold the last log of a field.
LastOfField(rows, isV2) ==
    LET pick(o) == (o.child # {}) = isV2
        last(i) == \A j \in i + 1 .. Len(rows) :
                       rows[j].obj.field # rows[i].obj.field \/ ~pick(rows[j].obj)
        F[i \in 0 .. Len(rows)] ==
            IF i = 0 THEN <<>>
            ELSE IF pick(rows[i].obj) /\ last(i) THEN Append(F[i - 1], rows[i])
            ELSE F[i - 1]
    IN F[Len(rows)]

TargetBinlogs(rows, fields) ==
    IF fields = Cardinality(V2(rows))
    THEN LastOfField(rows, FALSE)
    ELSE IF fields = Cardinality(V1(rows))
    THEN LastOfField(rows, TRUE)
    ELSE <<>>

RemoveTargets ==
    MapSeq(mem["targets"], LAMBDA k : Call("load", k, Absent, "target"))

MixedBinlogs(call, ok, rows) ==
    IF call.as \in {"binlog", "statslog", "deltalog"} /\ ~ok THEN
        Go(AfterFill(call), mem)
    ELSE IF ~ok THEN Return(mem)
    ELSE IF call.as = "segments" THEN
        Go(Flatten(MapSeq(rows, LAMBDA m : LazyLoad(m.obj)))
           \o <<Call("local", <<>>, Absent, "decide")>>, mem)
    ELSE IF call.as = "binlog" THEN Go(Rest, Remember("binlogs", rows))
    ELSE IF call.as = "deltalog" THEN
        IF V1(mem["binlogs"]) \cap V2(mem["binlogs"]) = {} THEN Go(Rest, mem)
        ELSE Go(CollectionLists
                \o <<ListFor(FieldsPrefix(call.val.coll), call.val, "fields")>>
                \o Rest, Remember("collections", <<>>))
    ELSE IF call.as = "collections" THEN
        Go(Rest, Remember("collections", mem["collections"] \o rows))
    ELSE IF call.as = "fields" THEN
        LET targets == TargetBinlogs(mem["binlogs"], Len(rows)) IN
        IF CollectionsOf(call.val.coll) = <<>> \/ targets = <<>>
        THEN Return(mem)
        ELSE Go(Rest, Remember("targets", mem["targets"] \o
                    MapSeq(targets, LAMBDA m : BinlogKey(call.val, m.obj.field))))
    ELSE IF call.as = "decide" THEN
        Go(IF cmd.run THEN RemoveTargets ELSE <<>>, mem)
    ELSE IF call.as = "target" THEN
        Go(<<PutCall(BackupKey(call.key), rows[1].obj),
             RemoveCall(call.key, "binlog")>> \o Rest, mem)
    ELSE Go(Rest, mem)

-----------------------------------------------------------------------------
(* repair channel-watch: a collection that is not found is printed, then    *)
(* dereferenced, with or without --run. The fields are listed without a     *)
(* closing slash, and if the listing fails the collection has none.         *)

WatchTargets(rows) ==
    Where(rows, LAMBDA m : /\ cmd.coll \in {"", m.obj.coll}
                           /\ cmd.arg \in {"", m.obj.ch}
                           /\ m.obj.schema = Absent)

WriteChannelWatchInfo(m, schema) == PutCall(m.key, [m.obj EXCEPT !.schema = schema])

ChannelWatched(call, ok, rows) ==
    IF call.as = "watches" THEN
        IF ~ok THEN Return(mem)
        ELSE Go(Flatten(MapSeq(WatchTargets(rows), LAMBDA m :
                    <<ListFor(CollectionPrefixes[1], m, "collections-first"),
                      ListFor(CollectionPrefixes[2], m, "collections"),
                      ListFor(FieldsPrefix(m.obj.coll), m, "fields")>>)), mem)
    ELSE IF call.as = "collections-first" THEN
        IF ~ok THEN Panic(mem) ELSE Go(Rest, Remember("collections", rows))
    ELSE IF call.as = "collections" THEN
        LET found == {o \in Objects(mem["collections"] \o rows) :
                         o.id = call.val.obj.coll}
        IN IF ~ok \/ found = {} THEN Panic(mem) ELSE Go(Rest, mem)
    ELSE IF call.as = "fields" /\ cmd.run THEN
        Go(<<WriteChannelWatchInfo(call.val, Objects(rows))>> \o Rest, mem)
    ELSE Go(Rest, mem)

-----------------------------------------------------------------------------
(* repair checkpoint, which has a --run flag and does not look at it.       *)

HasPosition(s) ==
    s.state \in {"Flushed", "Growing", "Flushing"} /\ (s.dml # 0 \/ s.start # 0)
PositionOf(s) == IF s.dml # 0 THEN s.dml ELSE s.start

\* Mutant: the earliest position instead of the latest.
EarliestOnPChannel(p, rows) ==
    LET on == {o \in Objects(rows) :
                  HasPosition(o) /\ Channel[o.ch].pchannel = p}
    IN {o \in on : \A q \in on : PositionOf(q) >= PositionOf(o)}

LatestOnPChannel(p, rows) ==
    LET on == {o \in Objects(rows) :
                  HasPosition(o) /\ Channel[o.ch].pchannel = p}
    IN {o \in on : \A q \in on : PositionOf(q) <= PositionOf(o)}

CheckpointValue(ch, ts) == [kind |-> "checkpoint", ch |-> ch, ts |-> ts]

RepairCheckpoint(call, ok, rows) ==
    IF ~ok THEN Return(mem)
    ELSE IF call.as = "collections" THEN
        LET all == mem["collections"] \o rows
            mine == Where(all, LAMBDA m : m.obj.id = cmd.coll)
        IN IF Len(Rest) > 0 THEN Go(Rest, Remember("collections", all))
           ELSE IF mine = <<>> THEN Return(mem)
           ELSE IF cmd.arg = "latest-cp"
           THEN Go(<<List(SegmentPrefix, "segments")>>, Remember("collections", all))
           ELSE IF cmd.arg = "latest-msgid" /\ cmd.ch \in mine[1].obj.chs
           THEN Go(<<Call("mq", <<Channel[cmd.ch].pchannel>>, Absent, "last")>>,
                   Remember("collections", all))
           ELSE Return(mem)
    ELSE IF call.as = "segments" THEN
        LET latest == LatestOnPChannel(Channel[cmd.ch].pchannel, rows)
            s == CHOOSE s \in latest : TRUE
        IN IF cmd.ch \notin CollectionsOf(cmd.coll)[1].obj.chs \/ latest = {}
           THEN Return(mem)
           ELSE Go(<<PutCall(CheckpointKey(cmd.ch),
                             CheckpointValue(s.ch, PositionOf(s)))>>, mem)
    ELSE IF call.as = "last" THEN
        Go(<<PutCall(CheckpointKey(cmd.ch), LastMessage)>>, mem)
    ELSE Return(mem)

-----------------------------------------------------------------------------
(* repair collection-info: the channels of the collection are those whose   *)
(* name contains its identifier. A name that does not parse ends it;        *)
(* channels[version] is out of range, or an entry stays nil, when their     *)
(* versions are not 0 .. n - 1.                                             *)

ChannelsOf(rows) == Where(rows, LAMBDA m : cmd.coll \in Channel[m.obj.ch].ids)
ChannelNames(chs) == {o.ch : o \in Objects(chs)}
Versions(names) == {Channel[ch].version : ch \in names}

\* The channels that end the loop over them; the first one decides how.
Misfits(chs) ==
    {i \in DOMAIN chs : LET ch == Channel[chs[i].obj.ch] IN
                        ~ch.parses \/ ch.version \notin 0 .. Len(chs) - 1}
FirstMisfit(chs) ==
    CHOOSE i \in Misfits(chs) : \A j \in Misfits(chs) : i <= j

DatabaseOf ==
    IF cmd.arg = "file"
    THEN {o \in Objects(mem["databases"]) :
             cmd.coll \in DOMAIN InfoFile /\ o.name = InfoFile[cmd.coll]}
    ELSE {o \in Objects(mem["databases"]) : o.id = cmd.arg}

RepairedCollection(db, chs, dynamic) ==
    [kind |-> "collection", id |-> cmd.coll, db |-> db, level |-> "Bounded",
     chs |-> chs, fields |-> {}, dynamic |-> dynamic]

SaveInfo(chs, fields) ==
    LET db == (CHOOSE d \in DatabaseOf : TRUE).id IN
    IF DatabaseOf = {} THEN Return(mem)
    ELSE IF Versions(ChannelNames(chs)) # 0 .. Len(chs) - 1 THEN Panic(mem)
    ELSE IF ~cmd.run THEN Return(mem)
    ELSE Go(<<PutCall(CollectionPrefixes[2] \o <<db, cmd.coll>>,
                      RepairedCollection(db, ChannelNames(chs),
                          \E o \in Objects(fields) : o.dynamic))>>, mem)

CollectionInfo(call, ok, rows) ==
    LET chs == ChannelsOf(mem["checkpoints"]) IN
    IF ~ok \/ call.do = "save" THEN Return(mem)
    ELSE IF call.do = "list" /\ call.as # "fields" THEN
        Go(Rest, Remember(call.as, rows))
    ELSE IF call.do = "file" THEN SaveInfo(chs, mem["fields"])
    ELSE IF Misfits(chs) # {} THEN
        IF Channel[chs[FirstMisfit(chs)].obj.ch].parses THEN Panic(mem)
        ELSE Return(mem)
    ELSE IF cmd.arg = "file" THEN
        Go(<<Call("file", <<"info">>, Absent, "info")>>, Remember("fields", rows))
    ELSE SaveInfo(chs, rows)

-----------------------------------------------------------------------------
(* repair legacy-collection-remnant. The filter runs while the collections  *)
(* are listed, before their fields are filled in, so it sees none. The      *)
(* removals of the history ignore their errors.                             *)

Remnant(o) == o.db = "0" /\ o.fields = {} /\ cmd.coll \in {"", o.id}

CollectionLegacyDropped(call, ok, rows) ==
    LET drop == MapSeq(rows, LAMBDA m : RemoveCall(m.key, "history-key")) IN
    IF call.as = "collections" THEN
        LET all == mem["collections"] \o Where(rows, LAMBDA m : Remnant(m.obj)) IN
        IF ~ok THEN Return(mem)
        ELSE IF Rest # <<>> THEN Go(Rest, Remember("collections", all))
        ELSE IF all # <<>> THEN
            Go(IF cmd.run
               THEN MapSeq(all, LAMBDA m : Call("remove", m.key, m.obj, "remnant"))
               ELSE <<>>, mem)
        ELSE Go(IF cmd.coll = "" THEN <<>>
                ELSE <<List(HistoryPrefix(cmd.coll), "history-only")>>, mem)
    ELSE IF call.as = "remnant" THEN
        Go(IF ok THEN <<List(HistoryPrefix(call.val.id), "history")>> \o Rest
           ELSE Rest, mem)
    ELSE IF call.as = "history" THEN Go(drop \o Rest, mem)
    ELSE IF call.as = "history-only" THEN
        Go(IF cmd.run THEN drop ELSE <<>>, mem)
    ELSE Go(Rest, mem)

-----------------------------------------------------------------------------
(* The three repairs of index parameters. Each writes back the whole index  *)
(* it listed, with other parameters, and stops at the first error.          *)

MetricIn(params) == {p \in params : p.k = "metric_type" /\ p.v # ""}
WithoutEmptyMetric(params) ==
    {p \in params : p.k # "metric_type" \/ p.v # ""}
IndexType(x) == {p.v : p \in {p \in x.params : p.k = "index_type"}}

\* One name of each table stands for the others.
KnownParams(type) ==
    {"index_type", "metric_type", "retrieve_friendly"}
    \cup (IF type = {"HNSW"} THEN {"M"} ELSE {"max_degree"})
Unnecessary(x) == {p \in x.params : p.k \notin KnownParams(IndexType(x))}
Repairable(x) == IndexType(x) \in {{"HNSW"}, {"DISKANN"}}

IndexMetric(x) ==
    [x EXCEPT !.params = WithoutEmptyMetric(@) \cup MetricIn(x.typeParams)]
DiskAnnIndexParams(x) == [x EXCEPT !.params = @ \ Unnecessary(x)]
AddIndexParam(x) ==
    [x EXCEPT !.params = @ \cup {[k |-> cmd.arg, v |-> "true"]}]

WriteRepairedIndex(x) == PutCall(IndexKey(x), x)

\* index_metric_type has no --run; an index with no metric anywhere ends it.
IndexMetricWrites(rows) ==
    LET bad == Where(rows, LAMBDA m : m.obj.coll = cmd.coll
                                      /\ MetricIn(m.obj.params) = {})
        hopeless == {i \in DOMAIN bad : MetricIn(bad[i].obj.typeParams) = {}}
        upto == {i \in DOMAIN bad : \A j \in hopeless : i < j}
    IN MapSeq(SubSeq(bad, 1, Cardinality(upto)),
              LAMBDA m : WriteRepairedIndex(IndexMetric(m.obj)))

IndexWrites(rows) ==
    LET mine == Where(rows, LAMBDA m : /\ cmd.coll \in {"", m.obj.coll}
                                       /\ Repairable(m.obj))
    IN IF cmd.name = "index_metric_type" THEN IndexMetricWrites(rows)
       ELSE IF ~cmd.run THEN <<>>
       ELSE IF cmd.name = "diskann_index_params" THEN
           MapSeq(Where(mine, LAMBDA m : Unnecessary(m.obj) # {}),
                  LAMBDA m : WriteRepairedIndex(DiskAnnIndexParams(m.obj)))
       ELSE MapSeq(Where(mine, LAMBDA m :
                            ~\E p \in m.obj.params : p.k = cmd.arg),
                   LAMBDA m : WriteRepairedIndex(AddIndexParam(m.obj)))

IndexRepair(call, ok, rows) ==
    IF ~ok THEN Return(mem)
    ELSE IF call.as = "indexes" THEN Go(IndexWrites(rows), mem)
    ELSE Go(Rest, mem)

-----------------------------------------------------------------------------
(* repair wal-broadcast-task takes the first task whose identifier begins   *)
(* with the given one, and removes by a prefix that no task is under.       *)

ResetTask(o) == [o EXCEPT !.state = "pending", !.acked = 0]

WALBroadcastTask(call, ok, rows) ==
    IF ~ok \/ call.as # "tasks" \/ rows = <<>> \/ ~cmd.run THEN Return(mem)
    ELSE IF cmd.arg = "reset" THEN
        Go(<<PutCall(BroadcastKey(cmd.coll), ResetTask(rows[1].obj))>>, mem)
    ELSE Go(<<Call("remove-prefix", BroadcastKey(cmd.coll), Absent, "task")>>, mem)

-----------------------------------------------------------------------------
(* repair wal-recovery-storage: the vchannels with no schema get the one of *)
(* their collection. The schemas of a vchannel are looked for before one is *)
(* saved, which is not one step.                                            *)

VChannelRows(rows) == Where(rows, LAMBDA m : Len(m.key) = 5)
HasSchema(ch, rows) ==
    \E i \in DOMAIN rows : Len(rows[i].key) = 7 /\ rows[i].key[5] = ch
NeedFix(rows) == Where(VChannelRows(rows), LAMBDA m : ~HasSchema(m.obj.ch, rows))

SchemaValue(fields) == [kind |-> "schema", fields |-> fields]

WALRecoveryStorage(call, ok, rows) ==
    IF ~ok /\ call.as # "fields" THEN Return(mem)
    ELSE IF call.as = "pchannels" THEN
        Go(Flatten(MapSeq(rows, LAMBDA m :
               <<List(<<"streamingcoord-meta", "pchannel", m.obj.name>>, "pchannel"),
                 List(RecoveryPrefix(m.obj.name), "recovery")>>))
           \o <<Call("local", <<>>, Absent, "decide")>>, mem)
    ELSE IF call.as = "pchannel" THEN
        IF rows = <<>> THEN Return(mem) ELSE Go(Rest, mem)
    ELSE IF call.as = "recovery" THEN
        Go(Rest, Remember("targets", mem["targets"] \o NeedFix(rows)))
    ELSE IF call.as = "decide" THEN
        Go(IF mem["targets"] = <<>> THEN <<>>
           ELSE CollectionLists
                \o MapSeq(mem["targets"], LAMBDA m :
                              List(FieldsPrefix(m.obj.coll), "fields"))
                \o <<Call("local", <<>>, Absent, "match")>>, mem)
    ELSE IF call.as = "collections" THEN
        Go(Rest, Remember("collections", mem["collections"] \o rows))
    ELSE IF call.as = "match" THEN
        IF (\E i \in DOMAIN mem["targets"] :
               CollectionsOf(mem["targets"][i].obj.coll) = <<>>) \/ ~cmd.run
        THEN Return(mem)
        ELSE Go([i \in DOMAIN mem["targets"] |->
                    LET ch == mem["targets"][i].obj.ch IN
                    ListFor(SchemaPrefix(Channel[ch].pchannel, ch),
                            Objects(mem["fields"][i]), "schemas")], mem)
    ELSE IF call.as = "fields" THEN
        Go(Rest, Remember("fields", Append(mem["fields"], rows)))
    ELSE IF call.as = "schemas" THEN
        IF rows # <<>> THEN Return(mem)
        ELSE Go(<<PutCall(Append(call.key, "0"),
                          SchemaValue(call.val))>> \o Rest, mem)
    ELSE Go(Rest, mem)

-----------------------------------------------------------------------------
(* repair manual-compaction and repair channel ask the data coordinators.   *)

DataCoords(rows) ==
    MapSeq(Where(rows, LAMBDA m : m.obj.server = "datacoord"),
           LAMBDA m : Call("rpc", <<m.obj.address>>, Absent, "rpc"))

ManualCompaction(call, ok, rows) ==
    IF call.as = "sessions" /\ ok THEN Go(SubSeq(DataCoords(rows), 1, 1), mem)
    ELSE Return(mem)

RepairChannel(call, ok, rows) ==
    IF ~ok THEN Return(mem)
    ELSE IF call.as = "collections" THEN
        LET all == mem["collections"] \o rows IN
        IF Len(Rest) > 1 THEN Go(Rest, Remember("collections", all))
        ELSE IF Where(all, LAMBDA m : m.obj.id = cmd.coll) = <<>> THEN Return(mem)
        ELSE Go(Rest, Remember("collections", all))
    ELSE IF call.as = "watches" THEN
        LET orphans == CollectionsOf(cmd.coll)[1].obj.chs
                       \ {o.ch : o \in Objects(rows)}
        IN Go(IF orphans # {} /\ cmd.run
              THEN <<List(SessionPrefix, "sessions")>> ELSE <<>>, mem)
    ELSE IF call.as = "sessions" THEN Go(DataCoords(rows), mem)
    ELSE Go(Rest, mem)

-----------------------------------------------------------------------------
(* set collection consistency-level, set field-attr, set config-etcd.       *)

\* UpdateCollection, whose dryRun flag means the opposite.
UpdateCollection(call, rows) ==
    IF rows[1].obj = Tombstone \/ ~cmd.run THEN Return(mem)
    ELSE Go(<<PutCall(call.key, [rows[1].obj EXCEPT !.level = cmd.arg])>>, mem)

CollectionConsistencyLevel(call, ok, rows) ==
    IF ~ok THEN Return(mem)
    ELSE IF call.as = "collections" THEN
        LET all == mem["collections"] \o rows
            mine == Where(all, LAMBDA m : m.obj.id = cmd.coll)
        IN IF Rest # <<>> THEN Go(Rest, Remember("collections", all))
           ELSE IF mine = <<>> THEN Return(mem)
           ELSE IF mine[1].obj.level = cmd.arg THEN Return(mem)
           ELSE Go(<<Call("load", mine[1].key, Absent, "collection")>>, mem)
    ELSE IF call.as = "collection" THEN UpdateCollection(call, rows)
    ELSE Return(mem)

\* UpdateField: the newest snapshot of the field, then its current value if
\* there is one.
NewestField(rows) ==
    LET mine == {i \in DOMAIN rows : rows[i].obj.id = cmd.arg}
    IN {i \in mine : \A j \in mine : rows[j].obj.ts <= rows[i].obj.ts}
\* The flags that are not given are false and written too.
Altered(o) == [o EXCEPT !.nullable = TRUE, !.cluster = FALSE]

FieldAttrCalls(c) ==
    IF c.coll = "" \/ c.arg = "" THEN <<>>
    ELSE <<List(SnapshotFields(c.coll), "snapshots")>>

FieldAttr(call, ok, rows) ==
    IF ~ok THEN Return(mem)
    ELSE IF call.as = "snapshots" THEN
        IF NewestField(rows) = {} \/ ~cmd.run THEN Return(mem)
        ELSE LET m == rows[CHOOSE i \in NewestField(rows) : TRUE] IN
             Go(<<PutCall(m.key, Altered(m.obj)),
                  Call("load", Append(FieldsPrefix(cmd.coll), cmd.arg),
                       Altered(m.obj), "cached")>>, mem)
    ELSE IF call.as = "cached" THEN Go(<<PutCall(call.key, call.val)>>, mem)
    ELSE Go(Rest, mem)

ConfigValue == [kind |-> "config", v |-> "on"]
EtcdConfig(c) ==
    IF c.arg = "" THEN <<>> ELSE <<PutCall(<<"config", c.arg>>, ConfigValue)>>

-----------------------------------------------------------------------------
(* The commands of the instance, on the audited store. FileAuditKV loads a  *)
(* key before it removes it and gives up if that fails; without an audit    *)
(* file the store is used as it is.                                         *)

Removal(key) ==
    IF opened THEN Call("load", key, Absent, "to-remove")
    ELSE RemoveCall(key, "removed")

\* The rest of FileAuditKV.Remove, in front of what follows it.
Loaded(call, rows) == <<Call("remove", call.key, rows[1].obj, "removed")>> \o Rest

\* verify-segment --fix: for every log file that object storage has lost, a
\* path is removed. No metadata is kept under such a path.
ObjectPath(kind, s, o) ==
    LET dir == [binlog |-> "insert_log", statslog |-> "stats_log",
                deltalog |-> "delta_log"][kind]
    IN <<"datacoord-meta", dir, s.coll, s.part, s.id>>
       \o (IF kind = "deltalog" THEN <<"log">> ELSE <<o.field, "log">>)

LostPaths(kind, s, rows) ==
    MapSeq(Where(rows, LAMBDA m : cmd.run /\ m.obj.files > 0
                     /\ <<s.id, kind>> \in DroppedObjects),
           LAMBDA m : Removal(ObjectPath(kind, s, m.obj)))

VerifySegment(call, ok, rows) ==
    IF call.as \in {"segments", "minio"} /\ ~ok THEN Return(mem)
    ELSE IF call.as = "segments" THEN
        Go(<<Call("minio", <<"minio">>, Absent, "minio")>>
           \o Flatten(MapSeq(Where(rows, LAMBDA m : m.obj.coll = cmd.coll
                                        /\ m.obj.state = "Flushed"),
                             LAMBDA m : LazyLoad(m.obj))), mem)
    ELSE IF call.do = "list" /\ ~ok THEN Go(AfterFill(call), mem)
    ELSE IF call.as = "binlog" THEN Go(Rest, Remember("binlogs", rows))
    ELSE IF call.as = "statslog" THEN Go(Rest, Remember("statslogs", rows))
    ELSE IF call.as = "deltalog" THEN
        Go(LostPaths("binlog", call.val, mem["binlogs"])
           \o LostPaths("statslog", call.val, mem["statslogs"])
           \o LostPaths("deltalog", call.val, rows) \o Rest, mem)
    ELSE IF call.do = "load" /\ ok THEN Go(Loaded(call, rows), mem)
    ELSE Go(Rest, mem)

\* force-release, which has no --run: the load information of a collection
\* and of its partitions, or with --all two prefixes that no key is under: the
\* base path is missing in front of them, and a slash is put behind them.
LoadInfoPrefixes == <<<<"querycoord-collection-loadinfo">>,
                      <<"querycoord-partition-loadinfo">>>>

ReleaseAll ==
    MapSeq(<<"queryCoord-", "querycoord-">>, LAMBDA name :
        Call(IF opened THEN "list" ELSE "remove-prefix", <<name>>, Absent, "all"))

ForceReleaseCalls(c) ==
    IF c.arg = "all" THEN ReleaseAll
    ELSE <<List(LoadInfoPrefixes[1], "loaded"), List(LoadInfoPrefixes[2], "partitions")>>

ForceRelease(call, ok, rows) ==
    LET mine == Where(rows, LAMBDA m : m.obj.coll = cmd.coll) IN
    IF call.as \in {"loaded", "partitions"} /\ ~ok THEN Return(mem)
    ELSE IF call.as = "loaded" THEN Go(Rest, Remember("loaded", mine))
    ELSE IF call.as = "partitions" THEN
        Go(MapSeq(mem["loaded"] \o mine, LAMBDA m : Removal(m.key)), mem)
    ELSE IF call.do = "load" /\ ok THEN Go(Loaded(call, rows), mem)
    ELSE IF call.as = "all" /\ call.do = "list" /\ ok THEN
        Go(<<Call("remove-prefix", call.key, Absent, "all")>> \o Rest, mem)
    ELSE Go(Rest, mem)

-----------------------------------------------------------------------------
(* Running a command. *)

FirstCalls(c) ==
    CASE c.name \in {"empty-segment", "mixed-binlogs", "verify-segment"} ->
             <<List(SegmentPrefix, "segments")>>
      [] c.name = "segment-part-dropping" ->
             IF c.coll = "" THEN <<>>
             ELSE <<List(<<"root-coord", "partitions", c.coll, "">>, "partitions"),
                    List(SegmentPrefix, "segments")>>
      [] c.name = "channel-watch" -> <<List(WatchPrefix, "watches")>>
      [] c.name \in {"checkpoint", "legacy-collection-remnant",
                     "consistency-level"} -> CollectionLists
      [] c.name = "collection-info" ->
             <<List(<<"root-coord", "database", "db-info", "">>, "databases"),
               List(<<"datacoord-meta", "channel-cp">>, "checkpoints"),
               List(FieldsPrefix(c.coll), "fields")>>
      [] c.name \in {"index_metric_type", "diskann_index_params",
                     "add_index_params"} -> <<List(IndexPrefix, "indexes")>>
      [] c.name = "wal-broadcast-task" -> <<List(BroadcastKey(c.coll), "tasks")>>
      [] c.name = "wal-recovery-storage" -> <<List(PChannelPrefix, "pchannels")>>
      [] c.name = "manual-compaction" ->
             IF c.coll = "" THEN <<>> ELSE <<List(SessionPrefix, "sessions")>>
      [] c.name = "channel" ->
             IF c.coll = "" THEN <<>>
             ELSE Append(CollectionLists, List(WatchPrefix, "watches"))
      [] c.name = "field-attr" -> FieldAttrCalls(c)
      [] c.name = "config-etcd" -> EtcdConfig(c)
      [] c.name = "force-release" -> ForceReleaseCalls(c)

After(call, ok, rows) ==
    CASE cmd.name = "empty-segment" -> EmptySegment(call, ok, rows)
      [] cmd.name = "mixed-binlogs" -> MixedBinlogs(call, ok, rows)
      [] cmd.name = "verify-segment" -> VerifySegment(call, ok, rows)
      [] cmd.name = "segment-part-dropping" -> SegmentPartDrop(call, ok, rows)
      [] cmd.name = "channel-watch" -> ChannelWatched(call, ok, rows)
      [] cmd.name = "checkpoint" -> RepairCheckpoint(call, ok, rows)
      [] cmd.name = "legacy-collection-remnant" ->
             CollectionLegacyDropped(call, ok, rows)
      [] cmd.name = "consistency-level" -> CollectionConsistencyLevel(call, ok, rows)
      [] cmd.name = "collection-info" -> CollectionInfo(call, ok, rows)
      [] cmd.name \in {"index_metric_type", "diskann_index_params",
                       "add_index_params"} -> IndexRepair(call, ok, rows)
      [] cmd.name = "wal-broadcast-task" -> WALBroadcastTask(call, ok, rows)
      [] cmd.name = "wal-recovery-storage" -> WALRecoveryStorage(call, ok, rows)
      [] cmd.name = "manual-compaction" -> ManualCompaction(call, ok, rows)
      [] cmd.name = "channel" -> RepairChannel(call, ok, rows)
      [] cmd.name = "field-attr" -> FieldAttr(call, ok, rows)
      [] cmd.name = "config-etcd" -> Return(mem)
      [] cmd.name = "force-release" -> ForceRelease(call, ok, rows)

\* The commands built on the audited store; the others hold the raw one.
Audited == cmd.name \in {"index_metric_type", "diskann_index_params",
                         "config-etcd", "verify-segment", "force-release"}
FileAudited == Audited /\ opened

Writes == {"save", "remove", "remove-prefix"}

\* A piece of the audit file is written by two writes, of its length and of
\* its bytes: a header, or the key and the value of a change.
Header(op) == [op |-> op, key |-> <<>>, val |-> Absent]
Record(call) == [op |-> "kv", key |-> call.key, val |-> call.val]

\* Mutant: the change of a save is not logged.
HeadersOfSaves(call, ok) ==
    IF ~FileAudited \/ call.do \notin Writes THEN <<>>
    ELSE IF call.do = "save" THEN <<Header("before"), Header("after")>>
    ELSE IF ok /\ call.do = "remove" THEN <<Header("delete"), Record(call)>>
    ELSE <<>>

\* What FileAuditKV writes after the call: Save the new value, under the
\* header "before", and Remove the value it had loaded. The prefixes of
\* RemoveWithPrefix had nothing under them when they were listed.
Pieces(call, ok) ==
    IF ~FileAudited \/ call.do \notin Writes THEN <<>>
    ELSE IF call.do = "save" THEN
        IF ok THEN <<Header("before"), Record(call), Header("after")>>
        ELSE <<Header("after")>>
    ELSE IF ~ok THEN <<>>
    ELSE IF call.do = "remove" THEN <<Header("delete"), Record(call)>>
    ELSE <<Header("delete")>>

Applied(call) ==
    IF call.do = "save" THEN Save(store, call.key, call.val)
    ELSE IF call.do = "remove" THEN Remove(store, call.key)
    ELSE RemoveWithPrefix(store, call.key)

Difference(s, t) ==
    {[key |-> k, old |-> s[k], new |-> t[k]] : k \in {k \in Key : s[k] # t[k]}}

NoCommand == [name |-> "", coll |-> "", arg |-> "", ch |-> "", run |-> FALSE]
Tags == {"collections", "logs", "partitions", "binlogs", "targets", "databases",
         "checkpoints", "fields", "statslogs", "loaded"}

Init ==
    /\ store \in InitialStores
    /\ cmd = NoCommand /\ todo = <<>> /\ mem = [t \in Tags |-> <<>>]
    /\ out = "idle" /\ sent = {}
    /\ opened \in BOOLEAN /\ audit = <<>> /\ pend = <<>> /\ announced = FALSE
    /\ changes = 0 /\ faults = 0
    /\ ever = [k \in Key |-> {}] /\ made = {} /\ unsure = {}
    /\ blind = {} /\ misread = FALSE /\ skipped = {}

Begin(c) ==
    /\ out = "idle"
    /\ cmd' = c /\ todo' = FirstCalls(c)
    /\ out' = IF FirstCalls(c) = <<>> THEN "done" ELSE "running"
    /\ ever' = [k \in Key |-> {store[k]}]
    /\ UNCHANGED <<store, mem, sent, auditVars, changes, faults, made, unsure,
                   blind, misread, skipped>>

\* The next call is one of these kinds, and it is its turn: the file has the
\* pieces of the last call, and the first header of this one if it is a save.
Calling(kinds) ==
    /\ out = "running" /\ pend = <<>>
    /\ Head(todo).do \in kinds
    /\ FileAudited /\ Head(todo).do = "save" => announced

\* The command goes on as After says, once the audit file is written.
Proceed(call, ok, rows) ==
    LET next == After(call, ok, rows) IN
    /\ todo' = next.todo /\ mem' = next.mem
    /\ out' = IF next.todo = <<>> /\ next.out = "running" THEN "done" ELSE next.out
    /\ pend' = Pieces(call, ok) /\ announced' = FALSE
    /\ UNCHANGED <<cmd, opened, audit, skipped>>

ReadList ==
    /\ Calling({"list"})
    /\ Proceed(Head(todo), TRUE, ListObj2Models(Head(todo).key))
    /\ misread' = (misread \/ Skips(Head(todo).key))
    /\ UNCHANGED <<store, sent, changes, faults, ever, made, unsure, blind>>

LoadKey ==
    /\ Calling({"load"})
    /\ LET k == Head(todo).key IN
       IF Load(k) = Absent THEN Proceed(Head(todo), FALSE, <<>>)
       ELSE Proceed(Head(todo), TRUE, <<[key |-> k, obj |-> Load(k)]>>)
    /\ UNCHANGED <<store, sent, changes, faults, ever, made, unsure, blind, misread>>

WriteStore ==
    /\ Calling(Writes)
    /\ store' = Applied(Head(todo))
    /\ made' = made \cup Difference(store, store')
    /\ Proceed(Head(todo), TRUE, <<>>)
    /\ UNCHANGED <<sent, changes, faults, ever, unsure, blind, misread>>

\* A request to a coordinator, to the queue or to object storage, a file read.
Outside == {"rpc", "mq", "minio", "file"}

AskNode ==
    /\ Calling(Outside)
    /\ sent' = sent \cup {Head(todo).key}
    /\ Proceed(Head(todo), TRUE, <<>>)
    /\ UNCHANGED <<store, changes, faults, ever, made, unsure, blind, misread>>

Compute ==
    /\ Calling({"local"})
    /\ Proceed(Head(todo), TRUE, <<>>)
    /\ UNCHANGED <<store, sent, changes, faults, ever, made, unsure, blind, misread>>

CallFails(reached) ==
    /\ Calling(Writes \cup Outside \cup {"list", "load"})
    /\ faults < MaxFaults /\ faults' = faults + 1
    /\ reached => Head(todo).do \in Writes
    /\ store' = IF reached THEN Applied(Head(todo)) ELSE store
    /\ made' = made \cup Difference(store, store')
    /\ unsure' = unsure \cup Difference(store, store')
    /\ blind' = IF Head(todo).as \in {"logs", "logs-last", "fields"}
                THEN blind \cup {Head(todo).val} ELSE blind
    /\ Proceed(Head(todo), FALSE, <<>>)
    /\ UNCHANGED <<sent, changes, ever, misread>>

-----------------------------------------------------------------------------
(* Writing the audit file. Its errors are printed and nothing else.         *)

AnnounceSave ==
    /\ FileAudited /\ out = "running" /\ pend = <<>> /\ ~announced
    /\ Head(todo).do = "save"
    /\ pend' = <<Header("put")>> /\ announced' = TRUE
    /\ UNCHANGED <<store, cmdVars, opened, audit, changes, faults, histVars>>

WritePiece ==
    /\ out # "killed" /\ pend # <<>>
    /\ audit' = Append(audit, Head(pend)) /\ pend' = Tail(pend)
    /\ UNCHANGED <<store, cmdVars, opened, announced, changes, faults, histVars>>

\* The length is not written, or it is and the bytes behind it are not.
WritePieceFails(torn) ==
    /\ out # "killed" /\ pend # <<>>
    /\ faults < MaxFaults /\ faults' = faults + 1
    /\ audit' = IF torn THEN Append(audit, Header("torn")) ELSE audit
    /\ pend' = Tail(pend)
    /\ skipped' = IF Head(pend).op = "kv" THEN skipped \cup {Head(pend).key}
                  ELSE skipped
    /\ UNCHANGED <<store, cmdVars, opened, announced, changes, ever, made, unsure,
                   blind, misread>>

\* The process is killed between any two of these steps.
Kill ==
    /\ FileAudited /\ out \notin {"idle", "killed"}
    /\ out = "running" \/ pend # <<>>
    /\ out' = "killed"
    /\ UNCHANGED <<store, cmd, todo, mem, sent, auditVars, changes, faults, histVars>>

\* Milvus creates, changes or deletes metadata.
MilvusStep ==
    /\ out = "running" /\ changes < MaxChanges
    /\ \E c \in Changes :
           /\ store[c.key] = c.old
           /\ store' = [store EXCEPT ![c.key] = c.new]
           /\ ever' = [ever EXCEPT ![c.key] = @ \cup {c.new}]
    /\ changes' = changes + 1
    /\ UNCHANGED <<cmdVars, auditVars, faults, made, unsure, blind, misread, skipped>>

Next ==
    \/ \E c \in Invocations : Begin(c)
    \/ ReadList \/ LoadKey \/ WriteStore \/ AskNode \/ Compute
    \/ \E reached \in BOOLEAN : CallFails(reached)
    \/ AnnounceSave \/ WritePiece \/ Kill
    \/ \E torn \in BOOLEAN : WritePieceFails(torn)
    \/ MilvusStep

Spec == Init /\ [][Next]_vars

-----------------------------------------------------------------------------
(* Properties. Those that are about objects the command read use ever, the  *)
(* values milvus gave a key while it ran: nothing holds the store still     *)
(* meanwhile.                                                               *)

Had(k) == ever[k] \ {Absent, Tombstone}

\* Commands that write whatever --run says, or have no such flag.
IgnoresRun == {"checkpoint", "index_metric_type", "config-etcd", "force-release"}

RepairOf(o) ==
    CASE cmd.name = "index_metric_type" -> {IndexMetric(o)}
      [] cmd.name = "diskann_index_params" -> {DiskAnnIndexParams(o)}
      [] cmd.name = "add_index_params" -> {AddIndexParam(o)}
      [] cmd.name = "consistency-level" ->
             IF o.id = cmd.coll \/ misread
             THEN {[o EXCEPT !.level = cmd.arg]} ELSE {}
      [] cmd.name = "field-attr" -> {Altered(o)}

\* The values of the keys under a prefix, and those that never changed.
HadUnder(p) == UNION {Had(k) : k \in {k \in Key : HasPrefix(k, p)}}
SteadyUnder(p) ==
    UNION {Had(k) : k \in {k \in Key : HasPrefix(k, p) /\ Cardinality(ever[k]) = 1}}

\* The fields of the collection that stayed as they were are all there, if
\* they could be listed; the listing also takes those of the collections
\* whose identifier goes on.
SchemaIsRead(c) ==
    /\ c.new.schema \subseteq HadUnder(FieldsPrefix(c.new.coll))
    /\ \/ SteadyUnder(Slashed(FieldsPrefix(c.new.coll))) \subseteq c.new.schema
       \/ \E m \in blind : m.key = c.key

\* A position that the command may have found: no segment that stayed as it
\* was is ahead of it on the same pchannel.
LatestPosition(v) ==
    LET p == Channel[cmd.ch].pchannel
        on(o) == HasPosition(o) /\ Channel[o.ch].pchannel = p
        segments == {k \in Key : HasPrefix(k, SegmentPrefix)}
    IN /\ \E k \in segments : \E o \in Had(k) : on(o) /\ PositionOf(o) = v.ts
       /\ \A k \in segments : \A o \in Had(k) :
             ever[k] = {o} /\ on(o) => PositionOf(o) <= v.ts

WriteIsRepair(c) ==
    CASE cmd.name \in {"index_metric_type", "diskann_index_params",
                       "add_index_params", "consistency-level"} ->
             \E o \in Had(c.key) : c.new \in RepairOf(o)
      [] cmd.name = "channel-watch" ->
             /\ \E o \in Had(c.key) : o.schema = Absent
                                     /\ c.new = [o EXCEPT !.schema = c.new.schema]
             /\ SchemaIsRead(c)
      [] cmd.name = "field-attr" ->
             \E k \in Key : /\ HasPrefix(k, SnapshotFields(cmd.coll))
                            /\ \E o \in Had(k) : c.new = Altered(o)
      [] cmd.name = "checkpoint" ->
             /\ c.key = CheckpointKey(cmd.ch)
             /\ cmd.arg = "latest-cp" => LatestPosition(c.new)
      [] cmd.name = "wal-broadcast-task" ->
             /\ c.key = BroadcastKey(cmd.coll)
             /\ \/ \E o \in Had(c.key) : c.new = ResetTask(o)
                \/ /\ Absent \in ever[c.key]
                   /\ \E o \in HadUnder(c.key) : c.new = ResetTask(o)
      [] cmd.name = "wal-recovery-storage" ->
             \A k \in Key : HasPrefix(k, SubSeq(c.key, 1, 6)) => Absent \in ever[k]
      [] cmd.name = "mixed-binlogs" ->
             /\ c.key[1] = "repair"
             /\ c.new \in ever[Tail(c.key)]
      [] cmd.name = "collection-info" ->
             /\ c.new.id = cmd.coll
             /\ c.new.chs \subseteq DOMAIN Channel
             /\ Versions(c.new.chs) = 0 .. Cardinality(c.new.chs) - 1
      [] cmd.name = "config-etcd" -> c.key[1] = "config"
      [] OTHER -> FALSE

\* What a command writes is the repair of a value that the key itself had
\* while the command ran, or of the object the command was pointed at, with
\* three exceptions of the code: a tombstone in a listing shifts the keys of
\* consistency-level; a reset of a broadcast task that is not there takes the
\* task whose identifier goes on (ResetsOwnTask); the schema that
\* channel-watch writes has fields of other collections, or none if they could
\* not be listed (WatchSchemaOwn). Without --run nothing is written.
WritesAreRepairs ==
    \A c \in made :
        c.new # Absent => /\ cmd.run \/ cmd.name \in IgnoresRun
                          /\ WriteIsRepair(c)

\* A reset of a broadcast task writes the task itself, reset: the lookup is
\* "by broadcast ID" (wal_broadcast.go).
\* The code does not keep it: see the findings.
ResetsOwnTask ==
    cmd.name = "wal-broadcast-task" =>
        \A c \in made : \E o \in Had(c.key) : c.new = ResetTask(o)

\* The schema that channel-watch writes to a watch info is the one of its
\* collection: every field that stayed as it was and no field of another.
\* The code does not keep it: see the findings.
WatchSchemaOwn ==
    cmd.name = "channel-watch" =>
        \A c \in made :
            LET own == Slashed(FieldsPrefix(c.new.coll)) IN
            /\ c.new.schema \subseteq HadUnder(own)
            /\ SteadyUnder(own) \subseteq c.new.schema

\* force-release --all leaves no load information of the query coordinator
\* that was there when it began.
\* The code does not keep it: see the findings.
ReleaseAllReleases ==
    cmd.name = "force-release" /\ cmd.arg = "all" /\ out = "done" /\ faults = 0 =>
        \A k \in Key : k[1] \in {p[1] : p \in Elements(LoadInfoPrefixes)} =>
                          store[k] = Absent

LogKeys(s) == {k \in Key : \E kind \in {"binlog", "deltalog", "statslog"} :
                              HasPrefix(k, LogPrefix(kind, s))}

\* Every log of the segment was absent or had no file at some moment.
WasEmpty(s) ==
    \A k \in LogKeys(s) : \E o \in ever[k] : o = Absent \/ o.files = 0

\* What empty-segment removes ("Remove empty segment from meta",
\* segment_empty.go) was empty, whatever calls of it failed.
\* The code does not keep it: see the findings.
EmptySegmentsOnly ==
    cmd.name = "empty-segment" => \A c \in made : WasEmpty(c.old)

\* The fields that some log of the segment still holds.
CoveredFields(s) ==
    UNION {LET o == store[k] IN IF o.child = {} THEN {o.field} ELSE o.child :
             k \in {k \in LogKeys(s) : store[k] # Absent}}

FieldIds(coll) ==
    {store[k].id : k \in {k \in Key : /\ HasPrefix(k, FieldsPrefix(coll) \o <<"">>)
                                     /\ store[k] # Absent}}

\* A repair that removes metadata had a reason that held while it ran.
\* empty-segment: the segment was empty, unless a listing of its logs failed,
\* whose error the code drops (EmptySegmentsOnly).
\* segment-part-dropping: the partition was seen dropping. The legacy remnant
\* was outside any database, unless a tombstone shifted the keys. What
\* force-release removes is load information of the collection. A binlog
\* taken by mixed-binlogs is saved under repair/, with a value it had, and if
\* milvus stood still every field is still in some log of the segment.
RemovalsAreJustified ==
    \A c \in made : c.new = Absent =>
        /\ cmd.run \/ cmd.name \in IgnoresRun
        /\ CASE cmd.name = "empty-segment" ->
                    c.old \in blind \/ WasEmpty(c.old)
             [] cmd.name = "segment-part-dropping" ->
                    \E k \in Key : \E o \in Had(k) :
                        /\ HasPrefix(k, <<"root-coord", "partitions", cmd.coll, "">>)
                        /\ o.id = c.old.part /\ o.state \in {"Dropping", "Dropped"}
             [] cmd.name = "legacy-collection-remnant" ->
                    \/ misread
                    \/ \E o \in Had(c.key) : Remnant(o)
             [] cmd.name = "force-release" ->
                    \E o \in Had(c.key) : o.kind = "loaded" /\ o.coll = cmd.coll
             [] cmd.name = "mixed-binlogs" ->
                    /\ store[BackupKey(c.key)] \in ever[c.key] \ {Absent}
                    /\ changes = 0 =>
                           FieldIds(c.key[3]) \subseteq CoveredFields(
                               [coll |-> c.key[3], part |-> c.key[4], id |-> c.key[5]])
             [] OTHER -> FALSE

\* All the values a key has had.
Values(k) == ever[k] \cup {c.new : c \in {c \in made : c.key = k}}

\* A piece is the record of a change: its key with the new value, or for a
\* removal with a value that the key had (the one loaded before it).
Shows(p, c) ==
    /\ p.op = "kv" /\ p.key = c.key
    /\ \/ p.val = c.new
       \/ c.new = Absent /\ p.val \in Values(c.key) \ {Absent}

Recorded(c) == \E p \in Elements(audit) : Shows(p, c)

Missing == {c \in made \ unsure : ~Recorded(c) /\ c.key \notin skipped}

\* The changes a command makes through the audited store are in the audit
\* file, if it could be opened, except those whose answer was lost and those
\* whose record could not be written. While the pieces of a change are being
\* written, or after a kill, at most that one change is missing. (Behind a torn
\* piece the records are there, out of step with the lengths.)
AuditComplete ==
    FileAudited => /\ \A c, d \in Missing : c.key = d.key
                   /\ pend = <<>> => Missing = {}
=============================================================================
