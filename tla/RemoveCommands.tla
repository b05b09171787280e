--------------------------- MODULE RemoveCommands ---------------------------
(***************************************************************************)
(* The `remove` commands: each one lists objects of the store, selects     *)
(* keys, and deletes them one call at a time, while milvus goes on         *)
(* changing the same store between any two calls. Any call may fail, and   *)
(* a failed deletion may have reached the store or not.                    *)
(*                                                                         *)
(* A command is a record [name, arg, mode, run]; arg "" is a filter that   *)
(* is not given. pc is the call it makes next, todo the deletions it has   *)
(* decided on, resume where it goes on after them.                         *)
(***************************************************************************)
EXTENDS MilvusMeta

CONSTANTS
    Invocations,     \* the commands with their parameters
    PageSize,        \* paginationSize of the walk
    MaxCommands,     \* bound: commands in a behaviour
    MaxFaults        \* bound: failing calls in a behaviour

CommandNames ==
    {"channel", "collection-meta-leaked", "collection-drop", "segment-orphan",
     "dirty-importing-segment", "segment", "compaction", "stats-task", "index",
     "import-job", "session", "etcd-config", "binlog"}

ASSUME PageSizeAssumption == PageSize \in Nat \ {0}

ASSUME InvocationsAssumption ==
    \A i \in Invocations :
        /\ i.name \in CommandNames
        /\ i.run \in BOOLEAN
        /\ i.name = "binlog" => i.arg \in Collections /\ BackupKey(i.arg) \in Key

VARIABLES
    cmd,         \* the command being run, or last run
    pc,          \* its next call; "done" between commands
    seen,        \* the collections listed so far: [key, obj]
    listed,      \* the segments listed and not yet handled
    group,       \* the collection whose segments are handled
    cursor,      \* place of a walk: [prefix, from]
    todo,        \* deletions decided and not yet made
    resume,      \* pc when they are made
    commands,    \* how many commands were started
    faults,      \* how many calls failed
    (* history of the running command *)
    failed,      \* a call of it failed
    misread,     \* a listing of it left a value out
    stable,      \* the collections live and intact since it started
    lost,        \* the collections already dropped when it started
    chosen,      \* the collections it decided to clean
    fresh        \* <<c, l>>: milvus wrote log l of c since its backup

cmdVars == <<cmd, pc, seen, listed, group, cursor, todo, resume, commands>>
historyVars == <<failed, misread, stable, lost, chosen, fresh>>
vars == <<milvusVars, cmdVars, faults, historyVars>>

NoCommand == [name |-> "none", arg |-> Empty, mode |-> Empty, run |-> FALSE]

-----------------------------------------------------------------------------
(* Deletions. An operation says what its failure does to the rest of the   *)
(* command: skip drops the next calls, abort ends the command.             *)

Op(op, key, val, skip) == [op |-> op, key |-> key, val |-> val, skip |-> skip]
Abort == Len(KeyOrder) + 10    \* more than any todo is long

RemoveOp(key, skip) == Op("remove", key, Absent, skip)

Apply(s, o) ==
    IF o.op = "remove" THEN Remove(s, o.key)
    ELSE IF o.op = "remove-prefix" THEN RemoveWithPrefix(s, o.key)
    ELSE Save(s, o.key, o.val)

MapSeq(s, f(_)) == [i \in DOMAIN s |-> f(s[i])]

\* The segment's own key, then the paths of its three kinds of logs. The error
\* of the first call and of the last one are returned; what that does depends
\* on the caller.
RemoveSegment(m, first, last) ==
    LET c == m.obj.coll
        path(kind) == <<"datacoord-meta", kind, c, "p", Segment[c]>>
    IN <<RemoveOp(path("s"), first), RemoveOp(path("binlog"), 0),
         RemoveOp(path("deltalog"), 0), RemoveOp(path("statslog"), last)>>

\* The callers of RemoveSegmentByID print the error and go on.
RemoveSegmentByID(m) == RemoveSegment(m, 3, 0)

\* cleanCollectionMeta: five prefixes, then the listed key of the collection,
\* its channel watches, and the checkpoint and removal flag of its channel.
CleanCollectionMeta(m) ==
    LET c == m.obj.coll
        prefix(p) == Op("remove-prefix", p, Absent, 0)
        watches == Where(ListObj2Models(<<"channelwatch", Empty>>),
                         LAMBDA w : w.obj.coll = c)
    IN <<prefix(<<"root-coord", "fields", c, Empty>>),
         prefix(<<"snapshots", "root-coord", "fields", c, Empty>>),
         prefix(<<"root-coord", "partitions", c, Empty>>),
         prefix(<<"snapshots", "root-coord", "partitions", c, Empty>>),
         prefix(<<"snapshots">> \o Append(CollectionPath(c), c)),
         RemoveOp(m.key, 0)>>
       \o MapSeq(watches, LAMBDA w : RemoveOp(w.key, 0))
       \o <<RemoveOp(KeyOf("checkpoint", c), 0),
            RemoveOp(KeyOf("removal", c), 0)>>

-----------------------------------------------------------------------------
(* Prefixes that are listed and walked. *)

CollectionMetaPrefix == <<"root-coord", "collection">>
DBCollectionMetaPrefix == <<"root-coord", "database", "collection-info">>

\* PartitionPrefix carries no root-coord, and the prefix of the segments is
\* not inside datacoord-meta: the walks look where nothing is.
WalkPrefixes ==
    IF cmd.name = "segment" THEN <<<<"s", Empty>>>>
    ELSE <<CollectionMetaPrefix, DBCollectionMetaPrefix,
           <<"root-coord", "fields">>, <<"snapshots", "root-coord", "fields">>,
           <<"partitions">>, <<"snapshots", "partitions">>,
           <<"datacoord-meta", "s">>>>

-----------------------------------------------------------------------------
(* Starting and ending. *)

\* Live, and no earlier command took the collection's own key.
IntactCollections ==
    {c \in LiveCollections : Load(KeyOf("collection", c)) # Absent}

\* Mutant: a binlog is removed without a backup.
FirstCallUnsafe(i) ==
    CASE i.name \in {"channel", "collection-meta-leaked", "collection-drop"} ->
             "collections"
      [] i.name \in {"segment-orphan", "dirty-importing-segment"} -> "segments"
      [] i.name = "segment" -> "walk"
      [] i.name = "binlog" -> IF i.mode = "restore" THEN "restore" ELSE "reload"
      [] OTHER -> "list"

FirstCall(i) ==
    CASE i.name \in {"channel", "collection-meta-leaked", "collection-drop"} ->
             "collections"
      [] i.name \in {"segment-orphan", "dirty-importing-segment"} -> "segments"
      [] i.name = "segment" -> "walk"
      [] i.name = "binlog" -> IF i.mode = "restore" THEN "restore" ELSE "backup"
      [] OTHER -> "list"

Init ==
    /\ MilvusInit
    /\ cmd = NoCommand /\ pc = "done"
    /\ seen = <<>> /\ listed = <<>> /\ group = Empty
    /\ cursor = [prefix |-> 1, from |-> 0]
    /\ todo = <<>> /\ resume = "done"
    /\ commands = 0 /\ faults = 0
    /\ failed = FALSE /\ misread = FALSE
    /\ stable = {} /\ lost = {} /\ chosen = {} /\ fresh = {}

Start(i) ==
    /\ pc = "done" /\ commands < MaxCommands
    /\ cmd' = i /\ pc' = FirstCall(i)
    /\ seen' = <<>> /\ listed' = <<>> /\ group' = Empty
    /\ cursor' = [prefix |-> 1, from |-> 0]
    /\ todo' = <<>> /\ resume' = "done"
    /\ commands' = commands + 1
    /\ failed' = FALSE /\ misread' = FALSE
    /\ stable' = IntactCollections
    /\ lost' = {c \in Collections : life[c] \in {"tombstoned", "gone"}}
    /\ chosen' = {} /\ fresh' = {}
    /\ UNCHANGED <<milvusVars, faults>>

\* A read that fails ends the command. (The channel watches of a dropping
\* collection are read in the step that selects its keys: same outcome.)
Reading == {"collections", "db-collections", "watches", "checkpoints",
            "segments", "walk", "backup", "restore", "reload", "list", "clean"}

ReadFails ==
    /\ pc \in Reading /\ faults < MaxFaults
    /\ pc = "clean" => seen # <<>>
    /\ pc = "walk" => cursor.prefix <= Len(WalkPrefixes)
    /\ pc' = IF cmd.name = "segment-orphan" /\ pc # "segments" THEN "groups"
             ELSE "done"
    /\ listed' = Where(listed, LAMBDA m : m.obj.coll # group)
    /\ faults' = faults + 1 /\ failed' = TRUE
    /\ UNCHANGED <<milvusVars, cmd, seen, group, cursor, todo, resume, commands,
                   misread, stable, lost, chosen, fresh>>

\* What the body of a reading step leaves alone.
ReadOnly == UNCHANGED <<milvusVars, cmd, commands, faults, failed, stable, lost,
                        fresh>>

\* Mutant: --run is not asked for.
DecideAnyway(ops, next) == todo' = ops /\ resume' = next /\ pc' = "exec"

\* Go on with the selected deletions, or only print them. Every command has this
\* check of its own between selecting and deleting, all of this form (in
\* states/etcd/remove: binlog.go:66 and 88, bulkinsert.go:44, channel.go:71,
\* collection_clean.go:57, collection_dropping.go:112, compaction_task.go:55,
\* dirty_importing_segment.go:46, etcd_config.go:28, index.go:31, segment.go:40,
\* segment_orphan.go:42, session.go:46, stats_task.go:55).
Decide(ops, next) ==
    /\ todo' = IF cmd.run THEN ops ELSE <<>>
    /\ resume' = next
    /\ pc' = "exec"

-----------------------------------------------------------------------------
(* ListCollections: the collections before databases, then those with one. *)

Wanted(m) ==
    CASE cmd.name = "collection-drop" ->
             IF cmd.arg # Empty THEN m.obj.coll = cmd.arg
             ELSE m.obj.state = "dropping"
      [] cmd.name = "segment-orphan" -> m.obj.coll = group
      [] OTHER -> TRUE

ReadCollections ==
    /\ pc = "collections"
    /\ seen' = Where(ListObj2Models(CollectionMetaPrefix), Wanted)
    /\ misread' = (misread \/ Skips(CollectionMetaPrefix))
    /\ pc' = "db-collections"
    /\ ReadOnly
    /\ UNCHANGED <<listed, group, cursor, todo, resume, chosen>>

AllSeen == seen \o Where(ListObj2Models(DBCollectionMetaPrefix), Wanted)

ReadDBCollections ==
    /\ pc = "db-collections"
    /\ cmd.name # "segment-orphan"
    /\ misread' = (misread \/ Skips(DBCollectionMetaPrefix))
    /\ seen' = IF cmd.name = "collection-drop" /\ cmd.arg # Empty
               THEN Where(SubSeq(AllSeen, 1, IF AllSeen = <<>> THEN 0 ELSE 1),
                           LAMBDA m : m.obj.state = "dropping")
               ELSE AllSeen
    /\ pc' = IF cmd.name = "channel" THEN "watches"
             ELSE IF cmd.name = "collection-meta-leaked" THEN "walk"
             ELSE "clean"
    /\ chosen' = IF cmd.name = "collection-drop"
                 THEN {seen'[i].obj.coll : i \in DOMAIN seen'} ELSE {}
    /\ ReadOnly
    /\ UNCHANGED <<listed, group, cursor, todo, resume>>

-----------------------------------------------------------------------------
(* remove channel: watches and checkpoints of channels no collection names *)

ChannelTargets(prefix) ==
    LET valid == {Channel[seen[i].obj.coll] : i \in DOMAIN seen}
        target(m) == /\ cmd.arg \in {Empty, Channel[m.obj.coll]}
                     /\ Channel[m.obj.coll] \notin valid \/ cmd.mode = "force"
    IN MapSeq(Where(ListObj2Models(prefix), target),
              LAMBDA m : RemoveOp(m.key, 0))

ReadWatches ==
    /\ pc = "watches"
    /\ todo' = ChannelTargets(<<"channelwatch", Empty>>)
    /\ pc' = "checkpoints"
    /\ ReadOnly
    /\ UNCHANGED <<seen, listed, group, cursor, resume, misread, chosen>>

ReadCheckpoints ==
    /\ pc = "checkpoints"
    /\ Decide(todo \o ChannelTargets(<<"datacoord-meta", "channel-cp", Empty>>),
              "done")
    /\ ReadOnly
    /\ UNCHANGED <<seen, listed, group, cursor, misread, chosen>>

-----------------------------------------------------------------------------
(* remove collection-drop: the chosen collections one after the other      *)

CleanCollection ==
    /\ pc = "clean"
    /\ IF seen = <<>> THEN pc' = "done" /\ UNCHANGED <<todo, resume, seen>>
       ELSE /\ Decide(CleanCollectionMeta(Head(seen)), "clean")
            /\ seen' = Tail(seen)
    /\ ReadOnly
    /\ UNCHANGED <<listed, group, cursor, misread, chosen>>

-----------------------------------------------------------------------------
(* The walks of remove collection-meta-leaked and of remove segment.       *)

\* No component after the prefix is the id of a listed collection.
Leaked(k, p) ==
    /\ ~HasPrefix(k, <<"datacoord-meta", "statslog">>)
    /\ \A i \in DOMAIN seen : \A j \in Len(p) + 1 .. Len(k) :
           k[j] # seen[i].obj.coll

PageOps(page, p) ==
    IF cmd.name = "segment"
    THEN Flatten(MapSeq(Where(page, LAMBDA k :
                            /\ store[k] # Tombstone
                            /\ store[k].kind = "segment"
                            /\ cmd.arg \in {Empty, store[k].coll}),
                        LAMBDA k : RemoveSegment([obj |-> store[k]], Abort, Abort)))
    ELSE MapSeq(Where(page, LAMBDA k : Leaked(k, p)),
                LAMBDA k : RemoveOp(k, Abort))

\* One page is read, then its deletions are made, then the walk goes on.
WalkPage ==
    /\ pc = "walk"
    /\ IF cursor.prefix > Len(WalkPrefixes)
       THEN pc' = "done" /\ UNCHANGED <<todo, resume, cursor>>
       ELSE LET p    == WalkPrefixes[cursor.prefix]
                page == Page(p, cursor.from, PageSize)
                more == Len(WalkRest(p, cursor.from)) > Len(page)
            IN /\ Decide(PageOps(page, p), "walk")
               /\ cursor' = IF more
                            THEN [cursor EXCEPT !.from = Position(page[Len(page)])]
                            ELSE [prefix |-> cursor.prefix + 1, from |-> 0]
    /\ ReadOnly
    /\ UNCHANGED <<seen, listed, group, misread, chosen>>

\* A page of remove segment holds values of other kinds; one that does not
\* unmarshal ends the walk.
WalkUnreadable ==
    /\ pc = "walk" /\ cmd.name = "segment"
    /\ cursor.prefix <= Len(WalkPrefixes)
    /\ Page(WalkPrefixes[cursor.prefix], cursor.from, PageSize) # <<>>
    /\ pc' = "done"
    /\ ReadOnly
    /\ UNCHANGED <<seen, listed, group, cursor, todo, resume, misread, chosen>>

-----------------------------------------------------------------------------
(* remove segment-orphan and remove dirty-importing-segment: segments by   *)
(* collection, in the order of a Go map.                                   *)

ReadSegments ==
    /\ pc = "segments"
    /\ listed' = Where(ListObj2Models(<<"datacoord-meta", "s", Empty>>),
                        LAMBDA m : cmd.arg \in {Empty, m.obj.coll})
    /\ pc' = "groups"
    /\ ReadOnly
    /\ UNCHANGED <<seen, group, cursor, todo, resume, misread, chosen>>

InGroup(c) == Where(listed, LAMBDA m : m.obj.coll = c)
NotInGroup(c) == Where(listed, LAMBDA m : m.obj.coll # c)

EndGroups ==
    /\ pc = "groups" /\ listed = <<>>
    /\ pc' = "done"
    /\ ReadOnly
    /\ UNCHANGED <<seen, listed, group, cursor, todo, resume, misread, chosen>>

\* The collection of the group is looked up.
OrphanGroup(c) ==
    /\ pc = "groups" /\ cmd.name = "segment-orphan"
    /\ InGroup(c) # <<>>
    /\ group' = c /\ seen' = <<>>
    /\ pc' = "collections"
    /\ ReadOnly
    /\ UNCHANGED <<listed, cursor, todo, resume, misread, chosen>>

RemoveOrphans ==
    /\ pc = "db-collections" /\ cmd.name = "segment-orphan"
    /\ seen' = AllSeen
    /\ listed' = NotInGroup(group)
    /\ Decide(IF AllSeen = <<>>
              THEN Flatten(MapSeq(InGroup(group), RemoveSegmentByID)) ELSE <<>>,
              "groups")
    /\ ReadOnly
    /\ UNCHANGED <<group, cursor, misread, chosen>>

\* Importing, without rows, and older than the given timestamp.
RemoveDirty(c) ==
    /\ pc = "groups" /\ cmd.name = "dirty-importing-segment"
    /\ InGroup(c) # <<>>
    /\ listed' = NotInGroup(c)
    /\ Decide(Flatten(MapSeq(Where(InGroup(c),
                                    LAMBDA m : m.obj.state = "importing"),
                             RemoveSegmentByID)),
              "groups")
    /\ ReadOnly
    /\ UNCHANGED <<seen, group, cursor, misread, chosen>>

-----------------------------------------------------------------------------
(* The commands that list one kind of object and delete what matches.      *)

Matching(p) == Where(ListObj2Models(p), LAMBDA m : cmd.arg \in {Empty, m.obj.coll})

RemoveKeys(ms) == MapSeq(ms, LAMBDA m : RemoveOp(m.key, Abort))

\* The key of a task is given to RemoveWithPrefix.
RemoveTasks(ms) ==
    MapSeq(ms, LAMBDA m : Op("remove-prefix", m.key, Absent, Abort))

CompactionTaskOps ==
    RemoveTasks(Matching(<<"datacoord-meta", "compaction-task", Empty>>))

StatsTaskOps == RemoveTasks(Matching(<<"datacoord-meta", "stats-task", Empty>>))

IndexOps == RemoveKeys(Matching(<<"field-index", Empty>>))

ImportJobOps ==
    LET jobs == Matching(<<"datacoord-meta", "import-job", Empty>>)
    IN IF Len(jobs) = 1 THEN RemoveKeys(jobs) ELSE <<>>

\* Revoking the lease of a session deletes its key.
SessionOps ==
    MapSeq(LoadWithPrefix(<<"session">>), LAMBDA k : RemoveOp(k, Abort))

EtcdConfigOps ==
    IF Load(ConfigKey) = Absent THEN <<>> ELSE <<RemoveOp(ConfigKey, Abort)>>

ListedOps ==
    CASE cmd.name = "compaction" -> CompactionTaskOps
      [] cmd.name = "stats-task" -> StatsTaskOps
      [] cmd.name = "index" -> IndexOps
      [] cmd.name = "import-job" -> ImportJobOps
      [] cmd.name = "session" -> SessionOps
      [] cmd.name = "etcd-config" -> EtcdConfigOps

ListObjects ==
    /\ pc = "list"
    /\ Decide(ListedOps, "done")
    /\ ReadOnly
    /\ UNCHANGED <<seen, listed, group, cursor, misread, chosen>>

-----------------------------------------------------------------------------
(* remove binlog: the value is copied to the backup key before anything    *)
(* else, whether or not the command is to run; then it is loaded again.    *)

BackupBinlog ==
    LET k == KeyOf("binlog", cmd.arg) IN
    /\ pc = "backup"
    /\ IF Load(k) = Absent
       THEN pc' = "done" /\ UNCHANGED <<todo, resume>>
       ELSE /\ todo' = <<Op("save", BackupKey(cmd.arg), Load(k), Abort)>>
            /\ resume' = "reload" /\ pc' = "exec"
    /\ fresh' = {}
    /\ UNCHANGED <<milvusVars, cmd, seen, listed, group, cursor, commands, faults,
                   failed, misread, stable, lost, chosen>>

RemoveBinlog ==
    LET k == KeyOf("binlog", cmd.arg) IN
    /\ pc = "reload"
    /\ IF Load(k) = Absent
       THEN pc' = "done" /\ UNCHANGED <<todo, resume>>
       ELSE Decide(IF cmd.mode = "all" THEN <<RemoveOp(k, Abort)>>
                   ELSE <<Op("save", k, [Load(k) EXCEPT !.logs = @ \ {FirstLog}],
                             Abort)>>,
                   "done")
    /\ ReadOnly
    /\ UNCHANGED <<seen, listed, group, cursor, misread, chosen>>

RestoreBinlog ==
    /\ pc = "restore"
    /\ IF Load(BackupKey(cmd.arg)) = Absent
       THEN pc' = "done" /\ UNCHANGED <<todo, resume>>
       ELSE /\ todo' = <<Op("save", KeyOf("binlog", cmd.arg),
                            Load(BackupKey(cmd.arg)), Abort)>>
            /\ resume' = "done" /\ pc' = "exec"
    /\ ReadOnly
    /\ UNCHANGED <<seen, listed, group, cursor, misread, chosen>>

-----------------------------------------------------------------------------
(* Making the deletions. *)

Exec ==
    /\ pc = "exec" /\ todo # <<>>
    /\ store' = Apply(store, Head(todo))
    /\ todo' = Tail(todo)
    /\ UNCHANGED <<life, milvusSteps, cmd, pc, seen, listed, group, cursor, resume,
                   commands, faults, historyVars>>

\* A call that fails may have been applied: the answer was lost.
ExecFails ==
    /\ pc = "exec" /\ todo # <<>> /\ faults < MaxFaults
    /\ store' \in {store, Apply(store, Head(todo))}
    /\ todo' = SubSeq(todo, 2 + Head(todo).skip, Len(todo))
    /\ resume' = IF Head(todo).skip = Abort THEN "done" ELSE resume
    /\ faults' = faults + 1 /\ failed' = TRUE
    /\ UNCHANGED <<life, milvusSteps, cmd, pc, seen, listed, group, cursor,
                   commands, misread, stable, lost, chosen, fresh>>

Resume ==
    /\ pc = "exec" /\ todo = <<>>
    /\ pc' = resume
    /\ UNCHANGED <<milvusVars, cmd, seen, listed, group, cursor, todo, resume,
                   commands, faults, historyVars>>

-----------------------------------------------------------------------------
CommandStep ==
    \/ ReadFails \/ ReadCollections \/ ReadDBCollections
    \/ ReadWatches \/ ReadCheckpoints \/ CleanCollection
    \/ WalkPage \/ WalkUnreadable
    \/ ReadSegments \/ EndGroups \/ RemoveOrphans
    \/ \E c \in Collections : OrphanGroup(c) \/ RemoveDirty(c)
    \/ ListObjects \/ BackupBinlog \/ RemoveBinlog \/ RestoreBinlog
    \/ Exec \/ ExecFails \/ Resume

Unstable(c) == /\ stable' = stable \ {c}
               /\ UNCHANGED <<cmdVars, faults, failed, misread, lost, chosen, fresh>>

Writes(c, l) ==
    /\ fresh' = fresh \union {<<c, l>>}
    /\ UNCHANGED <<cmdVars, faults, failed, misread, stable, lost, chosen>>

MilvusStep ==
    \E c \in Collections :
        \/ /\ \/ CreateCollection(c) \/ DropCollection(c)
              \/ ExpireTombstones(c) \/ DropSegment(c)
           /\ UNCHANGED <<cmdVars, faults, historyVars>>
        \/ MarkDropping(c) /\ Unstable(c)
        \/ ServeCollection(c) /\ Writes(c, FirstLog)
        \/ \E l \in Logs : FlushLog(c, l) /\ Writes(c, l)

Next ==
    \/ \E i \in Invocations : Start(i)
    \/ CommandStep
    \/ MilvusStep

Spec == Init /\ [][Next]_vars
-----------------------------------------------------------------------------
(* Properties *)

\* Steps of birdwatcher leave the counter of milvus alone.
OfCommand == milvusSteps' = milvusSteps

AllKinds == RootKinds \union DataKinds

Removes(k) == OfCommand /\ k \in Key /\ store[k] # Absent /\ store'[k] = Absent

\* Without --run a command changes nothing: not when it selects, and not in a
\* later page or group of the same command. The exceptions are in the code:
\* the backup key of a binlog is written first, and --restore does not ask.
DryRunKeepsStore ==
    [][(OfCommand /\ ~cmd.run /\ cmd.mode # "restore") =>
        \A k \in Key : (\A c \in Collections : k # BackupKey(c)) =>
                            store'[k] = store[k]]_vars

StableKept ==
    \A c \in stable, kind \in AllKinds \ {"stats-task"} :
        ( /\ cmd.name \in {"channel", "collection-meta-leaked",
                            "collection-drop", "segment-orphan"}
          /\ cmd.mode # "force"
          /\ ~(misread /\ cmd.name = "collection-drop" /\ kind = "collection") )
        => ~Removes(KeyOf(kind, c))

NewcomersKept ==
    \A c \in IntactCollections, kind \in AllKinds :
        ( /\ cmd.name \in {"segment-orphan", "collection-drop"}
          /\ ~(misread /\ kind = "collection") )
        => ~Removes(KeyOf(kind, c))

\* The commands that look for what nobody uses keep every key of a collection
\* that was live when they started and still is, whatever milvus did between
\* their listings. Two things they do not promise: the key of a collection
\* listed out of step with a tombstone, and stats tasks, which the walk over
\* the segments meets because "s" begins "stats-task". segment-orphan lists the
\* segments before it looks for their collection, so not even a collection
\* created while it runs loses one; collection-drop selects by state, so
\* neither does it.
LiveKept == [][StableKept /\ NewcomersKept]_vars

LogsOf(k) == IF store[k] = Absent THEN {} ELSE store[k].logs

FreshLogs(c) == {w[2] : w \in {v \in fresh : v[1] = c}}

\* remove binlog never takes a log out of the field binlog that is not in the
\* backup key, unless milvus wrote it after the backup was read.
LogsBackedUp ==
    [][(OfCommand /\ cmd.name = "binlog" /\ cmd.mode # "restore") =>
        \A c \in Collections :
            LET b == KeyOf("binlog", c) IN
            (b \in Key) =>
                LogsOf(b) \subseteq LogsOf(b)' \union LogsOf(BackupKey(c))'
                                    \union FreshLogs(c)]_vars

\* Nothing went wrong in a collection-drop that is done.
DropDone == pc = "done" /\ cmd.name = "collection-drop" /\ cmd.run /\ ~failed /\ ~misread

\* The keys cleanCollectionMeta has a removal for that reaches them. The snapshots
\* of the collection's own key are not among them: see DropCleansSnapshots.
DropKinds == {"collection", "fields", "fields-snapshot", "partitions",
              "watch", "checkpoint", "removal"}

\* A collection-drop in which no call failed and no listing was out of step
\* leaves nothing of the collections it chose under these keys, whatever milvus
\* did between the listing and the removals and between two of them.
DropCleans ==
    DropDone => \A c \in chosen, kind \in DropKinds : Load(KeyOf(kind, c)) = Absent

\* "collection will have timestamp suffix, which should be also removed by
\* prefix": the snapshots of a collection that collection-drop cleaned are gone.
\* The code gives root-coord/collection/1 to RemoveWithPrefix, which adds a
\* slash, so that 1_ts is not under it.
\* The code does not keep it: see the findings.
DropCleansSnapshots ==
    DropDone => \A c \in chosen : Load(KeyOf("collection-snapshot", c)) = Absent

LeakedDone == pc = "done" /\ cmd.name = "collection-meta-leaked" /\ cmd.run /\ ~failed

\* A collection-meta-leaked in which no call failed leaves no key of a
\* collection that was dropped before it started under the prefixes it walks,
\* although it deletes from the range it pages through. Partitions are not under
\* these prefixes: see LeakedPartitionsCleaned.
LeaksCleaned ==
    LeakedDone => \A c \in lost, kind \in {"collection", "fields", "fields-snapshot",
                                          "segment"} :
                      Load(KeyOf(kind, c)) = Absent

\* "remove collection partition meta": it leaves no partition of a collection
\* that was dropped before it started. The code walks partitions/ and not
\* root-coord/partitions/.
\* The code does not keep it: see the findings.
LeakedPartitionsCleaned ==
    LeakedDone => \A c \in lost : Load(KeyOf("partitions", c)) = Absent

\* collection-drop is described as removing the metadata of collections in
\* dropping or dropped state: it removes the key of no live collection.
DropOnlyDropped ==
    [][\A c \in LiveCollections :
        cmd.name = "collection-drop" => ~Removes(KeyOf("collection", c))]_vars
=============================================================================
