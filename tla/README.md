# A TLA+ verification of birdwatcher

Birdwatcher is the debugging tool of Milvus: an interactive shell that connects
to the metadata store of a Milvus instance (etcd or TiKV), shows and repairs
what it finds there, backs the metadata up to a file and restores it, and reads
the write-ahead log (WAL) of a channel.  This directory holds TLA+ models of
the parts in which its own logic lives, the TLC configurations that check them
on small instances, and TLAPS proofs of what matters most.

`PROJECT.json` maps every definition that models code to the source lines it
translates, names the runs, and lists for every checked property a mutant: a
plausible slip in the code that makes TLC find the property violated.

## 1. The system: inventory

| Part (source) | State it keeps | Operations | Interacts with |
|---|---|---|---|
| WAL scanner (`wal/adaptor`, `states/consumev2.go`) | reader of the log, `msgChan`, context | start, receive, hand over, deliver, close | log of milvus, WAL buffers, the `consume` command |
| WAL buffers (`wal/utility`) | heap of unconfirmed messages, open transactions, pending queue, byte counters | push, pop until time tick, handle transaction messages, clear expired, add, advance | the scanner's consumer goroutine only |
| Meta KV (`states/kv/kv.go`) | keys and values in etcd or TiKV | load, save, multi-save, remove, remove with prefix, walk, back up | every command |
| Audit KV (`states/kv/kv_audit.go`) | audit file | the same, each change recorded around the call | the meta KV |
| Backup (`states/etcd_backup.go`) | gzip file of parts | header, etcd keys, metrics, configuration | meta KV, nodes |
| Load backup (`states/etcd_restore.go`, `load_backup.go`, `backup_mock_connect.go`) | embedded etcd, work directory | restore files of version 1 and 2, open a workspace | backup file, embedded etcd |
| Shell and states (`framework`, `bapps`, `states/app_state.go`, `etcd_connect.go`, `instance.go`) | tagged states, connections, config, history | connect, use, disconnect, exit, run a command | everything |
| Remove / repair / set commands (`states/etcd/...`) | none of their own | select records of metadata, change or delete them when `--run` is given | meta KV |
| Show commands (`states/etcd/show`, `states/etcd/common`) | none | list, filter and print records | meta KV |
| Storage readers (`storage`, `states/storage`) | position in binlogs | read events, columns, delta logs; scan segments | object storage |
| MQ consumers (`mq`, `states/consume.go`) | position in a topic | seek, consume, parse messages | Pulsar, Kafka |
| Node RPC (`states/mgrpc`, `probe.go`, `balance_explain.go`, `distribution.go`, `healthz`) | none | gRPC requests to Milvus nodes, comparison of their views | nodes |
| OSS access (`oss`, `states/ossutil`, `minio.go`) | client | open, walk, test | object storage |

### What makes each part correct

- *WAL scanner and buffers.*  What the user is shown is in time tick order,
  confirmed by a time tick, complete up to every time tick shown, and
  transactions come whole or not at all; memory is bounded by the pending limit
  and abandoned transactions expire; Ctrl-C always gets the operator out, and
  the log's resources are released only when nobody uses them.
- *Backup.*  A backup is the metadata of one revision, each key once, however
  Milvus changes it meanwhile; it ends; what it reports as stored is stored.
- *Load backup.*  What is loaded is what the file says, wherever the file ends
  and however the workers are scheduled; failures are reported; it returns.
- *Changing commands.*  A dry run changes nothing; with `--run` only what was
  selected changes, and metadata of live objects that the command did not mean
  to touch is kept, although Milvus goes on working between the listing and the
  deletion.
- *Audit KV.*  A change made through it is in the audit file, but for the one in
  hand when the process is killed and those whose answer or record was lost.
- *Shell.*  The commands a line can reach are those of connected states, and
  these work; a directory that calls itself the workspace of an instance was
  loaded to the end from a backup of it; a line comes back to the prompt.
- *Show commands.*  What is asked for is printed, once, and nothing else; parts
  that are printed together belong together.
- *Scans.*  Rows are counted, located and found twice exactly, in whatever
  order the workers read, and the command ends.
- *Stream commands.*  Channels are compared message by message and the first
  difference is found; a consumer prints what lies between its bounds.

### What is hard in it

- *Interleavings.*  The WAL scanner runs two goroutines beside the command that
  reads from it; loading a backup runs a reader, workers and the command, which
  share an `err` variable; a scan hands segments to a pool of workers that fail
  on their own; the pchannel comparison polls several streams.
- *Unreliable input.*  The log repeats and reorders messages; a backup file may
  be torn; the metadata store changes while it is being read.
- *Partial failure.*  A multi-step change (several keys, a file of several
  parts) may stop in the middle, by an error, a panic or a kill.
- *Boundaries.*  Page boundaries in the key space, keys behind the prefix, a
  full pending queue, a full channel of batches, time ticks that are equal.

`PROJECT.json` lists these as hazards, each at its line, with the properties
that would notice it going wrong.

## 2. Modules

| Module | Models |
|---|---|
| `WalMessage` | messages of a log and their attributes (external), and the items a consumer receives |
| `ReorderBuffer`, `TxnBuffer`, `PendingQueue` | the three buffers of `wal/utility`, one action per operation |
| `WalScanner` | composes the buffers with the producer goroutine, the consumer goroutine and the `consume` command |
| `OrderedStream` | the abstract specification `WalScanner` implements: a stream that grows by confirmed items in order and may be closed |
| `BackupFile` | the key space and the records of a backup file |
| `EtcdBackup` | the `backup` command over `etcdKV.BackupKV`, beside Milvus changing its metadata and etcd compacting its history |
| `EtcdRestore` | `load-backup`: header, parts, reader goroutine, channel, workers, the shared `err` |
| `BackupCycle` | composes both: whatever file a backup left behind is loaded |
| `MetaKV` | `etcdKV` as the commands use it: paths and prefixes, removal by key and by prefix, the paged walk, and the typed listing of `states/etcd/common/list.go` |
| `MilvusMeta` | the keys Milvus keeps and how it changes them (external) |
| `RemoveCommands` | every `remove` command over `MetaKV`, beside `MilvusMeta` |
| `RepairCommands` | every `repair` and `set` command and `verify-segment --fix` over `MetaKV`, one call at a time, with the audit KV |
| `ShowCommands` | every `show` command over `MetaKV`: its reads, filters, joins and what each format prints |
| `Shell` | command lines, tagged states and what they own, the pager, interrupts, workspaces on disk, kill and restart |
| `BinlogFile`, `SegmentReader`, `IndexFiles` | pure operators: what the readers of `storage/` return for one file, for the batches of a segment, for the slices of an index |
| `SegmentScan` | composes the readers with the scanning commands, `scan-binlog` with its goroutines |
| `StreamCommands` | `cmp_pchannels`, `consumev2` and `consume` over the promise of the WAL scanner and the consumers of `mq` |
| `MC...` | instances for TLC |
| `SequenceFolds` | filter and concatenation of sequences as recursive functions, which `MetaKV` and `StreamCommands` use |
| `SequenceFacts` | lemmas: what these return, for sequences of any length |
| `WalScannerProofs`, `BackupCycleProofs` (with the backup and the restore), `RemoveCommandsProofs`, `CollectionRemovalProofs`, `RepairCommandsProofs`, `StreamCommandsProofs`, `ShellProofs` | theorems |

### 2.1 The WAL scanner

A message is a model value with its attributes in the constant `Meta`: time
tick, type, transaction, vchannel, size.  The log (external) delivers any
message, in any order and any number of times (`Receive`), except that its time
ticks never go back, which is what the buffers rely on.  The producer goroutine
(`catchupScanner.Do`) opens a reader, backs off when it cannot, and sends on the
unbuffered `msgChan`; a send and the matching receive are one step (`HandOver`,
`Deliver`).  `handleUpstream` touches only the consumer's own state, so its
loops are taken one turn at a time (`DrainOne`, `ClearOne`) without changing
what the other goroutines can observe.  The user is `ConsumeV2Command`: it reads
up to a limit, may be interrupted, and closes the scanner (`CloseCancel`,
`CloseFinish`).

`ReorderBuffer` keeps the heap as a set (`PopMin` takes a least element: equal
time ticks in any order, as the heap does), the ids, the last popped time tick
and the byte counter.  `TxnBuffer` keeps one builder per open transaction with
its last time tick; commit, rollback, expiry and a failed build are separate
branches.  `PendingQueue` is a sequence.

### 2.2 Backup and load

Keys are numbers in store order; the backed-up prefix is an interval of them.
`revs` is the store at every revision; `Change` and `Compact` append to it and
forget it while the backup runs.  `CountKeys` fixes revision and count;
`FetchPage`, `CopyKey` and `EndPage` are the paging loop of `BackupKV` with its
filter, its cursor and its progress division; `WriteStopper` flushes.  The parts
of the nodes follow (`StartPart`, `AskNode`, `EndPart`), each of which may fail.
`buffer` is what the `bufio.Writer` still holds: `CloseFile` loses an arbitrary
end of it because the command never flushes, and `Kill` and a panic (`Dies`) lose
more.  Both may leave the file torn; after a panic it need not be, as the deferred
close of the gzip stream still runs.

A file is a sequence of records plus `torn`, which says that it ends inside one.
`EtcdRestore` reads it the way the code does: an unreadable part header is the
end of the file, a part without a stopper swallows the next header as an entry
with an empty key, metrics come in threes.  The reading goroutine, the bounded
channel, the workers, `errCh` and the wait group are separate actions; the
assignments to the shared `err` interleave freely.

### 2.3 The metadata store and the remove commands

A path is the tuple of its components and a trailing slash is an empty last one,
so that "prefix" means what it means to etcd: `Begins` says which components
begin which, `joinPath` keeps the slash, `path.Join` loses it, and
`RemoveWithPrefix` adds it.  `ListObj2Models` pairs the objects that parse with
the first keys of *all* that were read, as the code does.

`MilvusMeta` is the environment: a collection is created, served, marked as
dropping, turned into tombstones and forgotten; a flush adds a log to a field
binlog; compaction drops a segment.  Every key the commands know occurs for some
collection.

A command is a record of its name, a filter, a mode and `--run`.  Each read is a
step (`ReadCollections`, `ReadDBCollections`, `ReadWatches`, `ReadCheckpoints`,
`ReadSegments`, `WalkPage`, `ListObjects`, `BackupBinlog`, `RemoveBinlog`,
`RestoreBinlog`), each deletion is one (`Exec`), and Milvus steps come between
any two of them.  `Decide` is the `if p.Run` of all commands.  A failing read
ends the command, or one group of `segment-orphan` (`ReadFails`); a failing
deletion may have been applied, and skips what the code skips: nothing when the
error is only printed, the logs of the segment in `RemoveSegmentByID`, the rest
of the command when it is returned (`ExecFails`).  Variables under "history" are
read by the properties only.

`stable`, used by `LiveKept`, are the collections that are live, with their own
key in the store, from the start of the command on.

### 2.4 The repair and set commands and the audit KV

A running command is a stack of calls (list, load, save, remove, remove with
prefix, a request to a node or to the message queue, local computation), and
`After(call, ok, rows)` says which calls replace the one that returned: it is
the code between two calls, early returns and ignored errors included.  `Begin`
parses the parameters; `ReadList`, `LoadKey`, `WriteStore`, `AskNode` and
`Compute` carry out the call on top; `CallFails` lets any of them fail, a change
also after it has reached the store; `MilvusStep` comes between any two.  The
commands that were given the audited client (`index_metric_type`,
`diskann_index_params`, `config-etcd`, `verify-segment`, `force-release`) write
`audit` as `FileAuditKV` does: `Pieces` are the headers and records of a call, each
of them is a write of its own behind the change (`AnnounceSave`, `WritePiece`), may
fail before or after its length (`WritePieceFails`), and `Kill` comes between any two
steps.  `opened` is FALSE when the file could not be opened and the code goes on with
the plain client.  Objects are records of the fields the commands read and write.

### 2.5 The show commands

A command reads (`ReadList`, `AskNode`, and `ReadFails`), with `Then` giving the
reads that follow from what was found, and then prints (`Show`): `Outputs` is the
set of rows and the total of one format.  A list is read under the root the command
gives it, which for `show user` is not where Milvus keeps its users.  The properties do not repeat the
filters; they compare what is printed with `ever`, what each key has held since
the command began.

### 2.6 The shell

A line is read, may start the pager, is run by the state that offers its command
and, when its output is drained, the commands of all states are merged again
(`SetupCommands`).  `states` maps tags to states, which own a client, or a client
and an embedded etcd on a directory of `disk`.  Commands that take several steps
that may fail or be killed in between take several actions: `connect`
(`DialEtcd`, `FindInstance`, `Ping`, `Connect`), `load-backup` and
`open-workspace` (`OpenBackup`, `StartEmbedEtcd`, `Restore`, `NoParts`, `Restored`,
`RestoreFails`, `SyncWorkspaceInfo`, `WriteWorkspaceMeta`, `ReadWorkspaceMeta`,
`ShowBackup`), `disconnect` with the removal of the directory (`RemoveAll`).  The
rows of a directory are none, some while they are loaded, whole, or short: the load
came to its end and entries are missing, because a save failed, an entry did not
parse or the error of the reader was overwritten.  `NoParts` is a file of version 2
whose first part header cannot be read, which the code takes for the end.  `Kill` forgets everything but the disk,
`Restart` starts again on it.

### 2.7 Segment files and scans

A file is a sequence of parts that may be cut off at the places the readers tell
apart.  The readers are operators that return values or errors; because a Go map
decides which file is opened first, `SegmentReader` returns the set of possible
outcomes.  An object that is empty or ends behind its magic number reads as the end of
the segment, not as an error.  In `SegmentScan` the main goroutine reads the delete logs of L0
segments, hands segments over an unbuffered channel and watches `errCh`; workers
read one record at a time into the shared task.  The other commands are
sequential.  The properties read the rows off the files without any reader.

### 2.8 The stream commands

Scanners offer the messages of their channels; a pass of `cmp_pchannels` takes
one step per channel (`SkipChannel`, `SkipSelfControlled`, `TakeMessage`,
`NothingThere`), and a round is compared at the end of a pass (`EndPass`).  The
maps are keyed by channel *name*, as in the code.  A scanner that fails falls
silent (2.1), so the branches for a closed channel are never taken and left out.
`consume` finds its position (a checkpoint, the earliest message, or an offset given
by hand, among them Kafka's -1 and -2), creates a consumer of either build, asks once
for the last id and reads up to it, while messages are still produced.  An offset that
the topic does not have is reset to its end (`ResetOffset`); a read may fail
(`CallFails`).

## 3. What the runs check

| Run | Specification and bounds | Shows |
|---|---|---|
| `wal_scanner` | one transaction with begin, body, commit, rollback; two plain messages, one exactly at a time tick; two time ticks; six deliveries by the log, pending limit 1 | order, confirmation, at most once (but for copies exactly at a time tick), complete watermarks, whole transactions, expiry of builders, exact byte counters, and that the scanner implements `OrderedStream`: `DeliveredInOrder`, `NothingUnconfirmed`, `NoRepeat`, `WatermarkComplete`, `TxnAtomic`, `NoStaleBuilder`, `BytesExact`, `PromiseSpec` |
| `wal_flow` | `FairSpec`; two vchannels and none, a message the filter rejects, a log that fails, pending limit 0 | the selection, back pressure, release after stop, `Close` returns, confirmed messages arrive: `OnlySelected`, `ReleaseAfterStop`, `BackPressure`, `CloseCompletes`, `ConfirmedDelivered` |
| `backup_ignore_revision` | `FairBackupSpec`, three keys of which the prefix is the last two, three revisions, pages of one | with `--ignoreRevision` nothing is repeated, invented or missed, and the backup ends: `NothingMissed`, `BackupEnds` |
| `restore` | every beginning of five kinds of file, two workers, batches of two, a channel of one, saves that fail | exact restore of keys and whole nodes, no save after the return, the command returns: `RestoredExactly`, `NoLateSave`, `RestoreEnds` |
| `backup_cycle` | three keys, prefix of two, pages of one, two revisions, one node, two interchangeable workers | a backup without error is a snapshot; loading what any backup left behind gives back that snapshot, or a part of it, and nothing foreign: `SnapshotConsistent`, `RoundTrip`, `NothingForeign` |
| `remove_commands` | three collections, 30 keys, two commands out of 19 invocations after each other, two Milvus steps, one failing call, pages of two | dry runs change nothing; collections that stay live keep their keys, and newcomers lose nothing to `segment-orphan` and `collection-drop`; `collection-drop` and `collection-meta-leaked` leave nothing they should clean, but for snapshots of the collection key and partitions; a log is in the backup key before it leaves the field binlog: `DropCleans`, `LeaksCleaned`, `DryRunKeepsStore`, `LiveKept`, `LogsBackedUp` |
| `collection_drop` (violation) | a tombstone, a served and a dropping collection in one database, one `collection-drop` | the dropping collection is listed with the key of the served one, which is deleted: `DropOnlyDropped` |
| `repair` | one command, two Milvus steps, two failing calls or audit writes, a kill; collections 1, 12 and 3, segments 44 and 441, tasks 7 and 77 | a write is the repair of what its own key held, a removal is justified by what the store held, and a change through the audited client is in the audit file once its pieces are written, with the exceptions each property names: `WritesAreRepairs`, `RemovalsAreJustified`, `AuditComplete` |
| `show` | one command out of all, three stores, two Milvus steps, one failing read; ids that begin others | listings are exact and what is joined belongs together, but for the exceptions named with the properties: `ListingExact`, `JoinExact` |
| `shell` | three lines out of 18, one etcd, one TiKV, one workspace, one fault, one restart; prompt with a pager that cannot start, and the one-line program | reachable states work, a workspace that names an instance was loaded to the end from a backup of it, lines come back or are stuck in one of three named ways: `StatesUsable`, `WorkspacesLoaded`, `LineReturns` |
| `segment_scan` | ten segments of five partitions (v1, v2, L0, dropped, cut, unreadable, with deletes out of time order, with an empty object, with two row groups), 32 commands, two workers | counts and duplicates are exact when deletes are read in time order, and no live row is left out otherwise; places, checks and downloads are exact where their parts say so; the command ends: `CountExact`, `LocateExact`, `ChecksExact`, `ScanReturns` |
| `streams` | two and three channels that agree, lag, diverge, are reordered or empty; every limit; topics of zero to four messages over Pulsar and Kafka, both builds, offsets by hand inside and outside the topic; one failure | rounds are aligned, the first difference is found, what is printed lies between the positions: `StreamsExact`, `DifferenceFound` |

*Why the bounds are enough.*  The WAL instance has a message on each side of a
time tick, one exactly on it, and every kind of transaction message, and the log
delivers enough of them for repeats and for each buffer to be non-empty while
another step happens.  The pending limits 0 and 1 stand for the 16 of the code:
the queue is reached at, below and above its limit.  Pages of one key put a page
boundary between all keys; one page that is not full and a key on either side of
the prefix occur.  Batches of two with five entries give full batches and a last
partial one, and more batches than the channel and the workers hold.  Files are
cut at every record.  The id of one collection is the beginning of another's,
one lives in a database and one before databases; the lives start so that two
Milvus steps reach every transition, including a creation between two listings
and a drop that turns into tombstones.  Wherever ids are looked up by prefix one
id begins another (1 and 12, 44 and 441, v1 and v10).  Two Milvus steps reach a
change before and after any call of a command, one fault every error path and
what follows it; two faults in `repair` let a lost answer and a record that cannot be
written meet.  Three lines of the shell are enough to connect twice under one
tag and disconnect, to load a workspace, be killed, and open it again.  Two
workers and the readable segments of one partition put every pair of records in
both orders; of one key the later delete is read first.  Two commands are enough for one to see
what another, failed or not, has left, and for a binlog to be removed and
restored; pages of two put a boundary inside every prefix that is walked.

*Fairness.*  Goroutines that can go on do: a Go `select` with a ready `Done`
eventually takes it because the scheduler is fair and nothing else the loop
waits for is endless.  Nothing is assumed of the outside: the log need not
deliver, `innerWAL.Read` need not ever succeed, nobody need press Ctrl-C.  The
backup command goes on as long as it can; Milvus has no fairness and its changes
are bounded by `MaxRev`.  In `Shell` the running command goes on, and `LineReturns`
also assumes that the user quits the pager and presses Ctrl-C when a command
hangs: only that is left to the user there.  In `SegmentScan` every goroutine
goes on; in `StreamCommands` the command and its scanners do, which
`ConfirmedDelivered` of the scanner justifies.

*Deadlock* is checked in the runs of the WAL scanner, the backup and the
restore, where a command that has returned stutters in an action of its own
(`Terminated`, `BackupDone`, `RestoreDone`).  In the others the operator stops
after a bounded number of commands, and a `consume` from Pulsar waits for
messages nobody writes.

### Findings

`collection_drop` shows one by a counterexample: `ListObj2Models` takes `keys[idx]`
although tombstones were left out of the objects, so `remove collection-drop --run`
can delete the key of a live collection.  The others were met while modelling;
`PROJECT.json` gives each with its line, and the properties name them where they
are exceptions.

Some are promises, of a comment or of a description of a command, that the models can
state and the code does not keep.  Their formulas are in the modules, next to the
property they are an exception of, with the remark that the code does not keep them.
TLC finds each violated when it takes the place of the properties of the
configuration:

| Configuration | Formulas that are violated |
|---|---|
| `EtcdBackup.cfg` | `EverythingStored` (a `PROPERTY`): all parts are in the file that is reported; `BackupEnds` with `PrefixFirst = 1` and `PrefixLast = 2`, so that a key is behind the prefix |
| `RemoveCommands.cfg` | `DropCleansSnapshots`, `LeakedPartitionsCleaned`: the snapshots of the collection key, the partitions of a leaked collection are cleaned |
| `RepairCommands.cfg` | `ResetsOwnTask`, `WatchSchemaOwn`: a reset task, a written schema is that of the object; `ReleaseAllReleases`: `force-release --all` releases; `EmptySegmentsOnly`: a removed segment was empty |
| `ShowCommands.cfg` | `ShownById`, `PartsOwn`, `CheckpointOwn`: an object looked up by id, the logs of a segment and fields of a collection, a channel checkpoint are its own; `UsersShown`; `SegmentIndexesListed` and `FieldFiltered`: the filters of `segment-index`; `RedundantShown` |
| `SegmentScan.cfg` | `LatestDeleteWins`, `RowGroupsChecked`, `SegmentDownloaded` |
| `Shell.cfg` | `WorkspacesWhole`: a backup that is called after an instance has all entries of its file |
| `StreamCommands.cfg` | `OwnCheckpoint`: `consume` starts at the checkpoint of its shard |

- *WAL scanner.*  `catchupScanner.Do` announces a backoff when the reader ends with
  an error but returns; the consumer waits on a channel nobody closes.
- *Backup and restore.*  `BackupKV` leaves its loop when `resp.Count == 0`, but with
  `WithFromKey` the count includes keys behind the prefix: it does not end, or
  divides by zero when the prefix is empty.  The `bufio.Writer` is flushed only
  inside `BackupKV`: metrics and configuration may be lost.
  `restoreEtcdFromBackV2` only prints a save that fails, and its workers and the
  command share `err`: a torn or partly saved file may be reported as loaded, and its
  workspace is named.  A damaged part header is taken for the end of the file.
- *Remove commands.*  `collection-drop` gives the snapshots of the collection key to
  `RemoveWithPrefix`, which adds a slash and leaves them; `collection-meta-leaked`
  looks for partitions where none are, and its walk over `datacoord-meta/s` also
  deletes `stats-task` keys; `remove compaction` and `remove stats-task` pass a whole
  key to `RemoveWithPrefix`, which deletes nothing on etcd; `remove segment` walks `s/`
  under the base path, where no segment is; what a collection created
  between two listings has is taken for a leak; a log that Milvus flushes after the
  second load of `remove binlog` is lost.
- *Repair commands.*  `repair checkpoint` ignores `--run`; `channel-watch` panics
  when the collection is gone, and writes fields of other collections;
  `wal-broadcast-task --mode reset` writes the task whose identifier goes on, and
  `--mode remove` removes nothing; `empty-segment` removes a segment whose logs could
  not be listed; `force-release --all` releases nothing; `segment-part-dropping`
  removes where it says "mark"; the components bypass the audit KV; the audit record
  "before" a save is written after it and holds the new value.
- *Show commands.*  Identifiers are looked up by open prefixes in several places; two
  filters of `segment-index` are wrong; `show user` lists where no user is; redundant
  rows of `wal-recovery-storage` are appended to a table that is already written;
  `show collections --id` prints a total of 0; `show replica` and `show replicate`
  panic on a missing collection and a missing configuration.
- *Shell.*  A pager that cannot start leaves the output in a pipe nobody reads;
  commands of connected states are not interrupted, and opening a workspace that is
  already served waits for ever; `dry-mode` and `use` put the client of a TiKV under
  the tag `etcd` as well; `disconnect` deletes an opened workspace; a workspace without
  readable meta file has no components; which of two states runs a command they both
  offer depends on the order of a map.
- *Scans.*  `--ignoreDelete` and the `--limit` of `scan-deltalog` change nothing; the
  error of a late worker is lost; the map of deletes is asked with the wrong key; rows
  of a v1 file with several row groups are lost; an empty object ends its segment
  without an error; `download-segment` leaves files without data; the parquet output of
  `check-partition-key` is never written.
- *Stream commands.*  `cmp_pchannels` of one channel name at two addresses compares
  one stream with itself; `consume` looks up a checkpoint by an open prefix, and from
  Pulsar never ends, as the last id it waits for is a constant; from Kafka it takes one
  message for an empty topic and dereferences nil when the watermarks cannot be asked.

## 4. What is proved

The theorems hold for every value of the constants that satisfies the named
assumptions (`MessageAssumption`, `TxnAssumption`, `ScannerAssumption`,
`FileAssumption`, `BackupAssumption`, `RestoreAssumption`, `KeyOrderAssumption`,
`LayoutAssumption`, `KeysAssumption`, `BeginsAssumption`, `IdsAssumption`,
`ValuesAssumption`, `PageSizeAssumption`, `InvocationsAssumption`, `StoresAssumption`,
`QueryCoordAssumption`, `SceneAssumption`, `NoMsgAssumption`, `LinesAssumption`), which TLC evaluates in every
run; they say that the attributes of messages have their types, that limits are
naturals, that markers (`NoMsg`, `Absent`) are no values, that `remove binlog` is given a
collection whose backup key is among the keys that can occur, that invocations are of
commands there are, that no key of Milvus begins with `queryCoord-` or `querycoord-` as
a whole component, and that the files that may be loaded have the shape `FileShape` that the backup command gives them
(`BackupCycleProofs` proves that it does, however it ends).
What the remove commands need of the keys is `LayoutAssumption` (ids, channels,
segments and snapshots of two collections differ, none is empty), `KeysAssumption`
(every key is of a kind the model knows) and `BeginsAssumption` (which of the fixed
parts of a path begin another: `s` begins `session`, `snapshots` and `stats-task`,
`collection` begins `collection-info`, and no others).  `LeaksCleaned` also needs
`IdsAssumption`: `collection-meta-leaked` keeps a key in which any component behind the
prefix is the id of a listed collection, so it finds every leak only because Milvus
gives no collection the id of a database, field, partition or segment.

`WalScannerProofs`: `TypeCorrect`, `InOrder`, `Confirmed`, `Watermark` and
`Refinement` (the scanner implements `OrderedStream`).  None of these is
inductive: that the user's sequence is sorted depends on what is still to come.
The inductive invariant `IInv` is the conjunction of

- `TypeOK`;
- `HeapInv`: nothing in the heap is below the last pop (`Push` refuses it), and
  once a time tick is drained everything left is above it;
- `ClockInv`: last pop, the tick in hand and the log's tick are in this order;
- `StreamInv`: delivered, pending and confirmed items *together* are sorted,
  below the horizon, below the heap, contain every accepted plain message that
  is not in the heap, respect the watermarks, and carry a transaction only under
  its commit.

From `IInv` it goes on with one invariant per question:

- `BackPressureHolds`: a time tick is taken only while the queue is not above its
  limit, and the queue does not grow until it is handled (`QueueInv`);
- `ReleasedLast`: the goroutines stop in the order producer, consumer, command
  (`StopOrder`);
- `Selection`: the heap, the open transactions and the stream hold only what the
  filter lets through (`SelectedInv`);
- `NothingStale`: follows from what clearing leaves and from the keepalive of a
  transaction growing with each message;
- `AtMostOnce`: what was popped is below what is in the heap and the last pop
  ended at a time tick (`PastInv`), so a copy of a message that is both in the heap
  and in the stream, or twice in the stream, is at a time tick (`RepeatInv`);
- `Atomic`: an open builder holds exactly the bodies popped since its begin, and
  no rollback (`TxnInv`).  It has the hypothesis `UniqueTimeTicks`, what Milvus
  promises of its log: a transaction is begun once and its messages share their
  time ticks neither with each other nor with a time tick message.  The proof does
  not go through without it, since the heap gives out equal time ticks in any
  order; TLC evaluates it in the runs of the scanner;
- `BytesAreExact`: the heap and the open transactions are finite, and a message in
  the heap has its id beside it, so that none is counted twice (`BytesInv`).  Each
  step changes the buffers in one of a few ways (`HeapStep`, ...) and the sums by what
  went in or out; that a sum over a finite set does not depend on the order of its
  members is proved there by induction over its size.

`BackupCycleProofs` has three parts.  The backup: `BackupTypeCorrect`, `BackupInvariant`, `BackupIsSnapshot`
and `BackupMissesNothing`.  The inductive invariant `BackupInv` is type
correctness with

- `Ordered` and `Sourced`: entries are in key order and come from a revision the
  backup may read;
- `CursorInv`: the cursor is behind everything copied and nothing steady before
  it is missing;
- `PageInv`: what is left of a page is the next keys from the cursor on, so that
  copying its least key skips nothing;
- `StopInv`: once the stopper is written all entries are in the file, and what
  may still be lost with the buffer is none.

Its load: `RestoreInvariance`, `RestoredFaithfully` and
`NothingSavedLate`.  What is in the embedded etcd when the command goes on
depends on batches that are with the reader, on the channel and with the workers.
`RestoreInv` is type correctness and the shape of the file with

- `PlaceInv`: where the command is in the file; behind the etcd part no entry
  follows, so what is skipped or read as metrics loses none;
- `HandInv`: nothing is in flight outside the etcd part, a worker that has returned
  holds nothing, and none returns while the reader still sends;
- `DataInv`: what flies is of the file, and what was read is saved or flies, unless
  a save failed;
- `NodesInv`: the nodes restored have their label and both texts.

The cycle: `CycleInvariance`, `CycleSnapshot`, `OnlyTheSnapshot` and
`RoundTripHolds`.  `CycleInv` joins `BackupInv` and `RestoreInv` over the file:
`ShapeInv` says what has been written at each place of the backup command, so that
every prefix of it, which is what a kill or the unflushed buffer leaves, satisfies
`FileShape`.  That a good backup loads as its snapshot then follows from
`SnapshotConsistent` and `RestoredExactly` and the stopper being in the file.

`ShellProofs`: `ShellInvariance`, `StatesStayUsable` and `WorkspacesStayLoaded`.
Both properties depend on who may touch a directory or close a client in the
middle of a line.  `ShellInv` is type correctness with

- `RegisteredInv`: a registered state has its client, and a backup its server on
  its own directory with the rows of its name; clients of stores are not servers,
  only the tag `etcd` has a backup, and clients of two tags are in `crossed`;
- `InDirInv`, `RemoveInv`: the directory a line fills, opens or removes is not that
  of a registered backup, because a server locks its directory;
- `NameInv`, `ServeInv`: the name of an instance is in `job` only once its load has
  come to the end, whole or short, or a meta file says so;
- `LoadedInv`: a directory that names an instance was loaded to the end from it, is
  torn, or is being removed by the running line;
- `RootInv`, `ByInv`, `DialInv`, `NextInv`: what a line has from its start and keeps
  for its end.

`RemoveCommandsProofs`: `DryInvariant`, `DryRun`, `BinlogInvariance` and
`LogsStayBackedUp`.  That a step of a dry command
keeps the store is not inductive: it depends on what earlier steps decided.
`DryInv` adds that the plan of a dry command, whenever it is carried out, is
empty or one save of a backup key (`DryPlan`), which rests on how a command gets
to the binlog steps and on `InvocationsAssumption`.  Every reading step goes
through `Decide`, which one lemma (`DecideDry`) settles.
`LogsBackedUp` needs to know, at the step that takes a log, what the backup was
saved from several calls earlier and what Milvus wrote since.  `BinlogInv` adds to
`DryInv` that the plan of a binlog command is one save of a value that covers the
field binlog, then (only if that save succeeded) one change of the field binlog
while the backup key covers it (`BinlogPlan`).  `MilvusLogs` says what each Milvus
step can do to the two keys, `BinlogKeys` that they are the keys of no other object;
`fresh` records the logs Milvus wrote, with their collection.

`CollectionRemovalProofs`: `LiveInvariant`, `LiveCollectionsKept`, `DropLeavesNothing`
and `NoLeakIsLeft`.  A removal happens
several calls after the listings that justify it, and Milvus goes on in between.
`LiveInv` adds to `DryInv`

- `ValuesSound`: what the life of a collection says about the values under its keys;
- `Places`: which command can be at which of its calls;
- `PlanSound`: no deletion still to be made hits a key that the command has to keep
  (a collection in `stable`, or for the commands that select by state any intact one);
- `SeenSound`, `DropsDropping`, `StableSeen`, `ListedSound`, `GroupSound`: what is in
  the listings of collections and segments, and that every stable collection is in
  them once the databases are read;
- `StableLive`: what the command has to keep only shrinks, and is live.

Under it are lemmas on paths (`KeysApart`: two objects never share a key; when a prefix
holds a key), on what a listing or a page of a walk returns, which are about sequences
of any length, and one lemma per action.

That a command has cleaned up when it is done depends on all it did before and on
Milvus not undoing it.  Over `LiveInv`, `DropInv` says that each collection
`collection-drop` chose is still in its list, or each of its keys is gone or hit by a
deletion still to be made, and that it is past returning (`MilvusGone`: Milvus writes
none of these keys again).  The keys are those a removal of `collection-drop` reaches
(`DropKinds`): the snapshots of the collection key, which it names and leaves, are the
finding above and not part of the theorem.  `LeaksInv` says the same of the keys that the walk of
`collection-meta-leaked` has passed (`Passed`, by prefix and place in the order of keys),
and that no dropped collection is in what it listed (`DroppedSound`).  That the next page
starts behind the last key of this one and skips none is `PageComplete`, for
any page size; it needs that a filter keeps the order of a sequence (`FilterOrder`).

`RepairCommandsProofs`: `AuditIsComplete`.  A change and its record are separate writes
with a header before and behind, any of which may fail, and a kill may come between any
two: at every moment at most the change in hand is without its record, and none once
the pieces of its call are written.  Changes whose answer was lost and records that
could not be written are excepted, since the code only prints these errors.  `AuditInv`
says that each missing change is among the pieces still to be written, that these are
of one key, and, for this to stay so, that the calls still on the stack can be shown
by the audit file (`OneKey`): a removal carries a value that its key had, and
by prefix a command removes only where no key is (`force-release --all`).  So each of
the calls a command may push is looked at.

`StreamCommandsProofs`: `StreamsExactTheorem`.  The invariant ties the position of every
scanner to the counters and flags of the round: the counter of a channel is the number
of messages carried up to its position, and a channel that is ready holds the
next of them (`MapsOK`, `CountersExact`).  `consumev2` and `consume` have invariants of
their own (`ReceiveInv`, `ConsumeInv`).

`SequenceFacts` holds the induction these rest on.  The library's induction
theorems take an operator, which the provers do not instantiate; here the numbers a
statement holds for are a set, and a set of naturals with 0 and with every successor is
all of them (`NatSetInduction`).  With it the recursive functions of `SequenceFolds`
exist and return what they should: a filter keeps exactly the selected
elements in their order, a concatenation the elements of its parts.

Type correctness of the scanner and of the backup is proved and left to the
proofs; no run repeats it.

*Only model-checked:* liveness (`CloseCompletes`, `ConfirmedDelivered`,
`BackupEnds`, `RestoreEnds`, `ScanReturns`, `LineReturns`, `DifferenceFound`),
which is out of the prover's reach; `CountExact`, `LocateExact` and
`ChecksExact` of the scans and `ListingExact` and `JoinExact` of the show commands, which
compare nested folds over files and listings with a definition; `WritesAreRepairs` and
`RemovalsAreJustified`, which are a case per repair command over everything it has read.

## 5. What is not modelled

- Printing, formatting, colours and help texts.
- Branches that call `DPanic` on a message that does not convert to its type,
  which the log's own types exclude.
- Torn writes of the `err` interface (two words): the model lets assignments
  interleave but each is atomic.
- Texts of nodes are taken as not empty.
- TiKV as a store (its `RemoveWithPrefix` adds no slash); the shell connects to it.
- `repair segment`, the `restore` commands, `show collection-history` and the old
  bulk insert listing, which are commented out in the source.
- Requests to nodes that only print the answer (`probe`, `balance-explain`,
  `distribution`, metrics, configurations): no state and no protocol of their own.
- Command history, completion, the configuration file, the web server.
- The encodings of fields in binlogs and of messages: values are opaque.
- What `show json-stats --detail` reads from object storage.
- The file `remove segment` writes before it deletes, its `maxNum`, and filters
  of commands other than by collection or channel.
- Client libraries (etcd, Pulsar, Kafka, MinIO, gRPC), modelled from their use.

The components with status `not_modelled` in `PROJECT.json` are calls of
libraries, data holders and printing.

## 6. Plan

1. `WritesAreRepairs` and `RemovalsAreJustified` for every store and command, by an
   invariant that ties the calls on the stack to what `ever` holds.
2. TiKV's prefix rule as a parameter of `MetaKV`.
3. The health checks that compare the views of nodes, as pure operators.
