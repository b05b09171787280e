---------------------------- MODULE SegmentScan -----------------------------
(***************************************************************************)
(* The commands that read the data of segments from the object store:      *)
(* scan-binlog with its pool of workers, scan-deltalog,                    *)
(* check-partition-key, download-pk and download-segment; and              *)
(* assemble-indexfiles, which reads a folder.                              *)
(*                                                                         *)
(* A command p is [name, action, limit, expr, ignoreDelete, fields,        *)
(* segment, partition, unhealthy, stopIfErr, format], where "" selects all *)
(* segments or partitions. scan-binlog reads the delete records of the L0   *)
(* segments, then a producer hands segments to workers over a channel      *)
(* without buffer; the first error of a worker goes into errCh, which the  *)
(* producer watches only while it has segments to hand over.               *)
(***************************************************************************)
EXTENDS SegmentReader, IndexFiles

CONSTANTS
    Segments,     \* the segments of the collection, in the order listed
    Partitions,   \* the ids of its partitions, in the order of their index
    KeyField,     \* its partition key field, an integer field
    Hash32Int64,  \* the hash of each partition key
    Commands,     \* the commands with their parameters
    Workers       \* the goroutines of scan-binlog

ASSUME WorkersAssumption == IsFiniteSet(Workers) /\ Workers # {}

VARIABLES
    p,         \* the command
    main,      \* [pc, queue, err, l0]: the goroutine that runs it
    worker,    \* [w] -> [pc, seg, del, rd, rec, batch, offset]
    errCh,     \* the error channel, of capacity 1
    closed,    \* taskCh is closed
    task       \* [counter, ids, dup, printed]: the shared ScanTask

vars == <<p, main, worker, errCh, closed, task>>

NoSegment == [id |-> "none"]

Idle == [pc |-> "idle", seg |-> NoSegment, del |-> <<>>, rd |-> NewReader,
         rec |-> <<>>, batch |-> 0, offset |-> 0]

-----------------------------------------------------------------------------
(* Which segments and fields. *)

Selected(seg) ==
    /\ p.segment \in {"", seg.id}
    /\ p.partition \in {"", seg.part} \/ p.name # "scan-binlog"
    /\ p.unhealthy \/ seg.state # "Dropped"

ScannedSegments == SelectSeq(Segments, Selected)

L0Segments     == SelectSeq(ScannedSegments, LAMBDA s : s.level = "L0")
NormalSegments == SelectSeq(ScannedSegments, LAMBDA s : s.level # "L0")

OutputFields == {TsField, PkField} \cup p.fields

-----------------------------------------------------------------------------
(* Delete records. The map is keyed by primary keys, and looked up by the  *)
(* timestamp, whose Go type differs from that of every key.                *)

Put(m, k, v) == [x \in DOMAIN m \cup {k} |-> IF x = k THEN v ELSE m[x]]

\* Mutant: a record does not replace the one before it.
FirstRecord(recs, pk) ==
    recs[CHOOSE i \in DOMAIN recs :
            /\ recs[i].pk = pk
            /\ \A j \in DOMAIN recs : recs[j].pk = pk => i <= j].ts

\* No timestamp is found among the keys, so each record replaces the one before
\* it: a key keeps the timestamp of its last record.
LastRecord(recs, pk) ==
    recs[CHOOSE i \in DOMAIN recs :
            /\ recs[i].pk = pk
            /\ \A j \in DOMAIN recs : recs[j].pk = pk => j <= i].ts

AddRecords(m, recs) ==
    LET pks == {recs[i].pk : i \in DOMAIN recs} IN
    [pk \in DOMAIN m \cup pks |->
        IF pk \in pks THEN LastRecord(recs, pk) ELSE m[pk]]

\* The first delta log that cannot be read ends the loop; the caller ignores
\* the error.
ReadableDeltas(paths) ==
    LET bad == {i \in DOMAIN paths : FirstDelta[paths[i]].err # ""}
        n   == IF bad = {} THEN Len(paths)
               ELSE (CHOOSE i \in bad : \A j \in bad : i <= j) - 1
    IN SubSeq(paths, 1, n)

RecordsIn(paths) ==
    FlattenSeq([i \in DOMAIN paths |-> FirstDelta[paths[i]].val])

AddDeltaRecords(seg, m) == AddRecords(m, RecordsIn(ReadableDeltas(seg.deltas)))

NoDeletes == [k \in {} |-> 0]

L0Deletes ==
    LET segs == L0Segments
        recs == [i \in DOMAIN segs |-> RecordsIn(ReadableDeltas(segs[i].deltas))]
    IN AddRecords(NoDeletes, FlattenSeq(recs))

-----------------------------------------------------------------------------
(* Filters of a row, in order: L0 deletes, the segment's deletes, expr.    *)

DeltalogFilter(del, row) ==
    LET pk == row[PkField]
    IN (IF pk \in DOMAIN del THEN del[pk] ELSE 0) <= row[TsField]

\* "v" stands for a Boolean expression over a field, "odd" for one that is not
\* Boolean.
ExprFilter(row) ==
    CASE p.expr = ""    -> "match"
      [] p.expr = "v"   -> IF KeyField \in DOMAIN row /\ row[KeyField] = 1
                           THEN "match" ELSE "no"
      [] p.expr = "odd" -> "fail"

Filter(w, row) ==
    IF ~DeltalogFilter(main.l0, row) \/ ~DeltalogFilter(worker[w].del, row)
    THEN "no"
    ELSE ExprFilter(row)

-----------------------------------------------------------------------------
(* The shared tasks, one atomic step per row.                              *)

NewTask == [counter |-> 0, ids |-> {}, dup |-> [k \in {} |-> 0], printed |-> {}]

CountScan(t) == [t EXCEPT !.counter = @ + 1]

DedupScan(t, pk) ==
    IF pk \notin t.ids THEN [t EXCEPT !.ids = @ \cup {pk}]
    ELSE [t EXCEPT !.counter = @ + 1,
                   !.dup = Put(@, pk, 1 + (IF pk \in DOMAIN @ THEN @[pk] ELSE 0))]

PastLimit(t) == t.counter + 1 > p.limit /\ p.limit > 0

LocateScan(t, entry) ==
    IF PastLimit(t) THEN [t EXCEPT !.counter = @ + 1]
    ELSE [t EXCEPT !.counter = @ + 1, !.printed = @ \cup {entry}]

-----------------------------------------------------------------------------
(* The main goroutine. *)

Init ==
    /\ p \in Commands
    /\ main = [pc |-> p.name, queue |-> <<>>, err |-> "", l0 |-> NoDeletes]
    /\ worker = [w \in Workers |-> Idle]
    /\ errCh = "" /\ closed = FALSE /\ task = NewTask

\* Before any file is read the collection, its primary key, its segments, the
\* client of the object store or the expression may fail.
StartFails ==
    /\ main.pc \in {"scan-binlog", "scan-deltalog", "check-partition-key",
                   "download-pk", "download-segment"}
    /\ main' = [main EXCEPT !.pc = "done", !.err = "fail"]
    /\ UNCHANGED <<p, worker, errCh, closed, task>>

\* Select the segments, choose the task, read the L0 deletes, start workers.
StartScan ==
    /\ main.pc = "scan-binlog"
    /\ IF p.action \notin {"count", "locate", "dedup"}
       THEN main' = [main EXCEPT !.pc = "done", !.err = "unknown action"]
       ELSE main' = [main EXCEPT !.pc = "produce", !.queue = NormalSegments,
                        !.l0 = L0Deletes]
    /\ UNCHANGED <<p, worker, errCh, closed, task>>

\* taskCh <- segment, which a waiting worker receives in the same step.
HandOver(w) ==
    /\ main.pc = "produce" /\ main.queue # <<>>
    /\ worker[w].pc = "idle"
    /\ worker' = [worker EXCEPT ![w] = [Idle EXCEPT !.pc = "delta",
                                                    !.seg = Head(main.queue)]]
    /\ main' = [main EXCEPT !.queue = Tail(@)]
    /\ UNCHANGED <<p, errCh, closed, task>>

\* Mutant: the producer only waits for a worker.
NoProducerError == FALSE

\* err = <-errCh ends the loop.
ProducerError ==
    /\ main.pc = "produce" /\ main.queue # <<>> /\ errCh # ""
    /\ main' = [main EXCEPT !.err = errCh, !.queue = <<>>]
    /\ errCh' = ""
    /\ UNCHANGED <<p, worker, closed, task>>

CloseTasks ==
    /\ main.pc = "produce" /\ main.queue = <<>>
    /\ closed' = TRUE
    /\ main' = [main EXCEPT !.pc = "wait"]
    /\ UNCHANGED <<p, worker, errCh, task>>

Summary ==
    /\ main.pc = "wait"
    /\ \A w \in Workers : worker[w].pc = "returned"
    /\ main' = [main EXCEPT !.pc = "done"]
    /\ UNCHANGED <<p, worker, errCh, closed, task>>

-----------------------------------------------------------------------------
(* A worker. *)

SetWorker(w, v) == worker' = [worker EXCEPT ![w] = v]

\* The segment ends without error: print progress and wait for the next one.
SegmentDone(w) == SetWorker(w, Idle) /\ UNCHANGED errCh

\* Any other error is offered to errCh and ends the worker.
SegmentFailed(w) ==
    /\ SetWorker(w, [worker[w] EXCEPT !.pc = "returned"])
    /\ errCh' = IF errCh = "" THEN "fail" ELSE errCh

LoadDeletes(w) ==
    /\ worker[w].pc = "delta"
    /\ SetWorker(w, [worker[w] EXCEPT
                        !.pc = "next",
                        !.del = AddDeltaRecords(worker[w].seg, NoDeletes)])
    /\ UNCHANGED <<p, main, errCh, closed, task>>

\* Mutant: the offset runs on from one batch to the next.
KeepOffset(w, rd) == worker[w].offset

OffsetAt(w, rd) == IF rd.batch # worker[w].batch THEN 0 ELSE worker[w].offset

\* A field without a column in the record is a nil column: the read panics and
\* takes the whole program with it.
ReadNext(w) ==
    /\ worker[w].pc = "next"
    /\ \E o \in NextRecord(worker[w].seg, OutputFields, worker[w].rd) :
        IF o.err = "panic" \/ \E i \in DOMAIN o.rec : ~OutputFields \subseteq DOMAIN o.rec[i]
        THEN /\ main' = [main EXCEPT !.pc = "panic"]
             /\ UNCHANGED <<worker, errCh>>
        ELSE /\ CASE o.err = "eof"  -> SegmentDone(w)
                  [] o.err = "fail" -> SegmentFailed(w)
                  [] o.err = ""     ->
                       /\ SetWorker(w, [worker[w] EXCEPT
                             !.pc = "row", !.rd = o.rd, !.rec = o.rec,
                             !.offset = OffsetAt(w, o.rd), !.batch = o.rd.batch])
                       /\ UNCHANGED errCh
             /\ UNCHANGED main
    /\ UNCHANGED <<p, closed, task>>

Entry(w) == [seg |-> worker[w].seg.id, batch |-> worker[w].batch,
             offset |-> worker[w].offset, row |-> Head(worker[w].rec)]

NextRow(w) ==
    SetWorker(w, [worker[w] EXCEPT
        !.pc = IF Len(worker[w].rec) = 1 THEN "next" ELSE "row",
        !.rec = Tail(@), !.offset = @ + 1])

\* Filters and the task on one row; the io.EOF of locate ends this segment only.
ScanRow(w) ==
    /\ worker[w].pc = "row"
    /\ LET row == Head(worker[w].rec)
           hit == Filter(w, row)
       IN CASE hit = "no" -> NextRow(w) /\ UNCHANGED <<task, errCh>>
            [] hit = "fail" -> SegmentFailed(w) /\ UNCHANGED task
            [] hit = "match" ->
                 CASE p.action = "count" ->
                        /\ task' = CountScan(task)
                        /\ NextRow(w) /\ UNCHANGED errCh
                   [] p.action = "dedup" ->
                        /\ task' = DedupScan(task, row[PkField])
                        /\ NextRow(w) /\ UNCHANGED errCh
                   [] p.action = "locate" ->
                        /\ task' = LocateScan(task, Entry(w))
                        /\ IF PastLimit(task) THEN SegmentDone(w)
                           ELSE NextRow(w) /\ UNCHANGED errCh
    /\ UNCHANGED <<p, main, closed>>

WorkerReturns(w) ==
    /\ worker[w].pc = "idle" /\ closed
    /\ SetWorker(w, [worker[w] EXCEPT !.pc = "returned"])
    /\ UNCHANGED <<p, main, errCh, closed, task>>

WorkerStep(w) ==
    /\ main.pc # "panic"
    /\ LoadDeletes(w) \/ ReadNext(w) \/ ScanRow(w) \/ WorkerReturns(w)

-----------------------------------------------------------------------------
(* scan-deltalog: one segment after the other, one file after the other.   *)

StartDeltaScan ==
    /\ main.pc = "scan-deltalog"
    /\ main' = [main EXCEPT !.pc = "deltas", !.queue = ScannedSegments]
    /\ UNCHANGED <<p, worker, errCh, closed, task>>

\* The records of a file that process is called for. Only $pk and $timestamp
\* are known to the expression: any other one stops the file.
DeltaHits(recs) ==
    CASE p.expr = ""   -> DOMAIN recs
      [] p.expr = "pk" -> {i \in DOMAIN recs : recs[i].pk = 1}
      [] OTHER         -> {}

\* What process returns, the limit of locate, is not looked at.
ProcessFile(t, path) ==
    LET recs == FirstDelta[path].val
        hits == DeltaHits(recs)
    IN [t EXCEPT !.counter = @ + Cardinality(hits),
                 !.printed = IF p.action = "count" THEN @
                    ELSE @ \cup {[log |-> path, offset |-> i - 1, row |-> recs[i]] :
                                    i \in hits}]

ProcessFiles(t, logs) ==
    LET after[i \in 0 .. Len(logs)] ==
            IF i = 0 THEN t ELSE ProcessFile(after[i - 1], logs[i])
    IN after[Len(logs)]

ScanDeltas ==
    /\ main.pc = "deltas" /\ main.queue # <<>>
    /\ LET seg  == Head(main.queue)
           logs == ReadableDeltas(seg.deltas)
           bad  == Len(logs) < Len(seg.deltas)
           hits == \E i \in DOMAIN logs :
                      DeltaHits(FirstDelta[logs[i]].val) # {}
       IN IF p.action \notin {"count", "locate"} /\ hits
          THEN main' = [main EXCEPT !.pc = "panic"] /\ UNCHANGED task
          ELSE /\ task' = ProcessFiles(task, logs)
               /\ main' = IF bad THEN [main EXCEPT !.pc = "done", !.err = "fail"]
                          ELSE [main EXCEPT !.queue = Tail(@)]
    /\ UNCHANGED <<p, worker, errCh, closed>>

EndCommand ==
    /\ main.pc \in {"deltas", "keys", "download"} /\ main.queue = <<>>
    /\ main' = [main EXCEPT !.pc = "done"]
    /\ UNCHANGED <<p, worker, errCh, closed, task>>

-----------------------------------------------------------------------------
(* check-partition-key: every live row lies in the partition its partition *)
(* key hashes to. It reads v1 files only and all events of a delta log.    *)

StartKeyCheck ==
    /\ main.pc = "check-partition-key"
    /\ main' = [main EXCEPT !.pc = "keys", !.queue = Segments]
    /\ UNCHANGED <<p, worker, errCh, closed, task>>

\* The index in the name of a partition; a partition that is not listed has 0.
PartIndex(part) ==
    IF Contains(Partitions, part)
    THEN (CHOOSE i \in DOMAIN Partitions : Partitions[i] = part) - 1
    ELSE 0

Misplaced(seg, key) == Hash32Int64[key] % Len(Partitions) # PartIndex(seg.part)

\* DownloadDeltalogs: a file that cannot be opened is left out, one that ends
\* in an error ends the command.
EventsOf(path) ==
    LET f == Object[path]
        ends == {n \in 1 .. Len(f.parts) + 1 : NextDeltaEvent(f, n).err # ""}
        stop == CHOOSE n \in ends : \A m \in ends : n <= m
    IN [recs |-> UNION {ToSet(DeltaRecords(NextDeltaEvent(f, n).val)) :
                           n \in 1 .. stop - 1},
        err  |-> NextDeltaEvent(f, stop).err]

\* Mutant: the deletes of the segment are left out.
DownloadNothing(seg) == [recs |-> {}, fail |-> FALSE]

DownloadDeltalogs(seg) ==
    LET opened == {path \in ToSet(seg.deltas) : OpenDelta(path)}
    IN [recs |-> UNION {EventsOf(path).recs : path \in opened},
        fail |-> \E path \in opened : EventsOf(path).err = "fail"]

LogOf(seg, field, b) ==
    LET i == CHOOSE i \in DOMAIN seg.binlogs : seg.binlogs[i].field = field
    IN seg.binlogs[i].logs[b]

Cell(c) == IF c = Zero THEN 0 ELSE c[1]

KeyColumns == {RowIDField, TsField, PkField, KeyField}

FieldsOf(seg) == {seg.binlogs[i].field : i \in DOMAIN seg.binlogs}

\* The fields whose files are read: json and parquet output take whole rows.
FieldsRead(seg) ==
    IF p.format \in {"stdout", "json-pk"} THEN FieldsOf(seg) \cap KeyColumns
                                          ELSE FieldsOf(seg)

BatchColumns(seg, b) ==
    [f \in FieldsRead(seg) |-> ReadData(Object[LogOf(seg, f, b)], 1)]

\* The misplaced rows of one batch: the first event of each of its files. A
\* batch with a file that fails is skipped. Only on stdout the batch ends at its
\* first misplaced row when stopIfErr is given.
WrongRows(seg, del, b) ==
    LET col == BatchColumns(seg, b)
        at(f, i) == Cell(col[f].val[i])
        live(i) == ~\E r \in del : r.pk = at(PkField, i) /\ at(TsField, i) < r.ts
        wrong == {i \in DOMAIN col[RowIDField].val :
                     live(i) /\ Misplaced(seg, at(KeyField, i))}
        found == IF p.stopIfErr /\ p.format = "stdout"
                 THEN {i \in wrong : \A j \in wrong : i <= j}
                 ELSE wrong
    IN IF \E f \in DOMAIN col : col[f].err # "" THEN {}
       ELSE {[seg |-> seg.id, batch |-> b, row |-> i, pk |-> at(PkField, i)] :
                i \in found}

\* The batches before the first file that does not open; the caller does not
\* learn that there were more.
BatchesRead(seg) ==
    LET n == IF PkField \in FieldsOf(seg)
             THEN Len(seg.binlogs[CHOOSE i \in DOMAIN seg.binlogs :
                                     seg.binlogs[i].field = PkField].logs)
             ELSE 0
        opens(b) == \A f \in FieldsRead(seg) : OpenObject(1, LogOf(seg, f, b)) = ""
    IN {b \in 1 .. n : \A c \in 1 .. b : opens(c)}

\* A segment without one of the four columns panics at the nil reader.
MissesColumn(seg) == PkField \in FieldsOf(seg) /\ ~KeyColumns \subseteq FieldsOf(seg)

\* The output file holds the rows of json and json-pk; those of parquet go into
\* a writer that is never written out.
Reported(rows) == IF p.format = "parquet" THEN {} ELSE rows

CheckSegment(seg) ==
    LET del  == DownloadDeltalogs(seg)
        rows == UNION {WrongRows(seg, del.recs, b) : b \in BatchesRead(seg)}
    IN CASE del.fail ->
              main' = [main EXCEPT !.pc = "done", !.err = "fail"] /\ UNCHANGED task
         [] ~del.fail /\ MissesColumn(seg) ->
              main' = [main EXCEPT !.pc = "panic"] /\ UNCHANGED task
         [] OTHER ->
              /\ task' = [task EXCEPT !.counter = @ + Cardinality(rows),
                                      !.printed = @ \cup Reported(rows)]
              /\ main' = [main EXCEPT !.queue =
                    IF p.stopIfErr /\ task'.counter > 0 THEN <<>> ELSE Tail(@)]

CheckKeys ==
    /\ main.pc = "keys" /\ main.queue # <<>>
    /\ IF Head(main.queue).state \in {"Dropped", "NotExist"}
       THEN main' = [main EXCEPT !.queue = Tail(@)] /\ UNCHANGED task
       ELSE CheckSegment(Head(main.queue))
    /\ UNCHANGED <<p, worker, errCh, closed>>

-----------------------------------------------------------------------------
(* download-pk and download-segment copy binlogs to files. GetObject fails *)
(* only later, in the copy, whose error is not returned.                   *)

StartDownload ==
    /\ main.pc \in {"download-pk", "download-segment"}
    /\ main' = [main EXCEPT !.pc = "download",
                  !.queue = SelectSeq(Segments, LAMBDA s :
                      p.segment = s.id \/ (p.segment = "" /\ p.name = "download-pk"))]
    /\ UNCHANGED <<p, worker, errCh, closed, task>>

DownloadLogs(seg) ==
    UNION {ToSet(seg.binlogs[i].logs) : i \in
              {j \in DOMAIN seg.binlogs :
                  p.name = "download-segment" \/ seg.binlogs[j].field = PkField}}

\* The path of a binlog begins with the word ROOT_PATH, which download-pk puts
\* the root path for. download-segment asks for an object of that very name.
Copied(log) == p.name = "download-pk" /\ log \notin Unreadable

Download ==
    /\ main.pc = "download" /\ main.queue # <<>>
    /\ LET seg   == Head(main.queue)
           files == {[seg |-> seg.id, log |-> log, whole |-> Copied(log)] :
                        log \in DownloadLogs(seg)}
       IN task' = [task EXCEPT !.counter = @ + Cardinality(files),
                               !.printed = @ \cup files]
    /\ main' = [main EXCEPT !.queue = Tail(@)]
    /\ UNCHANGED <<p, worker, errCh, closed>>

\* The file or the folder on the local disk cannot be created.
OutputFails ==
    /\ main.queue # <<>>
    /\ \/ main.pc = "download" /\ DownloadLogs(Head(main.queue)) # {}
       \/ /\ main.pc = "keys" /\ p.format # "stdout"
          /\ Head(main.queue).state \notin {"Dropped", "NotExist"}
    /\ main' = [main EXCEPT !.pc = "done", !.err = "fail"]
    /\ UNCHANGED <<p, worker, errCh, closed, task>>

-----------------------------------------------------------------------------
(* assemble-indexfiles. task.printed is what the output file holds.        *)

AssembleIndexFiles ==
    /\ main.pc = "assemble-indexfiles"
    /\ LET meta == TryParseSliceMeta
           data == SliceData(meta.val)
           bad  == {i \in DOMAIN data : data[i].err # ""}
           n    == IF bad = {} THEN Len(data)
                   ELSE (CHOOSE i \in bad : \A j \in bad : i <= j) - 1
       IN CASE meta.err # "" ->
                 main' = [main EXCEPT !.pc = "done", !.err = "fail"] /\ UNCHANGED task
            [] meta.err = "" /\ ~SlicesComplete(meta.val) ->
                 main' = [main EXCEPT !.pc = "done"] /\ UNCHANGED task
            [] OTHER ->
                 /\ task' = [task EXCEPT !.counter = n,
                                         !.printed = {<<i, data[i].val>> : i \in 1 .. n}]
                 /\ main' = [main EXCEPT !.pc = "done",
                               !.err = IF bad = {} THEN "" ELSE "fail"]
    /\ UNCHANGED <<p, worker, errCh, closed>>

-----------------------------------------------------------------------------

MainStep ==
    \/ StartFails \/ StartScan \/ ProducerError \/ CloseTasks \/ Summary
    \/ StartDeltaScan \/ ScanDeltas \/ EndCommand
    \/ StartKeyCheck \/ CheckKeys
    \/ StartDownload \/ Download \/ OutputFails \/ AssembleIndexFiles

Next == MainStep \/ \E w \in Workers : HandOver(w) \/ WorkerStep(w)

\* The Go scheduler runs every goroutine that can go on, and a select with a
\* ready case does not stay blocked.
Fairness ==
    /\ WF_vars(MainStep)
    /\ WF_vars(\E w \in Workers : HandOver(w))
    /\ \A w \in Workers : WF_vars(WorkerStep(w))

Spec == Init /\ [][Next]_vars /\ Fairness

-----------------------------------------------------------------------------
(* What the files hold, read off without any reader.                       *)

\* The value of a field in the n-th row of batch b.
BatchFiles(seg, b) == {seg.binlogs[i].logs[b] : i \in DOMAIN seg.binlogs}

FileRows(path) ==
    FlattenSeq([n \in DOMAIN Object[path].parts |->
                   FlattenSeq(Object[path].parts[n].groups)])

Stored(seg, b, n, f) ==
    LET path == CHOOSE path \in BatchFiles(seg, b) : Contains(Object[path].cols, f)
        c == CHOOSE c \in DOMAIN Object[path].cols : Object[path].cols[c] = f
    IN FileRows(path)[n][c]

Batches(seg) == IF seg.binlogs = <<>> THEN {} ELSE DOMAIN seg.binlogs[1].logs

Places(segs) ==
    UNION {UNION {{<<s, b, n>> : n \in DOMAIN FileRows(s.binlogs[1].logs[b])} :
                     b \in Batches(s)} : s \in segs}

DeletesIn(segs) ==
    UNION {UNION {ToSet(DeltaRecords(FileRows(d))) : d \in ToSet(s.deltas)} :
              s \in segs}

Live(pl, by) ==
    ~\E r \in DeletesIn(by) :
        /\ r.pk = Stored(pl[1], pl[2], pl[3], PkField)
        /\ r.ts > Stored(pl[1], pl[2], pl[3], TsField)

Sound(seg) ==
    \A path \in ToSet(seg.deltas) \cup UNION {BatchFiles(seg, b) : b \in Batches(seg)} :
        /\ path \notin Unreadable
        /\ Object[path].desc = ""
        /\ path \in ToSet(seg.deltas) \/ seg.version < 2 => Object[path].magic = ""
        /\ \A n \in DOMAIN Object[path].parts : Object[path].parts[n].cut = ""

AllSound == \A s \in ToSet(ScannedSegments) : Sound(s)

\* The rows scan-binlog is asked for.
Wanted ==
    {pl \in Places(ToSet(NormalSegments)) :
        /\ Live(pl, {pl[1]} \cup ToSet(L0Segments))
        /\ p.expr = "" \/ Stored(pl[1], pl[2], pl[3], KeyField) = 1}

PkAt(pl) == Stored(pl[1], pl[2], pl[3], PkField)

WantedWith(pk) == {pl \in Wanted : PkAt(pl) = pk}

Finished == main.pc = "done" /\ main.err = ""

\* Files with one event of one row group, as milvus writes them.
OneGroup(path) ==
    Len(Object[path].parts) = 1 /\ Len(Object[path].parts[1].groups) = 1

\* The delete records are read in the order of their timestamps, those of the L0
\* segments and those of each other segment.
InOrder(recs) ==
    \A i, j \in DOMAIN recs : i < j /\ recs[i].pk = recs[j].pk => recs[i].ts <= recs[j].ts

DeletesInOrder ==
    /\ \A s \in ToSet(ScannedSegments) : \A d \in ToSet(s.deltas) : OneGroup(d)
    /\ \A s \in ToSet(NormalSegments) : InOrder(RecordsIn(s.deltas))
    /\ InOrder(FlattenSeq([i \in DOMAIN L0Segments |-> RecordsIn(L0Segments[i].deltas)]))

Duplicates(pk) == IF pk \in DOMAIN task.dup THEN task.dup[pk] ELSE 0

ScanFinished == Finished /\ p.name = "scan-binlog" /\ AllSound /\ p.expr # "odd"

\* scan-binlog counts the live rows that match the expression, each once, and
\* finds as many duplicates of a key as it has live rows beyond the first, in
\* whichever order the workers read the segments, when the files are sound, the
\* expression is Boolean and the delete records of a key are read in time order.
\* In any other order, or from a delta log with several events, it may count
\* rows that are deleted, but never leaves a live one out.
CountExact ==
    ScanFinished =>
        /\ p.action = "count" =>
             /\ task.counter >= Cardinality(Wanted)
             /\ DeletesInOrder => task.counter = Cardinality(Wanted)
        /\ p.action = "dedup" =>
             \A pk \in {PkAt(pl) : pl \in Wanted} :
                /\ 1 + Duplicates(pk) >= Cardinality(WantedWith(pk))
                /\ DeletesInOrder => 1 + Duplicates(pk) = Cardinality(WantedWith(pk))

\* The delete record with the largest timestamp decides whether a row is live,
\* in whichever order the records of its key are read: the map from key to
\* timestamp of scan-binlog is there to keep the largest. The code looks up the
\* timestamp in it instead of the key.
\* The code does not keep it: see the findings.
LatestDeleteWins ==
    (ScanFinished /\ p.action = "count") => task.counter = Cardinality(Wanted)

\* An entry that locate prints names the segment, the batch and the place of
\* the file at which that row is stored, never more entries than the limit are
\* printed, and none is left out while they stay below it; with the deletes in
\* time order the entries are exactly the live rows.
LocateExact ==
    (p.name = "scan-binlog" /\ p.action = "locate") =>
        /\ \A e \in task.printed :
             \E pl \in Places(ToSet(NormalSegments)) :
                /\ pl[1].id = e.seg /\ pl[2] = e.batch /\ pl[3] = e.offset + 1
                /\ \A f \in OutputFields : Stored(pl[1], pl[2], pl[3], f) = e.row[f]
        /\ p.limit > 0 => Cardinality(task.printed) <= p.limit
        /\ ScanFinished =>
             \/ p.limit > 0 /\ Cardinality(task.printed) = p.limit
             \/ /\ Cardinality(task.printed) >= Cardinality(Wanted)
                /\ DeletesInOrder => Cardinality(task.printed) = Cardinality(Wanted)

\* The delete records scan-deltalog is asked for, with their places.
WantedDeletes ==
    LET logs == UNION {ToSet(s.deltas) : s \in ToSet(ScannedSegments)}
        recs == [d \in logs |-> DeltaRecords(FileRows(d))]
    IN {e \in UNION {{[log |-> d, offset |-> i - 1, row |-> recs[d][i]] :
                        i \in DOMAIN recs[d]} : d \in logs} :
           p.expr = "" \/ e.row.pk = 1}

\* scan-deltalog counts, or prints, exactly the delete records that match, of
\* sound delta logs with one event. Its --limit changes nothing.
DeltasExact ==
    (p.name = "scan-deltalog" /\ AllSound /\ p.expr \in {"", "pk"} /\
     \A s \in ToSet(ScannedSegments) : \A d \in ToSet(s.deltas) : OneGroup(d)) =>
        /\ task.counter = Cardinality(WantedDeletes)
        /\ p.action = "locate" => task.printed = WantedDeletes

\* The live rows of a set of segments in another partition than their key's.
WrongPlaces(segs) ==
    {pl \in Places(segs) :
        Live(pl, {pl[1]}) /\ Misplaced(pl[1], Stored(pl[1], pl[2], pl[3], KeyField))}

WrongEntries(segs) ==
    {[seg |-> pl[1].id, batch |-> pl[2], row |-> pl[3], pk |-> PkAt(pl)] :
        pl \in WrongPlaces(segs)}

Checkable ==
    {s \in ToSet(Segments) :
        s.state \notin {"Dropped", "NotExist"} /\ s.version < 2 /\ Sound(s)}

Simple ==
    {s \in Checkable :
        \A b \in Batches(s) : \A path \in BatchFiles(s, b) : OneGroup(path)}

\* check-partition-key reports, in every format but parquet, exactly the live
\* rows of sound v1 segments that lie in another partition than their key's, if
\* the files have one event of one row group; with stopIfErr only such rows, and
\* at least one if there is one.
KeysExact ==
    (p.name = "check-partition-key" /\ p.format # "parquet") =>
        LET wrong == WrongEntries(Simple)
            named == {e \in task.printed : \E s \in Simple : s.id = e.seg}
        IN /\ named \subseteq wrong
           /\ ~p.stopIfErr => named = wrong
           /\ (p.stopIfErr /\ wrong # {}) => task.printed # {}

\* check-partition-key finds the misplaced rows of v1 files with several row
\* groups too: the scan it is built on is of the segment. readPayloadAll puts
\* every row group at the same place, so that rows are lost.
\* The code does not keep it: see the findings.
RowGroupsChecked ==
    (Finished /\ p.name = "check-partition-key" /\ ~p.stopIfErr
        /\ p.format # "parquet") =>
            WrongEntries(Checkable) \subseteq task.printed

Asked ==
    {s \in ToSet(Segments) :
        p.segment = s.id \/ (p.segment = "" /\ p.name = "download-pk")}

\* The two downloads leave a file for each log they were asked for and no other,
\* and that of download-pk is whole when the object can be read.
DownloadsExact ==
    p.name \in {"download-pk", "download-segment"} =>
        /\ {[seg |-> f.seg, log |-> f.log] : f \in task.printed} =
              UNION {{[seg |-> s.id, log |-> log] : log \in
                        UNION {ToSet(s.binlogs[i].logs) : i \in
                          {j \in DOMAIN s.binlogs : p.name = "download-segment"
                                              \/ s.binlogs[j].field = PkField}}} :
                        s \in Asked}
        /\ p.name = "download-pk" =>
             \A f \in task.printed : f.log \notin Unreadable => f.whole

\* download-segment downloads the files of the segment: each it can read, whole.
\* The code does not keep it: see the findings.
SegmentDownloaded ==
    (Finished /\ p.name = "download-segment") =>
        \A f \in task.printed : f.log \notin Unreadable => f.whole

\* An assembled index file with slices in it holds every slice, in order.
SlicesExact ==
    (p.name = "assemble-indexfiles" /\ task.counter > 0) =>
        task.printed = {<<i, Folder[<<"ivf", i - 1>>].data[1]>> :
                           i \in 1 .. TryParseSliceMeta.val.num}

\* What the one-goroutine commands report when they end without an error is what
\* the files hold: see DeltasExact, KeysExact, DownloadsExact and SlicesExact for
\* what that is and where it stops.
ChecksExact ==
    Finished => DeltasExact /\ KeysExact /\ DownloadsExact /\ SlicesExact

\* The command comes to an end, or to the panic of a missing column, also when
\* workers stop at an error while segments remain to be handed over.
ScanReturns == <>(main.pc \in {"done", "panic"})
=============================================================================
