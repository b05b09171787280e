----------------------------- MODULE EtcdRestore ----------------------------
(***************************************************************************)
(* load-backup (states/load_backup.go, etcd_restore.go): a file of version *)
(* 2 is read part by part into an embedded etcd.  The entries of the etcd  *)
(* part are read by one goroutine, which hands batches over a channel of   *)
(* limited capacity to workers that save them; the main goroutine takes    *)
(* the reader's verdict from errCh and waits for the workers.  The workers *)
(* and the main goroutine assign the same variable err, unsynchronized.    *)
(***************************************************************************)
EXTENDS BackupFile

CONSTANTS
  Worker,        \* the worker goroutines
  BatchNum,      \* entries in a batch
  ChanCap,       \* capacity of ch
  SaveMayFail,   \* whether the embedded etcd may refuse or time out
  Files          \* the files that may be loaded

(* Position i of f is in a part of metrics. *)
InMetrics(f, i) ==
  \E p \in 1..(i - 1) : /\ f[p].kind = "part" /\ f[p].type = "metrics"
                        /\ \A q \in (p + 1)..i : f[q].kind \in {"session", "blob"}

(* What the backup command leaves behind, complete or cut short: a file of
   version 1 has only entries behind its header, and in one of version 2 the
   entries follow the header of the etcd part, which comes first.  No key
   comes twice, and the label of a node in the metrics is followed by two
   texts unless the file ends. *)
FileShape(f) ==
  /\ \A i \in 1..Len(f) : (f[i].kind = "version") <=> (i = 1)
  /\ \A i \in 2..Len(f) : f[1].version = 1 => f[i].kind = "entry"
  /\ \A i \in 1..Len(f) : (f[i].kind = "part" /\ f[i].type = "etcd") => i = 2
  /\ \A i \in 1..Len(f) : (f[1].version # 1 /\ f[i].kind = "entry") =>
       /\ i > 2 /\ f[2].kind = "part" /\ f[2].type = "etcd"
       /\ \A j \in 3..i : f[j].kind = "entry"
  /\ \A i, j \in 1..Len(f) :
       (f[i].kind = "entry" /\ f[j].kind = "entry" /\ f[i].key = f[j].key) => i = j
  /\ \A i \in 1..(Len(f) - 2) : (f[i].kind = "session" /\ InMetrics(f, i)) =>
       f[i + 1] = Blob /\ f[i + 2] = Blob

ASSUME RestoreAssumption ==
  /\ \A f \in Files : f \in Seq(Record) /\ FileShape(f)
  /\ Worker # {} /\ BatchNum \in Nat \ {0, 1} /\ ChanCap \in Nat \ {0}
  /\ SaveMayFail \in BOOLEAN

VARIABLES
  lpc,         \* where the command's goroutine is
  pos,         \* records read
  partCnt,     \* the count in the header of the etcd part
  reader,      \* where the reading goroutine is
  batch,       \* the batch it is filling
  ch,          \* batches on their way to the workers
  errCh,       \* the reader's verdict
  alive,       \* the workers that have not returned
  held,        \* the batch each worker is saving
  err,         \* the shared variable
  target,      \* the embedded etcd
  nodes,       \* nodes whose metrics were restored
  readFailed,  \* history: the reader met an error
  saveFailed   \* history: a save has failed

readVars == <<reader, batch, ch, errCh>>
workerVars == <<alive, held>>
historyVars == <<readFailed, saveFailed>>
restoreVars == <<lpc, pos, partCnt, readVars, workerVars, err, target, nodes, historyVars,
                 file, torn>>

NoEntry == << >>
NoBatch == << >>
LoadPC == {"version", "v1", "header", "etcd", "wait", "metrics", "loaded", "failed", "panicked"}
LoadOver == lpc \in {"loaded", "failed", "panicked"}

RestoreInit ==
  /\ lpc = "version" /\ pos = 0 /\ partCnt = 0
  /\ reader = "closed" /\ batch = << >> /\ ch = << >> /\ errCh = << >>
  /\ alive = {} /\ held = [w \in Worker |-> NoBatch] /\ err = FALSE
  /\ target = [k \in Key |-> Absent] /\ nodes = {}
  /\ readFailed = FALSE /\ saveFailed = FALSE

AtEnd == pos = Len(file)
NextRecord == file[pos + 1]
Is(kinds) == ~AtEnd /\ NextRecord.kind \in kinds

(* Slips the properties must catch: the last batch not sent, no waiting for
   the workers, metrics read again at the end of the file. *)
CloseUnflushed ==
  /\ reader = "flush"
  /\ batch' = << >>
  /\ reader' = "closed"
  /\ UNCHANGED <<lpc, pos, partCnt, ch, errCh, workerVars, err, target, nodes, historyVars, file,
                 torn>>
NotWaiting ==
  /\ lpc = "wait"
  /\ lpc' = IF err THEN "failed" ELSE "header"
  /\ UNCHANGED <<pos, partCnt, readVars, workerVars, err, target, nodes, historyVars, file, torn>>
EndMetricsAtStop ==
  /\ lpc = "metrics"
  /\ ~(Is({"session"}) /\ pos + 3 <= Len(file))
  /\ \/ /\ Is({"stop"})
        /\ lpc' = "header" /\ pos' = pos + 1
     \/ ~Is({"stop"}) /\ UNCHANGED <<lpc, pos>>
  /\ UNCHANGED <<partCnt, readVars, workerVars, err, target, nodes, historyVars, file, torn>>

-----------------------------------------------------------------------------
(* LoadBackupCommand reads the header of the file. *)

ReadVersion ==
  /\ lpc = "version"
  /\ \/ /\ AtEnd
        /\ lpc' = "failed"
        /\ UNCHANGED <<pos, partCnt>>
     \/ /\ ~AtEnd
        /\ lpc' = IF NextRecord.version = 1 THEN "v1" ELSE "header"
        /\ partCnt' = NextRecord.cnt
        /\ pos' = 1
  /\ UNCHANGED <<readVars, workerVars, err, target, nodes, historyVars, file, torn>>

(* restoreFromV1File saves the entries one by one. *)
RestoreV1 ==
  /\ lpc = "v1"
  /\ \/ /\ AtEnd
        /\ lpc' = IF torn THEN "failed" ELSE "loaded"
        /\ UNCHANGED <<pos, target>>
     \/ /\ ~AtEnd
        /\ pos' = pos + 1
        /\ target' = [target EXCEPT ![NextRecord.key] = NextRecord.value]
        /\ lpc' = IF partCnt = 0 THEN "panicked" ELSE "v1"
     \/ /\ ~AtEnd /\ SaveMayFail
        /\ pos' = pos + 1
        /\ target' \in {target, [target EXCEPT ![NextRecord.key] = NextRecord.value]}
        /\ lpc' = "failed"
  /\ UNCHANGED <<partCnt, readVars, workerVars, err, nodes, historyVars, file, torn>>

-----------------------------------------------------------------------------
(* restoreV2File reads part headers. *)

(* A header that cannot be read is taken for the end of the file: the file is
   at its end, the record is no message of this type, or rd.Read gave fewer
   than eight bytes. *)
HeaderFails ==
  /\ lpc = "header"
  /\ \/ AtEnd
     \/ Is({"session", "blob"})
     \/ pos > 1
  /\ lpc' = "loaded"
  /\ UNCHANGED <<pos, partCnt, readVars, workerVars, err, target, nodes, historyVars, file, torn>>

(* The bodies of the parts "config" and "app" are not read, and neither is a
   part of no type, which is what a stopper or an entry is read as. *)
SkipHeader ==
  /\ lpc = "header"
  /\ Is({"part", "stop", "entry", "blob"})
  /\ NextRecord.kind = "part" => NextRecord.type \in {"config", "app"}
  /\ pos' = pos + 1
  /\ UNCHANGED <<lpc, partCnt, readVars, workerVars, err, target, nodes, historyVars, file, torn>>

StartMetrics ==
  /\ lpc = "header"
  /\ Is({"part"}) /\ NextRecord.type = "metrics"
  /\ pos' = pos + 1
  /\ lpc' = "metrics"
  /\ UNCHANGED <<partCnt, readVars, workerVars, err, target, nodes, historyVars, file, torn>>

(* restoreMetrics: a session with its two records, or the part's end. *)
RestoreNode ==
  /\ lpc = "metrics"
  /\ Is({"session"})
  /\ pos + 3 <= Len(file)
  /\ nodes' = nodes \cup {NextRecord.session}
  /\ pos' = pos + 3
  /\ UNCHANGED <<lpc, partCnt, readVars, workerVars, err, target, historyVars, file, torn>>

EndMetrics ==
  /\ lpc = "metrics"
  /\ ~(Is({"session"}) /\ pos + 3 <= Len(file))
  /\ lpc' = "header"
  /\ pos' = IF AtEnd \/ Is({"session"}) THEN Len(file) ELSE pos + 1
  /\ UNCHANGED <<partCnt, readVars, workerVars, err, target, nodes, historyVars, file, torn>>

StartEtcd ==
  /\ lpc = "header"
  /\ Is({"part"}) /\ NextRecord.type = "etcd"
  /\ pos' = pos + 1
  /\ partCnt' = NextRecord.cnt
  /\ lpc' = "etcd"
  /\ reader' = "read"
  /\ alive' = Worker
  /\ UNCHANGED <<batch, ch, errCh, held, err, target, nodes, historyVars, file, torn>>

-----------------------------------------------------------------------------
(* The reading goroutine. *)

(* An entry; the header of another part has an entry's fields, all empty, and
   so may what a node answered.  Other records are skipped. *)
AsEntry(r) ==
  CASE r.kind = "entry" -> {<<r.key, r.value>>}
    [] r.kind = "part" -> {<<EmptyKey, Absent>>}
    [] r.kind = "blob" -> {<<EmptyKey, Absent>>, NoEntry}
    [] OTHER -> {NoEntry}

ReadEntry ==
  /\ reader = "read"
  /\ ~AtEnd /\ ~Is({"stop"})
  /\ pos' = pos + 1
  /\ \E e \in AsEntry(NextRecord) :
       \/ /\ e = NoEntry
          /\ UNCHANGED <<reader, batch>>
       \/ /\ e # NoEntry /\ partCnt # 0
          /\ batch' = Append(batch, e)
          /\ reader' = IF Len(batch) + 1 >= BatchNum THEN "send" ELSE "read"
  /\ UNCHANGED <<lpc, partCnt, ch, errCh, workerVars, err, target, nodes, historyVars, file, torn>>

(* Without a count in the header the first entry is a division by zero, which
   ends the process with all its goroutines. *)
ReadPanics ==
  /\ reader = "read"
  /\ ~AtEnd /\ ~Is({"stop"})
  /\ AsEntry(NextRecord) # {NoEntry} /\ partCnt = 0
  /\ lpc' = "panicked"
  /\ reader' = "closed"
  /\ alive' = {}
  /\ UNCHANGED <<pos, partCnt, batch, ch, errCh, held, err, target, nodes, historyVars, file, torn>>

Room == Len(ch) < ChanCap

SendBatch ==
  /\ reader = "send"
  /\ Room
  /\ ch' = Append(ch, batch)
  /\ batch' = << >>
  /\ reader' = "read"
  /\ UNCHANGED <<lpc, pos, partCnt, errCh, workerVars, err, target, nodes, historyVars, file, torn>>

(* The stopper, the end of the file, or an error: the verdict goes out before
   the last batch. *)
StopReading ==
  /\ reader = "read"
  /\ AtEnd \/ Is({"stop"})
  /\ pos' = IF AtEnd THEN pos ELSE pos + 1
  /\ readFailed' = (AtEnd /\ torn)
  /\ errCh' = Append(errCh, readFailed')
  /\ reader' = "flush"
  /\ UNCHANGED <<lpc, partCnt, batch, ch, workerVars, err, target, nodes, saveFailed, file, torn>>

CloseChan ==
  /\ reader = "flush"
  /\ \/ batch = << >> /\ UNCHANGED ch
     \/ batch # << >> /\ Room /\ ch' = Append(ch, batch)
  /\ batch' = << >>
  /\ reader' = "closed"
  /\ UNCHANGED <<lpc, pos, partCnt, errCh, workerVars, err, target, nodes, historyVars, file, torn>>

-----------------------------------------------------------------------------
(* The workers. *)

TakeBatch(w) ==
  /\ w \in alive /\ held[w] = NoBatch
  /\ ch # << >>
  /\ held' = [held EXCEPT ![w] = Head(ch)]
  /\ ch' = Tail(ch)
  /\ UNCHANGED <<lpc, pos, partCnt, reader, batch, errCh, alive, err, target, nodes,
                 historyVars, file, torn>>

KeysOf(b) == {b[i][1] : i \in 1..Len(b)}
Saved(b) ==
  [k \in Key |-> IF k \in KeysOf(b) THEN b[CHOOSE i \in 1..Len(b) : b[i][1] = k][2]
                                    ELSE target[k]]

(* MultiSave is one transaction; an empty key fails it.  A save that timed
   out may have been applied. *)
SaveBatch(w) ==
  /\ held[w] # NoBatch
  /\ held' = [held EXCEPT ![w] = NoBatch]
  /\ \/ /\ EmptyKey \notin KeysOf(held[w])
        /\ target' = Saved(held[w])
        /\ err' = FALSE
        /\ UNCHANGED saveFailed
     \/ /\ \/ EmptyKey \in KeysOf(held[w]) /\ UNCHANGED target
           \/ /\ EmptyKey \notin KeysOf(held[w]) /\ SaveMayFail
              /\ target' \in {target, Saved(held[w])}
        /\ err' = TRUE
        /\ saveFailed' = TRUE
  /\ UNCHANGED <<lpc, pos, partCnt, readVars, alive, nodes, readFailed, file, torn>>

WorkerDone(w) ==
  /\ w \in alive /\ held[w] = NoBatch
  /\ ch = << >> /\ reader = "closed"
  /\ alive' = alive \ {w}
  /\ UNCHANGED <<lpc, pos, partCnt, readVars, held, err, target, nodes, historyVars, file, torn>>

-----------------------------------------------------------------------------
(* The command's goroutine in restoreEtcdFromBackV2. *)

TakeVerdict ==
  /\ lpc = "etcd"
  /\ errCh # << >>
  /\ err' = Head(errCh)
  /\ errCh' = Tail(errCh)
  /\ lpc' = "wait"
  /\ UNCHANGED <<pos, partCnt, reader, batch, ch, workerVars, target, nodes, historyVars, file,
                 torn>>

(* An error ends the command, which closes and removes the embedded etcd. *)
WorkersGone ==
  /\ lpc = "wait"
  /\ alive = {}
  /\ lpc' = IF err THEN "failed" ELSE "header"
  /\ UNCHANGED <<pos, partCnt, readVars, workerVars, err, target, nodes, historyVars, file, torn>>

-----------------------------------------------------------------------------
LoadCommand ==
  \/ ReadVersion \/ RestoreV1
  \/ HeaderFails \/ SkipHeader \/ StartMetrics \/ RestoreNode \/ EndMetrics
  \/ StartEtcd \/ TakeVerdict \/ WorkersGone

Reader == ReadEntry \/ ReadPanics \/ SendBatch \/ StopReading \/ CloseChan

RestoreStep ==
  LoadCommand \/ Reader \/ \E w \in Worker : TakeBatch(w) \/ SaveBatch(w) \/ WorkerDone(w)

RestoreDone == LoadOver /\ UNCHANGED restoreVars

RestoreNext == RestoreStep \/ RestoreDone

FileInit == file \in Files /\ torn \in BOOLEAN /\ RestoreInit

RestoreSpec == FileInit /\ [][RestoreNext]_restoreVars

(* Every goroutine that can go on does. *)
FairRestoreSpec ==
  /\ RestoreSpec
  /\ WF_restoreVars(LoadCommand) /\ WF_restoreVars(Reader)
  /\ \A w \in Worker : WF_restoreVars(TakeBatch(w) \/ SaveBatch(w) \/ WorkerDone(w))

-----------------------------------------------------------------------------
(* Properties. *)

(* Nothing is written to the embedded etcd once restoreEtcdFromBackV2 has
   returned: the last batch is sent after the verdict, and wg.Wait holds the
   command back until it is saved. *)
NoLateSave == [][lpc \notin {"v1", "etcd", "wait"} => UNCHANGED target]_restoreVars

EntryOf(k) == \E i \in 1..Len(file) : file[i] = Entry(k, target[k])

(* What is restored is what the file says, and what the file says and the
   reader has read is restored, unless a save failed: batches are neither
   lost nor mixed up between the goroutines.  The metrics of a node are
   restored only as a whole, label and both texts. *)
RestoredExactly ==
  /\ \A k \in Key : target[k] # Absent => EntryOf(k)
  /\ (lpc \in {"header", "metrics", "loaded"} /\ ~saveFailed) =>
       \A i \in 1..pos : file[i].kind = "entry" => target[file[i].key] = file[i].value
  /\ \A s \in nodes : \E i \in 1..(pos - 2) :
       file[i] = NodeLabel(s) /\ file[i + 1] = Blob /\ file[i + 2] = Blob

(* The command returns: no goroutine waits for ever on ch, errCh or the
   wait group. *)
RestoreEnds == <>LoadOver
=============================================================================
