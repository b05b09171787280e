----------------------------- MODULE BackupCycle ----------------------------
(***************************************************************************)
(* A backup and the loading of the file it leaves behind, whatever became  *)
(* of the backup: finished, failed halfway, crashed or killed.             *)
(***************************************************************************)
EXTENDS EtcdBackup, EtcdRestore

backupOnly == <<storeVars, bpc, inPart, todo, cursorVars, buffer, backupErr>>
restoreOnly == <<lpc, pos, partCnt, readVars, workerVars, err, target, nodes, historyVars>>
cycleVars == <<backupVars, restoreOnly>>

CycleInit == BackupInit /\ RestoreInit

CycleNext ==
  \/ (Milvus \/ BackupCommand \/ Kill) /\ UNCHANGED restoreOnly
  \/ BackupOver /\ RestoreStep /\ UNCHANGED backupOnly
  \/ LoadOver /\ UNCHANGED cycleVars

CycleSpec == CycleInit /\ [][CycleNext]_cycleVars

Snapshot == [k \in Key |-> IF k \in InPrefix THEN revs[rev][k] ELSE Absent]

(* A backup that reported no error, loaded without a failing save, gives back
   exactly the metadata of the revision it was taken at: page boundaries,
   concurrent changes, the lost tail of the file and the order in which the
   workers save make no difference. *)
RoundTrip ==
  (bpc = "ended" /\ ~backupErr /\ ~IgnoreRevision /\ lpc = "loaded" /\ ~saveFailed) =>
    target = Snapshot

(* Whatever happened to the backup, no key of another instance is loaded, and
   no value but the one its key had at the revision of the count. *)
NothingForeign ==
  ~IgnoreRevision => \A k \in Key : target[k] \in {Absent, Snapshot[k]}
=============================================================================
