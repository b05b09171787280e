------------------------------ MODULE EtcdBackup ----------------------------
(***************************************************************************)
(* The backup command (states/etcd_backup.go) over etcdKV.BackupKV         *)
(* (states/kv/kv.go): it counts the keys, which fixes a revision, copies   *)
(* them page by page, and appends what the nodes say of themselves.        *)
(* Meanwhile milvus changes its metadata and etcd compacts its history.    *)
(* Everything is written through a bufio.Writer: buffer is what it holds.  *)
(***************************************************************************)
EXTENDS BackupFile

CONSTANTS
  BatchSize,       \* --batchSize
  IgnoreRevision,  \* --ignoreRevision
  MaxRev           \* bound: revisions of the store in one behaviour

ASSUME BackupAssumption ==
  BatchSize \in Nat \ {0} /\ IgnoreRevision \in BOOLEAN /\ MaxRev \in Nat

VARIABLES
  revs,        \* the store at every revision
  compacted,   \* revisions below are gone
  bpc,         \* where the command is
  inPart,      \* the header of the part bpc names is written
  todo,        \* the nodes the current part has still to ask
  rev, cnt,    \* revision and number of keys of the count
  currentKey,  \* where the next page starts
  pageRev,     \* the revision the current page was read at
  page,        \* the keys of the page that are still to be written
  buffer,
  backupErr    \* BackupKV has returned an error

storeVars == <<revs, compacted>>
cursorVars == <<rev, cnt, currentKey, pageRev, page>>
fileVars == <<buffer, file, torn>>
backupVars == <<storeVars, bpc, inPart, todo, cursorVars, fileVars, backupErr>>

Following == [metrics |-> "config", config |-> "app", app |-> "close"]
BackupPC ==
  {"count", "fetch", "copy", "close", "ended", "panicked", "killed"} \cup NodeParts
Copying == bpc \in {"count", "fetch", "copy"}
BackupOver == bpc \in {"ended", "panicked", "killed"}

Present(s) == {k \in Key : s[k] # Absent}
Written == file \o buffer

(* The command has opened its file and written the version. *)
BackupInit ==
  /\ \E s \in Store : revs = <<s>>
  /\ compacted = 1
  /\ bpc = "count" /\ inPart = FALSE /\ todo = {}
  /\ rev = 1 /\ cnt = 0 /\ currentKey = PrefixFirst /\ pageRev = 1 /\ page = {}
  /\ buffer = <<Header(2, 0)>> /\ file = << >> /\ torn = FALSE /\ backupErr = FALSE

-----------------------------------------------------------------------------
(* Milvus and etcd.  What they do once BackupKV has returned does not matter. *)

Change(k, v) ==
  /\ Copying
  /\ Len(revs) < MaxRev
  /\ revs' = Append(revs, [revs[Len(revs)] EXCEPT ![k] = v])
  /\ UNCHANGED <<compacted, bpc, inPart, todo, cursorVars, fileVars, backupErr>>

Compact(r) ==
  /\ Copying
  /\ compacted < r /\ r <= Len(revs)
  /\ compacted' = r
  /\ UNCHANGED <<revs, bpc, inPart, todo, cursorVars, fileVars, backupErr>>

-----------------------------------------------------------------------------
(* Slips the properties must catch: pages without WithRev, the next page
   starting at the first key of the store, or at the last key copied instead
   of behind it, keys of other instances copied. *)
GetLatest == Len(revs)
FromFirstKey(r) == Present(revs[r])
FromCurrentKey(r) == {k \in Present(revs[r]) : k + 1 >= currentKey}
CopyAnyKey(k) ==
  /\ bpc = "copy"
  /\ k \in page
  /\ \A j \in page : k <= j
  /\ page' = page \ {k}
  /\ buffer' = Append(buffer, Entry(k, revs[pageRev][k]))
  /\ currentKey' = k + 1
  /\ UNCHANGED <<storeVars, bpc, inPart, todo, rev, cnt, pageRev, file, torn, backupErr>>

-----------------------------------------------------------------------------
(* BackupKV. *)

CountKeys ==
  /\ bpc = "count"
  /\ rev' = Len(revs)
  /\ cnt' = Cardinality(Present(revs[Len(revs)]) \cap InPrefix)
  /\ buffer' = Append(buffer, Part("etcd", cnt'))
  /\ currentKey' = PrefixFirst
  /\ bpc' = "fetch"
  /\ UNCHANGED <<storeVars, inPart, todo, pageRev, page, file, torn, backupErr>>

(* A Get fails, or asks for a revision that is compacted: BackupKV returns
   without flushing and without its stopper, and the command goes on. *)
GetFails ==
  /\ bpc \in {"count", "fetch"}
  /\ bpc' = "metrics"
  /\ backupErr' = TRUE
  /\ UNCHANGED <<storeVars, inPart, todo, cursorVars, fileVars>>

GetRev == IF IgnoreRevision THEN Len(revs) ELSE rev

(* What Get(currentKey, WithFromKey) counts: every key from there on, those
   behind the prefix too. *)
FromKey(r) == {k \in Present(revs[r]) : k >= currentKey}
FirstKeys(S) == {k \in S : Cardinality({j \in S : j < k}) < BatchSize}

FetchPage ==
  /\ bpc = "fetch"
  /\ GetRev >= compacted
  /\ FromKey(GetRev) # {}
  /\ pageRev' = GetRev
  /\ page' = FirstKeys(FromKey(GetRev))
  /\ bpc' = "copy"
  /\ UNCHANGED <<storeVars, inPart, todo, rev, cnt, currentKey, fileVars, backupErr>>

(* One turn of the loop over the page. *)
CopyKey(k) ==
  /\ bpc = "copy"
  /\ k \in page
  /\ \A j \in page : k <= j
  /\ page' = page \ {k}
  /\ \/ /\ k \in InPrefix
        /\ buffer' = Append(buffer, Entry(k, revs[pageRev][k]))
        /\ currentKey' = k + 1
     \/ k \notin InPrefix /\ UNCHANGED <<buffer, currentKey>>
  /\ UNCHANGED <<storeVars, bpc, inPart, todo, rev, cnt, pageRev, file, torn, backupErr>>

(* The process ends: the file keeps some part of what was written.  After a
   kill its gzip stream has no end; a panic still runs the deferred gw.Close,
   and the stream may end between two records. *)
Dies(pc) ==
  /\ bpc' = pc
  /\ \E n \in 0..Len(Written) : file' = SubSeq(Written, 1, n)
  /\ torn' \in {TRUE, pc = "killed"}
  /\ buffer' = << >>
  /\ UNCHANGED <<storeVars, inPart, todo, cursorVars, backupErr>>

(* The progress of a page is divided by the count: without keys to back up,
   a page of keys behind the prefix is a division by zero. *)
EndPage ==
  /\ bpc = "copy"
  /\ page = {}
  /\ \/ /\ cnt # 0
        /\ bpc' = "fetch"
        /\ UNCHANGED <<storeVars, inPart, todo, cursorVars, fileVars, backupErr>>
     \/ cnt = 0 /\ Dies("panicked")

WriteStopper ==
  /\ bpc = "fetch"
  /\ GetRev >= compacted
  /\ FromKey(GetRev) = {}
  /\ file' = Append(Written, Stop)
  /\ buffer' = << >>
  /\ bpc' = "metrics"
  /\ UNCHANGED <<storeVars, inPart, todo, cursorVars, torn, backupErr>>

-----------------------------------------------------------------------------
(* backupMetrics, backupConfiguration and backupAppMetrics: ListSessions may
   fail, and each node may fail to answer. *)

StartPart(t) ==
  /\ bpc = t /\ ~inPart
  /\ \/ /\ inPart' = TRUE
        /\ buffer' = Append(buffer, Part(t, 0))
        /\ todo' = Session
        /\ UNCHANGED bpc
     \/ /\ bpc' = Following[t]
        /\ UNCHANGED <<buffer, inPart, todo>>
  /\ UNCHANGED <<storeVars, cursorVars, file, torn, backupErr>>

NodeRecords(t, s) ==
  IF t = "metrics" THEN <<NodeLabel(s), Blob, Blob>> ELSE <<NodeLabel(s), Blob>>

AskNode(t, s) ==
  /\ bpc = t /\ inPart
  /\ s \in todo
  /\ todo' = todo \ {s}
  /\ \/ UNCHANGED buffer
     \/ buffer' = buffer \o NodeRecords(t, s)
  /\ UNCHANGED <<storeVars, bpc, inPart, cursorVars, file, torn, backupErr>>

EndPart(t) ==
  /\ bpc = t /\ inPart
  /\ todo = {}
  /\ buffer' = Append(buffer, Stop)
  /\ bpc' = Following[t]
  /\ inPart' = FALSE
  /\ UNCHANGED <<storeVars, todo, cursorVars, file, torn, backupErr>>

(* The command closes the gzip stream and the file but does not flush its
   bufio.Writer: of what that holds, the file has only got the beginning (all
   of it only if the last write was a value too large for the buffer). *)
Kept == 0..(IF buffer[Len(buffer)].kind = "entry" THEN Len(buffer) ELSE Len(buffer) - 1)

CloseFile ==
  /\ bpc = "close"
  /\ bpc' = "ended"
  /\ \/ /\ buffer = << >>
        /\ UNCHANGED <<file, torn>>
     \/ /\ buffer # << >>
        /\ \E n \in Kept : /\ file' = file \o SubSeq(buffer, 1, n)
                           /\ torn' \in BOOLEAN
                           /\ torn' => n < Len(buffer)
  /\ buffer' = << >>
  /\ UNCHANGED <<storeVars, inPart, todo, cursorVars, backupErr>>

Kill == ~BackupOver /\ Dies("killed")

-----------------------------------------------------------------------------
Milvus ==
  \/ \E k \in Key, v \in Value \cup {Absent} : Change(k, v)
  \/ \E r \in 1..MaxRev : Compact(r)

BackupKV ==
  CountKeys \/ GetFails \/ FetchPage \/ (\E k \in Key : CopyKey(k)) \/ EndPage \/ WriteStopper

BackupNodes ==
  \E t \in NodeParts : StartPart(t) \/ (\E s \in Session : AskNode(t, s)) \/ EndPart(t)

BackupCommand == BackupKV \/ BackupNodes \/ CloseFile

BackupDone == BackupOver /\ UNCHANGED backupVars

BackupNext == Milvus \/ BackupCommand \/ Kill \/ BackupDone

BackupSpec == BackupInit /\ [][BackupNext]_backupVars

(* The command goes on as long as it can. *)
FairBackupSpec == BackupSpec /\ WF_backupVars(BackupCommand)

-----------------------------------------------------------------------------
(* Properties. *)

BackupTypeOK ==
  /\ revs \in Seq(Store) /\ revs # << >>
  /\ compacted \in 1..Len(revs)
  /\ bpc \in BackupPC /\ inPart \in BOOLEAN /\ todo \subseteq Session
  /\ rev \in 1..Len(revs) /\ cnt \in Nat /\ currentKey \in 1..(MaxKey + 1)
  /\ pageRev \in 1..Len(revs) /\ page \subseteq Present(revs[pageRev])
  /\ buffer \in Seq(Record) /\ file \in Seq(Record)
  /\ torn \in BOOLEAN /\ backupErr \in BOOLEAN

Entries == {i \in 1..Len(Written) : Written[i].kind = "entry"}

(* The stopper of the keys is in the file. *)
Stopped == ~backupErr /\ bpc \in NodeParts \cup {"close", "ended"}

(* Whatever milvus does while the pages are read, and wherever the page
   boundaries fall, the file holds exactly the keys and values of the
   revision of the count, each once and in order. *)
SnapshotConsistent ==
  (Stopped /\ ~IgnoreRevision) =>
    /\ {Written[i] : i \in Entries} =
         {Entry(k, revs[rev][k]) : k \in Present(revs[rev]) \cap InPrefix}
    /\ \A i, j \in Entries : i < j => Written[i].key < Written[j].key

(* With --ignoreRevision the pages may be of different revisions.  Still no
   key comes twice, no value is one the key never had since the count, and no
   key that kept its value since the count is missing. *)
NothingMissed ==
  /\ \A i, j \in Entries : i < j => Written[i].key < Written[j].key
  /\ \A i \in Entries : \E r \in rev..Len(revs) : revs[r][Written[i].key] = Written[i].value
  /\ Stopped => \A k \in InPrefix, v \in Value :
       (\A r \in rev..Len(revs) : revs[r][k] = v) =>
         \E i \in Entries : Written[i] = Entry(k, v)

(* The backup ends, however milvus changes the keys that are still to come.
   It does where the store has no keys behind the prefix; where it has some,
   BackupKV fetches the page that holds them for ever. *)
BackupEnds == <>BackupOver

(* When the keys are copied and the command ends it says in which file the
   backup is stored: everything that it has written is in that file.  It is
   not, for the parts behind the keys are never flushed. *)
EverythingStored == [][CloseFile /\ ~backupErr => file' = Written]_backupVars
=============================================================================
