-------------------------- MODULE BackupCycleProofs -------------------------
(***************************************************************************)
(* Proofs about BackupCycle: a backup that reported no error gives back    *)
(* the metadata of its revision when it is loaded, for any number of keys, *)
(* any page and batch size and any interleaving of the loading goroutines. *)
(* What joins the two halves is the shape of the file: whatever the backup *)
(* leaves behind, finished or not, is a file the loading can rely on.      *)
(*                                                                         *)
(* The backup comes first, on its own: one that reported no error holds    *)
(* exactly the metadata of the revision it was taken at. Then the loading: *)
(* whatever the file, the number of workers, the size of a batch and the   *)
(* capacity of the channel, every entry that was read is in the embedded   *)
(* etcd or on its way there, and nothing else is.                          *)
(***************************************************************************)
EXTENDS BackupCycle, FiniteSetTheorems, SequenceTheorems, TLAPS

(* Proofs about EtcdBackup. *)

EntriesOf(W) == {i \in 1..Len(W) : W[i].kind = "entry"}
Has(W, k, v) == \E i \in 1..Len(W) : W[i] = Entry(k, v)

(* A value that a backup counted at revision r0 of the history R must find:
   with --ignoreRevision the value of a key that does not change, without it
   the value at r0. *)
Steady(R, r0, k, v) ==
  IF IgnoreRevision THEN \A r \in r0..Len(R) : R[r][k] = v ELSE R[r0][k] = v

Ordered(W) == \A i, j \in EntriesOf(W) : i < j => W[i].key < W[j].key

(* Every entry comes from a revision the backup was allowed to read. *)
Sourced(W, R, r0) ==
  \A i \in EntriesOf(W) :
    /\ W[i].key \in InPrefix
    /\ \E r \in r0..Len(R) : /\ ~IgnoreRevision => r = r0
                             /\ R[r][W[i].key] = W[i].value

(* The cursor is behind everything copied, and nothing steady before it is
   missing. *)
CursorInv ==
  /\ bpc = "count" => EntriesOf(Written) = {}
  /\ bpc \in {"fetch", "copy"} =>
       /\ currentKey >= PrefixFirst
       /\ \A i \in EntriesOf(Written) : Written[i].key < currentKey
       /\ \A k \in InPrefix, v \in Value :
            (k < currentKey /\ Steady(revs, rev, k, v)) => Has(Written, k, v)

(* What is left of a page is the next keys from the cursor on. *)
PageInv ==
  bpc = "copy" =>
    /\ pageRev \in rev..Len(revs) /\ (~IgnoreRevision => pageRev = rev)
    /\ \A j \in page : j >= currentKey
    /\ \A k \in InPrefix \cap Present(revs[pageRev]) :
         (k >= currentKey /\ k \notin page) => \A j \in page : j < k

(* Once the stopper is written everything is in the file, and what is still
   in the buffer and may be lost is no entry. *)
StopInv ==
  Stopped => /\ \A k \in InPrefix, v \in Value : Steady(revs, rev, k, v) => Has(file, k, v)
             /\ EntriesOf(buffer) = {}

BackupInv ==
  /\ BackupTypeOK
  /\ Ordered(Written) /\ Sourced(Written, revs, rev)
  /\ CursorInv /\ PageInv /\ StopInv

-----------------------------------------------------------------------------
(* The constructors of records make records. *)
LEMMA RecordTypes ==
  /\ \A t \in NodeParts \cup {"etcd"}, n \in Nat : Part(t, n) \in Record
  /\ \A k \in Key, v \in Value : Entry(k, v) \in Record
  /\ \A s \in Session : NodeLabel(s) \in Record
  /\ Header(2, 0) \in Record /\ Stop \in Record /\ Blob \in Record
  BY DEF Record, Part, Entry, NodeLabel, Header, Stop, Blob

(* Records appended to records are records. *)
LEMMA RecordSequences ==
  /\ \A s \in Seq(Record), r \in Record : Append(s, r) \in Seq(Record)
  /\ \A s, t \in Seq(Record) : s \o t \in Seq(Record)
  /\ \A s \in Seq(Record) : \A n \in 0..Len(s) : SubSeq(s, 1, n) \in Seq(Record)
  OBVIOUS

(* What a node answers is a sequence of records, none of them an entry. *)
LEMMA NodeRecordTypes ==
  ASSUME NEW t \in NodeParts, NEW s \in Session
  PROVE  /\ NodeRecords(t, s) \in Seq(Record)
         /\ EntriesOf(NodeRecords(t, s)) = {}
<1>1. NodeLabel(s) \in Record /\ Blob \in Record
  BY RecordTypes
<1>2. NodeLabel(s).kind # "entry" /\ Blob.kind # "entry"
  BY DEF NodeLabel, Blob
<1>3. CASE t = "metrics"
  BY <1>1, <1>2, <1>3 DEF NodeRecords, EntriesOf
<1>4. CASE t # "metrics"
  BY <1>1, <1>2, <1>4 DEF NodeRecords, EntriesOf
<1> QED BY <1>3, <1>4

(* The number of keys of a set is a number. *)
LEMMA CountIsNat ==
  ASSUME NEW S \in SUBSET Key
  PROVE  Cardinality(S) \in Nat /\ IsFiniteSet(S)
<1>1. IsFiniteSet(Key)
  BY FS_Interval, FileAssumption DEF Key
<1> QED BY <1>1, FS_Subset, FS_CardinalityType

(* The initial state has the right types. *)
LEMMA BackupInitType == BackupInit => BackupTypeOK
<1> SUFFICES ASSUME BackupInit PROVE BackupTypeOK
  OBVIOUS
<1>1. PICK s \in Store : revs = <<s>>
  BY DEF BackupInit
<1>2. Header(2, 0) \in Record
  BY RecordTypes
<1>3. buffer \in Seq(Record) /\ file \in Seq(Record)
  BY <1>2 DEF BackupInit
<1>4. revs \in Seq(Store) /\ Len(revs) = 1 /\ revs # << >>
  BY <1>1
<1>5. torn \in BOOLEAN /\ backupErr \in BOOLEAN /\ inPart \in BOOLEAN
  BY DEF BackupInit
<1> QED BY <1>3, <1>4, <1>5, FileAssumption DEF BackupInit, BackupTypeOK, BackupPC, Key, Present

(* A process that ends keeps some of what it has written. *)
LEMMA DiesType ==
  ASSUME BackupTypeOK, NEW pc \in {"panicked", "killed"}, Dies(pc)
  PROVE  BackupTypeOK'
<1>1. Written \in Seq(Record)
  BY DEF BackupTypeOK, Written
<1>2. \A n \in 0..Len(Written) : SubSeq(Written, 1, n) \in Seq(Record)
  BY <1>1
<1>3. torn' \in BOOLEAN
  BY DEF Dies
<1>4. /\ bpc' = pc /\ buffer' = << >>
      /\ \E n \in 0..Len(Written) : file' = SubSeq(Written, 1, n)
      /\ UNCHANGED <<storeVars, inPart, todo, cursorVars, backupErr>>
  BY DEF Dies
<1> QED BY <1>1, <1>2, <1>3, <1>4
  DEF BackupTypeOK, BackupPC, storeVars, cursorVars, Present, Store, Key

(* Every step keeps the types. *)
LEMMA BackupNextType == BackupTypeOK /\ [BackupNext]_backupVars => BackupTypeOK'
<1> SUFFICES ASSUME BackupTypeOK, [BackupNext]_backupVars PROVE BackupTypeOK'
  OBVIOUS
<1> USE DEF BackupTypeOK, BackupPC, storeVars, cursorVars, fileVars
<1>1. ASSUME NEW k \in Key, NEW v \in Value \cup {Absent}, Change(k, v) PROVE BackupTypeOK'
  <2>1. [revs[Len(revs)] EXCEPT ![k] = v] \in Store
    BY <1>1 DEF Store
  <2>2. revs' \in Seq(Store) /\ Len(revs') = Len(revs) + 1 /\ revs' # << >>
    BY <1>1, <2>1 DEF Change
  <2>3. \A i \in 1..Len(revs) : revs'[i] = revs[i]
    BY <1>1, <2>1 DEF Change
  <2> QED BY <1>1, <2>2, <2>3 DEF Change, Present
<1>2. ASSUME NEW r \in 1..MaxRev, Compact(r) PROVE BackupTypeOK'
  BY <1>2, BackupAssumption DEF Compact, Present
<1>3. CASE CountKeys
  <2>1. Present(revs[Len(revs)]) \cap InPrefix \in SUBSET Key
    BY DEF Present
  <2>2. cnt' \in Nat
    BY <1>3, <2>1, CountIsNat DEF CountKeys
  <2>3. buffer' \in Seq(Record)
    <3>1. Part("etcd", cnt') \in Record
      BY <2>2, RecordTypes
    <3> QED BY <1>3, <3>1, RecordSequences DEF CountKeys
  <2> QED BY <1>3, <2>2, <2>3, FileAssumption DEF CountKeys, Present, Key
<1>4. CASE GetFails
  BY <1>4 DEF GetFails, NodeParts, Present
<1>5. CASE FetchPage
  BY <1>5 DEF FetchPage, GetRev, FirstKeys, FromKey, Present
<1>6. ASSUME NEW k \in Key, CopyKey(k) PROVE BackupTypeOK'
  <2>1. CASE k \in InPrefix
    <3>1. k \in Present(revs[pageRev]) /\ revs[pageRev] \in Store
      BY <1>6 DEF CopyKey
    <3>2. revs[pageRev][k] \in Value
      BY <3>1 DEF Present, Store
    <3>3. buffer' \in Seq(Record)
      <4>1. Entry(k, revs[pageRev][k]) \in Record
        BY <3>2, RecordTypes
      <4> QED BY <1>6, <2>1, <4>1, RecordSequences DEF CopyKey
    <3>4. currentKey' \in 1..(MaxKey + 1)
      BY <1>6, <2>1, FileAssumption DEF CopyKey, Key
    <3> QED BY <1>6, <2>1, <3>3, <3>4 DEF CopyKey, Present
  <2>2. CASE k \notin InPrefix
    BY <1>6, <2>2 DEF CopyKey, Present
  <2> QED BY <2>1, <2>2
<1>7. CASE EndPage
  BY <1>7, DiesType DEF EndPage, Present
<1>8. CASE WriteStopper
  <2>1. file' \in Seq(Record) /\ buffer' \in Seq(Record)
    BY <1>8, RecordTypes DEF WriteStopper, Written
  <2> QED BY <1>8, <2>1 DEF WriteStopper, NodeParts, Present
<1>9. ASSUME NEW t \in NodeParts, StartPart(t) PROVE BackupTypeOK'
  <2>1. Part(t, 0) \in Record
    BY RecordTypes
  <2>2. buffer' \in Seq(Record)
    BY <1>9, <2>1, RecordSequences DEF StartPart
  <2>3. bpc' \in BackupPC
    BY <1>9 DEF StartPart, NodeParts, Following
  <2> QED BY <1>9, <2>2, <2>3 DEF StartPart, Present
<1>10. ASSUME NEW t \in NodeParts, NEW s \in Session, AskNode(t, s) PROVE BackupTypeOK'
  <2>1. buffer' \in Seq(Record)
    <3>1. NodeRecords(t, s) \in Seq(Record)
      BY NodeRecordTypes
    <3> QED BY <1>10, <3>1, RecordSequences DEF AskNode
  <2> QED BY <1>10, <2>1 DEF AskNode, Present
<1>11. ASSUME NEW t \in NodeParts, EndPart(t) PROVE BackupTypeOK'
  <2>1. buffer' \in Seq(Record)
    BY <1>11, RecordTypes, RecordSequences DEF EndPart
  <2>2. bpc' \in BackupPC
    BY <1>11 DEF EndPart, NodeParts, Following
  <2> QED BY <1>11, <2>1, <2>2 DEF EndPart, Present
<1>12. CASE CloseFile
  <2>1. file' \in Seq(Record)
    <3>1. CASE buffer = << >>
      BY <1>12, <3>1 DEF CloseFile
    <3>2. CASE buffer # << >>
      <4>1. PICK n \in Kept : file' = file \o SubSeq(buffer, 1, n)
        BY <1>12, <3>2 DEF CloseFile
      <4>2. n \in 0..Len(buffer)
        BY <4>1, <3>2 DEF Kept
      <4> QED BY <4>1, <4>2, RecordSequences
    <3> QED BY <3>1, <3>2
  <2>2. torn' \in BOOLEAN
    BY <1>12 DEF CloseFile
  <2> QED BY <1>12, <2>1, <2>2 DEF CloseFile, Present
<1>13. CASE Kill
  BY <1>13, DiesType DEF Kill
<1>14. CASE UNCHANGED backupVars
  BY <1>14 DEF backupVars, Present
<1> QED
  BY <1>1, <1>2, <1>3, <1>4, <1>5, <1>6, <1>7, <1>8, <1>9, <1>10, <1>11, <1>12, <1>13, <1>14
  DEF BackupNext, Milvus, BackupCommand, BackupKV, BackupNodes, BackupDone

(* Types hold in every reachable state: a page never names a key that its
   revision does not have, and only records are written. *)
THEOREM BackupTypeCorrect == BackupSpec => []BackupTypeOK
<1>1. BackupInit => BackupTypeOK
  BY BackupInitType
<1>2. BackupTypeOK /\ [BackupNext]_backupVars => BackupTypeOK'
  BY BackupNextType
<1> QED BY <1>1, <1>2, PTL DEF BackupSpec

-----------------------------------------------------------------------------
(* What has the entries of W at their places, or fewer of them. *)
Within(W2, W) ==
  EntriesOf(W2) \subseteq EntriesOf(W) /\ \A i \in EntriesOf(W2) : W2[i] = W[i]

(* A history that has gone on. *)
Extends(R2, R) == Len(R2) >= Len(R) /\ \A r \in 1..Len(R) : R2[r] = R[r]

(* Records that are no entries leave the entries alone. *)
LEMMA AddNoEntries ==
  ASSUME NEW W \in Seq(Record), NEW X \in Seq(Record), EntriesOf(X) = {}
  PROVE  /\ EntriesOf(W \o X) = EntriesOf(W)
         /\ Within(W \o X, W)
         /\ \A k, v : Has(W, k, v) => Has(W \o X, k, v)
<1>1. /\ Len(W \o X) = Len(W) + Len(X)
      /\ \A i \in 1..Len(W) : (W \o X)[i] = W[i]
      /\ \A i \in 1..Len(W \o X) : i > Len(W) => (i - Len(W) \in 1..Len(X) /\ (W \o X)[i] = X[i - Len(W)])
  OBVIOUS
<1>2. \A i \in 1..Len(W \o X) : i > Len(W) => (W \o X)[i].kind # "entry"
  BY <1>1 DEF EntriesOf
<1>3. EntriesOf(W \o X) = EntriesOf(W)
  BY <1>1, <1>2 DEF EntriesOf
<1>4. Within(W \o X, W)
  BY <1>1, <1>3 DEF Within, EntriesOf
<1>5. \A k, v : Has(W, k, v) => Has(W \o X, k, v)
  BY <1>1 DEF Has
<1> QED BY <1>3, <1>4, <1>5

(* The beginning of a file has some of its entries. *)
LEMMA BeginningWithin ==
  ASSUME NEW W \in Seq(Record), NEW n \in 0..Len(W)
  PROVE  Within(SubSeq(W, 1, n), W)
<1>1. Len(SubSeq(W, 1, n)) = n /\ \A i \in 1..n : SubSeq(W, 1, n)[i] = W[i]
  OBVIOUS
<1> QED BY <1>1 DEF Within, EntriesOf

(* A file that loses entries keeps the order of the others. *)
LEMMA EntriesKept ==
  ASSUME NEW W, NEW W2, Within(W2, W)
  PROVE  Ordered(W) => Ordered(W2)
  BY DEF Within, Ordered

(* The entries that are left have their source in a longer history too. *)
LEMMA SourceKept ==
  ASSUME NEW W, NEW W2, Within(W2, W), NEW R \in Seq(Store), NEW R2 \in Seq(Store), Extends(R2, R),
         NEW r0 \in 1..Len(R), Sourced(W, R, r0)
  PROVE  Sourced(W2, R2, r0)
<1> SUFFICES ASSUME NEW i \in EntriesOf(W2)
             PROVE  /\ W2[i].key \in InPrefix
                    /\ \E r \in r0..Len(R2) : /\ ~IgnoreRevision => r = r0
                                              /\ R2[r][W2[i].key] = W2[i].value
  BY DEF Sourced
<1>1. i \in EntriesOf(W) /\ W2[i] = W[i]
  BY DEF Within
<1>2. PICK r \in r0..Len(R) : (~IgnoreRevision => r = r0) /\ R[r][W[i].key] = W[i].value
  BY <1>1 DEF Sourced
<1>3. r \in r0..Len(R2) /\ R2[r] = R[r]
  BY DEF Extends
<1> QED BY <1>1, <1>2, <1>3 DEF Sourced

(* A value that is steady in a longer history is so in its beginning. *)
LEMMA SteadyKept ==
  ASSUME NEW R \in Seq(Store), NEW R2 \in Seq(Store), Extends(R2, R), NEW r0 \in 1..Len(R),
         NEW k, NEW v, Steady(R2, r0, k, v)
  PROVE  Steady(R, r0, k, v)
<1>1. \A r \in r0..Len(R) : r \in r0..Len(R2) /\ R2[r] = R[r]
  BY DEF Extends
<1>2. r0 \in r0..Len(R)
  OBVIOUS
<1> QED BY <1>1, <1>2 DEF Steady

(* The first keys of a set: what is left out is above all of them. *)
LEMMA FirstKeysFirst ==
  ASSUME NEW S \in SUBSET Key, NEW k \in S \ FirstKeys(S), NEW j \in FirstKeys(S)
  PROVE  j < k
<1> SUFFICES ASSUME ~(j < k) PROVE FALSE
  OBVIOUS
<1> DEFINE Below(x) == {i \in S : i < x}
<1>1. j \in Nat /\ k \in Nat /\ \A i \in S : i \in Nat
  BY DEF Key, FirstKeys
<1>2. Below(k) \subseteq Below(j)
  <2> SUFFICES ASSUME NEW i \in S, i < k PROVE i < j
    OBVIOUS
  <2> QED BY <1>1
<1>3. Below(k) \in SUBSET Key /\ Below(j) \in SUBSET Key
  OBVIOUS
<1>4. /\ IsFiniteSet(Below(j)) /\ Cardinality(Below(j)) \in Nat
      /\ IsFiniteSet(Below(k)) /\ Cardinality(Below(k)) \in Nat
  BY <1>3, CountIsNat
<1>5. Cardinality(Below(k)) <= Cardinality(Below(j))
  BY <1>2, <1>4, FS_Subset
<1>6. Cardinality(Below(j)) < BatchSize
  BY DEF FirstKeys
<1>7. ~(Cardinality(Below(k)) < BatchSize)
  BY DEF FirstKeys
<1> QED BY <1>4, <1>5, <1>6, <1>7, BackupAssumption
(* An entry appended is one more entry, behind the others. *)
LEMMA AppendEntry ==
  ASSUME NEW W \in Seq(Record), NEW k \in Key, NEW v \in Value
  PROVE  /\ EntriesOf(Append(W, Entry(k, v))) = EntriesOf(W) \cup {Len(W) + 1}
         /\ \A i \in EntriesOf(W) : i < Len(W) + 1 /\ Append(W, Entry(k, v))[i] = W[i]
         /\ Append(W, Entry(k, v))[Len(W) + 1] = Entry(k, v)
         /\ Has(Append(W, Entry(k, v)), k, v)
         /\ \A x, y : Has(W, x, y) => Has(Append(W, Entry(k, v)), x, y)
<1> DEFINE W2 == Append(W, Entry(k, v))
<1>1. Entry(k, v) \in Record /\ Entry(k, v).kind = "entry"
  BY RecordTypes DEF Entry
<1>2. /\ Len(W2) = Len(W) + 1 /\ W2[Len(W) + 1] = Entry(k, v)
      /\ \A i \in 1..Len(W) : W2[i] = W[i]
  BY <1>1
<1>3. EntriesOf(W2) = EntriesOf(W) \cup {Len(W) + 1}
  BY <1>1, <1>2 DEF EntriesOf
<1>4. \A i \in EntriesOf(W) : i < Len(W) + 1 /\ W2[i] = W[i]
  BY <1>2 DEF EntriesOf
<1>5. Has(W2, k, v) /\ \A x, y : Has(W, x, y) => Has(W2, x, y)
  BY <1>2 DEF Has
<1> QED BY <1>2, <1>3, <1>4, <1>5

(* An entry of a file is the entry of its key and its value. *)
LEMMA EntryShape ==
  ASSUME NEW W \in Seq(Record), NEW i \in EntriesOf(W)
  PROVE  W[i] = Entry(W[i].key, W[i].value) /\ W[i].key \in Key /\ W[i].value \in Value
<1>1. W[i] \in Record /\ W[i].kind = "entry"
  BY DEF EntriesOf
<1>2. W[i] \in [kind: {"entry"}, key: Key, value: Value]
  BY <1>1 DEF Record, Blob, Stop
<1> QED BY <1>2 DEF Entry

(* What is appended to the buffer is appended to what has been written. *)
LEMMA WrittenGrows ==
  ASSUME NEW F \in Seq(Record), NEW B \in Seq(Record), NEW X \in Seq(Record), NEW r \in Record
  PROVE  /\ F \o (B \o X) = (F \o B) \o X
         /\ F \o Append(B, r) = Append(F \o B, r)
         /\ Append(B, r) = B \o <<r>>
         /\ F \o << >> = F
         /\ <<r>> \in Seq(Record) /\ (r.kind # "entry" => EntriesOf(<<r>>) = {})
<1>1. F \o (B \o X) = (F \o B) \o X
  OBVIOUS
<1>2. Append(B, r) = B \o <<r>> /\ <<r>> \in Seq(Record)
  OBVIOUS
<1>3. F \o Append(B, r) = Append(F \o B, r)
  OBVIOUS
<1>4. F \o << >> = F
  OBVIOUS
<1>5. r.kind # "entry" => EntriesOf(<<r>>) = {}
  BY DEF EntriesOf
<1> QED BY <1>1, <1>2, <1>3, <1>4, <1>5

(* The initial state satisfies the invariant: nothing is copied yet. *)
LEMMA BackupInitInv == BackupInit => BackupInv
<1> SUFFICES ASSUME BackupInit PROVE BackupInv
  OBVIOUS
<1>1. BackupTypeOK
  BY BackupInitType
<1>2. EntriesOf(Written) = {}
  <2>1. Written = <<Header(2, 0)>>
    BY RecordTypes DEF BackupInit, Written
  <2> QED BY <2>1 DEF EntriesOf, Header
<1>3. bpc = "count"
  BY DEF BackupInit
<1> QED BY <1>1, <1>2, <1>3
  DEF BackupInv, Ordered, Sourced, CursorInv, PageInv, StopInv, Stopped, NodeParts
(* A step that copies nothing and only loses entries keeps their order and
   their sources. *)
LEMMA KeptByStep ==
  ASSUME BackupInv, BackupTypeOK', rev' = rev,
         Within(Written', Written), Extends(revs', revs)
  PROVE  Ordered(Written)' /\ Sourced(Written, revs, rev)'
<1>1. Ordered(Written')
  BY EntriesKept DEF BackupInv
<1>2. Sourced(Written', revs', rev)
  <2>1. revs \in Seq(Store) /\ revs' \in Seq(Store) /\ rev \in 1..Len(revs)
    BY DEF BackupInv, BackupTypeOK
  <2>2. Sourced(Written, revs, rev)
    BY DEF BackupInv
  <2> QED BY <2>1, <2>2, SourceKept
<1> QED BY <1>1, <1>2

(* A process that ends keeps the invariant, whatever it leaves in the file. *)
LEMMA DiesInv ==
  ASSUME BackupInv, BackupTypeOK', NEW pc \in {"panicked", "killed"}, Dies(pc)
  PROVE  BackupInv'
<1>1. PICK n \in 0..Len(Written) : file' = SubSeq(Written, 1, n)
  BY DEF Dies
<1>2. Written' = SubSeq(Written, 1, n)
  <2>1. file' \in Seq(Record) /\ buffer' = << >>
    BY DEF Dies, BackupTypeOK
  <2> QED BY <1>1, <2>1 DEF Written
<1>3. Written \in Seq(Record)
  BY DEF BackupInv, BackupTypeOK, Written
<1>4. Within(Written', Written)
  BY <1>2, <1>3, BeginningWithin
<1>5. Extends(revs', revs) /\ rev' = rev
  BY DEF Dies, Extends, storeVars, cursorVars, BackupInv, BackupTypeOK
<1>6. Ordered(Written)' /\ Sourced(Written, revs, rev)'
  BY <1>4, <1>5, KeptByStep
<1>7. bpc' = pc
  BY DEF Dies
<1> QED BY <1>6, <1>7 DEF BackupInv, CursorInv, PageInv, StopInv, Stopped, NodeParts

(* Copying a key keeps the invariant: nothing present at the revision of the
   page lies between the cursor and the key. *)
LEMMA CopyInv ==
  ASSUME BackupInv, BackupTypeOK', NEW k \in Key, CopyKey(k)
  PROVE  BackupInv'
<1> USE DEF storeVars
<1>1. /\ bpc = "copy" /\ bpc' = "copy" /\ k \in page /\ (\A j \in page : k <= j)
      /\ page' = page \ {k} /\ revs' = revs /\ rev' = rev /\ pageRev' = pageRev /\ file' = file
  BY DEF CopyKey
<1>2. /\ revs \in Seq(Store) /\ rev \in 1..Len(revs) /\ pageRev \in rev..Len(revs)
      /\ pageRev \in 1..Len(revs) /\ currentKey \in Nat /\ page \subseteq Key
      /\ revs[pageRev] \in Store
      /\ file \in Seq(Record) /\ buffer \in Seq(Record) /\ Written \in Seq(Record)
  BY <1>1, FileAssumption DEF BackupInv, BackupTypeOK, PageInv, Present, Written
<1>3. \A j \in Key : j \in Nat
  BY DEF Key
<1>4. /\ InPrefix \subseteq Key /\ (\A j \in page : j >= currentKey)
      /\ currentKey >= PrefixFirst /\ (~IgnoreRevision => pageRev = rev)
      /\ \A i \in EntriesOf(Written) : Written[i].key < currentKey
  BY <1>1, FileAssumption DEF BackupInv, PageInv, CursorInv, InPrefix, Key
<1>5. StopInv'
  BY <1>1 DEF StopInv, Stopped, NodeParts
<1>6. CASE k \in InPrefix
  <2> DEFINE v == revs[pageRev][k]
  <2>1. v \in Value
    BY <1>1, <1>2 DEF BackupInv, BackupTypeOK, Present, Store
  <2>2. buffer' = Append(buffer, Entry(k, v)) /\ currentKey' = k + 1
    BY <1>6 DEF CopyKey
  <2>3. Written' = Append(Written, Entry(k, v))
    <3>1. Entry(k, v) \in Record
      BY <2>1, RecordTypes
    <3> QED BY <1>1, <1>2, <2>2, <3>1, WrittenGrows DEF Written
  <2> HIDE DEF v
  <2>4. /\ EntriesOf(Written') = EntriesOf(Written) \cup {Len(Written) + 1}
        /\ \A i \in EntriesOf(Written) : i < Len(Written) + 1 /\ Written'[i] = Written[i]
        /\ Written'[Len(Written) + 1] = Entry(k, v)
        /\ Has(Written', k, v)
        /\ \A x, y : Has(Written, x, y) => Has(Written', x, y)
    BY <1>2, <2>1, <2>3, AppendEntry
  <2>5. Entry(k, v).key = k /\ Entry(k, v).value = v
    BY DEF Entry
  <2>6. \A i \in EntriesOf(Written) : Written[i].key \in Nat /\ i \in Nat
    BY <1>2, <1>3, EntryShape DEF EntriesOf
  <2>7. \A i \in EntriesOf(Written') : Written'[i].key < currentKey'
    <3> SUFFICES ASSUME NEW i \in EntriesOf(Written')
                 PROVE  Written'[i].key < k + 1
      BY <2>2
    <3>1. k \in Nat /\ k >= currentKey
      BY <1>1, <1>3, <1>4
    <3>2. CASE i \in EntriesOf(Written)
      <4>1. Written'[i].key = Written[i].key /\ Written[i].key < currentKey
        BY <1>4, <2>4, <3>2
      <4>2. Written[i].key \in Nat
        BY <2>6, <3>2
      <4> QED BY <1>2, <3>1, <4>1, <4>2
    <3>3. CASE i = Len(Written) + 1
      BY <2>4, <2>5, <3>1, <3>3
    <3> QED BY <2>4, <3>2, <3>3
  <2>8. Ordered(Written)'
    <3> SUFFICES ASSUME NEW i \in EntriesOf(Written'), NEW j \in EntriesOf(Written'), i < j
                 PROVE  Written'[i].key < Written'[j].key
      BY DEF Ordered
    <3>1. Len(Written) \in Nat
      BY <1>2
    <3>2. i \in EntriesOf(Written)
      BY <2>4, <2>6, <3>1
    <3>3. CASE j \in EntriesOf(Written)
      BY <2>4, <3>2, <3>3 DEF BackupInv, Ordered
    <3>4. CASE j = Len(Written) + 1
      <4>1. Written'[i] = Written[i] /\ Written[i].key < currentKey /\ Written[i].key \in Nat
        BY <1>4, <2>4, <2>6, <3>2
      <4>2. Written'[j].key = k /\ k >= currentKey /\ k \in Nat
        BY <1>1, <1>3, <1>4, <2>4, <2>5, <3>4
      <4> QED BY <1>2, <4>1, <4>2
    <3> QED BY <2>4, <3>3, <3>4
  <2>9. Sourced(Written, revs, rev)'
    <3> SUFFICES ASSUME NEW i \in EntriesOf(Written')
                 PROVE  /\ Written'[i].key \in InPrefix
                        /\ \E r \in rev..Len(revs) :
                             /\ ~IgnoreRevision => r = rev
                             /\ revs[r][Written'[i].key] = Written'[i].value
      BY <1>1 DEF Sourced
    <3>1. CASE i \in EntriesOf(Written)
      BY <2>4, <3>1 DEF BackupInv, Sourced
    <3>2. CASE i = Len(Written) + 1
      BY <1>2, <1>4, <1>6, <2>4, <2>5, <3>2 DEF v
    <3> QED BY <2>4, <3>1, <3>2
  <2>10. ASSUME NEW x \in InPrefix, NEW y \in Value, x < k + 1, Steady(revs, rev, x, y)
         PROVE  Has(Written', x, y)
    <3>1. x \in Nat /\ k \in Nat
      BY <1>3, <1>4
    <3>2. revs[pageRev][x] = y
      BY <1>2, <1>4, <2>10 DEF Steady
    <3>3. CASE x < currentKey
      BY <1>1, <2>4, <2>10, <3>3 DEF BackupInv, CursorInv
    <3>4. CASE x = k
      BY <2>4, <3>2, <3>4 DEF v
    <3>5. CASE x >= currentKey /\ x # k
      <4>1. x < k
        BY <2>10, <3>1, <3>5
      <4>2. x \notin page
        BY <1>1, <3>1, <4>1
      <4>3. x \in Present(revs[pageRev])
        BY <1>4, <3>2, FileAssumption DEF Present
      <4>4. k < x
        BY <1>1, <3>5, <4>2, <4>3 DEF BackupInv, PageInv
      <4> QED BY <3>1, <4>1, <4>4
    <3> QED BY <1>2, <3>1, <3>3, <3>4, <3>5
  <2>11. CursorInv'
    <3>1. currentKey' >= PrefixFirst
      BY <1>3, <1>6, <2>2, FileAssumption DEF InPrefix
    <3> QED BY <1>1, <2>2, <2>7, <2>10, <3>1 DEF CursorInv
  <2>12. PageInv'
    <3>1. \A j \in page' : j >= currentKey'
      BY <1>1, <1>2, <1>3, <2>2
    <3>2. \A x \in InPrefix \cap Present(revs[pageRev]) :
            (x >= currentKey' /\ x \notin page') => \A j \in page' : j < x
      <4> SUFFICES ASSUME NEW x \in InPrefix \cap Present(revs[pageRev]),
                          x >= k + 1, x \notin page', NEW j \in page'
                   PROVE  j < x
        BY <2>2
      <4>1. x \in Nat /\ k \in Nat /\ x # k /\ x >= currentKey
        BY <1>1, <1>2, <1>3, <1>4
      <4>2. x \notin page /\ j \in page
        BY <1>1, <4>1
      <4> QED BY <1>1, <4>1, <4>2 DEF BackupInv, PageInv
    <3> QED BY <1>1, <1>2, <1>4, <3>1, <3>2 DEF PageInv
  <2> QED BY <1>5, <2>8, <2>9, <2>11, <2>12 DEF BackupInv
<1>7. CASE k \notin InPrefix
  <2>1. buffer' = buffer /\ currentKey' = currentKey /\ Written' = Written
    BY <1>1, <1>7 DEF CopyKey, Written
  <2>2. PageInv'
    BY <1>1, <1>7, <2>1 DEF BackupInv, PageInv
  <2> QED BY <1>1, <1>5, <2>1, <2>2 DEF BackupInv, CursorInv
<1> QED BY <1>6, <1>7
(* What the nodes answer is no entry: the parts behind the stopper keep the
   invariant. *)
LEMMA NodePartsInv ==
  ASSUME BackupInv, BackupTypeOK', NEW X \in Seq(Record), EntriesOf(X) = {},
         bpc \in NodeParts, bpc' \in NodeParts \cup {"close"},
         buffer' = buffer \o X, file' = file, revs' = revs, rev' = rev, backupErr' = backupErr
  PROVE  BackupInv'
<1>1. file \in Seq(Record) /\ buffer \in Seq(Record) /\ Written \in Seq(Record)
  BY DEF BackupInv, BackupTypeOK, Written
<1>2. Written' = Written \o X
  BY <1>1 DEF Written
<1>3. Within(Written', Written)
  BY <1>1, <1>2, AddNoEntries
<1>4. Extends(revs', revs)
  BY DEF Extends, BackupInv, BackupTypeOK
<1>5. Ordered(Written)' /\ Sourced(Written, revs, rev)'
  BY <1>3, <1>4, KeptByStep
<1>6. EntriesOf(buffer') = EntriesOf(buffer)
  BY <1>1, AddNoEntries
<1>7. StopInv'
  BY <1>6 DEF BackupInv, StopInv, Stopped
<1> QED BY <1>5, <1>7 DEF BackupInv, CursorInv, PageInv, NodeParts

(* Closing the file loses records of the nodes only. *)
LEMMA CloseInv ==
  ASSUME BackupInv, BackupTypeOK', CloseFile
  PROVE  BackupInv'
<1>1. /\ file \in Seq(Record) /\ buffer \in Seq(Record) /\ Written \in Seq(Record)
      /\ file' \in Seq(Record) /\ Written' = file'
  BY DEF BackupInv, BackupTypeOK, Written, CloseFile
<1>2. PICK n \in 0..Len(buffer) : file' = file \o SubSeq(buffer, 1, n)
  <2>1. CASE buffer = << >>
    <3>1. file' = file \o SubSeq(buffer, 1, 0) /\ 0 \in 0..Len(buffer)
      BY <1>1, <2>1 DEF CloseFile
    <3> QED BY <3>1
  <2>2. CASE buffer # << >>
    <3>1. PICK m \in Kept : file' = file \o SubSeq(buffer, 1, m)
      BY <2>2 DEF CloseFile
    <3>2. m \in 0..Len(buffer)
      BY <1>1, <2>2, <3>1 DEF Kept
    <3> QED BY <3>1, <3>2
  <2> QED BY <2>1, <2>2
<1>3. file' = SubSeq(Written, 1, Len(file) + n) /\ Len(file) + n \in 0..Len(Written)
  BY <1>1, <1>2 DEF Written
<1>4. Within(Written', Written)
  BY <1>1, <1>3, BeginningWithin
<1>5. Extends(revs', revs) /\ rev' = rev
  BY DEF CloseFile, Extends, storeVars, cursorVars, BackupInv, BackupTypeOK
<1>6. Ordered(Written)' /\ Sourced(Written, revs, rev)'
  BY <1>4, <1>5, KeptByStep
<1>7. \A k, v : Has(file, k, v) => Has(file', k, v)
  <2>1. /\ Len(file') >= Len(file)
        /\ \A i \in 1..Len(file) : file'[i] = file[i]
    BY <1>1, <1>2
  <2> QED BY <1>1, <2>1 DEF Has
<1>8. StopInv'
  <2>1. EntriesOf(buffer') = {}
    BY DEF CloseFile, EntriesOf
  <2>2. Stopped' => Stopped
    BY DEF Stopped, CloseFile
  <2>3. revs' = revs /\ rev' = rev
    BY DEF CloseFile, storeVars, cursorVars
  <2> QED BY <1>7, <2>1, <2>2, <2>3 DEF BackupInv, StopInv
<1> QED BY <1>6, <1>8 DEF BackupInv, CursorInv, PageInv, CloseFile

(* The stopper is written when nothing is left from the cursor on. *)
LEMMA StopperInv ==
  ASSUME BackupInv, BackupTypeOK', WriteStopper
  PROVE  BackupInv'
<1>1. /\ bpc = "fetch" /\ bpc' = "metrics" /\ revs' = revs /\ rev' = rev
      /\ FromKey(GetRev) = {} /\ buffer' = << >> /\ file' = Append(Written, Stop)
  BY DEF WriteStopper, storeVars, cursorVars
<1>2. /\ file \in Seq(Record) /\ buffer \in Seq(Record) /\ Written \in Seq(Record)
      /\ file' \in Seq(Record) /\ Written' = file' /\ Stop \in Record
  BY <1>1, RecordTypes DEF BackupInv, BackupTypeOK, Written
<1>3. Written' = Written \o <<Stop>> /\ EntriesOf(<<Stop>>) = {} /\ <<Stop>> \in Seq(Record)
  <2>1. Stop.kind # "entry"
    BY DEF Stop
  <2> QED BY <1>1, <1>2, <2>1, WrittenGrows
<1>4. Within(Written', Written) /\ \A k, v : Has(Written, k, v) => Has(Written', k, v)
  <2>1. /\ Within(Written \o <<Stop>>, Written)
        /\ \A k, v : Has(Written, k, v) => Has(Written \o <<Stop>>, k, v)
    BY <1>2, <1>3, AddNoEntries
  <2> QED BY <1>3, <2>1
<1>5. Extends(revs', revs)
  BY <1>1 DEF Extends, BackupInv, BackupTypeOK
<1>6. Ordered(Written)' /\ Sourced(Written, revs, rev)'
  BY <1>1, <1>4, <1>5, KeptByStep
<1>7. ASSUME NEW k \in InPrefix, NEW v \in Value, Steady(revs, rev, k, v)
      PROVE  Has(file', k, v)
  <2>1. /\ rev \in 1..Len(revs) /\ GetRev \in rev..Len(revs) /\ (~IgnoreRevision => GetRev = rev)
        /\ currentKey \in Nat
    BY FileAssumption DEF BackupInv, BackupTypeOK, GetRev
  <2>2. revs[GetRev][k] = v
    BY <1>7, <2>1 DEF Steady
  <2>3. k \in Key /\ k \in Nat
    BY FileAssumption DEF InPrefix, Key
  <2>4. k \in Present(revs[GetRev])
    BY <2>2, <2>3, FileAssumption DEF Present
  <2>5. k < currentKey
    BY <1>1, <2>1, <2>3, <2>4 DEF FromKey
  <2>6. Has(Written, k, v)
    BY <1>1, <1>7, <2>5 DEF BackupInv, CursorInv
  <2> QED BY <1>2, <1>4, <2>6
<1>8. StopInv'
  BY <1>1, <1>7 DEF StopInv, EntriesOf
<1> QED BY <1>1, <1>6, <1>8 DEF BackupInv, CursorInv, PageInv
(* Every step keeps the invariant. *)
LEMMA BackupNextInv == BackupInv /\ [BackupNext]_backupVars => BackupInv'
<1> SUFFICES ASSUME BackupInv, [BackupNext]_backupVars PROVE BackupInv'
  OBVIOUS
<1>a. BackupTypeOK /\ BackupTypeOK'
  BY BackupNextType DEF BackupInv
<1>b. /\ file \in Seq(Record) /\ buffer \in Seq(Record) /\ Written \in Seq(Record)
      /\ revs \in Seq(Store) /\ revs' \in Seq(Store) /\ rev \in 1..Len(revs)
  BY <1>a DEF BackupTypeOK, Written
<1> USE DEF storeVars, cursorVars, fileVars
<1>1. ASSUME NEW k \in Key, NEW v \in Value \cup {Absent}, Change(k, v) PROVE BackupInv'
  <2>1. /\ rev' = rev /\ bpc' = bpc /\ page' = page /\ pageRev' = pageRev /\ currentKey' = currentKey
        /\ Written' = Written /\ bpc \in {"count", "fetch", "copy"}
    BY <1>1 DEF Change, Written, Copying
  <2>2. Len(revs') = Len(revs) + 1 /\ \A r \in 1..Len(revs) : revs'[r] = revs[r]
    <3>1. [revs[Len(revs)] EXCEPT ![k] = v] \in Store
      BY <1>1, <1>a DEF BackupTypeOK, Store
    <3> QED BY <1>1, <1>b, <3>1 DEF Change
  <2>3. Extends(revs', revs)
    BY <1>b, <2>2 DEF Extends
  <2>4. Within(Written', Written)
    BY <2>1 DEF Within
  <2>5. Ordered(Written)' /\ Sourced(Written, revs, rev)'
    BY <1>a, <2>1, <2>3, <2>4, KeptByStep
  <2>6. \A x, y : Steady(revs', rev, x, y) => Steady(revs, rev, x, y)
    BY <1>b, <2>3, SteadyKept
  <2>7. CursorInv'
    BY <2>1, <2>6 DEF BackupInv, CursorInv
  <2>8. PageInv'
    <3> SUFFICES ASSUME bpc = "copy" PROVE PageInv'
      BY <2>1 DEF PageInv
    <3>1. pageRev \in 1..Len(revs) /\ pageRev \in rev..Len(revs')
      BY <1>a, <1>b, <2>2 DEF BackupTypeOK, BackupInv, PageInv
    <3> QED BY <2>1, <2>2, <3>1 DEF BackupInv, PageInv, Present
  <2>9. StopInv'
    BY <2>1 DEF StopInv, Stopped, NodeParts
  <2> QED BY <1>a, <2>5, <2>7, <2>8, <2>9 DEF BackupInv
<1>2. ASSUME NEW r \in 1..MaxRev, Compact(r) PROVE BackupInv'
  BY <1>a, <1>2 DEF Compact, BackupInv, CursorInv, PageInv, StopInv, Stopped, Written
<1>3. CASE CountKeys
  <2>1. Part("etcd", cnt') \in Record /\ Part("etcd", cnt').kind # "entry"
    BY <1>a, RecordTypes DEF BackupTypeOK, Part
  <2>2. Written' = Written \o <<Part("etcd", cnt')>> /\ bpc = "count" /\ bpc' = "fetch"
    <3>1. /\ buffer' = Append(buffer, Part("etcd", cnt')) /\ file' = file
          /\ bpc = "count" /\ bpc' = "fetch"
      BY <1>3 DEF CountKeys
    <3>2. /\ file \o Append(buffer, Part("etcd", cnt')) = Append(Written, Part("etcd", cnt'))
          /\ Append(Written, Part("etcd", cnt')) = Written \o <<Part("etcd", cnt')>>
      BY <1>b, <2>1, WrittenGrows DEF Written
    <3> QED BY <3>1, <3>2 DEF Written
  <2>3. EntriesOf(Written') = {}
    <3>1. EntriesOf(<<Part("etcd", cnt')>>) = {} /\ <<Part("etcd", cnt')>> \in Seq(Record)
      BY <1>b, <2>1, WrittenGrows
    <3>2. EntriesOf(Written \o <<Part("etcd", cnt')>>) = EntriesOf(Written)
      BY <1>b, <3>1, AddNoEntries
    <3> QED BY <2>2, <3>2 DEF BackupInv, CursorInv
  <2>4. Ordered(Written)' /\ Sourced(Written, revs, rev)'
    BY <2>3 DEF Ordered, Sourced
  <2>5. CursorInv'
    <3>1. currentKey' = PrefixFirst
      BY <1>3 DEF CountKeys
    <3>2. \A k \in InPrefix : ~(k < PrefixFirst)
      BY FileAssumption DEF InPrefix, Key
    <3>3. PrefixFirst >= PrefixFirst
      BY FileAssumption DEF Key
    <3> QED BY <2>2, <2>3, <3>1, <3>2, <3>3 DEF CursorInv
  <2> QED BY <1>a, <2>2, <2>4, <2>5 DEF BackupInv, PageInv, StopInv, Stopped, NodeParts
<1>4. CASE GetFails
  BY <1>a, <1>4 DEF GetFails, BackupInv, CursorInv, PageInv, StopInv, Stopped, Written
<1>5. CASE FetchPage
  <2>1. /\ bpc = "fetch" /\ bpc' = "copy" /\ revs' = revs /\ rev' = rev /\ currentKey' = currentKey
        /\ pageRev' = GetRev /\ page' = FirstKeys(FromKey(GetRev)) /\ Written' = Written
    BY <1>5 DEF FetchPage, Written
  <2>2. GetRev \in rev..Len(revs) /\ (~IgnoreRevision => GetRev = rev)
    BY <1>b DEF GetRev
  <2>3. FromKey(GetRev) \in SUBSET Key
    BY DEF FromKey, Present
  <2>4. \A j \in page' : j >= currentKey
    BY <2>1 DEF FirstKeys, FromKey
  <2>5. \A k \in FromKey(GetRev) : k \notin page' => \A j \in page' : j < k
    BY <2>1, <2>3, FirstKeysFirst
  <2>6. \A k \in InPrefix \cap Present(revs[GetRev]) : k >= currentKey => k \in FromKey(GetRev)
    BY DEF FromKey
  <2>7. PageInv'
    BY <2>1, <2>2, <2>4, <2>5, <2>6 DEF PageInv
  <2>8. CursorInv' /\ StopInv'
    BY <2>1 DEF BackupInv, CursorInv, StopInv, Stopped, NodeParts
  <2> QED BY <1>a, <2>1, <2>7, <2>8 DEF BackupInv
<1>6. ASSUME NEW k \in Key, CopyKey(k) PROVE BackupInv'
  BY <1>a, <1>6, CopyInv
<1>7. CASE EndPage
  <2>1. CASE Dies("panicked")
    BY <1>a, <2>1, DiesInv
  <2>2. CASE ~Dies("panicked")
    <3>1. /\ bpc = "copy" /\ bpc' = "fetch" /\ revs' = revs /\ rev' = rev
          /\ currentKey' = currentKey /\ Written' = Written
      BY <1>7, <2>2 DEF EndPage, Written
    <3> QED BY <1>a, <3>1 DEF BackupInv, CursorInv, PageInv, StopInv, Stopped, NodeParts
  <2> QED BY <2>1, <2>2
<1>8. CASE WriteStopper
  BY <1>a, <1>8, StopperInv
<1>9. ASSUME NEW t \in NodeParts, StartPart(t) PROVE BackupInv'
  <2>1. Part(t, 0) \in Record /\ Part(t, 0).kind # "entry"
    BY RecordTypes DEF Part
  <2>2. <<Part(t, 0)>> \in Seq(Record) /\ EntriesOf(<<Part(t, 0)>>) = {}
    BY <1>b, <2>1, WrittenGrows
  <2>3. << >> \in Seq(Record) /\ EntriesOf(<< >>) = {} /\ buffer \o << >> = buffer
    BY <1>b DEF EntriesOf
  <2>4. bpc \in NodeParts /\ bpc' \in NodeParts \cup {"close"}
    BY <1>9 DEF StartPart, NodeParts, Following
  <2>5. revs' = revs /\ rev' = rev /\ file' = file /\ backupErr' = backupErr
    BY <1>9 DEF StartPart
  <2>6. buffer' = buffer \o <<Part(t, 0)>> \/ buffer' = buffer \o << >>
    <3>1. Append(buffer, Part(t, 0)) = buffer \o <<Part(t, 0)>>
      BY <1>b, <2>1, WrittenGrows
    <3>2. buffer' = Append(buffer, Part(t, 0)) \/ buffer' = buffer
      BY <1>9 DEF StartPart
    <3> QED BY <2>3, <3>1, <3>2
  <2> QED BY <1>a, <2>2, <2>3, <2>4, <2>5, <2>6, NodePartsInv
<1>10. ASSUME NEW t \in NodeParts, NEW s \in Session, AskNode(t, s) PROVE BackupInv'
  <2>1. NodeRecords(t, s) \in Seq(Record) /\ EntriesOf(NodeRecords(t, s)) = {}
    BY NodeRecordTypes
  <2>2. << >> \in Seq(Record) /\ EntriesOf(<< >>) = {} /\ buffer \o << >> = buffer
    BY <1>b DEF EntriesOf
  <2>3. /\ bpc \in NodeParts /\ bpc' \in NodeParts \cup {"close"}
        /\ revs' = revs /\ rev' = rev /\ file' = file /\ backupErr' = backupErr
        /\ buffer' = buffer \o NodeRecords(t, s) \/ buffer' = buffer \o << >>
    BY <1>10, <2>2 DEF AskNode
  <2> QED BY <1>a, <2>1, <2>2, <2>3, NodePartsInv
<1>11. ASSUME NEW t \in NodeParts, EndPart(t) PROVE BackupInv'
  <2>1. Stop \in Record /\ Stop.kind # "entry"
    BY RecordTypes DEF Stop
  <2>2. <<Stop>> \in Seq(Record) /\ EntriesOf(<<Stop>>) = {}
    BY <1>b, <2>1, WrittenGrows
  <2>3. bpc \in NodeParts /\ bpc' \in NodeParts \cup {"close"}
    BY <1>11 DEF EndPart, NodeParts, Following
  <2>4. /\ revs' = revs /\ rev' = rev /\ file' = file /\ backupErr' = backupErr
        /\ buffer' = buffer \o <<Stop>>
    BY <1>11, <1>b, <2>1, WrittenGrows DEF EndPart
  <2> QED BY <1>a, <2>2, <2>3, <2>4, NodePartsInv
<1>12. CASE CloseFile
  BY <1>a, <1>12, CloseInv
<1>13. CASE Kill
  BY <1>a, <1>13, DiesInv DEF Kill
<1>14. CASE UNCHANGED backupVars
  BY <1>a, <1>14 DEF backupVars, BackupInv, CursorInv, PageInv, StopInv, Stopped, Written
<1> QED
  BY <1>1, <1>2, <1>3, <1>4, <1>5, <1>6, <1>7, <1>8, <1>9, <1>10, <1>11, <1>12, <1>13, <1>14
  DEF BackupNext, Milvus, BackupCommand, BackupKV, BackupNodes, BackupDone

(* The invariant holds in every reachable state. *)
THEOREM BackupInvariant == BackupSpec => []BackupInv
<1>1. BackupInit => BackupInv
  BY BackupInitInv
<1>2. BackupInv /\ [BackupNext]_backupVars => BackupInv'
  BY BackupNextInv
<1> QED BY <1>1, <1>2, PTL DEF BackupSpec

(* A steady value is among what has been written once the stopper is. *)
LEMMA SteadyWritten ==
  ASSUME BackupInv, Stopped, NEW k \in InPrefix, NEW v \in Value, Steady(revs, rev, k, v)
  PROVE  \E i \in Entries : Written[i] = Entry(k, v)
<1>1. PICK i \in 1..Len(file) : file[i] = Entry(k, v)
  BY DEF BackupInv, StopInv, Has
<1>2. i \in 1..Len(Written) /\ Written[i] = file[i]
  BY DEF BackupInv, BackupTypeOK, Written
<1>3. Entry(k, v).kind = "entry"
  BY DEF Entry
<1> QED BY <1>1, <1>2, <1>3 DEF Entries

(* The stopper is in the file: so is the snapshot. *)
LEMMA InvSnapshot == BackupInv => SnapshotConsistent
<1> SUFFICES ASSUME BackupInv, Stopped, ~IgnoreRevision
             PROVE  /\ {Written[i] : i \in Entries} =
                         {Entry(k, revs[rev][k]) : k \in Present(revs[rev]) \cap InPrefix}
                    /\ \A i, j \in Entries : i < j => Written[i].key < Written[j].key
  BY DEF SnapshotConsistent
<1>1. Entries = EntriesOf(Written) /\ Written \in Seq(Record) /\ InPrefix \subseteq Key
  BY FileAssumption DEF Entries, EntriesOf, BackupInv, BackupTypeOK, Written, InPrefix, Key
<1>2. \A i, j \in Entries : i < j => Written[i].key < Written[j].key
  BY <1>1 DEF BackupInv, Ordered
<1>3. ASSUME NEW i \in Entries
      PROVE  \E k \in Present(revs[rev]) \cap InPrefix : Written[i] = Entry(k, revs[rev][k])
  <2>1. /\ Written[i] = Entry(Written[i].key, Written[i].value)
        /\ Written[i].key \in Key /\ Written[i].value \in Value
    BY <1>1, EntryShape
  <2>2. Written[i].key \in InPrefix /\ revs[rev][Written[i].key] = Written[i].value
    BY <1>1 DEF BackupInv, Sourced
  <2> QED BY <2>1, <2>2, FileAssumption DEF Present
<1>4. ASSUME NEW k \in Present(revs[rev]) \cap InPrefix
      PROVE  \E i \in Entries : Written[i] = Entry(k, revs[rev][k])
  <2>1. revs[rev] \in Store /\ k \in Key
    BY <1>1 DEF BackupInv, BackupTypeOK
  <2>2. revs[rev][k] \in Value
    BY <2>1 DEF Present, Store
  <2>3. Steady(revs, rev, k, revs[rev][k])
    BY DEF Steady
  <2> QED BY <2>2, <2>3, SteadyWritten
<1> QED BY <1>2, <1>3, <1>4

(* For every number of keys, page size and history: a backup that reported no
   error holds exactly the keys and values of the revision it counted at, each
   once and in order. *)
THEOREM BackupIsSnapshot == BackupSpec => []SnapshotConsistent
  BY InvSnapshot, BackupInvariant, PTL

(* For every number of keys, page size and history, with and without
   --ignoreRevision: no key is copied twice, no value is invented, and no key
   that kept its value since the count is missing. *)
THEOREM BackupMissesNothing == BackupSpec => []NothingMissed
<1>1. BackupInv => NothingMissed
  <2> SUFFICES ASSUME BackupInv PROVE NothingMissed
    OBVIOUS
  <2>1. Entries = EntriesOf(Written)
    BY DEF Entries, EntriesOf
  <2>2. \A i, j \in Entries : i < j => Written[i].key < Written[j].key
    BY <2>1 DEF BackupInv, Ordered
  <2>3. \A i \in Entries : \E r \in rev..Len(revs) : revs[r][Written[i].key] = Written[i].value
    BY <2>1 DEF BackupInv, Sourced
  <2>4. ASSUME Stopped, NEW k \in InPrefix, NEW v \in Value, \A r \in rev..Len(revs) : revs[r][k] = v
        PROVE  \E i \in Entries : Written[i] = Entry(k, v)
    <3>1. rev \in rev..Len(revs)
      BY DEF BackupInv, BackupTypeOK
    <3>2. Steady(revs, rev, k, v)
      BY <2>4, <3>1 DEF Steady
    <3> QED BY <2>4, <3>2, SteadyWritten
  <2> QED BY <2>2, <2>3, <2>4 DEF NothingMissed
<1> QED BY <1>1, BackupInvariant, PTL

-----------------------------------------------------------------------------

(* Proofs about EtcdRestore. *)

Pair == (Key \cup {EmptyKey}) \X (Value \cup {Absent})
ReaderPC == {"read", "send", "flush", "closed"}

RestoreTypeOK ==
  /\ lpc \in LoadPC /\ pos \in 0..Len(file) /\ partCnt \in Nat /\ reader \in ReaderPC
  /\ batch \in Seq(Pair) /\ ch \in Seq(Seq(Pair)) /\ held \in [Worker -> Seq(Pair)]
  /\ errCh \in Seq(BOOLEAN) /\ alive \subseteq Worker
  /\ target \in Store /\ file \in Seq(Record)

(* Where the command is in the file.  Behind the etcd part there are no more
   entries: what is skipped or taken for metrics is none. *)
PlaceInv ==
  /\ lpc = "version" => pos = 0
  /\ lpc \in {"v1", "header", "etcd", "wait", "metrics"} => pos >= 1
  /\ lpc = "v1" => file[1].version = 1
  /\ lpc \in {"header", "etcd", "wait", "metrics"} => file[1].version # 1
  /\ lpc \in {"etcd", "wait"} => pos >= 2
  /\ (lpc \in {"etcd", "wait"} /\ reader \in {"flush", "closed"}) =>
       pos = Len(file) \/ (pos >= 3 /\ file[pos].kind = "stop")
  /\ (lpc \in {"metrics", "loaded"} \/ (lpc = "header" /\ pos > 1)) =>
       \A i \in (pos + 1)..Len(file) : file[i].kind # "entry"
  /\ lpc = "metrics" =>
       \E p \in 1..pos : /\ file[p].kind = "part" /\ file[p].type = "metrics"
                         /\ \A q \in (p + 1)..pos : file[q].kind \in {"session", "blob"}

(* How the goroutines depend on each other. *)
NoFlight == batch = << >> /\ ch = << >> /\ \A w \in Worker : held[w] = << >>
HandInv ==
  /\ lpc \notin {"etcd", "wait"} => NoFlight /\ reader = "closed"
  /\ reader \in {"read", "send"} => lpc = "etcd"
  /\ errCh # << >> => Len(errCh) = 1 /\ lpc = "etcd" /\ reader \in {"flush", "closed"}
  /\ partCnt = 0 => NoFlight
  /\ reader = "closed" => batch = << >>
  /\ reader = "send" => partCnt # 0
  /\ \A w \in Worker : held[w] # << >> => w \in alive
  /\ alive # Worker => ch = << >> /\ reader = "closed"

(* The entries that were read and are not saved yet. *)
Holds(b, e) == \E i \in 1..Len(b) : b[i] = e
InFlight(b, c, h) ==
  {e \in Pair : \/ Holds(b, e)
                \/ \E j \in 1..Len(c) : Holds(c[j], e)
                \/ \E w \in Worker : Holds(h[w], e)}
Flying == InFlight(batch, ch, held)

FromFile(S) == \A e \in S : e[1] # EmptyKey => \E i \in 1..Len(file) : file[i] = Entry(e[1], e[2])

(* An entry is never lost: once read, it is saved or on its way. *)
Arriving(T, S, n) ==
  \A i \in 1..n : file[i].kind = "entry" =>
    T[file[i].key] = file[i].value \/ <<file[i].key, file[i].value>> \in S

NodesInv ==
  \A s \in nodes : \E i \in 1..(pos - 2) :
    file[i] = NodeLabel(s) /\ file[i + 1] = Blob /\ file[i + 2] = Blob

DataInv ==
  /\ FromFile(Flying)
  /\ \A k \in Key : target[k] # Absent => EntryOf(k)
  /\ (lpc \notin {"failed", "panicked"} /\ ~saveFailed) => Arriving(target, Flying, pos)

RestoreInv ==
  RestoreTypeOK /\ FileShape(file) /\ PlaceInv /\ HandInv /\ DataInv /\ NodesInv

-----------------------------------------------------------------------------
(* A record that is an entry has a key and a value. *)
LEMMA EntryRecord ==
  ASSUME NEW r \in Record, r.kind = "entry"
  PROVE  r.key \in Key /\ r.value \in Value /\ r = Entry(r.key, r.value)
<1>1. r \in [kind: {"entry"}, key: Key, value: Value]
  BY DEF Record, Blob, Stop
<1> QED
  BY <1>1 DEF Entry

(* Nothing is in flight when no goroutine holds anything. *)
LEMMA NothingFlies == NoFlight => Flying = {}
<1>1. \A e : ~Holds(<< >>, e)
  BY DEF Holds
<1>2. ~\E j \in 1..Len(<< >>) : TRUE
  OBVIOUS
<1> QED
  BY <1>1, <1>2 DEF NoFlight, Flying, InFlight

(* What a batch holds once an entry is appended to it. *)
LEMMA HoldsAppend ==
  ASSUME NEW b \in Seq(Pair), NEW e, NEW f \in Pair
  PROVE  Holds(Append(b, f), e) <=> Holds(b, e) \/ e = f
<1>1. /\ Len(Append(b, f)) = Len(b) + 1 /\ Len(b) \in Nat
      /\ \A i \in 1..Len(b) : Append(b, f)[i] = b[i]
      /\ Append(b, f)[Len(b) + 1] = f
  OBVIOUS
<1> QED
  BY <1>1 DEF Holds

(* Reading an entry puts it in flight. *)
LEMMA FlightRead ==
  ASSUME NEW b \in Seq(Pair), NEW c, NEW h, NEW e \in Pair
  PROVE  InFlight(Append(b, e), c, h) = InFlight(b, c, h) \cup {e}
  BY HoldsAppend DEF InFlight

(* A batch that is sent stays in flight ... *)
LEMMA FlightSend ==
  ASSUME NEW b \in Seq(Pair), NEW c \in Seq(Seq(Pair)), NEW h
  PROVE  InFlight(<< >>, Append(c, b), h) = InFlight(b, c, h)
<1>1. /\ Len(Append(c, b)) = Len(c) + 1 /\ Len(c) \in Nat
      /\ \A i \in 1..Len(c) : Append(c, b)[i] = c[i]
      /\ Append(c, b)[Len(c) + 1] = b
  OBVIOUS
<1>2. \A e : ~Holds(<< >>, e)
  BY DEF Holds
<1>3. ASSUME NEW e
      PROVE  (\E j \in 1..Len(Append(c, b)) : Holds(Append(c, b)[j], e))
               <=> Holds(b, e) \/ \E j \in 1..Len(c) : Holds(c[j], e)
  <2>1. CASE \E j \in 1..Len(Append(c, b)) : Holds(Append(c, b)[j], e)
    <3>1. PICK j \in 1..Len(Append(c, b)) : Holds(Append(c, b)[j], e)
      BY <2>1
    <3>2. j \in 1..Len(c) \/ j = Len(c) + 1
      BY <1>1
    <3> QED
      BY <1>1, <2>1, <3>1, <3>2
  <2>2. CASE Holds(b, e)
    <3>1. Len(c) + 1 \in 1..Len(Append(c, b))
      BY <1>1
    <3> QED
      BY <1>1, <2>2, <3>1
  <2>3. CASE \E j \in 1..Len(c) : Holds(c[j], e)
    <3>1. PICK j \in 1..Len(c) : Holds(c[j], e)
      BY <2>3
    <3>2. j \in 1..Len(Append(c, b)) /\ Append(c, b)[j] = c[j]
      BY <1>1
    <3> QED
      BY <2>3, <3>1, <3>2
  <2> QED
    BY <2>1, <2>2, <2>3
<1> QED
  BY <1>2, <1>3 DEF InFlight

(* ... and so does one that a worker takes ... *)
LEMMA FlightTake ==
  ASSUME NEW b, NEW c \in Seq(Seq(Pair)), c # << >>, NEW h \in [Worker -> Seq(Pair)],
         NEW w \in Worker, h[w] = << >>
  PROVE  InFlight(b, Tail(c), [h EXCEPT ![w] = Head(c)]) = InFlight(b, c, h)
<1> DEFINE g == [h EXCEPT ![w] = Head(c)]
<1>1. /\ Len(Tail(c)) = Len(c) - 1 /\ Len(c) \in Nat \ {0} /\ Head(c) = c[1]
      /\ \A i \in 1..Len(Tail(c)) : Tail(c)[i] = c[i + 1]
  OBVIOUS
<1>2. /\ g[w] = c[1] /\ \A v \in Worker : v # w => g[v] = h[v]
      /\ \A e : ~Holds(h[w], e)
  BY <1>1 DEF Holds
<1> HIDE DEF g
<1>3. ASSUME NEW e
      PROVE  (\E j \in 1..Len(c) : Holds(c[j], e))
               <=> Holds(c[1], e) \/ \E j \in 1..Len(Tail(c)) : Holds(Tail(c)[j], e)
  <2>1. CASE \E j \in 1..Len(c) : Holds(c[j], e)
    <3>1. PICK j \in 1..Len(c) : Holds(c[j], e)
      BY <2>1
    <3>2. CASE j = 1
      BY <2>1, <3>1, <3>2
    <3>3. CASE j # 1
      <4>1. j - 1 \in 1..Len(Tail(c)) /\ (j - 1) + 1 = j
        BY <1>1, <3>3
      <4>2. Tail(c)[j - 1] = c[j]
        BY <1>1, <4>1
      <4> QED
        BY <2>1, <3>1, <4>1, <4>2
    <3> QED
      BY <3>2, <3>3
  <2>2. CASE Holds(c[1], e)
    <3>1. 1 \in 1..Len(c)
      BY <1>1
    <3> QED
      BY <2>2, <3>1
  <2>3. CASE \E j \in 1..Len(Tail(c)) : Holds(Tail(c)[j], e)
    <3>1. PICK j \in 1..Len(Tail(c)) : Holds(Tail(c)[j], e)
      BY <2>3
    <3>2. j + 1 \in 1..Len(c) /\ Tail(c)[j] = c[j + 1]
      BY <1>1
    <3> QED
      BY <2>3, <3>1, <3>2
  <2> QED
    BY <2>1, <2>2, <2>3
<1>4. ASSUME NEW e
      PROVE  (\E v \in Worker : Holds(g[v], e))
               <=> Holds(c[1], e) \/ \E v \in Worker : Holds(h[v], e)
  BY <1>2
<1>5. InFlight(b, Tail(c), g) = InFlight(b, c, h)
  BY <1>3, <1>4 DEF InFlight
<1> QED
  BY <1>5 DEF g

(* ... until the worker is done with it. *)
LEMMA FlightSave ==
  ASSUME NEW b, NEW c, NEW h \in [Worker -> Seq(Pair)], NEW w \in Worker, NEW e \in Pair
  PROVE  e \in InFlight(b, c, h)
           <=> e \in InFlight(b, c, [h EXCEPT ![w] = << >>]) \/ Holds(h[w], e)
<1> DEFINE g == [h EXCEPT ![w] = << >>]
<1>1. g[w] = << >> /\ \A v \in Worker : v # w => g[v] = h[v]
  OBVIOUS
<1>2. ~Holds(<< >>, e)
  BY DEF Holds
<1> HIDE DEF g
<1>3. (\E v \in Worker : Holds(h[v], e)) <=> (\E v \in Worker : Holds(g[v], e)) \/ Holds(h[w], e)
  BY <1>1, <1>2
<1>4. e \in InFlight(b, c, h) <=> e \in InFlight(b, c, g) \/ Holds(h[w], e)
  BY <1>3 DEF InFlight
<1> QED
  BY <1>4 DEF g

-----------------------------------------------------------------------------
(* The command has just started. *)
LEMMA RestoreInitInv ==
  ASSUME RestoreInit, file \in Seq(Record), FileShape(file)
  PROVE  RestoreInv
<1>1. NoFlight /\ reader = "closed" /\ lpc = "version" /\ pos = 0 /\ alive = {}
      /\ errCh = << >> /\ nodes = {} /\ \A k \in Key : target[k] = Absent
  BY DEF RestoreInit, NoFlight, NoBatch
<1>2. RestoreTypeOK
  <2>1. /\ << >> \in Seq(Pair) /\ << >> \in Seq(Seq(Pair)) /\ << >> \in Seq(BOOLEAN)
    OBVIOUS
  <2>2. held \in [Worker -> Seq(Pair)] /\ target \in Store
    BY <2>1 DEF RestoreInit, NoBatch, Store
  <2> QED
    BY <2>1, <2>2 DEF RestoreInit, RestoreTypeOK, LoadPC, ReaderPC
<1>3. Flying = {}
  BY <1>1, NothingFlies
<1>4. DataInv
  BY <1>1, <1>3 DEF DataInv, FromFile, Arriving
<1>5. HandInv
  BY <1>1 DEF HandInv, NoFlight
<1> QED
  BY <1>1, <1>2, <1>4, <1>5 DEF RestoreInv, PlaceInv, NodesInv

(* A step that reads no entry, saves nothing and loses nothing. *)
LEMMA DataKept ==
  ASSUME RestoreInv, UNCHANGED <<file, target, saveFailed>>, Flying' = Flying,
         pos' \in Nat, pos <= pos', \A i \in (pos + 1)..pos' : file[i].kind # "entry",
         lpc \in {"failed", "panicked"} => lpc' \in {"failed", "panicked"}
  PROVE  DataInv'
<1>1. pos \in Nat
  BY DEF RestoreInv, RestoreTypeOK
<1>2. ASSUME NEW i \in 1..pos', file[i].kind = "entry" PROVE i \in 1..pos
  BY <1>1, <1>2
<1> QED
  BY <1>2 DEF RestoreInv, DataInv, FromFile, Arriving, EntryOf

(* Nodes that were restored stay restored. *)
LEMMA NodesKept ==
  ASSUME RestoreInv, UNCHANGED <<file, nodes>>, pos' \in Nat, pos <= pos'
  PROVE  NodesInv'
<1>1. pos \in Nat
  BY DEF RestoreInv, RestoreTypeOK
<1>2. \A m, n \in Nat : m <= n => \A i \in 1..(m - 2) : i \in 1..(n - 2)
  OBVIOUS
<1>3. \A i \in 1..(pos - 2) : i \in 1..(pos' - 2)
  BY <1>1, <1>2
<1> QED
  BY <1>3 DEF RestoreInv, NodesInv

(* What a batch says of a key is what the file says. *)
LEMMA SavedIs ==
  ASSUME RestoreInv, NEW b \in Seq(Pair), EmptyKey \notin KeysOf(b),
         FromFile({e \in Pair : Holds(b, e)})
  PROVE  /\ Saved(b) \in Store
         /\ \A k \in Key : Saved(b)[k] # target[k] =>
              \E i \in 1..Len(file) : file[i] = Entry(k, Saved(b)[k])
         /\ \A i \in 1..Len(file) : file[i].kind = "entry" =>
              (file[i].key \in KeysOf(b) => Saved(b)[file[i].key] = file[i].value)
         /\ \A k \in Key : k \notin KeysOf(b) => Saved(b)[k] = target[k]
<1>1. /\ target \in Store /\ file \in Seq(Record) /\ FileShape(file)
  BY DEF RestoreInv, RestoreTypeOK
<1>2. ASSUME NEW k \in Key, k \in KeysOf(b)
      PROVE  /\ Saved(b)[k] \in Value \cup {Absent}
             /\ \E i \in 1..Len(file) : file[i] = Entry(k, Saved(b)[k])
  <2> DEFINE n == CHOOSE i \in 1..Len(b) : b[i][1] = k
  <2>1. n \in 1..Len(b) /\ b[n][1] = k
    BY <1>2 DEF KeysOf
  <2>2. Saved(b)[k] = b[n][2]
    BY <1>2 DEF Saved
  <2> HIDE DEF n
  <2>3. b[n] \in Pair
    BY <2>1
  <2>4. Holds(b, b[n])
    BY <2>1 DEF Holds
  <2>5. k # EmptyKey
    BY <1>2
  <2>6. b[n][2] \in Value \cup {Absent}
    BY <2>3 DEF Pair
  <2>7. \E i \in 1..Len(file) : file[i] = Entry(b[n][1], b[n][2])
    BY <2>1, <2>3, <2>4, <2>5 DEF FromFile
  <2> QED
    BY <2>1, <2>2, <2>6, <2>7
<1>3. ASSUME NEW k \in Key, k \notin KeysOf(b) PROVE Saved(b)[k] = target[k]
  BY <1>3 DEF Saved
<1>4. Saved(b) \in Store
  <2>1. \A k \in Key : Saved(b)[k] \in Value \cup {Absent}
    BY <1>1, <1>2, <1>3 DEF Store
  <2>2. Saved(b) = [k \in Key |-> Saved(b)[k]]
    BY DEF Saved
  <2> QED
    BY <2>1, <2>2 DEF Store
<1>5. ASSUME NEW i \in 1..Len(file), file[i].kind = "entry", file[i].key \in KeysOf(b)
      PROVE  Saved(b)[file[i].key] = file[i].value
  <2>1. file[i] \in Record /\ file[i].key \in Key
    BY <1>1, <1>5, EntryRecord
  <2>2. PICK j \in 1..Len(file) : file[j] = Entry(file[i].key, Saved(b)[file[i].key])
    BY <1>2, <1>5, <2>1
  <2>3. /\ file[j].kind = "entry" /\ file[j].key = file[i].key
        /\ file[j].value = Saved(b)[file[i].key]
    BY <2>2 DEF Entry
  <2>4. i = j
    BY <1>1, <1>5, <2>3 DEF FileShape
  <2> QED
    BY <2>3, <2>4
<1> QED
  BY <1>2, <1>3, <1>4, <1>5

-----------------------------------------------------------------------------
(* Where the next record is. *)
LEMMA NextIs ==
  ASSUME RestoreInv
  PROVE  /\ pos \in Nat /\ Len(file) \in Nat /\ pos <= Len(file)
         /\ ~AtEnd => /\ pos + 1 \in 1..Len(file) /\ NextRecord \in Record
                      /\ NextRecord = file[pos + 1]
<1>1. pos \in 0..Len(file) /\ file \in Seq(Record) /\ Len(file) \in Nat
  BY DEF RestoreInv, RestoreTypeOK
<1> QED
  BY <1>1 DEF AtEnd, NextRecord

(* Behind a record that is no entry come none, if the etcd part has begun. *)
LEMMA BehindEtcd ==
  ASSUME RestoreInv, file[1].version # 1, NEW n \in 2..Len(file),
         n = 2 => ~(file[2].kind = "part" /\ file[2].type = "etcd"),
         file[n].kind # "entry"
  PROVE  \A i \in (n + 1)..Len(file) : file[i].kind # "entry"
<1> SUFFICES ASSUME NEW i \in (n + 1)..Len(file), file[i].kind = "entry" PROVE FALSE
  OBVIOUS
<1>1. Len(file) \in Nat /\ i \in 1..Len(file)
  BY NextIs
<1>2. /\ file[2].kind = "part" /\ file[2].type = "etcd"
      /\ \A j \in 3..i : file[j].kind = "entry"
  BY <1>1 DEF RestoreInv, FileShape
<1>3. n \in 3..i
  BY <1>1, <1>2
<1> QED
  BY <1>2, <1>3

(* What the goroutines hold is in flight. *)
LEMMA StillFlying ==
  ASSUME UNCHANGED <<batch, ch, held>>
  PROVE  Flying' = Flying /\ (NoFlight => NoFlight')
  BY DEF Flying, InFlight, NoFlight

(* The header of the file. *)
LEMMA VersionStep ==
  ASSUME RestoreInv, ReadVersion
  PROVE  RestoreInv'
<1> USE DEF ReadVersion, readVars, workerVars, historyVars
<1>1. Flying' = Flying /\ NoFlight /\ NoFlight' /\ pos = 0 /\ reader = "closed" /\ errCh = << >>
  BY StillFlying DEF RestoreInv, HandInv, PlaceInv
<1>2. CASE AtEnd
  <2>1. lpc' = "failed" /\ pos' = pos /\ partCnt' = partCnt
    BY <1>2
  <2>2. RestoreTypeOK' /\ FileShape(file)' /\ PlaceInv' /\ HandInv'
    BY <1>1, <2>1 DEF RestoreInv, RestoreTypeOK, LoadPC, PlaceInv, HandInv
  <2>3. DataInv' /\ NodesInv'
    BY <1>1, <2>1, NextIs, DataKept, NodesKept
  <2> QED
    BY <2>2, <2>3 DEF RestoreInv
<1>3. CASE ~AtEnd
  <2>1. pos' = 1 /\ 1 \in 1..Len(file) /\ NextRecord = file[1] /\ file[1] \in Record
    BY <1>1, <1>3, NextIs
  <2>2. file[1].kind = "version"
    BY <2>1 DEF RestoreInv, FileShape
  <2>3. file[1] \in [kind: {"version"}, version: {1, 2}, cnt: Nat]
    BY <2>1, <2>2 DEF Record, Blob, Stop
  <2>4. /\ partCnt' \in Nat
        /\ \/ lpc' = "v1" /\ file[1].version = 1
           \/ lpc' = "header" /\ file[1].version # 1
    BY <1>3, <2>1, <2>3
  <2>5. RestoreTypeOK'
    BY <2>1, <2>4 DEF RestoreInv, RestoreTypeOK, LoadPC
  <2>6. FileShape(file)' /\ PlaceInv' /\ HandInv'
    BY <1>1, <2>1, <2>4 DEF RestoreInv, PlaceInv, HandInv
  <2>7. \A i \in (pos + 1)..pos' : file[i].kind # "entry"
    BY <1>1, <2>1, <2>2
  <2>8. DataInv' /\ NodesInv'
    BY <1>1, <2>1, <2>7, DataKept, NodesKept
  <2> QED
    BY <2>5, <2>6, <2>8 DEF RestoreInv
<1> QED
  BY <1>2, <1>3

(* The command goes on in the file without touching an entry. *)
LEMMA PlaceStep ==
  ASSUME RestoreInv, UNCHANGED <<readVars, workerVars, target, nodes, historyVars, file>>,
         lpc = "header" \/ lpc = "metrics", lpc' \in {"header", "metrics", "loaded"},
         partCnt' = partCnt, pos' \in Nat, pos <= pos', pos' <= Len(file),
         \A i \in (pos + 1)..Len(file) : file[i].kind # "entry",
         lpc' = "metrics" =>
           \E p \in 1..pos' : /\ file[p].kind = "part" /\ file[p].type = "metrics"
                              /\ \A q \in (p + 1)..pos' : file[q].kind \in {"session", "blob"}
  PROVE  RestoreInv'
<1> USE DEF readVars, workerVars, historyVars
<1>1. Flying' = Flying /\ NoFlight' /\ reader' = "closed" /\ errCh' = << >>
  BY StillFlying DEF RestoreInv, HandInv
<1>2. pos \in Nat /\ Len(file) \in Nat
  BY NextIs
<1>3. RestoreTypeOK'
  BY DEF RestoreInv, RestoreTypeOK, LoadPC
<1>4. FileShape(file)' /\ HandInv'
  BY <1>1 DEF RestoreInv, HandInv
<1>5. file[1].version # 1 /\ pos >= 1
  BY DEF RestoreInv, PlaceInv
<1>6. \A i \in (pos' + 1)..Len(file) : i \in (pos + 1)..Len(file)
  BY <1>2
<1>7. PlaceInv'
  <2>1. file' = file /\ pos' >= 1 /\ lpc' \notin {"version", "v1", "etcd", "wait"}
    BY <1>2, <1>5
  <2>2. \A i \in (pos' + 1)..Len(file') : file'[i].kind # "entry"
    BY <1>6, <2>1
  <2> QED
    BY <1>5, <2>1, <2>2 DEF PlaceInv
<1>8. \A i \in (pos + 1)..pos' : i \in (pos + 1)..Len(file)
  BY <1>2
<1>9. DataInv' /\ NodesInv'
  BY <1>1, <1>8, DataKept, NodesKept
<1> QED
  BY <1>3, <1>4, <1>7, <1>9 DEF RestoreInv

(* Nothing but the etcd part has entries behind the header. *)
LEMMA NoneBehind ==
  ASSUME RestoreInv, lpc = "header",
         pos > 1 \/ AtEnd \/ ~(NextRecord.kind = "part" /\ NextRecord.type = "etcd")
  PROVE  \A i \in (pos + 1)..Len(file) : file[i].kind # "entry"
<1>1. CASE pos > 1
  BY <1>1 DEF RestoreInv, PlaceInv
<1>2. CASE AtEnd
  BY <1>2, NextIs DEF AtEnd
<1>3. CASE ~AtEnd /\ ~(pos > 1)
  <2>1. pos = 1 /\ 2 \in 1..Len(file) /\ NextRecord = file[2] /\ file[1].version # 1
    BY <1>3, NextIs DEF RestoreInv, PlaceInv
  <2> SUFFICES ASSUME NEW i \in 2..Len(file), file[i].kind = "entry" PROVE FALSE
    BY <2>1
  <2>2. i \in 1..Len(file)
    BY NextIs
  <2>3. file[2].kind = "part" /\ file[2].type = "etcd"
    BY <2>1, <2>2 DEF RestoreInv, FileShape
  <2> QED
    BY <1>3, <2>1, <2>3
<1> QED
  BY <1>1, <1>2, <1>3

(* The command reads part headers and the metrics. *)
LEMMA HeaderStep ==
  ASSUME RestoreInv, HeaderFails \/ SkipHeader \/ StartMetrics
  PROVE  RestoreInv'
<1> USE DEF readVars, workerVars, historyVars
<1>1. pos \in Nat /\ Len(file) \in Nat /\ pos <= Len(file)
  BY NextIs
<1>2. CASE HeaderFails
  <2>1. \A i \in (pos + 1)..Len(file) : file[i].kind # "entry"
    BY <1>2, NoneBehind DEF HeaderFails, Is
  <2>2. /\ UNCHANGED <<readVars, workerVars, target, nodes, historyVars, file>>
        /\ lpc = "header" /\ lpc' = "loaded" /\ partCnt' = partCnt /\ pos' = pos
    BY <1>2 DEF HeaderFails
  <2> QED
    BY <1>1, <2>1, <2>2, PlaceStep
<1>3. CASE SkipHeader
  <2>1. \A i \in (pos + 1)..Len(file) : file[i].kind # "entry"
    BY <1>3, NoneBehind DEF SkipHeader, Is
  <2>2. /\ UNCHANGED <<readVars, workerVars, target, nodes, historyVars, file>>
        /\ lpc = "header" /\ lpc' = "header" /\ partCnt' = partCnt /\ pos' = pos + 1
        /\ pos + 1 <= Len(file)
    BY <1>1, <1>3 DEF SkipHeader, Is, AtEnd
  <2> QED
    BY <1>1, <2>1, <2>2, PlaceStep
<1>4. CASE StartMetrics
  <2>1. \A i \in (pos + 1)..Len(file) : file[i].kind # "entry"
    BY <1>4, NoneBehind DEF StartMetrics, Is
  <2>2. /\ UNCHANGED <<readVars, workerVars, target, nodes, historyVars, file>>
        /\ lpc = "header" /\ lpc' = "metrics" /\ partCnt' = partCnt /\ pos' = pos + 1
        /\ pos + 1 <= Len(file)
    BY <1>1, <1>4 DEF StartMetrics, Is, AtEnd
  <2>3. /\ pos' \in 1..pos' /\ file[pos'].kind = "part" /\ file[pos'].type = "metrics"
        /\ \A q \in (pos' + 1)..pos' : file[q].kind \in {"session", "blob"}
    BY <1>1, <1>4, <2>2 DEF StartMetrics, Is, NextRecord
  <2> QED
    BY <1>1, <2>1, <2>2, <2>3, PlaceStep
<1> QED
  BY <1>2, <1>3, <1>4

LEMMA MetricsEnd ==
  ASSUME RestoreInv, EndMetrics
  PROVE  RestoreInv'
<1> USE DEF readVars, workerVars, historyVars
<1>1. pos \in Nat /\ Len(file) \in Nat /\ pos <= Len(file)
  BY NextIs
<1>2. \A i \in (pos + 1)..Len(file) : file[i].kind # "entry"
  BY DEF EndMetrics, RestoreInv, PlaceInv
<1>3. /\ UNCHANGED <<readVars, workerVars, target, nodes, historyVars, file>>
      /\ lpc = "metrics" /\ lpc' = "header" /\ partCnt' = partCnt
  BY DEF EndMetrics
<1>4. pos' \in Nat /\ pos <= pos' /\ pos' <= Len(file)
  BY <1>1 DEF EndMetrics, AtEnd
<1> QED
  BY <1>2, <1>3, <1>4, PlaceStep

(* The metrics of one node: its label and the two texts behind it. *)
LEMMA NodeStep ==
  ASSUME RestoreInv, RestoreNode
  PROVE  RestoreInv'
<1> USE DEF readVars, workerVars, historyVars
<1> DEFINE s == NextRecord.session
<1>1. /\ pos \in Nat /\ Len(file) \in Nat /\ pos + 3 <= Len(file) /\ pos' = pos + 3
      /\ lpc = "metrics" /\ file' = file
      /\ NextRecord = file[pos + 1] /\ NextRecord \in Record /\ NextRecord.kind = "session"
  BY NextIs DEF RestoreNode, Is
<1>2. NextRecord = NodeLabel(s)
  <2>1. NextRecord \in [kind: {"session"}, session: Session]
    BY <1>1 DEF Record, Blob, Stop
  <2> QED
    BY <2>1 DEF NodeLabel
<1>3. PICK p \in 1..pos : /\ file[p].kind = "part" /\ file[p].type = "metrics"
                          /\ \A q \in (p + 1)..pos : file[q].kind \in {"session", "blob"}
  BY <1>1 DEF RestoreInv, PlaceInv
<1>4. \A q \in (p + 1)..(pos + 1) : file[q].kind \in {"session", "blob"}
  <2> SUFFICES ASSUME NEW q \in (p + 1)..(pos + 1)
               PROVE  file[q].kind \in {"session", "blob"}
    OBVIOUS
  <2>1. q \in (p + 1)..pos \/ q = pos + 1
    BY <1>1
  <2> QED
    BY <1>1, <1>3, <2>1
<1>5. InMetrics(file, pos + 1)
  <2>1. p \in 1..((pos + 1) - 1)
    BY <1>1
  <2> QED
    BY <1>3, <1>4, <2>1 DEF InMetrics
<1>6. file[pos + 2] = Blob /\ file[pos + 3] = Blob
  <2>1. pos + 1 \in 1..(Len(file) - 2) /\ (pos + 1) + 1 = pos + 2 /\ (pos + 1) + 2 = pos + 3
    BY <1>1
  <2>2. file[(pos + 1) + 1] = Blob /\ file[(pos + 1) + 2] = Blob
    BY <1>1, <1>5, <2>1 DEF RestoreInv, FileShape
  <2> QED
    BY <2>1, <2>2
<1> HIDE DEF s
<1>7. NodesInv'
  <2>1. nodes' = nodes \cup {s}
    BY DEF RestoreNode, s
  <2>2. pos + 1 \in 1..(pos' - 2) /\ \A i \in 1..(pos - 2) : i \in 1..(pos' - 2)
    BY <1>1
  <2>3. (pos + 1) + 1 = pos + 2 /\ (pos + 1) + 2 = pos + 3
    BY <1>1
  <2>4. ASSUME NEW t \in nodes'
        PROVE  \E i \in 1..(pos' - 2) :
                 file[i] = NodeLabel(t) /\ file[i + 1] = Blob /\ file[i + 2] = Blob
    <3>1. CASE t = s
      BY <1>1, <1>2, <1>6, <2>2, <2>3, <3>1
    <3>2. CASE t \in nodes
      BY <2>2, <3>2 DEF RestoreInv, NodesInv
    <3> QED
      BY <2>1, <3>1, <3>2
  <2> QED
    BY <1>1, <2>4 DEF NodesInv
<1>8. Flying' = Flying /\ NoFlight' /\ reader' = "closed" /\ errCh' = << >>
  BY StillFlying DEF RestoreNode, RestoreInv, HandInv
<1>9. RestoreTypeOK' /\ FileShape(file)'
  BY <1>1 DEF RestoreNode, RestoreInv, RestoreTypeOK
<1>10. HandInv'
  BY <1>1, <1>8 DEF RestoreNode, RestoreInv, HandInv
<1>11. \A i \in (pos + 1)..Len(file) : file[i].kind # "entry"
  BY <1>1 DEF RestoreInv, PlaceInv
<1>12. PlaceInv'
  <2>1. p \in 1..pos' /\ \A q \in (p + 1)..pos' : file[q].kind \in {"session", "blob"}
    <3> SUFFICES ASSUME NEW q \in (p + 1)..pos'
                 PROVE  p \in 1..pos' /\ file[q].kind \in {"session", "blob"}
      BY <1>1
    <3>1. p \in 1..pos' /\ (q \in (p + 1)..(pos + 1) \/ q = pos + 2 \/ q = pos + 3)
      BY <1>1
    <3> QED
      BY <1>4, <1>6, <3>1 DEF Blob
  <2>2. \A i \in (pos' + 1)..Len(file) : file[i].kind # "entry"
    BY <1>1, <1>11
  <2>3. lpc' = "metrics" /\ pos' >= 1 /\ file[1].version # 1
    BY <1>1 DEF RestoreNode, RestoreInv, PlaceInv
  <2> QED
    BY <1>1, <1>3, <2>1, <2>2, <2>3 DEF PlaceInv
<1>13. \A i \in (pos + 1)..pos' : i \in (pos + 1)..Len(file)
  BY <1>1
<1>14. DataInv'
  BY <1>1, <1>8, <1>11, <1>13, DataKept DEF RestoreNode
<1> QED
  BY <1>7, <1>9, <1>10, <1>12, <1>14 DEF RestoreInv

-----------------------------------------------------------------------------
(* The etcd part: the second record of the file. *)
LEMMA EtcdStarts ==
  ASSUME RestoreInv, StartEtcd
  PROVE  RestoreInv'
<1> USE DEF StartEtcd, historyVars
<1>1. /\ pos \in Nat /\ Len(file) \in Nat /\ pos + 1 \in 1..Len(file)
      /\ NextRecord = file[pos + 1] /\ NextRecord \in Record
  BY NextIs DEF Is
<1>2. pos + 1 = 2 /\ file[pos + 1].kind = "part"
  BY <1>1 DEF Is, RestoreInv, FileShape
<1>3. file[pos + 1] \in [kind: {"part"}, type: NodeParts \cup {"etcd"}, cnt: Nat]
  BY <1>1, <1>2 DEF Record, Blob, Stop
<1>4. Flying' = Flying /\ NoFlight' /\ errCh' = << >> /\ file[1].version # 1
  BY StillFlying DEF RestoreInv, HandInv, PlaceInv
<1>5. RestoreTypeOK'
  BY <1>1, <1>3 DEF RestoreInv, RestoreTypeOK, LoadPC, ReaderPC
<1>6. FileShape(file)' /\ PlaceInv' /\ HandInv'
  BY <1>2, <1>4 DEF RestoreInv, PlaceInv, HandInv, NoFlight
<1>7. DataInv' /\ NodesInv'
  <2>1. pos' \in Nat /\ pos <= pos' /\ \A i \in (pos + 1)..pos' : file[i].kind # "entry"
    BY <1>1, <1>2
  <2> QED
    BY <1>4, <2>1, DataKept, NodesKept
<1> QED
  BY <1>5, <1>6, <1>7 DEF RestoreInv

(* The reader appends an entry to its batch, or skips a record. *)
LEMMA ReadStep ==
  ASSUME RestoreInv, ReadEntry
  PROVE  RestoreInv'
<1> USE DEF workerVars, historyVars
<1>1. /\ pos \in Nat /\ Len(file) \in Nat /\ pos + 1 \in 1..Len(file) /\ pos' = pos + 1
      /\ NextRecord = file[pos + 1] /\ NextRecord \in Record
      /\ UNCHANGED <<lpc, partCnt, ch, errCh, alive, held, target, nodes, saveFailed, file>>
  BY NextIs DEF ReadEntry
<1>2. lpc = "etcd" /\ reader = "read" /\ alive = Worker /\ errCh = << >>
  BY DEF ReadEntry, RestoreInv, HandInv
<1>3. PICK e \in AsEntry(NextRecord) :
        \/ e = NoEntry /\ UNCHANGED <<reader, batch>>
        \/ /\ e # NoEntry /\ partCnt # 0
           /\ batch' = Append(batch, e)
           /\ reader' \in {"send", "read"}
  BY DEF ReadEntry
<1>4. NextRecord.kind = "entry" =>
        /\ e = <<NextRecord.key, NextRecord.value>> /\ e # NoEntry
        /\ NextRecord = Entry(NextRecord.key, NextRecord.value)
        /\ NextRecord.key \in Key /\ NextRecord.value \in Value
  <2> SUFFICES ASSUME NextRecord.kind = "entry"
               PROVE  /\ e = <<NextRecord.key, NextRecord.value>> /\ e # NoEntry
                      /\ NextRecord = Entry(NextRecord.key, NextRecord.value)
                      /\ NextRecord.key \in Key /\ NextRecord.value \in Value
    OBVIOUS
  <2>1. /\ NextRecord = Entry(NextRecord.key, NextRecord.value)
        /\ NextRecord.key \in Key /\ NextRecord.value \in Value
    BY <1>1, EntryRecord
  <2>2. AsEntry(NextRecord) = {<<NextRecord.key, NextRecord.value>>}
    BY DEF AsEntry
  <2>3. e = <<NextRecord.key, NextRecord.value>>
    BY <2>2
  <2>4. e # NoEntry
    BY <2>3 DEF NoEntry
  <2> QED
    BY <2>1, <2>3, <2>4
<1>5. NextRecord.kind # "entry" => e \in {<<EmptyKey, Absent>>, NoEntry}
  BY <1>3 DEF AsEntry
<1>6. e = NoEntry \/ e \in Pair
  BY <1>4, <1>5 DEF Pair
<1>7. batch \in Seq(Pair) /\ batch' \in Seq(Pair) /\ reader' \in {"send", "read"}
  <2>1. batch \in Seq(Pair)
    BY DEF RestoreInv, RestoreTypeOK
  <2>2. e \in Pair => Append(batch, e) \in Seq(Pair)
    BY <2>1
  <2> QED
    BY <1>2, <1>3, <1>6, <2>1, <2>2
<1>8. RestoreTypeOK' /\ FileShape(file)' /\ PlaceInv'
  <2>1. RestoreTypeOK' /\ FileShape(file)'
    BY <1>1, <1>7 DEF RestoreInv, RestoreTypeOK, ReaderPC
  <2>2. pos >= 2 /\ file[1].version # 1
    BY <1>2 DEF RestoreInv, PlaceInv
  <2>3. PlaceInv'
    BY <1>1, <1>2, <1>7, <2>2 DEF PlaceInv
  <2> QED
    BY <2>1, <2>3
<1>9. HandInv'
  <2>1. partCnt' = 0 => NoFlight'
    BY <1>1, <1>3 DEF RestoreInv, HandInv, NoFlight
  <2>2. reader' = "send" => partCnt' # 0
    BY <1>1, <1>2, <1>3
  <2>3. \A w \in Worker : held'[w] # << >> => w \in alive'
    BY <1>1 DEF RestoreInv, HandInv
  <2> QED
    BY <1>1, <1>2, <1>7, <2>1, <2>2, <2>3 DEF HandInv
<1>10. NodesInv'
  BY <1>1, NodesKept
<1>11. DataInv'
  <2>1. CASE e = NoEntry
    <3>1. Flying' = Flying
      BY <1>1, <1>3, <2>1, StillFlying
    <3>2. \A i \in (pos + 1)..pos' : file[i].kind # "entry"
      BY <1>1, <1>4, <2>1
    <3> QED
      BY <1>1, <3>1, <3>2, DataKept
  <2>2. CASE e # NoEntry
    <3>1. Flying' = Flying \cup {e}
      <4>1. InFlight(Append(batch, e), ch, held) = InFlight(batch, ch, held) \cup {e}
        BY <1>6, <1>7, <2>2, FlightRead
      <4>2. batch' = Append(batch, e) /\ ch' = ch /\ held' = held
        BY <1>1, <1>3, <2>2
      <4> QED
        BY <4>1, <4>2 DEF Flying
    <3>2. EmptyKey \notin Key
      BY FileAssumption DEF EmptyKey, Key
    <3>3. FromFile({e})
      <4>1. CASE NextRecord.kind = "entry"
        BY <1>1, <1>4, <4>1 DEF FromFile
      <4>2. CASE NextRecord.kind # "entry"
        BY <1>5, <2>2, <4>2 DEF FromFile
      <4> QED
        BY <4>1, <4>2
    <3>4. FromFile(Flying)'
      BY <1>1, <3>1, <3>3 DEF RestoreInv, DataInv, FromFile
    <3>5. (\A k \in Key : target[k] # Absent => EntryOf(k))'
      BY <1>1 DEF RestoreInv, DataInv, EntryOf
    <3>6. ASSUME ~saveFailed PROVE Arriving(target, Flying, pos)'
      <4>1. Arriving(target, Flying, pos)
        BY <1>2, <3>6 DEF RestoreInv, DataInv
      <4> SUFFICES ASSUME NEW i \in 1..pos', file[i].kind = "entry"
                   PROVE  \/ target[file[i].key] = file[i].value
                          \/ <<file[i].key, file[i].value>> \in Flying'
        BY <1>1 DEF Arriving
      <4>2. i \in 1..pos \/ i = pos + 1
        BY <1>1
      <4> QED
        BY <1>1, <1>4, <3>1, <4>1, <4>2 DEF Arriving
    <3> QED
      BY <1>1, <3>4, <3>5, <3>6 DEF DataInv
  <2> QED
    BY <2>1, <2>2
<1> QED
  BY <1>8, <1>9, <1>10, <1>11 DEF RestoreInv

(* The reader divides by zero and the process ends. *)
LEMMA PanicStep ==
  ASSUME RestoreInv, ReadPanics
  PROVE  RestoreInv'
<1> USE DEF ReadPanics, historyVars
<1>1. Flying' = Flying /\ NoFlight' /\ errCh' = << >>
  BY StillFlying DEF RestoreInv, HandInv
<1>2. RestoreTypeOK' /\ FileShape(file)'
  BY DEF RestoreInv, RestoreTypeOK, LoadPC, ReaderPC
<1>3. PlaceInv' /\ HandInv'
  BY <1>1 DEF RestoreInv, PlaceInv, HandInv, NoFlight
<1>4. DataInv' /\ NodesInv'
  <2>1. pos' \in Nat /\ pos' = pos
    BY NextIs
  <2> QED
    BY <1>1, <2>1, DataKept, NodesKept
<1> QED
  BY <1>2, <1>3, <1>4 DEF RestoreInv

(* A batch goes to the workers. *)
LEMMA SendStep ==
  ASSUME RestoreInv, SendBatch \/ CloseChan
  PROVE  RestoreInv'
<1> USE DEF workerVars, historyVars
<1>1. /\ UNCHANGED <<lpc, pos, partCnt, errCh, alive, held, target, nodes, saveFailed, file>>
      /\ batch' = << >> /\ batch \in Seq(Pair) /\ ch \in Seq(Seq(Pair))
  BY DEF SendBatch, CloseChan, RestoreInv, RestoreTypeOK
<1>2. \/ reader = "send" /\ reader' = "read"
      \/ reader = "flush" /\ reader' = "closed"
  BY DEF SendBatch, CloseChan
<1>3. \/ ch' = Append(ch, batch) /\ partCnt # 0
      \/ batch = << >> /\ ch' = ch
  BY DEF SendBatch, CloseChan, RestoreInv, HandInv, NoFlight
<1>4. lpc \in {"etcd", "wait"} /\ alive = Worker /\ (reader = "send" => lpc = "etcd")
  BY <1>2 DEF RestoreInv, HandInv
<1>5. Flying' = Flying
  <2>1. CASE ch' = Append(ch, batch)
    <3>1. InFlight(<< >>, Append(ch, batch), held) = InFlight(batch, ch, held)
      BY <1>1, FlightSend
    <3> QED
      BY <1>1, <2>1, <3>1 DEF Flying
  <2>2. CASE batch = << >> /\ ch' = ch
    BY <1>1, <2>2, StillFlying
  <2> QED
    BY <1>3, <2>1, <2>2
<1>6. RestoreTypeOK' /\ FileShape(file)'
  <2>1. << >> \in Seq(Pair) /\ Append(ch, batch) \in Seq(Seq(Pair))
    BY <1>1
  <2> QED
    BY <1>1, <1>2, <1>3, <2>1 DEF RestoreInv, RestoreTypeOK, ReaderPC
<1>7. PlaceInv'
  BY <1>1, <1>2 DEF RestoreInv, PlaceInv
<1>8. HandInv'
  <2>1. partCnt' = 0 => NoFlight'
    BY <1>1, <1>3 DEF RestoreInv, HandInv, NoFlight
  <2>2. errCh' # << >> => /\ Len(errCh') = 1 /\ lpc' = "etcd" /\ reader' \in {"flush", "closed"}
    BY <1>1, <1>2 DEF RestoreInv, HandInv
  <2>3. \A w \in Worker : held'[w] # << >> => w \in alive'
    BY <1>1 DEF RestoreInv, HandInv
  <2> QED
    BY <1>1, <1>2, <1>4, <2>1, <2>2, <2>3 DEF HandInv
<1>9. DataInv' /\ NodesInv'
  <2>1. pos' \in Nat /\ pos' = pos
    BY <1>1, NextIs
  <2> QED
    BY <1>1, <1>5, <2>1, DataKept, NodesKept
<1> QED
  BY <1>6, <1>7, <1>8, <1>9 DEF RestoreInv

(* The reader's verdict goes out. *)
LEMMA StopStep ==
  ASSUME RestoreInv, StopReading
  PROVE  RestoreInv'
<1> USE DEF workerVars
<1>1. /\ UNCHANGED <<lpc, partCnt, batch, ch, alive, held, target, nodes, saveFailed, file>>
      /\ reader = "read" /\ reader' = "flush" /\ errCh' = Append(errCh, readFailed')
      /\ readFailed' \in BOOLEAN
  BY DEF StopReading
<1>2. lpc = "etcd" /\ alive = Worker /\ errCh = << >> /\ pos >= 2 /\ file[1].version # 1
  BY <1>1 DEF RestoreInv, HandInv, PlaceInv
<1>3. errCh' \in Seq(BOOLEAN) /\ Len(errCh') = 1
  BY <1>1, <1>2
<1>4. /\ pos' \in Nat /\ pos <= pos' /\ pos' <= Len(file) /\ pos \in Nat /\ Len(file) \in Nat
      /\ pos' = Len(file) \/ (pos' >= 3 /\ file[pos'].kind = "stop")
      /\ \A i \in (pos + 1)..pos' : file[i].kind # "entry"
  <2>1. CASE AtEnd
    BY <2>1, NextIs DEF StopReading, AtEnd
  <2>2. CASE ~AtEnd
    <3>1. pos' = pos + 1 /\ file[pos'].kind = "stop" /\ pos' \in 1..Len(file)
      BY <2>2, NextIs DEF StopReading, Is
    <3> QED
      BY <1>2, <3>1, NextIs
  <2> QED
    BY <2>1, <2>2
<1>5. RestoreTypeOK' /\ FileShape(file)'
  BY <1>1, <1>3, <1>4 DEF RestoreInv, RestoreTypeOK, ReaderPC
<1>6. PlaceInv'
  BY <1>1, <1>2, <1>4 DEF PlaceInv
<1>7. HandInv'
  BY <1>1, <1>2, <1>3 DEF RestoreInv, HandInv, NoFlight
<1>8. DataInv' /\ NodesInv'
  BY <1>1, <1>4, StillFlying, DataKept, NodesKept
<1> QED
  BY <1>5, <1>6, <1>7, <1>8 DEF RestoreInv

-----------------------------------------------------------------------------
(* A worker takes a batch. *)
LEMMA TakeStep ==
  ASSUME RestoreInv, NEW w \in Worker, TakeBatch(w)
  PROVE  RestoreInv'
<1> USE DEF historyVars, NoBatch
<1>1. /\ UNCHANGED <<lpc, pos, partCnt, reader, batch, errCh, alive, target, nodes, saveFailed, file>>
      /\ ch # << >> /\ ch \in Seq(Seq(Pair)) /\ held \in [Worker -> Seq(Pair)]
      /\ w \in alive /\ held[w] = << >>
      /\ held' = [held EXCEPT ![w] = Head(ch)] /\ ch' = Tail(ch)
  BY DEF TakeBatch, RestoreInv, RestoreTypeOK
<1>2. Flying' = Flying
  BY <1>1, FlightTake DEF Flying
<1>3. lpc \in {"etcd", "wait"} /\ partCnt # 0 /\ alive = Worker
  BY <1>1 DEF RestoreInv, HandInv, NoFlight
<1>4. RestoreTypeOK' /\ FileShape(file)'
  <2>1. Head(ch) \in Seq(Pair) /\ Tail(ch) \in Seq(Seq(Pair))
    BY <1>1
  <2>2. held' \in [Worker -> Seq(Pair)]
    BY <1>1, <2>1
  <2> QED
    BY <1>1, <2>1, <2>2 DEF RestoreInv, RestoreTypeOK
<1>5. PlaceInv'
  BY <1>1 DEF RestoreInv, PlaceInv
<1>6. HandInv'
  <2>1. \A v \in Worker : held'[v] # << >> => v \in alive'
    BY <1>1, <1>3
  <2> QED
    BY <1>1, <1>3, <2>1 DEF RestoreInv, HandInv
<1>7. DataInv' /\ NodesInv'
  <2>1. pos' \in Nat /\ pos' = pos
    BY <1>1, NextIs
  <2> QED
    BY <1>1, <1>2, <2>1, DataKept, NodesKept
<1> QED
  BY <1>4, <1>5, <1>6, <1>7 DEF RestoreInv

(* A worker returns. *)
LEMMA DoneStep ==
  ASSUME RestoreInv, NEW w \in Worker, WorkerDone(w)
  PROVE  RestoreInv'
<1> USE DEF WorkerDone, readVars, historyVars, NoBatch
<1>1. Flying' = Flying /\ (NoFlight => NoFlight')
  BY StillFlying
<1>2. RestoreTypeOK' /\ FileShape(file)' /\ PlaceInv'
  BY DEF RestoreInv, RestoreTypeOK, PlaceInv
<1>3. HandInv'
  BY <1>1 DEF RestoreInv, HandInv
<1>4. DataInv' /\ NodesInv'
  <2>1. pos' \in Nat /\ pos' = pos
    BY NextIs
  <2> QED
    BY <1>1, <2>1, DataKept, NodesKept
<1> QED
  BY <1>2, <1>3, <1>4 DEF RestoreInv

(* A worker saves its batch, or fails to: of a key the file is obeyed, and
   what was saved is no longer on its way. *)
LEMMA SaveStep ==
  ASSUME RestoreInv, NEW w \in Worker, SaveBatch(w)
  PROVE  RestoreInv'
<1> USE DEF readVars, NoBatch
<1> DEFINE b == held[w]
<1>1. /\ UNCHANGED <<lpc, pos, partCnt, reader, batch, ch, errCh, alive, nodes, file>>
      /\ held \in [Worker -> Seq(Pair)] /\ b # << >> /\ b \in Seq(Pair)
      /\ held' = [held EXCEPT ![w] = << >>]
  BY DEF SaveBatch, RestoreInv, RestoreTypeOK
<1>2. \/ target' = target /\ saveFailed'
      \/ /\ EmptyKey \notin KeysOf(b) /\ target' = Saved(b)
         /\ saveFailed => saveFailed'
  BY DEF SaveBatch
<1>3. \A e \in Pair : e \in Flying <=> e \in Flying' \/ Holds(b, e)
  BY <1>1, FlightSave DEF Flying
<1>4. Flying' \subseteq Flying
  BY <1>3 DEF Flying, InFlight
<1>5. FromFile({e \in Pair : Holds(b, e)})
  BY <1>3 DEF RestoreInv, DataInv, FromFile
<1>6. EmptyKey \notin KeysOf(b) =>
        /\ Saved(b) \in Store
        /\ \A k \in Key : Saved(b)[k] # target[k] =>
             \E i \in 1..Len(file) : file[i] = Entry(k, Saved(b)[k])
        /\ \A i \in 1..Len(file) : file[i].kind = "entry" =>
             (file[i].key \in KeysOf(b) => Saved(b)[file[i].key] = file[i].value)
        /\ \A k \in Key : k \notin KeysOf(b) => Saved(b)[k] = target[k]
  BY <1>1, <1>5, SavedIs
<1>7. lpc \in {"etcd", "wait"} /\ partCnt # 0 /\ w \in alive
  BY <1>1 DEF RestoreInv, HandInv, NoFlight
<1> HIDE DEF b
<1>8. RestoreTypeOK' /\ FileShape(file)'
  <2>1. << >> \in Seq(Pair)
    OBVIOUS
  <2>2. held' \in [Worker -> Seq(Pair)]
    BY <1>1, <2>1
  <2>3. target' \in Store
    BY <1>2, <1>6, Zenon DEF RestoreInv, RestoreTypeOK
  <2> QED
    BY <1>1, <2>2, <2>3 DEF RestoreInv, RestoreTypeOK
<1>9. PlaceInv'
  BY <1>1 DEF RestoreInv, PlaceInv
<1>10. HandInv'
  <2>1. \A v \in Worker : held'[v] # << >> => v \in alive'
    BY <1>1 DEF RestoreInv, HandInv
  <2> QED
    BY <1>1, <1>7, <2>1 DEF RestoreInv, HandInv
<1>11. NodesInv'
  BY <1>1, NextIs, NodesKept
<1>12. DataInv'
  <2>1. FromFile(Flying)'
    BY <1>1, <1>4 DEF RestoreInv, DataInv, FromFile
  <2>2. ASSUME NEW k \in Key, target'[k] # Absent
        PROVE  \E i \in 1..Len(file) : file[i] = Entry(k, target'[k])
    BY <1>2, <1>6, <2>2 DEF RestoreInv, DataInv, EntryOf
  <2>3. ASSUME ~saveFailed', NEW i \in 1..pos, file[i].kind = "entry"
        PROVE  \/ target'[file[i].key] = file[i].value
               \/ <<file[i].key, file[i].value>> \in Flying'
    <3>1. ~saveFailed /\ target' = Saved(b) /\ EmptyKey \notin KeysOf(b)
      BY <1>2, <2>3, Zenon
    <3>2. \/ target[file[i].key] = file[i].value
          \/ <<file[i].key, file[i].value>> \in Flying
      BY <1>7, <2>3, <3>1 DEF RestoreInv, DataInv, Arriving
    <3>3. i \in 1..Len(file) /\ file[i] \in Record
      BY NextIs DEF RestoreInv, RestoreTypeOK
    <3>4. file[i].key \in Key /\ file[i].value \in Value
      BY <2>3, <3>3, EntryRecord
    <3>5. <<file[i].key, file[i].value>> \in Pair
      BY <3>4 DEF Pair
    <3>6. CASE file[i].key \in KeysOf(b)
      BY <1>6, <2>3, <3>1, <3>3, <3>6
    <3>7. CASE file[i].key \notin KeysOf(b)
      <4>1. ~Holds(b, <<file[i].key, file[i].value>>)
        <5> SUFFICES ASSUME NEW j \in 1..Len(b), b[j] = <<file[i].key, file[i].value>>
                     PROVE  FALSE
          BY DEF Holds
        <5>1. b[j][1] = file[i].key
          OBVIOUS
        <5> QED
          BY <3>7, <5>1 DEF KeysOf
      <4> QED
        BY <1>3, <1>6, <3>1, <3>2, <3>4, <3>5, <3>7, <4>1
    <3> QED
      BY <3>6, <3>7
  <2>4. (\A k \in Key : target[k] # Absent => EntryOf(k))'
    BY <1>1, <2>2 DEF EntryOf
  <2>5. ASSUME ~saveFailed' PROVE Arriving(target, Flying, pos)'
    BY <1>1, <2>3, <2>5 DEF Arriving
  <2> QED
    BY <2>1, <2>4, <2>5 DEF DataInv
<1> QED
  BY <1>8, <1>9, <1>10, <1>11, <1>12 DEF RestoreInv

-----------------------------------------------------------------------------
(* The command takes the reader's verdict. *)
LEMMA VerdictStep ==
  ASSUME RestoreInv, TakeVerdict
  PROVE  RestoreInv'
<1> USE DEF TakeVerdict, workerVars, historyVars
<1>1. Flying' = Flying /\ (NoFlight => NoFlight')
  BY StillFlying
<1>2. Len(errCh) = 1 /\ errCh \in Seq(BOOLEAN) /\ reader \in {"flush", "closed"}
  BY DEF RestoreInv, RestoreTypeOK, HandInv
<1>3. errCh' = << >>
  BY <1>2
<1>4. RestoreTypeOK' /\ FileShape(file)'
  <2>1. << >> \in Seq(BOOLEAN)
    OBVIOUS
  <2>2. errCh' \in Seq(BOOLEAN)
    BY <1>3, <2>1, Zenon
  <2> QED
    BY <2>2 DEF RestoreInv, RestoreTypeOK, LoadPC
<1>5. PlaceInv'
  BY DEF RestoreInv, PlaceInv
<1>6. HandInv'
  BY <1>1, <1>2, <1>3 DEF RestoreInv, HandInv
<1>7. DataInv' /\ NodesInv'
  <2>1. pos' \in Nat /\ pos' = pos
    BY NextIs
  <2> QED
    BY <1>1, <2>1, DataKept, NodesKept
<1> QED
  BY <1>4, <1>5, <1>6, <1>7 DEF RestoreInv

(* The wait group is done: nothing is on its way any more. *)
LEMMA GoneStep ==
  ASSUME RestoreInv, WorkersGone
  PROVE  RestoreInv'
<1> USE DEF readVars, workerVars, historyVars
<1>1. /\ UNCHANGED <<pos, partCnt, reader, batch, ch, errCh, alive, held, target, nodes,
                      saveFailed, file>>
      /\ lpc = "wait" /\ alive = {} /\ lpc' \in {"failed", "header"}
  BY DEF WorkersGone
<1>2. alive # Worker
  BY <1>1, RestoreAssumption
<1>3. NoFlight /\ reader = "closed" /\ errCh = << >>
  BY <1>1, <1>2 DEF RestoreInv, HandInv, NoFlight
<1>4. Flying' = Flying /\ NoFlight'
  BY <1>1, <1>3, StillFlying
<1>5. pos \in Nat /\ Len(file) \in Nat /\ pos <= Len(file)
  BY NextIs
<1>6. \A i \in (pos + 1)..Len(file) : file[i].kind # "entry"
  <2>1. CASE pos = Len(file)
    BY <1>5, <2>1
  <2>2. CASE pos # Len(file)
    <3>1. pos >= 3 /\ file[pos].kind = "stop" /\ file[1].version # 1
      BY <1>1, <1>3, <2>2 DEF RestoreInv, PlaceInv
    <3>2. pos \in 2..Len(file)
      BY <1>5, <3>1
    <3> QED
      BY <3>1, <3>2, BehindEtcd
  <2> QED
    BY <2>1, <2>2
<1>7. RestoreTypeOK' /\ FileShape(file)'
  BY <1>1 DEF RestoreInv, RestoreTypeOK, LoadPC
<1>8. PlaceInv'
  <2>1. pos >= 2 /\ file[1].version # 1
    BY <1>1 DEF RestoreInv, PlaceInv
  <2> QED
    BY <1>1, <1>5, <1>6, <2>1 DEF PlaceInv
<1>9. HandInv'
  BY <1>1, <1>3, <1>4 DEF RestoreInv, HandInv
<1>10. DataInv' /\ NodesInv'
  BY <1>1, <1>4, <1>5, DataKept, NodesKept
<1> QED
  BY <1>7, <1>8, <1>9, <1>10 DEF RestoreInv

(* A file of version 1, entry by entry. *)
LEMMA V1Step ==
  ASSUME RestoreInv, RestoreV1
  PROVE  RestoreInv'
<1> USE DEF readVars, workerVars, historyVars
<1>1. /\ UNCHANGED <<partCnt, reader, batch, ch, errCh, alive, held, nodes, saveFailed, file>>
      /\ lpc = "v1" /\ lpc' \in {"v1", "loaded", "failed", "panicked"}
  BY DEF RestoreV1
<1>2. NoFlight /\ reader = "closed" /\ errCh = << >> /\ file[1].version = 1 /\ pos >= 1
  BY <1>1 DEF RestoreInv, HandInv, PlaceInv
<1>3. Flying' = Flying /\ NoFlight' /\ Flying = {}
  BY <1>1, <1>2, StillFlying, NothingFlies
<1>4. pos \in Nat /\ Len(file) \in Nat /\ pos <= Len(file)
  BY NextIs
<1>5. HandInv'
  BY <1>1, <1>2, <1>3 DEF RestoreInv, HandInv
<1>6. CASE AtEnd
  <2>1. pos' = pos /\ target' = target /\ lpc' \in {"failed", "loaded"} /\ pos = Len(file)
    BY <1>6 DEF RestoreV1, AtEnd
  <2>2. RestoreTypeOK' /\ FileShape(file)'
    BY <1>1, <2>1 DEF RestoreInv, RestoreTypeOK, LoadPC
  <2>3. PlaceInv'
    BY <1>1, <1>4, <2>1 DEF PlaceInv
  <2>4. DataInv' /\ NodesInv'
    BY <1>1, <1>3, <1>4, <2>1, DataKept, NodesKept
  <2> QED
    BY <1>5, <2>2, <2>3, <2>4 DEF RestoreInv
<1>7. CASE ~AtEnd
  <2> DEFINE k == NextRecord.key
             v == NextRecord.value
  <2>1. /\ pos' = pos + 1 /\ pos + 1 \in 1..Len(file) /\ NextRecord = file[pos + 1]
        /\ NextRecord \in Record /\ lpc' \in {"v1", "failed", "panicked"}
    BY <1>7, NextIs DEF RestoreV1
  <2>2. NextRecord.kind = "entry"
    BY <1>2, <1>4, <2>1 DEF RestoreInv, FileShape
  <2>3. k \in Key /\ v \in Value /\ NextRecord = Entry(k, v)
    BY <2>1, <2>2, EntryRecord
  <2>4. /\ target' \in {target, [target EXCEPT ![k] = v]}
        /\ lpc' = "v1" => target' = [target EXCEPT ![k] = v]
    BY <1>7 DEF RestoreV1
  <2> HIDE DEF k, v
  <2>5. target \in Store
    BY DEF RestoreInv, RestoreTypeOK
  <2>6. target' \in Store
    BY <2>3, <2>4, <2>5 DEF Store
  <2>7. RestoreTypeOK' /\ FileShape(file)'
    BY <1>1, <1>4, <2>1, <2>6 DEF RestoreInv, RestoreTypeOK, LoadPC
  <2>8. PlaceInv'
    BY <1>1, <1>2, <1>4, <2>1 DEF PlaceInv
  <2>9. NodesInv'
    BY <1>1, <1>4, <2>1, NodesKept
  <2>10. ASSUME NEW m \in Key, target'[m] # Absent
         PROVE  \E i \in 1..Len(file) : file[i] = Entry(m, target'[m])
    <3>1. CASE target'[m] = target[m]
      BY <2>10, <3>1 DEF RestoreInv, DataInv, EntryOf
    <3>2. CASE target'[m] # target[m]
      <4>1. m = k /\ target'[m] = v
        BY <2>3, <2>4, <2>5, <3>2 DEF Store
      <4> QED
        BY <2>1, <2>3, <4>1
    <3> QED
      BY <3>1, <3>2
  <2>11. ASSUME lpc' = "v1", ~saveFailed, NEW i \in 1..pos', file[i].kind = "entry"
         PROVE  target'[file[i].key] = file[i].value
    <3>1. i \in 1..pos \/ i = pos + 1
      BY <1>4, <2>1
    <3>2. target' = [target EXCEPT ![k] = v] /\ target'[k] = v
      BY <2>3, <2>4, <2>5, <2>11 DEF Store
    <3>3. CASE i = pos + 1
      BY <2>1, <3>2, <3>3 DEF k, v
    <3>4. CASE i \in 1..pos
      <4>1. i \in 1..Len(file) /\ i # pos + 1
        BY <1>4, <3>4
      <4>2. target[file[i].key] = file[i].value
        BY <1>1, <1>3, <2>11, <3>4 DEF RestoreInv, DataInv, Arriving
      <4>3. file[i].key # k
        BY <2>1, <2>2, <2>11, <4>1 DEF RestoreInv, FileShape, k
      <4>4. file[i] \in Record /\ file[i].key \in Key
        BY <2>11, <4>1, EntryRecord DEF RestoreInv, RestoreTypeOK
      <4> QED
        BY <2>5, <3>2, <4>2, <4>3, <4>4 DEF Store
    <3> QED
      BY <3>1, <3>3, <3>4
  <2>12. DataInv'
    <3>1. FromFile(Flying)'
      BY <1>3 DEF FromFile
    <3>2. (\A m \in Key : target[m] # Absent => EntryOf(m))'
      BY <1>1, <2>10 DEF EntryOf
    <3>3. (lpc \notin {"failed", "panicked"} /\ ~saveFailed)' => Arriving(target, Flying, pos)'
      BY <1>1, <2>1, <2>11 DEF Arriving
    <3> QED
      BY <3>1, <3>2, <3>3 DEF DataInv
  <2> QED
    BY <1>5, <2>7, <2>8, <2>9, <2>12 DEF RestoreInv
<1> QED
  BY <1>6, <1>7

-----------------------------------------------------------------------------
(* Every step of the command, the reader and the workers keeps the invariant. *)
LEMMA RestoreStepInv ==
  ASSUME RestoreInv, RestoreStep
  PROVE  RestoreInv'
<1>1. CASE LoadCommand
  BY <1>1, VersionStep, V1Step, HeaderStep, NodeStep, MetricsEnd, EtcdStarts, VerdictStep,
     GoneStep DEF LoadCommand
<1>2. CASE Reader
  BY <1>2, ReadStep, PanicStep, SendStep, StopStep DEF Reader
<1>3. CASE \E w \in Worker : TakeBatch(w) \/ SaveBatch(w) \/ WorkerDone(w)
  BY <1>3, TakeStep, SaveStep, DoneStep
<1> QED
  BY <1>1, <1>2, <1>3 DEF RestoreStep

LEMMA RestoreStutter == RestoreInv /\ UNCHANGED restoreVars => RestoreInv'
<1> SUFFICES ASSUME RestoreInv, UNCHANGED restoreVars PROVE RestoreInv'
  OBVIOUS
<1>1. UNCHANGED <<lpc, pos, partCnt, reader, batch, ch, errCh, alive, held, target, nodes,
                  saveFailed, file>>
  BY DEF restoreVars, readVars, workerVars, historyVars
<1>2. DataInv' /\ NodesInv'
  BY <1>1, NextIs, StillFlying, DataKept, NodesKept
<1>3. RestoreTypeOK' /\ FileShape(file)' /\ PlaceInv'
  BY <1>1 DEF RestoreInv, RestoreTypeOK, PlaceInv
<1>4. HandInv'
  BY <1>1 DEF RestoreInv, HandInv, NoFlight
<1> QED
  BY <1>2, <1>3, <1>4 DEF RestoreInv

(* A backup is restored exactly. *)
LEMMA InvRestored == RestoreInv => RestoredExactly
<1> SUFFICES ASSUME RestoreInv PROVE RestoredExactly
  OBVIOUS
<1>1. ASSUME lpc \in {"header", "metrics", "loaded"}, ~saveFailed, NEW i \in 1..pos,
             file[i].kind = "entry"
      PROVE  target[file[i].key] = file[i].value
  <2>1. Flying = {}
    BY <1>1, NothingFlies DEF RestoreInv, HandInv
  <2> QED
    BY <1>1, <2>1 DEF RestoreInv, DataInv, Arriving
<1> QED
  BY <1>1 DEF RestoreInv, RestoredExactly, DataInv, NodesInv

(* The invariant holds throughout: an entry that was read from the backup is
   in the embedded etcd or on its way there (reader's batch, ch, a worker). *)
THEOREM RestoreInvariance == RestoreSpec => []RestoreInv
<1>1. FileInit => RestoreInv
  BY RestoreInitInv, RestoreAssumption DEF FileInit
<1>2. RestoreInv /\ [RestoreNext]_restoreVars => RestoreInv'
  BY RestoreStepInv, RestoreStutter DEF RestoreNext, RestoreDone
<1> QED
  BY <1>1, <1>2, PTL DEF RestoreSpec

(* What load-backup leaves in the embedded etcd is what the file says, and all
   of what was read unless a save failed, for any number of workers, any batch
   size and any capacity of the channel (restoreEtcdFromBackV2). *)
THEOREM RestoredFaithfully == RestoreSpec => []RestoredExactly
  BY RestoreInvariance, InvRestored, PTL

(* No worker saves anything once restoreEtcdFromBackV2 has returned. *)
THEOREM NothingSavedLate == RestoreSpec => NoLateSave
<1>1. RestoreInv /\ [RestoreNext]_restoreVars
        => [lpc \notin {"v1", "etcd", "wait"} => UNCHANGED target]_restoreVars
  <2> SUFFICES ASSUME RestoreInv, RestoreStep, lpc \notin {"v1", "etcd", "wait"}
               PROVE  target' = target
    BY DEF RestoreNext, RestoreDone, restoreVars
  <2>1. \A w \in Worker : held[w] = << >>
    BY DEF RestoreInv, HandInv, NoFlight
  <2>2. CASE LoadCommand
    BY <2>2 DEF LoadCommand, ReadVersion, RestoreV1, HeaderFails, SkipHeader, StartMetrics,
                RestoreNode, EndMetrics, StartEtcd, TakeVerdict, WorkersGone
  <2>3. CASE Reader
    BY <2>3 DEF Reader, ReadEntry, ReadPanics, SendBatch, StopReading, CloseChan
  <2>4. CASE \E w \in Worker : TakeBatch(w) \/ SaveBatch(w) \/ WorkerDone(w)
    BY <2>1, <2>4 DEF TakeBatch, SaveBatch, WorkerDone, NoBatch
  <2> QED
    BY <2>2, <2>3, <2>4 DEF RestoreStep
<1> QED
  BY <1>1, RestoreInvariance, PTL DEF RestoreSpec, NoLateSave

-----------------------------------------------------------------------------
(* Proofs about BackupCycle. *)


(* No label of the metrics lacks its texts. *)
Complete(W) ==
  \A i \in 1..Len(W) : (W[i].kind = "session" /\ InMetrics(W, i)) =>
    i + 2 <= Len(W) /\ W[i + 1] = Blob /\ W[i + 2] = Blob

(* W ends inside a part of type t. *)
OpenPart(W, t) ==
  \E p \in 1..Len(W) : /\ W[p].kind = "part" /\ W[p].type = t
                       /\ \A q \in (p + 1)..Len(W) : W[q].kind \in {"session", "blob"}

Finished == {"ended", "panicked", "killed"}

(* What is written when the command is at pc. *)
Shape(W, pc, open) ==
  /\ FileShape(W)
  /\ pc \notin Finished => Complete(W) /\ Len(W) >= 1 /\ W[1].version = 2
  /\ pc = "count" => Len(W) = 1
  /\ pc \in {"fetch", "copy"} =>
       /\ Len(W) >= 2 /\ W[2].kind = "part" /\ W[2].type = "etcd"
       /\ \A i \in 3..Len(W) : W[i].kind = "entry"
  /\ pc \in {"count", "fetch", "copy", "close"} => ~open
  /\ (open /\ pc \in NodeParts) => OpenPart(W, pc)

ShapeInv == Shape(Written, bpc, inPart)

CycleInv ==
  /\ BackupInv /\ ShapeInv
  /\ BackupOver => buffer = << >> /\ RestoreInv
  /\ ~BackupOver => RestoreInit

-----------------------------------------------------------------------------
(* Whether a position is in the metrics depends on what comes before it. *)
LEMMA MetricsLocal ==
  ASSUME NEW V, NEW W, NEW i \in Nat, \A j \in 1..i : V[j] = W[j], InMetrics(V, i)
  PROVE  InMetrics(W, i)
<1>1. PICK p \in 1..(i - 1) : /\ V[p].kind = "part" /\ V[p].type = "metrics"
                              /\ \A q \in (p + 1)..i : V[q].kind \in {"session", "blob"}
  BY DEF InMetrics
<1>2. p \in 1..i /\ \A q \in (p + 1)..i : q \in 1..i
  OBVIOUS
<1> QED
  BY <1>1, <1>2 DEF InMetrics

(* The beginning of a file has the shape of a file. *)
LEMMA ShapePrefix ==
  ASSUME NEW W \in Seq(Record), FileShape(W), NEW n \in 0..Len(W)
  PROVE  FileShape(SubSeq(W, 1, n))
<1> DEFINE V == SubSeq(W, 1, n)
<1>1. /\ Len(V) = n /\ n \in Nat /\ Len(W) \in Nat /\ n <= Len(W)
      /\ \A i \in 1..n : V[i] = W[i]
  OBVIOUS
<1> HIDE DEF V
<1>2. \A i \in 1..n : i \in 1..Len(W)
  BY <1>1
<1>3. \A i \in 1..Len(V) : (V[i].kind = "version") <=> (i = 1)
  BY <1>1, <1>2 DEF FileShape
<1>4. \A i \in 2..Len(V) : V[1].version = 1 => V[i].kind = "entry"
  <2> SUFFICES ASSUME NEW i \in 2..Len(V), V[1].version = 1 PROVE V[i].kind = "entry"
    OBVIOUS
  <2>1. i \in 2..Len(W) /\ i \in 1..n /\ 1 \in 1..n
    BY <1>1
  <2> QED
    BY <1>1, <2>1 DEF FileShape
<1>5. \A i \in 1..Len(V) : (V[i].kind = "part" /\ V[i].type = "etcd") => i = 2
  BY <1>1, <1>2 DEF FileShape
<1>6. \A i \in 1..Len(V) : (V[1].version # 1 /\ V[i].kind = "entry") =>
        /\ i > 2 /\ V[2].kind = "part" /\ V[2].type = "etcd"
        /\ \A j \in 3..i : V[j].kind = "entry"
  <2> SUFFICES ASSUME NEW i \in 1..Len(V), V[1].version # 1, V[i].kind = "entry"
               PROVE  /\ i > 2 /\ V[2].kind = "part" /\ V[2].type = "etcd"
                      /\ \A j \in 3..i : V[j].kind = "entry"
    OBVIOUS
  <2>1. i \in 1..n /\ i \in 1..Len(W) /\ 1 \in 1..n
    BY <1>1
  <2>2. /\ i > 2 /\ W[2].kind = "part" /\ W[2].type = "etcd"
        /\ \A j \in 3..i : W[j].kind = "entry"
    BY <1>1, <2>1 DEF FileShape
  <2>3. 2 \in 1..n /\ \A j \in 3..i : j \in 1..n
    BY <2>1, <2>2
  <2> QED
    BY <1>1, <2>2, <2>3
<1>7. \A i, j \in 1..Len(V) :
        (V[i].kind = "entry" /\ V[j].kind = "entry" /\ V[i].key = V[j].key) => i = j
  BY <1>1, <1>2 DEF FileShape
<1>8. ASSUME NEW i \in 1..(Len(V) - 2), V[i].kind = "session", InMetrics(V, i)
      PROVE  V[i + 1] = Blob /\ V[i + 2] = Blob
  <2>1. /\ i \in 1..(Len(W) - 2) /\ i \in 1..n /\ i + 1 \in 1..n /\ i + 2 \in 1..n
        /\ \A j \in 1..i : j \in 1..n
    BY <1>1
  <2>2. InMetrics(W, i)
    BY <1>1, <1>8, <2>1, MetricsLocal
  <2> QED
    BY <1>1, <1>8, <2>1, <2>2 DEF FileShape
<1>9. FileShape(V)
  BY <1>3, <1>4, <1>5, <1>6, <1>7, <1>8 DEF FileShape
<1> QED
  BY <1>9 DEF V

(* Records that are neither entries nor the header of the etcd part, and leave
   no label of the metrics without its texts. *)
Addable(W, X) ==
  /\ \A i \in 1..Len(X) : /\ X[i].kind \notin {"entry", "version"}
                          /\ X[i].kind = "part" => X[i].type # "etcd"
  /\ \A i \in 1..Len(X) : (X[i].kind = "session" /\ InMetrics(W \o X, Len(W) + i)) =>
       i + 2 <= Len(X) /\ X[i + 1] = Blob /\ X[i + 2] = Blob

(* They may follow. *)
LEMMA ShapeGrows ==
  ASSUME NEW W \in Seq(Record), NEW X \in Seq(Record), FileShape(W), Complete(W),
         Len(W) >= 1, W[1].version = 2, Addable(W, X)
  PROVE  FileShape(W \o X) /\ Complete(W \o X) /\ Len(W \o X) >= 1 /\ (W \o X)[1].version = 2
<1> DEFINE V == W \o X
           n == Len(W)
<1>1. /\ Len(V) = n + Len(X) /\ n \in Nat /\ Len(X) \in Nat /\ n >= 1
      /\ \A i \in 1..n : V[i] = W[i]
      /\ \A i \in 1..Len(X) : V[n + i] = X[i]
  OBVIOUS
<1>2. \A i \in 1..Len(X) : (X[i].kind = "session" /\ InMetrics(V, n + i)) =>
           i + 2 <= Len(X) /\ X[i + 1] = Blob /\ X[i + 2] = Blob
  BY DEF Addable
<1> HIDE DEF V
<1>3. ASSUME NEW i \in 1..Len(V)
      PROVE  \/ i \in 1..n /\ V[i] = W[i]
             \/ i > n /\ i - n \in 1..Len(X) /\ V[i] = X[i - n] /\ n + (i - n) = i
  <2>1. CASE i <= n
    BY <1>1, <2>1
  <2>2. CASE i > n
    <3>1. i - n \in 1..Len(X) /\ n + (i - n) = i
      BY <1>1, <2>2
    <3>2. V[n + (i - n)] = X[i - n]
      BY <1>1, <3>1
    <3> QED
      BY <2>2, <3>1, <3>2
  <2> QED
    BY <1>1, <2>1, <2>2
<1>4. V[1] = W[1] /\ V[1].version # 1 /\ V[1].version = 2
  BY <1>1
<1>5. ASSUME NEW i \in 1..Len(V), V[i].kind = "entry" \/ V[i].kind = "version"
               \/ (V[i].kind = "part" /\ V[i].type = "etcd")
      PROVE  i \in 1..n /\ V[i] = W[i]
  BY <1>3, <1>5 DEF Addable
<1>6. \A i \in 1..Len(V) : (V[i].kind = "version") <=> (i = 1)
  <2>1. 1 \in 1..n
    BY <1>1
  <2>2. W[1].kind = "version"
    BY <2>1 DEF FileShape
  <2> QED
    BY <1>1, <1>5, <2>2 DEF FileShape
<1>7. \A i \in 1..Len(V) : (V[i].kind = "part" /\ V[i].type = "etcd") => i = 2
  BY <1>5 DEF FileShape
<1>8. ASSUME NEW i \in 1..Len(V), V[i].kind = "entry"
      PROVE  /\ i > 2 /\ V[2].kind = "part" /\ V[2].type = "etcd"
             /\ \A j \in 3..i : V[j].kind = "entry"
  <2>1. i \in 1..n /\ V[i] = W[i]
    BY <1>5, <1>8
  <2>2. /\ i > 2 /\ W[2].kind = "part" /\ W[2].type = "etcd"
        /\ \A j \in 3..i : W[j].kind = "entry"
    BY <1>8, <2>1 DEF FileShape
  <2>3. 2 \in 1..n /\ \A j \in 3..i : j \in 1..n
    BY <2>1, <2>2
  <2> QED
    BY <1>1, <2>2, <2>3
<1>9. \A i, j \in 1..Len(V) :
        (V[i].kind = "entry" /\ V[j].kind = "entry" /\ V[i].key = V[j].key) => i = j
  <2> SUFFICES ASSUME NEW i \in 1..Len(V), NEW j \in 1..Len(V),
                      V[i].kind = "entry", V[j].kind = "entry", V[i].key = V[j].key
               PROVE  i = j
    OBVIOUS
  <2>1. i \in 1..n /\ V[i] = W[i] /\ j \in 1..n /\ V[j] = W[j]
    BY <1>5
  <2> QED
    BY <2>1 DEF FileShape
<1>10. ASSUME NEW i \in 1..Len(V), V[i].kind = "session", InMetrics(V, i)
       PROVE  i + 2 <= Len(V) /\ V[i + 1] = Blob /\ V[i + 2] = Blob
  <2>1. CASE i \in 1..n /\ V[i] = W[i]
    <3>1. \A j \in 1..i : V[j] = W[j]
      BY <1>1, <2>1
    <3>2. InMetrics(W, i)
      BY <1>10, <3>1, MetricsLocal
    <3>3. i + 2 <= n /\ W[i + 1] = Blob /\ W[i + 2] = Blob
      BY <1>10, <2>1, <3>2 DEF Complete
    <3>4. i + 1 \in 1..n /\ i + 2 \in 1..n /\ i + 2 <= Len(V)
      BY <1>1, <2>1, <3>3
    <3> QED
      BY <1>1, <3>3, <3>4
  <2>2. CASE i > n /\ i - n \in 1..Len(X) /\ V[i] = X[i - n] /\ n + (i - n) = i
    <3>1. (i - n) + 2 <= Len(X) /\ X[(i - n) + 1] = Blob /\ X[(i - n) + 2] = Blob
      BY <1>2, <1>10, <2>2
    <3>2. /\ (i - n) + 1 \in 1..Len(X) /\ n + ((i - n) + 1) = i + 1
          /\ (i - n) + 2 \in 1..Len(X) /\ n + ((i - n) + 2) = i + 2
      BY <1>1, <2>2, <3>1
    <3>3. V[n + ((i - n) + 1)] = Blob /\ V[n + ((i - n) + 2)] = Blob
      BY <1>1, <3>1, <3>2
    <3>4. i + 2 <= Len(V)
      BY <1>1, <2>2, <3>1
    <3> QED
      BY <3>2, <3>3, <3>4
  <2> QED
    BY <1>3, <2>1, <2>2
<1>11. Complete(V)
  BY <1>10 DEF Complete
<1>12. \A i \in 1..(Len(V) - 2) : i \in 1..Len(V)
  BY <1>1
<1>13. FileShape(V)
  BY <1>4, <1>6, <1>7, <1>8, <1>9, <1>10, <1>12 DEF FileShape
<1>14. Len(V) >= 1
  BY <1>1
<1> QED
  BY <1>4, <1>11, <1>13, <1>14 DEF V

(* The same for one record that is no label. *)
LEMMA ShapeAppend ==
  ASSUME NEW W \in Seq(Record), FileShape(W), Complete(W), Len(W) >= 1, W[1].version = 2,
         NEW r \in Record, r.kind \in {"part", "stop"}, r.kind = "part" => r.type # "etcd"
  PROVE  /\ FileShape(Append(W, r)) /\ Complete(Append(W, r)) /\ Len(Append(W, r)) >= 1
         /\ Append(W, r)[1].version = 2
<1>1. <<r>> \in Seq(Record) /\ Len(<<r>>) = 1 /\ <<r>>[1] = r /\ Append(W, r) = W \o <<r>>
  OBVIOUS
<1>2. \A i \in 1..Len(<<r>>) : <<r>>[i] = r
  BY <1>1
<1> HIDE DEF Record
<1> DEFINE X == <<r>>
<1> HIDE DEF X
<1>3. /\ X \in Seq(Record)
      /\ \A i \in 1..Len(X) : /\ X[i].kind \notin {"entry", "version", "session"}
                              /\ X[i].kind = "part" => X[i].type # "etcd"
  BY <1>1, <1>2 DEF X
<1>4. FileShape(W \o X) /\ Complete(W \o X) /\ Len(W \o X) >= 1 /\ (W \o X)[1].version = 2
  <2>1. Addable(W, X)
    BY <1>3 DEF Addable
  <2> QED
    BY <1>3, <2>1, ShapeGrows
<1> QED
  BY <1>1, <1>4 DEF X

(* A key that is not in the file yet may be appended to the etcd part. *)
LEMMA ShapeEntry ==
  ASSUME NEW W \in Seq(Record), FileShape(W), Complete(W), Len(W) >= 2, W[1].version = 2,
         W[2].kind = "part", W[2].type = "etcd", \A i \in 3..Len(W) : W[i].kind = "entry",
         NEW k \in Key, NEW v \in Value,
         \A i \in 1..Len(W) : W[i].kind = "entry" => W[i].key # k
  PROVE  /\ FileShape(Append(W, Entry(k, v))) /\ Complete(Append(W, Entry(k, v)))
         /\ Len(Append(W, Entry(k, v))) = Len(W) + 1
         /\ \A i \in 1..Len(W) : Append(W, Entry(k, v))[i] = W[i]
         /\ Append(W, Entry(k, v))[Len(W) + 1].kind = "entry"
<1> DEFINE e == Entry(k, v)
           V == Append(W, e)
           n == Len(W)
<1>1. e.kind = "entry" /\ e.key = k /\ e \in Record
  BY RecordTypes DEF Entry
<1>2. /\ Len(V) = n + 1 /\ n \in Nat /\ n >= 2 /\ V[n + 1] = e
      /\ \A i \in 1..n : V[i] = W[i]
  BY <1>1
<1> HIDE DEF e, V
<1>3. \A i \in 1..Len(V) : i \in 1..n \/ i = n + 1
  BY <1>2
<1>4. V[1] = W[1] /\ V[2] = W[2] /\ V[1].version # 1 /\ 1 \in 1..n /\ 2 \in 1..n
  BY <1>2
<1>5. \A i \in 1..Len(V) : (V[i].kind = "version") <=> (i = 1)
  <2> SUFFICES ASSUME NEW i \in 1..Len(V) PROVE (V[i].kind = "version") <=> (i = 1)
    OBVIOUS
  <2>1. CASE i \in 1..n
    BY <1>2, <2>1 DEF FileShape
  <2>2. CASE i = n + 1
    BY <1>1, <1>2, <2>2
  <2> QED
    BY <1>3, <2>1, <2>2
<1>6. \A i \in 1..Len(V) : (V[i].kind = "part" /\ V[i].type = "etcd") => i = 2
  BY <1>1, <1>2, <1>3 DEF FileShape
<1>7. \A i \in 3..Len(V) : V[i].kind = "entry"
  <2> SUFFICES ASSUME NEW i \in 3..Len(V) PROVE V[i].kind = "entry"
    OBVIOUS
  <2>1. (i \in 3..n /\ i \in 1..n) \/ i = n + 1
    BY <1>2
  <2> QED
    BY <1>1, <1>2, <2>1
<1>8. \A i \in 1..Len(V) : V[i].kind = "entry" =>
        /\ i > 2 /\ V[2].kind = "part" /\ V[2].type = "etcd"
        /\ \A j \in 3..i : V[j].kind = "entry"
  <2> SUFFICES ASSUME NEW i \in 1..Len(V), V[i].kind = "entry"
               PROVE  i > 2 /\ \A j \in 3..i : V[j].kind = "entry"
    BY <1>4
  <2>1. i # 1 /\ i # 2
    BY <1>4, <1>5
  <2>2. i > 2 /\ \A j \in 3..i : j \in 3..Len(V)
    BY <1>2, <2>1
  <2> QED
    BY <1>7, <2>2
<1>9. \A i, j \in 1..Len(V) :
        (V[i].kind = "entry" /\ V[j].kind = "entry" /\ V[i].key = V[j].key) => i = j
  BY <1>1, <1>2, <1>3 DEF FileShape
<1>10. \A i \in 1..Len(V) : V[i].kind # "session"
  <2> SUFFICES ASSUME NEW i \in 1..Len(V) PROVE V[i].kind # "session"
    OBVIOUS
  <2>1. i = 1 \/ i = 2 \/ i \in 3..Len(V)
    BY <1>2
  <2> QED
    BY <1>4, <1>5, <1>7, <2>1
<1>11. Complete(V)
  BY <1>10 DEF Complete
<1>12. \A i \in 1..(Len(V) - 2) : i \in 1..Len(V)
  BY <1>2
<1>13. FileShape(V)
  BY <1>4, <1>5, <1>6, <1>8, <1>9, <1>10, <1>12 DEF FileShape
<1> QED
  BY <1>1, <1>2, <1>11, <1>13 DEF V, e

(* What a node answers goes into the part that is open. *)
LEMMA ShapeNode ==
  ASSUME NEW W \in Seq(Record), FileShape(W), Complete(W), Len(W) >= 1, W[1].version = 2,
         NEW t \in NodeParts, OpenPart(W, t), NEW s \in Session
  PROVE  LET V == W \o NodeRecords(t, s) IN
         FileShape(V) /\ Complete(V) /\ Len(V) >= 1 /\ V[1].version = 2 /\ OpenPart(V, t)
<1> SUFFICES ASSUME NEW X \in Seq(Record), X = NodeRecords(t, s)
             PROVE  /\ FileShape(W \o X) /\ Complete(W \o X) /\ Len(W \o X) >= 1
                    /\ (W \o X)[1].version = 2 /\ OpenPart(W \o X, t)
  BY NodeRecordTypes
<1> DEFINE V == W \o X
           n == Len(W)
<1>1. NodeLabel(s).kind = "session" /\ Blob.kind = "blob"
  BY DEF NodeLabel, Blob
<1>2. /\ Len(X) = 2 \/ Len(X) = 3
      /\ X[1].kind = "session" /\ X[2] = Blob
      /\ t = "metrics" => Len(X) = 3 /\ X[3] = Blob
      /\ Len(X) = 3 => X[3] = Blob
  BY <1>1 DEF NodeRecords
<1>3. X \in Seq(Record) /\ Len(X) \in Nat
  OBVIOUS
<1>4. \A i \in 1..Len(X) : X[i].kind \in {"session", "blob"} /\ (X[i].kind = "session" => i = 1)
  <2> SUFFICES ASSUME NEW i \in 1..Len(X)
               PROVE  X[i].kind \in {"session", "blob"} /\ (X[i].kind = "session" => i = 1)
    OBVIOUS
  <2>1. i = 1 \/ i = 2 \/ (i = 3 /\ Len(X) = 3)
    <3>1. \A m \in Nat : m = 2 \/ m = 3 =>
            \A j \in 1..m : j = 1 \/ j = 2 \/ (j = 3 /\ m = 3)
      OBVIOUS
    <3> QED
      BY <1>2, <1>3, <3>1
  <2> QED
    BY <1>1, <1>2, <2>1
<1>5. /\ Len(V) = n + Len(X) /\ n \in Nat /\ n >= 1 /\ Len(X) \in Nat
      /\ \A i \in 1..n : V[i] = W[i]
      /\ \A i \in 1..Len(X) : V[n + i] = X[i]
  BY <1>3
<1>6. PICK p \in 1..n : /\ W[p].kind = "part" /\ W[p].type = t
                        /\ \A q \in (p + 1)..n : W[q].kind \in {"session", "blob"}
  BY DEF OpenPart
<1> HIDE DEF V
<1>7. \A q \in (p + 1)..Len(V) : V[q].kind \in {"session", "blob"}
  <2> SUFFICES ASSUME NEW q \in (p + 1)..Len(V) PROVE V[q].kind \in {"session", "blob"}
    OBVIOUS
  <2>1. CASE q <= n
    <3>1. q \in (p + 1)..n /\ q \in 1..n
      BY <1>5, <2>1
    <3> QED
      BY <1>5, <1>6, <3>1
  <2>2. CASE q > n
    <3>1. q - n \in 1..Len(X) /\ n + (q - n) = q
      BY <1>5, <2>2
    <3>2. V[n + (q - n)] = X[q - n]
      BY <1>5, <3>1
    <3> QED
      BY <1>4, <3>1, <3>2
  <2> QED
    BY <1>5, <2>1, <2>2
<1>8. V[p] = W[p] /\ p \in 1..Len(V)
  BY <1>5, <1>6
<1>9. OpenPart(V, t)
  BY <1>6, <1>7, <1>8 DEF OpenPart
<1>10. t # "metrics" => ~InMetrics(V, n + 1)
  <2> SUFFICES ASSUME t # "metrics", InMetrics(V, n + 1) PROVE FALSE
    OBVIOUS
  <2>1. PICK m \in 1..((n + 1) - 1) :
          /\ V[m].kind = "part" /\ V[m].type = "metrics"
          /\ \A q \in (m + 1)..(n + 1) : V[q].kind \in {"session", "blob"}
    BY DEF InMetrics
  <2>2. p = m \/ p \in (m + 1)..(n + 1) \/ m \in (p + 1)..Len(V)
    BY <1>5, <1>6, <2>1
  <2> QED
    BY <1>6, <1>7, <1>8, <2>1, <2>2
<1>11. ASSUME NEW i \in 1..Len(X), X[i].kind = "session", InMetrics(V, n + i)
       PROVE  i + 2 <= Len(X) /\ X[i + 1] = Blob /\ X[i + 2] = Blob
  <2>1. i = 1 /\ t = "metrics"
    BY <1>4, <1>10, <1>11
  <2>2. Len(X) = 3 /\ X[2] = Blob /\ X[3] = Blob
    BY <1>2, <2>1
  <2> QED
    BY <2>1, <2>2
<1>12. \A i \in 1..Len(X) : /\ X[i].kind \notin {"entry", "version"}
                            /\ X[i].kind = "part" => X[i].type # "etcd"
  BY <1>4
<1>13. FileShape(V) /\ Complete(V) /\ Len(V) >= 1 /\ V[1].version = 2
  <2>1. \A i \in 1..Len(X) : (X[i].kind = "session" /\ InMetrics(W \o X, Len(W) + i)) =>
          i + 2 <= Len(X) /\ X[i + 1] = Blob /\ X[i + 2] = Blob
    BY <1>11 DEF V
  <2>2. Addable(W, X)
    BY <1>12, <2>1 DEF Addable
  <2>3. FileShape(W \o X) /\ Complete(W \o X) /\ Len(W \o X) >= 1 /\ (W \o X)[1].version = 2
    BY <2>2, ShapeGrows
  <2> QED
    BY <2>3 DEF V
<1> QED
  BY <1>9, <1>13 DEF V

-----------------------------------------------------------------------------
(* What has been written is a sequence of records. *)
LEMMA WrittenRecords ==
  ASSUME BackupTypeOK
  PROVE  file \in Seq(Record) /\ buffer \in Seq(Record) /\ Written \in Seq(Record)
  BY DEF BackupTypeOK, Written

(* The file starts with its version. *)
LEMMA ShapeInit == BackupInit => ShapeInv
<1> SUFFICES ASSUME BackupInit PROVE ShapeInv
  OBVIOUS
<1>1. Written = <<Header(2, 0)>> /\ bpc = "count" /\ inPart = FALSE
  BY RecordTypes DEF BackupInit, Written
<1>2. /\ Len(Written) = 1 /\ \A i \in 1..Len(Written) : i = 1
      /\ Written[1].kind = "version" /\ Written[1].version = 2
  BY <1>1 DEF Header
<1>3. /\ \A i \in 2..Len(Written) : FALSE
      /\ \A i \in 1..(Len(Written) - 2) : FALSE
  BY <1>2
<1>4. FileShape(Written)
  BY <1>2, <1>3 DEF FileShape
<1>5. Complete(Written)
  BY <1>2 DEF Complete
<1> QED
  BY <1>1, <1>2, <1>4, <1>5 DEF ShapeInv, Shape, NodeParts

(* A step that writes nothing. *)
LEMMA ShapeSame ==
  ASSUME ShapeInv, Written' = Written, inPart' = inPart, bpc \notin Finished,
         \/ bpc' = bpc
         \/ bpc \in {"fetch", "copy"} /\ bpc' \in {"fetch", "copy"}
         \/ ~inPart /\ bpc' \in NodeParts \cup {"close"}
  PROVE  ShapeInv'
  BY DEF ShapeInv, Shape, Finished, NodeParts

(* What is left when the process ends. *)
LEMMA ShapeEnds ==
  ASSUME ShapeInv, Written \in Seq(Record), bpc' \in Finished,
         NEW n \in 0..Len(Written), Written' = SubSeq(Written, 1, n)
  PROVE  ShapeInv'
<1>1. FileShape(Written')
  BY ShapePrefix DEF ShapeInv, Shape
<1> QED
  BY <1>1 DEF ShapeInv, Shape, Finished, NodeParts

LEMMA ShapeDies ==
  ASSUME BackupInv, ShapeInv, NEW pc \in {"panicked", "killed"}, Dies(pc)
  PROVE  ShapeInv'
<1>1. Written \in Seq(Record)
  BY WrittenRecords DEF BackupInv
<1>2. PICK n \in 0..Len(Written) : file' = SubSeq(Written, 1, n)
  BY DEF Dies
<1>3. SubSeq(Written, 1, n) \in Seq(Record)
  BY <1>1
<1>4. Written' = SubSeq(Written, 1, n)
  BY <1>2, <1>3 DEF Dies, Written
<1>5. bpc' \in Finished
  BY DEF Dies, Finished
<1> QED
  BY <1>1, <1>4, <1>5, ShapeEnds

(* The command closes its file. *)
LEMMA ShapeCloses ==
  ASSUME BackupInv, ShapeInv, CloseFile
  PROVE  ShapeInv'
<1>1. file \in Seq(Record) /\ buffer \in Seq(Record) /\ Written \in Seq(Record)
  BY WrittenRecords DEF BackupInv
<1>2. PICK n \in 0..Len(buffer) : file' = file \o SubSeq(buffer, 1, n)
  <2>1. CASE buffer = << >>
    <3>1. file' = file \o SubSeq(buffer, 1, 0) /\ 0 \in 0..Len(buffer)
      BY <1>1, <2>1 DEF CloseFile
    <3> QED
      BY <3>1
  <2>2. CASE buffer # << >>
    <3>1. PICK m \in Kept : file' = file \o SubSeq(buffer, 1, m)
      BY <2>2 DEF CloseFile
    <3>2. m \in 0..Len(buffer)
      BY <1>1, <2>2, <3>1 DEF Kept
    <3> QED
      BY <3>1, <3>2
  <2> QED
    BY <2>1, <2>2
<1>3. file' = SubSeq(Written, 1, Len(file) + n) /\ Len(file) + n \in 0..Len(Written)
  BY <1>1, <1>2 DEF Written
<1>4. SubSeq(Written, 1, Len(file) + n) \in Seq(Record)
  BY <1>1, <1>3
<1>5. Written' = SubSeq(Written, 1, Len(file) + n)
  BY <1>3, <1>4 DEF CloseFile, Written
<1>6. bpc' \in Finished
  BY DEF CloseFile, Finished
<1> QED
  BY <1>1, <1>3, <1>5, <1>6, ShapeEnds

(* The header of the etcd part is the second record. *)
LEMMA ShapeCounted ==
  ASSUME BackupInv, BackupTypeOK', ShapeInv, CountKeys
  PROVE  ShapeInv'
<1> DEFINE r == Part("etcd", cnt')
           W == Written
<1>1. file \in Seq(Record) /\ buffer \in Seq(Record) /\ W \in Seq(Record)
  BY WrittenRecords DEF BackupInv
<1>2. r \in Record /\ r.kind = "part" /\ r.type = "etcd"
  BY RecordTypes DEF BackupTypeOK, Part
<1>3. /\ bpc = "count" /\ bpc' = "fetch" /\ inPart' = inPart
      /\ buffer' = Append(buffer, r) /\ file' = file
  BY DEF CountKeys
<1> HIDE DEF r
<1>4. Written' = Append(W, r)
  BY <1>1, <1>2, <1>3, WrittenGrows DEF Written
<1>5. /\ FileShape(W) /\ Len(W) = 1 /\ W[1].version = 2 /\ ~inPart
  BY <1>3 DEF ShapeInv, Shape, Finished
<1>6. W[1].kind = "version"
  BY <1>5 DEF FileShape
<1> DEFINE V == Append(W, r)
<1>7. /\ Len(V) = 2 /\ V[1] = W[1] /\ V[2] = r /\ \A i \in 1..Len(V) : i = 1 \/ i = 2
      /\ \A i \in 1..(Len(V) - 2) : FALSE
      /\ \A i \in 3..Len(V) : FALSE
  <2>1. /\ Len(V) = Len(W) + 1 /\ V[Len(W) + 1] = r
        /\ \A i \in 1..Len(W) : V[i] = W[i]
    BY <1>1, <1>2
  <2> HIDE DEF V, W
  <2>2. Len(V) = 2 /\ V[1] = W[1] /\ V[2] = r
    BY <1>5, <2>1
  <2> QED
    BY <2>2
<1> HIDE DEF V, W
<1>8. V[1].kind = "version" /\ V[1].version = 2 /\ V[2].kind = "part" /\ V[2].type = "etcd"
  BY <1>2, <1>5, <1>6, <1>7
<1>9. FileShape(V)
  BY <1>7, <1>8 DEF FileShape
<1>10. Complete(V)
  BY <1>7, <1>8 DEF Complete
<1>11. Shape(V, "fetch", inPart)
  BY <1>5, <1>7, <1>8, <1>9, <1>10 DEF Shape, NodeParts
<1> QED
  BY <1>3, <1>4, <1>11 DEF ShapeInv, V

(* A key is copied: the cursor is behind all that were copied before. *)
LEMMA ShapeCopies ==
  ASSUME BackupInv, BackupTypeOK', ShapeInv, NEW k \in Key, CopyKey(k)
  PROVE  ShapeInv'
<1> DEFINE v == revs[pageRev][k]
<1>1. file \in Seq(Record) /\ buffer \in Seq(Record) /\ Written \in Seq(Record)
  BY WrittenRecords DEF BackupInv
<1>2. bpc = "copy" /\ bpc' = bpc /\ inPart' = inPart /\ k \in page /\ file' = file
  BY DEF CopyKey
<1>3. CASE buffer' = buffer
  <2>1. Written' = Written
    BY <1>2, <1>3 DEF Written
  <2> QED
    BY <1>2, <2>1 DEF ShapeInv, Shape
<1>4. CASE buffer' = Append(buffer, Entry(k, v))
  <2>1. v \in Value
    <3>1. k \in Present(revs[pageRev]) /\ revs[pageRev] \in Store
      BY <1>2 DEF BackupInv, BackupTypeOK
    <3> QED
      BY <3>1 DEF Present, Store
  <2> HIDE DEF v
  <2>2. Entry(k, v) \in Record
    BY <2>1, RecordTypes
  <2>3. Written' = Append(Written, Entry(k, v))
    BY <1>1, <1>2, <1>4, <2>2, WrittenGrows DEF Written
  <2>4. \A i \in 1..Len(Written) : Written[i].kind = "entry" => Written[i].key # k
    <3> SUFFICES ASSUME NEW i \in 1..Len(Written), Written[i].kind = "entry"
                 PROVE  Written[i].key # k
      OBVIOUS
    <3>1. i \in EntriesOf(Written)
      BY DEF EntriesOf
    <3>2. Written[i].key < currentKey /\ k >= currentKey
      BY <1>2, <3>1 DEF BackupInv, CursorInv, PageInv
    <3>3. Written[i].key \in Key /\ Key \subseteq Nat /\ currentKey \in Nat
      BY <1>1, <3>1, EntryShape, FileAssumption DEF BackupInv, BackupTypeOK, Key
    <3> QED
      BY <3>2, <3>3
  <2>5. /\ FileShape(Written) /\ Complete(Written) /\ Len(Written) >= 2
        /\ Written[1].version = 2 /\ Written[2].kind = "part" /\ Written[2].type = "etcd"
        /\ \A i \in 3..Len(Written) : Written[i].kind = "entry"
        /\ ~inPart
    BY <1>2 DEF ShapeInv, Shape, Finished
  <2>6. /\ FileShape(Written') /\ Complete(Written') /\ Len(Written') = Len(Written) + 1
        /\ \A i \in 1..Len(Written) : Written'[i] = Written[i]
        /\ Written'[Len(Written) + 1].kind = "entry"
    BY <1>1, <2>1, <2>3, <2>4, <2>5, ShapeEntry
  <2>7. Written'[1] = Written[1] /\ Written'[2] = Written[2] /\ Len(Written) \in Nat
    BY <1>1, <2>5, <2>6
  <2>8. \A i \in 3..Len(Written') : Written'[i].kind = "entry"
    <3> SUFFICES ASSUME NEW i \in 3..Len(Written') PROVE Written'[i].kind = "entry"
      OBVIOUS
    <3>1. (i \in 3..Len(Written) /\ i \in 1..Len(Written)) \/ i = Len(Written) + 1
      BY <2>6, <2>7
    <3> QED
      BY <2>5, <2>6, <3>1
  <2>9. Shape(Written', "copy", inPart)
    BY <2>5, <2>6, <2>7, <2>8 DEF Shape, NodeParts
  <2> QED
    BY <1>2, <2>9 DEF ShapeInv
<1> QED
  BY <1>3, <1>4 DEF CopyKey

(* The stopper of the etcd part. *)
LEMMA ShapeStopped ==
  ASSUME BackupInv, ShapeInv, WriteStopper
  PROVE  ShapeInv'
<1>1. Written \in Seq(Record) /\ Stop \in Record /\ Stop.kind = "stop"
  BY WrittenRecords, RecordTypes DEF BackupInv, Stop
<1>2. /\ bpc = "fetch" /\ bpc' = "metrics" /\ inPart' = inPart
      /\ file' = Append(Written, Stop) /\ buffer' = << >>
  BY DEF WriteStopper
<1>3. Written' = Append(Written, Stop)
  <2>1. Append(Written, Stop) \in Seq(Record)
    BY <1>1
  <2> QED
    BY <1>2, <2>1 DEF Written
<1>4. /\ FileShape(Written) /\ Complete(Written) /\ Len(Written) >= 1
      /\ Written[1].version = 2 /\ ~inPart
  BY <1>2 DEF ShapeInv, Shape, Finished
<1>5. /\ FileShape(Written') /\ Complete(Written') /\ Len(Written') >= 1
      /\ Written'[1].version = 2
  BY <1>1, <1>3, <1>4, ShapeAppend
<1> QED
  BY <1>2, <1>4, <1>5 DEF ShapeInv, Shape

(* The parts of the nodes. *)
LEMMA ShapeParts ==
  ASSUME BackupInv, ShapeInv, NEW t \in NodeParts,
         StartPart(t) \/ (\E s \in Session : AskNode(t, s)) \/ EndPart(t)
  PROVE  ShapeInv'
<1>1. file \in Seq(Record) /\ buffer \in Seq(Record) /\ Written \in Seq(Record)
  BY WrittenRecords DEF BackupInv
<1>2. /\ bpc = t /\ file' = file /\ bpc \notin Finished
      /\ t \in {"metrics", "config", "app"} /\ Following[t] \in {"config", "app", "close"}
  BY DEF StartPart, AskNode, EndPart, NodeParts, Finished, Following
<1>3. /\ FileShape(Written) /\ Complete(Written) /\ Len(Written) >= 1
      /\ Written[1].version = 2 /\ (inPart => OpenPart(Written, t))
  BY <1>2 DEF ShapeInv, Shape
<1>4. CASE StartPart(t)
  <2>1. CASE buffer' = buffer
    <3>1. Written' = Written
      BY <1>2, <2>1 DEF Written
    <3>2. Append(buffer, Part(t, 0)) # buffer
      <4>1. Part(t, 0) \in Record
        BY RecordTypes
      <4>2. Len(Append(buffer, Part(t, 0))) = Len(buffer) + 1 /\ Len(buffer) \in Nat
        BY <1>1, <4>1
      <4> QED
        BY <4>2
    <3>3. ~inPart /\ inPart' = inPart /\ bpc' = Following[t]
      BY <1>4, <2>1, <3>2 DEF StartPart
    <3> QED
      BY <1>2, <3>1, <3>3, ShapeSame DEF NodeParts
  <2>2. CASE buffer' # buffer
    <3>1. buffer' = Append(buffer, Part(t, 0)) /\ bpc' = t /\ inPart' = TRUE
      BY <1>2, <1>4, <2>2 DEF StartPart
    <3>2. /\ Part(t, 0) \in Record /\ Part(t, 0).kind = "part" /\ Part(t, 0).type = t
          /\ t # "etcd"
      BY <1>2, RecordTypes DEF Part
    <3>3. Written' = Append(Written, Part(t, 0))
      BY <1>1, <1>2, <3>1, <3>2, WrittenGrows DEF Written
    <3>4. /\ FileShape(Written') /\ Complete(Written') /\ Len(Written') >= 1
          /\ Written'[1].version = 2
      BY <1>1, <1>3, <3>2, <3>3, ShapeAppend
    <3>5. OpenPart(Written', t)
      <4>1. /\ Len(Written') = Len(Written) + 1 /\ Len(Written) \in Nat
            /\ Written'[Len(Written) + 1] = Part(t, 0)
        BY <1>1, <3>2, <3>3
      <4>2. /\ Len(Written) + 1 \in 1..Len(Written')
            /\ \A q \in ((Len(Written) + 1) + 1)..Len(Written') : FALSE
        BY <4>1
      <4> QED
        BY <3>2, <4>1, <4>2 DEF OpenPart
    <3> QED
      BY <1>2, <3>1, <3>4, <3>5 DEF ShapeInv, Shape
  <2> QED
    BY <2>1, <2>2
<1>5. ASSUME NEW s \in Session, AskNode(t, s) PROVE ShapeInv'
  <2>1. inPart /\ inPart' = inPart /\ bpc' = bpc
    BY <1>5 DEF AskNode
  <2>2. CASE buffer' = buffer
    <3>1. Written' = Written
      BY <1>2, <2>2 DEF Written
    <3> QED
      BY <1>2, <2>1, <3>1, ShapeSame
  <2>3. CASE buffer' = buffer \o NodeRecords(t, s)
    <3>1. NodeRecords(t, s) \in Seq(Record)
      BY NodeRecordTypes
    <3>2. Written' = Written \o NodeRecords(t, s)
      BY <1>1, <1>2, <2>3, <3>1 DEF Written
    <3>3. /\ FileShape(Written') /\ Complete(Written') /\ Len(Written') >= 1
          /\ Written'[1].version = 2 /\ OpenPart(Written', t)
      BY <1>1, <1>3, <2>1, <3>2, ShapeNode
    <3> QED
      BY <1>2, <2>1, <3>3 DEF ShapeInv, Shape
  <2> QED
    BY <1>5, <2>2, <2>3 DEF AskNode
<1>6. CASE EndPart(t)
  <2>1. buffer' = Append(buffer, Stop) /\ bpc' = Following[t] /\ inPart' = FALSE
    BY <1>6 DEF EndPart
  <2>2. Stop \in Record /\ Stop.kind = "stop"
    BY RecordTypes DEF Stop
  <2>3. Written' = Append(Written, Stop)
    BY <1>1, <1>2, <2>1, <2>2, WrittenGrows DEF Written
  <2>4. /\ FileShape(Written') /\ Complete(Written') /\ Len(Written') >= 1
        /\ Written'[1].version = 2
    BY <1>1, <1>3, <2>2, <2>3, ShapeAppend
  <2> QED
    BY <1>2, <2>1, <2>4 DEF ShapeInv, Shape
<1> QED
  BY <1>4, <1>5, <1>6

(* Whatever the backup does next, what it has written has the shape of a file. *)
LEMMA ShapeNext ==
  ASSUME BackupInv, ShapeInv, Milvus \/ BackupCommand \/ Kill, ~BackupOver
  PROVE  ShapeInv'
<1>1. BackupTypeOK'
  BY BackupNextType DEF BackupInv, BackupNext
<1>2. bpc \notin Finished
  BY DEF BackupOver, Finished
<1>3. CASE Milvus
  <2>1. Written' = Written /\ inPart' = inPart /\ bpc' = bpc
    BY <1>3 DEF Milvus, Change, Compact, Written, fileVars
  <2> QED
    BY <1>2, <2>1, ShapeSame
<1>4. CASE GetFails
  <2>1. Written' = Written /\ inPart' = inPart /\ bpc' = "metrics" /\ ~inPart
    BY <1>4 DEF GetFails, Written, fileVars, ShapeInv, Shape
  <2> QED
    BY <1>2, <2>1, ShapeSame DEF NodeParts
<1>5. CASE FetchPage
  <2>1. Written' = Written /\ inPart' = inPart /\ bpc = "fetch" /\ bpc' = "copy"
    BY <1>5 DEF FetchPage, Written, fileVars
  <2> QED
    BY <1>2, <2>1, ShapeSame
<1>6. CASE EndPage
  <2>1. CASE Dies("panicked")
    BY <2>1, ShapeDies
  <2>2. CASE ~Dies("panicked")
    <3>1. Written' = Written /\ inPart' = inPart /\ bpc = "copy" /\ bpc' = "fetch"
      BY <1>6, <2>2 DEF EndPage, Written, fileVars
    <3> QED
      BY <1>2, <3>1, ShapeSame
  <2> QED
    BY <2>1, <2>2
<1>7. CASE BackupNodes
  BY <1>7, ShapeParts DEF BackupNodes
<1>8. CASE CountKeys \/ (\E k \in Key : CopyKey(k)) \/ WriteStopper \/ CloseFile
  BY <1>1, <1>8, ShapeCounted, ShapeCopies, ShapeStopped, ShapeCloses
<1>9. CASE Kill
  BY <1>9, ShapeDies DEF Kill
<1> QED
  BY <1>3, <1>4, <1>5, <1>6, <1>7, <1>8, <1>9 DEF BackupCommand, BackupKV

-----------------------------------------------------------------------------
(* The invariant of the cycle. *)
LEMMA CycleInitInv == CycleInit => CycleInv
<1> SUFFICES ASSUME CycleInit PROVE CycleInv
  OBVIOUS
<1>1. BackupInv /\ ShapeInv
  BY BackupInitInv, ShapeInit DEF CycleInit
<1>2. ~BackupOver
  BY DEF CycleInit, BackupInit, BackupOver
<1> QED
  BY <1>1, <1>2 DEF CycleInv, CycleInit

LEMMA CycleNextInv == CycleInv /\ [CycleNext]_cycleVars => CycleInv'
<1> SUFFICES ASSUME CycleInv, [CycleNext]_cycleVars PROVE CycleInv'
  OBVIOUS
<1>1. CASE (Milvus \/ BackupCommand \/ Kill) /\ UNCHANGED restoreOnly
  <2>1. ~BackupOver
    BY <1>1 DEF Milvus, Change, Compact, Copying, BackupCommand, BackupKV, BackupNodes, CountKeys,
                GetFails, FetchPage, CopyKey, EndPage, WriteStopper, StartPart, AskNode, EndPart,
                CloseFile, Kill, BackupOver, NodeParts
  <2>2. BackupInv' /\ ShapeInv'
    BY <1>1, <2>1, BackupNextInv, ShapeNext DEF CycleInv, BackupNext
  <2>3. RestoreInit'
    BY <1>1, <2>1 DEF CycleInv, RestoreInit, restoreOnly, readVars, workerVars, historyVars
  <2>4. BackupOver' => buffer' = << >>
    <3>1. CASE Milvus
      BY <2>1, <3>1 DEF Milvus, Change, Compact, BackupOver
    <3>2. CASE CountKeys \/ GetFails \/ FetchPage \/ (\E k \in Key : CopyKey(k)) \/ WriteStopper
      BY <3>2 DEF CountKeys, GetFails, FetchPage, CopyKey, WriteStopper, BackupOver
    <3>3. CASE EndPage
      BY <3>3 DEF EndPage, Dies, BackupOver
    <3>4. CASE BackupNodes
      <4>1. PICK t \in NodeParts : StartPart(t) \/ (\E s \in Session : AskNode(t, s)) \/ EndPart(t)
        BY <3>4 DEF BackupNodes
      <4>2. t \in NodeParts /\ Following[t] \in {"config", "app", "close"}
        BY DEF NodeParts, Following
      <4>3. bpc' = t \/ bpc' = Following[t]
        BY <4>1 DEF StartPart, AskNode, EndPart
      <4> QED
        BY <4>2, <4>3 DEF BackupOver, NodeParts
    <3>5. CASE CloseFile \/ Kill
      BY <3>5 DEF CloseFile, Kill, Dies
    <3> QED
      BY <1>1, <3>1, <3>2, <3>3, <3>4, <3>5 DEF BackupCommand, BackupKV
  <2>5. BackupOver' => RestoreInv'
    <3> SUFFICES ASSUME BackupOver' PROVE RestoreInv'
      OBVIOUS
    <3>1. file' \in Seq(Record) /\ Written' = file'
      BY <2>2, <2>4, WrittenRecords DEF BackupInv, BackupTypeOK, Written
    <3>2. FileShape(file')
      BY <2>2, <3>1 DEF ShapeInv, Shape
    <3>3. (RestoreInit /\ file \in Seq(Record) /\ FileShape(file) => RestoreInv)'
      BY RestoreInitInv, PTL
    <3> QED
      BY <2>3, <3>1, <3>2, <3>3
  <2> QED
    BY <2>2, <2>3, <2>4, <2>5 DEF CycleInv
<1>2. CASE BackupOver /\ RestoreStep /\ UNCHANGED backupOnly
  <2>1. RestoreInv'
    BY <1>2, RestoreStepInv DEF CycleInv
  <2>2. file' = file /\ torn' = torn
    BY <1>2 DEF RestoreStep, LoadCommand, Reader, ReadVersion, RestoreV1, HeaderFails, SkipHeader,
                StartMetrics, RestoreNode, EndMetrics, StartEtcd, TakeVerdict, WorkersGone,
                ReadEntry, ReadPanics, SendBatch, StopReading, CloseChan, TakeBatch, SaveBatch,
                WorkerDone
  <2>3. UNCHANGED backupVars
    BY <1>2, <2>2 DEF backupOnly, backupVars, fileVars
  <2>4. BackupInv'
    BY <2>3, BackupNextInv DEF CycleInv
  <2>5. ShapeInv' /\ BackupOver' /\ buffer' = buffer
    BY <1>2, <2>3 DEF CycleInv, ShapeInv, Written, BackupOver, backupVars, fileVars
  <2> QED
    BY <1>2, <2>1, <2>4, <2>5 DEF CycleInv
<1>3. CASE UNCHANGED cycleVars
  <2>1. UNCHANGED backupVars /\ UNCHANGED restoreOnly
    BY <1>3 DEF cycleVars
  <2>2. BackupInv'
    BY <2>1, BackupNextInv DEF CycleInv
  <2>3. ShapeInv' /\ (BackupOver' <=> BackupOver) /\ buffer' = buffer
    BY <2>1 DEF CycleInv, ShapeInv, Written, BackupOver, backupVars, fileVars
  <2>4. RestoreInit => RestoreInit'
    BY <2>1 DEF RestoreInit, restoreOnly, readVars, workerVars, historyVars
  <2>5. RestoreInv => RestoreInv'
    BY <2>1, RestoreStutter DEF restoreOnly, restoreVars, backupVars, fileVars
  <2> QED
    BY <2>2, <2>3, <2>4, <2>5 DEF CycleInv
<1> QED
  BY <1>1, <1>2, <1>3 DEF CycleNext

(* The invariant holds throughout: what the backup leaves, complete or cut
   short, has the shape the loading relies on. *)
THEOREM CycleInvariance == CycleSpec => []CycleInv
<1>1. CycleInit => CycleInv
  BY CycleInitInv
<1>2. CycleInv /\ [CycleNext]_cycleVars => CycleInv'
  BY CycleNextInv
<1> QED
  BY <1>1, <1>2, PTL DEF CycleSpec

(* The entries of the file are of the revision of the count. *)
LEMMA LoadedFromSnapshot ==
  ASSUME CycleInv, ~IgnoreRevision, NEW k \in Key, target[k] # Absent
  PROVE  target[k] = Snapshot[k]
<1>1. BackupOver
  BY DEF CycleInv, RestoreInit
<1>2. PICK i \in 1..Len(file) : file[i] = Entry(k, target[k])
  BY <1>1 DEF CycleInv, RestoreInv, DataInv, EntryOf
<1>3. Written = file
  BY <1>1, WrittenRecords DEF CycleInv, BackupInv, Written
<1>4. file[i].kind = "entry" /\ file[i].key = k /\ file[i].value = target[k]
  BY <1>2 DEF Entry
<1>5. i \in EntriesOf(Written)
  BY <1>3, <1>4 DEF EntriesOf
<1>6. k \in InPrefix /\ revs[rev][k] = target[k]
  BY <1>3, <1>4, <1>5 DEF CycleInv, BackupInv, Sourced
<1> QED
  BY <1>6 DEF Snapshot

(* However the backup ended, loading what it left brings in no key of another
   instance and no value but the one at the revision of the count (BackupKV's
   prefix check, WithRev, and the batches of restoreEtcdFromBackV2). *)
THEOREM OnlyTheSnapshot == CycleSpec => []NothingForeign
<1>1. CycleInv => NothingForeign
  BY LoadedFromSnapshot DEF NothingForeign
<1> QED
  BY <1>1, CycleInvariance, PTL

(* A backup without an error, loaded without a failing save, gives back the
   metadata of its revision: whatever milvus changed meanwhile, wherever the
   pages end, although the buffer's tail is not flushed, and in whatever order
   the workers save. *)
THEOREM RoundTripHolds == CycleSpec => []RoundTrip
<1>1. CycleInv => RoundTrip
  <2> SUFFICES ASSUME CycleInv, bpc = "ended", ~backupErr, ~IgnoreRevision, lpc = "loaded",
                      ~saveFailed
               PROVE  target = Snapshot
    BY DEF RoundTrip
  <2>1. BackupOver /\ RestoreInv /\ Stopped
    BY DEF CycleInv, BackupOver, Stopped
  <2>2. target \in Store /\ revs[rev] \in Store
    BY <2>1 DEF RestoreInv, RestoreTypeOK, CycleInv, BackupInv, BackupTypeOK
  <2>3. ASSUME NEW k \in Key PROVE target[k] = Snapshot[k]
    <3>1. CASE target[k] # Absent
      BY <3>1, LoadedFromSnapshot
    <3>2. CASE target[k] = Absent
      <4> SUFFICES ASSUME k \in InPrefix, revs[rev][k] # Absent PROVE FALSE
        BY <3>2 DEF Snapshot
      <4>1. revs[rev][k] \in Value
        BY <2>2 DEF Store
      <4>2. Has(file, k, revs[rev][k])
        BY <2>1, <4>1 DEF CycleInv, BackupInv, StopInv, Steady
      <4>3. PICK i \in 1..Len(file) : file[i] = Entry(k, revs[rev][k])
        BY <4>2 DEF Has
      <4>4. file[i].kind = "entry" /\ file[i].key = k /\ file[i].value = revs[rev][k]
        BY <4>3 DEF Entry
      <4>5. i \in 1..pos
        <5>1. i \notin (pos + 1)..Len(file)
          BY <2>1, <4>4 DEF RestoreInv, PlaceInv
        <5> QED
          BY <2>1, <5>1, NextIs
      <4>6. target[k] = revs[rev][k]
        BY <2>1, <4>4, <4>5, InvRestored DEF RestoredExactly
      <4> QED
        BY <3>2, <4>6
    <3> QED
      BY <3>1, <3>2
  <2>4. target = [k \in Key |-> target[k]] /\ Snapshot = [k \in Key |-> Snapshot[k]]
    BY <2>2 DEF Store, Snapshot
  <2> QED
    BY <2>3, <2>4
<1> QED
  BY <1>1, CycleInvariance, PTL

(* The file is the snapshot in the cycle too. *)
THEOREM CycleSnapshot == CycleSpec => []SnapshotConsistent
  BY CycleInvariance, InvSnapshot, PTL DEF CycleInv
=============================================================================
