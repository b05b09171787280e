------------------------ MODULE RemoveCommandsProofs ------------------------
(***************************************************************************)
(* A command without --run leaves the store as it is, and remove binlog    *)
(* takes no log that is not backed up, for every set of keys, collections  *)
(* and invocations, every page size, and any interleaving with milvus and  *)
(* with failing calls.                                                     *)
(*                                                                         *)
(* The properties speak of one step; what makes them hold is what the      *)
(* steps before decided. DryPlan says it: whenever the deletions of a dry  *)
(* command are about to be made, there are none, or the only one saves a   *)
(* backup key. BinlogPlan says it of remove binlog: the backup holds what  *)
(* the field binlog held before anything is taken from it. The other       *)
(* conjuncts are what these rest on.                                       *)
(***************************************************************************)
EXTENDS RemoveCommands, TLAPS

Dry == ~cmd.run /\ cmd.mode # "restore"

DryPlan ==
    (pc = "exec" /\ Dry) =>
        \/ todo = <<>>
        \/ \E c \in Collections :
               todo = <<Op("save", BackupKey(c), todo[1].val, Abort)>>

DryInv ==
    /\ store = [k \in Key |-> store[k]]
    /\ milvusSteps \in Nat
    /\ cmd \in Invocations \union {NoCommand}
    /\ resume \in {"done", "clean", "walk", "groups", "reload"}
    /\ pc \in {"backup", "restore"} => cmd.name = "binlog"
    /\ pc = "restore" => cmd.mode = "restore"
    /\ DryPlan

\* What saving, removing and removing by prefix leave: the same keys, and under
\* a save every other key as it was.
LEMMA SaveKeeps ==
    ASSUME NEW s, s = [k \in Key |-> s[k]], NEW key, NEW v
    PROVE  /\ Save(s, key, v) = [k \in Key |-> Save(s, key, v)[k]]
           /\ \A k \in Key : k # key => Save(s, key, v)[k] = s[k]
  BY DEF Save

LEMMA RemoveWithPrefixKeeps ==
    ASSUME NEW s, s = [k \in Key |-> s[k]], NEW p
    PROVE  RemoveWithPrefix(s, p) = [k \in Key |-> RemoveWithPrefix(s, p)[k]]
  <1>1. DOMAIN s = Key
    OBVIOUS
  <1> QED BY <1>1 DEF RemoveWithPrefix

\* An applied operation keeps the set of keys.
LEMMA ApplyKeeps ==
    ASSUME NEW s, s = [k \in Key |-> s[k]], NEW o
    PROVE  Apply(s, o) = [k \in Key |-> Apply(s, o)[k]]
  <1>1. CASE o.op = "remove"
    <2>1. Apply(s, o) = Save(s, o.key, Absent)
      BY <1>1 DEF Apply, Remove
    <2> QED BY <2>1, SaveKeeps
  <1>2. CASE o.op = "remove-prefix"
    <2>1. Apply(s, o) = RemoveWithPrefix(s, o.key)
      BY <1>2 DEF Apply
    <2> QED BY <2>1, RemoveWithPrefixKeeps
  <1>3. CASE o.op # "remove" /\ o.op # "remove-prefix"
    <2>1. Apply(s, o) = Save(s, o.key, o.val)
      BY <1>3 DEF Apply
    <2> QED BY <2>1, SaveKeeps
  <1> QED BY <1>1, <1>2, <1>3

\* A step of milvus is told by its counter.
LEMMA MilvusStepCounts ==
    ASSUME DryInv, MilvusStep
    PROVE  /\ milvusSteps' = milvusSteps + 1
           /\ store' = [k \in Key |-> store'[k]]
           /\ UNCHANGED cmdVars
  <1> PICK c \in Collections :
        \/ /\ \/ CreateCollection(c) \/ DropCollection(c)
              \/ ExpireTombstones(c) \/ DropSegment(c)
           /\ UNCHANGED <<cmdVars, faults, historyVars>>
        \/ MarkDropping(c) /\ Unstable(c)
        \/ ServeCollection(c) /\ Writes(c, FirstLog)
        \/ \E l \in Logs : FlushLog(c, l) /\ Writes(c, l)
    BY Zenon DEF MilvusStep
  <1>1. UNCHANGED cmdVars
    BY Zenon DEF Unstable, Writes, cmdVars
  <1>2. milvusSteps' = milvusSteps + 1
    BY Zenon DEF CreateCollection, ServeCollection, DropCollection, ExpireTombstones,
                 DropSegment, MarkDropping, FlushLog, Moves
  <1>3. store' = [k \in Key |-> store'[k]]
    <2>0. store = [k \in Key |-> store[k]]
      BY DEF DryInv
    <2>1. CASE CreateCollection(c) \/ ServeCollection(c)
      BY <2>1 DEF CreateCollection, ServeCollection, Puts
    <2>2. CASE DropCollection(c) \/ ExpireTombstones(c)
      BY <2>2 DEF DropCollection, ExpireTombstones
    <2>3. CASE DropSegment(c)
      <3> DEFINE once == Remove(store, KeyOf("segment", c))
      <3>1. once = [k \in Key |-> once[k]]
        BY <2>0, SaveKeeps, Zenon DEF Remove
      <3>2. store' = Save(once, KeyOf("binlog", c), Absent)
        BY <2>3, Zenon DEF DropSegment, Remove
      <3> HIDE DEF once
      <3> QED BY <3>1, <3>2, SaveKeeps
    <2>4. CASE MarkDropping(c)
      <3>1. store' = Save(store, KeyOf("collection", c),
                          Object("collection", c, "dropping", {}))
        BY <2>4, Zenon DEF MarkDropping
      <3> QED BY <2>0, <3>1, SaveKeeps
    <2>5. CASE \E l \in Logs : FlushLog(c, l)
      <3> PICK l \in Logs : FlushLog(c, l)
        BY <2>5
      <3>1. store' = Save(store, KeyOf("binlog", c),
                          Object("binlog", c, "set",
                                 store[KeyOf("binlog", c)].logs \union {l}))
        BY Zenon DEF FlushLog
      <3> QED BY <2>0, <3>1, SaveKeeps
    <2> QED BY <2>1, <2>2, <2>3, <2>4, <2>5, Zenon
  <1> QED BY <1>1, <1>2, <1>3

\* A command that goes on with Decide leaves a dry plan.
LEMMA DecideDry ==
    ASSUME NEW ops, NEW next, Decide(ops, next), UNCHANGED cmd,
           next \in {"done", "clean", "walk", "groups", "reload"}
    PROVE  /\ DryPlan'
           /\ resume' \in {"done", "clean", "walk", "groups", "reload"}
           /\ pc' = "exec"
  BY DEF Decide, DryPlan, Dry

\* The invariant holds at first.
LEMMA DryInvInit == Init => DryInv
  <1> SUFFICES ASSUME Init PROVE DryInv
    OBVIOUS
  <1>1. store = [k \in Key |-> store[k]]
    BY Zenon DEF Init, MilvusInit
  <1>2. /\ milvusSteps \in Nat
        /\ cmd = NoCommand /\ pc = "done" /\ resume = "done"
    BY DEF Init, MilvusInit
  <1> QED BY <1>1, <1>2 DEF DryInv, DryPlan

\* A step that changes neither store nor command keeps the invariant when it
\* ends in a call that is not one of the binlog command's first ones.
LEMMA QuietStep ==
    ASSUME DryInv, UNCHANGED <<store, milvusSteps, cmd>>,
           pc' \notin {"backup", "restore"},
           resume' \in {"done", "clean", "walk", "groups", "reload"},
           DryPlan'
    PROVE  DryInv'
  BY DEF DryInv

\* Every step of a command keeps it.
LEMMA CommandKeeps ==
    ASSUME DryInv, CommandStep
    PROVE  DryInv'
  <1>1. CASE ReadFails
    <2>1. pc' # "exec"
      BY <1>1 DEF ReadFails
    <2> QED BY <1>1, <2>1, QuietStep DEF ReadFails, DryInv, DryPlan, milvusVars
  <1>2. CASE ReadCollections
    BY <1>2, QuietStep DEF ReadCollections, ReadOnly, DryInv, DryPlan, milvusVars
  <1>3. CASE ReadDBCollections
    <2>1. pc' \in {"watches", "walk", "clean"}
      BY <1>3 DEF ReadDBCollections
    <2> QED BY <1>3, <2>1, QuietStep DEF ReadDBCollections, ReadOnly, DryInv, DryPlan, milvusVars
  <1>4. CASE ReadWatches
    BY <1>4, QuietStep DEF ReadWatches, ReadOnly, DryInv, DryPlan, milvusVars
  <1>5. CASE ReadCheckpoints
    BY <1>5, DecideDry, QuietStep DEF ReadCheckpoints, ReadOnly, milvusVars
  <1>6. CASE CleanCollection
    <2>1. CASE seen = <<>>
      BY <1>6, <2>1, QuietStep DEF CleanCollection, ReadOnly, DryInv, DryPlan, milvusVars
    <2>2. CASE seen # <<>>
      BY <1>6, <2>2, DecideDry, QuietStep DEF CleanCollection, ReadOnly, milvusVars
    <2> QED BY <2>1, <2>2
  <1>7. CASE WalkPage
    <2>1. CASE cursor.prefix > Len(WalkPrefixes)
      BY <1>7, <2>1, QuietStep DEF WalkPage, ReadOnly, DryInv, DryPlan, milvusVars
    <2>2. CASE ~(cursor.prefix > Len(WalkPrefixes))
      <3>1. PICK ops : Decide(ops, "walk")
        BY <1>7, <2>2, Zenon DEF WalkPage
      <3> QED BY <1>7, <3>1, DecideDry, QuietStep DEF WalkPage, ReadOnly, milvusVars
    <2> QED BY <2>1, <2>2
  <1>8. CASE WalkUnreadable \/ ReadSegments \/ EndGroups
    BY <1>8, QuietStep DEF WalkUnreadable, ReadSegments, EndGroups, ReadOnly, DryInv,
       DryPlan, milvusVars
  <1>9. CASE RemoveOrphans
    BY <1>9, DecideDry, QuietStep DEF RemoveOrphans, ReadOnly, milvusVars
  <1>10. CASE \E c \in Collections : OrphanGroup(c) \/ RemoveDirty(c)
    <2> PICK c \in Collections : OrphanGroup(c) \/ RemoveDirty(c)
      BY <1>10
    <2>1. CASE OrphanGroup(c)
      BY <2>1, QuietStep DEF OrphanGroup, ReadOnly, DryInv, DryPlan, milvusVars
    <2>2. CASE RemoveDirty(c)
      BY <2>2, DecideDry, QuietStep DEF RemoveDirty, ReadOnly, milvusVars
    <2> QED BY <2>1, <2>2
  <1>11. CASE ListObjects
    BY <1>11, DecideDry, QuietStep DEF ListObjects, ReadOnly, milvusVars
  <1>12. CASE BackupBinlog
    <2>0. cmd.arg \in Collections
      <3>1. cmd.name = "binlog"
        BY <1>12 DEF BackupBinlog, DryInv
      <3>2. cmd \in Invocations \union {NoCommand}
        BY Zenon DEF DryInv
      <3>3. NoCommand.name = "none"
        BY DEF NoCommand
      <3>4. cmd # NoCommand
        BY <3>1, <3>3
      <3>5. cmd \in Invocations
        BY <3>2, <3>4, Zenon
      <3> QED BY <3>1, <3>5, InvocationsAssumption, Zenon
    <2>1. CASE Load(KeyOf("binlog", cmd.arg)) = Absent
      BY <1>12, <2>1, QuietStep DEF BackupBinlog, DryInv, DryPlan, milvusVars
    <2>2. CASE Load(KeyOf("binlog", cmd.arg)) # Absent
      <3> DEFINE v == Load(KeyOf("binlog", cmd.arg))
      <3>1. todo' = <<Op("save", BackupKey(cmd.arg), v, Abort)>>
        BY <1>12, <2>2, Zenon DEF BackupBinlog
      <3>2. todo'[1].val = v
        BY <3>1 DEF Op
      <3>3. DryPlan'
        BY <2>0, <3>1, <3>2 DEF DryPlan
      <3> QED BY <1>12, <2>2, <3>3, QuietStep DEF BackupBinlog, milvusVars
    <2> QED BY <2>1, <2>2
  <1>13. CASE RemoveBinlog
    <2>1. CASE Load(KeyOf("binlog", cmd.arg)) = Absent
      BY <1>13, <2>1, QuietStep DEF RemoveBinlog, ReadOnly, DryInv, DryPlan, milvusVars
    <2>2. CASE Load(KeyOf("binlog", cmd.arg)) # Absent
      <3>1. PICK ops : Decide(ops, "done")
        BY <1>13, <2>2, Zenon DEF RemoveBinlog
      <3> QED BY <1>13, <3>1, DecideDry, QuietStep DEF RemoveBinlog, ReadOnly, milvusVars
    <2> QED BY <2>1, <2>2
  <1>14. CASE RestoreBinlog
    <2>1. cmd.mode = "restore"
      BY <1>14 DEF RestoreBinlog, DryInv
    <2>2. pc' \in {"done", "exec"} /\ resume' \in {resume, "done"}
      BY <1>14 DEF RestoreBinlog
    <2>3. UNCHANGED <<store, milvusSteps, cmd>>
      BY <1>14 DEF RestoreBinlog, ReadOnly, milvusVars
    <2>4. DryPlan'
      BY <2>1, <2>3 DEF DryPlan, Dry
    <2> QED BY <2>2, <2>3, <2>4, QuietStep DEF DryInv
  <1>15. CASE Exec
    <2>1. store' = [k \in Key |-> store'[k]]
      BY <1>15, ApplyKeeps DEF Exec, DryInv
    <2>2. DryPlan'
      BY <1>15 DEF Exec, DryInv, DryPlan, Dry
    <2> QED BY <1>15, <2>1, <2>2 DEF Exec, DryInv
  <1>16. CASE ExecFails
    <2>1. store' = [k \in Key |-> store'[k]]
      BY <1>16, ApplyKeeps DEF ExecFails, DryInv
    <2>2. DryPlan'
      <3> SUFFICES ASSUME pc = "exec", Dry PROVE todo' = <<>>
        BY <1>16 DEF ExecFails, DryPlan, Dry
      <3> PICK c \in Collections :
              todo = <<Op("save", BackupKey(c), todo[1].val, Abort)>>
        BY <1>16 DEF ExecFails, DryInv, DryPlan
      <3>1. Len(todo) = 1 /\ Head(todo).skip = Abort
        BY DEF Op
      <3>2. Abort \in Nat
        <4>1. KeyOrder \in Seq(Seq(STRING))
          BY KeyOrderAssumption, Zenon
        <4>2. Len(KeyOrder) \in Nat
          BY <4>1
        <4> QED BY <4>2 DEF Abort
      <3> HIDE DEF Abort
      <3>3. todo' = SubSeq(todo, 2 + Abort, 1)
        BY <1>16, <3>1 DEF ExecFails
      <3> QED BY <3>2, <3>3
    <2> QED BY <1>16, <2>1, <2>2 DEF ExecFails, DryInv
  <1>17. CASE Resume
    BY <1>17, QuietStep DEF Resume, DryInv, DryPlan, milvusVars
  <1> QED BY <1>1, <1>2, <1>3, <1>4, <1>5, <1>6, <1>7, <1>8, <1>9, <1>10, <1>11,
             <1>12, <1>13, <1>14, <1>15, <1>16, <1>17, Zenon DEF CommandStep

\* Starting a command keeps it: its first call is not "exec".
LEMMA StartKeeps ==
    ASSUME DryInv, NEW i \in Invocations, Start(i)
    PROVE  DryInv'
  <1>1. /\ UNCHANGED <<store, milvusSteps>>
        /\ cmd' = i /\ pc' = FirstCall(i) /\ resume' = "done" /\ todo' = <<>>
    BY DEF Start, milvusVars
  <1>2. /\ FirstCall(i) \in {"backup", "restore"} => i.name = "binlog"
        /\ FirstCall(i) = "restore" => i.mode = "restore"
    BY DEF FirstCall
  <1>3. DryPlan'
    BY <1>1 DEF DryPlan
  <1> QED BY <1>1, <1>2, <1>3 DEF DryInv

\* Every step keeps it.
LEMMA DryInvNext == DryInv /\ [Next]_vars => DryInv'
  <1> SUFFICES ASSUME DryInv, [Next]_vars PROVE DryInv'
    OBVIOUS
  <1>1. CASE \E i \in Invocations : Start(i)
    BY <1>1, StartKeeps
  <1>2. CASE CommandStep
    BY <1>2, CommandKeeps
  <1>3. CASE MilvusStep
    <2>1. /\ milvusSteps' \in Nat
          /\ store' = [k \in Key |-> store'[k]]
          /\ UNCHANGED <<cmd, pc, todo, resume>>
      BY <1>3, MilvusStepCounts DEF cmdVars, DryInv
    <2> QED BY <2>1 DEF DryInv, DryPlan, Dry
  <1>4. CASE UNCHANGED vars
    BY <1>4 DEF vars, milvusVars, cmdVars, DryInv, DryPlan, Dry
  <1> QED BY <1>1, <1>2, <1>3, <1>4, Zenon DEF Next

\* In a reachable state a step that is not one of milvus and belongs to a
\* command without --run changes no key but a backup key.
LEMMA DryStep ==
    ASSUME DryInv, [Next]_vars, OfCommand, Dry,
           NEW k \in Key, \A c \in Collections : k # BackupKey(c)
    PROVE  store'[k] = store[k]
  <1>1. CASE Exec \/ ExecFails
    <2>1. PICK c \in Collections :
              todo = <<Op("save", BackupKey(c), todo[1].val, Abort)>>
      BY <1>1 DEF Exec, ExecFails, DryInv, DryPlan
    <2>2. Apply(store, Head(todo)) = Save(store, BackupKey(c), todo[1].val)
      BY <2>1 DEF Apply, Op
    <2>3. Apply(store, Head(todo))[k] = store[k]
      BY <2>2, SaveKeeps DEF DryInv
    <2> QED BY <1>1, <2>3 DEF Exec, ExecFails
  <1>2. CASE ~(Exec \/ ExecFails)
    <2>1. ~MilvusStep
      BY MilvusStepCounts DEF OfCommand, DryInv
    <2>2. CASE \E i \in Invocations : Start(i)
      BY <2>2 DEF Start, milvusVars
    <2>3. CASE CommandStep
      BY <1>2, <2>3 DEF CommandStep, ReadFails, ReadCollections, ReadDBCollections,
         ReadWatches, ReadCheckpoints, CleanCollection, WalkPage, WalkUnreadable,
         ReadSegments, EndGroups, RemoveOrphans, OrphanGroup, RemoveDirty,
         ListObjects, BackupBinlog, RemoveBinlog, RestoreBinlog, Resume, ReadOnly,
         milvusVars
    <2>4. CASE UNCHANGED vars
      BY <2>4 DEF vars, milvusVars
    <2> QED BY <2>1, <2>2, <2>3, <2>4, Zenon DEF Next
  <1> QED BY <1>1, <1>2

\* The invariant of dry commands holds throughout, for all constants.
THEOREM DryInvariant == Spec => []DryInv
  BY DryInvInit, DryInvNext, PTL DEF Spec

\* Every remove command without --run leaves every key as it is, but for the
\* backup key of a binlog and the explicit --restore.
THEOREM DryRun == Spec => DryRunKeepsStore
  <1> DEFINE Kept == (OfCommand /\ ~cmd.run /\ cmd.mode # "restore") =>
                        \A k \in Key : (\A c \in Collections : k # BackupKey(c)) =>
                                           store'[k] = store[k]
  <1>1. DryInv /\ [Next]_vars => [Kept]_vars
    <2> SUFFICES ASSUME DryInv, [Next]_vars, OfCommand, Dry,
                        NEW k \in Key, \A c \in Collections : k # BackupKey(c)
                 PROVE  store'[k] = store[k]
      BY Zenon DEF Dry
    <2> QED BY DryStep
  <1> QED BY <1>1, DryInvariant, PTL DEF Spec, DryRunKeepsStore
-----------------------------------------------------------------------------
(* The logs a binlog command takes are in the backup key. *)

\* Every log of the field binlog is in the backup key, or milvus wrote it since.
Covered(c) ==
    /\ KeyOf("binlog", c) \in Key
    /\ LogsOf(KeyOf("binlog", c)) \subseteq LogsOf(BackupKey(c)) \union FreshLogs(c)

\* The backup is about to be saved: it holds what the field binlog held.
SavesBackup(c) ==
    /\ resume = "reload"
    /\ todo = <<Op("save", BackupKey(c), todo[1].val, Abort)>>
    /\ todo[1].val # Absent
    /\ KeyOf("binlog", c) \in Key
    /\ LogsOf(KeyOf("binlog", c)) \subseteq todo[1].val.logs \union FreshLogs(c)

\* The field binlog is about to be removed or written without a log.
TakesLogs(c) ==
    /\ resume = "done"
    /\ \E op \in {"save", "remove"} :
           todo = <<Op(op, KeyOf("binlog", c), todo[1].val, Abort)>>
    /\ Covered(c)

BinlogPlan(c) ==
    /\ pc \in {"done", "backup", "reload", "exec"}
    /\ pc = "reload" => Covered(c)
    /\ pc = "exec" => \/ todo = <<>> /\ resume = "done"
                      \/ todo = <<>> /\ resume = "reload" /\ Covered(c)
                      \/ SavesBackup(c)
                      \/ TakesLogs(c)

TakingLogs == cmd.name = "binlog" /\ cmd.mode # "restore"

BinlogInv == DryInv /\ (TakingLogs => BinlogPlan(cmd.arg))

\* The key of a field binlog is that of no other object, and a backup key is
\* the key of no object of milvus.
LEMMA BinlogKeys ==
    ASSUME NEW c, NEW d, NEW kind \in AllKinds
    PROVE  /\ KeyOf(kind, c) = KeyOf("binlog", d) => kind = "binlog" /\ c = d
           /\ kind \in RootKinds => kind # "binlog"
           /\ KeyOf(kind, c) # BackupKey(d)
  <1>1. /\ KeyOf("binlog", c) = <<"datacoord-meta", "binlog", c, "p", Segment[c], "100">>
        /\ KeyOf("binlog", d) = <<"datacoord-meta", "binlog", d, "p", Segment[d], "100">>
    BY DEF KeyOf
  <1>2. BackupKey(d)[1] = "birdwatcher"
    <2> DEFINE k == KeyOf("binlog", d)
               S == {"datacoord-meta", "binlog", d, "p", Segment[d], "100"}
    <2>1. k \in Seq(S)
      BY <1>1
    <2>2. <<"birdwatcher", "backup">> \in Seq({"birdwatcher", "backup"})
      OBVIOUS
    <2> HIDE DEF k, S
    <2>3. (<<"birdwatcher", "backup">> \o k)[1] = <<"birdwatcher", "backup">>[1]
      BY <2>1, <2>2
    <2> QED BY <2>3 DEF BackupKey, k
  <1>3. CASE kind \in DataKinds
    <2>1. KeyOf(kind, c)[1] \in {"channelwatch", "datacoord-meta", "field-index"}
      BY <1>3 DEF DataKinds, KeyOf
    <2>2. kind # "binlog" => \/ KeyOf(kind, c)[1] # "datacoord-meta"
                             \/ KeyOf(kind, c)[2] # "binlog"
      BY <1>3 DEF DataKinds, KeyOf
    <2>3. kind \notin RootKinds
      BY <1>3 DEF DataKinds, RootKinds
    <2> QED BY <1>1, <1>2, <2>1, <2>2, <2>3
  <1>4. CASE kind \in RootKinds
    <2>1. KeyOf(kind, c)[1] \in {"root-coord", "snapshots"}
      <3>1. CollectionPath(c) \in {<<"root-coord", "collection">>,
                <<"root-coord", "database", "collection-info", DbId[c]>>}
        BY DEF CollectionPath
      <3> QED BY <1>4, <3>1 DEF RootKinds, KeyOf
    <2>2. kind # "binlog"
      BY <1>4 DEF RootKinds
    <2> QED BY <1>1, <1>2, <2>1, <2>2
  <1> QED BY <1>3, <1>4 DEF AllKinds

\* What a save, a removal and the step of a plan do to the logs.
LEMMA SavedValue ==
    ASSUME NEW s, s = [k \in Key |-> s[k]], NEW key \in Key, NEW v
    PROVE  Save(s, key, v)[key] = v
  BY DEF Save

\* A step of milvus adds to a field binlog only logs it counts as fresh, and
\* leaves the backup keys alone.
LEMMA MilvusLogs ==
    ASSUME DryInv, MilvusStep, NEW c \in Collections,
           KeyOf("binlog", c) \in Key, BackupKey(c) \in Key
    PROVE  /\ LogsOf(KeyOf("binlog", c))'
                  \subseteq LogsOf(KeyOf("binlog", c)) \union FreshLogs(c)'
           /\ FreshLogs(c) \subseteq FreshLogs(c)'
           /\ store'[BackupKey(c)] = store[BackupKey(c)]
  <1> DEFINE b == KeyOf("binlog", c)
             k == BackupKey(c)
             Grows == /\ LogsOf(b)' \subseteq LogsOf(b) \union FreshLogs(c)'
                      /\ FreshLogs(c) \subseteq FreshLogs(c)'
                      /\ store'[k] = store[k]
  <1> SUFFICES Grows
    OBVIOUS
  <1>0. /\ store = [x \in Key |-> store[x]]
        /\ b \in Key /\ k \in Key
    BY DEF DryInv
  <1>1. PICK d \in Collections :
        \/ /\ \/ CreateCollection(d) \/ DropCollection(d)
              \/ ExpireTombstones(d) \/ DropSegment(d)
           /\ UNCHANGED <<cmdVars, faults, historyVars>>
        \/ MarkDropping(d) /\ Unstable(d)
        \/ ServeCollection(d) /\ Writes(d, FirstLog)
        \/ \E l \in Logs : FlushLog(d, l) /\ Writes(d, l)
    BY Zenon DEF MilvusStep
  <1>2. /\ \A kind \in AllKinds : k # KeyOf(kind, d)
        /\ \A kind \in RootKinds : b # KeyOf(kind, d)
        /\ \A kind \in DataKinds : b = KeyOf(kind, d) => c = d
    <2>1. RootKinds \subseteq AllKinds /\ DataKinds \subseteq AllKinds
      BY DEF AllKinds
    <2> QED BY <2>1, BinlogKeys, Zenon
  <1>3. AllKinds = RootKinds \union DataKinds
    BY DEF AllKinds
  <1>4. /\ {"collection", "collection-snapshot"} \subseteq RootKinds
        /\ {"segment", "binlog"} \subseteq DataKinds
    BY DEF RootKinds, DataKinds
  <1>5. ASSUME fresh' = fresh, store'[k] = store[k], store'[b] \in {store[b], Absent}
        PROVE  Grows
    BY <1>5 DEF LogsOf, FreshLogs
  <1>6. ASSUME NEW l, Writes(d, l), store'[k] = store[k],
               \/ store'[b] = store[b]
               \/ d = c /\ store'[b].logs \subseteq {l}
               \/ /\ d = c /\ store[b] # Absent
                  /\ store'[b].logs = store[b].logs \union {l}
        PROVE  Grows
    <2>1. fresh' = fresh \union {<<d, l>>}
      BY <1>6, Zenon DEF Writes
    <2>2. FreshLogs(c) \subseteq FreshLogs(c)'
      BY <2>1 DEF FreshLogs
    <2>3. d = c => l \in FreshLogs(c)'
      <3> DEFINE w == <<d, l>>
      <3>1. w \in fresh' /\ w[1] = d /\ w[2] = l
        BY <2>1
      <3> HIDE DEF w
      <3> QED BY <3>1 DEF FreshLogs
    <2> QED BY <1>6, <2>2, <2>3 DEF LogsOf
  <1> HIDE DEF Grows, b, k
  <1>7. CASE (CreateCollection(d) \/ DropCollection(d) \/ ExpireTombstones(d)
              \/ MarkDropping(d)) /\ fresh' = fresh
    <2>1. \A x \in {b, k} : ~OwnedBy(x, RootKinds, d)
                            /\ ~OwnedBy(x, {"collection", "collection-snapshot"}, d)
      BY <1>2, <1>3, <1>4 DEF OwnedBy
    <2>2. CASE CreateCollection(d)
      BY <1>0, <1>5, <1>7, <2>1, <2>2 DEF CreateCollection, Puts
    <2>3. CASE DropCollection(d)
      BY <1>0, <1>5, <1>7, <2>1, <2>3 DEF DropCollection
    <2>4. CASE ExpireTombstones(d)
      BY <1>0, <1>5, <1>7, <2>1, <2>4 DEF ExpireTombstones
    <2>5. CASE MarkDropping(d)
      <3>1. store' = Save(store, KeyOf("collection", d),
                          Object("collection", d, "dropping", {}))
        BY <2>5, Zenon DEF MarkDropping
      <3>2. b # KeyOf("collection", d) /\ k # KeyOf("collection", d)
        BY <1>2, <1>3, <1>4
      <3>3. store'[b] = store[b] /\ store'[k] = store[k]
        BY <1>0, <3>1, <3>2, SaveKeeps
      <3> QED BY <1>5, <1>7, <3>3
    <2> QED BY <1>7, <2>2, <2>3, <2>4, <2>5
  <1>8. CASE DropSegment(d) /\ fresh' = fresh
    <2> DEFINE once == Remove(store, KeyOf("segment", d))
    <2>1. store' = Remove(once, KeyOf("binlog", d))
      BY <1>8, Zenon DEF DropSegment
    <2>2. k # KeyOf("segment", d) /\ k # KeyOf("binlog", d)
      BY <1>2, <1>3, <1>4
    <2>3. /\ once = [x \in Key |-> once[x]]
          /\ once[k] = store[k] /\ once[b] \in {store[b], Absent}
      BY <1>0, <2>2, SaveKeeps, SavedValue DEF Remove
    <2> HIDE DEF once
    <2>4. store'[k] = once[k] /\ store'[b] \in {once[b], Absent}
      BY <1>0, <2>1, <2>2, <2>3, SaveKeeps, SavedValue DEF Remove
    <2> QED BY <1>5, <1>8, <2>3, <2>4
  <1>9. CASE ServeCollection(d) /\ Writes(d, FirstLog)
    <2>1. ~OwnedBy(k, DataKinds, d)
      BY <1>2, <1>3 DEF OwnedBy
    <2>2. store'[k] = store[k]
      BY <1>0, <1>9, <2>1 DEF ServeCollection, Puts
    <2>3. CASE d # c
      <3>1. ~OwnedBy(b, DataKinds, d)
        BY <1>2, <2>3 DEF OwnedBy
      <3>2. store'[b] = store[b]
        BY <1>0, <1>9, <3>1 DEF ServeCollection, Puts
      <3> QED BY <1>6, <1>9, <2>2, <3>2
    <2>4. CASE d = c
      <3>1. PICK kind : store'[b] = NewObject(kind, d)
        <4>1. OwnedBy(b, DataKinds, d)
          BY <1>4, <2>4 DEF OwnedBy, b
        <4>2. store' = [x \in Key |->
                          IF OwnedBy(x, DataKinds, d)
                          THEN NewObject(CHOOSE e \in DataKinds : x = KeyOf(e, d), d)
                          ELSE store[x]]
          BY <1>9, Zenon DEF ServeCollection, Puts
        <4>3. store'[b] = NewObject(CHOOSE e \in DataKinds : b = KeyOf(e, d), d)
          BY <1>0, <4>1, <4>2
        <4> QED BY <4>3
      <3>2. store'[b].logs \subseteq {FirstLog}
        BY <3>1 DEF NewObject, Object
      <3> QED BY <1>6, <1>9, <2>2, <2>4, <3>2
    <2> QED BY <2>3, <2>4
  <1>10. CASE \E l \in Logs : FlushLog(d, l) /\ Writes(d, l)
    <2> PICK l \in Logs : FlushLog(d, l) /\ Writes(d, l)
      BY <1>10
    <2> DEFINE v == Object("binlog", d, "set", store[KeyOf("binlog", d)].logs \union {l})
    <2>1. store' = Save(store, KeyOf("binlog", d), v) /\ Load(KeyOf("binlog", d)) # Absent
      BY Zenon DEF FlushLog
    <2>2. k # KeyOf("binlog", d)
      BY <1>2, <1>3, <1>4
    <2>3. v.logs = store[KeyOf("binlog", d)].logs \union {l}
      BY DEF Object
    <2> HIDE DEF v
    <2>4. store'[k] = store[k]
      BY <1>0, <2>1, <2>2, SaveKeeps
    <2>5. CASE d = c
      <3>1. store'[b] = v /\ store[b] # Absent
        BY <1>0, <2>1, <2>5, SavedValue DEF Load, b
      <3> QED BY <1>6, <2>3, <2>4, <2>5, <3>1 DEF b
    <2>6. CASE d # c
      <3>1. store'[b] = store[b]
        BY <1>0, <1>2, <1>4, <2>1, <2>6, SaveKeeps
      <3> QED BY <1>6, <2>4, <3>1
    <2> QED BY <2>5, <2>6
  <1> QED
    <2>1. \/ (CreateCollection(d) \/ DropCollection(d) \/ ExpireTombstones(d)
              \/ MarkDropping(d)) /\ fresh' = fresh
          \/ DropSegment(d) /\ fresh' = fresh
          \/ ServeCollection(d) /\ Writes(d, FirstLog)
          \/ \E l \in Logs : FlushLog(d, l) /\ Writes(d, l)
      BY <1>1, Zenon DEF Unstable, historyVars
    <2> QED BY <1>7, <1>8, <1>9, <1>10, <2>1, Zenon

\* What a binlog command works on is among the keys that can occur.
LEMMA BinlogArg ==
    ASSUME DryInv, cmd.name = "binlog"
    PROVE  cmd.arg \in Collections /\ BackupKey(cmd.arg) \in Key
  <1>1. cmd \in Invocations \union {NoCommand}
    BY Zenon DEF DryInv
  <1>2. NoCommand.name = "none"
    BY DEF NoCommand
  <1>3. cmd # NoCommand
    BY <1>2
  <1>4. cmd \in Invocations
    BY <1>1, <1>3, Zenon
  <1> QED BY <1>4, InvocationsAssumption, Zenon

\* A failing call of a plan of one operation leaves nothing to do.
LEMMA NothingLeft ==
    ASSUME NEW o, o.skip = Abort, todo = <<o>>
    PROVE  SubSeq(todo, 2 + Head(todo).skip, Len(todo)) = <<>>
  <1>1. Abort \in Nat
    <2>1. KeyOrder \in Seq(Seq(STRING))
      BY KeyOrderAssumption, Zenon
    <2>2. Len(KeyOrder) \in Nat
      BY <2>1
    <2> QED BY <2>2 DEF Abort
  <1> HIDE DEF Abort
  <1>2. Len(todo) = 1 /\ Head(todo) = o
    OBVIOUS
  <1>3. SubSeq(todo, 2 + Head(todo).skip, Len(todo)) = SubSeq(todo, 2 + Abort, 1)
    BY <1>2
  <1> QED BY <1>1, <1>3

\* Steps of a binlog command that is not a restore keep its plan.
LEMMA BinlogCommandKeeps ==
    ASSUME BinlogInv, CommandStep, TakingLogs
    PROVE  BinlogPlan(cmd.arg)'
  <1> DEFINE c == cmd.arg
             b == KeyOf("binlog", c)
             k == BackupKey(c)
  <1>0. /\ DryInv /\ BinlogPlan(c)
        /\ c \in Collections /\ k \in Key
        /\ store = [x \in Key |-> store[x]]
        /\ cmd.name = "binlog" /\ cmd.mode # "restore"
    BY BinlogArg DEF BinlogInv, TakingLogs, DryInv
  <1>1. pc \in {"backup", "reload", "exec"}
        /\ (ReadFails \/ BackupBinlog \/ RemoveBinlog \/ Exec \/ ExecFails \/ Resume)
    <2>1. pc \in {"done", "backup", "reload", "exec"}
      BY <1>0, Zenon DEF BinlogPlan
    <2> QED BY <1>0, <2>1 DEF CommandStep, ReadCollections, ReadDBCollections,
         ReadWatches, ReadCheckpoints, CleanCollection, WalkPage, WalkUnreadable,
         ReadSegments, EndGroups, RemoveOrphans, OrphanGroup, RemoveDirty,
         ListObjects, RestoreBinlog, ReadFails, BackupBinlog, RemoveBinlog, Exec,
         ExecFails, Resume, Reading
  <1>2. cmd' = cmd
    BY <1>1, Zenon DEF ReadFails, BackupBinlog, RemoveBinlog, ReadOnly, Exec, ExecFails,
       Resume
  <1>3. CASE ReadFails
    <2>1. pc' = "done"
      BY <1>0, <1>3 DEF ReadFails
    <2> QED BY <2>1 DEF BinlogPlan
  <1>4. CASE BackupBinlog
    <2>1. CASE Load(b) = Absent
      <3>1. pc' = "done"
        BY <1>4, <2>1, Zenon DEF BackupBinlog
      <3> QED BY <3>1 DEF BinlogPlan
    <2>2. CASE Load(b) # Absent
      <3>1. /\ todo' = <<Op("save", k, Load(b), Abort)>>
            /\ resume' = "reload" /\ pc' = "exec" /\ store' = store
        BY <1>4, <2>2, Zenon DEF BackupBinlog, milvusVars
      <3>2. todo'[1].val = Load(b)
        BY <3>1 DEF Op
      <3>3. b \in Key /\ Load(b) = store[b]
        BY <2>2 DEF Load
      <3>4. SavesBackup(c)'
        BY <1>2, <2>2, <3>1, <3>2, <3>3 DEF SavesBackup, LogsOf
      <3> QED BY <3>1, <3>4 DEF BinlogPlan
    <2> QED BY <2>1, <2>2
  <1>5. CASE RemoveBinlog
    <2>0. Covered(c) /\ store' = store /\ fresh' = fresh
      BY <1>0, <1>5 DEF RemoveBinlog, BinlogPlan, ReadOnly, milvusVars
    <2>1. CASE Load(b) = Absent
      <3>1. pc' = "done"
        BY <1>5, <2>1, Zenon DEF RemoveBinlog
      <3> QED BY <3>1 DEF BinlogPlan
    <2>2. CASE Load(b) # Absent
      <3>1. PICK o : /\ Decide(<<o>>, "done")
                     /\ o.skip = Abort /\ o.op \in {"save", "remove"} /\ o.key = b
                     /\ o = Op(o.op, b, o.val, Abort)
        <4>1. CASE cmd.mode = "all"
          <5>1. Decide(<<RemoveOp(b, Abort)>>, "done")
            BY <1>5, <2>2, <4>1, Zenon DEF RemoveBinlog
          <5> QED BY <5>1 DEF RemoveOp, Op
        <4>2. CASE cmd.mode # "all"
          <5> DEFINE v == [Load(b) EXCEPT !.logs = @ \ {FirstLog}]
          <5>1. Decide(<<Op("save", b, v, Abort)>>, "done")
            BY <1>5, <2>2, <4>2, Zenon DEF RemoveBinlog
          <5> HIDE DEF v
          <5> QED BY <5>1 DEF Op
        <4> QED BY <4>1, <4>2
      <3>2. resume' = "done" /\ pc' = "exec" /\ todo' \in {<<>>, <<o>>}
        BY <3>1 DEF Decide
      <3>3. Covered(c)'
        BY <1>2, <2>0 DEF Covered, LogsOf, FreshLogs
      <3>4. todo' = <<o>> => TakesLogs(c)'
        BY <1>2, <3>1, <3>2, <3>3 DEF TakesLogs
      <3> QED BY <3>2, <3>4 DEF BinlogPlan
    <2> QED BY <2>1, <2>2
  <1>6. CASE Exec \/ ExecFails
    <2>0. pc = "exec" /\ pc' = "exec" /\ todo # <<>> /\ fresh' = fresh
      BY <1>6 DEF Exec, ExecFails, historyVars
    <2>1. CASE SavesBackup(c)
      <3> DEFINE v == todo[1].val
      <3>1. /\ todo = <<Op("save", k, v, Abort)>> /\ v # Absent /\ resume = "reload"
            /\ b \in Key /\ LogsOf(b) \subseteq v.logs \union FreshLogs(c)
        BY <2>1 DEF SavesBackup
      <3>2. Head(todo) = Op("save", k, v, Abort) /\ Head(todo).skip = Abort
        BY <3>1 DEF Op
      <3>3. Apply(store, Head(todo)) = Save(store, k, v)
        BY <3>2 DEF Apply, Op
      <3>4. CASE ExecFails
        <4>1. resume' = "done"
          BY <3>2, <3>4 DEF ExecFails
        <4>2. todo' = <<>>
          BY <3>1, <3>2, <3>4, NothingLeft DEF ExecFails
        <4> QED BY <2>0, <4>1, <4>2 DEF BinlogPlan
      <3>5. CASE Exec
        <4>1. todo' = <<>> /\ resume' = "reload" /\ store' = Save(store, k, v)
          BY <3>1, <3>3, <3>5 DEF Exec
        <4>2. b # k
          BY <1>0, BinlogKeys DEF AllKinds, DataKinds
        <4>3. store'[k] = v /\ store'[b] = store[b]
          BY <1>0, <3>1, <4>1, <4>2, SaveKeeps, SavedValue
        <4> HIDE DEF v
        <4>4. Covered(c)'
          BY <1>2, <2>0, <3>1, <4>3 DEF Covered, LogsOf, FreshLogs
        <4> QED BY <2>0, <4>1, <4>4 DEF BinlogPlan
      <3> QED BY <1>6, <3>4, <3>5
    <2>2. CASE TakesLogs(c)
      <3>1. PICK op \in {"save", "remove"} : todo = <<Op(op, b, todo[1].val, Abort)>>
        BY <2>2 DEF TakesLogs
      <3>2. resume = "done" /\ Head(todo).skip = Abort
        BY <2>2, <3>1 DEF TakesLogs, Op
      <3>3. resume' = "done"
        BY <1>6, <3>2 DEF Exec, ExecFails
      <3>4. todo' = <<>>
        <4>1. Tail(todo) = <<>>
          <5>1. PICK o : todo = <<o>>
            BY <3>1, Zenon
          <5> QED BY <5>1
        <4>2. SubSeq(todo, 2 + Head(todo).skip, Len(todo)) = <<>>
          BY <3>1, NothingLeft DEF Op
        <4> QED BY <1>6, <4>1, <4>2 DEF Exec, ExecFails
      <3> QED BY <2>0, <3>3, <3>4 DEF BinlogPlan
    <2> QED BY <1>0, <2>0, <2>1, <2>2 DEF BinlogPlan
  <1>7. CASE Resume
    <2>1. /\ pc = "exec" /\ todo = <<>> /\ pc' = resume
          /\ store' = store /\ fresh' = fresh
      BY <1>7 DEF Resume, milvusVars, historyVars
    <2>2. \/ resume = "done"
          \/ resume = "reload" /\ Covered(c)
      BY <1>0, <2>1 DEF BinlogPlan, SavesBackup, TakesLogs
    <2>3. Covered(c) => Covered(c)'
      BY <1>2, <2>1 DEF Covered, LogsOf, FreshLogs
    <2> QED BY <2>1, <2>2, <2>3 DEF BinlogPlan
  <1> QED BY <1>1, <1>3, <1>4, <1>5, <1>6, <1>7

\* The plan of a binlog command holds at first and throughout.
LEMMA BinlogInit == Init => BinlogInv
  <1> SUFFICES ASSUME Init PROVE BinlogInv
    OBVIOUS
  <1>1. cmd.name = "none"
    BY DEF Init, NoCommand
  <1> QED BY <1>1, DryInvInit DEF BinlogInv, TakingLogs

LEMMA BinlogNext == BinlogInv /\ [Next]_vars => BinlogInv'
  <1> SUFFICES ASSUME BinlogInv, [Next]_vars PROVE BinlogInv'
    OBVIOUS
  <1>0. DryInv /\ DryInv'
    BY DryInvNext DEF BinlogInv
  <1> SUFFICES ASSUME TakingLogs' PROVE BinlogPlan(cmd.arg)'
    BY <1>0 DEF BinlogInv
  <1>1. ASSUME NEW i \in Invocations, Start(i)
        PROVE  BinlogPlan(cmd.arg)'
    <2>1. cmd' = i /\ pc' = FirstCall(i)
      BY <1>1 DEF Start
    <2>2. pc' = "backup"
      BY <2>1 DEF TakingLogs, FirstCall
    <2> QED BY <2>2 DEF BinlogPlan
  <1>2. CASE CommandStep
    <2>1. cmd' = cmd
      BY <1>2 DEF CommandStep, ReadFails, ReadCollections, ReadDBCollections,
         ReadWatches, ReadCheckpoints, CleanCollection, WalkPage, WalkUnreadable,
         ReadSegments, EndGroups, RemoveOrphans, OrphanGroup, RemoveDirty,
         ListObjects, BackupBinlog, RemoveBinlog, RestoreBinlog, Resume, ReadOnly,
         Exec, ExecFails
    <2> QED BY <1>2, <2>1, BinlogCommandKeeps DEF TakingLogs
  <1>3. CASE MilvusStep
    <2> DEFINE c == cmd.arg
               b == KeyOf("binlog", c)
    <2>1. UNCHANGED <<cmd, pc, todo, resume>>
      BY <1>0, <1>3, MilvusStepCounts DEF cmdVars
    <2>2. /\ BinlogPlan(c) /\ c \in Collections /\ BackupKey(c) \in Key
      BY <1>0, <2>1, BinlogArg DEF BinlogInv, TakingLogs
    <2>3. b \in Key => /\ LogsOf(b)' \subseteq LogsOf(b) \union FreshLogs(c)'
                       /\ FreshLogs(c) \subseteq FreshLogs(c)'
                       /\ store'[BackupKey(c)] = store[BackupKey(c)]
      <3> SUFFICES ASSUME b \in Key
                   PROVE  /\ LogsOf(KeyOf("binlog", c))'
                                \subseteq LogsOf(KeyOf("binlog", c)) \union FreshLogs(c)'
                          /\ FreshLogs(c) \subseteq FreshLogs(c)'
                          /\ store'[BackupKey(c)] = store[BackupKey(c)]
        OBVIOUS
      <3>1. PICK d \in Collections : d = c
        BY <2>2
      <3>2. /\ LogsOf(KeyOf("binlog", d))'
                  \subseteq LogsOf(KeyOf("binlog", d)) \union FreshLogs(d)'
            /\ FreshLogs(d) \subseteq FreshLogs(d)'
            /\ store'[BackupKey(d)] = store[BackupKey(d)]
        BY <1>0, <1>3, <2>2, <3>1, MilvusLogs
      <3> QED BY <2>1, <3>1, <3>2 DEF LogsOf, FreshLogs
    <2>4. Covered(c) => Covered(c)'
      BY <2>1, <2>3 DEF Covered, LogsOf
    <2>5. SavesBackup(c) => SavesBackup(c)'
      BY <2>1, <2>3 DEF SavesBackup
    <2>6. TakesLogs(c) => TakesLogs(c)'
      BY <2>1, <2>4 DEF TakesLogs
    <2> QED BY <2>1, <2>2, <2>4, <2>5, <2>6 DEF BinlogPlan
  <1>4. CASE UNCHANGED vars
    <2>1. UNCHANGED <<store, fresh, cmd, pc, todo, resume>>
      BY <1>4 DEF vars, milvusVars, cmdVars, historyVars
    <2> QED BY <2>1 DEF BinlogInv, TakingLogs, BinlogPlan, SavesBackup, TakesLogs,
                        Covered, LogsOf, FreshLogs
  <1> QED BY <1>1, <1>2, <1>3, <1>4, Zenon DEF Next

\* Its step takes no log that is not backed up.
LEMMA BinlogStep ==
    ASSUME BinlogInv, [Next]_vars, OfCommand, TakingLogs,
           NEW c \in Collections, KeyOf("binlog", c) \in Key
    PROVE  LogsOf(KeyOf("binlog", c))
               \subseteq LogsOf(KeyOf("binlog", c))' \union LogsOf(BackupKey(c))'
                         \union FreshLogs(c)
  <1> DEFINE b == KeyOf("binlog", c)
             a == cmd.arg
  <1>0. /\ DryInv /\ BinlogPlan(a) /\ a \in Collections
        /\ store = [x \in Key |-> store[x]]
    BY BinlogArg DEF BinlogInv, TakingLogs, DryInv
  <1>1. CASE store'[b] = store[b]
    BY <1>1 DEF LogsOf
  <1>2. CASE store'[b] # store[b]
    <2>1. Exec \/ ExecFails
      <3>1. ~MilvusStep
        BY <1>0, MilvusStepCounts DEF OfCommand, DryInv
      <3>2. store' # store
        BY <1>2
      <3>3. ~(\E i \in Invocations : Start(i)) /\ ~UNCHANGED vars
        BY <3>2 DEF Start, vars, milvusVars
      <3>4. CommandStep
        BY <3>1, <3>3, Zenon DEF Next
      <3> QED BY <3>2, <3>4 DEF CommandStep, ReadFails, ReadCollections, ReadDBCollections,
         ReadWatches, ReadCheckpoints, CleanCollection, WalkPage, WalkUnreadable,
         ReadSegments, EndGroups, RemoveOrphans, OrphanGroup, RemoveDirty,
         ListObjects, BackupBinlog, RemoveBinlog, RestoreBinlog, Resume, ReadOnly,
         milvusVars
    <2>2. store' = Apply(store, Head(todo)) /\ pc = "exec" /\ todo # <<>>
      BY <1>2, <2>1 DEF Exec, ExecFails
    <2>3. ~SavesBackup(a)
      <3> SUFFICES ASSUME SavesBackup(a) PROVE FALSE
        OBVIOUS
      <3>1. Apply(store, Head(todo)) = Save(store, BackupKey(a), todo[1].val)
        BY DEF SavesBackup, Apply, Op
      <3>2. b # BackupKey(a)
        BY BinlogKeys DEF AllKinds, DataKinds
      <3> QED BY <1>0, <1>2, <2>2, <3>1, <3>2, SaveKeeps
    <2>4. TakesLogs(a)
      BY <1>0, <2>2, <2>3 DEF BinlogPlan
    <2>5. PICK op \in {"save", "remove"} :
              todo = <<Op(op, KeyOf("binlog", a), todo[1].val, Abort)>>
      BY <2>4 DEF TakesLogs
    <2>6. PICK v : Apply(store, Head(todo)) = Save(store, KeyOf("binlog", a), v)
      BY <2>5 DEF Apply, Remove, Op
    <2>7. b = KeyOf("binlog", a)
      BY <1>0, <1>2, <2>2, <2>6, SaveKeeps
    <2>8. c = a
      BY <2>7, BinlogKeys DEF AllKinds, DataKinds
    <2>9. store'[BackupKey(c)] = store[BackupKey(c)]
      <3>1. b # BackupKey(c)
        BY BinlogKeys DEF AllKinds, DataKinds
      <3>2. BackupKey(c) \in Key
        BY <1>0, <2>8, BinlogArg DEF TakingLogs
      <3> QED BY <1>0, <2>2, <2>6, <2>7, <3>1, <3>2, SaveKeeps
    <2>10. LogsOf(b) \subseteq LogsOf(BackupKey(c)) \union FreshLogs(c)
      BY <2>4, <2>8 DEF TakesLogs, Covered
    <2> QED BY <2>9, <2>10 DEF LogsOf
  <1> QED BY <1>1, <1>2

\* The plan of a binlog command is one backup of what the field binlog holds,
\* and then one change of it, throughout and for all constants.
THEOREM BinlogInvariance == Spec => []BinlogInv
  BY BinlogInit, BinlogNext, PTL DEF Spec

\* remove binlog takes no log out of a field binlog that is not in the backup
\* key, unless milvus wrote it since: for all keys, collections, invocations and
\* logs, whatever milvus does between its calls and whichever of them fail.
THEOREM LogsStayBackedUp == Spec => LogsBackedUp
  <1> DEFINE Taken == (OfCommand /\ cmd.name = "binlog" /\ cmd.mode # "restore") =>
        \A c \in Collections :
            LET b == KeyOf("binlog", c) IN
            (b \in Key) =>
                LogsOf(b) \subseteq LogsOf(b)' \union LogsOf(BackupKey(c))'
                                    \union FreshLogs(c)
  <1>1. BinlogInv /\ [Next]_vars => [Taken]_vars
    <2> SUFFICES ASSUME BinlogInv, [Next]_vars, OfCommand, TakingLogs,
                        NEW c \in Collections, KeyOf("binlog", c) \in Key
                 PROVE  LogsOf(KeyOf("binlog", c))
                            \subseteq LogsOf(KeyOf("binlog", c))'
                                      \union LogsOf(BackupKey(c))' \union FreshLogs(c)
      BY Zenon DEF TakingLogs
    <2> QED BY BinlogStep
  <1> QED BY <1>1, BinlogInvariance, PTL DEF Spec, LogsBackedUp
=============================================================================
