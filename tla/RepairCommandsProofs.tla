------------------------ MODULE RepairCommandsProofs ------------------------
(***************************************************************************)
(* The audit file of the commands built on the audited store is complete,  *)
(* but for the change that is being recorded, for every store, every       *)
(* invocation, whatever milvus does between two calls, whichever calls and *)
(* writes to the file fail, and wherever the process is killed.            *)
(*                                                                         *)
(* What makes it hold is the kind of calls that such a command ever has to *)
(* make: it removes by prefix only where no key is, and the other removals *)
(* carry a value that their key had. That is an invariant of todo, and     *)
(* After has to keep it for each of them. And no call is made before the   *)
(* pieces of the last one are out, so what is missing is what is pending.  *)
(***************************************************************************)
EXTENDS RepairCommands, SequenceFacts, FiniteSetTheorems

\* The values that keys have had, as pairs.
Held == {h \in Key \X UNION {Values(k) : k \in Key} : h[2] \in Values(h[1])}

\* A call whose change the audit file can show: it is to one key, and a
\* removal has a value from h to record.
OneKey(call, h) ==
    /\ call.do \in {"list", "load", "minio", "save", "remove", "remove-prefix"}
    /\ call.do = "remove" => <<call.key, call.val>> \in h /\ call.val # Absent
    /\ call.do = "remove-prefix" \/ call.as = "all" =>
           call.key \in {<<n>> : n \in QueryCoordNames}

CallsIn(s, h) == IsSeq(s) /\ \A call \in Elements(s) : OneKey(call, h)

\* What a load that succeeded gives back is a value of the key.
GoodRows(call, ok, rows, h) ==
    /\ IsSeq(rows)
    /\ call.do = "load" /\ ok =>
           <<call.key, rows[1].obj>> \in h /\ rows[1].obj # Absent

MemSeqs(m) ==
    /\ m = [t \in Tags |-> m[t]]
    /\ \A t \in {"binlogs", "statslogs", "loaded"} : IsSeq(m[t])

AuditInv ==
    /\ store = [k \in Key |-> store[k]] /\ ever = [k \in Key |-> ever[k]]
    /\ IsSeq(audit) /\ IsSeq(pend)
    /\ \A c \in made : c.key \in Key
    /\ out = "idle" => made = {} /\ pend = <<>> /\ MemSeqs(mem)
    /\ out # "idle" => cmd.name \in CommandNames
    /\ out # "idle" /\ FileAudited =>
           /\ CallsIn(todo, Held)
           /\ out = "running" => todo # <<>>
           /\ MemSeqs(mem)
           /\ \A k \in Key : store[k] \in Values(k)
           /\ \A c \in Missing : \E p \in Elements(pend) : Shows(p, c)
           /\ \A p, q \in Elements(pend) : p.op = "kv" /\ q.op = "kv" => p.key = q.key

-----------------------------------------------------------------------------
(* Calls. *)

LEMMA CallsOneKey ==
    ASSUME NEW h, NEW key, NEW val, NEW as,
           as = "all" => key \in {<<n>> : n \in QueryCoordNames}
    PROVE  /\ OneKey(Call("list", key, val, as), h)
           /\ OneKey(Call("load", key, val, as), h)
           /\ OneKey(Call("minio", key, val, as), h)
           /\ OneKey(Call("save", key, val, as), h)
           /\ <<key, val>> \in h /\ val # Absent => OneKey(Call("remove", key, val, as), h)
           /\ as = "all" => OneKey(Call("remove-prefix", key, val, as), h)
  BY DEF OneKey, Call

LEMMA SaveOneKey ==
    ASSUME NEW h, NEW key, NEW val
    PROVE  OneKey(Call("save", key, val, "put"), h)
  BY DEF OneKey, Call

\* More values only help.
LEMMA CallsGrow ==
    ASSUME NEW s, NEW h, NEW g, h \subseteq g, CallsIn(s, h)
    PROVE  CallsIn(s, g)
  BY DEF CallsIn, OneKey

LEMMA OneCall ==
    ASSUME NEW h, NEW call, OneKey(call, h)
    PROVE  CallsIn(<<call>>, h)
  BY OneElement DEF CallsIn

LEMMA NoCalls == ASSUME NEW h PROVE CallsIn(<<>>, h)
  BY EmptyElements DEF CallsIn

LEMMA ConcatCalls ==
    ASSUME NEW h, NEW s, NEW t, CallsIn(s, h), CallsIn(t, h)
    PROVE  CallsIn(s \o t, h)
  BY ConcatElements DEF CallsIn

LEMMA RestCalls ==
    ASSUME NEW h, CallsIn(todo, h), todo # <<>>
    PROVE  CallsIn(Rest, h) /\ OneKey(Head(todo), h)
  BY TailElements DEF CallsIn, Rest

\* Some of the calls.
LEMMA WhereCalls ==
    ASSUME NEW h, NEW s, CallsIn(s, h), NEW S
    PROVE  CallsIn(Filter(s, S), h)
  BY FilterIsSeq DEF CallsIn

\* Calls made one for each element of a sequence.
LEMMA MappedCalls ==
    ASSUME NEW h, NEW s, IsSeq(s), NEW f, f = [i \in DOMAIN s |-> f[i]],
           \A i \in DOMAIN s : OneKey(f[i], h)
    PROVE  CallsIn(f, h)
  BY MapElements DEF CallsIn

LEMMA FlatCalls ==
    ASSUME NEW h, NEW s, IsSeq(s), NEW f, f = [i \in DOMAIN s |-> f[i]],
           \A i \in DOMAIN s : CallsIn(f[i], h)
    PROVE  CallsIn(Flatten(f), h)
  <1>1. IsSeq(f) /\ Elements(f) = {f[i] : i \in DOMAIN s}
    BY MapElements
  <1>2. \A t \in Elements(f) : CallsIn(t, h)
    BY <1>1
  <1>3. /\ IsSeq(Flatten(f))
        /\ Elements(Flatten(f)) \subseteq UNION {Elements(t) : t \in Elements(f)}
    BY <1>1, <1>2, FlattenElements DEF CallsIn
  <1> QED BY <1>2, <1>3, Zenon DEF CallsIn

\* A listing is a sequence.
LEMMA ListIsSeq ==
    ASSUME NEW p
    PROVE  IsSeq(ListObj2Models(p))
  <1> DEFINE keys == LoadWithPrefix(p)
             vals == Unmarshalled(keys)
             rows == [i \in DOMAIN vals |-> [key |-> keys[i], obj |-> store[vals[i]]]]
  <1>1. IsSeq(KeyOrder)
    BY KeyOrderAssumption, SeqElements
  <1>2. IsSeq(keys)
    BY <1>1, FilterIsSeq DEF LoadWithPrefix, Where
  <1>3. IsSeq(vals)
    <2> HIDE DEF keys
    <2> QED BY <1>2, FilterIsSeq DEF Unmarshalled, Where
  <1>4. IsSeq(rows)
    <2> HIDE DEF keys, vals
    <2>1. rows = [i \in DOMAIN vals |-> rows[i]]
      OBVIOUS
    <2> HIDE DEF rows
    <2> QED BY <1>3, <2>1, MapElements
  <1> QED BY <1>4 DEF ListObj2Models

-----------------------------------------------------------------------------
(* What follows a call of an audited command. *)

LEMMA IndexCalls ==
    ASSUME NEW h, NEW rows, IsSeq(rows),
           cmd.name \in {"index_metric_type", "diskann_index_params"}
    PROVE  CallsIn(IndexWrites(rows), h)
  <1> DEFINE mine == Where(rows, LAMBDA m : /\ cmd.coll \in {"", m.obj.coll}
                                            /\ Repairable(m.obj))
             odd == Where(mine, LAMBDA m : Unnecessary(m.obj) # {})
             bad == Where(rows, LAMBDA m : /\ m.obj.coll = cmd.coll
                                           /\ MetricIn(m.obj.params) = {})
  <1>1. IsSeq(mine) /\ IsSeq(bad)
    BY FilterIsSeq DEF Where
  <1>2. IsSeq(odd)
    <2> HIDE DEF mine
    <2> QED BY <1>1, FilterIsSeq DEF Where
  <1>3. ASSUME cmd.name = "index_metric_type" PROVE CallsIn(IndexMetricWrites(rows), h)
    <2> DEFINE hopeless == {i \in DOMAIN bad : MetricIn(bad[i].obj.typeParams) = {}}
               upto == {i \in DOMAIN bad : \A j \in hopeless : i < j}
               firsts == SubSeq(bad, 1, Cardinality(upto))
               f == MapSeq(firsts, LAMBDA m : WriteRepairedIndex(IndexMetric(m.obj)))
    <2>1. f = IndexMetricWrites(rows)
      BY DEF IndexMetricWrites
    <2> HIDE DEF bad, hopeless
    <2>2. Cardinality(upto) \in Nat /\ Cardinality(upto) <= Len(bad)
      <3>1. Len(bad) \in Nat /\ DOMAIN bad = 1 .. Len(bad)
        BY <1>1, IsSeqFacts
      <3>2. upto \subseteq 1 .. Len(bad)
        BY <3>1
      <3> HIDE DEF upto
      <3>3. IsFiniteSet(1 .. Len(bad)) /\ Cardinality(1 .. Len(bad)) = Len(bad)
        <4>1. 1 \in Int /\ Len(bad) \in Int
          BY <3>1
        <4>2. /\ IsFiniteSet(1 .. Len(bad))
              /\ Cardinality(1 .. Len(bad)) = IF 1 > Len(bad) THEN 0 ELSE Len(bad) - 1 + 1
          BY <4>1, FS_Interval, Zenon
        <4> QED BY <3>1, <4>2
      <3>4. IsFiniteSet(upto) /\ Cardinality(upto) <= Cardinality(1 .. Len(bad))
        BY <3>2, <3>3, FS_Subset
      <3> QED BY <3>3, <3>4, FS_CardinalityType
    <2> HIDE DEF upto
    <2>3. IsSeq(firsts)
      <3>1. 1 \in Nat \ {0}
        OBVIOUS
      <3> QED BY <1>1, <2>2, <3>1, SubSeqElements, Zenon
    <2> HIDE DEF firsts
    <2>4. f = [i \in DOMAIN firsts |-> PutCall(IndexKey(IndexMetric(firsts[i].obj)),
                                               IndexMetric(firsts[i].obj))]
      BY DEF MapSeq, WriteRepairedIndex
    <2>5. f = [i \in DOMAIN firsts |-> f[i]] /\ \A i \in DOMAIN firsts : OneKey(f[i], h)
      <3> HIDE DEF f
      <3>1. f = [i \in DOMAIN firsts |-> f[i]]
        BY <2>4
      <3>2. \A i \in DOMAIN firsts :
                f[i] = Call("save", IndexKey(IndexMetric(firsts[i].obj)),
                            IndexMetric(firsts[i].obj), "put")
        BY <2>4 DEF PutCall
      <3> QED BY <3>1, <3>2, SaveOneKey
    <2> HIDE DEF f
    <2> QED BY <2>1, <2>3, <2>5, MappedCalls
  <1>4. ASSUME cmd.name = "diskann_index_params", cmd.run
        PROVE  CallsIn(IndexWrites(rows), h)
    <2> DEFINE f == MapSeq(odd, LAMBDA m : WriteRepairedIndex(DiskAnnIndexParams(m.obj)))
    <2>1. f = IndexWrites(rows)
      BY <1>4 DEF IndexWrites
    <2> HIDE DEF odd
    <2>2. f = [i \in DOMAIN odd |-> PutCall(IndexKey(DiskAnnIndexParams(odd[i].obj)),
                                            DiskAnnIndexParams(odd[i].obj))]
      BY DEF MapSeq, WriteRepairedIndex
    <2>3. f = [i \in DOMAIN odd |-> f[i]] /\ \A i \in DOMAIN odd : OneKey(f[i], h)
      <3> HIDE DEF f
      <3>1. f = [i \in DOMAIN odd |-> f[i]]
        BY <2>2
      <3>2. \A i \in DOMAIN odd :
                f[i] = Call("save", IndexKey(DiskAnnIndexParams(odd[i].obj)),
                            DiskAnnIndexParams(odd[i].obj), "put")
        BY <2>2 DEF PutCall
      <3> QED BY <3>1, <3>2, SaveOneKey
    <2> HIDE DEF f
    <2> QED BY <1>2, <2>1, <2>3, MappedCalls
  <1> HIDE DEF mine, odd, bad
  <1> QED BY <1>3, <1>4, NoCalls DEF IndexWrites

LEMMA LazyCalls ==
    ASSUME NEW h, NEW s
    PROVE  CallsIn(LazyLoad(s), h)
  <1> DEFINE kinds == <<"binlog", "statslog", "deltalog">>
             f == LazyLoad(s)
  <1>1. IsSeq(kinds)
    BY DEF IsSeq, Elements
  <1>2. f = [i \in DOMAIN kinds |-> Call("list", LogPrefix(kinds[i], s), s, kinds[i])]
    BY DEF LazyLoad, MapSeq, ListFor
  <1>3. \A i \in DOMAIN kinds : kinds[i] # "all"
    OBVIOUS
  <1> HIDE DEF kinds, f
  <1>4. /\ f = [i \in DOMAIN kinds |-> f[i]]
        /\ \A i \in DOMAIN kinds : OneKey(f[i], h)
    BY <1>2, <1>3, CallsOneKey
  <1> QED BY <1>1, <1>4, MappedCalls DEF f

LEMMA RemovalCall ==
    ASSUME opened, NEW h, NEW key
    PROVE  OneKey(Removal(key), h)
  BY CallsOneKey DEF Removal

LEMMA LostCalls ==
    ASSUME opened, NEW h, NEW rows, IsSeq(rows), NEW kind, NEW s
    PROVE  CallsIn(LostPaths(kind, s, rows), h)
  <1> DEFINE lost == Where(rows, LAMBDA m : cmd.run /\ m.obj.files > 0
                               /\ <<s.id, kind>> \in DroppedObjects)
             f == LostPaths(kind, s, rows)
  <1>1. IsSeq(lost)
    BY FilterIsSeq DEF Where
  <1>2. f = MapSeq(lost, LAMBDA m : Removal(ObjectPath(kind, s, m.obj)))
    BY DEF LostPaths
  <1> HIDE DEF lost, f
  <1>3. f = [i \in DOMAIN lost |-> Removal(ObjectPath(kind, s, lost[i].obj))]
    BY <1>2 DEF MapSeq
  <1>4. f = [i \in DOMAIN lost |-> f[i]] /\ \A i \in DOMAIN lost : OneKey(f[i], h)
    BY <1>3, RemovalCall
  <1> QED BY <1>1, <1>4, MappedCalls DEF f

LEMMA LoadedCalls ==
    ASSUME NEW h, CallsIn(todo, h), todo # <<>>, NEW rows,
           Head(todo).do = "load", GoodRows(Head(todo), TRUE, rows, h)
    PROVE  CallsIn(Loaded(Head(todo), rows), h)
  <1> DEFINE remove == Call("remove", Head(todo).key, rows[1].obj, "removed")
  <1>1. OneKey(remove, h)
    BY CallsOneKey DEF GoodRows
  <1>2. CallsIn(Rest, h)
    BY RestCalls
  <1> HIDE DEF remove
  <1>3. CallsIn(<<remove>>, h)
    BY <1>1, OneCall
  <1>4. CallsIn(<<remove>> \o Rest, h)
    BY <1>2, <1>3, ConcatCalls
  <1> QED BY <1>4 DEF Loaded, remove

LEMMA VerifyCalls ==
    ASSUME opened, MemSeqs(mem), NEW h, CallsIn(todo, h), todo # <<>>,
           NEW rows, NEW ok \in BOOLEAN, GoodRows(Head(todo), ok, rows, h)
    PROVE  /\ CallsIn(VerifySegment(Head(todo), ok, rows).todo, h)
           /\ MemSeqs(VerifySegment(Head(todo), ok, rows).mem)
  <1> DEFINE call == Head(todo)
             flushed == Where(rows, LAMBDA m : m.obj.coll = cmd.coll
                                               /\ m.obj.state = "Flushed")
             fills == MapSeq(flushed, LAMBDA m : LazyLoad(m.obj))
             minio == <<Call("minio", <<"minio">>, Absent, "minio")>>
             binlogs == LostPaths("binlog", call.val, mem["binlogs"])
             statslogs == LostPaths("statslog", call.val, mem["statslogs"])
             deltalogs == LostPaths("deltalog", call.val, rows)
             next == VerifySegment(call, ok, rows)
  <1>0. CallsIn(Rest, h) /\ IsSeq(rows)
    BY RestCalls DEF GoodRows
  <1>1. IsSeq(flushed)
    BY <1>0, FilterIsSeq DEF Where
  <1>2. CallsIn(minio \o Flatten(fills), h)
    <2> HIDE DEF flushed
    <2>1. fills = [i \in DOMAIN flushed |-> LazyLoad(flushed[i].obj)]
      BY DEF MapSeq
    <2>2. /\ fills = [i \in DOMAIN flushed |-> fills[i]]
          /\ \A i \in DOMAIN flushed : CallsIn(fills[i], h)
      <3> HIDE DEF fills
      <3> QED BY <2>1, LazyCalls
    <2>3. CallsIn(minio, h)
      BY CallsOneKey, OneCall
    <2> HIDE DEF fills, minio
    <2>4. CallsIn(Flatten(fills), h)
      BY <1>1, <2>2, FlatCalls
    <2> QED BY <2>3, <2>4, ConcatCalls
  <1>3. CallsIn(AfterFill(call), h)
    BY <1>0, WhereCalls DEF AfterFill, Where
  <1>4. CallsIn(binlogs \o statslogs \o deltalogs \o Rest, h)
    <2>1. CallsIn(binlogs, h) /\ CallsIn(statslogs, h) /\ CallsIn(deltalogs, h)
      <3>1. IsSeq(mem["binlogs"]) /\ IsSeq(mem["statslogs"])
        BY DEF MemSeqs
      <3> QED BY <1>0, <3>1, LostCalls
    <2> HIDE DEF binlogs, statslogs, deltalogs
    <2>2. CallsIn(binlogs \o statslogs, h)
      BY <2>1, ConcatCalls
    <2>3. CallsIn(binlogs \o statslogs \o deltalogs, h)
      BY <2>1, <2>2, ConcatCalls
    <2> QED BY <1>0, <2>3, ConcatCalls
  <1>5. call.do = "load" /\ ok => CallsIn(Loaded(call, rows), h)
    <2> SUFFICES ASSUME call.do = "load", ok PROVE CallsIn(Loaded(call, rows), h)
      OBVIOUS
    <2>1. GoodRows(call, TRUE, rows, h)
      BY DEF GoodRows
    <2> QED BY <2>1, LoadedCalls
  <1>6. /\ \/ next.todo \in {<<>>, minio \o Flatten(fills), AfterFill(call), Rest,
                              binlogs \o statslogs \o deltalogs \o Rest}
           \/ call.do = "load" /\ ok /\ next.todo = Loaded(call, rows)
        /\ next.mem \in {mem, Remember("binlogs", rows), Remember("statslogs", rows)}
    BY DEF VerifySegment, Go, Return
  <1>7. MemSeqs(Remember("binlogs", rows)) /\ MemSeqs(Remember("statslogs", rows))
    BY <1>0 DEF MemSeqs, Remember, Tags
  <1> HIDE DEF fills, minio, binlogs, statslogs, deltalogs, call, next
  <1> QED BY <1>0, <1>2, <1>3, <1>4, <1>5, <1>6, <1>7, NoCalls DEF call, next

LEMMA ReleaseCalls ==
    ASSUME opened, MemSeqs(mem), NEW h, CallsIn(todo, h), todo # <<>>,
           NEW rows, NEW ok \in BOOLEAN, GoodRows(Head(todo), ok, rows, h)
    PROVE  /\ CallsIn(ForceRelease(Head(todo), ok, rows).todo, h)
           /\ MemSeqs(ForceRelease(Head(todo), ok, rows).mem)
  <1> DEFINE call == Head(todo)
             mine == Where(rows, LAMBDA m : m.obj.coll = cmd.coll)
             all == mem["loaded"] \o mine
             f == MapSeq(all, LAMBDA m : Removal(m.key))
             prefix == <<Call("remove-prefix", call.key, Absent, "all")>>
             next == ForceRelease(call, ok, rows)
  <1>0. CallsIn(Rest, h) /\ IsSeq(rows)
    BY RestCalls DEF GoodRows
  <1>1. IsSeq(mine)
    BY <1>0, FilterIsSeq DEF Where
  <1>2. CallsIn(f, h)
    <2> HIDE DEF mine
    <2>1. IsSeq(all)
      BY <1>1, ConcatElements DEF MemSeqs
    <2> HIDE DEF all
    <2>2. f = [i \in DOMAIN all |-> Removal(all[i].key)]
      BY DEF MapSeq
    <2>3. f = [i \in DOMAIN all |-> f[i]] /\ \A i \in DOMAIN all : OneKey(f[i], h)
      <3> HIDE DEF f
      <3> QED BY <2>2, RemovalCall
    <2> HIDE DEF f
    <2> QED BY <2>1, <2>3, MappedCalls
  <1>3. call.as = "all" => CallsIn(prefix \o Rest, h)
    <2> SUFFICES ASSUME call.as = "all" PROVE CallsIn(prefix \o Rest, h)
      OBVIOUS
    <2>1. call.key \in {<<n>> : n \in QueryCoordNames}
      BY RestCalls DEF OneKey
    <2>2. CallsIn(prefix, h)
      BY <2>1, CallsOneKey, OneCall
    <2> HIDE DEF prefix
    <2> QED BY <1>0, <2>2, ConcatCalls
  <1>4. call.do = "load" /\ ok => CallsIn(Loaded(call, rows), h)
    <2> SUFFICES ASSUME call.do = "load", ok PROVE CallsIn(Loaded(call, rows), h)
      OBVIOUS
    <2>1. GoodRows(call, TRUE, rows, h)
      BY DEF GoodRows
    <2> QED BY <2>1, LoadedCalls
  <1>5. /\ \/ next.todo \in {<<>>, Rest, f}
           \/ call.as = "all" /\ next.todo = prefix \o Rest
           \/ call.do = "load" /\ ok /\ next.todo = Loaded(call, rows)
        /\ next.mem \in {mem, Remember("loaded", mine)}
    <2> HIDE DEF mine
    <2> QED BY DEF ForceRelease, Go, Return, mine
  <1>6. MemSeqs(Remember("loaded", mine))
    <2> HIDE DEF mine
    <2> QED BY <1>1 DEF MemSeqs, Remember, Tags
  <1> HIDE DEF mine, f, prefix, call, next
  <1> QED BY <1>0, <1>2, <1>3, <1>4, <1>5, <1>6, NoCalls DEF call, next

-----------------------------------------------------------------------------
(* A command that began has not begun again. *)

Begun(next) == next.out \in {"running", "done", "panic"}

LEMMA GoBegun ==
    ASSUME NEW calls, NEW m
    PROVE  Begun(Go(calls, m)) /\ Begun(Return(m)) /\ Begun(Panic(m))
  BY DEF Begun, Go, Return, Panic

LEMMA AfterBegun ==
    ASSUME NEW call, NEW ok, NEW rows, cmd.name \in CommandNames
    PROVE  Begun(After(call, ok, rows))
  <1>1. Begun(EmptySegment(call, ok, rows))
    BY GoBegun DEF EmptySegment, RemoveIfEmpty
  <1>2. Begun(MixedBinlogs(call, ok, rows))
    BY GoBegun DEF MixedBinlogs
  <1>3. Begun(VerifySegment(call, ok, rows))
    BY GoBegun DEF VerifySegment
  <1>4. Begun(SegmentPartDrop(call, ok, rows))
    BY GoBegun DEF SegmentPartDrop
  <1>5. Begun(ChannelWatched(call, ok, rows))
    BY GoBegun DEF ChannelWatched
  <1>6. Begun(RepairCheckpoint(call, ok, rows))
    BY GoBegun DEF RepairCheckpoint
  <1>7. Begun(CollectionLegacyDropped(call, ok, rows))
    BY GoBegun DEF CollectionLegacyDropped
  <1>8. Begun(CollectionConsistencyLevel(call, ok, rows))
    BY GoBegun DEF CollectionConsistencyLevel, UpdateCollection
  <1>9. Begun(CollectionInfo(call, ok, rows))
    BY GoBegun DEF CollectionInfo, SaveInfo
  <1>10. Begun(IndexRepair(call, ok, rows))
    BY GoBegun DEF IndexRepair
  <1>11. Begun(WALBroadcastTask(call, ok, rows))
    BY GoBegun DEF WALBroadcastTask
  <1>12. Begun(WALRecoveryStorage(call, ok, rows))
    BY GoBegun DEF WALRecoveryStorage
  <1>13. Begun(ManualCompaction(call, ok, rows))
    BY GoBegun DEF ManualCompaction
  <1>14. Begun(RepairChannel(call, ok, rows))
    BY GoBegun DEF RepairChannel
  <1>15. Begun(FieldAttr(call, ok, rows))
    BY GoBegun DEF FieldAttr
  <1>16. Begun(Return(mem))
    BY GoBegun
  <1>17. Begun(ForceRelease(call, ok, rows))
    BY GoBegun DEF ForceRelease
  <1> QED BY <1>1, <1>2, <1>3, <1>4, <1>5, <1>6, <1>7, <1>8, <1>9, <1>10, <1>11, <1>12, <1>13, <1>14, <1>15, <1>16, <1>17 DEF After, CommandNames

LEMMA AfterCalls ==
    ASSUME FileAudited, MemSeqs(mem), NEW h, CallsIn(todo, h), todo # <<>>, NEW rows,
           NEW ok \in BOOLEAN, GoodRows(Head(todo), ok, rows, h)
    PROVE  /\ CallsIn(After(Head(todo), ok, rows).todo, h)
           /\ MemSeqs(After(Head(todo), ok, rows).mem)
  <1> DEFINE call == Head(todo)
  <1>0. opened /\ IsSeq(rows)
    BY DEF FileAudited, GoodRows
  <1>1. CASE cmd.name = "verify-segment"
    <2>1. After(call, ok, rows) = VerifySegment(call, ok, rows)
      BY <1>1 DEF After
    <2> QED BY <1>0, <2>1, VerifyCalls
  <1>2. CASE cmd.name \in {"index_metric_type", "diskann_index_params"}
    <2>1. After(call, ok, rows) = IndexRepair(call, ok, rows)
      BY <1>2 DEF After
    <2>2. CallsIn(IndexWrites(rows), h) /\ CallsIn(Rest, h)
      BY <1>0, <1>2, IndexCalls, RestCalls
    <2>3. /\ IndexRepair(call, ok, rows).todo \in {<<>>, IndexWrites(rows), Rest}
          /\ IndexRepair(call, ok, rows).mem = mem
      BY DEF IndexRepair, Go, Return
    <2> QED BY <2>1, <2>2, <2>3, NoCalls
  <1>3. CASE cmd.name = "config-etcd"
    <2>1. After(call, ok, rows) = Return(mem)
      BY <1>3 DEF After
    <2> QED BY <2>1, NoCalls DEF Return
  <1>4. CASE cmd.name = "force-release"
    <2>1. After(call, ok, rows) = ForceRelease(call, ok, rows)
      BY <1>4 DEF After
    <2> QED BY <1>0, <2>1, ReleaseCalls
  <1> QED BY <1>1, <1>2, <1>3, <1>4 DEF FileAudited, Audited

-----------------------------------------------------------------------------
(* The audit file. *)

LEMMA AppendElements ==
    ASSUME NEW s, IsSeq(s), NEW x
    PROVE  IsSeq(Append(s, x)) /\ Elements(Append(s, x)) = Elements(s) \cup {x}
  <1>1. Append(s, x) = s \o <<x>>
    BY DEF IsSeq
  <1> QED BY <1>1, OneElement, ConcatElements

\* The pieces of a call record its key alone, and a change that succeeded.
LEMMA PiecesOfCall ==
    ASSUME NEW call, NEW ok \in BOOLEAN
    PROVE  /\ IsSeq(Pieces(call, ok))
           /\ \A p \in Elements(Pieces(call, ok)) : p.op = "kv" => p.key = call.key
           /\ FileAudited /\ ok /\ (call.do = "save" \/ call.do = "remove") =>
                  Record(call) \in Elements(Pieces(call, ok))
  <1> DEFINE saved == <<Header("before"), Record(call), Header("after")>>
             removed == <<Header("delete"), Record(call)>>
  <1>1. /\ Header("before").op = "before" /\ Header("after").op = "after"
        /\ Header("delete").op = "delete" /\ Record(call).key = call.key
    BY DEF Header, Record
  <1>2. /\ IsSeq(saved) /\ IsSeq(removed)
        /\ Elements(saved) = {Header("before"), Record(call), Header("after")}
        /\ Elements(removed) = {Header("delete"), Record(call)}
    BY DEF IsSeq, Elements
  <1>3. /\ IsSeq(<<>>) /\ Elements(<<>>) = {}
        /\ IsSeq(<<Header("after")>>) /\ Elements(<<Header("after")>>) = {Header("after")}
        /\ IsSeq(<<Header("delete")>>)
        /\ Elements(<<Header("delete")>>) = {Header("delete")}
    BY OneElement, EmptyElements
  <1>4. Pieces(call, ok) \in {<<>>, saved, removed, <<Header("after")>>, <<Header("delete")>>}
    BY DEF Pieces
  <1>5. FileAudited /\ ok /\ (call.do = "save" \/ call.do = "remove") =>
            Pieces(call, ok) \in {saved, removed}
    BY DEF Pieces, Writes
  <1> HIDE DEF saved, removed
  <1> QED BY <1>1, <1>2, <1>3, <1>4, <1>5

\* What has been recorded stays so, as the file and the values of the keys grow.
LEMMA RecordsGrow ==
    ASSUME Elements(audit) \subseteq Elements(audit)',
           \A k : Values(k) \subseteq Values(k)'
    PROVE  /\ \A c, p : Shows(p, c) => Shows(p, c)'
           /\ \A c : Recorded(c) => Recorded(c)'
  <1>1. \A c, p : Shows(p, c) => Shows(p, c)'
    BY DEF Shows
  <1> QED BY <1>1 DEF Recorded

-----------------------------------------------------------------------------
(* What one write changes. *)

LEMMA SaveChanges ==
    ASSUME store = [k \in Key |-> store[k]], NEW key, NEW val
    PROVE  /\ Save(store, key, val) = [k \in Key |-> Save(store, key, val)[k]]
           /\ \A c \in Difference(store, Save(store, key, val)) :
                  c.key = key /\ c.new = val
  <1>1. \A k \in Key : /\ k # key => Save(store, key, val)[k] = store[k]
                       /\ k = key => Save(store, key, val)[k] = val
    BY DEF Save
  <1>2. Save(store, key, val) = [k \in Key |-> Save(store, key, val)[k]]
    BY DEF Save
  <1> QED BY <1>1, <1>2 DEF Difference

\* A one-component key with a component after it has two, the first unchanged.
LEMMA TwoComponents ==
    ASSUME NEW n, NEW e
    PROVE  Len(Append(<<n>>, e)) = 2 /\ Append(<<n>>, e)[1] = n
  <1> DEFINE S == {n, e}
  <1>1. <<n>> \in Seq(S) /\ e \in S /\ Len(<<n>>) = 1 /\ <<n>>[1] = n
    OBVIOUS
  <1> QED BY <1>1, AppendProperties

\* A save or a removal changes its own key; force-release --all changes nothing.
LEMMA OneChange ==
    ASSUME store = [k \in Key |-> store[k]], NEW call, NEW h, OneKey(call, h),
           call.do \in Writes, NEW c \in Difference(store, Applied(call))
    PROVE  /\ c.key = call.key
           /\ \/ call.do = "save" /\ c.new = call.val
              \/ call.do = "remove" /\ c.new = Absent
  <1>1. CASE call.do = "save"
    <2>1. Applied(call) = Save(store, call.key, call.val)
      BY <1>1 DEF Applied
    <2>2. c.key = call.key /\ c.new = call.val
      <3>1. c \in Difference(store, Save(store, call.key, call.val))
        BY <2>1
      <3> QED BY <3>1, SaveChanges
    <2> QED BY <1>1, <2>2
  <1>2. CASE call.do = "remove"
    <2>1. Applied(call) = Save(store, call.key, Absent)
      BY <1>2 DEF Applied, Remove
    <2>2. c.key = call.key /\ c.new = Absent
      BY <2>1, SaveChanges
    <2> QED BY <1>2, <2>2
  <1>3. CASE call.do = "remove-prefix"
    <2>1. PICK n \in QueryCoordNames : call.key = <<n>>
      BY <1>3 DEF OneKey
    <2>2. n # Empty
      BY DEF QueryCoordNames, Empty
    <2>3. Len(Slashed(call.key)) = 2 /\ Slashed(call.key)[1] = n
      <3>1. ~HasSlash(call.key)
        BY <2>1, <2>2 DEF HasSlash
      <3>2. Slashed(call.key) = Append(<<n>>, Empty)
        BY <2>1, <3>1 DEF Slashed, Join
      <3> HIDE DEF Empty
      <3> QED BY <3>2, TwoComponents
    <2>4. \A k \in Key : ~HasPrefix(k, Slashed(call.key))
      <3> SUFFICES ASSUME NEW k \in Key, HasPrefix(k, Slashed(call.key)) PROVE FALSE
        OBVIOUS
      <3>1. k[1] = n
        <4> HIDE DEF Slashed
        <4> QED BY <2>3 DEF HasPrefix
      <3> QED BY <3>1, QueryCoordAssumption
    <2>5. Applied(call) = [k \in Key |-> store[k]]
      <3>1. DOMAIN store = Key
        OBVIOUS
      <3> HIDE DEF Slashed
      <3> QED BY <1>3, <2>4, <3>1 DEF Applied, RemoveWithPrefix
    <2>6. Difference(store, Applied(call)) = {}
      BY <2>5 DEF Difference
    <2> QED BY <2>6
  <1> QED BY <1>1, <1>2, <1>3 DEF Writes

LEMMA ChangedKeys == \A c \in Difference(store, store') : c.key \in Key
  BY DEF Difference

\* Whatever the call, the store keeps its keys.
LEMMA AppliedKeeps ==
    ASSUME store = [k \in Key |-> store[k]], NEW call
    PROVE  Applied(call) = [k \in Key |-> Applied(call)[k]]
  <1>1. ASSUME NEW k, NEW v PROVE Save(store, k, v) = [j \in Key |-> Save(store, k, v)[j]]
    BY DEF Save
  <1>2. DOMAIN store = Key
    OBVIOUS
  <1>3. RemoveWithPrefix(store, call.key) = [j \in Key |-> RemoveWithPrefix(store, call.key)[j]]
    BY <1>2 DEF RemoveWithPrefix
  <1> QED BY <1>1, <1>3 DEF Applied, Remove

-----------------------------------------------------------------------------
(* The invariant. *)

LEMMA AuditInit == Init => AuditInv
  <1> SUFFICES ASSUME Init PROVE AuditInv
    OBVIOUS
  <1>1. store = [k \in Key |-> store[k]] /\ ever = [k \in Key |-> ever[k]]
    BY StoresAssumption DEF Init
  <1>2. IsSeq(audit) /\ IsSeq(pend)
    BY EmptyElements DEF Init
  <1>3. out = "idle" /\ made = {} /\ pend = <<>>
    BY DEF Init
  <1>4. MemSeqs(mem)
    BY EmptyElements DEF Init, MemSeqs, Tags
  <1> QED BY <1>1, <1>2, <1>3, <1>4 DEF AuditInv

\* Values are never forgotten.
LEMMA ValuesGrow ==
    ASSUME \A k : ever[k] \subseteq ever'[k], made \subseteq made'
    PROVE  \A k : Values(k) \subseteq Values(k)'
  BY DEF Values

LEMMA HeldGrows ==
    ASSUME \A k : Values(k) \subseteq Values(k)'
    PROVE  Held \subseteq Held'
  BY DEF Held

\* The changes that are missing stay so only if nothing shows them.
LEMMA MissingShrinks ==
    ASSUME made' \ unsure' \subseteq made \ unsure, skipped \subseteq skipped',
           \A c : Recorded(c) => Recorded(c)'
    PROVE  Missing' \subseteq Missing
  BY DEF Missing

\* When nothing is pending nothing is missing.
LEMMA NothingMissing ==
    ASSUME AuditInv, out # "idle", FileAudited, pend = <<>>
    PROVE  Missing = {}
  BY EmptyElements DEF AuditInv

\* A call of a running command and what follows it: nothing was missing before.
LEMMA CallKeeps ==
    ASSUME AuditInv, out = "running", NEW ok \in BOOLEAN, NEW rows,
           FileAudited => GoodRows(Head(todo), ok, rows, Held),
           Proceed(Head(todo), ok, rows)
    PROVE  /\ IsSeq(audit') /\ IsSeq(pend') /\ cmd' = cmd
           /\ audit' = audit /\ skipped' = skipped
           /\ out' # "idle" /\ cmd'.name \in CommandNames
           /\ FileAudited' <=> FileAudited
           /\ FileAudited =>
                 /\ OneKey(Head(todo), Held) /\ CallsIn(todo', Held)
                 /\ MemSeqs(mem')
                 /\ out' = "running" => todo' # <<>>
                 /\ \A p \in Elements(pend') : p.op = "kv" => p.key = Head(todo).key
                 /\ ok /\ (Head(todo).do = "save" \/ Head(todo).do = "remove") =>
                        Record(Head(todo)) \in Elements(pend')
  <1> DEFINE call == Head(todo)
             next == After(call, ok, rows)
  <1>1. /\ IsSeq(audit) /\ cmd.name \in CommandNames
        /\ FileAudited => CallsIn(todo, Held) /\ todo # <<>> /\ MemSeqs(mem)
    BY DEF AuditInv
  <1>2. /\ todo' = next.todo /\ mem' = next.mem /\ pend' = Pieces(call, ok)
        /\ out' = IF next.todo = <<>> /\ next.out = "running" THEN "done" ELSE next.out
        /\ cmd' = cmd /\ opened' = opened /\ audit' = audit /\ skipped' = skipped
    BY DEF Proceed
  <1>3. next.out \in {"running", "done", "panic"}
    BY <1>1, AfterBegun DEF Begun
  <1>4. FileAudited => CallsIn(next.todo, Held) /\ OneKey(call, Held) /\ MemSeqs(next.mem)
    BY <1>1, AfterCalls, RestCalls
  <1> HIDE DEF next
  <1>5. out' # "idle" /\ (out' = "running" => todo' # <<>>)
    BY <1>2, <1>3
  <1>6. FileAudited' <=> FileAudited
    BY <1>2 DEF FileAudited, Audited
  <1> HIDE DEF call
  <1>7. /\ IsSeq(pend')
        /\ \A p \in Elements(pend') : p.op = "kv" => p.key = call.key
        /\ FileAudited /\ ok /\ (call.do = "save" \/ call.do = "remove") =>
               Record(call) \in Elements(pend')
    BY <1>2, PiecesOfCall
  <1> QED BY <1>1, <1>2, <1>4, <1>5, <1>6, <1>7, Zenon DEF call

\* A step that leaves the history of the changes alone.
LEMMA ReadKeeps ==
    ASSUME AuditInv, out = "running", pend = <<>>, NEW ok \in BOOLEAN, NEW rows,
           FileAudited => GoodRows(Head(todo), ok, rows, Held),
           Proceed(Head(todo), ok, rows),
           store' = store, ever' = ever, made' = made, unsure' = unsure
    PROVE  AuditInv'
  <1> DEFINE call == Head(todo)
  <1>1. /\ IsSeq(audit') /\ IsSeq(pend') /\ audit' = audit /\ skipped' = skipped
        /\ out' # "idle" /\ cmd'.name \in CommandNames
        /\ FileAudited' <=> FileAudited
        /\ FileAudited =>
              /\ CallsIn(todo', Held) /\ MemSeqs(mem')
              /\ out' = "running" => todo' # <<>>
              /\ \A p \in Elements(pend') : p.op = "kv" => p.key = call.key
    BY CallKeeps, Zenon
  <1>2. \A k : Values(k)' = Values(k)
    BY DEF Values
  <1>3. Held' = Held
    BY <1>2 DEF Held
  <1>4. FileAudited => Missing' = {}
    <2>1. \A c : Recorded(c) => Recorded(c)'
      BY <1>1, <1>2, RecordsGrow
    <2> QED BY <1>1, <2>1, MissingShrinks, NothingMissing
  <1>5. /\ store' = [k \in Key |-> store'[k]] /\ ever' = [k \in Key |-> ever'[k]]
        /\ \A c \in made' : c.key \in Key
        /\ FileAudited => \A k \in Key : store'[k] \in Values(k)'
    BY <1>2 DEF AuditInv
  <1> HIDE DEF call
  <1>6. FileAudited => \A p, q \in Elements(pend') :
                           p.op = "kv" /\ q.op = "kv" => p.key = q.key
    BY <1>1
  <1>7. FileAudited => \A c \in Missing' : \E p \in Elements(pend') : Shows(p, c)'
    BY <1>4
  <1> QED BY <1>1, <1>3, <1>5, <1>6, <1>7, Zenon DEF AuditInv

\* The changes of a call and the values of the keys after it.
LEMMA ChangeKeeps ==
    ASSUME AuditInv, out = "running", NEW t, t = [k \in Key |-> t[k]], store' = t,
           made' = made \cup Difference(store, store'), ever' = ever
    PROVE  /\ \A k : Values(k) \subseteq Values(k)'
           /\ FileAudited => \A k \in Key : store'[k] \in Values(k)'
  <1>1. \A k : Values(k) \subseteq Values(k)'
    BY DEF Values
  <1>2. ASSUME FileAudited, NEW k \in Key PROVE store'[k] \in Values(k)'
    <2>1. CASE store'[k] = store[k]
      BY <1>1, <1>2, <2>1 DEF AuditInv
    <2>2. CASE store'[k] # store[k]
      <3> DEFINE d == [key |-> k, old |-> store[k], new |-> store'[k]]
      <3>1. d \in Difference(store, store')
        BY <2>2 DEF Difference
      <3>2. d \in made' /\ d.key = k /\ d.new = store'[k]
        BY <3>1
      <3> QED BY <3>2 DEF Values
    <2> QED BY <2>1, <2>2
  <1> QED BY <1>1, <1>2

LEMMA WriteKeeps ==
    ASSUME AuditInv, WriteStore
    PROVE  AuditInv'
  <1> DEFINE call == Head(todo)
  <1>1. /\ out = "running" /\ pend = <<>> /\ call.do \in Writes
        /\ Proceed(call, TRUE, <<>>)
        /\ store' = Applied(call) /\ unsure' = unsure /\ ever' = ever
        /\ made' = made \cup Difference(store, store')
    BY DEF WriteStore, Calling
  <1>2. GoodRows(call, TRUE, <<>>, Held)
    BY <1>1, EmptyElements DEF GoodRows, Writes
  <1>3. /\ IsSeq(audit') /\ IsSeq(pend') /\ audit' = audit /\ skipped' = skipped
        /\ out' # "idle" /\ cmd'.name \in CommandNames
        /\ FileAudited' <=> FileAudited
        /\ FileAudited =>
              /\ OneKey(call, Held) /\ CallsIn(todo', Held) /\ MemSeqs(mem')
              /\ out' = "running" => todo' # <<>>
              /\ \A p \in Elements(pend') : p.op = "kv" => p.key = call.key
              /\ call.do = "save" \/ call.do = "remove" => Record(call) \in Elements(pend')
    BY <1>1, <1>2, CallKeeps, Zenon
  <1> HIDE DEF call
  <1>4. /\ store' = [k \in Key |-> store'[k]] /\ ever' = [k \in Key |-> ever'[k]]
        /\ \A c \in made' : c.key \in Key
    <2>1. /\ store = [k \in Key |-> store[k]] /\ ever = [k \in Key |-> ever[k]]
          /\ \A c \in made : c.key \in Key
      BY DEF AuditInv
    <2>2. \A c \in made' : c.key \in Key
      BY <1>1, <2>1, ChangedKeys
    <2> QED BY <1>1, <2>1, <2>2, AppliedKeeps
  <1>5. /\ \A k : Values(k) \subseteq Values(k)'
        /\ FileAudited => \A k \in Key : store'[k] \in Values(k)'
    BY <1>1, <1>4, ChangeKeeps
  <1>6. Held \subseteq Held'
    BY <1>5, HeldGrows
  <1>7. ASSUME FileAudited, NEW c \in Missing'
        PROVE  \E p \in Elements(pend') : Shows(p, c)'
    <2>1. c \in Difference(store, Applied(call))
      <3>1. c \notin made
        <4> SUFFICES ASSUME c \in made PROVE FALSE
          OBVIOUS
        <4>1. c \notin Missing
          BY <1>1, <1>7, NothingMissing
        <4>2. Recorded(c) \/ c.key \in skipped
          BY <1>1, <1>7, <4>1 DEF Missing
        <4>3. Recorded(c) => Recorded(c)'
          BY <1>3, <1>5, RecordsGrow
        <4> QED BY <1>3, <1>7, <4>2, <4>3 DEF Missing
      <3>2. c \in made'
        BY <1>7 DEF Missing
      <3> QED BY <1>1, <3>1, <3>2
    <2>2. /\ c.key = call.key
          /\ \/ call.do = "save" /\ c.new = call.val
             \/ call.do = "remove" /\ c.new = Absent
      <3>1. store = [k \in Key |-> store[k]]
        BY DEF AuditInv
      <3> QED BY <1>1, <1>3, <1>7, <2>1, <3>1, OneChange
    <2>3. /\ Record(call) \in Elements(pend')
          /\ Record(call).op = "kv" /\ Record(call).key = c.key
          /\ Record(call).val = call.val
      BY <1>3, <1>7, <2>2 DEF Record
    <2>4. \/ call.val = c.new
          \/ c.new = Absent /\ call.val \in Values(c.key) /\ call.val # Absent
      <3>1. call.do = "remove" => <<call.key, call.val>> \in Held /\ call.val # Absent
        BY <1>3, <1>7 DEF OneKey
      <3>2. call.do = "remove" => call.val \in Values(call.key)
        BY <3>1 DEF Held
      <3> QED BY <2>2, <3>1, <3>2
    <2>5. PICK p \in Elements(pend') :
              /\ p.op = "kv" /\ p.key = c.key
              /\ \/ p.val = c.new
                 \/ c.new = Absent /\ p.val \in Values(c.key) /\ p.val # Absent
      BY <2>3, <2>4
    <2>6. Shows(p, c)'
      BY <1>5, <2>5 DEF Shows
    <2> QED BY <2>6
  <1>8. FileAudited => CallsIn(todo', Held')
    BY <1>3, <1>6, CallsGrow
  <1>9. FileAudited => \A p, q \in Elements(pend') :
                           p.op = "kv" /\ q.op = "kv" => p.key = q.key
    BY <1>3
  <1> QED BY <1>3, <1>4, <1>5, <1>7, <1>8, <1>9, Zenon DEF AuditInv

\* The changes of a call that fails are unsure.
LEMMA FailureKeeps ==
    ASSUME AuditInv, NEW reached \in BOOLEAN, CallFails(reached)
    PROVE  AuditInv'
  <1> DEFINE call == Head(todo)
  <1>1. /\ out = "running" /\ pend = <<>> /\ Proceed(call, FALSE, <<>>)
        /\ store' = IF reached THEN Applied(call) ELSE store
        /\ ever' = ever /\ unsure' = unsure \cup Difference(store, store')
        /\ made' = made \cup Difference(store, store')
    BY DEF CallFails, Calling
  <1>2. GoodRows(call, FALSE, <<>>, Held)
    BY EmptyElements DEF GoodRows
  <1>3. /\ IsSeq(audit') /\ IsSeq(pend') /\ audit' = audit /\ skipped' = skipped
        /\ out' # "idle" /\ cmd'.name \in CommandNames
        /\ FileAudited' <=> FileAudited
        /\ FileAudited =>
              /\ CallsIn(todo', Held) /\ MemSeqs(mem')
              /\ out' = "running" => todo' # <<>>
              /\ \A p \in Elements(pend') : p.op = "kv" => p.key = call.key
    BY <1>1, <1>2, CallKeeps, Zenon
  <1> HIDE DEF call
  <1>4. /\ store' = [k \in Key |-> store'[k]] /\ ever' = [k \in Key |-> ever'[k]]
        /\ \A c \in made' : c.key \in Key
    <2>1. /\ store = [k \in Key |-> store[k]] /\ ever = [k \in Key |-> ever[k]]
          /\ \A c \in made : c.key \in Key
      BY DEF AuditInv
    <2>2. \A c \in made' : c.key \in Key
      BY <1>1, <2>1, ChangedKeys
    <2> QED BY <1>1, <2>1, <2>2, AppliedKeeps
  <1>5. /\ \A k : Values(k) \subseteq Values(k)'
        /\ FileAudited => \A k \in Key : store'[k] \in Values(k)'
    BY <1>1, <1>4, ChangeKeeps
  <1>6. Held \subseteq Held'
    BY <1>5, HeldGrows
  <1>7. FileAudited => Missing' = {}
    <2>1. \A c : Recorded(c) => Recorded(c)'
      BY <1>3, <1>5, RecordsGrow
    <2>2. made' \ unsure' \subseteq made \ unsure /\ skipped \subseteq skipped'
      BY <1>1, <1>3
    <2> QED BY <1>1, <2>1, <2>2, MissingShrinks, NothingMissing
  <1>8. FileAudited => CallsIn(todo', Held')
    BY <1>3, <1>6, CallsGrow
  <1>9. FileAudited => \A p, q \in Elements(pend') :
                           p.op = "kv" /\ q.op = "kv" => p.key = q.key
    BY <1>3
  <1>10. FileAudited => \A c \in Missing' : \E p \in Elements(pend') : Shows(p, c)'
    BY <1>7
  <1> QED BY <1>3, <1>4, <1>5, <1>8, <1>9, <1>10, Zenon DEF AuditInv

-----------------------------------------------------------------------------
(* The pieces. *)

\* A header before a save: nothing is missing.
LEMMA AnnounceKeeps ==
    ASSUME AuditInv, AnnounceSave
    PROVE  AuditInv'
  <1>1. /\ FileAudited /\ out = "running" /\ pend = <<>> /\ pend' = <<Header("put")>>
        /\ store' = store /\ cmd' = cmd /\ todo' = todo /\ mem' = mem /\ out' = out
        /\ opened' = opened /\ audit' = audit /\ ever' = ever /\ made' = made
        /\ unsure' = unsure /\ skipped' = skipped
    BY DEF AnnounceSave, cmdVars, histVars
  <1>2. IsSeq(pend') /\ Elements(pend') = {Header("put")} /\ Header("put").op = "put"
    BY <1>1, OneElement DEF Header
  <1>3. /\ \A k : Values(k)' = Values(k)
        /\ FileAudited'
    BY <1>1 DEF Values, FileAudited, Audited
  <1>4. Held' = Held
    BY <1>3 DEF Held
  <1>5. Missing' = {}
    <2>1. \A c : Recorded(c) => Recorded(c)'
      BY <1>1, <1>3, RecordsGrow
    <2> QED BY <1>1, <2>1, MissingShrinks, NothingMissing
  <1>6. \A p, q \in Elements(pend') : p.op = "kv" /\ q.op = "kv" => p.key = q.key
    BY <1>2
  <1>7. /\ store' = [k \in Key |-> store'[k]] /\ ever' = [k \in Key |-> ever'[k]]
        /\ \A c \in made' : c.key \in Key
        /\ IsSeq(audit') /\ out' # "idle" /\ cmd'.name \in CommandNames
        /\ CallsIn(todo', Held') /\ todo' # <<>> /\ MemSeqs(mem')
        /\ \A k \in Key : store'[k] \in Values(k)'
    BY <1>1, <1>3, <1>4 DEF AuditInv
  <1> QED BY <1>2, <1>3, <1>5, <1>6, <1>7, Zenon DEF AuditInv

\* The first pending piece goes into the file, or is skipped.
LEMMA PieceKeeps ==
    ASSUME AuditInv, WritePiece \/ (\E torn \in BOOLEAN : WritePieceFails(torn))
    PROVE  AuditInv'
  <1> DEFINE first == Head(pend)
  <1>1. /\ pend # <<>> /\ pend' = Tail(pend)
        /\ store' = store /\ cmd' = cmd /\ todo' = todo /\ mem' = mem /\ out' = out
        /\ opened' = opened /\ ever' = ever /\ made' = made /\ unsure' = unsure
        /\ skipped \subseteq skipped'
    BY DEF WritePiece, WritePieceFails, cmdVars, histVars
  <1>2. \/ audit' = Append(audit, first)
        \/ /\ audit' = audit \/ audit' = Append(audit, Header("torn"))
           /\ first.op = "kv" => first.key \in skipped'
    BY DEF WritePiece, WritePieceFails
  <1>3. /\ IsSeq(pend') /\ Elements(pend') \subseteq Elements(pend)
        /\ Elements(pend) = {first} \cup Elements(pend')
    BY <1>1, TailElements DEF AuditInv
  <1> HIDE DEF first
  <1>4. /\ IsSeq(audit') /\ Elements(audit) \subseteq Elements(audit')
        /\ first \in Elements(audit') \/ (first.op = "kv" => first.key \in skipped')
    <2>1. IsSeq(audit)
      BY DEF AuditInv
    <2>2. ASSUME NEW x PROVE /\ IsSeq(Append(audit, x))
                             /\ Elements(Append(audit, x)) = Elements(audit) \cup {x}
      BY <2>1, AppendElements
    <2> QED BY <1>2, <2>1, <2>2
  <1>5. /\ \A k : Values(k)' = Values(k)
        /\ FileAudited' <=> FileAudited
    BY <1>1 DEF Values, FileAudited, Audited
  <1>6. Held' = Held
    BY <1>5 DEF Held
  <1>7. /\ \A c, p : Shows(p, c) => Shows(p, c)'
        /\ \A c : Recorded(c) => Recorded(c)'
    BY <1>4, <1>5, RecordsGrow
  <1>8. ASSUME FileAudited, out # "idle", NEW c \in Missing'
        PROVE  \E p \in Elements(pend') : Shows(p, c)'
    <2>1. c \in Missing
      BY <1>1, <1>7, <1>8, MissingShrinks
    <2>2. PICK p \in Elements(pend) : Shows(p, c)
      BY <1>8, <2>1 DEF AuditInv
    <2>3. Shows(p, c)' /\ p.op = "kv" /\ p.key = c.key
      BY <1>7, <2>2 DEF Shows
    <2>4. p # first
      <3> SUFFICES ASSUME p = first PROVE FALSE
        OBVIOUS
      <3>1. ~Recorded(c)' /\ c.key \notin skipped'
        BY <1>8 DEF Missing
      <3>2. p \in Elements(audit')
        BY <1>4, <2>3, <3>1
      <3> QED BY <2>3, <3>1, <3>2 DEF Recorded
    <2> QED BY <1>3, <2>3, <2>4
  <1>9. /\ store' = [k \in Key |-> store'[k]] /\ ever' = [k \in Key |-> ever'[k]]
        /\ \A c \in made' : c.key \in Key
        /\ out # "idle" /\ cmd'.name \in CommandNames
        /\ FileAudited =>
              /\ CallsIn(todo', Held') /\ MemSeqs(mem')
              /\ out' = "running" => todo' # <<>>
              /\ \A k \in Key : store'[k] \in Values(k)'
              /\ \A p, q \in Elements(pend') : p.op = "kv" /\ q.op = "kv" => p.key = q.key
    BY <1>1, <1>3, <1>5, <1>6 DEF AuditInv
  <1> QED BY <1>1, <1>3, <1>4, <1>5, <1>8, <1>9, Zenon DEF AuditInv

\* A step that changes neither the command nor the files, nor takes a value
\* from a key's history: a kill, a change by milvus, nothing.
LEMMA OthersKeep ==
    ASSUME AuditInv, cmd' = cmd, todo' = todo, mem' = mem, opened' = opened,
           audit' = audit, pend' = pend, made' = made, unsure' = unsure,
           skipped' = skipped, out' = out \/ (out # "idle" /\ out' = "killed"),
           store' = [k \in Key |-> store'[k]], ever' = [k \in Key |-> ever'[k]],
           \A k \in Key : /\ ever[k] \subseteq ever'[k]
                          /\ store'[k] = store[k] \/ store'[k] \in ever'[k]
    PROVE  AuditInv'
  <1>1. \A k \in Key : Values(k) \subseteq Values(k)' /\ (store[k] \in Values(k) => store'[k] \in Values(k)')
    BY DEF Values
  <1>2. Held \subseteq Held'
    BY <1>1 DEF Held
  <1>3. FileAudited' <=> FileAudited
    BY DEF FileAudited, Audited
  <1>4. \A c \in made : \A p : Shows(p, c) => Shows(p, c)'
    BY <1>1 DEF Shows, AuditInv
  <1>5. Missing' \subseteq Missing
    BY <1>4 DEF Missing, Recorded
  <1>6. FileAudited /\ out # "idle" =>
            \A c \in Missing' : \E p \in Elements(pend') : Shows(p, c)'
    BY <1>4, <1>5 DEF AuditInv, Missing
  <1>7. FileAudited /\ out # "idle" => CallsIn(todo', Held')
    BY <1>2, CallsGrow DEF AuditInv
  <1>8. /\ IsSeq(audit') /\ IsSeq(pend') /\ \A c \in made' : c.key \in Key
        /\ out' = "idle" => made' = {} /\ pend' = <<>> /\ MemSeqs(mem')
        /\ out' # "idle" => cmd'.name \in CommandNames /\ out # "idle"
        /\ out # "idle" /\ FileAudited =>
              /\ out' = "running" => todo' # <<>>
              /\ MemSeqs(mem')
              /\ \A k \in Key : store'[k] \in Values(k)'
              /\ \A p, q \in Elements(pend') : p.op = "kv" /\ q.op = "kv" => p.key = q.key
    BY <1>1 DEF AuditInv
  <1> QED BY <1>3, <1>6, <1>7, <1>8, Zenon DEF AuditInv

-----------------------------------------------------------------------------
(* The beginning, and everything together. *)

LEMMA FirstCallsOneKey ==
    ASSUME opened, NEW h, NEW c,
           c.name \in {"index_metric_type", "diskann_index_params",
                       "config-etcd", "verify-segment", "force-release"}
    PROVE  CallsIn(FirstCalls(c), h)
  <1>1. CASE c.name = "verify-segment"
    <2>1. FirstCalls(c) = <<Call("list", SegmentPrefix, Absent, "segments")>>
      BY <1>1 DEF FirstCalls, List
    <2> QED BY <2>1, CallsOneKey, OneCall
  <1>2. CASE c.name \in {"index_metric_type", "diskann_index_params"}
    <2>1. FirstCalls(c) = <<Call("list", IndexPrefix, Absent, "indexes")>>
      BY <1>2 DEF FirstCalls, List
    <2> QED BY <2>1, CallsOneKey, OneCall
  <1>3. CASE c.name = "config-etcd"
    <2>1. FirstCalls(c) = EtcdConfig(c)
      BY <1>3 DEF FirstCalls
    <2>2. EtcdConfig(c) \in {<<>>, <<Call("save", <<"config", c.arg>>, ConfigValue, "put")>>}
      BY Zenon DEF EtcdConfig, PutCall
    <2> QED BY <2>1, <2>2, SaveOneKey, OneCall, NoCalls
  <1>4. CASE c.name = "force-release"
    <2>1. FirstCalls(c) = ForceReleaseCalls(c)
      BY <1>4 DEF FirstCalls
    <2>2. CallsIn(ReleaseAll, h)
      <3> DEFINE names == <<"queryCoord-", "querycoord-">>
                 f == ReleaseAll
      <3>1. IsSeq(names) /\ \A i \in DOMAIN names : names[i] \in QueryCoordNames
        BY DEF IsSeq, Elements, QueryCoordNames
      <3>2. f = [i \in DOMAIN names |-> Call("list", <<names[i]>>, Absent, "all")]
        BY DEF ReleaseAll, MapSeq
      <3> HIDE DEF names, f
      <3>3. f = [i \in DOMAIN names |-> f[i]] /\ \A i \in DOMAIN names : OneKey(f[i], h)
        BY <3>1, <3>2, CallsOneKey
      <3> QED BY <3>1, <3>3, MappedCalls DEF f
    <2>3. CallsIn(<<List(LoadInfoPrefixes[1], "loaded"),
                    List(LoadInfoPrefixes[2], "partitions")>>, h)
      <3> DEFINE a == List(LoadInfoPrefixes[1], "loaded")
                 b == List(LoadInfoPrefixes[2], "partitions")
      <3>1. OneKey(a, h) /\ OneKey(b, h)
        BY DEF List, OneKey, Call
      <3> HIDE DEF a, b
      <3>2. IsSeq(<<a, b>>) /\ Elements(<<a, b>>) = {a, b}
        BY DEF IsSeq, Elements
      <3> QED BY <3>1, <3>2 DEF CallsIn, a, b
    <2> QED BY <2>1, <2>2, <2>3 DEF ForceReleaseCalls
  <1> QED BY <1>1, <1>2, <1>3, <1>4

LEMMA BeginKeeps ==
    ASSUME AuditInv, NEW c \in Invocations, Begin(c)
    PROVE  AuditInv'
  <1>1. /\ out = "idle" /\ cmd' = c /\ todo' = FirstCalls(c)
        /\ out' = IF FirstCalls(c) = <<>> THEN "done" ELSE "running"
        /\ ever' = [k \in Key |-> {store[k]}]
        /\ store' = store /\ mem' = mem /\ made' = made /\ pend' = pend
        /\ opened' = opened /\ audit' = audit
    BY DEF Begin, auditVars
  <1>2. out' # "idle" /\ (out' = "running" => todo' # <<>>)
    BY <1>1
  <1>3. cmd'.name \in CommandNames
    BY <1>1, InvocationsAssumption
  <1>4. FileAudited' => CallsIn(todo', Held')
    BY <1>1, FirstCallsOneKey DEF FileAudited, Audited
  <1>5. /\ made' = {} /\ pend' = <<>> /\ MemSeqs(mem') /\ IsSeq(audit') /\ IsSeq(pend')
        /\ store' = [k \in Key |-> store'[k]] /\ ever' = [k \in Key |-> ever'[k]]
    BY <1>1 DEF AuditInv
  <1>6. Missing' = {} /\ \A k \in Key : store'[k] \in Values(k)'
    BY <1>1, <1>5 DEF Missing, Values
  <1>7. Elements(pend') = {}
    BY <1>5, EmptyElements
  <1> QED BY <1>2, <1>3, <1>4, <1>5, <1>6, <1>7 DEF AuditInv

LEMMA MilvusKeeps ==
    ASSUME AuditInv, MilvusStep
    PROVE  AuditInv'
  <1>1. /\ cmd' = cmd /\ todo' = todo /\ mem' = mem /\ opened' = opened /\ out' = out
        /\ audit' = audit /\ pend' = pend /\ made' = made /\ unsure' = unsure
        /\ skipped' = skipped
    BY DEF MilvusStep, cmdVars, auditVars
  <1>2. /\ store' = [k \in Key |-> store'[k]] /\ ever' = [k \in Key |-> ever'[k]]
        /\ \A k \in Key : /\ ever[k] \subseteq ever'[k]
                          /\ store'[k] = store[k] \/ store'[k] \in ever'[k]
    <2>1. PICK c \in Changes : /\ store' = [store EXCEPT ![c.key] = c.new]
                               /\ ever' = [ever EXCEPT ![c.key] = @ \cup {c.new}]
      BY DEF MilvusStep
    <2>2. store = [k \in Key |-> store[k]] /\ ever = [k \in Key |-> ever[k]]
      BY DEF AuditInv
    <2> QED BY <2>1, <2>2
  <1> QED BY <1>1, <1>2, OthersKeep

LEMMA QuietKeeps ==
    ASSUME AuditInv, Kill \/ UNCHANGED vars
    PROVE  AuditInv'
  <1>1. /\ cmd' = cmd /\ todo' = todo /\ mem' = mem /\ opened' = opened
        /\ audit' = audit /\ pend' = pend /\ made' = made /\ unsure' = unsure
        /\ skipped' = skipped /\ store' = store /\ ever' = ever
        /\ out' = out \/ (out # "idle" /\ out' = "killed")
    BY DEF Kill, vars, cmdVars, auditVars, histVars
  <1>2. /\ store' = [k \in Key |-> store'[k]] /\ ever' = [k \in Key |-> ever'[k]]
        /\ \A k \in Key : ever[k] \subseteq ever'[k] /\ store'[k] = store[k]
    BY <1>1 DEF AuditInv
  <1> QED BY <1>1, <1>2, OthersKeep

\* What a load gives back is in the store.
LEMMA LoadedRows ==
    ASSUME AuditInv, out = "running", FileAudited, Load(Head(todo).key) # Absent
    PROVE  GoodRows(Head(todo), TRUE,
                    <<[key |-> Head(todo).key, obj |-> Load(Head(todo).key)]>>, Held)
  <1> DEFINE k == Head(todo).key
             row == [key |-> k, obj |-> Load(k)]
  <1>1. k \in Key /\ Load(k) = store[k]
    BY DEF Load
  <1>2. store[k] \in Values(k)
    BY <1>1 DEF AuditInv
  <1>3. <<k, Load(k)>> \in Held
    BY <1>1, <1>2 DEF Held
  <1>4. row.obj = Load(k)
    OBVIOUS
  <1> HIDE DEF row, k
  <1>5. IsSeq(<<row>>) /\ <<row>>[1] = row
    BY OneElement
  <1> QED BY <1>3, <1>4, <1>5 DEF GoodRows, row, k

LEMMA AuditNext == AuditInv /\ [Next]_vars => AuditInv'
  <1> SUFFICES ASSUME AuditInv, [Next]_vars PROVE AuditInv'
    OBVIOUS
  <1>1. CASE \E c \in Invocations : Begin(c)
    BY <1>1, BeginKeeps
  <1>2. CASE ReadList
    <2> DEFINE rows == ListObj2Models(Head(todo).key)
    <2>1. /\ out = "running" /\ pend = <<>> /\ Head(todo).do = "list"
          /\ Proceed(Head(todo), TRUE, rows)
          /\ store' = store /\ ever' = ever /\ made' = made /\ unsure' = unsure
      BY <1>2 DEF ReadList, Calling
    <2>2. GoodRows(Head(todo), TRUE, rows, Held)
      BY <2>1, ListIsSeq DEF GoodRows
    <2> HIDE DEF rows
    <2> QED BY <2>1, <2>2, ReadKeeps, Zenon
  <1>3. CASE LoadKey
    <2> DEFINE k == Head(todo).key
               rows == <<[key |-> k, obj |-> Load(k)]>>
    <2>1. /\ out = "running" /\ pend = <<>>
          /\ store' = store /\ ever' = ever /\ made' = made /\ unsure' = unsure
      BY <1>3 DEF LoadKey, Calling
    <2>2. \/ Proceed(Head(todo), FALSE, <<>>)
          \/ Load(k) # Absent /\ Proceed(Head(todo), TRUE, rows)
      BY <1>3, Zenon DEF LoadKey
    <2>3. GoodRows(Head(todo), FALSE, <<>>, Held)
      BY EmptyElements DEF GoodRows
    <2>4. FileAudited /\ Load(k) # Absent => GoodRows(Head(todo), TRUE, rows, Held)
      BY <2>1, LoadedRows
    <2> HIDE DEF rows, k
    <2> QED BY <2>1, <2>2, <2>3, <2>4, ReadKeeps
  <1>4. CASE WriteStore
    BY <1>4, WriteKeeps
  <1>5. CASE AskNode \/ Compute
    <2>1. /\ out = "running" /\ pend = <<>> /\ Head(todo).do \in Outside \cup {"local"}
          /\ store' = store /\ ever' = ever /\ made' = made /\ unsure' = unsure
          /\ Proceed(Head(todo), TRUE, <<>>)
      BY <1>5 DEF AskNode, Compute, Calling
    <2>2. GoodRows(Head(todo), TRUE, <<>>, Held)
      BY <2>1, EmptyElements DEF GoodRows, Outside
    <2> QED BY <2>1, <2>2, ReadKeeps
  <1>6. CASE \E reached \in BOOLEAN : CallFails(reached)
    BY <1>6, FailureKeeps
  <1>7. CASE MilvusStep
    BY <1>7, MilvusKeeps
  <1>8. CASE AnnounceSave
    BY <1>8, AnnounceKeeps
  <1>9. CASE WritePiece \/ (\E torn \in BOOLEAN : WritePieceFails(torn))
    BY <1>9, PieceKeeps
  <1>10. CASE Kill \/ UNCHANGED vars
    BY <1>10, QuietKeeps
  <1> QED BY <1>1, <1>2, <1>3, <1>4, <1>5, <1>6, <1>7, <1>8, <1>9, <1>10, Zenon DEF Next

\* Whatever milvus does, whichever calls and writes to the file fail and
\* wherever the process is killed, the audit file of index_metric_type,
\* diskann_index_params, config-etcd, verify-segment and force-release holds
\* every change whose answer arrived, but for those whose record could not be
\* written and the one that is being recorded.
THEOREM AuditIsComplete == Spec => []AuditComplete
  <1>1. AuditInv => AuditComplete
    <2> SUFFICES ASSUME AuditInv, FileAudited
                 PROVE  /\ \A c, d \in Missing : c.key = d.key
                        /\ pend = <<>> => Missing = {}
      BY DEF AuditComplete
    <2>1. CASE out = "idle"
      <3>1. Missing = {}
        BY <2>1 DEF AuditInv, Missing
      <3> QED BY <3>1
    <2>2. CASE out # "idle"
      <3>1. pend = <<>> => Missing = {}
        BY <2>2, NothingMissing
      <3>2. ASSUME NEW c \in Missing, NEW d \in Missing PROVE c.key = d.key
        <4>1. PICK p \in Elements(pend) : Shows(p, c)
          BY <2>2 DEF AuditInv
        <4>2. PICK q \in Elements(pend) : Shows(q, d)
          BY <2>2 DEF AuditInv
        <4>3. /\ p.op = "kv" /\ p.key = c.key
              /\ q.op = "kv" /\ q.key = d.key
          BY <4>1, <4>2 DEF Shows
        <4> QED BY <2>2, <4>3 DEF AuditInv
      <3> QED BY <3>1, <3>2
    <2> QED BY <2>1, <2>2
  <1> QED BY <1>1, AuditInit, AuditNext, PTL DEF Spec
=============================================================================
