-------------------------- MODULE WalScannerProofs --------------------------
(***************************************************************************)
(* Proofs about the WAL scanner for every set of messages, every log order *)
(* and every bound.  The argument is one inductive invariant, IInv: the    *)
(* stream (what is delivered, queued or being collected, in that order) is *)
(* sorted, nothing in it is above what may still be popped, and everything *)
(* taken and not in a transaction is either in the heap or in the stream.  *)
(***************************************************************************)
EXTENDS WalScanner, SequenceFacts, FiniteSetTheorems, TLAPS

(* The bound on the stream: the time tick being drained, or the last one. *)
Horizon == IF consumer = "drain" THEN TT(tick) ELSE lastPopTimeTick

(* The heap holds only what may still be popped in order. *)
HeapInv ==
  \A m \in messageHeap :
    /\ ~IsTimeTick(m)
    /\ lastPopTimeTick <= TT(m)
    /\ consumer = "clear" => TT(tick) < TT(m)

(* The clocks: the time ticks on their way are between the last pop and the
   log's last time tick. *)
ClockInv ==
  /\ lastPopTimeTick <= walTick
  /\ producer = "send" /\ IsTimeTick(inflight) => TT(inflight) = walTick
  /\ tick # NoMsg => /\ IsTimeTick(tick)
                     /\ lastPopTimeTick <= TT(tick)
                     /\ TT(tick) <= walTick
  /\ consumer = "clear" => lastPopTimeTick = TT(tick)

(* Properties of a sequence s of items, given the horizon, the heap and the
   messages taken. *)
Sorted(s) == \A i, j \in 1..Len(s) : i <= j => ItemTT(s[i]) <= ItemTT(s[j])
Below(s, h) == \A i \in 1..Len(s) : ItemTT(s[i]) <= h
BelowHeap(s, heap) == \A i \in 1..Len(s) : \A m \in heap : ItemTT(s[i]) <= TT(m)
Heads(s) == {s[i].head : i \in 1..Len(s)}
Complete(s, heap, taken) ==
  \A m \in taken : Txn(m) = NoTxn => m \in heap \/ m \in Heads(s)
Watermarks(s, taken) ==
  \A i \in 1..Len(s) : IsTimeTick(s[i].head) =>
    \A m \in taken : (Txn(m) = NoTxn /\ TT(m) < ItemTT(s[i])) =>
      \E j \in 1..(i - 1) : s[j].head = m
Committed(s) ==
  \A i \in 1..Len(s) : Txn(s[i].head) # NoTxn => Type(s[i].head) = "CommitTxn"

StreamInv ==
  /\ Sorted(Stream)
  /\ Below(Stream, Horizon)
  /\ BelowHeap(Stream, messageHeap)
  /\ Complete(Stream, messageHeap, accepted)
  /\ Watermarks(Stream, accepted)
  /\ Committed(Stream)

IInv == TypeOK /\ HeapInv /\ ClockInv /\ StreamInv

-----------------------------------------------------------------------------
(* What the attributes of a message are. *)
LEMMA MessageTypes ==
  ASSUME NEW m \in Msg
  PROVE  /\ TT(m) \in Nat
         /\ EstimateSize(m) \in Nat
         /\ Txn(m) \in TxnID \cup {NoTxn}
         /\ Plain(m) \in Item
         /\ ItemTT(Plain(m)) = TT(m)
  BY MessageAssumption
  DEF Attributes, TT, EstimateSize, Txn, Plain, Item, ItemTT

(* The operations of the transaction builder keep builders well formed, and
   what Build gives out is an item under the commit message. *)
LEMMA BuilderTypes ==
  ASSUME NEW m \in Msg, NEW b \in Builder
  PROVE  /\ NewImmutableTxnMessageBuilder(m) \in Builder
         /\ Add(b, m) \in Builder
         /\ b.msgs # << >> => Build(b, m) \in Item
         /\ NoBuilder \in Builder
<1>1. EstimateSize(m) \in Nat /\ b.size \in Nat /\ b.msgs \in Seq(Msg)
  BY MessageTypes DEF Builder
<1>2. b.msgs # << >> => Tail(b.msgs) \in Seq(Msg)
  BY <1>1
<1>3. Append(b.msgs, m) \in Seq(Msg) /\ <<m>> \in Seq(Msg) /\ << >> \in Seq(Msg)
  BY <1>1
<1> QED
  BY <1>1, <1>2, <1>3 DEF NewImmutableTxnMessageBuilder, Add, Build, NoBuilder, Builder, Item

(* Handling one popped message gives out nothing, or one item under that
   message: the message itself or the transaction it commits. *)
LEMMA HandleOne ==
  ASSUME TypeOK, NEW m \in Msg, HandleImmutableMessage(m)
  PROVE  /\ builders' \in [TxnID -> Builder]
         /\ txnBytes' \in Int
         /\ \/ confirmed' = confirmed /\ Txn(m) # NoTxn
            \/ \E x \in Item : /\ confirmed' = Append(confirmed, x)
                               /\ x.head = m
                               /\ Txn(m) # NoTxn => Type(m) = "CommitTxn"
<1>1. builders \in [TxnID -> Builder] /\ txnBytes \in Int
  BY DEF TypeOK
<1>2. EstimateSize(m) \in Int /\ Plain(m) \in Item /\ Plain(m).head = m
  BY MessageTypes DEF Plain
<1>3. CASE Txn(m) = NoTxn
  <2>1. confirmed' = Append(confirmed, Plain(m)) /\ UNCHANGED <<builders, txnBytes>>
    BY <1>3 DEF HandleImmutableMessage
  <2> QED
    BY <1>1, <1>2, <1>3, <2>1
<1>4. CASE Txn(m) # NoTxn
  <2>1. Txn(m) \in TxnID
    BY <1>4, MessageTypes
  <2> DEFINE t == Txn(m)
  <2>2. builders[t] \in Builder /\ builders[t].size \in Int
    BY <1>1, <2>1 DEF Builder
  <2>3. NoBuilder \in Builder /\ NewImmutableTxnMessageBuilder(m) \in Builder
        /\ Add(builders[t], m) \in Builder
    BY <2>2, BuilderTypes
  <2>4. ASSUME Close(t)
        PROVE  builders' \in [TxnID -> Builder] /\ txnBytes' \in Int
    BY <1>1, <2>1, <2>2, <2>3, <2>4 DEF Close
  <2>5. CASE Type(m) = "BeginTxn"
    <3>1. handleBeginTxn(m)
      BY <1>4, <2>5 DEF HandleImmutableMessage
    <3> QED
      BY <1>1, <1>2, <1>4, <2>1, <2>3, <3>1 DEF handleBeginTxn
  <2>6. CASE Type(m) = "CommitTxn"
    <3>1. handleCommitTxn(m)
      BY <1>4, <2>6 DEF HandleImmutableMessage
    <3>2. CASE UNCHANGED txnVars
      BY <1>1, <1>4, <3>2 DEF txnVars
    <3>3. CASE Open(t) /\ Close(t) /\ UNCHANGED confirmed
      BY <1>4, <2>4, <3>3
    <3>4. CASE Open(t) /\ Close(t) /\ confirmed' = Append(confirmed, Build(builders[t], m))
      <4>1. Build(builders[t], m) \in Item
        BY <2>2, <3>4, BuilderTypes DEF Open
      <4>2. Build(builders[t], m).head = m
        BY DEF Build
      <4> QED
        BY <2>4, <2>6, <3>4, <4>1, <4>2
    <3> QED
      BY <3>1, <3>2, <3>3, <3>4 DEF handleCommitTxn
  <2>7. CASE Type(m) = "RollbackTxn"
    <3>1. handleRollbackTxn(m)
      BY <1>4, <2>7 DEF HandleImmutableMessage
    <3> QED
      BY <1>1, <1>4, <2>4, <3>1 DEF handleRollbackTxn
  <2>8. CASE Type(m) \notin {"BeginTxn", "CommitTxn", "RollbackTxn"}
    <3>1. handleTxnBodyMessage(m)
      BY <1>4, <2>8 DEF HandleImmutableMessage
    <3> QED
      BY <1>1, <1>2, <1>4, <2>1, <2>3, <3>1 DEF handleTxnBodyMessage
  <2> QED
    BY <2>5, <2>6, <2>7, <2>8
<1> QED
  BY <1>3, <1>4

-----------------------------------------------------------------------------
(* The state is well typed from the start ... *)
LEMMA InitType == Init => TypeOK
<1>1. << >> \in Seq(Msg) /\ << >> \in Seq(Item)
  OBVIOUS
<1>2. NoBuilder \in Builder
  BY <1>1 DEF NoBuilder, Builder
<1> SUFFICES ASSUME Init PROVE TypeOK
  OBVIOUS
<1>3. builders \in [TxnID -> Builder] /\ txnBytes = 0
  BY <1>2 DEF Init, NewTxnBuffer
<1>4. /\ messageHeap = {} /\ messageIDs = {} /\ lastPopTimeTick = 0 /\ reorderBytes = 0
      /\ confirmed = << >> /\ pendingQueue = << >> /\ delivered = << >>
  BY DEF Init, NewReOrderBuffer, NewTxnBuffer, NewPendingQueue
<1>5. walRead \in 0..MaxRead
  BY ScannerAssumption DEF Init
<1>6. walOpen \in BOOLEAN /\ ctxDone \in BOOLEAN
  BY DEF Init
<1>7. /\ producer \in ProducerPC /\ inflight = NoMsg /\ producer # "send"
      /\ consumer \in ConsumerPC /\ tick = NoMsg /\ consumer \notin {"drain", "clear"}
      /\ user \in UserPC
  BY DEF Init, ProducerPC, ConsumerPC, UserPC
<1>8. accepted = {} /\ walTick = 0 /\ count = 0 /\ cleanups = 0
  BY DEF Init
<1> QED
  BY <1>1, <1>3, <1>4, <1>5, <1>6, <1>7, <1>8 DEF TypeOK

(* ... and every step keeps it so. *)
LEMMA NextType == TypeOK /\ [Next]_vars => TypeOK'
<1> SUFFICES ASSUME TypeOK, [Next]_vars
             PROVE  TypeOK'
  OBVIOUS
<1> USE DEF ProducerPC, ConsumerPC, UserPC, walVars, userVars, bufferVars, reorderVars,
            txnVars, pendingVars
<1>1. CASE UNCHANGED vars
  BY <1>1 DEF TypeOK, vars
<1>2. CASE ProducerCancelled
  BY <1>2 DEF TypeOK, ProducerCancelled
<1>3. CASE CreateReader
  BY <1>3 DEF TypeOK, CreateReader
<1>4. CASE BackoffWake
  BY <1>4 DEF TypeOK, BackoffWake
<1>5. CASE WalFails
  BY <1>5 DEF TypeOK, WalFails
<1>6. ASSUME NEW m \in Msg, Receive(m)
      PROVE  TypeOK'
  <2>1. TT(m) \in Nat /\ m # NoMsg
    BY MessageTypes, ScannerAssumption
  <2> QED
    BY <1>6, <2>1, ScannerAssumption DEF TypeOK, Receive
<1>7. CASE ConsumerCancelled
  BY <1>7 DEF TypeOK, ConsumerCancelled
<1>8. CASE HandOver
  <2>1. inflight \in Msg /\ inflight # NoMsg /\ EstimateSize(inflight) \in Int
    BY <1>8, MessageTypes DEF HandOver, TypeOK
  <2>2. CASE UNCHANGED <<consumer, bufferVars>>
    BY <1>8, <2>2 DEF TypeOK, HandOver
  <2>3. CASE /\ consumer' = "drain" /\ tick' = inflight
             /\ UNCHANGED <<accepted, reorderVars, txnVars, pendingVars>>
    BY <1>8, <2>1, <2>3 DEF TypeOK, HandOver
  <2>4. CASE /\ Push(inflight)
             /\ accepted' = IF Refused(inflight) THEN accepted ELSE accepted \cup {inflight}
             /\ UNCHANGED <<consumer, tick, txnVars, pendingVars>>
    BY <1>8, <2>1, <2>4 DEF TypeOK, HandOver, Push
  <2> QED
    BY <1>8, <2>2, <2>3, <2>4 DEF HandOver, handleUpstream
<1>9. ASSUME NEW m \in Msg, DrainOne(m)
      PROVE  TypeOK'
  <2>1. /\ builders' \in [TxnID -> Builder] /\ txnBytes' \in Int
        /\ confirmed' = confirmed \/ \E x \in Item : confirmed' = Append(confirmed, x)
    BY <1>9, HandleOne DEF DrainOne
  <2>2. confirmed' \in Seq(Item)
    <3>1. confirmed \in Seq(Item)
      BY DEF TypeOK
    <3> QED
      BY <2>1, <3>1
  <2>3. EstimateSize(m) \in Int
    BY MessageTypes
  <2> QED
    BY <1>9, <2>1, <2>2, <2>3 DEF TypeOK, DrainOne, PopMin, TakeOut
<1>10. CASE DrainEnd
  <2>1. TT(tick) \in Nat
    BY <1>10, MessageTypes DEF TypeOK, DrainEnd
  <2> QED
    BY <1>10, <2>1 DEF TypeOK, DrainEnd, PopEnd
<1>11. ASSUME NEW t \in TxnID, ClearOne(t)
       PROVE  TypeOK'
  <2>1. builders[t] \in Builder /\ builders[t].size \in Int /\ txnBytes \in Int
    BY DEF TypeOK, Builder
  <2>2. NoBuilder \in Builder
    BY DEF NoBuilder, Builder
  <2>3. builders' \in [TxnID -> Builder] /\ txnBytes' \in Int
    BY <1>11, <2>1, <2>2 DEF TypeOK, ClearOne, clearExpiredTxn, Close
  <2> QED
    BY <1>11, <2>3 DEF TypeOK, ClearOne, clearExpiredTxn
<1>12. CASE TickEnd
  <2>1. tick \in Msg
    BY <1>12 DEF TypeOK, TickEnd
  <2>2. Plain(tick) \in Item
    BY <2>1, MessageTypes
  <2>3. ToQueue \in Seq(Item)
    BY <2>2 DEF ToQueue, TypeOK
  <2>4. pendingQueue' \in Seq(Item)
    BY <1>12, <2>3 DEF TickEnd, AddToPending, TypeOK
  <2> QED
    BY <1>12, <2>4 DEF TypeOK, TickEnd
<1>13. CASE CloseStream
  BY <1>13 DEF TypeOK, CloseStream
<1>14. CASE ParseLimit
  BY <1>14 DEF TypeOK, ParseLimit
<1>15. CASE Deliver
  <2>1. Front \in Item /\ Tail(pendingQueue) \in Seq(Item)
    BY <1>15 DEF TypeOK, Deliver, Front
  <2>2. delivered' \in Seq(Item) /\ pendingQueue' \in Seq(Item)
    BY <1>15, <2>1 DEF TypeOK, Deliver, SendFront, UnsafeAdvance
  <2>3. count' \in Nat /\ user' \in UserPC
    BY <1>15 DEF TypeOK, Deliver, SendFront
  <2> QED
    BY <1>15, <2>2, <2>3 DEF TypeOK, Deliver, SendFront
<1>16. CASE Interrupt
  BY <1>16 DEF TypeOK, Interrupt
<1>17. CASE CloseCancel
  BY <1>17 DEF TypeOK, CloseCancel
<1>18. CASE CloseFinish
  BY <1>18 DEF TypeOK, CloseFinish
<1>19. CASE Terminated
  BY <1>19, <1>1 DEF Terminated
<1> QED
  BY <1>1, <1>2, <1>3, <1>4, <1>5, <1>6, <1>7, <1>8, <1>9, <1>10, <1>11, <1>12, <1>13,
     <1>14, <1>15, <1>16, <1>17, <1>18, <1>19 DEF Next, Producer, Consumer, User

(* Whatever the log holds and whatever order it delivers it in, the scanner's
   state stays well typed; in particular a goroutine that is sending has a
   message to send, and one that is draining has a time tick to drain to. *)
THEOREM TypeCorrect == Spec => []TypeOK
  BY InitType, NextType, PTL DEF Spec

-----------------------------------------------------------------------------
(* The time tick of an item is a number. *)
LEMMA ItemTypes ==
  ASSUME NEW s \in Seq(Item), NEW i \in 1..Len(s)
  PROVE  ItemTT(s[i]) \in Nat /\ s[i].head \in Msg
<1>1. s[i] \in Item
  BY ElementOfSeq
<1> QED
  BY <1>1, MessageTypes DEF Item, ItemTT

(* An item that is not below the stream, not above the horizon or the heap and,
   if it is a time tick, comes after all it covers, can be put at its end. *)
LEMMA AppendKeeps ==
  ASSUME NEW s \in Seq(Item), NEW x \in Item, NEW h \in Nat,
         NEW heap \in SUBSET Msg, NEW taken \in SUBSET Msg,
         Sorted(s), Committed(s), Watermarks(s, taken), Below(s, ItemTT(x)),
         ItemTT(x) <= h,
         \A m \in heap : ItemTT(x) <= TT(m),
         \A m \in taken : Txn(m) = NoTxn => m \in heap \/ m \in Heads(s) \/ m = x.head,
         Txn(x.head) # NoTxn => Type(x.head) = "CommitTxn",
         IsTimeTick(x.head) =>
           \A m \in taken : (Txn(m) = NoTxn /\ TT(m) < ItemTT(x)) => m \in Heads(s)
  PROVE  /\ Sorted(Append(s, x))
         /\ Below(Append(s, x), h)
         /\ BelowHeap(Append(s, x), heap)
         /\ Complete(Append(s, x), heap, taken)
         /\ Watermarks(Append(s, x), taken)
         /\ Committed(Append(s, x))
<1> DEFINE a == Append(s, x)
<1>1. /\ a \in Seq(Item) /\ Len(a) = Len(s) + 1 /\ Len(s) \in Nat
      /\ \A i \in 1..Len(s) : a[i] = s[i]
      /\ a[Len(s) + 1] = x
  BY AppendProperties, LenProperties
<1>2. \A i \in 1..Len(a) : ItemTT(a[i]) \in Nat /\ a[i].head \in Msg
  BY <1>1, ItemTypes
<1>3. \A i \in 1..Len(a) : i \in 1..Len(s) \/ i = Len(s) + 1
  BY <1>1
<1>4. \A i \in 1..Len(a) : ItemTT(a[i]) <= ItemTT(x)
  <2>1. ItemTT(x) \in Nat
    BY MessageTypes DEF Item, ItemTT
  <2> QED
    BY <1>1, <1>2, <1>3, <2>1 DEF Below
<1> HIDE DEF a
<1>5. Sorted(a)
  <2> SUFFICES ASSUME NEW i \in 1..Len(a), NEW j \in 1..Len(a), i <= j
               PROVE  ItemTT(a[i]) <= ItemTT(a[j])
    BY DEF Sorted
  <2>1. CASE j = Len(s) + 1
    BY <1>1, <1>4, <2>1
  <2>2. CASE j \in 1..Len(s)
    <3>1. i \in 1..Len(s)
      BY <1>1, <2>2
    <3> QED
      BY <1>1, <2>2, <3>1 DEF Sorted
  <2> QED
    BY <1>3, <2>1, <2>2
<1>6. Below(a, h)
  <2>1. ItemTT(x) \in Nat
    BY MessageTypes DEF Item, ItemTT
  <2> QED
    BY <1>2, <1>4, <2>1 DEF Below
<1>7. BelowHeap(a, heap)
  <2>1. ItemTT(x) \in Nat /\ \A m \in heap : TT(m) \in Nat
    BY MessageTypes DEF Item, ItemTT
  <2> QED
    BY <1>2, <1>4, <2>1 DEF BelowHeap
<1>8. Heads(s) \subseteq Heads(a) /\ x.head \in Heads(a)
  <2>1. 1..Len(s) \subseteq 1..Len(a) /\ Len(s) + 1 \in 1..Len(a)
    BY <1>1
  <2> QED
    BY <1>1, <2>1 DEF Heads
<1>9. Complete(a, heap, taken)
  BY <1>8 DEF Complete
<1>10. Watermarks(a, taken)
  <2> SUFFICES ASSUME NEW i \in 1..Len(a), IsTimeTick(a[i].head),
                      NEW m \in taken, Txn(m) = NoTxn, TT(m) < ItemTT(a[i])
               PROVE  \E j \in 1..(i - 1) : a[j].head = m
    BY DEF Watermarks
  <2>1. CASE i = Len(s) + 1
    <3>1. m \in Heads(s)
      BY <1>1, <2>1
    <3>2. PICK j \in 1..Len(s) : s[j].head = m
      BY <3>1 DEF Heads
    <3>3. j \in 1..(i - 1) /\ a[j].head = m
      BY <1>1, <2>1, <3>2
    <3> QED
      BY <3>3
  <2>2. CASE i \in 1..Len(s)
    <3>1. PICK j \in 1..(i - 1) : s[j].head = m
      BY <1>1, <2>2 DEF Watermarks
    <3>2. j \in 1..Len(s)
      BY <1>1, <2>2
    <3> QED
      BY <1>1, <3>1, <3>2
  <2> QED
    BY <1>3, <2>1, <2>2
<1>11. Committed(a)
  <2> SUFFICES ASSUME NEW i \in 1..Len(a), Txn(a[i].head) # NoTxn
               PROVE  Type(a[i].head) = "CommitTxn"
    BY DEF Committed
  <2> QED
    BY <1>1, <1>3 DEF Committed
<1> QED
  BY <1>5, <1>6, <1>7, <1>9, <1>10, <1>11 DEF a

-----------------------------------------------------------------------------
(* Moving an item from the queue to the reader, or the collected items to the
   queue, leaves the stream as it is; collecting an item appends it. *)
LEMMA Concatenations ==
  ASSUME NEW d \in Seq(Item), NEW p \in Seq(Item), NEW c \in Seq(Item), NEW x \in Item
  PROVE  /\ d \o p \o c \in Seq(Item)
         /\ d \o p \o Append(c, x) = Append(d \o p \o c, x)
         /\ d \o (p \o c) \o << >> = d \o p \o c
         /\ p # << >> => Append(d, p[1]) \o Tail(p) \o c = d \o p \o c
<1>1. d \o p \in Seq(Item) /\ d \o p \o c \in Seq(Item) /\ <<x>> \in Seq(Item)
  OBVIOUS
<1>2. d \o p \o Append(c, x) = Append(d \o p \o c, x)
  <2>1. Append(c, x) = c \o <<x>> /\ Append(d \o p \o c, x) = d \o p \o c \o <<x>>
    BY <1>1, AppendIsConcat
  <2>2. (d \o p) \o (c \o <<x>>) = ((d \o p) \o c) \o <<x>>
    BY <1>1, ConcatAssociative
  <2> QED
    BY <2>1, <2>2
<1>3. d \o (p \o c) \o << >> = d \o p \o c
  <2>1. d \o (p \o c) = d \o p \o c
    BY ConcatAssociative
  <2> QED
    BY <1>1, <2>1, ConcatEmptySeq
<1>4. ASSUME p # << >>
      PROVE  Append(d, p[1]) \o Tail(p) \o c = d \o p \o c
  <2>1. p[1] \in Item /\ Tail(p) \in Seq(Item) /\ <<p[1]>> \in Seq(Item)
    BY <1>4
  <2>2. Append(d, p[1]) = d \o <<p[1]>>
    BY <2>1, AppendIsConcat
  <2>3. <<p[1]>> \o Tail(p) = p
    BY <1>4, <2>1
  <2>4. (d \o <<p[1]>>) \o Tail(p) = d \o (<<p[1]>> \o Tail(p))
    BY <2>1, ConcatAssociative
  <2> QED
    BY <2>2, <2>3, <2>4
<1> QED
  BY <1>1, <1>2, <1>3, <1>4

(* The items on their way to the user are a sequence, the horizon a number. *)
LEMMA StreamType ==
  ASSUME TypeOK
  PROVE  Stream \in Seq(Item) /\ Horizon \in Nat
<1>1. Stream \in Seq(Item)
  BY DEF TypeOK, Stream
<1>2. Horizon \in Nat
  BY MessageTypes DEF TypeOK, Horizon
<1> QED
  BY <1>1, <1>2

(* The invariant holds at the start ... *)
LEMMA InitInv == Init => IInv
<1> SUFFICES ASSUME Init PROVE IInv
  OBVIOUS
<1>1. TypeOK
  BY InitType
<1>2. /\ messageHeap = {} /\ accepted = {} /\ lastPopTimeTick = 0 /\ walTick = 0
      /\ consumer = "select" /\ tick = NoMsg /\ producer = "create"
  BY DEF Init, NewReOrderBuffer
<1>3. Stream = << >>
  BY ConcatEmptySeq, EmptySeq DEF Init, NewTxnBuffer, NewPendingQueue, Stream
<1>4. HeapInv /\ ClockInv
  BY <1>2 DEF HeapInv, ClockInv
<1>5. Len(Stream) = 0 /\ 1..Len(Stream) = {}
  BY <1>3
<1>6. StreamInv
  BY <1>2, <1>5 DEF StreamInv, Sorted, Below, BelowHeap, Complete, Watermarks, Committed
<1> QED
  BY <1>1, <1>4, <1>6 DEF IInv

(* The stream's part of the invariant survives a step that leaves the stream,
   the heap and the taken messages alone and does not lower the horizon. *)
LEMMA StreamKept ==
  ASSUME TypeOK, TypeOK', StreamInv,
         Stream' = Stream, messageHeap' = messageHeap, accepted' = accepted,
         Horizon <= Horizon'
  PROVE  StreamInv'
<1>1. Stream \in Seq(Item) /\ Horizon \in Nat /\ Horizon' \in Nat
  BY StreamType, MessageTypes DEF TypeOK, Horizon
<1>2. \A i \in 1..Len(Stream) : ItemTT(Stream[i]) \in Nat
  BY <1>1, ItemTypes
<1>3. Below(Stream, Horizon')
  BY <1>1, <1>2 DEF StreamInv, Below
<1> QED
  BY <1>3 DEF StreamInv

(* ... and every step keeps it.  The steps that matter are the push (nothing
   late enters the heap), the pop (the minimum goes to the end of the stream)
   and the end of a time tick (the tick follows all it covers). *)
LEMMA NextInv == IInv /\ [Next]_vars => IInv'
<1> SUFFICES ASSUME IInv, [Next]_vars
             PROVE  IInv'
  OBVIOUS
<1> USE DEF walVars, userVars, bufferVars, reorderVars, txnVars, pendingVars
<1>0. TypeOK /\ HeapInv /\ ClockInv /\ StreamInv
  BY DEF IInv
<1>t. TypeOK'
  BY <1>0, NextType
<1>s. Stream \in Seq(Item) /\ Horizon \in Nat
  BY <1>0, StreamType
<1>n. /\ lastPopTimeTick \in Nat /\ walTick \in Nat
      /\ messageHeap \in SUBSET Msg /\ accepted \in SUBSET Msg
      /\ \A m \in Msg : TT(m) \in Nat
  BY <1>0, MessageTypes DEF TypeOK
<1>q. ASSUME UNCHANGED bufferVars, UNCHANGED <<delivered, walTick>>,
             producer' # "send" \/ UNCHANGED <<producer, inflight>>,
             consumer' = consumer \/ (consumer \notin {"drain", "clear"}
                                      /\ consumer' \notin {"drain", "clear"})
      PROVE  IInv'
  <2>1. HeapInv' /\ ClockInv'
    BY <1>0, <1>q DEF HeapInv, ClockInv
  <2>2. Stream' = Stream /\ Horizon' = Horizon
    BY <1>q DEF Stream, Horizon
  <2>3. StreamInv'
    BY <1>0, <1>q, <1>s, <1>t, <2>2, StreamKept
  <2> QED
    BY <1>t, <2>1, <2>3 DEF IInv
<1>1. CASE UNCHANGED vars
  BY <1>1, <1>q DEF vars
<1>2. CASE ProducerCancelled
  BY <1>2, <1>q DEF ProducerCancelled
<1>3. CASE CreateReader
  BY <1>3, <1>q DEF CreateReader
<1>4. CASE BackoffWake
  BY <1>4, <1>q DEF BackoffWake
<1>5. CASE WalFails
  BY <1>5, <1>q DEF WalFails
<1>6. ASSUME NEW m \in Msg, Receive(m)
      PROVE  IInv'
  <2>1. /\ UNCHANGED <<bufferVars, consumer, delivered>>
        /\ walTick <= walTick' /\ walTick' \in Nat
        /\ inflight' = m
        /\ IsTimeTick(m) => TT(m) = walTick'
    BY <1>6, <1>n DEF Receive
  <2>2. HeapInv'
    BY <1>0, <2>1 DEF HeapInv
  <2>3. tick # NoMsg => tick \in Msg
    BY <1>0 DEF TypeOK
  <2>4. ClockInv'
    BY <1>0, <1>n, <2>1, <2>3 DEF ClockInv
  <2>5. Stream' = Stream /\ Horizon' = Horizon
    BY <2>1 DEF Stream, Horizon
  <2>6. StreamInv'
    BY <1>0, <1>s, <1>t, <2>1, <2>5, StreamKept
  <2> QED
    BY <1>t, <2>2, <2>4, <2>6 DEF IInv
<1>7. CASE ConsumerCancelled
  BY <1>7, <1>q DEF ConsumerCancelled
<1>8. CASE HandOver
  <2>0. /\ producer = "send" /\ consumer = "select" /\ producer' = "receive"
        /\ UNCHANGED <<walTick, delivered>>
        /\ inflight \in Msg /\ TT(inflight) \in Nat
        /\ handleUpstream(inflight)
    BY <1>0, <1>8, <1>n DEF HandOver, TypeOK
  <2>1. CASE UNCHANGED <<consumer, bufferVars>>
    BY <1>q, <2>0, <2>1
  <2>2. CASE /\ IsTimeTick(inflight) /\ consumer' = "drain" /\ tick' = inflight
             /\ UNCHANGED <<accepted, reorderVars, txnVars, pendingVars>>
    <3>1. HeapInv'
      BY <1>0, <2>0, <2>2 DEF HeapInv
    <3>2. TT(inflight) = walTick
      BY <1>0, <2>0, <2>2 DEF ClockInv
    <3>3. ClockInv'
      BY <1>0, <1>n, <2>0, <2>2, <3>2 DEF ClockInv
    <3>4. Stream' = Stream
      BY <2>0, <2>2 DEF Stream
    <3>5. Horizon <= Horizon'
      BY <1>0, <2>0, <2>2, <3>2 DEF Horizon, ClockInv
    <3>6. StreamInv'
      BY <1>0, <1>t, <2>2, <3>4, <3>5, StreamKept
    <3> QED
      BY <1>t, <3>1, <3>3, <3>6 DEF IInv
  <2>3. CASE /\ ~IsTimeTick(inflight)
             /\ Push(inflight)
             /\ accepted' = IF Refused(inflight) THEN accepted ELSE accepted \cup {inflight}
             /\ UNCHANGED <<consumer, tick, txnVars, pendingVars>>
    <3>1. CASE Refused(inflight)
      BY <1>q, <2>0, <2>3, <3>1 DEF Push
    <3>2. CASE ~Refused(inflight)
      <4>1. /\ lastPopTimeTick <= TT(inflight)
            /\ messageHeap' = messageHeap \cup {inflight}
            /\ accepted' = accepted \cup {inflight}
            /\ UNCHANGED <<lastPopTimeTick, consumer, tick>>
        BY <1>n, <2>0, <2>3, <3>2 DEF Push, Refused
      <4>2. HeapInv'
        BY <1>0, <2>0, <2>3, <4>1 DEF HeapInv
      <4>3. ClockInv'
        BY <1>0, <2>0, <4>1 DEF ClockInv
      <4>4. Stream' = Stream /\ Horizon' = Horizon /\ Horizon = lastPopTimeTick
        BY <2>0, <2>3, <4>1 DEF Stream, Horizon
      <4>5. \A i \in 1..Len(Stream) :
              ItemTT(Stream[i]) \in Nat /\ ItemTT(Stream[i]) <= TT(inflight)
        BY <1>0, <1>n, <1>s, <2>0, <4>1, <4>4, ItemTypes DEF StreamInv, Below
      <4>6. BelowHeap(Stream, messageHeap')
        BY <1>0, <4>1, <4>5 DEF StreamInv, BelowHeap
      <4>7. Complete(Stream, messageHeap', accepted')
        BY <1>0, <4>1 DEF StreamInv, Complete
      <4>8. Watermarks(Stream, accepted')
        <5> SUFFICES ASSUME NEW i \in 1..Len(Stream), IsTimeTick(Stream[i].head),
                            NEW m \in accepted', Txn(m) = NoTxn, TT(m) < ItemTT(Stream[i])
                     PROVE  \E j \in 1..(i - 1) : Stream[j].head = m
          BY DEF Watermarks
        <5>1. m # inflight
          BY <2>0, <4>5
        <5> QED
          BY <1>0, <4>1, <5>1 DEF StreamInv, Watermarks
      <4>9. StreamInv'
        BY <1>0, <4>4, <4>6, <4>7, <4>8 DEF StreamInv
      <4> QED
        BY <1>t, <4>2, <4>3, <4>9 DEF IInv
    <3> QED
      BY <3>1, <3>2
  <2> QED
    BY <2>0, <2>1, <2>2, <2>3 DEF handleUpstream
<1>9. ASSUME NEW m \in Msg, DrainOne(m)
      PROVE  IInv'
  <2>1. /\ consumer = "drain" /\ UNCHANGED <<consumer, tick, lastPopTimeTick, walTick>>
        /\ UNCHANGED <<producer, inflight, delivered, pendingQueue, accepted>>
        /\ m \in messageHeap /\ messageHeap' = messageHeap \ {m}
        /\ \A n \in messageHeap : TT(m) <= TT(n)
        /\ TT(m) <= TT(tick)
    BY <1>9 DEF DrainOne, PopMin, TakeOut
  <2>2. HeapInv' /\ ClockInv'
    BY <1>0, <2>1 DEF HeapInv, ClockInv
  <2>3. Horizon' = TT(tick) /\ Horizon = TT(tick) /\ Horizon' \in Nat
    BY <1>s, <2>1 DEF Horizon
  <2>4. /\ delivered \in Seq(Item) /\ pendingQueue \in Seq(Item) /\ confirmed \in Seq(Item)
    BY <1>0 DEF TypeOK
  <2>5. \/ confirmed' = confirmed /\ Txn(m) # NoTxn
        \/ \E x \in Item : /\ confirmed' = Append(confirmed, x)
                           /\ x.head = m
                           /\ Txn(m) # NoTxn => Type(m) = "CommitTxn"
    BY <1>0, <1>9, HandleOne DEF DrainOne
  <2>6. CASE confirmed' = confirmed /\ Txn(m) # NoTxn
    <3>1. Stream' = Stream
      BY <2>1, <2>6 DEF Stream
    <3>2. BelowHeap(Stream, messageHeap')
      BY <1>0, <2>1 DEF StreamInv, BelowHeap
    <3>3. Complete(Stream, messageHeap', accepted)
      BY <1>0, <2>1, <2>6 DEF StreamInv, Complete
    <3>4. StreamInv'
      BY <1>0, <2>1, <2>3, <3>1, <3>2, <3>3 DEF StreamInv
    <3> QED
      BY <1>t, <2>2, <3>4 DEF IInv
  <2>7. ASSUME NEW x \in Item, confirmed' = Append(confirmed, x), x.head = m,
               Txn(m) # NoTxn => Type(m) = "CommitTxn"
        PROVE  IInv'
    <3>1. Stream' = Append(Stream, x)
      BY <2>1, <2>4, <2>7, Concatenations DEF Stream
    <3>2. ItemTT(x) = TT(m) /\ ~IsTimeTick(x.head)
      BY <1>0, <2>1, <2>7 DEF ItemTT, HeapInv
    <3>3. Below(Stream, ItemTT(x))
      BY <1>0, <2>1, <3>2 DEF StreamInv, BelowHeap, Below
    <3>4. \A n \in messageHeap' : ItemTT(x) <= TT(n)
      BY <2>1, <3>2
    <3>5. \A n \in accepted : Txn(n) = NoTxn =>
            n \in messageHeap' \/ n \in Heads(Stream) \/ n = x.head
      BY <1>0, <2>1, <2>7 DEF StreamInv, Complete
    <3>6. messageHeap' \in SUBSET Msg /\ ItemTT(x) <= Horizon'
      BY <1>n, <2>1, <2>3, <3>2
    <3>7. Sorted(Stream) /\ Committed(Stream) /\ Watermarks(Stream, accepted)
      BY <1>0 DEF StreamInv
    <3>8. /\ Sorted(Append(Stream, x))
          /\ Below(Append(Stream, x), Horizon')
          /\ BelowHeap(Append(Stream, x), messageHeap')
          /\ Complete(Append(Stream, x), messageHeap', accepted)
          /\ Watermarks(Append(Stream, x), accepted)
          /\ Committed(Append(Stream, x))
      BY <1>n, <1>s, <2>3, <2>7, <3>2, <3>3, <3>4, <3>5, <3>6, <3>7, AppendKeeps
    <3>9. StreamInv'
      BY <2>1, <3>1, <3>8 DEF StreamInv
    <3> QED
      BY <1>t, <2>2, <3>9 DEF IInv
  <2> QED
    BY <2>5, <2>6, <2>7
<1>10. CASE DrainEnd
  <2>1. /\ consumer = "drain" /\ consumer' = "clear" /\ lastPopTimeTick' = TT(tick)
        /\ \A n \in messageHeap : TT(n) > TT(tick)
        /\ UNCHANGED <<messageHeap, walTick, producer, inflight, tick, accepted>>
        /\ UNCHANGED <<delivered, pendingQueue, confirmed>>
    BY <1>10 DEF DrainEnd, PopEnd
  <2>2. tick \in Msg /\ tick # NoMsg /\ TT(tick) \in Nat
    BY <1>0, <1>n, <2>1 DEF TypeOK
  <2>3. HeapInv'
    BY <1>0, <1>n, <2>1, <2>2 DEF HeapInv
  <2>4. ClockInv'
    BY <1>0, <1>n, <2>1, <2>2 DEF ClockInv
  <2>5. Stream' = Stream /\ Horizon' = Horizon
    BY <2>1 DEF Stream, Horizon
  <2>6. StreamInv'
    BY <1>0, <1>s, <1>t, <2>1, <2>5, StreamKept
  <2> QED
    BY <1>t, <2>3, <2>4, <2>6 DEF IInv
<1>11. ASSUME NEW t \in TxnID, ClearOne(t)
       PROVE  IInv'
  <2>1. /\ UNCHANGED <<messageHeap, lastPopTimeTick, walTick, producer, inflight, consumer>>
        /\ UNCHANGED <<tick, accepted, delivered, pendingQueue, confirmed>>
    BY <1>11 DEF ClearOne, clearExpiredTxn
  <2>2. HeapInv' /\ ClockInv'
    BY <1>0, <2>1 DEF HeapInv, ClockInv
  <2>3. Stream' = Stream /\ Horizon' = Horizon
    BY <2>1 DEF Stream, Horizon
  <2>4. StreamInv'
    BY <1>0, <1>s, <1>t, <2>1, <2>3, StreamKept
  <2> QED
    BY <1>t, <2>2, <2>4 DEF IInv
<1>12. CASE TickEnd
  <2>1. /\ consumer = "clear" /\ consumer' = "select" /\ tick' = NoMsg /\ confirmed' = << >>
        /\ pendingQueue' = pendingQueue \o ToQueue
        /\ UNCHANGED <<messageHeap, lastPopTimeTick, walTick, producer, inflight>>
        /\ UNCHANGED <<accepted, delivered>>
    BY <1>12 DEF TickEnd, AddToPending
  <2>2. /\ tick \in Msg /\ tick # NoMsg /\ TT(tick) \in Nat /\ Plain(tick) \in Item
        /\ IsTimeTick(tick) /\ lastPopTimeTick = TT(tick)
        /\ ItemTT(Plain(tick)) = TT(tick) /\ Plain(tick).head = tick
    BY <1>0, <1>n, <2>1, MessageTypes DEF TypeOK, ClockInv, Plain
  <2>3. HeapInv' /\ ClockInv'
    BY <1>0, <2>1 DEF HeapInv, ClockInv
  <2>4. Horizon = TT(tick) /\ Horizon' = TT(tick)
    BY <2>1, <2>2 DEF Horizon
  <2>5. /\ delivered \in Seq(Item) /\ pendingQueue \in Seq(Item) /\ confirmed \in Seq(Item)
    BY <1>0 DEF TypeOK
  <2>6. CASE ToQueue = confirmed
    <3>1. Stream' = Stream
      BY <2>1, <2>2, <2>5, <2>6, Concatenations DEF Stream
    <3>2. StreamInv'
      BY <1>0, <1>s, <1>t, <2>1, <2>4, <3>1, StreamKept
    <3> QED
      BY <1>t, <2>3, <3>2 DEF IInv
  <2>7. CASE ToQueue = Append(confirmed, Plain(tick))
    <3> DEFINE x == Plain(tick)
    <3>1. Stream' = Append(Stream, x)
      <4>1. Append(confirmed, x) \in Seq(Item)
        BY <2>2, <2>5
      <4>2. Stream' = delivered \o (pendingQueue \o Append(confirmed, x)) \o << >>
        BY <2>1, <2>7 DEF Stream
      <4>3. @ = delivered \o pendingQueue \o Append(confirmed, x)
        BY <2>2, <2>5, <4>1, Concatenations
      <4>4. @ = Append(Stream, x)
        BY <2>2, <2>5, Concatenations DEF Stream
      <4> QED
        BY <4>2, <4>3, <4>4
    <3>2. Txn(x.head) = NoTxn
      BY <2>2, MessageAssumption
    <3>3. Below(Stream, ItemTT(x))
      BY <1>0, <2>2, <2>4 DEF StreamInv
    <3>4. \A n \in messageHeap : TT(tick) < TT(n)
      BY <1>0, <2>1 DEF HeapInv
    <3>5. \A n \in messageHeap : ItemTT(x) <= TT(n)
      BY <1>n, <2>2, <3>4
    <3>6. \A n \in accepted : Txn(n) = NoTxn => n \in messageHeap \/ n \in Heads(Stream)
      BY <1>0 DEF StreamInv, Complete
    <3>7. \A n \in accepted : (Txn(n) = NoTxn /\ TT(n) < ItemTT(x)) => n \in Heads(Stream)
      BY <1>n, <2>2, <3>4, <3>6
    <3>8. Sorted(Stream) /\ Committed(Stream) /\ Watermarks(Stream, accepted)
      BY <1>0 DEF StreamInv
    <3> HIDE DEF x
    <3>9. /\ Sorted(Append(Stream, x))
          /\ Below(Append(Stream, x), Horizon)
          /\ BelowHeap(Append(Stream, x), messageHeap)
          /\ Complete(Append(Stream, x), messageHeap, accepted)
          /\ Watermarks(Append(Stream, x), accepted)
          /\ Committed(Append(Stream, x))
      <4>1. x \in Item /\ ItemTT(x) <= Horizon
        BY <2>2, <2>4 DEF x
      <4> QED
        BY <1>n, <1>s, <3>2, <3>3, <3>5, <3>6, <3>7, <3>8, <4>1, AppendKeeps
    <3>10. StreamInv'
      BY <2>1, <2>4, <3>1, <3>9 DEF StreamInv
    <3> QED
      BY <1>t, <2>3, <3>10 DEF IInv
  <2> QED
    BY <2>6, <2>7 DEF ToQueue
<1>13. CASE CloseStream
  BY <1>13, <1>q DEF CloseStream
<1>14. CASE ParseLimit
  BY <1>14, <1>q DEF ParseLimit
<1>15. CASE Deliver
  <2>1. /\ pendingQueue # << >> /\ pendingQueue' = Tail(pendingQueue)
        /\ delivered' = Append(delivered, pendingQueue[1])
        /\ UNCHANGED <<messageHeap, lastPopTimeTick, walTick, producer, inflight, consumer>>
        /\ UNCHANGED <<tick, accepted, confirmed>>
    BY <1>15 DEF Deliver, SendFront, UnsafeAdvance, Front
  <2>2. HeapInv' /\ ClockInv'
    BY <1>0, <2>1 DEF HeapInv, ClockInv
  <2>3. /\ delivered \in Seq(Item) /\ pendingQueue \in Seq(Item) /\ confirmed \in Seq(Item)
    BY <1>0 DEF TypeOK
  <2>4. pendingQueue[1] \in Item
    BY <2>1, <2>3
  <2>5. Stream' = Stream /\ Horizon' = Horizon
    BY <2>1, <2>3, <2>4, Concatenations DEF Stream, Horizon
  <2>6. StreamInv'
    BY <1>0, <1>s, <1>t, <2>1, <2>5, StreamKept
  <2> QED
    BY <1>t, <2>2, <2>6 DEF IInv
<1>16. CASE Interrupt
  BY <1>16, <1>q DEF Interrupt
<1>17. CASE CloseCancel
  BY <1>17, <1>q DEF CloseCancel
<1>18. CASE CloseFinish
  BY <1>18, <1>q DEF CloseFinish
<1>19. CASE Terminated
  BY <1>19, <1>1 DEF Terminated
<1> QED
  BY <1>1, <1>2, <1>3, <1>4, <1>5, <1>6, <1>7, <1>8, <1>9, <1>10, <1>11, <1>12, <1>13,
     <1>14, <1>15, <1>16, <1>17, <1>18, <1>19 DEF Next, Producer, Consumer, User

(* The delivered items are the start of the stream. *)
PrefixInv ==
  /\ Len(delivered) \in Nat
  /\ 1..Len(delivered) \subseteq 1..Len(Stream)
  /\ \A i \in 1..Len(delivered) : delivered[i] = Stream[i]

(* What the user has received is the beginning of the stream. *)
LEMMA DeliveredPrefix == TypeOK => PrefixInv
<1> SUFFICES ASSUME TypeOK PROVE PrefixInv
  OBVIOUS
<1>1. delivered \in Seq(Item) /\ pendingQueue \in Seq(Item) /\ confirmed \in Seq(Item)
  BY DEF TypeOK
<1>2. Len(delivered) \in Nat /\ Len(pendingQueue) \in Nat /\ Len(confirmed) \in Nat
  BY <1>1
<1>3. /\ delivered \o pendingQueue \in Seq(Item)
      /\ Len(delivered \o pendingQueue) = Len(delivered) + Len(pendingQueue)
      /\ \A i \in 1..Len(delivered) : (delivered \o pendingQueue)[i] = delivered[i]
  BY <1>1, <1>2, ConcatProperties
<1>4. /\ Len(Stream) = Len(delivered) + Len(pendingQueue) + Len(confirmed)
      /\ \A i \in 1..Len(delivered \o pendingQueue) : Stream[i] = (delivered \o pendingQueue)[i]
  BY <1>1, <1>2, <1>3, ConcatProperties DEF Stream
<1> QED
  BY <1>2, <1>3, <1>4 DEF PrefixInv

(* The invariant says what the user is promised. *)
LEMMA InvImplies == IInv => DeliveredInOrder /\ NothingUnconfirmed /\ WatermarkComplete
<1> SUFFICES ASSUME IInv
             PROVE  DeliveredInOrder /\ NothingUnconfirmed /\ WatermarkComplete
  OBVIOUS
<1>1. TypeOK /\ ClockInv /\ StreamInv
  BY DEF IInv
<1>2. /\ Len(delivered) \in Nat
      /\ 1..Len(delivered) \subseteq 1..Len(Stream)
      /\ \A i \in 1..Len(delivered) : delivered[i] = Stream[i]
  BY <1>1, DeliveredPrefix DEF PrefixInv
<1>3. DeliveredInOrder
  BY <1>1, <1>2 DEF DeliveredInOrder, StreamInv, Sorted
<1>4. NothingUnconfirmed
  <2>1. Stream \in Seq(Item) /\ Horizon \in Nat /\ walTick \in Nat
    BY <1>1, StreamType DEF TypeOK
  <2>2. Horizon <= walTick
    <3>1. consumer = "drain" => tick # NoMsg
      BY <1>1 DEF TypeOK
    <3> QED
      BY <1>1, <3>1 DEF Horizon, ClockInv
  <2>3. \A i \in 1..Len(Stream) : ItemTT(Stream[i]) \in Nat /\ ItemTT(Stream[i]) <= Horizon
    BY <1>1, <2>1, ItemTypes DEF StreamInv, Below
  <2> QED
    BY <1>2, <2>1, <2>2, <2>3 DEF NothingUnconfirmed
<1>5. WatermarkComplete
  <2> SUFFICES ASSUME NEW i \in 1..Len(delivered), IsTimeTick(delivered[i].head),
                      NEW m \in accepted, Txn(m) = NoTxn, TT(m) < ItemTT(delivered[i])
               PROVE  \E j \in 1..(i - 1) : delivered[j].head = m
    BY DEF WatermarkComplete
  <2>1. PICK j \in 1..(i - 1) : Stream[j].head = m
    BY <1>1, <1>2 DEF StreamInv, Watermarks
  <2>2. j \in 1..Len(delivered)
    BY <1>2
  <2> QED
    BY <1>2, <2>1, <2>2
<1> QED
  BY <1>3, <1>4, <1>5

(* The invariant holds in every reachable state, for every log. *)
LEMMA Invariance == Spec => []IInv
  BY InitInv, NextInv, PTL DEF Spec

(* Items reach the user in time tick order, whatever order the log delivers
   messages in: the reorder buffer does what its comment says. *)
THEOREM InOrder == Spec => []DeliveredInOrder
  BY Invariance, InvImplies, PTL

(* Nothing reaches the user before a time tick of the log confirms it. *)
THEOREM Confirmed == Spec => []NothingUnconfirmed
  BY Invariance, InvImplies, PTL

(* A time tick the user receives is a watermark over the messages outside
   transactions: none the buffer took from below it is still to come. *)
THEOREM Watermark == Spec => []WatermarkComplete
  BY Invariance, InvImplies, PTL

-----------------------------------------------------------------------------
(* Refinement of OrderedStream.  Only a push that is not refused changes the
   taken messages, only Deliver the output, and only the user's steps close
   the stream. *)
Stopped == user \notin {"opened", "reading"}

(* A new scanner is an empty ordered stream. *)
LEMMA RefineInit == Init => Promise!Init
  BY DEF Init, Promise!Init

(* Every step of the scanner is a step of the ordered stream, or none. *)
LEMMA RefineNext ==
  IInv /\ IInv' /\ [Next]_vars => [Promise!Next]_<<accepted, delivered, Stopped>>
<1> SUFFICES ASSUME IInv, IInv', [Next]_vars,
                    <<accepted, delivered, Stopped>>' # <<accepted, delivered, Stopped>>
             PROVE  Promise!Next
  OBVIOUS
<1> USE DEF walVars, userVars, bufferVars, reorderVars, txnVars, pendingVars
<1> USE DEF Promise!TT, Promise!ItemTT, Promise!Txn, Promise!Type, Promise!IsTimeTick,
            TT, ItemTT, Txn, Type, IsTimeTick
<1>0. TypeOK /\ StreamInv
  BY DEF IInv
<1>p. /\ Len(delivered) \in Nat /\ Stream \in Seq(Item)
      /\ 1..Len(delivered) \subseteq 1..Len(Stream)
      /\ \A i \in 1..Len(delivered) : delivered[i] = Stream[i]
  BY <1>0, DeliveredPrefix, StreamType DEF PrefixInv
<1>1. CASE HandOver
  <2>1. UNCHANGED <<delivered, user>> /\ accepted' # accepted
    BY <1>1 DEF HandOver, Stopped
  <2>2. /\ ~Refused(inflight) /\ accepted' = accepted \cup {inflight}
        /\ consumer = "select" /\ inflight \in Msg
    BY <1>0, <1>1, <2>1 DEF HandOver, handleUpstream, TypeOK
  <2>3. \A i \in 1..Len(Stream) : ItemTT(Stream[i]) \in Nat
    BY <1>p, ItemTypes
  <2>4. \A i \in 1..Len(Stream) : ItemTT(Stream[i]) <= lastPopTimeTick
    BY <1>0, <2>2 DEF StreamInv, Below, Horizon
  <2>5. lastPopTimeTick <= TT(inflight) /\ lastPopTimeTick \in Nat /\ TT(inflight) \in Nat
    BY <1>0, <2>2, MessageTypes DEF Refused, TypeOK
  <2>6. \A i \in 1..Len(delivered) : ItemTT(delivered[i]) <= TT(inflight)
    BY <1>p, <2>3, <2>4, <2>5
  <2>7. Promise!Take(inflight)
    BY <2>1, <2>2, <2>6 DEF Promise!Take, Stopped
  <2> QED
    BY <2>2, <2>7 DEF Promise!Next
<1>2. CASE Deliver
  <2>1. /\ user = "reading" /\ accepted' = accepted /\ delivered' = Append(delivered, Front)
        /\ pendingQueue # << >> /\ Front = pendingQueue[1]
    BY <1>2 DEF Deliver, SendFront, Front
  <2>2. delivered \in Seq(Item) /\ pendingQueue \in Seq(Item) /\ Front \in Item
    BY <1>0, <2>1 DEF TypeOK
  <2>3. /\ Len(delivered') = Len(delivered) + 1
        /\ delivered'[Len(delivered')] = Front
        /\ \A i \in 1..Len(delivered) : delivered'[i] = delivered[i]
    BY <1>p, <2>1, <2>2
  <2> DEFINE n == Len(delivered) + 1
  <2>4. DeliveredInOrder' /\ WatermarkComplete' /\ StreamInv' /\ TypeOK'
    BY InvImplies, PTL DEF IInv
  <2>5. n \in 1..Len(delivered') /\ \A k \in 1..Len(delivered) : k \in 1..Len(delivered') /\ k <= n
    BY <1>p, <2>3
  <2>6. \A k \in 1..Len(delivered) : ItemTT(delivered[k]) <= ItemTT(Front)
    <3> SUFFICES ASSUME NEW k \in 1..Len(delivered)
                 PROVE  ItemTT(delivered[k]) <= ItemTT(Front)
      OBVIOUS
    <3>1. ItemTT(delivered'[k]) <= ItemTT(delivered'[n])
      BY <2>4, <2>5 DEF DeliveredInOrder
    <3> QED
      BY <2>3, <3>1
  <2>7. Txn(Front.head) # NoTxn => Type(Front.head) = "CommitTxn"
    <3>1. n \in 1..Len(Stream') /\ Stream'[n] = delivered'[n]
      <4>1. PrefixInv'
        BY <2>4, DeliveredPrefix, PTL
      <4> QED
        BY <2>5, <4>1 DEF PrefixInv
    <3> QED
      BY <2>3, <2>4, <3>1 DEF StreamInv, Committed
  <2>8. IsTimeTick(Front.head) =>
          \A m \in accepted : (Txn(m) = NoTxn /\ TT(m) < ItemTT(Front)) =>
            \E k \in 1..Len(delivered) : delivered[k].head = m
    <3> SUFFICES ASSUME IsTimeTick(Front.head), NEW m \in accepted, Txn(m) = NoTxn,
                        TT(m) < ItemTT(Front)
                 PROVE  \E k \in 1..Len(delivered) : delivered[k].head = m
      OBVIOUS
    <3>1. PICK k \in 1..(n - 1) : delivered'[k].head = m
      BY <2>1, <2>3, <2>4, <2>5 DEF WatermarkComplete
    <3> QED
      BY <1>p, <2>3, <3>1
  <2>9. Promise!Emit
    BY <2>1, <2>3, <2>6, <2>7, <2>8 DEF Promise!Emit, Stopped
  <2> QED
    BY <2>9 DEF Promise!Next
<1>3. ASSUME UNCHANGED <<accepted, delivered>>, user' \notin {"opened", "reading"}
      PROVE  Promise!Next
  BY <1>3 DEF Promise!Next, Promise!Stop, Stopped
<1>4. CASE ParseLimit
  BY <1>3, <1>4 DEF ParseLimit, Stopped
<1>5. CASE Interrupt \/ CloseCancel \/ CloseFinish
  BY <1>3, <1>5 DEF Interrupt, CloseCancel, CloseFinish, Stopped
<1>6. CASE Producer
  BY <1>6 DEF Producer, ProducerCancelled, CreateReader, BackoffWake, WalFails, Receive, Stopped
<1>7. CASE Consumer
  BY <1>7 DEF Consumer, ConsumerCancelled, DrainEnd, TickEnd, CloseStream, DrainOne, ClearOne, Stopped
<1>8. CASE Terminated \/ UNCHANGED vars
  BY <1>8 DEF Terminated, vars, Stopped
<1> QED
  BY <1>1, <1>2, <1>4, <1>5, <1>6, <1>7, <1>8 DEF Next, User

(* The scanner with its three goroutines and three buffers implements the
   ordered stream that its reader relies on. *)
THEOREM Refinement == Spec => PromiseSpec
<1>1. Init => Promise!Init
  BY RefineInit
<1>2. IInv /\ IInv' /\ [Next]_vars => [Promise!Next]_<<accepted, delivered, Stopped>>
  BY RefineNext
<1> QED
  BY <1>1, <1>2, Invariance, PTL DEF Spec, PromiseSpec, Promise!Spec, Stopped

-----------------------------------------------------------------------------
(***************************************************************************)
(* The buffers.  On top of the invariant above: back pressure, release of  *)
(* the log's resources, the selection of messages, expiry of transactions, *)
(* repeated messages, and that transactions are shown whole or not at all. *)
(***************************************************************************)

(* The steps of the scanner as the buffers see them.  Quiet steps leave them
   alone; delivering an item is one, for the stream stays what it is. *)
Quiet ==
  /\ UNCHANGED <<messageHeap, accepted, builders, lastPopTimeTick, tick>>
  /\ Stream' = Stream
  /\ consumer' = consumer \/ {consumer, consumer'} \subseteq {"select", "ending", "closed"}
  /\ consumer' = "select" => consumer = "select"

PushStep(m) ==
  /\ consumer = "select" /\ consumer' = "select"
  /\ m \in FilterFunc /\ ~IsTimeTick(m) /\ ~OtherVChannel(m)
  /\ lastPopTimeTick <= TT(m)
  /\ messageHeap' = messageHeap \cup {m} /\ accepted' = accepted \cup {m}
  /\ UNCHANGED <<builders, lastPopTimeTick, tick>>
  /\ Stream' = Stream

TickStart ==
  /\ consumer = "select" /\ consumer' = "drain"
  /\ tick' \in FilterFunc /\ IsTimeTick(tick')
  /\ UNCHANGED <<messageHeap, accepted, builders, lastPopTimeTick>>
  /\ Stream' = Stream

(* Every step is one of these, or a turn of a loop of the consumer. *)
LEMMA StepKinds ==
  ASSUME IInv, [Next]_vars
  PROVE  \/ Quiet \/ TickStart \/ DrainEnd \/ TickEnd
         \/ \E m \in Msg : PushStep(m) \/ DrainOne(m)
         \/ \E t \in TxnID : ClearOne(t)
<1> USE DEF walVars, userVars, bufferVars, reorderVars, txnVars, pendingVars
<1>0. /\ TypeOK
      /\ delivered \in Seq(Item) /\ pendingQueue \in Seq(Item) /\ confirmed \in Seq(Item)
      /\ lastPopTimeTick \in Nat
  BY DEF IInv, TypeOK
<1>q. ASSUME UNCHANGED <<bufferVars, delivered>>,
             consumer' = consumer
               \/ (consumer' \in {"ending", "closed"} /\ consumer \in {"select", "ending"})
      PROVE  Quiet
  BY <1>q DEF Quiet, Stream
<1>1. CASE UNCHANGED vars \/ Terminated
  BY <1>1, <1>q DEF vars, Terminated
<1>2. CASE Producer
  BY <1>2, <1>q DEF Producer, ProducerCancelled, CreateReader, BackoffWake, WalFails, Receive
<1>3. CASE ConsumerCancelled \/ CloseStream
  BY <1>3, <1>q DEF ConsumerCancelled, CloseStream
<1>4. CASE User
  BY <1>4, <1>q DEF User, ParseLimit, Interrupt, CloseCancel, CloseFinish
<1>5. CASE Deliver
  <2>1. /\ pendingQueue # << >> /\ pendingQueue' = Tail(pendingQueue)
        /\ delivered' = Append(delivered, pendingQueue[1])
        /\ UNCHANGED <<messageHeap, accepted, builders, lastPopTimeTick, tick, confirmed>>
        /\ consumer' = consumer
    BY <1>5 DEF Deliver, SendFront, UnsafeAdvance, Front
  <2>2. pendingQueue[1] \in Item
    BY <1>0, <2>1
  <2>3. Stream' = Stream
    BY <1>0, <2>1, <2>2, Concatenations DEF Stream
  <2> QED
    BY <2>1, <2>3 DEF Quiet
<1>6. CASE HandOver
  <2> DEFINE m == inflight
  <2>1. /\ m \in Msg /\ TT(m) \in Nat /\ consumer = "select"
        /\ handleUpstream(m) /\ UNCHANGED delivered
    BY <1>0, <1>6, MessageTypes DEF HandOver, TypeOK
  <2>2. CASE UNCHANGED <<consumer, bufferVars>>
    BY <1>q, <2>1, <2>2
  <2>3. CASE /\ m \in FilterFunc /\ IsTimeTick(m) /\ consumer' = "drain" /\ tick' = m
             /\ UNCHANGED <<accepted, reorderVars, txnVars, pendingVars>>
    BY <2>1, <2>3 DEF TickStart, Stream
  <2>4. CASE /\ m \in FilterFunc /\ ~IsTimeTick(m) /\ ~OtherVChannel(m) /\ Push(m)
             /\ accepted' = IF Refused(m) THEN accepted ELSE accepted \cup {m}
             /\ UNCHANGED <<consumer, tick, txnVars, pendingVars>>
    <3>1. CASE Refused(m)
      BY <1>q, <2>1, <2>4, <3>1 DEF Push
    <3>2. CASE ~Refused(m)
      <4>1. lastPopTimeTick <= TT(m)
        BY <1>0, <2>1, <3>2 DEF Refused
      <4>2. PushStep(m)
        BY <2>1, <2>4, <3>2, <4>1 DEF PushStep, Push, Stream
      <4> QED
        BY <2>1, <4>2
    <3> QED
      BY <3>1, <3>2
  <2> QED
    BY <2>1, <2>2, <2>3, <2>4 DEF handleUpstream
<1> QED
  BY <1>1, <1>2, <1>3, <1>4, <1>5, <1>6 DEF Next, Consumer

(* What handling a popped message does to the transactions and the stream. *)
LEMMA DrainKinds ==
  ASSUME IInv, NEW m \in Msg, DrainOne(m)
  PROVE  LET t == Txn(m) IN
         /\ consumer = "drain" /\ consumer' = "drain"
         /\ m \in messageHeap /\ messageHeap' = messageHeap \ {m}
         /\ \A n \in messageHeap : TT(m) <= TT(n)
         /\ TT(m) <= TT(tick) /\ ~IsTimeTick(m)
         /\ UNCHANGED <<accepted, lastPopTimeTick, tick>>
         /\ t # NoTxn => t \in TxnID
         /\ \/ /\ t = NoTxn
               /\ builders' = builders /\ Stream' = Append(Stream, Plain(m))
            \/ /\ t # NoTxn /\ (Type(m) = "BeginTxn" \/ ~Open(t))
               /\ builders' = builders /\ Stream' = Stream
               /\ Type(m) = "BeginTxn" => Open(t)
            \/ /\ t # NoTxn /\ ~Open(t) /\ Type(m) = "BeginTxn"
               /\ builders' = [builders EXCEPT ![t] = NewImmutableTxnMessageBuilder(m)]
               /\ Stream' = Stream
            \/ /\ t # NoTxn /\ Open(t) /\ Type(m) = "Data"
               /\ builders' = [builders EXCEPT ![t] = Add(builders[t], m)]
               /\ Stream' = Stream
            \/ /\ t # NoTxn /\ Open(t) /\ Type(m) \in {"CommitTxn", "RollbackTxn"}
               /\ builders' = [builders EXCEPT ![t] = NoBuilder]
               /\ Stream' = Stream
            \/ /\ t # NoTxn /\ Open(t) /\ Type(m) = "CommitTxn"
               /\ builders' = [builders EXCEPT ![t] = NoBuilder]
               /\ Build(builders[t], m) \in Item
               /\ Stream' = Append(Stream, Build(builders[t], m))
<1> USE DEF walVars, userVars, bufferVars, reorderVars, txnVars, pendingVars
<1> DEFINE t == Txn(m)
<1>0. /\ TypeOK
      /\ delivered \in Seq(Item) /\ pendingQueue \in Seq(Item) /\ confirmed \in Seq(Item)
      /\ builders \in [TxnID -> Builder]
  BY DEF IInv, TypeOK
<1>1. /\ consumer = "drain" /\ consumer' = "drain"
      /\ m \in messageHeap /\ messageHeap' = messageHeap \ {m}
      /\ \A n \in messageHeap : TT(m) <= TT(n)
      /\ TT(m) <= TT(tick)
      /\ UNCHANGED <<accepted, lastPopTimeTick, tick, delivered, pendingQueue>>
      /\ HandleImmutableMessage(m)
  BY DEF DrainOne, PopMin, TakeOut
<1>2. ~IsTimeTick(m)
  BY <1>1 DEF IInv, HeapInv
<1>3. t # NoTxn => t \in TxnID
  BY MessageTypes
<1>4. confirmed' = confirmed => Stream' = Stream
  BY <1>1 DEF Stream
<1>5. \A x \in Item : confirmed' = Append(confirmed, x) => Stream' = Append(Stream, x)
  BY <1>0, <1>1, Concatenations DEF Stream
<1>6. Type(m) \in MsgType
  BY MessageAssumption DEF Attributes, Type
<1>7. CASE t = NoTxn
  <2>1. confirmed' = Append(confirmed, Plain(m)) /\ builders' = builders
    BY <1>1, <1>7 DEF HandleImmutableMessage
  <2>2. Plain(m) \in Item
    BY MessageTypes
  <2> QED
    BY <1>1, <1>2, <1>5, <1>7, <2>1, <2>2
<1>8. CASE t # NoTxn /\ Type(m) = "BeginTxn"
  <2>1. handleBeginTxn(m)
    BY <1>1, <1>8 DEF HandleImmutableMessage
  <2> QED
    BY <1>1, <1>2, <1>3, <1>4, <1>8, <2>1 DEF handleBeginTxn
<1>9. CASE t # NoTxn /\ Type(m) = "CommitTxn"
  <2>1. handleCommitTxn(m)
    BY <1>1, <1>9 DEF HandleImmutableMessage
  <2>2. Open(t) => Build(builders[t], m) \in Item
    BY <1>0, <1>3, <1>9, BuilderTypes DEF Open
  <2>3. CASE ~Open(t)
    BY <1>1, <1>2, <1>3, <1>4, <1>9, <2>1, <2>3 DEF handleCommitTxn
  <2>4. CASE Open(t)
    <3>1. /\ builders' = [builders EXCEPT ![t] = NoBuilder]
          /\ confirmed' = Append(confirmed, Build(builders[t], m)) \/ confirmed' = confirmed
      BY <2>1, <2>4 DEF handleCommitTxn, Close
    <3> QED
      BY <1>1, <1>2, <1>3, <1>4, <1>5, <1>9, <2>2, <2>4, <3>1
  <2> QED
    BY <2>3, <2>4
<1>10. CASE t # NoTxn /\ Type(m) = "RollbackTxn"
  <2>1. handleRollbackTxn(m)
    BY <1>1, <1>10 DEF HandleImmutableMessage
  <2> QED
    BY <1>1, <1>2, <1>3, <1>4, <1>10, <2>1 DEF handleRollbackTxn, Close
<1>11. CASE t # NoTxn /\ Type(m) \notin {"BeginTxn", "CommitTxn", "RollbackTxn"}
  <2>1. handleTxnBodyMessage(m)
    BY <1>1, <1>11 DEF HandleImmutableMessage
  <2>2. Type(m) = "Data"
    BY <1>2, <1>6, <1>11 DEF MsgType, IsTimeTick
  <2> QED
    BY <1>1, <1>2, <1>3, <1>4, <1>11, <2>1, <2>2 DEF handleTxnBodyMessage
<1> QED
  BY <1>7, <1>8, <1>9, <1>10, <1>11

(* The end of a time tick appends the tick to the stream, or nothing. *)
LEMMA TickEndKinds ==
  ASSUME IInv, TickEnd
  PROVE  /\ consumer = "clear" /\ consumer' = "select"
         /\ tick \in Msg /\ IsTimeTick(tick) /\ lastPopTimeTick = TT(tick)
         /\ tick' = NoMsg
         /\ Expired(TT(tick)) = {}
         /\ UNCHANGED <<messageHeap, accepted, builders, lastPopTimeTick>>
         /\ Stream' = Stream \/ Stream' = Append(Stream, Plain(tick))
<1> USE DEF walVars, userVars, bufferVars, reorderVars, txnVars, pendingVars
<1>1. /\ consumer = "clear" /\ consumer' = "select" /\ tick' = NoMsg /\ confirmed' = << >>
      /\ pendingQueue' = pendingQueue \o ToQueue /\ delivered' = delivered
      /\ Expired(TT(tick)) = {}
      /\ UNCHANGED <<messageHeap, accepted, builders, lastPopTimeTick>>
  BY DEF TickEnd, AddToPending
<1>2. /\ tick \in Msg /\ IsTimeTick(tick) /\ lastPopTimeTick = TT(tick)
      /\ delivered \in Seq(Item) /\ pendingQueue \in Seq(Item) /\ confirmed \in Seq(Item)
  BY <1>1 DEF IInv, TypeOK, ClockInv
<1>3. Plain(tick) \in Item
  BY <1>2, MessageTypes
<1>4. ToQueue = confirmed => Stream' = Stream
  BY <1>1, <1>2, <1>3, Concatenations DEF Stream
<1>5. ASSUME ToQueue = Append(confirmed, Plain(tick))
      PROVE  Stream' = Append(Stream, Plain(tick))
  <2>1. Append(confirmed, Plain(tick)) \in Seq(Item)
    BY <1>2, <1>3
  <2>2. Stream' = delivered \o (pendingQueue \o Append(confirmed, Plain(tick))) \o << >>
    BY <1>1, <1>5 DEF Stream
  <2>3. @ = delivered \o pendingQueue \o Append(confirmed, Plain(tick))
    BY <1>2, <1>3, <2>1, Concatenations
  <2>4. @ = Append(Stream, Plain(tick))
    BY <1>2, <1>3, Concatenations DEF Stream
  <2> QED
    BY <2>2, <2>3, <2>4
<1> QED
  BY <1>1, <1>2, <1>4, <1>5 DEF ToQueue

-----------------------------------------------------------------------------
(* Back pressure: a time tick is handled only if the queue was not above its
   limit, and the queue does not grow meanwhile. *)
QueueInv == consumer \in {"drain", "clear"} => Len(pendingQueue) <= PendingLimit

(* Every step keeps that ... *)
LEMMA QueueNext == TypeOK /\ QueueInv /\ [Next]_vars => QueueInv'
<1> SUFFICES ASSUME TypeOK, QueueInv, [Next]_vars PROVE QueueInv'
  OBVIOUS
<1> USE DEF walVars, userVars, bufferVars, reorderVars, txnVars, pendingVars
<1>1. CASE HandOver
  BY <1>1 DEF HandOver, handleUpstream, UpstreamRead, QueueInv
<1>2. CASE Deliver
  BY <1>2 DEF Deliver, SendFront, QueueInv
<1>3. CASE Consumer
  BY <1>3 DEF Consumer, ConsumerCancelled, DrainEnd, TickEnd, CloseStream, DrainOne, ClearOne,
              QueueInv
<1>4. CASE Producer
  BY <1>4 DEF Producer, ProducerCancelled, CreateReader, BackoffWake, WalFails, Receive, QueueInv
<1>5. CASE User \/ Terminated \/ UNCHANGED vars
  BY <1>5 DEF User, ParseLimit, Interrupt, CloseCancel, CloseFinish, Terminated, vars, QueueInv
<1> QED
  BY <1>1, <1>2, <1>3, <1>4, <1>5 DEF Next

(* ... and only the end of a time tick makes the queue longer. *)
LEMMA QueueGrows ==
  TypeOK /\ QueueInv /\ [Next]_vars =>
    [Len(pendingQueue') > Len(pendingQueue) => Len(pendingQueue) <= PendingLimit]_vars
<1> SUFFICES ASSUME TypeOK, QueueInv, Next
             PROVE  Len(pendingQueue') > Len(pendingQueue) => Len(pendingQueue) <= PendingLimit
  OBVIOUS
<1> USE DEF walVars, userVars, bufferVars, reorderVars, txnVars, pendingVars
<1>0. pendingQueue \in Seq(Item) /\ Len(pendingQueue) \in Nat
  BY DEF TypeOK
<1>1. CASE TickEnd
  BY <1>1 DEF TickEnd, QueueInv
<1>2. CASE Deliver
  <2>1. pendingQueue # << >> /\ pendingQueue' = Tail(pendingQueue)
    BY <1>2 DEF Deliver, SendFront, UnsafeAdvance
  <2>2. Len(Tail(pendingQueue)) < Len(pendingQueue) /\ Len(Tail(pendingQueue)) \in Nat
    BY <1>0, <2>1
  <2> QED
    BY <1>0, <2>1, <2>2
<1>3. ASSUME pendingQueue' = pendingQueue
      PROVE  ~(Len(pendingQueue') > Len(pendingQueue))
  BY <1>0, <1>3
<1>4. CASE HandOver \/ Producer \/ User \/ Terminated
  BY <1>3, <1>4 DEF HandOver, handleUpstream, Producer, ProducerCancelled, CreateReader,
     BackoffWake, WalFails, Receive, User, ParseLimit, Interrupt, CloseCancel, CloseFinish,
     Terminated, vars
<1>5. CASE Consumer /\ ~TickEnd
  BY <1>3, <1>5 DEF Consumer, ConsumerCancelled, DrainEnd, CloseStream, DrainOne, ClearOne
<1> QED
  BY <1>1, <1>2, <1>4, <1>5 DEF Next

(* However many messages wait upstream, the pending queue grows only from at
   most its limit: it never exceeds it by more than one time tick's items. *)
THEOREM BackPressureHolds == Spec => BackPressure
<1>1. Init => QueueInv
  BY DEF Init, QueueInv
<1> QED
  BY <1>1, QueueNext, QueueGrows, TypeCorrect, PTL DEF Spec, BackPressure

-----------------------------------------------------------------------------
(* Closing: the scanner's goroutines stop in this order, producer, consumer,
   command, and the last of them releases the resources. *)
StopOrder ==
  /\ cleanups = IF user = "closed" THEN 1 ELSE 0
  /\ user = "closed" => consumer = "closed"
  /\ consumer = "closed" => producer = "done"

(* The resources of the log are released once, and only when neither the
   producer nor the consumer goroutine can touch them any more. *)
THEOREM ReleasedLast == Spec => []ReleaseAfterStop
<1>1. Init => StopOrder
  BY DEF Init, StopOrder
<1>2. StopOrder /\ [Next]_vars => StopOrder'
  <2> SUFFICES ASSUME StopOrder, [Next]_vars PROVE StopOrder'
    OBVIOUS
  <2> USE DEF walVars, userVars, bufferVars, reorderVars, txnVars, pendingVars, StopOrder
  <2>1. CASE Producer
    BY <2>1 DEF Producer, ProducerCancelled, CreateReader, BackoffWake, WalFails, Receive
  <2>2. CASE Consumer
    BY <2>2 DEF Consumer, ConsumerCancelled, DrainEnd, TickEnd, CloseStream, DrainOne, ClearOne
  <2>3. CASE HandOver
    BY <2>3 DEF HandOver, handleUpstream
  <2>4. CASE Deliver
    BY <2>4 DEF Deliver, SendFront
  <2>5. CASE User
    BY <2>5 DEF User, ParseLimit, Interrupt, CloseCancel, CloseFinish
  <2>6. CASE Terminated \/ UNCHANGED vars
    BY <2>6 DEF Terminated, vars
  <2> QED
    BY <2>1, <2>2, <2>3, <2>4, <2>5, <2>6 DEF Next
<1>3. StopOrder => ReleaseAfterStop
  BY DEF StopOrder, ReleaseAfterStop
<1> QED
  BY <1>1, <1>2, <1>3, PTL DEF Spec

-----------------------------------------------------------------------------
(* What may go in.  The messages a reader of ReadVChannel asked for: *)
Selected ==
  {m \in FilterFunc : \/ IsTimeTick(m)
                      \/ ReadVChannel = NoChannel
                      \/ Meta[m].vchannel \in {NoChannel, ReadVChannel}}

SelectedItem(i) == Carried(i) \subseteq Selected

(* Only they are in the heap, in open transactions and in the stream. *)
SelectedInv ==
  /\ messageHeap \subseteq Selected
  /\ tick # NoMsg => tick \in Selected
  /\ \A t \in TxnID : \A k \in 1..Len(builders[t].msgs) : builders[t].msgs[k] \in Selected
  /\ \A i \in 1..Len(Stream) : SelectedItem(Stream[i])

(* The elements of a sequence with one more. *)
LEMMA AppendElements ==
  ASSUME NEW S, NEW s \in Seq(S), NEW x \in S
  PROVE  /\ Append(s, x) \in Seq(S) /\ Len(Append(s, x)) = Len(s) + 1 /\ Len(s) \in Nat
         /\ \A k \in 1..Len(s) : Append(s, x)[k] = s[k]
         /\ Append(s, x)[Len(s) + 1] = x
         /\ \A k \in 1..Len(Append(s, x)) : k \in 1..Len(s) \/ k = Len(s) + 1
  BY AppendProperties, LenProperties

(* The elements of a sequence without its first one. *)
LEMMA ElementsOfTail ==
  ASSUME NEW S, NEW s \in Seq(S), s # << >>
  PROVE  /\ Tail(s) \in Seq(S) /\ Len(Tail(s)) = Len(s) - 1 /\ Len(s) \in Nat \ {0}
         /\ \A k \in 1..Len(Tail(s)) : Tail(s)[k] = s[k + 1] /\ k + 1 \in 1..Len(s)
         /\ s[1] \in S
  OBVIOUS

(* Every step of the scanner keeps to the selection. *)
LEMMA SelectedNext == IInv /\ SelectedInv /\ [Next]_vars => SelectedInv'
<1> SUFFICES ASSUME IInv, SelectedInv, [Next]_vars PROVE SelectedInv'
  OBVIOUS
<1>s. Stream \in Seq(Item) /\ builders \in [TxnID -> Builder]
      /\ \A t \in TxnID : builders[t].msgs \in Seq(Msg)
  BY StreamType DEF IInv, TypeOK, Builder
<1>p. ASSUME NEW m \in Selected PROVE SelectedItem(Plain(m))
  BY DEF SelectedItem, Carried, Plain
<1>a. ASSUME NEW x \in Item, SelectedItem(x), Stream' = Append(Stream, x)
      PROVE  \A i \in 1..Len(Stream') : SelectedItem(Stream'[i])
  <2>1. \A i \in 1..Len(Stream) : SelectedItem(Stream[i])
    BY DEF SelectedInv
  <2> QED
    BY <1>a, <1>s, <2>1, AppendElements
<1>b. ASSUME NEW t \in TxnID, NEW b, builders' = [builders EXCEPT ![t] = b],
             \A k \in 1..Len(b.msgs) : b.msgs[k] \in Selected
      PROVE  \A u \in TxnID : \A k \in 1..Len(builders'[u].msgs) : builders'[u].msgs[k] \in Selected
  BY <1>b, <1>s DEF SelectedInv
<1>n. \A k \in 1..Len(NoBuilder.msgs) : NoBuilder.msgs[k] \in Selected
  BY DEF NoBuilder
<1>1. CASE Quiet
  BY <1>1 DEF Quiet, SelectedInv
<1>2. CASE TickStart
  <2>1. tick' \in Selected
    BY <1>2 DEF TickStart, Selected
  <2> QED
    BY <1>2, <2>1 DEF TickStart, SelectedInv
<1>3. CASE DrainEnd
  BY <1>3 DEF DrainEnd, PopEnd, SelectedInv, Stream, txnVars, userVars, pendingVars
<1>4. CASE TickEnd
  <2>1. /\ tick \in Msg /\ tick' = NoMsg
        /\ UNCHANGED <<messageHeap, accepted, builders, lastPopTimeTick>>
        /\ Stream' = Stream \/ Stream' = Append(Stream, Plain(tick))
    BY <1>4, TickEndKinds
  <2>2. tick \in Selected /\ Plain(tick) \in Item
    BY <2>1, MessageTypes, ScannerAssumption DEF SelectedInv
  <2>3. \A i \in 1..Len(Stream') : SelectedItem(Stream'[i])
    BY <1>a, <1>p, <2>1, <2>2 DEF SelectedInv
  <2> QED
    BY <2>1, <2>3 DEF SelectedInv
<1>5. ASSUME NEW m \in Msg, PushStep(m) PROVE SelectedInv'
  <2>1. m \in Selected
    BY <1>5 DEF PushStep, Selected, OtherVChannel
  <2> QED
    BY <1>5, <2>1 DEF PushStep, SelectedInv
<1>6. ASSUME NEW m \in Msg, DrainOne(m) PROVE SelectedInv'
  <2> DEFINE t == Txn(m)
  <2>1. /\ m \in Selected /\ messageHeap' \subseteq Selected
        /\ tick' = tick /\ Plain(m) \in Item
    BY <1>6, DrainKinds, MessageTypes DEF SelectedInv
  <2>2. CASE /\ builders' = builders /\ Stream' = Append(Stream, Plain(m))
    BY <1>a, <1>p, <2>1, <2>2 DEF SelectedInv
  <2>3. CASE builders' = builders /\ Stream' = Stream
    BY <2>1, <2>3 DEF SelectedInv
  <2>4. CASE /\ builders' = [builders EXCEPT ![t] = NewImmutableTxnMessageBuilder(m)]
             /\ t \in TxnID /\ Stream' = Stream
    <3>1. LET b == NewImmutableTxnMessageBuilder(m)
          IN  \A k \in 1..Len(b.msgs) : b.msgs[k] \in Selected
      BY <2>1 DEF NewImmutableTxnMessageBuilder
    <3> QED
      BY <1>b, <2>1, <2>4, <3>1 DEF SelectedInv
  <2>5. CASE /\ builders' = [builders EXCEPT ![t] = Add(builders[t], m)]
             /\ t \in TxnID /\ Stream' = Stream
    <3>1. Add(builders[t], m).msgs = Append(builders[t].msgs, m)
      BY DEF Add
    <3>2. \A k \in 1..Len(Add(builders[t], m).msgs) : Add(builders[t], m).msgs[k] \in Selected
      BY <1>s, <2>1, <2>5, <3>1, AppendElements DEF SelectedInv
    <3> QED
      BY <1>b, <2>1, <2>5, <3>2 DEF SelectedInv
  <2>6. CASE /\ builders' = [builders EXCEPT ![t] = NoBuilder]
             /\ t \in TxnID /\ Stream' = Stream
    BY <1>b, <1>n, <2>1, <2>6 DEF SelectedInv
  <2>7. CASE /\ builders' = [builders EXCEPT ![t] = NoBuilder]
             /\ t \in TxnID /\ Open(t)
             /\ Build(builders[t], m) \in Item
             /\ Stream' = Append(Stream, Build(builders[t], m))
    <3>1. SelectedItem(Build(builders[t], m))
      <4>1. \A k \in 1..Len(Tail(builders[t].msgs)) : Tail(builders[t].msgs)[k] \in Selected
        BY <1>s, <2>7, ElementsOfTail DEF SelectedInv, Open
      <4> QED
        BY <2>1, <4>1 DEF SelectedItem, Carried, Build
    <3> QED
      BY <1>a, <1>b, <1>n, <2>1, <2>7, <3>1 DEF SelectedInv
  <2> QED
    BY <1>6, <2>2, <2>3, <2>4, <2>5, <2>6, <2>7, DrainKinds
<1>7. ASSUME NEW t \in TxnID, ClearOne(t) PROVE SelectedInv'
  <2>1. /\ builders' = [builders EXCEPT ![t] = NoBuilder]
        /\ UNCHANGED <<messageHeap, tick>> /\ Stream' = Stream
    BY <1>7 DEF ClearOne, clearExpiredTxn, Close, Stream, reorderVars, userVars, pendingVars
  <2> QED
    BY <1>b, <1>n, <2>1 DEF SelectedInv
<1> QED
  BY <1>1, <1>2, <1>3, <1>4, <1>5, <1>6, <1>7, StepKinds

(* A new scanner holds nothing. *)
LEMMA InitEmpty ==
  ASSUME Init
  PROVE  /\ messageHeap = {} /\ accepted = {} /\ tick = NoMsg
         /\ Stream = << >> /\ Len(Stream) = 0
         /\ \A t \in TxnID : builders[t] = NoBuilder /\ ~Open(t)
<1>1. Stream = << >>
  BY ConcatEmptySeq, EmptySeq DEF Init, NewTxnBuffer, NewPendingQueue, Stream
<1> QED
  BY <1>1 DEF Init, NewReOrderBuffer, NewTxnBuffer, Open, NoBuilder

(* A reader of one vchannel is shown its messages, those of no vchannel and
   time ticks, and nothing the filter rejects, inside transactions too. *)
THEOREM Selection == Spec => []OnlySelected
<1>1. Init => SelectedInv
  BY InitEmpty DEF SelectedInv, NoBuilder
<1>2. SelectedInv => OnlySelected
  BY DEF SelectedInv, OnlySelected, SelectedItem, Selected
<1> QED
  BY <1>1, <1>2, SelectedNext, Invariance, PTL DEF Spec

-----------------------------------------------------------------------------
(* Once its time tick is handled, no transaction that has expired is kept. *)
THEOREM NothingStale == Spec => []NoStaleBuilder
<1>1. Init => NoStaleBuilder
  BY InitEmpty DEF NoStaleBuilder
<1>2. IInv /\ NoStaleBuilder /\ [Next]_vars => NoStaleBuilder'
  <2> SUFFICES ASSUME IInv, NoStaleBuilder, [Next]_vars, consumer' = "select",
                      NEW t \in TxnID, Open(t)'
               PROVE  ExpiredTimeTick(builders'[t]) > lastPopTimeTick'
    BY DEF NoStaleBuilder
  <2>1. CASE Quiet \/ \E m \in Msg : PushStep(m)
    BY <2>1 DEF Quiet, PushStep, NoStaleBuilder, Open, ExpiredTimeTick
  <2>2. CASE TickEnd
    <3>1. /\ Expired(TT(tick)) = {} /\ builders' = builders /\ lastPopTimeTick' = TT(tick)
          /\ TT(tick) \in Nat
      BY <2>2, TickEndKinds, MessageTypes
    <3>2. builders[t].msgs \in Seq(Msg) /\ builders[t].msgs # << >>
      BY <3>1 DEF IInv, TypeOK, Builder, Open
    <3>3. builders[t].msgs[Len(builders[t].msgs)] \in Msg
      BY <3>2
    <3>4. ExpiredTimeTick(builders[t]) \in Nat
      BY <3>3, MessageTypes, TxnAssumption DEF ExpiredTimeTick
    <3>5. ~(ExpiredTimeTick(builders[t]) <= TT(tick))
      BY <3>1, <3>2 DEF Expired, Open
    <3> QED
      BY <3>1, <3>4, <3>5
  <2>3. CASE TickStart \/ DrainEnd
    BY <2>3 DEF TickStart, DrainEnd
  <2>4. CASE (\E m \in Msg : DrainOne(m)) \/ \E u \in TxnID : ClearOne(u)
    BY <2>4 DEF DrainOne, ClearOne
  <2> QED
    BY <2>1, <2>2, <2>3, <2>4, StepKinds
<1> QED
  BY <1>1, <1>2, Invariance, PTL DEF Spec

-----------------------------------------------------------------------------
(* What has been taken and is no longer in the heap has been popped: it is not
   above the horizon or anything in the heap, and was confirmed by a time
   tick, at which the last pop ended. *)
Popped == accepted \ messageHeap
TickAt(x) == \E n \in Msg : IsTimeTick(n) /\ TT(n) = x

PastInv ==
  /\ messageHeap \subseteq accepted
  /\ \A x \in Popped : TT(x) <= Horizon /\ \A h \in messageHeap : TT(x) <= TT(h)
  /\ (consumer # "drain" /\ (Len(Stream) # 0 \/ Popped # {})) => TickAt(lastPopTimeTick)

(* Every step keeps what has been popped below what is to come. *)
LEMMA PastNext == IInv /\ IInv' /\ PastInv /\ [Next]_vars => PastInv'
<1> SUFFICES ASSUME IInv, IInv', PastInv, [Next]_vars PROVE PastInv'
  OBVIOUS
<1>n. /\ lastPopTimeTick \in Nat /\ Horizon \in Nat /\ Horizon' \in Nat
      /\ messageHeap \subseteq Msg /\ accepted \subseteq Msg
      /\ \A m \in Msg : TT(m) \in Nat
  BY StreamType, MessageTypes DEF IInv, TypeOK, Horizon
<1>k. ASSUME UNCHANGED <<messageHeap, accepted>>, Horizon <= Horizon',
             (consumer' # "drain" /\ (Len(Stream') # 0 \/ Popped # {})) => TickAt(lastPopTimeTick')
      PROVE  PastInv'
  BY <1>k, <1>n DEF PastInv, Popped
<1>1. CASE Quiet
  <2>1. Horizon' = Horizon /\ (consumer' = "drain" <=> consumer = "drain")
    BY <1>1 DEF Quiet, Horizon
  <2> QED
    BY <1>1, <1>k, <1>n, <2>1 DEF Quiet, PastInv
<1>2. CASE TickStart
  <2>1. Horizon = lastPopTimeTick /\ Horizon' = TT(tick') /\ lastPopTimeTick' = lastPopTimeTick
    BY <1>2 DEF TickStart, Horizon
  <2>2. lastPopTimeTick' <= TT(tick')
    BY <1>2, ScannerAssumption DEF TickStart, IInv, ClockInv
  <2> QED
    BY <1>2, <1>k, <2>1, <2>2 DEF TickStart
<1>3. CASE DrainEnd
  <2>1. /\ UNCHANGED <<messageHeap, accepted>> /\ lastPopTimeTick' = TT(tick)
        /\ consumer = "drain" /\ consumer' = "clear"
    BY <1>3 DEF DrainEnd, PopEnd
  <2>2. tick \in Msg /\ IsTimeTick(tick)
    BY <2>1 DEF IInv, TypeOK, ClockInv
  <2>3. Horizon' = Horizon
    BY <2>1 DEF Horizon
  <2> QED
    BY <1>k, <1>n, <2>1, <2>2, <2>3 DEF TickAt
<1>4. CASE TickEnd
  <2>1. /\ UNCHANGED <<messageHeap, accepted, lastPopTimeTick>>
        /\ tick \in Msg /\ IsTimeTick(tick) /\ lastPopTimeTick = TT(tick)
        /\ consumer = "clear" /\ consumer' = "select"
    BY <1>4, TickEndKinds
  <2>2. Horizon' = Horizon
    BY <2>1 DEF Horizon
  <2> QED
    BY <1>k, <1>n, <2>1, <2>2 DEF TickAt
<1>5. ASSUME NEW m \in Msg, PushStep(m) PROVE PastInv'
  <2>1. /\ consumer = "select" /\ consumer' = "select" /\ lastPopTimeTick <= TT(m)
        /\ messageHeap' = messageHeap \cup {m} /\ accepted' = accepted \cup {m}
        /\ lastPopTimeTick' = lastPopTimeTick /\ Stream' = Stream
    BY <1>5 DEF PushStep
  <2>2. Horizon = lastPopTimeTick /\ Horizon' = lastPopTimeTick
    BY <2>1 DEF Horizon
  <2>3. Popped' \subseteq Popped /\ messageHeap' \subseteq accepted'
    BY <2>1 DEF Popped, PastInv
  <2>4. ASSUME NEW x \in Popped', NEW h \in messageHeap'
        PROVE  TT(x) <= TT(h)
    <3>1. x \in Msg /\ TT(x) <= lastPopTimeTick /\ (h \in messageHeap => TT(x) <= TT(h))
      BY <1>n, <2>2, <2>3, <2>4 DEF PastInv, Popped
    <3> QED
      BY <1>n, <2>1, <3>1
  <2>5. \A x \in Popped' : TT(x) <= Horizon'
    BY <2>2, <2>3 DEF PastInv
  <2> QED
    BY <2>1, <2>3, <2>4, <2>5 DEF PastInv
<1>6. ASSUME NEW m \in Msg, DrainOne(m) PROVE PastInv'
  <2>1. /\ consumer = "drain" /\ consumer' = "drain"
        /\ m \in messageHeap /\ messageHeap' = messageHeap \ {m}
        /\ \A n \in messageHeap : TT(m) <= TT(n)
        /\ TT(m) <= TT(tick) /\ UNCHANGED <<accepted, tick>>
    BY <1>6, DrainKinds
  <2>2. Horizon = TT(tick) /\ Horizon' = TT(tick)
    BY <2>1 DEF Horizon
  <2>3. Popped' = Popped \cup {m} /\ messageHeap' \subseteq accepted'
    BY <2>1 DEF Popped, PastInv
  <2> QED
    BY <2>1, <2>2, <2>3 DEF PastInv
<1>7. ASSUME NEW t \in TxnID, ClearOne(t) PROVE PastInv'
  <2>1. UNCHANGED <<messageHeap, accepted, lastPopTimeTick, consumer, tick>> /\ Stream' = Stream
    BY <1>7 DEF ClearOne, clearExpiredTxn, Stream, reorderVars, userVars, pendingVars
  <2>2. Horizon' = Horizon
    BY <2>1 DEF Horizon
  <2> QED
    BY <1>k, <1>n, <2>1, <2>2 DEF PastInv
<1> QED
  BY <1>1, <1>2, <1>3, <1>4, <1>5, <1>6, <1>7, StepKinds

(* A new scanner has no past. *)
LEMMA PastInit == Init => PastInv
  BY InitEmpty DEF PastInv, Popped

(* A message can be in the heap again only at the last time tick. *)
LEMMA PushedAgain ==
  ASSUME IInv, PastInv, NEW m \in Msg, PushStep(m), m \in Heads(Stream) \/ m \in Popped
  PROVE  TickAt(TT(m))
<1>1. consumer = "select" /\ lastPopTimeTick <= TT(m) /\ lastPopTimeTick \in Nat /\ TT(m) \in Nat
  BY MessageTypes DEF PushStep, IInv, TypeOK
<1>2. Horizon = lastPopTimeTick
  BY <1>1 DEF Horizon
<1>3. TT(m) <= lastPopTimeTick
  <2>1. CASE m \in Popped
    BY <1>2, <2>1 DEF PastInv
  <2>2. CASE m \in Heads(Stream)
    BY <1>2, <2>2 DEF Heads, ItemTT, IInv, StreamInv, Below
  <2> QED
    BY <2>1, <2>2
<1>4. Len(Stream) # 0 \/ Popped # {}
  BY StreamType DEF Heads, IInv
<1> QED
  BY <1>1, <1>3, <1>4 DEF PastInv

Unrepeated(s) ==
  \A i, j \in 1..Len(s) :
    (i # j /\ s[i].head = s[j].head /\ ~IsTimeTick(s[i].head)) => TickAt(TT(s[i].head))

RepeatInv ==
  /\ \A m \in messageHeap \cap Heads(Stream) : TickAt(TT(m))
  /\ Unrepeated(Stream)

(* An item that is new, or at a time tick, can be put at the end. *)
LEMMA AppendUnrepeated ==
  ASSUME NEW s \in Seq(Item), NEW x \in Item, Unrepeated(s),
         (x.head \in Heads(s) /\ ~IsTimeTick(x.head)) => TickAt(TT(x.head))
  PROVE  Unrepeated(Append(s, x)) /\ Heads(Append(s, x)) = Heads(s) \cup {x.head}
<1> DEFINE a == Append(s, x)
<1>1. /\ Len(a) = Len(s) + 1 /\ Len(s) \in Nat
      /\ \A i \in 1..Len(s) : a[i] = s[i]
      /\ a[Len(s) + 1] = x
      /\ \A i \in 1..Len(a) : i \in 1..Len(s) \/ i = Len(s) + 1
  BY AppendElements
<1> HIDE DEF a
<1>2. \A i \in 1..Len(s) : s[i].head \in Heads(s)
  BY DEF Heads
<1>3. Unrepeated(a)
  BY <1>1, <1>2 DEF Unrepeated
<1>4. Heads(a) = Heads(s) \cup {x.head}
  <2>1. 1..Len(a) = 1..Len(s) \cup {Len(s) + 1}
    BY <1>1
  <2> QED
    BY <1>1, <2>1 DEF Heads
<1> QED
  BY <1>3, <1>4 DEF a

(* Every step keeps repetitions to the time ticks. *)
LEMMA RepeatNext == IInv /\ PastInv /\ RepeatInv /\ [Next]_vars => RepeatInv'
<1> SUFFICES ASSUME IInv, PastInv, RepeatInv, [Next]_vars PROVE RepeatInv'
  OBVIOUS
<1>s. Stream \in Seq(Item)
  BY StreamType DEF IInv
<1>k. ASSUME messageHeap' = messageHeap, Stream' = Stream PROVE RepeatInv'
  BY <1>k DEF RepeatInv
<1>1. CASE Quiet \/ TickStart
  BY <1>1, <1>k DEF Quiet, TickStart
<1>2. CASE DrainEnd \/ \E t \in TxnID : ClearOne(t)
  BY <1>2, <1>k DEF DrainEnd, PopEnd, ClearOne, clearExpiredTxn, Stream, reorderVars, txnVars,
                    userVars, pendingVars
<1>3. CASE TickEnd
  <2>1. /\ tick \in Msg /\ IsTimeTick(tick) /\ messageHeap' = messageHeap
        /\ Stream' = Stream \/ Stream' = Append(Stream, Plain(tick))
        /\ Plain(tick) \in Item /\ Plain(tick).head = tick
    BY <1>3, TickEndKinds, MessageTypes DEF Plain
  <2>2. tick \notin messageHeap
    BY <2>1 DEF IInv, HeapInv
  <2>3. CASE Stream' = Append(Stream, Plain(tick))
    BY <1>s, <2>1, <2>2, <2>3, AppendUnrepeated DEF RepeatInv
  <2> QED
    BY <1>k, <2>1, <2>3
<1>4. ASSUME NEW m \in Msg, PushStep(m) PROVE RepeatInv'
  <2>1. messageHeap' = messageHeap \cup {m} /\ Stream' = Stream
    BY <1>4 DEF PushStep
  <2>2. m \in Heads(Stream) => TickAt(TT(m))
    BY <1>4, PushedAgain
  <2> QED
    BY <2>1, <2>2 DEF RepeatInv
<1>5. ASSUME NEW m \in Msg, DrainOne(m) PROVE RepeatInv'
  <2>1. m \in messageHeap /\ messageHeap' = messageHeap \ {m}
    BY <1>5, DrainKinds
  <2>2. Stream' = Stream \/ \E x \in Item : x.head = m /\ Stream' = Append(Stream, x)
    <3>1. Plain(m) \in Item /\ Plain(m).head = m /\ \A b : Build(b, m).head = m
      BY MessageTypes DEF Plain, Build
    <3> QED
      BY <1>5, <3>1, DrainKinds
  <2>3. ASSUME NEW x \in Item, x.head = m, Stream' = Append(Stream, x)
        PROVE  RepeatInv'
    BY <1>s, <2>1, <2>3, AppendUnrepeated DEF RepeatInv
  <2> QED
    BY <2>1, <2>2, <2>3 DEF RepeatInv
<1> QED
  BY <1>1, <1>2, <1>3, <1>4, <1>5, StepKinds

(* Past and present hold together in every reachable state. *)
LEMMA PastInvariance == Spec => []PastInv
  BY PastInit, PastNext, Invariance, PTL DEF Spec

(* The log may repeat what it likes: the user sees a message again only if it
   came back exactly at a time tick that had confirmed it. *)
THEOREM AtMostOnce == Spec => []NoRepeat
<1>1. Init => RepeatInv
  BY InitEmpty DEF RepeatInv, Unrepeated
<1>2. RepeatInv => NoRepeat
  BY DEF RepeatInv, Unrepeated, NoRepeat, Occurrences, TickAt
<1> QED
  BY <1>1, <1>2, RepeatNext, PastInvariance, Invariance, PTL DEF Spec

-----------------------------------------------------------------------------
(* Transactions.  An open builder holds the begin message and exactly the
   bodies popped since, in order, and no rollback was popped since. *)
TxnPopped == {x \in Popped : Txn(x) # NoTxn}
Members(t, b, P) == {x \in P : Txn(x) = t /\ Type(x) = "Data" /\ TT(b) < TT(x)}

BuilderOK(ms, t, P) ==
  ms # << >> =>
    /\ ms[1] \in P /\ Txn(ms[1]) = t /\ Type(ms[1]) = "BeginTxn"
    /\ {ms[k] : k \in 2..Len(ms)} = Members(t, ms[1], P)
    /\ \A j, k \in 2..Len(ms) : j < k => TT(ms[j]) < TT(ms[k])
    /\ \A r \in P : (Txn(r) = t /\ Type(r) = "RollbackTxn") => ~(TT(ms[1]) < TT(r))

(* TxnAtomic for one item, given the messages taken. *)
BodiesIn(A, c) ==
  {m \in A : /\ Txn(m) = Txn(c) /\ Type(m) = "Data" /\ TT(m) < TT(c)
             /\ \E b \in A : Txn(b) = Txn(c) /\ Type(b) = "BeginTxn" /\ TT(b) < TT(m)}
RolledIn(A, c) ==
  \E r \in A : /\ Txn(r) = Txn(c) /\ Type(r) = "RollbackTxn" /\ TT(r) < TT(c)
               /\ \E b \in A : Txn(b) = Txn(c) /\ Type(b) = "BeginTxn" /\ TT(b) < TT(r)
AtomicItem(A, x) ==
  Txn(x.head) # NoTxn =>
    /\ Type(x.head) = "CommitTxn"
    /\ ~RolledIn(A, x.head)
    /\ {x.body[k] : k \in 1..Len(x.body)} = BodiesIn(A, x.head)
    /\ \A j, k \in 1..Len(x.body) : j < k => TT(x.body[j]) < TT(x.body[k])

TxnInv ==
  /\ \A t \in TxnID : BuilderOK(builders[t].msgs, t, TxnPopped)
  /\ \A i \in 1..Len(Stream) : AtomicItem(accepted, Stream[i])

(* A popped message that is no body and no rollback of the transaction does
   not concern its builder. *)
LEMMA BuilderKept ==
  ASSUME NEW ms, NEW t, NEW P, NEW m, BuilderOK(ms, t, P),
         Txn(m) # t \/ Type(m) \notin {"Data", "RollbackTxn"}
  PROVE  BuilderOK(ms, t, P \cup {m})
<1> SUFFICES ASSUME ms # << >> PROVE BuilderOK(ms, t, P \cup {m})
  BY DEF BuilderOK
<1>1. Members(t, ms[1], P \cup {m}) = Members(t, ms[1], P)
  BY DEF Members
<1> QED
  BY <1>1 DEF BuilderOK

(* A message that is taken later than an item was confirmed has no part in
   the item's transaction. *)
LEMMA AtomicKept ==
  ASSUME NEW A \in SUBSET Msg, NEW m \in Msg, NEW x \in Item, AtomicItem(A, x),
         ItemTT(x) <= TT(m)
  PROVE  AtomicItem(A \cup {m}, x)
<1>1. TT(x.head) <= TT(m) /\ x.head \in Msg
  BY DEF ItemTT, Item
<1>2. \A n \in Msg : TT(n) \in Nat
  BY MessageTypes
<1>3. ASSUME NEW n \in A \cup {m}, TT(n) < TT(x.head)
      PROVE  n \in A
  BY <1>1, <1>2, <1>3
<1>4. ASSUME NEW n \in A \cup {m}, NEW b \in A \cup {m}, TT(n) < TT(x.head), TT(b) < TT(n)
      PROVE  b \in A
  BY <1>1, <1>2, <1>4
<1>5. BodiesIn(A \cup {m}, x.head) = BodiesIn(A, x.head)
  BY <1>3, <1>4 DEF BodiesIn
<1>6. RolledIn(A \cup {m}, x.head) => RolledIn(A, x.head)
  BY <1>3, <1>4 DEF RolledIn
<1> QED
  BY <1>5, <1>6 DEF AtomicItem

(* Beginning a transaction: nothing of it was popped after its begin. *)
LEMMA BeginOK ==
  ASSUME NEW P \in SUBSET Msg, NEW m \in Msg, Type(m) = "BeginTxn",
         \A x \in P : TT(x) <= TT(m)
  PROVE  BuilderOK(<<m>>, Txn(m), P \cup {m})
<1>1. \A x \in P \cup {m} : ~(TT(m) < TT(x))
  BY MessageTypes
<1>2. {<<m>>[k] : k \in 2..Len(<<m>>)} = {}
  OBVIOUS
<1> QED
  BY <1>1, <1>2 DEF BuilderOK, Members

(* A body is added behind the ones before it. *)
LEMMA BodyOK ==
  ASSUME UniqueTimeTicks, NEW P \in SUBSET Msg, NEW m \in Msg, m \notin P, NEW ms \in Seq(Msg),
         ms # << >>, Txn(m) # NoTxn, Type(m) = "Data", BuilderOK(ms, Txn(m), P),
         \A x \in P : TT(x) <= TT(m)
  PROVE  BuilderOK(Append(ms, m), Txn(m), P \cup {m})
<1> DEFINE a == Append(ms, m)
<1>1. /\ Len(a) = Len(ms) + 1 /\ Len(ms) \in Nat \ {0}
      /\ \A k \in 1..Len(ms) : a[k] = ms[k] /\ ms[k] \in Msg
      /\ a[Len(ms) + 1] = m
      /\ a # << >>
  OBVIOUS
<1>2. \A k \in 2..Len(ms) : ms[k] \in P /\ Txn(ms[k]) = Txn(m)
  BY DEF BuilderOK, Members
<1>3. ms[1] \in P /\ Txn(ms[1]) = Txn(m) /\ Type(ms[1]) = "BeginTxn"
  BY DEF BuilderOK
<1>4. \A x \in P : Txn(x) = Txn(m) => TT(x) < TT(m)
  BY MessageTypes DEF UniqueTimeTicks
<1> HIDE DEF a
<1>5. a[1] = ms[1]
  BY <1>1
<1>6. 2..Len(a) = 2..Len(ms) \cup {Len(ms) + 1}
  BY <1>1
<1>7. {a[k] : k \in 2..Len(a)} = {ms[k] : k \in 2..Len(ms)} \cup {m}
  BY <1>1, <1>6
<1>8. Members(Txn(m), ms[1], P \cup {m}) = Members(Txn(m), ms[1], P) \cup {m}
  BY <1>3, <1>4 DEF Members
<1>9. ASSUME NEW j \in 2..Len(a), NEW k \in 2..Len(a), j < k
      PROVE  TT(a[j]) < TT(a[k])
  <2>1. j \in 2..Len(ms)
    BY <1>1, <1>9
  <2>2. CASE k = Len(ms) + 1
    BY <1>1, <1>2, <1>4, <2>1, <2>2
  <2>3. CASE k \in 2..Len(ms)
    BY <1>1, <1>9, <2>1, <2>3 DEF BuilderOK
  <2> QED
    BY <1>6, <2>2, <2>3
<1>10. \A r \in P \cup {m} : (Txn(r) = Txn(m) /\ Type(r) = "RollbackTxn") => ~(TT(ms[1]) < TT(r))
  BY DEF BuilderOK
<1>11. {ms[k] : k \in 2..Len(ms)} = Members(Txn(m), ms[1], P)
  BY DEF BuilderOK
<1>12. {a[k] : k \in 2..Len(a)} = Members(Txn(m), a[1], P \cup {m})
  BY <1>5, <1>7, <1>8, <1>11
<1> QED
  BY <1>1, <1>3, <1>5, <1>9, <1>10, <1>12 DEF BuilderOK, a

(* What a commit gives out is the whole transaction. *)
LEMMA CommitOK ==
  ASSUME UniqueTimeTicks, NEW A \in SUBSET Msg, NEW H \in SUBSET A, NEW m \in H,
         NEW b \in Builder, b.msgs # << >>,
         Txn(m) # NoTxn, Type(m) = "CommitTxn",
         BuilderOK(b.msgs, Txn(m), {x \in A \ H : Txn(x) # NoTxn}),
         \A n \in H : TT(m) <= TT(n),
         \A x \in A \ H : TT(x) <= TT(m)
  PROVE  AtomicItem(A, Build(b, m))
<1> DEFINE ms == b.msgs
           P == {x \in A \ H : Txn(x) # NoTxn}
<1>n. \A x \in A : TT(x) \in Nat /\ x \in Msg
  BY MessageTypes
<1>1. ms \in Seq(Msg) /\ Len(ms) \in Nat \ {0}
  BY DEF Builder
<1>2. /\ ms[1] \in P /\ Txn(ms[1]) = Txn(m) /\ Type(ms[1]) = "BeginTxn"
      /\ {ms[k] : k \in 2..Len(ms)} = Members(Txn(m), ms[1], P)
      /\ \A j, k \in 2..Len(ms) : j < k => TT(ms[j]) < TT(ms[k])
      /\ \A r \in P : (Txn(r) = Txn(m) /\ Type(r) = "RollbackTxn") => ~(TT(ms[1]) < TT(r))
  BY DEF BuilderOK
<1>3. \A x \in A : (Txn(x) = Txn(m) /\ Type(x) = "BeginTxn") => x = ms[1]
  BY <1>n, <1>2 DEF UniqueTimeTicks
<1>4. \A x \in A : TT(x) < TT(m) => x \notin H
  BY <1>n
<1>5. \A x \in P : Txn(x) = Txn(m) => TT(x) < TT(m)
  BY <1>n DEF UniqueTimeTicks
<1>6. Members(Txn(m), ms[1], P) = BodiesIn(A, m)
  BY <1>2, <1>3, <1>4, <1>5 DEF Members, BodiesIn
<1>7. ~RolledIn(A, m)
  BY <1>2, <1>3, <1>4 DEF RolledIn
<1>8. /\ Build(b, m).head = m /\ Build(b, m).body = Tail(ms)
  BY DEF Build
<1>9. /\ Len(Tail(ms)) = Len(ms) - 1
      /\ \A k \in 1..Len(Tail(ms)) : Tail(ms)[k] = ms[k + 1] /\ k + 1 \in 2..Len(ms)
  BY <1>1
<1>10. \A k \in 2..Len(ms) : k - 1 \in 1..Len(Tail(ms)) /\ Tail(ms)[k - 1] = ms[k]
  BY <1>1, <1>9
<1>11. {Tail(ms)[k] : k \in 1..Len(Tail(ms))} = {ms[k] : k \in 2..Len(ms)}
  <2>1. ASSUME NEW k \in 1..Len(Tail(ms))
        PROVE  Tail(ms)[k] \in {ms[j] : j \in 2..Len(ms)}
    BY <1>9, Zenon
  <2>2. ASSUME NEW k \in 2..Len(ms)
        PROVE  ms[k] \in {Tail(ms)[j] : j \in 1..Len(Tail(ms))}
    BY <1>10, Zenon
  <2> QED
    BY <2>1, <2>2, Zenon
<1>12. \A j, k \in 1..Len(Tail(ms)) : j < k => TT(Tail(ms)[j]) < TT(Tail(ms)[k])
  BY <1>1, <1>2, <1>9
<1> QED
  BY <1>2, <1>6, <1>7, <1>8, <1>11, <1>12 DEF AtomicItem

(* Every step keeps builders and stream true to the log. *)
LEMMA TxnNext ==
  ASSUME UniqueTimeTicks, IInv, PastInv, TxnInv, [Next]_vars
  PROVE  TxnInv'
<1>s. /\ Stream \in Seq(Item) /\ builders \in [TxnID -> Builder]
      /\ messageHeap \in SUBSET Msg /\ accepted \in SUBSET Msg
      /\ \A t \in TxnID : builders[t].msgs \in Seq(Msg)
  BY StreamType DEF IInv, TypeOK, Builder
<1>m. \A m \in Msg : TT(m) \in Nat
  BY MessageTypes
<1>a. ASSUME NEW x \in Item, AtomicItem(accepted, x), accepted' = accepted,
             Stream' = Append(Stream, x) \/ Stream' = Stream
      PROVE  \A i \in 1..Len(Stream') : AtomicItem(accepted', Stream'[i])
  <2>1. \A i \in 1..Len(Stream) : AtomicItem(accepted, Stream[i])
    BY DEF TxnInv
  <2> QED
    BY <1>a, <1>s, <2>1, AppendElements
<1>k. ASSUME UNCHANGED <<messageHeap, accepted, builders>>, Stream' = Stream PROVE TxnInv'
  BY <1>k DEF TxnInv, TxnPopped, Popped
<1>1. CASE Quiet \/ TickStart
  BY <1>1, <1>k DEF Quiet, TickStart
<1>2. CASE DrainEnd
  BY <1>2, <1>k DEF DrainEnd, PopEnd, Stream, txnVars, userVars, pendingVars
<1>3. CASE TickEnd
  <2>1. /\ tick \in Msg /\ IsTimeTick(tick) /\ UNCHANGED <<messageHeap, accepted, builders>>
        /\ Stream' = Stream \/ Stream' = Append(Stream, Plain(tick))
        /\ Plain(tick) \in Item /\ Plain(tick).head = tick
    BY <1>3, TickEndKinds, MessageTypes DEF Plain
  <2>2. AtomicItem(accepted, Plain(tick))
    BY <2>1, MessageAssumption DEF AtomicItem
  <2>3. \A i \in 1..Len(Stream') : AtomicItem(accepted', Stream'[i])
    BY <1>a, <2>1, <2>2
  <2> QED
    BY <2>1, <2>3 DEF TxnInv, TxnPopped, Popped
<1>4. ASSUME NEW m \in Msg, PushStep(m) PROVE TxnInv'
  <2>1. /\ messageHeap' = messageHeap \cup {m} /\ accepted' = accepted \cup {m}
        /\ builders' = builders /\ Stream' = Stream /\ ~IsTimeTick(m)
        /\ consumer = "select" /\ lastPopTimeTick <= TT(m) /\ lastPopTimeTick \in Nat
    BY <1>4 DEF PushStep, IInv, TypeOK
  <2>2. Txn(m) # NoTxn => ~TickAt(TT(m))
    BY <2>1 DEF TickAt, UniqueTimeTicks
  <2>3. Txn(m) # NoTxn => m \notin Popped
    BY <1>4, <2>2, PushedAgain
  <2>4. TxnPopped' = TxnPopped
    BY <2>1, <2>3 DEF TxnPopped, Popped
  <2>5. ASSUME NEW i \in 1..Len(Stream) PROVE AtomicItem(accepted', Stream[i])
    <3>1. Stream[i] \in Item /\ ItemTT(Stream[i]) \in Nat
      BY <1>s, ItemTypes
    <3>2. ItemTT(Stream[i]) <= lastPopTimeTick
      BY <2>1 DEF IInv, StreamInv, Below, Horizon
    <3>3. ItemTT(Stream[i]) <= TT(m)
      BY <1>m, <2>1, <3>1, <3>2
    <3>4. AtomicItem(accepted, Stream[i])
      BY DEF TxnInv
    <3> QED
      BY <1>s, <2>1, <3>1, <3>3, <3>4, AtomicKept
  <2> QED
    BY <2>1, <2>4, <2>5 DEF TxnInv
<1>5. ASSUME NEW m \in Msg, DrainOne(m) PROVE TxnInv'
  <2> DEFINE t == Txn(m)
             P == TxnPopped
  <2>1. /\ m \in messageHeap /\ messageHeap' = messageHeap \ {m}
        /\ \A n \in messageHeap : TT(m) <= TT(n)
        /\ accepted' = accepted /\ (t # NoTxn => t \in TxnID)
    BY <1>5, DrainKinds
  <2>2. /\ messageHeap \subseteq accepted /\ \A x \in Popped : TT(x) <= TT(m)
    BY <2>1 DEF PastInv
  <2>3. /\ P \in SUBSET Msg /\ m \notin P /\ \A x \in P : TT(x) <= TT(m)
        /\ TxnPopped' = IF t = NoTxn THEN P ELSE P \cup {m}
    BY <1>s, <2>1, <2>2 DEF TxnPopped, Popped
  <2>4. \A u \in TxnID : BuilderOK(builders[u].msgs, u, P)
    BY DEF TxnInv
  <2>5. \A u \in TxnID : u # t => BuilderOK(builders[u].msgs, u, TxnPopped')
    BY <2>3, <2>4, BuilderKept
  <2>6. ASSUME NEW b, t \in TxnID, builders' = [builders EXCEPT ![t] = b],
               BuilderOK(b.msgs, t, TxnPopped')
        PROVE  \A u \in TxnID : BuilderOK(builders'[u].msgs, u, TxnPopped')
    BY <1>s, <2>5, <2>6
  <2>7. \A Q : BuilderOK(NoBuilder.msgs, t, Q)
    BY DEF BuilderOK, NoBuilder
  <2>8. Stream' = Stream => \A i \in 1..Len(Stream') : AtomicItem(accepted', Stream'[i])
    BY <2>1 DEF TxnInv
  <2>9. CASE t = NoTxn /\ builders' = builders /\ Stream' = Append(Stream, Plain(m))
    <3>1. Plain(m) \in Item /\ AtomicItem(accepted, Plain(m))
      BY <2>9, MessageTypes DEF AtomicItem, Plain
    <3>2. \A i \in 1..Len(Stream') : AtomicItem(accepted', Stream'[i])
      BY <1>a, <2>1, <2>9, <3>1
    <3> QED
      BY <2>3, <2>4, <2>9, <3>2 DEF TxnInv
  <2>10. CASE /\ t # NoTxn /\ (Type(m) = "BeginTxn" \/ ~Open(t))
              /\ builders' = builders /\ Stream' = Stream
    <3>1. BuilderOK(builders[t].msgs, t, TxnPopped')
      <4>1. CASE ~Open(t)
        BY <4>1 DEF Open, BuilderOK
      <4>2. CASE Type(m) = "BeginTxn"
        BY <2>1, <2>3, <2>4, <2>10, <4>2, BuilderKept
      <4> QED
        BY <2>10, <4>1, <4>2
    <3> QED
      BY <2>5, <2>8, <2>10, <3>1 DEF TxnInv
  <2>11. CASE /\ t # NoTxn /\ Type(m) = "BeginTxn" /\ Stream' = Stream
              /\ builders' = [builders EXCEPT ![t] = NewImmutableTxnMessageBuilder(m)]
    <3>1. NewImmutableTxnMessageBuilder(m).msgs = <<m>>
      BY DEF NewImmutableTxnMessageBuilder
    <3>2. BuilderOK(<<m>>, t, TxnPopped')
      BY <2>3, <2>11, BeginOK
    <3> QED
      BY <2>1, <2>6, <2>8, <2>11, <3>1, <3>2 DEF TxnInv
  <2>12. CASE /\ t # NoTxn /\ Open(t) /\ Type(m) = "Data" /\ Stream' = Stream
              /\ builders' = [builders EXCEPT ![t] = Add(builders[t], m)]
    <3>1. Add(builders[t], m).msgs = Append(builders[t].msgs, m)
      BY DEF Add
    <3>2. BuilderOK(Append(builders[t].msgs, m), t, P \cup {m})
      BY <1>s, <2>1, <2>3, <2>4, <2>12, BodyOK DEF Open
    <3> QED
      BY <2>1, <2>3, <2>6, <2>8, <2>12, <3>1, <3>2 DEF TxnInv
  <2>13. CASE /\ t # NoTxn /\ Stream' = Stream
              /\ builders' = [builders EXCEPT ![t] = NoBuilder]
    BY <2>1, <2>6, <2>7, <2>8, <2>13 DEF TxnInv
  <2>14. CASE /\ t # NoTxn /\ Open(t) /\ Type(m) = "CommitTxn"
              /\ builders' = [builders EXCEPT ![t] = NoBuilder]
              /\ Build(builders[t], m) \in Item
              /\ Stream' = Append(Stream, Build(builders[t], m))
    <3>1. BuilderOK(builders[t].msgs, t, {x \in accepted \ messageHeap : Txn(x) # NoTxn})
      BY <2>1, <2>4, <2>14 DEF TxnPopped, Popped
    <3>2. \A x \in accepted \ messageHeap : TT(x) <= TT(m)
      BY <2>2 DEF Popped
    <3>3. builders[t] \in Builder /\ builders[t].msgs # << >>
      BY <1>s, <2>1, <2>14 DEF Open
    <3>4. AtomicItem(accepted, Build(builders[t], m))
      BY <1>s, <2>1, <2>2, <2>14, <3>1, <3>2, <3>3, CommitOK
    <3>5. \A i \in 1..Len(Stream') : AtomicItem(accepted', Stream'[i])
      BY <1>a, <2>1, <2>14, <3>4
    <3> QED
      BY <2>1, <2>6, <2>7, <2>14, <3>5 DEF TxnInv
  <2> QED
    BY <1>5, <2>9, <2>10, <2>11, <2>12, <2>13, <2>14, DrainKinds
<1>6. ASSUME NEW t \in TxnID, ClearOne(t) PROVE TxnInv'
  <2>1. /\ builders' = [builders EXCEPT ![t] = NoBuilder]
        /\ UNCHANGED <<messageHeap, accepted>> /\ Stream' = Stream
    BY <1>6 DEF ClearOne, clearExpiredTxn, Close, Stream, reorderVars, userVars, pendingVars
  <2>2. BuilderOK(NoBuilder.msgs, t, TxnPopped)
    BY DEF BuilderOK, NoBuilder
  <2> QED
    BY <1>s, <2>1, <2>2 DEF TxnInv, TxnPopped, Popped
<1> QED
  BY <1>1, <1>2, <1>3, <1>4, <1>5, <1>6, StepKinds

(* Transactions are all or nothing, however their messages are interleaved
   with others, repeated and reordered by the log, and whatever expires: an
   item under a commit message carries exactly the bodies taken between begin
   and commit, in order, and nothing is shown of what was rolled back. *)
THEOREM Atomic == ASSUME UniqueTimeTicks PROVE Spec => []TxnAtomic
<1>1. Init => TxnInv
  BY InitEmpty DEF TxnInv, BuilderOK, NoBuilder
<1>2. IInv /\ PastInv /\ TxnInv /\ [Next]_vars => TxnInv'
  BY TxnNext
<1>3. TxnInv => TxnAtomic
  <2> SUFFICES ASSUME TxnInv, NEW i \in 1..Len(Stream), Txn(Stream[i].head) # NoTxn
               PROVE  LET c == Stream[i].head
                          body == Stream[i].body
                      IN  /\ Type(c) = "CommitTxn"
                          /\ ~RolledBack(c)
                          /\ {body[k] : k \in 1..Len(body)} = Bodies(c)
                          /\ \A j, k \in 1..Len(body) : j < k => TT(body[j]) < TT(body[k])
    BY DEF TxnAtomic
  <2>1. AtomicItem(accepted, Stream[i])
    BY DEF TxnInv
  <2>2. \A c : Bodies(c) = BodiesIn(accepted, c) /\ (RolledBack(c) <=> RolledIn(accepted, c))
    BY DEF Bodies, BodiesIn, RolledBack, RolledIn
  <2> QED
    BY <2>1, <2>2 DEF AtomicItem
<1> QED
  BY <1>1, <1>2, <1>3, Invariance, PastInvariance, PTL DEF Spec

-----------------------------------------------------------------------------
(* The byte counters. *)

(* The sum over a finite set, which Functions defines by a recursion over its
   subsets: which element is taken out first does not matter. *)
Sum(f, S) == Fun!SumFunctionOnSet(f, S)
Any(T) == CHOOSE x \in T : TRUE
Adds(g, f, S) ==
  g = [T \in SUBSET S |-> IF T = {} THEN 0 ELSE f[Any(T)] + g[T \ {Any(T)}]]
LEMMA SumIs == ASSUME NEW f, NEW S PROVE Sum(f, S) = (CHOOSE g : Adds(g, f, S))[S]
  BY Zenon DEF Sum, Fun!SumFunctionOnSet, Fun!FoldFunctionOnSet, Fun!MapThenFoldSet, Adds, Any

(* What is left of a finite set without one of its elements. *)
LEMMA WithoutOne ==
  ASSUME NEW T, NEW n \in Nat, IsFiniteSet(T), Cardinality(T) = n + 1
  PROVE  /\ T # {} /\ Any(T) \in T
         /\ \A x \in T : IsFiniteSet(T \ {x}) /\ Cardinality(T \ {x}) = n
<1>1. T # {}
  BY FS_EmptySet
<1>2. Any(T) \in T
  BY <1>1, Zenon DEF Any
<1>3. ASSUME NEW x \in T PROVE IsFiniteSet(T \ {x}) /\ Cardinality(T \ {x}) = n
  <2>1. IsFiniteSet(T \ {x}) /\ Cardinality(T \ {x}) = Cardinality(T) - 1
    BY FS_RemoveElement, Zenon
  <2> QED BY <2>1
<1> QED BY <1>1, <1>2, <1>3

(* The recursion has a solution on every finite set: by the number of elements. *)
LEMMA SumExists ==
  ASSUME NEW f, NEW S, IsFiniteSet(S)
  PROVE  \E g : Adds(g, f, S)
<1> DEFINE Small(n) == {T \in SUBSET S : Cardinality(T) <= n}
           Val(g, T) == IF T = {} THEN 0 ELSE f[Any(T)] + g[T \ {Any(T)}]
           Def(g, n) == g = [T \in Small(n) |-> Val(g, T)]
           D == {n \in Nat : \E g : Def(g, n)}
<1>0. \A T \in SUBSET S : IsFiniteSet(T) /\ Cardinality(T) \in Nat
  BY FS_Subset, FS_CardinalityType
<1>1. 0 \in D
  <2>1. Small(0) = {{}}
    <3>1. \A T \in SUBSET S : Cardinality(T) = 0 <=> T = {}
      BY <1>0, FS_EmptySet
    <3> QED BY <1>0, <3>1
  <2>2. Def([T \in {{}} |-> 0], 0)
    BY <2>1
  <2> QED BY <2>2
<1>2. ASSUME NEW n \in Nat, n \in D PROVE n + 1 \in D
  <2>1. PICK g : Def(g, n)
    BY <1>2
  <2> DEFINE h == [T \in Small(n + 1) |-> IF T \in Small(n) THEN g[T] ELSE Val(g, T)]
  <2>2. ASSUME NEW T \in Small(n + 1) PROVE h[T] = Val(h, T)
    <3>1. CASE T = {}
      <4>1. T \in Small(n)
        BY <3>1, FS_EmptySet
      <4>2. g[T] = Val(g, T)
        BY <2>1, <4>1
      <4> QED BY <3>1, <4>1, <4>2
    <3>2. CASE T # {}
      <4> DEFINE U == T \ {Any(T)}
      <4>1. Any(T) \in T
        BY <3>2, Zenon DEF Any
      <4>2. U \in SUBSET S /\ Cardinality(U) = Cardinality(T) - 1
        BY <1>0, <4>1, FS_RemoveElement
      <4>3. U \in Small(n) /\ U \in Small(n + 1)
        BY <1>0, <4>2
      <4>4. h[U] = g[U]
        BY <4>3
      <4>5. h[T] = Val(g, T)
        BY <2>1
      <4> HIDE DEF h
      <4> QED BY <3>2, <4>4, <4>5
    <3> QED BY <3>1, <3>2
  <2>3. h = [T \in Small(n + 1) |-> h[T]]
    OBVIOUS
  <2> HIDE DEF h, Val, Small
  <2>4. Def(h, n + 1)
    BY <2>2, <2>3
  <2> HIDE DEF Def
  <2> QED BY <2>4
<1> HIDE DEF D
<1>3. Cardinality(S) \in D
  BY <1>0, <1>1, <1>2, NatSetInduction
<1>4. PICK g : Def(g, Cardinality(S))
  BY <1>3 DEF D
<1>5. Small(Cardinality(S)) = SUBSET S
  BY <1>0, FS_Subset
<1>6. Adds(g, f, S)
  BY <1>4, <1>5 DEF Adds
<1> QED BY <1>6

LEMMA SumAdds ==
  ASSUME NEW f, NEW S, IsFiniteSet(S)
  PROVE  \E g : Adds(g, f, S) /\ Sum(f, S) = g[S]
<1>1. \E g : Adds(g, f, S)
  BY SumExists
<1>2. Adds((CHOOSE g : Adds(g, f, S)), f, S)
  BY <1>1, Zenon
<1>3. Sum(f, S) = (CHOOSE g : Adds(g, f, S))[S]
  BY SumIs
<1> QED BY <1>2, <1>3

(* The sum of a part is the same wherever the part is taken from. *)
LEMMA AddsAgree ==
  ASSUME NEW f, NEW S, NEW U \in SUBSET S, IsFiniteSet(S),
         NEW g, Adds(g, f, S), NEW h, Adds(h, f, U)
  PROVE  \A T \in SUBSET U : g[T] = h[T]
<1> DEFINE D == {n \in Nat : \A T \in SUBSET U : Cardinality(T) = n => g[T] = h[T]}
<1>0. \A T \in SUBSET S : IsFiniteSet(T) /\ Cardinality(T) \in Nat
  BY FS_Subset, FS_CardinalityType
<1>1. 0 \in D
  <2>1. \A T \in SUBSET U : Cardinality(T) = 0 => T = {}
    BY <1>0, FS_EmptySet
  <2>2. g[{}] = 0 /\ h[{}] = 0
    BY DEF Adds
  <2> QED BY <2>1, <2>2
<1>2. ASSUME NEW n \in Nat, n \in D PROVE n + 1 \in D
  <2> SUFFICES ASSUME NEW T \in SUBSET U, Cardinality(T) = n + 1 PROVE g[T] = h[T]
    OBVIOUS
  <2> DEFINE R == T \ {Any(T)}
  <2>1. T # {} /\ Any(T) \in T /\ Cardinality(R) = n
    BY <1>0, WithoutOne
  <2>2. g[R] = h[R]
    <3>1. R \in SUBSET U
      OBVIOUS
    <3> HIDE DEF R
    <3> QED BY <1>2, <2>1, <3>1
  <2>3. g[T] = f[Any(T)] + g[R] /\ h[T] = f[Any(T)] + h[R]
    BY <2>1 DEF Adds
  <2> QED BY <2>2, <2>3
<1> HIDE DEF D
<1>3. \A n \in Nat : n \in D
  BY <1>1, <1>2, NatSetInduction
<1> QED BY <1>0, <1>3 DEF D

LEMMA SumStep ==
  ASSUME NEW f, NEW S, IsFiniteSet(S)
  PROVE  Sum(f, S) = IF S = {} THEN 0 ELSE f[Any(S)] + Sum(f, S \ {Any(S)})
<1> DEFINE R == S \ {Any(S)}
<1>1. PICK g : Adds(g, f, S) /\ Sum(f, S) = g[S]
  BY SumAdds
<1>2. IsFiniteSet(R) /\ R \in SUBSET S
  BY FS_Subset
<1>3. PICK h : Adds(h, f, R) /\ Sum(f, R) = h[R]
  BY <1>2, SumAdds
<1>4. h[R] = g[R]
  BY <1>1, <1>2, <1>3, AddsAgree
<1>5. g[S] = IF S = {} THEN 0 ELSE f[Any(S)] + g[R]
  BY <1>1 DEF Adds
<1> QED BY <1>1, <1>3, <1>4, <1>5

LEMMA SumType ==
  ASSUME NEW U, NEW f \in [U -> Int]
  PROVE  \A S \in SUBSET U : IsFiniteSet(S) => Sum(f, S) \in Int
<1> DEFINE D == {n \in Nat : \A S \in SUBSET U :
                    IsFiniteSet(S) /\ Cardinality(S) = n => Sum(f, S) \in Int}
<1>1. 0 \in D
  <2>1. \A S : IsFiniteSet(S) /\ Cardinality(S) = 0 => S = {}
    BY FS_EmptySet
  <2>2. Sum(f, {}) = 0
    BY FS_EmptySet, SumStep
  <2> QED BY <2>1, <2>2
<1>2. ASSUME NEW n \in Nat, n \in D PROVE n + 1 \in D
  <2> SUFFICES ASSUME NEW S \in SUBSET U, IsFiniteSet(S), Cardinality(S) = n + 1
               PROVE  Sum(f, S) \in Int
    OBVIOUS
  <2> DEFINE R == S \ {Any(S)}
  <2>1. S # {} /\ Any(S) \in S /\ IsFiniteSet(R) /\ Cardinality(R) = n
    BY WithoutOne
  <2>2. Sum(f, R) \in Int /\ f[Any(S)] \in Int
    BY <1>2, <2>1
  <2> QED BY <2>1, <2>2, SumStep
<1> HIDE DEF D
<1>3. \A n \in Nat : n \in D
  BY <1>1, <1>2, NatSetInduction
<1>4. \A S : IsFiniteSet(S) => Cardinality(S) \in Nat
  BY FS_CardinalityType
<1> QED BY <1>3, <1>4 DEF D

(* Numbers add up to a number, and any element may be taken out first. *)
LEMMA SumParts ==
  ASSUME NEW U, NEW f \in [U -> Int]
  PROVE  \A S \in SUBSET U : IsFiniteSet(S) =>
           /\ Sum(f, S) \in Int
           /\ \A y \in S : Sum(f, S) = f[y] + Sum(f, S \ {y})
<1> DEFINE Good(S) == /\ Sum(f, S) \in Int
                      /\ \A y \in S : Sum(f, S) = f[y] + Sum(f, S \ {y})
           D == {n \in Nat : \A S \in SUBSET U :
                    IsFiniteSet(S) /\ Cardinality(S) = n => Good(S)}
<1>1. 0 \in D
  <2> SUFFICES ASSUME NEW S \in SUBSET U, IsFiniteSet(S), Cardinality(S) = 0 PROVE Good(S)
    OBVIOUS
  <2>1. S = {}
    BY FS_EmptySet
  <2>2. Sum(f, S) = 0
    BY <2>1, SumStep
  <2> QED BY <2>1, <2>2
<1>2. ASSUME NEW n \in Nat, n \in D PROVE n + 1 \in D
  <2> SUFFICES ASSUME NEW S \in SUBSET U, IsFiniteSet(S), Cardinality(S) = n + 1 PROVE Good(S)
    OBVIOUS
  <2> DEFINE x == Any(S)
             R == S \ {x}
  <2>1. S # {} /\ x \in S /\ \A y \in S : IsFiniteSet(S \ {y}) /\ Cardinality(S \ {y}) = n
    BY WithoutOne
  <2>2. Sum(f, S) = f[x] + Sum(f, R)
    BY <2>1, SumStep
  <2>3. \A y \in S : Good(S \ {y})
    BY <1>2, <2>1
  <2>4. Sum(f, R) \in Int /\ f[x] \in Int
    BY <2>1, <2>3
  <2>5. ASSUME NEW y \in S PROVE Sum(f, S) = f[y] + Sum(f, S \ {y})
    <3>1. CASE y = x
      BY <2>2, <3>1
    <3>2. CASE y # x
      <4>1. y \in R /\ x \in S \ {y} /\ R \ {y} = (S \ {y}) \ {x}
        BY <2>1, <3>2
      <4>2. Sum(f, R) = f[y] + Sum(f, R \ {y})
        BY <2>1, <2>3, <4>1
      <4>3. Sum(f, S \ {y}) = f[x] + Sum(f, (S \ {y}) \ {x}) /\ Sum(f, S \ {y}) \in Int
        BY <2>3, <4>1
      <4>4. f[y] \in Int /\ Sum(f, R \ {y}) = Sum(f, (S \ {y}) \ {x})
        BY <4>1
      <4>5. Sum(f, R \ {y}) \in Int
        <5>1. R \ {y} \in SUBSET U /\ IsFiniteSet(R \ {y})
          BY <2>1, FS_Subset
        <5> QED BY <5>1, SumType
      <4> QED BY <2>2, <2>4, <4>2, <4>3, <4>4, <4>5
    <3> QED BY <3>1, <3>2
  <2> QED BY <2>2, <2>4, <2>5
<1> HIDE DEF D
<1>3. \A n \in Nat : n \in D
  BY <1>1, <1>2, NatSetInduction
<1>4. \A S : IsFiniteSet(S) => Cardinality(S) \in Nat
  BY FS_CardinalityType
<1> QED BY <1>3, <1>4 DEF D

(* A sum depends only on the values it adds. *)
LEMMA SumSame ==
  ASSUME NEW S, IsFiniteSet(S), NEW f, NEW g, \A x \in S : f[x] = g[x]
  PROVE  Sum(f, S) = Sum(g, S)
<1> DEFINE D == {n \in Nat : \A T \in SUBSET S : Cardinality(T) = n => Sum(f, T) = Sum(g, T)}
<1>0. \A T \in SUBSET S : IsFiniteSet(T) /\ Cardinality(T) \in Nat
  BY FS_Subset, FS_CardinalityType
<1>1. 0 \in D
  BY <1>0, FS_EmptySet, SumStep
<1>2. ASSUME NEW n \in Nat, n \in D PROVE n + 1 \in D
  <2> SUFFICES ASSUME NEW T \in SUBSET S, Cardinality(T) = n + 1
               PROVE  Sum(f, T) = Sum(g, T)
    OBVIOUS
  <2> DEFINE R == T \ {Any(T)}
  <2>1. T # {} /\ Any(T) \in T /\ Cardinality(R) = n
    BY <1>0, WithoutOne
  <2>2. Sum(f, R) = Sum(g, R)
    <3>1. R \in SUBSET S
      OBVIOUS
    <3> HIDE DEF R
    <3> QED BY <1>2, <2>1, <3>1
  <2>3. Sum(f, T) = f[Any(T)] + Sum(f, R) /\ Sum(g, T) = g[Any(T)] + Sum(g, R)
    BY <1>0, <2>1, SumStep
  <2>4. f[Any(T)] = g[Any(T)]
    BY <2>1
  <2> QED BY <2>2, <2>3, <2>4
<1> HIDE DEF D
<1>3. \A n \in Nat : n \in D
  BY <1>1, <1>2, NatSetInduction
<1> QED BY <1>0, <1>3 DEF D

(* The totals of the beginnings of s, and what TotalSize makes of Append, of
   concatenation and of Tail. *)
Totals(t, s) ==
  t = [n \in 0..Len(s) |-> IF n = 0 THEN 0 ELSE t[n - 1] + s[n].size]

LEMMA TotalIs ==
  ASSUME NEW s
  PROVE  TotalSize(s) = (CHOOSE t : Totals(t, s))[Len(s)]
BY Zenon DEF TotalSize, Totals

LEMMA TotalExists ==
  ASSUME NEW s, Len(s) \in Nat
  PROVE  \E t : Totals(t, s)
<1> DEFINE Val(t, n) == IF n = 0 THEN 0 ELSE t[n - 1] + s[n].size
           Def(t, n) == t = [i \in 0..n |-> Val(t, i)]
           D == {n \in Nat : \E t : Def(t, n)}
<1>1. 0 \in D
  <2>1. Def([i \in 0..0 |-> 0], 0)
    OBVIOUS
  <2> QED BY <2>1
<1>2. ASSUME NEW n \in Nat, n \in D PROVE n + 1 \in D
  <2>1. PICK t : Def(t, n)
    BY <1>2
  <2> DEFINE v == Val(t, n + 1)
             h == [i \in 0..n + 1 |-> IF i = n + 1 THEN v ELSE t[i]]
  <2>2. ASSUME NEW i \in 0..n + 1 PROVE h[i] = Val(h, i)
    <3>1. CASE i = n + 1
      <4>1. h[i] = v /\ h[i - 1] = t[n]
        BY <3>1
      <4> QED BY <3>1, <4>1
    <3>2. CASE i \in 0..n
      <4>1. h[i] = t[i] /\ (i # 0 => h[i - 1] = t[i - 1])
        BY <3>2
      <4>2. t[i] = Val(t, i)
        BY <2>1, <3>2
      <4> QED BY <3>2, <4>1, <4>2
    <3> QED BY <3>1, <3>2
  <2>3. h = [i \in 0..n + 1 |-> h[i]]
    OBVIOUS
  <2> HIDE DEF h, Val
  <2>4. Def(h, n + 1)
    BY <2>2, <2>3
  <2> HIDE DEF Def
  <2> QED BY <2>4
<1> HIDE DEF D
<1>3. Len(s) \in D
  BY <1>1, <1>2, NatSetInduction
<1> QED BY <1>3 DEF D, Totals

LEMMA TotalStep ==
  ASSUME NEW s \in Seq(Item)
  PROVE  \E t : /\ TotalSize(s) = t[Len(s)] /\ t[0] = 0
                /\ \A n \in 0..Len(s) - 1 : t[n + 1] = t[n] + s[n + 1].size
<1>1. \E t : Totals(t, s)
  BY TotalExists
<1> DEFINE t == CHOOSE t : Totals(t, s)
<1>2. Totals(t, s)
  BY <1>1, Zenon
<1>3. TotalSize(s) = t[Len(s)]
  BY TotalIs
<1> HIDE DEF t
<1>4. t[0] = 0
  BY <1>2 DEF Totals
<1>5. ASSUME NEW n \in 0..Len(s) - 1 PROVE t[n + 1] = t[n] + s[n + 1].size
  <2>1. n + 1 \in 0..Len(s) /\ n + 1 # 0 /\ (n + 1) - 1 = n
    OBVIOUS
  <2> QED BY <1>2, <2>1 DEF Totals
<1> QED BY <1>3, <1>4, <1>5

LEMMA TotalAppend ==
  ASSUME NEW s \in Seq(Item), NEW x \in Item
  PROVE  TotalSize(Append(s, x)) = TotalSize(s) + x.size
<1> DEFINE r == Append(s, x)
<1>0. r \in Seq(Item) /\ Len(s) \in Nat /\ Len(r) = Len(s) + 1 /\ r[Len(s) + 1] = x
      /\ \A n \in 1..Len(s) : r[n] = s[n]
  OBVIOUS
<1> HIDE DEF r
<1>1. PICK t : /\ TotalSize(s) = t[Len(s)] /\ t[0] = 0
               /\ \A n \in 0..Len(s) - 1 : t[n + 1] = t[n] + s[n + 1].size
  BY TotalStep
<1>2. PICK u : /\ TotalSize(r) = u[Len(r)] /\ u[0] = 0
               /\ \A n \in 0..Len(r) - 1 : u[n + 1] = u[n] + r[n + 1].size
  BY <1>0, TotalStep
<1> DEFINE D == {n \in 0..Len(s) : t[n] = u[n]}
<1>3. 0 \in D
  BY <1>0, <1>1, <1>2
<1>4. ASSUME NEW n \in 0..Len(s) - 1, n \in D PROVE n + 1 \in D
  <2>1. n + 1 \in 1..Len(s) /\ n \in 0..Len(r) - 1
    BY <1>0
  <2>2. u[n + 1] = u[n] + s[n + 1].size /\ t[n + 1] = t[n] + s[n + 1].size
    BY <1>0, <1>1, <1>2, <2>1
  <2> QED BY <1>4, <2>1, <2>2
<1> HIDE DEF D
<1>5. \A n \in 0..Len(s) : n \in D
  BY <1>0, <1>3, <1>4, IntervalInduction
<1>6. Len(s) \in 0..Len(r) - 1 /\ t[Len(s)] = u[Len(s)]
  BY <1>0, <1>5 DEF D
<1> QED BY <1>0, <1>1, <1>2, <1>6 DEF r

LEMMA TotalEmpty == TotalSize(<< >>) = 0
<1>1. << >> \in Seq(Item) /\ Len(<< >>) = 0
  OBVIOUS
<1>2. PICK t : TotalSize(<< >>) = t[Len(<< >>)] /\ t[0] = 0
  BY <1>1, TotalStep
<1> QED BY <1>1, <1>2

LEMMA TotalType ==
  ASSUME NEW s \in Seq(Item)
  PROVE  TotalSize(s) \in Nat
<1>0. Len(s) \in Nat /\ \A n \in 1..Len(s) : s[n].size \in Nat
  <2>1. \A x \in Item : x.size \in Nat
    BY DEF Item
  <2> QED BY <2>1
<1>1. PICK t : /\ TotalSize(s) = t[Len(s)] /\ t[0] = 0
               /\ \A n \in 0..Len(s) - 1 : t[n + 1] = t[n] + s[n + 1].size
  BY TotalStep
<1> DEFINE D == {n \in 0..Len(s) : t[n] \in Nat}
<1>2. 0 \in D
  BY <1>0, <1>1
<1>3. ASSUME NEW n \in 0..Len(s) - 1, n \in D PROVE n + 1 \in D
  <2>1. n + 1 \in 1..Len(s) /\ n + 1 \in 0..Len(s) /\ t[n] \in Nat
    BY <1>0, <1>3
  <2> QED BY <1>0, <1>1, <2>1
<1> HIDE DEF D
<1>4. \A n \in 0..Len(s) : n \in D
  BY <1>0, <1>2, <1>3, IntervalInduction
<1> QED BY <1>1, <1>4 DEF D

LEMMA TotalConcat ==
  ASSUME NEW a \in Seq(Item), NEW b \in Seq(Item)
  PROVE  TotalSize(a \o b) = TotalSize(a) + TotalSize(b)
<1> DEFINE D == {n \in 0..Len(b) : TotalSize(a \o SubSeq(b, 1, n))
                                     = TotalSize(a) + TotalSize(SubSeq(b, 1, n))}
<1>0. Len(b) \in Nat /\ TotalSize(a) \in Nat
  BY TotalType
<1>1. 0 \in D
  <2>1. SubSeq(b, 1, 0) = << >> /\ a \o << >> = a
    OBVIOUS
  <2>2. 0 \in 0..Len(b) /\ TotalSize(a) = TotalSize(a) + 0
    BY <1>0
  <2> QED BY <2>1, <2>2, TotalEmpty
<1>2. ASSUME NEW n \in 0..Len(b) - 1, n \in D PROVE n + 1 \in D
  <2> DEFINE c == SubSeq(b, 1, n)
             x == b[n + 1]
  <2>1. /\ n + 1 \in 0..Len(b) /\ c \in Seq(Item) /\ x \in Item /\ a \o c \in Seq(Item)
        /\ SubSeq(b, 1, n + 1) = Append(c, x)
        /\ a \o Append(c, x) = Append(a \o c, x)
    BY <1>0
  <2>2. TotalSize(a \o c) = TotalSize(a) + TotalSize(c)
    BY <1>2
  <2>3. TotalSize(c) \in Nat /\ x.size \in Nat
    BY <2>1, TotalType DEF Item
  <2> HIDE DEF c, x
  <2>4. TotalSize(Append(c, x)) = TotalSize(c) + x.size
    BY <2>1, TotalAppend
  <2>5. TotalSize(Append(a \o c, x)) = TotalSize(a \o c) + x.size
    BY <2>1, TotalAppend
  <2>6. TotalSize(a \o Append(c, x)) = TotalSize(a) + TotalSize(Append(c, x))
    <3>1. TotalSize(a \o Append(c, x)) = TotalSize(Append(a \o c, x))
      BY <2>1, Zenon
    <3> QED BY <1>0, <2>2, <2>3, <2>4, <2>5, <3>1
  <2> QED BY <2>1, <2>6
<1> HIDE DEF D
<1>3. \A n \in 0..Len(b) : n \in D
  BY <1>0, <1>1, <1>2, IntervalInduction
<1>4. SubSeq(b, 1, Len(b)) = b
  OBVIOUS
<1>5. Len(b) \in D
  BY <1>0, <1>3
<1> QED BY <1>4, <1>5 DEF D

LEMMA TotalTail ==
  ASSUME NEW s \in Seq(Item), s # << >>
  PROVE  TotalSize(Tail(s)) = TotalSize(s) - s[1].size
<1>1. /\ s[1] \in Item /\ Tail(s) \in Seq(Item) /\ << >> \in Seq(Item)
      /\ Append(<< >>, s[1]) \in Seq(Item) /\ Append(<< >>, s[1]) \o Tail(s) = s
  OBVIOUS
<1>2. TotalSize(Append(<< >>, s[1])) = s[1].size
  <2>1. s[1].size \in Nat
    BY <1>1 DEF Item
  <2>2. TotalSize(Append(<< >>, s[1])) = TotalSize(<< >>) + s[1].size
    BY <1>1, TotalAppend
  <2> QED BY <2>1, <2>2, TotalEmpty
<1>3. TotalSize(s) = s[1].size + TotalSize(Tail(s))
  BY <1>1, <1>2, TotalConcat
<1>4. TotalSize(Tail(s)) \in Nat /\ s[1].size \in Nat
  BY <1>1, TotalType DEF Item
<1> QED BY <1>3, <1>4

SizeOf == [m \in Msg |-> EstimateSize(m)]
BuilderSize == [t \in TxnID |-> builders[t].size]

(* The counters and what makes them exact: the buffers are finite, and a
   message in the heap has its id beside it, so that it is not pushed twice. *)
HeapBytes ==
  /\ messageHeap \in SUBSET Msg /\ IsFiniteSet(messageHeap)
  /\ messageHeap \subseteq messageIDs
  /\ reorderBytes = Sum(SizeOf, messageHeap)
TxnBytes ==
  /\ IsFiniteSet(OpenTxns)
  /\ txnBytes = Sum(BuilderSize, OpenTxns)
QueueBytes == pendingBytes = TotalSize(pendingQueue)
BytesInv == HeapBytes /\ TxnBytes /\ QueueBytes

(* What a step can do to the three buffers. *)
HeapStep ==
  \/ UNCHANGED <<messageHeap, messageIDs, reorderBytes>>
  \/ \E m \in Msg : Push(m)
  \/ \E m \in messageHeap : TakeOut(m)
TxnStep ==
  \/ UNCHANGED <<builders, txnBytes>>
  \/ \E t \in TxnID : Open(t) /\ Close(t)
  \/ \E t \in TxnID, m \in Msg :
       /\ ~Open(t) /\ builders' = [builders EXCEPT ![t] = NewImmutableTxnMessageBuilder(m)]
       /\ txnBytes' = txnBytes + EstimateSize(m)
  \/ \E t \in TxnID, m \in Msg :
       /\ Open(t) /\ builders' = [builders EXCEPT ![t] = Add(@, m)]
       /\ txnBytes' = txnBytes + EstimateSize(m)
QueueStep ==
  \/ UNCHANGED pendingVars
  \/ AddToPending(ToQueue) /\ ToQueue \in Seq(Item)
  \/ pendingQueue # << >> /\ UnsafeAdvance

LEMMA BufferSteps ==
  ASSUME TypeOK, [Next]_vars
  PROVE  HeapStep /\ TxnStep /\ QueueStep
<1> USE DEF walVars, userVars, bufferVars, reorderVars, txnVars, pendingVars
<1>u. ASSUME UNCHANGED bufferVars PROVE HeapStep /\ TxnStep /\ QueueStep
  BY <1>u DEF HeapStep, TxnStep, QueueStep
<1>1. CASE UNCHANGED vars \/ Terminated
  BY <1>1, <1>u DEF vars, Terminated
<1>2. CASE Producer
  BY <1>2, <1>u DEF Producer, ProducerCancelled, CreateReader, BackoffWake, WalFails, Receive
<1>3. CASE ConsumerCancelled \/ CloseStream \/ User
  BY <1>3, <1>u DEF ConsumerCancelled, CloseStream, User, ParseLimit, Interrupt, CloseCancel, CloseFinish
<1>4. CASE Deliver
  BY <1>4 DEF Deliver, SendFront, HeapStep, TxnStep, QueueStep
<1>5. CASE HandOver
  <2>1. inflight \in Msg /\ handleUpstream(inflight)
    BY <1>5 DEF HandOver, TypeOK
  <2>2. CASE UNCHANGED bufferVars
    BY <1>u, <2>2
  <2>3. CASE UNCHANGED <<reorderVars, txnVars, pendingVars>>
    BY <2>3 DEF HeapStep, TxnStep, QueueStep
  <2>4. CASE Push(inflight) /\ UNCHANGED <<txnVars, pendingVars>>
    BY <2>1, <2>4 DEF HeapStep, TxnStep, QueueStep
  <2> QED BY <2>1, <2>2, <2>3, <2>4 DEF handleUpstream
<1>6. CASE DrainEnd
  BY <1>6 DEF DrainEnd, PopEnd, HeapStep, TxnStep, QueueStep
<1>7. CASE TickEnd
  <2>1. ToQueue \in Seq(Item)
    <3>1. tick \in Msg /\ confirmed \in Seq(Item)
      BY <1>7 DEF TickEnd, TypeOK
    <3>2. Plain(tick) \in Item
      BY <3>1, MessageAssumption DEF Plain, Item, EstimateSize, Attributes
    <3> QED BY <3>1, <3>2 DEF ToQueue
  <2> QED BY <1>7, <2>1 DEF TickEnd, HeapStep, TxnStep, QueueStep
<1>8. ASSUME NEW t \in TxnID, ClearOne(t) PROVE HeapStep /\ TxnStep /\ QueueStep
  BY <1>8 DEF ClearOne, clearExpiredTxn, Expired, HeapStep, TxnStep, QueueStep
<1>9. ASSUME NEW m \in Msg, DrainOne(m) PROVE HeapStep /\ TxnStep /\ QueueStep
  <2>1. HeapStep /\ QueueStep
    BY <1>9 DEF DrainOne, PopMin, HeapStep, QueueStep
  <2>2. Txn(m) # NoTxn => Txn(m) \in TxnID
    BY MessageTypes
  <2>3. HandleImmutableMessage(m)
    BY <1>9 DEF DrainOne
  <2>4. TxnStep
    <3>1. CASE UNCHANGED <<builders, txnBytes>>
      BY <3>1 DEF TxnStep
    <3>2. CASE Txn(m) # NoTxn /\ handleBeginTxn(m)
      BY <2>2, <3>2 DEF handleBeginTxn, TxnStep
    <3>3. CASE Txn(m) # NoTxn /\ handleCommitTxn(m)
      BY <2>2, <3>3 DEF handleCommitTxn, TxnStep
    <3>4. CASE Txn(m) # NoTxn /\ handleRollbackTxn(m)
      BY <2>2, <3>4 DEF handleRollbackTxn, TxnStep
    <3>5. CASE Txn(m) # NoTxn /\ handleTxnBodyMessage(m)
      BY <2>2, <3>5 DEF handleTxnBodyMessage, TxnStep
    <3> QED BY <2>3, <3>1, <3>2, <3>3, <3>4, <3>5 DEF HandleImmutableMessage
  <2> QED BY <2>1, <2>4
<1> QED
  BY <1>1, <1>2, <1>3, <1>4, <1>5, <1>6, <1>7, <1>8, <1>9 DEF Next, Consumer

LEMMA SizeTypes == SizeOf \in [Msg -> Int] /\ \A m \in Msg : SizeOf[m] = EstimateSize(m)
<1>1. \A m \in Msg : EstimateSize(m) \in Nat
  BY MessageAssumption DEF EstimateSize, Attributes
<1> QED BY <1>1 DEF SizeOf

LEMMA HeapBytesNext == HeapBytes /\ HeapStep => HeapBytes'
<1> SUFFICES ASSUME HeapBytes, HeapStep PROVE HeapBytes'
  OBVIOUS
<1>1. CASE UNCHANGED <<messageHeap, messageIDs, reorderBytes>>
  BY <1>1 DEF HeapBytes
<1>2. ASSUME NEW m \in Msg, Push(m) PROVE HeapBytes'
  <2>1. CASE UNCHANGED reorderVars
    BY <2>1 DEF HeapBytes, reorderVars
  <2>2. CASE ~Refused(m)
    <3> DEFINE T == messageHeap \cup {m}
    <3>1. /\ messageHeap' = T /\ messageIDs' = messageIDs \cup {m}
          /\ reorderBytes' = reorderBytes + EstimateSize(m) /\ m \notin messageHeap
      BY <1>2, <2>2 DEF Push, Refused, HeapBytes
    <3>2. IsFiniteSet(T) /\ T \in SUBSET Msg
      BY FS_AddElement DEF HeapBytes
    <3>3. T \ {m} = messageHeap
      BY <3>1
    <3>4. Sum(SizeOf, T) = SizeOf[m] + Sum(SizeOf, messageHeap)
      BY <3>2, <3>3, SumParts, SizeTypes
    <3>5. Sum(SizeOf, messageHeap) \in Int /\ SizeOf[m] \in Int
      BY SumParts, SizeTypes DEF HeapBytes
    <3> HIDE DEF T
    <3>6. reorderBytes' = Sum(SizeOf, T)
      BY <3>1, <3>4, <3>5, SizeTypes DEF HeapBytes
    <3> QED BY <3>1, <3>2, <3>6 DEF HeapBytes, T
  <2> QED BY <1>2, <2>1, <2>2 DEF Push
<1>3. ASSUME NEW m \in messageHeap, TakeOut(m) PROVE HeapBytes'
  <2> DEFINE T == messageHeap \ {m}
  <2>1. /\ messageHeap' = T /\ messageIDs' = messageIDs \ {m}
        /\ reorderBytes' = reorderBytes - EstimateSize(m) /\ m \in Msg
    BY <1>3 DEF TakeOut, HeapBytes
  <2>2. IsFiniteSet(T) /\ T \in SUBSET Msg
    BY FS_Subset DEF HeapBytes
  <2>3. Sum(SizeOf, messageHeap) = SizeOf[m] + Sum(SizeOf, T)
    BY SumParts, SizeTypes DEF HeapBytes
  <2>4. Sum(SizeOf, T) \in Int /\ SizeOf[m] \in Int
    BY <2>1, <2>2, SumParts, SizeTypes
  <2> HIDE DEF T
  <2>5. reorderBytes' = Sum(SizeOf, T)
    BY <2>1, <2>3, <2>4, SizeTypes DEF HeapBytes
  <2> QED BY <2>1, <2>2, <2>5 DEF HeapBytes, T
<1> QED BY <1>1, <1>2, <1>3 DEF HeapStep

LEMMA BuilderSizes ==
  ASSUME TypeOK
  PROVE  BuilderSize \in [TxnID -> Int] /\ \A t \in TxnID : BuilderSize[t] = builders[t].size
BY DEF BuilderSize, TypeOK, Builder

(* One transaction t is given another builder. *)
LEMMA OneBuilder ==
  ASSUME TypeOK, TypeOK', TxnBytes, NEW t \in TxnID, NEW b,
         builders' = [builders EXCEPT ![t] = b]
  PROVE  LET T == OpenTxns \ {t} IN
         /\ IsFiniteSet(T) /\ T \in SUBSET TxnID
         /\ Sum(BuilderSize', T) = Sum(BuilderSize, T) /\ Sum(BuilderSize, T) \in Int
         /\ txnBytes = Sum(BuilderSize, T) + (IF Open(t) THEN builders[t].size ELSE 0)
         /\ OpenTxns' = IF b.msgs = << >> THEN T ELSE T \cup {t}
         /\ IsFiniteSet(T \cup {t}) /\ t \notin T
         /\ BuilderSize'[t] = b.size
<1> DEFINE T == OpenTxns \ {t}
<1>1. IsFiniteSet(T) /\ T \in SUBSET TxnID /\ t \notin T
  BY FS_Subset DEF TxnBytes, OpenTxns
<1>2. IsFiniteSet(T \cup {t})
  BY <1>1, FS_AddElement
<1>3. /\ builders \in [TxnID -> Builder] /\ builders'[t] = b
      /\ \A u \in TxnID : u # t => builders'[u] = builders[u]
  BY DEF TypeOK
<1>4. OpenTxns' = IF b.msgs = << >> THEN T ELSE T \cup {t}
  BY <1>3 DEF OpenTxns, Open
<1>5. BuilderSize'[t] = b.size /\ \A u \in T : BuilderSize'[u] = BuilderSize[u]
  BY <1>1, <1>3 DEF BuilderSize
<1>6. Sum(BuilderSize', T) = Sum(BuilderSize, T)
  BY <1>1, <1>5, SumSame
<1>7. Sum(BuilderSize, T) \in Int
  BY <1>1, BuilderSizes, SumParts
<1>8. txnBytes = Sum(BuilderSize, T) + (IF Open(t) THEN builders[t].size ELSE 0)
  <2>1. CASE Open(t)
    <3>1. t \in OpenTxns /\ OpenTxns \in SUBSET TxnID /\ IsFiniteSet(OpenTxns)
      BY <2>1 DEF OpenTxns, TxnBytes
    <3>2. Sum(BuilderSize, OpenTxns) = BuilderSize[t] + Sum(BuilderSize, T)
      BY <3>1, BuilderSizes, SumParts
    <3>3. BuilderSize[t] = builders[t].size /\ BuilderSize[t] \in Int
      BY BuilderSizes
    <3> QED BY <1>7, <2>1, <3>2, <3>3 DEF TxnBytes
  <2>2. CASE ~Open(t)
    <3>1. T = OpenTxns
      BY <2>2 DEF OpenTxns
    <3>2. txnBytes = Sum(BuilderSize, T)
      BY <3>1 DEF TxnBytes
    <3> HIDE DEF T
    <3> QED BY <1>7, <2>2, <3>2
  <2> QED BY <2>1, <2>2
<1> QED BY <1>1, <1>2, <1>4, <1>5, <1>6, <1>7, <1>8

LEMMA TxnBytesNext == TypeOK /\ TypeOK' /\ TxnBytes /\ TxnStep => TxnBytes'
<1> SUFFICES ASSUME TypeOK, TypeOK', TxnBytes, TxnStep PROVE TxnBytes'
  OBVIOUS
<1>0. /\ \A m \in Msg : EstimateSize(m) \in Nat
      /\ \A t \in TxnID : builders[t].size \in Nat /\ builders[t].msgs \in Seq(Msg)
  BY MessageAssumption DEF EstimateSize, Attributes, TypeOK, Builder
<1>1. CASE UNCHANGED <<builders, txnBytes>>
  BY <1>1 DEF TxnBytes, OpenTxns, Open, BuilderSize
<1>2. ASSUME NEW t \in TxnID, Open(t), Close(t) PROVE TxnBytes'
  <2> DEFINE T == OpenTxns \ {t}
  <2>1. /\ builders' = [builders EXCEPT ![t] = NoBuilder]
        /\ txnBytes' = txnBytes - builders[t].size /\ NoBuilder.msgs = << >>
    BY <1>2 DEF Close, NoBuilder
  <2>2. /\ IsFiniteSet(T) /\ OpenTxns' = T
        /\ Sum(BuilderSize', T) = Sum(BuilderSize, T) /\ Sum(BuilderSize, T) \in Int
        /\ txnBytes = Sum(BuilderSize, T) + builders[t].size
    BY <1>2, <2>1, OneBuilder
  <2>3. txnBytes' = Sum(BuilderSize', T)
    BY <1>0, <2>1, <2>2
  <2> QED BY <2>2, <2>3 DEF TxnBytes
<1>3. ASSUME NEW t \in TxnID, NEW m \in Msg, NEW b, b.msgs # << >>,
             builders' = [builders EXCEPT ![t] = b],
             txnBytes' = txnBytes + EstimateSize(m),
             b.size = (IF Open(t) THEN builders[t].size ELSE 0) + EstimateSize(m)
      PROVE  TxnBytes'
  <2> DEFINE T == OpenTxns \ {t}
             U == T \cup {t}
             old == IF Open(t) THEN builders[t].size ELSE 0
  <2>1. /\ IsFiniteSet(U) /\ OpenTxns' = U /\ t \notin T /\ T \in SUBSET TxnID
        /\ Sum(BuilderSize', T) = Sum(BuilderSize, T) /\ Sum(BuilderSize, T) \in Int
        /\ txnBytes = Sum(BuilderSize, T) + old /\ BuilderSize'[t] = b.size
    BY <1>3, OneBuilder
  <2>2. BuilderSize' \in [TxnID -> Int]
    BY DEF BuilderSize, TypeOK, Builder
  <2>3. U \in SUBSET TxnID /\ t \in U /\ U \ {t} = T
    BY <2>1
  <2>4. Sum(BuilderSize', U) = b.size + Sum(BuilderSize', T)
    BY <2>1, <2>2, <2>3, SumParts
  <2>5. old \in Nat /\ EstimateSize(m) \in Nat /\ b.size = old + EstimateSize(m)
    BY <1>0, <1>3
  <2> HIDE DEF T, U, old
  <2>6. txnBytes' = Sum(BuilderSize', U)
    BY <1>3, <2>1, <2>4, <2>5
  <2> QED BY <2>1, <2>6 DEF TxnBytes
<1>4. ASSUME NEW t \in TxnID, NEW m \in Msg, ~Open(t),
             builders' = [builders EXCEPT ![t] = NewImmutableTxnMessageBuilder(m)],
             txnBytes' = txnBytes + EstimateSize(m)
      PROVE  TxnBytes'
  <2>1. /\ NewImmutableTxnMessageBuilder(m).msgs # << >>
        /\ NewImmutableTxnMessageBuilder(m).size = 0 + EstimateSize(m)
    BY <1>0 DEF NewImmutableTxnMessageBuilder
  <2> QED BY <1>3, <1>4, <2>1
<1>5. ASSUME NEW t \in TxnID, NEW m \in Msg, Open(t),
             builders' = [builders EXCEPT ![t] = Add(@, m)],
             txnBytes' = txnBytes + EstimateSize(m)
      PROVE  TxnBytes'
  <2>1. builders' = [builders EXCEPT ![t] = Add(builders[t], m)]
    BY <1>5 DEF TypeOK
  <2>2. /\ Add(builders[t], m).msgs # << >>
        /\ Add(builders[t], m).size = builders[t].size + EstimateSize(m)
    BY <1>0 DEF Add
  <2> QED BY <1>3, <1>5, <2>1, <2>2
<1> QED BY <1>1, <1>2, <1>4, <1>5 DEF TxnStep

LEMMA QueueBytesNext == TypeOK /\ QueueBytes /\ QueueStep => QueueBytes'
<1> SUFFICES ASSUME TypeOK, QueueBytes, QueueStep PROVE QueueBytes'
  OBVIOUS
<1>0. pendingQueue \in Seq(Item)
  BY DEF TypeOK
<1>1. CASE UNCHANGED pendingVars
  BY <1>1 DEF QueueBytes, pendingVars
<1>2. CASE AddToPending(ToQueue) /\ ToQueue \in Seq(Item)
  <2>1. /\ pendingQueue' = pendingQueue \o ToQueue
        /\ pendingBytes' = pendingBytes + TotalSize(ToQueue)
    BY <1>2 DEF AddToPending
  <2>2. TotalSize(pendingQueue \o ToQueue) = TotalSize(pendingQueue) + TotalSize(ToQueue)
    BY <1>0, <1>2, TotalConcat
  <2> QED BY <2>1, <2>2 DEF QueueBytes
<1>3. CASE pendingQueue # << >> /\ UnsafeAdvance
  <2>1. /\ pendingQueue' = Tail(pendingQueue)
        /\ pendingBytes' = pendingBytes - pendingQueue[1].size
    BY <1>3 DEF UnsafeAdvance, Front
  <2>2. TotalSize(Tail(pendingQueue)) = TotalSize(pendingQueue) - pendingQueue[1].size
    BY <1>0, <1>3, TotalTail
  <2> QED BY <2>1, <2>2 DEF QueueBytes
<1> QED BY <1>1, <1>2, <1>3 DEF QueueStep

LEMMA BytesInit == Init => BytesInv
<1> SUFFICES ASSUME Init PROVE BytesInv
  OBVIOUS
<1>1. IsFiniteSet({}) /\ \A f : Sum(f, {}) = 0
  BY FS_EmptySet, SumStep
<1>2. HeapBytes
  BY <1>1 DEF Init, NewReOrderBuffer, HeapBytes
<1>3. OpenTxns = {} /\ txnBytes = 0
  BY DEF Init, NewTxnBuffer, NoBuilder, OpenTxns, Open
<1>4. TxnBytes
  BY <1>1, <1>3 DEF TxnBytes
<1>5. QueueBytes
  BY TotalEmpty DEF Init, NewPendingQueue, QueueBytes
<1> QED BY <1>2, <1>4, <1>5 DEF BytesInv

LEMMA BytesInvariance == Spec => []BytesInv
<1>1. TypeOK /\ TypeOK' /\ BytesInv /\ [Next]_vars => BytesInv'
  BY BufferSteps, HeapBytesNext, TxnBytesNext, QueueBytesNext DEF BytesInv
<1> QED BY <1>1, BytesInit, TypeCorrect, PTL DEF Spec

(* For any messages, any log and whatever fails, the byte counters of the
   three buffers are the sizes of what the buffers hold: a pop, a commit, a
   failed build, a rollback, an expiry and a send each give back what was
   taken, and nothing is counted twice. *)
THEOREM BytesAreExact == Spec => []BytesExact
<1>1. BytesInv => BytesExact
  BY DEF BytesInv, HeapBytes, TxnBytes, QueueBytes, BytesExact, Sum, SizeOf, BuilderSize
<1> QED BY <1>1, BytesInvariance, PTL
=============================================================================
