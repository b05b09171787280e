----------------------------- MODULE WalScanner -----------------------------
(***************************************************************************)
(* The WAL scanner of wal/adaptor and the command that reads from it       *)
(* (states/consumev2.go).  Three goroutines run at once:                   *)
(*                                                                         *)
(*   producer  catchupScanner.Do: opens a reader on the log (retrying with *)
(*             a backoff), receives messages and hands them over on the    *)
(*             unbuffered msgChan;                                         *)
(*   consumer  scannerAdaptorImpl.execute/consumeEventLoop: selects between *)
(*             cancellation, a message from msgChan and sending the front  *)
(*             of the pending queue to the user;                           *)
(*   user      ConsumeV2Command: receives items, and closes the scanner on *)
(*             Ctrl-C, at its limit or when the stream ends.               *)
(*                                                                         *)
(* handleUpstream works on state only the consumer touches, so its loops   *)
(* are taken one turn at a time (DrainOne, ClearOne) and nothing another   *)
(* goroutine does can tell the difference.                                 *)
(***************************************************************************)
EXTENDS ReorderBuffer, TxnBuffer, PendingQueue

Fun == INSTANCE Functions

NoMsg == "no message"

CONSTANTS
  FilterFunc,    \* the messages readOption.MessageFilter lets through
  ReadVChannel,  \* readOption.VChannel, or NoChannel
  PendingLimit,  \* the pending queue length above which upstream is not read
  Limit,         \* --limit: items to show before stopping
  WalMayFail,    \* whether the log's own reader may end with an error
  MaxRead        \* bound: messages the log delivers in one behaviour

ASSUME ScannerAssumption ==
  /\ FilterFunc \subseteq Msg
  /\ ReadVChannel \in Channels \cup {NoChannel}
  /\ PendingLimit \in Nat
  /\ Limit \in Nat
  /\ WalMayFail \in BOOLEAN
  /\ MaxRead \in Nat
  /\ NoMsg \notin Msg

VARIABLES
  walRead,    \* number of messages the log has delivered
  walTick,    \* the last time tick the log has delivered
  walOpen,    \* the channel of the log's reader is open
  producer,   \* where the producer goroutine is
  inflight,   \* the message the producer is sending on msgChan
  consumer,   \* where the consumer goroutine is
  tick,       \* the time tick message being handled
  accepted,   \* history: the messages Push has taken
  ctxDone,    \* the scanner's context is cancelled
  user,       \* where the command is
  delivered,  \* the items the user has received
  count,      \* the command's count of items shown
  cleanups    \* how often the resources were released

walVars == <<walRead, walTick, walOpen>>
userVars == <<user, delivered, count, cleanups>>
bufferVars == <<messageHeap, messageIDs, lastPopTimeTick, reorderBytes,
                builders, txnBytes, confirmed, pendingQueue, pendingBytes, tick,
                accepted>>
vars == <<walVars, producer, inflight, consumer, ctxDone, userVars, bufferVars>>

ProducerPC == {"create", "backoff", "receive", "send", "done"}
ConsumerPC == {"select", "drain", "clear", "ending", "closed"}
UserPC == {"opened", "reading", "closing", "finishing", "closed"}

Init ==
  /\ NewReOrderBuffer
  /\ NewTxnBuffer
  /\ NewPendingQueue
  /\ walRead = 0 /\ walTick = 0 /\ walOpen = TRUE
  /\ producer = "create" /\ inflight = NoMsg
  /\ consumer = "select" /\ tick = NoMsg /\ accepted = {}
  /\ ctxDone = FALSE
  /\ user = "opened" /\ delivered = << >> /\ count = 0 /\ cleanups = 0

-----------------------------------------------------------------------------
(* Slips the properties must catch (see the mutants in PROJECT.json): a
   backoff that does not watch the context, a swapped vchannel check,
   upstream read whatever the queue holds, a stream closed before the
   producer is done, a front sent only below the limit or after the reader
   has stopped. *)
ProducerCancelledOnceRead ==
  /\ ctxDone
  /\ producer \in {"receive", "send"}
  /\ producer' = "done"
  /\ inflight' = NoMsg
  /\ UNCHANGED <<walVars, consumer, ctxDone, userVars, bufferVars>>

OtherVChannelSwapped(m) ==
  Meta[m].vchannel # NoChannel /\ ReadVChannel = NoChannel

CloseStreamAtOnce ==
  /\ consumer = "ending"
  /\ consumer' = "closed"
  /\ UNCHANGED <<walVars, producer, inflight, ctxDone, userVars, bufferVars>>

-----------------------------------------------------------------------------
(* The producer goroutine. *)

(* Do and every select of the producer give up once the context is done. *)
ProducerCancelled ==
  /\ ctxDone
  /\ producer # "done"
  /\ producer' = "done"
  /\ inflight' = NoMsg
  /\ UNCHANGED <<walVars, consumer, ctxDone, userVars, bufferVars>>

(* innerWAL.Read succeeds, or fails and the producer backs off. *)
CreateReader ==
  /\ producer = "create"
  /\ producer' \in {"receive", "backoff"}
  /\ UNCHANGED <<walVars, inflight, consumer, ctxDone, userVars, bufferVars>>

BackoffWake ==
  /\ producer = "backoff"
  /\ producer' = "create"
  /\ UNCHANGED <<walVars, inflight, consumer, ctxDone, userVars, bufferVars>>

(* The log delivers any message, in any order and any number of times,
   except that its time ticks never go back. *)
Receive(m) ==
  /\ producer = "receive"
  /\ walOpen
  /\ walRead < MaxRead
  /\ IsTimeTick(m) => TT(m) >= walTick
  /\ walRead' = walRead + 1
  /\ walTick' = IF IsTimeTick(m) THEN TT(m) ELSE walTick
  /\ inflight' = m
  /\ producer' = "send"
  /\ UNCHANGED <<walOpen, consumer, ctxDone, userVars, bufferVars>>

(* The log's reader ends with an error, and so does Do. *)
WalFails ==
  /\ WalMayFail
  /\ producer = "receive"
  /\ walOpen
  /\ walOpen' = FALSE
  /\ producer' = "done"
  /\ UNCHANGED <<walRead, walTick, inflight, consumer, ctxDone, userVars, bufferVars>>

-----------------------------------------------------------------------------
(* The consumer goroutine. *)

ConsumerCancelled ==
  /\ ctxDone
  /\ consumer = "select"
  /\ consumer' = "ending"
  /\ UNCHANGED <<walVars, producer, inflight, ctxDone, userVars, bufferVars>>

OtherVChannel(m) ==
  /\ Meta[m].vchannel # NoChannel
  /\ ReadVChannel # NoChannel
  /\ Meta[m].vchannel # ReadVChannel

(* handleUpstream: drop, start handling a time tick, or push. *)
handleUpstream(m) ==
  \/ /\ m \notin FilterFunc
     /\ UNCHANGED <<consumer, bufferVars>>
  \/ /\ m \in FilterFunc
     /\ IsTimeTick(m)
     /\ consumer' = "drain"
     /\ tick' = m
     /\ UNCHANGED <<accepted, reorderVars, txnVars, pendingVars>>
  \/ /\ m \in FilterFunc
     /\ ~IsTimeTick(m)
     /\ OtherVChannel(m)
     /\ UNCHANGED <<consumer, bufferVars>>
  \/ /\ m \in FilterFunc
     /\ ~IsTimeTick(m)
     /\ ~OtherVChannel(m)
     /\ Push(m)
     /\ accepted' = IF Refused(m) THEN accepted ELSE accepted \cup {m}
     /\ UNCHANGED <<consumer, tick, txnVars, pendingVars>>

UpstreamAlways == TRUE

(* Upstream is not read while the pending queue is above its limit. *)
UpstreamRead == Len(pendingQueue) <= PendingLimit

(* msgChan is unbuffered: the producer's send is the consumer's receive. *)
HandOver ==
  /\ producer = "send"
  /\ consumer = "select"
  /\ UpstreamRead
  /\ handleUpstream(inflight)
  /\ producer' = "receive"
  /\ inflight' = NoMsg
  /\ UNCHANGED <<walVars, ctxDone, userVars>>

DrainOne(m) ==
  /\ consumer = "drain"
  /\ PopMin(m, TT(tick))
  /\ HandleImmutableMessage(m)
  /\ UNCHANGED <<walVars, producer, inflight, consumer, ctxDone, userVars, pendingVars, tick, accepted>>

DrainEnd ==
  /\ consumer = "drain"
  /\ PopEnd(TT(tick))
  /\ consumer' = "clear"
  /\ UNCHANGED <<walVars, producer, inflight, ctxDone, userVars, txnVars, pendingVars, tick, accepted>>

ClearOne(t) ==
  /\ consumer = "clear"
  /\ clearExpiredTxn(t, TT(tick))
  /\ UNCHANGED <<walVars, producer, inflight, consumer, ctxDone, userVars, reorderVars,
                 pendingVars, tick, accepted>>

(* The time tick itself is queued when it is persisted or when the queue
   would be empty. *)
ToQueue ==
  IF Meta[tick].persisted \/ pendingQueue \o confirmed = << >>
  THEN Append(confirmed, Plain(tick))
  ELSE confirmed

TickEnd ==
  /\ consumer = "clear"
  /\ Expired(TT(tick)) = {}
  /\ AddToPending(ToQueue)
  /\ confirmed' = << >>
  /\ tick' = NoMsg
  /\ consumer' = "select"
  /\ UNCHANGED <<walVars, producer, inflight, ctxDone, userVars, reorderVars,
                 builders, txnBytes, accepted>>

(* The deferred part of execute: wait for the producer, close the user's
   channel, Finish. *)
CloseStream ==
  /\ consumer = "ending"
  /\ producer = "done"
  /\ consumer' = "closed"
  /\ UNCHANGED <<walVars, producer, inflight, ctxDone, userVars, bufferVars>>

-----------------------------------------------------------------------------
(* The user: ConsumeV2Command, and Close of the scanner. *)

(* --limit is parsed after the scanner is created: a bad one ends the command. *)
ParseLimit ==
  /\ user = "opened"
  /\ user' \in {"reading", "closing"}
  /\ UNCHANGED <<walVars, producer, inflight, consumer, ctxDone, delivered, count,
                 cleanups, bufferVars>>

(* The consumer's send is the user's receive.  Self-controlled messages are
   not shown and do not count. *)
SendFront ==
  /\ UnsafeAdvance
  /\ delivered' = Append(delivered, Front)
  /\ \/ /\ Meta[Front.head].selfControlled
        /\ UNCHANGED <<user, count>>
     \/ /\ ~Meta[Front.head].selfControlled
        /\ count' = count + 1
        /\ user' = IF count + 1 >= Limit THEN "closing" ELSE "reading"
  /\ UNCHANGED <<walVars, producer, inflight, consumer, ctxDone, cleanups, reorderVars,
                 txnVars, tick, accepted>>

DeliverBelowLimit ==
  /\ consumer = "select"
  /\ user = "reading"
  /\ Len(pendingQueue) \in 1..PendingLimit
  /\ SendFront
DeliverAfterStop ==
  /\ consumer = "select"
  /\ user # "opened"
  /\ pendingQueue # << >>
  /\ SendFront

Deliver ==
  /\ consumer = "select"
  /\ user = "reading"
  /\ pendingQueue # << >>
  /\ SendFront

(* Ctrl-C.  The command's other way out, an ended stream, is never taken: the
   stream is closed only after the command itself has cancelled the scanner. *)
Interrupt ==
  /\ user = "reading"
  /\ user' = "closing"
  /\ UNCHANGED <<walVars, producer, inflight, consumer, ctxDone, delivered, count,
                 cleanups, bufferVars>>

(* Close cancels the context and waits for Finish ... *)
CloseCancel ==
  /\ user = "closing"
  /\ ctxDone' = TRUE
  /\ user' = "finishing"
  /\ UNCHANGED <<walVars, producer, inflight, consumer, delivered, count, cleanups, bufferVars>>

(* ... and then releases the resources. *)
CloseFinish ==
  /\ user = "finishing"
  /\ consumer = "closed"
  /\ user' = "closed"
  /\ cleanups' = cleanups + 1
  /\ UNCHANGED <<walVars, producer, inflight, consumer, ctxDone, delivered, count, bufferVars>>

-----------------------------------------------------------------------------
Producer ==
  \/ ProducerCancelled \/ CreateReader \/ BackoffWake \/ WalFails
  \/ \E m \in Msg : Receive(m)

Consumer ==
  \/ ConsumerCancelled \/ DrainEnd \/ TickEnd \/ CloseStream
  \/ \E m \in Msg : DrainOne(m)
  \/ \E t \in TxnID : ClearOne(t)

User ==
  ParseLimit \/ Interrupt \/ CloseCancel \/ CloseFinish

(* The command has returned and nothing of the scanner runs any more. *)
Terminated == user = "closed" /\ UNCHANGED vars

Next == Producer \/ Consumer \/ HandOver \/ Deliver \/ User \/ Terminated

Spec == Init /\ [][Next]_vars

(* Every goroutine that can go on does.  The log need not deliver anything,
   the operator need not press Ctrl-C, and innerWAL.Read need not succeed. *)
Fairness ==
  /\ WF_vars(ProducerCancelled) /\ WF_vars(CreateReader) /\ WF_vars(BackoffWake)
  /\ WF_vars(Consumer)
  /\ WF_vars(HandOver)
  /\ WF_vars(Deliver)
  /\ WF_vars(ParseLimit) /\ WF_vars(CloseCancel) /\ WF_vars(CloseFinish)

FairSpec == Spec /\ Fairness

-----------------------------------------------------------------------------
(* Properties. *)

(* Types, and the two program counters that say whether a message is being
   sent (producer) or a time tick handled (consumer). *)
TypeOK ==
  /\ messageHeap \subseteq Msg /\ messageIDs \subseteq Msg /\ accepted \subseteq Msg
  /\ lastPopTimeTick \in Nat /\ reorderBytes \in Int
  /\ builders \in [TxnID -> Builder] /\ txnBytes \in Int
  /\ confirmed \in Seq(Item)
  /\ pendingQueue \in Seq(Item)
  /\ walRead \in 0..MaxRead /\ walTick \in Nat /\ walOpen \in BOOLEAN
  /\ producer \in ProducerPC
  /\ inflight \in Msg \cup {NoMsg}
  /\ (producer = "send") <=> (inflight # NoMsg)
  /\ consumer \in ConsumerPC
  /\ tick \in Msg \cup {NoMsg}
  /\ (consumer \in {"drain", "clear"}) <=> (tick # NoMsg)
  /\ ctxDone \in BOOLEAN
  /\ user \in UserPC /\ delivered \in Seq(Item) /\ count \in Nat /\ cleanups \in Nat

(* Everything on its way to the user, in the order the user sees it. *)
Stream == delivered \o pendingQueue \o confirmed

(* The user sees items in time tick order, whatever order (and how often)
   the log delivers the messages in: PopUtilTimeTick sorts each batch, and
   Push refuses what would belong to an earlier batch. *)
DeliveredInOrder ==
  \A i, j \in 1..Len(delivered) : i <= j => ItemTT(delivered[i]) <= ItemTT(delivered[j])

(* No message outside a time tick's guarantee is ever shown: nothing in the
   stream is above the last time tick the log has delivered. *)
NothingUnconfirmed ==
  \A i \in 1..Len(delivered) : ItemTT(delivered[i]) <= walTick

Occurrences(m) == {i \in 1..Len(Stream) : Stream[i].head = m}

(* The log may repeat messages; the user sees a message twice only if a copy
   came back exactly at a time tick that was already confirmed (Push compares
   with <, and forgets ids on Pop). *)
NoRepeat ==
  \A m \in Msg : \A i, j \in Occurrences(m) :
    (~IsTimeTick(m) /\ i # j) => \E n \in Msg : IsTimeTick(n) /\ TT(n) = TT(m)

(* A time tick the user receives is a watermark: every message outside
   transactions that the buffer took with a smaller time tick came before. *)
WatermarkComplete ==
  \A i \in 1..Len(delivered) : IsTimeTick(delivered[i].head) =>
    \A m \in accepted :
      (Txn(m) = NoTxn /\ TT(m) < ItemTT(delivered[i])) =>
        \E j \in 1..(i - 1) : delivered[j].head = m

(* What the log (milvus) promises of transactions: a transaction is begun by
   one message, and timestamps are allocated once, so that its messages share
   their time tick neither with each other nor with a time tick. *)
UniqueTimeTicks ==
  \A m, n \in Msg : (Txn(m) # NoTxn /\ m # n) =>
    /\ Txn(n) = Txn(m) \/ IsTimeTick(n) => TT(m) # TT(n)
    /\ Txn(n) = Txn(m) => {Type(m), Type(n)} # {"BeginTxn"}

(* Transactions are all or nothing: the user sees a transaction only under
   its commit message, with every body message the buffer took between begin
   and commit, in order, and none that was rolled back before. *)
Bodies(c) ==
  {m \in accepted : /\ Txn(m) = Txn(c) /\ Type(m) = "Data"
                    /\ TT(m) < TT(c)
                    /\ \E b \in accepted : /\ Txn(b) = Txn(c) /\ Type(b) = "BeginTxn"
                                           /\ TT(b) < TT(m)}
RolledBack(c) ==
  \E r \in accepted : /\ Txn(r) = Txn(c) /\ Type(r) = "RollbackTxn" /\ TT(r) < TT(c)
                      /\ \E b \in accepted : /\ Txn(b) = Txn(c) /\ Type(b) = "BeginTxn"
                                             /\ TT(b) < TT(r)
TxnAtomic ==
  \A i \in 1..Len(Stream) : Txn(Stream[i].head) # NoTxn =>
    LET c == Stream[i].head
        body == Stream[i].body
    IN  /\ Type(c) = "CommitTxn"
        /\ ~RolledBack(c)
        /\ {body[k] : k \in 1..Len(body)} = Bodies(c)
        /\ \A j, k \in 1..Len(body) : j < k => TT(body[j]) < TT(body[k])

Carried(i) == {i.head} \cup {i.body[k] : k \in 1..Len(i.body)}

(* The reader of one vchannel is shown that vchannel, the messages of no
   vchannel and time ticks, and nothing the filter rejects, inside
   transactions too. *)
OnlySelected ==
  \A i \in 1..Len(Stream) : \A m \in Carried(Stream[i]) :
    /\ m \in FilterFunc
    /\ \/ IsTimeTick(m)
       \/ ReadVChannel = NoChannel
       \/ Meta[m].vchannel \in {NoChannel, ReadVChannel}

(* Back pressure: the pending queue never grows while it is above its limit,
   however many messages the producer has waiting and however long the time
   tick that is being handled takes. *)
BackPressure ==
  [][Len(pendingQueue') > Len(pendingQueue) => Len(pendingQueue) <= PendingLimit]_vars

(* Closing releases the resources of the log once, and only when neither
   goroutine of the scanner can touch them any more: Close waits for Finish,
   which execute calls after <-ch. *)
ReleaseAfterStop ==
  /\ cleanups <= 1
  /\ cleanups = 1 => producer = "done" /\ consumer = "closed"

(* After its time tick is handled no builder outlives its transaction's
   expiry: an abandoned transaction does not stay in memory for ever. *)
NoStaleBuilder ==
  consumer = "select" =>
    \A t \in TxnID : Open(t) => ExpiredTimeTick(builders[t]) > lastPopTimeTick

(* The byte counters that the scanner exports are exactly the sizes of what
   is buffered: every path out of a buffer (pop, commit, failed build,
   rollback, expiry, send) gives back what the path in took. *)
OpenTxns == {t \in TxnID : Open(t)}
BytesExact ==
  /\ reorderBytes = Fun!SumFunctionOnSet([m \in Msg |-> EstimateSize(m)], messageHeap)
  /\ txnBytes = Fun!SumFunctionOnSet([t \in TxnID |-> builders[t].size], OpenTxns)
  /\ pendingBytes = TotalSize(pendingQueue)

(* Ctrl-C (or the limit) always gets the operator out: whatever the producer
   waits for (a send nobody reads, a backoff, a silent log) and whatever the
   consumer is doing, Close returns. *)
CloseCompletes == (user = "closing") ~> (user = "closed")

Delivered(m) == \E i \in 1..Len(delivered) : delivered[i].head = m

(* A message outside transactions that a time tick has confirmed reaches the
   command as long as the command reads, even when the pending queue was at
   its limit: refusing upstream never keeps the front from being sent. *)
ConfirmedDelivered ==
  \A m \in Msg :
    (m \in accepted /\ Txn(m) = NoTxn /\ TT(m) <= lastPopTimeTick /\ m \notin messageHeap)
      ~> (Delivered(m) \/ user # "reading")

(* What the scanner promises, without its buffers. *)
Promise == INSTANCE OrderedStream WITH
  taken <- accepted, out <- delivered, closed <- user \notin {"opened", "reading"}
PromiseSpec == Promise!Spec
=============================================================================
