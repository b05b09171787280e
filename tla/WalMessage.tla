----------------------------- MODULE WalMessage -----------------------------
(***************************************************************************)
(* The messages of a write-ahead log (one pchannel) as the scanner of      *)
(* wal/adaptor sees them.  A message is an element of Msg; the attributes  *)
(* the code reads from it are the fields of Meta[m].  The message type     *)
(* itself (message.ImmutableMessage) and the log are the milvus packages', *)
(* and only what the scanner uses of them is here.                         *)
(***************************************************************************)
EXTENDS Naturals, Sequences

CONSTANTS
  Msg,        \* the messages that may be in the log
  Meta,       \* their attributes, a function on Msg
  TxnID,      \* ids of transactions
  NoTxn,      \* TxnContext() == nil
  Channels,   \* names of vchannels
  NoChannel   \* the empty vchannel name

MsgType == {"TimeTick", "BeginTxn", "CommitTxn", "RollbackTxn", "Data"}

Attributes ==
  [timeTick: Nat, type: MsgType, txn: TxnID \cup {NoTxn},
   vchannel: Channels \cup {NoChannel}, persisted: BOOLEAN, size: Nat,
   selfControlled: BOOLEAN]

TT(m) == Meta[m].timeTick
Type(m) == Meta[m].type
Txn(m) == Meta[m].txn
EstimateSize(m) == Meta[m].size
IsTimeTick(m) == Type(m) = "TimeTick"

(* A message has one id: a repeated message is the same element of Msg.  A time tick is never part of a
   transaction. *)
ASSUME MessageAssumption ==
  /\ Meta \in [Msg -> Attributes]
  /\ NoTxn \notin TxnID
  /\ NoChannel \notin Channels
  /\ \A m \in Msg : IsTimeTick(m) => Txn(m) = NoTxn

(* What a consumer receives: a message as it is in the log (body empty), or
   a whole transaction, delivered under its commit message. *)
Item == [head: Msg, body: Seq(Msg), size: Nat]

Plain(m) == [head |-> m, body |-> << >>, size |-> EstimateSize(m)]
ItemTT(i) == TT(i.head)
=============================================================================
