------------------------------ MODULE TxnBuffer -----------------------------
(***************************************************************************)
(* wal/utility/txn_buffer.go: holds the messages of open transactions and  *)
(* gives a transaction out, as one item, when its commit message arrives.  *)
(* The ImmutableTxnMessageBuilder is the milvus package's: it keeps the    *)
(* begin message and the bodies in order of Add, knows their total size,   *)
(* and expires Keepalive after the last message it was given.              *)
(***************************************************************************)
EXTENDS WalMessage, Integers

CONSTANTS
  Keepalive,    \* life of a transaction after its last message, in time ticks
  BuildMayFail  \* whether builder.Build(commit) may return an error

ASSUME TxnAssumption == Keepalive \in Nat /\ BuildMayFail \in BOOLEAN

VARIABLES
  builders,   \* txn id -> [msgs, size]; an absent builder has msgs = << >>
  txnBytes,
  confirmed   \* `result': what the messages handled so far give out

txnVars == <<builders, txnBytes, confirmed>>

Builder == [msgs: Seq(Msg), size: Nat]
NoBuilder == [msgs |-> << >>, size |-> 0]

NewTxnBuffer ==
  /\ builders = [t \in TxnID |-> NoBuilder]
  /\ txnBytes = 0
  /\ confirmed = << >>

Open(t) == builders[t].msgs # << >>
ExpiredTimeTick(b) == TT(b.msgs[Len(b.msgs)]) + Keepalive

NewImmutableTxnMessageBuilder(m) == [msgs |-> <<m>>, size |-> EstimateSize(m)]
Add(b, m) == [msgs |-> Append(b.msgs, m), size |-> b.size + EstimateSize(m)]
Build(b, m) ==
  [head |-> m, body |-> Tail(b.msgs), size |-> b.size + EstimateSize(m)]

(* A repeated begin message is ignored. *)
handleBeginTxn(m) ==
  /\ UNCHANGED confirmed
  /\ \/ /\ Open(Txn(m))
        /\ UNCHANGED <<builders, txnBytes>>
     \/ /\ ~Open(Txn(m))
        /\ builders' = [builders EXCEPT ![Txn(m)] = NewImmutableTxnMessageBuilder(m)]
        /\ txnBytes' = txnBytes + EstimateSize(m)

(* Slips: bytes not given back, a rollback that leaves the builder, an
   expiry off by one. *)
CloseKeepsBytes(t) ==
  /\ builders' = [builders EXCEPT ![t] = NoBuilder]
  /\ UNCHANGED txnBytes
RollbackIgnored(m) == UNCHANGED txnVars
ExpiredLate(ts) == {t \in TxnID : Open(t) /\ ExpiredTimeTick(builders[t]) < ts}

Close(t) ==
  /\ builders' = [builders EXCEPT ![t] = NoBuilder]
  /\ txnBytes' = txnBytes - builders[t].size

(* The builder is dropped whether or not the transaction can be built. *)
handleCommitTxn(m) ==
  \/ /\ ~Open(Txn(m))
     /\ UNCHANGED txnVars
  \/ /\ Open(Txn(m))
     /\ Close(Txn(m))
     /\ \/ confirmed' = Append(confirmed, Build(builders[Txn(m)], m))
        \/ BuildMayFail /\ UNCHANGED confirmed

handleRollbackTxn(m) ==
  /\ UNCHANGED confirmed
  /\ \/ Open(Txn(m)) /\ Close(Txn(m))
     \/ ~Open(Txn(m)) /\ UNCHANGED <<builders, txnBytes>>

(* The body of a transaction that is not open is ignored. *)
handleTxnBodyMessage(m) ==
  /\ UNCHANGED confirmed
  /\ \/ /\ ~Open(Txn(m))
        /\ UNCHANGED <<builders, txnBytes>>
     \/ /\ Open(Txn(m))
        /\ builders' = [builders EXCEPT ![Txn(m)] = Add(@, m)]
        /\ txnBytes' = txnBytes + EstimateSize(m)

(* One turn of the loop of HandleImmutableMessages. *)
HandleImmutableMessage(m) ==
  \/ /\ Txn(m) = NoTxn
     /\ confirmed' = Append(confirmed, Plain(m))
     /\ UNCHANGED <<builders, txnBytes>>
  \/ /\ Txn(m) # NoTxn
     /\ \/ Type(m) = "BeginTxn" /\ handleBeginTxn(m)
        \/ Type(m) = "CommitTxn" /\ handleCommitTxn(m)
        \/ Type(m) = "RollbackTxn" /\ handleRollbackTxn(m)
        \/ /\ Type(m) \notin {"BeginTxn", "CommitTxn", "RollbackTxn"}
           /\ handleTxnBodyMessage(m)

Expired(ts) == {t \in TxnID : Open(t) /\ ExpiredTimeTick(builders[t]) <= ts}

(* One turn of the loop of clearExpiredTxn(ts), which ends when no expired
   transaction is left. *)
clearExpiredTxn(t, ts) ==
  /\ t \in Expired(ts)
  /\ Close(t)
  /\ UNCHANGED confirmed
=============================================================================
