---------------------------- MODULE MCWalScanner ----------------------------
(* Instances of WalScanner for TLC. *)
EXTENDS WalScanner, TLC

message(tt, type, txn, persisted) ==
  [timeTick |-> tt, type |-> type, txn |-> txn, vchannel |-> "", persisted |-> persisted,
   size |-> 1, selfControlled |-> type = "TimeTick"]

(* A transaction t1 with begin, body, commit and rollback; two plain messages,
   one of them exactly at a time tick; two time ticks. *)
FullMeta ==
  ("begin" :> message(1, "BeginTxn", "t1", FALSE)) @@
  ("body" :> [message(2, "Data", "t1", FALSE) EXCEPT !.size = 2]) @@
  ("rollback" :> message(3, "RollbackTxn", "t1", FALSE)) @@
  ("commit" :> message(5, "CommitTxn", "t1", FALSE)) @@
  ("plain2" :> message(2, "Data", "none", FALSE)) @@
  ("plain4" :> message(4, "Data", "none", FALSE)) @@
  ("tick4" :> message(4, "TimeTick", "none", FALSE)) @@
  ("tick6" :> message(6, "TimeTick", "none", TRUE))

(* Plain messages of two vchannels and of none, a filtered one, time ticks. *)
FlowMeta ==
  ("a1" :> [message(1, "Data", "none", FALSE) EXCEPT !.vchannel = "v1"]) @@
  ("b2" :> [message(2, "Data", "none", FALSE) EXCEPT !.vchannel = "v2"]) @@
  ("hidden3" :> message(3, "Data", "none", FALSE)) @@
  ("all3" :> message(3, "Data", "none", FALSE)) @@
  ("tick2" :> message(2, "TimeTick", "none", TRUE)) @@
  ("tick5" :> message(5, "TimeTick", "none", FALSE))
FlowFilter == DOMAIN FlowMeta \ {"hidden3"}

FullMsg == DOMAIN FullMeta
FlowMsg == DOMAIN FlowMeta
OneTxn == {"t1"}
VChannels == {"v1", "v2"}
None == {}

ASSUME TxnLogAssumption == UniqueTimeTicks
=============================================================================
