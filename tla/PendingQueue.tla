----------------------------- MODULE PendingQueue ---------------------------
(***************************************************************************)
(* wal/utility/pending_queue.go: the confirmed items that wait for the     *)
(* consumer, first in first out (typeutil.MultipartQueue), with their      *)
(* total size.                                                             *)
(***************************************************************************)
EXTENDS WalMessage, Integers

VARIABLES
  pendingQueue,
  pendingBytes

pendingVars == <<pendingQueue, pendingBytes>>

NewPendingQueue ==
  /\ pendingQueue = << >>
  /\ pendingBytes = 0

(* Total size of a sequence of items. *)
TotalSize(s) ==
  LET total[n \in 0..Len(s)] == IF n = 0 THEN 0 ELSE total[n - 1] + s[n].size
  IN  total[Len(s)]

AddToPending(items) ==
  /\ pendingQueue' = pendingQueue \o items
  /\ pendingBytes' = pendingBytes + TotalSize(items)

Front == pendingQueue[1]

UnsafeAdvance ==
  /\ pendingQueue' = Tail(pendingQueue)
  /\ pendingBytes' = pendingBytes - Front.size
=============================================================================
