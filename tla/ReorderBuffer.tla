---------------------------- MODULE ReorderBuffer ---------------------------
(***************************************************************************)
(* wal/utility/reorder_buffer.go and message_heap.go: the buffer that      *)
(* holds messages until a time tick confirms them, and then gives them out *)
(* in time tick order.  The heap does not order messages of equal time     *)
(* tick: PopMin takes any of the smallest.                                 *)
(***************************************************************************)
EXTENDS WalMessage, Integers

VARIABLES
  messageHeap,      \* the buffered messages
  messageIDs,       \* the ids kept beside the heap to refuse duplicates
  lastPopTimeTick,  \* the time tick of the last PopUtilTimeTick
  reorderBytes

reorderVars == <<messageHeap, messageIDs, lastPopTimeTick, reorderBytes>>

NewReOrderBuffer ==
  /\ messageHeap = {}
  /\ messageIDs = {}
  /\ lastPopTimeTick = 0
  /\ reorderBytes = 0

(* Slips the properties must catch (see the mutants in PROJECT.json): no check
   against the last time tick; a pop that is not the minimum, or not bounded by
   the time tick; a drain that may stop early. *)
RefusedOnlyIfBuffered(m) == m \in messageIDs

TakeOut(m) ==
  /\ messageHeap' = messageHeap \ {m}
  /\ messageIDs' = messageIDs \ {m}
  /\ reorderBytes' = reorderBytes - EstimateSize(m)
  /\ UNCHANGED lastPopTimeTick
PopAny(m, timetick) ==
  m \in messageHeap /\ TT(m) <= timetick /\ TakeOut(m)
PopMinUnbounded(m, timetick) ==
  m \in messageHeap /\ (\A n \in messageHeap : TT(m) <= TT(n)) /\ TakeOut(m)
PopEndEarly(timetick) ==
  /\ lastPopTimeTick' = timetick
  /\ UNCHANGED <<messageHeap, messageIDs, reorderBytes>>

(* Push refuses a message below the last confirmed time tick, and one whose
   id is in the buffer. *)
Refused(m) == TT(m) < lastPopTimeTick \/ m \in messageIDs

Push(m) ==
  \/ /\ Refused(m)
     /\ UNCHANGED reorderVars
  \/ /\ ~Refused(m)
     /\ messageHeap' = messageHeap \cup {m}
     /\ messageIDs' = messageIDs \cup {m}
     /\ reorderBytes' = reorderBytes + EstimateSize(m)
     /\ UNCHANGED lastPopTimeTick

(* The loop of PopUtilTimeTick(timetick) takes one message ... *)
PopMin(m, timetick) ==
  /\ m \in messageHeap
  /\ \A n \in messageHeap : TT(m) <= TT(n)
  /\ TT(m) <= timetick
  /\ TakeOut(m)

(* ... and ends when the heap's top is above the time tick. *)
PopEnd(timetick) ==
  /\ \A n \in messageHeap : TT(n) > timetick
  /\ lastPopTimeTick' = timetick
  /\ UNCHANGED <<messageHeap, messageIDs, reorderBytes>>
=============================================================================
