---------------------------- MODULE OrderedStream ---------------------------
(***************************************************************************)
(* What the WAL scanner promises to the command that reads from it, with   *)
(* no buffers, goroutines or transactions: a stream in time tick order     *)
(* whose time ticks are watermarks over the messages taken from the log.   *)
(***************************************************************************)
EXTENDS WalMessage

VARIABLES
  taken,   \* messages taken from the log
  out,     \* items given to the reader
  closed   \* the reader has stopped reading

Init == taken = {} /\ out = << >> /\ closed = FALSE

(* A message is taken only while it can still be given out in order. *)
Take(m) ==
  /\ \A i \in 1..Len(out) : ItemTT(out[i]) <= TT(m)
  /\ taken' = taken \cup {m}
  /\ UNCHANGED <<out, closed>>

(* An item never goes before the last one, a transaction is given out only
   under its commit message, and a time tick only when every plain message
   below it has been given out. *)
Emit ==
  LET i == out'[Len(out')] IN
  /\ ~closed
  /\ Len(out') = Len(out) + 1
  /\ out' = Append(out, i)
  /\ \A k \in 1..Len(out) : ItemTT(out[k]) <= ItemTT(i)
  /\ Txn(i.head) # NoTxn => Type(i.head) = "CommitTxn"
  /\ IsTimeTick(i.head) =>
       \A m \in taken : (Txn(m) = NoTxn /\ TT(m) < ItemTT(i)) =>
         \E k \in 1..Len(out) : out[k].head = m
  /\ closed' \in BOOLEAN
  /\ UNCHANGED taken

Stop ==
  /\ closed' = TRUE
  /\ UNCHANGED <<taken, out>>

Next == (\E m \in Msg : Take(m)) \/ Emit \/ Stop

Spec == Init /\ [][Next]_<<taken, out, closed>>
=============================================================================
