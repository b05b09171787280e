------------------------------ MODULE BackupFile ----------------------------
(***************************************************************************)
(* The metadata of a milvus instance and the file the backup command of    *)
(* birdwatcher makes of it (format version 2; a file of version 1 is a     *)
(* header and entries).  Keys are the numbers 1..MaxKey in the order the   *)
(* store keeps them in; the keys of the backed up instance are an interval *)
(* of them.  A file is a sequence of length-prefixed records; torn says    *)
(* that it ends inside one.                                                *)
(***************************************************************************)
EXTENDS Naturals, Sequences, FiniteSets

CONSTANTS
  MaxKey,
  PrefixFirst, PrefixLast,  \* the keys that start with joinPath(base, prefix)
  Value,
  Absent,
  Session                   \* the nodes that may answer for their metrics

Key == 1..MaxKey
InPrefix == PrefixFirst..PrefixLast
Store == [Key -> Value \cup {Absent}]
EmptyKey == 0

ASSUME FileAssumption ==
  /\ MaxKey \in Nat /\ PrefixFirst \in Key /\ PrefixLast \in Key
  /\ Absent \notin Value

NodeParts == {"metrics", "config", "app"}
Part(t, n) == [kind |-> "part", type |-> t, cnt |-> n]
Entry(k, v) == [kind |-> "entry", key |-> k, value |-> v]
NodeLabel(s) == [kind |-> "session", session |-> s]
Blob == [kind |-> "blob"]
Header(v, n) == [kind |-> "version", version |-> v, cnt |-> n]
Stop == [kind |-> "stop"]

Record ==
  [kind: {"part"}, type: NodeParts \cup {"etcd"}, cnt: Nat]
    \cup [kind: {"entry"}, key: Key, value: Value]
    \cup [kind: {"session"}, session: Session]
    \cup [kind: {"version"}, version: {1, 2}, cnt: Nat] \cup {Blob, Stop}

VARIABLES
  file,  \* the records that are in the file
  torn   \* the file, or its gzip stream, ends in the middle of a record
=============================================================================
