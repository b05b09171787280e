----------------------------- MODULE BinlogFile -----------------------------
(***************************************************************************)
(* What the readers of storage/ make of one object of the object store.    *)
(*                                                                         *)
(* A file is a record [magic, desc, cols, parts]: magic and desc are the   *)
(* errors of reading its magic number and its description ("" for none,    *)
(* "eof" when the file ends right before a read), cols the fields of its   *)
(* columns, parts its events (storage v1, delta logs) or row groups (v2).  *)
(* A part                                                                  *)
(* [cut, groups] holds row groups, each a sequence of rows with one cell   *)
(* per column; cut tells where the file ends inside the part: "" nowhere,  *)
(* "header" after the event header, "fixed" after the fixed part of its    *)
(* data, "inside" anywhere else.                                           *)
(***************************************************************************)
EXTENDS Integers, SequencesExt

CONSTANT Zero      \* the zero value of a column's Go type

Ok(v)  == [err |-> "", val |-> v]
Err(e) == [err |-> e, val |-> <<>>]

-----------------------------------------------------------------------------
(* Opening. *)

ReadMagicNumber(f) == f.magic
ReadDescriptorEvent(f) == f.desc

NewBinlogReaderV1(f) ==
    IF ReadMagicNumber(f) # "" THEN ReadMagicNumber(f) ELSE ReadDescriptorEvent(f)

\* A v2 file is one parquet file: its footer and the field ids of its schema.
NewBinlogReaderV2(f) == f.desc

NewBinlogReader(version, f) ==
    CASE version \in {0, 1} -> NewBinlogReaderV1(f)
      [] version = 2        -> NewBinlogReaderV2(f)
      [] OTHER              -> "fail"

-----------------------------------------------------------------------------
(* Reading one part. io.EOF is the end of the readers: it is returned at   *)
(* the end of the file and wherever the file ends between two reads.       *)

NextRecordReader(f, pos) ==
    IF pos > Len(f.parts) THEN Err("eof")
    ELSE CASE f.parts[pos].cut = "header" -> Err("eof")
           [] f.parts[pos].cut = ""       -> Ok(FlattenSeq(f.parts[pos].groups))
           [] OTHER                       -> Err("fail")

\* readPayloadAll writes every row group at the same offset.
ReadPayloadAll(groups) ==
    LET long(i) == {g \in DOMAIN groups : i <= Len(groups[g])}
        last(i) == CHOOSE g \in long(i) : \A h \in long(i) : h <= g
    IN [i \in 1 .. Len(FlattenSeq(groups)) |->
           IF long(i) = {} THEN Zero ELSE groups[last(i)][i]]

\* readData, behind the typed readers of a v1 file.
ReadData(f, pos) ==
    IF pos > Len(f.parts) THEN Err("eof")
    ELSE CASE f.parts[pos].cut = "header" -> Err("eof")
           [] f.parts[pos].cut = ""       -> Ok(ReadPayloadAll(f.parts[pos].groups))
           [] OTHER                       -> Err("fail")

\* The delta reader also returns the error of reading the payload, which is
\* io.EOF when none of it is there; an entry that is not JSON fails the read.
NextDeltaEvent(f, pos) ==
    IF pos > Len(f.parts) THEN Err("eof")
    ELSE CASE f.parts[pos].cut \in {"header", "fixed"} -> Err("eof")
           [] f.parts[pos].cut = "inside"              -> Err("fail")
           [] f.parts[pos].cut = ""                    ->
                LET entries == ReadPayloadAll(f.parts[pos].groups) IN
                IF \E i \in DOMAIN entries : entries[i] = Zero
                THEN Err("fail")
                ELSE Ok(entries)
=============================================================================
