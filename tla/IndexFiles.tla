----------------------------- MODULE IndexFiles -----------------------------
(***************************************************************************)
(* Index files on disk. A big index is cut into slices "name_0",           *)
(* "name_1", ... with a SLICE_META file that tells name and number;        *)
(* assemble-indexfiles puts them together again. A file name is a pair     *)
(* <<text, number>>; a file is [head, key, cut, data]: head tells whether  *)
(* the magic number and descriptor can be read, key is the one in its      *)
(* descriptor, cut where the file ends, data its blocks.                   *)
(***************************************************************************)
EXTENDS BinlogFile, FiniteSets

CONSTANT Folder       \* the files of the directory

MetaName == <<"SLICE_META", 0>>

\* NewIndexReader and NextEventReader, whose errors all end the read.
NextIndexEvent(f) ==
    IF f.head /\ f.cut = "" THEN Ok(f.data) ELSE Err("fail")

ReadIndexFile(name, key) ==
    IF name \notin DOMAIN Folder THEN Err("fail")
    ELSE LET f == Folder[name]
             r == NextIndexEvent(f)
         IN IF f.head /\ f.key = key /\ r.err = "" /\ Len(r.val) = 1
            THEN Ok(r.val[1])
            ELSE Err("fail")

TryParseSliceMeta == ReadIndexFile(MetaName, MetaName)

\* The numbers after "name_" in the folder.
SliceNumbers(text) == {n[2] : n \in {m \in DOMAIN Folder : m[1] = text}}

\* The folder is complete when as many slices are there as SLICE_META says.
SlicesComplete(meta) == Cardinality(SliceNumbers(meta.name)) = meta.num

\* What assembling writes: the slices in order up to the first that cannot be
\* read.
SliceData(meta) ==
    [i \in 1 .. meta.num |-> ReadIndexFile(<<meta.name, i - 1>>, <<meta.name, i - 1>>)]
=============================================================================
