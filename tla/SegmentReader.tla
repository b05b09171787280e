--------------------------- MODULE SegmentReader ----------------------------
(***************************************************************************)
(* The reader of one segment: it opens the binlogs of one batch after the  *)
(* other, reads their parts in step and composes records of the selected   *)
(* fields.                                                                 *)
(*                                                                         *)
(* A segment is [id, level, state, part, version, binlogs, deltas];        *)
(* binlogs is a sequence of [field, logs], logs and deltas are paths. Files*)
(* are opened in the order of a Go map, so when several fail any of the    *)
(* errors may be returned: the operators return the set of outcomes.       *)
(***************************************************************************)
EXTENDS BinlogFile

CONSTANTS
    Object,       \* the file at each path
    Unreadable,   \* the paths the object store fails to read
    BatchSize     \* rows in a record

TsField   == 1
PkField   == 100
RowIDField == 0

\* What NextRecordReader returns for each part of each file.
Part == [p \in DOMAIN Object |->
            [n \in 1 .. Len(Object[p].parts) + 1 |-> NextRecordReader(Object[p], n)]]

Errors(results) == {r.err : r \in results} \ {""}

\* GetObject does not read yet: a failing object shows when it is opened.
OpenObject(version, path) ==
    IF path \in Unreadable THEN "fail" ELSE NewBinlogReader(version, Object[path])

-----------------------------------------------------------------------------
(* Which files a batch needs. A field with fewer binlogs ends the segment, *)
(* whether it is selected or not.                                          *)

FieldIDSelector(field, fields) == field \in fields

MatchingWideColumn(field, fields) == field < 100 \/ field \in fields

Selects(seg, i, fields) ==
    LET field == seg.binlogs[i].field IN
    IF seg.version = 2 THEN MatchingWideColumn(field, fields)
                       ELSE FieldIDSelector(field, fields)

SelectBinlogs(seg, fields, batch) ==
    IF \/ seg.binlogs = <<>>
       \/ \E i \in DOMAIN seg.binlogs : batch > Len(seg.binlogs[i].logs)
    THEN Err("eof")
    ELSE Ok({seg.binlogs[i].logs[batch] :
                i \in {j \in DOMAIN seg.binlogs : Selects(seg, j, fields)}})

-----------------------------------------------------------------------------
(* A reader [batch, open, part, row]: the last batch opened, its files     *)
(* that hold a selected field, the part being read and the rows of it      *)
(* already returned.                                                       *)

NewReader == [batch |-> 0, open |-> {}, part |-> 0, row |-> 0]

Outcome(err, rd) == [err |-> err, rd |-> rd]

Hit(path, fields) == ToSet(Object[path].cols) \cap fields # {}

\* An empty object, or one that ends behind its magic number, is the io.EOF that
\* also says that a segment has no batch left.
NextBatch(seg, fields, rd) ==
    LET sel  == SelectBinlogs(seg, fields, rd.batch + 1)
        bad  == {p \in sel.val : OpenObject(seg.version, p) # ""}
        hits == {p \in sel.val \ bad : Hit(p, fields)}
        errs == Errors({Part[p][1] : p \in hits})
                \cup {OpenObject(seg.version, p) : p \in bad}
    IN IF sel.err # "" THEN {Outcome(sel.err, rd)}
       ELSE IF errs # {} THEN {Outcome(e, rd) : e \in errs}
       ELSE {Outcome("", [batch |-> rd.batch + 1, open |-> hits,
                          part |-> 1, row |-> 0])}

\* Next part of the open files, or else the next batch.
IterateNext(seg, fields, rd) ==
    LET errs == Errors({Part[p][rd.part + 1] : p \in rd.open})
    IN IF rd.open # {} /\ errs = {}
       THEN {Outcome("", [rd EXCEPT !.part = @ + 1, !.row = 0])}
       ELSE UNION {IF e = "eof" THEN NextBatch(seg, fields, rd)
                                ELSE {Outcome(e, rd)} :
                      e \in IF rd.open = {} THEN {"eof"} ELSE errs}

\* The file and the column of a field among open files.
ColumnOf(open, f) ==
    CHOOSE pc \in {<<p, c>> : p \in open, c \in 1 .. 3} :
        /\ pc[2] \in DOMAIN Object[pc[1]].cols
        /\ Object[pc[1]].cols[pc[2]] = f

\* The next record: <<>> when a file of the batch has no row left in this part.
ComposeRecord(rd, fields) ==
    LET rows == [p \in rd.open |-> Part[p][rd.part].val]
        left == {Len(rows[p]) - rd.row : p \in rd.open} \cup {BatchSize}
        n    == CHOOSE n \in left : \A m \in left : n <= m
        here == fields \cap UNION {ToSet(Object[p].cols) : p \in rd.open}
        at   == [f \in here |-> ColumnOf(rd.open, f)]
    IN [i \in 1 .. n |-> [f \in here |-> rows[at[f][1]][rd.row + i][at[f][2]]]]

\* Next: a record and the reader after it. When the part is used up it looks
\* once further; a second empty part ends the segment. A batch without any of
\* the selected fields makes a record without columns, which has no length.
Compose(rd, fields) ==
    LET rec == ComposeRecord(rd, fields) IN
    [err |-> CASE rd.open = {} -> "panic"
               [] rd.open # {} /\ rec = <<>> -> "eof"
               [] OTHER -> "",
     rd  |-> [rd EXCEPT !.row = @ + Len(rec)], rec |-> rec]

NextRecord(seg, fields, rd) ==
    LET fresh == {Outcome("", rd)}
        first == IF rd.batch = 0 THEN IterateNext(seg, fields, rd) ELSE fresh
        again(o) == IF o.err # "" \/ Compose(o.rd, fields).err = "" THEN {o}
                    ELSE IterateNext(seg, fields, o.rd)
        outs  == UNION {again(o) : o \in first}
    IN {IF o.err # "" THEN [err |-> o.err, rd |-> o.rd, rec |-> <<>>]
                      ELSE Compose(o.rd, fields) : o \in outs}

-----------------------------------------------------------------------------
(* Delta logs. A record is a cell <<[pk, ts]>>.                            *)

OpenDelta(path) == path \notin Unreadable /\ NewBinlogReaderV1(Object[path]) = ""

DeltaRecords(entries) == [i \in DOMAIN entries |-> entries[i][1]]

\* The records of the first event of each delta log.
FirstDelta ==
    [path \in DOMAIN Object \cup Unreadable |->
        IF ~OpenDelta(path) THEN Err("fail")
        ELSE LET r == NextDeltaEvent(Object[path], 1)
             IN [r EXCEPT !.val = DeltaRecords(@)]]
=============================================================================
