---------------------- MODULE CollectionRemovalProofs ----------------------
(***************************************************************************)
(* What the remove commands take of the collections and what they leave,   *)
(* for every set of collections and keys, every page size and number of    *)
(* commands, whatever milvus does between two calls and whichever calls    *)
(* fail:                                                                   *)
(*                                                                         *)
(*   - the commands that look for what nobody uses never take a key of a   *)
(*     live collection (LiveKept). No deletion already decided hits a key  *)
(*     of a collection that the command has to keep, and which ones these  *)
(*     are only shrinks while it runs (LiveInv);                           *)
(*   - collection-drop leaves nothing of what it chose (DropCleans): each  *)
(*     key is gone, about to be removed, or its collection still to come   *)
(*     (DropInv);                                                          *)
(*   - collection-meta-leaked leaves nothing of what was dropped before it *)
(*     started (LeaksCleaned): each key the walk has passed is gone or     *)
(*     about to be removed, and no page skips one (LeaksInv).              *)
(***************************************************************************)
EXTENDS RemoveCommandsProofs, SequenceFacts

-----------------------------------------------------------------------------
(* Paths. *)

LEMMA LiteralsGiven ==
    /\ "root-coord" # Empty /\ "collection" # Empty /\ "collection-info" # Empty
    /\ "fields" # Empty /\ "partitions" # Empty /\ "s" # Empty
  BY DEF Empty

\* A sequence with one element more, behind or in front.
LEMMA AppendIs ==
    ASSUME NEW X, NEW s \in Seq(X), NEW z \in X, NEW t \in Seq(X), Len(t) = Len(s) + 1,
           \A i \in 1 .. Len(s) : t[i] = s[i], t[Len(s) + 1] = z
    PROVE  Append(s, z) = t
  <1> DEFINE r == Append(s, z)
  <1>1. /\ r \in Seq(X) /\ Len(r) = Len(s) + 1 /\ \A i \in 1 .. Len(s) : r[i] = s[i]
        /\ r[Len(s) + 1] = z
    BY AppendProperties
  <1>2. Len(s) \in Nat
    OBVIOUS
  <1> HIDE DEF r
  <1>3. \A i \in 1 .. Len(r) : r[i] = t[i]
    BY <1>1, <1>2
  <1>4. r = t
    BY <1>1, <1>3, SeqEqual
  <1> QED BY <1>4 DEF r

LEMMA ConsIs ==
    ASSUME NEW X, NEW s \in Seq(X), NEW z \in X, NEW t \in Seq(X), Len(t) = Len(s) + 1,
           \A i \in 1 .. Len(s) : t[i + 1] = s[i], t[1] = z
    PROVE  <<z>> \o s = t
  <1> DEFINE one == <<z>>
             r == one \o s
  <1>1. one \in Seq(X) /\ Len(one) = 1 /\ one[1] = z
    OBVIOUS
  <1>2. Len(s) \in Nat
    OBVIOUS
  <1> HIDE DEF one
  <1>3. r \in Seq(X) /\ Len(r) = Len(one) + Len(s)
    BY <1>1, ConcatProperties
  <1>4. \A i \in 1 .. Len(one) + Len(s) : r[i] = IF i <= Len(one) THEN one[i] ELSE s[i - Len(one)]
    BY <1>1, ConcatProperties
  <1> HIDE DEF r
  <1>5. ASSUME NEW i \in 1 .. Len(r) PROVE r[i] = t[i]
    <2>1. CASE i = 1
      BY <1>1, <1>2, <1>3, <1>4, <2>1
    <2>2. CASE i # 1
      <3> DEFINE j == i - 1
      <3>1. j \in 1 .. Len(s) /\ i = j + 1
        BY <1>1, <1>2, <1>3, <2>2
      <3>2. r[i] = s[j]
        BY <1>1, <1>2, <1>3, <1>4, <2>2
      <3> HIDE DEF j
      <3> QED BY <3>1, <3>2
    <2> QED BY <2>1, <2>2
  <1>6. r = t
    BY <1>1, <1>2, <1>3, <1>5, SeqEqual
  <1> QED BY <1>6 DEF r, one

\* The paths that are put together from shorter ones.
LEMMA AppendTwo ==
    ASSUME NEW a, NEW b, NEW z
    PROVE  Append(<<a, b>>, z) = <<a, b, z>>
  <1> DEFINE X == {a, b, z}
             s == <<a, b>>
             t == <<a, b, z>>
  <1>1. /\ s \in Seq(X) /\ t \in Seq(X) /\ z \in X /\ Len(s) = 2 /\ Len(t) = Len(s) + 1
        /\ \A i \in 1 .. Len(s) : t[i] = s[i]
        /\ t[Len(s) + 1] = z
    OBVIOUS
  <1> HIDE DEF X, s, t
  <1>2. Append(s, z) = t
    BY <1>1, AppendIs
  <1> QED BY <1>2 DEF s, t

LEMMA AppendThree ==
    ASSUME NEW a, NEW b, NEW c, NEW z
    PROVE  Append(<<a, b, c>>, z) = <<a, b, c, z>>
  <1> DEFINE X == {a, b, c, z}
             s == <<a, b, c>>
             t == <<a, b, c, z>>
  <1>1. /\ s \in Seq(X) /\ t \in Seq(X) /\ z \in X /\ Len(s) = 3 /\ Len(t) = Len(s) + 1
        /\ \A i \in 1 .. Len(s) : t[i] = s[i]
        /\ t[Len(s) + 1] = z
    OBVIOUS
  <1> HIDE DEF X, s, t
  <1>2. Append(s, z) = t
    BY <1>1, AppendIs
  <1> QED BY <1>2 DEF s, t

LEMMA AppendFour ==
    ASSUME NEW a, NEW b, NEW c, NEW d, NEW z
    PROVE  Append(<<a, b, c, d>>, z) = <<a, b, c, d, z>>
  <1> DEFINE X == {a, b, c, d, z}
             s == <<a, b, c, d>>
             t == <<a, b, c, d, z>>
  <1>1. /\ s \in Seq(X) /\ t \in Seq(X) /\ z \in X /\ Len(s) = 4 /\ Len(t) = Len(s) + 1
        /\ \A i \in 1 .. Len(s) : t[i] = s[i]
        /\ t[Len(s) + 1] = z
    OBVIOUS
  <1> HIDE DEF X, s, t
  <1>2. Append(s, z) = t
    BY <1>1, AppendIs
  <1> QED BY <1>2 DEF s, t

LEMMA AppendFive ==
    ASSUME NEW a, NEW b, NEW c, NEW d, NEW e, NEW z
    PROVE  Append(<<a, b, c, d, e>>, z) = <<a, b, c, d, e, z>>
  <1> DEFINE X == {a, b, c, d, e, z}
             s == <<a, b, c, d, e>>
             t == <<a, b, c, d, e, z>>
  <1>1. /\ s \in Seq(X) /\ t \in Seq(X) /\ z \in X /\ Len(s) = 5 /\ Len(t) = Len(s) + 1
        /\ \A i \in 1 .. Len(s) : t[i] = s[i]
        /\ t[Len(s) + 1] = z
    OBVIOUS
  <1> HIDE DEF X, s, t
  <1>2. Append(s, z) = t
    BY <1>1, AppendIs
  <1> QED BY <1>2 DEF s, t

LEMMA AppendSix ==
    ASSUME NEW a, NEW b, NEW c, NEW d, NEW e, NEW f, NEW z
    PROVE  Append(<<a, b, c, d, e, f>>, z) = <<a, b, c, d, e, f, z>>
  <1> DEFINE X == {a, b, c, d, e, f, z}
             s == <<a, b, c, d, e, f>>
             t == <<a, b, c, d, e, f, z>>
  <1>1. /\ s \in Seq(X) /\ t \in Seq(X) /\ z \in X /\ Len(s) = 6 /\ Len(t) = Len(s) + 1
        /\ \A i \in 1 .. Len(s) : t[i] = s[i]
        /\ t[Len(s) + 1] = z
    OBVIOUS
  <1> HIDE DEF X, s, t
  <1>2. Append(s, z) = t
    BY <1>1, AppendIs
  <1> QED BY <1>2 DEF s, t

LEMMA ConsTwo ==
    ASSUME NEW z, NEW a, NEW b
    PROVE  <<z>> \o <<a, b>> = <<z, a, b>>
  <1> DEFINE X == {a, b, z}
             s == <<a, b>>
             t == <<z, a, b>>
  <1>1. /\ s \in Seq(X) /\ t \in Seq(X) /\ z \in X /\ Len(s) = 2 /\ Len(t) = Len(s) + 1
        /\ \A i \in 1 .. Len(s) : t[i + 1] = s[i]
        /\ t[1] = z
    OBVIOUS
  <1> HIDE DEF X, s, t
  <1>2. <<z>> \o s = t
    BY <1>1, ConsIs
  <1> QED BY <1>2 DEF s, t

LEMMA ConsThree ==
    ASSUME NEW z, NEW a, NEW b, NEW c
    PROVE  <<z>> \o <<a, b, c>> = <<z, a, b, c>>
  <1> DEFINE X == {a, b, c, z}
             s == <<a, b, c>>
             t == <<z, a, b, c>>
  <1>1. /\ s \in Seq(X) /\ t \in Seq(X) /\ z \in X /\ Len(s) = 3 /\ Len(t) = Len(s) + 1
        /\ \A i \in 1 .. Len(s) : t[i + 1] = s[i]
        /\ t[1] = z
    OBVIOUS
  <1> HIDE DEF X, s, t
  <1>2. <<z>> \o s = t
    BY <1>1, ConsIs
  <1> QED BY <1>2 DEF s, t

LEMMA ConsFour ==
    ASSUME NEW z, NEW a, NEW b, NEW c, NEW d
    PROVE  <<z>> \o <<a, b, c, d>> = <<z, a, b, c, d>>
  <1> DEFINE X == {a, b, c, d, z}
             s == <<a, b, c, d>>
             t == <<z, a, b, c, d>>
  <1>1. /\ s \in Seq(X) /\ t \in Seq(X) /\ z \in X /\ Len(s) = 4 /\ Len(t) = Len(s) + 1
        /\ \A i \in 1 .. Len(s) : t[i + 1] = s[i]
        /\ t[1] = z
    OBVIOUS
  <1> HIDE DEF X, s, t
  <1>2. <<z>> \o s = t
    BY <1>1, ConsIs
  <1> QED BY <1>2 DEF s, t

LEMMA ConsFive ==
    ASSUME NEW z, NEW a, NEW b, NEW c, NEW d, NEW e
    PROVE  <<z>> \o <<a, b, c, d, e>> = <<z, a, b, c, d, e>>
  <1> DEFINE X == {a, b, c, d, e, z}
             s == <<a, b, c, d, e>>
             t == <<z, a, b, c, d, e>>
  <1>1. /\ s \in Seq(X) /\ t \in Seq(X) /\ z \in X /\ Len(s) = 5 /\ Len(t) = Len(s) + 1
        /\ \A i \in 1 .. Len(s) : t[i + 1] = s[i]
        /\ t[1] = z
    OBVIOUS
  <1> HIDE DEF X, s, t
  <1>2. <<z>> \o s = t
    BY <1>1, ConsIs
  <1> QED BY <1>2 DEF s, t

-----------------------------------------------------------------------------
(* The keys of a collection. *)

LEMMA CollectionKey ==
    ASSUME NEW c
    PROVE  KeyOf("collection", c) =
               IF DbId[c] = "0" THEN <<"root-coord", "collection", c>>
               ELSE <<"root-coord", "database", "collection-info", DbId[c], c>>
  <1>1. KeyOf("collection", c) = Append(CollectionPath(c), c)
    BY DEF KeyOf
  <1>2. CASE DbId[c] = "0"
    <2>1. CollectionPath(c) = <<"root-coord", "collection">>
      BY <1>2 DEF CollectionPath
    <2> QED BY <1>1, <1>2, <2>1, AppendTwo
  <1>3. CASE DbId[c] # "0"
    <2>1. CollectionPath(c) = <<"root-coord", "database", "collection-info", DbId[c]>>
      BY <1>3 DEF CollectionPath
    <2> QED BY <1>1, <1>3, <2>1, AppendFour
  <1> QED BY <1>2, <1>3

LEMMA SnapshotKey ==
    ASSUME NEW c
    PROVE  KeyOf("collection-snapshot", c) =
               IF DbId[c] = "0"
               THEN <<"snapshots", "root-coord", "collection", SnapshotId[c]>>
               ELSE <<"snapshots", "root-coord", "database", "collection-info", DbId[c],
                      SnapshotId[c]>>
  <1> DEFINE old == <<"root-coord", "collection">>
             new == <<"root-coord", "database", "collection-info", DbId[c]>>
             sold == <<"snapshots">> \o old
             snew == <<"snapshots">> \o new
  <1>1. KeyOf("collection-snapshot", c) =
            IF DbId[c] = "0" THEN Append(sold, SnapshotId[c]) ELSE Append(snew, SnapshotId[c])
    BY Zenon DEF KeyOf, CollectionPath
  <1>2. sold = <<"snapshots", "root-coord", "collection">>
    BY ConsTwo, Zenon
  <1>3. snew = <<"snapshots", "root-coord", "database", "collection-info", DbId[c]>>
    BY ConsFour, Zenon
  <1> HIDE DEF sold, snew
  <1>4. Append(sold, SnapshotId[c]) =
            <<"snapshots", "root-coord", "collection", SnapshotId[c]>>
    BY <1>2, AppendThree
  <1>5. Append(snew, SnapshotId[c]) =
            <<"snapshots", "root-coord", "database", "collection-info", DbId[c], SnapshotId[c]>>
    BY <1>3, AppendFive
  <1> QED BY <1>1, <1>4, <1>5

LEMMA OtherKeys ==
    ASSUME NEW c \in Collections
    PROVE  /\ KeyOf("fields", c) = <<"root-coord", "fields", c, "100">>
           /\ KeyOf("fields-snapshot", c) = <<"snapshots", "root-coord", "fields", c, "100_ts">>
           /\ KeyOf("partitions", c) = <<"root-coord", "partitions", c, "p">>
           /\ KeyOf("watch", c) = <<"channelwatch", "node", Channel[c]>>
           /\ KeyOf("checkpoint", c) = <<"datacoord-meta", "channel-cp", Channel[c]>>
           /\ KeyOf("removal", c) = <<"datacoord-meta", "channel-removal", Channel[c]>>
           /\ KeyOf("segment", c) = <<"datacoord-meta", "s", c, "p", Segment[c]>>
           /\ KeyOf("binlog", c) = <<"datacoord-meta", "binlog", c, "p", Segment[c], "100">>
           /\ KeyOf("index", c) = <<"field-index", c, Channel[c]>>
           /\ KeyOf("stats-task", c) = <<"datacoord-meta", "stats-task", Segment[c]>>
           /\ KeyOf("compaction-task", c) =
                  <<"datacoord-meta", "compaction-task", "Mix", "job", Segment[c]>>
  BY DEF KeyOf

\* What kind of key it is can be read off its components.
KindIn(k) ==
    IF k[1] = "channelwatch" THEN "watch"
    ELSE IF k[1] = "field-index" THEN "index"
    ELSE IF k[1] = "snapshots" THEN
        IF k[3] = "fields" THEN "fields-snapshot" ELSE "collection-snapshot"
    ELSE IF k[1] = "root-coord" THEN
        IF k[2] \in {"fields", "partitions"} THEN k[2] ELSE "collection"
    ELSE IF k[2] = "channel-cp" THEN "checkpoint"
    ELSE IF k[2] = "channel-removal" THEN "removal"
    ELSE IF k[2] = "s" THEN "segment"
    ELSE k[2]

LEMMA KindOfKey ==
    ASSUME NEW c \in Collections, NEW kind \in AllKinds
    PROVE  /\ KindIn(KeyOf(kind, c)) = kind
           /\ KeyOf(kind, c)[1] \in {"root-coord", "snapshots", "channelwatch",
                                     "datacoord-meta", "field-index"}
  <1>1. CASE kind = "collection"
    <2> DEFINE k == KeyOf("collection", c)
    <2>1. k[1] = "root-coord" /\ k[2] \in {"collection", "database"}
      BY CollectionKey
    <2> HIDE DEF k
    <2>2. KindIn(k) = "collection"
      BY <2>1 DEF KindIn
    <2> QED BY <1>1, <2>1, <2>2 DEF k
  <1>2. CASE kind = "collection-snapshot"
    <2> DEFINE k == KeyOf("collection-snapshot", c)
    <2>1. k[1] = "snapshots" /\ k[3] \in {"collection", "database"}
      BY SnapshotKey
    <2> HIDE DEF k
    <2>2. KindIn(k) = "collection-snapshot"
      BY <2>1 DEF KindIn
    <2> QED BY <1>2, <2>1, <2>2 DEF k
  <1>3. CASE kind \in AllKinds \ {"collection", "collection-snapshot"}
    BY <1>3, OtherKeys DEF KindIn, AllKinds, RootKinds, DataKinds
  <1> QED BY <1>1, <1>2, <1>3

\* No two collections, and no two kinds, share a key.
LEMMA KeysApart ==
    ASSUME NEW c \in Collections, NEW d \in Collections,
           NEW kind \in AllKinds, NEW kin \in AllKinds, KeyOf(kind, c) = KeyOf(kin, d)
    PROVE  kind = kin /\ c = d
  <1>1. kind = kin
    BY KindOfKey
  <1>2. CASE kind = "collection"
    BY <1>1, <1>2, CollectionKey
  <1>3. CASE kind = "collection-snapshot"
    <2>1. SnapshotId[c] = SnapshotId[d]
      BY <1>1, <1>3, SnapshotKey
    <2> QED BY <1>1, <2>1, LayoutAssumption
  <1>4. CASE kind \in AllKinds \ {"collection", "collection-snapshot"}
    <2>1. c = d \/ Channel[c] = Channel[d] \/ Segment[c] = Segment[d]
      BY <1>1, <1>4, OtherKeys DEF AllKinds, RootKinds, DataKinds
    <2> QED BY <1>1, <2>1, LayoutAssumption
  <1> QED BY <1>2, <1>3, <1>4

-----------------------------------------------------------------------------
(* The keys under a prefix. *)

\* HasPrefix of the short prefixes that are listed.
LEMMA ShortPrefix ==
    ASSUME NEW k, NEW a, NEW b, NEW c
    PROVE  /\ HasPrefix(k, <<a>>) <=>
                 1 <= Len(k) /\ (a = Empty \/ a = k[1] \/ <<a, k[1]>> \in Begins)
           /\ HasPrefix(k, <<a, b>>) <=>
                 /\ 2 <= Len(k) /\ k[1] = a
                 /\ b = Empty \/ b = k[2] \/ <<b, k[2]>> \in Begins
           /\ HasPrefix(k, <<a, b, c>>) <=>
                 /\ 3 <= Len(k) /\ k[1] = a /\ k[2] = b
                 /\ c = Empty \/ c = k[3] \/ <<c, k[3]>> \in Begins
  <1> DEFINE p == <<a>>
             q == <<a, b>>
             r == <<a, b, c>>
  <1>2. Len(p) = 1 /\ p[1] = a /\ Len(q) = 2 /\ q[1] = a /\ q[2] = b
    OBVIOUS
  <1>3. Len(r) = 3 /\ r[1] = a /\ r[2] = b /\ r[3] = c
    OBVIOUS
  <1> HIDE DEF p, q, r
  <1>4. HasPrefix(k, p) <=>
                 1 <= Len(k) /\ (a = Empty \/ a = k[1] \/ <<a, k[1]>> \in Begins)
    BY <1>2 DEF HasPrefix
  <1>5. HasPrefix(k, q) <=>
                 /\ 2 <= Len(k) /\ k[1] = a
                 /\ b = Empty \/ b = k[2] \/ <<b, k[2]>> \in Begins
    BY <1>2 DEF HasPrefix
  <1>6. HasPrefix(k, r) <=>
                 /\ 3 <= Len(k) /\ k[1] = a /\ k[2] = b
                 /\ c = Empty \/ c = k[3] \/ <<c, k[3]>> \in Begins
    BY <1>3 DEF HasPrefix
  <1> QED BY <1>4, <1>5, <1>6 DEF p, q, r

\* A key that begins like those of milvus belongs to a collection.
LEMMA OwnedKey ==
    ASSUME NEW k \in Key,
           \/ k[1] \in {"root-coord", "snapshots", "channelwatch", "field-index"}
           \/ k[1] = "datacoord-meta" /\ k[2] # "import-job"
    PROVE  \E c \in Collections, kind \in AllKinds : k = KeyOf(kind, c)
  <1>1. k # SessionKey /\ k # ConfigKey /\ k # JobKey
    BY DEF SessionKey, ConfigKey, JobKey
  <1>2. ASSUME NEW c \in Collections, k = BackupKey(c) PROVE FALSE
    <2>1. BackupKey(c)[1] = "birdwatcher"
      <3> DEFINE b == KeyOf("binlog", c)
                 S == {"datacoord-meta", "binlog", c, "p", Segment[c], "100",
                       "birdwatcher", "backup"}
                 two == <<"birdwatcher", "backup">>
      <3>1. b \in Seq(S)
        BY DEF KeyOf
      <3>2. two \in Seq(S) /\ Len(two) = 2 /\ two[1] = "birdwatcher"
        OBVIOUS
      <3> HIDE DEF b, S, two
      <3>3. (two \o b)[1] = two[1]
        BY <3>1, <3>2
      <3> QED BY <3>2, <3>3 DEF BackupKey, two, b
    <2> QED BY <1>2, <2>1
  <1> QED BY <1>1, <1>2, KeysAssumption, Zenon DEF OwnedBy, AllKinds

\* The components of a key that the prefixes are compared with.
LEMMA FirstComponents ==
    ASSUME NEW c \in Collections, NEW kind \in AllKinds, NEW k, k = KeyOf(kind, c)
    PROVE  /\ k[1] = "channelwatch" <=> kind = "watch"
           /\ k[1] = "snapshots" => k[2] = "root-coord"
           /\ k[1] \in {"root-coord", "datacoord-meta", "snapshots"} =>
                  /\ k[2] \in FixedComponents \ {"collection-info", "session", "snapshots"}
                  /\ k[2] = "s" <=> kind = "segment"
                  /\ k[2] = "channel-cp" <=> kind = "checkpoint"
                  /\ k[2] = "stats-task" <=> kind = "stats-task"
                  /\ k[2] = "fields" <=> kind = "fields"
                  /\ k[2] = "collection" <=> kind = "collection" /\ DbId[c] = "0"
                  /\ k[2] = "database" <=> kind = "collection" /\ DbId[c] # "0"
           /\ k[1] \in FixedComponents
           /\ k[1] # "partitions"
  <1>1. CASE kind = "collection"
    BY <1>1, CollectionKey DEF FixedComponents
  <1>2. CASE kind = "collection-snapshot"
    BY <1>2, SnapshotKey DEF FixedComponents
  <1>3. CASE kind \in AllKinds \ {"collection", "collection-snapshot"}
    BY <1>3, OtherKeys DEF FixedComponents, AllKinds, RootKinds, DataKinds
  <1> QED BY <1>1, <1>2, <1>3

\* The prefixes that are listed, and whose keys are under them.
LEMMA UnderPrefixes ==
    ASSUME NEW k \in Key
    PROVE  /\ HasPrefix(k, CollectionMetaPrefix) =>
                  \E c \in Collections : DbId[c] = "0" /\ k = KeyOf("collection", c)
           /\ HasPrefix(k, DBCollectionMetaPrefix) =>
                  \E c \in Collections : DbId[c] # "0" /\ k = KeyOf("collection", c)
           /\ HasPrefix(k, <<"channelwatch", Empty>>) =>
                  \E c \in Collections : k = KeyOf("watch", c)
           /\ HasPrefix(k, <<"datacoord-meta", "channel-cp", Empty>>) =>
                  \E c \in Collections : k = KeyOf("checkpoint", c)
           /\ HasPrefix(k, <<"datacoord-meta", "s", Empty>>) =>
                  \E c \in Collections : k = KeyOf("segment", c)
  <1>1. ASSUME HasPrefix(k, CollectionMetaPrefix)
        PROVE  \E c \in Collections : DbId[c] = "0" /\ k = KeyOf("collection", c)
    <2>1. k[1] = "root-coord" /\ (k[2] = "collection" \/ <<"collection", k[2]>> \in Begins)
      BY <1>1, ShortPrefix, LiteralsGiven DEF CollectionMetaPrefix
    <2>2. PICK c \in Collections, kind \in AllKinds : k = KeyOf(kind, c)
      BY <2>1, OwnedKey
    <2>3. k[2] \in FixedComponents \ {"collection-info", "session", "snapshots"}
      BY <2>1, <2>2, FirstComponents
    <2>4. k[2] = "collection"
      <3>1. "collection" \in FixedComponents
        BY DEF FixedComponents
      <3> HIDE DEF FixedComponents
      <3> QED BY <2>1, <2>3, <3>1, BeginsAssumption
    <2> QED BY <2>1, <2>2, <2>4, FirstComponents
  <1>2. ASSUME HasPrefix(k, DBCollectionMetaPrefix)
        PROVE  \E c \in Collections : DbId[c] # "0" /\ k = KeyOf("collection", c)
    <2>1. k[1] = "root-coord" /\ k[2] = "database"
      BY <1>2, ShortPrefix DEF DBCollectionMetaPrefix
    <2>2. PICK c \in Collections, kind \in AllKinds : k = KeyOf(kind, c)
      BY <2>1, OwnedKey
    <2> QED BY <2>1, <2>2, FirstComponents
  <1>3. ASSUME HasPrefix(k, <<"channelwatch", Empty>>)
        PROVE  \E c \in Collections : k = KeyOf("watch", c)
    <2>1. k[1] = "channelwatch"
      BY <1>3, ShortPrefix
    <2>2. PICK c \in Collections, kind \in AllKinds : k = KeyOf(kind, c)
      BY <2>1, OwnedKey
    <2> QED BY <2>1, <2>2, FirstComponents
  <1>4. ASSUME NEW x \in {"channel-cp", "s"}, HasPrefix(k, <<"datacoord-meta", x, Empty>>)
        PROVE  \E c \in Collections : k = KeyOf(IF x = "s" THEN "segment" ELSE "checkpoint", c)
    <2>1. k[1] = "datacoord-meta" /\ k[2] = x
      BY <1>4, ShortPrefix
    <2>2. PICK c \in Collections, kind \in AllKinds : k = KeyOf(kind, c)
      BY <2>1, OwnedKey
    <2> QED BY <2>1, <2>2, FirstComponents
  <1>5. /\ HasPrefix(k, <<"datacoord-meta", "channel-cp", Empty>>) =>
               \E c \in Collections : k = KeyOf("checkpoint", c)
        /\ HasPrefix(k, <<"datacoord-meta", "s", Empty>>) =>
               \E c \in Collections : k = KeyOf("segment", c)
    BY <1>4
  <1> QED BY <1>1, <1>2, <1>3, <1>5

\* The key of a collection is in one of the two listings of collections.
LEMMA CollectionsListed ==
    ASSUME NEW c \in Collections
    PROVE  /\ DbId[c] = "0" => HasPrefix(KeyOf("collection", c), CollectionMetaPrefix)
           /\ DbId[c] # "0" => HasPrefix(KeyOf("collection", c), DBCollectionMetaPrefix)
  <1> DEFINE k == KeyOf("collection", c)
  <1>1. CASE DbId[c] = "0"
    <2>1. 2 <= Len(k) /\ k[1] = "root-coord" /\ "collection" = k[2]
      BY <1>1, CollectionKey
    <2> HIDE DEF k
    <2>2. HasPrefix(k, <<"root-coord", "collection">>)
      BY <2>1, ShortPrefix, Zenon
    <2> QED BY <1>1, <2>2 DEF k, CollectionMetaPrefix
  <1>2. CASE DbId[c] # "0"
    <2>1. /\ 3 <= Len(k) /\ k[1] = "root-coord" /\ k[2] = "database"
          /\ "collection-info" = k[3]
      BY <1>2, CollectionKey
    <2> HIDE DEF k
    <2>2. HasPrefix(k, <<"root-coord", "database", "collection-info">>)
      BY <2>1, ShortPrefix, Zenon
    <2> QED BY <1>2, <2>2 DEF k, DBCollectionMetaPrefix
  <1> QED BY <1>1, <1>2

LEMMA NotSlashed ==
    /\ Join(<<"root-coord", "collection">>) = <<"root-coord", "collection">>
    /\ Join(<<"root-coord", "database", "collection-info">>) =
           <<"root-coord", "database", "collection-info">>
    /\ Join(<<"root-coord", "fields">>) = <<"root-coord", "fields">>
    /\ Join(<<"snapshots", "root-coord", "fields">>) = <<"snapshots", "root-coord", "fields">>
    /\ Join(<<"partitions">>) = <<"partitions">>
    /\ Join(<<"snapshots", "partitions">>) = <<"snapshots", "partitions">>
    /\ Join(<<"datacoord-meta", "s">>) = <<"datacoord-meta", "s">>
  BY LiteralsGiven DEF Join, HasSlash

\* What the walk of the leaked metadata meets of a collection has its id behind
\* the prefix, stats tasks excepted.
LEMMA WalkedKeys ==
    ASSUME NEW c \in Collections, NEW kind \in AllKinds \ {"stats-task"},
           NEW k, k = KeyOf(kind, c),
           cmd.name # "segment", NEW n \in 1 .. Len(WalkPrefixes),
           HasPrefix(k, Join(WalkPrefixes[n]))
    PROVE  \E j \in Len(WalkPrefixes[n]) + 1 .. Len(k) : k[j] = c
  <1> DEFINE ps == WalkPrefixes
  <1>1. /\ Len(ps) = 7 /\ ps[1] = <<"root-coord", "collection">>
        /\ ps[2] = <<"root-coord", "database", "collection-info">>
        /\ ps[3] = <<"root-coord", "fields">> /\ ps[4] = <<"snapshots", "root-coord", "fields">>
        /\ ps[5] = <<"partitions">> /\ ps[6] = <<"snapshots", "partitions">>
        /\ ps[7] = <<"datacoord-meta", "s">>
    BY DEF WalkPrefixes, CollectionMetaPrefix, DBCollectionMetaPrefix
  <1> HIDE DEF ps
  <1>2. n \in 1 .. 7 /\ HasPrefix(k, Join(ps[n]))
    BY <1>1 DEF ps
  <1>3. /\ k[1] = "snapshots" => k[2] = "root-coord"
        /\ k[1] \in {"root-coord", "datacoord-meta", "snapshots"} =>
               k[2] \in FixedComponents \ {"collection-info", "session", "snapshots"}
        /\ k[1] \in FixedComponents /\ k[1] # "partitions"
    BY FirstComponents
  <1>4. /\ "partitions" \in FixedComponents /\ "s" \in FixedComponents
        /\ "collection" \in FixedComponents /\ "fields" \in FixedComponents
        /\ "root-coord" \in FixedComponents
    BY DEF FixedComponents
  <1> SUFFICES \E j \in Len(ps[n]) + 1 .. Len(k) : k[j] = c
    BY DEF ps
  <1>5. CASE n = 1
    <2>0. HasPrefix(k, <<"root-coord", "collection">>) /\ Len(ps[n]) = 2
      <3>1. ps[n] = <<"root-coord", "collection">>
        BY <1>1, <1>5
      <3>2. HasPrefix(k, Join(<<"root-coord", "collection">>))
        BY <1>2, <3>1
      <3> QED BY <3>1, <3>2, NotSlashed
    <2>1. k[1] = "root-coord" /\ ("collection" = k[2] \/ <<"collection", k[2]>> \in Begins)
      BY <2>0, ShortPrefix, LiteralsGiven
    <2>2. k[2] = "collection"
      BY <1>3, <1>4, <2>1, BeginsAssumption
    <2>3. kind = "collection" /\ DbId[c] = "0"
      BY <2>1, <2>2, FirstComponents
    <2>4. Len(k) = 3 /\ k[3] = c
      BY <2>3, CollectionKey
    <2> QED BY <2>0, <2>4
  <1>6. CASE n = 2
    <2>0. HasPrefix(k, <<"root-coord", "database", "collection-info">>) /\ Len(ps[n]) = 3
      <3>1. ps[n] = <<"root-coord", "database", "collection-info">>
        BY <1>1, <1>6
      <3>2. HasPrefix(k, Join(<<"root-coord", "database", "collection-info">>))
        BY <1>2, <3>1
      <3> QED BY <3>1, <3>2, NotSlashed
    <2>1. k[1] = "root-coord" /\ k[2] = "database"
      BY <2>0, ShortPrefix
    <2>3. kind = "collection" /\ DbId[c] # "0"
      BY <2>1, FirstComponents
    <2>4. Len(k) = 5 /\ k[5] = c
      BY <2>3, CollectionKey
    <2> QED BY <2>0, <2>4
  <1>7. CASE n = 3
    <2>0. HasPrefix(k, <<"root-coord", "fields">>) /\ Len(ps[n]) = 2
      <3>1. ps[n] = <<"root-coord", "fields">>
        BY <1>1, <1>7
      <3>2. HasPrefix(k, Join(<<"root-coord", "fields">>))
        BY <1>2, <3>1
      <3> QED BY <3>1, <3>2, NotSlashed
    <2>1. k[1] = "root-coord" /\ ("fields" = k[2] \/ <<"fields", k[2]>> \in Begins)
      BY <2>0, ShortPrefix, LiteralsGiven
    <2>2. k[2] = "fields"
      BY <1>3, <1>4, <2>1, BeginsAssumption
    <2>3. kind = "fields"
      BY <2>1, <2>2, FirstComponents
    <2>4. Len(k) = 4 /\ k[3] = c
      BY <2>3, OtherKeys
    <2> QED BY <2>0, <2>4
  <1>8. CASE n = 4
    <2>0. HasPrefix(k, <<"snapshots", "root-coord", "fields">>) /\ Len(ps[n]) = 3
      <3>1. ps[n] = <<"snapshots", "root-coord", "fields">>
        BY <1>1, <1>8
      <3>2. HasPrefix(k, Join(<<"snapshots", "root-coord", "fields">>))
        BY <1>2, <3>1
      <3> QED BY <3>1, <3>2, NotSlashed
    <2>1. k[1] = "snapshots" /\ ("fields" = k[3] \/ <<"fields", k[3]>> \in Begins)
      BY <2>0, ShortPrefix, LiteralsGiven
    <2>2. kind \in {"collection-snapshot", "fields-snapshot"}
      BY <2>1, KindOfKey DEF KindIn
    <2>3. kind # "collection-snapshot"
      <3> SUFFICES ASSUME kind = "collection-snapshot" PROVE FALSE
        OBVIOUS
      <3>1. k[3] \in {"collection", "database"}
        BY SnapshotKey
      <3>2. k[3] \in FixedComponents
        BY <3>1 DEF FixedComponents
      <3> QED BY <1>4, <2>1, <3>1, <3>2, BeginsAssumption
    <2>4. Len(k) = 5 /\ k[4] = c
      BY <2>2, <2>3, OtherKeys
    <2> QED BY <2>0, <2>4
  <1>9. CASE n = 5
    <2>0. HasPrefix(k, <<"partitions">>) /\ Len(ps[n]) = 1
      <3>1. ps[n] = <<"partitions">>
        BY <1>1, <1>9
      <3>2. HasPrefix(k, Join(<<"partitions">>))
        BY <1>2, <3>1
      <3> QED BY <3>1, <3>2, NotSlashed
    <2>1. "partitions" = k[1] \/ <<"partitions", k[1]>> \in Begins
      BY <2>0, ShortPrefix, LiteralsGiven
    <2> QED BY <1>3, <1>4, <2>1, BeginsAssumption
  <1>10. CASE n = 6
    <2>0. HasPrefix(k, <<"snapshots", "partitions">>) /\ Len(ps[n]) = 2
      <3>1. ps[n] = <<"snapshots", "partitions">>
        BY <1>1, <1>10
      <3>2. HasPrefix(k, Join(<<"snapshots", "partitions">>))
        BY <1>2, <3>1
      <3> QED BY <3>1, <3>2, NotSlashed
    <2>1. k[1] = "snapshots" /\ ("partitions" = k[2] \/ <<"partitions", k[2]>> \in Begins)
      BY <2>0, ShortPrefix, LiteralsGiven
    <2> QED BY <1>3, <1>4, <2>1, BeginsAssumption
  <1>11. CASE n = 7
    <2>0. HasPrefix(k, <<"datacoord-meta", "s">>) /\ Len(ps[n]) = 2
      <3>1. ps[n] = <<"datacoord-meta", "s">>
        BY <1>1, <1>11
      <3>2. HasPrefix(k, Join(<<"datacoord-meta", "s">>))
        BY <1>2, <3>1
      <3> QED BY <3>1, <3>2, NotSlashed
    <2>1. k[1] = "datacoord-meta" /\ ("s" = k[2] \/ <<"s", k[2]>> \in Begins)
      BY <2>0, ShortPrefix, LiteralsGiven
    <2>2. k[2] \in {"s", "stats-task"}
      BY <1>3, <1>4, <2>1, BeginsAssumption
    <2>3. kind = "segment"
      BY <2>1, <2>2, FirstComponents
    <2>4. Len(k) = 5 /\ k[3] = c
      BY <2>3, OtherKeys
    <2> QED BY <2>0, <2>4
  <1> QED BY <1>2, <1>5, <1>6, <1>7, <1>8, <1>9, <1>10, <1>11

\* What is under a prefix closed by a slash.
LEMMA SlashedPrefix ==
    ASSUME NEW p, IsSeq(p), Len(p) > 0, NEW k, HasPrefix(k, Slashed(p))
    PROVE  /\ p[Len(p)] = Empty =>
                  Len(p) <= Len(k) /\ \A i \in 1 .. Len(p) - 1 : k[i] = p[i]
           /\ p[Len(p)] # Empty =>
                  Len(p) + 1 <= Len(k) /\ \A i \in 1 .. Len(p) : k[i] = p[i]
  <1> DEFINE Y == Elements(p) \cup {Empty}
             j == Join(p)
             q == Slashed(p)
  <1>0. Len(p) \in Nat /\ p \in Seq(Y) /\ Empty \in Y
    BY IsSeqFacts, ElementsSeq
  <1> HIDE DEF Y
  <1>1. /\ j \in Seq(Y) /\ \A i \in 1 .. Len(j) : j[i] = p[i]
        /\ Len(j) = IF p[Len(p)] = Empty THEN Len(p) - 1 ELSE Len(p)
    BY <1>0 DEF Join, HasSlash
  <1> HIDE DEF j
  <1>2. q = Append(j, Empty)
    BY DEF Slashed, j
  <1>3. Len(q) = Len(j) + 1 /\ \A i \in 1 .. Len(j) : q[i] = j[i]
    BY <1>0, <1>1, <1>2, AppendProperties
  <1>4. Len(j) \in Nat
    BY <1>1
  <1> HIDE DEF q
  <1>5. Len(q) <= Len(k) /\ \A i \in 1 .. Len(q) - 1 : k[i] = q[i]
    BY DEF HasPrefix, q
  <1>6. Len(j) + 1 <= Len(k) /\ \A i \in 1 .. Len(j) : k[i] = p[i]
    BY <1>1, <1>3, <1>4, <1>5
  <1> QED BY <1>0, <1>1, <1>6

\* The prefixes that cleanCollectionMeta removes hold keys of its collection.
CleanedPrefixes(c) ==
    {<<"root-coord", "fields", c, Empty>>, <<"snapshots", "root-coord", "fields", c, Empty>>,
     <<"root-coord", "partitions", c, Empty>>,
     <<"snapshots", "root-coord", "partitions", c, Empty>>,
     <<"snapshots">> \o Append(CollectionPath(c), c)}

LEMMA CleanedKeys ==
    ASSUME NEW d \in Collections, NEW p \in CleanedPrefixes(d),
           NEW c \in Collections, NEW kind \in AllKinds,
           NEW k, k = KeyOf(kind, c), HasPrefix(k, Slashed(p))
    PROVE  c = d
  <1>0. d # Empty
    BY LayoutAssumption
  <1>c. IsSeq(p) /\ Len(p) > 0 =>
            /\ p[Len(p)] = Empty => Len(p) <= Len(k) /\ \A i \in 1 .. Len(p) - 1 : k[i] = p[i]
            /\ p[Len(p)] # Empty => Len(p) + 1 <= Len(k) /\ \A i \in 1 .. Len(p) : k[i] = p[i]
    BY SlashedPrefix, Zenon
  <1>1. CASE p = <<"root-coord", "fields", d, Empty>>
    <2>1. p \in Seq({"root-coord", "fields", d, Empty}) /\ Len(p) = 4 /\ p[4] = Empty
      BY <1>1
    <2>2. k[1] = p[1] /\ k[2] = p[2] /\ k[3] = p[3]
      <3>1. IsSeq(p) /\ Len(p) > 0
        BY <2>1, SeqElements
      <3> QED BY <2>1, <3>1, <1>c
    <2>3. k[1] = "root-coord" /\ k[2] = "fields" /\ k[3] = d
      BY <1>1, <2>2
    <2>4. kind = "fields"
      BY <2>3, KindOfKey DEF KindIn
    <2> QED BY <2>3, <2>4, OtherKeys
  <1>2. CASE p = <<"root-coord", "partitions", d, Empty>>
    <2>1. p \in Seq({"root-coord", "partitions", d, Empty}) /\ Len(p) = 4 /\ p[4] = Empty
      BY <1>2
    <2>2. k[1] = p[1] /\ k[2] = p[2] /\ k[3] = p[3]
      <3>1. IsSeq(p) /\ Len(p) > 0
        BY <2>1, SeqElements
      <3> QED BY <2>1, <3>1, <1>c
    <2>3. k[1] = "root-coord" /\ k[2] = "partitions" /\ k[3] = d
      BY <1>2, <2>2
    <2>4. kind = "partitions"
      BY <2>3, KindOfKey DEF KindIn
    <2> QED BY <2>3, <2>4, OtherKeys
  <1>3. CASE p = <<"snapshots", "root-coord", "fields", d, Empty>>
    <2>1. /\ p \in Seq({"snapshots", "root-coord", "fields", d, Empty})
          /\ Len(p) = 5 /\ p[5] = Empty
      BY <1>3
    <2>2. k[1] = p[1] /\ k[3] = p[3] /\ k[4] = p[4]
      <3>1. IsSeq(p) /\ Len(p) > 0
        BY <2>1, SeqElements
      <3> QED BY <2>1, <3>1, <1>c
    <2>3. k[1] = "snapshots" /\ k[3] = "fields" /\ k[4] = d
      BY <1>3, <2>2
    <2>4. kind = "fields-snapshot"
      BY <2>3, KindOfKey DEF KindIn
    <2> QED BY <2>3, <2>4, OtherKeys
  <1>4. CASE p = <<"snapshots", "root-coord", "partitions", d, Empty>>
    <2>1. /\ p \in Seq({"snapshots", "root-coord", "partitions", d, Empty})
          /\ Len(p) = 5 /\ p[5] = Empty
      BY <1>4
    <2>2. k[1] = p[1] /\ k[3] = p[3]
      <3>1. IsSeq(p) /\ Len(p) > 0
        BY <2>1, SeqElements
      <3> QED BY <2>1, <3>1, <1>c
    <2>3. k[1] = "snapshots" /\ k[3] = "partitions"
      BY <1>4, <2>2
    <2>4. kind = "collection-snapshot"
      BY <2>3, KindOfKey DEF KindIn
    <2> QED BY <2>3, <2>4, SnapshotKey
  <1>5. CASE p = <<"snapshots">> \o Append(CollectionPath(d), d)
    <2>1. p = <<"snapshots">> \o KeyOf("collection", d)
      BY <1>5, Zenon DEF KeyOf
    <2>2. CASE DbId[d] = "0"
      <3>1. KeyOf("collection", d) = <<"root-coord", "collection", d>>
        BY <2>2, CollectionKey
      <3>2. p = <<"snapshots", "root-coord", "collection", d>>
        BY <2>1, <3>1, ConsThree, Zenon
      <3>3. p \in Seq({"snapshots", "root-coord", "collection", d}) /\ Len(p) = 4 /\ p[4] # Empty
        BY <1>0, <3>2
      <3>4. 5 <= Len(k) /\ k[1] = p[1] /\ k[3] = p[3]
        <4>1. IsSeq(p) /\ Len(p) > 0
          BY <3>3, SeqElements
        <4> QED BY <3>3, <4>1, <1>c
      <3>5. k[1] = "snapshots" /\ k[3] = "collection"
        BY <3>2, <3>4
      <3>6. kind = "collection-snapshot"
        BY <3>5, KindOfKey DEF KindIn
      <3> QED BY <3>4, <3>5, <3>6, SnapshotKey
    <2>3. CASE DbId[d] # "0"
      <3>1. KeyOf("collection", d) =
                <<"root-coord", "database", "collection-info", DbId[d], d>>
        BY <2>3, CollectionKey
      <3>2. p = <<"snapshots", "root-coord", "database", "collection-info", DbId[d], d>>
        BY <2>1, <3>1, ConsFive, Zenon
      <3>3. /\ p \in Seq({"snapshots", "root-coord", "database", "collection-info", DbId[d], d})
            /\ Len(p) = 6 /\ p[6] # Empty
        BY <1>0, <3>2
      <3>4. 7 <= Len(k) /\ k[1] = p[1]
        <4>1. IsSeq(p) /\ Len(p) > 0
          BY <3>3, SeqElements
        <4> QED BY <3>3, <4>1, <1>c
      <3>5. k[1] = "snapshots"
        BY <3>2, <3>4
      <3>6. kind \in {"collection-snapshot", "fields-snapshot"}
        BY <3>5, KindOfKey DEF KindIn
      <3>7. Len(k) \in {4, 5, 6}
        BY <3>6, SnapshotKey, OtherKeys
      <3> DEFINE n == Len(k)
      <3>8. 7 <= n /\ n \in {4, 5, 6}
        BY <3>4, <3>7
      <3> HIDE DEF n
      <3> QED BY <3>8
    <2> QED BY <2>2, <2>3
  <1> QED BY <1>1, <1>2, <1>3, <1>4, <1>5 DEF CleanedPrefixes

-----------------------------------------------------------------------------
(* Listings. *)

\* A selection holds what passes the test.
LEMMA KeysListed ==
    ASSUME NEW p
    PROVE  /\ IsSeq(LoadWithPrefix(p))
           /\ Elements(LoadWithPrefix(p)) = {k \in Key : store[k] # Absent /\ HasPrefix(k, p)}
  <1>1. IsSeq(KeyOrder)
    BY KeyOrderAssumption, SeqElements
  <1>2. Elements(KeyOrder) = Key
    BY DEF Elements, Key
  <1> DEFINE S == {k \in Elements(KeyOrder) : store[k] # Absent /\ HasPrefix(k, p)}
  <1>3. LoadWithPrefix(p) = Filter(KeyOrder, S)
    BY DEF LoadWithPrefix, Where
  <1>4. S = {k \in Key : store[k] # Absent /\ HasPrefix(k, p)}
    BY <1>2
  <1> HIDE DEF S
  <1>5. IsSeq(Filter(KeyOrder, S)) /\ Elements(Filter(KeyOrder, S)) = Elements(KeyOrder) \cap S
    BY <1>1, FilterIsSeq
  <1> QED BY <1>2, <1>3, <1>4, <1>5

\* The rows of a listing: an object that is under the prefix, with a key that
\* is too, the same one unless a value was left out.
LEMMA RowsListed ==
    ASSUME NEW p
    PROVE  /\ IsSeq(ListObj2Models(p))
           /\ \A m \in Elements(ListObj2Models(p)) :
                  \E k \in Key, v \in Key :
                      /\ HasPrefix(k, p) /\ HasPrefix(v, p)
                      /\ store[v] # Absent /\ store[v] # Tombstone
                      /\ m.key = k /\ m.obj = store[v]
                      /\ ~Skips(p) => k = v
           /\ \A v \in Key : HasPrefix(v, p) /\ store[v] # Absent /\ store[v] # Tombstone =>
                  \E m \in Elements(ListObj2Models(p)) : m.obj = store[v]
           /\ (\A k \in Key : HasPrefix(k, p) => store[k] # Tombstone) => ~Skips(p)
  <1> DEFINE keys == LoadWithPrefix(p)
             vals == Unmarshalled(keys)
             rows == [i \in DOMAIN vals |-> [key |-> keys[i], obj |-> store[vals[i]]]]
             U == {k \in Key : store[k] # Absent /\ HasPrefix(k, p)}
             S == {k \in Elements(keys) : store[k] # Tombstone}
  <1>1. IsSeq(keys) /\ Elements(keys) = U
    BY KeysListed
  <1>2. vals = Filter(keys, S)
    BY DEF Unmarshalled, Where
  <1>3. rows = ListObj2Models(p)
    BY DEF ListObj2Models
  <1>4. Skips(p) <=> Len(vals) < Len(keys)
    BY DEF Skips
  <1> HIDE DEF keys, vals
  <1>5. S = {k \in U : store[k] # Tombstone}
    BY <1>1
  <1> HIDE DEF S
  <1>6. IsSeq(vals) /\ Elements(vals) = U \cap S
    BY <1>1, <1>2, FilterIsSeq
  <1>7. /\ Len(vals) \in Nat /\ Len(vals) <= Len(keys)
        /\ Len(vals) = Len(keys) => vals = keys
    <2>1. keys \in Seq(Elements(keys))
      BY <1>1 DEF IsSeq
    <2> QED BY <1>2, <2>1, FilterLength
  <1>8. /\ DOMAIN vals = 1 .. Len(vals) /\ DOMAIN keys = 1 .. Len(keys)
        /\ Len(keys) \in Nat
    BY <1>1, <1>6, IsSeqFacts
  <1>13. /\ \A i \in 1 .. Len(vals) : i \in 1 .. Len(keys)
         /\ ~(Len(vals) < Len(keys)) => Len(vals) = Len(keys)
    <2> DEFINE a == Len(vals)
               b == Len(keys)
    <2>1. a \in Nat /\ b \in Nat /\ a <= b
      BY <1>7, <1>8
    <2> HIDE DEF a, b
    <2>2. (\A i \in 1 .. a : i \in 1 .. b) /\ (~(a < b) => a = b)
      BY <2>1
    <2> QED BY <2>2 DEF a, b
  <1>9. IsSeq(rows) /\ Elements(rows) = {rows[i] : i \in DOMAIN vals}
    <2>1. rows = [i \in DOMAIN vals |-> rows[i]]
      OBVIOUS
    <2> HIDE DEF rows
    <2> QED BY <1>6, <2>1, MapElements
  <1>10. ASSUME NEW m \in Elements(rows)
         PROVE  \E k \in Key, v \in Key :
                    /\ HasPrefix(k, p) /\ HasPrefix(v, p)
                    /\ store[v] # Absent /\ store[v] # Tombstone
                    /\ m.key = k /\ m.obj = store[v]
                    /\ ~Skips(p) => k = v
    <2>1. PICK i \in DOMAIN vals : m = rows[i]
      BY <1>9
    <2>2. m.key = keys[i] /\ m.obj = store[vals[i]]
      BY <2>1
    <2>3. vals[i] \in U \cap S
      BY <1>6 DEF Elements
    <2>4. keys[i] \in U
      <3>1. i \in DOMAIN keys
        BY <1>8, <1>13
      <3>2. keys[i] \in Elements(keys)
        BY <3>1 DEF Elements
      <3> QED BY <1>1, <3>2
    <2>5. ~Skips(p) => keys[i] = vals[i]
      <3>1. ~Skips(p) => Len(vals) = Len(keys)
        BY <1>4, <1>13
      <3> QED BY <1>7, <3>1
    <2> QED BY <1>5, <2>2, <2>3, <2>4, <2>5
  <1>11. ASSUME NEW v \in Key, HasPrefix(v, p), store[v] # Absent, store[v] # Tombstone
         PROVE  \E m \in Elements(rows) : m.obj = store[v]
    <2>1. v \in Elements(vals)
      BY <1>5, <1>6, <1>11
    <2>2. PICK i \in DOMAIN vals : vals[i] = v
      BY <2>1 DEF Elements
    <2>3. rows[i] \in Elements(rows) /\ rows[i].obj = store[v]
      BY <1>9, <2>2
    <2> QED BY <2>3
  <1>12. ASSUME \A k \in Key : HasPrefix(k, p) => store[k] # Tombstone
         PROVE  ~Skips(p)
    <2>1. \A i \in DOMAIN keys : keys[i] \in S
      BY <1>1, <1>5, <1>12 DEF Elements
    <2>2. keys \in Seq(Elements(keys))
      BY <1>1 DEF IsSeq
    <2>3. vals = keys
      BY <1>2, <2>1, <2>2, FilterAll
    <2> QED BY <1>4, <1>8, <2>3
  <1> HIDE DEF rows
  <1> QED BY <1>3, <1>9, <1>10, <1>11, <1>12

-----------------------------------------------------------------------------
(* The invariant. *)

LiveKinds == {"collection", "watch", "checkpoint", "segment"}

\* What a key of collection c may hold when its life has come to l.
Sound(kind, c, v, l) ==
    /\ v # Absent /\ v # Tombstone => v.coll = c
    /\ kind # "collection" \/ l \in {"created", "serving"} => v # Tombstone
    /\ kind = "segment" /\ l \in {"none", "created"} => v = Absent
    /\ (kind = "collection" /\ v # Absent /\ v # Tombstone /\ v.state = "dropping") =>
           l \in {"dropping", "tombstoned", "gone"}

ValuesSound ==
    \A c \in Collections, kind \in LiveKinds :
        KeyOf(kind, c) \in Key => Sound(kind, c, store[KeyOf(kind, c)], life[c])

Young(c) == life[c] \in {"none", "created"}
Doomed(c) == life[c] \in {"dropping", "tombstoned", "gone"}

\* The commands at each call.
CommandsAt(place) ==
    CASE place \in {"collections", "db-collections"} ->
             {"channel", "collection-meta-leaked", "collection-drop", "segment-orphan"}
      [] place \in {"watches", "checkpoints"} -> {"channel"}
      [] place = "clean" -> {"collection-drop"}
      [] place = "walk" -> {"collection-meta-leaked", "segment"}
      [] place \in {"segments", "groups"} -> {"segment-orphan", "dirty-importing-segment"}
      [] place = "list" -> {"compaction", "stats-task", "index", "import-job", "session",
                            "etcd-config"}
      [] place \in {"backup", "reload", "restore"} -> {"binlog"}
      [] OTHER -> CommandNames \cup {"none"}

Places == cmd.name \in CommandsAt(pc) /\ cmd.name \in CommandsAt(resume)

Forced == cmd.name = "channel" /\ cmd.mode = "force"
KeepsStable == cmd.name \in {"channel", "collection-meta-leaked", "segment-orphan"} /\ ~Forced

\* The keys that the running command has to keep.
Keep(c, kind) ==
    \/ /\ cmd.name \in {"channel", "collection-meta-leaked"} /\ ~Forced
       /\ c \in stable /\ kind # "stats-task"
    \/ /\ cmd.name = "collection-drop" /\ ~Doomed(c)
       /\ ~(misread /\ kind = "collection")
    \/ /\ cmd.name = "segment-orphan"
       /\ Young(c) \/ c \in IntactCollections

Hits(o, k) == \/ o.op = "remove" /\ o.key = k
              \/ o.op = "remove-prefix" /\ HasPrefix(k, Slashed(o.key))

\* An operation that a command may have decided on.
Planned(o) ==
    /\ o.skip \in Nat
    /\ \/ o.op \in {"remove", "remove-prefix"}
       \/ /\ o.op = "save" /\ cmd.name = "binlog"
          /\ \E c \in Collections : o.key = KeyOf("binlog", c) \/ o.key = BackupKey(c)
    /\ \A c \in Collections, kind \in AllKinds : Keep(c, kind) => ~Hits(o, KeyOf(kind, c))

PlanSound == IsSeq(todo) /\ \A o \in Elements(todo) : Planned(o)

\* A collection that was listed.
Row(m) ==
    /\ m.obj.coll \in Collections
    /\ \E e \in Collections :
           /\ m.key = KeyOf("collection", e)
           /\ misread \/ cmd.name = "segment-orphan" \/ e = m.obj.coll
    /\ m.obj.state = "dropping" => Doomed(m.obj.coll)

SeenSound == IsSeq(seen) /\ \A m \in Elements(seen) : Row(m)

DropsDropping ==
    (/\ cmd.name = "collection-drop"
     /\ pc \in {"clean", "exec"} \/ (pc = "db-collections" /\ cmd.arg = Empty)) =>
        \A m \in Elements(seen) : m.obj.state = "dropping"

Found(c) == \E m \in Elements(seen) : m.obj.coll = c

StableSeen ==
    cmd.name \in {"channel", "collection-meta-leaked"} /\ ~Forced =>
        /\ pc = "db-collections" => \A c \in stable : DbId[c] = "0" => Found(c)
        /\ pc \in {"watches", "checkpoints", "walk", "exec"} => \A c \in stable : Found(c)

ListedSound ==
    IsSeq(listed) /\ \A m \in Elements(listed) : m.obj.coll \in Collections /\ ~Young(m.obj.coll)

GroupSound ==
    cmd.name = "segment-orphan" /\ pc \in {"collections", "db-collections"} =>
        /\ group \in Collections /\ ~Young(group)
        /\ (pc = "db-collections" /\ DbId[group] = "0" /\ group \in IntactCollections) =>
               seen # <<>>

StableLive ==
    /\ stable \subseteq LiveCollections
    /\ KeepsStable => stable \subseteq IntactCollections

LiveInv ==
    /\ DryInv
    /\ life \in [Collections -> Lives] /\ ValuesSound
    /\ Places /\ cursor \in [prefix : Nat \ {0}, from : Nat]
    /\ PlanSound /\ SeenSound /\ DropsDropping /\ StableSeen
    /\ ListedSound /\ GroupSound /\ StableLive

-----------------------------------------------------------------------------
(* Steps of milvus. *)

LEMMA OwnKeys ==
    ASSUME NEW c \in Collections, NEW d \in Collections,
           NEW kind \in AllKinds, NEW kinds, kinds \subseteq AllKinds
    PROVE  /\ OwnedBy(KeyOf(kind, c), kinds, d) <=> c = d /\ kind \in kinds
           /\ c = d /\ kind \in kinds => (CHOOSE k \in kinds : KeyOf(kind, c) = KeyOf(k, d)) = kind
  <1>1. OwnedBy(KeyOf(kind, c), kinds, d) <=> c = d /\ kind \in kinds
    BY KeysApart DEF OwnedBy
  <1>2. ASSUME c = d, kind \in kinds
        PROVE  (CHOOSE k \in kinds : KeyOf(kind, c) = KeyOf(k, d)) = kind
    <2> DEFINE x == CHOOSE k \in kinds : KeyOf(kind, c) = KeyOf(k, d)
    <2>1. x \in kinds /\ KeyOf(kind, c) = KeyOf(x, d)
      BY <1>2, Zenon
    <2> HIDE DEF x
    <2>2. x = kind
      BY <2>1, KeysApart
    <2> QED BY <2>2 DEF x
  <1> QED BY <1>1, <1>2

LEMMA PutsKeys ==
    ASSUME NEW d \in Collections, NEW kinds, kinds \subseteq AllKinds, Puts(d, kinds),
           NEW c \in Collections, NEW kind \in AllKinds, KeyOf(kind, c) \in Key
    PROVE  store'[KeyOf(kind, c)] =
               IF c = d /\ kind \in kinds THEN NewObject(kind, d) ELSE store[KeyOf(kind, c)]
  <1> DEFINE k == KeyOf(kind, c)
  <1>1. store'[k] = IF OwnedBy(k, kinds, d)
                    THEN NewObject(CHOOSE x \in kinds : k = KeyOf(x, d), d) ELSE store[k]
    BY Zenon DEF Puts
  <1>2. OwnedBy(k, kinds, d) <=> c = d /\ kind \in kinds
    BY OwnKeys
  <1>3. c = d /\ kind \in kinds => (CHOOSE x \in kinds : k = KeyOf(x, d)) = kind
    BY OwnKeys
  <1> HIDE DEF k
  <1>4. CASE c = d /\ kind \in kinds
    <2>1. store'[k] = NewObject(CHOOSE x \in kinds : k = KeyOf(x, d), d)
      BY <1>1, <1>2, <1>4, Zenon
    <2> QED BY <1>3, <1>4, <2>1, Zenon DEF k
  <1>5. CASE ~(c = d /\ kind \in kinds)
    BY <1>1, <1>2, <1>5, Zenon DEF k
  <1> QED BY <1>4, <1>5

\* A new object is sound in a life that has it.
LEMMA NewSound ==
    ASSUME NEW c \in Collections, NEW kind \in LiveKinds, NEW l,
           kind = "collection" \/ l \notin {"none", "created"}
    PROVE  Sound(kind, c, NewObject(kind, c), l)
  <1>1. kind \in RootKinds \union DataKinds
    BY DEF LiveKinds, RootKinds, DataKinds
  <1>2. NewObject(kind, c) \notin {Absent, Tombstone}
    BY <1>1, ValuesAssumption
  <1>3. NewObject(kind, c).coll = c
    BY Zenon DEF NewObject, Object
  <1>4. kind = "collection" => NewObject(kind, c).state = "created"
    BY DEF NewObject, Object
  <1> HIDE DEF NewObject
  <1> QED BY <1>2, <1>3, <1>4 DEF Sound

LEMMA AbsentSound ==
    ASSUME NEW c, NEW kind, NEW l
    PROVE  Sound(kind, c, Absent, l)
  BY ValuesAssumption DEF Sound

\* What a step of milvus on collection d does, as far as the invariant goes.
Local(d) ==
    /\ life' \in [Collections -> Lives]
    /\ \A c \in Collections \ {d} :
           /\ life'[c] = life[c]
           /\ \A kind \in LiveKinds :
                  KeyOf(kind, c) \in Key => store'[KeyOf(kind, c)] = store[KeyOf(kind, c)]
    /\ \A kind \in LiveKinds :
           (KeyOf(kind, d) \in Key /\ Sound(kind, d, store[KeyOf(kind, d)], life[d])) =>
               Sound(kind, d, store'[KeyOf(kind, d)], life'[d])
    /\ (Young(d)' => Young(d)) /\ (Doomed(d) => Doomed(d)')
    /\ d \in LiveCollections /\ (d \in LiveCollections)' /\ KeyOf("collection", d) \in Key =>
           store'[KeyOf("collection", d)] = store[KeyOf("collection", d)]
    /\ (d \in LiveCollections)' => d \in LiveCollections \/ life[d] = "none"
    /\ stable' \subseteq stable
    /\ d \in stable' /\ d \in LiveCollections => (d \in LiveCollections)'

LEMMA MilvusLocal ==
    ASSUME DryInv, life \in [Collections -> Lives], MilvusStep
    PROVE  /\ \E d \in Collections : Local(d)
           /\ misread' = misread
  <1> PICK d \in Collections :
        \/ /\ \/ CreateCollection(d) \/ DropCollection(d)
              \/ ExpireTombstones(d) \/ DropSegment(d)
           /\ UNCHANGED <<cmdVars, faults, historyVars>>
        \/ MarkDropping(d) /\ Unstable(d)
        \/ ServeCollection(d) /\ Writes(d, FirstLog)
        \/ \E l \in Logs : FlushLog(d, l) /\ Writes(d, l)
    BY Zenon DEF MilvusStep
  <1>0. store = [k \in Key |-> store[k]] /\ LiveKinds \subseteq AllKinds /\ "binlog" \in AllKinds
    BY DEF DryInv, LiveKinds, AllKinds, RootKinds, DataKinds
  <1>1. misread' = misread
    BY Zenon DEF Unstable, Writes, historyVars
  <1>2. CASE CreateCollection(d) /\ UNCHANGED <<cmdVars, faults, historyVars>>
    <2>1. /\ life[d] = "none" /\ life' = [life EXCEPT ![d] = "created"] /\ Puts(d, RootKinds)
          /\ stable' = stable
      BY <1>2 DEF CreateCollection, Moves, historyVars
    <2>2. life'[d] = "created" /\ \A c \in Collections \ {d} : life'[c] = life[c]
      BY <2>1
    <2>3. life' \in [Collections -> Lives]
      BY <2>1 DEF Lives
    <2>4. \A c \in Collections \ {d}, kind \in LiveKinds :
              KeyOf(kind, c) \in Key => store'[KeyOf(kind, c)] = store[KeyOf(kind, c)]
      BY <1>0, <2>1, PutsKeys DEF AllKinds
    <2>5. ASSUME NEW kind \in LiveKinds, KeyOf(kind, d) \in Key,
                 Sound(kind, d, store[KeyOf(kind, d)], life[d])
          PROVE  Sound(kind, d, store'[KeyOf(kind, d)], life'[d])
      <3>1. store'[KeyOf(kind, d)] = IF kind \in RootKinds THEN NewObject(kind, d)
                                     ELSE store[KeyOf(kind, d)]
        BY <1>0, <2>1, <2>5, PutsKeys DEF AllKinds
      <3>2. CASE kind = "collection"
        <4>1. store'[KeyOf(kind, d)] = NewObject(kind, d)
          BY <3>1, <3>2 DEF RootKinds
        <4> QED BY <3>2, <4>1, NewSound
      <3>3. CASE kind # "collection"
        <4>1. store'[KeyOf(kind, d)] = store[KeyOf(kind, d)]
          BY <3>1, <3>3 DEF RootKinds, LiveKinds
        <4> QED BY <2>1, <2>2, <2>5, <3>3, <4>1 DEF Sound
      <3> QED BY <3>2, <3>3
    <2>6. /\ Young(d) /\ ~Doomed(d) /\ d \notin LiveCollections
      BY <2>1 DEF Young, Doomed, LiveCollections
    <2> QED BY <1>1, <2>1, <2>2, <2>3, <2>4, <2>5, <2>6 DEF Local
  <1>3. CASE ServeCollection(d) /\ Writes(d, FirstLog)
    <2>1. /\ life[d] = "created" /\ life' = [life EXCEPT ![d] = "serving"] /\ Puts(d, DataKinds)
          /\ stable' = stable
      BY <1>3 DEF ServeCollection, Moves, Writes
    <2>2. life'[d] = "serving" /\ \A c \in Collections \ {d} : life'[c] = life[c]
      BY <2>1
    <2>3. life' \in [Collections -> Lives]
      BY <2>1 DEF Lives
    <2>4. \A c \in Collections \ {d}, kind \in LiveKinds :
              KeyOf(kind, c) \in Key => store'[KeyOf(kind, c)] = store[KeyOf(kind, c)]
      BY <1>0, <2>1, PutsKeys DEF AllKinds
    <2>5. ASSUME NEW kind \in LiveKinds, KeyOf(kind, d) \in Key
          PROVE  store'[KeyOf(kind, d)] = IF kind \in DataKinds THEN NewObject(kind, d)
                                          ELSE store[KeyOf(kind, d)]
      BY <1>0, <2>1, <2>5, PutsKeys DEF AllKinds
    <2>6. ASSUME NEW kind \in LiveKinds, KeyOf(kind, d) \in Key,
                 Sound(kind, d, store[KeyOf(kind, d)], life[d])
          PROVE  Sound(kind, d, store'[KeyOf(kind, d)], life'[d])
      <3>2. CASE kind # "collection"
        <4>1. store'[KeyOf(kind, d)] = NewObject(kind, d)
          BY <2>5, <2>6, <3>2 DEF DataKinds, LiveKinds
        <4> QED BY <2>2, <4>1, NewSound
      <3>3. CASE kind = "collection"
        <4>1. store'[KeyOf(kind, d)] = store[KeyOf(kind, d)]
          BY <2>5, <2>6, <3>3 DEF DataKinds
        <4> QED BY <2>1, <2>2, <2>6, <3>3, <4>1 DEF Sound
      <3> QED BY <3>2, <3>3
    <2>7. KeyOf("collection", d) \in Key =>
              store'[KeyOf("collection", d)] = store[KeyOf("collection", d)]
      BY <2>5 DEF DataKinds, LiveKinds
    <2>8. /\ Young(d) /\ ~Doomed(d) /\ d \in LiveCollections /\ (d \in LiveCollections)'
      BY <2>1, <2>2 DEF Young, Doomed, LiveCollections
    <2> QED BY <1>1, <2>1, <2>2, <2>3, <2>4, <2>6, <2>7, <2>8 DEF Local
  <1>4. CASE MarkDropping(d) /\ Unstable(d)
    <2> DEFINE o == Object("collection", d, "dropping", {})
               key == KeyOf("collection", d)
    <2>1. /\ life[d] = "serving" /\ life' = [life EXCEPT ![d] = "dropping"]
          /\ store' = Save(store, key, o) /\ stable' = stable \ {d}
      BY <1>4 DEF MarkDropping, Moves, Unstable
    <2>2. life'[d] = "dropping" /\ \A c \in Collections \ {d} : life'[c] = life[c]
      BY <2>1
    <2>3. life' \in [Collections -> Lives]
      BY <2>1 DEF Lives
    <2>4. o.coll = d
      BY DEF Object
    <2> HIDE DEF o
    <2>5. \A k \in Key : /\ k # key => store'[k] = store[k]
                         /\ k = key => store'[k] = o
      BY <1>0, <2>1, SaveKeeps, SavedValue
    <2>6. \A c \in Collections, kind \in LiveKinds :
              KeyOf(kind, c) = key => kind = "collection" /\ c = d
      BY <1>0, KeysApart DEF LiveKinds
    <2>7. \A c \in Collections \ {d}, kind \in LiveKinds :
              KeyOf(kind, c) \in Key => store'[KeyOf(kind, c)] = store[KeyOf(kind, c)]
      BY <2>5, <2>6
    <2>8. ASSUME NEW kind \in LiveKinds, KeyOf(kind, d) \in Key,
                 Sound(kind, d, store[KeyOf(kind, d)], life[d])
          PROVE  Sound(kind, d, store'[KeyOf(kind, d)], life'[d])
      <3>1. CASE kind = "collection"
        <4>1. store'[KeyOf(kind, d)] = o
          BY <2>5, <2>8, <3>1
        <4> QED BY <2>2, <2>4, <3>1, <4>1 DEF Sound
      <3>2. CASE kind # "collection"
        <4>1. store'[KeyOf(kind, d)] = store[KeyOf(kind, d)]
          BY <2>5, <2>6, <2>8, <3>2
        <4> QED BY <2>1, <2>2, <2>8, <3>2, <4>1 DEF Sound
      <3> QED BY <3>1, <3>2
    <2>9. /\ ~Young(d)' /\ Doomed(d)' /\ ~(d \in LiveCollections)' /\ d \notin stable'
          /\ stable' \subseteq stable
      BY <2>1, <2>2 DEF Young, Doomed, LiveCollections
    <2> QED BY <1>1, <2>2, <2>3, <2>7, <2>8, <2>9 DEF Local
  <1>5. CASE DropCollection(d) /\ UNCHANGED <<cmdVars, faults, historyVars>>
    <2>1. /\ life[d] = "dropping" /\ life' = [life EXCEPT ![d] = "tombstoned"]
          /\ store' = [k \in Key |-> IF OwnedBy(k, RootKinds, d) /\ store[k] # Absent
                                     THEN Tombstone ELSE store[k]]
          /\ stable' = stable
      BY <1>5 DEF DropCollection, Moves, historyVars
    <2>2. life'[d] = "tombstoned" /\ \A c \in Collections \ {d} : life'[c] = life[c]
      BY <2>1
    <2>3. life' \in [Collections -> Lives]
      BY <2>1 DEF Lives
    <2>4. \A c \in Collections, kind \in LiveKinds :
              OwnedBy(KeyOf(kind, c), RootKinds, d) <=> c = d /\ kind = "collection"
      <3>1. RootKinds \subseteq AllKinds
        BY DEF AllKinds
      <3>2. \A kind \in LiveKinds : kind \in RootKinds <=> kind = "collection"
        BY DEF LiveKinds, RootKinds
      <3> QED BY <1>0, <3>1, <3>2, OwnKeys
    <2>5. \A c \in Collections \ {d}, kind \in LiveKinds :
              KeyOf(kind, c) \in Key => store'[KeyOf(kind, c)] = store[KeyOf(kind, c)]
      BY <2>1, <2>4
    <2>6. ASSUME NEW kind \in LiveKinds, KeyOf(kind, d) \in Key,
                 Sound(kind, d, store[KeyOf(kind, d)], life[d])
          PROVE  Sound(kind, d, store'[KeyOf(kind, d)], life'[d])
      <3>1. CASE kind = "collection"
        <4>1. store'[KeyOf(kind, d)] \in {Tombstone, store[KeyOf(kind, d)]}
          BY <2>1, <2>6
        <4> QED BY <2>2, <2>6, <3>1, <4>1 DEF Sound
      <3>2. CASE kind # "collection"
        <4>1. store'[KeyOf(kind, d)] = store[KeyOf(kind, d)]
          BY <2>1, <2>4, <2>6, <3>2
        <4> QED BY <2>1, <2>2, <2>6, <3>2, <4>1 DEF Sound
      <3> QED BY <3>1, <3>2
    <2>7. ~Young(d)' /\ Doomed(d)' /\ ~(d \in LiveCollections)' /\ d \notin LiveCollections
      BY <2>1, <2>2 DEF Young, Doomed, LiveCollections
    <2> QED BY <1>1, <2>1, <2>2, <2>3, <2>5, <2>6, <2>7 DEF Local
  <1>6. CASE ExpireTombstones(d) /\ UNCHANGED <<cmdVars, faults, historyVars>>
    <2> DEFINE expired == {"collection", "collection-snapshot"}
    <2>1. /\ life[d] = "tombstoned" /\ life' = [life EXCEPT ![d] = "gone"]
          /\ store' = [k \in Key |-> IF OwnedBy(k, expired, d) THEN Absent ELSE store[k]]
          /\ stable' = stable
      BY <1>6 DEF ExpireTombstones, Moves, historyVars
    <2>2. life'[d] = "gone" /\ \A c \in Collections \ {d} : life'[c] = life[c]
      BY <2>1
    <2>3. life' \in [Collections -> Lives]
      BY <2>1 DEF Lives
    <2>4. \A c \in Collections, kind \in LiveKinds :
              OwnedBy(KeyOf(kind, c), expired, d) <=> c = d /\ kind = "collection"
      <3>1. expired \subseteq AllKinds
        BY DEF AllKinds, RootKinds
      <3>2. \A kind \in LiveKinds : kind \in expired <=> kind = "collection"
        BY DEF LiveKinds
      <3> HIDE DEF expired
      <3> QED BY <1>0, <3>1, <3>2, OwnKeys
    <2> HIDE DEF expired
    <2>5. \A c \in Collections \ {d}, kind \in LiveKinds :
              KeyOf(kind, c) \in Key => store'[KeyOf(kind, c)] = store[KeyOf(kind, c)]
      BY <2>1, <2>4
    <2>6. ASSUME NEW kind \in LiveKinds, KeyOf(kind, d) \in Key,
                 Sound(kind, d, store[KeyOf(kind, d)], life[d])
          PROVE  Sound(kind, d, store'[KeyOf(kind, d)], life'[d])
      <3>1. CASE kind = "collection"
        <4>1. store'[KeyOf(kind, d)] = Absent
          BY <2>1, <2>4, <2>6, <3>1
        <4> QED BY <4>1, AbsentSound
      <3>2. CASE kind # "collection"
        <4>1. store'[KeyOf(kind, d)] = store[KeyOf(kind, d)]
          BY <2>1, <2>4, <2>6, <3>2
        <4> QED BY <2>1, <2>2, <2>6, <3>2, <4>1 DEF Sound
      <3> QED BY <3>1, <3>2
    <2>7. ~Young(d)' /\ Doomed(d)' /\ ~(d \in LiveCollections)' /\ d \notin LiveCollections
      BY <2>1, <2>2 DEF Young, Doomed, LiveCollections
    <2> QED BY <1>1, <2>1, <2>2, <2>3, <2>5, <2>6, <2>7 DEF Local
  <1>7. ASSUME life' = life, stable' = stable,
               \A c \in Collections, kind \in LiveKinds :
                   KeyOf(kind, c) \in Key =>
                       \/ store'[KeyOf(kind, c)] = store[KeyOf(kind, c)]
                       \/ kind = "segment" /\ c = d /\ store'[KeyOf(kind, c)] = Absent
        PROVE  Local(d)
    <2>1. ASSUME NEW kind \in LiveKinds, KeyOf(kind, d) \in Key,
                 Sound(kind, d, store[KeyOf(kind, d)], life[d])
          PROVE  Sound(kind, d, store'[KeyOf(kind, d)], life'[d])
      BY <1>7, <2>1, AbsentSound
    <2>2. KeyOf("collection", d) \in Key =>
              store'[KeyOf("collection", d)] = store[KeyOf("collection", d)]
      BY <1>7 DEF LiveKinds
    <2>3. LiveCollections' = LiveCollections /\ (Young(d)' <=> Young(d)) /\ (Doomed(d)' <=> Doomed(d))
      BY <1>7 DEF LiveCollections, Young, Doomed
    <2> QED BY <1>7, <2>1, <2>2, <2>3 DEF Local
  <1>8. CASE DropSegment(d) /\ UNCHANGED <<cmdVars, faults, historyVars>>
    <2> DEFINE once == Remove(store, KeyOf("segment", d))
    <2>1. /\ life' = life /\ stable' = stable
          /\ store' = Save(once, KeyOf("binlog", d), Absent)
      BY <1>8 DEF DropSegment, historyVars, Remove
    <2>s. once = Save(store, KeyOf("segment", d), Absent)
      BY DEF Remove
    <2>2. once = [k \in Key |-> once[k]]
      BY <1>0, SaveKeeps, Zenon DEF Remove
    <2>r. \A k \in Key : k # KeyOf("segment", d) => once[k] = store[k]
      <3> HIDE DEF once
      <3> QED BY <1>0, <2>s, SaveKeeps
    <2>3. KeyOf("segment", d) \in Key => once[KeyOf("segment", d)] = Absent
      <3> HIDE DEF once
      <3> QED BY <1>0, <2>s, SavedValue
    <2> HIDE DEF once
    <2>4. \A k \in Key : k # KeyOf("binlog", d) => store'[k] = once[k]
      BY <2>1, <2>2, SaveKeeps
    <2>5. ASSUME NEW c \in Collections, NEW kind \in LiveKinds, KeyOf(kind, c) \in Key
          PROVE  \/ store'[KeyOf(kind, c)] = store[KeyOf(kind, c)]
                 \/ kind = "segment" /\ c = d /\ store'[KeyOf(kind, c)] = Absent
      <3>1. KeyOf(kind, c) # KeyOf("binlog", d)
        BY <1>0, KeysApart DEF LiveKinds
      <3>2. KeyOf(kind, c) = KeyOf("segment", d) => kind = "segment" /\ c = d
        BY <1>0, KeysApart DEF LiveKinds
      <3> QED BY <2>r, <2>3, <2>4, <2>5, <3>1, <3>2
    <2> QED BY <1>1, <1>7, <2>1, <2>5
  <1>9. CASE \E l \in Logs : FlushLog(d, l) /\ Writes(d, l)
    <2> PICK l \in Logs : FlushLog(d, l) /\ Writes(d, l)
      BY <1>9
    <2>1. /\ life' = life /\ stable' = stable
          /\ store' = Save(store, KeyOf("binlog", d),
                           Object("binlog", d, "set", store[KeyOf("binlog", d)].logs \union {l}))
      BY Zenon DEF FlushLog, Writes
    <2>2. \A k \in Key : k # KeyOf("binlog", d) => store'[k] = store[k]
      BY <1>0, <2>1, SaveKeeps
    <2>3. ASSUME NEW c \in Collections, NEW kind \in LiveKinds, KeyOf(kind, c) \in Key
          PROVE  store'[KeyOf(kind, c)] = store[KeyOf(kind, c)]
      <3>1. KeyOf(kind, c) # KeyOf("binlog", d)
        BY <1>0, KeysApart DEF LiveKinds
      <3> QED BY <2>2, <2>3, <3>1
    <2> QED BY <1>1, <1>7, <2>1, <2>3
  <1> QED BY <1>2, <1>3, <1>4, <1>5, <1>6, <1>8, <1>9

-----------------------------------------------------------------------------
(* The initial states. *)

LEMMA InitialKey ==
    ASSUME MilvusInit, NEW c \in Collections, NEW kind \in AllKinds, KeyOf(kind, c) \in Key
    PROVE  store[KeyOf(kind, c)] = ValueAt(kind, c, life[c])
  <1> DEFINE k == KeyOf(kind, c)
             owner == CHOOSE d \in Collections : OwnedBy(k, RootKinds \union DataKinds, d)
  <1>1. OwnedBy(k, RootKinds \union DataKinds, c)
    BY DEF OwnedBy, AllKinds
  <1>2. owner \in Collections /\ OwnedBy(k, RootKinds \union DataKinds, owner)
    BY <1>1, Zenon
  <1> HIDE DEF owner
  <1>3. owner = c
    BY <1>2, OwnKeys DEF AllKinds
  <1>4. (CHOOSE d \in RootKinds \union DataKinds : k = KeyOf(d, c)) = kind
    BY OwnKeys DEF AllKinds
  <1>5. store[k] = InitialValue(k)
    BY DEF MilvusInit
  <1>6. InitialValue(k) = ValueAt(CHOOSE d \in RootKinds \union DataKinds : k = KeyOf(d, owner),
                                  owner, life[owner])
    BY <1>1, Zenon DEF InitialValue, owner
  <1> HIDE DEF k
  <1> QED BY <1>3, <1>4, <1>5, <1>6, Zenon DEF k

LEMMA InitialSound ==
    ASSUME NEW c \in Collections, NEW kind \in LiveKinds, NEW l \in Lives
    PROVE  Sound(kind, c, ValueAt(kind, c, l), l)
  <1> DEFINE dropping == Object(kind, c, "dropping", {})
  <1>1. \/ ValueAt(kind, c, l) = Absent
        \/ kind = "collection" /\ l = "dropping" /\ ValueAt(kind, c, l) = dropping
        \/ kind = "collection" /\ l \in {"tombstoned", "gone"} /\ ValueAt(kind, c, l) = Tombstone
        \/ /\ kind = "collection" \/ l \notin {"none", "created"}
           /\ ValueAt(kind, c, l) = NewObject(kind, c)
    <2>1. (kind = "collection" => kind \in RootKinds \ DataKinds) /\
          (kind # "collection" => kind \in DataKinds \ RootKinds)
      BY DEF LiveKinds, RootKinds, DataKinds
    <2> QED BY <2>1 DEF ValueAt, Lives
  <1>2. dropping.coll = c
    BY DEF Object
  <1>3. CASE ValueAt(kind, c, l) = Absent
    BY <1>3, AbsentSound
  <1>4. CASE kind = "collection" /\ l = "dropping" /\ ValueAt(kind, c, l) = dropping
    <2> HIDE DEF dropping
    <2> QED BY <1>2, <1>4 DEF Sound
  <1>5. CASE kind = "collection" /\ l \in {"tombstoned", "gone"} /\ ValueAt(kind, c, l) = Tombstone
    BY <1>5 DEF Sound
  <1>6. CASE /\ kind = "collection" \/ l \notin {"none", "created"}
             /\ ValueAt(kind, c, l) = NewObject(kind, c)
    BY <1>6, NewSound
  <1> HIDE DEF dropping
  <1> QED BY <1>1, <1>3, <1>4, <1>5, <1>6

LEMMA LiveInit == Init => LiveInv
  <1> SUFFICES ASSUME Init PROVE LiveInv
    OBVIOUS
  <1>1. DryInv
    BY DryInvInit
  <1>2. life \in [Collections -> Lives]
    BY ValuesAssumption DEF Init, MilvusInit
  <1>3. ValuesSound
    <2> SUFFICES ASSUME NEW c \in Collections, NEW kind \in LiveKinds, KeyOf(kind, c) \in Key
                 PROVE  Sound(kind, c, store[KeyOf(kind, c)], life[c])
      BY DEF ValuesSound
    <2>1. kind \in AllKinds
      BY DEF LiveKinds, AllKinds, RootKinds, DataKinds
    <2>2. store[KeyOf(kind, c)] = ValueAt(kind, c, life[c])
      BY <2>1, InitialKey DEF Init
    <2> QED BY <1>2, <2>2, InitialSound
  <1>4. /\ pc = "done" /\ resume = "done" /\ cmd.name = "none" /\ cmd = NoCommand /\ stable = {}
        /\ seen = <<>> /\ listed = <<>> /\ todo = <<>> /\ cursor = [prefix |-> 1, from |-> 0]
    BY DEF Init, NoCommand
  <1>5. Places
    BY <1>4 DEF Places, CommandsAt
  <1>6. PlanSound /\ SeenSound /\ ListedSound /\ DropsDropping
    BY <1>4, EmptyElements DEF PlanSound, SeenSound, ListedSound, DropsDropping
  <1>7. StableSeen /\ GroupSound /\ StableLive
    BY <1>4 DEF StableSeen, GroupSound, StableLive
  <1>8. cursor \in [prefix : Nat \ {0}, from : Nat]
    BY <1>4
  <1> QED BY <1>1, <1>2, <1>3, <1>5, <1>6, <1>7, <1>8 DEF LiveInv

-----------------------------------------------------------------------------
(* Steps that no decision of the command suffers from. *)

Calm ==
    /\ cmd' = cmd /\ (misread => misread') /\ stable' \subseteq stable
    /\ \A c \in Collections :
           /\ (Young(c)' => Young(c)) /\ (Doomed(c) => Doomed(c)')
           /\ (c \in IntactCollections)' => c \in IntactCollections \/ Young(c)

LEMMA CalmKeep ==
    ASSUME Calm, NEW c \in Collections, NEW kind, Keep(c, kind)'
    PROVE  Keep(c, kind)
  BY Zenon DEF Calm, Keep, Forced

LEMMA CalmPlanned ==
    ASSUME Calm, NEW o, Planned(o)
    PROVE  Planned(o)'
  <1>1. \A c \in Collections, kind \in AllKinds : Keep(c, kind)' => ~Hits(o, KeyOf(kind, c))
    BY CalmKeep, Zenon DEF Planned
  <1>2. cmd' = cmd
    BY DEF Calm
  <1> QED BY <1>1, <1>2, Zenon DEF Planned

LEMMA CalmRow ==
    ASSUME Calm, NEW m, Row(m)
    PROVE  Row(m)'
  BY Zenon DEF Calm, Row

LEMMA MilvusCalm ==
    ASSUME LiveInv, MilvusStep
    PROVE  /\ Calm /\ (life \in [Collections -> Lives])' /\ ValuesSound'
           /\ StableLive'
  <1> PICK d \in Collections : Local(d)
    BY MilvusLocal DEF LiveInv
  <1>1. UNCHANGED cmdVars /\ misread' = misread
    BY MilvusStepCounts, MilvusLocal DEF LiveInv
  <1>2. cmd' = cmd
    BY <1>1 DEF cmdVars
  <1>3. ASSUME NEW c \in Collections
        PROVE  /\ (Young(c)' => Young(c)) /\ (Doomed(c) => Doomed(c)')
               /\ (c \in IntactCollections)' => c \in IntactCollections \/ Young(c)
               /\ c \in stable' /\ c \in IntactCollections => (c \in IntactCollections)'
               /\ c \in stable' /\ c \in LiveCollections => (c \in LiveCollections)'
    <2> DEFINE k == KeyOf("collection", c)
    <2>0. "collection" \in LiveKinds
      BY DEF LiveKinds
    <2>1. CASE c = d
      <3>1. c \in LiveCollections /\ (c \in LiveCollections)' => Load(k)' = Load(k)
        BY <2>1, Zenon DEF Local, Load
      <3>2. life[c] = "none" => Young(c)
        BY DEF Young
      <3> HIDE DEF k
      <3>3. IntactCollections = {e \in LiveCollections : Load(KeyOf("collection", e)) # Absent}
        BY DEF IntactCollections
      <3>4. IntactCollections' = {e \in LiveCollections' : Load(KeyOf("collection", e))' # Absent}
        BY DEF IntactCollections
      <3>5. (c \in IntactCollections)' => c \in IntactCollections \/ Young(c)
        BY <2>1, <3>1, <3>2, <3>3, <3>4, Zenon DEF Local, k
      <3>6. c \in stable' /\ c \in IntactCollections => (c \in IntactCollections)'
        BY <2>1, <3>1, <3>3, <3>4, Zenon DEF Local, k
      <3> QED BY <2>1, <3>5, <3>6, Zenon DEF Local
    <2>2. CASE c # d
      <3>1. life'[c] = life[c] /\ (k \in Key => store'[k] = store[k])
        BY <2>0, <2>2, Zenon DEF Local
      <3>2. Load(k)' = Load(k)
        BY <3>1, Zenon DEF Load
      <3>3. (Young(c)' <=> Young(c)) /\ (Doomed(c)' <=> Doomed(c))
        BY <3>1 DEF Young, Doomed
      <3>4. (c \in LiveCollections)' <=> c \in LiveCollections
        BY <3>1 DEF LiveCollections
      <3> HIDE DEF k
      <3>5. (c \in IntactCollections)' <=> c \in IntactCollections
        BY <3>2, <3>4 DEF IntactCollections, k
      <3> QED BY <3>3, <3>4, <3>5
    <2> QED BY <2>1, <2>2
  <1>4. stable' \subseteq stable
    BY DEF Local
  <1>5. Calm
    BY <1>1, <1>2, <1>3, <1>4 DEF Calm
  <1>6. ValuesSound'
    <2> SUFFICES ASSUME NEW c \in Collections, NEW kind \in LiveKinds, KeyOf(kind, c) \in Key
                 PROVE  Sound(kind, c, store'[KeyOf(kind, c)], life'[c])
      BY DEF ValuesSound, Sound
    <2>1. Sound(kind, c, store[KeyOf(kind, c)], life[c])
      BY DEF LiveInv, ValuesSound
    <2>2. CASE c = d
      BY <2>1, <2>2, Zenon DEF Local
    <2>3. CASE c # d
      <3>1. life'[c] = life[c] /\ store'[KeyOf(kind, c)] = store[KeyOf(kind, c)]
        BY <2>3, Zenon DEF Local
      <3> QED BY <2>1, <3>1
    <2> QED BY <2>2, <2>3
  <1>7. StableLive'
    <2>0. stable \subseteq Collections
      BY DEF LiveInv, StableLive, LiveCollections
    <2>1. stable' \subseteq LiveCollections'
      BY <1>3, <1>4, <2>0 DEF LiveInv, StableLive
    <2>2. KeepsStable' => KeepsStable
      BY <1>2 DEF KeepsStable, Forced
    <2>3. KeepsStable' => stable' \subseteq IntactCollections'
      BY <1>3, <1>4, <2>0, <2>2 DEF LiveInv, StableLive
    <2> QED BY <2>1, <2>3, Zenon DEF StableLive
  <1>8. (life \in [Collections -> Lives])'
    BY DEF Local
  <1> QED BY <1>5, <1>6, <1>7, <1>8

\* What is left when nothing of the command changed.
LEMMA MilvusKeeps ==
    ASSUME LiveInv, MilvusStep
    PROVE  LiveInv'
  <1>1. DryInv'
    BY DryInvNext DEF LiveInv, Next
  <1>2. Calm /\ (life \in [Collections -> Lives])' /\ ValuesSound' /\ StableLive'
    BY MilvusCalm
  <1>3. UNCHANGED <<cmd, pc, seen, listed, group, cursor, todo, resume>>
    BY MilvusStepCounts, Zenon DEF LiveInv, cmdVars
  <1>4. Places' /\ cursor' \in [prefix : Nat \ {0}, from : Nat]
    BY <1>3 DEF LiveInv, Places
  <1>5. PlanSound'
    BY <1>2, <1>3, CalmPlanned, Zenon DEF LiveInv, PlanSound
  <1>6. SeenSound'
    BY <1>2, <1>3, CalmRow, Zenon DEF LiveInv, SeenSound
  <1>7. DropsDropping'
    BY <1>3, Zenon DEF LiveInv, DropsDropping
  <1>8. StableSeen'
    BY <1>2, <1>3 DEF LiveInv, StableSeen, Calm, Forced, Found
  <1>9. ListedSound'
    BY <1>2, <1>3 DEF LiveInv, ListedSound, Calm
  <1>10. GroupSound'
    BY <1>2, <1>3, Zenon DEF LiveInv, GroupSound, Calm
  <1> QED BY <1>1, <1>2, <1>4, <1>5, <1>6, <1>7, <1>8, <1>9, <1>10, Zenon DEF LiveInv

-----------------------------------------------------------------------------
(* Starting. *)

LEMMA StoreSame ==
    ASSUME UNCHANGED <<store, life>>
    PROVE  /\ ValuesSound' <=> ValuesSound
           /\ LiveCollections' = LiveCollections
           /\ IntactCollections' = IntactCollections
           /\ \A c : (Young(c)' <=> Young(c)) /\ (Doomed(c)' <=> Doomed(c))
  <1>1. ValuesSound' <=> ValuesSound
    BY DEF ValuesSound, Sound
  <1>2. LiveCollections' = LiveCollections
    BY DEF LiveCollections
  <1>3. IntactCollections' = IntactCollections
    BY <1>2 DEF IntactCollections, Load
  <1>4. \A c : (Young(c)' <=> Young(c)) /\ (Doomed(c)' <=> Doomed(c))
    BY DEF Young, Doomed
  <1> QED BY <1>1, <1>2, <1>3, <1>4

LEMMA FirstPlace ==
    ASSUME NEW i \in Invocations
    PROVE  /\ i.name \in CommandsAt(FirstCall(i))
           /\ i.name \in {"channel", "collection-meta-leaked"} => FirstCall(i) = "collections"
           /\ i.name = "segment-orphan" => FirstCall(i) = "segments"
  <1>1. i.name \in CommandNames
    BY InvocationsAssumption
  <1>2. CASE i.name \in {"channel", "collection-meta-leaked", "collection-drop"}
    <2>1. FirstCall(i) = "collections"
      BY <1>2 DEF FirstCall
    <2> QED BY <1>2, <2>1 DEF CommandsAt
  <1>3. CASE i.name \in {"segment-orphan", "dirty-importing-segment"}
    <2>1. FirstCall(i) = "segments"
      BY <1>3 DEF FirstCall
    <2> QED BY <1>3, <2>1 DEF CommandsAt
  <1>4. CASE i.name = "segment"
    <2>1. FirstCall(i) = "walk"
      BY <1>4 DEF FirstCall
    <2> QED BY <1>4, <2>1 DEF CommandsAt
  <1>5. CASE i.name = "binlog"
    <2>1. FirstCall(i) \in {"restore", "backup"}
      BY <1>5 DEF FirstCall
    <2> QED BY <1>5, <2>1 DEF CommandsAt
  <1>6. CASE i.name \in {"compaction", "stats-task", "index", "import-job", "session",
                         "etcd-config"}
    <2>1. FirstCall(i) = "list"
      BY <1>6 DEF FirstCall
    <2> QED BY <1>6, <2>1 DEF CommandsAt
  <1> QED BY <1>1, <1>2, <1>3, <1>4, <1>5, <1>6 DEF CommandNames

LEMMA StartLive ==
    ASSUME LiveInv, NEW i \in Invocations, Start(i)
    PROVE  LiveInv'
  <1>1. DryInv'
    BY DryInvNext DEF LiveInv, Next
  <1>2. /\ cmd' = i /\ pc' = FirstCall(i) /\ resume' = "done"
        /\ seen' = <<>> /\ listed' = <<>> /\ todo' = <<>> /\ cursor' = [prefix |-> 1, from |-> 0]
        /\ stable' = IntactCollections
        /\ UNCHANGED <<store, life>>
    BY Zenon DEF Start, milvusVars
  <1>3. life' \in [Collections -> Lives] /\ ValuesSound'
    BY <1>2, StoreSame DEF LiveInv
  <1>4. StableLive'
    <2>1. stable' \subseteq LiveCollections' /\ stable' \subseteq IntactCollections'
      BY <1>2, StoreSame DEF IntactCollections
    <2> QED BY <2>1, Zenon DEF StableLive
  <1>5. Places'
    <2>1. cmd'.name \in CommandsAt(pc')
      BY <1>2, FirstPlace, Zenon
    <2>2. cmd'.name \in CommandNames
      BY <1>2, InvocationsAssumption, Zenon
    <2>3. cmd'.name \in CommandsAt(resume')
      BY <1>2, <2>2 DEF CommandsAt
    <2> QED BY <2>1, <2>3, Zenon DEF Places
  <1>6. cursor' \in [prefix : Nat \ {0}, from : Nat]
    BY <1>2
  <1>7. PlanSound' /\ SeenSound' /\ ListedSound' /\ DropsDropping'
    BY <1>2, EmptyElements DEF PlanSound, SeenSound, ListedSound, DropsDropping
  <1>8. StableSeen'
    <2>1. cmd'.name \in {"channel", "collection-meta-leaked"} => pc' = "collections"
      BY <1>2, FirstPlace, Zenon
    <2> QED BY <2>1 DEF StableSeen
  <1>9. GroupSound'
    <2>1. cmd'.name = "segment-orphan" => pc' = "segments"
      BY <1>2, FirstPlace, Zenon
    <2> QED BY <2>1 DEF GroupSound
  <1> QED BY <1>1, <1>3, <1>4, <1>5, <1>6, <1>7, <1>8, <1>9, Zenon DEF LiveInv

-----------------------------------------------------------------------------
(* The calls that read and decide: they leave the store as it is. *)

Quiet == UNCHANGED <<store, life, stable, cmd>> /\ (misread => misread')

LEMMA QuietCalm ==
    ASSUME Quiet
    PROVE  Calm
  <1>1. UNCHANGED <<store, life>> /\ cmd' = cmd /\ stable' = stable /\ (misread => misread')
    BY Zenon DEF Quiet
  <1> QED BY <1>1, StoreSame, Zenon DEF Calm

\* What is left to show of such a call.
LEMMA QuietLive ==
    ASSUME LiveInv, CommandStep, Quiet, Places', (cursor \in [prefix : Nat \ {0}, from : Nat])',
           PlanSound', SeenSound', DropsDropping', StableSeen', ListedSound', GroupSound'
    PROVE  LiveInv'
  <1>1. DryInv'
    BY DryInvNext, Zenon DEF LiveInv, Next
  <1>2. UNCHANGED <<store, life>> /\ cmd' = cmd /\ stable' = stable
    BY DEF Quiet
  <1>3. (life \in [Collections -> Lives])' /\ ValuesSound'
    BY <1>2, StoreSame DEF LiveInv
  <1>4. StableLive'
    BY <1>2, StoreSame DEF LiveInv, StableLive, KeepsStable, Forced
  <1> QED BY <1>1, <1>3, <1>4, Zenon DEF LiveInv

LEMMA KnownCommand ==
    ASSUME LiveInv
    PROVE  /\ cmd.name \in CommandNames \cup {"none"}
           /\ cmd.name # "none" => cmd \in Invocations
  <1>1. cmd \in Invocations \cup {NoCommand}
    BY DEF LiveInv, DryInv
  <1>2. NoCommand.name = "none"
    BY DEF NoCommand
  <1> QED BY <1>1, <1>2, InvocationsAssumption

\* What the invariant says of a call depends on a few of the places.
LEMMA AtRest ==
    ASSUME LiveInv, cmd' = cmd, pc' = "done"
    PROVE  /\ cmd'.name \in CommandsAt(pc')
           /\ DropsDropping' /\ StableSeen' /\ GroupSound'
  <1>1. cmd'.name \in CommandsAt(pc')
    BY KnownCommand DEF CommandsAt
  <1> QED BY <1>1 DEF DropsDropping, StableSeen, GroupSound

LEMMA AtGroups ==
    ASSUME cmd' = cmd, pc' = "groups", cmd.name \in {"segment-orphan", "dirty-importing-segment"}
    PROVE  /\ cmd'.name \in CommandsAt(pc')
           /\ DropsDropping' /\ StableSeen' /\ GroupSound'
  <1>1. cmd'.name \in CommandsAt(pc')
    BY DEF CommandsAt
  <1> QED BY <1>1 DEF DropsDropping, StableSeen, GroupSound

LEMMA PlanStays ==
    ASSUME LiveInv, Quiet, todo' \in {todo, <<>>}
    PROVE  PlanSound'
  <1>1. CASE todo' = todo
    BY <1>1, QuietCalm, CalmPlanned, Zenon DEF LiveInv, PlanSound
  <1>2. CASE todo' = <<>>
    BY <1>2, EmptyElements, Zenon DEF PlanSound
  <1> QED BY <1>1, <1>2

LEMMA SeenStays ==
    ASSUME LiveInv, Quiet, seen' \in {seen, <<>>}
    PROVE  SeenSound'
  <1>1. CASE seen' = seen
    BY <1>1, QuietCalm, CalmRow, Zenon DEF LiveInv, SeenSound
  <1>2. CASE seen' = <<>>
    BY <1>2, EmptyElements, Zenon DEF SeenSound
  <1> QED BY <1>1, <1>2

LEMMA ListedStays ==
    ASSUME LiveInv, Quiet, NEW S, listed' \in {listed, Filter(listed, S)}
    PROVE  ListedSound'
  <1>1. IsSeq(listed') /\ Elements(listed') \subseteq Elements(listed)
    BY FilterIsSeq DEF LiveInv, ListedSound
  <1>2. \A c : Young(c)' <=> Young(c)
    BY StoreSame DEF Quiet
  <1> QED BY <1>1, <1>2 DEF LiveInv, ListedSound

\* A command that stops, or goes on with what it decided before.
LEMMA StopsLive ==
    ASSUME LiveInv, CommandStep, Quiet, pc' = "done",
           UNCHANGED <<seen, listed, cursor, todo, resume>>
    PROVE  LiveInv'
  <1>1. cmd' = cmd
    BY DEF Quiet
  <1>2. Places'
    BY <1>1, AtRest DEF LiveInv, Places
  <1>3. PlanSound' /\ SeenSound'
    BY PlanStays, SeenStays
  <1>4. ListedSound'
    BY ListedStays
  <1>5. (cursor \in [prefix : Nat \ {0}, from : Nat])'
    BY DEF LiveInv
  <1> QED BY <1>1, <1>2, <1>3, <1>4, <1>5, AtRest, QuietLive

LEMMA ReadFailsLive ==
    ASSUME LiveInv, ReadFails
    PROVE  LiveInv'
  <1> DEFINE S == {m \in Elements(listed) : m.obj.coll # group}
  <1>1. /\ pc' = IF cmd.name = "segment-orphan" /\ pc # "segments" THEN "groups" ELSE "done"
        /\ listed' = Filter(listed, S)
        /\ UNCHANGED <<seen, cursor, todo, resume, cmd>>
        /\ Quiet
    BY DEF ReadFails, Where, Quiet, milvusVars
  <1> HIDE DEF S
  <1>2. CommandStep
    BY DEF CommandStep
  <1>3. PlanSound' /\ SeenSound'
    BY <1>1, PlanStays, SeenStays
  <1>4. ListedSound'
    BY <1>1, ListedStays
  <1>5. /\ cmd'.name \in CommandsAt(pc')
        /\ DropsDropping' /\ StableSeen' /\ GroupSound'
    BY <1>1, AtRest, AtGroups
  <1>6. Places'
    BY <1>1, <1>5 DEF LiveInv, Places
  <1>7. (cursor \in [prefix : Nat \ {0}, from : Nat])'
    BY <1>1 DEF LiveInv
  <1> QED BY <1>1, <1>2, <1>3, <1>4, <1>5, <1>6, <1>7, QuietLive

LEMMA EndsLive ==
    ASSUME LiveInv, WalkUnreadable \/ EndGroups
    PROVE  LiveInv'
  <1>1. Quiet /\ pc' = "done" /\ UNCHANGED <<seen, listed, cursor, todo, resume>>
    BY DEF WalkUnreadable, EndGroups, ReadOnly, Quiet, milvusVars
  <1> QED BY <1>1, StopsLive DEF CommandStep

LEMMA ResumeLive ==
    ASSUME LiveInv, Resume
    PROVE  LiveInv'
  <1>1. /\ pc = "exec" /\ pc' = resume
        /\ UNCHANGED <<cmd, seen, listed, group, cursor, todo, resume, stable>> /\ Quiet
    BY DEF Resume, Quiet, milvusVars, historyVars
  <1>2. resume \in {"done", "clean", "walk", "groups", "reload"}
    BY DEF LiveInv, DryInv
  <1>3. PlanSound' /\ SeenSound' /\ ListedSound'
    BY <1>1, PlanStays, SeenStays, ListedStays
  <1>4. Places'
    BY <1>1 DEF LiveInv, Places
  <1>5. DropsDropping'
    BY <1>1, <1>2 DEF LiveInv, DropsDropping
  <1>6. StableSeen'
    BY <1>1, <1>2 DEF LiveInv, StableSeen, Forced, Found
  <1>7. GroupSound'
    BY <1>1, <1>2 DEF GroupSound
  <1>8. (cursor \in [prefix : Nat \ {0}, from : Nat])'
    BY <1>1 DEF LiveInv
  <1>9. CommandStep
    BY DEF CommandStep
  <1> QED BY <1>1, <1>3, <1>4, <1>5, <1>6, <1>7, <1>8, <1>9, QuietLive

-----------------------------------------------------------------------------
(* Listing the collections. *)

LEMMA ListedRow ==
    ASSUME LiveInv, NEW p, p \in {CollectionMetaPrefix, DBCollectionMetaPrefix},
           NEW m \in Elements(ListObj2Models(p))
    PROVE  /\ m.obj.coll \in Collections
           /\ \E e \in Collections : m.key = KeyOf("collection", e) /\ (Skips(p) \/ e = m.obj.coll)
           /\ m.obj.state = "dropping" => Doomed(m.obj.coll)
  <1>1. PICK k \in Key, v \in Key :
            /\ HasPrefix(k, p) /\ HasPrefix(v, p)
            /\ store[v] # Absent /\ store[v] # Tombstone
            /\ m.key = k /\ m.obj = store[v]
            /\ ~Skips(p) => k = v
    BY RowsListed
  <1>2. \A x \in Key : HasPrefix(x, p) => \E c \in Collections : x = KeyOf("collection", c)
    BY UnderPrefixes
  <1>3. PICK e \in Collections : k = KeyOf("collection", e)
    BY <1>1, <1>2
  <1>4. PICK c \in Collections : v = KeyOf("collection", c)
    BY <1>1, <1>2
  <1>5. "collection" \in LiveKinds /\ "collection" \in AllKinds
    BY DEF LiveKinds, AllKinds, RootKinds
  <1>6. Sound("collection", c, m.obj, life[c])
    BY <1>1, <1>4, <1>5 DEF LiveInv, ValuesSound
  <1>7. m.obj.coll = c /\ (m.obj.state = "dropping" => Doomed(c))
    BY <1>1, <1>6 DEF Sound, Doomed
  <1>8. ~Skips(p) => e = c
    BY <1>1, <1>3, <1>4, <1>5, KeysApart
  <1> QED BY <1>1, <1>3, <1>7, <1>8

LEMMA LiveListed ==
    ASSUME LiveInv, NEW c \in IntactCollections, NEW p,
           \/ DbId[c] = "0" /\ p = CollectionMetaPrefix
           \/ DbId[c] # "0" /\ p = DBCollectionMetaPrefix
    PROVE  \E m \in Elements(ListObj2Models(p)) : m.obj.coll = c
  <1> DEFINE k == KeyOf("collection", c)
  <1>1. c \in Collections /\ life[c] \in {"created", "serving"} /\ Load(k) # Absent
    BY DEF IntactCollections, LiveCollections
  <1>2. k \in Key /\ store[k] # Absent
    BY <1>1, Zenon DEF Load
  <1>3. "collection" \in LiveKinds
    BY DEF LiveKinds
  <1>4. HasPrefix(k, p)
    BY <1>1, CollectionsListed
  <1>5. Sound("collection", c, store[k], life[c])
    BY <1>1, <1>2, <1>3 DEF LiveInv, ValuesSound
  <1> HIDE DEF k
  <1>6. store[k] # Tombstone /\ store[k].coll = c
    BY <1>1, <1>2, <1>5 DEF Sound
  <1>7. PICK m \in Elements(ListObj2Models(p)) : m.obj = store[k]
    BY <1>2, <1>4, <1>6, RowsListed
  <1> QED BY <1>6, <1>7

LEMMA OrphanGroupLive ==
    ASSUME LiveInv, NEW c \in Collections, OrphanGroup(c)
    PROVE  LiveInv'
  <1> DEFINE S == {m \in Elements(listed) : m.obj.coll = c}
  <1>1. /\ pc' = "collections" /\ seen' = <<>> /\ group' = c /\ cmd.name = "segment-orphan"
        /\ UNCHANGED <<cmd, listed, cursor, todo, resume>> /\ Quiet
    BY DEF OrphanGroup, ReadOnly, Quiet, milvusVars
  <1>2. Filter(listed, S) # <<>>
    BY DEF OrphanGroup, InGroup, Where
  <1> HIDE DEF S
  <1>3. CommandStep
    BY Zenon DEF CommandStep
  <1>4. PlanSound' /\ SeenSound' /\ ListedSound'
    BY <1>1, PlanStays, SeenStays, ListedStays
  <1>5. Elements(Filter(listed, S)) = Elements(listed) \cap S /\ IsSeq(Filter(listed, S))
    BY FilterIsSeq DEF LiveInv, ListedSound
  <1>6. PICK m \in Elements(listed) : m.obj.coll = c
    BY <1>2, <1>5, IsSeqFacts DEF S
  <1>7. ~Young(c)
    BY <1>6 DEF LiveInv, ListedSound
  <1>8. GroupSound'
    BY <1>1, <1>7, StoreSame DEF GroupSound, Quiet
  <1>9. DropsDropping' /\ StableSeen'
    BY <1>1 DEF DropsDropping, StableSeen
  <1>10. Places'
    BY <1>1 DEF LiveInv, Places, CommandsAt
  <1>11. (cursor \in [prefix : Nat \ {0}, from : Nat])'
    BY <1>1 DEF LiveInv
  <1> QED BY <1>1, <1>3, <1>4, <1>8, <1>9, <1>10, <1>11, QuietLive

\* The rows that ListCollections takes over of one listing.
LEMMA WantedRows ==
    ASSUME LiveInv, Quiet, NEW p, p \in {CollectionMetaPrefix, DBCollectionMetaPrefix},
           NEW rows, rows = Where(ListObj2Models(p), Wanted),
           Skips(p) => misread' \/ cmd.name = "segment-orphan"
    PROVE  /\ IsSeq(rows)
           /\ \A m \in Elements(rows) : Row(m)' /\ Wanted(m)
           /\ \A m \in Elements(ListObj2Models(p)) : Wanted(m) => m \in Elements(rows)
  <1> DEFINE all == ListObj2Models(p)
             S == {m \in Elements(all) : Wanted(m)}
  <1>1. rows = Filter(all, S)
    BY DEF Where
  <1>2. IsSeq(all)
    BY RowsListed
  <1>3. ASSUME NEW m \in Elements(all)
        PROVE  Row(m)'
    <2>1. \A c : Doomed(c) => Doomed(c)'
      BY StoreSame DEF Quiet
    <2>2. cmd' = cmd
      BY DEF Quiet
    <2>3. /\ m.obj.coll \in Collections
          /\ \E e \in Collections : m.key = KeyOf("collection", e) /\ (Skips(p) \/ e = m.obj.coll)
          /\ m.obj.state = "dropping" => Doomed(m.obj.coll)
      BY <1>3, ListedRow
    <2> HIDE DEF all
    <2> QED BY <2>1, <2>2, <2>3, Zenon DEF Row
  <1> HIDE DEF all
  <1>4. IsSeq(rows) /\ Elements(rows) = Elements(all) \cap S
    BY <1>1, <1>2, FilterIsSeq
  <1> QED BY <1>3, <1>4, Zenon DEF all

LEMMA ReadCollectionsLive ==
    ASSUME LiveInv, ReadCollections
    PROVE  LiveInv'
  <1> DEFINE p == CollectionMetaPrefix
  <1>1. /\ pc = "collections" /\ pc' = "db-collections"
        /\ seen' = Where(ListObj2Models(p), Wanted)
        /\ misread' = (misread \/ Skips(p))
        /\ UNCHANGED <<cmd, listed, group, cursor, todo, resume, stable>>
    BY DEF ReadCollections, ReadOnly
  <1>2. Quiet
    BY <1>1, Zenon DEF ReadCollections, ReadOnly, Quiet, milvusVars
  <1>3. CommandStep
    BY Zenon DEF CommandStep
  <1>4. PlanSound' /\ ListedSound'
    BY <1>1, <1>2, PlanStays, ListedStays
  <1> HIDE DEF p
  <1>5. /\ IsSeq(seen')
        /\ \A m \in Elements(seen') : Row(m)' /\ Wanted(m)
        /\ \A m \in Elements(ListObj2Models(p)) : Wanted(m) => m \in Elements(seen')
    BY <1>1, <1>2, WantedRows, Zenon DEF p
  <1>6. SeenSound'
    BY <1>5, Zenon DEF SeenSound
  <1>7. cmd.name \in {"channel", "collection-meta-leaked", "collection-drop", "segment-orphan"}
    BY <1>1 DEF LiveInv, Places, CommandsAt
  <1>8. Places'
    BY <1>1, <1>7 DEF LiveInv, Places, CommandsAt
  <1>9. DropsDropping'
    <2> SUFFICES ASSUME cmd.name = "collection-drop", cmd.arg = Empty, NEW m \in Elements(seen')
                 PROVE  m.obj.state = "dropping"
      BY <1>1 DEF DropsDropping
    <2> QED BY <1>5 DEF Wanted
  <1>10. StableSeen'
    <2> SUFFICES ASSUME cmd.name \in {"channel", "collection-meta-leaked"}, ~Forced,
                        NEW c \in stable, DbId[c] = "0"
                 PROVE  \E m \in Elements(seen') : m.obj.coll = c
      BY <1>1 DEF StableSeen, Found, Forced
    <2>1. c \in IntactCollections
      BY DEF LiveInv, StableLive, KeepsStable
    <2>2. PICK m \in Elements(ListObj2Models(p)) : m.obj.coll = c
      BY <2>1, LiveListed DEF p
    <2>3. Wanted(m)
      BY DEF Wanted
    <2> QED BY <1>5, <2>2, <2>3
  <1>11. GroupSound'
    <2>1. ASSUME cmd.name = "segment-orphan"
          PROVE  group \in Collections /\ ~Young(group)
      BY <1>1, <2>1 DEF LiveInv, GroupSound
    <2>2. ASSUME cmd.name = "segment-orphan", DbId[group] = "0", group \in IntactCollections
          PROVE  seen' # <<>>
      <3>1. PICK m \in Elements(ListObj2Models(p)) : m.obj.coll = group
        BY <2>2, LiveListed DEF p
      <3>2. Wanted(m)
        BY <2>2, <3>1 DEF Wanted
      <3>3. m \in Elements(seen')
        BY <1>5, <3>1, <3>2
      <3> QED BY <3>3, EmptyElements
    <2>3. IntactCollections' = IntactCollections /\ \A c : Young(c)' <=> Young(c)
      BY <1>2, StoreSame DEF Quiet
    <2> QED BY <1>1, <2>1, <2>2, <2>3 DEF GroupSound
  <1>12. (cursor \in [prefix : Nat \ {0}, from : Nat])'
    BY <1>1 DEF LiveInv
  <1> QED BY <1>2, <1>3, <1>4, <1>6, <1>8, <1>9, <1>10, <1>11, <1>12, QuietLive

\* Both listings together.
LEMMA AllSeenRows ==
    ASSUME LiveInv, Quiet, Skips(DBCollectionMetaPrefix) => misread' \/ cmd.name = "segment-orphan"
    PROVE  /\ IsSeq(AllSeen)
           /\ \A m \in Elements(AllSeen) : Row(m)' /\ (m \in Elements(seen) \/ Wanted(m))
           /\ Elements(seen) \subseteq Elements(AllSeen)
           /\ \A m \in Elements(ListObj2Models(DBCollectionMetaPrefix)) :
                  Wanted(m) => m \in Elements(AllSeen)
  <1> DEFINE p == DBCollectionMetaPrefix
             rows == Where(ListObj2Models(p), Wanted)
  <1>1. /\ IsSeq(rows)
        /\ \A m \in Elements(rows) : Row(m)' /\ Wanted(m)
        /\ \A m \in Elements(ListObj2Models(p)) : Wanted(m) => m \in Elements(rows)
    <2> HIDE DEF rows, p
    <2> QED BY WantedRows, Zenon DEF rows, p
  <1>2. AllSeen = seen \o rows
    BY DEF AllSeen
  <1>3. IsSeq(seen) /\ \A m \in Elements(seen) : Row(m)'
    BY QuietCalm, CalmRow, Zenon DEF LiveInv, SeenSound
  <1> HIDE DEF rows, p
  <1>4. IsSeq(AllSeen) /\ Elements(AllSeen) = Elements(seen) \cup Elements(rows)
    BY <1>1, <1>2, <1>3, ConcatElements
  <1> QED BY <1>1, <1>3, <1>4, Zenon DEF p

LEMMA ReadDBCollectionsLive ==
    ASSUME LiveInv, ReadDBCollections
    PROVE  LiveInv'
  <1> DEFINE one == SubSeq(AllSeen, 1, IF AllSeen = <<>> THEN 0 ELSE 1)
             S == {m \in Elements(one) : m.obj.state = "dropping"}
  <1>1. /\ pc = "db-collections" /\ cmd.name # "segment-orphan"
        /\ seen' = IF cmd.name = "collection-drop" /\ cmd.arg # Empty THEN Filter(one, S) ELSE AllSeen
        /\ pc' = IF cmd.name = "channel" THEN "watches"
                 ELSE IF cmd.name = "collection-meta-leaked" THEN "walk" ELSE "clean"
        /\ misread' = (misread \/ Skips(DBCollectionMetaPrefix))
        /\ UNCHANGED <<cmd, listed, group, cursor, todo, resume, stable>>
    BY Zenon DEF ReadDBCollections, ReadOnly, Where
  <1>2. Quiet
    BY <1>1, Zenon DEF ReadDBCollections, ReadOnly, Quiet, milvusVars
  <1>3. CommandStep
    BY Zenon DEF CommandStep
  <1>4. PlanSound' /\ ListedSound'
    BY <1>1, <1>2, PlanStays, ListedStays
  <1>5. /\ IsSeq(AllSeen)
        /\ \A m \in Elements(AllSeen) : Row(m)' /\ (m \in Elements(seen) \/ Wanted(m))
        /\ Elements(seen) \subseteq Elements(AllSeen)
        /\ \A m \in Elements(ListObj2Models(DBCollectionMetaPrefix)) :
               Wanted(m) => m \in Elements(AllSeen)
    BY <1>1, <1>2, AllSeenRows, Zenon
  <1>6. IsSeq(one) /\ Elements(one) \subseteq Elements(AllSeen)
    <2> DEFINE n == IF AllSeen = <<>> THEN 0 ELSE 1
    <2>1. n \in Nat /\ n <= Len(AllSeen)
      BY <1>5, IsSeqFacts
    <2> HIDE DEF n
    <2>2. IsSeq(SubSeq(AllSeen, 1, n)) /\ Elements(SubSeq(AllSeen, 1, n)) \subseteq Elements(AllSeen)
      BY <1>5, <2>1, SubSeqElements
    <2> QED BY <2>2 DEF n
  <1> HIDE DEF one
  <1>7. IsSeq(Filter(one, S)) /\ Elements(Filter(one, S)) = Elements(one) \cap S
    BY <1>6, FilterIsSeq
  <1>8. IsSeq(seen') /\ Elements(seen') \subseteq Elements(AllSeen)
    BY <1>1, <1>5, <1>6, <1>7
  <1>9. SeenSound'
    BY <1>5, <1>8, Zenon DEF SeenSound
  <1>10. cmd.name \in {"channel", "collection-meta-leaked", "collection-drop", "segment-orphan"}
    BY <1>1 DEF LiveInv, Places, CommandsAt
  <1>11. Places'
    BY <1>1, <1>10 DEF LiveInv, Places, CommandsAt
  <1>12. DropsDropping'
    <2> SUFFICES ASSUME cmd.name = "collection-drop", NEW m \in Elements(seen')
                 PROVE  m.obj.state = "dropping"
      BY <1>1 DEF DropsDropping
    <2>1. CASE cmd.arg # Empty
      BY <1>1, <1>7, <2>1
    <2>2. CASE cmd.arg = Empty
      <3>1. m \in Elements(seen) \/ Wanted(m)
        BY <1>5, <1>8, Zenon
      <3>2. m \in Elements(seen) => m.obj.state = "dropping"
        BY <1>1, <2>2 DEF LiveInv, DropsDropping
      <3>3. Wanted(m) => m.obj.state = "dropping"
        BY <2>2 DEF Wanted
      <3> QED BY <3>1, <3>2, <3>3
    <2> QED BY <2>1, <2>2
  <1>13. StableSeen'
    <2> SUFFICES ASSUME cmd.name \in {"channel", "collection-meta-leaked"}, ~Forced,
                        NEW c \in stable
                 PROVE  \E m \in Elements(AllSeen) : m.obj.coll = c
      BY <1>1 DEF StableSeen, Found, Forced
    <2>1. c \in IntactCollections
      BY DEF LiveInv, StableLive, KeepsStable
    <2>2. CASE DbId[c] = "0"
      <3>1. PICK m \in Elements(seen) : m.obj.coll = c
        BY <1>1, <2>2 DEF LiveInv, StableSeen, Found
      <3> QED BY <1>5, <3>1
    <2>3. CASE DbId[c] # "0"
      <3>1. PICK m \in Elements(ListObj2Models(DBCollectionMetaPrefix)) : m.obj.coll = c
        BY <2>1, <2>3, LiveListed
      <3>2. Wanted(m)
        BY DEF Wanted
      <3> QED BY <1>5, <3>1, <3>2
    <2> QED BY <2>2, <2>3
  <1>14. GroupSound'
    BY <1>1 DEF GroupSound
  <1>15. (cursor \in [prefix : Nat \ {0}, from : Nat])'
    BY <1>1 DEF LiveInv
  <1> QED BY <1>2, <1>3, <1>4, <1>9, <1>11, <1>12, <1>13, <1>14, <1>15, QuietLive

-----------------------------------------------------------------------------
(* Deciding. *)

LEMMA OpFields ==
    ASSUME NEW op, NEW key, NEW val, NEW skip
    PROVE  /\ Op(op, key, val, skip).op = op /\ Op(op, key, val, skip).key = key
           /\ Op(op, key, val, skip).skip = skip
           /\ RemoveOp(key, skip).op = "remove" /\ RemoveOp(key, skip).key = key
           /\ RemoveOp(key, skip).skip = skip
  BY DEF Op, RemoveOp

LEMMA AbortNat == Abort \in Nat
  BY KeyOrderAssumption DEF Abort

\* One operation for each row.
LEMMA MappedOps ==
    ASSUME NEW s, IsSeq(s), NEW ops, ops = [i \in DOMAIN s |-> ops[i]], NEW P,
           \A i \in DOMAIN s : ops[i] \in P
    PROVE  IsSeq(ops) /\ Elements(ops) \subseteq P
  <1>1. IsSeq(ops)
    BY MapElements, Zenon
  <1>2. Elements(ops) \subseteq P
    BY DEF Elements
  <1> QED BY <1>1, <1>2

\* A planned removal of one key.
LEMMA PlannedRemoval ==
    ASSUME NEW key, NEW n \in Nat,
           \A c \in Collections, kind \in AllKinds : Keep(c, kind) => key # KeyOf(kind, c)
    PROVE  Planned(RemoveOp(key, n))
  BY OpFields DEF Planned, Hits

LEMMA DecidedPlan ==
    ASSUME LiveInv, Quiet, NEW ops, NEW next, Decide(ops, next), IsSeq(ops),
           \A o \in Elements(ops) : Planned(o)
    PROVE  PlanSound' /\ pc' = "exec" /\ resume' = next
  <1>1. todo' = ops \/ todo' = <<>>
    BY Zenon DEF Decide
  <1>2. pc' = "exec" /\ resume' = next
    BY DEF Decide
  <1>3. IsSeq(todo') /\ \A o \in Elements(todo') : Planned(o)
    BY <1>1, EmptyElements
  <1>4. PlanSound'
    BY <1>3, QuietCalm, CalmPlanned, Zenon DEF PlanSound
  <1> QED BY <1>2, <1>4

\* What holds of the place of the deletions.
LEMMA AtExec ==
    ASSUME LiveInv, cmd' = cmd, pc' = "exec", cmd.name \in CommandsAt(resume')
    PROVE  Places' /\ GroupSound'
  <1>1. cmd'.name \in CommandsAt(pc')
    BY KnownCommand DEF CommandsAt
  <1> QED BY <1>1 DEF Places, GroupSound

-----------------------------------------------------------------------------
(* remove channel *)

\* What is listed of a kind that leaves no tombstones: each object with its key.
LEMMA DataRow ==
    ASSUME LiveInv, NEW kin, NEW p,
           \/ kin = "watch" /\ p = <<"channelwatch", Empty>>
           \/ kin = "checkpoint" /\ p = <<"datacoord-meta", "channel-cp", Empty>>
           \/ kin = "segment" /\ p = <<"datacoord-meta", "s", Empty>>,
           NEW m \in Elements(ListObj2Models(p))
    PROVE  /\ m.obj.coll \in Collections /\ m.key = KeyOf(kin, m.obj.coll)
           /\ kin = "segment" => ~Young(m.obj.coll)
  <1>3. kin \in LiveKinds /\ kin \in AllKinds /\ kin # "collection"
    BY DEF LiveKinds, AllKinds, DataKinds
  <1>4. \A k \in Key : HasPrefix(k, p) => \E c \in Collections : k = KeyOf(kin, c)
    BY UnderPrefixes
  <1>5. ASSUME NEW k \in Key, HasPrefix(k, p)
        PROVE  store[k] # Tombstone
    <2>1. PICK c \in Collections : k = KeyOf(kin, c)
      BY <1>4, <1>5
    <2>2. Sound(kin, c, store[k], life[c])
      BY <1>3, <1>5, <2>1 DEF LiveInv, ValuesSound
    <2> QED BY <1>3, <2>2 DEF Sound
  <1>6. ~Skips(p)
    BY <1>5, RowsListed
  <1>7. PICK v \in Key : /\ HasPrefix(v, p) /\ store[v] # Absent /\ store[v] # Tombstone
                         /\ m.key = v /\ m.obj = store[v]
    BY <1>6, RowsListed
  <1>8. PICK c \in Collections : v = KeyOf(kin, c)
    BY <1>4, <1>7
  <1>9. Sound(kin, c, store[v], life[c])
    BY <1>3, <1>7, <1>8 DEF LiveInv, ValuesSound
  <1>10. m.obj.coll = c /\ (kin = "segment" => ~Young(c))
    BY <1>7, <1>9 DEF Sound, Young
  <1> QED BY <1>7, <1>8, <1>10

LEMMA ChannelPlan ==
    ASSUME LiveInv, cmd.name = "channel", pc \in {"watches", "checkpoints"},
           NEW kin, NEW p,
           \/ kin = "watch" /\ p = <<"channelwatch", Empty>>
           \/ kin = "checkpoint" /\ p = <<"datacoord-meta", "channel-cp", Empty>>
    PROVE  IsSeq(ChannelTargets(p)) /\ \A o \in Elements(ChannelTargets(p)) : Planned(o)
  <1> DEFINE all == ListObj2Models(p)
             valid == {Channel[seen[i].obj.coll] : i \in DOMAIN seen}
             S == {m \in Elements(all) : /\ cmd.arg \in {Empty, Channel[m.obj.coll]}
                                         /\ Channel[m.obj.coll] \notin valid \/ cmd.mode = "force"}
             rows == Filter(all, S)
  <1>1. ChannelTargets(p) = [i \in DOMAIN rows |-> RemoveOp(rows[i].key, 0)]
    BY DEF ChannelTargets, Where, MapSeq
  <1>2. IsSeq(all)
    BY RowsListed
  <1>3. kin \in AllKinds
    BY DEF AllKinds, DataKinds
  <1>7. \A m \in Elements(all) : m.obj.coll \in Collections /\ m.key = KeyOf(kin, m.obj.coll)
    BY DataRow
  <1> HIDE DEF all
  <1>8. IsSeq(rows) /\ Elements(rows) = Elements(all) \cap S
    BY <1>2, FilterIsSeq
  <1>9. ASSUME NEW m \in Elements(rows)
        PROVE  Planned(RemoveOp(m.key, 0))
    <2>1. m \in Elements(all) /\ (Channel[m.obj.coll] \notin valid \/ cmd.mode = "force")
      BY <1>8, <1>9
    <2> SUFFICES ASSUME NEW c \in Collections, NEW kind \in AllKinds, Keep(c, kind),
                        m.key = KeyOf(kind, c)
                 PROVE  FALSE
      BY PlannedRemoval
    <2>2. c \in stable /\ ~Forced
      BY DEF Keep
    <2>3. m.obj.coll = c
      BY <1>3, <1>7, <2>1, KeysApart
    <2>4. PICK n \in Elements(seen) : n.obj.coll = c
      BY <2>2 DEF LiveInv, StableSeen, Found
    <2>5. Channel[c] \in valid
      BY <2>4 DEF Elements
    <2> QED BY <2>1, <2>2, <2>3, <2>5 DEF Forced
  <1> HIDE DEF rows
  <1> DEFINE ops == ChannelTargets(p)
             P == {o \in Elements(ops) : Planned(o)}
  <1>10. ops = [i \in DOMAIN rows |-> ops[i]]
    BY <1>1
  <1>11. \A i \in DOMAIN rows : Planned(ops[i])
    BY <1>1, <1>9 DEF Elements
  <1> HIDE DEF ops, S, valid
  <1>12. \A i \in DOMAIN rows : ops[i] \in P
    BY <1>10, <1>11 DEF Elements
  <1>13. IsSeq(ops) /\ Elements(ops) \subseteq P
    BY <1>8, <1>10, <1>12, MappedOps
  <1> QED BY <1>13 DEF ops

LEMMA ReadWatchesLive ==
    ASSUME LiveInv, ReadWatches
    PROVE  LiveInv'
  <1> DEFINE p == <<"channelwatch", Empty>>
  <1>1. /\ pc = "watches" /\ pc' = "checkpoints" /\ todo' = ChannelTargets(p)
        /\ UNCHANGED <<cmd, seen, listed, group, cursor, resume, stable>> /\ Quiet
    BY DEF ReadWatches, ReadOnly, Quiet, milvusVars
  <1>2. cmd.name = "channel"
    BY <1>1 DEF LiveInv, Places, CommandsAt
  <1>3. IsSeq(todo') /\ \A o \in Elements(todo') : Planned(o)
    BY <1>1, <1>2, ChannelPlan
  <1> HIDE DEF p
  <1>4. PlanSound'
    BY <1>1, <1>3, QuietCalm, CalmPlanned, Zenon DEF PlanSound
  <1>5. SeenSound' /\ ListedSound'
    BY <1>1, SeenStays, ListedStays
  <1>6. Places'
    BY <1>1, <1>2 DEF LiveInv, Places, CommandsAt
  <1>7. StableSeen'
    BY <1>1 DEF LiveInv, StableSeen, Forced, Found
  <1>8. DropsDropping' /\ GroupSound'
    BY <1>1, <1>2 DEF DropsDropping, GroupSound
  <1>9. (cursor \in [prefix : Nat \ {0}, from : Nat])'
    BY <1>1 DEF LiveInv
  <1>10. CommandStep
    BY Zenon DEF CommandStep
  <1> QED BY <1>1, <1>4, <1>5, <1>6, <1>7, <1>8, <1>9, <1>10, QuietLive

LEMMA ReadCheckpointsLive ==
    ASSUME LiveInv, ReadCheckpoints
    PROVE  LiveInv'
  <1> DEFINE p == <<"datacoord-meta", "channel-cp", Empty>>
             ops == todo \o ChannelTargets(p)
  <1>1. /\ pc = "checkpoints" /\ Decide(ops, "done")
        /\ UNCHANGED <<cmd, seen, listed, group, cursor, stable>> /\ Quiet
    BY Zenon DEF ReadCheckpoints, ReadOnly, Quiet, milvusVars
  <1>2. cmd.name = "channel"
    BY <1>1 DEF LiveInv, Places, CommandsAt
  <1>3. IsSeq(ChannelTargets(p)) /\ \A o \in Elements(ChannelTargets(p)) : Planned(o)
    BY <1>1, <1>2, ChannelPlan
  <1>4. IsSeq(todo) /\ \A o \in Elements(todo) : Planned(o)
    BY DEF LiveInv, PlanSound
  <1> HIDE DEF p
  <1>5. IsSeq(ops) /\ Elements(ops) = Elements(todo) \cup Elements(ChannelTargets(p))
    BY <1>3, <1>4, ConcatElements
  <1> HIDE DEF ops
  <1>6. \A o \in Elements(ops) : Planned(o)
    BY <1>3, <1>4, <1>5, Zenon
  <1>7. PlanSound' /\ pc' = "exec" /\ resume' = "done"
    BY <1>1, <1>5, <1>6, DecidedPlan, Zenon
  <1>8. SeenSound' /\ ListedSound'
    BY <1>1, SeenStays, ListedStays
  <1>9. cmd.name \in CommandsAt(resume')
    BY <1>7, KnownCommand DEF CommandsAt
  <1>10. Places' /\ GroupSound'
    BY <1>1, <1>7, <1>9, AtExec
  <1>11. StableSeen'
    BY <1>1, <1>7 DEF LiveInv, StableSeen, Forced, Found
  <1>12. DropsDropping'
    BY <1>1, <1>2 DEF DropsDropping
  <1>13. (cursor \in [prefix : Nat \ {0}, from : Nat])'
    BY <1>1 DEF LiveInv
  <1>14. CommandStep
    BY Zenon DEF CommandStep
  <1> QED BY <1>1, <1>7, <1>8, <1>10, <1>11, <1>12, <1>13, <1>14, QuietLive

-----------------------------------------------------------------------------
(* remove collection-drop *)

LEMMA TwoElements ==
    ASSUME NEW a, NEW b
    PROVE  IsSeq(<<a, b>>) /\ Elements(<<a, b>>) = {a, b}
  BY DEF IsSeq, Elements

LEMMA SixElements ==
    ASSUME NEW a, NEW b, NEW c, NEW d, NEW e, NEW f
    PROVE  IsSeq(<<a, b, c, d, e, f>>) /\ Elements(<<a, b, c, d, e, f>>) = {a, b, c, d, e, f}
  <1>1. Elements(<<a, b, c, d, e, f>>) = {a, b, c, d, e, f}
    BY DEF Elements
  <1>2. <<a, b, c, d, e, f>> \in Seq({a, b, c, d, e, f})
    OBVIOUS
  <1> QED BY <1>1, <1>2 DEF IsSeq

LEMMA CleanPlan ==
    ASSUME LiveInv, cmd.name = "collection-drop", NEW m, Row(m), Doomed(m.obj.coll)
    PROVE  IsSeq(CleanCollectionMeta(m)) /\ \A o \in Elements(CleanCollectionMeta(m)) : Planned(o)
  <1> DEFINE d == m.obj.coll
             prefix(p) == Op("remove-prefix", p, Absent, 0)
             all == ListObj2Models(<<"channelwatch", Empty>>)
             S == {w \in Elements(all) : w.obj.coll = d}
             rows == Filter(all, S)
             first == <<prefix(<<"root-coord", "fields", d, Empty>>),
                        prefix(<<"snapshots", "root-coord", "fields", d, Empty>>),
                        prefix(<<"root-coord", "partitions", d, Empty>>),
                        prefix(<<"snapshots", "root-coord", "partitions", d, Empty>>),
                        prefix(<<"snapshots">> \o Append(CollectionPath(d), d)),
                        RemoveOp(m.key, 0)>>
             middle == [i \in DOMAIN rows |-> RemoveOp(rows[i].key, 0)]
             last == <<RemoveOp(KeyOf("checkpoint", d), 0), RemoveOp(KeyOf("removal", d), 0)>>
  <1>1. CleanCollectionMeta(m) = first \o middle \o last
    BY Zenon DEF CleanCollectionMeta, Where, MapSeq
  <1>2. d \in Collections
    BY DEF Row
  <1>3. \A c \in Collections, kind \in AllKinds : Keep(c, kind) => c # d /\ ~(misread /\ kind = "collection")
    BY DEF Keep
  <1>4. ASSUME NEW p \in CleanedPrefixes(d)
        PROVE  Planned(prefix(p))
    <2>1. prefix(p).op = "remove-prefix" /\ prefix(p).key = p /\ prefix(p).skip = 0
      BY OpFields
    <2>2. \A c \in Collections, kind \in AllKinds : HasPrefix(KeyOf(kind, c), Slashed(p)) => c = d
      BY <1>2, <1>4, CleanedKeys
    <2> HIDE DEF d
    <2> QED BY <1>3, <2>1, <2>2 DEF Planned, Hits
  <1>5. \A kind \in AllKinds : Planned(RemoveOp(KeyOf(kind, d), 0))
    <2> TAKE kind \in AllKinds
    <2>1. \A c \in Collections, kin \in AllKinds : Keep(c, kin) => KeyOf(kind, d) # KeyOf(kin, c)
      BY <1>2, <1>3, KeysApart
    <2> QED BY <2>1, PlannedRemoval
  <1>6. Planned(RemoveOp(m.key, 0))
    <2>1. PICK e \in Collections : m.key = KeyOf("collection", e) /\ (misread \/ e = d)
      BY Zenon DEF Row
    <2>2. "collection" \in AllKinds
      BY DEF AllKinds, RootKinds
    <2>3. ASSUME NEW c \in Collections, NEW kin \in AllKinds, Keep(c, kin), m.key = KeyOf(kin, c)
          PROVE  FALSE
      <3>1. kin = "collection" /\ c = e
        BY <2>1, <2>2, <2>3, KeysApart
      <3> QED BY <1>3, <2>1, <2>3, <3>1, Zenon
    <2> QED BY <2>3, PlannedRemoval
  <1>7. IsSeq(all) /\ \A w \in Elements(all) : w.key = KeyOf("watch", w.obj.coll)
    BY RowsListed, DataRow
  <1> HIDE DEF all
  <1>8. IsSeq(rows) /\ Elements(rows) = Elements(all) \cap S
    BY <1>7, FilterIsSeq
  <1>9. \A w \in Elements(rows) : w.key = KeyOf("watch", d)
    BY <1>7, <1>8
  <1> HIDE DEF rows, d
  <1>10. \A i \in DOMAIN rows : Planned(middle[i])
    BY <1>5, <1>9 DEF Elements, AllKinds, DataKinds
  <1>11. middle = [i \in DOMAIN rows |-> middle[i]]
    OBVIOUS
  <1> HIDE DEF middle
  <1>12. IsSeq(middle) /\ \A o \in Elements(middle) : Planned(o)
    <2> DEFINE P == {o \in Elements(middle) : Planned(o)}
    <2>1. \A i \in DOMAIN rows : middle[i] \in P
      BY <1>10, <1>11 DEF Elements
    <2>2. IsSeq(middle) /\ Elements(middle) \subseteq P
      BY <1>8, <1>11, <2>1, MappedOps
    <2> QED BY <2>2
  <1>13. IsSeq(first) /\ \A o \in Elements(first) : Planned(o)
    <2>1. /\ Planned(prefix(<<"root-coord", "fields", d, Empty>>))
          /\ Planned(prefix(<<"snapshots", "root-coord", "fields", d, Empty>>))
          /\ Planned(prefix(<<"root-coord", "partitions", d, Empty>>))
          /\ Planned(prefix(<<"snapshots", "root-coord", "partitions", d, Empty>>))
          /\ Planned(prefix(<<"snapshots">> \o Append(CollectionPath(d), d)))
      <3>1. \A p \in CleanedPrefixes(d) : Planned(prefix(p))
        BY <1>4
      <3> HIDE DEF prefix
      <3> QED BY <3>1, Zenon DEF CleanedPrefixes
    <2> DEFINE v == prefix(<<"root-coord", "fields", d, Empty>>)
               w == prefix(<<"snapshots", "root-coord", "fields", d, Empty>>)
               x == prefix(<<"root-coord", "partitions", d, Empty>>)
               y == prefix(<<"snapshots", "root-coord", "partitions", d, Empty>>)
               z == prefix(<<"snapshots">> \o Append(CollectionPath(d), d))
               own == RemoveOp(m.key, 0)
    <2>2. first = <<v, w, x, y, z, own>>
      BY Zenon
    <2>3. Planned(v) /\ Planned(w) /\ Planned(x) /\ Planned(y) /\ Planned(z) /\ Planned(own)
      BY <1>6, <2>1
    <2> HIDE DEF v, w, x, y, z, own, first
    <2>4. IsSeq(<<v, w, x, y, z, own>>) /\ Elements(<<v, w, x, y, z, own>>) = {v, w, x, y, z, own}
      BY SixElements
    <2> QED BY <2>2, <2>3, <2>4
  <1>14. IsSeq(last) /\ \A o \in Elements(last) : Planned(o)
    <2>1. /\ Planned(RemoveOp(KeyOf("checkpoint", d), 0))
          /\ Planned(RemoveOp(KeyOf("removal", d), 0))
      BY <1>5 DEF AllKinds, DataKinds
    <2>2. IsSeq(last)
          /\ Elements(last) = {RemoveOp(KeyOf("checkpoint", d), 0), RemoveOp(KeyOf("removal", d), 0)}
      BY TwoElements, Zenon
    <2> QED BY <2>1, <2>2, Zenon
  <1> HIDE DEF first, last
  <1>15. IsSeq(first \o middle) /\ Elements(first \o middle) = Elements(first) \cup Elements(middle)
    BY <1>12, <1>13, ConcatElements
  <1> DEFINE start == first \o middle
  <1>16. IsSeq(start) /\ \A o \in Elements(start) : Planned(o)
    BY <1>12, <1>13, <1>15, Zenon
  <1>17. CleanCollectionMeta(m) = start \o last
    BY <1>1
  <1> HIDE DEF start
  <1>18. IsSeq(start \o last) /\ Elements(start \o last) = Elements(start) \cup Elements(last)
    BY <1>14, <1>16, ConcatElements
  <1> QED BY <1>14, <1>16, <1>17, <1>18, Zenon

LEMMA CleanCollectionLive ==
    ASSUME LiveInv, CleanCollection
    PROVE  LiveInv'
  <1>1. pc = "clean" /\ UNCHANGED <<cmd, listed, group, cursor, stable>> /\ Quiet
    BY DEF CleanCollection, ReadOnly, Quiet, milvusVars
  <1>2. cmd.name = "collection-drop"
    BY <1>1 DEF LiveInv, Places, CommandsAt
  <1>3. CommandStep
    BY Zenon DEF CommandStep
  <1>4. CASE seen = <<>>
    <2>1. pc' = "done" /\ UNCHANGED <<todo, resume, seen>>
      BY <1>4 DEF CleanCollection
    <2> QED BY <1>1, <1>3, <2>1, StopsLive
  <1>5. CASE seen # <<>>
    <2> DEFINE ops == CleanCollectionMeta(Head(seen))
    <2>1. Decide(ops, "clean") /\ seen' = Tail(seen)
      BY <1>5, Zenon DEF CleanCollection
    <2>2. /\ IsSeq(Tail(seen)) /\ Elements(Tail(seen)) \subseteq Elements(seen)
          /\ Head(seen) \in Elements(seen)
      BY <1>5, TailElements DEF LiveInv, SeenSound
    <2> DEFINE m == Head(seen)
    <2>3. Row(m) /\ m.obj.state = "dropping"
      BY <1>1, <1>2, <2>2 DEF LiveInv, SeenSound, DropsDropping
    <2> HIDE DEF m
    <2>4. Doomed(m.obj.coll)
      BY <2>3 DEF Row
    <2>5. IsSeq(CleanCollectionMeta(m)) /\ \A o \in Elements(CleanCollectionMeta(m)) : Planned(o)
      BY <1>2, <2>3, <2>4, CleanPlan
    <2>6. IsSeq(ops) /\ \A o \in Elements(ops) : Planned(o)
      BY <2>5 DEF m
    <2> HIDE DEF ops
    <2>7. PlanSound' /\ pc' = "exec" /\ resume' = "clean"
      BY <1>1, <2>1, <2>6, DecidedPlan, Zenon
    <2>8. SeenSound'
      <3>1. \A n \in Elements(seen) : Row(n)'
        BY <1>1, QuietCalm, CalmRow, Zenon DEF LiveInv, SeenSound
      <3> QED BY <2>1, <2>2, <3>1, Zenon DEF SeenSound
    <2>9. ListedSound'
      BY <1>1, ListedStays
    <2>10. cmd.name \in CommandsAt(resume')
      BY <1>2, <2>7 DEF CommandsAt
    <2>11. Places' /\ GroupSound'
      BY <1>1, <2>7, <2>10, AtExec
    <2>12. StableSeen'
      BY <1>1, <1>2 DEF StableSeen
    <2>13. DropsDropping'
      BY <1>1, <1>2, <2>1, <2>2 DEF LiveInv, DropsDropping
    <2>14. (cursor \in [prefix : Nat \ {0}, from : Nat])'
      BY <1>1 DEF LiveInv
    <2> QED BY <1>1, <1>3, <2>7, <2>8, <2>9, <2>11, <2>12, <2>13, <2>14, QuietLive
  <1> QED BY <1>4, <1>5

-----------------------------------------------------------------------------
(* The walks. *)

LEMMA PageKeys ==
    ASSUME NEW p, NEW from \in Nat, NEW page, page = Page(p, from, PageSize)
    PROVE  /\ IsSeq(page) /\ \A k \in Elements(page) : k \in Key /\ HasPrefix(k, Join(p))
           /\ Len(WalkRest(p, from)) > Len(page) => page[Len(page)] \in Key
  <1> DEFINE part == SubSeq(KeyOrder, from + 1, Len(KeyOrder))
             S == {k \in Elements(part) : store[k] # Absent /\ HasPrefix(k, Join(p))}
             rest == Filter(part, S)
             n == IF Len(rest) < PageSize THEN Len(rest) ELSE PageSize
  <1>1. IsSeq(KeyOrder) /\ Elements(KeyOrder) = Key
    BY KeyOrderAssumption, SeqElements DEF Elements, Key
  <1>2. IsSeq(part) /\ Elements(part) \subseteq Key
    <2>1. Len(KeyOrder) \in Nat
      BY <1>1, IsSeqFacts
    <2> DEFINE len == Len(KeyOrder)
               begin == from + 1
    <2>2. begin \in Nat \ {0} /\ len \in Nat /\ len <= Len(KeyOrder)
      BY <2>1
    <2> HIDE DEF len, begin
    <2>3. IsSeq(SubSeq(KeyOrder, begin, len)) /\ Elements(SubSeq(KeyOrder, begin, len)) \subseteq Key
      BY <1>1, <2>2, SubSeqElements
    <2> QED BY <2>3 DEF len, begin
  <1> HIDE DEF part
  <1>3. IsSeq(rest) /\ Elements(rest) = Elements(part) \cap S
    BY <1>2, FilterIsSeq
  <1>4. WalkRest(p, from) = rest
    BY DEF WalkRest, Where, part
  <1>5. page = SubSeq(rest, 1, n)
    BY <1>4 DEF Page
  <1> HIDE DEF rest
  <1>6. Len(rest) \in Nat /\ n \in Nat /\ n <= Len(rest) /\ (Len(rest) > 0 => n > 0)
    BY <1>3, IsSeqFacts, PageSizeAssumption
  <1> HIDE DEF n
  <1>7. IsSeq(page) /\ Elements(page) \subseteq Elements(rest)
    BY <1>3, <1>5, <1>6, SubSeqElements
  <1>8. Len(page) = n
    <2>1. rest \in Seq(Elements(rest))
      BY <1>3 DEF IsSeq
    <2> QED BY <1>5, <1>6, <2>1
  <1>9. Len(rest) > Len(page) => page[Len(page)] \in Elements(page)
    BY <1>6, <1>7, <1>8, IsSeqFacts
  <1> QED BY <1>2, <1>3, <1>4, <1>7, <1>9

LEMMA FourElements ==
    ASSUME NEW a, NEW b, NEW c, NEW d
    PROVE  IsSeq(<<a, b, c, d>>) /\ Elements(<<a, b, c, d>>) = {a, b, c, d}
  <1>1. Elements(<<a, b, c, d>>) = {a, b, c, d}
    BY DEF Elements
  <1>2. <<a, b, c, d>> \in Seq({a, b, c, d})
    OBVIOUS
  <1> QED BY <1>1, <1>2 DEF IsSeq

\* A command with nothing to keep.
LEMMA PlannedFree ==
    ASSUME cmd.name \notin {"channel", "collection-meta-leaked", "collection-drop",
                            "segment-orphan"},
           NEW o, o.skip \in Nat,
           \/ o.op \in {"remove", "remove-prefix"}
           \/ /\ o.op = "save" /\ cmd.name = "binlog"
              /\ \E c \in Collections : o.key = KeyOf("binlog", c) \/ o.key = BackupKey(c)
    PROVE  Planned(o)
  <1>1. \A c, kind : ~Keep(c, kind)
    BY DEF Keep
  <1> QED BY <1>1, Zenon DEF Planned

SegmentPath(x, c) == <<"datacoord-meta", x, c, "p", Segment[c]>>

LEMMA SegmentOps ==
    ASSUME NEW m, NEW first \in Nat, NEW last \in Nat,
           NEW ops, ops = RemoveSegment(m, first, last),
           \A x \in {"s", "binlog", "deltalog", "statslog"}, n \in Nat :
               Planned(RemoveOp(SegmentPath(x, m.obj.coll), n))
    PROVE  IsSeq(ops) /\ \A o \in Elements(ops) : Planned(o)
  <1> DEFINE c == m.obj.coll
             w == RemoveOp(SegmentPath("s", c), first)
             x == RemoveOp(SegmentPath("binlog", c), 0)
             y == RemoveOp(SegmentPath("deltalog", c), 0)
             z == RemoveOp(SegmentPath("statslog", c), last)
  <1>1. ops = <<w, x, y, z>>
    BY DEF RemoveSegment, SegmentPath
  <1>2. Planned(w) /\ Planned(x) /\ Planned(y) /\ Planned(z)
    OBVIOUS
  <1> HIDE DEF w, x, y, z
  <1>3. IsSeq(<<w, x, y, z>>) /\ Elements(<<w, x, y, z>>) = {w, x, y, z}
    BY FourElements
  <1> QED BY <1>1, <1>2, <1>3

LEMMA FlattenPlan ==
    ASSUME NEW s, IsSeq(s), NEW ss, ss = [i \in DOMAIN s |-> ss[i]],
           \A i \in DOMAIN s : IsSeq(ss[i]) /\ \A o \in Elements(ss[i]) : Planned(o)
    PROVE  IsSeq(Flatten(ss)) /\ \A o \in Elements(Flatten(ss)) : Planned(o)
  <1>1. IsSeq(ss)
    BY MapElements, Zenon
  <1>2. \A t \in Elements(ss) : IsSeq(t) /\ \A o \in Elements(t) : Planned(o)
    <2> SUFFICES ASSUME NEW t \in Elements(ss)
                 PROVE  IsSeq(t) /\ \A o \in Elements(t) : Planned(o)
      OBVIOUS
    <2>1. PICK i \in DOMAIN s : t = ss[i]
      BY DEF Elements
    <2> QED BY <2>1, Zenon
  <1>3. /\ IsSeq(Flatten(ss))
        /\ Elements(Flatten(ss)) \subseteq UNION {Elements(t) : t \in Elements(ss)}
    BY <1>1, <1>2, FlattenElements, Zenon
  <1> QED BY <1>2, <1>3

LEMMA WalkPlan ==
    ASSUME LiveInv, pc = "walk", cursor.prefix <= Len(WalkPrefixes),
           NEW p, p = WalkPrefixes[cursor.prefix],
           NEW page, page = Page(p, cursor.from, PageSize)
    PROVE  IsSeq(PageOps(page, p)) /\ \A o \in Elements(PageOps(page, p)) : Planned(o)
  <1>1. cursor.prefix \in Nat \ {0} /\ cursor.from \in Nat
    BY DEF LiveInv
  <1>2. IsSeq(page) /\ \A k \in Elements(page) : k \in Key /\ HasPrefix(k, Join(p))
    BY <1>1, PageKeys
  <1>3. cmd.name \in {"collection-meta-leaked", "segment"}
    BY DEF LiveInv, Places, CommandsAt
  <1>4. CASE cmd.name = "segment"
    <2> DEFINE S == {k \in Elements(page) : /\ store[k] # Tombstone
                                            /\ store[k].kind = "segment"
                                            /\ cmd.arg \in {Empty, store[k].coll}}
               rows == Filter(page, S)
               ss == [i \in DOMAIN rows |-> RemoveSegment([obj |-> store[rows[i]]], Abort, Abort)]
    <2>1. PageOps(page, p) = Flatten(ss)
      BY <1>4, Zenon DEF PageOps, Where, MapSeq
    <2>2. IsSeq(rows)
      BY <1>2, FilterIsSeq
    <2> HIDE DEF rows
    <2>3. \A x : \A n \in Nat : Planned(RemoveOp(x, n))
      BY <1>4, OpFields, PlannedFree
    <2>4. ASSUME NEW i \in DOMAIN rows
          PROVE  IsSeq(ss[i]) /\ \A o \in Elements(ss[i]) : Planned(o)
      <3> DEFINE m == [obj |-> store[rows[i]]]
      <3>1. ss[i] = RemoveSegment(m, Abort, Abort)
        BY <2>4
      <3> DEFINE ops == ss[i]
      <3>2. \A x \in {"s", "binlog", "deltalog", "statslog"}, n \in Nat :
                Planned(RemoveOp(SegmentPath(x, m.obj.coll), n))
        BY <2>3
      <3> HIDE DEF ss, m
      <3>3. ops = RemoveSegment(m, Abort, Abort)
        BY <3>1
      <3> HIDE DEF ops
      <3>4. IsSeq(ops) /\ \A o \in Elements(ops) : Planned(o)
        BY <3>2, <3>3, AbortNat, SegmentOps, Zenon
      <3> QED BY <3>4 DEF ops
    <2>5. ss = [i \in DOMAIN rows |-> ss[i]]
      OBVIOUS
    <2> HIDE DEF ss
    <2> QED BY <2>1, <2>2, <2>4, <2>5, FlattenPlan
  <1>5. CASE cmd.name = "collection-meta-leaked"
    <2> DEFINE S == {k \in Elements(page) : Leaked(k, p)}
               rows == Filter(page, S)
               ops == [i \in DOMAIN rows |-> RemoveOp(rows[i], Abort)]
    <2>1. PageOps(page, p) = ops
      BY <1>5 DEF PageOps, Where, MapSeq
    <2>2. IsSeq(rows) /\ Elements(rows) = Elements(page) \cap S
      BY <1>2, FilterIsSeq
    <2>3. ASSUME NEW k \in Elements(rows)
          PROVE  Planned(RemoveOp(k, Abort))
      <3>1. k \in Key /\ HasPrefix(k, Join(p)) /\ Leaked(k, p)
        BY <1>2, <2>2, <2>3
      <3> SUFFICES ASSUME NEW c \in Collections, NEW kind \in AllKinds, Keep(c, kind),
                          k = KeyOf(kind, c)
                   PROVE  FALSE
        BY AbortNat, PlannedRemoval
      <3>2. c \in stable /\ ~Forced /\ kind # "stats-task"
        BY <1>5 DEF Keep
      <3>3. PICK n \in Elements(seen) : n.obj.coll = c
        BY <1>5, <3>2 DEF LiveInv, StableSeen, Found
      <3>4. PICK i \in DOMAIN seen : seen[i].obj.coll = c
        BY <3>3 DEF Elements
      <3>5. cursor.prefix \in 1 .. Len(WalkPrefixes)
        <4>1. Len(WalkPrefixes) \in Nat
          BY <1>5 DEF WalkPrefixes
        <4> QED BY <1>1, <4>1
      <3>6. PICK j \in Len(p) + 1 .. Len(k) : k[j] = c
        BY <1>5, <3>1, <3>2, <3>5, WalkedKeys
      <3> QED BY <3>1, <3>4, <3>6 DEF Leaked
    <2> HIDE DEF rows
    <2>4. ops = [i \in DOMAIN rows |-> ops[i]]
      OBVIOUS
    <2>5. \A i \in DOMAIN rows : Planned(ops[i])
      BY <2>3 DEF Elements
    <2> HIDE DEF ops, S
    <2> DEFINE P == {o \in Elements(ops) : Planned(o)}
    <2>6. \A i \in DOMAIN rows : ops[i] \in P
      BY <2>4, <2>5 DEF Elements
    <2>7. IsSeq(ops) /\ Elements(ops) \subseteq P
      BY <2>2, <2>4, <2>6, MappedOps
    <2> QED BY <2>1, <2>7
  <1> QED BY <1>3, <1>4, <1>5

\* What is left to show of a call that decides.
LEMMA DecidedLive ==
    ASSUME LiveInv, CommandStep, Quiet, NEW ops, NEW next, Decide(ops, next), IsSeq(ops),
           \A o \in Elements(ops) : Planned(o), cmd.name \in CommandsAt(next),
           (cursor \in [prefix : Nat \ {0}, from : Nat])',
           SeenSound', DropsDropping', StableSeen', ListedSound'
    PROVE  LiveInv'
  <1>1. PlanSound' /\ pc' = "exec" /\ resume' = next
    BY DecidedPlan, Zenon
  <1>2. cmd' = cmd
    BY DEF Quiet
  <1>3. Places' /\ GroupSound'
    BY <1>1, <1>2, AtExec, Zenon
  <1> QED BY <1>1, <1>3, QuietLive

LEMMA WalkPageLive ==
    ASSUME LiveInv, WalkPage
    PROVE  LiveInv'
  <1>1. pc = "walk" /\ UNCHANGED <<cmd, seen, listed, group, stable>> /\ Quiet
    BY DEF WalkPage, ReadOnly, Quiet, milvusVars
  <1>2. cmd.name \in {"collection-meta-leaked", "segment"}
    BY <1>1 DEF LiveInv, Places, CommandsAt
  <1>3. CommandStep
    BY Zenon DEF CommandStep
  <1>4. CASE cursor.prefix > Len(WalkPrefixes)
    <2>1. pc' = "done" /\ UNCHANGED <<todo, resume, cursor>>
      BY <1>4 DEF WalkPage
    <2> QED BY <1>1, <1>3, <2>1, StopsLive
  <1>5. CASE ~(cursor.prefix > Len(WalkPrefixes))
    <2> DEFINE p == WalkPrefixes[cursor.prefix]
               page == Page(p, cursor.from, PageSize)
               more == Len(WalkRest(p, cursor.from)) > Len(page)
               ops == PageOps(page, p)
    <2>1. /\ Decide(ops, "walk")
          /\ cursor' = IF more THEN [cursor EXCEPT !.from = Position(page[Len(page)])]
                       ELSE [prefix |-> cursor.prefix + 1, from |-> 0]
      BY <1>5, Zenon DEF WalkPage
    <2>2. cursor \in [prefix : Nat \ {0}, from : Nat]
      BY DEF LiveInv
    <2>3. cursor.prefix <= Len(WalkPrefixes)
      <3>1. Len(WalkPrefixes) \in Nat
        BY DEF WalkPrefixes
      <3> QED BY <1>5, <2>2, <3>1
    <2>4. IsSeq(ops) /\ \A o \in Elements(ops) : Planned(o)
      <3> HIDE DEF p, page, ops
      <3> QED BY <1>1, <2>3, WalkPlan, Zenon DEF p, page, ops
    <2>5. more => page[Len(page)] \in Key
      <3>1. cursor.from \in Nat
        BY <2>2
      <3> HIDE DEF p, page
      <3> QED BY <3>1, PageKeys DEF page
    <2> DEFINE place == Position(page[Len(page)])
    <2>6. more => place \in Nat
      <3> DEFINE k == page[Len(page)]
      <3> SUFFICES ASSUME k \in Key PROVE Position(k) \in Nat
        BY <2>5
      <3> HIDE DEF k
      <3>1. \E i \in DOMAIN KeyOrder : KeyOrder[i] = k
        BY DEF Key
      <3>2. Position(k) \in DOMAIN KeyOrder
        BY <3>1 DEF Position
      <3> QED BY <3>2, KeyOrderAssumption
    <2> HIDE DEF p, page, ops, more
    <2>7. (cursor \in [prefix : Nat \ {0}, from : Nat])'
      <3>1. cursor' = IF more THEN [cursor EXCEPT !.from = place]
                      ELSE [prefix |-> cursor.prefix + 1, from |-> 0]
        BY <2>1
      <3> HIDE DEF place
      <3> QED BY <2>2, <2>6, <3>1
    <2>8. SeenSound' /\ ListedSound'
      BY <1>1, SeenStays, ListedStays
    <2>9. DropsDropping'
      BY <1>1, <1>2 DEF DropsDropping
    <2>10. StableSeen'
      <3>1. pc' = "exec"
        BY <2>1 DEF Decide
      <3> QED BY <1>1, <3>1 DEF LiveInv, StableSeen, Forced, Found
    <2>11. cmd.name \in CommandsAt("walk")
      BY <1>2 DEF CommandsAt
    <2> QED BY <1>1, <1>3, <2>1, <2>4, <2>7, <2>8, <2>9, <2>10, <2>11, DecidedLive, Zenon
  <1> QED BY <1>4, <1>5

-----------------------------------------------------------------------------
(* remove segment-orphan and remove dirty-importing-segment *)

LEMMA ReadSegmentsLive ==
    ASSUME LiveInv, ReadSegments
    PROVE  LiveInv'
  <1> DEFINE all == ListObj2Models(<<"datacoord-meta", "s", Empty>>)
             S == {m \in Elements(all) : cmd.arg \in {Empty, m.obj.coll}}
  <1>1. /\ pc = "segments" /\ pc' = "groups" /\ listed' = Filter(all, S)
        /\ UNCHANGED <<cmd, seen, group, cursor, todo, resume, stable>> /\ Quiet
    BY Zenon DEF ReadSegments, ReadOnly, Quiet, milvusVars, Where
  <1>2. IsSeq(all) /\ \A m \in Elements(all) : m.obj.coll \in Collections /\ ~Young(m.obj.coll)
    BY RowsListed, DataRow
  <1> HIDE DEF all
  <1>3. IsSeq(listed') /\ Elements(listed') \subseteq Elements(all)
    BY <1>1, <1>2, FilterIsSeq
  <1>4. ListedSound'
    BY <1>1, <1>2, <1>3, StoreSame DEF ListedSound, Quiet
  <1>5. cmd.name \in {"segment-orphan", "dirty-importing-segment"}
    BY <1>1 DEF LiveInv, Places, CommandsAt
  <1>6. PlanSound' /\ SeenSound'
    BY <1>1, PlanStays, SeenStays
  <1>7. /\ cmd'.name \in CommandsAt(pc')
        /\ DropsDropping' /\ StableSeen' /\ GroupSound'
    BY <1>1, <1>5, AtGroups
  <1>8. Places'
    BY <1>1, <1>7 DEF LiveInv, Places
  <1>9. (cursor \in [prefix : Nat \ {0}, from : Nat])'
    BY <1>1 DEF LiveInv
  <1>10. CommandStep
    BY Zenon DEF CommandStep
  <1> QED BY <1>1, <1>4, <1>6, <1>7, <1>8, <1>9, <1>10, QuietLive

\* The deletions for a list of segments.
LEMMA SegmentsPlan ==
    ASSUME NEW rows, IsSeq(rows),
           \A m \in Elements(rows) : \A x \in {"s", "binlog", "deltalog", "statslog"}, n \in Nat :
               Planned(RemoveOp(SegmentPath(x, m.obj.coll), n)),
           NEW ops, ops = Flatten(MapSeq(rows, RemoveSegmentByID))
    PROVE  IsSeq(ops) /\ \A o \in Elements(ops) : Planned(o)
  <1> DEFINE ss == [i \in DOMAIN rows |-> RemoveSegmentByID(rows[i])]
  <1>1. ops = Flatten(ss)
    BY DEF MapSeq
  <1>2. ASSUME NEW i \in DOMAIN rows
        PROVE  IsSeq(ss[i]) /\ \A o \in Elements(ss[i]) : Planned(o)
    <2> DEFINE m == rows[i]
               ts == ss[i]
    <2>1. ts = RemoveSegment(m, 3, 0)
      BY <1>2 DEF RemoveSegmentByID
    <2>2. \A x \in {"s", "binlog", "deltalog", "statslog"}, n \in Nat :
              Planned(RemoveOp(SegmentPath(x, m.obj.coll), n))
      BY <1>2 DEF Elements
    <2> HIDE DEF ts, m
    <2>3. 3 \in Nat /\ 0 \in Nat
      OBVIOUS
    <2>4. IsSeq(ts) /\ \A o \in Elements(ts) : Planned(o)
      BY <2>1, <2>2, <2>3, SegmentOps, Zenon
    <2> QED BY <2>4 DEF ts
  <1>3. ss = [i \in DOMAIN rows |-> ss[i]]
    OBVIOUS
  <1> HIDE DEF ss
  <1>4. IsSeq(Flatten(ss)) /\ \A o \in Elements(Flatten(ss)) : Planned(o)
    BY <1>2, <1>3, FlattenPlan
  <1> QED BY <1>1, <1>4

\* The paths of a segment hold no key of another collection.
LEMMA SegmentPathKeys ==
    ASSUME NEW c \in Collections, NEW kind \in AllKinds, NEW d,
           NEW x \in {"s", "binlog", "deltalog", "statslog"}, SegmentPath(x, d) = KeyOf(kind, c)
    PROVE  c = d
  <1> DEFINE k == KeyOf(kind, c)
  <1>1. Len(k) = 5 /\ k[1] = "datacoord-meta" /\ k[2] = x /\ k[3] = d
    BY DEF SegmentPath
  <1>2. CASE kind = "segment"
    BY <1>1, <1>2, OtherKeys
  <1>3. CASE kind = "binlog"
    <2>1. Len(k) = 6
      BY <1>3, OtherKeys
    <2> QED BY <1>1, <2>1
  <1>4. CASE kind \in {"watch", "checkpoint", "removal", "index", "stats-task", "compaction-task",
                       "fields", "partitions", "fields-snapshot"}
    <2>1. k[1] # "datacoord-meta" \/ k[2] \in {"channel-cp", "channel-removal", "stats-task",
                                               "compaction-task"}
      BY <1>4, OtherKeys
    <2> QED BY <1>1, <2>1
  <1>5. CASE kind \in {"collection", "collection-snapshot"}
    <2>1. k[1] \in {"root-coord", "snapshots"}
      BY <1>5, CollectionKey, SnapshotKey
    <2> QED BY <1>1, <2>1
  <1> QED BY <1>2, <1>3, <1>4, <1>5 DEF AllKinds, RootKinds, DataKinds

LEMMA RemoveOrphansLive ==
    ASSUME LiveInv, RemoveOrphans
    PROVE  LiveInv'
  <1> DEFINE S == {m \in Elements(listed) : m.obj.coll # group}
             T == {m \in Elements(listed) : m.obj.coll = group}
             rows == Filter(listed, T)
             orphans == Flatten(MapSeq(rows, RemoveSegmentByID))
             ops == IF AllSeen = <<>> THEN orphans ELSE <<>>
  <1>1. /\ pc = "db-collections" /\ cmd.name = "segment-orphan"
        /\ seen' = AllSeen /\ listed' = Filter(listed, S)
        /\ UNCHANGED <<cmd, group, cursor, stable>> /\ Quiet
    BY Zenon DEF RemoveOrphans, ReadOnly, Quiet, milvusVars, NotInGroup, Where
  <1>2. Decide(ops, "groups")
    BY Zenon DEF RemoveOrphans, InGroup, Where
  <1>3. CommandStep
    BY Zenon DEF CommandStep
  <1>4. /\ IsSeq(AllSeen) /\ \A m \in Elements(AllSeen) : Row(m)'
        /\ Elements(seen) \subseteq Elements(AllSeen)
        /\ \A m \in Elements(ListObj2Models(DBCollectionMetaPrefix)) :
               Wanted(m) => m \in Elements(AllSeen)
    BY <1>1, AllSeenRows, Zenon
  <1>5. group \in Collections /\ ~Young(group)
    BY <1>1 DEF LiveInv, GroupSound
  <1>6. group \in IntactCollections => AllSeen # <<>>
    <2> SUFFICES ASSUME group \in IntactCollections
                 PROVE  \E m : m \in Elements(AllSeen)
      BY EmptyElements
    <2>1. CASE DbId[group] = "0"
      <3>1. seen # <<>> /\ IsSeq(seen)
        BY <1>1, <2>1 DEF LiveInv, GroupSound, SeenSound
      <3>2. Elements(seen) # {}
        BY <3>1, IsSeqFacts
      <3> QED BY <1>4, <3>2
    <2>2. CASE DbId[group] # "0"
      <3>1. PICK m \in Elements(ListObj2Models(DBCollectionMetaPrefix)) : m.obj.coll = group
        BY <2>2, LiveListed
      <3>2. Wanted(m)
        BY <1>1, <3>1 DEF Wanted
      <3> QED BY <1>4, <3>1, <3>2
    <2> QED BY <2>1, <2>2
  <1>7. IsSeq(rows) /\ \A m \in Elements(rows) : m.obj.coll = group
    BY FilterIsSeq DEF LiveInv, ListedSound
  <1> HIDE DEF rows
  <1>8. ASSUME AllSeen = <<>>
        PROVE  IsSeq(orphans) /\ \A o \in Elements(orphans) : Planned(o)
    <2>1. ASSUME NEW x \in {"s", "binlog", "deltalog", "statslog"}, NEW n \in Nat
          PROVE  Planned(RemoveOp(SegmentPath(x, group), n))
      <3>1. ASSUME NEW c \in Collections, NEW kind \in AllKinds, Keep(c, kind),
                   SegmentPath(x, group) = KeyOf(kind, c)
            PROVE  FALSE
        <4>1. c = group
          BY <2>1, <3>1, SegmentPathKeys
        <4>2. Young(c) \/ c \in IntactCollections
          BY <1>1, <3>1 DEF Keep
        <4> QED BY <1>5, <1>6, <1>8, <4>1, <4>2
      <3> QED BY <2>1, <3>1, PlannedRemoval
    <2>2. \A m \in Elements(rows) : \A x \in {"s", "binlog", "deltalog", "statslog"}, n \in Nat :
              Planned(RemoveOp(SegmentPath(x, m.obj.coll), n))
      BY <1>7, <2>1
    <2> HIDE DEF orphans
    <2> QED BY <1>7, <2>2, SegmentsPlan, Zenon DEF orphans
  <1> HIDE DEF orphans
  <1>9. IsSeq(ops) /\ \A o \in Elements(ops) : Planned(o)
    BY <1>8, EmptyElements
  <1> HIDE DEF ops
  <1>10. SeenSound'
    BY <1>1, <1>4, Zenon DEF SeenSound
  <1>11. ListedSound'
    BY <1>1, ListedStays
  <1>12. DropsDropping' /\ StableSeen'
    BY <1>1 DEF DropsDropping, StableSeen
  <1>13. cmd.name \in CommandsAt("groups")
    BY <1>1 DEF CommandsAt
  <1>14. (cursor \in [prefix : Nat \ {0}, from : Nat])'
    BY <1>1 DEF LiveInv
  <1> QED BY <1>1, <1>2, <1>3, <1>9, <1>10, <1>11, <1>12, <1>13, <1>14, DecidedLive, Zenon

LEMMA RemoveDirtyLive ==
    ASSUME LiveInv, NEW c \in Collections, RemoveDirty(c)
    PROVE  LiveInv'
  <1> DEFINE S == {m \in Elements(listed) : m.obj.coll # c}
             T == {m \in Elements(listed) : m.obj.coll = c}
             mine == Filter(listed, T)
             U == {m \in Elements(mine) : m.obj.state = "importing"}
             rows == Filter(mine, U)
             ops == Flatten(MapSeq(rows, RemoveSegmentByID))
  <1>1. /\ pc = "groups" /\ cmd.name = "dirty-importing-segment" /\ listed' = Filter(listed, S)
        /\ UNCHANGED <<cmd, seen, group, cursor, stable>> /\ Quiet
    BY Zenon DEF RemoveDirty, ReadOnly, Quiet, milvusVars, NotInGroup, Where
  <1>2. Decide(ops, "groups")
    BY Zenon DEF RemoveDirty, InGroup, Where
  <1>3. CommandStep
    BY Zenon DEF CommandStep
  <1>4. IsSeq(mine)
    BY FilterIsSeq DEF LiveInv, ListedSound
  <1> HIDE DEF mine
  <1>5. IsSeq(rows)
    BY <1>4, FilterIsSeq
  <1> HIDE DEF rows
  <1>6. \A k : \A n \in Nat : Planned(RemoveOp(k, n))
    BY <1>1, OpFields, PlannedFree
  <1>7. \A m \in Elements(rows) : \A x \in {"s", "binlog", "deltalog", "statslog"}, n \in Nat :
            Planned(RemoveOp(SegmentPath(x, m.obj.coll), n))
    BY <1>6, Zenon
  <1> HIDE DEF ops
  <1>8. IsSeq(ops) /\ \A o \in Elements(ops) : Planned(o)
    BY <1>5, <1>7, SegmentsPlan, Zenon DEF ops
  <1>10. SeenSound'
    BY <1>1, SeenStays
  <1>11. ListedSound'
    BY <1>1, ListedStays
  <1>12. DropsDropping' /\ StableSeen'
    BY <1>1 DEF DropsDropping, StableSeen
  <1>13. cmd.name \in CommandsAt("groups")
    BY <1>1 DEF CommandsAt
  <1>14. (cursor \in [prefix : Nat \ {0}, from : Nat])'
    BY <1>1 DEF LiveInv
  <1> QED BY <1>1, <1>2, <1>3, <1>8, <1>10, <1>11, <1>12, <1>13, <1>14, DecidedLive, Zenon

-----------------------------------------------------------------------------
(* The commands that delete what they list, and remove binlog. *)

LEMMA FreePlan ==
    ASSUME cmd.name \notin {"channel", "collection-meta-leaked", "collection-drop",
                            "segment-orphan"},
           NEW s, IsSeq(s), NEW ops, ops = [i \in DOMAIN s |-> ops[i]],
           \A i \in DOMAIN s : ops[i].op \in {"remove", "remove-prefix"} /\ ops[i].skip \in Nat
    PROVE  IsSeq(ops) /\ \A o \in Elements(ops) : Planned(o)
  <1> DEFINE P == {o \in Elements(ops) : Planned(o)}
  <1>1. \A i \in DOMAIN s : Planned(ops[i])
    BY PlannedFree
  <1>2. \A i \in DOMAIN s : ops[i] \in P
    BY <1>1 DEF Elements
  <1>3. IsSeq(ops) /\ Elements(ops) \subseteq P
    BY <1>2, MappedOps
  <1> QED BY <1>3

LEMMA ListedPlan ==
    ASSUME LiveInv, pc = "list"
    PROVE  IsSeq(ListedOps) /\ \A o \in Elements(ListedOps) : Planned(o)
  <1>1. cmd.name \in {"compaction", "stats-task", "index", "import-job", "session", "etcd-config"}
    BY DEF LiveInv, Places, CommandsAt
  <1>2. ASSUME NEW p PROVE IsSeq(Matching(p))
    <2> DEFINE all == ListObj2Models(p)
               S == {m \in Elements(all) : cmd.arg \in {Empty, m.obj.coll}}
    <2>1. Matching(p) = Filter(all, S)
      BY DEF Matching, Where
    <2>2. IsSeq(all)
      BY RowsListed
    <2> HIDE DEF all
    <2> QED BY <2>1, <2>2, FilterIsSeq
  <1>3. ASSUME NEW s, IsSeq(s)
        PROVE  /\ IsSeq(RemoveKeys(s)) /\ \A o \in Elements(RemoveKeys(s)) : Planned(o)
               /\ IsSeq(RemoveTasks(s)) /\ \A o \in Elements(RemoveTasks(s)) : Planned(o)
    <2> DEFINE x == RemoveKeys(s)
               y == RemoveTasks(s)
    <2>1. x = [i \in DOMAIN s |-> RemoveOp(s[i].key, Abort)]
      BY DEF RemoveKeys, MapSeq
    <2>2. y = [i \in DOMAIN s |-> Op("remove-prefix", s[i].key, Absent, Abort)]
      BY DEF RemoveTasks, MapSeq
    <2> HIDE DEF x, y
    <2>3. x = [i \in DOMAIN s |-> x[i]] /\ y = [i \in DOMAIN s |-> y[i]]
      BY <2>1, <2>2
    <2>4. \A i \in DOMAIN s : x[i].op \in {"remove", "remove-prefix"} /\ x[i].skip \in Nat
      BY <2>1, OpFields, AbortNat
    <2>5. \A i \in DOMAIN s : y[i].op \in {"remove", "remove-prefix"} /\ y[i].skip \in Nat
      BY <2>2, OpFields, AbortNat
    <2>6. IsSeq(x) /\ \A o \in Elements(x) : Planned(o)
      BY <1>1, <1>3, <2>3, <2>4, FreePlan
    <2>7. IsSeq(y) /\ \A o \in Elements(y) : Planned(o)
      BY <1>1, <1>3, <2>3, <2>5, FreePlan
    <2> QED BY <2>6, <2>7 DEF x, y
  <1>4. CASE cmd.name = "compaction"
    <2>1. ListedOps = RemoveTasks(Matching(<<"datacoord-meta", "compaction-task", Empty>>))
      BY <1>4 DEF ListedOps, CompactionTaskOps
    <2> QED BY <1>2, <1>3, <2>1
  <1>5. CASE cmd.name = "stats-task"
    <2>1. ListedOps = RemoveTasks(Matching(<<"datacoord-meta", "stats-task", Empty>>))
      BY <1>5 DEF ListedOps, StatsTaskOps
    <2> QED BY <1>2, <1>3, <2>1
  <1>6. CASE cmd.name = "index"
    <2>1. ListedOps = RemoveKeys(Matching(<<"field-index", Empty>>))
      BY <1>6 DEF ListedOps, IndexOps
    <2> QED BY <1>2, <1>3, <2>1
  <1>7. CASE cmd.name = "import-job"
    <2>1. \/ ListedOps = RemoveKeys(Matching(<<"datacoord-meta", "import-job", Empty>>))
          \/ ListedOps = <<>>
      BY <1>7 DEF ListedOps, ImportJobOps
    <2> QED BY <1>2, <1>3, <2>1, EmptyElements
  <1>8. CASE cmd.name = "session"
    <2> DEFINE s == LoadWithPrefix(<<"session">>)
               x == ListedOps
    <2>1. x = [i \in DOMAIN s |-> RemoveOp(s[i], Abort)]
      BY <1>8 DEF ListedOps, SessionOps, MapSeq
    <2>2. IsSeq(s)
      BY KeysListed
    <2> HIDE DEF s, x
    <2>3. x = [i \in DOMAIN s |-> x[i]]
      BY <2>1
    <2>4. \A i \in DOMAIN s : x[i].op \in {"remove", "remove-prefix"} /\ x[i].skip \in Nat
      BY <2>1, OpFields, AbortNat
    <2>5. IsSeq(x) /\ \A o \in Elements(x) : Planned(o)
      BY <1>1, <2>2, <2>3, <2>4, FreePlan
    <2> QED BY <2>5 DEF x
  <1>9. CASE cmd.name = "etcd-config"
    <2> DEFINE o == RemoveOp(ConfigKey, Abort)
    <2>1. ListedOps = <<>> \/ ListedOps = <<o>>
      BY <1>9 DEF ListedOps, EtcdConfigOps
    <2>2. Planned(o)
      BY <1>1, OpFields, AbortNat, PlannedFree
    <2> HIDE DEF o
    <2> QED BY <2>1, <2>2, EmptyElements, OneElement
  <1> QED BY <1>1, <1>4, <1>5, <1>6, <1>7, <1>8, <1>9

LEMMA ListObjectsLive ==
    ASSUME LiveInv, ListObjects
    PROVE  LiveInv'
  <1>1. /\ pc = "list" /\ Decide(ListedOps, "done")
        /\ UNCHANGED <<cmd, seen, listed, group, cursor, stable>> /\ Quiet
    BY Zenon DEF ListObjects, ReadOnly, Quiet, milvusVars
  <1>2. cmd.name \in {"compaction", "stats-task", "index", "import-job", "session", "etcd-config"}
    BY <1>1 DEF LiveInv, Places, CommandsAt
  <1>3. CommandStep
    BY Zenon DEF CommandStep
  <1>4. IsSeq(ListedOps) /\ \A o \in Elements(ListedOps) : Planned(o)
    BY <1>1, ListedPlan
  <1>5. SeenSound' /\ ListedSound'
    BY <1>1, SeenStays, ListedStays
  <1>6. DropsDropping' /\ StableSeen'
    BY <1>1, <1>2 DEF DropsDropping, StableSeen
  <1>7. cmd.name \in CommandsAt("done")
    BY KnownCommand DEF CommandsAt
  <1>8. (cursor \in [prefix : Nat \ {0}, from : Nat])'
    BY <1>1 DEF LiveInv
  <1> QED BY <1>1, <1>3, <1>4, <1>5, <1>6, <1>7, <1>8, DecidedLive, Zenon

\* The one operation that remove binlog decides on.
LEMMA BinlogDecides ==
    ASSUME LiveInv, CommandStep, Quiet, cmd.name = "binlog", NEW o, o.skip \in Nat,
           \/ o.op = "remove"
           \/ o.op = "save" /\ \E c \in Collections : o.key = KeyOf("binlog", c) \/ o.key = BackupKey(c),
           todo' \in {<<o>>, <<>>}, pc' = "exec", resume' \in {"reload", "done"},
           UNCHANGED <<seen, listed, cursor>>
    PROVE  LiveInv'
  <1>1. Planned(o)
    BY PlannedFree
  <1>2. IsSeq(todo') /\ \A x \in Elements(todo') : Planned(x)
    BY <1>1, EmptyElements, OneElement
  <1>3. PlanSound'
    BY <1>2, QuietCalm, CalmPlanned, Zenon DEF PlanSound
  <1>4. cmd' = cmd
    BY DEF Quiet
  <1>5. cmd.name \in CommandsAt(resume')
    BY DEF CommandsAt, CommandNames
  <1>6. Places' /\ GroupSound'
    BY <1>4, <1>5, AtExec
  <1>7. SeenSound' /\ ListedSound'
    BY SeenStays, ListedStays
  <1>8. DropsDropping' /\ StableSeen'
    BY <1>4 DEF DropsDropping, StableSeen
  <1>9. (cursor \in [prefix : Nat \ {0}, from : Nat])'
    BY DEF LiveInv
  <1> QED BY <1>3, <1>6, <1>7, <1>8, <1>9, QuietLive

LEMMA BinlogLive ==
    ASSUME LiveInv, BackupBinlog \/ RemoveBinlog \/ RestoreBinlog
    PROVE  LiveInv'
  <1> DEFINE k == KeyOf("binlog", cmd.arg)
  <1>1. /\ pc \in {"backup", "reload", "restore"}
        /\ UNCHANGED <<cmd, seen, listed, cursor>> /\ Quiet
    BY DEF BackupBinlog, RemoveBinlog, RestoreBinlog, ReadOnly, Quiet, milvusVars
  <1>2. cmd.name = "binlog"
    BY <1>1 DEF LiveInv, Places, CommandsAt
  <1>3. cmd.arg \in Collections
    BY <1>2, KnownCommand, InvocationsAssumption
  <1>4. CommandStep
    BY Zenon DEF CommandStep
  <1>5. CASE pc' = "done" /\ UNCHANGED <<todo, resume>>
    BY <1>1, <1>4, <1>5, StopsLive
  <1>6. CASE BackupBinlog
    <2> DEFINE o == Op("save", BackupKey(cmd.arg), Load(k), Abort)
    <2>1. \/ pc' = "done" /\ UNCHANGED <<todo, resume>>
          \/ todo' = <<o>> /\ resume' = "reload" /\ pc' = "exec"
      BY <1>6, Zenon DEF BackupBinlog
    <2>2. o.skip \in Nat /\ o.op = "save" /\ o.key = BackupKey(cmd.arg)
      BY OpFields, AbortNat
    <2> HIDE DEF o
    <2> QED BY <1>1, <1>2, <1>3, <1>4, <1>5, <2>1, <2>2, BinlogDecides
  <1>7. CASE RestoreBinlog
    <2> DEFINE o == Op("save", k, Load(BackupKey(cmd.arg)), Abort)
    <2>1. \/ pc' = "done" /\ UNCHANGED <<todo, resume>>
          \/ todo' = <<o>> /\ resume' = "done" /\ pc' = "exec"
      BY <1>7, Zenon DEF RestoreBinlog
    <2>2. o.skip \in Nat /\ o.op = "save" /\ o.key = KeyOf("binlog", cmd.arg)
      BY OpFields, AbortNat
    <2> HIDE DEF o
    <2> QED BY <1>1, <1>2, <1>3, <1>4, <1>5, <2>1, <2>2, BinlogDecides
  <1>8. CASE RemoveBinlog
    <2> DEFINE less == [Load(k) EXCEPT !.logs = @ \ {FirstLog}]
               x == RemoveOp(k, Abort)
               y == Op("save", k, less, Abort)
    <2>1. \/ pc' = "done" /\ UNCHANGED <<todo, resume>>
          \/ Decide(IF cmd.mode = "all" THEN <<x>> ELSE <<y>>, "done")
      BY <1>8, Zenon DEF RemoveBinlog
    <2>2. /\ x.skip \in Nat /\ x.op = "remove"
          /\ y.skip \in Nat /\ y.op = "save" /\ y.key = KeyOf("binlog", cmd.arg)
      <3> HIDE DEF less
      <3> QED BY OpFields, AbortNat
    <2> HIDE DEF x, y, less
    <2>3. \/ pc' = "done" /\ UNCHANGED <<todo, resume>>
          \/ todo' \in {<<x>>, <<y>>, <<>>} /\ resume' = "done" /\ pc' = "exec"
      BY <2>1, Zenon DEF Decide
    <2>4. CASE todo' \in {<<x>>, <<>>} /\ resume' = "done" /\ pc' = "exec"
      BY <1>1, <1>2, <1>4, <2>2, <2>4, BinlogDecides
    <2>5. CASE todo' = <<y>> /\ resume' = "done" /\ pc' = "exec"
      BY <1>1, <1>2, <1>3, <1>4, <2>2, <2>5, BinlogDecides
    <2> QED BY <1>5, <2>3, <2>4, <2>5
  <1> QED BY <1>6, <1>7, <1>8

-----------------------------------------------------------------------------
(* Making the deletions. *)

\* What a planned operation does to the keys of the collections.
LEMMA ApplyHits ==
    ASSUME LiveInv, NEW o, Planned(o),
           NEW c \in Collections, NEW kind \in AllKinds, KeyOf(kind, c) \in Key
    PROVE  \/ Apply(store, o)[KeyOf(kind, c)] = store[KeyOf(kind, c)]
           \/ Apply(store, o)[KeyOf(kind, c)] = Absent /\ ~Keep(c, kind)
           \/ kind = "binlog" /\ cmd.name = "binlog"
  <1> DEFINE k == KeyOf(kind, c)
  <1>1. store = [x \in Key |-> store[x]]
    BY DEF LiveInv, DryInv
  <1>2. Keep(c, kind) => ~Hits(o, k)
    BY DEF Planned
  <1>3. k \in Key /\ o.op \in {"remove", "remove-prefix", "save"}
    BY DEF Planned
  <1>4. CASE o.op = "save"
    <2>1. Apply(store, o) = Save(store, o.key, o.val)
      BY <1>4 DEF Apply
    <2>2. cmd.name = "binlog" /\ \E d \in Collections : o.key = KeyOf("binlog", d) \/ o.key = BackupKey(d)
      BY <1>4 DEF Planned
    <2>3. o.key = k => kind = "binlog"
      BY <2>2, BinlogKeys
    <2>4. k # o.key => Apply(store, o)[k] = store[k]
      BY <1>1, <1>3, <2>1, SaveKeeps
    <2> QED BY <2>2, <2>3, <2>4
  <1> HIDE DEF k
  <1>5. CASE o.op = "remove"
    <2>1. Apply(store, o) = Save(store, o.key, Absent)
      BY <1>5 DEF Apply, Remove
    <2>2. k # o.key => Apply(store, o)[k] = store[k]
      BY <1>1, <1>3, <2>1, SaveKeeps
    <2>3. k = o.key => Apply(store, o)[k] = Absent
      BY <1>1, <1>3, <2>1, SavedValue
    <2>4. k = o.key => Hits(o, k)
      BY <1>5 DEF Hits
    <2> QED BY <1>2, <2>2, <2>3, <2>4, Zenon DEF k
  <1>6. CASE o.op = "remove-prefix"
    <2>1. Apply(store, o) = RemoveWithPrefix(store, o.key)
      BY <1>6 DEF Apply
    <2>2. DOMAIN store = Key
      BY <1>1
    <2>3. Apply(store, o)[k] = IF HasPrefix(k, Slashed(o.key)) THEN Absent ELSE store[k]
      BY <1>3, <2>1, <2>2, Zenon DEF RemoveWithPrefix
    <2>4. HasPrefix(k, Slashed(o.key)) => Hits(o, k)
      BY <1>6 DEF Hits
    <2> QED BY <1>2, <2>3, <2>4, Zenon DEF k
  <1> QED BY <1>3, <1>4, <1>5, <1>6

Deletes == /\ pc = "exec" /\ todo # <<>>
           /\ store' \in {store, Apply(store, Head(todo))}
           /\ UNCHANGED <<life, stable, cmd, misread>>

LEMMA DeletesKeys ==
    ASSUME LiveInv, Deletes, NEW c \in Collections, NEW kind \in AllKinds, KeyOf(kind, c) \in Key
    PROVE  \/ store'[KeyOf(kind, c)] = store[KeyOf(kind, c)]
           \/ store'[KeyOf(kind, c)] = Absent /\ ~Keep(c, kind)
           \/ kind = "binlog" /\ cmd.name = "binlog"
  <1> DEFINE o == Head(todo)
             s == Apply(store, o)
  <1>1. o \in Elements(todo)
    BY TailElements DEF LiveInv, PlanSound, Deletes
  <1>2. Planned(o)
    BY <1>1 DEF LiveInv, PlanSound
  <1>3. store' = store \/ store' = s
    BY DEF Deletes
  <1> HIDE DEF o
  <1>4. \/ s[KeyOf(kind, c)] = store[KeyOf(kind, c)]
        \/ s[KeyOf(kind, c)] = Absent /\ ~Keep(c, kind)
        \/ kind = "binlog" /\ cmd.name = "binlog"
    BY <1>2, ApplyHits
  <1> HIDE DEF s
  <1> QED BY <1>3, <1>4

LEMMA DeletesLive ==
    ASSUME LiveInv, Deletes
    PROVE  Calm /\ (life \in [Collections -> Lives])' /\ ValuesSound' /\ StableLive'
  <1>1. UNCHANGED <<life, stable, cmd, misread>>
    BY DEF Deletes
  <1>2. LiveCollections' = LiveCollections /\ \A c : (Young(c)' <=> Young(c)) /\ (Doomed(c)' <=> Doomed(c))
    BY <1>1 DEF LiveCollections, Young, Doomed
  <1>3. "collection" \in AllKinds /\ LiveKinds \subseteq AllKinds \ {"binlog"}
    BY DEF AllKinds, RootKinds, DataKinds, LiveKinds
  <1>4. ASSUME NEW c \in Collections
        PROVE  /\ Load(KeyOf("collection", c))' \in {Load(KeyOf("collection", c)), Absent}
               /\ Keep(c, "collection") => Load(KeyOf("collection", c))' = Load(KeyOf("collection", c))
    <2> DEFINE k == KeyOf("collection", c)
    <2>1. k \in Key => \/ store'[k] = store[k]
                       \/ store'[k] = Absent /\ ~Keep(c, "collection")
      BY <1>3, DeletesKeys
    <2> HIDE DEF k
    <2>2. Load(k)' = IF k \in Key THEN store'[k] ELSE Absent
      BY DEF Load, k
    <2>3. Load(k) = IF k \in Key THEN store[k] ELSE Absent
      BY DEF Load
    <2>4. Load(k)' = Load(KeyOf("collection", c))'
      BY DEF k
    <2> QED BY <2>1, <2>2, <2>3, <2>4, Zenon DEF k
  <1>5. \A c \in Collections : (c \in IntactCollections)' => c \in IntactCollections
    BY <1>2, <1>4 DEF IntactCollections
  <1>6. Calm
    BY <1>1, <1>2, <1>5, Zenon DEF Calm
  <1>7. ValuesSound'
    <2> SUFFICES ASSUME NEW c \in Collections, NEW kind \in LiveKinds, KeyOf(kind, c) \in Key
                 PROVE  Sound(kind, c, store'[KeyOf(kind, c)], life[c])
      BY <1>1 DEF ValuesSound, Sound
    <2>1. Sound(kind, c, store[KeyOf(kind, c)], life[c])
      BY DEF LiveInv, ValuesSound
    <2>2. store'[KeyOf(kind, c)] \in {store[KeyOf(kind, c)], Absent}
      BY <1>3, DeletesKeys
    <2> QED BY <2>1, <2>2, AbsentSound
  <1>8. StableLive'
    <2>1. stable' \subseteq LiveCollections' /\ (KeepsStable' <=> KeepsStable)
      BY <1>1, <1>2 DEF LiveInv, StableLive, KeepsStable, Forced
    <2>2. ASSUME KeepsStable, NEW c \in stable
          PROVE  c \in IntactCollections'
      <3>1. c \in IntactCollections /\ c \in LiveCollections /\ c \in Collections
        BY <2>2 DEF LiveInv, StableLive, LiveCollections
      <3>2. Keep(c, "collection")
        BY <2>2, <3>1 DEF Keep, KeepsStable
      <3>3. Load(KeyOf("collection", c))' = Load(KeyOf("collection", c))
        BY <1>4, <3>1, <3>2
      <3> QED BY <1>2, <3>1, <3>3 DEF IntactCollections
    <2> QED BY <1>1, <2>1, <2>2, Zenon DEF StableLive
  <1>9. (life \in [Collections -> Lives])'
    BY <1>1 DEF LiveInv
  <1> QED BY <1>6, <1>7, <1>8, <1>9

LEMMA ExecLive ==
    ASSUME LiveInv, Exec \/ ExecFails
    PROVE  LiveInv'
  <1>1. /\ Deletes /\ UNCHANGED <<cmd, pc, seen, listed, group, cursor, stable>>
        /\ pc = "exec" /\ todo # <<>>
    BY Zenon DEF Exec, ExecFails, Deletes, historyVars
  <1>2. Calm /\ (life \in [Collections -> Lives])' /\ ValuesSound' /\ StableLive'
    BY <1>1, DeletesLive
  <1>3. DryInv'
    <2>1. CommandStep
      BY Zenon DEF CommandStep
    <2> QED BY <2>1, DryInvNext, Zenon DEF LiveInv, Next
  <1>4. IsSeq(todo') /\ Elements(todo') \subseteq Elements(todo)
    <2>1. IsSeq(todo)
      BY DEF LiveInv, PlanSound
    <2>2. CASE Exec
      <3>1. todo' = Tail(todo)
        BY <2>2 DEF Exec
      <3> QED BY <1>1, <2>1, <3>1, TailElements
    <2>3. CASE ExecFails
      <3> DEFINE m == 2 + Head(todo).skip
                 n == Len(todo)
      <3>1. todo' = SubSeq(todo, m, n)
        BY <2>3 DEF ExecFails
      <3>2. Head(todo) \in Elements(todo)
        BY <1>1, <2>1, TailElements
      <3>3. Head(todo).skip \in Nat
        BY <3>2 DEF LiveInv, PlanSound, Planned
      <3>4. m \in Nat \ {0} /\ n \in Nat /\ n <= Len(todo)
        BY <2>1, <3>3, IsSeqFacts
      <3> HIDE DEF m, n
      <3> QED BY <2>1, <3>1, <3>4, SubSeqElements
    <2> QED BY <2>2, <2>3
  <1>5. PlanSound'
    BY <1>2, <1>4, CalmPlanned, Zenon DEF LiveInv, PlanSound
  <1>6. SeenSound'
    BY <1>1, <1>2, CalmRow, Zenon DEF LiveInv, SeenSound
  <1>7. ListedSound'
    BY <1>1, <1>2 DEF LiveInv, ListedSound, Calm
  <1>8. DropsDropping' /\ StableSeen' /\ GroupSound'
    BY <1>1 DEF LiveInv, DropsDropping, StableSeen, GroupSound, Forced, Found
  <1>9. resume' \in {resume, "done"}
    BY DEF Exec, ExecFails
  <1>10. Places'
    <2>1. cmd.name \in CommandsAt("done")
      BY KnownCommand DEF CommandsAt
    <2> QED BY <1>1, <1>9, <2>1 DEF LiveInv, Places
  <1>11. (cursor \in [prefix : Nat \ {0}, from : Nat])'
    BY <1>1 DEF LiveInv
  <1> QED BY <1>2, <1>3, <1>5, <1>6, <1>7, <1>8, <1>10, <1>11, Zenon DEF LiveInv

\* Every step keeps the invariant.
LEMMA LiveNext == LiveInv /\ [Next]_vars => LiveInv'
  <1> SUFFICES ASSUME LiveInv, [Next]_vars PROVE LiveInv'
    OBVIOUS
  <1>1. CASE \E i \in Invocations : Start(i)
    BY <1>1, StartLive
  <1>2. CASE MilvusStep
    BY <1>2, MilvusKeeps
  <1>3. CASE CommandStep
    <2>1. CASE ReadFails \/ ReadCollections \/ ReadDBCollections \/ ReadWatches
               \/ ReadCheckpoints \/ CleanCollection
      BY <2>1, ReadFailsLive, ReadCollectionsLive, ReadDBCollectionsLive, ReadWatchesLive,
         ReadCheckpointsLive, CleanCollectionLive, Zenon
    <2>2. CASE WalkPage \/ WalkUnreadable \/ EndGroups \/ Resume
      BY <2>2, WalkPageLive, EndsLive, ResumeLive, Zenon
    <2>3. CASE ReadSegments \/ RemoveOrphans
               \/ \E c \in Collections : OrphanGroup(c) \/ RemoveDirty(c)
      BY <2>3, ReadSegmentsLive, RemoveOrphansLive, OrphanGroupLive, RemoveDirtyLive, Zenon
    <2>4. CASE ListObjects \/ BackupBinlog \/ RemoveBinlog \/ RestoreBinlog
      BY <2>4, ListObjectsLive, BinlogLive, Zenon
    <2>5. CASE Exec \/ ExecFails
      BY <2>5, ExecLive
    <2> QED BY <1>3, <2>1, <2>2, <2>3, <2>4, <2>5, Zenon DEF CommandStep
  <1>4. CASE UNCHANGED vars
    <2>1. /\ UNCHANGED <<store, life>> /\ cmd' = cmd /\ stable' = stable /\ misread' = misread
          /\ UNCHANGED <<pc, seen, listed, group, cursor, todo, resume>>
      BY <1>4 DEF vars, milvusVars, cmdVars, historyVars
    <2>2. Quiet
      BY <2>1, Zenon DEF Quiet
    <2>3. DryInv'
      BY DryInvNext DEF LiveInv
    <2>4. (life \in [Collections -> Lives])' /\ ValuesSound'
      BY <2>1, StoreSame DEF LiveInv
    <2>5. StableLive'
      BY <2>1, StoreSame DEF LiveInv, StableLive, KeepsStable, Forced
    <2>6. PlanSound' /\ SeenSound' /\ ListedSound'
      BY <2>1, <2>2, PlanStays, SeenStays, ListedStays
    <2>7. Places' /\ DropsDropping' /\ StableSeen'
      BY <2>1 DEF LiveInv, Places, DropsDropping, StableSeen, Forced, Found
    <2>8. GroupSound'
      BY <2>1, StoreSame DEF LiveInv, GroupSound
    <2>9. (cursor \in [prefix : Nat \ {0}, from : Nat])'
      BY <2>1 DEF LiveInv
    <2> QED BY <2>3, <2>4, <2>5, <2>6, <2>7, <2>8, <2>9, Zenon DEF LiveInv
  <1> QED BY <1>1, <1>2, <1>3, <1>4, Zenon DEF Next

\* The plan of every command that is running spares the keys it has to keep,
\* for every set of collections, keys and invocations.
THEOREM LiveInvariant == Spec => []LiveInv
  BY LiveInit, LiveNext, PTL DEF Spec

\* A key that a command removes is none it has to keep.
LEMMA RemovesNoKept ==
    ASSUME LiveInv, [Next]_vars, NEW c \in Collections, NEW kind \in AllKinds,
           Removes(KeyOf(kind, c)),
           cmd.name \in {"channel", "collection-meta-leaked", "collection-drop", "segment-orphan"}
    PROVE  ~Keep(c, kind)
  <1> DEFINE k == KeyOf(kind, c)
  <1>1. OfCommand /\ k \in Key /\ store'[k] = Absent /\ store[k] # Absent
    BY DEF Removes
  <1>2. ~MilvusStep
    BY <1>1, MilvusStepCounts DEF OfCommand, LiveInv, DryInv
  <1>3. store' # store
    BY <1>1
  <1>4. ~\E i \in Invocations : Start(i)
    BY <1>3 DEF Start, milvusVars
  <1>5. ~UNCHANGED vars
    BY <1>3 DEF vars, milvusVars
  <1>6. CommandStep
    BY <1>2, <1>4, <1>5, Zenon DEF Next
  <1>7. Exec \/ ExecFails
    BY <1>3, <1>6 DEF CommandStep, ReadFails, ReadCollections, ReadDBCollections,
       ReadWatches, ReadCheckpoints, CleanCollection, WalkPage, WalkUnreadable,
       ReadSegments, EndGroups, RemoveOrphans, OrphanGroup, RemoveDirty,
       ListObjects, BackupBinlog, RemoveBinlog, RestoreBinlog, Resume, ReadOnly,
       milvusVars
  <1>8. Deletes
    BY <1>7, Zenon DEF Exec, ExecFails, Deletes, historyVars
  <1> QED BY <1>1, <1>8, DeletesKeys

\* The commands that look for what nobody uses keep every key of a collection
\* that was live when they started and still is, and segment-orphan and
\* collection-drop those of a collection created meanwhile (LiveKept), for
\* every set of collections, keys and invocations, every page size, and any
\* interleaving with milvus and with failing calls.
THEOREM LiveCollectionsKept == Spec => LiveKept
  <1>1. LiveInv /\ [Next]_vars => [StableKept /\ NewcomersKept]_vars
    <2> SUFFICES ASSUME LiveInv, [Next]_vars PROVE StableKept /\ NewcomersKept
      OBVIOUS
    <2>1. stable \subseteq Collections /\ \A c \in LiveCollections : ~Doomed(c) /\ c \in Collections
      BY DEF LiveInv, StableLive, LiveCollections, Doomed
    <2>2. StableKept
      <3> SUFFICES ASSUME NEW c \in stable, NEW kind \in AllKinds \ {"stats-task"},
                          cmd.name \in {"channel", "collection-meta-leaked",
                                        "collection-drop", "segment-orphan"},
                          cmd.mode # "force",
                          ~(misread /\ cmd.name = "collection-drop" /\ kind = "collection"),
                          Removes(KeyOf(kind, c))
                   PROVE  FALSE
        BY Zenon DEF StableKept
      <3>1. c \in Collections /\ kind \in AllKinds /\ ~Forced
        BY <2>1 DEF Forced
      <3>2. ~Keep(c, kind)
        BY <3>1, RemovesNoKept
      <3>3. CASE cmd.name \in {"channel", "collection-meta-leaked"}
        BY <3>1, <3>2, <3>3 DEF Keep
      <3>4. CASE cmd.name = "collection-drop"
        <4>1. ~Doomed(c)
          BY <2>1 DEF LiveInv, StableLive
        <4> QED BY <3>2, <3>4, <4>1, Zenon DEF Keep
      <3>5. CASE cmd.name = "segment-orphan"
        <4>1. c \in IntactCollections
          BY <3>1, <3>5 DEF LiveInv, StableLive, KeepsStable
        <4> QED BY <3>2, <3>5, <4>1, Zenon DEF Keep
      <3> QED BY <3>3, <3>4, <3>5
    <2>3. NewcomersKept
      <3> SUFFICES ASSUME NEW c \in IntactCollections, NEW kind \in AllKinds,
                          cmd.name \in {"segment-orphan", "collection-drop"},
                          ~(misread /\ kind = "collection"), Removes(KeyOf(kind, c))
                   PROVE  FALSE
        BY Zenon DEF NewcomersKept
      <3>1. c \in Collections /\ ~Doomed(c)
        BY <2>1 DEF IntactCollections
      <3>2. ~Keep(c, kind)
        BY <3>1, RemovesNoKept
      <3> QED BY <3>1, <3>2, Zenon DEF Keep
    <2> QED BY <2>2, <2>3
  <1> QED BY <1>1, LiveInvariant, PTL DEF Spec, LiveKept

-----------------------------------------------------------------------------
(* remove collection-drop: what it has cleaned stays clean (DropCleans).   *)

Gone(kind, c) == Load(KeyOf(kind, c)) = Absent

Doomable(kind, c) == \E o \in Elements(todo) : Hits(o, KeyOf(kind, c))

\* A collection-drop that nothing has disturbed.
Undisturbed == cmd.name = "collection-drop" /\ cmd.run /\ ~failed /\ ~misread

\* Each collection it chose is still to be cleaned, or each of its keys is
\* gone or about to be removed.
Handled(c) ==
    \/ Found(c)
    \/ \A kind \in DropKinds : Gone(kind, c) \/ (pc = "exec" /\ Doomable(kind, c))

DropInv ==
    Undisturbed =>
        /\ pc = "exec" => resume = "clean"
        /\ pc = "done" => seen = <<>>
        /\ pc \in {"clean", "exec", "done"} =>
               \A c \in chosen : c \in Collections /\ Doomed(c) /\ Handled(c)

-----------------------------------------------------------------------------

LEMMA DropKindsKnown == DropKinds \subseteq AllKinds
  BY DEF DropKinds, AllKinds, RootKinds, DataKinds

\* Milvus writes nothing under the keys of a doomed collection that are gone.
LEMMA MilvusGone ==
    ASSUME LiveInv, MilvusStep, NEW c \in Collections, Doomed(c), NEW kind \in AllKinds,
           Gone(kind, c)
    PROVE  Gone(kind, c)'
  <1> DEFINE k == KeyOf(kind, c)
  <1> SUFFICES ASSUME k \in Key PROVE store'[k] = Absent
    BY DEF Gone, Load
  <1>0. store[k] = Absent /\ store = [x \in Key |-> store[x]]
    BY DEF Gone, Load, LiveInv, DryInv
  <1> PICK d \in Collections :
        \/ /\ \/ CreateCollection(d) \/ DropCollection(d)
              \/ ExpireTombstones(d) \/ DropSegment(d)
           /\ UNCHANGED <<cmdVars, faults, historyVars>>
        \/ MarkDropping(d) /\ Unstable(d)
        \/ ServeCollection(d) /\ Writes(d, FirstLog)
        \/ \E l \in Logs : FlushLog(d, l) /\ Writes(d, l)
    BY Zenon DEF MilvusStep
  <1>1. ASSUME life[d] \in {"none", "created", "serving"} PROVE c # d
    BY <1>1 DEF Doomed
  <1>2. ASSUME NEW kinds, kinds \subseteq AllKinds, Puts(d, kinds), c # d PROVE store'[k] = Absent
    BY <1>0, <1>2, PutsKeys
  <1>3. ASSUME NEW kin \in AllKinds, NEW s, s = [x \in Key |-> s[x]], s[k] = Absent, NEW v,
               c # d
        PROVE  Save(s, KeyOf(kin, d), v)[k] = Absent
    <2>1. KeyOf(kin, d) # k
      BY <1>3, KeysApart
    <2> QED BY <1>3, <2>1, SaveKeeps
  <1>4. CASE CreateCollection(d)
    BY <1>1, <1>2, <1>4 DEF CreateCollection, Moves, AllKinds
  <1>5. CASE ServeCollection(d)
    BY <1>1, <1>2, <1>5 DEF ServeCollection, Moves, AllKinds
  <1>6. CASE DropCollection(d)
    BY <1>0, <1>6 DEF DropCollection
  <1>7. CASE ExpireTombstones(d)
    BY <1>0, <1>7 DEF ExpireTombstones
  <1>8. CASE DropSegment(d)
    <2>1. /\ "segment" \in AllKinds /\ "binlog" \in AllKinds /\ c # d
      BY <1>1, <1>8 DEF DropSegment, AllKinds, DataKinds
    <2> DEFINE t == Save(store, KeyOf("segment", d), Absent)
    <2>2. t[k] = Absent
      BY <1>0, <1>3, <2>1
    <2>3. t = [x \in Key |-> t[x]]
      BY <1>0, SaveKeeps
    <2>4. store' = Save(t, KeyOf("binlog", d), Absent)
      BY <1>8 DEF DropSegment, Remove
    <2> HIDE DEF t
    <2> QED BY <1>3, <2>1, <2>2, <2>3, <2>4
  <1>9. CASE MarkDropping(d)
    <2>1. c # d /\ "collection" \in AllKinds
      BY <1>1, <1>9 DEF MarkDropping, Moves, AllKinds, RootKinds
    <2> QED BY <1>0, <1>3, <1>9, <2>1 DEF MarkDropping
  <1>10. CASE \E l \in Logs : FlushLog(d, l)
    <2> PICK l \in Logs : FlushLog(d, l)
      BY <1>10
    <2>1. c # d /\ "binlog" \in AllKinds
      BY <1>1 DEF FlushLog, AllKinds, DataKinds
    <2>2. store' = Save(store, KeyOf("binlog", d),
                        Object("binlog", d, "set", store[KeyOf("binlog", d)].logs \union {l}))
      BY DEF FlushLog
    <2> QED BY <1>0, <1>3, <2>1, <2>2
  <1> QED BY <1>4, <1>5, <1>6, <1>7, <1>8, <1>9, <1>10, Zenon

\* An operation that hits a key removes it.
LEMMA HitGone ==
    ASSUME LiveInv, NEW o, Planned(o), NEW k \in Key, Hits(o, k)
    PROVE  Apply(store, o)[k] = Absent
  <1>1. store = [x \in Key |-> store[x]]
    BY DEF LiveInv, DryInv
  <1>2. CASE o.op = "remove" /\ o.key = k
    BY <1>1, <1>2, SavedValue DEF Apply, Remove
  <1>3. CASE o.op = "remove-prefix" /\ HasPrefix(k, Slashed(o.key))
    <2>1. Apply(store, o) = RemoveWithPrefix(store, o.key) /\ DOMAIN store = Key
      BY <1>1, <1>3 DEF Apply
    <2> QED BY <1>3, <2>1, Zenon DEF RemoveWithPrefix
  <1> QED BY <1>2, <1>3, Zenon DEF Hits

\* A prefix that ends with a slash is what is removed, and it holds the keys
\* that go on from there.
LEMMA HeldByPrefix ==
    ASSUME NEW p, IsSeq(p), Len(p) > 0, p[Len(p)] = Empty, NEW k, Len(k) \in Nat, Len(p) <= Len(k),
           \A i \in 1 .. Len(p) - 1 : k[i] = p[i]
    PROVE  HasPrefix(k, Slashed(p))
  <1> DEFINE Y == Elements(p) \cup {Empty}
             j == Join(p)
             q == Slashed(p)
  <1>0. Len(p) \in Nat /\ p \in Seq(Y) /\ Empty \in Y
    BY IsSeqFacts, ElementsSeq
  <1> HIDE DEF Y
  <1>1. /\ j \in Seq(Y) /\ \A i \in 1 .. Len(j) : j[i] = p[i]
        /\ Len(j) = Len(p) - 1
    <2>1. j = SubSeq(p, 1, Len(p) - 1)
      BY DEF Join, HasSlash
    <2> HIDE DEF j
    <2> DEFINE n == Len(p) - 1
    <2>3. n \in Int /\ 1 \in Int /\ \A i \in 1 .. n : p[i] \in Y
      BY <1>0
    <2>4. n \in Nat
      BY <1>0
    <2> HIDE DEF n
    <2>5. /\ SubSeq(p, 1, n) \in Seq(Y)
          /\ Len(SubSeq(p, 1, n)) = IF 1 <= n THEN n - 1 + 1 ELSE 0
          /\ \A i \in 1 .. n - 1 + 1 : SubSeq(p, 1, n)[i] = p[1 + i - 1]
      BY <2>3, SubSeqProperties
    <2>6. j = SubSeq(p, 1, n)
      BY <2>1 DEF n
    <2>7. j \in Seq(Y) /\ Len(j) = n /\ \A i \in 1 .. n : j[i] = p[i]
      BY <2>4, <2>5, <2>6
    <2> QED BY <2>7 DEF n
  <1> HIDE DEF j
  <1>2. q = Append(j, Empty)
    BY DEF Slashed, j
  <1>3. Len(q) = Len(j) + 1 /\ (\A i \in 1 .. Len(j) : q[i] = j[i]) /\ q[Len(q)] = Empty
    BY <1>0, <1>1, <1>2, AppendProperties
  <1> HIDE DEF q
  <1>4. Len(q) = Len(p) /\ \A i \in 1 .. Len(p) - 1 : q[i] = p[i]
    BY <1>0, <1>1, <1>3
  <1>5. HasPrefix(k, q)
    BY <1>3, <1>4 DEF HasPrefix
  <1> QED BY <1>5 DEF q

\* What cleanCollectionMeta decides on.
LEMMA CleanElements ==
    ASSUME LiveInv, NEW m, m.obj.coll \in Collections, NEW C, C = Elements(CleanCollectionMeta(m))
    PROVE  /\ \A p \in CleanedPrefixes(m.obj.coll) : Op("remove-prefix", p, Absent, 0) \in C
           /\ RemoveOp(m.key, 0) \in C
           /\ \A kind \in {"checkpoint", "removal"} : RemoveOp(KeyOf(kind, m.obj.coll), 0) \in C
           /\ ~Gone("watch", m.obj.coll) => RemoveOp(KeyOf("watch", m.obj.coll), 0) \in C
  <1> DEFINE d == m.obj.coll
             prefix(p) == Op("remove-prefix", p, Absent, 0)
             all == ListObj2Models(<<"channelwatch", Empty>>)
             S == {w \in Elements(all) : w.obj.coll = d}
             rows == Filter(all, S)
             v == prefix(<<"root-coord", "fields", d, Empty>>)
             w == prefix(<<"snapshots", "root-coord", "fields", d, Empty>>)
             x == prefix(<<"root-coord", "partitions", d, Empty>>)
             y == prefix(<<"snapshots", "root-coord", "partitions", d, Empty>>)
             z == prefix(<<"snapshots">> \o Append(CollectionPath(d), d))
             own == RemoveOp(m.key, 0)
             first == <<v, w, x, y, z, own>>
             middle == [i \in DOMAIN rows |-> RemoveOp(rows[i].key, 0)]
             cp == RemoveOp(KeyOf("checkpoint", d), 0)
             rm == RemoveOp(KeyOf("removal", d), 0)
             last == <<cp, rm>>
  <1>1. CleanCollectionMeta(m) = first \o middle \o last
    BY Zenon DEF CleanCollectionMeta, Where, MapSeq
  <1>7. /\ IsSeq(all)
        /\ \A r \in Elements(all) : r.key = KeyOf("watch", r.obj.coll)
    BY RowsListed, DataRow
  <1>a. ~Gone("watch", d) => \E r \in Elements(all) : r.obj.coll = d
    <2> SUFFICES ASSUME ~Gone("watch", d) PROVE \E r \in Elements(all) : r.obj.coll = d
      OBVIOUS
    <2> DEFINE k == KeyOf("watch", d)
    <2>1. k \in Key /\ store[k] # Absent
      BY DEF Gone, Load
    <2>2. Sound("watch", d, store[k], life[d])
      BY <2>1 DEF LiveInv, ValuesSound, LiveKinds
    <2>3. store[k] # Tombstone /\ store[k].coll = d
      BY <2>1, <2>2 DEF Sound
    <2>4. HasPrefix(k, <<"channelwatch", Empty>>)
      <3>1. k = <<"channelwatch", "node", Channel[d]>>
        BY OtherKeys
      <3> HIDE DEF k
      <3>2. 2 <= Len(k) /\ k[1] = "channelwatch"
        BY <3>1
      <3> DEFINE e == Empty
      <3>3. HasPrefix(k, <<"channelwatch", e>>) <=>
              /\ 2 <= Len(k) /\ k[1] = "channelwatch"
              /\ e = Empty \/ e = k[2] \/ <<e, k[2]>> \in Begins
        BY ShortPrefix
      <3> QED BY <3>2, <3>3
    <2> HIDE DEF k, all
    <2>5. \E r \in Elements(all) : r.obj = store[k]
      BY <2>1, <2>3, <2>4, RowsListed DEF all
    <2> QED BY <2>3, <2>5
  <1> HIDE DEF all
  <1>8. IsSeq(rows) /\ Elements(rows) = Elements(all) \cap S
    BY <1>7, FilterIsSeq
  <1>9. ~Gone("watch", d) => \E i \in DOMAIN rows : rows[i].key = KeyOf("watch", d)
    <2> SUFFICES ASSUME ~Gone("watch", d) PROVE \E i \in DOMAIN rows : rows[i].key = KeyOf("watch", d)
      OBVIOUS
    <2>1. PICK r \in Elements(all) : r.obj.coll = d
      BY <1>a
    <2>2. r \in Elements(rows) /\ r.key = KeyOf("watch", d)
      BY <1>7, <1>8, <2>1
    <2> QED BY <2>2 DEF Elements
  <1> HIDE DEF rows
  <1>10. middle = [i \in DOMAIN rows |-> middle[i]]
    OBVIOUS
  <1>b. ~Gone("watch", d) => \E i \in DOMAIN rows : middle[i] = RemoveOp(KeyOf("watch", d), 0)
    BY <1>9
  <1> HIDE DEF middle
  <1>11. IsSeq(middle) /\ Elements(middle) = {middle[i] : i \in DOMAIN rows}
    BY <1>8, <1>10, MapElements
  <1> HIDE DEF v, w, x, y, z, own, cp, rm
  <1>12. IsSeq(first) /\ Elements(first) = {v, w, x, y, z, own}
    BY SixElements
  <1>13. IsSeq(last) /\ Elements(last) = {cp, rm}
    BY TwoElements
  <1> DEFINE start == first \o middle
  <1> HIDE DEF first, last
  <1>15. IsSeq(start) /\ Elements(start) = Elements(first) \cup Elements(middle)
    BY <1>11, <1>12, ConcatElements
  <1>17. CleanCollectionMeta(m) = start \o last
    BY <1>1
  <1> HIDE DEF start
  <1>18. C = Elements(start) \cup Elements(last)
    BY <1>13, <1>15, <1>17, ConcatElements
  <1>19. {v, w, x, y, z, own, cp, rm} \subseteq C /\ Elements(middle) \subseteq C
    BY <1>12, <1>13, <1>15, <1>18
  <1>20. \A p \in CleanedPrefixes(d) : prefix(p) \in C
    <2> HIDE DEF prefix
    <2> QED BY <1>19, Zenon DEF CleanedPrefixes, v, w, x, y, z
  <1>21. RemoveOp(m.key, 0) \in C
    BY <1>19 DEF own
  <1>22. \A kind \in {"checkpoint", "removal"} : RemoveOp(KeyOf(kind, d), 0) \in C
    BY <1>19, Zenon DEF cp, rm
  <1>23. ~Gone("watch", d) => RemoveOp(KeyOf("watch", d), 0) \in C
    BY <1>11, <1>19, <1>b
  <1> QED BY <1>20, <1>21, <1>22, <1>23

LEMMA CleanHits ==
    ASSUME LiveInv, NEW m, NEW c \in Collections, m.obj.coll = c, m.key = KeyOf("collection", c),
           NEW kind \in DropKinds, ~Gone(kind, c)
    PROVE  \E o \in Elements(CleanCollectionMeta(m)) : Hits(o, KeyOf(kind, c))
  <1> DEFINE C == Elements(CleanCollectionMeta(m))
             k == KeyOf(kind, c)
  <1>1. /\ \A p \in CleanedPrefixes(c) : Op("remove-prefix", p, Absent, 0) \in C
        /\ RemoveOp(KeyOf("collection", c), 0) \in C
        /\ \A kin \in {"checkpoint", "removal"} : RemoveOp(KeyOf(kin, c), 0) \in C
        /\ ~Gone("watch", c) => RemoveOp(KeyOf("watch", c), 0) \in C
    BY CleanElements
  <1> HIDE DEF C
  <1>2. \A x : Hits(RemoveOp(x, 0), x)
    BY OpFields DEF Hits
  <1>3. CASE kind \in {"collection", "watch", "checkpoint", "removal"}
    <2>1. RemoveOp(k, 0) \in C
      BY <1>1, <1>3
    <2> QED BY <1>2, <2>1 DEF C
  <1>4. ASSUME NEW p \in CleanedPrefixes(c), HasPrefix(k, Slashed(p))
        PROVE  \E o \in C : Hits(o, k)
    <2> DEFINE o == Op("remove-prefix", p, Absent, 0)
    <2>1. o.op = "remove-prefix" /\ o.key = p
      BY OpFields
    <2>2. o \in C
      BY <1>1, <1>4
    <2> HIDE DEF o, k
    <2> QED BY <1>4, <2>1, <2>2 DEF Hits
  <1>5. CASE kind = "fields"
    <2> DEFINE p == <<"root-coord", "fields", c, Empty>>
    <2>1. p \in Seq({"root-coord", "fields", c, Empty}) /\ Len(p) = 4 /\ p[4] = Empty
      OBVIOUS
    <2>2. IsSeq(p)
      BY <2>1, SeqElements
    <2>3. k = <<"root-coord", "fields", c, "100">>
      BY <1>5, OtherKeys
    <2>4. p \in CleanedPrefixes(c)
      BY DEF CleanedPrefixes
    <2> HIDE DEF k
    <2>5. Len(k) = 4 /\ k[1] = p[1] /\ k[2] = p[2] /\ k[3] = p[3]
      BY <2>3
    <2> HIDE DEF p
    <2>6. \A i \in 1 .. Len(p) - 1 : k[i] = p[i]
      BY <2>1, <2>5
    <2>7. Len(p) > 0 /\ Len(k) \in Nat /\ Len(p) <= Len(k) /\ p[Len(p)] = Empty
      BY <2>1, <2>5
    <2>8. HasPrefix(k, Slashed(p))
      BY <2>2, <2>6, <2>7, HeldByPrefix
    <2> QED BY <1>4, <2>4, <2>8 DEF C, k
  <1>6. CASE kind = "partitions"
    <2> DEFINE p == <<"root-coord", "partitions", c, Empty>>
    <2>1. p \in Seq({"root-coord", "partitions", c, Empty}) /\ Len(p) = 4 /\ p[4] = Empty
      OBVIOUS
    <2>2. IsSeq(p)
      BY <2>1, SeqElements
    <2>3. k = <<"root-coord", "partitions", c, "p">>
      BY <1>6, OtherKeys
    <2>4. p \in CleanedPrefixes(c)
      BY DEF CleanedPrefixes
    <2> HIDE DEF k
    <2>5. Len(k) = 4 /\ k[1] = p[1] /\ k[2] = p[2] /\ k[3] = p[3]
      BY <2>3
    <2> HIDE DEF p
    <2>6. \A i \in 1 .. Len(p) - 1 : k[i] = p[i]
      BY <2>1, <2>5
    <2>7. Len(p) > 0 /\ Len(k) \in Nat /\ Len(p) <= Len(k) /\ p[Len(p)] = Empty
      BY <2>1, <2>5
    <2>8. HasPrefix(k, Slashed(p))
      BY <2>2, <2>6, <2>7, HeldByPrefix
    <2> QED BY <1>4, <2>4, <2>8 DEF C, k
  <1>7. CASE kind = "fields-snapshot"
    <2> DEFINE p == <<"snapshots", "root-coord", "fields", c, Empty>>
    <2>1. p \in Seq({"snapshots", "root-coord", "fields", c, Empty}) /\ Len(p) = 5 /\ p[5] = Empty
      OBVIOUS
    <2>2. IsSeq(p)
      BY <2>1, SeqElements
    <2>3. k = <<"snapshots", "root-coord", "fields", c, "100_ts">>
      BY <1>7, OtherKeys
    <2>4. p \in CleanedPrefixes(c)
      BY DEF CleanedPrefixes
    <2> HIDE DEF k
    <2>5. Len(k) = 5 /\ k[1] = p[1] /\ k[2] = p[2] /\ k[3] = p[3] /\ k[4] = p[4]
      BY <2>3
    <2> HIDE DEF p
    <2>6. \A i \in 1 .. Len(p) - 1 : k[i] = p[i]
      BY <2>1, <2>5
    <2>7. Len(p) > 0 /\ Len(k) \in Nat /\ Len(p) <= Len(k) /\ p[Len(p)] = Empty
      BY <2>1, <2>5
    <2>8. HasPrefix(k, Slashed(p))
      BY <2>2, <2>6, <2>7, HeldByPrefix
    <2> QED BY <1>4, <2>4, <2>8 DEF C, k
  <1> QED BY <1>3, <1>5, <1>6, <1>7 DEF DropKinds
-----------------------------------------------------------------------------
(* Steps of collection-drop. *)

\* What stays handled when the command's own state does.
LEMMA HandledStays ==
    ASSUME UNCHANGED <<pc, seen, todo>>, NEW c, Handled(c),
           \A kind \in DropKinds : Gone(kind, c) => Gone(kind, c)'
    PROVE  Handled(c)'
  <1>1. CASE Found(c)
    BY <1>1 DEF Handled, Found
  <1>2. CASE \A kind \in DropKinds : Gone(kind, c) \/ (pc = "exec" /\ Doomable(kind, c))
    <2>1. \A kind \in DropKinds : Doomable(kind, c)' <=> Doomable(kind, c)
      BY DEF Doomable
    <2> QED BY <1>2, <2>1, Zenon DEF Handled
  <1> QED BY <1>1, <1>2, Zenon DEF Handled

LEMMA DropMilvus ==
    ASSUME LiveInv, DropInv, MilvusStep
    PROVE  DropInv'
  <1> PICK d \in Collections :
        \/ /\ \/ CreateCollection(d) \/ DropCollection(d)
              \/ ExpireTombstones(d) \/ DropSegment(d)
           /\ UNCHANGED <<cmdVars, faults, historyVars>>
        \/ MarkDropping(d) /\ Unstable(d)
        \/ ServeCollection(d) /\ Writes(d, FirstLog)
        \/ \E l \in Logs : FlushLog(d, l) /\ Writes(d, l)
    BY Zenon DEF MilvusStep
  <1>1. UNCHANGED <<cmd, pc, seen, todo, resume, failed, misread, chosen>>
    BY Zenon DEF Unstable, Writes, historyVars, cmdVars
  <1>2. Calm
    BY MilvusCalm
  <1> SUFFICES ASSUME Undisturbed'
               PROVE  /\ pc' = "exec" => resume' = "clean"
                      /\ pc' = "done" => seen' = <<>>
                      /\ pc' \in {"clean", "exec", "done"} =>
                             \A c \in chosen' : c \in Collections /\ Doomed(c)' /\ Handled(c)'
    BY Zenon DEF DropInv
  <1>3. Undisturbed
    BY <1>1 DEF Undisturbed
  <1>4. ASSUME pc \in {"clean", "exec", "done"}, NEW c \in chosen
        PROVE  c \in Collections /\ Doomed(c)' /\ Handled(c)'
    <2>1. c \in Collections /\ Doomed(c) /\ Handled(c)
      BY <1>3, <1>4 DEF DropInv
    <2>2. \A kind \in DropKinds : Gone(kind, c) => Gone(kind, c)'
      BY <2>1, DropKindsKnown, MilvusGone
    <2>3. Handled(c)'
      BY <1>1, <2>1, <2>2, HandledStays
    <2> QED BY <1>2, <2>1, <2>3 DEF Calm
  <1> QED BY <1>1, <1>3, <1>4 DEF DropInv

LEMMA DropClean ==
    ASSUME LiveInv, DropInv, CleanCollection
    PROVE  DropInv'
  <1>1. /\ pc = "clean" /\ UNCHANGED <<store, life, cmd, failed, misread, chosen>>
    BY DEF CleanCollection, ReadOnly, milvusVars
  <1> SUFFICES ASSUME Undisturbed'
               PROVE  /\ pc' = "exec" => resume' = "clean"
                      /\ pc' = "done" => seen' = <<>>
                      /\ \A c \in chosen' : c \in Collections /\ Doomed(c)' /\ Handled(c)'
    BY Zenon DEF DropInv
  <1>2. Undisturbed
    BY <1>1 DEF Undisturbed
  <1>3. ASSUME NEW c \in chosen
        PROVE  /\ c \in Collections /\ Doomed(c)'
               /\ Found(c) \/ \A kind \in DropKinds : Gone(kind, c)'
    <2>1. c \in Collections /\ Doomed(c) /\ Handled(c)
      BY <1>1, <1>2, <1>3 DEF DropInv
    <2>2. Found(c) \/ \A kind \in DropKinds : Gone(kind, c)
      BY <1>1, <2>1 DEF Handled
    <2>3. \A kind : Gone(kind, c)' <=> Gone(kind, c)
      BY <1>1 DEF Gone, Load
    <2> QED BY <1>1, <2>1, <2>2, <2>3, StoreSame
  <1>4. CASE seen = <<>>
    <2>1. pc' = "done" /\ seen' = <<>>
      BY <1>4 DEF CleanCollection
    <2>2. \A c : ~Found(c)
      BY <1>4, EmptyElements DEF Found
    <2> QED BY <1>1, <1>3, <2>1, <2>2 DEF Handled
  <1>5. CASE seen # <<>>
    <2> DEFINE m == Head(seen)
               ops == CleanCollectionMeta(m)
    <2>1. todo' = ops /\ seen' = Tail(seen) /\ pc' = "exec" /\ resume' = "clean"
      BY <1>2, <1>5 DEF CleanCollection, Decide, Undisturbed
    <2>2. Elements(seen) = {m} \cup Elements(Tail(seen)) /\ m \in Elements(seen)
      BY <1>5, TailElements DEF LiveInv, SeenSound
    <2>3. Row(m)
      BY <2>2 DEF LiveInv, SeenSound
    <2> HIDE DEF m
    <2>4. m.obj.coll \in Collections /\ m.key = KeyOf("collection", m.obj.coll)
      BY <1>2, <2>3 DEF Row, Undisturbed
    <2> HIDE DEF ops
    <2>5. ASSUME NEW c \in chosen PROVE Handled(c)'
      <3>1. CASE \A kind \in DropKinds : Gone(kind, c)'
        BY <3>1 DEF Handled
      <3>2. CASE Found(c) /\ m.obj.coll # c
        <4>1. Found(c)'
          BY <2>1, <2>2, <3>2 DEF Found
        <4> QED BY <4>1 DEF Handled
      <3>3. CASE m.obj.coll = c
        <4>1. \A kind \in DropKinds : Gone(kind, c)' <=> Gone(kind, c)
          BY <1>1 DEF Gone, Load
        <4>2. \A kind \in DropKinds : Gone(kind, c) \/ \E o \in Elements(ops) : Hits(o, KeyOf(kind, c))
          BY <2>4, <3>3, CleanHits DEF ops
        <4>3. \A kind \in DropKinds : Doomable(kind, c)' <=> \E o \in Elements(ops) : Hits(o, KeyOf(kind, c))
          BY <2>1 DEF Doomable
        <4> QED BY <2>1, <4>1, <4>2, <4>3, Zenon DEF Handled
      <3> QED BY <1>3, <3>1, <3>2, <3>3
    <2> QED BY <1>1, <1>3, <2>1, <2>5
  <1> QED BY <1>4, <1>5

LEMMA DropExec ==
    ASSUME LiveInv, DropInv, Exec
    PROVE  DropInv'
  <1> DEFINE o == Head(todo)
  <1>1. /\ pc = "exec" /\ todo # <<>> /\ store' = Apply(store, o) /\ todo' = Tail(todo)
        /\ UNCHANGED <<life, cmd, pc, seen, resume, failed, misread, chosen>>
    BY DEF Exec, historyVars
  <1>2. o \in Elements(todo) /\ Elements(todo) = {o} \cup Elements(Tail(todo))
    BY <1>1, TailElements DEF LiveInv, PlanSound
  <1>3. Planned(o)
    BY <1>2 DEF LiveInv, PlanSound
  <1> HIDE DEF o
  <1> SUFFICES ASSUME Undisturbed'
               PROVE  /\ resume' = "clean"
                      /\ \A c \in chosen' : c \in Collections /\ Doomed(c)' /\ Handled(c)'
    BY <1>1, Zenon DEF DropInv
  <1>4. Undisturbed /\ cmd.name # "binlog"
    BY <1>1 DEF Undisturbed
  <1>5. ASSUME NEW c \in chosen
        PROVE  c \in Collections /\ Doomed(c)' /\ Handled(c)'
    <2>1. c \in Collections /\ Doomed(c) /\ Handled(c)
      BY <1>1, <1>4, <1>5 DEF DropInv
    <2>2. Doomed(c)'
      BY <1>1, <2>1 DEF Doomed
    <2>3. Found(c)' <=> Found(c)
      BY <1>1 DEF Found
    <2>4. ASSUME NEW kind \in DropKinds, Gone(kind, c) \/ Doomable(kind, c)
          PROVE  Gone(kind, c)' \/ Doomable(kind, c)'
      <3> DEFINE k == KeyOf(kind, c)
      <3>0. kind \in AllKinds
        BY DropKindsKnown
      <3>1. CASE k \notin Key
        BY <3>1 DEF Gone, Load
      <3>2. CASE k \in Key /\ Gone(kind, c)
        <4>1. store[k] = Absent
          BY <3>2 DEF Gone, Load
        <4>2. Apply(store, o)[k] = Absent
          BY <1>3, <1>4, <2>1, <3>0, <3>2, <4>1, ApplyHits
        <4> QED BY <1>1, <3>2, <4>2 DEF Gone, Load
      <3>3. CASE k \in Key /\ Hits(o, k)
        <4>1. Apply(store, o)[k] = Absent
          BY <1>3, <3>3, HitGone
        <4> QED BY <1>1, <3>3, <4>1 DEF Gone, Load
      <3>4. CASE Doomable(kind, c) /\ ~Hits(o, k)
        <4>1. PICK x \in Elements(todo) : Hits(x, k)
          BY <3>4 DEF Doomable
        <4>2. x \in Elements(Tail(todo))
          BY <1>2, <3>4, <4>1
        <4> QED BY <1>1, <4>1, <4>2 DEF Doomable
      <3> QED BY <2>4, <3>1, <3>2, <3>3, <3>4
    <2>5. Handled(c)'
      BY <1>1, <2>1, <2>3, <2>4, Zenon DEF Handled
    <2> QED BY <2>1, <2>2, <2>5
  <1> QED BY <1>1, <1>4, <1>5 DEF DropInv

LEMMA DropResume ==
    ASSUME LiveInv, DropInv, Resume
    PROVE  DropInv'
  <1>1. /\ pc = "exec" /\ todo = <<>> /\ pc' = resume
        /\ UNCHANGED <<store, life, cmd, seen, resume, failed, misread, chosen>>
    BY DEF Resume, historyVars, milvusVars
  <1> SUFFICES ASSUME Undisturbed' PROVE pc' = "clean" /\ \A c \in chosen' : c \in Collections /\ Doomed(c)' /\ Handled(c)'
    BY Zenon DEF DropInv
  <1>2. Undisturbed
    BY <1>1 DEF Undisturbed
  <1>3. resume = "clean"
    BY <1>1, <1>2 DEF DropInv
  <1>4. ASSUME NEW c \in chosen
        PROVE  c \in Collections /\ Doomed(c)' /\ Handled(c)'
    <2>1. c \in Collections /\ Doomed(c) /\ Handled(c)
      BY <1>1, <1>2, <1>4 DEF DropInv
    <2>2. \A kind : ~Doomable(kind, c)
      BY <1>1, EmptyElements DEF Doomable
    <2>3. \A kind : Gone(kind, c)' <=> Gone(kind, c)
      BY <1>1 DEF Gone, Load
    <2>4. Found(c)' <=> Found(c)
      BY <1>1 DEF Found
    <2> QED BY <1>1, <2>1, <2>2, <2>3, <2>4, StoreSame, Zenon DEF Handled
  <1> QED BY <1>1, <1>3, <1>4

LEMMA DropChoose ==
    ASSUME LiveInv, DropInv, ReadDBCollections, LiveInv'
    PROVE  DropInv'
  <1> SUFFICES ASSUME Undisturbed' PROVE DropInv'
    BY DEF DropInv
  <1>1. cmd' = cmd
    BY DEF ReadDBCollections, ReadOnly
  <1>2. cmd.name = "collection-drop"
    BY <1>1 DEF Undisturbed
  <1>3. pc' = "clean" /\ chosen' = {seen'[i].obj.coll : i \in DOMAIN seen'}
    BY <1>2 DEF ReadDBCollections
  <1>4. ASSUME NEW c \in chosen'
        PROVE  c \in Collections /\ Doomed(c)' /\ Handled(c)'
    <2>1. PICK m \in Elements(seen') : m.obj.coll = c
      BY <1>3 DEF Elements
    <2>2. Row(m)' /\ m.obj.state = "dropping"
      BY <1>1, <1>2, <1>3, <2>1 DEF LiveInv, SeenSound, DropsDropping
    <2> QED BY <2>1, <2>2 DEF Row, Handled, Found
  <1> QED BY <1>3, <1>4 DEF DropInv

\* Every step keeps the invariant.
LEMMA DropNext == LiveInv /\ LiveInv' /\ DropInv /\ [Next]_vars => DropInv'
  <1> SUFFICES ASSUME LiveInv, LiveInv', DropInv, [Next]_vars PROVE DropInv'
    OBVIOUS
  <1>1. CASE \E i \in Invocations : Start(i)
    <2> PICK i \in Invocations : Start(i)
      BY <1>1
    <2>1. cmd' = i /\ pc' = FirstCall(i)
      BY DEF Start
    <2>2. i.name = "collection-drop" => FirstCall(i) = "collections"
      BY DEF FirstCall
    <2> QED BY <2>1, <2>2 DEF DropInv, Undisturbed
  <1>2. CASE MilvusStep
    BY <1>2, DropMilvus
  <1>3. CASE CleanCollection \/ Exec \/ Resume \/ ReadDBCollections
    BY <1>3, DropClean, DropExec, DropResume, DropChoose
  <1>4. CASE ReadFails \/ ExecFails
    <2>1. failed'
      BY <1>4 DEF ReadFails, ExecFails
    <2> QED BY <2>1 DEF DropInv, Undisturbed
  <1>5. CASE ReadCollections
    <2>1. pc' = "db-collections"
      BY <1>5 DEF ReadCollections
    <2> QED BY <2>1 DEF DropInv
  <1>6. CASE \/ ReadWatches \/ ReadCheckpoints \/ WalkPage \/ WalkUnreadable
             \/ ReadSegments \/ EndGroups \/ RemoveOrphans
             \/ \E c \in Collections : OrphanGroup(c) \/ RemoveDirty(c)
             \/ ListObjects \/ BackupBinlog \/ RemoveBinlog \/ RestoreBinlog
    <2>1. /\ cmd' = cmd
          /\ \/ pc \in {"watches", "checkpoints", "walk", "segments", "groups", "list",
                         "backup", "reload", "restore"}
             \/ cmd.name = "segment-orphan"
      BY <1>6, Zenon DEF ReadWatches, ReadCheckpoints, WalkPage, WalkUnreadable, ReadSegments, EndGroups,
         RemoveOrphans, OrphanGroup, RemoveDirty, ListObjects, BackupBinlog, RemoveBinlog,
         RestoreBinlog, ReadOnly
    <2>2. cmd.name # "collection-drop"
      BY <2>1 DEF LiveInv, Places, CommandsAt
    <2> QED BY <2>1, <2>2 DEF DropInv, Undisturbed
  <1>7. CASE UNCHANGED vars
    BY <1>7 DEF DropInv, Undisturbed, Handled, Found, Doomed, Gone, Load, Doomable, vars, milvusVars,
       cmdVars, historyVars
  <1> QED BY <1>1, <1>2, <1>3, <1>4, <1>5, <1>6, <1>7, Zenon DEF Next, CommandStep

\* A collection-drop in which no call failed and no listing was out of step
\* leaves nothing of the collections it chose under the seven kinds of keys its
\* removals reach (DropCleans), whatever milvus does between its calls. The
\* eighth it knows, the snapshots of the collection's own key, it leaves behind
\* (DropCleansSnapshots, which TLC refutes).
THEOREM DropLeavesNothing == Spec => []DropCleans
  <1>1. Init => DropInv
    BY DEF Init, DropInv, Undisturbed, NoCommand
  <1>2. LiveInv /\ DropInv => DropCleans
    <2> SUFFICES ASSUME DropInv, Undisturbed, pc = "done", NEW c \in chosen, NEW kind \in DropKinds
                 PROVE  Gone(kind, c)
      BY Zenon DEF DropCleans, DropDone, Undisturbed, DropKinds, Gone
    <2>1. Handled(c) /\ seen = <<>>
      BY DEF DropInv
    <2>2. ~Found(c)
      BY <2>1, EmptyElements DEF Found
    <2> QED BY <2>1, <2>2 DEF Handled
  <1> QED BY <1>1, <1>2, LiveInvariant, DropNext, PTL DEF Spec

-----------------------------------------------------------------------------
(* The walk misses no key. *)

LEMMA Positions ==
    /\ KeyOrder \in Seq(Key) /\ Len(KeyOrder) \in Nat
    /\ \A i \in 1 .. Len(KeyOrder) : Position(KeyOrder[i]) = i
    /\ \A k \in Key : Position(k) \in 1 .. Len(KeyOrder) /\ KeyOrder[Position(k)] = k
  <1>1. Len(KeyOrder) \in Nat /\ DOMAIN KeyOrder = 1 .. Len(KeyOrder) /\ KeyOrder \in Seq(Key)
    BY KeyOrderAssumption DEF Key
  <1>2. ASSUME NEW i \in DOMAIN KeyOrder PROVE Position(KeyOrder[i]) = i
    <2> DEFINE x == CHOOSE j \in DOMAIN KeyOrder : KeyOrder[j] = KeyOrder[i]
    <2>1. x \in DOMAIN KeyOrder /\ KeyOrder[x] = KeyOrder[i]
      BY Zenon
    <2> HIDE DEF x
    <2>2. x = i
      BY <2>1, KeyOrderAssumption
    <2> QED BY <2>2 DEF x, Position
  <1>3. ASSUME NEW k \in Key PROVE Position(k) \in 1 .. Len(KeyOrder) /\ KeyOrder[Position(k)] = k
    <2>1. PICK i \in DOMAIN KeyOrder : k = KeyOrder[i]
      BY DEF Key
    <2>2. Position(k) = i
      BY <1>2, <2>1
    <2> QED BY <1>1, <2>1, <2>2
  <1> QED BY <1>1, <1>2, <1>3

\* A page holds every key under the prefix between its start and its last key,
\* or, if it is the last page, its end.
LEMMA PageComplete ==
    ASSUME NEW p, NEW from \in Nat, NEW page, page = Page(p, from, PageSize),
           NEW k \in Key, store[k] # Absent, HasPrefix(k, Join(p)), Position(k) > from,
           Len(WalkRest(p, from)) > Len(page) => Position(k) <= Position(page[Len(page)])
    PROVE  k \in Elements(page)
  <1> DEFINE L == Len(KeyOrder)
             part == SubSeq(KeyOrder, from + 1, L)
             S == {x \in Elements(part) : store[x] # Absent /\ HasPrefix(x, Join(p))}
             rest == Filter(part, S)
             n == IF Len(rest) < PageSize THEN Len(rest) ELSE PageSize
             i == Position(k) - from
  <1>1. L \in Nat /\ KeyOrder \in Seq(Key) /\ Position(k) \in 1 .. L /\ KeyOrder[Position(k)] = k
    BY Positions
  <1>2. \A a \in 1 .. L : Position(KeyOrder[a]) = a
    BY Positions
  <1>3. /\ part \in Seq(Key) /\ Len(part) = L - from
        /\ \A a \in 1 .. L - from : part[a] = KeyOrder[from + a]
    <2> DEFINE b == from + 1
    <2>1. b \in Int /\ L \in Int /\ \A a \in b .. L : KeyOrder[a] \in Key
      BY <1>1
    <2>2. b <= L /\ b = from + 1
      BY <1>1
    <2> HIDE DEF b, L
    <2>3. /\ SubSeq(KeyOrder, b, L) \in Seq(Key)
          /\ Len(SubSeq(KeyOrder, b, L)) = IF b <= L THEN L - b + 1 ELSE 0
          /\ \A a \in 1 .. L - b + 1 : SubSeq(KeyOrder, b, L)[a] = KeyOrder[b + a - 1]
      BY <2>1, SubSeqProperties
    <2>4. part = SubSeq(KeyOrder, b, L)
      BY <2>2
    <2> HIDE DEF part
    <2> QED BY <1>1, <2>2, <2>3, <2>4
  <1> HIDE DEF L, part
  <1>4. Distinct(part)
    <2> SUFFICES \A a, b \in 1 .. Len(part) : part[a] = part[b] => a = b
      BY DEF Distinct
    <2> TAKE a \in 1 .. Len(part), b \in 1 .. Len(part)
    <2>1. from + a \in 1 .. L /\ from + b \in 1 .. L
      BY <1>1, <1>3
    <2>2. Position(part[a]) = from + a /\ Position(part[b]) = from + b
      BY <1>2, <1>3, <2>1
    <2> QED BY <2>2
  <1>5. i \in 1 .. Len(part) /\ part[i] = k
    BY <1>1, <1>3
  <1>6. k \in S
    BY <1>3, <1>5 DEF Elements
  <1>7. WalkRest(p, from) = rest
    BY DEF WalkRest, Where, part, L
  <1>8. page = SubSeq(rest, 1, n)
    BY <1>7 DEF Page
  <1>9. IsSeq(part)
    BY <1>3, SeqElements
  <1> HIDE DEF S, i
  <1>10. IsSeq(rest) /\ Elements(rest) = Elements(part) \cap S
    BY <1>9, FilterIsSeq
  <1> HIDE DEF rest
  <1>11. Len(rest) \in Nat /\ n \in Nat /\ n <= Len(rest) /\ (Len(rest) > 0 => n > 0)
    BY <1>10, IsSeqFacts, PageSizeAssumption
  <1> HIDE DEF n
  <1>12. Len(page) = n /\ \A a \in 1 .. n : page[a] = rest[a] /\ a \in DOMAIN page
    <2>1. rest \in Seq(Elements(rest))
      BY <1>10 DEF IsSeq
    <2> QED BY <1>8, <1>11, <2>1
  <1>13. k \in Elements(rest)
    BY <1>3, <1>5, <1>6, <1>10 DEF Elements
  <1>14. PICK a \in 1 .. Len(rest) : rest[a] = k
    BY <1>10, <1>13, IsSeqFacts
  <1>15. CASE n = Len(rest)
    BY <1>12, <1>14, <1>15 DEF Elements
  <1>16. CASE n # Len(rest)
    <2>1. Len(rest) > n /\ n \in 1 .. Len(rest)
      BY <1>11, <1>14, <1>16
    <2>2. Position(k) <= Position(rest[n])
      BY <1>7, <1>12, <2>1
    <2>3. rest[n] \in Elements(part)
      BY <1>10, <2>1, IsSeqFacts
    <2>4. PICK j \in 1 .. Len(part) : rest[n] = part[j]
      BY <1>9, <2>3, IsSeqFacts
    <2>5. Position(rest[n]) = from + j
      BY <1>1, <1>2, <1>3, <2>4
    <2>6. i <= j
      BY <1>1, <2>2, <2>5 DEF i
    <2>7. \E x \in 1 .. n : rest[x] = part[i]
      <3>1. n \in 1 .. Len(Filter(part, S)) /\ Filter(part, S)[n] = part[j] /\ part[i] \in S
        BY <1>5, <1>6, <2>1, <2>4 DEF rest
      <3>2. /\ IsSeq(part) /\ Distinct(part) /\ part[i] \in S /\ i <= j
            /\ i \in 1 .. Len(part) /\ j \in 1 .. Len(part)
        BY <1>4, <1>5, <1>9, <2>6, <3>1
      <3>3. \A x \in 1 .. Len(Filter(part, S)) :
                Filter(part, S)[x] = part[j] => \E y \in 1 .. x : Filter(part, S)[y] = part[i]
        BY <3>2, FilterOrder
      <3> QED BY <3>1, <3>3 DEF rest
    <2> QED BY <1>5, <1>12, <2>7 DEF Elements
  <1> QED BY <1>15, <1>16

-----------------------------------------------------------------------------
(* remove collection-meta-leaked: what the walk has passed is clean        *)
(* (LeaksCleaned).                                                         *)

LeakKinds == {"collection", "fields", "fields-snapshot", "segment"}

\* The walked prefix that a key of collection c is under.
PrefixOf(kind, c) ==
    CASE kind = "collection" -> IF DbId[c] = "0" THEN 1 ELSE 2
      [] kind = "fields" -> 3
      [] kind = "fields-snapshot" -> 4
      [] kind = "segment" -> 7

\* The walk has read the page that the key is on.
Passed(kind, c) ==
    /\ KeyOf(kind, c) \in Key
    /\ \/ PrefixOf(kind, c) < cursor.prefix
       \/ /\ PrefixOf(kind, c) = cursor.prefix
          /\ Position(KeyOf(kind, c)) <= cursor.from

Dropped(c) == life[c] \in {"tombstoned", "gone"}

\* A dropped collection is in no listing of the collections.
DroppedSound ==
    \A c \in Collections : Dropped(c) => Load(KeyOf("collection", c)) \in {Absent, Tombstone}

LostSound == \A c \in lost : c \in Collections /\ Dropped(c)

Searching == cmd.name = "collection-meta-leaked" /\ cmd.run /\ ~failed

\* Each key of a lost collection that the walk has passed is gone or about to
\* be removed.
Cleared ==
    \A c \in lost, kind \in LeakKinds :
        Passed(kind, c) => Gone(kind, c) \/ (pc = "exec" /\ Doomable(kind, c))

LeaksPlan ==
    /\ \A m \in Elements(seen) : m.obj.coll \notin lost
    /\ pc = "exec" => resume = "walk"
    /\ pc = "done" => cursor.prefix > 7
    /\ Cleared

LeaksInv == DroppedSound /\ LostSound /\ (Searching => LeaksPlan)

LEMMA LeakKindsKnown == LeakKinds \subseteq AllKinds
  BY DEF LeakKinds, AllKinds, RootKinds, DataKinds

\* What milvus does to the life and the key of a dropped collection.
LEMMA MilvusDropped ==
    ASSUME LiveInv, DroppedSound, MilvusStep
    PROVE  DroppedSound' /\ \A c \in Collections : Dropped(c) => Dropped(c)'
  <1> SUFFICES ASSUME NEW c \in Collections
               PROVE  /\ Dropped(c) => Dropped(c)'
                      /\ Dropped(c)' => Load(KeyOf("collection", c))' \in {Absent, Tombstone}
    BY DEF DroppedSound
  <1> DEFINE k == KeyOf("collection", c)
             Fine(v) == v \in {Absent, Tombstone}
  <1>0. store = [x \in Key |-> store[x]] /\ life \in [Collections -> Lives]
        /\ "collection" \in AllKinds /\ "collection" \in RootKinds
    BY DEF LiveInv, DryInv, AllKinds, RootKinds
  <1>1. Dropped(c) /\ k \in Key => Fine(store[k])
    BY DEF DroppedSound, Load
  <1> SUFFICES /\ Dropped(c) => Dropped(c)'
               /\ Dropped(c)' /\ k \in Key => Fine(store'[k])
    BY DEF Load
  <1> PICK d \in Collections :
        \/ /\ \/ CreateCollection(d) \/ DropCollection(d)
              \/ ExpireTombstones(d) \/ DropSegment(d)
           /\ UNCHANGED <<cmdVars, faults, historyVars>>
        \/ MarkDropping(d) /\ Unstable(d)
        \/ ServeCollection(d) /\ Writes(d, FirstLog)
        \/ \E l \in Logs : FlushLog(d, l) /\ Writes(d, l)
    BY Zenon DEF MilvusStep
  <1>2. ASSUME NEW kinds, kinds \subseteq AllKinds, Puts(d, kinds), c # d, k \in Key
        PROVE  store'[k] = store[k]
    BY <1>0, <1>2, PutsKeys
  <1>3. ASSUME NEW kin \in AllKinds, NEW s, s = [x \in Key |-> s[x]], NEW v,
               c # d \/ kin # "collection", k \in Key
        PROVE  Save(s, KeyOf(kin, d), v)[k] = s[k]
    <2>1. KeyOf(kin, d) # k
      BY <1>0, <1>3, KeysApart
    <2> QED BY <1>3, <2>1, SaveKeeps
  <1>4. CASE CreateCollection(d)
    <2>1. life[d] = "none" /\ life' = [life EXCEPT ![d] = "created"] /\ Puts(d, RootKinds)
      BY <1>4 DEF CreateCollection, Moves
    <2>2. (Dropped(c)' <=> Dropped(c)) /\ (Dropped(c) => c # d)
      BY <1>0, <2>1 DEF Dropped
    <2>3. RootKinds \subseteq AllKinds
      BY DEF AllKinds
    <2> QED BY <1>1, <1>2, <2>1, <2>2, <2>3
  <1>5. CASE ServeCollection(d)
    <2>1. life[d] = "created" /\ life' = [life EXCEPT ![d] = "serving"] /\ Puts(d, DataKinds)
      BY <1>5 DEF ServeCollection, Moves
    <2>2. (Dropped(c)' <=> Dropped(c)) /\ (Dropped(c) => c # d)
      BY <1>0, <2>1 DEF Dropped
    <2>3. DataKinds \subseteq AllKinds
      BY DEF AllKinds
    <2> QED BY <1>1, <1>2, <2>1, <2>2, <2>3
  <1>6. CASE DropCollection(d)
    <2>1. /\ life[d] = "dropping" /\ life' = [life EXCEPT ![d] = "tombstoned"]
          /\ store' = [x \in Key |-> IF OwnedBy(x, RootKinds, d) /\ store[x] # Absent
                                     THEN Tombstone ELSE store[x]]
      BY <1>6 DEF DropCollection, Moves
    <2>2. c # d => (Dropped(c)' <=> Dropped(c))
      BY <1>0, <2>1 DEF Dropped
    <2>3. c = d => Dropped(c)' /\ OwnedBy(k, RootKinds, d)
      BY <1>0, <2>1 DEF Dropped, OwnedBy
    <2> QED BY <1>1, <2>1, <2>2, <2>3
  <1>7. CASE ExpireTombstones(d)
    <2>1. /\ life[d] = "tombstoned" /\ life' = [life EXCEPT ![d] = "gone"]
          /\ store' = [x \in Key |-> IF OwnedBy(x, {"collection", "collection-snapshot"}, d)
                                     THEN Absent ELSE store[x]]
      BY <1>7 DEF ExpireTombstones, Moves
    <2>2. Dropped(c)' <=> Dropped(c)
      BY <1>0, <2>1 DEF Dropped
    <2> QED BY <1>1, <2>1, <2>2
  <1>8. CASE DropSegment(d)
    <2>1. "segment" \in AllKinds /\ "binlog" \in AllKinds
      BY DEF AllKinds, DataKinds
    <2> DEFINE t == Save(store, KeyOf("segment", d), Absent)
    <2>2. k \in Key => t[k] = store[k]
      BY <1>0, <1>3, <2>1
    <2>3. t = [x \in Key |-> t[x]]
      BY <1>0, SaveKeeps
    <2>4. store' = Save(t, KeyOf("binlog", d), Absent) /\ life' = life
      BY <1>8 DEF DropSegment, Remove
    <2> HIDE DEF t
    <2>5. k \in Key => store'[k] = store[k]
      BY <1>3, <2>1, <2>2, <2>3, <2>4
    <2> QED BY <1>1, <2>4, <2>5 DEF Dropped
  <1>9. CASE MarkDropping(d)
    <2>1. /\ life[d] = "serving" /\ life' = [life EXCEPT ![d] = "dropping"]
          /\ store' = Save(store, KeyOf("collection", d), Object("collection", d, "dropping", {}))
      BY <1>9 DEF MarkDropping, Moves
    <2>2. (Dropped(c)' <=> Dropped(c)) /\ (Dropped(c) => c # d)
      BY <1>0, <2>1 DEF Dropped
    <2>3. c # d /\ k \in Key => store'[k] = store[k]
      BY <1>0, <1>3, <2>1
    <2> QED BY <1>1, <2>2, <2>3
  <1>10. CASE \E l \in Logs : FlushLog(d, l)
    <2> PICK l \in Logs : FlushLog(d, l)
      BY <1>10
    <2>1. "binlog" \in AllKinds
      BY DEF AllKinds, DataKinds
    <2>2. life' = life /\
          store' = Save(store, KeyOf("binlog", d),
                        Object("binlog", d, "set", store[KeyOf("binlog", d)].logs \union {l}))
      BY DEF FlushLog
    <2>3. k \in Key => store'[k] = store[k]
      BY <1>0, <1>3, <2>1, <2>2
    <2> QED BY <1>1, <2>2, <2>3 DEF Dropped
  <1> QED BY <1>4, <1>5, <1>6, <1>7, <1>8, <1>9, <1>10, Zenon

\* No deletion brings a dropped collection back.
LEMMA DeletesDropped ==
    ASSUME LiveInv, DroppedSound, Deletes
    PROVE  DroppedSound'
  <1> SUFFICES ASSUME NEW c \in Collections, Dropped(c)', KeyOf("collection", c) \in Key
               PROVE  store'[KeyOf("collection", c)] \in {Absent, Tombstone}
    BY DEF DroppedSound, Load
  <1>1. Dropped(c)
    BY DEF Deletes, Dropped
  <1>2. store[KeyOf("collection", c)] \in {Absent, Tombstone}
    BY <1>1 DEF DroppedSound, Load
  <1>3. "collection" \in AllKinds
    BY DEF AllKinds, RootKinds
  <1> QED BY <1>2, <1>3, DeletesKeys


LEMMA BelowTwo ==
    ASSUME NEW k, Len(k) \in Nat, Len(k) >= 2
    PROVE  HasPrefix(k, <<k[1], k[2]>>)
  BY ShortPrefix

LEMMA BelowThree ==
    ASSUME NEW k, Len(k) \in Nat, Len(k) >= 3
    PROVE  HasPrefix(k, <<k[1], k[2], k[3]>>)
  <1> DEFINE p == <<k[1], k[2], k[3]>>
  <1>1. Len(p) = 3 /\ p[1] = k[1] /\ p[2] = k[2] /\ p[3] = k[3]
    OBVIOUS
  <1> HIDE DEF p
  <1>2. \A i \in 1 .. 3 - 1 : k[i] = p[i]
    BY <1>1
  <1>3. HasPrefix(k, p)
    BY <1>1, <1>2 DEF HasPrefix
  <1> QED BY <1>3 DEF p

LEMMA NotStatslog ==
    ASSUME NEW k, k[1] # "datacoord-meta"
    PROVE  ~HasPrefix(k, <<"datacoord-meta", "statslog">>)
  <1> DEFINE p == <<"datacoord-meta", "statslog">>
  <1>1. Len(p) = 2 /\ p[1] = "datacoord-meta"
    OBVIOUS
  <1> HIDE DEF p
  <1>2. ~HasPrefix(k, p)
    BY <1>1 DEF HasPrefix
  <1> QED BY <1>2 DEF p

\* Where the keys that the walk looks for are.
LEMMA LeakedPlace ==
    ASSUME NEW c \in Collections, NEW kind \in LeakKinds, cmd.name # "segment",
           NEW p, p = WalkPrefixes[PrefixOf(kind, c)], NEW k, k = KeyOf(kind, c)
    PROVE  /\ PrefixOf(kind, c) \in 1 .. 7 /\ Len(WalkPrefixes) = 7
           /\ HasPrefix(k, Join(p))
           /\ ~HasPrefix(k, <<"datacoord-meta", "statslog">>)
           /\ \A j \in Len(p) + 1 .. Len(k) :
                  k[j] \in {c, DbId[c], "100", "100_ts", "p", Segment[c]}
  <1>1. /\ Len(WalkPrefixes) = 7
        /\ WalkPrefixes[1] = <<"root-coord", "collection">>
        /\ WalkPrefixes[2] = <<"root-coord", "database", "collection-info">>
        /\ WalkPrefixes[3] = <<"root-coord", "fields">>
        /\ WalkPrefixes[4] = <<"snapshots", "root-coord", "fields">>
        /\ WalkPrefixes[7] = <<"datacoord-meta", "s">>
    BY DEF WalkPrefixes, CollectionMetaPrefix, DBCollectionMetaPrefix
  <1>2. CASE kind = "collection" /\ DbId[c] = "0"
    <2>1. PrefixOf(kind, c) = 1 /\ k = <<"root-coord", "collection", c>>
      BY <1>2, CollectionKey DEF PrefixOf
    <2>2. p = <<"root-coord", "collection">>
      BY <1>1, <2>1
    <2>3. /\ Len(p) = 2 /\ Len(k) = 3 /\ k[1] = "root-coord" /\ k[2] = "collection"
          /\ k[3] = c
      BY <2>1, <2>2
    <2>4. HasPrefix(k, Join(p))
      <3>1. HasPrefix(k, <<k[1], k[2]>>)
        BY <2>3, BelowTwo
      <3>2. <<k[1], k[2]>> = p /\ Join(p) = p
        BY <2>2, <2>3, NotSlashed
      <3> QED BY <3>1, <3>2
    <2>5. ~HasPrefix(k, <<"datacoord-meta", "statslog">>)
      BY <2>3, NotStatslog
    <2>6. ASSUME NEW j \in Len(p) + 1 .. Len(k)
          PROVE  k[j] \in {c, DbId[c], "100", "100_ts", "p", Segment[c]}
      <3>1. j = 3
        BY <2>3
      <3> QED BY <2>3, <3>1
    <2> QED BY <1>1, <2>1, <2>4, <2>5, <2>6
  <1>3. CASE kind = "collection" /\ DbId[c] # "0"
    <2>1. PrefixOf(kind, c) = 2 /\ k = <<"root-coord", "database", "collection-info", DbId[c], c>>
      BY <1>3, CollectionKey DEF PrefixOf
    <2>2. p = <<"root-coord", "database", "collection-info">>
      BY <1>1, <2>1
    <2>3. /\ Len(p) = 3 /\ Len(k) = 5 /\ k[1] = "root-coord" /\ k[2] = "database" /\ k[3] = "collection-info"
          /\ k[4] = DbId[c] /\ k[5] = c
      BY <2>1, <2>2
    <2>4. HasPrefix(k, Join(p))
      <3>1. HasPrefix(k, <<k[1], k[2], k[3]>>)
        BY <2>3, BelowThree
      <3>2. <<k[1], k[2], k[3]>> = p /\ Join(p) = p
        BY <2>2, <2>3, NotSlashed
      <3> QED BY <3>1, <3>2
    <2>5. ~HasPrefix(k, <<"datacoord-meta", "statslog">>)
      BY <2>3, NotStatslog
    <2>6. ASSUME NEW j \in Len(p) + 1 .. Len(k)
          PROVE  k[j] \in {c, DbId[c], "100", "100_ts", "p", Segment[c]}
      <3>1. j = 4 \/ j = 5
        BY <2>3
      <3> QED BY <2>3, <3>1
    <2> QED BY <1>1, <2>1, <2>4, <2>5, <2>6
  <1>4. CASE kind = "fields"
    <2>1. PrefixOf(kind, c) = 3 /\ k = <<"root-coord", "fields", c, "100">>
      BY <1>4, OtherKeys DEF PrefixOf
    <2>2. p = <<"root-coord", "fields">>
      BY <1>1, <2>1
    <2>3. /\ Len(p) = 2 /\ Len(k) = 4 /\ k[1] = "root-coord" /\ k[2] = "fields"
          /\ k[3] = c /\ k[4] = "100"
      BY <2>1, <2>2
    <2>4. HasPrefix(k, Join(p))
      <3>1. HasPrefix(k, <<k[1], k[2]>>)
        BY <2>3, BelowTwo
      <3>2. <<k[1], k[2]>> = p /\ Join(p) = p
        BY <2>2, <2>3, NotSlashed
      <3> QED BY <3>1, <3>2
    <2>5. ~HasPrefix(k, <<"datacoord-meta", "statslog">>)
      BY <2>3, NotStatslog
    <2>6. ASSUME NEW j \in Len(p) + 1 .. Len(k)
          PROVE  k[j] \in {c, DbId[c], "100", "100_ts", "p", Segment[c]}
      <3>1. j = 3 \/ j = 4
        BY <2>3
      <3> QED BY <2>3, <3>1
    <2> QED BY <1>1, <2>1, <2>4, <2>5, <2>6
  <1>5. CASE kind = "fields-snapshot"
    <2>1. PrefixOf(kind, c) = 4 /\ k = <<"snapshots", "root-coord", "fields", c, "100_ts">>
      BY <1>5, OtherKeys DEF PrefixOf
    <2>2. p = <<"snapshots", "root-coord", "fields">>
      BY <1>1, <2>1
    <2>3. /\ Len(p) = 3 /\ Len(k) = 5 /\ k[1] = "snapshots" /\ k[2] = "root-coord" /\ k[3] = "fields"
          /\ k[4] = c /\ k[5] = "100_ts"
      BY <2>1, <2>2
    <2>4. HasPrefix(k, Join(p))
      <3>1. HasPrefix(k, <<k[1], k[2], k[3]>>)
        BY <2>3, BelowThree
      <3>2. <<k[1], k[2], k[3]>> = p /\ Join(p) = p
        BY <2>2, <2>3, NotSlashed
      <3> QED BY <3>1, <3>2
    <2>5. ~HasPrefix(k, <<"datacoord-meta", "statslog">>)
      BY <2>3, NotStatslog
    <2>6. ASSUME NEW j \in Len(p) + 1 .. Len(k)
          PROVE  k[j] \in {c, DbId[c], "100", "100_ts", "p", Segment[c]}
      <3>1. j = 4 \/ j = 5
        BY <2>3
      <3> QED BY <2>3, <3>1
    <2> QED BY <1>1, <2>1, <2>4, <2>5, <2>6
  <1>6. CASE kind = "segment"
    <2>1. PrefixOf(kind, c) = 7 /\ k = <<"datacoord-meta", "s", c, "p", Segment[c]>>
      BY <1>6, OtherKeys DEF PrefixOf
    <2>2. p = <<"datacoord-meta", "s">>
      BY <1>1, <2>1
    <2>3. /\ Len(p) = 2 /\ Len(k) = 5 /\ k[1] = "datacoord-meta" /\ k[2] = "s"
          /\ k[3] = c /\ k[4] = "p" /\ k[5] = Segment[c]
      BY <2>1, <2>2
    <2>4. HasPrefix(k, Join(p))
      <3>1. HasPrefix(k, <<k[1], k[2]>>)
        BY <2>3, BelowTwo
      <3>2. <<k[1], k[2]>> = p /\ Join(p) = p
        BY <2>2, <2>3, NotSlashed
      <3> QED BY <3>1, <3>2
    <2>5. ~HasPrefix(k, <<"datacoord-meta", "statslog">>)
      <3>1. "statslog" # Empty /\ "statslog" # "s"
        BY DEF Empty
      <3>2. <<"statslog", "s">> \notin Begins
        BY IdsAssumption
      <3> QED BY <2>3, <3>1, <3>2, ShortPrefix
    <2>6. ASSUME NEW j \in Len(p) + 1 .. Len(k)
          PROVE  k[j] \in {c, DbId[c], "100", "100_ts", "p", Segment[c]}
      <3>1. j = 3 \/ j = 4 \/ j = 5
        BY <2>3
      <3> QED BY <2>3, <3>1
    <2> QED BY <1>1, <2>1, <2>4, <2>5, <2>6
  <1> QED BY <1>2, <1>3, <1>4, <1>5, <1>6 DEF LeakKinds

\* A key of a lost collection is taken for leaked: no other id is in it.
LEMMA LostIsLeaked ==
    ASSUME LiveInv, NEW c \in Collections, NEW kind \in LeakKinds, cmd.name # "segment",
           \A m \in Elements(seen) : m.obj.coll # c,
           NEW p, p = WalkPrefixes[PrefixOf(kind, c)], NEW k, k = KeyOf(kind, c)
    PROVE  Leaked(k, p)
  <1>1. /\ ~HasPrefix(k, <<"datacoord-meta", "statslog">>)
        /\ \A j \in Len(p) + 1 .. Len(k) : k[j] \in {c, DbId[c], "100", "100_ts", "p", Segment[c]}
    BY LeakedPlace
  <1>2. ASSUME NEW i \in DOMAIN seen, NEW j \in Len(p) + 1 .. Len(k)
        PROVE  k[j] # seen[i].obj.coll
    <2> DEFINE d == seen[i].obj.coll
    <2>1. seen[i] \in Elements(seen)
      BY DEF Elements
    <2>2. d \in Collections /\ d # c
      BY <2>1 DEF LiveInv, SeenSound, Row
    <2> HIDE DEF d
    <2>3. d \notin {DbId[c], "100", "100_ts", "p", Segment[c]}
      BY <2>2, IdsAssumption
    <2>4. k[j] # d
      BY <1>1, <2>2, <2>3
    <2> QED BY <2>4 DEF d
  <1> QED BY <1>1, <1>2, Zenon DEF Leaked

\* What the walk decides on for a page.
LEMMA LeakedOps ==
    ASSUME cmd.name = "collection-meta-leaked", NEW page, IsSeq(page), NEW p,
           NEW k \in Elements(page), Leaked(k, p)
    PROVE  RemoveOp(k, Abort) \in Elements(PageOps(page, p))
  <1> DEFINE S == {x \in Elements(page) : Leaked(x, p)}
             rows == Filter(page, S)
             ops == [i \in DOMAIN rows |-> RemoveOp(rows[i], Abort)]
  <1>1. PageOps(page, p) = ops
    BY DEF PageOps, Where, MapSeq
  <1>2. IsSeq(rows) /\ Elements(rows) = Elements(page) \cap S
    BY FilterIsSeq
  <1>3. k \in Elements(rows)
    BY <1>2
  <1> HIDE DEF rows
  <1>4. PICK i \in DOMAIN rows : rows[i] = k
    BY <1>3 DEF Elements
  <1>5. ops[i] = RemoveOp(k, Abort) /\ i \in DOMAIN ops
    BY <1>4
  <1> HIDE DEF ops
  <1> QED BY <1>1, <1>5 DEF Elements

-----------------------------------------------------------------------------
(* The steps of the search. *)

\* A call that changes neither the store nor what the command knows of it.
LEMMA SameLeaks ==
    ASSUME UNCHANGED <<store, life, lost>>
    PROVE  /\ DroppedSound' <=> DroppedSound
           /\ LostSound' <=> LostSound
           /\ \A kind, c : Gone(kind, c)' <=> Gone(kind, c)
           /\ \A c : Dropped(c)' <=> Dropped(c)
  BY DEF DroppedSound, LostSound, Gone, Load, Dropped

LEMMA PassedSame ==
    ASSUME UNCHANGED cursor, NEW kind, NEW c
    PROVE  Passed(kind, c)' <=> Passed(kind, c)
  BY DEF Passed

\* Where a key stands in the walk.
LEMMA LeakedPosition ==
    ASSUME NEW c \in Collections, NEW kind \in LeakKinds, KeyOf(kind, c) \in Key
    PROVE  PrefixOf(kind, c) \in 1 .. 7 /\ Position(KeyOf(kind, c)) \in Nat \ {0}
  <1>1. PrefixOf(kind, c) \in 1 .. 7
    BY DEF PrefixOf, LeakKinds
  <1>2. Position(KeyOf(kind, c)) \in 1 .. Len(KeyOrder) /\ Len(KeyOrder) \in Nat
    BY Positions
  <1> QED BY <1>1, <1>2

\* No listing of the collections has a dropped one.
LEMMA NoneLost ==
    ASSUME LiveInv, LeaksInv, NEW p, p \in {CollectionMetaPrefix, DBCollectionMetaPrefix},
           NEW m \in Elements(ListObj2Models(p))
    PROVE  m.obj.coll \notin lost
  <1>1. PICK k \in Key, v \in Key :
            /\ HasPrefix(v, p) /\ store[v] # Absent /\ store[v] # Tombstone /\ m.obj = store[v]
    BY RowsListed, Zenon
  <1>2. PICK c \in Collections : v = KeyOf("collection", c)
    BY <1>1, UnderPrefixes
  <1>3. store[v].coll = c
    BY <1>1, <1>2 DEF LiveInv, ValuesSound, Sound, LiveKinds
  <1>4. c \notin lost
    BY <1>1, <1>2 DEF LeaksInv, LostSound, DroppedSound, Load
  <1> QED BY <1>1, <1>3, <1>4

LEMMA LeaksStart ==
    ASSUME LiveInv, LeaksInv, NEW i \in Invocations, Start(i)
    PROVE  LeaksInv'
  <1>1. /\ UNCHANGED <<store, life>> /\ cmd' = i /\ pc' = FirstCall(i) /\ seen' = <<>>
        /\ cursor' = [prefix |-> 1, from |-> 0]
        /\ lost' = {c \in Collections : life[c] \in {"tombstoned", "gone"}}
    BY DEF Start, milvusVars
  <1>2. DroppedSound'
    BY <1>1 DEF LeaksInv, DroppedSound, Dropped, Load
  <1>3. LostSound'
    BY <1>1 DEF LostSound, Dropped
  <1>4. ASSUME Searching' PROVE LeaksPlan'
    <2>1. pc' = "collections"
      BY <1>1, <1>4, FirstPlace DEF Searching
    <2>2. \A c \in Collections, kind \in LeakKinds : ~Passed(kind, c)'
      <3> SUFFICES ASSUME NEW c \in Collections, NEW kind \in LeakKinds, KeyOf(kind, c) \in Key
                   PROVE  ~(PrefixOf(kind, c) < 1) /\ ~(Position(KeyOf(kind, c)) <= 0)
        BY <1>1 DEF Passed
      <3> QED BY LeakedPosition
    <2>3. \A m \in Elements(seen') : FALSE
      BY <1>1, EmptyElements
    <2> QED BY <1>1, <2>1, <2>2, <2>3 DEF LeaksPlan, Cleared
  <1> QED BY <1>2, <1>3, <1>4 DEF LeaksInv

LEMMA LeaksMilvus ==
    ASSUME LiveInv, LeaksInv, MilvusStep
    PROVE  LeaksInv'
  <1> PICK d \in Collections :
        \/ /\ \/ CreateCollection(d) \/ DropCollection(d)
              \/ ExpireTombstones(d) \/ DropSegment(d)
           /\ UNCHANGED <<cmdVars, faults, historyVars>>
        \/ MarkDropping(d) /\ Unstable(d)
        \/ ServeCollection(d) /\ Writes(d, FirstLog)
        \/ \E l \in Logs : FlushLog(d, l) /\ Writes(d, l)
    BY Zenon DEF MilvusStep
  <1>1. UNCHANGED <<cmd, pc, seen, cursor, todo, resume, failed, lost>>
    BY Zenon DEF Unstable, Writes, historyVars, cmdVars
  <1>2. DroppedSound' /\ \A c \in Collections : Dropped(c) => Dropped(c)'
    BY MilvusDropped DEF LeaksInv
  <1>3. LostSound'
    BY <1>1, <1>2 DEF LeaksInv, LostSound
  <1>4. ASSUME Searching' PROVE LeaksPlan'
    <2>1. Searching
      BY <1>1, <1>4 DEF Searching
    <2>2. LeaksPlan
      BY <2>1 DEF LeaksInv
    <2>3. ASSUME NEW c \in lost, NEW kind \in LeakKinds, Passed(kind, c)'
          PROVE  Gone(kind, c)' \/ (pc = "exec" /\ Doomable(kind, c))'
      <3>1. c \in Collections /\ Doomed(c)
        BY <2>3 DEF LeaksInv, LostSound, Dropped, Doomed
      <3>2. Passed(kind, c)
        BY <1>1, <2>3, PassedSame
      <3>3. Gone(kind, c) \/ (pc = "exec" /\ Doomable(kind, c))
        BY <2>2, <3>2 DEF LeaksPlan, Cleared
      <3>4. Gone(kind, c) => Gone(kind, c)'
        BY <3>1, LeakKindsKnown, MilvusGone
      <3>5. Doomable(kind, c)' <=> Doomable(kind, c)
        BY <1>1 DEF Doomable
      <3> QED BY <1>1, <3>3, <3>4, <3>5
    <2> QED BY <1>1, <2>2, <2>3 DEF LeaksPlan, Cleared
  <1> QED BY <1>2, <1>3, <1>4 DEF LeaksInv

\* A listing of the collections takes nothing away and adds no lost one.
LEMMA LeaksListing ==
    ASSUME LiveInv, LeaksInv, UNCHANGED <<store, life, lost, cmd, failed, cursor>>,
           pc # "exec", pc' \notin {"exec", "done"},
           Searching => \A m \in Elements(seen') : m.obj.coll \notin lost
    PROVE  LeaksInv'
  <1>1. DroppedSound' /\ LostSound' /\ \A kind, c : Gone(kind, c)' <=> Gone(kind, c)
    BY SameLeaks DEF LeaksInv
  <1>2. ASSUME Searching' PROVE LeaksPlan'
    <2>1. Searching
      BY <1>2 DEF Searching
    <2>2. Cleared
      BY <2>1 DEF LeaksInv, LeaksPlan
    <2>3. \A c \in lost, kind \in LeakKinds : Passed(kind, c) => Gone(kind, c)
      BY <2>2 DEF Cleared
    <2>4. \A c \in lost, kind \in LeakKinds : Passed(kind, c)' => Gone(kind, c)'
      BY <1>1, <2>3, PassedSame
    <2> QED BY <2>1, <2>4 DEF LeaksPlan, Cleared
  <1> QED BY <1>1, <1>2 DEF LeaksInv

LEMMA LeaksReadCollections ==
    ASSUME LiveInv, LeaksInv, ReadCollections
    PROVE  LeaksInv'
  <1>1. /\ pc = "collections" /\ pc' = "db-collections"
        /\ UNCHANGED <<store, life, lost, cmd, failed, cursor>>
        /\ seen' = Where(ListObj2Models(CollectionMetaPrefix), Wanted)
    BY DEF ReadCollections, ReadOnly, milvusVars
  <1> DEFINE rows == ListObj2Models(CollectionMetaPrefix)
  <1>2. Elements(seen') \subseteq Elements(rows)
    <2>1. IsSeq(rows)
      BY RowsListed
    <2> HIDE DEF rows
    <2> DEFINE S == {m \in Elements(rows) : Wanted(m)}
    <2>2. seen' = Filter(rows, S)
      BY <1>1, Zenon DEF Where, rows
    <2> HIDE DEF S
    <2> QED BY <2>1, <2>2, FilterIsSeq
  <1>3. \A m \in Elements(seen') : m.obj.coll \notin lost
    BY <1>2, NoneLost
  <1> QED BY <1>1, <1>3, LeaksListing

LEMMA LeaksReadDBCollections ==
    ASSUME LiveInv, LeaksInv, ReadDBCollections
    PROVE  LeaksInv'
  <1>1. /\ pc = "db-collections" /\ pc' \notin {"exec", "done"}
        /\ UNCHANGED <<store, life, lost, cmd, failed, cursor>>
        /\ cmd.name = "collection-meta-leaked" => seen' = AllSeen
    BY DEF ReadDBCollections, ReadOnly, milvusVars
  <1> DEFINE rows == ListObj2Models(DBCollectionMetaPrefix)
             S == {m \in Elements(rows) : Wanted(m)}
             added == Filter(rows, S)
  <1>2. IsSeq(added) /\ Elements(added) \subseteq Elements(rows)
    <2>1. IsSeq(rows)
      BY RowsListed
    <2> HIDE DEF rows, S
    <2> QED BY <2>1, FilterIsSeq
  <1>3. AllSeen = seen \o added
    BY Zenon DEF AllSeen, Where
  <1> HIDE DEF added
  <1>4. Elements(AllSeen) = Elements(seen) \cup Elements(added)
    BY <1>2, <1>3, ConcatElements DEF LiveInv, SeenSound
  <1>5. ASSUME Searching PROVE \A m \in Elements(seen') : m.obj.coll \notin lost
    <2>1. \A m \in Elements(seen) : m.obj.coll \notin lost
      BY <1>5 DEF LeaksInv, LeaksPlan
    <2>2. \A m \in Elements(rows) : m.obj.coll \notin lost
      BY NoneLost
    <2> QED BY <1>1, <1>2, <1>4, <1>5, <2>1, <2>2 DEF Searching
  <1> QED BY <1>1, <1>5, LeaksListing

LEMMA LeaksWalkPage ==
    ASSUME LiveInv, LeaksInv, WalkPage
    PROVE  LeaksInv'
  <1>1. pc = "walk" /\ UNCHANGED <<store, life, lost, cmd, failed, seen>>
    BY DEF WalkPage, ReadOnly, milvusVars
  <1>2. DroppedSound' /\ LostSound' /\ \A kind, c : Gone(kind, c)' <=> Gone(kind, c)
    BY <1>1, SameLeaks DEF LeaksInv
  <1> SUFFICES ASSUME Searching' PROVE LeaksPlan'
    BY <1>2 DEF LeaksInv
  <1>3. Searching /\ cmd.name = "collection-meta-leaked" /\ cmd.run /\ cmd.name # "segment"
    BY <1>1 DEF Searching
  <1>4. LeaksPlan /\ LostSound
    BY <1>3 DEF LeaksInv
  <1>5. Len(WalkPrefixes) = 7
    BY <1>3 DEF WalkPrefixes
  <1>6. cursor \in [prefix : Nat \ {0}, from : Nat]
    BY DEF LiveInv
  <1>7. \A c \in lost, kind \in LeakKinds : Passed(kind, c) => Gone(kind, c)
    BY <1>1, <1>4 DEF LeaksPlan, Cleared
  <1>8. CASE cursor.prefix > Len(WalkPrefixes)
    <2>1. pc' = "done" /\ UNCHANGED cursor
      BY <1>8 DEF WalkPage
    <2>2. Cleared'
      BY <1>1, <1>2, <1>7, <2>1, PassedSame DEF Cleared
    <2> QED BY <1>1, <1>4, <1>5, <1>8, <2>1, <2>2 DEF LeaksPlan
  <1>9. CASE ~(cursor.prefix > Len(WalkPrefixes))
    <2> DEFINE n == cursor.prefix
               from == cursor.from
               p == WalkPrefixes[n]
               page == Page(p, from, PageSize)
               more == Len(WalkRest(p, from)) > Len(page)
               ops == PageOps(page, p)
    <2>1. /\ Decide(ops, "walk")
          /\ cursor' = IF more THEN [cursor EXCEPT !.from = Position(page[Len(page)])]
                       ELSE [prefix |-> n + 1, from |-> 0]
      BY <1>9, Zenon DEF WalkPage
    <2>2. n \in Nat \ {0} /\ from \in Nat
      BY <1>6
    <2> HIDE DEF n, from, p, page, ops
    <2>3. todo' = ops /\ resume' = "walk" /\ pc' = "exec"
      BY <1>3, <2>1 DEF Decide
    <2>4. IsSeq(page)
      BY <2>2, PageKeys DEF page
    <2>5. ASSUME NEW c \in lost, NEW kind \in LeakKinds, Passed(kind, c)'
          PROVE  Gone(kind, c) \/ Doomable(kind, c)'
      <3> DEFINE k == KeyOf(kind, c)
                 f == PrefixOf(kind, c)
                 last == Position(page[Len(page)])
      <3>1. c \in Collections
        BY <1>4, <2>5 DEF LostSound
      <3>2. k \in Key /\ (f < cursor'.prefix \/ (f = cursor'.prefix /\ Position(k) <= cursor'.from))
        BY <2>5 DEF Passed
      <3>3. f \in 1 .. 7 /\ Position(k) \in Nat \ {0}
        BY <3>1, <3>2, LeakedPosition
      <3>4. CASE Passed(kind, c)
        BY <1>7, <2>5, <3>4
      <3>5. CASE ~Passed(kind, c)
        <4>1. ~(f < n) /\ ~(f = n /\ Position(k) <= from)
          BY <3>2, <3>5 DEF Passed, n, from
        <4> HIDE DEF k, f, last
        <4>2. f = n /\ Position(k) > from /\ (more => Position(k) <= last)
          <5>1. CASE more
            <6>1. cursor'.prefix = n /\ cursor'.from = last
              BY <1>6, <2>1, <5>1 DEF n, last
            <6> QED BY <2>2, <3>2, <3>3, <4>1, <6>1
          <5>2. CASE ~more
            <6>1. cursor'.prefix = n + 1 /\ cursor'.from = 0
              BY <2>1, <5>2
            <6> QED BY <2>2, <3>2, <3>3, <4>1, <5>2, <6>1
          <5> QED BY <5>1, <5>2
        <4>3. p = WalkPrefixes[f]
          BY <4>2 DEF p
        <4>4. CASE store[k] = Absent
          BY <4>4 DEF Gone, Load, k
        <4>5. CASE store[k] # Absent
          <5>1. HasPrefix(k, Join(p))
            BY <1>3, <3>1, <4>3, LeakedPlace DEF k, f
          <5>2. Leaked(k, p)
            <6>1. \A m \in Elements(seen) : m.obj.coll # c
              BY <1>4, <2>5 DEF LeaksPlan
            <6> QED BY <1>3, <3>1, <4>3, <6>1, LostIsLeaked DEF k, f
          <5>3. k \in Elements(page)
            BY <2>2, <3>2, <4>2, <4>5, <5>1, PageComplete DEF page, last
          <5>4. RemoveOp(k, Abort) \in Elements(ops)
            BY <1>3, <2>4, <5>2, <5>3, LeakedOps DEF ops
          <5>5. Hits(RemoveOp(k, Abort), k)
            BY OpFields DEF Hits
          <5> QED BY <2>3, <5>4, <5>5 DEF Doomable, k
        <4> QED BY <4>4, <4>5
      <3> QED BY <3>4, <3>5
    <2>6. Cleared'
      BY <1>1, <1>2, <2>3, <2>5 DEF Cleared
    <2> QED BY <1>1, <1>4, <2>3, <2>6 DEF LeaksPlan
  <1> QED BY <1>8, <1>9

LEMMA LeaksExec ==
    ASSUME LiveInv, LeaksInv, Exec
    PROVE  LeaksInv'
  <1> DEFINE o == Head(todo)
  <1>1. /\ pc = "exec" /\ todo # <<>> /\ store' = Apply(store, o) /\ todo' = Tail(todo)
        /\ UNCHANGED <<life, stable, cmd, pc, seen, cursor, resume, failed, misread, lost>>
    BY DEF Exec, historyVars
  <1>2. o \in Elements(todo) /\ Elements(todo) = {o} \cup Elements(Tail(todo))
    BY <1>1, TailElements DEF LiveInv, PlanSound
  <1>3. Planned(o)
    BY <1>2 DEF LiveInv, PlanSound
  <1>a. Deletes
    BY <1>1 DEF Deletes
  <1> HIDE DEF o
  <1>4. DroppedSound' /\ LostSound'
    BY <1>1, <1>a, DeletesDropped DEF LeaksInv, LostSound, Dropped
  <1>5. ASSUME Searching' PROVE LeaksPlan'
    <2>1. Searching /\ cmd.name # "binlog"
      BY <1>1, <1>5 DEF Searching
    <2>2. LeaksPlan
      BY <2>1 DEF LeaksInv
    <2>3. ASSUME NEW c \in lost, NEW kind \in LeakKinds, Passed(kind, c)'
          PROVE  Gone(kind, c)' \/ Doomable(kind, c)'
      <3> DEFINE k == KeyOf(kind, c)
      <3>1. c \in Collections /\ kind \in AllKinds
        BY <2>3, LeakKindsKnown DEF LeaksInv, LostSound
      <3>2. Gone(kind, c) \/ Doomable(kind, c)
        <4>1. Passed(kind, c)
          BY <1>1, <2>3, PassedSame
        <4> QED BY <2>2, <4>1 DEF LeaksPlan, Cleared
      <3>3. CASE k \notin Key
        BY <3>3 DEF Gone, Load
      <3>4. CASE k \in Key /\ Gone(kind, c)
        <4>1. store[k] = Absent
          BY <3>4 DEF Gone, Load
        <4>2. Apply(store, o)[k] = Absent
          BY <1>3, <2>1, <3>1, <3>4, <4>1, ApplyHits
        <4> QED BY <1>1, <3>4, <4>2 DEF Gone, Load
      <3>5. CASE k \in Key /\ Hits(o, k)
        <4>1. Apply(store, o)[k] = Absent
          BY <1>3, <3>5, HitGone
        <4> QED BY <1>1, <3>5, <4>1 DEF Gone, Load
      <3>6. CASE Doomable(kind, c) /\ ~Hits(o, k)
        <4>1. PICK x \in Elements(todo) : Hits(x, k)
          BY <3>6 DEF Doomable
        <4>2. x \in Elements(Tail(todo))
          BY <1>2, <3>6, <4>1
        <4> QED BY <1>1, <4>1, <4>2 DEF Doomable
      <3> QED BY <3>2, <3>3, <3>4, <3>5, <3>6
    <2>4. Cleared'
      BY <1>1, <2>3 DEF Cleared
    <2> QED BY <1>1, <2>2, <2>4 DEF LeaksPlan
  <1> QED BY <1>4, <1>5 DEF LeaksInv

LEMMA LeaksResume ==
    ASSUME LiveInv, LeaksInv, Resume
    PROVE  LeaksInv'
  <1>1. /\ pc = "exec" /\ todo = <<>> /\ pc' = resume
        /\ UNCHANGED <<store, life, lost, cmd, seen, cursor, failed>>
    BY DEF Resume, historyVars, milvusVars
  <1>2. DroppedSound' /\ LostSound' /\ \A kind, c : Gone(kind, c)' <=> Gone(kind, c)
    BY <1>1, SameLeaks DEF LeaksInv
  <1>3. ASSUME Searching' PROVE LeaksPlan'
    <2>1. Searching
      BY <1>1, <1>3 DEF Searching
    <2>2. LeaksPlan /\ resume = "walk"
      BY <1>1, <2>1 DEF LeaksInv, LeaksPlan
    <2>3. \A kind, c : ~Doomable(kind, c)
      BY <1>1, EmptyElements DEF Doomable
    <2>4. \A c \in lost, kind \in LeakKinds : Passed(kind, c) => Gone(kind, c)
      BY <2>2, <2>3 DEF LeaksPlan, Cleared
    <2>5. \A c \in lost, kind \in LeakKinds : Passed(kind, c)' => Gone(kind, c)'
      BY <1>1, <1>2, <2>4, PassedSame
    <2>6. Cleared'
      BY <1>1, <2>5 DEF Cleared
    <2> QED BY <1>1, <2>2, <2>6 DEF LeaksPlan
  <1> QED BY <1>2, <1>3 DEF LeaksInv

\* Every step keeps the invariant.
LEMMA LeaksNext == LiveInv /\ LeaksInv /\ [Next]_vars => LeaksInv'
  <1> SUFFICES ASSUME LiveInv, LeaksInv, [Next]_vars PROVE LeaksInv'
    OBVIOUS
  <1>1. CASE \E i \in Invocations : Start(i)
    BY <1>1, LeaksStart
  <1>2. CASE MilvusStep
    BY <1>2, LeaksMilvus
  <1>3. CASE ReadCollections \/ ReadDBCollections
    BY <1>3, LeaksReadCollections, LeaksReadDBCollections
  <1>4. CASE WalkPage \/ Exec \/ Resume
    BY <1>4, LeaksWalkPage, LeaksExec, LeaksResume
  <1>5. CASE ReadFails
    <2>1. failed' /\ UNCHANGED <<store, life, lost>>
      BY <1>5 DEF ReadFails, milvusVars
    <2> QED BY <2>1, SameLeaks DEF LeaksInv, Searching
  <1>6. CASE ExecFails
    <2>1. failed' /\ UNCHANGED <<life, lost>> /\ Deletes
      BY <1>6 DEF ExecFails, Deletes
    <2>2. DroppedSound'
      BY <2>1, DeletesDropped DEF LeaksInv
    <2> QED BY <2>1, <2>2 DEF LeaksInv, LostSound, Dropped, Searching
  <1>7. CASE \/ ReadWatches \/ ReadCheckpoints \/ CleanCollection \/ WalkUnreadable
             \/ ReadSegments \/ EndGroups \/ RemoveOrphans
             \/ \E c \in Collections : OrphanGroup(c) \/ RemoveDirty(c)
             \/ ListObjects \/ BackupBinlog \/ RemoveBinlog \/ RestoreBinlog
    <2>1. /\ cmd' = cmd /\ UNCHANGED <<store, life, lost>>
          /\ \/ pc \in {"watches", "checkpoints", "clean", "segments", "groups", "list",
                         "backup", "reload", "restore"}
             \/ cmd.name \in {"segment-orphan", "segment"}
      BY <1>7, Zenon DEF ReadWatches, ReadCheckpoints, CleanCollection, WalkUnreadable, ReadSegments,
         EndGroups, RemoveOrphans, OrphanGroup, RemoveDirty, ListObjects, BackupBinlog, RemoveBinlog,
         RestoreBinlog, ReadOnly, milvusVars
    <2>2. cmd.name # "collection-meta-leaked"
      BY <2>1 DEF LiveInv, Places, CommandsAt
    <2> QED BY <2>1, <2>2, SameLeaks DEF LeaksInv, Searching
  <1>8. CASE UNCHANGED vars
    <2>1. UNCHANGED <<store, life, lost, cmd, failed, seen, pc, resume, cursor, todo>>
      BY <1>8 DEF vars, milvusVars, cmdVars, historyVars
    <2>2. (Searching' <=> Searching) /\ (LeaksPlan' <=> LeaksPlan)
      BY <2>1 DEF Searching, LeaksPlan, Cleared, Passed, Gone, Load, Doomable
    <2> QED BY <2>1, <2>2, SameLeaks DEF LeaksInv
  <1> QED BY <1>1, <1>2, <1>3, <1>4, <1>5, <1>6, <1>7, <1>8, Zenon DEF Next, CommandStep

\* A collection-meta-leaked in which no call failed leaves no key of a
\* collection that was dropped before it started under the prefixes it walks
\* (LeaksCleaned), although it deletes from the range it pages through and
\* milvus goes on between its calls: for every page size and order of the keys.
THEOREM NoLeakIsLeft == Spec => []LeaksCleaned
  <1>1. Init => LeaksInv
    <2> SUFFICES ASSUME Init PROVE LeaksInv
      OBVIOUS
    <2>1. ~Searching /\ LostSound
      BY DEF Init, Searching, NoCommand, LostSound
    <2>2. ASSUME NEW c \in Collections, Dropped(c), KeyOf("collection", c) \in Key
          PROVE  store[KeyOf("collection", c)] \in {Absent, Tombstone}
      <3>1. "collection" \in AllKinds /\ "collection" \in RootKinds /\ "collection" \notin DataKinds
        BY DEF AllKinds, RootKinds, DataKinds
      <3>2. store[KeyOf("collection", c)] = ValueAt("collection", c, life[c])
        BY <2>2, <3>1, InitialKey DEF Init
      <3> QED BY <2>2, <3>1, <3>2 DEF ValueAt, Dropped
    <2> QED BY <2>1, <2>2 DEF LeaksInv, DroppedSound, Load
  <1>2. LiveInv /\ LeaksInv => LeaksCleaned
    <2> SUFFICES ASSUME LiveInv, LeaksInv, Searching, pc = "done", NEW c \in lost, NEW kind \in LeakKinds
                 PROVE  Gone(kind, c)
      BY Zenon DEF LeaksCleaned, LeakedDone, Searching, LeakKinds, Gone
    <2>1. LeaksPlan /\ c \in Collections
      BY DEF LeaksInv, LostSound
    <2>2. CASE KeyOf(kind, c) \notin Key
      BY <2>2 DEF Gone, Load
    <2>3. CASE KeyOf(kind, c) \in Key
      <3>1. PrefixOf(kind, c) \in 1 .. 7
        BY <2>1, <2>3, LeakedPosition
      <3>2. cursor.prefix > 7 /\ cursor.prefix \in Nat
        BY <2>1 DEF LeaksPlan, LiveInv
      <3>3. PrefixOf(kind, c) < cursor.prefix
        BY <3>1, <3>2
      <3> QED BY <2>1, <2>3, <3>3 DEF LeaksPlan, Cleared, Passed
    <2> QED BY <2>2, <2>3
  <1> QED BY <1>1, <1>2, LiveInvariant, LeaksNext, PTL DEF Spec
=============================================================================
