-------------------------- MODULE MCRemoveCommands --------------------------
(* Three collections; the id of the first begins the id of the second.     *)
EXTENDS RemoveCommands, TLC

MCCollections == {"1", "12", "3"}
MCDbId     == [c \in MCCollections |-> IF c = "3" THEN "9" ELSE "0"]
OneDb      == [c \in MCCollections |-> "0"]
MCChannel  == "1" :> "ch1" @@ "12" :> "ch12" @@ "3" :> "ch3"
MCSegment  == "1" :> "s1" @@ "12" :> "s12" @@ "3" :> "s3"
MCSnapshot == "1" :> "1_ts" @@ "12" :> "12_ts" @@ "3" :> "3_ts"
MCBegins   == {<<"1", "12">>, <<"1", "1_ts">>, <<"1", "12_ts">>,
               <<"12", "12_ts">>, <<"3", "3_ts">>, <<"100", "100_ts">>,
               <<"s", "session">>, <<"s", "snapshots">>, <<"s", "stats-task">>,
               <<"s", "statslog">>, <<"collection", "collection-info">>,
               <<"ch1", "ch12">>, <<"s1", "s12">>}

Three(kind) == <<KeyOf(kind, "1"), KeyOf(kind, "12"), KeyOf(kind, "3")>>

MCKeyOrder ==
    <<BackupKey("3")>> \o Three("watch") \o <<ConfigKey, KeyOf("binlog", "3")>>
    \o Three("checkpoint")
    \o <<KeyOf("removal", "1"), KeyOf("compaction-task", "1"), JobKey>>
    \o Three("segment") \o <<KeyOf("stats-task", "1"), KeyOf("index", "12")>>
    \o Three("collection") \o Three("fields")
    \o <<KeyOf("partitions", "1"), KeyOf("partitions", "12"), SessionKey,
         KeyOf("collection-snapshot", "12"), KeyOf("collection-snapshot", "1"),
         KeyOf("fields-snapshot", "1"), KeyOf("fields-snapshot", "12")>>

Life(a, b, c) == "1" :> a @@ "12" :> b @@ "3" :> c
MCLives == {Life("dropping", "serving", "none"),
            Life("gone", "created", "serving")}
DropLives == {Life("tombstoned", "serving", "dropping")}

Invoke(name, arg, mode, runs) ==
    {[name |-> name, arg |-> arg, mode |-> mode, run |-> r] : r \in runs}

MCInvocations ==
    UNION {Invoke("channel", "", "", {TRUE}),
           Invoke("channel", "ch12", "force", {TRUE}),
           Invoke("collection-meta-leaked", "", "", BOOLEAN),
           Invoke("collection-drop", "", "", {TRUE}),
           Invoke("collection-drop", "1", "", {FALSE}),
           Invoke("segment-orphan", "", "", {TRUE}),
           Invoke("dirty-importing-segment", "", "", {TRUE}),
           Invoke("segment", "", "", {TRUE}),
           Invoke("compaction", "1", "", {TRUE}),
           Invoke("stats-task", "1", "", {TRUE}),
           Invoke("index", "12", "", {TRUE}),
           Invoke("import-job", "", "", {TRUE}),
           Invoke("session", "", "", {TRUE}),
           Invoke("etcd-config", "", "", {TRUE}),
           Invoke("binlog", "3", "one", BOOLEAN),
           Invoke("binlog", "3", "all", {TRUE}),
           Invoke("binlog", "3", "restore", {TRUE})}

DropInvocations == Invoke("collection-drop", "", "", {TRUE})
=============================================================================
