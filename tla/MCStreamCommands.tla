-------------------------- MODULE MCStreamCommands --------------------------
(***************************************************************************)
(* A primary cluster with channels a and c, and secondaries with b, whose  *)
(* messages are replicas; shards v1, v10 and v2 with checkpoints.          *)
(***************************************************************************)
EXTENDS StreamCommands, TLC

Own(type, id) == [type |-> type, id |-> id, rid |-> NoMsg]
Copy(type, id, rid) == [type |-> type, id |-> id, rid |-> rid]
Tick == Own("TimeTick", 0)

A == <<"a", "mq1">>
B == <<"b", "mq2">>
C == <<"c", "mq1">>
A2 == <<"a", "mq2">>      \* the same name at another address

Primary == <<Tick, Own("Insert", 1), Own("Delete", 2), Tick, Own("AlterReplicateConfig", 3)>>
Follower == <<Copy("Insert", 5, 1), Tick, Copy("Delete", 6, 2), Own("AlterReplicateConfig", 7)>>
Lagging == <<Copy("Insert", 2, 1), Tick, Tick>>
Diverged == <<Copy("Insert", 5, 1), Tick, Copy("Insert", 6, 2)>>
Reordered == <<Copy("Delete", 1, 2), Copy("Insert", 2, 1)>>

Wals(b, c) == A :> Primary @@ B :> b @@ C :> c @@ A2 :> Reordered
Cmp(chs, wal) == [name |-> "cmp_pchannels", chs |-> chs, wal |-> wal]
V2(chs, limit) == [name |-> "consumev2", chs |-> chs, wal |-> "Pulsar", limit |-> limit]
V1(start, manual, mq, shard, detail) ==
    [name |-> "consume", chs |-> <<>>, start |-> start, mq |-> mq, shard |-> shard,
     detail |-> detail, manual |-> manual]

Msg(type, shard, shape) == [type |-> type, shard |-> shard, shape |-> shape]
Topic == <<Msg("Insert", "v1", "good"), Msg("TimeTick", "", "good"),
           Msg("Delete", "v2", "good"), Msg("Insert", "v1", "short")>>
Scene(c, wals, t, cps, wkafka) ==
    [cmd |-> c, wals |-> wals, topic |-> t, cps |-> cps, wkafka |-> wkafka]

CmpScenes ==
    {Scene(Cmp(<<A, B>>, "Pulsar"), Wals(b, Lagging), <<>>, <<>>, FALSE) :
        b \in {Follower, Lagging, Diverged, Reordered, <<>>}}
    \cup {Scene(Cmp(<<A, B, C>>, "Kafka"), Wals(Follower, c), <<>>, <<>>, TRUE) : c \in {Lagging, Diverged}}
    \cup {Scene(Cmp(chs, wal), Wals(Follower, Lagging), <<>>, <<>>, FALSE) :
            chs \in {<<A>>, <<A, A2>>}, wal \in {"Pulsar", "Kafka", "RocksMQ"}}
    \cup {Scene(Cmp(<<A, B>>, wal), Wals(Follower, Lagging), <<>>, <<>>, FALSE) : wal \in {"Kafka", "RocksMQ"}}
V2Scenes ==
    {Scene(V2(chs, limit), Wals(Follower, Lagging), <<>>, <<>>, FALSE) :
        chs \in {<<>>, <<A>>}, limit \in {-1, 0, 1, 2, NotANumber}}
V1Scenes ==
    {Scene(V1(start, 1, mq, shard, detail), <<>>, t, cps, wkafka) :
        start \in {"cp", "manual", "earliest"}, mq \in {"pulsar", "kafka"},
        shard \in {"", "v1"}, detail \in BOOLEAN,
        t \in {<<>>, SubSeq(Topic, 1, 1), Topic, <<Topic[1], Msg("Insert", "v1", "unreadable"), Topic[3]>>,
               <<Topic[1], Msg("Insert", "v2", "dimensionless"), Topic[3]>>},
        cps \in {<<>>, "v1" :> 2 @@ "v10" :> 1, "v10" :> 1}, wkafka \in BOOLEAN}
    \cup {Scene(V1("manual", offset, "kafka", "", FALSE), <<>>, Topic, <<>>, TRUE) : offset \in {-2, -1, 4, 9}}

AllScenes == CmpScenes \cup V2Scenes \cup V1Scenes
Beginnings == "" :> {"v1", "v10", "v2"} @@ "v1" :> {"v1", "v10"}
Controlled == {"TimeTick"}
=============================================================================
