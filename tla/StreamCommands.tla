--------------------------- MODULE StreamCommands ---------------------------
(***************************************************************************)
(* The commands that read message streams: cmp_pchannels compares the      *)
(* physical channels of replicated clusters round by round, consumev2      *)
(* prints one channel, consume reads a topic through the consumers of mq   *)
(* up to the message that was the last when it asked.                      *)
(*                                                                         *)
(* Each physical channel is read by a WAL scanner (module WalScanner) of   *)
(* which only the promise is kept here: it offers the messages of its      *)
(* channel one by one over an unbuffered Go channel. A scanner that fails  *)
(* falls silent; it closes its Go channel only when the command closes it, *)
(* so the branches for a closed channel are never taken.                   *)
(***************************************************************************)
EXTENDS Integers, Sequences, FiniteSets, SequencesExt, SequenceFolds

CONSTANTS
    Scenes,        \* what is run against what: [cmd, wkafka, wals, topic, cps]
    Begins,        \* Begins[s] is the set of shard names that begin with s
    SelfControlled,\* the message types that milvus writes for itself
    NotANumber,    \* a limit that strconv.Atoi rejects
    NoMsg,         \* a missing entry of a map of messages, a nil message id
    MaxProduced,   \* bound on the messages produced while consume runs
    MaxFaults      \* bound on failing calls and scanners

\* Streams are sequences, positions and limits are integers.
ASSUME SceneAssumption ==
    \A s \in Scenes :
        /\ s.cmd.chs \in Seq(DOMAIN s.wals)
        /\ \A c \in DOMAIN s.wals : s.wals[c] \in Seq(Range(s.wals[c]))
        /\ s.topic \in Seq(Range(s.topic))
        /\ s.cmd.name = "consumev2" => s.cmd.limit = NotANumber \/ s.cmd.limit \in Int
        /\ s.cmd.name = "consume" => s.cmd.manual \in Int /\ Range(s.cps) \subseteq Int

ASSUME NoMsgAssumption == NoMsg \notin Int

VARIABLES
    scene,    \* the command, the build and the streams it reads
    pc,       \* what the command does next
    out,      \* how it ended, or "running"
    at,       \* the channel it is at
    scan,     \* the scanners it has opened
    ready, current, counters, allReady,   \* comparePChannelsMessage, by pchannel name
    topic, from, next, latest,            \* the topic of consume and its positions
    printed,  \* what it printed
    sig,      \* a SIGINT waits in sigChan
    faults

streamVars == <<ready, current, counters, allReady>>
topicVars == <<topic, from, next, latest>>
vars == <<scene, pc, out, at, scan, streamVars, topicVars, printed, sig, faults>>

cmd == scene.cmd
Channels == Len(cmd.chs)
Name(i) == cmd.chs[i][1]
Names == {Name(i) : i \in 1..Channels}
Wal(i) == scene.wals[cmd.chs[i]]

Return(how) == pc' = "done" /\ out' = how

-----------------------------------------------------------------------------
(***************************************************************************)
(* The scanners and the world.                                             *)
(***************************************************************************)

\* The next message waits to be received; NewScanner starts from the first.
Offer(i) ==
    /\ i \in DOMAIN scan /\ scan[i].alive /\ ~scan[i].offered /\ scan[i].pos < Len(Wal(i))
    /\ pc # "done"
    /\ scan' = [scan EXCEPT ![i].offered = TRUE]
    /\ UNCHANGED <<scene, pc, out, at, streamVars, topicVars, printed, sig, faults>>

\* The scanner's reader ends with an error, of which the command is not told.
ScannerFails(i) ==
    /\ i \in DOMAIN scan /\ scan[i].alive /\ ~scan[i].offered /\ pc # "done"
    /\ faults < MaxFaults /\ faults' = faults + 1
    /\ scan' = [scan EXCEPT ![i].alive = FALSE]
    /\ UNCHANGED <<scene, pc, out, at, streamVars, topicVars, printed, sig>>

\* SetupSignalHandling: a channel of one slot.
Interrupt ==
    /\ cmd.name # "consume" /\ pc \in {"open", "pass", "receive"} /\ ~sig
    /\ sig' = TRUE
    /\ UNCHANGED <<scene, pc, out, at, scan, streamVars, topicVars, printed, faults>>

Waiting(i) == Wal(i)[scan[i].pos + 1]
Received(i) == [scan EXCEPT ![i].pos = @ + 1, ![i].offered = FALSE]
IsSelfControlled(m) == m.type \in SelfControlled

-----------------------------------------------------------------------------
(***************************************************************************)
(* The beginnings of cmp_pchannels and consumev2.                          *)
(***************************************************************************)

NewScanner == [pos |-> 0, offered |-> FALSE, alive |-> TRUE]

CheckChannels ==
    /\ pc = "begin" /\ cmd.name # "consume"
    /\ IF Channels < (IF cmd.name = "cmp_pchannels" THEN 2 ELSE 1)
       THEN Return("error")
       ELSE pc' = "open" /\ out' = out
    /\ UNCHANGED <<scene, at, scan, streamVars, topicVars, printed, sig, faults>>

\* The WAL implementations that are linked in; MustGetBuilder panics on another.
Supported(wal) == wal \in {"Pulsar", "Kafka"}
Linked(wal) == wal = "Pulsar" \/ scene.wkafka

\* NewWALScanner for one channel after the other; the deferred Close of the
\* scanners that are open runs on every return.
NewWALScanner ==
    /\ pc = "open" /\ at <= Channels
    /\ IF ~Supported(cmd.wal) THEN Return("error") /\ UNCHANGED <<at, scan>>
       ELSE IF ~Linked(cmd.wal) THEN Return("panic") /\ UNCHANGED <<at, scan>>
       ELSE /\ scan' = Append(scan, NewScanner)
            /\ at' = at + 1
            /\ UNCHANGED <<pc, out>>
    /\ UNCHANGED <<scene, streamVars, topicVars, printed, sig, faults>>

OpenFails ==
    /\ pc = "open" /\ at <= Channels /\ Supported(cmd.wal) /\ Linked(cmd.wal)
    /\ faults < MaxFaults /\ faults' = faults + 1
    /\ Return("error")
    /\ UNCHANGED <<scene, at, scan, streamVars, topicVars, printed, sig>>

\* The maps are made: one entry per name, which two channels may share.
StartReading ==
    /\ pc = "open" /\ at > Channels
    /\ IF cmd.name = "cmp_pchannels"
       THEN /\ pc' = "pass" /\ at' = 0 /\ out' = out
            /\ ready' = [n \in Names |-> FALSE]
            /\ current' = [n \in Names |-> NoMsg]
            /\ counters' = [n \in Names |-> 0]
       ELSE /\ IF cmd.limit = NotANumber THEN Return("error") ELSE pc' = "receive" /\ out' = out
            /\ UNCHANGED <<at, ready, current, counters>>
    /\ UNCHANGED <<scene, scan, allReady, topicVars, printed, sig, faults>>

-----------------------------------------------------------------------------
(***************************************************************************)
(* comparePChannelsMessage: passes over the channels (at = 0 between two   *)
(* of them) that never wait.                                               *)
(***************************************************************************)

\* Mutant: the flag keeps what the pass before found.
StalePass == at' = 1 /\ UNCHANGED allReady

StartPass == at' = 1 /\ allReady' = TRUE

BeginPass ==
    /\ pc = "pass" /\ at = 0
    /\ IF sig THEN Return("interrupted") /\ UNCHANGED <<at, allReady>>
       ELSE StartPass /\ UNCHANGED <<pc, out>>
    /\ UNCHANGED <<scene, scan, ready, current, counters, topicVars, printed, sig, faults>>

AtChannel == pc = "pass" /\ at \in 1..Channels
MoveOn == at' = at + 1 /\ UNCHANGED <<scene, pc, out, topicVars, printed, sig, faults>>

\* The name has a message already.
SkipChannel ==
    /\ AtChannel /\ ready[Name(at)]
    /\ MoveOn /\ UNCHANGED <<scan, streamVars>>

SkipSelfControlled ==
    /\ AtChannel /\ ~ready[Name(at)] /\ scan[at].offered /\ IsSelfControlled(Waiting(at))
    /\ scan' = Received(at)
    /\ MoveOn /\ UNCHANGED streamVars

TakeMessage ==
    /\ AtChannel /\ ~ready[Name(at)] /\ scan[at].offered /\ ~IsSelfControlled(Waiting(at))
    /\ scan' = Received(at)
    /\ current' = [current EXCEPT ![Name(at)] = Waiting(at)]
    /\ counters' = [counters EXCEPT ![Name(at)] = @ + 1]
    /\ ready' = [ready EXCEPT ![Name(at)] = TRUE]
    /\ MoveOn /\ UNCHANGED allReady

NothingThere ==
    /\ AtChannel /\ ~ready[Name(at)] /\ ~scan[at].offered
    /\ allReady' = FALSE
    /\ MoveOn /\ UNCHANGED <<scan, ready, current, counters>>

\* Mutant: messages are compared by their ids in their own channels.
OwnMessageID(m) == m.id

getMessageID(m) == IF m.rid # NoMsg THEN m.rid ELSE m.id

\* The first channel is the reference.
compareCurrentMessages(c) ==
    LET ref == c[Name(1)]
    IN \A i \in 2..Channels :
         /\ c[Name(i)].type = ref.type
         /\ ref.type = "AlterReplicateConfig" \/ getMessageID(c[Name(i)]) = getMessageID(ref)

Round == [msgs |-> [i \in 1..Channels |-> current[Name(i)]],
          counts |-> [i \in 1..Channels |-> counters[Name(i)]]]

EndPass ==
    /\ pc = "pass" /\ at = Channels + 1
    /\ at' = 0
    /\ IF ~allReady \/ \E n \in Names : ~ready[n]
       THEN UNCHANGED <<pc, out, printed, ready, current>>
       ELSE IF ~compareCurrentMessages(current)
       THEN Return("inconsistent") /\ UNCHANGED <<printed, ready, current>>
       ELSE /\ printed' = Append(printed, Round)
            /\ ready' = [n \in Names |-> FALSE]
            /\ current' = [n \in Names |-> NoMsg]
            /\ UNCHANGED <<pc, out>>
    /\ UNCHANGED <<scene, scan, counters, allReady, topicVars, sig, faults>>

-----------------------------------------------------------------------------
(***************************************************************************)
(* consumev2: a select over SIGINT and the Go channel.                     *)
(***************************************************************************)

LimitReached(n) == cmd.limit # -1 /\ n >= cmd.limit

ReceiveMessage ==
    /\ pc = "receive"
    /\ \/ /\ scan[1].offered /\ IsSelfControlled(Waiting(1))
          /\ scan' = Received(1) /\ UNCHANGED <<pc, out, printed>>
       \/ /\ scan[1].offered /\ ~IsSelfControlled(Waiting(1))
          /\ scan' = Received(1)
          /\ printed' = Append(printed, Waiting(1))
          /\ IF LimitReached(Len(printed')) THEN Return("limit") ELSE UNCHANGED <<pc, out>>
    /\ UNCHANGED <<scene, at, streamVars, topicVars, sig, faults>>

StopReceiving ==
    /\ pc = "receive" /\ sig
    /\ Return("interrupted")
    /\ UNCHANGED <<scene, at, scan, streamVars, topicVars, printed, sig, faults>>

-----------------------------------------------------------------------------
(***************************************************************************)
(* consume.                                                                *)
(***************************************************************************)

KnownMq == {"pulsar"} \cup (IF scene.wkafka THEN {"kafka"} ELSE {})

\* The listing under channel-cp/<shard>, which does not end in a slash.
Checkpoints == {s \in Begins[cmd.shard] : s \in DOMAIN scene.cps}

\* Kafka's OffsetBeginning; the other offsets are taken as they are.
Beginning == -2
Offset(o) == IF o = Beginning THEN 0 ELSE o

\* ParsePositionFromCheckpoint is only asked of a single checkpoint, and
\* ParseManualMessageID knows Kafka only.
StartPosition ==
    /\ pc = "begin" /\ cmd.name = "consume"
    /\ \/ /\ cmd.start = "cp" /\ Cardinality(Checkpoints) = 1
          /\ IF cmd.mq \in KnownMq
             THEN from' = scene.cps[CHOOSE s \in Checkpoints : TRUE] /\ pc' = "subscribe" /\ out' = out
             ELSE Return("error") /\ UNCHANGED from
       \/ /\ cmd.start = "manual"
          /\ IF cmd.mq \in KnownMq \ {"pulsar"}
             THEN from' = Offset(cmd.manual) /\ pc' = "subscribe" /\ out' = out
             ELSE Return("error") /\ UNCHANGED from
       \/ /\ cmd.start = "earliest" \/ (cmd.start = "cp" /\ Cardinality(Checkpoints) # 1)
          /\ pc' = "subscribe" /\ UNCHANGED <<out, from>>
    /\ UNCHANGED <<scene, at, scan, streamVars, topic, next, latest, printed, sig, faults>>

\* NewConsumer, and Seek when there is a position. A Kafka consumer without a
\* position is neither subscribed nor assigned a partition: next stays NoMsg.
NewConsumer ==
    /\ pc = "subscribe"
    /\ IF cmd.mq \notin KnownMq THEN Return("panic") /\ UNCHANGED next
       ELSE /\ pc' = "ask" /\ out' = out
            /\ next' = IF from # NoMsg THEN from ELSE IF cmd.mq = "pulsar" THEN 0 ELSE NoMsg
    /\ UNCHANGED <<scene, at, scan, streamVars, topic, from, latest, printed, sig, faults>>

\* AtEarliestPosition of a Kafka offset; the id that Pulsar answers is never there.
AtEarliestPosition(id) == id # NoMsg /\ id <= 0

\* Kafka answers its high watermark less one, Pulsar the constant
\* LatestMessageID, which is the id of no message (NoMsg).
GetLastMessageID ==
    /\ pc = "ask"
    /\ latest' = IF cmd.mq = "pulsar" THEN NoMsg ELSE IF topic = <<>> THEN 0 ELSE Len(topic) - 1
    /\ IF AtEarliestPosition(latest') THEN Return("empty") ELSE pc' = "consume" /\ out' = out
    /\ UNCHANGED <<scene, at, scan, streamVars, topic, from, next, printed, sig, faults>>

\* A query of the watermarks that fails gives no id and no error.
CallFails ==
    /\ cmd.name = "consume" /\ cmd.mq \in KnownMq
    /\ faults < MaxFaults /\ faults' = faults + 1
    /\ \/ pc = "begin" /\ cmd.start = "cp" /\ Return("error")
       \/ pc = "subscribe" /\ Return("error")
       \/ pc = "ask" /\ cmd.mq = "kafka" /\ Return("panic")
       \/ pc = "consume" /\ Return("error")
    /\ UNCHANGED <<scene, at, scan, streamVars, topicVars, printed, sig>>

\* ParseMsg of a payload that is no message gives nil, whose shard is then
\* asked; ValidateMsg divides by the dimension of a vector field.
Breaks(m) ==
    /\ m.type \in {"Insert", "Delete"}
    /\ \/ m.shape = "unreadable" /\ ~(cmd.shard = "" /\ cmd.detail)
       \/ m.shape = "dimensionless" /\ m.type = "Insert" /\ ~cmd.detail /\ cmd.shard \in {"", m.shard}

\* What is printed beside the message's type.
ValidateMsg(m) == IF m.type = "Insert" /\ m.shape = "short" THEN "mismatch" ELSE "shard"
Shown(m) ==
    IF m.type \notin {"Insert", "Delete"} \/ cmd.shard \notin {"", m.shard} THEN "type"
    ELSE IF cmd.detail THEN "detail" ELSE ValidateMsg(m)

\* Equal of the message's id and the one that was the last.
IsLast(offset) == offset = latest

Consume ==
    /\ pc = "consume" /\ next \in 0..(Len(topic) - 1)
    /\ LET m == topic[next + 1]
       IN IF Breaks(m) THEN Return("panic") /\ UNCHANGED <<next, printed>>
          ELSE /\ printed' = IF m.type = "TimeTick" THEN printed
                             ELSE Append(printed, [offset |-> next, shown |-> Shown(m)])
               /\ next' = next + 1
               /\ IF IsLast(next) THEN Return("ok") ELSE UNCHANGED <<pc, out>>
    /\ UNCHANGED <<scene, at, scan, streamVars, topic, from, latest, sig, faults>>

\* An offset that the topic does not have, OffsetEnd (-1) among them, becomes
\* its end: auto.offset.reset is not set.
ResetOffset ==
    /\ pc = "consume" /\ cmd.mq = "kafka" /\ next # NoMsg /\ next \notin 0..Len(topic)
    /\ from' = Len(topic) /\ next' = Len(topic)
    /\ UNCHANGED <<scene, pc, out, at, scan, streamVars, topic, latest, printed, sig, faults>>

\* ReadMessage of Kafka gives up after five seconds, Pulsar waits.
ConsumeTimesOut ==
    /\ pc = "consume" /\ cmd.mq = "kafka" /\ next \notin 0..(Len(topic) - 1)
    /\ Return("error")
    /\ UNCHANGED <<scene, at, scan, streamVars, topicVars, printed, sig, faults>>

Produce ==
    /\ cmd.name = "consume" /\ pc # "done" /\ Len(topic) < Len(scene.topic) + MaxProduced
    /\ topic' = Append(topic, [type |-> "Insert", shard |-> cmd.shard, shape |-> "good"])
    /\ UNCHANGED <<scene, pc, out, at, scan, streamVars, from, next, latest, printed, sig, faults>>

-----------------------------------------------------------------------------
Init ==
    /\ scene \in Scenes
    /\ pc = "begin" /\ out = "running" /\ at = 1 /\ scan = <<>>
    /\ ready = <<>> /\ current = <<>> /\ counters = <<>> /\ allReady = TRUE
    /\ topic = scene.topic /\ from = NoMsg /\ next = NoMsg /\ latest = NoMsg
    /\ printed = <<>> /\ sig = FALSE /\ faults = 0

Compare == BeginPass \/ SkipChannel \/ SkipSelfControlled \/ TakeMessage \/ NothingThere \/ EndPass
Command ==
    \/ CheckChannels \/ NewWALScanner \/ StartReading \/ Compare
    \/ ReceiveMessage \/ StopReceiving
    \/ StartPosition \/ NewConsumer \/ GetLastMessageID \/ Consume \/ ResetOffset
    \/ ConsumeTimesOut
OfferNext == \E i \in 1..Len(scan) : Offer(i)
World == \/ \E i \in 1..Len(scan) : ScannerFails(i)
         \/ Interrupt \/ OpenFails \/ CallFails \/ Produce
Next == Command \/ OfferNext \/ World

\* The command's goroutine and those of its scanners run; every message of a
\* channel is offered in the end (ConfirmedDelivered of WalScanner).
Fairness == WF_vars(Command) /\ WF_vars(OfferNext)
Spec == Init /\ [][Next]_vars /\ Fairness

-----------------------------------------------------------------------------
(***************************************************************************)
(* What the commands promise.                                              *)
(***************************************************************************)

\* The messages of a channel that are not milvus' own.
Carrying(i) == {m \in Range(Wal(i)) : ~IsSelfControlled(m)}
Payload(i) == Filter(Wal(i), Carrying(i))
DistinctNames == Cardinality(Names) = Channels
Rounds == IF Channels = 0 THEN 0 ELSE Min({Len(Payload(i)) : i \in 1..Channels})

\* Two clusters wrote the same message: it came from the same original, or both
\* changed their replication by themselves.
Same(a, b) ==
    LET origin(m) == IF m.rid = NoMsg THEN m.id ELSE m.rid
    IN a.type = b.type /\ (a.type = "AlterReplicateConfig" \/ origin(a) = origin(b))
Agrees(k) == \A i, j \in 1..Channels : Same(Payload(i)[k], Payload(j)[k])

\* However the scanners' messages arrive, cmp_pchannels compares the k-th payload
\* message of every channel with the k-th of the others, neither skipping nor
\* repeating one, prints the rounds that agree and ends as inconsistent only at
\* the first that does not.
RoundsExact ==
    (cmd.name = "cmp_pchannels" /\ DistinctNames) =>
        /\ \A k \in DOMAIN printed :
             /\ k <= Rounds /\ Agrees(k)
             /\ printed[k] = [msgs |-> [i \in 1..Channels |-> Payload(i)[k]],
                              counts |-> [i \in 1..Channels |-> k]]
        /\ out = "inconsistent" => Len(printed) < Rounds /\ ~Agrees(Len(printed) + 1)

\* consumev2 prints the first messages of the channel, as many as the limit but at
\* least one.
ReceivedExact ==
    cmd.name = "consumev2" =>
        /\ IsPrefix(printed, IF Channels = 0 THEN <<>> ELSE Payload(1))
        /\ out = "limit" => Len(printed) = (IF cmd.limit < 1 THEN 1 ELSE cmd.limit)

\* consume prints every message from its position on but time ticks, and when it
\* ends well, the last was the topic's last when it asked. Its position is the
\* one it was given, or the end of a topic that does not have it.
ReadExact ==
    (cmd.name = "consume" /\ next # NoMsg) =>
        LET first == IF from = NoMsg THEN 0 ELSE from
            read == {o \in first..(next - 1) : topic[o + 1].type # "TimeTick"}
        IN /\ {printed[k].offset : k \in DOMAIN printed} = read
           /\ \A j, k \in DOMAIN printed : j < k => printed[j].offset < printed[k].offset
           /\ out = "ok" => next = latest + 1

\* consume, asked to start at the checkpoint of a shard, starts at that of this
\* shard: the listing under channel-cp/<shard> also finds the only checkpoint of
\* a shard whose name goes on behind it.
\* The code does not keep it: see the findings.
OwnCheckpoint ==
    (cmd.name = "consume" /\ cmd.start = "cp" /\ cmd.shard # "" /\ pc \in {"subscribe", "ask"}
       /\ from # NoMsg) =>
        cmd.shard \in DOMAIN scene.cps /\ from = scene.cps[cmd.shard]

\* What the streams hold is what the commands show, whatever arrives when.
StreamsExact == RoundsExact /\ ReceivedExact /\ ReadExact

\* A comparison that nothing stops reaches the first round that differs and
\* reports it, or compares every round that is complete.
Undisturbed == faults = 0 /\ ~sig
DifferenceFound ==
    (pc = "pass" /\ DistinctNames) ~>
        \/ ~Undisturbed
        \/ out = "inconsistent"
        \/ Len(printed) = Rounds /\ \A k \in 1..Rounds : Agrees(k)
=============================================================================
