------------------------ MODULE StreamCommandsProofs ------------------------
(***************************************************************************)
(* StreamsExact for every number of channels, every content of the streams *)
(* and every number of failures: what has been printed is the beginning of *)
(* what the streams carry, because the counter of a channel is the number  *)
(* of messages that its position has left behind.                          *)
(***************************************************************************)
EXTENDS StreamCommands, SequenceFacts, FiniteSetTheorems

Scanner == [pos : Nat, offered : BOOLEAN, alive : BOOLEAN]

\* The messages that the first n of channel i carry.
Carried(i, n) == FilteredTo(Wal(i), Carrying(i))[n]

\* A scanner is at a message of its channel when it offers one.
ScannersOK ==
    /\ scan \in Seq(Scanner)
    /\ Len(scan) <= Channels
    /\ \A i \in 1..Len(scan) :
         /\ scan[i].pos <= Len(Wal(i))
         /\ scan[i].offered => scan[i].pos < Len(Wal(i))

\* Which command is where, and how far it got.
ControlOK ==
    /\ scene \in Scenes
    /\ at \in Nat
    /\ pc # "done" => out = "running"
    /\ pc \in {"begin", "open"} => printed = <<>>
    /\ pc = "begin" => at = 1 /\ Len(scan) = 0
    /\ pc = "open" => /\ cmd.name # "consume"
                      /\ at = Len(scan) + 1
                      /\ Channels >= 1
                      /\ cmd.name = "cmp_pchannels" => Channels >= 2
    /\ pc = "pass" => /\ cmd.name = "cmp_pchannels" /\ Channels >= 2
                      /\ Len(scan) = Channels /\ at <= Channels + 1
    /\ pc = "receive" => /\ cmd.name \notin {"cmp_pchannels", "consume"} /\ Channels >= 1
                         /\ Len(scan) = Channels /\ cmd.limit # NotANumber
    /\ pc \in {"subscribe", "ask", "consume"} => cmd.name = "consume"

\* Nothing is received before every scanner is open.
NothingReceived == pc \in {"begin", "open"} => \A i \in 1..Len(scan) : scan[i].pos = 0

\* The maps of comparePChannelsMessage.
MapsOK ==
    pc = "pass" =>
        /\ ready \in [Names -> BOOLEAN]
        /\ counters \in [Names -> Nat]
        /\ DOMAIN current = Names
        /\ current = [n \in Names |-> current[n]]

\* A channel has counted what it has read, one more than was printed when a
\* message is waiting in its map.
CountersExact ==
    (pc = "pass" /\ DistinctNames) =>
        \A i \in 1..Channels :
            /\ counters[Name(i)] = Len(Carried(i, scan[i].pos))
            /\ ready[Name(i)] => /\ counters[Name(i)] = Len(printed) + 1
                                 /\ current[Name(i)] = Payload(i)[Len(printed) + 1]
            /\ ~ready[Name(i)] => counters[Name(i)] = Len(printed)

\* What a round that agrees prints.
RoundAt(k) == [msgs |-> [i \in 1..Channels |-> Payload(i)[k]],
               counts |-> [i \in 1..Channels |-> k]]
RoundsTyped ==
    (cmd.name = "cmp_pchannels" /\ DistinctNames) => printed \in Seq({RoundAt(k) : k \in 1..Rounds})

\* consumev2 goes on only below its limit, having printed what it has read.
ReceiveInv ==
    (pc = "receive" /\ cmd.name = "consumev2") =>
        /\ printed = Carried(1, scan[1].pos)
        /\ Len(printed) = 0 \/ ~LimitReached(Len(printed))

\* consume is at a position that the topic has, unless it has not moved.
Offsets == [offset : Int, shown : {"type", "detail", "mismatch", "shard"}]
ConsumeInv ==
    cmd.name = "consume" =>
        /\ topic \in Seq(Range(topic))
        /\ from = NoMsg \/ from \in Int
        /\ next = NoMsg \/ next \in Int
        /\ printed \in Seq(Offsets)
        /\ pc = "begin" => from = NoMsg
        /\ pc \in {"begin", "subscribe"} => next = NoMsg
        /\ pc \in {"begin", "subscribe", "ask"} \/ next = NoMsg => printed = <<>>
        /\ next # NoMsg =>
             LET first == IF from = NoMsg THEN 0 ELSE from
             IN next = first \/ (first \in 0..next /\ next <= Len(topic))

IInv == /\ ScannersOK /\ ControlOK /\ NothingReceived /\ MapsOK /\ CountersExact /\ RoundsTyped
        /\ ReceiveInv /\ ConsumeInv /\ StreamsExact

-----------------------------------------------------------------------------
(* Scenes. *)

LEMMA SceneFacts ==
    ASSUME scene \in Scenes
    PROVE  /\ Channels \in Nat
           /\ \A i \in 1..Channels : Wal(i) \in Seq(Range(Wal(i)))
           /\ \A i \in 1..Channels : Len(Wal(i)) \in Nat
           /\ scene.topic \in Seq(Range(scene.topic))
  <1>1. /\ cmd.chs \in Seq(DOMAIN scene.wals)
        /\ \A c \in DOMAIN scene.wals : scene.wals[c] \in Seq(Range(scene.wals[c]))
        /\ scene.topic \in Seq(Range(scene.topic))
    BY SceneAssumption DEF cmd
  <1>2. Channels \in Nat /\ \A i \in 1..Channels : cmd.chs[i] \in DOMAIN scene.wals
    BY <1>1 DEF Channels
  <1>3. ASSUME NEW i \in 1..Channels
        PROVE  Wal(i) \in Seq(Range(Wal(i))) /\ Len(Wal(i)) \in Nat
    BY <1>1, <1>2 DEF Wal
  <1> QED BY <1>1, <1>2, <1>3

\* What the first n messages of a channel carry begins what the channel carries.
LEMMA CarriedFacts ==
    ASSUME scene \in Scenes, NEW i \in 1..Channels
    PROVE  /\ Payload(i) \in Seq(Range(Wal(i)))
           /\ Carried(i, 0) = <<>>
           /\ \A n \in 0..Len(Wal(i)) :
                /\ Carried(i, n) \in Seq(Range(Wal(i)))
                /\ Starts(Carried(i, n), Payload(i))
           /\ \A n \in 0..(Len(Wal(i)) - 1) :
                Carried(i, n + 1) = IF IsSelfControlled(Wal(i)[n + 1]) THEN Carried(i, n)
                                    ELSE Append(Carried(i, n), Wal(i)[n + 1])
  <1> DEFINE X == Range(Wal(i))
             w == Wal(i)
             S == Carrying(i)
  <1>1. w \in Seq(X) /\ Len(w) \in Nat
    BY SceneFacts
  <1>2. /\ FilteredTo(w, S)[0] = <<>>
        /\ \A n \in 0 .. Len(w) - 1 :
              FilteredTo(w, S)[n + 1] =
                  IF w[n + 1] \in S THEN Append(FilteredTo(w, S)[n], w[n + 1])
                  ELSE FilteredTo(w, S)[n]
    <2> HIDE DEF w, X, S
    <2> QED BY <1>1, FilteredStep
  <1>3. \A n \in 0 .. Len(w) : FilteredTo(w, S)[n] \in Seq(X \cap S)
    <2> HIDE DEF w, X, S
    <2> QED BY <1>1, FilteredType
  <1>4. \A m, n \in 0 .. Len(w) : m <= n => Starts(FilteredTo(w, S)[m], FilteredTo(w, S)[n])
    <2> HIDE DEF w, X, S
    <2> QED BY <1>1, FilteredGrows
  <1>5. \A n \in 0 .. Len(w) - 1 : w[n + 1] \in S <=> ~IsSelfControlled(w[n + 1])
    BY <1>1 DEF Carrying, Range
  <1>6. \A n \in 0 .. Len(w) : FilteredTo(w, S)[n] \in Seq(X)
    <2> HIDE DEF w, X, S
    <2> QED BY <1>3
  <1>7. Payload(i) = FilteredTo(w, S)[Len(w)] /\ \A n : Carried(i, n) = FilteredTo(w, S)[n]
    BY DEF Payload, Carried, Filter
  <1>8. Len(w) \in 0 .. Len(w) /\ \A n \in 0 .. Len(w) : n <= Len(w)
    BY <1>1
  <1> HIDE DEF w, X, S
  <1>9. Payload(i) \in Seq(X) /\ Carried(i, 0) = <<>>
    BY <1>2, <1>6, <1>7, <1>8
  <1>10. \A n \in 0 .. Len(w) : Carried(i, n) \in Seq(X) /\ Starts(Carried(i, n), Payload(i))
    BY <1>4, <1>6, <1>7, <1>8
  <1>11. \A n \in 0 .. Len(w) - 1 :
            Carried(i, n + 1) = IF IsSelfControlled(w[n + 1]) THEN Carried(i, n)
                                ELSE Append(Carried(i, n), w[n + 1])
    BY <1>2, <1>5, <1>7
  <1> QED BY <1>9, <1>10, <1>11 DEF w, X

\* Distinct names tell the channels apart.
LEMMA NamesInjective ==
    ASSUME scene \in Scenes, DistinctNames, NEW i \in 1..Channels, NEW j \in 1..Channels,
           Name(i) = Name(j)
    PROVE  i = j
  <1> DEFINE f == [k \in 1..Channels |-> Name(k)]
  <1>1. Channels \in Nat
    BY SceneFacts
  <1>2. f \in Surjection(1..Channels, Names)
    BY DEF Surjection, Names
  <1>3. IsFiniteSet(1..Channels) /\ Cardinality(1..Channels) = Channels
    BY <1>1, FS_Interval
  <1>4. Cardinality(Names) = Cardinality(1..Channels)
    BY <1>3 DEF DistinctNames
  <1> HIDE DEF f
  <1>5. f \in Injection(1..Channels, Names)
    BY <1>2, <1>3, <1>4, FS_SurjSameCardinalityImpliesInj
  <1>6. f[i] = Name(i) /\ f[j] = Name(j)
    BY DEF f
  <1> QED BY <1>5, <1>6 DEF Injection, IsInjective

LEMMA RoundsNat ==
    ASSUME scene \in Scenes, Channels >= 1
    PROVE  Rounds \in Nat
  <1> DEFINE S == {Len(Payload(i)) : i \in 1..Channels}
  <1>1. Channels \in Nat /\ \A i \in 1..Channels : Len(Payload(i)) \in Nat
    BY SceneFacts, CarriedFacts
  <1>2. S \subseteq Nat /\ S # {}
    <2>1. 1 \in 1..Channels
      BY <1>1
    <2> QED BY <1>1, <2>1
  <1>3. Rounds = Min(S)
    BY <1>1 DEF Rounds
  <1> HIDE DEF S
  <1>4. \E x \in S : \A y \in S : x <= y
    BY <1>2, NatSetMin
  <1>5. Min(S) \in S
    BY <1>4 DEF Min
  <1> QED BY <1>2, <1>3, <1>5

\* A round that each channel has is one of the rounds.
LEMMA RoundsBound ==
    ASSUME scene \in Scenes, Channels >= 1, NEW k \in Nat,
           \A i \in 1..Channels : k <= Len(Payload(i))
    PROVE  k <= Rounds
  <1> DEFINE S == {Len(Payload(i)) : i \in 1..Channels}
  <1>1. Channels \in Nat /\ \A i \in 1..Channels : Len(Payload(i)) \in Nat
    BY SceneFacts, CarriedFacts
  <1>2. S \subseteq Nat /\ S # {} /\ \A n \in S : k <= n
    <2>1. 1 \in 1..Channels
      BY <1>1
    <2> QED BY <1>1, <2>1
  <1>3. Rounds = Min(S)
    BY <1>1 DEF Rounds
  <1> HIDE DEF S
  <1>4. \E x \in S : \A y \in S : x <= y
    BY <1>2, NatSetMin
  <1>5. Min(S) \in S
    BY <1>4 DEF Min
  <1> QED BY <1>2, <1>3, <1>5

\* The first channel agrees with all others when all agree with one another.
LEMMA ComparisonExact ==
    ASSUME scene \in Scenes, Channels >= 2, NEW c, NEW k,
           \A i \in 1..Channels : c[Name(i)] = Payload(i)[k]
    PROVE  compareCurrentMessages(c) <=> Agrees(k)
  <1>1. Channels \in Nat /\ 1 \in 1..Channels
    BY SceneFacts
  <1>2. \A i, j \in 1..Channels : Same(Payload(i)[k], Payload(j)[k]) <=> Same(c[Name(i)], c[Name(j)])
    OBVIOUS
  <1>3. compareCurrentMessages(c) <=> \A i \in 1..Channels : Same(c[Name(i)], c[Name(1)])
    <2>1. \A a : getMessageID(a) = IF a.rid = NoMsg THEN a.id ELSE a.rid
      BY DEF getMessageID
    <2>2. \A i \in 1..Channels : i = 1 \/ i \in 2..Channels
      BY <1>1
    <2>3. \A i \in 2..Channels : i \in 1..Channels
      BY <1>1
    <2> QED BY <2>1, <2>2, <2>3, <1>1 DEF compareCurrentMessages, Same
  <1>4. \A a, b, d : Same(a, d) /\ Same(b, d) => Same(a, b)
    BY DEF Same
  <1>5. Agrees(k) <=> \A i, j \in 1..Channels : Same(c[Name(i)], c[Name(j)])
    BY <1>2 DEF Agrees
  <1> QED BY <1>1, <1>3, <1>4, <1>5, Zenon

-----------------------------------------------------------------------------
(* Control and scanners. *)

\* Receiving moves one scanner by one message.
LEMMA ReceivedFacts ==
    ASSUME scan \in Seq(Scanner), NEW i \in 1..Len(scan)
    PROVE  /\ Received(i) \in Seq(Scanner)
           /\ Len(Received(i)) = Len(scan)
           /\ Received(i)[i].pos = scan[i].pos + 1 /\ ~Received(i)[i].offered
           /\ \A j \in 1..Len(scan) : j # i => Received(i)[j] = scan[j]
  <1> DEFINE r == [scan[i] EXCEPT !.pos = @ + 1, !.offered = FALSE]
  <1>1. scan[i] \in Scanner
    OBVIOUS
  <1>2. r \in Scanner /\ r.pos = scan[i].pos + 1 /\ ~r.offered
    <2>1. r \in Scanner
      <3> DEFINE moved == [scan[i] EXCEPT !.pos = @ + 1]
      <3>1. moved \in Scanner
        BY <1>1 DEF Scanner
      <3>2. r = [moved EXCEPT !.offered = FALSE]
        BY <1>1 DEF Scanner
      <3> HIDE DEF moved, r
      <3>3. [moved EXCEPT !.offered = FALSE] \in Scanner
        BY <3>1 DEF Scanner
      <3> QED BY <3>2, <3>3
    <2>2. r.pos = scan[i].pos + 1
      BY <1>1 DEF Scanner
    <2>3. ~r.offered
      BY <1>1 DEF Scanner
    <2> QED BY <2>1, <2>2, <2>3
  <1>3. Received(i) = [scan EXCEPT ![i] = r]
    BY <1>1 DEF Received, Scanner
  <1> HIDE DEF r
  <1> QED BY <1>2, <1>3

LEMMA ScannersReceive ==
    ASSUME ScannersOK, ControlOK, NEW i \in 1..Len(scan), scan[i].offered,
           scan' = Received(i), UNCHANGED scene
    PROVE  ScannersOK'
  <1>1. /\ scan' \in Seq(Scanner)
        /\ Len(scan') = Len(scan)
        /\ scan'[i].pos = scan[i].pos + 1 /\ ~scan'[i].offered
        /\ \A j \in 1..Len(scan) : j # i => scan'[j] = scan[j]
    BY ReceivedFacts DEF ScannersOK
  <1>2. Channels' = Channels /\ \A j : Wal(j)' = Wal(j)
    BY DEF Channels, Wal, cmd
  <1>3. i \in 1..Channels /\ scan[i] \in Scanner /\ scan[i].pos < Len(Wal(i)) /\ Len(Wal(i)) \in Nat
    <2>1. scene \in Scenes
      BY DEF ControlOK
    <2>2. /\ scan \in Seq(Scanner) /\ Len(scan) <= Channels
          /\ scan[i].pos < Len(Wal(i))
      BY DEF ScannersOK
    <2>3. i \in 1..Channels
      BY <2>1, <2>2, SceneFacts
    <2> QED BY <2>1, <2>2, <2>3, SceneFacts
  <1>4. ASSUME NEW j \in 1..Len(scan)
        PROVE  /\ scan'[j].pos <= Len(Wal(j))
               /\ scan'[j].offered => scan'[j].pos < Len(Wal(j))
    <2>1. CASE j = i
      BY <1>1, <1>3, <2>1 DEF Scanner
    <2>2. CASE j # i
      BY <1>1, <2>2 DEF ScannersOK
    <2> QED BY <2>1, <2>2
  <1>5. Len(scan') <= Channels'
    BY <1>1, <1>2 DEF ScannersOK
  <1> QED BY <1>1, <1>2, <1>4, <1>5 DEF ScannersOK

LEMMA ScannersStep ==
    ASSUME ScannersOK, ControlOK, [Next]_vars
    PROVE  ScannersOK'
  <1>0. scene \in Scenes /\ Channels \in Nat /\ Len(scan) \in Nat
    <2>1. scene \in Scenes
      BY DEF ControlOK
    <2>2. scan \in Seq(Scanner)
      BY DEF ScannersOK
    <2> QED BY <2>1, <2>2, SceneFacts
  <1>a. UNCHANGED scene => Channels' = Channels /\ \A j : Wal(j)' = Wal(j)
    BY DEF Channels, Wal, cmd
  <1>1. CASE UNCHANGED <<scene, scan>>
    BY <1>1, <1>a DEF ScannersOK
  <1>2. ASSUME NEW i \in 1..Len(scan), Offer(i) \/ ScannerFails(i)
        PROVE  ScannersOK'
    <2>1. scan \in Seq(Scanner) /\ scan[i] \in Scanner
      BY DEF ScannersOK
    <2>2. PICK r \in Scanner : /\ scan' = [scan EXCEPT ![i] = r]
                               /\ r.pos = scan[i].pos
                               /\ r.offered => scan[i].pos < Len(Wal(i))
      <3>1. CASE Offer(i)
        <4> DEFINE r == [scan[i] EXCEPT !.offered = TRUE]
        <4>1. r \in Scanner
          BY <2>1 DEF Scanner
        <4>2. scan' = [scan EXCEPT ![i] = r] /\ scan[i].pos < Len(Wal(i))
          BY <3>1 DEF Offer
        <4>3. r.pos = scan[i].pos
          BY <2>1 DEF Scanner
        <4> HIDE DEF r
        <4> QED BY <4>1, <4>2, <4>3
      <3>2. CASE ScannerFails(i)
        <4> DEFINE r == [scan[i] EXCEPT !.alive = FALSE]
        <4>1. r \in Scanner
          BY <2>1 DEF Scanner
        <4>2. scan' = [scan EXCEPT ![i] = r] /\ ~scan[i].offered
          BY <3>2 DEF ScannerFails
        <4>3. r.pos = scan[i].pos
          BY <2>1 DEF Scanner
        <4>4. r.offered = scan[i].offered
          BY <2>1 DEF Scanner
        <4> HIDE DEF r
        <4> QED BY <4>1, <4>2, <4>3, <4>4
      <3> QED BY <1>2, <3>1, <3>2
    <2>3. UNCHANGED scene
      BY <1>2 DEF Offer, ScannerFails
    <2>4. /\ scan' \in Seq(Scanner) /\ Len(scan') = Len(scan) /\ scan'[i] = r
          /\ \A j \in 1..Len(scan) : j # i => scan'[j] = scan[j]
      BY <2>1, <2>2
    <2> QED BY <2>1, <2>2, <2>3, <2>4, <1>a DEF ScannersOK
  <1>3. CASE NewWALScanner /\ ~UNCHANGED scan
    <2>1. scan' = Append(scan, NewScanner) /\ UNCHANGED scene /\ Len(scan) < Channels
      <3>1. scan' = Append(scan, NewScanner) /\ UNCHANGED scene /\ pc = "open" /\ at <= Channels
        BY <1>3 DEF NewWALScanner
      <3>2. at = Len(scan) + 1
        BY <3>1 DEF ControlOK
      <3> QED BY <1>0, <3>1, <3>2
    <2>2. NewScanner \in Scanner /\ NewScanner.pos = 0 /\ ~NewScanner.offered
      BY DEF NewScanner, Scanner
    <2>3. scan' \in Seq(Scanner) /\ Len(scan') = Len(scan) + 1
          /\ scan'[Len(scan) + 1] = NewScanner /\ \A j \in 1..Len(scan) : scan'[j] = scan[j]
      BY <2>1, <2>2 DEF ScannersOK
    <2>4. Len(Wal(Len(scan) + 1)) \in Nat
      <3>1. Len(scan) + 1 \in 1..Channels
        BY <1>0, <2>1
      <3> QED BY <1>0, <3>1, SceneFacts
    <2> HIDE DEF NewScanner
    <2>5. ASSUME NEW j \in 1..(Len(scan) + 1)
          PROVE  /\ scan'[j].pos <= Len(Wal(j))
                 /\ scan'[j].offered => scan'[j].pos < Len(Wal(j))
      <3>1. CASE j = Len(scan) + 1
        BY <3>1, <2>2, <2>3, <2>4
      <3>2. CASE j \in 1..Len(scan)
        BY <3>2, <2>3 DEF ScannersOK
      <3> QED BY <3>1, <3>2, <1>0
    <2>6. Len(scan') <= Channels
      BY <1>0, <2>1, <2>3
    <2> QED BY <1>a, <2>1, <2>3, <2>5, <2>6 DEF ScannersOK
  <1>4. CASE SkipSelfControlled \/ TakeMessage
    <2>1. at \in 1..Len(scan) /\ scan[at].offered /\ scan' = Received(at) /\ UNCHANGED scene
      BY <1>4 DEF SkipSelfControlled, TakeMessage, AtChannel, MoveOn, ControlOK
    <2> QED BY <2>1, ScannersReceive
  <1>5. CASE ReceiveMessage
    <2>1. 1 \in 1..Len(scan) /\ scan[1].offered /\ scan' = Received(1) /\ UNCHANGED scene
      <3>1. pc = "receive" /\ scan[1].offered /\ scan' = Received(1) /\ UNCHANGED scene
        BY <1>5 DEF ReceiveMessage
      <3>2. Channels >= 1 /\ Len(scan) = Channels
        BY <3>1 DEF ControlOK
      <3> QED BY <1>0, <3>1, <3>2
    <2> QED BY <2>1, ScannersReceive
  <1>6. CASE \/ Interrupt \/ CheckChannels \/ OpenFails \/ StartReading \/ BeginPass
             \/ SkipChannel \/ NothingThere \/ EndPass \/ StopReceiving \/ StartPosition
             \/ NewConsumer \/ GetLastMessageID \/ CallFails \/ Consume \/ ResetOffset \/ ConsumeTimesOut
             \/ Produce \/ UNCHANGED vars \/ (NewWALScanner /\ UNCHANGED scan)
    <2>1. UNCHANGED <<scene, scan>>
      BY <1>6 DEF Interrupt, CheckChannels, OpenFails, StartReading, BeginPass, SkipChannel,
         NothingThere, EndPass, StopReceiving, StartPosition, NewConsumer, GetLastMessageID,
         CallFails, Consume, ResetOffset, ConsumeTimesOut, Produce, vars, MoveOn, NewWALScanner
    <2> QED BY <2>1, <1>1
  <1> QED BY <1>2, <1>3, <1>4, <1>5, <1>6 DEF Next, Command, Compare, OfferNext, World

\* No step changes the scene, nor anything that depends on it alone.
LEMMA SceneFixed ==
    ASSUME [Next]_vars
    PROVE  /\ scene' = scene /\ cmd' = cmd /\ Channels' = Channels /\ Names' = Names
           /\ DistinctNames' = DistinctNames /\ Rounds' = Rounds
           /\ \A i : /\ Name(i)' = Name(i) /\ Wal(i)' = Wal(i) /\ Carrying(i)' = Carrying(i)
                     /\ Payload(i)' = Payload(i)
           /\ \A k : Agrees(k)' = Agrees(k) /\ RoundAt(k)' = RoundAt(k)
  <1>1. scene' = scene
    BY DEF Next, Command, Compare, OfferNext, World, Offer, ScannerFails, Interrupt, CheckChannels,
       NewWALScanner, OpenFails, StartReading, BeginPass, SkipChannel, SkipSelfControlled,
       TakeMessage, NothingThere, EndPass, ReceiveMessage, StopReceiving, StartPosition,
       NewConsumer, GetLastMessageID, CallFails, Consume, ResetOffset, ConsumeTimesOut, Produce, MoveOn, vars
  <1>2. cmd' = cmd /\ Channels' = Channels /\ \A i : Name(i)' = Name(i) /\ Wal(i)' = Wal(i)
    BY <1>1 DEF cmd, Channels, Name, Wal
  <1>3. Names' = Names /\ \A i : Carrying(i)' = Carrying(i)
    BY <1>2 DEF Names, Carrying
  <1>4. DistinctNames' = DistinctNames /\ \A i : Payload(i)' = Payload(i)
    BY <1>2, <1>3 DEF DistinctNames, Payload
  <1>5. Rounds' = Rounds
    BY <1>2, <1>4 DEF Rounds
  <1>6. \A k : Agrees(k)' = Agrees(k) /\ RoundAt(k)' = RoundAt(k)
    BY <1>2, <1>4 DEF Agrees, RoundAt
  <1> QED BY <1>1, <1>2, <1>3, <1>4, <1>5, <1>6

LEMMA ControlStep ==
    ASSUME ScannersOK, ControlOK, [Next]_vars
    PROVE  ControlOK'
  <1>0. scene \in Scenes /\ Channels \in Nat /\ Len(scan) \in Nat
    <2>1. scene \in Scenes
      BY DEF ControlOK
    <2>2. scan \in Seq(Scanner)
      BY DEF ScannersOK
    <2> QED BY <2>1, <2>2, SceneFacts
  <1>a. scene' = scene /\ Channels' = Channels /\ cmd' = cmd
    BY SceneFixed
  <1>b. scan \in Seq(Scanner) /\ Len(scan) <= Channels
    BY DEF ScannersOK
  <1> USE <1>a DEF ControlOK
  <1>1. CASE UNCHANGED vars
    BY <1>1 DEF vars
  <1>2. ASSUME NEW i \in 1..Len(scan), Offer(i) \/ ScannerFails(i)
        PROVE  ControlOK'
    <2>1. Len(scan') = Len(scan)
      BY <1>2, <1>b DEF Offer, ScannerFails
    <2> QED BY <1>2, <2>1 DEF Offer, ScannerFails
  <1>3. CASE Interrupt \/ SkipChannel \/ NothingThere \/ StopReceiving \/ NewConsumer
             \/ GetLastMessageID \/ ResetOffset \/ ConsumeTimesOut \/ Produce \/ OpenFails \/ CallFails
    BY <1>0, <1>3 DEF Interrupt, SkipChannel, NothingThere, StopReceiving, NewConsumer, AtChannel,
       GetLastMessageID, ResetOffset, ConsumeTimesOut, Produce, OpenFails, CallFails, Return, MoveOn
  <1>4. CASE CheckChannels
    BY <1>0, <1>4 DEF CheckChannels, Return
  <1>5. CASE NewWALScanner
    <2>1. CASE UNCHANGED scan
      BY <1>5, <2>1, <1>0, <1>b DEF NewWALScanner, Return, NewScanner
    <2>2. CASE ~UNCHANGED scan
      <3>1. /\ scan' = Append(scan, NewScanner) /\ at' = at + 1 /\ UNCHANGED <<scene, pc, out, printed>>
            /\ pc = "open"
        BY <1>5, <2>2 DEF NewWALScanner
      <3>2. Len(scan') = Len(scan) + 1
        BY <3>1, <1>b DEF NewScanner, Scanner
      <3> QED BY <1>0, <3>1, <3>2
    <2> QED BY <2>1, <2>2
  <1>6. CASE StartReading
    <2>1. pc = "open" /\ at > Channels /\ UNCHANGED <<scene, scan, printed>>
      BY <1>6 DEF StartReading
    <2>2. Len(scan) = Channels
      BY <1>0, <1>b, <2>1
    <2> QED BY <1>0, <1>6, <2>1, <2>2 DEF StartReading, Return
  <1>7. CASE BeginPass
    BY <1>0, <1>7 DEF BeginPass, Return, StartPass
  <1>8. CASE SkipSelfControlled \/ TakeMessage
    <2>1. at \in 1..Channels /\ at' = at + 1 /\ UNCHANGED <<scene, pc, out, printed>> /\ scan' = Received(at)
          /\ pc = "pass"
      BY <1>8 DEF SkipSelfControlled, TakeMessage, AtChannel, MoveOn
    <2>2. Len(scan') = Len(scan)
      BY <1>0, <2>1, <1>b, ReceivedFacts
    <2> QED BY <1>0, <2>1, <2>2
  <1>9. CASE EndPass
    BY <1>0, <1>9 DEF EndPass, Return
  <1>10. CASE ReceiveMessage
    <2>1. pc = "receive" /\ UNCHANGED <<scene, at>> /\ scan' = Received(1)
          /\ (UNCHANGED <<pc, out>> \/ (pc' = "done"))
      BY <1>10 DEF ReceiveMessage, Return
    <2>2. 1 \in 1..Len(scan)
      BY <1>0, <2>1
    <2>3. Len(scan') = Len(scan)
      BY <2>1, <2>2, <1>b, ReceivedFacts
    <2> QED BY <1>0, <2>1, <2>3
  <1>11. CASE StartPosition \/ Consume
    <2>1. /\ UNCHANGED <<scene, at, scan>>
          /\ \/ pc = "begin" /\ cmd.name = "consume" /\ pc' \in {"subscribe", "done"}
             \/ pc = "consume" /\ pc' \in {"consume", "done"}
          /\ UNCHANGED out \/ pc' = "done"
      BY <1>11 DEF StartPosition, Consume, Return
    <2> QED BY <2>1
  <1> QED BY <1>1, <1>2, <1>3, <1>4, <1>5, <1>6, <1>7, <1>8, <1>9, <1>10, <1>11
          DEF Next, Command, Compare, OfferNext, World

\* Only a message that is received moves a scanner.
LEMMA PositionsKept ==
    ASSUME ScannersOK, ControlOK, [Next]_vars,
           ~(SkipSelfControlled \/ TakeMessage \/ ReceiveMessage)
    PROVE  \A i \in 1..Len(scan) : scan'[i].pos = scan[i].pos
  <1>0. scan \in Seq(Scanner)
    BY DEF ScannersOK
  <1>1. ASSUME NEW i \in 1..Len(scan), Offer(i) \/ ScannerFails(i), NEW j \in 1..Len(scan)
        PROVE  scan'[j].pos = scan[j].pos
    <2>1. CASE j # i
      BY <1>0, <1>1, <2>1 DEF Offer, ScannerFails
    <2>2. CASE j = i
      <3>1. scan[i] \in Scanner
        BY <1>0
      <3>2. scan'[i] = [scan[i] EXCEPT !.offered = TRUE] \/ scan'[i] = [scan[i] EXCEPT !.alive = FALSE]
        BY <1>0, <1>1 DEF Offer, ScannerFails
      <3>3. [scan[i] EXCEPT !.offered = TRUE].pos = scan[i].pos
        BY <3>1 DEF Scanner
      <3>4. [scan[i] EXCEPT !.alive = FALSE].pos = scan[i].pos
        BY <3>1 DEF Scanner
      <3> QED BY <2>2, <3>2, <3>3, <3>4
    <2> QED BY <2>1, <2>2
  <1>2. CASE NewWALScanner /\ ~UNCHANGED scan
    <2>1. scan' = Append(scan, NewScanner)
      BY <1>2 DEF NewWALScanner
    <2> QED BY <1>0, <2>1 DEF NewScanner, Scanner
  <1>3. CASE UNCHANGED scan
    BY <1>3
  <1>4. CASE \/ Interrupt \/ CheckChannels \/ OpenFails \/ StartReading \/ BeginPass
             \/ SkipChannel \/ NothingThere \/ EndPass \/ StopReceiving \/ StartPosition
             \/ NewConsumer \/ GetLastMessageID \/ CallFails \/ Consume \/ ResetOffset \/ ConsumeTimesOut
             \/ Produce \/ UNCHANGED vars \/ (NewWALScanner /\ UNCHANGED scan)
    BY <1>3, <1>4 DEF Interrupt, CheckChannels, OpenFails, StartReading, BeginPass, SkipChannel,
       NothingThere, EndPass, StopReceiving, StartPosition, NewConsumer, GetLastMessageID,
       CallFails, Consume, ResetOffset, ConsumeTimesOut, Produce, vars, MoveOn, NewWALScanner
  <1> QED BY <1>1, <1>2, <1>4 DEF Next, Command, Compare, OfferNext, World

LEMMA NothingReceivedStep ==
    ASSUME ScannersOK, ControlOK, NothingReceived, [Next]_vars
    PROVE  NothingReceived'
  <1> SUFFICES ASSUME pc' \in {"begin", "open"}
               PROVE  \A i \in 1..Len(scan') : scan'[i].pos = 0
    BY DEF NothingReceived
  <1>1. pc \in {"begin", "open"}
    BY DEF Next, Command, Compare, OfferNext, World, Offer, ScannerFails, Interrupt, CheckChannels,
       NewWALScanner, OpenFails, StartReading, BeginPass, SkipChannel, SkipSelfControlled,
       TakeMessage, NothingThere, EndPass, ReceiveMessage, StopReceiving, StartPosition, Return,
       NewConsumer, GetLastMessageID, CallFails, Consume, ResetOffset, ConsumeTimesOut, Produce, MoveOn, vars, AtChannel
  <1>2. \A i \in 1..Len(scan) : scan'[i].pos = 0
    <2>1. ~(SkipSelfControlled \/ TakeMessage \/ ReceiveMessage)
      BY <1>1 DEF SkipSelfControlled, TakeMessage, ReceiveMessage, AtChannel
    <2> QED BY <1>1, <2>1, PositionsKept DEF NothingReceived
  <1>3. CASE NewWALScanner /\ ~UNCHANGED scan
    <2>1. scan' = Append(scan, NewScanner) /\ scan \in Seq(Scanner)
      BY <1>3 DEF NewWALScanner, ScannersOK
    <2>2. NewScanner.pos = 0 /\ Len(scan') = Len(scan) + 1 /\ scan'[Len(scan) + 1] = NewScanner
      BY <2>1 DEF NewScanner, Scanner
    <2>3. Len(scan) \in Nat
      BY <2>1
    <2>4. \A i \in 1..(Len(scan) + 1) : i \in 1..Len(scan) \/ i = Len(scan) + 1
      BY <2>3
    <2> QED BY <1>2, <2>2, <2>4
  <1>4. CASE UNCHANGED scan
    BY <1>2, <1>4
  <1>5. ASSUME NEW i \in 1..Len(scan), Offer(i) \/ ScannerFails(i)
        PROVE  Len(scan') = Len(scan)
    BY <1>5 DEF Offer, ScannerFails, ScannersOK
  <1>6. CASE \/ Interrupt \/ CheckChannels \/ OpenFails \/ StartReading \/ BeginPass
             \/ SkipChannel \/ NothingThere \/ EndPass \/ StopReceiving \/ StartPosition
             \/ NewConsumer \/ GetLastMessageID \/ CallFails \/ Consume \/ ResetOffset \/ ConsumeTimesOut
             \/ Produce \/ UNCHANGED vars \/ (NewWALScanner /\ UNCHANGED scan)
    BY <1>4, <1>6 DEF Interrupt, CheckChannels, OpenFails, StartReading, BeginPass, SkipChannel,
       NothingThere, EndPass, StopReceiving, StartPosition, NewConsumer, GetLastMessageID,
       CallFails, Consume, ResetOffset, ConsumeTimesOut, Produce, vars, MoveOn, NewWALScanner
  <1>7. ~(SkipSelfControlled \/ TakeMessage \/ ReceiveMessage)
    BY <1>1 DEF SkipSelfControlled, TakeMessage, ReceiveMessage, AtChannel
  <1> QED BY <1>2, <1>3, <1>5, <1>6, <1>7 DEF Next, Command, Compare, OfferNext, World

-----------------------------------------------------------------------------
(* cmp_pchannels. *)

LEMMA MapsStep ==
    ASSUME ScannersOK, ControlOK, MapsOK, [Next]_vars
    PROVE  MapsOK'
  <1>a. Channels' = Channels /\ Names' = Names /\ \A i \in 1..Channels : Name(i) \in Names
    BY SceneFixed DEF Names
  <1>1. CASE pc' # "pass"
    BY <1>1 DEF MapsOK
  <1>2. CASE UNCHANGED <<pc, ready, current, counters>>
    BY <1>a, <1>2 DEF MapsOK
  <1>3. CASE StartReading
    <2>1. CASE /\ ready' = [n \in Names |-> FALSE] /\ current' = [n \in Names |-> NoMsg]
               /\ counters' = [n \in Names |-> 0]
      BY <1>a, <2>1 DEF MapsOK
    <2>2. CASE pc' # "pass"
      BY <2>2 DEF MapsOK
    <2> QED BY <1>3, <2>1, <2>2 DEF StartReading, Return
  <1>4. CASE TakeMessage
    <2> DEFINE n == Name(at)
               m == Waiting(at)
    <2>1. /\ n \in Names /\ UNCHANGED pc /\ pc = "pass"
          /\ current' = [current EXCEPT ![n] = m]
          /\ counters' = [counters EXCEPT ![n] = @ + 1]
          /\ ready' = [ready EXCEPT ![n] = TRUE]
      BY <1>a, <1>4 DEF TakeMessage, AtChannel, MoveOn
    <2> HIDE DEF n, m
    <2>2. ready' \in [Names -> BOOLEAN]
      BY <2>1 DEF MapsOK
    <2>3. counters' \in [Names -> Nat]
      BY <2>1 DEF MapsOK
    <2>4. DOMAIN current' = Names /\ current' = [k \in Names |-> current'[k]]
      BY <2>1 DEF MapsOK
    <2> QED BY <1>a, <2>2, <2>3, <2>4 DEF MapsOK
  <1>5. CASE EndPass
    <2>1. UNCHANGED counters
      BY <1>5 DEF EndPass
    <2>2. CASE ready' = [n \in Names |-> FALSE] /\ current' = [n \in Names |-> NoMsg]
      <3>1. pc = "pass"
        BY <1>5 DEF EndPass
      <3> QED BY <1>a, <2>1, <2>2, <3>1 DEF MapsOK
    <2>3. CASE UNCHANGED <<ready, current>>
      <3>1. pc = "pass"
        BY <1>5 DEF EndPass
      <3> QED BY <1>a, <2>1, <2>3, <3>1 DEF MapsOK
    <2> QED BY <1>5, <2>2, <2>3 DEF EndPass
  <1>6. CASE \/ UNCHANGED vars \/ OfferNext \/ World \/ CheckChannels \/ NewWALScanner \/ BeginPass
             \/ SkipChannel \/ SkipSelfControlled \/ NothingThere \/ ReceiveMessage \/ StopReceiving
             \/ StartPosition \/ NewConsumer \/ GetLastMessageID \/ Consume \/ ResetOffset \/ ConsumeTimesOut
    <2>1. pc' # "pass" \/ UNCHANGED <<pc, ready, current, counters>>
      BY <1>6 DEF vars, streamVars, OfferNext, World, Offer, ScannerFails, Interrupt, OpenFails, CallFails,
         Produce, CheckChannels, NewWALScanner, BeginPass, SkipChannel, SkipSelfControlled,
         NothingThere, ReceiveMessage, StopReceiving, StartPosition, NewConsumer,
         GetLastMessageID, Consume, ResetOffset, ConsumeTimesOut, MoveOn, Return
    <2> QED BY <2>1, <1>1, <1>2
  <1> QED BY <1>3, <1>4, <1>5, <1>6 DEF Next, Command, Compare

\* CountersExact of the next state.
LEMMA CountersPrime ==
    ASSUME [Next]_vars,
           (pc' = "pass" /\ DistinctNames) =>
               \A i \in 1..Channels :
                   /\ counters'[Name(i)] = Len(Carried(i, scan[i].pos)')
                   /\ ready'[Name(i)] => /\ counters'[Name(i)] = Len(printed') + 1
                                         /\ current'[Name(i)] = Payload(i)[Len(printed') + 1]
                   /\ ~ready'[Name(i)] => counters'[Name(i)] = Len(printed')
    PROVE  CountersExact'
  BY SceneFixed DEF CountersExact

LEMMA CarriedPrime ==
    ASSUME [Next]_vars, NEW i, NEW n, scan'[i].pos = n
    PROVE  Carried(i, scan[i].pos)' = Carried(i, n)
  BY SceneFixed DEF Carried

\* A step that leaves the maps, what is printed and the positions alone.
LEMMA CountersKept ==
    ASSUME ScannersOK, ControlOK, CountersExact, [Next]_vars, pc' = "pass" => pc = "pass",
           UNCHANGED <<ready, current, counters, printed>>,
           \A i \in 1..Channels : scan'[i].pos = scan[i].pos
    PROVE  CountersExact'
  <1> SUFFICES ASSUME pc' = "pass", DistinctNames, NEW i \in 1..Channels
               PROVE  /\ counters'[Name(i)] = Len(Carried(i, scan[i].pos)')
                      /\ ready'[Name(i)] => /\ counters'[Name(i)] = Len(printed') + 1
                                            /\ current'[Name(i)] = Payload(i)[Len(printed') + 1]
                      /\ ~ready'[Name(i)] => counters'[Name(i)] = Len(printed')
    BY CountersPrime
  <1>1. Carried(i, scan[i].pos)' = Carried(i, scan[i].pos)
    BY CarriedPrime
  <1> QED BY <1>1 DEF CountersExact

\* A message that milvus wrote for itself is received and not counted.
LEMMA CountersSkip ==
    ASSUME ScannersOK, ControlOK, MapsOK, CountersExact, [Next]_vars, SkipSelfControlled
    PROVE  CountersExact'
  <1> SUFFICES ASSUME DistinctNames, NEW i \in 1..Channels
               PROVE  /\ counters'[Name(i)] = Len(Carried(i, scan[i].pos)')
                      /\ ready'[Name(i)] => /\ counters'[Name(i)] = Len(printed') + 1
                                            /\ current'[Name(i)] = Payload(i)[Len(printed') + 1]
                      /\ ~ready'[Name(i)] => counters'[Name(i)] = Len(printed')
    BY CountersPrime
  <1>1. /\ pc = "pass" /\ at \in 1..Channels /\ scan' = Received(at) /\ scan[at].offered
        /\ IsSelfControlled(Waiting(at))
        /\ UNCHANGED <<ready, current, counters, printed>>
    BY DEF SkipSelfControlled, AtChannel, MoveOn, streamVars
  <1>2. scene \in Scenes /\ Len(scan) = Channels
    BY <1>1 DEF ControlOK
  <1>3. Carried(i, scan[i].pos)' = Carried(i, scan[i].pos)
    <2>1. CASE i # at
      <3>1. scan'[i].pos = scan[i].pos
        BY <1>1, <1>2, <2>1, ReceivedFacts DEF ScannersOK
      <3> QED BY <3>1, CarriedPrime
    <2>2. CASE i = at
      <3> DEFINE n == scan[i].pos
      <3>1. scan'[i].pos = n + 1
        BY <1>1, <1>2, <2>2, ReceivedFacts DEF ScannersOK
      <3>2. Carried(i, scan[i].pos)' = Carried(i, n + 1)
        BY <3>1, CarriedPrime
      <3>3. n \in 0..(Len(Wal(i)) - 1)
        <4>1. scan[i] \in Scanner /\ scan[i].pos < Len(Wal(i))
          BY <1>1, <1>2, <2>2 DEF ScannersOK
        <4>2. Len(Wal(i)) \in Nat
          BY <1>2, SceneFacts
        <4> QED BY <4>1, <4>2 DEF Scanner
      <3>4. IsSelfControlled(Wal(i)[n + 1])
        BY <1>1, <2>2 DEF Waiting
      <3> HIDE DEF n
      <3>5. Carried(i, n + 1) = Carried(i, n)
        BY <1>2, <3>3, <3>4, CarriedFacts
      <3> QED BY <3>2, <3>5 DEF n
    <2> QED BY <2>1, <2>2
  <1> QED BY <1>1, <1>3 DEF CountersExact

\* A message that is taken is the next that its channel carries.
LEMMA CountersTake ==
    ASSUME ScannersOK, ControlOK, MapsOK, CountersExact, [Next]_vars, TakeMessage,
           DistinctNames => Len(printed) \in Nat
    PROVE  CountersExact'
  <1> SUFFICES ASSUME DistinctNames, NEW i \in 1..Channels
               PROVE  /\ counters'[Name(i)] = Len(Carried(i, scan[i].pos)')
                      /\ ready'[Name(i)] => /\ counters'[Name(i)] = Len(printed') + 1
                                            /\ current'[Name(i)] = Payload(i)[Len(printed') + 1]
                      /\ ~ready'[Name(i)] => counters'[Name(i)] = Len(printed')
    BY CountersPrime
  <1>1. /\ pc = "pass" /\ at \in 1..Channels /\ scan' = Received(at) /\ scan[at].offered
        /\ ~ready[Name(at)] /\ ~IsSelfControlled(Waiting(at))
        /\ current' = [current EXCEPT ![Name(at)] = Waiting(at)]
        /\ counters' = [counters EXCEPT ![Name(at)] = @ + 1]
        /\ ready' = [ready EXCEPT ![Name(at)] = TRUE]
        /\ UNCHANGED printed
    BY DEF TakeMessage, AtChannel, MoveOn
  <1>2. scene \in Scenes /\ Len(scan) = Channels
    BY <1>1 DEF ControlOK
  <1>3. /\ ready \in [Names -> BOOLEAN] /\ counters \in [Names -> Nat] /\ DOMAIN current = Names
        /\ Name(i) \in Names /\ Name(at) \in Names
    BY <1>1 DEF MapsOK, Names
  <1>4. CASE i # at
    <2>1. Name(i) # Name(at)
      BY <1>1, <1>2, <1>4, NamesInjective
    <2>2. /\ ready'[Name(i)] = ready[Name(i)] /\ counters'[Name(i)] = counters[Name(i)]
          /\ current'[Name(i)] = current[Name(i)]
      BY <1>1, <1>3, <2>1
    <2>3. scan'[i].pos = scan[i].pos
      BY <1>1, <1>2, <1>4, ReceivedFacts DEF ScannersOK
    <2>4. Carried(i, scan[i].pos)' = Carried(i, scan[i].pos)
      BY <2>3, CarriedPrime
    <2> QED BY <1>1, <2>2, <2>4 DEF CountersExact
  <1>5. CASE i = at
    <2> DEFINE n == scan[i].pos
               m == Wal(i)[n + 1]
    <2>1. scan'[i].pos = n + 1
      BY <1>1, <1>2, <1>5, ReceivedFacts DEF ScannersOK
    <2>2. Carried(i, scan[i].pos)' = Carried(i, n + 1)
      BY <2>1, CarriedPrime
    <2>3. n \in 0..(Len(Wal(i)) - 1) /\ Len(Wal(i)) \in Nat
      <3>1. scan[i] \in Scanner /\ scan[i].pos < Len(Wal(i))
        BY <1>1, <1>2, <1>5 DEF ScannersOK
      <3>2. Len(Wal(i)) \in Nat
        BY <1>2, SceneFacts
      <3> QED BY <3>1, <3>2 DEF Scanner
    <2>4. Waiting(at) = m
      BY <1>5 DEF Waiting
    <2>5. /\ counters[Name(i)] = Len(Carried(i, n))
          /\ counters[Name(i)] = Len(printed)
      BY <1>1, <1>5 DEF CountersExact
    <2> HIDE DEF n
    <2>6. n + 1 \in 0..Len(Wal(i)) /\ n \in 0..Len(Wal(i))
      BY <2>3
    <2>7. /\ Carried(i, n + 1) = Append(Carried(i, n), m)
          /\ Carried(i, n) \in Seq(Range(Wal(i))) /\ Carried(i, n + 1) \in Seq(Range(Wal(i)))
          /\ Starts(Carried(i, n + 1), Payload(i))
      BY <1>1, <1>2, <2>3, <2>4, <2>6, CarriedFacts
    <2> HIDE DEF m
    <2>8. /\ Len(Carried(i, n + 1)) = Len(printed) + 1
          /\ Carried(i, n + 1)[Len(printed) + 1] = m
          /\ Len(printed) + 1 \in 1..Len(Carried(i, n + 1))
      <3> DEFINE c == Carried(i, n)
                 d == Carried(i, n + 1)
      <3>1. d = Append(c, m) /\ c \in Seq(Range(Wal(i))) /\ Len(c) = Len(printed)
        BY <2>5, <2>7
      <3> HIDE DEF c, d
      <3>2. Len(d) = Len(c) + 1 /\ d[Len(c) + 1] = m /\ Len(c) \in Nat
        BY <3>1
      <3> QED BY <3>1, <3>2 DEF d
    <2>9. Payload(i)[Len(printed) + 1] = m
      BY <2>7, <2>8 DEF Starts
    <2>10. /\ ready'[Name(i)] /\ counters'[Name(i)] = counters[Name(i)] + 1
           /\ current'[Name(i)] = m
      BY <1>1, <1>3, <1>5, <2>4
    <2> QED BY <1>1, <2>2, <2>5, <2>8, <2>9, <2>10
  <1> QED BY <1>4, <1>5

\* When every name has its message, they are the next round of all channels.
LEMMA RoundComplete ==
    ASSUME ScannersOK, ControlOK, MapsOK, CountersExact, RoundsTyped,
           pc = "pass", DistinctNames, \A n \in Names : ready[n]
    PROVE  /\ Len(printed) + 1 \in 1..Rounds
           /\ Round = RoundAt(Len(printed) + 1)
           /\ compareCurrentMessages(current) <=> Agrees(Len(printed) + 1)
  <1> DEFINE k == Len(printed) + 1
  <1>1. scene \in Scenes /\ Channels >= 2 /\ Len(scan) = Channels /\ cmd.name = "cmp_pchannels"
    BY DEF ControlOK
  <1>2. Len(printed) \in Nat
    BY <1>1 DEF RoundsTyped
  <1>3. Channels \in Nat
    BY <1>1, SceneFacts
  <1>4. ASSUME NEW i \in 1..Channels
        PROVE  /\ counters[Name(i)] = k /\ current[Name(i)] = Payload(i)[k]
               /\ k <= Len(Payload(i))
    <2>1. Name(i) \in Names
      BY DEF Names
    <2>2. /\ counters[Name(i)] = k /\ current[Name(i)] = Payload(i)[k]
          /\ counters[Name(i)] = Len(Carried(i, scan[i].pos))
      BY <2>1 DEF CountersExact
    <2>3. scan[i].pos \in 0..Len(Wal(i))
      <3>1. scan[i] \in Scanner /\ scan[i].pos <= Len(Wal(i))
        BY <1>1 DEF ScannersOK
      <3>2. Len(Wal(i)) \in Nat
        BY <1>1, SceneFacts
      <3> QED BY <3>1, <3>2 DEF Scanner
    <2>4. Starts(Carried(i, scan[i].pos), Payload(i))
      BY <1>1, <2>3, CarriedFacts
    <2> QED BY <2>2, <2>4 DEF Starts
  <1>5. k \in Nat /\ \A i \in 1..Channels : k <= Len(Payload(i))
    BY <1>2, <1>4
  <1>6. Rounds \in Nat
    BY <1>1, RoundsNat
  <1>7. k <= Rounds
    <2> HIDE DEF k
    <2>1. Channels >= 1
      BY <1>1, <1>3
    <2> QED BY <1>1, <1>5, <2>1, RoundsBound
  <1>8. Round = RoundAt(k)
    BY <1>4 DEF Round, RoundAt
  <1>9. compareCurrentMessages(current) <=> Agrees(k)
    <2> HIDE DEF k
    <2> QED BY <1>1, <1>4, ComparisonExact
  <1> QED BY <1>2, <1>6, <1>7, <1>8, <1>9

\* RoundsExact of the next state.
LEMMA RoundsPrime ==
    ASSUME [Next]_vars
    PROVE  RoundsExact' = ((cmd.name = "cmp_pchannels" /\ DistinctNames) =>
                /\ \A j \in DOMAIN printed' : j <= Rounds /\ Agrees(j) /\ printed'[j] = RoundAt(j)
                /\ out' = "inconsistent" => Len(printed') < Rounds /\ ~Agrees(Len(printed) + 1)')
  BY SceneFixed DEF RoundsExact, RoundAt

LEMMA CompareStep ==
    ASSUME ScannersOK, ControlOK, NothingReceived, MapsOK, CountersExact, RoundsTyped, RoundsExact,
           [Next]_vars
    PROVE  CountersExact' /\ RoundsTyped' /\ RoundsExact'
  <1>0. scene \in Scenes /\ Channels \in Nat
    <2>1. scene \in Scenes
      BY DEF ControlOK
    <2> QED BY <2>1, SceneFacts
  \* The rounds printed, for a command that prints no other.
  <1>a. ASSUME UNCHANGED printed, out' = "inconsistent" => out = "inconsistent"
        PROVE  RoundsTyped' /\ RoundsExact'
    <2>1. RoundsTyped'
      BY <1>a, SceneFixed DEF RoundsTyped
    <2>2. Agrees(Len(printed) + 1)' = Agrees(Len(printed) + 1)
      BY <1>a, SceneFixed DEF Agrees
    <2>3. (cmd.name = "cmp_pchannels" /\ DistinctNames) =>
              /\ \A j \in DOMAIN printed : j <= Rounds /\ Agrees(j) /\ printed[j] = RoundAt(j)
              /\ out = "inconsistent" => Len(printed) < Rounds /\ ~Agrees(Len(printed) + 1)
      BY DEF RoundsExact, RoundAt
    <2>4. RoundsExact'
      BY <1>a, <2>2, <2>3, RoundsPrime
    <2> QED BY <2>1, <2>4
  <1>1. CASE cmd.name # "cmp_pchannels"
    <2>1. RoundsTyped' /\ RoundsExact'
      BY <1>1, SceneFixed DEF RoundsTyped, RoundsExact
    <2>2. pc' # "pass"
      <3>1. ControlOK'
        BY ControlStep
      <3> QED BY <1>1, <3>1, SceneFixed DEF ControlOK
    <2> QED BY <2>1, <2>2 DEF CountersExact
  <1>2. CASE SkipSelfControlled
    <2>1. UNCHANGED <<printed, out>>
      BY <1>2 DEF SkipSelfControlled, MoveOn
    <2> QED BY <1>2, <1>a, <2>1, CountersSkip
  <1>3. CASE TakeMessage
    <2>1. UNCHANGED <<printed, out>> /\ pc = "pass"
      BY <1>3 DEF TakeMessage, MoveOn, AtChannel
    <2>2. DistinctNames => Len(printed) \in Nat
      BY <2>1 DEF RoundsTyped, ControlOK
    <2> QED BY <1>3, <1>a, <2>1, <2>2, CountersTake
  <1>4. CASE StartReading /\ cmd.name = "cmp_pchannels"
    <2>1. /\ pc = "open" /\ at > Channels /\ UNCHANGED <<scan, printed, out>>
          /\ ready' = [n \in Names |-> FALSE]
          /\ counters' = [n \in Names |-> 0]
      BY <1>4 DEF StartReading
    <2>2. Len(scan) = Channels /\ printed = <<>>
      <3>1. at = Len(scan) + 1 /\ printed = <<>>
        BY <2>1 DEF ControlOK
      <3>2. scan \in Seq(Scanner) /\ Len(scan) <= Channels
        BY DEF ScannersOK
      <3>3. Len(scan) \in Nat
        BY <3>2
      <3>4. Len(scan) = Channels
        BY <1>0, <2>1, <3>1, <3>2, <3>3
      <3> QED BY <3>1, <3>4
    <2>3. ASSUME NEW i \in 1..Channels
          PROVE  /\ counters'[Name(i)] = Len(Carried(i, scan[i].pos)')
                 /\ ~ready'[Name(i)] /\ counters'[Name(i)] = Len(printed')
      <3>1. scan'[i].pos = 0
        BY <2>1, <2>2 DEF NothingReceived
      <3>2. Carried(i, scan[i].pos)' = Carried(i, 0)
        BY <3>1, CarriedPrime
      <3>3. Carried(i, 0) = <<>>
        BY <1>0, CarriedFacts
      <3>4. Name(i) \in Names
        BY DEF Names
      <3>5. ready'[Name(i)] = FALSE /\ counters'[Name(i)] = 0
        BY <2>1, <3>4
      <3>6. Len(Carried(i, 0)) = 0 /\ Len(printed') = 0
        BY <3>3, <2>1, <2>2
      <3> QED BY <3>2, <3>5, <3>6
    <2>4. CountersExact'
      BY <2>3, CountersPrime
    <2> QED BY <2>1, <2>4, <1>a
  <1>5. CASE EndPass /\ cmd.name = "cmp_pchannels"
    <2> DEFINE k == Len(printed) + 1
    <2>1. pc = "pass" /\ UNCHANGED <<scan, counters>>
      BY <1>5 DEF EndPass
    <2>2. CASE UNCHANGED <<printed, ready, current>> /\ (out' = "inconsistent" => out = "inconsistent")
      <3>1. \A i \in 1..Channels : scan'[i].pos = scan[i].pos
        BY <2>1
      <3> QED BY <1>a, <2>1, <2>2, <3>1, CountersKept
    <2>3. CASE ~DistinctNames
      <3>1. CountersExact'
        BY <2>3, SceneFixed DEF CountersExact
      <3>2. RoundsTyped' /\ RoundsExact'
        BY <2>3, SceneFixed DEF RoundsTyped, RoundsExact
      <3> QED BY <3>1, <3>2
    <2>4. CASE DistinctNames /\ ~UNCHANGED <<printed, ready, current>>
      <3>1. /\ \A n \in Names : ready[n]
            /\ compareCurrentMessages(current)
            /\ printed' = Append(printed, Round) /\ UNCHANGED <<pc, out>>
            /\ ready' = [n \in Names |-> FALSE]
        BY <1>5, <2>4 DEF EndPass
      <3>2. k \in 1..Rounds /\ Round = RoundAt(k) /\ Agrees(k)
        BY <2>1, <2>4, <3>1, RoundComplete
      <3>3. printed \in Seq({RoundAt(j) : j \in 1..Rounds})
        BY <1>5, <2>4 DEF RoundsTyped
      <3>4. printed' = Append(printed, RoundAt(k))
        BY <3>1, <3>2
      <3> DEFINE R == {RoundAt(j) : j \in 1..Rounds}
      <3>5. RoundAt(k) \in R /\ printed \in Seq(R)
        BY <3>2, <3>3
      <3>6. /\ printed' \in Seq(R) /\ Len(printed') = k /\ printed'[k] = RoundAt(k)
            /\ \A j \in DOMAIN printed : printed'[j] = printed[j]
            /\ DOMAIN printed' = DOMAIN printed \cup {k}
        <4> DEFINE x == RoundAt(k)
        <4>1. x \in R /\ printed' = Append(printed, x)
          BY <3>4, <3>5
        <4> HIDE DEF R, x
        <4>2. /\ printed' \in Seq(R) /\ Len(printed') = k /\ printed'[k] = x
              /\ \A j \in DOMAIN printed : printed'[j] = printed[j]
              /\ DOMAIN printed' = DOMAIN printed \cup {k}
          BY <4>1, <3>5
        <4> QED BY <4>2 DEF x
      <3>7. RoundsTyped'
        BY <3>6, SceneFixed DEF RoundsTyped
      <3>8. ASSUME NEW j \in DOMAIN printed'
            PROVE  j <= Rounds /\ Agrees(j) /\ printed'[j] = RoundAt(j)
        <4>1. CASE j = k
          BY <4>1, <3>2, <3>6 
        <4>2. CASE j \in DOMAIN printed
          <5>1. j <= Rounds /\ Agrees(j) /\ printed[j] = RoundAt(j)
            BY <1>5, <2>4, <4>2 DEF RoundsExact, RoundAt
          <5> QED BY <3>6, <4>2, <5>1
        <4> QED BY <3>6, <4>1, <4>2
      <3>9. out' # "inconsistent"
        BY <2>1, <3>1 DEF ControlOK
      <3>10. RoundsExact'
        BY <3>8, <3>9, RoundsPrime
      <3>11. ASSUME NEW i \in 1..Channels
             PROVE  /\ counters'[Name(i)] = Len(Carried(i, scan[i].pos)')
                    /\ ~ready'[Name(i)] /\ counters'[Name(i)] = Len(printed')
        <4>1. Name(i) \in Names
          BY DEF Names
        <4>2. Carried(i, scan[i].pos)' = Carried(i, scan[i].pos)
          BY <2>1, CarriedPrime
        <4>3. ready[Name(i)] /\ ready'[Name(i)] = FALSE
          BY <3>1, <4>1
        <4>4. counters[Name(i)] = Len(Carried(i, scan[i].pos)) /\ counters[Name(i)] = k
          BY <2>1, <2>4, <4>3 DEF CountersExact
        <4> QED BY <2>1, <3>6, <4>2, <4>3, <4>4
      <3>12. CountersExact'
        BY <3>11, CountersPrime
      <3> QED BY <3>7, <3>10, <3>12
    <2>5. CASE DistinctNames /\ UNCHANGED <<printed, ready, current>> /\ out' = "inconsistent"
               /\ out # "inconsistent"
      <3>1. /\ \A n \in Names : ready[n]
            /\ ~compareCurrentMessages(current)
            /\ pc' = "done"
        BY <1>5, <2>5 DEF EndPass, Return
      <3>2. k \in 1..Rounds /\ ~Agrees(k)
        BY <2>1, <2>5, <3>1, RoundComplete
      <3>3. RoundsTyped'
        BY <2>5, SceneFixed DEF RoundsTyped
      <3>4. Len(printed) < Rounds
        <4>1. Len(printed) \in Nat
          BY <1>5, <2>5 DEF RoundsTyped
        <4>2. Rounds \in Nat
          BY <1>0, <2>1, RoundsNat DEF ControlOK
        <4> QED BY <3>2, <4>1, <4>2
      <3>5. Agrees(Len(printed) + 1)' = Agrees(Len(printed) + 1)
        BY <2>5, SceneFixed DEF Agrees
      <3>6. RoundsExact'
        BY <2>5, <3>2, <3>4, <3>5, SceneFixed DEF RoundsExact
      <3>7. CountersExact'
        BY <3>1 DEF CountersExact
      <3> QED BY <3>3, <3>6, <3>7
    <2> QED BY <2>2, <2>3, <2>4, <2>5
  <1>6. CASE /\ cmd.name = "cmp_pchannels"
             /\ \/ UNCHANGED vars \/ OfferNext \/ World \/ CheckChannels \/ NewWALScanner \/ BeginPass
                \/ SkipChannel \/ NothingThere
             /\ ~(SkipSelfControlled \/ TakeMessage)
    <2>1. UNCHANGED printed /\ (out' = "inconsistent" => out = "inconsistent")
      BY <1>6 DEF vars, OfferNext, World, Offer, ScannerFails, Interrupt, OpenFails, CallFails, Produce,
         CheckChannels, NewWALScanner, BeginPass, SkipChannel, NothingThere, MoveOn, Return
    <2>2. CASE pc' # "pass"
      BY <1>a, <2>1, <2>2 DEF CountersExact
    <2>3. CASE pc' = "pass"
      <3>1. pc = "pass" /\ UNCHANGED <<ready, current, counters>>
        BY <1>6, <2>3 DEF vars, streamVars, OfferNext, World, Offer, ScannerFails, Interrupt, OpenFails,
           CallFails, Produce, CheckChannels, NewWALScanner, BeginPass, SkipChannel,
           NothingThere, MoveOn, Return
      <3>2. ~(SkipSelfControlled \/ TakeMessage \/ ReceiveMessage)
        BY <1>6, <3>1 DEF ReceiveMessage
      <3>3. \A i \in 1..Channels : scan'[i].pos = scan[i].pos
        <4>1. Len(scan) = Channels
          BY <3>1 DEF ControlOK
        <4> QED BY <3>2, <4>1, PositionsKept
      <3> QED BY <1>a, <2>1, <3>1, <3>3, CountersKept
    <2> QED BY <2>2, <2>3
  <1>7. CASE /\ cmd.name = "cmp_pchannels"
             /\ \/ ReceiveMessage \/ StopReceiving \/ StartPosition \/ NewConsumer
                \/ GetLastMessageID \/ Consume \/ ResetOffset \/ ConsumeTimesOut
    <2>1. FALSE
      BY <1>7 DEF ControlOK, ReceiveMessage, StopReceiving, StartPosition, NewConsumer,
         GetLastMessageID, Consume, ResetOffset, ConsumeTimesOut
    <2> QED BY <2>1
  <1> QED BY <1>1, <1>2, <1>3, <1>4, <1>5, <1>6, <1>7 DEF Next, Command, Compare

-----------------------------------------------------------------------------
(* consumev2. *)

LEMMA StartsIsPrefix ==
    ASSUME NEW X, NEW p \in Seq(X), NEW q \in Seq(X), Starts(p, q)
    PROVE  IsPrefix(p, q)
  <1>1. Len(p) <= Len(q) /\ \A k \in 1..Len(p) : q[k] = p[k]
    BY DEF Starts
  <1>2. SubSeq(p, 1, Len(p)) = SubSeq(q, 1, Len(p))
    BY <1>1
  <1> QED BY <1>1, <1>2 DEF IsPrefix

LEMMA ReceiveStep ==
    ASSUME ScannersOK, ControlOK, NothingReceived, ReceiveInv, ReceivedExact, [Next]_vars
    PROVE  ReceiveInv' /\ ReceivedExact'
  <1>0. scene \in Scenes /\ Channels \in Nat
    <2>1. scene \in Scenes
      BY DEF ControlOK
    <2> QED BY <2>1, SceneFacts
  <1>1. CASE cmd.name # "consumev2"
    BY <1>1, SceneFixed DEF ReceiveInv, ReceivedExact
  \* The next state's ReceiveInv and ReceivedExact.
  <1>a. ASSUME cmd.name = "consumev2",
               pc' = "receive" =>
                   /\ printed' = Carried(1, scan[1].pos)'
                   /\ Len(printed') = 0 \/ ~LimitReached(Len(printed))'
        PROVE  ReceiveInv'
    BY <1>a DEF ReceiveInv
  <1>b. ASSUME UNCHANGED printed, out' = "limit" => out = "limit"
        PROVE  ReceivedExact'
    BY <1>b, SceneFixed DEF ReceivedExact
  <1>2. CASE cmd.name = "consumev2" /\ ReceiveMessage
    <2> DEFINE n == scan[1].pos
               m == Wal(1)[n + 1]
    <2>1. /\ pc = "receive" /\ scan[1].offered /\ scan' = Received(1)
          /\ Waiting(1) = m
      BY <1>2 DEF ReceiveMessage, Waiting
    <2>2. Len(scan) = Channels /\ Channels >= 1 /\ cmd.limit # NotANumber /\ out = "running"
      BY <2>1 DEF ControlOK
    <2>3. 1 \in 1..Channels
      BY <1>0, <2>2
    <2>4. cmd.limit \in Int
      BY <1>0, <1>2, <2>2, SceneAssumption DEF cmd
    <2>5. scan'[1].pos = n + 1
      BY <2>1, <2>2, <2>3, ReceivedFacts DEF ScannersOK
    <2>6. n \in 0..(Len(Wal(1)) - 1) /\ Len(Wal(1)) \in Nat
      <3>1. scan[1] \in Scanner /\ scan[1].pos < Len(Wal(1))
        BY <2>1, <2>2, <2>3 DEF ScannersOK
      <3>2. Len(Wal(1)) \in Nat
        BY <1>0, <2>3, SceneFacts
      <3> QED BY <3>1, <3>2 DEF Scanner
    <2>7. Carried(1, scan[1].pos)' = Carried(1, n + 1)
      BY <2>5, CarriedPrime
    <2>8. printed = Carried(1, n) /\ (Len(printed) = 0 \/ ~LimitReached(Len(printed)))
      BY <1>2, <2>1 DEF ReceiveInv
    <2> HIDE DEF n
    <2>9. n + 1 \in 0..Len(Wal(1)) /\ n \in 0..Len(Wal(1))
      BY <2>6
    <2>10. /\ Carried(1, n + 1) = IF IsSelfControlled(m) THEN Carried(1, n)
                                  ELSE Append(Carried(1, n), m)
           /\ Carried(1, n) \in Seq(Range(Wal(1))) /\ Carried(1, n + 1) \in Seq(Range(Wal(1)))
           /\ Starts(Carried(1, n + 1), Payload(1)) /\ Payload(1) \in Seq(Range(Wal(1)))
      BY <1>0, <2>3, <2>6, <2>9, CarriedFacts
    <2> HIDE DEF m
    <2>11. CASE IsSelfControlled(m)
      <3>1. UNCHANGED <<pc, out, printed>>
        BY <1>2, <2>1, <2>11 DEF ReceiveMessage
      <3>2. LimitReached(Len(printed))' = LimitReached(Len(printed))
        BY <3>1, SceneFixed DEF LimitReached
      <3>3. ReceiveInv'
        BY <1>2, <1>a, <2>7, <2>8, <2>10, <2>11, <3>1, <3>2
      <3> QED BY <1>b, <3>1, <3>3
    <2>12. CASE ~IsSelfControlled(m)
      <3>1. /\ printed' = Append(printed, m)
            /\ IF LimitReached(Len(printed')) THEN pc' = "done" /\ out' = "limit"
               ELSE UNCHANGED <<pc, out>>
        BY <1>2, <2>1, <2>12 DEF ReceiveMessage, Return
      <3>2. printed' = Carried(1, n + 1)
        BY <2>8, <2>10, <2>12, <3>1
      <3>3. Len(printed') = Len(printed) + 1 /\ Len(printed) \in Nat
        <4> DEFINE c == Carried(1, n)
        <4>1. printed = c /\ c \in Seq(Range(Wal(1))) /\ printed' = Append(c, m)
          BY <2>8, <2>10, <3>1
        <4> HIDE DEF c
        <4> QED BY <4>1
      <3>4. LimitReached(Len(printed))' = LimitReached(Len(printed'))
        BY SceneFixed DEF LimitReached
      <3>5. ReceiveInv'
        BY <1>2, <1>a, <2>7, <3>1, <3>2, <3>4
      <3>6. IsPrefix(printed', Payload(1))
        BY <2>10, <3>2, StartsIsPrefix
      <3>7. out' = "limit" => Len(printed') = IF cmd.limit < 1 THEN 1 ELSE cmd.limit
        BY <2>2, <2>4, <2>8, <3>1, <3>3 DEF LimitReached
      <3>8. IsPrefix(printed, IF Channels = 0 THEN <<>> ELSE Payload(1))'
        <4>1. Channels' = Channels /\ Channels # 0 /\ Payload(1)' = Payload(1)
          BY <1>0, <2>2, SceneFixed
        <4> QED BY <3>6, <4>1
      <3>9. ReceivedExact'
        BY <3>7, <3>8, SceneFixed DEF ReceivedExact
      <3> QED BY <3>5, <3>9
    <2> QED BY <2>11, <2>12
  <1>3. CASE cmd.name = "consumev2" /\ StartReading
    <2>1. pc = "open" /\ at > Channels /\ UNCHANGED <<scan, printed>> /\ out' # "limit"
      BY <1>3 DEF StartReading, Return, ControlOK
    <2>2. Channels >= 1 /\ at = Len(scan) + 1 /\ printed = <<>>
      BY <2>1 DEF ControlOK
    <2>3. 1 \in 1..Len(scan) /\ 1 \in 1..Channels
      <3>1. scan \in Seq(Scanner) /\ Len(scan) <= Channels
        BY DEF ScannersOK
      <3>2. Len(scan) \in Nat
        BY <3>1
      <3> QED BY <1>0, <2>1, <2>2, <3>1, <3>2
    <2>4. scan'[1].pos = 0
      BY <2>1, <2>3 DEF NothingReceived
    <2>5. Carried(1, scan[1].pos)' = <<>>
      BY <1>0, <2>3, <2>4, CarriedPrime, CarriedFacts
    <2>6. Len(printed') = 0
      BY <2>1, <2>2
    <2>7. ReceiveInv'
      BY <1>3, <1>a, <2>1, <2>2, <2>5, <2>6
    <2> QED BY <1>b, <2>1, <2>7
  <1>4. CASE cmd.name = "consumev2" /\ ~ReceiveMessage /\ ~StartReading
    <2>1. /\ UNCHANGED printed /\ (out' = "limit" => out = "limit")
          /\ pc' = "receive" => pc = "receive"
      BY <1>4 DEF vars, Next, Command, Compare, OfferNext, World, Offer, ScannerFails, Interrupt,
         CheckChannels, NewWALScanner, OpenFails, BeginPass, SkipChannel, SkipSelfControlled,
         TakeMessage, NothingThere, EndPass, StopReceiving, StartPosition, NewConsumer,
         GetLastMessageID, CallFails, Consume, ResetOffset, ConsumeTimesOut, Produce, MoveOn, Return, ControlOK
    <2>2. CASE pc' # "receive"
      BY <1>b, <2>1, <2>2 DEF ReceiveInv
    <2>3. CASE pc' = "receive"
      <3>1. pc = "receive" /\ ~(SkipSelfControlled \/ TakeMessage)
        BY <2>1, <2>3 DEF SkipSelfControlled, TakeMessage, AtChannel
      <3>2. 1 \in 1..Len(scan)
        <4>1. Len(scan) = Channels /\ Channels >= 1
          BY <3>1 DEF ControlOK
        <4> QED BY <1>0, <4>1
      <3>3. scan'[1].pos = scan[1].pos
        BY <1>4, <3>1, <3>2, PositionsKept
      <3>4. Carried(1, scan[1].pos)' = Carried(1, scan[1].pos)
        BY <3>3, CarriedPrime
      <3>5. LimitReached(Len(printed))' = LimitReached(Len(printed))
        BY <2>1, SceneFixed DEF LimitReached
      <3>6. ReceiveInv'
        BY <1>4, <1>a, <2>1, <3>1, <3>4, <3>5 DEF ReceiveInv
      <3> QED BY <1>b, <2>1, <3>6
    <2> QED BY <2>2, <2>3
  <1> QED BY <1>1, <1>2, <1>3, <1>4

-----------------------------------------------------------------------------
(* consume. *)

First == IF from = NoMsg THEN 0 ELSE from
ReadOffsets == {o \in First..(next - 1) : topic[o + 1].type # "TimeTick"}

\* One message more, which the topic has at the position.
LEMMA ConsumeRead ==
    ASSUME ControlOK, ConsumeInv, ReadExact, cmd.name = "consume", Consume, UNCHANGED cmd
    PROVE  ConsumeInv' /\ ReadExact'
  <1>1. /\ pc = "consume" /\ next \in 0..(Len(topic) - 1)
        /\ UNCHANGED <<topic, from, latest>> /\ out = "running"
    BY DEF Consume, ControlOK
  <1>2. /\ topic \in Seq(Range(topic)) /\ (from = NoMsg \/ from \in Int)
        /\ printed \in Seq(Offsets)
    BY DEF ConsumeInv
  <1>3. next \in Int /\ next # NoMsg /\ Len(topic) \in Nat
    BY <1>1, <1>2, NoMsgAssumption
  <1>4. First \in Int /\ (next = First \/ (First \in 0..next /\ next <= Len(topic)))
    BY <1>2, <1>3 DEF ConsumeInv, First
  <1>5. /\ {printed[k].offset : k \in DOMAIN printed} = ReadOffsets
        /\ \A j, k \in DOMAIN printed : j < k => printed[j].offset < printed[k].offset
    BY <1>3 DEF ReadExact, ReadOffsets, First
  <1>6. First' = First /\ First \in 0..next
    BY <1>1, <1>3, <1>4 DEF First
  <1>7. CASE Breaks(topic[next + 1])
    <2>1. UNCHANGED <<next, printed>> /\ out' = "panic" /\ pc' = "done"
      BY <1>7 DEF Consume, Return
    <2>2. ConsumeInv'
      BY <1>1, <2>1 DEF ConsumeInv
    <2>3. ReadExact'
      BY <1>1, <2>1 DEF ReadExact
    <2> QED BY <2>2, <2>3
  <1>8. CASE ~Breaks(topic[next + 1])
    <2> DEFINE m == topic[next + 1]
               e == [offset |-> next, shown |-> Shown(m)]
    <2>1. /\ printed' = IF m.type = "TimeTick" THEN printed ELSE Append(printed, e)
          /\ next' = next + 1
          /\ out' = "ok" => next = latest
          /\ pc' \in {"consume", "done"}
      BY <1>1, <1>8 DEF Consume, Return, IsLast
    <2>2. e \in Offsets /\ e.offset = next
      <3>1. Shown(m) \in {"type", "detail", "mismatch", "shard"}
        BY Zenon DEF Shown, ValidateMsg
      <3> HIDE DEF m
      <3> QED BY <1>3, <3>1 DEF Offsets
    <2>3. ReadOffsets' = IF m.type = "TimeTick" THEN ReadOffsets ELSE ReadOffsets \cup {next}
      <3>1. ReadOffsets' = {o \in First..next : topic[o + 1].type # "TimeTick"}
        BY <1>1, <1>3, <1>6, <2>1 DEF ReadOffsets
      <3>2. \A o : o \in First..next <=> (o \in First..(next - 1) \/ o = next)
        BY <1>3, <1>6
      <3> QED BY <3>1, <3>2 DEF ReadOffsets
    <2>4. \A k \in DOMAIN printed : printed[k].offset \in Int /\ printed[k].offset < next
      <3>1. \A o \in ReadOffsets : o \in Int /\ o < next
        BY <1>3, <1>6 DEF ReadOffsets
      <3> QED BY <1>5, <3>1
    <2> HIDE DEF m, e
    <2>5. /\ printed' \in Seq(Offsets)
          /\ {printed'[k].offset : k \in DOMAIN printed'} = ReadOffsets'
          /\ \A j, k \in DOMAIN printed' : j < k => printed'[j].offset < printed'[k].offset
      <3>1. CASE m.type = "TimeTick"
        BY <1>2, <1>5, <2>1, <2>3, <3>1
      <3>2. CASE m.type # "TimeTick"
        <4> DEFINE n == Len(printed) + 1
        <4>1. printed' = Append(printed, e) /\ Len(printed) \in Nat
          BY <1>2, <2>1, <3>2
        <4>2. /\ printed' \in Seq(Offsets) /\ DOMAIN printed' = 1..n /\ DOMAIN printed = 1..(n - 1)
              /\ printed'[n] = e /\ \A k \in 1..(n - 1) : printed'[k] = printed[k]
          BY <1>2, <2>2, <4>1
        <4>3. n \in Nat /\ \A k \in 1..n : k = n \/ (k \in 1..(n - 1) /\ k < n)
          BY <4>1
        <4> HIDE DEF n
        <4>4. {printed'[k].offset : k \in DOMAIN printed'}
                 = {printed[k].offset : k \in DOMAIN printed} \cup {next}
          <5>1. \A k \in 1..(n - 1) : k \in 1..n
            BY <4>3
          <5>2. n \in 1..n
            BY <4>3, <4>1 DEF n
          <5>3. \A k \in DOMAIN printed' : printed'[k].offset \in {printed[j].offset : j \in DOMAIN printed} \cup {next}
            BY <4>2, <4>3, <2>2
          <5>4. \A k \in DOMAIN printed : printed[k].offset \in {printed'[j].offset : j \in DOMAIN printed'}
            BY <4>2, <5>1
          <5>5. next \in {printed'[j].offset : j \in DOMAIN printed'}
            BY <4>2, <5>2, <2>2
          <5> QED BY <5>3, <5>4, <5>5
        <4>5. {printed'[k].offset : k \in DOMAIN printed'} = ReadOffsets'
          BY <4>4, <1>5, <2>3, <3>2
        <4>6. ASSUME NEW j \in DOMAIN printed', NEW k \in DOMAIN printed', j < k
              PROVE  printed'[j].offset < printed'[k].offset
          <5>1. j \in 1..(n - 1)
            BY <4>2, <4>3, <4>6
          <5>2. CASE k = n
            BY <2>2, <2>4, <4>2, <5>1, <5>2
          <5>3. CASE k \in 1..(n - 1)
            BY <1>5, <4>2, <4>6, <5>1, <5>3
          <5> QED BY <4>2, <4>3, <5>2, <5>3
        <4> QED BY <4>2, <4>5, <4>6
      <3> QED BY <3>1, <3>2
    <2>6. next' \in Int /\ next' # NoMsg /\ First' \in 0..next' /\ next' <= Len(topic')
      BY <1>1, <1>3, <1>6, <2>1, NoMsgAssumption
    <2>7. ConsumeInv'
      BY <1>1, <1>2, <2>1, <2>5, <2>6 DEF ConsumeInv, First
    <2>8. ReadExact'
      BY <2>1, <1>1, <2>5 DEF ReadExact, ReadOffsets, First
    <2> QED BY <2>7, <2>8
  <1> QED BY <1>7, <1>8

\* The topic grows behind the position.
LEMMA ConsumeProduce ==
    ASSUME ControlOK, ConsumeInv, ReadExact, cmd.name = "consume", Produce, UNCHANGED cmd
    PROVE  ConsumeInv' /\ ReadExact'
  <1> DEFINE m == [type |-> "Insert", shard |-> cmd.shard, shape |-> "good"]
  <1>1. /\ topic' = Append(topic, m) /\ pc # "done"
        /\ UNCHANGED <<pc, out, from, next, latest, printed>>
    BY DEF Produce
  <1>2. /\ topic \in Seq(Range(topic)) /\ (from = NoMsg \/ from \in Int)
        /\ next = NoMsg \/ next \in Int
    BY DEF ConsumeInv
  <1> HIDE DEF m
  <1>3. /\ Len(topic') = Len(topic) + 1 /\ Len(topic) \in Nat
        /\ \A k \in 1..Len(topic) : topic'[k] = topic[k]
    BY <1>1, <1>2
  <1>4. topic' \in Seq(Range(topic'))
    <2>1. topic' \in Seq(Range(topic) \cup {m})
      BY <1>1, <1>2
    <2> HIDE DEF ConsumeInv
    <2> QED BY <2>1 DEF Range
  <1>5. ConsumeInv'
    BY <1>1, <1>2, <1>3, <1>4 DEF ConsumeInv
  <1>6. next # NoMsg => ReadOffsets' = ReadOffsets
    <2> SUFFICES ASSUME next # NoMsg PROVE ReadOffsets' = ReadOffsets
      OBVIOUS
    <2>1. next \in Int /\ First \in Int /\ (next = First \/ (First \in 0..next /\ next <= Len(topic)))
      BY <1>2 DEF ConsumeInv, First
    <2>2. First' = First
      BY <1>1 DEF First
    <2>3. \A o \in First..(next - 1) : topic'[o + 1] = topic[o + 1]
      <3> TAKE o \in First..(next - 1)
      <3>1. o + 1 \in 1..Len(topic)
        BY <1>3, <2>1
      <3> QED BY <1>3, <3>1
    <2> QED BY <1>1, <2>2, <2>3 DEF ReadOffsets
  <1>7. ReadExact'
    <2>1. next # NoMsg => {printed[k].offset : k \in DOMAIN printed} = ReadOffsets
      BY DEF ReadExact, ReadOffsets, First
    <2> QED BY <1>1, <1>6, <2>1 DEF ReadExact, ReadOffsets, First
  <1> QED BY <1>5, <1>7

LEMMA ConsumeStep ==
    ASSUME ControlOK, ConsumeInv, ReadExact, [Next]_vars
    PROVE  ConsumeInv' /\ ReadExact'
  <1>0. cmd' = cmd /\ scene \in Scenes
    BY SceneFixed DEF ControlOK
  <1>1. CASE cmd.name # "consume"
    BY <1>0, <1>1 DEF ConsumeInv, ReadExact
  <1>2. CASE cmd.name = "consume" /\ Consume
    BY <1>0, <1>2, ConsumeRead
  <1>3. CASE cmd.name = "consume" /\ Produce
    BY <1>0, <1>3, ConsumeProduce
  <1>4. CASE cmd.name = "consume" /\ StartPosition
    <2>1. /\ pc = "begin" /\ pc' \in {"subscribe", "done"} /\ UNCHANGED <<topic, next, latest, printed>>
          /\ from = NoMsg /\ next = NoMsg /\ printed = <<>>
      BY <1>4 DEF StartPosition, Return, ConsumeInv
    <2>2. from' = NoMsg \/ from' \in Int
      <3>1. cmd.manual \in Int /\ Range(scene.cps) \subseteq Int
        BY <1>0, <1>4, SceneAssumption DEF cmd
      <3>2. ASSUME Cardinality(Checkpoints) = 1
            PROVE  scene.cps[CHOOSE s \in Checkpoints : TRUE] \in Int
        <4>1. Checkpoints # {}
          BY <3>2, FS_EmptySet
        <4>2. (CHOOSE s \in Checkpoints : TRUE) \in DOMAIN scene.cps
          BY <4>1 DEF Checkpoints
        <4> QED BY <3>1, <4>2 DEF Range
      <3>3. Offset(cmd.manual) \in Int
        BY <3>1 DEF Offset
      <3> QED BY <1>4, <2>1, <3>2, <3>3 DEF StartPosition
    <2>3. ConsumeInv'
      BY <1>0, <1>4, <2>1, <2>2 DEF ConsumeInv
    <2>4. ReadExact'
      BY <2>1 DEF ReadExact
    <2> QED BY <2>3, <2>4
  <1>5. CASE cmd.name = "consume" /\ NewConsumer
    <2>1. /\ pc = "subscribe" /\ pc' \in {"ask", "done"}
          /\ UNCHANGED <<topic, from, latest, printed>> /\ next = NoMsg /\ printed = <<>>
          /\ (from = NoMsg \/ from \in Int)
          /\ out = "running" /\ out' # "ok"
      BY <1>5 DEF NewConsumer, Return, ConsumeInv, ControlOK
    <2>2. next' = NoMsg \/ (next' = First /\ First \in Int)
      BY <1>5, <2>1 DEF NewConsumer, First
    <2>3. ConsumeInv'
      BY <1>0, <1>5, <2>1, <2>2 DEF ConsumeInv, First
    <2>4. next' # NoMsg => {o \in First..(next' - 1) : topic[o + 1].type # "TimeTick"} = {}
      BY <2>2
    <2>5. First' = First
      BY <2>1 DEF First
    <2>6. DOMAIN printed' = {}
      BY <2>1
    <2>7. ReadExact'
      BY <2>1, <2>4, <2>5, <2>6 DEF ReadExact, First
    <2> QED BY <2>3, <2>7
  <1>10. CASE cmd.name = "consume" /\ ResetOffset
    <2>1. /\ pc = "consume" /\ out = "running" /\ UNCHANGED <<pc, out, topic, latest, printed>>
          /\ next # NoMsg /\ next \notin 0..Len(topic)
          /\ from' = Len(topic) /\ next' = Len(topic)
      BY <1>10 DEF ResetOffset, ControlOK
    <2>2. Len(topic) \in Nat /\ Len(topic) # NoMsg /\ next \in Int
      BY <1>10, <2>1, NoMsgAssumption DEF ConsumeInv
    <2>3. ConsumeInv'
      BY <1>0, <1>10, <2>1, <2>2 DEF ConsumeInv
    <2>4. next = First
      BY <1>10, <2>1, <2>2 DEF ConsumeInv, First
    <2>5. First..(next - 1) = {} /\ Len(topic)..(Len(topic) - 1) = {}
      BY <2>2, <2>4
    <2>6. /\ {printed[k].offset : k \in DOMAIN printed} = {}
          /\ \A j, k \in DOMAIN printed : j < k => printed[j].offset < printed[k].offset
      BY <1>10, <2>1, <2>5 DEF ReadExact, First
    <2>7. ReadExact'
      BY <2>1, <2>2, <2>5, <2>6 DEF ReadExact
    <2> QED BY <2>3, <2>7
  <1>6. CASE /\ cmd.name = "consume" /\ UNCHANGED <<topic, from, next, printed>>
             /\ pc' \in {"consume", "done"} \/ UNCHANGED <<pc, out, latest>>
             /\ out' # "ok" \/ UNCHANGED <<out, latest>>
             /\ pc' = "consume" => pc \in {"ask", "consume"}
    <2>1. ConsumeInv'
      BY <1>0, <1>6 DEF ConsumeInv
    <2>2. ReadExact'
      BY <1>0, <1>6 DEF ReadExact
    <2> QED BY <2>1, <2>2
  <1>7. CASE cmd.name = "consume" /\ (GetLastMessageID \/ ConsumeTimesOut \/ CallFails)
    <2>1. out = "running"
      BY <1>7 DEF GetLastMessageID, ConsumeTimesOut, CallFails, ControlOK
    <2> QED BY <1>6, <1>7, <2>1 DEF GetLastMessageID, ConsumeTimesOut, CallFails, Return, topicVars
  <1>8. CASE /\ cmd.name = "consume"
             /\ \/ UNCHANGED vars \/ OfferNext \/ Interrupt
                \/ \E i \in 1..Len(scan) : ScannerFails(i)
    BY <1>6, <1>8 DEF vars, topicVars, OfferNext, Offer, Interrupt, ScannerFails
  <1>9. CASE /\ cmd.name = "consume"
             /\ \/ CheckChannels \/ NewWALScanner \/ OpenFails \/ StartReading \/ Compare
                \/ ReceiveMessage \/ StopReceiving
    BY <1>9 DEF CheckChannels, NewWALScanner, OpenFails, StartReading, Compare, BeginPass, SkipChannel,
       SkipSelfControlled, TakeMessage, NothingThere, EndPass, ReceiveMessage, StopReceiving,
       AtChannel, ControlOK
  <1> QED BY <1>1, <1>2, <1>3, <1>4, <1>5, <1>7, <1>8, <1>9, <1>10
      DEF Next, Command, World

-----------------------------------------------------------------------------

LEMMA InitInv == Init => IInv
  <1> SUFFICES ASSUME Init PROVE IInv
    OBVIOUS
  <1>1. /\ scene \in Scenes /\ pc = "begin" /\ out = "running" /\ at = 1 /\ scan = <<>>
        /\ topic = scene.topic /\ from = NoMsg /\ next = NoMsg /\ printed = <<>>
    BY DEF Init
  <1>2. Channels \in Nat /\ scene.topic \in Seq(Range(scene.topic))
    BY <1>1, SceneFacts
  <1>3. scan \in Seq(Scanner) /\ Len(scan) = 0
    BY <1>1
  <1>4. ScannersOK /\ NothingReceived
    BY <1>2, <1>3 DEF ScannersOK, NothingReceived
  <1>5. ControlOK
    BY <1>1, <1>3 DEF ControlOK
  <1>6. MapsOK /\ CountersExact /\ ReceiveInv
    BY <1>1 DEF MapsOK, CountersExact, ReceiveInv
  <1>7. Len(printed) = 0 /\ DOMAIN printed = {}
    BY <1>1
  <1>8. RoundsTyped
    BY <1>1 DEF RoundsTyped
  <1>9. RoundsExact
    BY <1>1, <1>7 DEF RoundsExact
  <1>10. ConsumeInv /\ ReadExact
    BY <1>1, <1>2 DEF ConsumeInv, ReadExact
  <1>11. ReceivedExact
    <2>1. IsPrefix(printed, IF Channels = 0 THEN <<>> ELSE Payload(1))
      <3> DEFINE q == IF Channels = 0 THEN <<>> ELSE Payload(1)
      <3>1. q \in Seq(IF Channels = 0 THEN {} ELSE Range(Wal(1)))
        <4>1. CASE Channels = 0
          BY <4>1
        <4>2. CASE Channels # 0
          <5>1. 1 \in 1..Channels
            BY <1>2, <4>2
          <5>2. Payload(1) \in Seq(Range(Wal(1)))
            BY <1>1, <5>1, CarriedFacts
          <5> QED BY <4>2, <5>2
        <4> QED BY <4>1, <4>2
      <3> HIDE DEF q
      <3>2. PICK X : q \in Seq(X)
        BY <3>1
      <3>3. <<>> \in Seq(X) /\ Starts(<<>>, q)
        BY <3>2 DEF Starts
      <3>4. IsPrefix(<<>>, q)
        BY <3>2, <3>3, StartsIsPrefix
      <3> QED BY <1>1, <3>4 DEF q
    <2> QED BY <1>1, <2>1 DEF ReceivedExact
  <1> QED BY <1>4, <1>5, <1>6, <1>8, <1>9, <1>10, <1>11 DEF IInv, StreamsExact

LEMMA NextInv == IInv /\ [Next]_vars => IInv'
  <1> SUFFICES ASSUME IInv, [Next]_vars PROVE IInv'
    OBVIOUS
  <1>1. /\ ScannersOK /\ ControlOK /\ NothingReceived /\ MapsOK /\ CountersExact /\ RoundsTyped
        /\ ReceiveInv /\ ConsumeInv /\ RoundsExact /\ ReceivedExact /\ ReadExact
    BY DEF IInv, StreamsExact
  <1>2. ScannersOK' /\ ControlOK' /\ NothingReceived' /\ MapsOK'
    BY <1>1, ScannersStep, ControlStep, NothingReceivedStep, MapsStep
  <1>3. CountersExact' /\ RoundsTyped' /\ RoundsExact'
    BY <1>1, CompareStep
  <1>4. ReceiveInv' /\ ReceivedExact'
    BY <1>1, ReceiveStep
  <1>5. ConsumeInv' /\ ReadExact'
    BY <1>1, ConsumeStep
  <1> QED BY <1>2, <1>3, <1>4, <1>5 DEF IInv, StreamsExact

\* However messages, failures and an interrupt interleave, and for any streams:
\* cmp_pchannels compares the channels' messages rank by rank, consumev2 prints the
\* beginning of its channel up to the limit, and consume what it read of the topic
\* from its position to the end it asked for.
THEOREM StreamsExactTheorem == Spec => []StreamsExact
  <1>1. Init => IInv
    BY InitInv
  <1>2. IInv /\ [Next]_vars => IInv'
    BY NextInv
  <1>3. IInv => StreamsExact
    BY DEF IInv
  <1> QED BY <1>1, <1>2, <1>3, PTL DEF Spec
=============================================================================
