---------------------------- MODULE BridgeProofs ----------------------------
(***************************************************************************)
(* StreamBridge for every set of consumers, window size and number of      *)
(* events: the types, the shape of the window, the place of the end, the   *)
(* order of delivery, and the refinement of EventLog.  RedisBridge, for    *)
(* every size, batch and number of retries: the types and the refinement.  *)
(***************************************************************************)
EXTENDS StreamBridge, RedisBridge, SequenceLemmas, TLAPS

\* The number of the event that would come next on a stream.
Tip(s) == s.start + Len(s.events)

\* One stream: numbers are offsets, the window is bounded, and only a stream
\* without any event has an empty window.
GoodStream(s) ==
    /\ \A i \in 1..Len(s.events) : s.events[i] = s.start + i - 1
    /\ Len(s.events) <= MaxSize
    /\ Len(s.events) = 0 => s.start = 0

\* All streams: events and the end go to the first object only; another one is
\* created when the first was cleaned up, and stays as it is.
Streams ==
    /\ \A g \in 1..Len(streams) : GoodStream(streams[g])
    /\ current \in {0, Len(streams)}
    /\ current = 0 /\ Len(streams) > 0 => producer = "cleaned"
    /\ Len(streams) > 1 => producer = "cleaned"
    /\ current = 1 => counter = Tip(streams[1])
    /\ current > 1 => counter = 0
    /\ \A g \in 1..Len(streams) : /\ g > 1 => streams[g] = NewStream
                                  /\ streams[g].ended => producer # "running"

\* What a client saw last was published on the first stream.
SeenWasSent(c) ==
    client[c].last # NoId => Len(streams) > 0 /\ client[c].last < Tip(streams[1])

\* A reader's offset follows what it saw last, or it has to catch up to a
\* window that begins later.
OnTrack(c) ==
    LET s == streams[client[c].ref] IN
    /\ client[c].next <= Tip(s)
    /\ \/ client[c].next = client[c].last + 1
       \/ /\ client[c].next <= s.start
          /\ client[c].ref = 1 => client[c].last < s.start

Reader(c) ==
    /\ client[c].at # "off" => client[c].ref \in 1..Len(streams)
    /\ client[c].at = "joining" => \/ client[c].header = client[c].last
                                   \/ client[c].header = Foreign /\ client[c].last = NoId
    /\ client[c].at \in {"loop", "wait"} => OnTrack(c)
    /\ client[c].at = "ended" => /\ streams[client[c].ref].ended
                                 /\ client[c].last = Tip(streams[client[c].ref]) - 1

\* The inductive invariant.
IInv ==
    /\ TypeOK
    /\ Streams
    /\ \A c \in Clients : SeenWasSent(c) /\ Reader(c)

-----------------------------------------------------------------------------
(* Streams. *)

\* Dropping the oldest k of consecutive numbers leaves consecutive numbers.
LEMMA Trim ==
    ASSUME NEW all \in Seq(Nat), NEW k \in Nat, NEW first \in Nat, k < Len(all),
           \A i \in 1..Len(all) : all[i] = first + i - 1
    PROVE  /\ SubSeq(all, k + 1, Len(all)) \in Seq(Nat)
           /\ Len(SubSeq(all, k + 1, Len(all))) = Len(all) - k
           /\ \A i \in 1..(Len(all) - k) :
                SubSeq(all, k + 1, Len(all))[i] = first + k + i - 1
  <1>1. Len(all) \in Nat /\ \A i \in (k + 1)..Len(all) : all[i] \in Nat
    OBVIOUS
  <1>2. /\ SubSeq(all, k + 1, Len(all)) \in Seq(Nat)
        /\ Len(SubSeq(all, k + 1, Len(all))) = Len(all) - (k + 1) + 1
        /\ \A i \in 1..(Len(all) - (k + 1) + 1) :
              SubSeq(all, k + 1, Len(all))[i] = all[(k + 1) + i - 1]
    <2>1. k + 1 \in Int /\ Len(all) \in Int /\ k + 1 <= Len(all)
      BY <1>1
    <2>2. QED
      BY <1>1, <2>1, SubSeqProperties
  <1>3. ASSUME NEW i \in 1..(Len(all) - k)
        PROVE  SubSeq(all, k + 1, Len(all))[i] = first + k + i - 1
    <2>1. i \in 1..(Len(all) - (k + 1) + 1) /\ (k + 1) + i - 1 \in 1..Len(all)
      BY <1>1
    <2>2. SubSeq(all, k + 1, Len(all))[i] = all[(k + 1) + i - 1]
      BY <1>2, <2>1
    <2>3. all[(k + 1) + i - 1] = first + ((k + 1) + i - 1) - 1
      BY <2>1
    <2>4. QED
      BY <1>1, <2>2, <2>3
  <1>4. Len(SubSeq(all, k + 1, Len(all))) = Len(all) - k
    BY <1>1, <1>2
  <1>5. QED
    BY <1>2, <1>3, <1>4

\* Publishing on a good stream: the tip moves by one, the window stays good and
\* does not move back.
LEMMA AppendedGood ==
    ASSUME NEW s \in RunStream, GoodStream(s)
    PROVE  /\ Appended(s, Tip(s)) \in RunStream
           /\ GoodStream(Appended(s, Tip(s)))
           /\ Tip(Appended(s, Tip(s))) = Tip(s) + 1
           /\ Appended(s, Tip(s)).start >= s.start
           /\ Appended(s, Tip(s)).ended = s.ended
  <1>1. /\ s.events \in Seq(Nat) /\ s.start \in Nat /\ s.ended \in BOOLEAN
        /\ Len(s.events) \in Nat /\ Tip(s) \in Nat /\ MaxSize \in Nat /\ MaxSize > 0
    BY BridgeAssumption DEF RunStream, Tip
  <1>2. PICK all : all = Append(s.events, Tip(s))
    OBVIOUS
  <1>3. /\ all \in Seq(Nat) /\ Len(all) = Len(s.events) + 1
        /\ \A i \in 1..Len(all) : all[i] = s.start + i - 1
    BY <1>1, <1>2 DEF GoodStream, Tip
  <1>4. PICK k : k = IF Len(all) > MaxSize THEN Len(all) - MaxSize ELSE 0
    OBVIOUS
  <1>5. k \in Nat /\ k < Len(all) /\ Len(all) - k <= MaxSize
    <2>1. Len(all) \in Nat
      BY <1>3
    <2>2. CASE Len(all) > MaxSize
      <3>1. k = Len(all) - MaxSize
        BY <1>4, <2>2
      <3>2. QED
        BY <1>1, <2>1, <2>2, <3>1
    <2>3. CASE ~(Len(all) > MaxSize)
      <3>1. k = 0
        BY <1>4, <2>3
      <3>2. QED
        BY <1>1, <1>3, <2>1, <2>3, <3>1
    <2>4. QED
      BY <2>2, <2>3
  <1>6. PICK kept : kept = SubSeq(all, k + 1, Len(all))
    OBVIOUS
  <1>7. /\ kept \in Seq(Nat) /\ Len(kept) = Len(all) - k
        /\ \A i \in 1..(Len(all) - k) : kept[i] = s.start + k + i - 1
    <2>1. /\ all \in Seq(Nat) /\ k \in Nat /\ s.start \in Nat /\ k < Len(all)
          /\ \A i \in 1..Len(all) : all[i] = s.start + i - 1
      BY <1>1, <1>3, <1>5
    <2>2. /\ SubSeq(all, k + 1, Len(all)) \in Seq(Nat)
          /\ Len(SubSeq(all, k + 1, Len(all))) = Len(all) - k
          /\ \A i \in 1..(Len(all) - k) :
                SubSeq(all, k + 1, Len(all))[i] = s.start + k + i - 1
      BY <2>1, Trim, ZenonT(30)
    <2>3. QED
      BY <1>6, <2>2
  <1>8. PICK t : t = Appended(s, Tip(s))
    OBVIOUS
  <1>9. t = [s EXCEPT !.events = kept, !.start = s.start + k]
    BY <1>2, <1>4, <1>6, <1>8 DEF Appended
  <1>10. /\ t.events = kept /\ t.start = s.start + k /\ t.start \in Nat
    BY <1>1, <1>5, <1>9 DEF RunStream
  <1>11. t \in RunStream /\ t.ended = s.ended
    <2>1. s.start + k \in Nat
      BY <1>1, <1>5
    <2>2. QED
      BY <1>7, <1>9, <2>1 DEF RunStream
  <1>12. GoodStream(t)
    <2>1. Len(kept) = Len(all) - k /\ Len(kept) <= MaxSize /\ Len(kept) > 0
      BY <1>1, <1>3, <1>5, <1>7
    <2>2. \A i \in 1..Len(kept) : kept[i] = t.start + i - 1
      BY <1>7, <1>10, <2>1
    <2>3. QED
      BY <1>10, <2>1, <2>2 DEF GoodStream
  <1>13. Tip(t) = Tip(s) + 1 /\ t.start >= s.start
    <2>1. Tip(t) = (s.start + k) + Len(kept)
      BY <1>10 DEF Tip
    <2>2. Len(kept) = Len(s.events) + 1 - k
      <3>1. Len(kept) = Len(all) - k /\ Len(all) = Len(s.events) + 1
        BY <1>3, <1>7
      <3>2. QED
        BY <1>1, <1>5, <3>1
    <2>3. QED
      BY <1>1, <1>5, <1>10, <2>1, <2>2, SMTT(20) DEF Tip
  <1>14. QED
    BY <1>8, <1>11, <1>12, <1>13

\* The empty stream is good.
LEMMA NewGood == NewStream \in RunStream /\ GoodStream(NewStream) /\ Tip(NewStream) = 0
  <1>1. /\ NewStream \in RunStream /\ NewStream.events = <<>> /\ NewStream.start = 0
        /\ Len(<<>>) = 0
    BY DEF NewStream, RunStream
  <1>2. QED
    BY <1>1, BridgeAssumption DEF GoodStream, Tip

\* Asking for the run's stream keeps all objects and adds an empty one if there
\* is none; while the run goes on there is never more than one.
LEMMA GetOrCreateGood ==
    ASSUME IInv
    PROVE  /\ GetOrCreate \in Seq(RunStream)
           /\ Len(GetOrCreate) \in Nat /\ Len(GetOrCreate) >= 1
           /\ Len(streams) \in Nat /\ Len(streams) <= Len(GetOrCreate)
           /\ \A g \in 1..Len(streams) : GetOrCreate[g] = streams[g]
           /\ \A g \in 1..Len(GetOrCreate) :
                 /\ GetOrCreate[g] \in RunStream /\ GoodStream(GetOrCreate[g])
                 /\ g > Len(streams) => GetOrCreate[g] = NewStream
                 /\ g > 1 => GetOrCreate[g] = NewStream
                 /\ GetOrCreate[g].ended => producer # "running"
           /\ Len(GetOrCreate) > 1 => producer = "cleaned"
           /\ Counter = IF Len(GetOrCreate) = 1 THEN Tip(GetOrCreate[1]) ELSE 0
           /\ Counter \in Nat
  <1>0. /\ streams \in Seq(RunStream) /\ Len(streams) \in Nat /\ counter \in Nat
        /\ \A g \in 1..Len(streams) : streams[g] \in RunStream
        /\ Streams
    BY DEF IInv, TypeOK
  <1>1. CASE current = 0
    <2>1. /\ GetOrCreate = Append(streams, NewStream)
          /\ GetOrCreate \in Seq(RunStream)
          /\ Len(GetOrCreate) = Len(streams) + 1
          /\ \A g \in 1..Len(streams) : GetOrCreate[g] = streams[g]
          /\ GetOrCreate[Len(streams) + 1] = NewStream
      BY <1>0, <1>1, NewGood DEF GetOrCreate
    <2>2. Counter = 0 /\ ~NewStream.ended
      BY <1>1 DEF Counter, NewStream
    <2>3. Len(GetOrCreate) = 1 => Tip(GetOrCreate[1]) = 0
      BY <1>0, <2>1, NewGood
    <2>4. Len(GetOrCreate) > 1 => producer = "cleaned"
      BY <1>0, <1>1, <2>1 DEF Streams
    <2>5. ASSUME NEW g \in 1..Len(GetOrCreate)
          PROVE  /\ GetOrCreate[g] \in RunStream /\ GoodStream(GetOrCreate[g])
                 /\ g > Len(streams) => GetOrCreate[g] = NewStream
                 /\ g > 1 => GetOrCreate[g] = NewStream
                 /\ GetOrCreate[g].ended => producer # "running"
      <3>1. CASE g \in 1..Len(streams)
        BY <1>0, <2>1, <3>1 DEF Streams
      <3>2. CASE g = Len(streams) + 1
        BY <1>0, <2>1, <2>2, <3>2, NewGood
      <3>3. QED
        BY <1>0, <2>1, <3>1, <3>2
    <2>6. QED
      BY <1>0, <2>1, <2>2, <2>3, <2>4, <2>5
  <1>2. CASE current # 0
    <2>1. /\ GetOrCreate = streams /\ Counter = counter
          /\ current = Len(streams) /\ Len(streams) >= 1
      BY <1>0, <1>2 DEF GetOrCreate, Counter, Streams
    <2>2. QED
      BY <1>0, <2>1 DEF Streams
  <1>3. QED
    BY <1>1, <1>2

-----------------------------------------------------------------------------
(* Consumers. *)

\* Streams only grow, and one that has ended does not change.
Grows ==
    /\ Len(streams') \in Nat /\ Len(streams') >= Len(streams)
    /\ \A g \in 1..Len(streams) :
         /\ streams'[g] \in RunStream
         /\ Tip(streams'[g]) >= Tip(streams[g])
         /\ streams'[g].start >= streams[g].start
         /\ streams[g].ended => streams'[g] = streams[g]

\* The types of what the invariant of a consumer speaks about.
LEMMA ClientTypes ==
    ASSUME IInv, NEW c \in Clients
    PROVE  /\ client[c] \in ClientState /\ client[c].ref \in Nat
           /\ client[c].next \in Nat /\ client[c].last \in Int
           /\ client[c].last >= NoId /\ client[c].header \in Int
           /\ Len(streams) \in Nat
           /\ \A g \in 1..Len(streams) :
                /\ streams[g] \in RunStream /\ streams[g].start \in Nat
                /\ Len(streams[g].events) \in Nat /\ Tip(streams[g]) \in Nat
                /\ GoodStream(streams[g])
  <1>1. /\ client[c] \in ClientState /\ streams \in Seq(RunStream)
        /\ \A g \in 1..Len(streams) : GoodStream(streams[g])
    BY DEF IInv, TypeOK, Streams
  <1>2. ASSUME NEW g \in 1..Len(streams)
        PROVE  /\ streams[g] \in RunStream /\ streams[g].start \in Nat
               /\ Len(streams[g].events) \in Nat /\ Tip(streams[g]) \in Nat
    <2>1. streams[g] \in RunStream
      BY <1>1
    <2>2. streams[g].start \in Nat /\ streams[g].events \in Seq(Nat)
      BY <2>1 DEF RunStream
    <2>3. Len(streams[g].events) \in Nat
      BY <2>2
    <2>4. QED
      BY <2>1, <2>2, <2>3 DEF Tip
  <1>3. /\ client[c].ref \in Nat /\ client[c].next \in Nat
        /\ client[c].last \in Nat \cup {NoId}
        /\ client[c].header \in {NoId, Foreign} \cup Nat
    BY <1>1 DEF ClientState, EventId
  <1>4. QED
    BY <1>1, <1>2, <1>3 DEF NoId, Foreign

\* A consumer that is only woken up, or not touched, stays on track.
LEMMA ClientKept ==
    ASSUME IInv, Grows, NEW c \in Clients,
           /\ client'[c].ref = client[c].ref /\ client'[c].next = client[c].next
           /\ client'[c].header = client[c].header /\ client'[c].last = client[c].last
           /\ \/ client'[c].at = client[c].at
              \/ client'[c].at = "off"
              \/ client[c].at = "wait" /\ client'[c].at = "loop"
    PROVE  SeenWasSent(c)' /\ Reader(c)'
  <1>1. SeenWasSent(c) /\ Reader(c)
    BY DEF IInv
  <1>2. SeenWasSent(c)'
    <2>1. SUFFICES ASSUME client[c].last # NoId
                   PROVE  Len(streams') > 0 /\ client[c].last < Tip(streams'[1])
      BY DEF SeenWasSent
    <2>2. Len(streams) > 0 /\ client[c].last < Tip(streams[1])
      BY <1>1, <2>1 DEF SeenWasSent
    <2>3. 1 \in 1..Len(streams) /\ Tip(streams'[1]) >= Tip(streams[1])
      BY <2>2, ClientTypes DEF Grows
    <2>4. streams'[1] \in RunStream /\ Tip(streams'[1]) \in Nat
      <3>1. streams'[1] \in RunStream
        BY <2>3 DEF Grows
      <3>2. streams'[1].start \in Nat /\ Len(streams'[1].events) \in Nat
        BY <3>1 DEF RunStream
      <3>3. QED
        BY <3>1, <3>2 DEF Tip
    <2>5. QED
      BY <2>2, <2>3, <2>4, ClientTypes DEF Grows
  <1>3. CASE client'[c].at = "off"
    BY <1>2, <1>3 DEF Reader
  <1>4. CASE client'[c].at # "off"
    <2>1. PICK g : g = client[c].ref
      OBVIOUS
    <2>2. g \in 1..Len(streams) /\ g \in 1..Len(streams')
      BY <1>1, <1>4, <2>1, ClientTypes DEF Reader, Grows
    <2>3. /\ Tip(streams'[g]) >= Tip(streams[g])
          /\ streams'[g].start >= streams[g].start
          /\ streams[g].ended => streams'[g] = streams[g]
          /\ streams'[g] \in RunStream
      BY <2>2 DEF Grows
    <2>4. streams'[g].start \in Nat /\ Tip(streams'[g]) \in Nat
      <3>1. streams'[g].start \in Nat /\ Len(streams'[g].events) \in Nat
        BY <2>3 DEF RunStream
      <3>2. QED
        BY <3>1 DEF Tip
    <2>5. streams[g].start \in Nat /\ Tip(streams[g]) \in Nat
      BY <2>2, ClientTypes
    <2>6. OnTrack(c) => OnTrack(c)'
      BY <2>1, <2>3, <2>4, <2>5, ClientTypes DEF OnTrack
    <2>7. Reader(c)'
      BY <1>1, <1>4, <2>1, <2>2, <2>3, <2>6 DEF Reader
    <2>8. QED
      BY <1>2, <2>7
  <1>5. QED
    BY <1>3, <1>4

\* Waking the consumers of a stream changes nothing but where they are.
LEMMA NotifiedType ==
    ASSUME TypeOK, NEW g \in Nat
    PROVE  /\ Notified(g) \in [Clients -> ClientState]
           /\ \A c \in Clients :
                /\ Notified(g)[c].ref = client[c].ref /\ Notified(g)[c].next = client[c].next
                /\ Notified(g)[c].header = client[c].header
                /\ Notified(g)[c].last = client[c].last
                /\ \/ Notified(g)[c].at = client[c].at
                   \/ client[c].at = "wait" /\ Notified(g)[c].at = "loop"
  BY DEF Notified, TypeOK, ClientState

-----------------------------------------------------------------------------
(* Steps. *)

\* The producer's two operations: the run's only stream gets a new value.
LEMMA ProducerKeeps ==
    ASSUME IInv, producer = "running", producer' \in {"running", "ended"},
           NEW t \in RunStream, GoodStream(t),
           Tip(t) >= Tip(GetOrCreate[1]), t.start >= GetOrCreate[1].start,
           t.ended => producer' # "running",
           streams' = [GetOrCreate EXCEPT ![Len(GetOrCreate)] = t],
           current' = Len(GetOrCreate), counter' = Tip(t),
           client' = Notified(Len(GetOrCreate))
    PROVE  IInv'
  <1>1. /\ Len(GetOrCreate) = 1 /\ Len(streams) \in Nat /\ Len(streams) <= 1
        /\ GetOrCreate \in Seq(RunStream)
        /\ \A g \in 1..Len(streams) : GetOrCreate[g] = streams[g]
    BY GetOrCreateGood
  <1>2. /\ streams' \in Seq(RunStream) /\ Len(streams') = 1 /\ streams'[1] = t
    BY <1>1
  <1>3. Tip(t) \in Nat
    <2>1. t.start \in Nat /\ Len(t.events) \in Nat
      BY DEF RunStream
    <2>2. QED
      BY <2>1 DEF Tip
  <1>4. TypeOK'
    BY <1>1, <1>2, <1>3, NotifiedType DEF IInv, TypeOK
  <1>5. Streams'
    <2>1. ASSUME NEW g \in 1..Len(streams') PROVE g = 1 /\ streams'[g] = t
      <3>1. g \in 1..1
        BY <1>2
      <3>2. g = 1
        BY <3>1
      <3>3. QED
        BY <1>2, <3>2
    <2>2. /\ current' = 1 /\ counter' = Tip(streams'[1]) /\ Len(streams') = 1
      BY <1>1, <1>2
    <2>3. \A g \in 1..Len(streams') : /\ GoodStream(streams'[g])
                                      /\ g > 1 => streams'[g] = NewStream
                                      /\ streams'[g].ended => producer' # "running"
      BY <2>1
    <2>4. /\ current' \in {0, Len(streams')} /\ current' # 0
          /\ ~(Len(streams') > 1) /\ ~(current' > 1)
      BY <2>2
    <2>5. ASSUME NEW g \in 1..Len(streams') PROVE GoodStream(streams[g])'
      <3>1. streams'[g] = t
        BY <2>1
      <3>2. /\ \A i \in 1..Len(t.events) : t.events[i] = t.start + i - 1
            /\ Len(t.events) <= MaxSize /\ (Len(t.events) = 0 => t.start = 0)
        BY DEF GoodStream
      <3>3. QED
        BY <3>1, <3>2, Zenon DEF GoodStream
    <2>6. (current = 1 => counter = Tip(streams[1]))'
      BY <2>2 DEF Tip
    <2>7. QED
      BY <2>3, <2>4, <2>5, <2>6 DEF Streams
  <1>6. Grows
    <2>1. ASSUME NEW g \in 1..Len(streams)
          PROVE  g = 1 /\ GetOrCreate[1] = streams[1] /\ ~streams[1].ended
      BY <1>1, <2>1 DEF IInv, Streams
    <2>2. QED
      BY <1>1, <1>2, <2>1 DEF Grows
  <1>7. ASSUME NEW c \in Clients PROVE SeenWasSent(c)' /\ Reader(c)'
    <2>1. TypeOK
      BY DEF IInv
    <2>2. QED
      BY <1>1, <1>6, <2>1, NotifiedType, ClientKept
  <1>8. QED
    BY <1>4, <1>5, <1>7 DEF IInv

\* publish
LEMMA PublishKeeps ==
    ASSUME IInv, Publish
    PROVE  IInv'
  <1>1. /\ Len(GetOrCreate) = 1 /\ GetOrCreate[1] \in RunStream
        /\ GoodStream(GetOrCreate[1]) /\ Counter = Tip(GetOrCreate[1])
        /\ ~GetOrCreate[1].ended
    BY GetOrCreateGood DEF Publish
  <1>2. PICK t : t = Appended(GetOrCreate[1], Tip(GetOrCreate[1]))
    OBVIOUS
  <1>3. /\ t \in RunStream /\ GoodStream(t) /\ Tip(t) = Tip(GetOrCreate[1]) + 1
        /\ t.start >= GetOrCreate[1].start /\ t.ended = GetOrCreate[1].ended
    BY <1>1, <1>2, AppendedGood
  <1>4. /\ producer = "running" /\ producer' = "running"
        /\ streams' = [GetOrCreate EXCEPT ![Len(GetOrCreate)] = t]
        /\ current' = Len(GetOrCreate) /\ counter' = Tip(t)
        /\ client' = Notified(Len(GetOrCreate))
    BY <1>1, <1>2, <1>3 DEF Publish
  <1>5. Tip(t) >= Tip(GetOrCreate[1])
    <2>1. Tip(GetOrCreate[1]) \in Nat
      BY <1>1, GetOrCreateGood
    <2>2. QED
      BY <1>3, <2>1
  <1>6. QED
    BY <1>1, <1>3, <1>4, <1>5, ProducerKeeps

\* publish_end
LEMMA PublishEndKeeps ==
    ASSUME IInv, PublishEnd
    PROVE  IInv'
  <1>1. /\ Len(GetOrCreate) = 1 /\ GetOrCreate[1] \in RunStream
        /\ GoodStream(GetOrCreate[1]) /\ Counter = Tip(GetOrCreate[1])
        /\ Tip(GetOrCreate[1]) \in Nat
    BY GetOrCreateGood DEF PublishEnd
  <1>2. PICK t : t = [GetOrCreate[1] EXCEPT !.ended = TRUE]
    OBVIOUS
  <1>3. /\ t \in RunStream /\ t.events = GetOrCreate[1].events
        /\ t.start = GetOrCreate[1].start
    BY <1>1, <1>2 DEF RunStream
  <1>4. GoodStream(t) /\ Tip(t) = Tip(GetOrCreate[1])
    BY <1>1, <1>3 DEF GoodStream, Tip
  <1>5. /\ producer = "running" /\ producer' = "ended"
        /\ streams' = [GetOrCreate EXCEPT ![Len(GetOrCreate)] = t]
        /\ current' = Len(GetOrCreate) /\ counter' = Tip(t)
        /\ client' = Notified(Len(GetOrCreate))
    BY <1>1, <1>2, <1>4 DEF PublishEnd
  <1>6. Tip(t) >= Tip(GetOrCreate[1]) /\ t.start >= GetOrCreate[1].start
    <2>1. GetOrCreate[1].start \in Nat
      BY <1>1 DEF RunStream
    <2>2. QED
      BY <1>1, <1>3, <1>4, <2>1
  <1>7. QED
    BY <1>3, <1>4, <1>5, <1>6, ProducerKeeps

\* cleanup, a heartbeat and a disconnect leave streams and offsets alone.
LEMMA QuietKeeps ==
    ASSUME IInv, Cleanup \/ \E c \in Clients : Heartbeat(c) \/ Disconnect(c)
    PROVE  IInv'
  <1>0. TypeOK
    BY DEF IInv
  <1>1. streams' = streams
    BY DEF Cleanup, Heartbeat, Disconnect
  <1>2. /\ client' \in [Clients -> ClientState]
        /\ \A c \in Clients :
             /\ client'[c].ref = client[c].ref /\ client'[c].next = client[c].next
             /\ client'[c].header = client[c].header /\ client'[c].last = client[c].last
             /\ \/ client'[c].at = client[c].at
                \/ client'[c].at = "off"
                \/ client[c].at = "wait" /\ client'[c].at = "loop"
    <2>1. CASE Cleanup
      BY <1>0, <2>1 DEF Cleanup, TypeOK
    <2>2. ASSUME NEW d \in Clients, NEW at \in {"off", "loop"},
                 client' = [client EXCEPT ![d].at = at],
                 at = "off" \/ client[d].at = "wait"
          PROVE  <1>2!:
      BY <1>0, <2>2 DEF TypeOK, ClientState
    <2>3. QED
      BY <2>1, <2>2 DEF Heartbeat, Disconnect
  <1>3. Streams' /\ TypeOK'
    <2>1. Streams /\ Len(streams) \in Nat
      BY <1>0 DEF IInv, TypeOK
    <2>2. CASE Cleanup
      <3>1. Streams'
        BY <1>1, <2>1, <2>2 DEF Streams, Cleanup
      <3>2. TypeOK'
        BY <1>0, <1>2, <2>1, <2>2 DEF TypeOK, Cleanup
      <3>3. QED
        BY <3>1, <3>2
    <2>3. CASE UNCHANGED <<streams, current, counter, producer>>
      BY <1>0, <1>2, <2>1, <2>3 DEF Streams, TypeOK
    <2>4. QED
      BY <2>2, <2>3 DEF Heartbeat, Disconnect
  <1>5. ASSUME NEW c \in Clients PROVE SeenWasSent(c)' /\ Reader(c)'
    <2>1. Grows
      <3>1. /\ Len(streams) \in Nat
            /\ \A g \in 1..Len(streams) :
                 /\ streams[g] \in RunStream /\ Tip(streams[g]) \in Nat
                 /\ streams[g].start \in Nat
        BY ClientTypes
      <3>2. QED
        BY <1>1, <3>1 DEF Grows
    <2>2. QED
      BY <1>2, <2>1, ClientKept
  <1>6. QED
    BY <1>3, <1>5 DEF IInv

\* A request joins: its stream exists, and nobody else notices.
LEMMA JoinKeeps ==
    ASSUME IInv, NEW c \in Clients, NEW header \in {NoId, Foreign, client[c].last},
           Join(c, header)
    PROVE  IInv'
  <1>1. /\ streams' = GetOrCreate /\ current' = Len(GetOrCreate) /\ counter' = Counter
        /\ producer' = producer
    BY DEF Join
  <1>2. PICK new : new = [at |-> "joining", ref |-> Len(GetOrCreate), next |-> 0,
                          header |-> header,
                          last |-> IF header = Foreign THEN NoId ELSE header]
    OBVIOUS
  <1>3. client' = [client EXCEPT ![c] = new] /\ client \in [Clients -> ClientState]
    BY <1>2 DEF Join, IInv, TypeOK
  <1>4. /\ header \in {NoId, Foreign} \cup Nat
        /\ (IF header = Foreign THEN NoId ELSE header) \in EventId
        /\ header # Foreign => header \in {NoId, client[c].last}
    <2>1. client[c].last \in EventId
      BY <1>3 DEF ClientState
    <2>2. QED
      BY <2>1 DEF EventId
  <1>5. new \in ClientState
    BY <1>2, <1>4, GetOrCreateGood DEF ClientState
  <1>6. TypeOK'
    BY <1>1, <1>3, <1>5, GetOrCreateGood DEF IInv, TypeOK
  <1>7. Grows
    BY <1>1, GetOrCreateGood, ClientTypes DEF Grows
  <1>8. Streams'
    <2>1. /\ Len(streams') \in Nat /\ Len(streams') >= 1
          /\ Len(streams') > 1 => producer' = "cleaned"
          /\ counter' = IF Len(streams') = 1 THEN Tip(streams'[1]) ELSE 0
          /\ \A g \in 1..Len(streams') :
               /\ GoodStream(streams'[g])
               /\ g > 1 => streams'[g] = NewStream
               /\ streams'[g].ended => producer' # "running"
      BY <1>1, GetOrCreateGood
    <2>2. current' = Len(streams')
      BY <1>1
    <2>3. QED
      BY <2>1, <2>2 DEF Streams, GoodStream, Tip, NewStream
  <1>9. ASSUME NEW d \in Clients PROVE SeenWasSent(d)' /\ Reader(d)'
    <2>1. CASE d # c
      BY <1>3, <1>7, <2>1, ClientKept
    <2>2. CASE d = c
      <3>1. client'[c] = new
        BY <1>3
      <3>2. Reader(c)'
        BY <1>1, <1>2, <3>1, GetOrCreateGood DEF Reader
      <3>3. client'[c].last \in {NoId, client[c].last}
        BY <1>2, <1>4, <3>1
      <3>4. SeenWasSent(c)'
        <4>1. SUFFICES ASSUME client'[c].last # NoId
                       PROVE  Len(streams') > 0 /\ client'[c].last < Tip(streams'[1])
          BY DEF SeenWasSent
        <4>2. /\ client'[c].last = client[c].last
              /\ Len(streams) > 0 /\ client[c].last < Tip(streams[1])
          BY <3>3, <4>1 DEF IInv, SeenWasSent
        <4>3. 1 \in 1..Len(streams) /\ Len(streams) \in Nat
          BY <4>2, ClientTypes
        <4>4. streams'[1] = streams[1] /\ Len(streams') >= 1
          BY <1>1, <4>3, GetOrCreateGood
        <4>5. Len(streams') \in Nat
          BY <1>7 DEF Grows
        <4>6. QED
          BY <4>2, <4>4, <4>5
      <3>5. QED
        BY <2>2, <3>2, <3>4
    <2>3. QED
      BY <2>1, <2>2
  <1>10. QED
    BY <1>6, <1>8, <1>9 DEF IInv

\* Where a consumer begins is on track: after what it saw last, or at the start
\* of a window that has moved past that.
LEMMA ResolveOnTrack ==
    ASSUME IInv, NEW c \in Clients, client[c].at = "joining"
    PROVE  LET s == streams[client[c].ref]
               next == ResolveStartOffset(s, client[c].header) IN
           /\ next \in Nat /\ next <= Tip(s)
           /\ \/ next = client[c].last + 1
              \/ next <= s.start /\ (client[c].ref = 1 => client[c].last < s.start)
  <1>1. PICK s : s = streams[client[c].ref]
    OBVIOUS
  <1>2. /\ client[c].ref \in 1..Len(streams)
        /\ \/ client[c].header = client[c].last
           \/ client[c].header = Foreign /\ client[c].last = NoId
    BY DEF IInv, Reader
  <1>3. /\ s.start \in Nat /\ Len(s.events) \in Nat /\ GoodStream(s) /\ Tip(s) \in Nat
        /\ client[c].last \in Int /\ client[c].last >= NoId
        /\ client[c].header \in Int
    BY <1>1, <1>2, ClientTypes
  <1>4. PICK id : id = client[c].header
    OBVIOUS
  <1>5. CASE \E i \in 1..Len(s.events) : i = id - s.start + 1 /\ s.events[i] = id
    <2>1. ResolveStartOffset(s, id) = id + 1
      BY <1>5 DEF ResolveStartOffset
    <2>2. id \in Nat /\ id < Tip(s)
      BY <1>3, <1>4, <1>5 DEF Tip
    <2>3. id = client[c].last
      BY <1>2, <1>4, <2>2 DEF Foreign
    <2>4. QED
      BY <1>1, <1>3, <1>4, <2>1, <2>2, <2>3
  <1>6. CASE ~\E i \in 1..Len(s.events) : i = id - s.start + 1 /\ s.events[i] = id
    <2>1. ResolveStartOffset(s, id) = s.start
      BY <1>6 DEF ResolveStartOffset
    <2>2. s.start <= Tip(s)
      BY <1>3 DEF Tip
    <2>3. ASSUME client[c].ref = 1 PROVE client[c].last < s.start
      <3>1. CASE client[c].last = NoId
        BY <1>3, <3>1 DEF NoId
      <3>2. CASE client[c].last # NoId
        <4>1. id = client[c].last /\ id < Tip(s)
          BY <1>1, <1>2, <1>4, <2>3, <3>2 DEF IInv, SeenWasSent
        <4>2. SUFFICES ASSUME id >= s.start PROVE FALSE
          BY <1>3, <4>1
        <4>3. PICK i : i = id - s.start + 1
          OBVIOUS
        <4>4. i \in 1..Len(s.events) /\ s.start + i - 1 = id
          BY <1>3, <4>1, <4>2, <4>3 DEF Tip
        <4>5. s.events[i] = id
          BY <1>3, <4>4 DEF GoodStream
        <4>6. QED
          BY <1>6, <4>3, <4>4, <4>5
      <3>3. QED
        BY <3>1, <3>2
    <2>4. QED
      BY <1>1, <1>3, <1>4, <2>1, <2>2, <2>3
  <1>7. QED
    BY <1>5, <1>6

\* The lock is taken and the offset found.
LEMMA ResolveKeeps ==
    ASSUME IInv, NEW c \in Clients, Resolve(c)
    PROVE  IInv'
  <1>1. /\ client[c].at = "joining" /\ client \in [Clients -> ClientState]
        /\ UNCHANGED <<streams, current, counter, producer>>
    BY DEF Resolve, IInv, TypeOK
  <1>2. PICK next : next = ResolveStartOffset(streams[client[c].ref], client[c].header)
    OBVIOUS
  <1>3. client' = [client EXCEPT ![c].at = "loop", ![c].next = next]
    BY <1>2 DEF Resolve
  <1>4. /\ next \in Nat /\ next <= Tip(streams[client[c].ref])
        /\ \/ next = client[c].last + 1
           \/ /\ next <= streams[client[c].ref].start
              /\ client[c].ref = 1 => client[c].last < streams[client[c].ref].start
    BY <1>1, <1>2, ResolveOnTrack
  <1>5. TypeOK'
    BY <1>1, <1>3, <1>4 DEF IInv, TypeOK, ClientState
  <1>6. Streams'
    BY <1>1 DEF IInv, Streams
  <1>7. ASSUME NEW d \in Clients PROVE SeenWasSent(d)' /\ Reader(d)'
    <2>1. CASE d # c
      BY <1>1, <1>3, <2>1 DEF IInv, SeenWasSent, Reader, OnTrack
    <2>2. CASE d = c
      <3>1. /\ client'[c].at = "loop" /\ client'[c].next = next
            /\ client'[c].ref = client[c].ref /\ client'[c].last = client[c].last
        BY <1>1, <1>3 DEF ClientState
      <3>2. OnTrack(c)'
        BY <1>1, <1>4, <3>1 DEF OnTrack
      <3>3. QED
        BY <1>1, <2>2, <3>1, <3>2 DEF IInv, SeenWasSent, Reader
    <2>3. QED
      BY <2>1, <2>2
  <1>8. QED
    BY <1>5, <1>6, <1>7 DEF IInv

\* One turn of the loop: what is read at the offset is the next event the
\* consumer has not seen and can still get; at the tip it has seen them all.
LEMMA Turn ==
    ASSUME IInv, NEW c \in Clients, client[c].at = "loop",
           NEW s, s = streams[client[c].ref],
           NEW next, next = CaughtUp(s, client[c].next),
           NEW i, i = next - s.start + 1
    PROVE  /\ next \in Nat /\ next <= Tip(s)
           /\ \/ next = client[c].last + 1
              \/ next = s.start /\ (client[c].ref = 1 => client[c].last < s.start)
           /\ i \in 1..Len(s.events)
              => s.events[i] = next /\ next < Tip(s) /\ client[c].ref = 1
           /\ i \notin 1..Len(s.events) => next = Tip(s)
           /\ i \notin 1..Len(s.events) /\ s.ended => client[c].last = Tip(s) - 1
  <1>1. /\ client[c].ref \in 1..Len(streams) /\ OnTrack(c) /\ SeenWasSent(c)
    BY DEF IInv, Reader
  <1>2. /\ s.start \in Nat /\ Len(s.events) \in Nat /\ GoodStream(s) /\ Tip(s) \in Nat
        /\ client[c].last \in Int /\ client[c].last >= -1
        /\ client[c].next \in Nat /\ Tip(s) = s.start + Len(s.events)
    BY <1>1, ClientTypes DEF NoId, Tip
  <1>3. \/ client[c].next < s.start /\ next = s.start
        \/ client[c].next >= s.start /\ next = client[c].next
    BY <1>2 DEF CaughtUp
  <1>4. /\ client[c].next <= Tip(s)
        /\ \/ client[c].next = client[c].last + 1
           \/ /\ client[c].next <= s.start
              /\ client[c].ref = 1 => client[c].last < s.start
    BY <1>1 DEF OnTrack
  <1>5. next \in Nat /\ next <= Tip(s) /\ next >= s.start
    BY <1>2, <1>3, <1>4, SMTT(30)
  <1>6. \/ next = client[c].last + 1
        \/ next = s.start /\ (client[c].ref = 1 => client[c].last < s.start)
    BY <1>2, <1>3, <1>4
  <1>7. s = NewStream \/ client[c].ref = 1
    BY <1>1, ClientTypes DEF IInv, Streams
  <1>8. s = NewStream => Len(s.events) = 0 /\ ~s.ended
    <2>1. NewStream.events = <<>> /\ Len(<<>>) = 0 /\ ~NewStream.ended
      BY DEF NewStream
    <2>2. QED
      BY <2>1
  <1>9. ASSUME i \in 1..Len(s.events)
        PROVE  s.events[i] = next /\ next < Tip(s) /\ client[c].ref = 1
    <2>1. s.events[i] = s.start + i - 1
      BY <1>2, <1>9 DEF GoodStream
    <2>2. s.start + i - 1 = next /\ next < Tip(s)
      <3>1. next <= s.start + Len(s.events)
        BY <1>2, <1>5
      <3>2. PICK st \in Nat, len \in Nat, nx \in Nat :
              /\ st = s.start /\ len = Len(s.events) /\ nx = next
              /\ st <= nx /\ nx <= st + len /\ i = nx - st + 1
        BY <1>2, <1>5, <3>1
      <3>3. nx - st + 1 \in 1..len
        BY <1>9, <3>2
      <3>4. nx < st + len /\ st + (nx - st + 1) - 1 = nx
        BY <3>2, <3>3, SMTT(30)
      <3>5. QED
        BY <1>2, <3>2, <3>4
    <2>3. client[c].ref = 1
      <3>1. Len(s.events) # 0
        BY <1>2, <1>9
      <3>2. QED
        BY <1>7, <1>8, <3>1
    <2>4. QED
      BY <2>1, <2>2, <2>3
  <1>10. ASSUME i \notin 1..Len(s.events) PROVE next = Tip(s)
    <2>1. next <= s.start + Len(s.events)
      BY <1>2, <1>5
    <2>2. PICK st \in Nat, len \in Nat, nx \in Nat :
            /\ st = s.start /\ len = Len(s.events) /\ nx = next
            /\ st <= nx /\ nx <= st + len /\ i = nx - st + 1
      BY <1>2, <1>5, <2>1
    <2>3. nx - st + 1 \notin 1..len
      BY <1>10, <2>2
    <2>4. st <= nx /\ nx <= st + len
      BY <2>2
    <2>5. nx = st + len
      BY <2>3, <2>4
    <2>6. QED
      BY <1>2, <2>2, <2>5
  <1>11. ASSUME i \notin 1..Len(s.events), s.ended PROVE client[c].last = Tip(s) - 1
    <2>1. next = Tip(s) /\ client[c].ref = 1
      BY <1>7, <1>8, <1>10, <1>11
    <2>2. CASE next = client[c].last + 1
      <3>1. client[c].last \in Int /\ Tip(s) \in Int /\ client[c].last + 1 = Tip(s)
        BY <1>2, <2>1, <2>2
      <3>2. \A a, b \in Int : a + 1 = b => a = b - 1
        OBVIOUS
      <3>3. QED
        BY <3>1, <3>2, Zenon
    <2>3. CASE next = s.start /\ client[c].last < s.start
      <3>1. Len(s.events) = 0
        BY <1>2, <2>1, <2>3
      <3>2. s.start = 0
        BY <1>2, <3>1 DEF GoodStream
      <3>3. QED
        BY <1>2, <2>3, <3>1, <3>2
    <2>4. QED
      BY <1>6, <2>1, <2>2, <2>3
  <1>12. QED
    BY <1>5, <1>6, <1>9, <1>10, <1>11

\* The loop of subscribe.
LEMMA IterateKeeps ==
    ASSUME IInv, NEW c \in Clients, Iterate(c)
    PROVE  IInv'
  <1>1. /\ client[c].at = "loop" /\ client \in [Clients -> ClientState]
        /\ UNCHANGED <<streams, current, counter, producer>>
        /\ client[c].ref \in 1..Len(streams) /\ SeenWasSent(c)
    BY DEF Iterate, IInv, TypeOK, Reader
  <1>2. PICK s : s = streams[client[c].ref]
    OBVIOUS
  <1>3. PICK next : next = CaughtUp(s, client[c].next)
    OBVIOUS
  <1>4. PICK i : i = next - s.start + 1
    OBVIOUS
  <1>5. client' = [client EXCEPT ![c] =
          IF i \in 1..Len(s.events)
            THEN [@ EXCEPT !.next = next + 1, !.last = s.events[i]]
          ELSE [@ EXCEPT !.next = next, !.at = IF s.ended THEN "ended" ELSE "wait"]]
    BY <1>2, <1>3, <1>4 DEF Iterate
  <1>6. /\ next \in Nat /\ next <= Tip(s)
        /\ \/ next = client[c].last + 1
           \/ next = s.start /\ (client[c].ref = 1 => client[c].last < s.start)
        /\ i \in 1..Len(s.events)
           => s.events[i] = next /\ next < Tip(s) /\ client[c].ref = 1
        /\ i \notin 1..Len(s.events) => next = Tip(s)
        /\ i \notin 1..Len(s.events) /\ s.ended => client[c].last = Tip(s) - 1
    BY <1>1, <1>2, <1>3, <1>4, Turn
  <1>7. s.start \in Nat /\ Tip(s) \in Nat /\ Len(streams) \in Nat
    BY <1>1, <1>2, ClientTypes
  <1>8. Streams'
    BY <1>1 DEF IInv, Streams
  <1>9. ASSUME NEW d \in Clients, d # c PROVE SeenWasSent(d)' /\ Reader(d)'
    BY <1>1, <1>5, <1>9 DEF IInv, SeenWasSent, Reader, OnTrack
  <1>10. CASE i \in 1..Len(s.events)
    <2>1. client' = [client EXCEPT ![c].next = next + 1, ![c].last = next]
      BY <1>1, <1>5, <1>6, <1>10 DEF ClientState
    <2>2. /\ client'[c].at = "loop" /\ client'[c].next = next + 1
          /\ client'[c].ref = client[c].ref /\ client'[c].last = next
      BY <1>1, <2>1 DEF ClientState
    <2>3. TypeOK'
      <3>1. next + 1 \in Nat /\ next \in EventId
        BY <1>6 DEF EventId
      <3>2. client' \in [Clients -> ClientState]
        BY <1>1, <2>1, <3>1, ZenonT(40) DEF ClientState
      <3>3. QED
        BY <1>1, <3>2 DEF IInv, TypeOK
    <2>4. OnTrack(c)'
      BY <1>1, <1>2, <1>6, <1>7, <1>10, <2>2 DEF OnTrack
    <2>5. SeenWasSent(c)' /\ Reader(c)'
      BY <1>1, <1>2, <1>6, <1>7, <1>10, <2>2, <2>4 DEF SeenWasSent, Reader
    <2>6. QED
      BY <1>8, <1>9, <2>3, <2>5 DEF IInv
  <1>11. CASE i \notin 1..Len(s.events)
    <2>1. PICK at \in {"ended", "wait"} : at = IF s.ended THEN "ended" ELSE "wait"
      OBVIOUS
    <2>2. client' = [client EXCEPT ![c].next = next, ![c].at = at]
      BY <1>1, <1>5, <1>11, <2>1 DEF ClientState
    <2>3. /\ client'[c].at = at /\ client'[c].next = next
          /\ client'[c].ref = client[c].ref /\ client'[c].last = client[c].last
      BY <1>1, <2>2 DEF ClientState
    <2>4. TypeOK'
      <3>1. client' \in [Clients -> ClientState]
        BY <1>1, <1>6, <2>1, <2>2 DEF ClientState
      <3>2. QED
        BY <1>1, <3>1 DEF IInv, TypeOK
    <2>5. OnTrack(c)'
      BY <1>1, <1>2, <1>6, <1>7, <2>3 DEF OnTrack
    <2>6. at = "ended" => s.ended /\ client[c].last = Tip(s) - 1
      BY <1>6, <1>11, <2>1
    <2>7. SeenWasSent(c)' /\ Reader(c)'
      BY <1>1, <1>2, <2>1, <2>3, <2>5, <2>6 DEF SeenWasSent, Reader
    <2>8. QED
      BY <1>8, <1>9, <2>4, <2>7 DEF IInv
  <1>12. QED
    BY <1>10, <1>11

\* The invariant holds initially, and every step keeps it.
LEMMA Inductive ==
    /\ Init => IInv
    /\ IInv /\ [Next]_vars => IInv'
  <1>1. ASSUME Init PROVE IInv
    <2>1. streams = <<>> /\ <<>> \in Seq(RunStream) /\ Len(<<>>) = 0
      BY <1>1 DEF Init
    <2>2. TypeOK
      BY <1>1, <2>1 DEF Init, TypeOK, ClientState, EventId
    <2>3. Streams
      BY <1>1, <2>1 DEF Init, Streams
    <2>4. ASSUME NEW c \in Clients PROVE SeenWasSent(c) /\ Reader(c)
      BY <1>1 DEF Init, SeenWasSent, Reader
    <2>5. QED
      BY <2>2, <2>3, <2>4 DEF IInv
  <1>2. ASSUME IInv, [Next]_vars PROVE IInv'
    <2>1. CASE UNCHANGED vars
      BY <1>2, <2>1 DEF vars, IInv, TypeOK, Streams, SeenWasSent, Reader, OnTrack
    <2>2. CASE Publish
      BY <1>2, <2>2, PublishKeeps
    <2>3. CASE PublishEnd
      BY <1>2, <2>3, PublishEndKeeps
    <2>4. CASE Cleanup \/ \E c \in Clients : Heartbeat(c) \/ Disconnect(c)
      BY <1>2, <2>4, QuietKeeps
    <2>5. ASSUME NEW c \in Clients, NEW header \in {NoId, Foreign, client[c].last},
                 Join(c, header)
          PROVE  IInv'
      BY <1>2, <2>5, JoinKeeps
    <2>6. ASSUME NEW c \in Clients, Resolve(c) PROVE IInv'
      BY <1>2, <2>6, ResolveKeeps
    <2>7. ASSUME NEW c \in Clients, Iterate(c) PROVE IInv'
      BY <1>2, <2>7, IterateKeeps
    <2>8. QED
      BY <1>2, <2>1, <2>2, <2>3, <2>4, <2>5, <2>6, <2>7 DEF Next
  <1>3. QED
    BY <1>1, <1>2

-----------------------------------------------------------------------------
(* The theorems. *)

\* The parts of the invariant that the runs check.
LEMMA Consequences == IInv => TypeOK /\ SeqIsOffset /\ WindowIsNewest /\ EndComesLast
  <1>1. SUFFICES ASSUME IInv PROVE TypeOK /\ SeqIsOffset /\ WindowIsNewest /\ EndComesLast
    OBVIOUS
  <1>2. TypeOK /\ SeqIsOffset
    BY <1>1 DEF IInv, Streams, GoodStream, SeqIsOffset
  <1>3. ASSUME NEW g \in 1..Len(streams)
        PROVE  /\ Len(streams[g].events) <= MaxSize
               /\ g = current => streams[g].start + Len(streams[g].events) = counter
    <2>1. Streams /\ Len(streams) \in Nat
      BY <1>1 DEF IInv, TypeOK
    <2>2. g > 1 => streams[g] = NewStream
      BY <2>1 DEF Streams
    <2>3. NewStream.start + Len(NewStream.events) = 0
      BY NewGood DEF Tip
    <2>4. QED
      BY <2>1, <2>2, <2>3 DEF Streams, GoodStream, Tip
  <1>4. ASSUME NEW c \in Clients, client[c].at = "ended"
        PROVE  client[c].last = streams[client[c].ref].start
                                  + Len(streams[client[c].ref].events) - 1
    <2>1. Reader(c)
      BY <1>1 DEF IInv
    <2>2. client[c].last = Tip(streams[client[c].ref]) - 1
      BY <1>4, <2>1 DEF Reader
    <2>3. client[c].ref \in 1..Len(streams)
      BY <1>4, <2>1 DEF Reader
    <2>4. /\ streams[client[c].ref].start \in Nat
          /\ Len(streams[client[c].ref].events) \in Nat
      BY <1>1, <2>3, ClientTypes
    <2>5. \A a, b \in Nat : (a + b) - 1 = a + (b - 1)
      OBVIOUS
    <2>6. QED
      BY <2>2, <2>4, <2>5, Zenon DEF Tip
  <1>5. QED
    BY <1>2, <1>3, <1>4 DEF WindowIsNewest, EndComesLast

\* A step that yields an event yields the next one that can still be had.
LEMMA DeliveryStep ==
    ASSUME IInv, [Next]_vars, NEW c \in Clients, Delivers(c), client[c].last # NoId
    PROVE  /\ client'[c].last > client[c].last
           /\ client'[c].last > client[c].last + 1
              => client'[c].last = streams[client[c].ref].start
  <1>0. client \in [Clients -> ClientState]
    BY DEF IInv, TypeOK
  <1>1. Iterate(c)
    <2>1. client[c].at = "loop" /\ client'[c].at = "loop" /\ client'[c] # client[c]
      BY DEF Delivers
    <2>2. CASE UNCHANGED vars
      BY <2>1, <2>2 DEF vars
    <2>3. CASE Publish \/ PublishEnd \/ Cleanup
      BY <2>1, <2>3 DEF Publish, PublishEnd, Cleanup, Notified
    <2>4. ASSUME NEW d \in Clients,
                 \/ \E header \in {NoId, Foreign, client[d].last} : Join(d, header)
                 \/ Resolve(d) \/ Heartbeat(d) \/ Disconnect(d)
          PROVE  FALSE
      <3>1. CASE \E header \in {NoId, Foreign, client[d].last} : Join(d, header)
        <4>1. client[d].at # "loop" /\ \A e \in Clients : e # d => client'[e] = client[e]
          BY <1>0, <3>1 DEF Join
        <4>2. QED
          BY <2>1, <4>1
      <3>2. CASE Resolve(d)
        <4>1. client[d].at # "loop" /\ \A e \in Clients : e # d => client'[e] = client[e]
          BY <1>0, <3>2 DEF Resolve
        <4>2. QED
          BY <2>1, <4>1
      <3>3. CASE Heartbeat(d) \/ Disconnect(d)
        <4>1. \/ client[d].at # "loop" \/ client'[d].at = "off"
          BY <1>0, <3>3 DEF Heartbeat, Disconnect, ClientState
        <4>2. \A e \in Clients : e # d => client'[e] = client[e]
          BY <1>0, <3>3 DEF Heartbeat, Disconnect
        <4>3. QED
          BY <2>1, <4>1, <4>2
      <3>4. QED
        BY <2>4, <3>1, <3>2, <3>3
    <2>5. ASSUME NEW d \in Clients, d # c, Iterate(d) PROVE FALSE
      BY <1>0, <2>1, <2>5 DEF Iterate
    <2>6. QED
      BY <2>2, <2>3, <2>4, <2>5 DEF Next
  <1>2. PICK s : s = streams[client[c].ref]
    OBVIOUS
  <1>3. PICK next : next = CaughtUp(s, client[c].next)
    OBVIOUS
  <1>4. PICK i : i = next - s.start + 1
    OBVIOUS
  <1>5. client[c].at = "loop" /\ client'[c].at = "loop"
    BY DEF Delivers
  <1>6. i \in 1..Len(s.events) /\ client'[c].last = s.events[i]
    BY <1>0, <1>1, <1>2, <1>3, <1>4, <1>5 DEF Iterate, ClientState
  <1>7. /\ next \in Nat
        /\ \/ next = client[c].last + 1
           \/ next = s.start /\ (client[c].ref = 1 => client[c].last < s.start)
        /\ s.events[i] = next /\ client[c].ref = 1
    BY <1>2, <1>3, <1>4, <1>5, <1>6, Turn
  <1>8. client[c].last \in Int
    BY ClientTypes
  <1>9. QED
    BY <1>2, <1>6, <1>7, <1>8

\* The bridge's state is well typed; in particular every offset is a number a
\* stream can have, whatever Last-Event-ID a client sends.
THEOREM BridgeTypeCorrect == Spec => []TypeOK
  BY Inductive, Consequences, PTL DEF Spec

\* The number in an event's id is its offset in the run, and the window holds
\* the newest events, after any number of evictions.
THEOREM WindowCorrect == Spec => [](SeqIsOffset /\ WindowIsNewest)
  BY Inductive, Consequences, PTL DEF Spec

\* Nobody gets the end of the stream before the last event.
THEOREM EndComesLastHolds == Spec => []EndComesLast
  BY Inductive, Consequences, PTL DEF Spec

\* Events reach a consumer in order, none twice, and one is skipped only when
\* it was evicted.
THEOREM DeliveredInOrderHolds == Spec => DeliveredInOrder
  <1>1. IInv /\ [Next]_vars =>
          [\A c \in Clients :
             Delivers(c) /\ client[c].last # NoId
             => /\ client'[c].last > client[c].last
                /\ client'[c].last > client[c].last + 1
                   => client'[c].last = streams[client[c].ref].start]_vars
    BY DeliveryStep
  <1>2. QED
    BY <1>1, Inductive, PTL DEF Spec, DeliveredInOrder

-----------------------------------------------------------------------------
(* The refinement. *)

\* What the log sees of a consumer, and of all of them.
View(c) ==
    [at |-> CASE client[c].at = "off" -> "away"
              [] client[c].at = "ended" -> "done"
              [] OTHER -> "reading",
     last |-> client[c].last]
Views == [c \in Clients |-> View(c)]

\* The run's stream is the first object, if there is one, else the empty one
\* that whoever asks first will create.
LEMMA FirstIsRuns ==
    ASSUME IInv
    PROVE  /\ First = GetOrCreate[1] /\ First \in RunStream /\ GoodStream(First)
           /\ First.start \in Nat /\ Len(First.events) \in Nat
           /\ Len(streams) \in Nat
           /\ Len(streams) > 0 => First = streams[1]
  <1>1. /\ streams \in Seq(RunStream) /\ Len(streams) \in Nat /\ Streams
    BY DEF IInv, TypeOK
  <1>2. CASE streams = <<>>
    <2>1. Len(streams) = 0
      BY <1>2
    <2>2. GetOrCreate[1] = NewStream
      <3>1. 1 \in 1..Len(GetOrCreate) /\ 1 > Len(streams)
        BY <2>1, GetOrCreateGood
      <3>2. QED
        BY <3>1, GetOrCreateGood
    <2>3. NewStream.start \in Nat /\ Len(NewStream.events) \in Nat
      BY NewGood DEF RunStream
    <2>4. QED
      BY <1>1, <1>2, <2>1, <2>2, <2>3, NewGood DEF First
  <1>3. CASE streams # <<>>
    <2>1. 1 \in 1..Len(streams) /\ First = streams[1]
      BY <1>1, <1>3 DEF First
    <2>2. streams[1] = GetOrCreate[1]
      BY <2>1, GetOrCreateGood
    <2>3. /\ streams[1] \in RunStream /\ GoodStream(streams[1])
      BY <1>1, <2>1 DEF Streams
    <2>4. streams[1].start \in Nat /\ Len(streams[1].events) \in Nat
      BY <2>3 DEF RunStream
    <2>5. QED
      BY <1>1, <2>1, <2>2, <2>3, <2>4
  <1>4. QED
    BY <1>2, <1>3

\* An append moves the start of a good window by one when it is full, and not
\* at all otherwise.
LEMMA AppendedStart ==
    ASSUME NEW s \in RunStream, GoodStream(s), NEW e \in Nat
    PROVE  Appended(s, e).start =
             IF s.start + MaxSize <= Tip(s) THEN s.start + 1 ELSE s.start
  <1>1. /\ s.events \in Seq(Nat) /\ s.start \in Nat /\ Len(s.events) \in Nat
        /\ MaxSize \in Nat /\ MaxSize > 0 /\ Len(s.events) <= MaxSize
    BY BridgeAssumption DEF RunStream, GoodStream
  <1>2. Len(Append(s.events, e)) = Len(s.events) + 1
    BY <1>1
  <1>3. PICK k \in Nat : k = IF Len(s.events) + 1 > MaxSize
                               THEN (Len(s.events) + 1) - MaxSize ELSE 0
    BY <1>1
  <1>4. Appended(s, e).start = s.start + k
    BY <1>2, <1>3 DEF Appended, RunStream
  <1>5. QED
    BY <1>1, <1>3, <1>4 DEF Tip

\* Waking consumers is invisible to the log.
LEMMA NotifiedView ==
    ASSUME TypeOK, NEW g \in Nat, client' = Notified(g)
    PROVE  Views' = Views
  <1>1. ASSUME NEW c \in Clients PROVE View(c)' = View(c)
    <2>1. /\ client'[c].last = client[c].last
          /\ \/ client'[c].at = client[c].at
             \/ client[c].at = "wait" /\ client'[c].at = "loop"
      BY NotifiedType
    <2>2. QED
      BY <2>1 DEF View
  <1>2. QED
    BY <1>1 DEF Views

\* A step of one consumer changes its view and no other.
LEMMA OneView ==
    ASSUME TypeOK, NEW c \in Clients, \A d \in Clients \ {c} : client'[d] = client[d]
    PROVE  Views' = [Views EXCEPT ![c] = View(c)']
  BY DEF Views, View

\* publish is the log's Emit, with the eviction of the oldest event.
LEMMA PublishEmits ==
    ASSUME IInv, Publish
    PROVE  Log!Emit
  <1>1. /\ Len(GetOrCreate) = 1 /\ Counter = Tip(GetOrCreate[1])
        /\ GetOrCreate \in Seq(RunStream)
    BY GetOrCreateGood DEF Publish
  <1>2. PICK t : t = Appended(First, Tip(First))
    OBVIOUS
  <1>3. Tip(First) \in Nat
    BY FirstIsRuns DEF Tip
  <1>4. /\ t \in RunStream /\ Tip(t) = Tip(First) + 1
        /\ t.start = IF First.start + MaxSize <= Tip(First)
                       THEN First.start + 1 ELSE First.start
    BY <1>2, <1>3, FirstIsRuns, AppendedGood, AppendedStart
  <1>5. First' = t
    <2>1. streams' = [GetOrCreate EXCEPT ![1] = t]
      BY <1>1, <1>2, FirstIsRuns DEF Publish
    <2>2. streams' \in Seq(RunStream) /\ Len(streams') = 1 /\ streams'[1] = t
      BY <1>1, <1>4, <2>1
    <2>3. streams' # <<>>
      BY <2>2
    <2>4. QED
      BY <2>2, <2>3 DEF First
  <1>6. Views' = Views
    <2>1. TypeOK /\ client' = Notified(1)
      BY <1>1 DEF IInv, Publish
    <2>2. QED
      BY <2>1, NotifiedView
  <1>7. producer = "running" /\ producer' = "running"
    BY DEF Publish
  <1>8. QED
    BY <1>4, <1>5, <1>6, <1>7 DEF Log!Emit, Tip, Views, View

\* publish_end is the log's End.
LEMMA PublishEndEnds ==
    ASSUME IInv, PublishEnd
    PROVE  Log!End
  <1>1. Len(GetOrCreate) = 1 /\ GetOrCreate \in Seq(RunStream)
    BY GetOrCreateGood DEF PublishEnd
  <1>2. PICK t : t = [First EXCEPT !.ended = TRUE]
    OBVIOUS
  <1>3. t \in RunStream /\ t.events = First.events /\ t.start = First.start
    BY <1>2, FirstIsRuns DEF RunStream
  <1>4. First' = t
    <2>1. streams' = [GetOrCreate EXCEPT ![1] = t]
      BY <1>1, <1>2, FirstIsRuns DEF PublishEnd
    <2>2. streams' \in Seq(RunStream) /\ Len(streams') = 1 /\ streams'[1] = t
      <3>1. t \in RunStream
        BY <1>3
      <3>2. QED
        BY <1>1, <2>1, <3>1
    <2>3. streams' # <<>>
      BY <2>2
    <2>4. QED
      BY <2>2, <2>3 DEF First
  <1>5. Views' = Views
    <2>1. TypeOK /\ client' = Notified(1)
      BY <1>1 DEF IInv, PublishEnd
    <2>2. QED
      BY <2>1, NotifiedView
  <1>6. producer = "running" /\ producer' = "ended"
    BY DEF PublishEnd
  <1>7. QED
    BY <1>3, <1>4, <1>5, <1>6 DEF Log!End, Views, View

\* A request is the log's Subscribe, with the id it carries; a request after
\* the cleanup creates a stream that the log knows nothing of.
LEMMA JoinSubscribes ==
    ASSUME IInv, NEW c \in Clients, NEW header \in {NoId, Foreign, client[c].last},
           Join(c, header)
    PROVE  \E last \in {-1, client[c].last} : Log!Subscribe(c, last)
  <1>1. PICK last : last = IF header = Foreign THEN NoId ELSE header
    OBVIOUS
  <1>2. last \in {-1, client[c].last}
    BY <1>1 DEF NoId
  <1>3. /\ client \in [Clients -> ClientState] /\ TypeOK
        /\ client'[c].at = "joining" /\ client'[c].last = last
        /\ \A d \in Clients \ {c} : client'[d] = client[d]
        /\ client[c].at \in {"off", "ended"} /\ producer' = producer
    BY <1>1 DEF IInv, TypeOK, Join
  <1>4. Views' = [Views EXCEPT ![c] = [at |-> "reading", last |-> last]]
    <2>1. View(c)' = [at |-> "reading", last |-> last]
      BY <1>3 DEF View
    <2>2. QED
      BY <1>3, <2>1, OneView
  <1>5. First' = First
    <2>1. streams' = GetOrCreate /\ Len(GetOrCreate) >= 1 /\ Len(GetOrCreate) \in Nat
      BY GetOrCreateGood DEF Join
    <2>2. streams' # <<>>
      BY <2>1
    <2>3. QED
      BY <2>1, <2>2, FirstIsRuns DEF First
  <1>6. View(c).at # "reading" /\ Views[c] = View(c)
    BY <1>3 DEF View, Views
  <1>7. Log!Subscribe(c, last)
    BY <1>3, <1>4, <1>5, <1>6 DEF Log!Subscribe, Views, View
  <1>8. QED
    BY <1>2, <1>7

\* A turn of the loop is the log's Deliver or Finish, or a wait, which the log
\* does not see.
LEMMA IterateDelivers ==
    ASSUME IInv, NEW c \in Clients, Iterate(c)
    PROVE  \/ \E e \in 0..((First.start + Len(First.events)) - 1) : Log!Deliver(c, e)
           \/ Log!Finish(c)
           \/ Views' = Views /\ First' = First /\ producer' = producer
  <1>1. /\ client[c].at = "loop" /\ client \in [Clients -> ClientState] /\ TypeOK
        /\ UNCHANGED <<streams, current, counter, producer>>
        /\ client[c].ref \in 1..Len(streams)
    BY DEF Iterate, IInv, TypeOK, Reader
  <1>2. PICK s : s = streams[client[c].ref]
    OBVIOUS
  <1>3. PICK next : next = CaughtUp(s, client[c].next)
    OBVIOUS
  <1>4. PICK i : i = next - s.start + 1
    OBVIOUS
  <1>5. client' = [client EXCEPT ![c] =
          IF i \in 1..Len(s.events)
            THEN [@ EXCEPT !.next = next + 1, !.last = s.events[i]]
          ELSE [@ EXCEPT !.next = next, !.at = IF s.ended THEN "ended" ELSE "wait"]]
    BY <1>2, <1>3, <1>4 DEF Iterate
  <1>6. /\ next \in Nat /\ next <= Tip(s)
        /\ \/ next = client[c].last + 1
           \/ next = s.start /\ (client[c].ref = 1 => client[c].last < s.start)
        /\ i \in 1..Len(s.events)
           => s.events[i] = next /\ next < Tip(s) /\ client[c].ref = 1
        /\ i \notin 1..Len(s.events) /\ s.ended => client[c].last = Tip(s) - 1
    BY <1>1, <1>2, <1>3, <1>4, Turn
  <1>7. First' = First /\ producer' = producer
    BY <1>1 DEF First
  <1>8. Views' = [Views EXCEPT ![c] = View(c)'] /\ Views[c] = View(c)
    <2>1. \A d \in Clients \ {c} : client'[d] = client[d]
      BY <1>1, <1>5
    <2>2. QED
      BY <1>1, <2>1, OneView DEF Views
  <1>9. View(c) = [at |-> "reading", last |-> client[c].last]
    BY <1>1 DEF View
  <1>10. client[c].ref = 1 => s = First
    BY <1>1, <1>2, FirstIsRuns
  <1>11. CASE i \in 1..Len(s.events)
    <2>1. client'[c].at = "loop" /\ client'[c].last = next
      BY <1>1, <1>5, <1>6, <1>11 DEF ClientState
    <2>2. View(c)' = [at |-> "reading", last |-> next]
      BY <2>1 DEF View
    <2>3. /\ s = First /\ next < First.start + Len(First.events)
          /\ next = client[c].last + 1 \/ next <= First.start
          /\ client[c].last < next
      <3>1. s = First /\ next < Tip(First) /\ client[c].last \in Int
        BY <1>6, <1>10, <1>11, ClientTypes
      <3>2. QED
        BY <1>6, <1>11, <3>1, FirstIsRuns DEF Tip
    <2>4. Views' = [Views EXCEPT ![c].last = next]
      <3>1. View(c)' = [Views[c] EXCEPT !.last = next]
        BY <1>8, <1>9, <2>2
      <3>2. QED
        BY <1>8, <3>1
    <2>5. Log!Deliver(c, next)
      BY <1>7, <1>8, <1>9, <2>3, <2>4 DEF Log!Deliver, Views, View
    <2>6. next \in 0..((First.start + Len(First.events)) - 1)
      BY <1>6, <2>3, FirstIsRuns
    <2>7. QED
      BY <2>5, <2>6
  <1>12. CASE i \notin 1..Len(s.events) /\ s.ended
    <2>1. client'[c].at = "ended" /\ client'[c].last = client[c].last
      BY <1>1, <1>5, <1>12 DEF ClientState
    <2>2. View(c)' = [at |-> "done", last |-> client[c].last]
      BY <2>1 DEF View
    <2>3. producer # "running" /\ (client[c].ref = 1 \/ s = NewStream)
      <3>1. Streams /\ Len(streams) \in Nat
        BY FirstIsRuns DEF IInv
      <3>2. QED
        BY <1>1, <1>2, <1>12, <3>1 DEF Streams
    <2>4. s = First
      BY <1>10, <1>12, <2>3 DEF NewStream
    <2>5. client[c].last = (First.start + Len(First.events)) - 1
      <3>1. client[c].last = Tip(First) - 1
        BY <1>6, <1>12, <2>4
      <3>2. QED
        BY <3>1 DEF Tip
    <2>6. Views' = [Views EXCEPT ![c].at = "done"]
      <3>1. View(c)' = [Views[c] EXCEPT !.at = "done"]
        BY <1>8, <1>9, <2>2
      <3>2. QED
        BY <1>8, <3>1
    <2>7. Log!Finish(c)
      <3>1. /\ Views[c].at = "reading" /\ producer # "running"
            /\ Views[c].last = (First.start + Len(First.events)) - 1
        BY <1>8, <1>9, <2>3, <2>5
      <3>2. QED
        BY <1>7, <2>6, <3>1 DEF Log!Finish, Views, View
    <2>8. QED
      BY <2>7
  <1>13. CASE i \notin 1..Len(s.events) /\ ~s.ended
    <2>1. client'[c].at = "wait" /\ client'[c].last = client[c].last
      BY <1>1, <1>5, <1>13 DEF ClientState
    <2>2. View(c)' = View(c)
      BY <1>9, <2>1 DEF View
    <2>3. Views' = Views
      BY <1>8, <2>2 DEF Views
    <2>4. QED
      BY <1>7, <2>3
  <1>14. QED
    BY <1>11, <1>12, <1>13

\* What the log does not see leaves its variables alone.
LEMMA Unseen ==
    ASSUME Views' = Views, First' = First,
           (producer' # "running") = (producer # "running")
    PROVE  UNCHANGED Log!logVars
  BY DEF Log!logVars, Views, View

\* The remaining steps: a disconnect is Leave, the others the log does not see.
LEMMA OthersStutter ==
    ASSUME IInv, NEW c \in Clients, Cleanup \/ Resolve(c) \/ Heartbeat(c) \/ Disconnect(c)
    PROVE  Log!Leave(c) \/ UNCHANGED Log!logVars
  <1>0. client \in [Clients -> ClientState] /\ TypeOK
    BY DEF IInv, TypeOK
  <1>1. CASE Cleanup
    <2>1. /\ client' = client /\ streams' = streams
          /\ producer = "ended" /\ producer' = "cleaned"
      BY <1>1 DEF Cleanup
    <2>2. QED
      BY <2>1, Unseen DEF Views, View, First
  <1>2. CASE Resolve(c) \/ Heartbeat(c)
    <2>1. /\ \A d \in Clients \ {c} : client'[d] = client[d]
          /\ client[c].at \in {"joining", "wait"} /\ client'[c].at = "loop"
          /\ client'[c].last = client[c].last
          /\ streams' = streams /\ producer' = producer
      <3>1. CASE Resolve(c)
        <4>1. PICK next : next = ResolveStartOffset(streams[client[c].ref], client[c].header)
          OBVIOUS
        <4>2. client' = [client EXCEPT ![c].at = "loop", ![c].next = next]
          BY <3>1, <4>1 DEF Resolve
        <4>3. QED
          BY <1>0, <3>1, <4>2 DEF Resolve, ClientState
      <3>2. CASE Heartbeat(c)
        BY <1>0, <3>2 DEF Heartbeat, ClientState
      <3>3. QED
        BY <1>2, <3>1, <3>2
    <2>2. View(c)' = View(c)
      BY <2>1 DEF View
    <2>3. Views' = Views
      BY <1>0, <2>1, <2>2, OneView DEF Views
    <2>4. QED
      BY <2>1, <2>3, Unseen DEF First
  <1>3. CASE Disconnect(c)
    <2>1. /\ \A d \in Clients \ {c} : client'[d] = client[d]
          /\ client'[c].at = "off" /\ client'[c].last = client[c].last
          /\ streams' = streams /\ producer' = producer
      BY <1>0, <1>3 DEF Disconnect, ClientState
    <2>2. View(c)' = [View(c) EXCEPT !.at = "away"]
      BY <2>1 DEF View
    <2>3. Views' = [Views EXCEPT ![c].at = "away"]
      BY <1>0, <2>1, <2>2, OneView DEF Views
    <2>4. First' = First
      BY <2>1 DEF First
    <2>5. QED
      BY <2>1, <2>3, <2>4 DEF Log!Leave, Views, View
  <1>4. QED
    BY <1>1, <1>2, <1>3

\* The bridge implements the log: initial states map to initial states, and a
\* step to the log's step of the same name or to none.
LEMMA Refinement ==
    /\ Init => Log!Init
    /\ IInv /\ [Next]_vars => [Log!Next]_(Log!logVars)
  <1>1. ASSUME Init PROVE Log!Init
    <2>1. First = NewStream /\ NewStream.start = 0 /\ Len(NewStream.events) = 0
      BY <1>1 DEF Init, First, NewStream
    <2>2. Views = [c \in Clients |-> [at |-> "away", last |-> -1]]
      BY <1>1 DEF Init, Views, View, NoId
    <2>3. QED
      BY <1>1, <2>1, <2>2 DEF Init, Log!Init, Views, View
  <1>2. ASSUME IInv, [Next]_vars PROVE [Log!Next]_(Log!logVars)
    <2>1. CASE UNCHANGED vars
      BY <2>1, Unseen DEF vars, Views, View, First
    <2>2. CASE Publish
      BY <1>2, <2>2, PublishEmits DEF Log!Next
    <2>3. CASE PublishEnd
      BY <1>2, <2>3, PublishEndEnds DEF Log!Next
    <2>4. CASE Cleanup
      <3>1. Views' = Views /\ First' = First
        BY <2>4 DEF Cleanup, Views, View, First
      <3>2. QED
        BY <2>4, <3>1, Unseen DEF Cleanup
    <2>5. ASSUME NEW c \in Clients, NEW header \in {NoId, Foreign, client[c].last},
                 Join(c, header)
          PROVE  Log!Next
      <3>1. PICK last \in {-1, client[c].last} : Log!Subscribe(c, last)
        BY <1>2, <2>5, JoinSubscribes
      <3>2. QED
        BY <3>1 DEF Log!Next
    <2>6. ASSUME NEW c \in Clients, Iterate(c)
          PROVE  Log!Next \/ UNCHANGED Log!logVars
      <3>1. CASE \E e \in 0..((First.start + Len(First.events)) - 1) : Log!Deliver(c, e)
        BY <3>1 DEF Log!Next
      <3>2. CASE Log!Finish(c)
        BY <3>2 DEF Log!Next
      <3>3. CASE Views' = Views /\ First' = First /\ producer' = producer
        BY <3>3, Unseen
      <3>4. QED
        BY <1>2, <2>6, <3>1, <3>2, <3>3, IterateDelivers
    <2>7. ASSUME NEW c \in Clients, Resolve(c) \/ Heartbeat(c) \/ Disconnect(c)
          PROVE  Log!Next \/ UNCHANGED Log!logVars
      BY <1>2, <2>7, OthersStutter DEF Log!Next
    <2>8. QED
      BY <1>2, <2>1, <2>2, <2>3, <2>4, <2>5, <2>6, <2>7 DEF Next
  <1>3. QED
    BY <1>1, <1>2

\* Whatever the order of publishing, eviction, cleanup, falling behind and
\* reconnecting, MemoryStreamBridge sends its consumers what a reader of the
\* log may get next: it implements EventLog.
THEOREM ImplementsLogHolds == Spec => ImplementsLog
  BY Inductive, Refinement, PTL DEF Spec, ImplementsLog, Log!Spec

-----------------------------------------------------------------------------
(* The bridge on Redis. *)

\* A stream that retains the events from one up to the next one to come, and
\* perhaps the end marker behind them.
Retains(s, first, next) ==
    /\ first \in Nat /\ next \in Nat /\ first <= next /\ next - first <= RetainedSize
    /\ Len(s) = next - first \/ Len(s) = (next - first) + 1
    /\ \A i \in 1..Len(s) : /\ s[i].id = first + i - 1
                            /\ s[i].end <=> i = (next - first) + 1

\* A consumer reads on from what it got last; what it has read and not yet
\* yielded follows that, or begins where the stream begins or began.
InStep(c) ==
    LET b == rclient[c].batch IN
    /\ rclient[c].at = "open" => rclient[c].from \in {NoEvent, rclient[c].last}
    /\ rclient[c].at \in {"read", "batch"} => rclient[c].from = rclient[c].last
    /\ rclient[c].at = "batch" =>
        /\ Len(b) > 0 /\ b[1].id > rclient[c].last
        /\ b[1].id = rclient[c].last + 1 \/ b[1].id <= OldestEvent
        /\ \A i \in 1..Len(b) : /\ b[i].id = b[1].id + i - 1
                                /\ b[i].id <= published
                                /\ b[i].end => RunOver
                                /\ b[i].end <=> b[i].id = published

RedisInv ==
    /\ RedisTypeOK
    /\ Retains(rstream, OldestEvent, published)
    /\ Len(rstream) > published - OldestEvent => RunOver
    /\ \A c \in RedisClients : InStep(c)

\* What a stream retains says where it begins.
LEMMA RetainedBegins ==
    ASSUME NEW s \in Seq(Entry), NEW first, NEW next, Retains(s, first, next)
    PROVE  first = IF s = <<>> \/ s[1].end THEN next ELSE s[1].id
  <1>1. PICK n \in Nat, f \in Nat, p \in Nat : n = Len(s) /\ f = first /\ p = next /\ f <= p
    BY DEF Retains
  <1>2. CASE n = 0
    <2>1. s = <<>>
      BY <1>1, <1>2, EmptySeq
    <2>2. f = p
      BY <1>1, <1>2 DEF Retains
    <2> QED BY <1>1, <2>1, <2>2
  <1>3. CASE n # 0
    <2>1. 1 \in 1..n /\ s # <<>>
      BY <1>1, <1>3
    <2>2. s[1].id = f + 1 - 1 /\ (s[1].end <=> 1 = (p - f) + 1)
      BY <1>1, <2>1 DEF Retains
    <2> QED BY <1>1, <2>1, <2>2
  <1> QED BY <1>2, <1>3

\* A stream that does not exist retains nothing.
LEMMA EmptyRetains ==
    ASSUME NEW p \in Nat PROVE Retains(<<>>, p, p)
  BY RedisAssumption DEF Retains

\* XADD of the next event drops the oldest one of a full stream.
LEMMA XaddEvent ==
    ASSUME RedisTypeOK, NEW first, Retains(rstream, first, published),
           Len(rstream) = published - first
    PROVE  LET s == Xadd([id |-> published, end |-> FALSE], RetainedSize)
               f == IF first + RetainedSize <= published THEN first + 1 ELSE first
           IN  s \in Seq(Entry) /\ Retains(s, f, published + 1) /\ Len(s) = (published + 1) - f
  <1>1. PICK n \in Nat, g \in Nat, p \in Nat, r \in Nat :
            /\ n = Len(rstream) /\ g = first /\ p = published /\ r = RetainedSize
            /\ g <= p /\ n = p - g /\ n <= r /\ r > 0
    BY RedisAssumption DEF Retains, RedisTypeOK
  <1>2. PICK e \in Entry : e = [id |-> published, end |-> FALSE] /\ e.id = p /\ e.end = FALSE
    <2>1. [id |-> published, end |-> FALSE] \in Entry
      BY <1>1 DEF Entry
    <2> QED BY <1>1, <2>1
  <1>3. PICK all \in Seq(Entry) : all = Append(rstream, e)
    BY AppendProperties DEF RedisTypeOK
  <1>4. /\ Len(all) = n + 1 /\ all[n + 1] = e
        /\ \A i \in 1..n : all[i] = rstream[i]
    BY <1>1, <1>3, AppendProperties DEF RedisTypeOK
  <1>5. ASSUME NEW i \in 1..(n + 1)
        PROVE  all[i].id = g + i - 1 /\ ~all[i].end
    <2>1. CASE i = n + 1
      BY <1>1, <1>2, <1>4, <2>1
    <2>2. CASE i # n + 1
      <3>1. i \in 1..n /\ ~(i = (p - g) + 1)
        BY <1>1, <2>2
      <3>2. rstream[i].id = g + i - 1 /\ (rstream[i].end <=> i = (p - g) + 1)
        BY <1>1, <3>1 DEF Retains
      <3> QED BY <1>4, <3>1, <3>2
    <2> QED BY <2>1, <2>2
  <1>6. PICK k \in 0..1 : k = IF n + 1 > r THEN 1 ELSE 0
    OBVIOUS
  <1>7. PICK s \in Seq(Entry) : s = SubSeq(all, k + 1, n + 1)
    <2>1. \A i \in (k + 1)..(n + 1) : i \in 1..(n + 1)
      OBVIOUS
    <2>2. k + 1 \in Int /\ n + 1 \in Int /\ \A i \in (k + 1)..(n + 1) : all[i] \in Entry
      BY <1>4, <2>1, ElementOfSeq
    <2> QED BY <2>2, SubSeqProperties
  <1>8. Len(s) = n + 1 - k /\ \A i \in 1..(n + 1 - k) : s[i] = all[i + k]
    <2>1. \A i \in (k + 1)..(n + 1) : i \in 1..(n + 1)
      OBVIOUS
    <2>2. k + 1 \in Int /\ n + 1 \in Int /\ \A i \in (k + 1)..(n + 1) : all[i] \in Entry
      BY <1>4, <2>1, ElementOfSeq
    <2>3. /\ Len(s) = IF k + 1 <= n + 1 THEN (n + 1) - (k + 1) + 1 ELSE 0
          /\ \A i \in 1..((n + 1) - (k + 1) + 1) : s[i] = all[(k + 1) + i - 1]
      BY <1>7, <2>2, SubSeqProperties
    <2> QED BY <2>3
  <1>9. s = Xadd([id |-> published, end |-> FALSE], RetainedSize)
    <2>1. k + 1 = IF n + 1 > r THEN (n + 1) - r + 1 ELSE 1
      BY <1>1, <1>6
    <2> QED BY <1>1, <1>2, <1>3, <1>4, <1>7, <2>1 DEF Xadd
  <1>10. g + k = IF first + RetainedSize <= published THEN first + 1 ELSE first
    BY <1>1, <1>6
  <1>11. ASSUME NEW i \in 1..Len(s)
         PROVE  s[i].id = (g + k) + i - 1 /\ (s[i].end <=> i = ((p + 1) - (g + k)) + 1)
    <2>1. i + k \in 1..(n + 1) /\ s[i] = all[i + k]
      BY <1>8
    <2>2. all[i + k].id = g + (i + k) - 1 /\ ~all[i + k].end
      BY <1>5, <2>1
    <2>3. ~(i = ((p + 1) - (g + k)) + 1)
      BY <1>1, <1>8
    <2>4. s[i].id = (g + k) + i - 1
      BY <2>1, <2>2
    <2>5. ~s[i].end
      BY <2>1, <2>2
    <2> QED BY <2>3, <2>4, <2>5
  <1>12. /\ g + k \in Nat /\ p + 1 \in Nat /\ g + k <= p + 1
         /\ (p + 1) - (g + k) <= r /\ Len(s) = (p + 1) - (g + k)
    BY <1>1, <1>6, <1>8
  <1>13. Retains(s, g + k, p + 1)
    BY <1>1, <1>11, <1>12 DEF Retains
  <1> QED BY <1>1, <1>9, <1>10, <1>12, <1>13

\* XADD of the end marker drops nothing.
LEMMA XaddEnd ==
    ASSUME RedisTypeOK, NEW first, Retains(rstream, first, published),
           Len(rstream) = published - first
    PROVE  LET s == Xadd([id |-> published, end |-> TRUE], EndMaxlen)
           IN  s \in Seq(Entry) /\ Retains(s, first, published)
  <1>1. PICK n \in Nat, g \in Nat, p \in Nat, r \in Nat :
            /\ n = Len(rstream) /\ g = first /\ p = published /\ r = RetainedSize
            /\ g <= p /\ n = p - g /\ n <= r /\ r > 0
    BY RedisAssumption DEF Retains, RedisTypeOK
  <1>2. PICK e \in Entry : e = [id |-> published, end |-> TRUE] /\ e.id = p /\ e.end = TRUE
    <2>1. [id |-> published, end |-> TRUE] \in Entry
      BY <1>1 DEF Entry
    <2> QED BY <1>1, <2>1
  <1>3. PICK all \in Seq(Entry) : all = Append(rstream, e)
    BY AppendProperties DEF RedisTypeOK
  <1>4. /\ Len(all) = n + 1 /\ all[n + 1] = e
        /\ \A i \in 1..n : all[i] = rstream[i]
    BY <1>1, <1>3, AppendProperties DEF RedisTypeOK
  <1>5. ASSUME NEW i \in 1..(n + 1)
        PROVE  all[i].id = g + i - 1 /\ (all[i].end <=> i = (p - g) + 1)
    <2>1. CASE i = n + 1
      BY <1>1, <1>2, <1>4, <2>1
    <2>2. CASE i # n + 1
      <3>1. i \in 1..n
        BY <2>2
      <3>2. rstream[i].id = g + i - 1 /\ (rstream[i].end <=> i = (p - g) + 1)
        BY <1>1, <3>1 DEF Retains
      <3> QED BY <1>4, <3>1, <3>2
    <2> QED BY <2>1, <2>2
  <1>6. all = Xadd([id |-> published, end |-> TRUE], EndMaxlen)
    <2>1. ~(n + 1 > r + 1)
      BY <1>1
    <2>2. Xadd([id |-> published, end |-> TRUE], EndMaxlen) = SubSeq(all, 1, Len(all))
      BY <1>1, <1>2, <1>3, <1>4, <2>1 DEF Xadd, EndMaxlen
    <2> QED BY <2>2, SubSeqFull
  <1>7. Retains(all, g, p)
    BY <1>1, <1>4, <1>5 DEF Retains
  <1> QED BY <1>1, <1>6, <1>7

\* XREAD returns the entries after an id, from the next one on or from the
\* first one retained.
LEMMA AfterProperties ==
    ASSUME RedisTypeOK, NEW first, Retains(rstream, first, published), NEW id \in Int
    PROVE  LET s == After(id) IN
           /\ s \in Seq(Entry)
           /\ Len(s) > 0 =>
                /\ s[1].id > id /\ (s[1].id = id + 1 \/ s[1].id = first)
                /\ \A i \in 1..Len(s) :
                    /\ s[i].id = s[1].id + i - 1 /\ s[i].id <= published
                    /\ s[i].end <=> s[i].id = published
                    /\ s[i].end => Len(rstream) > published - first
  <1>1. PICK n \in Nat, g \in Nat, p \in Nat :
            /\ n = Len(rstream) /\ g = first /\ p = published /\ g <= p
            /\ DOMAIN rstream = 1..n /\ (n = p - g \/ n = (p - g) + 1)
    BY DEF Retains, RedisTypeOK
  <1> DEFINE later == {i \in 1..n : rstream[i].id > id}
  <1>2. CASE later = {}
    <2>1. After(id) = <<>>
      BY <1>1, <1>2 DEF After
    <2> QED BY <2>1
  <1>3. CASE later # {}
    <2>1. PICK m \in later : m = Min(later) /\ \A y \in later : m <= y
      BY <1>3, MinProperties, later \in SUBSET Nat
    <2>2. \A i \in 1..n : rstream[i].id = g + i - 1 /\ (rstream[i].end <=> i = (p - g) + 1)
      BY <1>1 DEF Retains
    <2>3. \A i \in 1..n : rstream[i] \in Entry
      BY <1>1, ElementOfSeq DEF RedisTypeOK
    <2>4. After(id) = SubSeq(rstream, m, n)
      BY <1>1, <1>3, <2>1 DEF After
    <2>5. PICK s \in Seq(Entry) : s = SubSeq(rstream, m, n)
      BY <2>3, SubSeqProperties, m \in Int, n \in Int, \A i \in m..n : i \in 1..n
    <2>6. Len(s) = n - m + 1 /\ \A i \in 1..(n - m + 1) : s[i] = rstream[m + i - 1]
      BY <2>3, <2>5, SubSeqProperties, m \in Int, n \in Int, \A i \in m..n : i \in 1..n
    <2>7. m \in 1..n /\ g + m - 1 > id
      BY <2>1, <2>2
    <2>8. g + m - 1 = id + 1 \/ m = 1
      <3>1. CASE m # 1
        <4>1. m - 1 \in 1..n /\ m - 1 \notin later
          BY <2>1, <2>7, <3>1
        <4>2. ~(g + (m - 1) - 1 > id)
          BY <2>2, <4>1
        <4> QED BY <2>7, <4>2
      <3> QED BY <3>1
    <2>9. ASSUME NEW i \in 1..Len(s)
          PROVE  /\ s[i].id = (g + m - 1) + i - 1
                 /\ s[i].end <=> (m + i - 1) = (p - g) + 1
                 /\ m + i - 1 \in 1..n
      <3>1. PICK j \in 1..n : j = m + i - 1 /\ s[i] = rstream[j]
        <4>1. m \in 1..n /\ i \in 1..(n - m + 1)
          BY <2>6, <2>7
        <4>2. m + i - 1 \in 1..n /\ s[i] = rstream[m + i - 1]
          BY <2>6, <4>1
        <4> QED BY <4>2
      <3>2. s[i].id = g + j - 1 /\ (s[i].end <=> j = (p - g) + 1)
        BY <2>2, <3>1
      <3> QED BY <3>1, <3>2
    <2>10. 1 \in 1..Len(s)
      BY <2>6, <2>7
    <2>11. s[1].id = g + m - 1
      BY <2>9, <2>10
    <2>12. ASSUME NEW i \in 1..Len(s)
           PROVE  /\ s[i].id = s[1].id + i - 1 /\ s[i].id <= published
                  /\ s[i].end <=> s[i].id = published
                  /\ s[i].end => Len(rstream) > published - first
      BY <1>1, <2>7, <2>9, <2>11, SMTT(30)
    <2>13. s[1].id > id /\ (s[1].id = id + 1 \/ s[1].id = first)
      BY <1>1, <2>7, <2>8, <2>11
    <2> QED BY <2>4, <2>5, <2>12, <2>13, Zenon
  <1> QED BY <1>2, <1>3

\* The run's stream and consumers before anything happened.
LEMMA RedisInitInv == RedisInit => RedisInv
  <1> SUFFICES ASSUME RedisInit PROVE RedisInv
    OBVIOUS
  <1>1. RedisTypeOK
    BY RedisAssumption DEF RedisInit, RedisTypeOK, RedisClient, RunPhase, NoEvent
  <1>2. OldestEvent = 0 /\ published = 0 /\ rstream = <<>>
    BY DEF RedisInit, OldestEvent
  <1>3. \A c \in RedisClients : InStep(c)
    BY DEF RedisInit, InStep
  <1> QED BY <1>1, <1>2, <1>3, EmptyRetains DEF RedisInv

\* What the producer does leaves every consumer in step, if the stream only
\* loses old events.
LEMMA ConsumersKept ==
    ASSUME RedisInv, UNCHANGED rclient, RedisTypeOK',
           OldestEvent' \in Nat, OldestEvent <= OldestEvent',
           published' = published \/ (published' = published + 1 /\ ~RunOver),
           RunOver => RunOver'
    PROVE  \A c \in RedisClients : InStep(c)'
  <1> SUFFICES ASSUME NEW c \in RedisClients PROVE InStep(c)'
    OBVIOUS
  <1>1. InStep(c) /\ OldestEvent \in Nat /\ published \in Nat /\ rclient[c] \in RedisClient
    BY DEF RedisInv, Retains, RedisTypeOK
  <1>2. CASE rclient[c].at # "batch"
    BY <1>1, <1>2 DEF InStep
  <1>3. CASE rclient[c].at = "batch"
    <2>1. PICK b \in Seq(Entry) : b = rclient[c].batch
      BY <1>1 DEF RedisClient
    <2>2. PICK l \in Int : l = rclient[c].last
      BY <1>1 DEF RedisClient
    <2>3. /\ Len(b) > 0 /\ b[1].id > l /\ (b[1].id = l + 1 \/ b[1].id <= OldestEvent)
          /\ \A i \in 1..Len(b) : /\ b[i].id = b[1].id + i - 1
                                  /\ b[i].id <= published
                                  /\ b[i].end => RunOver
                                  /\ b[i].end <=> b[i].id = published
      BY <1>1, <1>3, <2>1, <2>2 DEF InStep
    <2>4. \A i \in 1..Len(b) : b[i].id \in Nat
      <3>1. \A i \in 1..Len(b) : b[i] \in Entry
        BY ElementOfSeq
      <3> QED BY <3>1 DEF Entry
    <2>5. b[1].id = l + 1 \/ b[1].id <= OldestEvent'
      <3>1. b[1].id \in Nat
        BY <2>3, <2>4
      <3> QED BY <1>1, <2>3, <3>1
    <2>6. ASSUME NEW i \in 1..Len(b)
          PROVE  /\ b[i].id <= published' /\ (b[i].end => RunOver')
                 /\ b[i].end <=> b[i].id = published'
      BY <1>1, <2>3, <2>4
    <2>7. /\ rclient'[c].batch = b /\ rclient'[c].last = l /\ rclient'[c].at = "batch"
          /\ rclient'[c].from = l
      BY <1>1, <1>3, <2>1, <2>2 DEF InStep
    <2> QED BY <2>3, <2>5, <2>6, <2>7 DEF InStep
  <1> QED BY <1>2, <1>3

\* publish is the log's Emit and keeps the invariant.
LEMMA RedisPublishEmits ==
    ASSUME RedisInv, RedisPublish
    PROVE  RedisInv' /\ RedisLog!Emit
  <1>1. /\ RedisTypeOK /\ Retains(rstream, OldestEvent, published)
        /\ ~RunOver /\ ~RunOver' /\ UNCHANGED rclient /\ published' = published + 1
        /\ run' \in RunPhase /\ published' \in 0..MaxPublished
    BY RedisAssumption DEF RedisInv, RedisPublish, RunOver, RunPhase, RedisTypeOK
  <1>2. Len(rstream) = published - OldestEvent
    BY <1>1 DEF RedisInv, Retains
  <1>3. PICK f \in Nat :
            f = IF OldestEvent + RetainedSize <= published THEN OldestEvent + 1 ELSE OldestEvent
    BY <1>1 DEF Retains
  <1>4. /\ rstream' \in Seq(Entry) /\ Retains(rstream', f, published')
        /\ Len(rstream') = published' - f
    BY <1>1, <1>2, <1>3, XaddEvent DEF RedisPublish
  <1>5. OldestEvent' = f
    BY <1>4, RetainedBegins DEF OldestEvent
  <1>6. RedisTypeOK'
    BY <1>1, <1>4 DEF RedisTypeOK
  <1>7. OldestEvent' \in Nat /\ OldestEvent <= OldestEvent'
    BY <1>1, <1>3, <1>5 DEF Retains
  <1>8. \A c \in RedisClients : InStep(c)'
    BY <1>1, <1>6, <1>7, ConsumersKept
  <1>9. ~(Len(rstream') > published' - OldestEvent')
    BY <1>1, <1>4, <1>5 DEF RedisTypeOK
  <1>10. RedisInv'
    BY <1>4, <1>5, <1>6, <1>8, <1>9 DEF RedisInv
  <1>11. RedisViews' = RedisViews /\ RunOver' = RunOver
    BY <1>1 DEF RedisViews, RedisView, RunOver
  <1> QED BY <1>1, <1>3, <1>5, <1>10, <1>11 DEF RedisLog!Emit

\* The end marker leaves what is retained.
LEMMA AddEndKeeps ==
    ASSUME RedisInv, AddEnd, ~RunOver, RunOver', run' \in RunPhase,
           UNCHANGED <<published, rclient>>
    PROVE  RedisInv' /\ OldestEvent' = OldestEvent
  <1>1. RedisTypeOK /\ Retains(rstream, OldestEvent, published)
    BY DEF RedisInv
  <1>2. Len(rstream) = published - OldestEvent
    BY DEF RedisInv, Retains
  <1>3. rstream' \in Seq(Entry) /\ Retains(rstream', OldestEvent, published')
    BY <1>1, <1>2, XaddEnd DEF AddEnd
  <1>4. OldestEvent' = OldestEvent
    BY <1>3, RetainedBegins DEF OldestEvent
  <1>5. RedisTypeOK'
    BY <1>1, <1>3 DEF RedisTypeOK
  <1>6. OldestEvent' \in Nat /\ OldestEvent <= OldestEvent'
    BY <1>1, <1>4 DEF Retains
  <1>7. \A c \in RedisClients : InStep(c)'
    BY <1>5, <1>6, ConsumersKept
  <1> QED BY <1>3, <1>4, <1>5, <1>7 DEF RedisInv

\* A step of the run that leaves its stream.
LEMMA StreamKept ==
    ASSUME RedisInv, UNCHANGED <<rstream, published, rclient>>, run' \in RunPhase,
           RunOver => RunOver'
    PROVE  RedisInv' /\ OldestEvent' = OldestEvent
  <1>1. RedisTypeOK /\ Retains(rstream, OldestEvent, published)
    BY DEF RedisInv
  <1>2. OldestEvent' = OldestEvent
    BY DEF OldestEvent
  <1>3. RedisTypeOK'
    BY <1>1 DEF RedisTypeOK
  <1>4. OldestEvent' \in Nat /\ OldestEvent <= OldestEvent'
    BY <1>1, <1>2 DEF Retains
  <1>5. \A c \in RedisClients : InStep(c)'
    BY <1>3, <1>4, ConsumersKept
  <1> QED BY <1>1, <1>2, <1>3, <1>5 DEF RedisInv

\* The stream is deleted.
LEMMA StreamGone ==
    ASSUME RedisInv, rstream' = <<>>, UNCHANGED <<published, rclient>>, run' \in RunPhase,
           RunOver => RunOver'
    PROVE  RedisInv' /\ OldestEvent' = published
  <1>1. RedisTypeOK /\ Retains(rstream, OldestEvent, published) /\ published \in Nat
    BY DEF RedisInv, RedisTypeOK
  <1>2. OldestEvent' = published
    BY DEF OldestEvent
  <1>3. RedisTypeOK'
    BY <1>1 DEF RedisTypeOK
  <1>4. OldestEvent' \in Nat /\ OldestEvent <= OldestEvent'
    BY <1>1, <1>2 DEF Retains
  <1>5. \A c \in RedisClients : InStep(c)'
    BY <1>3, <1>4, ConsumersKept
  <1>6. Retains(rstream', OldestEvent', published')
    BY <1>1, <1>2, EmptyRetains
  <1>7. ~(Len(rstream') > published' - OldestEvent')
    BY <1>1, <1>2
  <1> QED BY <1>2, <1>3, <1>5, <1>6, <1>7 DEF RedisInv

\* The log does not see a step that leaves what it is made of.
LEMMA RedisUnseen ==
    ASSUME published' = published, OldestEvent' = OldestEvent, RunOver' = RunOver,
           RedisViews' = RedisViews
    PROVE  UNCHANGED RedisLog!logVars
  BY DEF RedisLog!logVars

\* Every step of the run and of Redis is one of the log's, or none.
LEMMA ProducerImplements ==
    ASSUME RedisInv,
           \/ RedisPublish \/ PublishFails \/ RunEnds \/ RunCrashes \/ Expire
           \/ \E succeeds \in BOOLEAN :
                \/ RedisPublishEnd(succeeds) \/ RedisCleanup(succeeds)
                \/ \E probed \in BOOLEAN : Recover(probed, succeeds)
    PROVE  RedisInv' /\ [RedisLog!Next]_(RedisLog!logVars)
  <1>0. run \in RunPhase /\ RunOver \in BOOLEAN /\ RunOver' \in BOOLEAN
    BY DEF RedisInv, RedisTypeOK, RunOver
  <1>1. ASSUME UNCHANGED rclient PROVE RedisViews' = RedisViews
    BY <1>1 DEF RedisViews, RedisView
  <1>2. CASE RedisPublish
    BY <1>2, RedisPublishEmits DEF RedisLog!Next
  <1>3. CASE PublishFails \/ RunEnds \/ RunCrashes
    <2>1. /\ UNCHANGED <<rstream, published, rclient>> /\ run' \in RunPhase
          /\ RunOver' = RunOver
      BY <1>3 DEF PublishFails, RunEnds, RunCrashes, RunOver, RunPhase
    <2>2. RedisInv' /\ OldestEvent' = OldestEvent
      BY <2>1, StreamKept
    <2> QED BY <1>1, <2>1, <2>2, RedisUnseen
  <1>4. CASE Expire
    <2>1. /\ rstream' = <<>> /\ UNCHANGED <<published, rclient>> /\ run' \in RunPhase
          /\ RunOver' = RunOver
      BY <1>0, <1>4 DEF Expire, RunOver
    <2>2. RedisInv' /\ OldestEvent' = published
      BY <2>1, StreamGone
    <2> QED BY <1>1, <2>1, <2>2 DEF RedisLog!Next, RedisLog!Forget
  <1>5. ASSUME RunOver' = TRUE, ~RunOver, UNCHANGED <<published, rclient>>, run' \in RunPhase,
               AddEnd \/ UNCHANGED rstream
        PROVE  RedisInv' /\ RedisLog!Next
    <2>1. RedisInv' /\ OldestEvent' = OldestEvent
      BY <1>5, AddEndKeeps, StreamKept
    <2> QED BY <1>1, <1>5, <2>1 DEF RedisLog!Next, RedisLog!End
  <1>6. ASSUME NEW succeeds \in BOOLEAN, RedisPublishEnd(succeeds)
        PROVE  RedisInv' /\ RedisLog!Next
    <2>1. /\ RunOver' = TRUE /\ ~RunOver /\ UNCHANGED <<published, rclient>> /\ run' \in RunPhase
          /\ AddEnd \/ UNCHANGED rstream
      BY <1>6 DEF RedisPublishEnd, RunOver, RunPhase
    <2> QED BY <1>5, <2>1
  <1>7. ASSUME NEW succeeds \in BOOLEAN, NEW probed \in BOOLEAN, Recover(probed, succeeds)
        PROVE  RedisInv' /\ RedisLog!Next
    <2>1. /\ RunOver' = TRUE /\ ~RunOver /\ UNCHANGED <<published, rclient>> /\ run' \in RunPhase
          /\ AddEnd \/ UNCHANGED rstream
      BY <1>7 DEF Recover, RunOver, RunPhase
    <2> QED BY <1>5, <2>1
  <1>8. ASSUME NEW succeeds \in BOOLEAN, RedisCleanup(succeeds)
        PROVE  RedisInv' /\ [RedisLog!Next]_(RedisLog!logVars)
    <2>1. /\ rstream' = <<>> \/ UNCHANGED rstream
          /\ UNCHANGED <<published, rclient>> /\ run' \in RunPhase
          /\ RunOver = TRUE /\ RunOver' = TRUE
      BY <1>8 DEF RedisCleanup, RunOver, RunPhase
    <2>2. CASE rstream' = <<>>
      <3>1. RedisInv' /\ OldestEvent' = published
        BY <2>1, <2>2, StreamGone
      <3> QED BY <1>1, <2>1, <3>1 DEF RedisLog!Next, RedisLog!Forget
    <2>3. CASE UNCHANGED rstream
      <3>1. RedisInv' /\ OldestEvent' = OldestEvent
        BY <2>1, <2>3, StreamKept
      <3> QED BY <1>1, <2>1, <3>1, RedisUnseen
    <2> QED BY <2>1, <2>2, <2>3
  <1> QED BY <1>2, <1>3, <1>4, <1>6, <1>7, <1>8

\* A consumer's step leaves the stream and the other consumers.
LEMMA OneConsumer ==
    ASSUME RedisInv, NEW c \in RedisClients, NEW r \in RedisClient,
           rclient' = [rclient EXCEPT ![c] = r], UNCHANGED <<rstream, published, run>>
    PROVE  /\ RedisTypeOK' /\ rclient'[c] = r
           /\ OldestEvent' = OldestEvent /\ OldestEvent \in 0..published
           /\ RunOver' = RunOver /\ published \in Nat
           /\ RedisViews' = [RedisViews EXCEPT ![c] = RedisView(c)']
           /\ RedisViews[c] = RedisView(c)
           /\ InStep(c)' => RedisInv'
  <1>1. RedisTypeOK /\ Retains(rstream, OldestEvent, published)
    BY DEF RedisInv
  <1>2. /\ rclient' \in [RedisClients -> RedisClient] /\ rclient'[c] = r
        /\ \A d \in RedisClients \ {c} : rclient'[d] = rclient[d]
    BY <1>1 DEF RedisTypeOK
  <1>3. RedisTypeOK'
    BY <1>1, <1>2 DEF RedisTypeOK
  <1>4. /\ OldestEvent' = OldestEvent /\ RunOver' = RunOver
        /\ published \in Nat /\ OldestEvent \in 0..published
    BY <1>1 DEF OldestEvent, RunOver, Retains
  <1>5. RedisViews' = [RedisViews EXCEPT ![c] = RedisView(c)']
    BY <1>2 DEF RedisViews, RedisView
  <1>6. ASSUME NEW d \in RedisClients \ {c} PROVE InStep(d)'
    BY <1>2, <1>4 DEF RedisInv, InStep
  <1>7. ASSUME InStep(c)' PROVE RedisInv'
    BY <1>1, <1>3, <1>4, <1>6, <1>7 DEF RedisInv
  <1> QED BY <1>2, <1>3, <1>4, <1>5, <1>7 DEF RedisViews

\* Connecting, or coming back, is seen by the log only as leaving.
LEMMA RedisJoinImplements ==
    ASSUME RedisInv, NEW c \in RedisClients, NEW header \in {NoEvent, rclient[c].last},
           NEW foreign \in BOOLEAN, NEW here \in BOOLEAN, RedisJoin(c, header, foreign, here)
    PROVE  RedisInv' /\ RedisLog!Leave(c)
  <1>1. rclient[c] \in RedisClient
    BY DEF RedisInv, RedisTypeOK
  <1>2. PICK rec \in {"shared", "final", "active"} :
            rec = IF here THEN "shared" ELSE IF StatusFinal THEN "final" ELSE "active"
    OBVIOUS
  <1>3. PICK r : /\ r = [rclient[c] EXCEPT !.at = "open", !.from = header, !.foreign = foreign,
                                           !.errors = 0, !.record = rec]
                 /\ rclient' = [rclient EXCEPT ![c] = r]
    BY <1>2 DEF RedisJoin
  <1>4. header \in Int
    BY <1>1 DEF RedisClient, NoEvent
  <1>5. r \in RedisClient /\ r.at = "open" /\ r.from = header /\ r.last = rclient[c].last
    <2>1. PICK h \in Int, z \in 0..MaxRetries : h = header /\ z = 0
      BY <1>4, RedisAssumption
    <2>2. r = [rclient[c] EXCEPT !.at = "open", !.from = h, !.foreign = foreign,
                                 !.errors = z, !.record = rec]
      BY <1>3, <2>1
    <2>3. r \in RedisClient
      BY <1>1, <2>2, Zenon DEF RedisClient
    <2> QED BY <1>1, <2>1, <2>2, <2>3 DEF RedisClient
  <1>6. /\ rclient'[c] = r /\ UNCHANGED published
        /\ OldestEvent' = OldestEvent /\ RunOver' = RunOver
        /\ RedisViews' = [RedisViews EXCEPT ![c] = RedisView(c)'] /\ RedisViews[c] = RedisView(c)
        /\ InStep(c)' => RedisInv'
    BY <1>3, <1>5, OneConsumer DEF RedisJoin
  <1>7. InStep(c)'
    BY <1>5, <1>6 DEF InStep
  <1>8. RedisView(c)' = [RedisView(c) EXCEPT !.at = "away"]
    BY <1>5, <1>6 DEF RedisView
  <1>9. RedisViews' = [RedisViews EXCEPT ![c].at = "away"]
    BY <1>6, <1>8
  <1> QED BY <1>6, <1>7, <1>9 DEF RedisLog!Leave

\* A consumer of a run that is final and whose stream is gone is turned away.
LEMMA AnsweredImplements ==
    ASSUME RedisInv, NEW c \in RedisClients, AnsweredAtOnce(c)
    PROVE  RedisInv' /\ RedisLog!TurnAway(c)
  <1>1. rclient[c] \in RedisClient
    BY DEF RedisInv, RedisTypeOK
  <1>2. PICK r : r = [rclient[c] EXCEPT !.at = "ended"] /\ rclient' = [rclient EXCEPT ![c] = r]
    BY DEF AnsweredAtOnce
  <1>3. r \in RedisClient /\ r.at = "ended" /\ r.last = rclient[c].last
    BY <1>1, <1>2 DEF RedisClient
  <1>4. /\ rclient'[c] = r /\ UNCHANGED published
        /\ OldestEvent' = OldestEvent /\ RunOver' = RunOver
        /\ RedisViews' = [RedisViews EXCEPT ![c] = RedisView(c)'] /\ RedisViews[c] = RedisView(c)
        /\ InStep(c)' => RedisInv'
    BY <1>2, <1>3, OneConsumer DEF AnsweredAtOnce
  <1>5. InStep(c)'
    BY <1>3, <1>4 DEF InStep
  <1>6. RedisView(c)' = [RedisView(c) EXCEPT !.at = "done"] /\ RedisView(c).at = "away"
    BY <1>3, <1>4 DEF RedisView, AnsweredAtOnce
  <1>7. RedisViews' = [RedisViews EXCEPT ![c].at = "done"] /\ RedisViews[c].at # "done"
    BY <1>4, <1>6
  <1>8. OldestEvent = published
    BY DEF AnsweredAtOnce, OldestEvent
  <1> QED BY <1>4, <1>5, <1>7, <1>8 DEF RedisLog!TurnAway

\* A consumer's generator begins after the event its client got last, at the
\* beginning, or after the newest event.
LEMMA RedisResolveImplements ==
    ASSUME RedisInv, NEW c \in RedisClients, RedisResolve(c)
    PROVE  /\ RedisInv'
           /\ \E last \in {-1, RedisViews[c].last, published - 1} : RedisLog!Subscribe(c, last)
  <1>1. rclient[c] \in RedisClient /\ InStep(c) /\ rclient[c].at = "open"
    BY DEF RedisInv, RedisTypeOK, RedisResolve
  <1>2. /\ RedisTypeOK /\ Retains(rstream, OldestEvent, published) /\ published \in Nat
        /\ OldestEvent \in Nat
    BY DEF RedisInv, Retains
  <1>3. PICK start :
          /\ start = IF ~rclient[c].foreign THEN rclient[c].from
                     ELSE IF rstream = <<>> THEN NoEvent ELSE ForeignStart
          /\ rclient' = [rclient EXCEPT ![c].at = "read", ![c].from = start, ![c].last = start]
    BY DEF RedisResolve
  <1>4. start \in {-1, rclient[c].last, published - 1} /\ start \in Int
    <2>1. ASSUME rstream # <<>>, ~Newest.end PROVE Newest.id = published - 1
      <3>1. PICK n \in Nat : n = Len(rstream) /\ n # 0
        BY <1>2, <2>1, EmptySeq DEF RedisTypeOK
      <3>2. PICK g \in Nat, p \in Nat :
              /\ g = OldestEvent /\ p = published /\ (n = p - g \/ n = (p - g) + 1)
              /\ rstream[n].id = g + n - 1 /\ (rstream[n].end <=> n = (p - g) + 1)
        BY <1>2, <3>1 DEF Retains
      <3>3. n = p - g
        BY <2>1, <3>1, <3>2 DEF Newest
      <3> QED BY <3>1, <3>2, <3>3 DEF Newest
    <2>2. rclient[c].from \in {-1, rclient[c].last}
      BY <1>1 DEF InStep, NoEvent
    <2>3. start \in {-1, rclient[c].last, published - 1}
      BY <1>3, <2>1, <2>2 DEF ForeignStart, NoEvent
    <2> QED BY <1>1, <1>2, <2>3 DEF RedisClient
  <1>5. PICK r : /\ r = [rclient[c] EXCEPT !.at = "read", !.from = start, !.last = start]
                 /\ rclient' = [rclient EXCEPT ![c] = r]
    BY <1>2, <1>3 DEF RedisTypeOK
  <1>6. r \in RedisClient /\ r.at = "read" /\ r.last = start /\ r.from = start
    BY <1>1, <1>4, <1>5 DEF RedisClient
  <1>7. /\ rclient'[c] = r /\ UNCHANGED published
        /\ OldestEvent' = OldestEvent /\ RunOver' = RunOver
        /\ RedisViews' = [RedisViews EXCEPT ![c] = RedisView(c)'] /\ RedisViews[c] = RedisView(c)
        /\ InStep(c)' => RedisInv'
    BY <1>5, <1>6, OneConsumer DEF RedisResolve
  <1>8. InStep(c)'
    BY <1>6, <1>7 DEF InStep
  <1>9. /\ RedisView(c)' = [at |-> "reading", last |-> start]
        /\ RedisViews[c].at = "away" /\ RedisViews[c].last = rclient[c].last
    BY <1>1, <1>6, <1>7 DEF RedisView
  <1>10. RedisLog!Subscribe(c, start)
    BY <1>7, <1>9 DEF RedisLog!Subscribe
  <1> QED BY <1>4, <1>7, <1>8, <1>9, <1>10

\* What XREAD returns is not yet seen.
LEMMA XreadImplements ==
    ASSUME RedisInv, NEW c \in RedisClients, Xread(c)
    PROVE  RedisInv' /\ UNCHANGED RedisLog!logVars
  <1>1. rclient[c] \in RedisClient /\ InStep(c) /\ rclient[c].at = "read"
    BY DEF RedisInv, RedisTypeOK, Xread
  <1>2. /\ RedisTypeOK /\ Retains(rstream, OldestEvent, published) /\ published \in Nat
        /\ OldestEvent \in Nat
    BY DEF RedisInv, Retains
  <1>3. PICK l \in Int : l = rclient[c].last /\ l = rclient[c].from
    BY <1>1 DEF InStep, RedisClient
  <1>4. PICK s \in Seq(Entry) : s = After(l) /\ s # <<>>
    BY <1>2, <1>3, AfterProperties DEF Xread
  <1>5. PICK n \in Nat : n = Len(s) /\ n > 0
    BY <1>4, EmptySeq
  <1>6. /\ s[1].id > l /\ (s[1].id = l + 1 \/ s[1].id = OldestEvent)
        /\ \A i \in 1..n : /\ s[i].id = s[1].id + i - 1 /\ s[i].id <= published
                           /\ s[i].end <=> s[i].id = published
                           /\ s[i].end => Len(rstream) > published - OldestEvent
    <2>1. Len(After(l)) > 0
      BY <1>4, <1>5
    <2>2. /\ After(l)[1].id > l /\ (After(l)[1].id = l + 1 \/ After(l)[1].id = OldestEvent)
          /\ \A i \in 1..Len(After(l)) :
                /\ After(l)[i].id = After(l)[1].id + i - 1 /\ After(l)[i].id <= published
                /\ After(l)[i].end <=> After(l)[i].id = published
                /\ After(l)[i].end => Len(rstream) > published - OldestEvent
      BY <1>2, <2>1, AfterProperties, Zenon
    <2> QED BY <1>4, <1>5, <2>2
  <1>7. PICK m \in 1..n : m = IF Len(s) > ReadCount THEN ReadCount ELSE Len(s)
    BY <1>5, RedisAssumption
  <1>8. PICK b \in Seq(Entry) : /\ b = SubSeq(s, 1, m) /\ Len(b) = m
                                /\ \A i \in 1..m : b[i] = s[i]
    <2>1. \A i \in 1..m : i \in 1..n
      OBVIOUS
    <2>2. 1 \in Int /\ m \in Int /\ \A i \in 1..m : s[i] \in Entry
      BY <1>5, <2>1, ElementOfSeq
    <2>3. /\ SubSeq(s, 1, m) \in Seq(Entry)
          /\ Len(SubSeq(s, 1, m)) = IF 1 <= m THEN m - 1 + 1 ELSE 0
          /\ \A i \in 1..(m - 1 + 1) : SubSeq(s, 1, m)[i] = s[1 + i - 1]
      BY <2>2, SubSeqProperties
    <2>4. ASSUME NEW i \in 1..m PROVE SubSeq(s, 1, m)[i] = s[i]
      <3>1. i \in 1..(m - 1 + 1) /\ 1 + i - 1 = i
        OBVIOUS
      <3> QED BY <2>3, <3>1
    <2>5. Len(SubSeq(s, 1, m)) = m
      BY <2>3
    <2> QED BY <2>3, <2>4, <2>5
  <1>9. PICK r : /\ r = [rclient[c] EXCEPT !.at = "batch", !.errors = 0, !.batch = b]
                 /\ rclient' = [rclient EXCEPT ![c] = r]
    <2>1. rclient' = [rclient EXCEPT ![c].at = "batch", ![c].errors = 0, ![c].batch = b]
      BY <1>3, <1>4, <1>7, <1>8 DEF Xread
    <2> QED BY <1>2, <2>1 DEF RedisTypeOK
  <1>10. /\ r \in RedisClient /\ r.at = "batch" /\ r.batch = b /\ r.last = l /\ r.from = l
    <2>1. PICK z \in 0..MaxRetries : z = 0
      BY RedisAssumption
    <2>2. r = [rclient[c] EXCEPT !.at = "batch", !.errors = z, !.batch = b]
      BY <1>9, <2>1
    <2>3. r \in RedisClient
      BY <1>1, <2>2 DEF RedisClient
    <2> QED BY <1>1, <1>3, <2>2, <2>3 DEF RedisClient
  <1>11. /\ rclient'[c] = r /\ UNCHANGED published
         /\ OldestEvent' = OldestEvent /\ RunOver' = RunOver
         /\ RedisViews' = [RedisViews EXCEPT ![c] = RedisView(c)'] /\ RedisViews[c] = RedisView(c)
         /\ InStep(c)' => RedisInv'
    BY <1>9, <1>10, OneConsumer DEF Xread
  <1>12. Len(rstream) > published - OldestEvent => RunOver
    BY DEF RedisInv
  <1>13. /\ Len(b) > 0 /\ b[1].id > l /\ (b[1].id = l + 1 \/ b[1].id <= OldestEvent)
    <2>1. b[1] = s[1] /\ Len(b) > 0
      BY <1>8
    <2>2. s[1] \in Entry
      BY <1>5, ElementOfSeq
    <2>3. s[1].id \in Nat
      BY <2>2 DEF Entry
    <2> QED BY <1>2, <1>6, <2>1, <2>3
  <1>14. ASSUME NEW i \in 1..Len(b)
         PROVE  /\ b[i].id = b[1].id + i - 1 /\ b[i].id <= published
                /\ b[i].end => RunOver
                /\ b[i].end <=> b[i].id = published
    <2>1. i \in 1..m /\ i \in 1..n /\ b[i] = s[i] /\ b[1] = s[1]
      BY <1>8
    <2> QED BY <1>6, <1>12, <2>1
  <1>15. InStep(c)'
    BY <1>10, <1>11, <1>13, <1>14 DEF InStep
  <1>16. RedisView(c)' = RedisView(c)
    BY <1>1, <1>3, <1>10, <1>11 DEF RedisView
  <1>17. RedisViews' = RedisViews
    BY <1>11, <1>16 DEF RedisViews
  <1> QED BY <1>11, <1>15, <1>17, RedisUnseen

\* A read that fails or finds nothing ends the consumer, or is not seen.
LEMMA NoReadImplements ==
    ASSUME RedisInv, NEW c \in RedisClients, XreadNothing(c) \/ XreadFails(c)
    PROVE  /\ RedisInv'
           /\ UNCHANGED RedisLog!logVars \/ RedisLog!TurnAway(c) \/ RedisLog!Leave(c)
  <1>1. rclient[c] \in RedisClient /\ InStep(c) /\ rclient[c].at = "read" /\ RedisTypeOK
    BY DEF RedisInv, RedisTypeOK, XreadNothing, XreadFails
  <1>2. PICK at \in {"read", "ended", "off"}, n \in 0..MaxRetries :
          /\ rclient' = [rclient EXCEPT ![c] = [rclient[c] EXCEPT !.at = at, !.errors = n]]
          /\ at = "ended" => rstream = <<>>
    <2>1. CASE XreadNothing(c)
      <3>1. PICK at \in {"read", "ended"} :
              /\ at = IF RecordFinal(c) /\ rstream = <<>> THEN "ended" ELSE "read"
              /\ rclient' = [rclient EXCEPT ![c].errors = 0, ![c].at = at]
        BY <2>1 DEF XreadNothing
      <3>2. rclient' = [rclient EXCEPT ![c] = [rclient[c] EXCEPT !.at = at, !.errors = 0]]
        BY <1>1, <3>1 DEF RedisTypeOK, RedisClient
      <3>3. at = "ended" => rstream = <<>>
        BY <3>1
      <3>4. PICK n \in 0..MaxRetries : n = 0
        BY RedisAssumption
      <3> QED BY <3>2, <3>3, <3>4
    <2>2. CASE XreadFails(c) /\ rclient[c].errors = MaxRetries
      <3>1. rclient' = [rclient EXCEPT ![c] = [rclient[c] EXCEPT !.at = "off"]]
        BY <2>2 DEF XreadFails
      <3>2. PICK n \in 0..MaxRetries : n = rclient[c].errors
        BY <1>1 DEF RedisClient
      <3>3. [rclient[c] EXCEPT !.at = "off"] = [rclient[c] EXCEPT !.at = "off", !.errors = n]
        BY <1>1, <3>2 DEF RedisClient
      <3> QED BY <3>1, <3>3
    <2>3. CASE XreadFails(c) /\ rclient[c].errors # MaxRetries
      <3>1. rclient' = [rclient EXCEPT ![c] = [rclient[c] EXCEPT !.errors = rclient[c].errors + 1]]
        BY <2>3 DEF XreadFails
      <3>2. PICK n \in 0..MaxRetries : n = rclient[c].errors + 1
        BY <1>1, <2>3, RedisAssumption DEF RedisClient
      <3>3. [rclient[c] EXCEPT !.errors = n] = [rclient[c] EXCEPT !.at = "read", !.errors = n]
        BY <1>1 DEF RedisClient
      <3> QED BY <3>1, <3>2, <3>3
    <2> QED BY <2>1, <2>2, <2>3
  <1>3. PICK r : r = [rclient[c] EXCEPT !.at = at, !.errors = n]
    OBVIOUS
  <1>4. r \in RedisClient /\ r.at = at /\ r.last = rclient[c].last /\ r.from = rclient[c].last
    BY <1>1, <1>3 DEF RedisClient, InStep
  <1>5. /\ rclient'[c] = r /\ UNCHANGED published
        /\ OldestEvent' = OldestEvent /\ RunOver' = RunOver
        /\ RedisViews' = [RedisViews EXCEPT ![c] = RedisView(c)'] /\ RedisViews[c] = RedisView(c)
        /\ InStep(c)' => RedisInv'
    BY <1>2, <1>3, <1>4, OneConsumer DEF XreadNothing, XreadFails
  <1>6. InStep(c)'
    BY <1>4, <1>5 DEF InStep
  <1>7. CASE at = "read"
    <2>1. RedisView(c)' = RedisView(c)
      BY <1>1, <1>4, <1>5, <1>7 DEF RedisView
    <2>2. RedisViews' = RedisViews
      BY <1>5, <2>1 DEF RedisViews
    <2> QED BY <1>5, <1>6, <2>2, RedisUnseen
  <1>8. CASE at = "ended"
    <2>1. RedisView(c)' = [RedisView(c) EXCEPT !.at = "done"] /\ RedisView(c).at = "reading"
      BY <1>1, <1>4, <1>5, <1>8 DEF RedisView
    <2>2. RedisViews' = [RedisViews EXCEPT ![c].at = "done"] /\ RedisViews[c].at # "done"
      BY <1>5, <2>1
    <2>3. OldestEvent = published
      BY <1>2, <1>8 DEF OldestEvent
    <2> QED BY <1>5, <1>6, <2>2, <2>3 DEF RedisLog!TurnAway
  <1>9. CASE at = "off"
    <2>1. RedisView(c)' = [RedisView(c) EXCEPT !.at = "away"]
      BY <1>4, <1>5, <1>9 DEF RedisView
    <2>2. RedisViews' = [RedisViews EXCEPT ![c].at = "away"]
      BY <1>5, <2>1
    <2> QED BY <1>5, <1>6, <2>2 DEF RedisLog!Leave
  <1> QED BY <1>7, <1>8, <1>9

\* An event of the batch is the next one or one that was the oldest retained;
\* the end marker comes after the last event, or when none is retained.
LEMMA YieldImplements ==
    ASSUME RedisInv, NEW c \in RedisClients, Yield(c)
    PROVE  /\ RedisInv'
           /\ \/ \E e \in 0..(published - 1) : RedisLog!Deliver(c, e)
              \/ RedisLog!Finish(c) \/ RedisLog!TurnAway(c)
  <1>1. rclient[c] \in RedisClient /\ InStep(c) /\ rclient[c].at = "batch" /\ RedisTypeOK
    BY DEF RedisInv, RedisTypeOK, Yield
  <1>2. PICK l \in Int, b \in Seq(Entry) : l = rclient[c].last /\ b = rclient[c].batch
    BY <1>1 DEF RedisClient
  <1>3. PICK n \in Nat : n = Len(b) /\ n > 0
    BY <1>1, <1>2 DEF InStep
  <1>4. /\ b[1].id > l /\ (b[1].id = l + 1 \/ b[1].id <= OldestEvent)
        /\ \A i \in 1..n : /\ b[i].id = b[1].id + i - 1 /\ b[i].id <= published
                           /\ b[i].end => RunOver
                           /\ b[i].end <=> b[i].id = published
    BY <1>1, <1>2, <1>3 DEF InStep
  <1>5. \A i \in 1..n : b[i] \in Entry
    BY <1>3, ElementOfSeq
  <1>6. PICK e \in Nat : e = b[1].id
    BY <1>3, <1>5, 1 \in 1..n DEF Entry
  <1>7. PICK t \in Seq(Entry) : /\ t = Tail(b) /\ Len(t) = n - 1
                                /\ \A i \in 1..(n - 1) : t[i] = b[i + 1]
    <2>1. b # <<>>
      BY <1>3
    <2>2. PICK t \in Seq(Entry) : t = Tail(b)
      BY <2>1, RangeTail, Zenon
    <2>3. Len(t) = n - 1 /\ \A i \in 1..Len(t) : t[i] = b[i + 1]
      BY <1>3, <2>1, <2>2, RangeTail
    <2> QED BY <2>2, <2>3
  <1>8. Head(b) = b[1]
    BY <1>3, HeadTailProperties, EmptySeq
  <1>9. OldestEvent \in 0..published /\ published \in Nat
    BY DEF RedisInv, Retains
  <1>10. CASE b[1].end
    <2>0. PICK empty \in Seq(Entry) : empty = <<>>
      <3>1. <<>> \in Seq(Entry)
        OBVIOUS
      <3> QED BY <3>1
    <2>1. PICK r : /\ r = [rclient[c] EXCEPT !.at = "ended", !.batch = empty]
                   /\ rclient' = [rclient EXCEPT ![c] = r]
      BY <1>2, <1>8, <1>10, <2>0 DEF Yield
    <2>2. r \in RedisClient /\ r.at = "ended" /\ r.last = l
      BY <1>1, <1>2, <2>1 DEF RedisClient
    <2>3. /\ rclient'[c] = r /\ UNCHANGED published
          /\ OldestEvent' = OldestEvent /\ RunOver' = RunOver
          /\ RedisViews' = [RedisViews EXCEPT ![c] = RedisView(c)'] /\ RedisViews[c] = RedisView(c)
          /\ InStep(c)' => RedisInv'
      BY <2>1, <2>2, OneConsumer DEF Yield
    <2>4. InStep(c)'
      BY <2>2, <2>3 DEF InStep
    <2>5. /\ RedisView(c)' = [RedisView(c) EXCEPT !.at = "done"]
          /\ RedisView(c).at = "reading" /\ RedisView(c).last = l
      BY <1>1, <1>2, <2>2, <2>3 DEF RedisView
    <2>6. /\ RedisViews' = [RedisViews EXCEPT ![c].at = "done"]
          /\ RedisViews[c].at = "reading" /\ RedisViews[c].last = l
      BY <2>3, <2>5
    <2>7. RunOver /\ e = published
      BY <1>3, <1>4, <1>6, <1>10, 1 \in 1..n
    <2>8. CASE e = l + 1
      <3>1. l = published - 1
        BY <1>9, <2>7, <2>8
      <3>2. RedisLog!Finish(c)
        BY <2>3, <2>6, <2>7, <3>1 DEF RedisLog!Finish
      <3> QED BY <2>3, <2>4, <3>2
    <2>9. CASE e <= OldestEvent
      <3>1. OldestEvent = published
        BY <1>9, <2>7, <2>9
      <3>2. RedisLog!TurnAway(c)
        BY <2>3, <2>6, <3>1 DEF RedisLog!TurnAway
      <3> QED BY <2>3, <2>4, <3>2
    <2> QED BY <1>4, <1>6, <2>8, <2>9
  <1>11. CASE ~b[1].end
    <2>1. PICK at \in {"read", "batch"} : at = IF t = <<>> THEN "read" ELSE "batch"
      OBVIOUS
    <2>2. PICK r : /\ r = [rclient[c] EXCEPT !.from = e, !.last = e, !.batch = t, !.at = at]
                   /\ rclient' = [rclient EXCEPT ![c] = r]
      BY <1>2, <1>6, <1>7, <1>8, <1>11, <2>1 DEF Yield
    <2>3. /\ r \in RedisClient /\ r.at = at /\ r.last = e /\ r.from = e /\ r.batch = t
      <3>1. e \in Int
        OBVIOUS
      <3> QED BY <1>1, <2>2, <3>1 DEF RedisClient
    <2>4. /\ rclient'[c] = r /\ UNCHANGED published
          /\ OldestEvent' = OldestEvent /\ RunOver' = RunOver
          /\ RedisViews' = [RedisViews EXCEPT ![c] = RedisView(c)'] /\ RedisViews[c] = RedisView(c)
          /\ InStep(c)' => RedisInv'
      BY <2>2, <2>3, OneConsumer DEF Yield
    <2>5. ASSUME at = "batch"
          PROVE  /\ Len(t) > 0 /\ t[1].id > e /\ t[1].id = e + 1
                 /\ \A i \in 1..Len(t) : /\ t[i].id = t[1].id + i - 1 /\ t[i].id <= published
                                         /\ t[i].end => RunOver
                                         /\ t[i].end <=> t[i].id = published
      <3>1. Len(t) > 0 /\ n - 1 > 0
        BY <1>7, <2>1, <2>5, EmptySeq
      <3>2. t[1].id = e + 1
        <4>1. 1 \in 1..(n - 1) /\ 1 + 1 \in 1..n
          BY <3>1
        <4>2. t[1] = b[1 + 1] /\ b[1 + 1].id = b[1].id + (1 + 1) - 1
          BY <1>4, <1>7, <4>1
        <4> QED BY <1>6, <4>2
      <3>3. ASSUME NEW i \in 1..Len(t)
            PROVE  /\ t[i].id = t[1].id + i - 1 /\ t[i].id <= published
                   /\ t[i].end => RunOver
                   /\ t[i].end <=> t[i].id = published
        <4>1. i \in 1..(n - 1) /\ i + 1 \in 1..n /\ t[i] = b[i + 1]
          BY <1>7
        <4>2. b[i + 1].id = b[1].id + (i + 1) - 1
          BY <1>4, <4>1
        <4>3. t[i].id = t[1].id + i - 1
          <5>1. t[i].id = e + (i + 1) - 1
            BY <1>6, <4>1, <4>2
          <5>2. e + (i + 1) - 1 = (e + 1) + i - 1
            BY <4>1
          <5> QED BY <3>2, <5>1, <5>2
        <4> QED BY <1>4, <4>1, <4>3
      <3> QED BY <3>1, <3>2, <3>3
    <2>6. InStep(c)'
      BY <2>3, <2>4, <2>5 DEF InStep
    <2>7. /\ RedisView(c)' = [RedisView(c) EXCEPT !.last = e]
          /\ RedisView(c).at = "reading" /\ RedisView(c).last = l
      BY <1>1, <1>2, <2>3, <2>4 DEF RedisView
    <2>8. /\ RedisViews' = [RedisViews EXCEPT ![c].last = e]
          /\ RedisViews[c].at = "reading" /\ RedisViews[c].last = l
      BY <2>4, <2>7
    <2>9. l < e /\ e < published /\ (e = l + 1 \/ e <= OldestEvent)
      <3>1. e <= published /\ e # published
        BY <1>3, <1>4, <1>6, <1>11, 1 \in 1..n
      <3> QED BY <1>4, <1>6, <1>9, <3>1
    <2>10. e \in 0..(published - 1)
      BY <1>9, <2>9
    <2>11. RedisLog!Deliver(c, e)
      BY <2>4, <2>8, <2>9 DEF RedisLog!Deliver
    <2> QED BY <2>4, <2>6, <2>10, <2>11
  <1> QED BY <1>10, <1>11

\* A consumer that goes away leaves the log.
LEMMA RedisDisconnectImplements ==
    ASSUME RedisInv, NEW c \in RedisClients, RedisDisconnect(c)
    PROVE  RedisInv' /\ RedisLog!Leave(c)
  <1>0. PICK empty \in Seq(Entry) : empty = <<>>
    <2>1. <<>> \in Seq(Entry)
      OBVIOUS
    <2> QED BY <2>1
  <1>1. rclient[c] \in RedisClient /\ RedisTypeOK
    BY DEF RedisInv, RedisTypeOK
  <1>2. PICK r : /\ r = [rclient[c] EXCEPT !.at = "off", !.batch = empty]
                 /\ rclient' = [rclient EXCEPT ![c] = r]
    BY <1>0, <1>1 DEF RedisDisconnect, RedisTypeOK
  <1>3. r \in RedisClient /\ r.at = "off" /\ r.last = rclient[c].last
    BY <1>1, <1>2 DEF RedisClient
  <1>4. /\ rclient'[c] = r /\ UNCHANGED published
        /\ OldestEvent' = OldestEvent /\ RunOver' = RunOver
        /\ RedisViews' = [RedisViews EXCEPT ![c] = RedisView(c)'] /\ RedisViews[c] = RedisView(c)
        /\ InStep(c)' => RedisInv'
    BY <1>2, <1>3, OneConsumer DEF RedisDisconnect
  <1>5. InStep(c)'
    BY <1>3, <1>4 DEF InStep
  <1>6. RedisView(c)' = [RedisView(c) EXCEPT !.at = "away"]
    BY <1>3, <1>4 DEF RedisView
  <1>7. RedisViews' = [RedisViews EXCEPT ![c].at = "away"]
    BY <1>4, <1>6
  <1> QED BY <1>4, <1>5, <1>7 DEF RedisLog!Leave

\* Every step of the bridge on Redis keeps the invariant and is a step of the
\* log or none.
LEMMA RedisRefinement ==
    /\ RedisInit => RedisLog!Init
    /\ RedisInv /\ [RedisNext]_redisVars => RedisInv' /\ [RedisLog!Next]_(RedisLog!logVars)
  <1>1. ASSUME RedisInit PROVE RedisLog!Init
    <2>1. RedisViews = [c \in RedisClients |-> [at |-> "away", last |-> -1]]
      BY <1>1 DEF RedisInit, RedisViews, RedisView, NoEvent
    <2>2. OldestEvent = 0 /\ published = 0 /\ RunOver = FALSE
      BY <1>1 DEF RedisInit, OldestEvent, RunOver
    <2> QED BY <2>1, <2>2 DEF RedisLog!Init
  <1>2. ASSUME RedisInv, [RedisNext]_redisVars
        PROVE  RedisInv' /\ [RedisLog!Next]_(RedisLog!logVars)
    <2>1. CASE UNCHANGED redisVars
      <3>1. /\ UNCHANGED <<rstream, published, rclient>> /\ run' \in RunPhase
            /\ RunOver' = RunOver /\ RedisViews' = RedisViews
        BY <1>2, <2>1 DEF redisVars, RunOver, RedisViews, RedisView, RedisInv, RedisTypeOK
      <3> QED BY <1>2, <3>1, StreamKept, RedisUnseen
    <2>2. ASSUME NEW c \in RedisClients, NEW header \in {NoEvent, rclient[c].last},
                 NEW foreign \in BOOLEAN, NEW here \in BOOLEAN,
                 RedisJoin(c, header, foreign, here)
          PROVE  RedisInv' /\ RedisLog!Next
      BY <1>2, <2>2, RedisJoinImplements DEF RedisLog!Next
    <2>3. ASSUME NEW c \in RedisClients, AnsweredAtOnce(c) PROVE RedisInv' /\ RedisLog!Next
      BY <1>2, <2>3, AnsweredImplements DEF RedisLog!Next
    <2>4. ASSUME NEW c \in RedisClients, RedisResolve(c) PROVE RedisInv' /\ RedisLog!Next
      BY <1>2, <2>4, RedisResolveImplements DEF RedisLog!Next
    <2>5. ASSUME NEW c \in RedisClients, Xread(c)
          PROVE  RedisInv' /\ UNCHANGED RedisLog!logVars
      BY <1>2, <2>5, XreadImplements
    <2>6. ASSUME NEW c \in RedisClients, XreadNothing(c) \/ XreadFails(c)
          PROVE  RedisInv' /\ [RedisLog!Next]_(RedisLog!logVars)
      BY <1>2, <2>6, NoReadImplements DEF RedisLog!Next
    <2>7. ASSUME NEW c \in RedisClients, Yield(c) PROVE RedisInv' /\ RedisLog!Next
      BY <1>2, <2>7, YieldImplements DEF RedisLog!Next
    <2>8. ASSUME NEW c \in RedisClients, RedisDisconnect(c) PROVE RedisInv' /\ RedisLog!Next
      BY <1>2, <2>8, RedisDisconnectImplements DEF RedisLog!Next
    <2> QED
      BY <1>2, <2>1, <2>2, <2>3, <2>4, <2>5, <2>6, <2>7, <2>8, ProducerImplements DEF RedisNext
  <1> QED BY <1>1, <1>2

\* Whatever is trimmed, expires or is cleaned up under its consumers, and
\* whichever commands fail, RedisStreamBridge sends them what a reader of the
\* log may get next: it implements EventLog too.
THEOREM RedisImplementsLogHolds == RedisSpec => RedisImplementsLog
  <1>1. RedisSpec => [](RedisInv)
    BY RedisInitInv, RedisRefinement, PTL DEF RedisSpec
  <1> QED BY <1>1, RedisRefinement, PTL DEF RedisSpec, RedisImplementsLog, RedisLog!Spec

\* The state of the bridge on Redis is well formed in every state.
THEOREM RedisTypeCorrect == RedisSpec => []RedisTypeOK
  <1>1. RedisInv => RedisTypeOK
    BY DEF RedisInv
  <1> QED BY <1>1, RedisInitInv, RedisRefinement, PTL DEF RedisSpec
=============================================================================
