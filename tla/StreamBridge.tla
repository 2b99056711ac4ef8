---------------------------- MODULE StreamBridge ----------------------------
(***************************************************************************)
(* The event stream of one run, kept in memory for its SSE clients:        *)
(* MemoryStreamBridge (runtime/stream_bridge/memory.py), its producer, the *)
(* background task of the run, and its consumers (sse_consumer in          *)
(* app/gateway/services.py).                                               *)
(*                                                                         *)
(* An event is represented by the number in its id (ts-seq); the payload   *)
(* does not matter.  A consumer keeps a reference to the _RunStream object *)
(* it subscribed to, which cleanup takes out of the bridge's dictionary    *)
(* without telling anyone, so the objects are numbered and never go away.  *)
(***************************************************************************)
EXTENDS Integers, Sequences

CONSTANTS
    Clients,      \* consumers of the run's stream
    MaxSize,      \* queue_maxsize, the number of events retained
    MaxEvents     \* bound: events the run publishes

ASSUME BridgeAssumption == MaxSize \in Nat \ {0} /\ MaxEvents \in Nat

VARIABLES
    streams,   \* the _RunStream objects created for the run, oldest first
    current,   \* the one in self._streams, 0 if there is none
    counter,   \* self._counters: the number of the next event
    producer,  \* the run: running, ended (publish_end), cleaned (cleanup)
    client     \* each consumer and its subscribe() generator

vars == <<streams, current, counter, producer, client>>

\* Last-Event-ID: none, one this stream never issued, or a number.
NoId == -1
Foreign == -2
EventId == Nat \cup {NoId}

\* "joining" has the stream and waits for its lock, "loop" is about to look at
\* the stream, "wait" is inside condition.wait(), "ended" got END_SENTINEL.
ClientState == [at : {"off", "joining", "loop", "wait", "ended"},
                ref : Nat, next : Nat, header : {NoId, Foreign} \cup Nat,
                last : EventId]

RunStream == [events : Seq(Nat), start : Nat, ended : BOOLEAN]

\* Every variable has its type.
TypeOK ==
    /\ streams \in Seq(RunStream)
    /\ current \in 0..Len(streams)
    /\ counter \in Nat
    /\ producer \in {"running", "ended", "cleaned"}
    /\ client \in [Clients -> ClientState]

Init ==
    /\ streams = <<>>
    /\ current = 0
    /\ counter = 0
    /\ producer = "running"
    /\ client = [c \in Clients |-> [at |-> "off", ref |-> 0, next |-> 0,
                                    header |-> NoId, last |-> NoId]]

-----------------------------------------------------------------------------
(* The bridge. *)

NewStream == [events |-> <<>>, start |-> 0, ended |-> FALSE]

\* _get_or_create_stream: the objects afterwards; the run's is the last one.
GetOrCreate == IF current = 0 THEN Append(streams, NewStream) ELSE streams
Counter == IF current = 0 THEN 0 ELSE counter

\* Mutant: one event too many is retained.
AppendedLate(s, e) ==
    LET all == Append(s.events, e)
        overflow == IF Len(all) > MaxSize + 1 THEN Len(all) - MaxSize ELSE 0 IN
    [s EXCEPT !.events = SubSeq(all, overflow + 1, Len(all)), !.start = @ + overflow]

\* The append and the trimming of publish.
Appended(s, e) ==
    LET all == Append(s.events, e)
        overflow == IF Len(all) > MaxSize THEN Len(all) - MaxSize ELSE 0 IN
    [s EXCEPT !.events = SubSeq(all, overflow + 1, Len(all)), !.start = @ + overflow]

\* notify_all on the condition of stream g.
Notified(g) ==
    [c \in Clients |-> IF client[c].at = "wait" /\ client[c].ref = g
                         THEN [client[c] EXCEPT !.at = "loop"] ELSE client[c]]

\* publish; the number is taken before the lock, and a run has one producer.
Publish ==
    LET s == GetOrCreate
        g == Len(s) IN
    /\ producer = "running"
    /\ counter < MaxEvents
    /\ streams' = [s EXCEPT ![g] = Appended(@, Counter)]
    /\ current' = g
    /\ counter' = Counter + 1
    /\ client' = Notified(g)
    /\ UNCHANGED producer

\* Mutant: the end is not announced to the consumers that are waiting.
PublishEndSilent ==
    LET s == GetOrCreate
        g == Len(s) IN
    /\ producer = "running"
    /\ streams' = [s EXCEPT ![g].ended = TRUE]
    /\ current' = g
    /\ counter' = Counter
    /\ producer' = "ended"
    /\ UNCHANGED client

PublishEnd ==
    LET s == GetOrCreate
        g == Len(s) IN
    /\ producer = "running"
    /\ streams' = [s EXCEPT ![g].ended = TRUE]
    /\ current' = g
    /\ counter' = Counter
    /\ producer' = "ended"
    /\ client' = Notified(g)

\* cleanup, a minute after the end.
Cleanup ==
    /\ producer = "ended"
    /\ producer' = "cleaned"
    /\ current' = 0
    /\ UNCHANGED <<streams, counter, client>>

-----------------------------------------------------------------------------
(* The consumers. *)

\* Mutant: the event the id names is sent again.
ResolveInclusive(s, id) ==
    IF \E i \in 1..Len(s.events) : i = id - s.start + 1 /\ s.events[i] = id
      THEN id ELSE s.start

\* _resolve_start_offset: after the event with that id if it is retained where
\* its number says, else from the earliest retained event.
ResolveStartOffset(s, id) ==
    IF \E i \in 1..Len(s.events) : i = id - s.start + 1 /\ s.events[i] = id
      THEN id + 1 ELSE s.start

\* A request comes in, with the id the client saw last, or without one, or
\* with an id of something else; subscribe gets the stream ...
Join(c, header) ==
    LET s == GetOrCreate IN
    /\ client[c].at \in {"off", "ended"}
    /\ header \in {NoId, Foreign, client[c].last}
    /\ streams' = s
    /\ current' = Len(s)
    /\ counter' = Counter
    /\ client' = [client EXCEPT
         ![c] = [at |-> "joining", ref |-> Len(s), next |-> 0, header |-> header,
                 last |-> IF header = Foreign THEN NoId ELSE header]]
    /\ UNCHANGED producer

\* ... and, under its lock, the offset to begin at.
Resolve(c) ==
    LET s == streams[client[c].ref] IN
    /\ client[c].at = "joining"
    /\ client' = [client EXCEPT
         ![c].at = "loop", ![c].next = ResolveStartOffset(s, client[c].header)]
    /\ UNCHANGED <<streams, current, counter, producer>>

\* Mutant: a consumer that fell behind reads at its old offset.
CaughtUpNever(s, offset) == offset

\* A consumer that fell behind the window resumes at its start.
CaughtUp(s, offset) == IF offset < s.start THEN s.start ELSE offset

\* One turn of the loop in subscribe: an event, the end, or a wait.
Iterate(c) ==
    LET s == streams[client[c].ref]
        next == CaughtUp(s, client[c].next)
        i == next - s.start + 1 IN
    /\ client[c].at = "loop"
    /\ client' = [client EXCEPT ![c] =
         IF i \in 1..Len(s.events)
           THEN [@ EXCEPT !.next = next + 1, !.last = s.events[i]]
         ELSE [@ EXCEPT !.next = next, !.at = IF s.ended THEN "ended" ELSE "wait"]]
    /\ UNCHANGED <<streams, current, counter, producer>>

\* No event within heartbeat_interval: a heartbeat is sent and the loop goes
\* on.  (_terminal_record_stream_missing is never true of this bridge, which
\* has no stream_exists.)
Heartbeat(c) ==
    /\ client[c].at = "wait"
    /\ client' = [client EXCEPT ![c].at = "loop"]
    /\ UNCHANGED <<streams, current, counter, producer>>

\* The client goes away; it may come back.
Disconnect(c) ==
    /\ client[c].at \in {"joining", "loop", "wait"}
    /\ client' = [client EXCEPT ![c].at = "off"]
    /\ UNCHANGED <<streams, current, counter, producer>>

Next ==
    \/ Publish \/ PublishEnd \/ Cleanup
    \/ \E c \in Clients :
         \/ \E header \in {NoId, Foreign, client[c].last} : Join(c, header)
         \/ Resolve(c) \/ Iterate(c) \/ Heartbeat(c) \/ Disconnect(c)

Spec == Init /\ [][Next]_vars

\* The event loop runs the consumers' generators.  Heartbeat is not fair, so
\* that what holds does not depend on polling.
FairSpec ==
    /\ Spec
    /\ \A c \in Clients : WF_vars(Resolve(c)) /\ WF_vars(Iterate(c))

-----------------------------------------------------------------------------
(* Properties. *)

\* The number of an event is its absolute offset in the run, across all
\* evictions, which is what _resolve_start_offset's arithmetic rests on.
SeqIsOffset ==
    \A g \in 1..Len(streams) : \A i \in 1..Len(streams[g].events) :
        streams[g].events[i] = streams[g].start + i - 1

\* No more than queue_maxsize events are retained, and those are the newest.
WindowIsNewest ==
    \A g \in 1..Len(streams) :
        /\ Len(streams[g].events) <= MaxSize
        /\ g = current => streams[g].start + Len(streams[g].events) = counter

\* END_SENTINEL is never sent ahead of an event: a consumer that got it, with
\* however many reconnects, has been sent the run's last event.
EndComesLast ==
    \A c \in Clients :
        client[c].at = "ended" =>
            LET s == streams[client[c].ref] IN
            client[c].last = s.start + Len(s.events) - 1

\* A step of the loop that yields an event.
Delivers(c) == client[c].at = "loop" /\ client'[c].at = "loop" /\ client'[c] # client[c]

\* Also across reconnects with Last-Event-ID a consumer gets no event twice
\* and none out of order, and misses one only when it was evicted.
DeliveredInOrder ==
    [][\A c \in Clients :
         Delivers(c) /\ client[c].last # NoId
         => /\ client'[c].last > client[c].last
            /\ client'[c].last > client[c].last + 1
               => client'[c].last = streams[client[c].ref].start]_vars

\* No wake-up is lost: a consumer of the run's stream that stays gets the end,
\* without the help of heartbeats.
ConsumersEnd ==
    \A c \in Clients :
        (client[c].at \in {"joining", "loop", "wait"} /\ client[c].ref = 1
           /\ producer # "running")
        ~> (client[c].at \in {"ended", "off"})

\* The log this bridge keeps: the first stream object is the run's, those that
\* come after cleanup are empty, and a consumer of one of them reads nothing.
First == IF streams = <<>> THEN NewStream ELSE streams[1]

Log == INSTANCE EventLog WITH
    Readers <- Clients,
    Window <- MaxSize,
    emitted <- First.start + Len(First.events),
    oldest <- First.start,
    over <- producer # "running",
    reader <- [c \in Clients |->
        [at |-> CASE client[c].at = "off" -> "away"
                  [] client[c].at = "ended" -> "done"
                  [] OTHER -> "reading",
         last |-> client[c].last]]

\* The bridge implements the log: whatever the order of publishing, eviction,
\* cleanup, waiting, falling behind and reconnecting, what a consumer is sent
\* is what a reader of the log may get next.
ImplementsLog == Log!Spec
=============================================================================
