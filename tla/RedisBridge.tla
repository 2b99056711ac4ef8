----------------------------- MODULE RedisBridge -----------------------------
(***************************************************************************)
(* The event stream of one run in Redis: RedisStreamBridge                 *)
(* (runtime/stream_bridge/redis.py), the run that writes it, the gateway   *)
(* that ends it for a run it finds orphaned (deps.py), and its consumers   *)
(* (sse_consumer in services.py).                                          *)
(*                                                                         *)
(* Every command is one step and may fail.  Redis gives growing ids: an    *)
(* event's is its number, from 0, the end marker's the number after it;    *)
(* -1 is the id 0-0.                                                       *)
(***************************************************************************)
EXTENDS Integers, Sequences, FiniteSetsExt

CONSTANTS
    RedisClients,       \* consumers of the run's stream
    RetainedSize,       \* queue_maxsize
    ReadCount,          \* _XREAD_COUNT
    MaxRetries,         \* _MAX_SUBSCRIBE_RETRIES
    MaxPublished        \* bound: events the run publishes

ASSUME RedisAssumption ==
    /\ RetainedSize \in Nat \ {0} /\ ReadCount \in Nat \ {0}
    /\ MaxRetries \in Nat /\ MaxPublished \in Nat

VARIABLES
    rstream,    \* the Redis stream, oldest entry first; empty: no such key
    published,  \* events added so far
    run,        \* the run that writes the stream
    rclient     \* each consumer and its subscribe() generator

redisVars == <<rstream, published, run, rclient>>

NoEvent == -1
Entry == [id : Nat, end : BOOLEAN]

\* failing: the status is error, the error event is not yet published; over:
\* the status is final, publish_end is next; crashed: the process is gone.
RunPhase == {"running", "failing", "over", "ended", "cleaned", "lost", "crashed"}

\* record: shared with the run, or a copy of its row in another process, as old
\* as the request, with a status that is final or not.
RedisClient == [at : {"off", "open", "read", "batch", "ended"}, from : Int,
                foreign : BOOLEAN, errors : 0..MaxRetries, batch : Seq(Entry),
                last : Int, record : {"shared", "final", "active"}]

\* Every variable has its type.
RedisTypeOK ==
    /\ rstream \in Seq(Entry)
    /\ published \in 0..MaxPublished
    /\ run \in RunPhase
    /\ rclient \in [RedisClients -> RedisClient]

RedisInit ==
    /\ rstream = <<>> /\ published = 0 /\ run = "running"
    /\ rclient = [c \in RedisClients |->
        [at |-> "off", from |-> NoEvent, foreign |-> FALSE, errors |-> 0,
         batch |-> <<>>, last |-> NoEvent, record |-> "shared"]]

-----------------------------------------------------------------------------
(* The producer. *)

\* XADD with MAXLEN: the newest entries stay.
Xadd(entry, maxlen) ==
    LET all == Append(rstream, entry) IN
    SubSeq(all, IF Len(all) > maxlen THEN Len(all) - maxlen + 1 ELSE 1, Len(all))

\* publish, by the run or for its error event.
RedisPublish ==
    /\ run \in {"running", "failing"} /\ published < MaxPublished
    /\ rstream' = Xadd([id |-> published, end |-> FALSE], RetainedSize)
    /\ published' = published + 1
    /\ run' = IF run = "failing" THEN "over" ELSE run
    /\ UNCHANGED rclient

\* publish raises, as may anything else: the status becomes error; or it
\* raises for the error event itself.
PublishFails ==
    /\ run \in {"running", "failing"}
    /\ run' = IF run = "running" THEN "failing" ELSE "over"
    /\ UNCHANGED <<rstream, published, rclient>>

\* The run ends with another status.
RunEnds ==
    /\ run = "running" /\ run' = "over"
    /\ UNCHANGED <<rstream, published, rclient>>

\* Mutant: the end marker takes the place of an event.
EndRetention == RetainedSize

\* publish_end: the retained events and the marker.
EndMaxlen == RetainedSize + 1

AddEnd == rstream' = Xadd([id |-> published, end |-> TRUE], EndMaxlen)

\* It raises, or the process dies first: nobody will end or delete the stream.
RedisPublishEnd(succeeds) ==
    /\ run = "over"
    /\ IF succeeds THEN AddEnd /\ run' = "ended"
       ELSE UNCHANGED rstream /\ run' = "lost"
    /\ UNCHANGED <<published, rclient>>

\* cleanup, a minute after the end; it may not come to it.
RedisCleanup(succeeds) ==
    /\ run = "ended"
    /\ IF succeeds THEN rstream' = <<>> /\ run' = "cleaned"
       ELSE UNCHANGED rstream /\ run' = "lost"
    /\ UNCHANGED <<published, rclient>>

\* The process dies while the run's status is not final.
RunCrashes ==
    /\ run = "running" /\ run' = "crashed"
    /\ UNCHANGED <<rstream, published, rclient>>

\* _publish_recovered_run_stream_end, after the restart; the status is error.  A
\* stream that is gone is left so, if the probe for it works.
Recover(probed, succeeds) ==
    /\ run = "crashed"
    /\ IF succeeds /\ (rstream # <<>> \/ ~probed) THEN AddEnd /\ run' = "ended"
       ELSE UNCHANGED rstream /\ run' = "lost"
    /\ UNCHANGED <<published, rclient>>

\* stream_ttl_seconds without a command that adds an entry.
Expire ==
    /\ rstream # <<>> /\ rstream' = <<>>
    /\ UNCHANGED <<published, run, rclient>>

-----------------------------------------------------------------------------
(* The consumers. *)

Newest == rstream[Len(rstream)]

\* The run's status in its record, or in the row another process reads.
StatusFinal == run \notin {"running", "crashed"}

\* _run_is_terminal(record)
RecordFinal(c) ==
    \/ rclient[c].record = "final"
    \/ rclient[c].record = "shared" /\ StatusFinal

\* sse_consumer begins, here or in another process; with an id the client got,
\* without, or with one that is no id.
RedisJoin(c, header, foreign, here) ==
    /\ rclient[c].at \in {"off", "ended"}
    /\ header \in {NoEvent, rclient[c].last}
    /\ rclient' = [rclient EXCEPT ![c] =
         [@ EXCEPT !.at = "open", !.from = header, !.foreign = foreign, !.errors = 0,
                   !.record = IF here THEN "shared"
                              ELSE IF StatusFinal THEN "final" ELSE "active"]]
    /\ UNCHANGED <<rstream, published, run>>

\* _terminal_record_stream_missing before subscribe: a final run without a
\* stream is answered at once.
AnsweredAtOnce(c) ==
    /\ rclient[c].at = "open"
    /\ RecordFinal(c) /\ rstream = <<>>
    /\ rclient' = [rclient EXCEPT ![c].at = "ended"]
    /\ UNCHANGED <<rstream, published, run>>

\* Mutant: an unknown id begins after the newest entry, whatever it is.
ForeignStartTail == Newest.id

\* Where an id that is none begins: after the newest event, but at the
\* beginning of a stream that has ended.
ForeignStart == IF Newest.end THEN NoEvent ELSE Newest.id

\* _resolve_start_stream_id.
RedisResolve(c) ==
    LET start == IF ~rclient[c].foreign THEN rclient[c].from
                 ELSE IF rstream = <<>> THEN NoEvent ELSE ForeignStart IN
    /\ rclient[c].at = "open"
    /\ rclient' = [rclient EXCEPT ![c].at = "read", ![c].from = start, ![c].last = start]
    /\ UNCHANGED <<rstream, published, run>>

\* The entries from the first one with a greater id on, as ids grow.
After(id) ==
    LET later == {i \in DOMAIN rstream : rstream[i].id > id} IN
    IF later = {} THEN <<>> ELSE SubSeq(rstream, Min(later), Len(rstream))

\* XREAD returns the first entries after the id, ...
Xread(c) ==
    LET found == After(rclient[c].from) IN
    /\ rclient[c].at = "read" /\ found # <<>>
    /\ rclient' = [rclient EXCEPT ![c].at = "batch", ![c].errors = 0,
          ![c].batch = SubSeq(found, 1, IF Len(found) > ReadCount THEN ReadCount ELSE Len(found))]
    /\ UNCHANGED <<rstream, published, run>>

\* ... or nothing in time: a heartbeat, which ends the stream of a final run
\* whose stream is gone.
XreadNothing(c) ==
    /\ rclient[c].at = "read" /\ After(rclient[c].from) = <<>>
    /\ rclient' = [rclient EXCEPT ![c].errors = 0,
          ![c].at = IF RecordFinal(c) /\ rstream = <<>> THEN "ended" ELSE "read"]
    /\ UNCHANGED <<rstream, published, run>>

\* A transient error; one too many in a row ends the generator.
XreadFails(c) ==
    /\ rclient[c].at = "read"
    /\ rclient' = [rclient EXCEPT ![c] =
          IF @.errors = MaxRetries THEN [@ EXCEPT !.at = "off"]
          ELSE [@ EXCEPT !.errors = rclient[c].errors + 1]]
    /\ UNCHANGED <<rstream, published, run>>

\* The next entry of the batch; the end marker ends it.
Yield(c) ==
    LET entry == Head(rclient[c].batch)
        rest == Tail(rclient[c].batch)
    IN
    /\ rclient[c].at = "batch"
    /\ rclient' = [rclient EXCEPT ![c] =
         IF entry.end THEN [@ EXCEPT !.at = "ended", !.batch = <<>>]
         ELSE [@ EXCEPT !.from = entry.id, !.last = entry.id, !.batch = rest,
                        !.at = IF rest = <<>> THEN "read" ELSE "batch"]]
    /\ UNCHANGED <<rstream, published, run>>

RedisDisconnect(c) ==
    /\ rclient[c].at \in {"open", "read", "batch"}
    /\ rclient' = [rclient EXCEPT ![c].at = "off", ![c].batch = <<>>]
    /\ UNCHANGED <<rstream, published, run>>

RedisNext ==
    \/ RedisPublish \/ PublishFails \/ RunEnds \/ RunCrashes \/ Expire
    \/ \E succeeds \in BOOLEAN :
        \/ RedisPublishEnd(succeeds) \/ RedisCleanup(succeeds)
        \/ \E probed \in BOOLEAN : Recover(probed, succeeds)
    \/ \E c \in RedisClients :
        \/ \E header \in {NoEvent, rclient[c].last}, foreign, here \in BOOLEAN :
              RedisJoin(c, header, foreign, here)
        \/ AnsweredAtOnce(c) \/ RedisResolve(c) \/ Xread(c) \/ XreadNothing(c)
        \/ XreadFails(c) \/ Yield(c) \/ RedisDisconnect(c)

RedisSpec == RedisInit /\ [][RedisNext]_redisVars

-----------------------------------------------------------------------------

\* The first event in the stream.
OldestEvent == IF rstream = <<>> \/ rstream[1].end THEN published ELSE rstream[1].id

\* No more events will come.
RunOver == run \in {"ended", "cleaned", "lost"}

\* What the log sees of a consumer, and of all of them.
RedisView(c) ==
    [at |-> CASE rclient[c].at \in {"off", "open"} -> "away"
              [] rclient[c].at = "ended" -> "done"
              [] OTHER -> "reading",
     last |-> rclient[c].last]
RedisViews == [c \in RedisClients |-> RedisView(c)]

RedisLog == INSTANCE EventLog WITH
    Readers <- RedisClients, Window <- RetainedSize,
    emitted <- published, oldest <- OldestEvent, over <- RunOver, reader <- RedisViews

\* The bridge on Redis implements the same log as the one in memory, although
\* a consumer goes on with a batch after its events were trimmed, the stream
\* may expire under it, and commands fail.
RedisImplementsLog == RedisLog!Spec

\* Once the end marker was added, every consumer gets it or learns from a
\* heartbeat that the stream is gone, whenever it came and however far it was
\* behind at cleanup, unless it holds a copy of the record that is out of date.
RedisConsumersEnd ==
    \A c \in RedisClients :
        (rclient[c].at \in {"open", "read", "batch"} /\ run = "ended" /\ RecordFinal(c))
        ~> (rclient[c].at \in {"ended", "off"})
=============================================================================
