----------------------------- MODULE MCDelivery -----------------------------
(***************************************************************************)
(* What a run hands on, for TLC: its events to clients (StreamBridge,      *)
(* RedisBridge) and to the event store (Journal), and its conversation to  *)
(* the memory (MemoryQueue, MemoryStorage).  A behaviour is about one of   *)
(* the five, the others rest.                                              *)
(***************************************************************************)
EXTENDS StreamBridge, RedisBridge, MemoryQueue, MemoryStorage, Journal
CONSTANTS c1, c2, r1, k1, k2, u, e
VARIABLE part

deliveryVars == <<part, vars, redisVars, mqueueVars, storageVars, journalVars>>

InMemory(A) ==
    part = "memory" /\ A /\ UNCHANGED <<part, redisVars, mqueueVars, storageVars, journalVars>>
InRedis(A) ==
    part = "redis" /\ A /\ UNCHANGED <<part, vars, mqueueVars, storageVars, journalVars>>
InQueue(A) ==
    part = "queue" /\ A /\ UNCHANGED <<part, vars, redisVars, storageVars, journalVars>>
InStorage(A) ==
    part = "storage" /\ A /\ UNCHANGED <<part, vars, redisVars, mqueueVars, journalVars>>
InJournal(A) ==
    part = "journal" /\ A /\ UNCHANGED <<part, vars, redisVars, mqueueVars, storageVars>>

MCInit ==
    /\ part \in {"memory", "redis", "queue", "storage", "journal"}
    /\ Init /\ RedisInit /\ MemoryQueueInit /\ MemoryStorageInit
    /\ JournalInit

MCNext ==
    \/ InMemory(Next) \/ InRedis(RedisNext)
    \/ InQueue(MemoryQueueNext) \/ InStorage(MemoryStorageNext)
    \/ InJournal(JournalNext)

\* The event loop runs the consumers' generators.  In memory the heartbeat is
\* not fair, so that what holds does not depend on polling.
BridgeFairness ==
    /\ \A c \in Clients :
        /\ WF_deliveryVars(InMemory(Resolve(c)))
        /\ WF_deliveryVars(InMemory(Iterate(c)))
    /\ \A c \in RedisClients :
        /\ WF_deliveryVars(InRedis(AnsweredAtOnce(c) \/ RedisResolve(c)))
        /\ WF_deliveryVars(InRedis(Xread(c) \/ XreadNothing(c)))
        /\ WF_deliveryVars(InRedis(Yield(c)))

\* Timers fire and their threads run; an update of the memory ends, as the
\* model's client has a timeout.
QueueFairness ==
    /\ WF_deliveryVars(InQueue(TimerFires))
    /\ WF_deliveryVars(InQueue(ProcessQueue))
    /\ WF_deliveryVars(InQueue(HandleContext))
    /\ WF_deliveryVars(InQueue(ProcessEnds))

MCSpec == MCInit /\ [][MCNext]_deliveryVars /\ BridgeFairness /\ QueueFairness
=============================================================================
