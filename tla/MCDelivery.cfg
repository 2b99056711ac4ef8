\* In memory: two consumers, a window of two events, four events, so that slow
\* consumers fall behind and reconnect.  In Redis: one consumer, the same
\* window, reads of up to two entries.  Two conversations with two turns each
\* and one flush; the timer thread, one other thread and three replacements of
\* the memory file.  Five events of the journal, flushed two at a time.
SPECIFICATION MCSpec
CONSTANTS
    c1 = c1
    c2 = c2
    r1 = r1
    k1 = k1
    k2 = k2
    u = u
    e = e
    Clients = {c1, c2}
    MaxSize = 2
    MaxEvents = 4
    RedisClients = {r1}
    RetainedSize = 2
    ReadCount = 2
    MaxRetries = 1
    MaxPublished = 4
    Conversations = {k1, k2}
    MaxAdds = 2
    MaxFlushes = 1
    Updater = u
    Callers = {e}
    MaxSaves = 3
    FlushThreshold = 2
    MaxRecorded = 5
INVARIANTS
    EndComesLast
    QueueHasTimer
    CorrectionKept
    CacheCurrent
    HistoryInOrder
PROPERTIES
    DeliveredInOrder
    ConsumersEnd
    ImplementsLog
    RedisImplementsLog
    RedisConsumersEnd
    ConversationsHandled
CHECK_DEADLOCK FALSE
