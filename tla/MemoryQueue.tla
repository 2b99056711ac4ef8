----------------------------- MODULE MemoryQueue -----------------------------
(***************************************************************************)
(* The queue of conversations to remember: MemoryUpdateQueue with its      *)
(* debounce timers (agents/memory/queue.py).  The queue's lock makes each  *)
(* critical section one step.  The update of one conversation is one step  *)
(* here; what it does with the memory file is in MemoryStorage.            *)
(*                                                                         *)
(* A conversation is known by the number of the add that brought it; the   *)
(* flag for reinforcement is merged just as the one for correction is.     *)
(***************************************************************************)
EXTENDS Naturals, Sequences, SequencesExt

CONSTANTS
    Conversations,  \* queue keys: a thread with its user and agent
    MaxAdds,        \* bound: adds for a key
    MaxFlushes      \* bound: calls of flush

ASSUME MemoryQueueAssumption == MaxAdds \in Nat /\ MaxFlushes \in Nat

VARIABLES
    mqueue,     \* _queue
    timer,      \* _timer, and the timers it no longer refers to
    processing, \* _processing
    batch,      \* contexts_to_process, the current one first
    added,      \* history: adds for a key
    handled,    \* history: the newest conversation update_memory was called with
    corrected,  \* history: a correction was detected and not yet passed on
    flushes     \* calls of flush so far

mqueueVars == <<mqueue, timer, processing, batch, added, handled, corrected, flushes>>

\* ConversationContext
Context == [key : Conversations, n : 1..MaxAdds, correction : BOOLEAN]

\* _timer is None, or armed, or spent: its thread has started and a cancel is
\* without effect.  Timers that are loose are armed though _timer is another;
\* fired threads wait for the lock.
Timer == [ref : {"none", "armed", "spent"}, loose : Nat, fired : Nat]

\* Every variable has its type.
MemoryQueueTypeOK ==
    /\ mqueue \in Seq(Context) /\ batch \in Seq(Context)
    /\ timer \in Timer
    /\ processing \in BOOLEAN
    /\ added \in [Conversations -> 0..MaxAdds]
    /\ handled \in [Conversations -> 0..MaxAdds]
    /\ corrected \in [Conversations -> BOOLEAN]
    /\ flushes \in 0..MaxFlushes

MemoryQueueInit ==
    /\ mqueue = <<>> /\ batch = <<>> /\ processing = FALSE
    /\ timer = [ref |-> "none", loose |-> 0, fired |-> 0]
    /\ added = [k \in Conversations |-> 0]
    /\ handled = [k \in Conversations |-> 0]
    /\ corrected = [k \in Conversations |-> FALSE]
    /\ flushes = 0

-----------------------------------------------------------------------------

\* _schedule_timer: the armed timer is cancelled, a new one takes its place.
ScheduleTimer(t) == [t EXCEPT !.ref = "armed"]

\* The correction flag of a context of the same key that is still queued.
EarlierCorrection(k) ==
    \E i \in DOMAIN mqueue : mqueue[i].key = k /\ mqueue[i].correction

\* The queue without the contexts of a key, of which there is at most one.
QueuedWithout(k) == RemoveFirstMatch(mqueue, LAMBDA c : c.key = k)

\* Mutant: the new context replaces the queued one together with its flags.
EnqueueForgetful(k, correction) ==
    Append(QueuedWithout(k),
           [key |-> k, n |-> added[k] + 1, correction |-> correction])

\* _enqueue_locked: one context per key, its flags merged, at the end.
Enqueue(k, correction) ==
    Append(QueuedWithout(k),
           [key |-> k, n |-> added[k] + 1,
            correction |-> correction \/ EarlierCorrection(k)])

\* add and add_nowait; only their delays differ.
Add(k, correction) ==
    /\ added[k] < MaxAdds
    /\ mqueue' = Enqueue(k, correction)
    /\ timer' = ScheduleTimer(timer)
    /\ added' = [added EXCEPT ![k] = @ + 1]
    /\ corrected' = [corrected EXCEPT ![k] = @ \/ correction]
    /\ UNCHANGED <<processing, batch, handled, flushes>>

\* flush cancels the timer and calls _process_queue itself, which then waits
\* for the lock like a timer's thread; flush_nowait schedules a timer.
Flush(nowait) ==
    /\ flushes < MaxFlushes /\ flushes' = flushes + 1
    /\ timer' = IF nowait THEN ScheduleTimer(timer)
                ELSE [timer EXCEPT !.ref = "none", !.fired = @ + 1]
    /\ UNCHANGED <<mqueue, processing, batch, added, handled, corrected>>

\* The delay is over: the timer's thread runs and waits for the lock.
TimerFires ==
    /\ \/ timer.ref = "armed"
          /\ timer' = [timer EXCEPT !.ref = "spent", !.fired = @ + 1]
       \/ timer.loose > 0
          /\ timer' = [timer EXCEPT !.loose = @ - 1, !.fired = @ + 1]
    /\ UNCHANGED <<mqueue, processing, batch, added, handled, corrected, flushes>>

\* Mutant: a thread that finds the queue in work leaves.
TryAgainNever(t) == t

\* _process_queue, another thread being active: try again at once.
TryAgain(t) == ScheduleTimer(t)

\* _process_queue up to the release of the lock.  Setting _timer to None
\* leaves a timer that was armed meanwhile to fire by itself.
ProcessQueue ==
    LET left == [timer EXCEPT !.fired = @ - 1] IN
    /\ timer.fired > 0
    /\ \/ /\ processing
          /\ timer' = TryAgain(left)
          /\ UNCHANGED <<mqueue, processing, batch>>
       \/ /\ ~processing /\ mqueue = <<>>
          /\ timer' = left
          /\ UNCHANGED <<mqueue, processing, batch>>
       \/ /\ ~processing /\ mqueue # <<>>
          /\ processing' = TRUE
          /\ batch' = mqueue
          /\ mqueue' = <<>>
          /\ timer' = [left EXCEPT !.ref = "none",
                          !.loose = IF timer.ref = "armed" THEN @ + 1 ELSE @]
    /\ UNCHANGED <<added, handled, corrected, flushes>>

\* update_memory returns or raises: on to the next context.
HandleContext ==
    LET c == batch[1] IN
    /\ processing /\ batch # <<>>
    /\ handled' = [handled EXCEPT ![c.key] = c.n]
    /\ corrected' = [corrected EXCEPT ![c.key] = @ /\ ~c.correction]
    /\ batch' = Tail(batch)
    /\ UNCHANGED <<mqueue, timer, processing, added, flushes>>

\* Mutant: _processing is not reset when the queue has filled up meanwhile.
ProcessEndsEmpty ==
    /\ processing /\ batch = <<>> /\ mqueue = <<>>
    /\ processing' = FALSE
    /\ UNCHANGED <<mqueue, timer, batch, added, handled, corrected, flushes>>

\* The finally block.
ProcessEnds ==
    /\ processing /\ batch = <<>>
    /\ processing' = FALSE
    /\ UNCHANGED <<mqueue, timer, batch, added, handled, corrected, flushes>>

MemoryQueueNext ==
    \/ \E k \in Conversations, correction \in BOOLEAN : Add(k, correction)
    \/ \E nowait \in BOOLEAN : Flush(nowait)
    \/ TimerFires \/ ProcessQueue \/ HandleContext \/ ProcessEnds

MemoryQueueSpec == MemoryQueueInit /\ [][MemoryQueueNext]_mqueueVars

-----------------------------------------------------------------------------

\* As long as conversations are queued a timer is armed or its thread is on
\* the way: neither a cancel, nor a thread that finds another one at work, nor
\* _timer = None leaves the queue to itself.
QueueHasTimer ==
    mqueue # <<>> => timer.ref = "armed" \/ timer.loose > 0 \/ timer.fired > 0

\* A detected correction reaches the updater, however many later turns replace
\* the conversation it was detected in.
CorrectionKept ==
    \A k \in Conversations :
        corrected[k] => \E c \in Range(mqueue) \cup Range(batch) :
                            c.key = k /\ c.correction

\* Every conversation, or a later one of its thread, is handed to the updater.
ConversationsHandled ==
    \A k \in Conversations : \A n \in 1..MaxAdds : added[k] >= n ~> handled[k] >= n
=============================================================================
