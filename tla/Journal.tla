------------------------------- MODULE Journal -------------------------------
(***************************************************************************)
(* The events of one run on their way to the event store: RunJournal       *)
(* (runtime/journal.py), the put_batch of the store                        *)
(* (runtime/events/store/db.py), one transaction, and the worker that      *)
(* flushes at the end of the run (runtime/runs/worker.py).                 *)
(*                                                                         *)
(* LangChain calls the synchronous callbacks of an asynchronous run in     *)
(* threads of its own, where there is no event loop; middlewares and tools *)
(* record from the loop itself.  A thread can append to the buffer between *)
(* two operations of the loop on it.  An event is its number.              *)
(***************************************************************************)
EXTENDS Naturals, Sequences, SequencesExt

CONSTANTS
    FlushThreshold,     \* flush_threshold
    MaxRecorded         \* bound: events

ASSUME JournalAssumption == FlushThreshold \in Nat \ {0} /\ MaxRecorded \in Nat

VARIABLES
    recorded,   \* events so far
    jbuffer,    \* _buffer
    jrows,      \* the run's rows in the store, by seq
    flushTask,  \* the task in _pending_flush_tasks and its batch
    closing,    \* the worker in flush(), and the batch it writes
    loop,       \* what the loop has read of the buffer and not yet written back
    dropped     \* history: events that a cancelled write, or a race, took away

journalVars == <<recorded, jbuffer, jrows, flushTask, closing, loop, dropped>>

Batch == Seq(1..MaxRecorded)

\* Every variable has its type.
JournalTypeOK ==
    /\ recorded \in 0..MaxRecorded
    /\ jbuffer \in Batch /\ jrows \in Batch
    /\ flushTask \in [at : {"none", "writing", "returned"}, batch : Batch]
    /\ closing \in [at : {"no", "gather", "take", "write", "over"}, batch : Batch]
    /\ loop \in [op : {"none", "clear", "delete", "assign"}, list : Batch]
    /\ dropped \subseteq 1..MaxRecorded

NoTask == [at |-> "none", batch |-> <<>>]
Free == [op |-> "none", list |-> <<>>]

JournalInit ==
    /\ recorded = 0 /\ jbuffer = <<>> /\ jrows = <<>> /\ dropped = {}
    /\ flushTask = NoTask /\ closing = [at |-> "no", batch |-> <<>>] /\ loop = Free

-----------------------------------------------------------------------------
(* Recording *)

\* One flush at a time.
MayFlush == flushTask.at = "none"

\* _put in a thread: nothing can be scheduled from there.
RecordInThread ==
    /\ recorded < MaxRecorded /\ recorded' = recorded + 1
    /\ jbuffer' = Append(jbuffer, recorded')
    /\ UNCHANGED <<jrows, flushTask, closing, loop, dropped>>

\* _put in the loop; _flush_sync, when the buffer is full or the run's chain
\* ends, copies the buffer ...
RecordInLoop(chainEnds) ==
    LET all == Append(jbuffer, recorded + 1) IN
    /\ recorded < MaxRecorded /\ loop = Free /\ closing.at = "no"
    /\ recorded' = recorded + 1 /\ jbuffer' = all
    /\ loop' = IF (Len(all) >= FlushThreshold \/ chainEnds) /\ MayFlush
               THEN [op |-> "clear", list |-> all] ELSE loop
    /\ UNCHANGED <<jrows, flushTask, closing, dropped>>

\* ... then clears it, and hands the copy to a task.
ClearBuffer ==
    /\ loop.op = "clear"
    /\ dropped' = dropped \cup (Range(jbuffer) \ Range(loop.list))
    /\ jbuffer' = <<>> /\ loop' = Free
    /\ flushTask' = [at |-> "writing", batch |-> loop.list]
    /\ UNCHANGED <<recorded, jrows, closing>>

-----------------------------------------------------------------------------
(* Writing *)

\* Mutant: what could not be written goes behind what came later.
ReturnedLast(batch, buffer) == buffer \o batch

\* A batch that could not be written, back in the buffer.
Returned(batch, buffer) == batch \o buffer

\* _flush_async: put_batch commits ...
FlushTaskWrites ==
    /\ loop = Free /\ flushTask.at = "writing"
    /\ jrows' = jrows \o flushTask.batch
    /\ flushTask' = [at |-> "returned", batch |-> <<>>]
    /\ UNCHANGED <<recorded, jbuffer, closing, loop, dropped>>

\* ... or raises: the batch goes before what was recorded meanwhile, ...
FlushTaskFails ==
    /\ loop = Free /\ flushTask.at = "writing"
    /\ loop' = [op |-> "assign", list |-> Returned(flushTask.batch, jbuffer)]
    /\ flushTask' = [at |-> "returned", batch |-> <<>>]
    /\ UNCHANGED <<recorded, jbuffer, jrows, closing, dropped>>

\* ... in a list that takes the place of the other.
AssignBuffer ==
    /\ loop.op = "assign"
    /\ dropped' = dropped \cup (Range(jbuffer) \ Range(loop.list))
    /\ jbuffer' = loop.list /\ loop' = Free
    /\ UNCHANGED <<recorded, jrows, flushTask, closing>>

\* _on_flush_done
FlushTaskDone ==
    /\ loop = Free /\ flushTask.at = "returned"
    /\ flushTask' = NoTask
    /\ UNCHANGED <<recorded, jbuffer, jrows, closing, loop, dropped>>

\* flush, in the worker's finally block, waits for the task, ...
CloseBegins ==
    /\ loop = Free /\ closing.at = "no"
    /\ closing' = [closing EXCEPT !.at = "gather"]
    /\ UNCHANGED <<recorded, jbuffer, jrows, flushTask, loop, dropped>>

Gathered ==
    /\ loop = Free /\ closing.at = "gather" /\ flushTask.at = "none"
    /\ closing' = [closing EXCEPT !.at = "take"]
    /\ UNCHANGED <<recorded, jbuffer, jrows, flushTask, loop, dropped>>

AtMost(seq, n) == IF Len(seq) < n THEN Len(seq) ELSE n

\* ... takes a copy of the first events from the buffer until it is empty, ...
TakeBatch ==
    /\ loop = Free /\ closing.at = "take"
    /\ IF jbuffer = <<>>
       THEN closing' = [closing EXCEPT !.at = "over"] /\ UNCHANGED loop
       ELSE /\ loop' = [op |-> "delete",
                        list |-> SubSeq(jbuffer, 1, AtMost(jbuffer, FlushThreshold))]
            /\ UNCHANGED closing
    /\ UNCHANGED <<recorded, jbuffer, jrows, flushTask, dropped>>

\* ... deletes as many as the threshold, ...
DeleteBatch ==
    LET n == AtMost(jbuffer, FlushThreshold) IN
    /\ loop.op = "delete"
    /\ dropped' = dropped \cup (Range(SubSeq(jbuffer, 1, n)) \ Range(loop.list))
    /\ jbuffer' = SubSeq(jbuffer, n + 1, Len(jbuffer))
    /\ closing' = [at |-> "write", batch |-> loop.list] /\ loop' = Free
    /\ UNCHANGED <<recorded, jrows, flushTask>>

\* ... and writes them ...
CloseWrites ==
    /\ loop = Free /\ closing.at = "write"
    /\ jrows' = jrows \o closing.batch
    /\ closing' = [at |-> "take", batch |-> <<>>]
    /\ UNCHANGED <<recorded, jbuffer, flushTask, loop, dropped>>

\* ... or puts them back and raises.
CloseFails ==
    /\ loop = Free /\ closing.at = "write"
    /\ loop' = [op |-> "assign", list |-> Returned(closing.batch, jbuffer)]
    /\ closing' = [at |-> "over", batch |-> <<>>]
    /\ UNCHANGED <<recorded, jbuffer, jrows, flushTask, dropped>>

\* The worker is cancelled in flush, and with it the task it waits for; no
\* except clause is for that.
CloseCancelled ==
    /\ loop = Free /\ closing.at \in {"gather", "write"}
    /\ dropped' = dropped \cup Range(closing.batch)
                    \cup IF closing.at = "gather" THEN Range(flushTask.batch) ELSE {}
    /\ flushTask' = IF closing.at = "gather" THEN NoTask ELSE flushTask
    /\ closing' = [at |-> "over", batch |-> <<>>]
    /\ UNCHANGED <<recorded, jbuffer, jrows, loop>>

JournalNext ==
    \/ RecordInThread \/ (\E chainEnds \in BOOLEAN : RecordInLoop(chainEnds))
    \/ ClearBuffer \/ AssignBuffer \/ DeleteBatch
    \/ FlushTaskWrites \/ FlushTaskFails \/ FlushTaskDone
    \/ CloseBegins \/ Gathered \/ TakeBatch \/ CloseWrites \/ CloseFails \/ CloseCancelled

JournalSpec == JournalInit /\ [][JournalNext]_journalVars

-----------------------------------------------------------------------------

\* Later events have greater numbers.
Rising(seq) == \A i, j \in DOMAIN seq : i < j => seq[i] < seq[j]

\* The run's history is told in order: its rows, what is being written and what
\* is buffered are the events as they were recorded, none twice and none
\* missing, through failed, repeated and overlapping flushes, save those that
\* were in a write that was cancelled or that a thread recorded in the middle
\* of an operation of the loop on the buffer.
HistoryInOrder ==
    LET told == jrows \o flushTask.batch \o closing.batch \o jbuffer IN
    loop = Free => Range(told) = (1..recorded) \ dropped /\ Rising(told)
=============================================================================
