---------------------------- MODULE RunLifecycle ----------------------------
(***************************************************************************)
(* The runs of one conversation thread inside one gateway process:         *)
(* RunManager (runtime/runs/manager.py), the background task run_agent     *)
(* (runtime/runs/worker.py), the part of start_run that creates the task   *)
(* (app/gateway/services.py), and shutdown and restart (gateway/deps.py).  *)
(*                                                                         *)
(* Runs are numbered in the order in which they are admitted, so "older    *)
(* run of the thread" is <.  The manager's lock is never released inside a *)
(* method's update of the in-memory records, so such an update is one      *)
(* step; the store write that follows it is awaited outside the lock and   *)
(* is a step of its own.                                                   *)
(*                                                                         *)
(* asyncio: task.cancel() makes the task's next step raise CancelledError  *)
(* at the await where the task is suspended; a task cancelled before its   *)
(* first step never enters run_agent at all.                               *)
(***************************************************************************)
EXTENDS Naturals, FiniteSets

CONSTANTS
    MaxRuns,        \* bound: runs admitted on the thread
    MaxRestarts     \* bound: times the process stops and starts again

ASSUME RunAssumption == MaxRuns \in Nat /\ MaxRestarts \in Nat

Runs == 1..MaxRuns

Active == {"pending", "running"}
Status == {"none", "success", "error", "interrupted"} \cup Active

\* start_run has registered the run and record.task is None; in "lost" it raised.
NoTask == {"unborn", "launch", "lost"}

\* The task exists and is not done; in "created" it has not taken a step yet.
TaskActive == {"created", "wait", "marking", "capture", "stream", "caught",
               "settle", "settle_rb", "rollback", "complete", "title",
               "thread", "clear", "end"}

\* Where a run is; "absent" means that this process has no record of it.
PCs == {"absent", "done"} \cup NoTask \cup TaskActive

\* Checkpoints by who wrote them: 0 is an empty thread, 1 the history from
\* before the first run, r + 1 the work of run r.
Checkpoint == 0..(MaxRuns + 1)
Snapshot == [kind : {"unset", "taken", "failed"}, at : Checkpoint]

VARIABLES
    admitted,   \* runs created so far
    run,        \* the in-memory RunRecord of each run and its task
    row,        \* status column of the run's row in the run store
    writes,     \* status writes of cancel, create_or_reject, not yet applied
    ckpt,       \* latest checkpoint of the thread
    thread,     \* threads_meta.status
    ended,      \* runs whose stream got its end event
    phase,      \* of the process: up, draining, down
    drain,      \* runs that shutdown is waiting for
    restarts,
    early       \* history: runs aborted while record.task was None

vars == <<admitted, run, row, writes, ckpt, thread, ended, phase, drain,
          restarts, early>>

Record == [status : Status, action : {"none", "interrupt", "rollback"},
           finalizing : BOOLEAN, pc : PCs, cancel : BOOLEAN, snap : Snapshot]

NoRecord == [status |-> "none", action |-> "none", finalizing |-> FALSE,
             pc |-> "absent", cancel |-> FALSE,
             snap |-> [kind |-> "unset", at |-> 0]]

\* Every variable has its type.
TypeOK ==
    /\ admitted \in 0..MaxRuns
    /\ run \in [Runs -> Record]
    /\ row \in [Runs -> Status]
    /\ writes \subseteq Runs
    /\ ckpt \in Checkpoint
    /\ thread \in {"idle", "running", "error", "interrupted"}
    /\ ended \subseteq Runs
    /\ phase \in {"up", "draining", "down"}
    /\ drain \subseteq Runs
    /\ restarts \in 0..MaxRestarts
    /\ early \subseteq Runs

Init ==
    /\ admitted = 0
    /\ run = [r \in Runs |-> NoRecord]
    /\ row = [r \in Runs |-> "none"]
    /\ writes = {}
    /\ ckpt = 1
    /\ thread = "idle"
    /\ ended = {}
    /\ phase = "up"
    /\ drain = {}
    /\ restarts = 0
    /\ early = {}

-----------------------------------------------------------------------------
(* RunManager, as called by the gateway's handlers. *)

\* Mutant: the cancelled run is not marked as cleaning up.
AbortedUnmarked(rec, action) ==
    LET live == rec.pc \in TaskActive IN
    [rec EXCEPT !.action = action, !.cancel = live \/ @, !.status = "interrupted"]

\* cancel and create_or_reject on one record: the abort event is set, a live
\* task is cancelled and the run has cleanup to do.
Aborted(rec, action) ==
    LET live == rec.pc \in TaskActive IN
    [rec EXCEPT !.action = action, !.finalizing = live,
                !.cancel = live \/ @, !.status = "interrupted"]

Inflight(r) == run[r].status \in Active \/ run[r].finalizing

\* create_or_reject.  The lock is held across the insert of the row; a failed
\* insert removes the new record again and touches no other.
CreateOrReject(strategy) ==
    LET r == admitted + 1
        hit == {q \in Runs : run[q].status \in Active /\ ~run[q].finalizing} IN
    /\ phase = "up"
    /\ admitted < MaxRuns
    /\ strategy = "reject" => \A q \in Runs : ~Inflight(q)
    /\ admitted' = r
    /\ run' = [q \in Runs |->
         IF q = r THEN [NoRecord EXCEPT !.status = "pending", !.pc = "unborn"]
         ELSE IF q \in hit THEN Aborted(run[q], strategy)
         ELSE run[q]]
    /\ row' = [row EXCEPT ![r] = "pending"]
    /\ writes' = writes \cup hit
    /\ early' = early \cup {q \in hit : run[q].pc \in NoTask}
    /\ UNCHANGED <<ckpt, thread, ended, phase, drain, restarts>>

\* cancel: POST .../cancel, or a client that disconnects (sse_consumer).
Cancel(r, action) ==
    /\ phase = "up"
    /\ run[r].status \in Active
    /\ run' = [run EXCEPT ![r] = Aborted(@, action)]
    /\ writes' = writes \cup {r}
    /\ early' = IF run[r].pc \in NoTask THEN early \cup {r} ELSE early
    /\ UNCHANGED <<admitted, row, ckpt, thread, ended, phase, drain, restarts>>

\* The awaited _persist_status(record, interrupted) of those two.
PersistInterrupted(r) ==
    /\ phase # "down"
    /\ r \in writes
    /\ writes' = writes \ {r}
    /\ row' = [row EXCEPT ![r] = "interrupted"]
    /\ UNCHANGED <<admitted, run, ckpt, thread, ended, phase, drain, restarts, early>>

\* The rest of start_run: the thread's metadata, ...
UpsertThread(r) ==
    /\ phase = "up"
    /\ run[r].pc = "unborn"
    /\ run' = [run EXCEPT ![r].pc = "launch"]
    /\ thread' = "running"
    /\ UNCHANGED <<admitted, row, writes, ckpt, ended, phase, drain, restarts, early>>

\* ... and create_task, unless one of the awaits in between raised: then the
\* request fails and nothing takes the record back.
StartTask(r) ==
    /\ phase = "up"
    /\ run[r].pc = "launch"
    /\ \E pc \in {"created", "lost"} : run' = [run EXCEPT ![r].pc = pc]
    /\ UNCHANGED <<admitted, row, writes, ckpt, thread, ended, phase, drain,
                   restarts, early>>

-----------------------------------------------------------------------------
(* run_agent. *)

Running(r) == phase # "down" /\ ~run[r].cancel

\* Mutant: the wait for older runs is dropped.
PriorSettledAlways(r) == r \in Runs

\* No older run of the thread is still cleaning up after a cancel.
PriorSettled(r) == \A q \in Runs : q < r => ~run[q].finalizing

Advance(r, pc) == run' = [run EXCEPT ![r].pc = pc]

FirstStep(r) ==
    /\ Running(r) /\ run[r].pc = "created"
    /\ Advance(r, "wait")
    /\ UNCHANGED <<admitted, row, writes, ckpt, thread, ended, phase, drain,
                   restarts, early>>

\* wait_for_prior_finalizing returns; set_status(running) in memory.
MarkRunning(r) ==
    /\ Running(r) /\ run[r].pc = "wait"
    /\ PriorSettled(r)
    /\ run' = [run EXCEPT ![r].pc = "marking", ![r].status = "running"]
    /\ UNCHANGED <<admitted, row, writes, ckpt, thread, ended, phase, drain,
                   restarts, early>>

PersistRunning(r) ==
    /\ Running(r) /\ run[r].pc = "marking"
    /\ Advance(r, "capture")
    /\ row' = [row EXCEPT ![r] = "running"]
    /\ UNCHANGED <<admitted, writes, ckpt, thread, ended, phase, drain,
                   restarts, early>>

\* The pre-run checkpoint; an error of the checkpointer only disables rollback.
Capture(r) ==
    /\ Running(r) /\ run[r].pc = "capture"
    /\ \E kind \in {"taken", "failed"} :
         run' = [run EXCEPT ![r].pc = "stream",
                            ![r].snap = [kind |-> kind, at |-> ckpt]]
    /\ UNCHANGED <<admitted, row, writes, ckpt, thread, ended, phase, drain,
                   restarts, early>>

\* set_finalizing(True), then the final status that the abort action asks for.
AfterAbort(rec) ==
    LET back == rec.action = "rollback" IN
    [rec EXCEPT !.finalizing = TRUE,
                !.status = IF back THEN "error" ELSE "interrupted",
                !.pc = IF back THEN "settle_rb" ELSE "settle"]

\* One item of the stream: the graph checkpoints, and only when it yields is
\* the abort event looked at.
StreamItem(r) ==
    /\ Running(r) /\ run[r].pc = "stream"
    /\ \/ ckpt' = r + 1
       \/ run[r].action # "none" /\ ckpt' = ckpt
    /\ run' = IF run[r].action = "none" THEN run
              ELSE [run EXCEPT ![r] = AfterAbort(@)]
    /\ UNCHANGED <<admitted, row, writes, thread, ended, phase, drain, restarts, early>>

\* The stream ends by itself, or an exception leaves it.
StreamEnd(r, status) ==
    /\ Running(r) /\ run[r].pc = "stream"
    /\ run[r].action = "none" \/ status = "error"
    /\ run' = [run EXCEPT ![r].status = status, ![r].pc = "settle"]
    /\ UNCHANGED <<admitted, row, writes, ckpt, thread, ended, phase, drain,
                   restarts, early>>

\* CancelledError at the current await; a store write or a checkpoint in flight
\* there may still land.  Before the first step the coroutine just ends.
Throw(r) ==
    /\ phase # "down"
    /\ run[r].cancel
    /\ run[r].pc \in {"created", "wait", "marking", "capture", "stream"}
    /\ run' = [run EXCEPT ![r].cancel = FALSE,
         ![r].pc = IF @ = "created" THEN "done" ELSE "caught"]
    /\ \/ row' = row
       \/ run[r].pc = "marking" /\ row' = [row EXCEPT ![r] = "running"]
    /\ ckpt' \in IF run[r].pc = "stream" THEN {ckpt, r + 1} ELSE {ckpt}
    /\ UNCHANGED <<admitted, writes, thread, ended, phase, drain,
                   restarts, early>>

\* except CancelledError
HandleCancelled(r) ==
    /\ Running(r) /\ run[r].pc = "caught"
    /\ run' = [run EXCEPT ![r] = AfterAbort(@)]
    /\ UNCHANGED <<admitted, row, writes, ckpt, thread, ended, phase, drain,
                   restarts, early>>

\* The store write of the final set_status.
PersistFinal(r) ==
    /\ Running(r) /\ run[r].pc \in {"settle", "settle_rb"}
    /\ Advance(r, IF run[r].pc = "settle_rb" THEN "rollback" ELSE "complete")
    /\ row' = [row EXCEPT ![r] = run[r].status]
    /\ UNCHANGED <<admitted, writes, ckpt, thread, ended, phase, drain,
                   restarts, early>>

\* What _rollback_to_pre_run_checkpoint leaves: it deletes the thread's
\* checkpoints when it has no snapshot, whatever the reason it has none.
Restored(snap) ==
    CASE snap.kind = "failed" -> ckpt
      [] snap.kind = "unset"  -> 0
      [] snap.kind = "taken"  -> snap.at

\* The checkpointer may also fail, which is logged and ignored.
Rollback(r) ==
    /\ Running(r) /\ run[r].pc = "rollback"
    /\ Advance(r, "complete")
    /\ ckpt' \in {ckpt, Restored(run[r].snap)}
    /\ UNCHANGED <<admitted, row, writes, thread, ended, phase, drain, restarts, early>>

\* Mutant: completion is recorded as success, whatever the outcome.
CompleteAsSuccess(r) ==
    /\ Running(r) /\ run[r].pc = "complete"
    /\ Advance(r, IF run[r].status = "interrupted" THEN "title" ELSE "thread")
    /\ row' = [row EXCEPT ![r] = "success"]
    /\ UNCHANGED <<admitted, writes, ckpt, thread, ended, phase, drain,
                   restarts, early>>

\* finally: update_run_completion writes the status once more, if the run came
\* as far as to have a journal.
Complete(r) ==
    /\ Running(r) /\ run[r].pc = "complete"
    /\ Advance(r, IF run[r].status = "interrupted" THEN "title" ELSE "thread")
    /\ row' \in {row, [row EXCEPT ![r] = run[r].status]}
    /\ UNCHANGED <<admitted, writes, ckpt, thread, ended, phase, drain,
                   restarts, early>>

\* has_later_started_run
LaterStarted(r) ==
    \E q \in Runs : q > r /\ run[q].pc # "absent"
                    /\ (run[q].status # "pending" \/ run[q].finalizing)

\* An interrupted run gives the thread a title if it has none, as a checkpoint
\* of its own on top of the latest one, unless a later run may have moved on.
Title(r) ==
    /\ Running(r) /\ run[r].pc = "title"
    /\ PriorSettled(r)
    /\ Advance(r, "thread")
    /\ ckpt' \in IF LaterStarted(r) THEN {ckpt} ELSE {ckpt, r + 1}
    /\ UNCHANGED <<admitted, row, writes, thread, ended, phase, drain, restarts, early>>

\* threads_meta.status for a run's final status.
ThreadStatus(status) == IF status = "success" THEN "idle" ELSE status

\* Mutant: only a successful run updates the thread.
UpdateThreadOnSuccess(r) ==
    /\ Running(r) /\ run[r].pc = "thread"
    /\ Advance(r, "clear")
    /\ thread' = IF run[r].status = "success" THEN "idle" ELSE thread
    /\ UNCHANGED <<admitted, row, writes, ckpt, ended, phase, drain, restarts, early>>

UpdateThread(r) ==
    /\ Running(r) /\ run[r].pc = "thread"
    /\ Advance(r, "clear")
    /\ thread' = ThreadStatus(run[r].status)
    /\ UNCHANGED <<admitted, row, writes, ckpt, ended, phase, drain, restarts, early>>

\* Mutant: the mark is never taken back.
ClearFinalizingForgotten(r) ==
    /\ Running(r) /\ run[r].pc = "clear"
    /\ Advance(r, "end")
    /\ UNCHANGED <<admitted, row, writes, ckpt, thread, ended, phase, drain,
                   restarts, early>>

ClearFinalizing(r) ==
    /\ Running(r) /\ run[r].pc = "clear"
    /\ run' = [run EXCEPT ![r].pc = "end", ![r].finalizing = FALSE]
    /\ UNCHANGED <<admitted, row, writes, ckpt, thread, ended, phase, drain,
                   restarts, early>>

PublishEnd(r) ==
    /\ Running(r) /\ run[r].pc = "end"
    /\ Advance(r, "done")
    /\ ended' = ended \cup {r}
    /\ UNCHANGED <<admitted, row, writes, ckpt, thread, phase, drain, restarts, early>>

TaskStep(r) ==
    \/ FirstStep(r) \/ MarkRunning(r) \/ PersistRunning(r) \/ Capture(r)
    \/ StreamItem(r) \/ (\E status \in {"success", "error"} : StreamEnd(r, status))
    \/ Throw(r) \/ HandleCancelled(r) \/ PersistFinal(r) \/ Rollback(r)
    \/ Complete(r) \/ Title(r) \/ UpdateThread(r) \/ ClearFinalizing(r)
    \/ PublishEnd(r)

-----------------------------------------------------------------------------
(* The process. *)

\* shutdown, first part: abort and cancel every active task.
BeginShutdown ==
    LET live == {r \in Runs : run[r].status \in Active /\ run[r].pc \in TaskActive} IN
    /\ phase = "up" /\ restarts < MaxRestarts
    /\ phase' = "draining"
    /\ drain' = live
    /\ run' = [r \in Runs |-> IF r \in live
         THEN [run[r] EXCEPT !.action = "interrupt", !.cancel = TRUE] ELSE run[r]]
    /\ UNCHANGED <<admitted, row, writes, ckpt, thread, ended, restarts, early>>

\* A task that is still active, or ended cancelled (it never started).
Unsettled(r) == run[r].pc # "done" \/ run[r].status \in Active

\* shutdown, second part, when every task settled or the drain timed out: what
\* is unsettled is marked and persisted as interrupted, budget permitting.
\* Then the process is gone, with everything it held in memory.
EndShutdown ==
    LET left == {r \in drain : Unsettled(r)} IN
    /\ phase = "draining"
    /\ \E saved \in SUBSET left :
         row' = [r \in Runs |-> IF r \in saved THEN "interrupted" ELSE row[r]]
    /\ phase' = "down"
    /\ drain' = {}
    /\ run' = [r \in Runs |-> NoRecord]
    /\ writes' = {}
    /\ UNCHANGED <<admitted, ckpt, thread, ended, restarts, early>>

Crash ==
    /\ phase # "down" /\ restarts < MaxRestarts
    /\ phase' = "down"
    /\ drain' = {}
    /\ run' = [r \in Runs |-> NoRecord]
    /\ writes' = {}
    /\ UNCHANGED <<admitted, row, ckpt, thread, ended, restarts, early>>

\* Mutant: runs that had not started yet are overlooked.
OrphansRunning == {r \in Runs : row[r] = "running"}

\* Rows that reconcile_orphaned_inflight_runs takes for orphans.
Orphans == {r \in Runs : row[r] \in Active}

\* Startup: the orphans fail, their streams get an end event, and the thread is
\* marked when its newest run is one of them.
Restart ==
    /\ phase = "down"
    /\ phase' = "up"
    /\ restarts' = restarts + 1
    /\ row' = [r \in Runs |-> IF r \in Orphans THEN "error" ELSE row[r]]
    /\ ended' = ended \cup Orphans
    /\ thread' = IF admitted \in Orphans THEN "error" ELSE thread
    /\ UNCHANGED <<admitted, run, writes, ckpt, drain, early>>

\* The steps of a process that stays up.
UpNext ==
    \/ \E strategy \in {"reject", "interrupt", "rollback"} : CreateOrReject(strategy)
    \/ \E r \in Runs :
         \/ \E action \in {"interrupt", "rollback"} : Cancel(r, action)
         \/ PersistInterrupted(r) \/ UpsertThread(r) \/ StartTask(r)
         \/ TaskStep(r)

Next ==
    \/ UpNext
    \/ BeginShutdown \/ EndShutdown \/ Crash \/ Restart

Spec == Init /\ [][Next]_vars

\* As long as the process stays up, the event loop runs every task that can take
\* a step, and the agent's graph has a recursion limit, so a stream that is not
\* cancelled comes to its end.
FairSpec ==
    /\ Init /\ [][UpNext]_vars
    /\ \A r \in Runs :
         /\ WF_vars(TaskStep(r))
         /\ WF_vars(\E status \in {"success", "error"} : StreamEnd(r, status))

-----------------------------------------------------------------------------
(* Safety. *)

\* The task may write checkpoints of the thread, or has read what it will base
\* its writes on.  (A rollback without a snapshot is RollbackKeepsHistory's.)
Writing(r) ==
    \/ run[r].pc \in {"capture", "stream"}
    \/ run[r].pc = "title" /\ PriorSettled(r)
    \/ run[r].pc = "rollback" /\ run[r].snap.kind # "unset"

\* Two runs never write the thread's checkpoints at the same time, however
\* submissions, cancels and rollbacks overlap (wait_for_prior_finalizing),
\* unless the older was aborted before start_run had created its task.
ThreadExclusive ==
    \A q, r \in Runs : q < r /\ Writing(q) /\ Writing(r) => q \in early

\* Between the snapshot of a run and its rollback nobody but the run itself
\* has written the thread, so that restoring the snapshot takes back its own
\* work and nothing else (_rollback_to_pre_run_checkpoint); 0 is the doing of a
\* rollback without a snapshot, see RollbackKeepsHistory.
RollbackLosesOwnWorkOnly ==
    \A r \in Runs :
        /\ early = {} /\ run[r].snap.kind = "taken"
        /\ run[r].pc \in {"stream", "caught", "settle_rb", "rollback"}
        => ckpt \in {0, run[r].snap.at, r + 1}

\* While the process is up, a row that says pending or running belongs to a
\* task that has not ended, or a write of its final status is under way: no
\* client sees a run as active for ever.  (A run whose start failed is "lost".)
ActiveRowHasOwner ==
    \A r \in Runs :
        phase = "up" /\ row[r] \in Active
        => run[r].pc \in NoTask \cup TaskActive \/ r \in writes

\* Once a run is over and its writes are done, its row holds the status the
\* run had in memory; a cancelled run's may hold the canceller's interrupted.
RowIsOutcome ==
    \A r \in Runs :
        run[r].pc = "done" /\ r \notin writes /\ phase = "up"
        => \/ row[r] = run[r].status
           \/ row[r] = "interrupted" /\ run[r].action # "none"

\* A task that was cancelled before its first step, so that no part of
\* run_agent ran: the only way to be over without an end of the stream.
Stillborn(r) == run[r].pc = "done" /\ r \notin ended

\* When the last run of the thread has ended, the thread no longer shows as
\* running (until the process restarts, which does not repair every thread).
ThreadSettles ==
    /\ restarts = 0 /\ phase = "up" /\ admitted > 0
    /\ \A r \in 1..admitted : run[r].pc = "done" /\ ~Stillborn(r)
    => thread # "running"

-----------------------------------------------------------------------------
(* Liveness. *)

\* Every run whose task took its first step ends its stream, whatever fails or
\* is cancelled on the way, so that no client waits for ever; unless the
\* process stops, or the task of an older run is stillborn (RunsEndAlways).
RunsEnd ==
    \A r \in Runs :
        run[r].pc = "wait"
        ~> \/ r \in ended \/ phase # "up"
           \/ \E q \in Runs : q < r /\ Stillborn(q)

-----------------------------------------------------------------------------
(* What the code says of itself and does not do. *)

\* worker.py: every path out of the task publishes an end event; "otherwise a
\* failure here would leave the stream hanging with no terminator".
RunsEndAlways ==
    \A r \in Runs : run[r].pc = "created" ~> r \in ended \/ phase # "up"

\* RunManager.cancel: the action "rollback" reverts to the pre-run state, which
\* for a thread with a history is never the empty thread.
RollbackKeepsHistory == ckpt # 0

=============================================================================
