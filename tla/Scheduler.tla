------------------------------ MODULE Scheduler ------------------------------
(***************************************************************************)
(* Scheduled tasks: ScheduledTaskService (app/scheduler/service.py) with   *)
(* its poller and its completion hook, the task and task-run tables        *)
(* (persistence/scheduled_tasks, scheduled_task_runs), and the requests of *)
(* routers/scheduled_tasks.py.                                             *)
(*                                                                         *)
(* Every repository method is one transaction and one step.  Between two   *)
(* of them the poller, requests and the hooks of runs that end interleave; *)
(* dispatch_task works on the copy of the task row it was given.           *)
(*                                                                         *)
(* Time is abstract: an instant is due or in the future, a lease is held   *)
(* or has expired.  All tasks have overlap_policy "skip", its only value,  *)
(* and no two share a thread: a launch may meet any conflict on it.        *)
(***************************************************************************)
EXTENDS Naturals, FiniteSets

CONSTANTS
    Once, Cron,         \* the tasks, by schedule_type
    Requests,           \* requests to the API; each is made once
    Poller,             \* the service's _run_loop
    MaxConcurrent,      \* max_concurrent_runs
    MaxTasks,           \* bound: rows in scheduled_tasks
    MaxRows,            \* bound: rows in scheduled_task_runs
    MaxFaults,          \* bound: the process dies or a repository call raises
    NoTask              \* no task in hand

Tasks == Once \cup Cron
Actors == Requests \cup {Poller}
Rows == 1..MaxRows

ASSUME SchedulerAssumption ==
    /\ Once \cap Cron = {} /\ NoTask \notin Tasks /\ Poller \notin Requests
    /\ MaxConcurrent \in Nat \ {0}
    /\ {MaxTasks, MaxRows, MaxFaults} \subseteq Nat

VARIABLES
    task,       \* scheduled_tasks; status "deleted" is a row that is gone
    trun,       \* scheduled_task_runs
    run,        \* the gateway run launched for a row, and its hook
    actor,      \* where poller and requests stand
    claimed,    \* tasks claimed by run_once and not yet dispatched
    fired,      \* history: scheduled launches of a once task since it was armed
    crashes, errors

vars == <<task, trun, run, actor, claimed, fired, crashes, errors>>

Terminal == {"completed", "failed", "cancelled"}
TaskStatus == Terminal \cup {"enabled", "running", "paused", "deleted"}
ActiveRun == {"queued", "running"}
TerminalRun == {"success", "failed", "skipped", "interrupted"}
Instant == {"none", "future", "due"}

\* at is schedule_spec's run_at; a cron expression always has a next instant.
TaskRow == [status : TaskStatus, next : Instant, at : {"future", "due"},
            lease : {"none", "held", "expired"}]
RunRow == [task : Tasks \cup {NoTask}, trigger : {"none", "scheduled", "manual"},
           status : {"none"} \cup ActiveRun \cup TerminalRun]

\* The record's status when the run ended, and the hook's progress.
Outcome == {"success", "error", "interrupted"}
GatewayRun == [pc : {"none", "active", "hooktask", "done", "lost"},
               outcome : Outcome \cup {"none"}]

\* dispatch_task from has_active_runs to update_after_launch, then the router.
Dispatching == {"check", "create", "skipcreate", "launch", "record",
                "recordtask", "fail", "failtask", "skip", "skiptask"}
Actor == [pc : {"idle", "claim", "poll", "pause", "resume", "patch", "done"}
               \cup Dispatching,
          task : Tasks \cup {NoTask}, saw : TaskStatus, at : {"future", "due"},
          row : 0..MaxRows, budget : 0..MaxConcurrent]

Idle == [pc |-> "idle", task |-> NoTask, saw |-> "enabled", at |-> "due",
         row |-> 0, budget |-> 0]

\* Every variable has its type.
TypeOK ==
    /\ task \in [Tasks -> TaskRow]
    /\ trun \in [Rows -> RunRow]
    /\ run \in [Rows -> GatewayRun]
    /\ actor \in [Actors -> Actor]
    /\ claimed \subseteq Tasks
    /\ fired \in [Tasks -> Nat]
    /\ crashes \in 0..MaxFaults /\ errors \in 0..MaxFaults

\* The run_at of a schedule in the future; a cron task has none.
FutureAt(t) == IF t \in Once THEN "future" ELSE "due"

\* Some of the tasks exist, as create_scheduled_task leaves them.
Init ==
    /\ \E created \in SUBSET Tasks :
        /\ Cardinality(created) <= MaxTasks
        /\ task = [t \in Tasks |->
                [status |-> IF t \in created THEN "enabled" ELSE "deleted",
                 next |-> "future", at |-> FutureAt(t), lease |-> "none"]]
    /\ trun = [r \in Rows |-> [task |-> NoTask, trigger |-> "none",
                               status |-> "none"]]
    /\ run = [r \in Rows |-> [pc |-> "none", outcome |-> "none"]]
    /\ actor = [a \in Actors |-> Idle]
    /\ claimed = {}
    /\ fired = [t \in Tasks |-> 0]
    /\ crashes = 0 /\ errors = 0

-----------------------------------------------------------------------------
(* schedules.py and the repositories. *)

\* Mutant: the instant of a once task is returned though it has passed.
NextRunAtPast(t, at) == IF t \in Cron THEN "future" ELSE at

\* next_run_at, from the schedule in the caller's copy of the row.
NextRunAt(t, at) ==
    CASE t \in Cron -> "future"
      [] t \in Once /\ at = "future" -> "future"
      [] OTHER -> "none"

Trigger(a) == IF a = Poller THEN "scheduled" ELSE "manual"

HasActiveRuns(t) == \E r \in Rows : trun[r].task = t /\ trun[r].status \in ActiveRun

\* Mutant: an enabled row is claimed only when it never had a lease.
ClaimableUnleased(t) ==
    /\ task[t].next = "due"
    /\ \/ task[t].status = "enabled" /\ task[t].lease = "none"
       \/ task[t].status = "running" /\ task[t].lease = "expired"

\* claim_due_tasks: due, and enabled and not leased or left behind by a claim.
Claimable(t) ==
    /\ task[t].next = "due"
    /\ \/ task[t].status = "enabled" /\ task[t].lease # "held"
       \/ task[t].status = "running" /\ task[t].lease = "expired"

\* Mutant: the launch path writes "running" over the hook's result.
UpdateRunningUnprotected(r) == trun' = [trun EXCEPT ![r].status = "running"]

\* update_status of the launch path, with protect_terminal.
UpdateRunning(r) ==
    trun' = [trun EXCEPT ![r].status = IF @ \in TerminalRun THEN @ ELSE "running"]

\* update_after_launch; every call clears the lease.
UpdateAfterLaunch(t, status, next, protect) ==
    LET row == task[t]
        kept == IF protect /\ row.status \in Terminal THEN row.status ELSE status IN
    task' = [task EXCEPT ![t] =
        IF row.status = "deleted" THEN row
        ELSE [row EXCEPT !.status = kept, !.next = next, !.lease = "none"]]

-----------------------------------------------------------------------------
(* The poller. *)

\* run_once: count_active_runs, and nothing to do without a budget.
CountActive ==
    LET active == Cardinality({r \in Rows : trun[r].status \in ActiveRun}) IN
    /\ actor[Poller].pc = "idle"
    /\ active < MaxConcurrent
    /\ actor' = [actor EXCEPT ![Poller].pc = "claim",
                              ![Poller].budget = MaxConcurrent - active]
    /\ UNCHANGED <<task, trun, run, claimed, fired, crashes, errors>>

\* run_once: claim_due_tasks into the budget; the order of equals is open.
Claim ==
    LET due == {t \in Tasks : Claimable(t)} IN
    /\ actor[Poller].pc = "claim"
    /\ \E c \in SUBSET due :
        /\ Cardinality(c) <= actor[Poller].budget
        /\ c = due \/ Cardinality(c) = actor[Poller].budget
        /\ claimed' = c
        /\ task' = [t \in Tasks |-> IF t \in c THEN [task[t] EXCEPT !.status = "running",
                                                                    !.lease = "held"]
                                    ELSE task[t]]
    /\ actor' = [actor EXCEPT ![Poller] = [Idle EXCEPT !.pc = "poll"]]
    /\ UNCHANGED <<trun, run, fired, crashes, errors>>

\* run_once: the next claimed task, as it was when it was claimed.
DispatchNext ==
    /\ actor[Poller].pc = "poll"
    /\ \E t \in claimed :
        /\ claimed' = claimed \ {t}
        /\ actor' = [actor EXCEPT ![Poller].pc = "check", ![Poller].task = t,
                        ![Poller].saw = "running", ![Poller].at = "due"]
    /\ UNCHANGED <<task, trun, run, fired, crashes, errors>>

PollEnds ==
    /\ actor[Poller].pc = "poll" /\ claimed = {}
    /\ actor' = [actor EXCEPT ![Poller] = Idle]
    /\ UNCHANGED <<task, trun, run, claimed, fired, crashes, errors>>

-----------------------------------------------------------------------------
(* dispatch_task, for the poller and for a manual trigger. *)

Goto(a, pc) == actor' = [actor EXCEPT ![a].pc = pc]

\* dispatch_task returns or raises: the poller goes on, the request is over.
Return(a) ==
    actor' = [actor EXCEPT ![a] = IF a = Poller THEN [Idle EXCEPT !.pc = "poll"]
                                  ELSE [@ EXCEPT !.pc = "done"]]

\* Mutant: the poller does not look at the task's runs before it launches one.
CheckOverlapIgnored(a) ==
    /\ actor[a].pc = "check"
    /\ IF HasActiveRuns(actor[a].task) /\ a # Poller THEN Return(a) ELSE Goto(a, "create")
    /\ UNCHANGED <<task, trun, run, claimed, fired, crashes, errors>>

\* has_active_runs: a manual trigger is refused, an occurrence is skipped.
CheckOverlap(a) ==
    /\ actor[a].pc = "check"
    /\ CASE ~HasActiveRuns(actor[a].task) -> Goto(a, "create")
         [] HasActiveRuns(actor[a].task) /\ a = Poller -> Goto(a, "skipcreate")
         [] OTHER -> Return(a)
    /\ UNCHANGED <<task, trun, run, claimed, fired, crashes, errors>>

\* The row of this dispatch.
CreateRow(a) ==
    /\ actor[a].pc \in {"create", "skipcreate"}
    /\ \E r \in Rows :
        /\ trun[r].status = "none"
        /\ \A q \in 1..(r - 1) : trun[q].status # "none"
        /\ trun' = [trun EXCEPT ![r] = [task |-> actor[a].task, trigger |-> Trigger(a),
                                        status |-> "queued"]]
        /\ actor' = [actor EXCEPT ![a].row = r,
                        ![a].pc = IF @ = "create" THEN "launch" ELSE "skip"]
    /\ UNCHANGED <<task, run, claimed, fired, crashes, errors>>

\* launch_run returns: the run is on its way and may end at any time.
Launch(a) ==
    /\ actor[a].pc = "launch"
    /\ run' = [run EXCEPT ![actor[a].row].pc = "active"]
    /\ fired' = [fired EXCEPT ![actor[a].task] = 
                                    IF a = Poller /\ actor[a].task \in Once THEN @ + 1 ELSE @]
    /\ Goto(a, "record")
    /\ UNCHANGED <<task, trun, claimed, crashes, errors>>

\* launch_run raises; a conflict on the thread skips a scheduled occurrence.
LaunchRaises(a, conflict) ==
    /\ actor[a].pc = "launch"
    /\ Goto(a, IF conflict /\ a = Poller THEN "skip" ELSE "fail")
    /\ UNCHANGED <<task, trun, run, claimed, fired, crashes, errors>>

RecordRow(a) ==
    /\ actor[a].pc = "record"
    /\ UpdateRunning(actor[a].row)
    /\ Goto(a, "recordtask")
    /\ UNCHANGED <<task, run, claimed, fired, crashes, errors>>

\* A once task stays running until the hook; a paused cron task stays paused.
StatusAfterLaunch(a) ==
    CASE actor[a].task \in Once -> "running"
      [] actor[a].task \in Cron /\ a # Poller /\ actor[a].saw = "paused" -> "paused"
      [] OTHER -> "enabled"

RecordTask(a) ==
    /\ actor[a].pc = "recordtask"
    /\ UpdateAfterLaunch(actor[a].task, StatusAfterLaunch(a),
                         NextRunAt(actor[a].task, actor[a].at), TRUE)
    /\ Return(a)
    /\ UNCHANGED <<trun, run, claimed, fired, crashes, errors>>

\* The handler of an exception: update_status without protect_terminal.
FailRow(a) ==
    /\ actor[a].pc = "fail"
    /\ trun' = [trun EXCEPT ![actor[a].row].status = "failed"]
    /\ Goto(a, "failtask")
    /\ UNCHANGED <<task, run, claimed, fired, crashes, errors>>

\* _task_status_for_failure
StatusAfterFailure(a) ==
    CASE a # Poller -> actor[a].saw
      [] a = Poller /\ actor[a].task \in Once -> "failed"
      [] OTHER -> "enabled"

FailTask(a) ==
    /\ actor[a].pc = "failtask"
    /\ UpdateAfterLaunch(actor[a].task, StatusAfterFailure(a),
                         NextRunAt(actor[a].task, actor[a].at), FALSE)
    /\ Return(a)
    /\ UNCHANGED <<trun, run, claimed, fired, crashes, errors>>

\* _finalize_skip
SkipRow(a) ==
    /\ actor[a].pc = "skip"
    /\ trun' = [trun EXCEPT ![actor[a].row].status = "skipped"]
    /\ Goto(a, "skiptask")
    /\ UNCHANGED <<task, run, claimed, fired, crashes, errors>>

SkipTask(a) ==
    /\ actor[a].pc = "skiptask"
    /\ UpdateAfterLaunch(actor[a].task, IF actor[a].task \in Once THEN "failed" ELSE "enabled",
                         NextRunAt(actor[a].task, actor[a].at), FALSE)
    /\ Return(a)
    /\ UNCHANGED <<trun, run, claimed, fired, crashes, errors>>

\* A repository call raises: after the launch dispatch_task treats it as a
\* failed launch, elsewhere the poll (with all it has claimed) or the request
\* is given up.
RepositoryError(a) ==
    /\ crashes + errors < MaxFaults /\ errors' = errors + 1
    /\ \/ /\ actor[a].pc \in {"record", "recordtask"}
          /\ Goto(a, "fail")
          /\ UNCHANGED claimed
       \/ /\ actor[a].pc \in Dispatching \ {"launch", "record", "recordtask"}
          /\ actor' = [actor EXCEPT ![a] = IF a = Poller THEN Idle
                                           ELSE [@ EXCEPT !.pc = "done"]]
          /\ claimed' = IF a = Poller THEN {} ELSE claimed
    /\ UNCHANGED <<task, trun, run, fired, crashes>>

Dispatch(a) ==
    \/ CheckOverlap(a) \/ CreateRow(a) \/ Launch(a)
    \/ \E conflict \in BOOLEAN : LaunchRaises(a, conflict)
    \/ RecordRow(a) \/ RecordTask(a) \/ FailRow(a) \/ FailTask(a)
    \/ SkipRow(a) \/ SkipTask(a)

-----------------------------------------------------------------------------
(* The requests of the router: a read of the row, then a write of some of  *)
(* its columns.                                                            *)

\* repo.get, and _ensure_task_mutable for all but trigger.
ReadTask(q, t, op) ==
    /\ actor[q].pc = "idle"
    /\ task[t].status # "deleted"
    /\ op # "check" => task[t].status # "running"
    /\ actor' = [actor EXCEPT ![q].pc = op, ![q].task = t,
                    ![q].saw = task[t].status, ![q].at = task[t].at]
    /\ UNCHANGED <<task, trun, run, claimed, fired, crashes, errors>>

\* pause_scheduled_task and resume_scheduled_task
SetPaused(q) ==
    LET t == actor[q].task IN
    /\ actor[q].pc \in {"pause", "resume"}
    /\ task' = [task EXCEPT ![t].status =
                    CASE @ = "deleted" -> "deleted"
                      [] @ # "deleted" /\ actor[q].pc = "pause" -> "paused"
                      [] OTHER -> "enabled"]
    /\ Return(q)
    /\ UNCHANGED <<trun, run, claimed, fired, crashes, errors>>

\* update_scheduled_task with a new schedule, which must lie in the future; a
\* task that was read as ended is armed again.
Reschedule(q) ==
    LET t == actor[q].task
        row == task[t]
        armed == IF actor[q].saw \in Terminal THEN "enabled" ELSE row.status IN
    /\ actor[q].pc = "patch"
    /\ task' = [task EXCEPT ![t] =
            IF row.status = "deleted" THEN row
            ELSE [row EXCEPT !.next = "future", !.at = FutureAt(t), !.status = armed]]
    /\ fired' = [fired EXCEPT ![t] = 0]
    /\ Return(q)
    /\ UNCHANGED <<trun, run, claimed, crashes, errors>>

\* delete_scheduled_task; the rows of its runs stay.
Delete(q, t) ==
    /\ actor[q].pc = "idle" /\ task[t].status # "deleted"
    /\ task' = [task EXCEPT ![t].status = "deleted"]
    /\ actor' = [actor EXCEPT ![q].pc = "done", ![q].task = t]
    /\ UNCHANGED <<trun, run, claimed, fired, crashes, errors>>

RequestNext(q) ==
    \/ \E t \in Tasks, op \in {"pause", "resume", "patch", "check"} : ReadTask(q, t, op)
    \/ SetPaused(q) \/ Reschedule(q)
    \/ \E t \in Tasks : Delete(q, t)

-----------------------------------------------------------------------------
(* The launched runs and handle_run_completion. *)

RowStatus(outcome) == IF outcome = "error" THEN "failed" ELSE outcome

\* The run ends and run_agent calls the hook, which writes the row first.
HookRow(r, outcome) ==
    /\ run[r].pc = "active"
    /\ trun' = [trun EXCEPT ![r].status = RowStatus(outcome)]
    /\ run' = [run EXCEPT ![r] = [pc |-> "hooktask", outcome |-> outcome]]
    /\ UNCHANGED <<task, actor, claimed, fired, crashes, errors>>

\* The run ends without a call of the hook: its task was cancelled before its
\* first step or inside its cleanup (see RunLifecycle).
RunLost(r) ==
    /\ run[r].pc = "active"
    /\ run' = [run EXCEPT ![r].pc = "lost"]
    /\ UNCHANGED <<task, trun, actor, claimed, fired, crashes, errors>>

FinalStatus(outcome) ==
    CASE outcome = "success" -> "completed"
      [] outcome = "interrupted" -> "cancelled"
      [] OTHER -> "failed"

HookTask(r) ==
    LET t == trun[r].task IN
    /\ run[r].pc = "hooktask"
    /\ run' = [run EXCEPT ![r].pc = "done"]
    /\ task' = [task EXCEPT ![t].status =
                    IF @ # "deleted" /\ t \in Once THEN FinalStatus(run[r].outcome) ELSE @]
    /\ UNCHANGED <<trun, actor, claimed, fired, crashes, errors>>

RunEnds(r) == RunLost(r) \/ \E o \in Outcome : HookRow(r, o)

-----------------------------------------------------------------------------
(* Time, and the process. *)

\* An instant comes: tasks that were to run then are due.
Tick(t) ==
    /\ task[t].status # "deleted"
    /\ task[t].next = "future" \/ task[t].at = "future"
    /\ task' = [task EXCEPT ![t].next = IF @ = "future" THEN "due" ELSE @,
                            ![t].at = "due"]
    /\ UNCHANGED <<trun, run, actor, claimed, fired, crashes, errors>>

LeaseExpires(t) ==
    /\ task[t].lease = "held"
    /\ task' = [task EXCEPT ![t].lease = "expired"]
    /\ UNCHANGED <<trun, run, actor, claimed, fired, crashes, errors>>

\* Mutant: start sweeps the rows of the runs only.
StuckNone(t) == FALSE

\* cancel_stuck_once_tasks
Stuck(t) == t \in Once /\ task[t].status = "running" /\ task[t].lease = "none"

\* The process dies with all its runs and requests; start marks the rows left
\* active and cancels the once tasks whose hook is gone, then polls.
Restart ==
    /\ crashes + errors < MaxFaults /\ crashes' = crashes + 1
    /\ actor' = [a \in Actors |-> IF a # Poller /\ actor[a].pc # "idle"
                                  THEN [actor[a] EXCEPT !.pc = "done"] ELSE Idle]
    /\ claimed' = {}
    /\ run' = [r \in Rows |-> IF run[r].pc \in {"active", "hooktask"}
                              THEN [run[r] EXCEPT !.pc = "lost"] ELSE run[r]]
    /\ trun' = [r \in Rows |-> IF trun[r].status \in ActiveRun
                               THEN [trun[r] EXCEPT !.status = "interrupted"] ELSE trun[r]]
    /\ task' = [t \in Tasks |-> IF Stuck(t) THEN [task[t] EXCEPT !.status = "cancelled"]
                                ELSE task[t]]
    /\ UNCHANGED <<fired, errors>>

PollerNext == CountActive \/ Claim \/ DispatchNext \/ PollEnds \/ Dispatch(Poller)

Next ==
    \/ PollerNext
    \/ \E q \in Requests : RequestNext(q) \/ Dispatch(q)
    \/ \E a \in Actors : RepositoryError(a)
    \/ \E r \in Rows : RunEnds(r) \/ HookTask(r)
    \/ \E t \in Tasks : Tick(t) \/ LeaseExpires(t)
    \/ Restart

Spec == Init /\ [][Next]_vars

\* The event loop runs the poller, every handler and every hook; runs end, by
\* themselves or at their recursion limit; time passes.
Fairness ==
    /\ WF_vars(PollerNext)
    /\ \A q \in Requests : WF_vars(SetPaused(q) \/ Reschedule(q) \/ Dispatch(q))
    /\ \A r \in Rows : WF_vars(RunEnds(r)) /\ WF_vars(HookTask(r))
    /\ \A t \in Tasks : WF_vars(Tick(t)) /\ WF_vars(LeaseExpires(t))

FairSpec == Spec /\ Fairness

-----------------------------------------------------------------------------
(* Safety. *)

\* Once the hook has written a row, the row shows how the run ended, also when
\* the launch path resumes after the hook; unless a call of its own failed.
RowTellsOutcome ==
    \A r \in Rows :
        run[r].pc \in {"hooktask", "done"} /\ errors = 0
        => trun[r].status = RowStatus(run[r].outcome)

\* Two scheduled occurrences of one task never execute at the same time, also
\* across a restart and whatever requests do meanwhile.
NoScheduledOverlap ==
    \A q, r \in Rows :
        /\ q # r /\ errors = 0
        /\ run[q].pc = "active" /\ run[r].pc = "active"
        /\ trun[q].task = trun[r].task
        => "manual" \in {trun[q].trigger, trun[r].trigger}

\* A dispatch by a request has got as far as its row.
TriggeredByHand(t) == \E r \in Rows : trun[r].task = t /\ trun[r].trigger = "manual"

\* A once task is launched by the poller at most once for each time it was
\* armed, whatever pauses, resumes and reschedules it meanwhile, as long as no
\* process died between a launch and its record, not both the record and its
\* handler failed, and the task was not triggered by hand: a manual trigger
\* writes back the next_run_at of the row it read, perhaps before the poller
\* served it.
OnceRunsOnce ==
    \A t \in Once :
        crashes = 0 /\ errors <= 1 /\ ~TriggeredByHand(t) => fired[t] <= 1

\* The task exists and no request concerns it.
Untouched(t) == task[t].status # "deleted" /\ \A q \in Requests : actor[q].task # t

-----------------------------------------------------------------------------
(* Liveness. *)

\* A row that is active though nobody will write it: its run was lost, or a
\* repository call failed; it counts against the task and the budget.
Orphan(r) == trun[r].status \in ActiveRun /\ (run[r].pc = "lost" \/ errors > 0)

\* The model's bound on rows is used up.
NoRowsLeft == \A r \in Rows : trun[r].status # "none"

\* A once task that nobody touches ends: it is launched when its time comes,
\* and completes with its run or is given up, also when the process dies at any
\* point of this.
OnceEnds ==
    \A t \in Once :
        Untouched(t) ~> \/ task[t].status \in Terminal \/ ~Untouched(t)
                        \/ NoRowsLeft \/ \E r \in Rows : Orphan(r)

\* A due task that is enabled is dispatched, run or skipped.
DueIsServed ==
    \A t \in Tasks :
        task[t].status = "enabled" /\ task[t].next = "due"
        ~> \/ task[t].status # "enabled" \/ task[t].next # "due"
           \/ NoRowsLeft \/ \E r \in Rows : Orphan(r)

-----------------------------------------------------------------------------
(* What the code says of itself and does not do. *)

\* claim_due_tasks: a task that is running "must stay reclaimable or the task
\* is dead forever".
RunningIsReclaimable ==
    \A t \in Cron :
        task[t].status = "running"
        => \/ task[t].lease # "none" \/ t \in claimed
           \/ \E a \in Actors : actor[a].task = t /\ actor[a].pc \in Dispatching

=============================================================================
