--------------------------- MODULE SchedulerProofs ---------------------------
(***************************************************************************)
(* Scheduler for all sets of tasks and requests and any number of rows and *)
(* faults: the types, the truth of a run's row, no two scheduled           *)
(* occurrences of a task at a time, and a once task's single launch.       *)
(***************************************************************************)
EXTENDS Scheduler, FiniteSetTheorems, TLAPS

\* Where a dispatch has a row of its own.
HasRow == {"launch", "record", "recordtask", "fail", "failtask", "skip", "skiptask"}

\* The row a dispatch works on is its own.
Hand(a) ==
    /\ actor[a].pc \in Dispatching => actor[a].task \in Tasks
    /\ actor[a].pc \in HasRow =>
         /\ actor[a].row \in Rows
         /\ trun[actor[a].row].status # "none"
         /\ trun[actor[a].row].task = actor[a].task
         /\ trun[actor[a].row].trigger = Trigger(a)
    /\ actor[a].pc = "launch" => trun[actor[a].row].status = "queued"
    /\ actor[a].pc \in {"launch", "skip"} \/ (actor[a].pc = "fail" /\ errors = 0)
         => run[actor[a].row].pc = "none"
    /\ a # Poller => actor[a].pc \notin {"claim", "poll", "skipcreate", "skip", "skiptask"}

Hands ==
    /\ \A a \in Actors : Hand(a)
    /\ \A a, b \in Actors :
         a # b /\ actor[a].pc \in HasRow /\ actor[b].pc \in HasRow
         => actor[a].row # actor[b].row
    /\ actor[Poller].pc \in {"idle", "claim", "poll"} \cup Dispatching
    /\ actor[Poller].pc \in Dispatching => actor[Poller].at = "due"

\* A run belongs to a row; unless a call failed, the row is active while the run
\* is and shows its outcome once the hook has written it.
RowRun(r) ==
    /\ trun[r].status = "none" => run[r].pc = "none" /\ trun[r].trigger = "none"
    /\ run[r].pc \in {"hooktask", "done"} => run[r].outcome \in Outcome
    /\ errors = 0 =>
         /\ run[r].pc = "active" => trun[r].status \in ActiveRun
         /\ run[r].pc \in {"hooktask", "done"}
            => trun[r].status = RowStatus(run[r].outcome)

RowsInv == \A r \in Rows : RowRun(r)

\* A row names its task and what triggered it.
Signed == \A r \in Rows : trun[r].status # "none" =>
              trun[r].task \in Tasks /\ trun[r].trigger # "none"

\* An occurrence of task t that is not over.
Occurs(r, t) ==
    trun[r].status \in ActiveRun /\ trun[r].trigger = "scheduled" /\ trun[r].task = t

\* Two occurrences of a task are open at a time only while the poller is about
\* to mark its own as skipped.
OverlapInv ==
    /\ actor[Poller].pc = "create" => \A r \in Rows : ~Occurs(r, actor[Poller].task)
    /\ errors = 0 =>
       \A t \in Tasks : \A q, r \in Rows :
         q # r /\ Occurs(q, t) /\ Occurs(r, t)
         => actor[Poller].pc = "skip" /\ actor[Poller].row \in {q, r}

\* A task that will not be claimed again unless somebody arms it.
Spent(t) == task[t].next = "none" \/ task[t].status = "deleted"

\* The poller has task t in hand.
Dispatches(t) == actor[Poller].pc \in Dispatching /\ actor[Poller].task = t

\* A once task that was launched is not claimed, and is spent once the dispatch
\* that launched it is over; this one is past the launch.
Launched(t) ==
    /\ fired[t] <= 1 /\ t \notin claimed
    /\ Dispatches(t) =>
         \/ actor[Poller].pc \in {"record", "recordtask"}
         \/ actor[Poller].pc \in {"fail", "failtask"} /\ errors = 1
    /\ Dispatches(t) \/ Spent(t)

OnceInv ==
    /\ \A t \in claimed : ~Dispatches(t)
    /\ \A t \in Once :
         crashes = 0 /\ errors <= 1 /\ ~TriggeredByHand(t) /\ fired[t] > 0 => Launched(t)

\* The inductive invariant.
SInv == TypeOK /\ Hands /\ RowsInv /\ Signed /\ OverlapInv /\ OnceInv

-----------------------------------------------------------------------------
(* Types. *)

\* The rows counted against max_concurrent_runs are finitely many.
LEMMA CountType ==
    Cardinality({r \in Rows : trun[r].status \in ActiveRun}) \in Nat
  <1>1. IsFiniteSet(Rows)
    BY FS_Interval, SchedulerAssumption DEF Rows
  <1>2. {r \in Rows : trun[r].status \in ActiveRun} \subseteq Rows
    OBVIOUS
  <1>3. QED
    BY <1>1, <1>2, FS_Subset, FS_CardinalityType

\* A step that only moves one actor, to a proper state.
LEMMA ActorMoves ==
    ASSUME TypeOK, NEW a \in Actors, NEW new \in Actor,
           actor' = [actor EXCEPT ![a] = new]
    PROVE  /\ actor' \in [Actors -> Actor] /\ actor'[a] = new
           /\ \A b \in Actors : b # a => actor'[b] = actor[b]
  BY DEF TypeOK

\* The fields of an actor.
LEMMA ActorFields ==
    ASSUME TypeOK, NEW a \in Actors
    PROVE  /\ actor[a] \in Actor /\ actor[a].task \in Tasks \cup {NoTask}
           /\ actor[a].saw \in TaskStatus /\ actor[a].at \in {"future", "due"}
           /\ actor[a].row \in 0..MaxRows /\ actor[a].budget \in 0..MaxConcurrent
           /\ \A pc \in {"idle", "claim", "poll", "pause", "resume", "patch", "done"}
                          \cup Dispatching : [actor[a] EXCEPT !.pc = pc] \in Actor
           /\ Idle \in Actor /\ [Idle EXCEPT !.pc = "poll"] \in Actor
  <1>1. actor[a] \in Actor
    BY DEF TypeOK
  <1>2. 0 \in 0..MaxRows /\ 0 \in 0..MaxConcurrent
    BY SchedulerAssumption
  <1>3. Idle \in Actor /\ [Idle EXCEPT !.pc = "poll"] \in Actor
    BY <1>2 DEF Idle, Actor, TaskStatus
  <1>4. QED
    BY <1>1, <1>3 DEF Actor

\* Going on, and returning from dispatch_task.
LEMMA GotoType ==
    ASSUME TypeOK, NEW a \in Actors,
           NEW pc \in {"idle", "claim", "poll", "pause", "resume", "patch", "done"}
                        \cup Dispatching,
           Goto(a, pc)
    PROVE  /\ actor' \in [Actors -> Actor] /\ actor'[a] = [actor[a] EXCEPT !.pc = pc]
           /\ \A b \in Actors : b # a => actor'[b] = actor[b]
  <1>1. actor' = [actor EXCEPT ![a] = [actor[a] EXCEPT !.pc = pc]]
    BY DEF Goto, TypeOK
  <1>2. [actor[a] EXCEPT !.pc = pc] \in Actor
    BY ActorFields
  <1>3. QED
    BY <1>1, <1>2, ActorMoves

\* Returning from dispatch_task.
LEMMA ReturnType ==
    ASSUME TypeOK, NEW a \in Actors, Return(a)
    PROVE  /\ actor' \in [Actors -> Actor]
           /\ actor'[a] = IF a = Poller THEN [Idle EXCEPT !.pc = "poll"]
                          ELSE [actor[a] EXCEPT !.pc = "done"]
           /\ \A b \in Actors : b # a => actor'[b] = actor[b]
  <1>1. PICK new : new = IF a = Poller THEN [Idle EXCEPT !.pc = "poll"]
                         ELSE [actor[a] EXCEPT !.pc = "done"]
    OBVIOUS
  <1>2. new \in Actor
    BY <1>1, ActorFields
  <1>3. actor' = [actor EXCEPT ![a] = new]
    BY <1>1 DEF Return, TypeOK
  <1>4. QED
    BY <1>1, <1>2, <1>3, ActorMoves

\* One task row gets a new value.
LEMMA TaskType ==
    ASSUME TypeOK, NEW t, NEW new, task' = [task EXCEPT ![t] = new],
           t \in Tasks => new \in TaskRow
    PROVE  task' \in [Tasks -> TaskRow]
  BY DEF TypeOK

\* One row of a run gets a new status.
LEMMA RunRowType ==
    ASSUME TypeOK, NEW r, NEW status \in ActiveRun \cup TerminalRun,
           trun' = [trun EXCEPT ![r].status = status]
    PROVE  trun' \in [Rows -> RunRow]
  BY DEF TypeOK, RunRow

\* What update_after_launch writes.
LEMMA AfterLaunchType ==
    ASSUME TypeOK, NEW t \in Tasks, NEW status \in TaskStatus, NEW next \in Instant,
           NEW protect \in BOOLEAN, UpdateAfterLaunch(t, status, next, protect)
    PROVE  /\ task' \in [Tasks -> TaskRow]
           /\ task[t].status = "deleted" => task'[t] = task[t]
           /\ task[t].status # "deleted" => task'[t].next = next
           /\ \A u \in Tasks \ {t} : task'[u] = task[u]
  <1>1. task[t] \in TaskRow /\ task \in [Tasks -> TaskRow]
    BY DEF TypeOK
  <1>2. PICK new : new = IF task[t].status = "deleted" THEN task[t]
        ELSE [task[t] EXCEPT
                !.status = IF protect /\ task[t].status \in Terminal THEN task[t].status
                           ELSE status,
                !.next = next, !.lease = "none"]
    OBVIOUS
  <1>3. task' = [task EXCEPT ![t] = new]
    BY <1>2 DEF UpdateAfterLaunch
  <1>4. new \in TaskRow
    BY <1>1, <1>2 DEF TaskRow
  <1>5. /\ task[t].status = "deleted" => new = task[t]
        /\ task[t].status # "deleted" => new.next = next
    BY <1>1, <1>2 DEF TaskRow
  <1>6. QED
    BY <1>1, <1>3, <1>4, <1>5

\* The statuses and instants a dispatch may write are proper ones.
LEMMA DispatchValues ==
    ASSUME TypeOK, NEW a \in Actors
    PROVE  /\ StatusAfterLaunch(a) \in TaskStatus /\ StatusAfterFailure(a) \in TaskStatus
           /\ NextRunAt(actor[a].task, actor[a].at) \in Instant
  <1>1. actor[a].saw \in TaskStatus
    BY ActorFields
  <1>2. StatusAfterLaunch(a) \in TaskStatus
    <2>1. StatusAfterLaunch(a) \in {"running", "paused", "enabled"}
      <3>1. CASE actor[a].task \in Once
        BY <3>1, SchedulerAssumption DEF StatusAfterLaunch
      <3>2. CASE /\ actor[a].task \notin Once /\ actor[a].task \in Cron
                 /\ a # Poller /\ actor[a].saw = "paused"
        BY <3>2 DEF StatusAfterLaunch
      <3>3. CASE /\ actor[a].task \notin Once
                 /\ ~(actor[a].task \in Cron /\ a # Poller /\ actor[a].saw = "paused")
        BY <3>3 DEF StatusAfterLaunch
      <3>4. QED
        BY <3>1, <3>2, <3>3
    <2>2. QED
      BY <2>1 DEF TaskStatus
  <1>3. StatusAfterFailure(a) \in TaskStatus
    <2>1. CASE a # Poller
      BY <1>1, <2>1 DEF StatusAfterFailure
    <2>2. CASE a = Poller
      <3>1. StatusAfterFailure(a) \in {"failed", "enabled"}
        BY <2>2 DEF StatusAfterFailure
      <3>2. QED
        BY <3>1 DEF TaskStatus, Terminal
    <2>3. QED
      BY <2>1, <2>2
  <1>4. NextRunAt(actor[a].task, actor[a].at) \in Instant
    BY DEF NextRunAt, Instant
  <1>5. QED
    BY <1>2, <1>3, <1>4

\* The poller's own steps.
LEMMA PollerTypes ==
    ASSUME TypeOK, CountActive \/ Claim \/ DispatchNext \/ PollEnds
    PROVE  TypeOK'
  <1>0. /\ Poller \in Actors /\ actor[Poller] \in Actor /\ Idle \in Actor
        /\ [Idle EXCEPT !.pc = "poll"] \in Actor
    BY ActorFields DEF Actors
  <1>1. CASE CountActive
    <2>1. PICK n \in Nat : n = Cardinality({r \in Rows : trun[r].status \in ActiveRun})
      BY CountType
    <2>2. PICK b \in 0..MaxConcurrent : b = MaxConcurrent - n
      BY <1>1, <2>1, SchedulerAssumption DEF CountActive
    <2>3. [actor[Poller] EXCEPT !.pc = "claim", !.budget = b] \in Actor
      BY <1>0 DEF Actor
    <2>4. actor' = [actor EXCEPT ![Poller] = [actor[Poller] EXCEPT !.pc = "claim",
                                                                   !.budget = b]]
      BY <1>0, <1>1, <2>1, <2>2 DEF CountActive, TypeOK
    <2>5. QED
      BY <1>0, <1>1, <2>3, <2>4, ActorMoves DEF CountActive, TypeOK
  <1>2. CASE Claim
    <2>1. PICK c \in SUBSET Tasks :
            /\ claimed' = c
            /\ task' = [t \in Tasks |->
                 IF t \in c THEN [task[t] EXCEPT !.status = "running", !.lease = "held"]
                 ELSE task[t]]
      BY <1>2 DEF Claim
    <2>2. task' \in [Tasks -> TaskRow]
      BY <2>1 DEF TypeOK, TaskRow, TaskStatus
    <2>3. actor' = [actor EXCEPT ![Poller] = [Idle EXCEPT !.pc = "poll"]]
      BY <1>2 DEF Claim
    <2>4. QED
      BY <1>0, <1>2, <2>1, <2>2, <2>3, ActorMoves DEF Claim, TypeOK
  <1>3. CASE DispatchNext
    <2>1. PICK t \in claimed :
            /\ claimed' = claimed \ {t}
            /\ actor' = [actor EXCEPT ![Poller].pc = "check", ![Poller].task = t,
                            ![Poller].saw = "running", ![Poller].at = "due"]
      BY <1>3 DEF DispatchNext
    <2>2. PICK new : new = [actor[Poller] EXCEPT !.pc = "check", !.task = t,
                                                 !.saw = "running", !.at = "due"]
      OBVIOUS
    <2>3. new \in Actor
      BY <1>0, <2>2 DEF TypeOK, Actor, TaskStatus, Dispatching
    <2>4. actor' = [actor EXCEPT ![Poller] = new]
      BY <1>0, <2>1, <2>2 DEF TypeOK
    <2>5. QED
      BY <1>0, <1>3, <2>1, <2>3, <2>4, ActorMoves DEF DispatchNext, TypeOK
  <1>4. CASE PollEnds
    BY <1>0, <1>4, ActorMoves DEF PollEnds, TypeOK
  <1>5. QED
    BY <1>1, <1>2, <1>3, <1>4

\* A row is created: it is the dispatch's own.
LEMMA CreateType ==
    ASSUME TypeOK, NEW a \in Actors, CreateRow(a)
    PROVE  \E r \in Rows :
             /\ trun[r].status = "none"
             /\ trun' = [trun EXCEPT ![r] = [task |-> actor[a].task, trigger |-> Trigger(a),
                                             status |-> "queued"]]
             /\ trun' \in [Rows -> RunRow] /\ actor' \in [Actors -> Actor]
             /\ actor'[a].row = r /\ actor'[a].task = actor[a].task
             /\ actor'[a].at = actor[a].at
             /\ actor[a].pc = "create" => actor'[a].pc = "launch"
             /\ actor[a].pc = "skipcreate" => actor'[a].pc = "skip"
             /\ \A b \in Actors : b # a => actor'[b] = actor[b]
  <1>1. PICK r \in Rows :
          /\ trun[r].status = "none"
          /\ trun' = [trun EXCEPT ![r] = [task |-> actor[a].task, trigger |-> Trigger(a),
                                          status |-> "queued"]]
          /\ actor' = [actor EXCEPT ![a].row = r,
                          ![a].pc = IF @ = "create" THEN "launch" ELSE "skip"]
    BY DEF CreateRow
  <1>2. actor[a] \in Actor
    BY DEF TypeOK
  <1>3. PICK pc \in {"launch", "skip"} :
          pc = IF actor[a].pc = "create" THEN "launch" ELSE "skip"
    OBVIOUS
  <1>4. PICK new : new = [actor[a] EXCEPT !.row = r, !.pc = pc]
    OBVIOUS
  <1>5. /\ new \in Actor /\ new.row = r /\ new.task = actor[a].task /\ new.pc = pc
        /\ new.at = actor[a].at
    <2>1. r \in 0..MaxRows
      BY SchedulerAssumption DEF Rows
    <2>2. QED
      BY <1>2, <1>4, <2>1 DEF Actor, Dispatching
  <1>6. actor' = [actor EXCEPT ![a] = new]
    BY <1>1, <1>2, <1>3, <1>4 DEF TypeOK, Actor
  <1>7. trun' \in [Rows -> RunRow]
    BY <1>1, <1>2 DEF TypeOK, RunRow, Actor, Trigger, ActiveRun
  <1>8. QED
    BY <1>1, <1>3, <1>5, <1>6, <1>7, ActorMoves

\* dispatch_task.
LEMMA DispatchTypes ==
    ASSUME TypeOK, NEW a \in Actors, actor[a].pc \in Dispatching => actor[a].task \in Tasks,
           Dispatch(a)
    PROVE  TypeOK'
  <1>1. CASE CheckOverlap(a)
    <2>1. Goto(a, "create") \/ Goto(a, "skipcreate") \/ Return(a)
      BY <1>1 DEF CheckOverlap
    <2>2. actor' \in [Actors -> Actor]
      BY <2>1, GotoType, ReturnType DEF Dispatching
    <2>3. QED
      BY <1>1, <2>2 DEF CheckOverlap, TypeOK
  <1>2. CASE CreateRow(a)
    BY <1>2, CreateType DEF CreateRow, TypeOK
  <1>3. CASE Launch(a)
    <2>1. actor' \in [Actors -> Actor]
      BY <1>3, GotoType DEF Launch, Dispatching
    <2>2. run' \in [Rows -> GatewayRun]
      BY <1>3 DEF Launch, TypeOK, GatewayRun
    <2>3. fired' \in [Tasks -> Nat]
      <3>1. PICK n \in Nat : n = IF a = Poller /\ actor[a].task \in Once
                                   THEN fired[actor[a].task] + 1 ELSE fired[actor[a].task]
        BY <1>3 DEF Launch, TypeOK, Dispatching
      <3>2. fired' = [fired EXCEPT ![actor[a].task] = n]
        BY <1>3, <3>1 DEF Launch
      <3>3. QED
        BY <3>2 DEF TypeOK
    <2>4. QED
      BY <1>3, <2>1, <2>2, <2>3 DEF Launch, TypeOK
  <1>4. ASSUME NEW conflict \in BOOLEAN, LaunchRaises(a, conflict) PROVE TypeOK'
    <2>1. Goto(a, "skip") \/ Goto(a, "fail")
      BY <1>4 DEF LaunchRaises
    <2>2. actor' \in [Actors -> Actor]
      BY <2>1, GotoType DEF Dispatching
    <2>3. QED
      BY <1>4, <2>2 DEF LaunchRaises, TypeOK
  <1>5. CASE RecordRow(a)
    <2>1. PICK r : r = actor[a].row
      OBVIOUS
    <2>2. actor' \in [Actors -> Actor]
      BY <1>5, GotoType DEF RecordRow, Dispatching
    <2>3. trun' \in [Rows -> RunRow]
      <3>1. trun' = [trun EXCEPT ![r].status =
                        IF trun[r].status \in TerminalRun THEN trun[r].status ELSE "running"]
        BY <1>5, <2>1 DEF RecordRow, UpdateRunning
      <3>2. PICK s \in ActiveRun \cup TerminalRun :
              s = IF trun[r].status \in TerminalRun THEN trun[r].status ELSE "running"
        BY DEF ActiveRun
      <3>3. QED
        BY <3>1, <3>2, RunRowType
    <2>4. QED
      BY <1>5, <2>2, <2>3 DEF RecordRow, TypeOK
  <1>6. CASE RecordTask(a)
    <2>1. task' \in [Tasks -> TaskRow]
      BY <1>6, DispatchValues, AfterLaunchType DEF RecordTask, Dispatching
    <2>2. QED
      BY <1>6, <2>1, ReturnType DEF RecordTask, TypeOK
  <1>7. CASE FailRow(a)
    <2>1. trun' \in [Rows -> RunRow]
      BY <1>7, RunRowType DEF FailRow, TerminalRun
    <2>2. QED
      BY <1>7, <2>1, GotoType DEF FailRow, TypeOK, Dispatching
  <1>8. CASE FailTask(a)
    <2>1. task' \in [Tasks -> TaskRow]
      BY <1>8, DispatchValues, AfterLaunchType DEF FailTask, Dispatching
    <2>2. QED
      BY <1>8, <2>1, ReturnType DEF FailTask, TypeOK
  <1>9. CASE SkipRow(a)
    <2>1. trun' \in [Rows -> RunRow]
      BY <1>9, RunRowType DEF SkipRow, TerminalRun
    <2>2. QED
      BY <1>9, <2>1, GotoType DEF SkipRow, TypeOK, Dispatching
  <1>10. CASE SkipTask(a)
    <2>1. PICK s \in TaskStatus : s = IF actor[a].task \in Once THEN "failed" ELSE "enabled"
      BY DEF TaskStatus, Terminal
    <2>2. task' \in [Tasks -> TaskRow]
      BY <1>10, <2>1, DispatchValues, AfterLaunchType DEF SkipTask, Dispatching
    <2>3. QED
      BY <1>10, <2>2, ReturnType DEF SkipTask, TypeOK
  <1>11. QED
    BY <1>1, <1>2, <1>3, <1>4, <1>5, <1>6, <1>7, <1>8, <1>9, <1>10 DEF Dispatch

\* The requests of the router.
LEMMA RequestTypes ==
    ASSUME TypeOK, NEW q \in Requests, RequestNext(q)
    PROVE  TypeOK'
  <1>0. q \in Actors /\ actor[q] \in Actor /\ actor \in [Actors -> Actor]
    BY DEF Actors, TypeOK
  <1>1. ASSUME NEW t \in Tasks, NEW op \in {"pause", "resume", "patch", "check"},
               ReadTask(q, t, op)
        PROVE  TypeOK'
    <2>1. PICK new : new = [actor[q] EXCEPT !.pc = op, !.task = t,
                               !.saw = task[t].status, !.at = task[t].at]
      OBVIOUS
    <2>2. task[t].status \in TaskStatus /\ task[t].at \in {"future", "due"}
      BY DEF TypeOK, TaskRow
    <2>3. new \in Actor
      BY <1>0, <2>1, <2>2 DEF Actor, Dispatching
    <2>4. actor' = [actor EXCEPT ![q] = new]
      BY <1>0, <1>1, <2>1 DEF ReadTask
    <2>5. QED
      BY <1>0, <1>1, <2>3, <2>4, ActorMoves DEF ReadTask, TypeOK
  <1>2. CASE SetPaused(q)
    <2>1. PICK t : t = actor[q].task
      OBVIOUS
    <2>2. PICK s : s = CASE task[t].status = "deleted" -> "deleted"
                         [] task[t].status # "deleted" /\ actor[q].pc = "pause" -> "paused"
                         [] OTHER -> "enabled"
      OBVIOUS
    <2>3. s \in TaskStatus
      BY <2>2 DEF TaskStatus
    <2>4. task' = [task EXCEPT ![t].status = s]
      BY <1>2, <2>1, <2>2 DEF SetPaused
    <2>5. task' \in [Tasks -> TaskRow]
      BY <2>3, <2>4 DEF TypeOK, TaskRow
    <2>6. QED
      BY <1>0, <1>2, <2>5, ReturnType DEF SetPaused, TypeOK
  <1>3. CASE Reschedule(q)
    <2>1. PICK t : t = actor[q].task
      OBVIOUS
    <2>2. PICK s : s = IF actor[q].saw \in Terminal THEN "enabled" ELSE task[t].status
      OBVIOUS
    <2>3. PICK new : new = IF task[t].status = "deleted" THEN task[t]
            ELSE [task[t] EXCEPT !.next = "future", !.at = FutureAt(t), !.status = s]
      OBVIOUS
    <2>4. task' = [task EXCEPT ![t] = new]
      BY <1>3, <2>1, <2>2, <2>3 DEF Reschedule
    <2>5. ASSUME t \in Tasks PROVE new \in TaskRow
      <3>1. task[t] \in TaskRow /\ task[t].status \in TaskStatus
        BY <2>5 DEF TypeOK, TaskRow
      <3>2. s \in TaskStatus /\ FutureAt(t) \in {"future", "due"}
        BY <2>2, <3>1 DEF TaskStatus, FutureAt
      <3>3. QED
        BY <2>3, <3>1, <3>2 DEF TaskRow, Instant
    <2>6. fired' \in [Tasks -> Nat]
      BY <1>3 DEF Reschedule, TypeOK
    <2>7. task' \in [Tasks -> TaskRow]
      BY <2>4, <2>5, TaskType
    <2>8. actor' \in [Actors -> Actor]
      BY <1>0, <1>3, ReturnType DEF Reschedule
    <2>9. QED
      BY <1>3, <2>6, <2>7, <2>8 DEF Reschedule, TypeOK
  <1>4. ASSUME NEW t \in Tasks, Delete(q, t) PROVE TypeOK'
    <2>1. task' \in [Tasks -> TaskRow]
      BY <1>4 DEF Delete, TypeOK, TaskRow, TaskStatus
    <2>2. PICK new : new = [actor[q] EXCEPT !.pc = "done", !.task = t]
      OBVIOUS
    <2>3. new \in Actor /\ actor' = [actor EXCEPT ![q] = new]
      BY <1>0, <1>4, <2>2 DEF Delete, Actor
    <2>4. QED
      BY <1>0, <1>4, <2>1, <2>3, ActorMoves DEF Delete, TypeOK
  <1>5. QED
    BY <1>1, <1>2, <1>3, <1>4 DEF RequestNext

\* Everything else: failing calls, runs and hooks, time, and a restart.
LEMMA OtherTypes ==
    ASSUME TypeOK,
           \/ \E a \in Actors : RepositoryError(a)
           \/ \E r \in Rows : RunEnds(r) \/ HookTask(r)
           \/ \E t \in Tasks : Tick(t) \/ LeaseExpires(t)
           \/ Restart
    PROVE  TypeOK'
  <1>1. ASSUME NEW a \in Actors, RepositoryError(a) PROVE TypeOK'
    <2>1. errors' \in 0..MaxFaults
      BY <1>1, SchedulerAssumption DEF RepositoryError, TypeOK
    <2>2. CASE Goto(a, "fail") /\ UNCHANGED claimed
      BY <1>1, <2>1, <2>2, GotoType DEF RepositoryError, TypeOK, Dispatching
    <2>3. CASE /\ actor' = [actor EXCEPT ![a] = IF a = Poller THEN Idle
                                                ELSE [@ EXCEPT !.pc = "done"]]
               /\ claimed' = IF a = Poller THEN {} ELSE claimed
      <3>1. PICK new \in Actor : new = IF a = Poller THEN Idle
                                       ELSE [actor[a] EXCEPT !.pc = "done"]
        BY ActorFields
      <3>2. actor' = [actor EXCEPT ![a] = new]
        BY <2>3, <3>1
      <3>3. QED
        BY <1>1, <2>1, <2>3, <3>2, ActorMoves DEF RepositoryError, TypeOK
    <2>4. QED
      BY <1>1, <2>2, <2>3 DEF RepositoryError
  <1>2. ASSUME NEW r \in Rows, RunLost(r) PROVE TypeOK'
    BY <1>2 DEF RunLost, TypeOK, GatewayRun
  <1>3. ASSUME NEW r \in Rows, NEW outcome \in Outcome, HookRow(r, outcome) PROVE TypeOK'
    <2>1. RowStatus(outcome) \in ActiveRun \cup TerminalRun
      BY DEF RowStatus, Outcome, TerminalRun
    <2>2. trun' \in [Rows -> RunRow]
      BY <1>3, <2>1, RunRowType DEF HookRow
    <2>3. run' \in [Rows -> GatewayRun]
      BY <1>3 DEF HookRow, TypeOK, GatewayRun
    <2>4. QED
      BY <1>3, <2>2, <2>3 DEF HookRow, TypeOK
  <1>4. ASSUME NEW r \in Rows, HookTask(r) PROVE TypeOK'
    <2>1. PICK t : t = trun[r].task
      OBVIOUS
    <2>2. PICK s : s = IF task[t].status # "deleted" /\ t \in Once
                         THEN FinalStatus(run[r].outcome) ELSE task[t].status
      OBVIOUS
    <2>3. FinalStatus(run[r].outcome) \in TaskStatus
      <3>1. FinalStatus(run[r].outcome) \in {"completed", "cancelled", "failed"}
        BY DEF FinalStatus
      <3>2. QED
        BY <3>1 DEF TaskStatus, Terminal
    <2>4. task' = [task EXCEPT ![t].status = s]
      BY <1>4, <2>1, <2>2 DEF HookTask
    <2>5. t \in Tasks => s \in TaskStatus
      BY <2>2, <2>3 DEF TypeOK, TaskRow
    <2>6. task' \in [Tasks -> TaskRow]
      BY <2>4, <2>5 DEF TypeOK, TaskRow
    <2>7. run' \in [Rows -> GatewayRun]
      BY <1>4 DEF HookTask, TypeOK, GatewayRun
    <2>8. QED
      BY <1>4, <2>6, <2>7 DEF HookTask, TypeOK
  <1>5. ASSUME NEW t \in Tasks, Tick(t) \/ LeaseExpires(t) PROVE TypeOK'
    <2>1. task \in [Tasks -> TaskRow] /\ task[t] \in TaskRow
      BY DEF TypeOK
    <2>2. task' \in [Tasks -> TaskRow]
      <3>1. CASE Tick(t)
        <4>1. PICK n \in Instant : n = IF task[t].next = "future" THEN "due" ELSE task[t].next
          BY <2>1 DEF TaskRow, Instant
        <4>2. task' = [task EXCEPT ![t].next = n, ![t].at = "due"]
          BY <3>1, <4>1 DEF Tick
        <4>3. QED
          BY <2>1, <4>2 DEF TaskRow
      <3>2. CASE LeaseExpires(t)
        BY <2>1, <3>2 DEF LeaseExpires, TaskRow
      <3>3. QED
        BY <1>5, <3>1, <3>2
    <2>3. UNCHANGED <<trun, run, actor, claimed, fired, crashes, errors>>
      BY <1>5 DEF Tick, LeaseExpires
    <2>4. QED
      BY <2>2, <2>3 DEF TypeOK
  <1>6. CASE Restart
    <2>1. crashes' \in 0..MaxFaults
      BY <1>6, SchedulerAssumption DEF Restart, TypeOK
    <2>2. ASSUME NEW a \in Actors
          PROVE  (IF a # Poller /\ actor[a].pc # "idle"
                    THEN [actor[a] EXCEPT !.pc = "done"] ELSE Idle) \in Actor
      BY ActorFields
    <2>3. actor' \in [Actors -> Actor]
      BY <1>6, <2>2 DEF Restart
    <2>4. run' \in [Rows -> GatewayRun]
      BY <1>6 DEF Restart, TypeOK, GatewayRun
    <2>5. trun' \in [Rows -> RunRow]
      <3>1. ASSUME NEW r \in Rows
            PROVE  (IF trun[r].status \in ActiveRun
                      THEN [trun[r] EXCEPT !.status = "interrupted"] ELSE trun[r]) \in RunRow
        BY DEF TypeOK, RunRow, TerminalRun
      <3>2. QED
        BY <1>6, <3>1 DEF Restart
    <2>6. task' \in [Tasks -> TaskRow]
      BY <1>6 DEF Restart, TypeOK, TaskRow, TaskStatus, Terminal
    <2>7. QED
      BY <1>6, <2>1, <2>3, <2>4, <2>5, <2>6 DEF Restart, TypeOK
  <1>7. QED
    BY <1>1, <1>2, <1>3, <1>4, <1>5, <1>6 DEF RunEnds

-----------------------------------------------------------------------------
(* Rows. *)

\* A row that was created stays, with its task and its trigger.
RowsKept ==
    \A r \in Rows : trun[r].status # "none" =>
        /\ trun'[r].status # "none"
        /\ trun'[r].task = trun[r].task /\ trun'[r].trigger = trun[r].trigger

\* A change of one row's status keeps all rows.
LEMMA StatusKeepsRows ==
    ASSUME TypeOK, NEW r, NEW s, s # "none", trun' = [trun EXCEPT ![r].status = s]
    PROVE  RowsKept
  BY DEF TypeOK, RunRow, RowsKept

\* Every step keeps the rows.
LEMMA StepKeepsRows ==
    ASSUME TypeOK, [Next]_vars
    PROVE  RowsKept
  <1>1. CASE UNCHANGED trun
    BY <1>1 DEF RowsKept
  <1>2. ASSUME NEW a \in Actors, CreateRow(a) PROVE RowsKept
    <2>1. PICK r \in Rows : /\ trun[r].status = "none"
                            /\ \A q \in Rows : q # r => trun'[q] = trun[q]
      BY <1>2, CreateType DEF TypeOK
    <2>2. QED
      BY <2>1 DEF RowsKept
  <1>3. ASSUME NEW a \in Actors, RecordRow(a) \/ FailRow(a) \/ SkipRow(a) PROVE RowsKept
    <2>1. CASE RecordRow(a)
      <3>1. PICK r : r = actor[a].row
        OBVIOUS
      <3>2. trun' = [trun EXCEPT ![r].status =
                        IF trun[r].status \in TerminalRun THEN trun[r].status ELSE "running"]
        BY <2>1, <3>1 DEF RecordRow, UpdateRunning
      <3>3. PICK s : s = IF trun[r].status \in TerminalRun THEN trun[r].status ELSE "running"
        OBVIOUS
      <3>4. s # "none"
        BY <3>3 DEF TerminalRun
      <3>5. QED
        BY <3>2, <3>3, <3>4, StatusKeepsRows
    <2>2. CASE FailRow(a)
      BY <2>2, StatusKeepsRows DEF FailRow
    <2>3. CASE SkipRow(a)
      BY <2>3, StatusKeepsRows DEF SkipRow
    <2>4. QED
      BY <1>3, <2>1, <2>2, <2>3
  <1>4. ASSUME NEW r \in Rows, NEW o \in Outcome, HookRow(r, o) PROVE RowsKept
    BY <1>4, StatusKeepsRows DEF HookRow, RowStatus, Outcome
  <1>5. CASE Restart
    BY <1>5 DEF Restart, TypeOK, RunRow, RowsKept
  <1>6. CASE UNCHANGED vars
    BY <1>1, <1>6 DEF vars
  <1>7. CASE CountActive \/ Claim \/ DispatchNext \/ PollEnds
    BY <1>1, <1>7 DEF CountActive, Claim, DispatchNext, PollEnds
  <1>8. ASSUME NEW a \in Actors, Dispatch(a) PROVE RowsKept
    BY <1>1, <1>2, <1>3, <1>8
       DEF Dispatch, CheckOverlap, Launch, LaunchRaises, RecordTask, FailTask, SkipTask
  <1>9. ASSUME NEW q \in Requests, RequestNext(q) PROVE RowsKept
    BY <1>1, <1>9 DEF RequestNext, ReadTask, SetPaused, Reschedule, Delete
  <1>10. ASSUME NEW a \in Actors, RepositoryError(a) PROVE RowsKept
    BY <1>1, <1>10 DEF RepositoryError
  <1>11. ASSUME NEW r \in Rows, RunEnds(r) \/ HookTask(r) PROVE RowsKept
    BY <1>1, <1>4, <1>11 DEF RunEnds, RunLost, HookTask
  <1>12. ASSUME NEW t \in Tasks, Tick(t) \/ LeaseExpires(t) PROVE RowsKept
    BY <1>1, <1>12 DEF Tick, LeaseExpires
  <1>13. Poller \in Actors /\ \A q \in Requests : q \in Actors
    BY DEF Actors
  <1>14. QED
    BY <1>5, <1>6, <1>7, <1>8, <1>9, <1>10, <1>11, <1>12, <1>13 DEF Next, PollerNext

\* A run that has not begun stays so, and its row is left alone.
Unbegun(r) ==
    run[r].pc = "none" => run'[r].pc = "none" /\ trun'[r].status = trun[r].status

\* What an actor has in hand is still right when the actor did not move and
\* nobody touched its row before its run began.
LEMMA HandFrame ==
    ASSUME NEW a \in Actors, Hand(a), RowsKept, actor'[a] = actor[a],
           errors' = 0 => errors = 0,
           actor[a].pc \in HasRow => Unbegun(actor[a].row)
    PROVE  Hand(a)'
  <1>1. CASE actor[a].pc \in HasRow
    <2>1. PICK r \in Rows : r = actor[a].row
      BY <1>1 DEF Hand
    <2>2. /\ trun'[r].status # "none"
          /\ trun'[r].task = trun[r].task /\ trun'[r].trigger = trun[r].trigger
      BY <1>1, <2>1 DEF Hand, RowsKept
    <2>3. QED
      BY <1>1, <2>1, <2>2 DEF Hand, Unbegun, Trigger
  <1>2. CASE actor[a].pc \notin HasRow
    BY <1>2 DEF Hand, HasRow
  <1>3. QED
    BY <1>1, <1>2

\* One actor moves, keeping the row it has.
LEMMA HandsFrame ==
    ASSUME Hands, RowsKept, NEW a \in Actors,
           \A b \in Actors : b # a => actor'[b] = actor[b],
           errors' = 0 => errors = 0,
           \A b \in Actors : b # a /\ actor[b].pc \in HasRow => Unbegun(actor[b].row),
           Hand(a)',
           actor'[a].pc \in HasRow => actor[a].pc \in HasRow /\ actor'[a].row = actor[a].row,
           a = Poller =>
             /\ actor'[Poller].pc \in {"idle", "claim", "poll"} \cup Dispatching
             /\ actor'[Poller].pc \in Dispatching => actor'[Poller].at = "due"
    PROVE  Hands'
  <1>1. ASSUME NEW b \in Actors PROVE Hand(b)'
    <2>1. CASE b = a
      BY <2>1
    <2>2. CASE b # a
      <3>1. Hand(b) /\ actor'[b] = actor[b] /\ (actor[b].pc \in HasRow => Unbegun(actor[b].row))
        BY <2>2 DEF Hands
      <3>2. QED
        BY <3>1, HandFrame
    <2>3. QED
      BY <2>1, <2>2
  <1>2. ASSUME NEW b \in Actors, NEW c \in Actors, b # c,
               actor'[b].pc \in HasRow, actor'[c].pc \in HasRow
        PROVE  actor'[b].row # actor'[c].row
    <2>1. /\ actor[b].pc \in HasRow /\ actor'[b].row = actor[b].row
          /\ actor[c].pc \in HasRow /\ actor'[c].row = actor[c].row
      BY <1>2
    <2>2. QED
      BY <1>2, <2>1 DEF Hands
  <1>3. /\ actor'[Poller].pc \in {"idle", "claim", "poll"} \cup Dispatching
        /\ actor'[Poller].pc \in Dispatching => actor'[Poller].at = "due"
    <2>1. Poller \in Actors
      BY DEF Actors
    <2>2. CASE a # Poller
      <3>1. actor'[Poller] = actor[Poller]
        BY <2>1, <2>2
      <3>2. QED
        BY <3>1 DEF Hands
    <2>3. QED
      BY <2>2
  <1>4. QED
    BY <1>1, <1>2, <1>3 DEF Hands

\* A step that leaves rows and runs alone.
LEMMA Moved ==
    ASSUME Hands, RowsInv, UNCHANGED <<trun, run>>, errors' = 0 => errors = 0,
           NEW a \in Actors, \A b \in Actors : b # a => actor'[b] = actor[b],
           Hand(a)',
           actor'[a].pc \in HasRow => actor[a].pc \in HasRow /\ actor'[a].row = actor[a].row,
           a = Poller =>
             /\ actor'[Poller].pc \in {"idle", "claim", "poll"} \cup Dispatching
             /\ actor'[Poller].pc \in Dispatching => actor'[Poller].at = "due"
    PROVE  Hands' /\ RowsInv'
  <1>1. RowsKept /\ \A b \in Actors : actor[b].pc \in HasRow => Unbegun(actor[b].row)
    BY DEF RowsKept, Unbegun
  <1>2. Hands'
    BY <1>1, HandsFrame
  <1>3. RowsInv'
    BY DEF RowsInv, RowRun
  <1>4. QED
    BY <1>2, <1>3

\* The actor has no dispatch in hand afterwards.
LEMMA Leaves ==
    ASSUME Hands, RowsInv, UNCHANGED <<trun, run>>, errors' = 0 => errors = 0,
           NEW a \in Actors, \A b \in Actors : b # a => actor'[b] = actor[b],
           actor'[a].pc \in {"idle", "claim", "poll", "pause", "resume", "patch", "done"},
           a # Poller => actor'[a].pc \notin {"claim", "poll"},
           a = Poller => actor'[a].pc \in {"idle", "claim", "poll"}
    PROVE  Hands' /\ RowsInv'
  <1>1. actor'[a].pc \notin Dispatching /\ actor'[a].pc \notin HasRow
    BY DEF Dispatching, HasRow
  <1>2. Hand(a)'
    BY <1>1 DEF Hand, HasRow, Dispatching
  <1>3. QED
    BY <1>1, <1>2, Moved

\* Nobody moves, and rows and runs stay.
LEMMA HandsUnchanged ==
    ASSUME Hands, RowsInv, UNCHANGED <<actor, trun, run, errors>>
    PROVE  Hands' /\ RowsInv'
  <1>1. Poller \in Actors /\ Hand(Poller)'
    BY DEF Hands, Hand, Actors, Trigger
  <1>2. QED
    BY <1>1, Moved DEF Hands

\* The poller's own steps, requests, failing calls and time.
LEMMA QuietRows ==
    ASSUME TypeOK, Hands, RowsInv,
           \/ CountActive \/ Claim \/ DispatchNext \/ PollEnds
           \/ \E q \in Requests : RequestNext(q)
           \/ \E a \in Actors : RepositoryError(a)
           \/ \E t \in Tasks : Tick(t) \/ LeaseExpires(t)
           \/ UNCHANGED vars
    PROVE  Hands' /\ RowsInv'
  <1>0. /\ Poller \in Actors /\ actor \in [Actors -> Actor]
        /\ actor[Poller] \in Actor /\ errors \in Nat
    BY DEF Actors, TypeOK
  <1>1. CASE CountActive
    <2>1. actor'[Poller].pc = "claim" /\ \A b \in Actors : b # Poller => actor'[b] = actor[b]
      BY <1>0, <1>1 DEF CountActive, Actor
    <2>2. QED
      BY <1>0, <1>1, <2>1, Leaves DEF CountActive
  <1>2. CASE Claim \/ PollEnds
    <2>1. actor'[Poller] \in {Idle, [Idle EXCEPT !.pc = "poll"]}
      BY <1>0, <1>2 DEF Claim, PollEnds
    <2>2. \A b \in Actors : b # Poller => actor'[b] = actor[b]
      BY <1>0, <1>2 DEF Claim, PollEnds
    <2>3. actor'[Poller].pc \in {"idle", "poll"}
      BY <2>1 DEF Idle
    <2>4. QED
      BY <1>0, <1>2, <2>2, <2>3, Leaves DEF Claim, PollEnds
  <1>3. CASE DispatchNext
    <2>1. PICK t \in claimed :
            actor' = [actor EXCEPT ![Poller].pc = "check", ![Poller].task = t,
                         ![Poller].saw = "running", ![Poller].at = "due"]
      BY <1>3 DEF DispatchNext
    <2>2. /\ actor'[Poller].pc = "check" /\ actor'[Poller].task = t
          /\ actor'[Poller].at = "due" /\ t \in Tasks
          /\ \A b \in Actors : b # Poller => actor'[b] = actor[b]
      BY <1>0, <2>1 DEF Actor, TypeOK
    <2>3. Hand(Poller)' /\ "check" \notin HasRow /\ "check" \in Dispatching
      BY <2>2 DEF Hand, HasRow, Dispatching
    <2>4. UNCHANGED <<trun, run, errors>>
      BY <1>3 DEF DispatchNext
    <2>5. QED
      BY <1>0, <2>2, <2>3, <2>4, Moved
  <1>4. ASSUME NEW q \in Requests, RequestNext(q) PROVE Hands' /\ RowsInv'
    <2>0. /\ q \in Actors /\ q # Poller /\ actor[q] \in Actor
          /\ UNCHANGED <<trun, run, errors>>
      BY <1>4, SchedulerAssumption
         DEF Actors, TypeOK, RequestNext, ReadTask, SetPaused, Reschedule, Delete
    <2>1. ASSUME NEW t \in Tasks, NEW op \in {"pause", "resume", "patch", "check"},
                 ReadTask(q, t, op)
          PROVE  Hands' /\ RowsInv'
      <3>1. /\ actor'[q].pc = op /\ actor'[q].task = t
            /\ \A b \in Actors : b # q => actor'[b] = actor[b]
        BY <1>0, <2>0, <2>1 DEF ReadTask, Actor
      <3>2. op \notin HasRow /\ op \notin {"claim", "poll", "skipcreate", "skip", "skiptask"}
        BY DEF HasRow
      <3>3. Hand(q)'
        BY <2>0, <3>1, <3>2 DEF Hand, HasRow
      <3>4. QED
        BY <2>0, <3>1, <3>2, <3>3, Moved
    <2>2. CASE SetPaused(q) \/ Reschedule(q)
      <3>1. Return(q)
        BY <2>2 DEF SetPaused, Reschedule
      <3>2. /\ actor'[q] = [actor[q] EXCEPT !.pc = "done"]
            /\ \A b \in Actors : b # q => actor'[b] = actor[b]
        BY <2>0, <3>1, ReturnType
      <3>3. actor'[q].pc = "done"
        BY <2>0, <3>2 DEF Actor
      <3>4. QED
        BY <2>0, <3>2, <3>3, Leaves
    <2>3. ASSUME NEW t \in Tasks, Delete(q, t) PROVE Hands' /\ RowsInv'
      <3>1. actor'[q].pc = "done" /\ \A b \in Actors : b # q => actor'[b] = actor[b]
        BY <1>0, <2>0, <2>3 DEF Delete, Actor
      <3>2. QED
        BY <2>0, <3>1, Leaves
    <2>4. QED
      BY <1>4, <2>1, <2>2, <2>3 DEF RequestNext
  <1>5. ASSUME NEW a \in Actors, RepositoryError(a) PROVE Hands' /\ RowsInv'
    <2>0. errors' # 0 /\ UNCHANGED <<trun, run>> /\ actor[a] \in Actor
      BY <1>0, <1>5 DEF RepositoryError, TypeOK
    <2>1. CASE actor[a].pc \in {"record", "recordtask"} /\ Goto(a, "fail")
      <3>1. /\ actor'[a] = [actor[a] EXCEPT !.pc = "fail"]
            /\ \A b \in Actors : b # a => actor'[b] = actor[b]
        BY <2>1, GotoType DEF Dispatching
      <3>2. /\ actor'[a].pc = "fail" /\ actor'[a].row = actor[a].row
            /\ actor'[a].task = actor[a].task /\ actor'[a].at = actor[a].at
        BY <2>0, <3>1 DEF Actor
      <3>3. Hand(a)'
        BY <2>0, <2>1, <3>2 DEF Hands, Hand, HasRow, Dispatching, Trigger
      <3>4. actor[a].pc \in HasRow /\ actor[a].pc \in Dispatching /\ "fail" \in Dispatching
        BY <2>1 DEF HasRow, Dispatching
      <3>5. a = Poller => actor'[a].at = "due"
        BY <3>2, <3>4 DEF Hands
      <3>6. QED
        BY <2>0, <3>1, <3>2, <3>3, <3>4, <3>5, Moved
    <2>2. CASE actor' = [actor EXCEPT ![a] = IF a = Poller THEN Idle
                                             ELSE [@ EXCEPT !.pc = "done"]]
      <3>1. /\ actor'[a] = IF a = Poller THEN Idle ELSE [actor[a] EXCEPT !.pc = "done"]
            /\ \A b \in Actors : b # a => actor'[b] = actor[b]
        BY <1>0, <2>2
      <3>2. /\ a = Poller => actor'[a].pc = "idle"
            /\ a # Poller => actor'[a].pc = "done"
        BY <2>0, <3>1 DEF Idle, Actor
      <3>3. QED
        BY <2>0, <3>1, <3>2, Leaves
    <2>3. QED
      BY <1>5, <2>1, <2>2 DEF RepositoryError
  <1>6. CASE (\E t \in Tasks : Tick(t) \/ LeaseExpires(t)) \/ UNCHANGED vars
    <2>1. UNCHANGED <<actor, trun, run, errors>>
      BY <1>6 DEF Tick, LeaseExpires, vars
    <2>2. QED
      BY <2>1, HandsUnchanged
  <1>7. QED
    BY <1>1, <1>2, <1>3, <1>4, <1>5, <1>6

\* A dispatch writes the status of its own row, whose run has not begun or, with
\* protect_terminal, whatever has become of it.
LEMMA OwnRow ==
    ASSUME TypeOK, Hands, RowsInv, RowsKept, NEW a \in Actors, actor[a].pc \in HasRow,
           NEW s \in ActiveRun \cup TerminalRun,
           trun' = [trun EXCEPT ![actor[a].row].status = s],
           NEW pc \in HasRow \ {"launch", "skip", "fail"}, Goto(a, pc),
           a # Poller => pc # "skiptask",
           UNCHANGED <<run, errors>>,
           \/ errors = 0 => run[actor[a].row].pc = "none"
           \/ s = IF trun[actor[a].row].status \in TerminalRun
                    THEN trun[actor[a].row].status ELSE "running"
    PROVE  Hands' /\ RowsInv'
  <1>1. PICK r \in Rows : r = actor[a].row
    BY DEF Hands, Hand
  <1>2. /\ actor'[a] = [actor[a] EXCEPT !.pc = pc] /\ actor[a] \in Actor
        /\ \A b \in Actors : b # a => actor'[b] = actor[b]
    BY GotoType DEF HasRow, Dispatching, TypeOK
  <1>3. /\ actor'[a].pc = pc /\ actor'[a].row = r /\ actor'[a].task = actor[a].task
        /\ actor'[a].at = actor[a].at
    BY <1>1, <1>2 DEF Actor
  <1>4. /\ trun'[r].status = s /\ \A q \in Rows : q # r => trun'[q] = trun[q]
    BY <1>1 DEF TypeOK, RunRow
  <1>5. Hand(a)'
    <2>1. Hand(a)
      BY DEF Hands
    <2>2. /\ trun'[r].task = trun[r].task /\ trun'[r].trigger = trun[r].trigger
          /\ trun'[r].status # "none"
      BY <1>1, <2>1 DEF RowsKept, Hand
    <2>3. pc \in Dispatching /\ actor[a].pc \in Dispatching
      BY DEF HasRow, Dispatching
    <2>4. a # Poller => pc \notin {"claim", "poll", "skipcreate", "skip", "skiptask"}
      BY DEF HasRow
    <2>5. QED
      BY <1>1, <1>3, <2>1, <2>2, <2>3, <2>4 DEF Hand, Trigger
  <1>6. ASSUME NEW b \in Actors, b # a, actor[b].pc \in HasRow
        PROVE  Unbegun(actor[b].row)
    <2>1. actor[b].row # r /\ actor[b].row \in Rows
      BY <1>1, <1>6 DEF Hands, Hand
    <2>2. QED
      BY <1>4, <2>1 DEF Unbegun
  <1>7. Hands'
    <2>1. a = Poller => /\ actor'[Poller].pc \in {"idle", "claim", "poll"} \cup Dispatching
                        /\ actor'[Poller].at = "due"
      BY <1>3 DEF Hands, HasRow, Dispatching
    <2>2. QED
      BY <1>1, <1>2, <1>3, <1>5, <1>6, <2>1, HandsFrame
  <1>8. ASSUME NEW q \in Rows PROVE RowRun(q)'
    <2>1. CASE q # r
      BY <1>4, <2>1 DEF RowsInv, RowRun
    <2>2. CASE q = r
      <3>0. RowRun(r) /\ run'[r] = run[r] /\ errors' = errors /\ s # "none"
        BY DEF RowsInv, ActiveRun, TerminalRun
      <3>1. CASE errors = 0 => run[r].pc = "none"
        BY <1>4, <2>2, <3>0, <3>1 DEF RowRun
      <3>2. CASE s = IF trun[r].status \in TerminalRun THEN trun[r].status ELSE "running"
        <4>1. \A o \in Outcome : RowStatus(o) \in TerminalRun
          BY DEF RowStatus, Outcome, TerminalRun
        <4>2. CASE trun[r].status \in TerminalRun
          BY <1>4, <2>2, <3>0, <3>2, <4>2 DEF RowRun
        <4>3. CASE trun[r].status \notin TerminalRun
          BY <1>4, <2>2, <3>0, <3>2, <4>1, <4>3 DEF RowRun, ActiveRun
        <4>4. QED
          BY <4>2, <4>3
      <3>3. QED
        BY <1>1, <3>1, <3>2
    <2>3. QED
      BY <2>1, <2>2
  <1>9. QED
    BY <1>7, <1>8 DEF RowsInv

\* dispatch_task.
LEMMA DispatchRows ==
    ASSUME TypeOK, Hands, RowsInv, RowsKept, NEW a \in Actors, Dispatch(a)
    PROVE  Hands' /\ RowsInv'
  <1>0. actor \in [Actors -> Actor] /\ actor[a] \in Actor /\ Hand(a)
    BY DEF TypeOK, Hands
  <1>1. ASSUME NEW pc \in Dispatching, Goto(a, pc), UNCHANGED <<trun, run, errors>>,
               actor[a].pc \in Dispatching,
               \/ pc \notin HasRow
               \/ /\ actor[a].pc \in HasRow /\ pc \in {"skip", "fail"}
                  /\ run[actor[a].row].pc = "none",
               a # Poller => pc \notin {"skipcreate", "skip", "skiptask"}
        PROVE  Hands' /\ RowsInv'
    <2>1. /\ actor'[a] = [actor[a] EXCEPT !.pc = pc]
          /\ \A b \in Actors : b # a => actor'[b] = actor[b]
      BY <1>1, GotoType
    <2>2. /\ actor'[a].pc = pc /\ actor'[a].row = actor[a].row
          /\ actor'[a].task = actor[a].task /\ actor'[a].at = actor[a].at
      BY <1>0, <2>1 DEF Actor
    <2>3. pc \notin {"claim", "poll"}
      BY DEF Dispatching
    <2>4. Hand(a)'
      BY <1>0, <1>1, <2>2, <2>3 DEF Hand, HasRow, Trigger
    <2>5. a = Poller => actor'[a].at = "due"
      BY <1>1, <2>2 DEF Hands
    <2>6. QED
      BY <1>1, <2>1, <2>2, <2>4, <2>5, Moved
  <1>2. ASSUME Return(a), UNCHANGED <<trun, run, errors>> PROVE Hands' /\ RowsInv'
    <2>1. /\ actor'[a] = IF a = Poller THEN [Idle EXCEPT !.pc = "poll"]
                         ELSE [actor[a] EXCEPT !.pc = "done"]
          /\ \A b \in Actors : b # a => actor'[b] = actor[b]
      BY <1>2, ReturnType
    <2>2. /\ a = Poller => actor'[a].pc = "poll"
          /\ a # Poller => actor'[a].pc = "done"
      BY <1>0, <2>1 DEF Idle, Actor
    <2>3. QED
      BY <1>2, <2>1, <2>2, Leaves
  <1>3. CASE CheckOverlap(a)
    <2>1. Goto(a, "create") \/ (Goto(a, "skipcreate") /\ a = Poller) \/ Return(a)
      <3>1. CASE ~HasActiveRuns(actor[a].task)
        BY <1>3, <3>1 DEF CheckOverlap
      <3>2. CASE HasActiveRuns(actor[a].task) /\ a = Poller
        BY <1>3, <3>2 DEF CheckOverlap
      <3>3. CASE HasActiveRuns(actor[a].task) /\ a # Poller
        BY <1>3, <3>3 DEF CheckOverlap
      <3>4. QED
        BY <3>1, <3>2, <3>3
    <2>2. UNCHANGED <<trun, run, errors>> /\ actor[a].pc \in Dispatching
      BY <1>3 DEF CheckOverlap, Dispatching
    <2>3. {"create", "skipcreate"} \subseteq Dispatching \ HasRow
      BY DEF Dispatching, HasRow
    <2>4. QED
      BY <1>1, <1>2, <2>1, <2>2, <2>3
  <1>4. CASE CreateRow(a)
    <2>1. PICK r \in Rows :
            /\ trun[r].status = "none"
            /\ trun' = [trun EXCEPT ![r] = [task |-> actor[a].task, trigger |-> Trigger(a),
                                            status |-> "queued"]]
            /\ actor'[a].row = r /\ actor'[a].task = actor[a].task
            /\ actor'[a].at = actor[a].at
            /\ actor[a].pc = "create" => actor'[a].pc = "launch"
            /\ actor[a].pc = "skipcreate" => actor'[a].pc = "skip"
            /\ \A b \in Actors : b # a => actor'[b] = actor[b]
      BY <1>4, CreateType
    <2>2. actor[a].pc \in {"create", "skipcreate"} /\ UNCHANGED <<run, errors>>
      BY <1>4 DEF CreateRow
    <2>3. /\ trun'[r].status = "queued" /\ trun'[r].task = actor[a].task
          /\ trun'[r].trigger = Trigger(a) /\ \A q \in Rows : q # r => trun'[q] = trun[q]
      BY <2>1 DEF TypeOK
    <2>4. RowRun(r) /\ run[r].pc = "none"
      BY <2>1 DEF RowsInv, RowRun
    <2>5. Hand(a)'
      <3>1. actor'[a].pc \in {"launch", "skip"} /\ (actor'[a].pc = "skip" => a = Poller)
        BY <1>0, <2>1, <2>2 DEF Hand
      <3>2. actor[a].task \in Tasks
        BY <1>0, <2>2 DEF Hand, Dispatching
      <3>3. QED
        BY <2>1, <2>2, <2>3, <2>4, <3>1, <3>2 DEF Hand, Trigger
    <2>6. ASSUME NEW b \in Actors, b # a
          PROVE  Hand(b)' /\ (actor[b].pc \in HasRow => actor[b].row # r)
      <3>1. Hand(b) /\ actor'[b] = actor[b]
        BY <2>1, <2>6 DEF Hands
      <3>2. ASSUME actor[b].pc \in HasRow
            PROVE  actor[b].row # r /\ Unbegun(actor[b].row)
        BY <2>1, <2>2, <2>3, <3>1, <3>2 DEF Hand, Unbegun
      <3>3. QED
        BY <2>2, <3>1, <3>2, HandFrame
    <2>7. Hands'
      <3>1. \A b \in Actors : Hand(b)'
        BY <2>5, <2>6
      <3>2. ASSUME NEW b \in Actors, NEW c \in Actors, b # c,
                   actor'[b].pc \in HasRow, actor'[c].pc \in HasRow
            PROVE  actor'[b].row # actor'[c].row
        <4>1. CASE b = a
          BY <2>1, <2>6, <3>2, <4>1
        <4>2. CASE c = a
          BY <2>1, <2>6, <3>2, <4>2
        <4>3. CASE b # a /\ c # a
          BY <2>1, <3>2, <4>3 DEF Hands
        <4>4. QED
          BY <4>1, <4>2, <4>3
      <3>3. /\ actor'[Poller].pc \in {"idle", "claim", "poll"} \cup Dispatching
            /\ actor'[Poller].pc \in Dispatching => actor'[Poller].at = "due"
        <4>1. CASE a = Poller
          BY <2>1, <2>2, <4>1 DEF Hands, Dispatching
        <4>2. CASE a # Poller
          BY <2>1, <4>2 DEF Hands, Actors
        <4>3. QED
          BY <4>1, <4>2
      <3>4. QED
        BY <3>1, <3>2, <3>3 DEF Hands
    <2>8. ASSUME NEW q \in Rows PROVE RowRun(q)'
      BY <2>2, <2>3, <2>4 DEF RowsInv, RowRun
    <2>9. QED
      BY <2>7, <2>8 DEF RowsInv
  <1>5. CASE Launch(a)
    <2>1. PICK r \in Rows : r = actor[a].row
      BY <1>0, <1>5 DEF Launch, Hand, HasRow
    <2>2. /\ actor'[a] = [actor[a] EXCEPT !.pc = "record"]
          /\ \A b \in Actors : b # a => actor'[b] = actor[b]
      BY <1>5, GotoType DEF Launch, Dispatching
    <2>3. /\ actor'[a].pc = "record" /\ actor'[a].row = r
          /\ actor'[a].task = actor[a].task /\ actor'[a].at = actor[a].at
      BY <1>0, <2>1, <2>2 DEF Actor
    <2>4. /\ run'[r].pc = "active" /\ \A q \in Rows : q # r => run'[q] = run[q]
          /\ UNCHANGED <<trun, errors>> /\ actor[a].pc = "launch"
      BY <1>5, <2>1 DEF Launch, TypeOK, GatewayRun
    <2>5. trun[r].status = "queued"
      BY <1>0, <2>1, <2>4 DEF Hand
    <2>6. Hand(a)'
      BY <1>0, <2>1, <2>3, <2>4, <2>5 DEF Hand, HasRow, Dispatching, Trigger
    <2>7. ASSUME NEW b \in Actors, b # a, actor[b].pc \in HasRow PROVE Unbegun(actor[b].row)
      <3>1. actor[b].row # r /\ actor[b].row \in Rows
        BY <2>1, <2>4, <2>7 DEF Hands, Hand, HasRow
      <3>2. QED
        BY <2>4, <3>1 DEF Unbegun
    <2>8. Hands'
      <3>1. "launch" \in HasRow /\ "record" \in Dispatching /\ "launch" \in Dispatching
        BY DEF HasRow, Dispatching
      <3>2. a = Poller => actor'[a].at = "due"
        BY <2>3, <2>4, <3>1 DEF Hands
      <3>3. QED
        BY <2>1, <2>2, <2>3, <2>4, <2>6, <2>7, <3>1, <3>2, HandsFrame
    <2>9. ASSUME NEW q \in Rows PROVE RowRun(q)'
      BY <2>4, <2>5 DEF RowsInv, RowRun, ActiveRun
    <2>10. QED
      BY <2>8, <2>9 DEF RowsInv
  <1>6. ASSUME NEW conflict \in BOOLEAN, LaunchRaises(a, conflict) PROVE Hands' /\ RowsInv'
    <2>1. Goto(a, "fail") \/ (Goto(a, "skip") /\ a = Poller)
      <3>1. CASE conflict /\ a = Poller
        BY <1>6, <3>1 DEF LaunchRaises
      <3>2. CASE ~(conflict /\ a = Poller)
        BY <1>6, <3>2 DEF LaunchRaises
      <3>3. QED
        BY <3>1, <3>2
    <2>2. UNCHANGED <<trun, run, errors>> /\ actor[a].pc = "launch"
      BY <1>6 DEF LaunchRaises
    <2>3. /\ run[actor[a].row].pc = "none" /\ {"skip", "fail", "launch"} \subseteq Dispatching
          /\ "launch" \in HasRow
      BY <1>0, <2>2 DEF Hand, Dispatching, HasRow
    <2>4. QED
      BY <1>1, <2>1, <2>2, <2>3
  <1>7. CASE RecordRow(a)
    <2>1. PICK s \in ActiveRun \cup TerminalRun :
            s = IF trun[actor[a].row].status \in TerminalRun
                  THEN trun[actor[a].row].status ELSE "running"
      BY DEF ActiveRun
    <2>2. trun' = [trun EXCEPT ![actor[a].row].status = s]
      BY <1>7, <2>1 DEF RecordRow, UpdateRunning
    <2>3. /\ actor[a].pc \in HasRow /\ "recordtask" \in HasRow \ {"launch", "skip", "fail"}
          /\ Goto(a, "recordtask") /\ UNCHANGED <<run, errors>>
      BY <1>7 DEF RecordRow, HasRow
    <2>4. QED
      BY <2>1, <2>2, <2>3, OwnRow
  <1>8. CASE FailRow(a)
    <2>1. /\ actor[a].pc \in HasRow /\ "failtask" \in HasRow \ {"launch", "skip", "fail"}
          /\ Goto(a, "failtask") /\ UNCHANGED <<run, errors>>
          /\ trun' = [trun EXCEPT ![actor[a].row].status = "failed"]
      BY <1>8 DEF FailRow, HasRow
    <2>2. errors = 0 => run[actor[a].row].pc = "none"
      BY <1>0, <1>8 DEF Hand, FailRow
    <2>3. "failed" \in ActiveRun \cup TerminalRun
      BY DEF TerminalRun
    <2>4. QED
      BY <2>1, <2>2, <2>3, OwnRow
  <1>9. CASE SkipRow(a)
    <2>1. /\ actor[a].pc \in HasRow /\ "skiptask" \in HasRow \ {"launch", "skip", "fail"}
          /\ Goto(a, "skiptask") /\ UNCHANGED <<run, errors>>
          /\ trun' = [trun EXCEPT ![actor[a].row].status = "skipped"]
      BY <1>9 DEF SkipRow, HasRow
    <2>2. run[actor[a].row].pc = "none" /\ a = Poller
      BY <1>0, <1>9 DEF Hand, SkipRow
    <2>3. "skipped" \in ActiveRun \cup TerminalRun
      BY DEF TerminalRun
    <2>4. QED
      BY <2>1, <2>2, <2>3, OwnRow
  <1>10. CASE RecordTask(a) \/ FailTask(a) \/ SkipTask(a)
    BY <1>2, <1>10 DEF RecordTask, FailTask, SkipTask
  <1>11. QED
    BY <1>3, <1>4, <1>5, <1>6, <1>7, <1>8, <1>9, <1>10 DEF Dispatch

\* Runs, their hooks, and a restart.
LEMMA RunRows ==
    ASSUME TypeOK, Hands, RowsInv, RowsKept,
           (\E r \in Rows : RunEnds(r) \/ HookTask(r)) \/ Restart
    PROVE  Hands' /\ RowsInv'
  <1>1. ASSUME NEW r \in Rows, UNCHANGED <<actor, errors>>,
               run[r].pc # "none", run'[r].pc # "none",
               \A q \in Rows : q # r => trun'[q] = trun[q] /\ run'[q] = run[q]
        PROVE  Hands'
    <2>1. Poller \in Actors
      BY DEF Actors
    <2>2. ASSUME NEW b \in Actors, actor[b].pc \in HasRow PROVE Unbegun(actor[b].row)
      <3>1. actor[b].row \in Rows
        BY <2>2 DEF Hands, Hand
      <3>2. QED
        BY <1>1, <3>1 DEF Unbegun
    <2>3. Hand(Poller)'
      BY <1>1, <2>1, <2>2, HandFrame DEF Hands
    <2>4. QED
      BY <1>1, <2>1, <2>2, <2>3, HandsFrame DEF Hands
  <1>2. ASSUME NEW r \in Rows, RunLost(r) PROVE Hands' /\ RowsInv'
    <2>1. /\ run[r].pc = "active" /\ run'[r].pc = "lost" /\ run'[r].outcome = run[r].outcome
          /\ \A q \in Rows : q # r => run'[q] = run[q]
          /\ UNCHANGED <<actor, trun, errors>>
      BY <1>2 DEF RunLost, TypeOK, GatewayRun
    <2>2. RowsInv'
      BY <2>1 DEF RowsInv, RowRun
    <2>3. QED
      BY <1>1, <2>1, <2>2
  <1>3. ASSUME NEW r \in Rows, NEW o \in Outcome, HookRow(r, o) PROVE Hands' /\ RowsInv'
    <2>1. /\ run[r].pc = "active" /\ run'[r].pc = "hooktask" /\ run'[r].outcome = o
          /\ trun'[r].status = RowStatus(o) /\ trun'[r].trigger = trun[r].trigger
          /\ \A q \in Rows : q # r => run'[q] = run[q] /\ trun'[q] = trun[q]
          /\ UNCHANGED <<actor, errors>>
      BY <1>3 DEF HookRow, TypeOK, GatewayRun, RunRow
    <2>2. RowStatus(o) # "none"
      BY DEF RowStatus, Outcome
    <2>3. RowsInv'
      BY <2>1, <2>2 DEF RowsInv, RowRun
    <2>4. QED
      BY <1>1, <2>1, <2>3
  <1>4. ASSUME NEW r \in Rows, HookTask(r) PROVE Hands' /\ RowsInv'
    <2>1. /\ run[r].pc = "hooktask" /\ run'[r].pc = "done"
          /\ run'[r].outcome = run[r].outcome
          /\ \A q \in Rows : q # r => run'[q] = run[q]
          /\ UNCHANGED <<actor, trun, errors>>
      BY <1>4 DEF HookTask, TypeOK, GatewayRun
    <2>2. RowsInv'
      BY <2>1 DEF RowsInv, RowRun
    <2>3. QED
      BY <1>1, <2>1, <2>2
  <1>5. CASE Restart
    <2>1. ASSUME NEW a \in Actors
          PROVE  /\ actor'[a].pc \in {"idle", "done"}
                 /\ a = Poller => actor'[a].pc = "idle"
      BY <1>5 DEF Restart, TypeOK, Actor, Idle
    <2>2. ASSUME NEW a \in Actors PROVE Hand(a)' /\ actor'[a].pc \notin HasRow
      BY <2>1 DEF Hand, HasRow, Dispatching
    <2>3. Hands'
      <3>1. Poller \in Actors
        BY DEF Actors
      <3>2. "idle" \notin Dispatching
        BY DEF Dispatching
      <3>3. QED
        BY <2>1, <2>2, <3>1, <3>2 DEF Hands
    <2>4. ASSUME NEW r \in Rows PROVE RowRun(r)'
      <3>1. /\ run'[r] = IF run[r].pc \in {"active", "hooktask"}
                           THEN [run[r] EXCEPT !.pc = "lost"] ELSE run[r]
            /\ trun'[r] = IF trun[r].status \in ActiveRun
                            THEN [trun[r] EXCEPT !.status = "interrupted"] ELSE trun[r]
            /\ errors' = errors
        BY <1>5 DEF Restart
      <3>2. run[r] \in GatewayRun /\ trun[r] \in RunRow /\ RowRun(r)
        BY DEF TypeOK, RowsInv
      <3>3. RowStatus(run[r].outcome) \notin ActiveRun
               \/ run[r].outcome \notin Outcome
        BY DEF RowStatus, Outcome, ActiveRun
      <3>4. /\ run'[r].pc # "active" /\ run'[r].pc # "hooktask"
            /\ run'[r].pc = "done" => run[r].pc = "done" /\ run'[r].outcome = run[r].outcome
            /\ run[r].pc = "none" => run'[r].pc = "none"
        BY <3>1, <3>2 DEF GatewayRun
      <3>5. /\ trun'[r].status = "none" => trun[r].status = "none" /\ trun'[r] = trun[r]
            /\ trun[r].status \notin ActiveRun => trun'[r] = trun[r]
        BY <3>1, <3>2 DEF RunRow
      <3>6. QED
        BY <3>1, <3>2, <3>3, <3>4, <3>5 DEF RowRun
    <2>5. QED
      BY <2>3, <2>4 DEF RowsInv
  <1>6. QED
    BY <1>2, <1>3, <1>4, <1>5 DEF RunEnds

-----------------------------------------------------------------------------
(* Overlaps. *)

\* No occurrence begins, and the poller neither comes to its create nor leaves
\* its skip.
LEMMA OverlapFrame ==
    ASSUME OverlapInv, errors' = 0 => errors = 0,
           \A r \in Rows, t \in Tasks : Occurs(r, t)' => Occurs(r, t),
           actor[Poller].pc = "create" => actor[Poller].task \in Tasks,
           actor'[Poller].pc = "create" =>
             actor[Poller].pc = "create" /\ actor'[Poller].task = actor[Poller].task,
           actor[Poller].pc = "skip" =>
             actor'[Poller].pc = "skip" /\ actor'[Poller].row = actor[Poller].row
    PROVE  OverlapInv'
  <1>1. ASSUME actor'[Poller].pc = "create", NEW r \in Rows
        PROVE  ~Occurs(r, actor[Poller].task)'
    BY <1>1 DEF OverlapInv
  <1>2. ASSUME errors' = 0, NEW t \in Tasks, NEW q \in Rows, NEW r \in Rows, q # r,
               Occurs(q, t)', Occurs(r, t)'
        PROVE  actor'[Poller].pc = "skip" /\ actor'[Poller].row \in {q, r}
    <2>1. Occurs(q, t) /\ Occurs(r, t) /\ errors = 0
      BY <1>2
    <2>2. actor[Poller].pc = "skip" /\ actor[Poller].row \in {q, r}
      BY <1>2, <2>1 DEF OverlapInv
    <2>3. QED
      BY <2>2
  <1>3. ASSUME actor'[Poller].pc = "create", NEW r \in Rows
        PROVE  ~(/\ trun'[r].status \in ActiveRun /\ trun'[r].trigger = "scheduled"
                 /\ trun'[r].task = actor'[Poller].task)
    BY <1>1, <1>3 DEF Occurs
  <1>4. QED
    BY <1>2, <1>3 DEF OverlapInv, Occurs

\* A step that begins no occurrence.
LEMMA NoNewOccurrence ==
    ASSUME TypeOK, RowsKept, NEW r \in Rows, NEW t,
           \/ trun'[r] = trun[r]
           \/ trun'[r].status \notin ActiveRun
           \/ trun'[r].trigger # "scheduled"
           \/ trun[r].status \in ActiveRun,
           Occurs(r, t)'
    PROVE  Occurs(r, t)
  <1>1. CASE trun'[r] = trun[r]
    BY <1>1 DEF Occurs
  <1>2. CASE trun[r].status \in ActiveRun
    <2>1. trun[r].status # "none"
      BY <1>2 DEF ActiveRun
    <2>2. QED
      BY <1>2, <2>1 DEF Occurs, RowsKept
  <1>3. QED
    BY <1>1, <1>2 DEF Occurs

\* One row's status is written by the one who has it in hand, or by its hook.
LEMMA OwnOccurrence ==
    ASSUME TypeOK, RowsKept, NEW w \in Rows,
           \/ \E s : s \notin ActiveRun /\ trun' = [trun EXCEPT ![w].status = s]
           \/ trun[w].status # "none" /\ UpdateRunning(w)
    PROVE  \A r \in Rows, t \in Tasks : Occurs(r, t)' => Occurs(r, t)
  <1>1. SUFFICES ASSUME NEW r \in Rows
                 PROVE  \/ trun'[r] = trun[r]
                        \/ trun'[r].status \notin ActiveRun
                        \/ trun[r].status \in ActiveRun
    BY NoNewOccurrence
  <1>2. CASE \E s : s \notin ActiveRun /\ trun' = [trun EXCEPT ![w].status = s]
    BY <1>2 DEF TypeOK, RunRow
  <1>3. CASE trun[w].status # "none" /\ UpdateRunning(w)
    <2>1. r # w => trun'[r] = trun[r]
      BY <1>3 DEF UpdateRunning, TypeOK
    <2>2. trun[w].status \in TerminalRun => trun'[w] = trun[w]
      BY <1>3 DEF UpdateRunning, TypeOK, RunRow
    <2>3. trun[w].status \in ActiveRun \cup TerminalRun
      BY <1>3 DEF TypeOK, RunRow
    <2>4. QED
      BY <2>1, <2>2, <2>3
  <1>4. QED
    BY <1>2, <1>3

\* A dispatch.
LEMMA DispatchOverlap ==
    ASSUME TypeOK, Hands, RowsInv, RowsKept, OverlapInv, NEW a \in Actors, Dispatch(a)
    PROVE  OverlapInv'
  <1>0. /\ actor \in [Actors -> Actor] /\ actor[a] \in Actor /\ Hand(a)
        /\ Poller \in Actors /\ Hand(Poller)
    BY DEF TypeOK, Hands, Actors
  <1>1. actor[Poller].pc = "create" => actor[Poller].task \in Tasks
    BY <1>0 DEF Hand, Dispatching
  <1>2. errors' = errors
    BY DEF Dispatch, CheckOverlap, CreateRow, Launch, LaunchRaises, RecordRow, RecordTask,
           FailRow, FailTask, SkipRow, SkipTask
  <1>3. ASSUME NEW pc, Goto(a, pc), pc # "create", actor[a].pc # "skip",
               pc \in Dispatching,
               \A r \in Rows, t \in Tasks : Occurs(r, t)' => Occurs(r, t)
        PROVE  OverlapInv'
    <2>1. /\ actor'[a] = [actor[a] EXCEPT !.pc = pc]
          /\ \A b \in Actors : b # a => actor'[b] = actor[b]
      BY <1>3, GotoType
    <2>2. actor'[a].pc = pc
      BY <1>0, <2>1 DEF Actor
    <2>3. QED
      BY <1>0, <1>1, <1>2, <1>3, <2>1, <2>2, OverlapFrame
  <1>4. ASSUME Return(a), actor[a].pc # "skip",
               \A r \in Rows, t \in Tasks : Occurs(r, t)' => Occurs(r, t)
        PROVE  OverlapInv'
    <2>1. /\ actor'[a] = IF a = Poller THEN [Idle EXCEPT !.pc = "poll"]
                         ELSE [actor[a] EXCEPT !.pc = "done"]
          /\ \A b \in Actors : b # a => actor'[b] = actor[b]
      BY <1>4, ReturnType
    <2>2. a = Poller => actor'[a].pc = "poll"
      BY <2>1 DEF Idle
    <2>3. QED
      BY <1>0, <1>1, <1>2, <1>4, <2>1, <2>2, OverlapFrame
  <1>5. CASE /\ UNCHANGED trun
             /\ \/ CheckOverlap(a) \/ Launch(a) \/ RecordTask(a) \/ FailTask(a) \/ SkipTask(a)
                \/ \E conflict \in BOOLEAN : LaunchRaises(a, conflict)
    <2>0. \A r \in Rows, t \in Tasks : Occurs(r, t)' => Occurs(r, t)
      BY <1>5 DEF Occurs
    <2>1. CASE CheckOverlap(a)
      <3>0. actor[a].pc = "check"
        BY <2>1 DEF CheckOverlap
      <3>1. CASE ~HasActiveRuns(actor[a].task)
        <4>1. Goto(a, "create")
          BY <2>1, <3>1 DEF CheckOverlap
        <4>2. /\ actor'[a] = [actor[a] EXCEPT !.pc = "create"]
              /\ \A b \in Actors : b # a => actor'[b] = actor[b]
          BY <4>1, GotoType DEF Dispatching
        <4>3. CASE a # Poller
          BY <1>0, <1>1, <1>2, <2>0, <4>2, <4>3, OverlapFrame
        <4>4. CASE a = Poller
          <5>1. actor'[Poller].pc = "create" /\ actor'[Poller].task = actor[Poller].task
            BY <1>0, <4>2, <4>4 DEF Actor
          <5>2. \A r \in Rows : ~Occurs(r, actor[Poller].task)
            BY <3>1, <4>4 DEF HasActiveRuns, Occurs
          <5>3. ASSUME NEW r \in Rows
                PROVE  ~(/\ trun'[r].status \in ActiveRun /\ trun'[r].trigger = "scheduled"
                         /\ trun'[r].task = actor'[Poller].task)
            BY <1>5, <5>1, <5>2 DEF Occurs
          <5>4. ASSUME errors = 0, NEW t \in Tasks, NEW q \in Rows, NEW r \in Rows, q # r,
                       Occurs(q, t)', Occurs(r, t)'
                PROVE  FALSE
            <6>1. Occurs(q, t) /\ Occurs(r, t)
              BY <2>0, <5>4
            <6>2. QED
              BY <3>0, <4>4, <5>4, <6>1 DEF OverlapInv
          <5>5. QED
            BY <1>2, <5>3, <5>4 DEF OverlapInv, Occurs
        <4>5. QED
          BY <4>3, <4>4
      <3>2. CASE HasActiveRuns(actor[a].task)
        <4>1. Goto(a, "skipcreate") \/ Return(a)
          <5>1. CASE a = Poller
            BY <2>1, <3>2, <5>1 DEF CheckOverlap
          <5>2. CASE a # Poller
            BY <2>1, <3>2, <5>2 DEF CheckOverlap
          <5>3. QED
            BY <5>1, <5>2
        <4>2. "skipcreate" \in Dispatching
          BY DEF Dispatching
        <4>3. QED
          BY <1>3, <1>4, <2>0, <3>0, <4>1, <4>2
      <3>3. QED
        BY <3>1, <3>2
    <2>2. CASE Launch(a)
      <3>1. Goto(a, "record") /\ actor[a].pc = "launch" /\ "record" \in Dispatching
        BY <2>2 DEF Launch, Dispatching
      <3>2. QED
        BY <1>3, <2>0, <3>1
    <2>3. ASSUME NEW conflict \in BOOLEAN, LaunchRaises(a, conflict) PROVE OverlapInv'
      <3>1. /\ Goto(a, "skip") \/ Goto(a, "fail")
            /\ actor[a].pc = "launch" /\ {"skip", "fail"} \subseteq Dispatching
        BY <2>3 DEF LaunchRaises, Dispatching
      <3>2. QED
        BY <1>3, <2>0, <3>1
    <2>4. CASE RecordTask(a) \/ FailTask(a) \/ SkipTask(a)
      <3>1. Return(a) /\ actor[a].pc # "skip"
        BY <2>4 DEF RecordTask, FailTask, SkipTask
      <3>2. QED
        BY <1>4, <2>0, <3>1
    <2>5. QED
      BY <1>5, <2>1, <2>2, <2>3, <2>4
  <1>6. CASE CreateRow(a)
    <2>1. PICK w \in Rows :
            /\ trun[w].status = "none"
            /\ trun' = [trun EXCEPT ![w] = [task |-> actor[a].task, trigger |-> Trigger(a),
                                            status |-> "queued"]]
            /\ actor'[a].row = w /\ actor'[a].task = actor[a].task
            /\ actor[a].pc = "create" => actor'[a].pc = "launch"
            /\ actor[a].pc = "skipcreate" => actor'[a].pc = "skip"
            /\ \A b \in Actors : b # a => actor'[b] = actor[b]
      BY <1>6, CreateType
    <2>2. actor[a].pc \in {"create", "skipcreate"}
      BY <1>6 DEF CreateRow
    <2>3. /\ trun'[w].trigger = Trigger(a) /\ trun'[w].task = actor[a].task
          /\ \A q \in Rows : q # w => trun'[q] = trun[q]
      BY <2>1 DEF TypeOK
    <2>4. \A r \in Rows, t \in Tasks : r # w /\ Occurs(r, t)' => Occurs(r, t)
      BY <2>3 DEF Occurs
    <2>5. CASE a # Poller
      <3>1. \A r \in Rows, t \in Tasks : Occurs(r, t)' => Occurs(r, t)
        BY <2>3, <2>4, <2>5 DEF Occurs, Trigger
      <3>2. QED
        BY <1>0, <1>1, <1>2, <2>1, <2>5, <3>1, OverlapFrame
    <2>6. CASE a = Poller
      <3>1. actor'[Poller].pc # "create" /\ actor[Poller].pc # "skip"
        BY <2>1, <2>2, <2>6
      <3>2. ASSUME errors = 0, NEW t \in Tasks, NEW q \in Rows, NEW r \in Rows, q # r,
                   Occurs(q, t)', Occurs(r, t)'
            PROVE  actor'[Poller].pc = "skip" /\ actor'[Poller].row \in {q, r}
        <4>1. w \in {q, r}
          <5>1. CASE q # w /\ r # w
            <6>1. Occurs(q, t) /\ Occurs(r, t)
              BY <2>4, <3>2, <5>1
            <6>2. QED
              BY <3>1, <3>2, <6>1 DEF OverlapInv
          <5>2. QED
            BY <5>1
        <4>2. t = actor[Poller].task
          BY <2>3, <2>6, <3>2, <4>1 DEF Occurs
        <4>3. PICK o \in {q, r} : o # w
          BY <3>2
        <4>4. Occurs(o, t)
          BY <2>4, <3>2, <4>3
        <4>5. actor[Poller].pc # "create"
          BY <4>2, <4>3, <4>4 DEF OverlapInv
        <4>6. QED
          BY <2>1, <2>2, <2>6, <4>1, <4>5
      <3>3. QED
        BY <1>2, <3>1, <3>2 DEF OverlapInv
    <2>7. QED
      BY <2>5, <2>6
  <1>7. CASE RecordRow(a) \/ FailRow(a)
    <2>1. PICK w \in Rows : w = actor[a].row
      BY <1>0, <1>7 DEF Hand, RecordRow, FailRow, HasRow
    <2>2. \A r \in Rows, t \in Tasks : Occurs(r, t)' => Occurs(r, t)
      <3>1. CASE RecordRow(a)
        <4>1. trun[w].status # "none" /\ UpdateRunning(w)
          BY <1>0, <2>1, <3>1 DEF Hand, RecordRow, HasRow
        <4>2. QED
          BY <4>1, OwnOccurrence
      <3>2. CASE FailRow(a)
        <4>1. trun' = [trun EXCEPT ![w].status = "failed"] /\ "failed" \notin ActiveRun
          BY <2>1, <3>2 DEF FailRow, ActiveRun
        <4>2. QED
          BY <4>1, OwnOccurrence
      <3>3. QED
        BY <1>7, <3>1, <3>2
    <2>3. /\ actor[a].pc # "skip" /\ {"recordtask", "failtask"} \subseteq Dispatching
          /\ Goto(a, "recordtask") \/ Goto(a, "failtask")
      BY <1>7 DEF RecordRow, FailRow, Dispatching
    <2>4. QED
      BY <1>3, <2>2, <2>3
  <1>8. CASE SkipRow(a)
    <2>1. PICK w \in Rows : w = actor[a].row
      BY <1>0, <1>8 DEF Hand, SkipRow, HasRow
    <2>2. trun' = [trun EXCEPT ![w].status = "skipped"] /\ "skipped" \notin ActiveRun
      BY <1>8, <2>1 DEF SkipRow, ActiveRun
    <2>3. \A r \in Rows, t \in Tasks : Occurs(r, t)' => Occurs(r, t)
      BY <2>2, OwnOccurrence
    <2>4. trun'[w].status = "skipped" /\ ~\E t : Occurs(w, t)'
      BY <2>2 DEF TypeOK, RunRow, Occurs
    <2>5. a = Poller /\ actor[a].pc = "skip"
      BY <1>0, <1>8 DEF SkipRow, Hand
    <2>6. actor'[a] = [actor[a] EXCEPT !.pc = "skiptask"]
      BY <1>8, GotoType DEF SkipRow, Dispatching
    <2>7. actor'[Poller].pc = "skiptask"
      BY <1>0, <2>5, <2>6 DEF Actor
    <2>8. ASSUME errors = 0, NEW t \in Tasks, NEW q \in Rows, NEW r \in Rows, q # r,
                 Occurs(q, t)', Occurs(r, t)'
          PROVE  FALSE
      <3>1. Occurs(q, t) /\ Occurs(r, t)
        BY <2>3, <2>8
      <3>2. w \in {q, r}
        BY <2>1, <2>5, <2>8, <3>1 DEF OverlapInv
      <3>3. QED
        BY <2>4, <2>8, <3>2
    <2>9. QED
      BY <1>2, <2>7, <2>8 DEF OverlapInv
  <1>9. CASE \/ CheckOverlap(a) \/ Launch(a) \/ RecordTask(a) \/ FailTask(a) \/ SkipTask(a)
             \/ \E conflict \in BOOLEAN : LaunchRaises(a, conflict)
    <2>1. UNCHANGED trun
      BY <1>9 DEF CheckOverlap, Launch, RecordTask, FailTask, SkipTask, LaunchRaises
    <2>2. QED
      BY <1>5, <1>9, <2>1
  <1>10. QED
    BY <1>6, <1>7, <1>8, <1>9 DEF Dispatch

\* A request leaves the poller, the rows and the claims alone.
LEMMA RequestQuiet ==
    ASSUME TypeOK, NEW q \in Requests, RequestNext(q)
    PROVE  /\ actor'[Poller] = actor[Poller]
           /\ UNCHANGED <<trun, run, claimed, crashes, errors>>
  <1>1. q \in Actors /\ q # Poller /\ Poller \in Actors /\ actor \in [Actors -> Actor]
    BY SchedulerAssumption DEF Actors, TypeOK
  <1>2. UNCHANGED <<trun, run, claimed, crashes, errors>>
    BY DEF RequestNext, ReadTask, SetPaused, Reschedule, Delete
  <1>3. ASSUME Return(q) PROVE actor'[Poller] = actor[Poller]
    BY <1>1, <1>3, ReturnType
  <1>4. actor'[Poller] = actor[Poller]
    BY <1>1, <1>3 DEF RequestNext, ReadTask, SetPaused, Reschedule, Delete
  <1>5. QED
    BY <1>2, <1>4

\* Every other step.
LEMMA OtherOverlap ==
    ASSUME TypeOK, Hands, RowsInv, RowsKept, OverlapInv,
           \/ CountActive \/ Claim \/ DispatchNext \/ PollEnds
           \/ \E q \in Requests : RequestNext(q)
           \/ \E a \in Actors : RepositoryError(a)
           \/ \E r \in Rows : RunEnds(r) \/ HookTask(r)
           \/ \E t \in Tasks : Tick(t) \/ LeaseExpires(t)
           \/ Restart \/ UNCHANGED vars
    PROVE  OverlapInv'
  <1>0. /\ actor \in [Actors -> Actor] /\ Poller \in Actors /\ actor[Poller] \in Actor
        /\ actor[Poller].pc = "create" => actor[Poller].task \in Tasks
    BY DEF TypeOK, Hands, Hand, Actors, Dispatching
  <1>1. ASSUME UNCHANGED trun
        PROVE  \A r \in Rows, t \in Tasks : Occurs(r, t)' => Occurs(r, t)
    BY <1>1 DEF Occurs
  <1>2. CASE CountActive \/ Claim \/ DispatchNext \/ PollEnds
    <2>1. /\ UNCHANGED <<trun, errors>> /\ actor[Poller].pc # "skip"
      BY <1>2 DEF CountActive, Claim, DispatchNext, PollEnds
    <2>2. actor'[Poller].pc # "create"
      <3>1. CASE CountActive
        BY <1>0, <3>1 DEF CountActive, Actor
      <3>2. CASE DispatchNext
        <4>1. PICK t \in claimed :
                actor' = [actor EXCEPT ![Poller].pc = "check", ![Poller].task = t,
                             ![Poller].saw = "running", ![Poller].at = "due"]
          BY <3>2 DEF DispatchNext
        <4>2. QED
          BY <1>0, <4>1 DEF Actor, TypeOK
      <3>3. CASE Claim \/ PollEnds
        <4>1. actor'[Poller] \in {Idle, [Idle EXCEPT !.pc = "poll"]}
          BY <1>0, <3>3 DEF Claim, PollEnds
        <4>2. QED
          BY <4>1 DEF Idle
      <3>4. QED
        BY <1>2, <3>1, <3>2, <3>3
    <2>3. QED
      BY <1>0, <1>1, <2>1, <2>2, OverlapFrame
  <1>3. ASSUME NEW q \in Requests, RequestNext(q) PROVE OverlapInv'
    BY <1>0, <1>1, <1>3, RequestQuiet, OverlapFrame
  <1>4. ASSUME NEW a \in Actors, RepositoryError(a) PROVE OverlapInv'
    <2>1. errors' # 0 /\ UNCHANGED trun
      BY <1>4 DEF RepositoryError, TypeOK
    <2>2. CASE actor'[Poller] = actor[Poller]
      BY <1>0, <2>1, <2>2 DEF OverlapInv, Occurs
    <2>3. CASE actor'[Poller].pc # "create"
      BY <2>1, <2>3 DEF OverlapInv
    <2>4. actor'[Poller] = actor[Poller] \/ actor'[Poller].pc # "create"
      <3>1. CASE Goto(a, "fail")
        <4>1. /\ actor'[a] = [actor[a] EXCEPT !.pc = "fail"] /\ actor[a] \in Actor
              /\ \A b \in Actors : b # a => actor'[b] = actor[b]
          BY <3>1, GotoType DEF Dispatching, TypeOK
        <4>2. actor'[a].pc = "fail"
          BY <4>1 DEF Actor
        <4>3. QED
          BY <1>0, <4>1, <4>2
      <3>2. CASE actor' = [actor EXCEPT ![a] = IF a = Poller THEN Idle
                                               ELSE [@ EXCEPT !.pc = "done"]]
        BY <1>0, <3>2 DEF Idle
      <3>3. QED
        BY <1>4, <3>1, <3>2 DEF RepositoryError
    <2>5. QED
      BY <2>2, <2>3, <2>4
  <1>5. ASSUME NEW r \in Rows, RunLost(r) \/ HookTask(r) PROVE OverlapInv'
    <2>1. UNCHANGED <<trun, errors, actor>>
      BY <1>5 DEF RunLost, HookTask
    <2>2. QED
      BY <1>0, <1>1, <2>1, OverlapFrame
  <1>6. ASSUME NEW r \in Rows, NEW o \in Outcome, HookRow(r, o) PROVE OverlapInv'
    <2>1. /\ trun' = [trun EXCEPT ![r].status = RowStatus(o)]
          /\ UNCHANGED <<errors, actor>>
      BY <1>6 DEF HookRow
    <2>2. RowStatus(o) \notin ActiveRun
      BY DEF RowStatus, Outcome, ActiveRun
    <2>3. \A s \in Rows, t \in Tasks : Occurs(s, t)' => Occurs(s, t)
      BY <2>1, <2>2, OwnOccurrence
    <2>4. QED
      BY <1>0, <2>1, <2>3, OverlapFrame
  <1>7. CASE (\E t \in Tasks : Tick(t) \/ LeaseExpires(t)) \/ UNCHANGED vars
    <2>1. UNCHANGED <<trun, errors, actor>>
      BY <1>7 DEF Tick, LeaseExpires, vars
    <2>2. QED
      BY <1>0, <1>1, <2>1, OverlapFrame
  <1>8. CASE Restart
    <2>1. ASSUME NEW r \in Rows PROVE trun'[r].status \notin ActiveRun
      BY <1>8 DEF Restart, TypeOK, RunRow, ActiveRun
    <2>2. QED
      BY <2>1 DEF OverlapInv, Occurs
  <1>9. QED
    BY <1>2, <1>3, <1>4, <1>5, <1>6, <1>7, <1>8 DEF RunEnds

-----------------------------------------------------------------------------
(* Once tasks. *)

\* A task once triggered by hand stays so.
LEMMA HandKept ==
    ASSUME RowsInv, RowsKept, NEW t, TriggeredByHand(t)
    PROVE  TriggeredByHand(t)'
  <1>1. PICK r \in Rows : trun[r].task = t /\ trun[r].trigger = "manual"
    BY DEF TriggeredByHand
  <1>2. trun[r].status # "none"
    BY <1>1 DEF RowsInv, RowRun
  <1>3. trun'[r].task = t /\ trun'[r].trigger = "manual"
    BY <1>1, <1>2 DEF RowsKept
  <1>4. QED
    BY <1>3 DEF TriggeredByHand

\* A step the poller does not take.
LEMMA OnceFrame ==
    ASSUME TypeOK, RowsInv, RowsKept, OnceInv,
           actor'[Poller] = actor[Poller], claimed' \subseteq claimed, crashes' = crashes,
           errors' = errors \/ errors' = errors + 1,
           \A t \in Once : ~TriggeredByHand(t)' =>
             \/ fired'[t] = 0
             \/ fired'[t] = fired[t] /\ (Spent(t) => Spent(t)')
    PROVE  OnceInv'
  <1>1. ASSUME NEW t \in claimed'
        PROVE  ~(actor'[Poller].pc \in Dispatching /\ actor'[Poller].task = t)
    BY DEF OnceInv, Dispatches
  <1>2. ASSUME NEW t \in Once, crashes' = 0, errors' <= 1, ~TriggeredByHand(t)', fired'[t] > 0
        PROVE  Launched(t)'
    <2>1. fired'[t] = fired[t] /\ (Spent(t) => Spent(t)')
      BY <1>2
    <2>2. errors \in Nat /\ errors <= 1 /\ (errors = 1 => errors' = 1)
      BY <1>2 DEF TypeOK
    <2>3. Launched(t)
      BY <1>2, <2>1, <2>2, HandKept DEF OnceInv
    <2>4. fired'[t] <= 1 /\ t \notin claimed'
      BY <2>1, <2>3 DEF Launched
    <2>5. QED
      BY <2>1, <2>2, <2>3, <2>4 DEF Launched, Dispatches
  <1>3. QED
    BY <1>1, <1>2 DEF OnceInv, Dispatches

\* Requests, runs and hooks, and time.
LEMMA QuietOnce ==
    ASSUME TypeOK, RowsInv, RowsKept, OnceInv,
           \/ \E q \in Requests : RequestNext(q)
           \/ \E r \in Rows : RunEnds(r) \/ HookTask(r)
           \/ \E t \in Tasks : Tick(t) \/ LeaseExpires(t)
           \/ UNCHANGED vars
    PROVE  OnceInv'
  <1>0. /\ task \in [Tasks -> TaskRow] /\ fired \in [Tasks -> Nat]
        /\ \A t \in Once : t \in Tasks
    BY DEF TypeOK, Tasks
  <1>1. ASSUME NEW q \in Requests, RequestNext(q) PROVE OnceInv'
    <2>1. \A t \in Once :
             \/ fired'[t] = 0
             \/ fired'[t] = fired[t] /\ (Spent(t) => Spent(t)')
      <3>1. ASSUME NEW u \in Tasks, NEW op, ReadTask(q, u, op), NEW t \in Once
            PROVE  fired'[t] = fired[t] /\ (Spent(t) => Spent(t)')
        BY <3>1 DEF ReadTask, Spent
      <3>2. ASSUME SetPaused(q), NEW t \in Once
            PROVE  fired'[t] = fired[t] /\ (Spent(t) => Spent(t)')
        <4>1. PICK u : u = actor[q].task
          OBVIOUS
        <4>2. PICK s : s = CASE task[u].status = "deleted" -> "deleted"
                             [] task[u].status # "deleted" /\ actor[q].pc = "pause" -> "paused"
                             [] OTHER -> "enabled"
          OBVIOUS
        <4>3. task' = [task EXCEPT ![u].status = s] /\ fired' = fired
          BY <3>2, <4>1, <4>2 DEF SetPaused
        <4>4. task[u].status = "deleted" => s = "deleted"
          BY <4>2
        <4>5. t \in Tasks /\ task[t] \in TaskRow
          BY <1>0
        <4>6. /\ task'[t].next = task[t].next
              /\ task'[t].status = IF t = u THEN s ELSE task[t].status
          BY <1>0, <4>3, <4>5 DEF TaskRow
        <4>7. QED
          BY <4>3, <4>4, <4>6 DEF Spent
      <3>3. ASSUME Reschedule(q), NEW t \in Once
            PROVE  \/ fired'[t] = 0
                   \/ fired'[t] = fired[t] /\ (Spent(t) => Spent(t)')
        <4>1. t \in Tasks
          BY <1>0
        <4>2. CASE t = actor[q].task
          BY <1>0, <3>3, <4>1, <4>2 DEF Reschedule
        <4>3. CASE t # actor[q].task
          <5>1. fired'[t] = fired[t] /\ task'[t] = task[t]
            BY <1>0, <3>3, <4>1, <4>3 DEF Reschedule
          <5>2. QED
            BY <5>1 DEF Spent
        <4>4. QED
          BY <4>2, <4>3
      <3>4. ASSUME NEW u \in Tasks, Delete(q, u), NEW t \in Once
            PROVE  fired'[t] = fired[t] /\ (Spent(t) => Spent(t)')
        BY <1>0, <3>4 DEF Delete, Spent, TaskRow
      <3>5. QED
        BY <1>1, <3>1, <3>2, <3>3, <3>4 DEF RequestNext
    <2>2. QED
      BY <1>1, <2>1, RequestQuiet, OnceFrame
  <1>2. ASSUME UNCHANGED <<actor, claimed, crashes, errors, fired>>,
               \A t \in Once : Spent(t) => Spent(t)'
        PROVE  OnceInv'
    BY <1>2, OnceFrame
  <1>3. CASE (\E r \in Rows : RunEnds(r)) \/ UNCHANGED vars
    BY <1>2, <1>3 DEF RunEnds, RunLost, HookRow, vars, Spent
  <1>4. ASSUME NEW r \in Rows, HookTask(r) PROVE OnceInv'
    <2>1. PICK u : u = trun[r].task
      OBVIOUS
    <2>2. PICK s : s = IF task[u].status # "deleted" /\ u \in Once
                         THEN FinalStatus(run[r].outcome) ELSE task[u].status
      OBVIOUS
    <2>3. /\ task' = [task EXCEPT ![u].status = s]
          /\ UNCHANGED <<actor, claimed, crashes, errors, fired>>
      BY <1>4, <2>1, <2>2 DEF HookTask
    <2>4. task[u].status = "deleted" => s = "deleted"
      BY <2>2
    <2>5. ASSUME NEW t \in Once, Spent(t) PROVE Spent(t)'
      <3>1. t \in Tasks /\ task[t] \in TaskRow
        BY <1>0
      <3>2. /\ task'[t].next = task[t].next
            /\ task'[t].status = IF t = u THEN s ELSE task[t].status
        BY <1>0, <2>3, <3>1 DEF TaskRow
      <3>3. QED
        BY <2>4, <2>5, <3>2 DEF Spent
    <2>6. QED
      BY <1>2, <2>3, <2>5
  <1>5. ASSUME NEW u \in Tasks, Tick(u) PROVE OnceInv'
    <2>1. /\ task' = [task EXCEPT ![u].next = IF task[u].next = "future" THEN "due"
                                              ELSE task[u].next,
                                  ![u].at = "due"]
          /\ task[u].status # "deleted"
          /\ UNCHANGED <<actor, claimed, crashes, errors, fired>>
      BY <1>5 DEF Tick
    <2>2. ASSUME NEW t \in Once, Spent(t) PROVE Spent(t)'
      <3>1. t \in Tasks /\ task[t] \in TaskRow /\ task[u] \in TaskRow
        BY <1>0
      <3>2. CASE t # u
        <4>1. task'[t] = task[t]
          BY <1>0, <2>1, <3>1, <3>2
        <4>2. QED
          BY <2>2, <4>1 DEF Spent
      <3>3. CASE t = u
        <4>1. task[u].next = "none"
          BY <2>1, <2>2, <3>3 DEF Spent
        <4>2. task'[u].next = "none"
          BY <1>0, <2>1, <3>1, <4>1 DEF TaskRow
        <4>3. QED
          BY <3>3, <4>2 DEF Spent
      <3>4. QED
        BY <3>2, <3>3
    <2>3. QED
      BY <1>2, <2>1, <2>2
  <1>6. ASSUME NEW u \in Tasks, LeaseExpires(u) PROVE OnceInv'
    <2>1. UNCHANGED <<actor, claimed, crashes, errors, fired>>
      BY <1>6 DEF LeaseExpires
    <2>2. \A t \in Once : Spent(t) => Spent(t)'
      BY <1>0, <1>6 DEF LeaseExpires, Spent, TaskRow
    <2>3. QED
      BY <1>2, <2>1, <2>2
  <1>7. QED
    BY <1>1, <1>3, <1>4, <1>5, <1>6

\* A dispatch for a request, or one of its calls fails.
LEMMA RequestOnce ==
    ASSUME TypeOK, Hands, RowsInv, RowsKept, OnceInv, NEW q \in Requests,
           Dispatch(q) \/ RepositoryError(q)
    PROVE  OnceInv'
  <1>0. /\ q \in Actors /\ q # Poller /\ Poller \in Actors /\ Hand(q)
        /\ task \in [Tasks -> TaskRow] /\ fired \in [Tasks -> Nat]
        /\ actor \in [Actors -> Actor] /\ \A t \in Once : t \in Tasks
    BY SchedulerAssumption DEF Actors, TypeOK, Hands, Tasks
  <1>1. ASSUME NEW pc, Goto(q, pc) PROVE actor'[Poller] = actor[Poller]
    BY <1>0, <1>1 DEF Goto
  <1>2. ASSUME Return(q) PROVE actor'[Poller] = actor[Poller]
    BY <1>0, <1>2, ReturnType
  <1>3. ASSUME actor'[Poller] = actor[Poller], UNCHANGED <<task, fired, claimed, crashes>>,
               errors' = errors \/ errors' = errors + 1
        PROVE  OnceInv'
    <2>1. \A t \in Once : fired'[t] = fired[t] /\ (Spent(t) => Spent(t)')
      BY <1>3 DEF Spent
    <2>2. QED
      BY <1>3, <2>1, OnceFrame
  <1>4. CASE RepositoryError(q)
    <2>1. actor'[Poller] = actor[Poller]
      BY <1>0, <1>1, <1>4 DEF RepositoryError
    <2>2. /\ UNCHANGED <<task, fired, claimed, crashes>> /\ errors' = errors + 1
      BY <1>0, <1>4 DEF RepositoryError
    <2>3. QED
      BY <1>3, <2>1, <2>2
  <1>5. CASE CheckOverlap(q)
    <2>1. Goto(q, "create") \/ Goto(q, "skipcreate") \/ Return(q)
      BY <1>5 DEF CheckOverlap
    <2>2. QED
      BY <1>1, <1>2, <1>3, <1>5, <2>1 DEF CheckOverlap
  <1>6. CASE CreateRow(q)
    <2>1. actor'[Poller] = actor[Poller]
      BY <1>0, <1>6, CreateType
    <2>2. QED
      BY <1>3, <1>6, <2>1 DEF CreateRow
  <1>7. CASE Launch(q)
    <2>1. fired' = fired
      <3>1. fired' = [fired EXCEPT ![actor[q].task] = fired[actor[q].task]]
        BY <1>0, <1>7 DEF Launch
      <3>2. QED
        BY <1>0, <3>1
    <2>2. QED
      BY <1>1, <1>3, <1>7, <2>1 DEF Launch
  <1>8. CASE \/ \E conflict \in BOOLEAN : LaunchRaises(q, conflict)
             \/ RecordRow(q) \/ FailRow(q) \/ SkipRow(q)
    BY <1>1, <1>3, <1>8 DEF LaunchRaises, RecordRow, FailRow, SkipRow
  <1>9. CASE RecordTask(q) \/ FailTask(q) \/ SkipTask(q)
    <2>1. PICK u \in Tasks : u = actor[q].task
      BY <1>0, <1>9 DEF Hand, RecordTask, FailTask, SkipTask, Dispatching
    <2>2. TriggeredByHand(u)
      BY <1>0, <1>9, <2>1
         DEF Hand, RecordTask, FailTask, SkipTask, HasRow, Trigger, TriggeredByHand
    <2>3. TriggeredByHand(u)'
      BY <2>2, HandKept
    <2>4. \A t \in Tasks : t # u => task'[t] = task[t]
      BY <1>0, <1>9, <2>1 DEF RecordTask, FailTask, SkipTask, UpdateAfterLaunch
    <2>5. actor'[Poller] = actor[Poller] /\ UNCHANGED <<fired, claimed, crashes, errors>>
      BY <1>2, <1>9 DEF RecordTask, FailTask, SkipTask
    <2>6. \A t \in Once : ~TriggeredByHand(t)' =>
             fired'[t] = fired[t] /\ (Spent(t) => Spent(t)')
      BY <1>0, <2>3, <2>4, <2>5 DEF Spent
    <2>7. QED
      BY <2>5, <2>6, OnceFrame
  <1>10. QED
    BY <1>4, <1>5, <1>6, <1>7, <1>8, <1>9 DEF Dispatch

\* The poller's own steps.
LEMMA PollerOnce ==
    ASSUME TypeOK, RowsInv, RowsKept, OnceInv, CountActive \/ Claim \/ DispatchNext \/ PollEnds
    PROVE  OnceInv'
  <1>0. /\ Poller \in Actors /\ actor \in [Actors -> Actor] /\ actor[Poller] \in Actor
        /\ \A t \in Once : t \in Tasks
    BY DEF Actors, TypeOK, Tasks
  <1>1. UNCHANGED <<crashes, errors, fired>>
    BY DEF CountActive, Claim, DispatchNext, PollEnds
  <1>2. ASSUME \A t \in claimed' : ~Dispatches(t)',
               \A t \in Once : Launched(t) => t \notin claimed' /\ ~Dispatches(t)' /\ Spent(t)'
        PROVE  OnceInv'
    <2>1. ASSUME NEW t \in Once, crashes' = 0, errors' <= 1, ~TriggeredByHand(t)',
                 fired'[t] > 0
          PROVE  Launched(t)'
      <3>1. Launched(t)
        BY <1>1, <2>1, HandKept DEF OnceInv
      <3>2. QED
        BY <1>1, <1>2, <3>1 DEF Launched
    <2>2. QED
      BY <1>2, <2>1 DEF OnceInv
  <1>3. actor[Poller].pc \notin Dispatching
    BY DEF CountActive, Claim, DispatchNext, PollEnds, Dispatching
  <1>4. \A t : ~Dispatches(t)
    BY <1>3 DEF Dispatches
  <1>5. CASE CountActive \/ PollEnds
    <2>1. actor'[Poller].pc \in {"claim", "idle"}
      <3>1. CASE CountActive
        BY <1>0, <3>1 DEF CountActive, Actor
      <3>2. CASE PollEnds
        BY <1>0, <3>2 DEF PollEnds, Idle
      <3>3. QED
        BY <1>5, <3>1, <3>2
    <2>2. \A t : ~Dispatches(t)'
      BY <2>1 DEF Dispatches, Dispatching
    <2>3. UNCHANGED <<claimed, task>>
      BY <1>5 DEF CountActive, PollEnds
    <2>4. \A t \in Once : Launched(t) => t \notin claimed' /\ Spent(t)'
      BY <1>4, <2>3 DEF Launched, Spent
    <2>5. QED
      BY <1>2, <2>2, <2>4
  <1>6. CASE Claim
    <2>1. PICK c \in SUBSET {t \in Tasks : Claimable(t)} :
            /\ claimed' = c
            /\ task' = [t \in Tasks |->
                 IF t \in c THEN [task[t] EXCEPT !.status = "running", !.lease = "held"]
                 ELSE task[t]]
      BY <1>6 DEF Claim
    <2>2. actor'[Poller].pc = "poll"
      BY <1>0, <1>6 DEF Claim, Idle
    <2>3. \A t : ~Dispatches(t)'
      BY <2>2 DEF Dispatches, Dispatching
    <2>4. ASSUME NEW t \in Once, Launched(t) PROVE t \notin claimed' /\ Spent(t)'
      <3>1. Spent(t)
        BY <1>4, <2>4 DEF Launched
      <3>2. ~Claimable(t)
        BY <3>1 DEF Spent, Claimable
      <3>3. t \notin c /\ task'[t] = task[t]
        BY <1>0, <2>1, <3>2
      <3>4. QED
        BY <2>1, <3>1, <3>3 DEF Spent
    <2>5. QED
      BY <1>2, <2>3, <2>4
  <1>7. CASE DispatchNext
    <2>1. PICK u \in claimed :
            /\ claimed' = claimed \ {u}
            /\ actor' = [actor EXCEPT ![Poller].pc = "check", ![Poller].task = u,
                            ![Poller].saw = "running", ![Poller].at = "due"]
      BY <1>7 DEF DispatchNext
    <2>2. actor'[Poller].task = u
      BY <1>0, <2>1 DEF Actor, TypeOK
    <2>3. \A t : Dispatches(t)' => t = u
      BY <2>2 DEF Dispatches
    <2>4. task' = task
      BY <1>7 DEF DispatchNext
    <2>5. \A t \in Once : Launched(t) => t \notin claimed' /\ ~Dispatches(t)' /\ Spent(t)'
      BY <1>4, <2>1, <2>3, <2>4 DEF Launched, Spent
    <2>6. \A t \in claimed' : ~Dispatches(t)'
      BY <2>1, <2>3
    <2>7. QED
      BY <1>2, <2>5, <2>6
  <1>8. QED
    BY <1>5, <1>6, <1>7

\* The poller goes on with its dispatch; task rows and claims stay.
LEMMA PollerGoesOn ==
    ASSUME TypeOK, RowsInv, RowsKept, OnceInv,
           actor[Poller].pc \in Dispatching,
           actor'[Poller].task = actor[Poller].task,
           actor[Poller].pc \in {"record", "recordtask"}
             => actor'[Poller].pc \in {"record", "recordtask"},
           actor[Poller].pc \in {"fail", "failtask"}
             => actor'[Poller].pc \in {"fail", "failtask"},
           UNCHANGED <<task, claimed, fired, crashes, errors>>
    PROVE  OnceInv'
  <1>1. \A t : Dispatches(t)' => Dispatches(t)
    BY DEF Dispatches
  <1>2. \A t \in claimed' : ~Dispatches(t)'
    BY <1>1 DEF OnceInv
  <1>3. ASSUME NEW t \in Once, crashes' = 0, errors' <= 1, ~TriggeredByHand(t)', fired'[t] > 0
        PROVE  Launched(t)'
    <2>1. Launched(t)
      BY <1>3, HandKept DEF OnceInv
    <2>2. Spent(t) => Spent(t)'
      BY DEF Spent
    <2>3. fired'[t] <= 1 /\ t \notin claimed'
      BY <2>1 DEF Launched
    <2>4. CASE Dispatches(t)
      <3>1. \/ actor[Poller].pc \in {"record", "recordtask"}
            \/ actor[Poller].pc \in {"fail", "failtask"} /\ errors = 1
        BY <2>1, <2>4 DEF Launched
      <3>2. /\ \/ actor'[Poller].pc \in {"record", "recordtask"}
               \/ actor'[Poller].pc \in {"fail", "failtask"} /\ errors' = 1
            /\ Dispatches(t)'
        BY <2>4, <3>1 DEF Dispatches, Dispatching
      <3>3. QED
        BY <2>3, <3>2 DEF Launched
    <2>5. CASE ~Dispatches(t)
      BY <1>1, <2>1, <2>2, <2>3, <2>5 DEF Launched
    <2>6. QED
      BY <2>4, <2>5
  <1>4. QED
    BY <1>2, <1>3 DEF OnceInv

\* The poller's dispatch is over and has left a once task spent.
LEMMA PollerReturns ==
    ASSUME TypeOK, RowsInv, RowsKept, OnceInv,
           actor'[Poller].pc \notin Dispatching, NEW u, u = actor[Poller].task,
           \A t \in Tasks : t # u => task'[t] = task[t],
           u \in Once => Spent(u)',
           claimed' \subseteq claimed, UNCHANGED <<fired, crashes, errors>>
    PROVE  OnceInv'
  <1>1. \A t : ~Dispatches(t)'
    BY DEF Dispatches
  <1>2. ASSUME NEW t \in Once, crashes' = 0, errors' <= 1, ~TriggeredByHand(t)', fired'[t] > 0
        PROVE  Launched(t)'
    <2>1. Launched(t)
      BY <1>2, HandKept DEF OnceInv
    <2>2. Spent(t)'
      <3>1. CASE t = u
        BY <3>1
      <3>2. CASE t # u
        BY <2>1, <3>2 DEF Launched, Dispatches, Spent, Tasks
      <3>3. QED
        BY <3>1, <3>2
    <2>3. QED
      BY <1>1, <2>1, <2>2 DEF Launched
  <1>3. QED
    BY <1>1, <1>2 DEF OnceInv

\* The poller's dispatch.
LEMMA DispatchOnce ==
    ASSUME TypeOK, Hands, RowsInv, RowsKept, OnceInv, Dispatch(Poller)
    PROVE  OnceInv'
  <1>0. /\ Poller \in Actors /\ actor \in [Actors -> Actor] /\ actor[Poller] \in Actor
        /\ Hand(Poller) /\ fired \in [Tasks -> Nat]
    BY DEF Actors, TypeOK, Hands
  <1>1. actor[Poller].pc \in Dispatching
    BY DEF Dispatch, CheckOverlap, CreateRow, Launch, LaunchRaises, RecordRow, RecordTask,
           FailRow, FailTask, SkipRow, SkipTask, Dispatching
  <1>2. PICK u \in Tasks : u = actor[Poller].task
    BY <1>0, <1>1 DEF Hand
  <1>3. ASSUME NEW pc \in Dispatching, Goto(Poller, pc)
        PROVE  actor'[Poller].pc = pc /\ actor'[Poller].task = actor[Poller].task
    <2>1. actor'[Poller] = [actor[Poller] EXCEPT !.pc = pc]
      BY <1>0, <1>3, GotoType
    <2>2. QED
      BY <1>0, <2>1 DEF Actor
  <1>4. CASE CheckOverlap(Poller)
    <2>1. Goto(Poller, "create") \/ Goto(Poller, "skipcreate")
      <3>1. CASE ~HasActiveRuns(actor[Poller].task)
        BY <1>4, <3>1 DEF CheckOverlap
      <3>2. CASE HasActiveRuns(actor[Poller].task)
        BY <1>4, <3>2 DEF CheckOverlap
      <3>3. QED
        BY <3>1, <3>2
    <2>2. {"create", "skipcreate"} \subseteq Dispatching
      BY DEF Dispatching
    <2>3. actor'[Poller].task = actor[Poller].task
      BY <1>3, <2>1, <2>2
    <2>4. /\ UNCHANGED <<task, claimed, fired, crashes, errors>>
          /\ actor[Poller].pc \notin {"record", "recordtask", "fail", "failtask"}
      BY <1>4 DEF CheckOverlap
    <2>5. QED
      BY <1>1, <2>3, <2>4, PollerGoesOn
  <1>5. CASE CreateRow(Poller)
    <2>1. actor'[Poller].task = actor[Poller].task
      BY <1>0, <1>5, CreateType
    <2>2. /\ UNCHANGED <<task, claimed, fired, crashes, errors>>
          /\ actor[Poller].pc \notin {"record", "recordtask", "fail", "failtask"}
      BY <1>5 DEF CreateRow
    <2>3. QED
      BY <1>1, <2>1, <2>2, PollerGoesOn
  <1>6. ASSUME NEW conflict \in BOOLEAN, LaunchRaises(Poller, conflict) PROVE OnceInv'
    <2>1. Goto(Poller, "skip") \/ Goto(Poller, "fail")
      BY <1>6 DEF LaunchRaises
    <2>2. {"skip", "fail"} \subseteq Dispatching
      BY DEF Dispatching
    <2>3. actor'[Poller].task = actor[Poller].task
      BY <1>3, <2>1, <2>2
    <2>4. /\ UNCHANGED <<task, claimed, fired, crashes, errors>>
          /\ actor[Poller].pc \notin {"record", "recordtask", "fail", "failtask"}
      BY <1>6 DEF LaunchRaises
    <2>5. QED
      BY <1>1, <2>3, <2>4, PollerGoesOn
  <1>7. CASE RecordRow(Poller) \/ FailRow(Poller) \/ SkipRow(Poller)
    <2>1. {"recordtask", "failtask", "skiptask"} \subseteq Dispatching
      BY DEF Dispatching
    <2>2. UNCHANGED <<task, claimed, fired, crashes, errors>>
      BY <1>7 DEF RecordRow, FailRow, SkipRow
    <2>3. CASE RecordRow(Poller)
      <3>1. /\ actor'[Poller].pc = "recordtask" /\ actor[Poller].pc = "record"
            /\ actor'[Poller].task = actor[Poller].task
        BY <1>3, <2>1, <2>3 DEF RecordRow
      <3>2. QED
        BY <1>1, <2>2, <3>1, PollerGoesOn
    <2>4. CASE FailRow(Poller)
      <3>1. /\ actor'[Poller].pc = "failtask" /\ actor[Poller].pc = "fail"
            /\ actor'[Poller].task = actor[Poller].task
        BY <1>3, <2>1, <2>4 DEF FailRow
      <3>2. QED
        BY <1>1, <2>2, <3>1, PollerGoesOn
    <2>5. CASE SkipRow(Poller)
      <3>1. /\ actor'[Poller].pc = "skiptask" /\ actor[Poller].pc = "skip"
            /\ actor'[Poller].task = actor[Poller].task
        BY <1>3, <2>1, <2>5 DEF SkipRow
      <3>2. QED
        BY <1>1, <2>2, <3>1, PollerGoesOn
    <2>6. QED
      BY <1>7, <2>3, <2>4, <2>5
  <1>8. CASE Launch(Poller)
    <2>1. /\ actor[Poller].pc = "launch" /\ Goto(Poller, "record")
          /\ UNCHANGED <<task, trun, claimed, crashes, errors>>
      BY <1>8 DEF Launch
    <2>2. /\ actor'[Poller].pc = "record" /\ actor'[Poller].task = u
          /\ "record" \in Dispatching
      BY <1>2, <1>3, <2>1 DEF Dispatching
    <2>3. \A t \in Tasks : fired'[t] = IF t = u /\ u \in Once THEN fired[t] + 1 ELSE fired[t]
      BY <1>0, <1>2, <1>8 DEF Launch
    <2>4. \A t : Dispatches(t)' <=> t = u
      BY <2>2 DEF Dispatches
    <2>5. \A t : Dispatches(t) <=> t = u
      BY <1>1, <1>2 DEF Dispatches
    <2>6. \A t \in claimed' : ~Dispatches(t)'
      BY <2>1, <2>4, <2>5 DEF OnceInv
    <2>7. ASSUME NEW t \in Once, crashes' = 0, errors' <= 1, ~TriggeredByHand(t)',
                 fired'[t] > 0
          PROVE  Launched(t)'
      <3>0. /\ t \in Tasks /\ fired[t] \in Nat /\ ~TriggeredByHand(t)
            /\ crashes = 0 /\ errors <= 1
        BY <1>0, <2>1, <2>7, HandKept DEF Tasks
      <3>1. CASE t = u
        <4>1. ~Launched(t)
          BY <2>1, <2>5, <3>1 DEF Launched
        <4>2. fired[t] = 0
          BY <3>0, <4>1 DEF OnceInv
        <4>3. fired'[t] = 1 /\ t \notin claimed'
          BY <2>3, <2>4, <2>6, <3>0, <3>1, <4>2
        <4>4. QED
          BY <2>2, <2>4, <3>1, <4>3 DEF Launched
      <3>2. CASE t # u
        <4>1. fired'[t] = fired[t]
          BY <2>3, <3>0, <3>2
        <4>2. Launched(t)
          BY <2>7, <3>0, <4>1 DEF OnceInv
        <4>3. Spent(t)' /\ t \notin claimed' /\ ~Dispatches(t)'
          BY <2>1, <2>4, <2>5, <3>2, <4>2 DEF Launched, Spent
        <4>4. QED
          BY <4>1, <4>2, <4>3 DEF Launched
      <3>3. QED
        BY <3>1, <3>2
    <2>8. QED
      BY <2>6, <2>7 DEF OnceInv
  <1>9. CASE RecordTask(Poller) \/ FailTask(Poller) \/ SkipTask(Poller)
    <2>1. actor[Poller].at = "due"
      BY <1>1 DEF Hands
    <2>2. PICK next \in Instant : next = NextRunAt(u, "due")
      BY DEF NextRunAt, Instant
    <2>3. u \in Once => next = "none"
      BY <2>2, SchedulerAssumption DEF NextRunAt
    <2>4. \E s \in TaskStatus, protect \in BOOLEAN : UpdateAfterLaunch(u, s, next, protect)
      <3>1. CASE RecordTask(Poller)
        BY <1>0, <1>2, <2>1, <2>2, <3>1, DispatchValues DEF RecordTask
      <3>2. CASE FailTask(Poller)
        BY <1>0, <1>2, <2>1, <2>2, <3>2, DispatchValues DEF FailTask
      <3>3. CASE SkipTask(Poller)
        <4>1. PICK s \in TaskStatus : s = IF u \in Once THEN "failed" ELSE "enabled"
          BY DEF TaskStatus, Terminal
        <4>2. UpdateAfterLaunch(u, s, next, FALSE)
          BY <1>2, <2>1, <2>2, <3>3, <4>1 DEF SkipTask
        <4>3. QED
          BY <4>2
      <3>4. QED
        BY <1>9, <3>1, <3>2, <3>3
    <2>5. /\ task[u].status = "deleted" => task'[u] = task[u]
          /\ task[u].status # "deleted" => task'[u].next = next
          /\ \A t \in Tasks : t # u => task'[t] = task[t]
      BY <2>4, AfterLaunchType
    <2>6. u \in Once => Spent(u)'
      BY <2>3, <2>5 DEF Spent
    <2>7. Return(Poller) /\ UNCHANGED <<claimed, fired, crashes, errors>>
      BY <1>9 DEF RecordTask, FailTask, SkipTask
    <2>8. actor'[Poller] = [Idle EXCEPT !.pc = "poll"]
      BY <1>0, <2>7, ReturnType
    <2>9. actor'[Poller].pc \notin Dispatching
      BY <2>8 DEF Idle, Dispatching
    <2>10. QED
      BY <1>2, <2>5, <2>6, <2>7, <2>9, PollerReturns
  <1>10. QED
    BY <1>4, <1>5, <1>6, <1>7, <1>8, <1>9 DEF Dispatch

\* A call of the poller fails, or the process dies.
LEMMA FaultOnce ==
    ASSUME TypeOK, RowsInv, RowsKept, OnceInv, RepositoryError(Poller) \/ Restart
    PROVE  OnceInv'
  <1>0. /\ Poller \in Actors /\ actor \in [Actors -> Actor] /\ actor[Poller] \in Actor
        /\ errors \in Nat /\ crashes \in Nat
    BY DEF Actors, TypeOK
  <1>1. CASE Restart
    <2>1. claimed' = {} /\ crashes' # 0
      BY <1>0, <1>1 DEF Restart
    <2>2. QED
      BY <2>1 DEF OnceInv
  <1>2. CASE RepositoryError(Poller)
    <2>1. errors' = errors + 1 /\ UNCHANGED <<task, fired, crashes>>
      BY <1>2 DEF RepositoryError
    <2>2. ASSUME NEW t \in Once, crashes' = 0, errors' <= 1, ~TriggeredByHand(t)',
                 fired'[t] > 0
          PROVE  Launched(t) /\ errors = 0 /\ errors' = 1 /\ (Spent(t) => Spent(t)')
      BY <1>0, <2>1, <2>2, HandKept DEF OnceInv, Spent
    <2>3. CASE /\ actor[Poller].pc \in {"record", "recordtask"}
               /\ Goto(Poller, "fail") /\ UNCHANGED claimed
      <3>1. actor'[Poller] = [actor[Poller] EXCEPT !.pc = "fail"]
        BY <1>0, <2>3, GotoType DEF Dispatching
      <3>2. actor'[Poller].pc = "fail" /\ actor'[Poller].task = actor[Poller].task
        BY <1>0, <3>1 DEF Actor
      <3>3. \A t : Dispatches(t)' <=> Dispatches(t)
        BY <2>3, <3>2 DEF Dispatches, Dispatching
      <3>4. \A t \in claimed' : ~Dispatches(t)'
        BY <2>3, <3>3 DEF OnceInv
      <3>5. ASSUME NEW t \in Once, crashes' = 0, errors' <= 1, ~TriggeredByHand(t)',
                   fired'[t] > 0
            PROVE  Launched(t)'
        <4>1. Launched(t) /\ errors' = 1 /\ (Spent(t) => Spent(t)')
          BY <2>2, <3>5
        <4>2. QED
          BY <2>1, <2>3, <3>2, <3>3, <4>1 DEF Launched
      <3>6. QED
        BY <3>4, <3>5 DEF OnceInv
    <2>4. CASE /\ actor[Poller].pc \in Dispatching \ {"launch", "record", "recordtask"}
               /\ actor' = [actor EXCEPT ![Poller] = Idle] /\ claimed' = {}
      <3>1. actor'[Poller].pc = "idle"
        BY <1>0, <2>4 DEF Idle
      <3>2. \A t : ~Dispatches(t)'
        BY <3>1 DEF Dispatches, Dispatching
      <3>3. ASSUME NEW t \in Once, crashes' = 0, errors' <= 1, ~TriggeredByHand(t)',
                   fired'[t] > 0
            PROVE  Launched(t)'
        <4>1. Launched(t) /\ errors = 0 /\ (Spent(t) => Spent(t)')
          BY <2>2, <3>3
        <4>2. ~Dispatches(t)
          BY <2>4, <4>1 DEF Launched
        <4>3. QED
          BY <2>1, <2>4, <3>2, <4>1, <4>2 DEF Launched
      <3>4. QED
        BY <2>4, <3>3 DEF OnceInv
    <2>5. QED
      BY <1>2, <2>3, <2>4 DEF RepositoryError
  <1>3. QED
    BY <1>1, <1>2

-----------------------------------------------------------------------------
(* The induction. *)

\* Only create_run makes a row, and it names the task and the trigger.
LEMMA StepKeepsSigned ==
    ASSUME TypeOK, Hands, RowsInv, Signed, RowsKept, [Next]_vars
    PROVE  Signed'
  <1>1. ASSUME \A r \in Rows : trun[r].status = "none" => trun'[r].status = "none"
        PROVE  Signed'
    BY <1>1 DEF Signed, RowsKept
  <1>2. CASE UNCHANGED trun
    BY <1>1, <1>2
  <1>3. ASSUME NEW a \in Actors, CreateRow(a) PROVE Signed'
    <2>1. PICK w \in Rows :
            trun' = [trun EXCEPT ![w] = [task |-> actor[a].task, trigger |-> Trigger(a),
                                         status |-> "queued"]]
      BY <1>3, CreateType
    <2>2. actor[a].task \in Tasks
      BY <1>3 DEF Hands, Hand, CreateRow, Dispatching
    <2>3. /\ trun'[w].task = actor[a].task /\ trun'[w].trigger = Trigger(a)
          /\ \A q \in Rows : q # w => trun'[q] = trun[q]
      BY <2>1 DEF TypeOK
    <2>4. QED
      BY <2>2, <2>3 DEF Signed, Trigger
  <1>4. ASSUME NEW w \in Rows, NEW s, trun[w].status # "none",
               trun' = [trun EXCEPT ![w].status = s]
        PROVE  Signed'
    BY <1>1, <1>4 DEF TypeOK
  <1>5. ASSUME NEW a \in Actors, RecordRow(a) \/ FailRow(a) \/ SkipRow(a) PROVE Signed'
    <2>1. PICK w \in Rows : w = actor[a].row /\ trun[w].status # "none"
      BY <1>5 DEF Hands, Hand, RecordRow, FailRow, SkipRow, HasRow
    <2>2. \E s : trun' = [trun EXCEPT ![w].status = s]
      BY <1>5, <2>1 DEF RecordRow, FailRow, SkipRow, UpdateRunning
    <2>3. QED
      BY <1>4, <2>1, <2>2
  <1>6. ASSUME NEW r \in Rows, NEW o \in Outcome, HookRow(r, o) PROVE Signed'
    <2>1. trun[r].status # "none" /\ trun' = [trun EXCEPT ![r].status = RowStatus(o)]
      BY <1>6 DEF HookRow, RowsInv, RowRun
    <2>2. QED
      BY <1>4, <2>1
  <1>7. CASE Restart
    BY <1>1, <1>7 DEF Restart, ActiveRun
  <1>8. ASSUME NEW a \in Actors, Dispatch(a) PROVE Signed'
    BY <1>2, <1>3, <1>5, <1>8
       DEF Dispatch, CheckOverlap, Launch, LaunchRaises, RecordTask, FailTask, SkipTask
  <1>9. CASE CountActive \/ Claim \/ DispatchNext \/ PollEnds
    BY <1>2, <1>9 DEF CountActive, Claim, DispatchNext, PollEnds
  <1>10. ASSUME NEW q \in Requests, RequestNext(q) PROVE Signed'
    BY <1>2, <1>10, RequestQuiet
  <1>11. ASSUME NEW a \in Actors, RepositoryError(a) PROVE Signed'
    BY <1>2, <1>11 DEF RepositoryError
  <1>12. ASSUME NEW r \in Rows, RunEnds(r) \/ HookTask(r) PROVE Signed'
    BY <1>2, <1>6, <1>12 DEF RunEnds, RunLost, HookTask
  <1>13. CASE (\E t \in Tasks : Tick(t) \/ LeaseExpires(t)) \/ UNCHANGED vars
    BY <1>2, <1>13 DEF Tick, LeaseExpires, vars
  <1>14. Poller \in Actors /\ \A q \in Requests : q \in Actors
    BY DEF Actors
  <1>15. QED
    BY <1>7, <1>8, <1>9, <1>10, <1>11, <1>12, <1>13, <1>14 DEF Next, PollerNext

\* The initial states satisfy the invariant.
LEMMA SInit == Init => SInv
  <1>1. SUFFICES ASSUME Init PROVE SInv
    OBVIOUS
  <1>2. /\ \A a \in Actors : actor[a] = Idle
        /\ \A r \in Rows : /\ trun[r] = [task |-> NoTask, trigger |-> "none",
                                         status |-> "none"]
                           /\ run[r] = [pc |-> "none", outcome |-> "none"]
        /\ claimed = {} /\ fired = [t \in Tasks |-> 0] /\ crashes = 0 /\ errors = 0
    BY <1>1 DEF Init
  <1>3. Poller \in Actors /\ Idle.pc = "idle" /\ "idle" \notin Dispatching \cup HasRow
    BY DEF Actors, Idle, Dispatching, HasRow
  <1>4. TypeOK
    <2>1. Idle \in Actor
      BY SchedulerAssumption DEF Idle, Actor, TaskStatus
    <2>2. actor \in [Actors -> Actor]
      BY <1>1, <2>1 DEF Init
    <2>3. trun \in [Rows -> RunRow] /\ run \in [Rows -> GatewayRun]
      BY <1>1 DEF Init, RunRow, GatewayRun
    <2>4. task \in [Tasks -> TaskRow]
      <3>1. PICK created \in SUBSET Tasks :
              task = [t \in Tasks |->
                [status |-> IF t \in created THEN "enabled" ELSE "deleted",
                 next |-> "future", at |-> FutureAt(t), lease |-> "none"]]
        BY <1>1 DEF Init
      <3>2. \A t \in Tasks : FutureAt(t) \in {"future", "due"}
        BY DEF FutureAt
      <3>3. QED
        BY <3>1, <3>2 DEF TaskRow, TaskStatus, Instant
    <2>5. QED
      BY <1>2, <2>2, <2>3, <2>4, SchedulerAssumption DEF TypeOK
  <1>5. Hands
    BY <1>2, <1>3 DEF Hands, Hand, HasRow
  <1>6. RowsInv /\ Signed /\ OverlapInv
    BY <1>2, <1>3 DEF RowsInv, RowRun, Signed, OverlapInv, Occurs, ActiveRun
  <1>7. OnceInv
    BY <1>2 DEF OnceInv, Tasks
  <1>8. QED
    BY <1>4, <1>5, <1>6, <1>7 DEF SInv

\* Every step preserves it.
LEMMA SNext == SInv /\ [Next]_vars => SInv'
  <1>1. SUFFICES ASSUME SInv, [Next]_vars PROVE SInv'
    OBVIOUS
  <1>2. /\ TypeOK /\ Hands /\ RowsInv /\ Signed /\ OverlapInv /\ OnceInv
        /\ Poller \in Actors /\ Actors = Requests \cup {Poller}
    BY <1>1 DEF SInv, Actors
  <1>3. RowsKept
    BY <1>1, <1>2, StepKeepsRows
  <1>4. Signed'
    BY <1>1, <1>2, <1>3, StepKeepsSigned
  <1>5. CASE CountActive \/ Claim \/ DispatchNext \/ PollEnds
    <2>1. TypeOK'
      BY <1>2, <1>5, PollerTypes
    <2>2. Hands' /\ RowsInv'
      BY <1>2, <1>5, QuietRows
    <2>3. OverlapInv'
      BY <1>2, <1>3, <1>5, OtherOverlap
    <2>4. OnceInv'
      BY <1>2, <1>3, <1>5, PollerOnce
    <2>5. QED
      BY <1>4, <2>1, <2>2, <2>3, <2>4 DEF SInv
  <1>6. ASSUME NEW a \in Actors, Dispatch(a) PROVE SInv'
    <2>1. TypeOK'
      <3>1. actor[a].pc \in Dispatching => actor[a].task \in Tasks
        BY <1>2 DEF Hands, Hand
      <3>2. QED
        BY <1>2, <1>6, <3>1, DispatchTypes
    <2>2. Hands' /\ RowsInv'
      BY <1>2, <1>3, <1>6, DispatchRows
    <2>3. OverlapInv'
      BY <1>2, <1>3, <1>6, DispatchOverlap
    <2>4. OnceInv'
      BY <1>2, <1>3, <1>6, DispatchOnce, RequestOnce
    <2>5. QED
      BY <1>4, <2>1, <2>2, <2>3, <2>4 DEF SInv
  <1>7. ASSUME NEW q \in Requests, RequestNext(q) PROVE SInv'
    <2>1. TypeOK'
      BY <1>2, <1>7, RequestTypes
    <2>2. Hands' /\ RowsInv'
      BY <1>2, <1>7, QuietRows
    <2>3. OverlapInv'
      BY <1>2, <1>3, <1>7, OtherOverlap
    <2>4. OnceInv'
      BY <1>2, <1>3, <1>7, QuietOnce
    <2>5. QED
      BY <1>4, <2>1, <2>2, <2>3, <2>4 DEF SInv
  <1>8. ASSUME NEW a \in Actors, RepositoryError(a) PROVE SInv'
    <2>1. TypeOK'
      BY <1>2, <1>8, OtherTypes
    <2>2. Hands' /\ RowsInv'
      BY <1>2, <1>8, QuietRows
    <2>3. OverlapInv'
      BY <1>2, <1>3, <1>8, OtherOverlap
    <2>4. OnceInv'
      BY <1>2, <1>3, <1>8, FaultOnce, RequestOnce
    <2>5. QED
      BY <1>4, <2>1, <2>2, <2>3, <2>4 DEF SInv
  <1>9. CASE (\E r \in Rows : RunEnds(r) \/ HookTask(r)) \/ Restart
    <2>1. TypeOK'
      BY <1>2, <1>9, OtherTypes
    <2>2. Hands' /\ RowsInv'
      BY <1>2, <1>3, <1>9, RunRows
    <2>3. OverlapInv'
      BY <1>2, <1>3, <1>9, OtherOverlap
    <2>4. OnceInv'
      BY <1>2, <1>3, <1>9, QuietOnce, FaultOnce
    <2>5. QED
      BY <1>4, <2>1, <2>2, <2>3, <2>4 DEF SInv
  <1>10. CASE (\E t \in Tasks : Tick(t) \/ LeaseExpires(t)) \/ UNCHANGED vars
    <2>1. TypeOK'
      <3>1. CASE UNCHANGED vars
        BY <1>2, <3>1 DEF TypeOK, vars
      <3>2. QED
        BY <1>2, <1>10, <3>1, OtherTypes
    <2>2. Hands' /\ RowsInv'
      BY <1>2, <1>10, QuietRows
    <2>3. OverlapInv'
      BY <1>2, <1>3, <1>10, OtherOverlap
    <2>4. OnceInv'
      BY <1>2, <1>3, <1>10, QuietOnce
    <2>5. QED
      BY <1>4, <2>1, <2>2, <2>3, <2>4 DEF SInv
  <1>11. QED
    BY <1>1, <1>2, <1>5, <1>6, <1>7, <1>8, <1>9, <1>10 DEF Next, PollerNext

\* The invariant holds in every reachable state.
LEMMA SInductive == Spec => []SInv
  BY SInit, SNext, PTL DEF Spec

\* Every variable keeps its type, whatever poller, requests, hooks and restarts
\* do: the budget of a poll never leaves 0..max_concurrent_runs and no dispatch
\* works on a row that is not there.
THEOREM SchedulerTypeCorrect == Spec => []TypeOK
  <1>1. SInv => TypeOK
    BY DEF SInv
  <1>2. QED
    BY <1>1, SInductive, PTL

\* For all tasks, requests and rows: what the completion hook wrote into the row
\* of a run survives the launch path, which may come to its update_status later.
THEOREM RowTellsOutcomeHolds == Spec => []RowTellsOutcome
  <1>1. SInv => RowTellsOutcome
    BY DEF SInv, RowsInv, RowRun, RowTellsOutcome
  <1>2. QED
    BY <1>1, SInductive, PTL

\* For all tasks, requests and restarts: the poller never has two occurrences of
\* one task executing at a time (has_active_runs, then create_run).
THEOREM NoScheduledOverlapHolds == Spec => []NoScheduledOverlap
  <1>1. ASSUME SInv PROVE NoScheduledOverlap
    <2>1. SUFFICES ASSUME NEW q \in Rows, NEW r \in Rows, q # r, errors = 0,
                          run[q].pc = "active", run[r].pc = "active",
                          trun[q].task = trun[r].task,
                          trun[q].trigger # "manual", trun[r].trigger # "manual"
                   PROVE  FALSE
      BY DEF NoScheduledOverlap
    <2>2. TypeOK /\ Hands /\ RowsInv /\ Signed /\ OverlapInv
      BY <1>1 DEF SInv
    <2>3. /\ trun[q].status \in ActiveRun /\ trun[r].status \in ActiveRun
          /\ "none" \notin ActiveRun
      BY <2>1, <2>2 DEF RowsInv, RowRun, ActiveRun
    <2>4. PICK t \in Tasks : trun[q].task = t /\ trun[r].task = t
      BY <2>1, <2>2, <2>3 DEF Signed
    <2>5. trun[q].trigger = "scheduled" /\ trun[r].trigger = "scheduled"
      BY <2>1, <2>2, <2>3 DEF Signed, TypeOK, RunRow
    <2>6. actor[Poller].pc = "skip" /\ actor[Poller].row \in {q, r}
      BY <2>1, <2>2, <2>3, <2>4, <2>5 DEF OverlapInv, Occurs
    <2>7. run[actor[Poller].row].pc = "none"
      BY <2>2, <2>6 DEF Hands, Hand, Actors
    <2>8. QED
      BY <2>1, <2>6, <2>7
  <1>2. QED
    BY <1>1, SInductive, PTL

\* For all tasks, requests and rows: the poller launches a once task at most
\* once for each time it was armed, as long as nobody triggered it by hand, no
\* process died and at most one repository call failed.
THEOREM OnceRunsOnceHolds == Spec => []OnceRunsOnce
  <1>1. ASSUME SInv PROVE OnceRunsOnce
    <2>1. SUFFICES ASSUME NEW t \in Once, crashes = 0, errors <= 1, ~TriggeredByHand(t)
                   PROVE  fired[t] <= 1
      BY DEF OnceRunsOnce
    <2>2. fired[t] \in Nat
      BY <1>1 DEF SInv, TypeOK, Tasks
    <2>3. fired[t] > 0 => fired[t] <= 1
      BY <1>1, <2>1 DEF SInv, OnceInv, Launched
    <2>4. QED
      BY <2>2, <2>3
  <1>2. QED
    BY <1>1, SInductive, PTL

=============================================================================
