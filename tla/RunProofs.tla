------------------------------ MODULE RunProofs ------------------------------
(***************************************************************************)
(* RunLifecycle for every number of runs and restarts: the state is well   *)
(* typed, two runs never write the thread's checkpoints together, a        *)
(* rollback takes back its own run's work only, the rows in the store have *)
(* an owner and tell the outcome, and the thread's status settles.         *)
(***************************************************************************)
EXTENDS RunLifecycle, TLAPS

-----------------------------------------------------------------------------
(* Types. *)

\* Up to here a cancel still reaches the task; from there on it has its status.
Pre == {"created", "wait", "marking", "capture", "stream"}
Post == {"settle", "settle_rb", "rollback", "complete", "title", "thread",
         "clear", "end"}

Present(r) == run[r].pc # "absent"

\* The task will not write the thread's checkpoints any more: its stream ended
\* by itself, or its cleanup is done.
Over(r) ==
    /\ run[r].status \notin Active
    /\ \/ run[r].pc \in {"end", "done"}
       \/ /\ run[r].pc \in {"settle", "complete", "thread", "clear"}
          /\ run[r].status # "interrupted"

\* The run came past wait_for_prior_finalizing.
Past(r) == run[r].pc \in {"marking", "capture", "stream"} \/ run[r].snap.kind # "unset"

\* What holds of one run.  The mark finalizing is what a successor looks at: it
\* is set from the abort on, and when it is not set an aborted run is over.
Settled(r) ==
    run[r].pc \in Post => run[r].status \in {"success", "error", "interrupted"}

Marked(r) ==
    run[r].finalizing => /\ run[r].status \notin Active
                         /\ run[r].pc \notin NoTask
                         /\ run[r].pc \in Pre => run[r].cancel

Aborting(r) ==
    phase = "up" /\ (run[r].cancel \/ run[r].pc = "done") => run[r].status \notin Active

Finished(r) ==
    Present(r) /\ run[r].status \notin Active /\ ~run[r].finalizing /\ r \notin early
    => Over(r)

Numbered(r) == Present(r) => r <= admitted

Own(r) == Settled(r) /\ Marked(r) /\ Aborting(r) /\ Finished(r) /\ Numbered(r)

\* An older run is still marked or over, and over once the younger one works.
Behind(q, r) ==
    q < r /\ Present(q) /\ Present(r) /\ q \notin early
    => /\ run[q].finalizing \/ Over(q)
       /\ Past(r) => Over(q)

\* The process: nothing survives in memory, and the bound on restarts is spent
\* when the process goes down.
Process ==
    /\ phase = "down" => \A r \in Runs : run[r] = NoRecord
    /\ phase # "up" => restarts < MaxRestarts

\* The inductive invariant.
IInv ==
    /\ TypeOK
    /\ Process
    /\ \A r \in Runs : Own(r)
    /\ \A q, r \in Runs : Behind(q, r)

\* A run without a record in memory is still of the type.
LEMMA NoRecordType == NoRecord \in Record
  BY RunAssumption DEF NoRecord, Record, Status, Active, PCs, NoTask, TaskActive,
     Snapshot, Checkpoint

\* What the operators on one record return is a record.
LEMMA RecordType ==
    ASSUME NEW rec \in Record, NEW action \in {"interrupt", "rollback"}
    PROVE  /\ Aborted(rec, action) \in Record
           /\ AfterAbort(rec) \in Record
  <1>2. Aborted(rec, action) \in Record
    <2>1. DEFINE live == rec.pc \in TaskActive
    <2>2. live \in BOOLEAN /\ (live \/ rec.cancel) \in BOOLEAN
      OBVIOUS
    <2>3. "interrupted" \in Status
      BY DEF Status
    <2>4. QED
      BY <2>2, <2>3 DEF Aborted, Record
  <1>3. AfterAbort(rec) \in Record
    BY DEF AfterAbort, Record, Status, PCs, TaskActive
  <1>4. QED
    BY <1>2, <1>3

\* The initial state is well typed.
LEMMA TypeInit == Init => TypeOK
  BY RunAssumption, NoRecordType DEF Init, TypeOK, Checkpoint, Status

\* The steps of the gateway's handlers and of the process keep the types.
LEMMA TypeOuter ==
    ASSUME IInv,
           \/ \E strategy \in {"reject", "interrupt", "rollback"} :
                CreateOrReject(strategy)
           \/ \E r \in Runs :
                \/ \E action \in {"interrupt", "rollback"} : Cancel(r, action)
                \/ PersistInterrupted(r) \/ UpsertThread(r) \/ StartTask(r)
           \/ BeginShutdown \/ EndShutdown \/ Crash \/ Restart
    PROVE  TypeOK'
  <1>0. TypeOK
    BY DEF IInv
  <1>1. ASSUME NEW strategy \in {"reject", "interrupt", "rollback"},
               CreateOrReject(strategy)
        PROVE  TypeOK'
    <2>0. DEFINE hit == {q \in Runs : run[q].status \in Active /\ ~run[q].finalizing}
    <2>1. admitted + 1 \in Runs
      BY <1>0, <1>1, RunAssumption DEF CreateOrReject, TypeOK, Runs
    <2>2. [NoRecord EXCEPT !.status = "pending", !.pc = "unborn"] \in Record
      <3>1. NoRecord \in Record
        BY NoRecordType
      <3>2. "pending" \in Status /\ "unborn" \in PCs
        BY DEF Status, Active, PCs, NoTask
      <3>3. QED
        BY <3>1, <3>2 DEF Record
    <2>3. ASSUME NEW q \in hit
          PROVE  Aborted(run[q], strategy) \in Record
      <3>1. strategy # "reject" /\ run[q] \in Record
        BY <1>0, <1>1, <2>3 DEF CreateOrReject, Inflight, TypeOK
      <3>2. QED
        BY <3>1, RecordType
    <2>4. run' \in [Runs -> Record]
      BY <1>0, <1>1, <2>2, <2>3 DEF CreateOrReject, TypeOK
    <2>5. QED
      BY <1>0, <1>1, <2>1, <2>4, RunAssumption DEF CreateOrReject, TypeOK, Runs, Status, Active
  <1>2. ASSUME NEW r \in Runs, NEW action \in {"interrupt", "rollback"},
               Cancel(r, action)
        PROVE  TypeOK'
    <2>1. Aborted(run[r], action) \in Record
      BY <1>0, RecordType DEF TypeOK
    <2>2. QED
      BY <1>0, <1>2, <2>1 DEF Cancel, TypeOK
  <1>3. ASSUME NEW r \in Runs, PersistInterrupted(r) \/ UpsertThread(r) \/ StartTask(r)
        PROVE  TypeOK'
    <2>1. CASE PersistInterrupted(r)
      BY <1>0, <2>1 DEF PersistInterrupted, TypeOK, Status
    <2>2. CASE UpsertThread(r)
      BY <1>0, <2>2 DEF UpsertThread, TypeOK, Record, PCs, NoTask
    <2>3. CASE StartTask(r)
      BY <1>0, <2>3 DEF StartTask, TypeOK, Record, PCs, NoTask, TaskActive
    <2>4. QED
      BY <1>0, <1>3, <2>1, <2>2, <2>3
  <1>4. CASE BeginShutdown
    BY <1>0, <1>4 DEF BeginShutdown, TypeOK, Record
  <1>5. CASE EndShutdown
    <2>1. run' \in [Runs -> Record]
      BY <1>0, <1>5, NoRecordType DEF EndShutdown
    <2>2. QED
      BY <1>0, <1>5, <2>1 DEF EndShutdown, TypeOK, Status
  <1>6. CASE Crash
    <2>1. run' \in [Runs -> Record]
      BY <1>0, <1>6, NoRecordType DEF Crash
    <2>2. QED
      BY <1>0, <1>6, <2>1 DEF Crash, TypeOK
  <1>7. CASE Restart
    <2>1. restarts < MaxRestarts
      BY <1>7 DEF Restart, IInv, Process
    <2>2. QED
      BY <1>0, <1>7, <2>1, RunAssumption DEF Restart, TypeOK, Status, Orphans
  <1>8. QED
    BY <1>1, <1>2, <1>3, <1>4, <1>5, <1>6, <1>7

\* The steps of run_agent keep the types.
LEMMA TypeTask ==
    ASSUME IInv, NEW r \in Runs, TaskStep(r)
    PROVE  TypeOK'
  <1>0. /\ TypeOK
        /\ r + 1 \in Checkpoint
        /\ 0 \in Checkpoint
        /\ run[r] \in Record
    BY RunAssumption DEF IInv, TypeOK, Runs, Checkpoint
  <1>1. CASE FirstStep(r)
    BY <1>0, <1>1 DEF FirstStep, Advance, TypeOK, Record, PCs, TaskActive
  <1>2. CASE MarkRunning(r)
    BY <1>0, <1>2 DEF MarkRunning, TypeOK, Record, PCs, TaskActive, Status, Active
  <1>3. CASE PersistRunning(r)
    BY <1>0, <1>3 DEF PersistRunning, Advance, TypeOK, Record, PCs, TaskActive,
       Status, Active
  <1>4. CASE Capture(r)
    <2>1. PICK kind \in {"taken", "failed"} :
            run' = [run EXCEPT ![r].pc = "stream",
                               ![r].snap = [kind |-> kind, at |-> ckpt]]
      BY <1>4 DEF Capture
    <2>2. [kind |-> kind, at |-> ckpt] \in Snapshot
      BY <1>0 DEF TypeOK, Snapshot
    <2>3. run' \in [Runs -> Record]
      BY <1>0, <2>1, <2>2 DEF TypeOK, Record, PCs, TaskActive
    <2>4. QED
      BY <1>0, <1>4, <2>3 DEF Capture, TypeOK
  <1>5. CASE StreamItem(r)
    <2>1. AfterAbort(run[r]) \in Record
      BY <1>0, RecordType
    <2>2. QED
      BY <1>0, <1>5, <2>1 DEF StreamItem, TypeOK
  <1>6. ASSUME NEW status \in {"success", "error"}, StreamEnd(r, status)
        PROVE  TypeOK'
    BY <1>0, <1>6 DEF StreamEnd, TypeOK, Record, PCs, TaskActive, Status
  <1>7. CASE Throw(r)
    <2>1. run' \in [Runs -> Record]
      BY <1>0, <1>7 DEF Throw, TypeOK, Record, PCs, TaskActive
    <2>2. row' \in [Runs -> Status]
      BY <1>0, <1>7 DEF Throw, TypeOK, Status, Active
    <2>3. ckpt' \in Checkpoint
      BY <1>0, <1>7 DEF Throw, TypeOK
    <2>4. QED
      BY <1>0, <1>7, <2>1, <2>2, <2>3 DEF Throw, TypeOK
  <1>8. CASE HandleCancelled(r)
    <2>1. AfterAbort(run[r]) \in Record
      BY <1>0, RecordType
    <2>2. QED
      BY <1>0, <1>8, <2>1 DEF HandleCancelled, TypeOK
  <1>9. CASE PersistFinal(r)
    BY <1>0, <1>9 DEF PersistFinal, Advance, TypeOK, Record, PCs, TaskActive
  <1>10. CASE Rollback(r)
    <2>1. Restored(run[r].snap) \in Checkpoint
      BY <1>0 DEF Restored, TypeOK, Record, Snapshot
    <2>2. QED
      BY <1>0, <1>10, <2>1 DEF Rollback, Advance, TypeOK, Record, PCs, TaskActive
  <1>11. CASE Complete(r)
    <2>1. run' \in [Runs -> Record]
      BY <1>0, <1>11 DEF Complete, Advance, TypeOK, Record, PCs, TaskActive
    <2>2. row' \in [Runs -> Status]
      BY <1>0, <1>11 DEF Complete, TypeOK, Record
    <2>3. QED
      BY <1>0, <1>11, <2>1, <2>2 DEF Complete, TypeOK
  <1>12. CASE Title(r)
    <2>1. run' \in [Runs -> Record]
      BY <1>0, <1>12 DEF Title, Advance, TypeOK, Record, PCs, TaskActive
    <2>2. ckpt' \in Checkpoint
      BY <1>0, <1>12 DEF Title, TypeOK
    <2>3. QED
      BY <1>0, <1>12, <2>1, <2>2 DEF Title, TypeOK
  <1>13. CASE UpdateThread(r)
    <2>1. run[r].pc = "thread" => run[r].status \in {"success", "error", "interrupted"}
      BY DEF IInv, Own, Settled, Post
    <2>2. QED
      BY <1>0, <1>13, <2>1 DEF UpdateThread, ThreadStatus, Advance, TypeOK, Record,
         PCs, TaskActive
  <1>14. CASE ClearFinalizing(r)
    BY <1>0, <1>14 DEF ClearFinalizing, TypeOK, Record, PCs, TaskActive
  <1>15. CASE PublishEnd(r)
    BY <1>0, <1>15 DEF PublishEnd, Advance, TypeOK, Record, PCs
  <1>16. QED
    BY <1>1, <1>2, <1>3, <1>4, <1>5, <1>6, <1>7, <1>8, <1>9, <1>10, <1>11, <1>12,
       <1>13, <1>14, <1>15 DEF TaskStep

-----------------------------------------------------------------------------
(* One run's step. *)

\* What a step that changes the record of run r only has to respect.
KeepsOrder(r) ==
    /\ \A q \in Runs : q # r => run'[q] = run[q]
    /\ phase # "down"
    /\ phase' = phase /\ restarts' = restarts /\ admitted' = admitted
    /\ early \subseteq early'
    /\ Present(r)' => Present(r)
    /\ run[r].finalizing \/ Over(r) => (run[r].finalizing \/ Over(r))'
    /\ Over(r) => Over(r)'
    /\ Past(r)' => Past(r) \/ PriorSettled(r)

\* If it does, and the run's own part holds again, the invariant does.
LEMMA OneRun ==
    ASSUME IInv, TypeOK', NEW r \in Runs, KeepsOrder(r), Own(r)'
    PROVE  IInv'
  <1>1. Process'
    BY DEF IInv, Process, KeepsOrder
  <1>2. ASSUME NEW q \in Runs PROVE Own(q)'
    <2>1. CASE q = r
      BY <2>1
    <2>2. CASE q # r
      <3>1. run'[q] = run[q] /\ Own(q)
        BY <2>2 DEF KeepsOrder, IInv
      <3>2. QED
        BY <3>1 DEF KeepsOrder, Own, Settled, Marked, Aborting, Finished, Numbered,
           Present, Over
    <2>3. QED
      BY <2>1, <2>2
  <1>3. ASSUME NEW p \in Runs, NEW q \in Runs PROVE Behind(p, q)'
    <2>1. SUFFICES ASSUME p < q, Present(p)', Present(q)', p \notin early'
                   PROVE  /\ (run[p].finalizing \/ Over(p))'
                          /\ Past(q)' => Over(p)'
      BY DEF Behind
    <2>2. /\ Present(p) /\ Present(q) /\ p \notin early
          /\ Behind(p, q)
          /\ p # q
      BY <2>1 DEF KeepsOrder, Present, IInv, Runs
    <2>3. /\ run[p].finalizing \/ Over(p)
          /\ Past(q) => Over(p)
      BY <2>1, <2>2 DEF Behind
    <2>4. Over(p) => Over(p)'
      BY DEF KeepsOrder, Over
    <2>5. (run[p].finalizing \/ Over(p))'
      BY <2>3 DEF KeepsOrder, Over
    <2>6. ASSUME Past(q)' PROVE Over(p)
      <3>1. CASE q = r
        BY <2>1, <2>3, <2>6, <3>1 DEF KeepsOrder, PriorSettled
      <3>2. CASE q # r
        BY <2>3, <2>6, <3>2 DEF KeepsOrder, Past
      <3>3. QED
        BY <3>1, <3>2
    <2>7. QED
      BY <2>4, <2>5, <2>6
  <1>4. QED
    BY <1>1, <1>2, <1>3 DEF IInv

\* The steps of run_agent.
LEMMA TaskKeeps ==
    ASSUME IInv, NEW r \in Runs, TaskStep(r)
    PROVE  IInv'
  <1>0. /\ TypeOK'
        /\ run \in [Runs -> Record] /\ run[r] \in Record
        /\ Own(r)
    BY TypeTask DEF IInv, TypeOK
  <1> USE DEF Own, Settled, Marked, Aborting, Finished, Numbered, KeepsOrder,
              Present, Over, Past, Pre, Post
  <1>1. CASE FirstStep(r)
    <2>1. KeepsOrder(r) /\ Own(r)'
      BY <1>0, <1>1 DEF FirstStep, Advance, Running, Record, Active, NoTask
    <2>2. QED
      BY <1>0, <2>1, OneRun
  <1>2. CASE MarkRunning(r)
    <2>1. KeepsOrder(r) /\ Own(r)'
      BY <1>0, <1>2 DEF MarkRunning, Running, Record, Active, NoTask
    <2>2. QED
      BY <1>0, <2>1, OneRun
  <1>3. CASE PersistRunning(r)
    <2>1. KeepsOrder(r) /\ Own(r)'
      BY <1>0, <1>3 DEF PersistRunning, Advance, Running, Record, Active, NoTask
    <2>2. QED
      BY <1>0, <2>1, OneRun
  <1>4. CASE Capture(r)
    <2>1. KeepsOrder(r) /\ Own(r)'
      BY <1>0, <1>4 DEF Capture, Running, Record, Active, NoTask
    <2>2. QED
      BY <1>0, <2>1, OneRun
  <1>5. CASE StreamItem(r)
    <2>1. KeepsOrder(r) /\ Own(r)'
      BY <1>0, <1>5 DEF StreamItem, Running, AfterAbort, Record, Active, NoTask
    <2>2. QED
      BY <1>0, <2>1, OneRun
  <1>6. ASSUME NEW status \in {"success", "error"}, StreamEnd(r, status)
        PROVE  IInv'
    <2>1. KeepsOrder(r) /\ Own(r)'
      BY <1>0, <1>6 DEF StreamEnd, Running, Record, Active, NoTask
    <2>2. QED
      BY <1>0, <2>1, OneRun
  <1>7. CASE Throw(r)
    <2>1. KeepsOrder(r) /\ Own(r)'
      BY <1>0, <1>7 DEF Throw, Running, Record, Active, NoTask
    <2>2. QED
      BY <1>0, <2>1, OneRun
  <1>8. CASE HandleCancelled(r)
    <2>1. KeepsOrder(r) /\ Own(r)'
      BY <1>0, <1>8 DEF HandleCancelled, Running, AfterAbort, Record, Active, NoTask
    <2>2. QED
      BY <1>0, <2>1, OneRun
  <1>9. CASE PersistFinal(r)
    <2>1. KeepsOrder(r) /\ Own(r)'
      BY <1>0, <1>9 DEF PersistFinal, Advance, Running, Record, Active, NoTask
    <2>2. QED
      BY <1>0, <2>1, OneRun
  <1>10. CASE Rollback(r)
    <2>1. KeepsOrder(r) /\ Own(r)'
      BY <1>0, <1>10 DEF Rollback, Advance, Running, Record, Active, NoTask
    <2>2. QED
      BY <1>0, <2>1, OneRun
  <1>11. CASE Complete(r)
    <2>1. KeepsOrder(r) /\ Own(r)'
      BY <1>0, <1>11 DEF Complete, Advance, Running, Record, Active, NoTask
    <2>2. QED
      BY <1>0, <2>1, OneRun
  <1>12. CASE Title(r)
    <2>1. KeepsOrder(r) /\ Own(r)'
      BY <1>0, <1>12 DEF Title, Advance, Running, Record, Active, NoTask
    <2>2. QED
      BY <1>0, <2>1, OneRun
  <1>13. CASE UpdateThread(r)
    <2>1. KeepsOrder(r) /\ Own(r)'
      BY <1>0, <1>13 DEF UpdateThread, Advance, Running, Record, Active, NoTask
    <2>2. QED
      BY <1>0, <2>1, OneRun
  <1>14. CASE ClearFinalizing(r)
    <2>1. KeepsOrder(r) /\ Own(r)'
      BY <1>0, <1>14 DEF ClearFinalizing, Running, Record, Active, NoTask
    <2>2. QED
      BY <1>0, <2>1, OneRun
  <1>15. CASE PublishEnd(r)
    <2>1. KeepsOrder(r) /\ Own(r)'
      BY <1>0, <1>15 DEF PublishEnd, Advance, Running, Record, Active, NoTask
    <2>2. QED
      BY <1>0, <2>1, OneRun
  <1>16. QED
    BY <1>1, <1>2, <1>3, <1>4, <1>5, <1>6, <1>7, <1>8, <1>9, <1>10, <1>11, <1>12,
       <1>13, <1>14, <1>15 DEF TaskStep

-----------------------------------------------------------------------------
(* The other steps. *)

\* Requests that touch one run: a cancel, its store write, the rest of start_run.
LEMMA RequestKeeps ==
    ASSUME IInv, NEW r \in Runs,
           \/ \E action \in {"interrupt", "rollback"} : Cancel(r, action)
           \/ PersistInterrupted(r) \/ UpsertThread(r) \/ StartTask(r)
    PROVE  IInv'
  <1>0. /\ TypeOK'
        /\ run \in [Runs -> Record] /\ run[r] \in Record
        /\ Own(r)
    BY TypeOuter DEF IInv, TypeOK
  <1> USE DEF Own, Settled, Marked, Aborting, Finished, Numbered, KeepsOrder,
              Present, Over, Past, Pre, Post
  <1>1. ASSUME NEW action \in {"interrupt", "rollback"}, Cancel(r, action)
        PROVE  KeepsOrder(r) /\ Own(r)'
    <2>1. /\ run'[r].pc = run[r].pc /\ run'[r].snap = run[r].snap
          /\ run'[r].status = "interrupted"
          /\ run'[r].finalizing <=> run[r].pc \in TaskActive
          /\ run'[r].cancel <=> run[r].pc \in TaskActive \/ run[r].cancel
      BY <1>0, <1>1 DEF Cancel, Aborted, Record
    <2>2. /\ run[r].status \in Active /\ phase = "up" /\ run[r].pc # "done"
          /\ run[r].pc \notin Post /\ ~run[r].finalizing
      BY <1>0, <1>1 DEF Cancel, Active
    <2>3. run[r].pc \in NoTask => r \in early'
      BY <1>1 DEF Cancel
    <2>4. KeepsOrder(r)
      BY <1>0, <1>1, <2>1, <2>2 DEF Cancel
    <2>5. Own(r)'
      BY <1>0, <1>1, <2>1, <2>2, <2>3 DEF Cancel, Record, PCs, TaskActive, NoTask, Active
    <2>6. QED
      BY <2>4, <2>5
  <1>2. ASSUME PersistInterrupted(r) PROVE KeepsOrder(r) /\ Own(r)'
    BY <1>0, <1>2 DEF PersistInterrupted
  <1>3. ASSUME UpsertThread(r) PROVE KeepsOrder(r) /\ Own(r)'
    BY <1>0, <1>3 DEF UpsertThread, Record, Active, NoTask
  <1>4. ASSUME StartTask(r) PROVE KeepsOrder(r) /\ Own(r)'
    BY <1>0, <1>4 DEF StartTask, Record, Active, NoTask
  <1>5. KeepsOrder(r) /\ Own(r)'
    BY <1>1, <1>2, <1>3, <1>4
  <1>6. QED
    BY <1>0, <1>5, OneRun

\* A new run: every older one is over, or was already marked, or is now.
LEMMA CreateKeeps ==
    ASSUME IInv, NEW strategy \in {"reject", "interrupt", "rollback"},
           CreateOrReject(strategy)
    PROVE  IInv'
  <1>0. /\ TypeOK'
        /\ run \in [Runs -> Record]
        /\ \A q \in Runs : Own(q) /\ run[q] \in Record
        /\ admitted \in Nat
    BY TypeOuter, RunAssumption DEF IInv, TypeOK
  <1> DEFINE new == admitted + 1
             hit == {q \in Runs : run[q].status \in Active /\ ~run[q].finalizing}
  <1>1. /\ phase = "up" /\ phase' = phase /\ admitted' = new
        /\ restarts' = restarts
        /\ early' = early \cup {q \in hit : run[q].pc \in NoTask}
    BY DEF CreateOrReject
  <1>2. new \in Runs => /\ run'[new].pc = "unborn" /\ run'[new].status = "pending"
                        /\ ~run'[new].finalizing /\ ~run'[new].cancel
                        /\ run'[new].snap.kind = "unset"
    BY DEF CreateOrReject, NoRecord
  <1>3. ASSUME NEW q \in Runs, q # new, q \notin hit
        PROVE  run'[q] = run[q]
    BY <1>3 DEF CreateOrReject
  <1>4. ASSUME NEW q \in Runs, q # new, q \in hit
        PROVE  /\ run'[q].pc = run[q].pc /\ run'[q].snap = run[q].snap
               /\ run'[q].status = "interrupted"
               /\ run'[q].finalizing <=> run[q].pc \in TaskActive
               /\ run'[q].cancel <=> run[q].pc \in TaskActive \/ run[q].cancel
    <2>1. run'[q] = Aborted(run[q], strategy)
      BY <1>4 DEF CreateOrReject
    <2>2. run[q] \in Record
      BY <1>0
    <2>3. QED
      BY <2>1, <2>2 DEF Aborted, Record
  <1>5. ASSUME NEW q \in Runs, q # new, q \in hit
        PROVE  run[q].pc \notin Post /\ run[q].pc # "done"
    BY <1>0, <1>1, <1>5 DEF Own, Settled, Aborting, Active
  <1> HIDE DEF hit
  <1>6. ASSUME NEW q \in Runs PROVE Own(q)'
    <2>0. q \in Nat
      BY DEF Runs
    <2>1. CASE q = new
      BY <1>0, <1>1, <1>2, <2>1 DEF Own, Settled, Marked, Aborting, Finished, Numbered,
         Present, Over, Active, Post
    <2>2. CASE q # new /\ q \notin hit
      <3>1. run'[q] = run[q] /\ Own(q)
        BY <1>0, <1>3, <2>2
      <3>2. QED
        BY <1>0, <1>1, <2>0, <3>1 DEF Own, Settled, Marked, Aborting, Finished, Numbered,
           Present, Over
    <2>3. CASE q # new /\ q \in hit
      <3>1. Own(q) /\ run[q] \in Record
        BY <1>0
      <3>2. Settled(q)' /\ Marked(q)' /\ Aborting(q)' /\ Numbered(q)'
        BY <1>0, <1>1, <1>4, <1>5, <2>0, <2>3, <3>1 DEF Own, Settled, Marked, Aborting, Numbered,
           Present, Active, NoTask, TaskActive, Pre, Record, PCs
      <3>3. Finished(q)'
        BY <1>1, <1>4, <1>5, <2>3, <3>1 DEF Finished, Present, Record, PCs
      <3>4. QED
        BY <3>2, <3>3 DEF Own
    <2>4. QED
      BY <2>1, <2>2, <2>3
  <1>7. ASSUME NEW p \in Runs, NEW q \in Runs PROVE Behind(p, q)'
    <2>1. SUFFICES ASSUME p < q, Present(p)', Present(q)', p \notin early'
                   PROVE  /\ (run[p].finalizing \/ Over(p))'
                          /\ Past(q)' => Over(p)'
      BY DEF Behind
    <2>2. q <= new
      BY <1>6 , <1>1, <2>1 DEF Own, Numbered
    <2>3. p # new /\ p \notin early
      BY <1>0, <1>1, <2>1, <2>2 DEF Runs
    <2>4. Present(p) /\ Own(p) /\ run[p] \in Record
      BY <1>0, <1>3, <1>4, <2>1, <2>3 DEF Present
    <2>5. (run[p].finalizing \/ Over(p))'
      <3>1. CASE p \in hit
        BY <1>1, <1>4, <1>5, <2>1, <2>3, <2>4, <3>1 DEF Present, Record, PCs
      <3>2. CASE p \notin hit
        BY <1>3, <2>3, <2>4, <3>2 DEF Own, Finished, Over, hit
      <3>3. QED
        BY <3>1, <3>2
    <2>6. ASSUME Past(q)' PROVE Over(p)'
      <3>1. q # new /\ Present(q) /\ Past(q)
        BY <1>2, <1>3, <1>4, <2>1, <2>6 DEF Past, Present
      <3>2. Over(p)
        BY <2>1, <2>3, <2>4, <3>1 DEF IInv, Behind
      <3>3. p \notin hit
        BY <3>2 DEF Over, hit
      <3>4. QED
        BY <1>3, <2>3, <3>2, <3>3 DEF Over
    <2>7. QED
      BY <2>5, <2>6
  <1>8. Process'
    BY <1>1 DEF Process
  <1>9. QED
    BY <1>0, <1>6, <1>7, <1>8 DEF IInv

\* With an empty memory the invariant holds of itself.
LEMMA EmptyMemory ==
    ASSUME TypeOK', Process', \A r \in Runs : run'[r] = NoRecord
    PROVE  IInv'
  BY DEF IInv, Own, Settled, Marked, Aborting, Finished, Numbered, Behind, Present,
     Post, Active, NoRecord

\* Shutdown cancels tasks that are active, and marks none.
LEMMA ShutdownKeeps ==
    ASSUME IInv, BeginShutdown
    PROVE  IInv'
  <1>0. /\ TypeOK'
        /\ run \in [Runs -> Record]
    BY TypeOuter DEF IInv, TypeOK
  <1>1. /\ phase' = "draining" /\ early' = early /\ admitted' = admitted
        /\ restarts' = restarts /\ restarts < MaxRestarts
    BY DEF BeginShutdown
  <1>2. ASSUME NEW q \in Runs
        PROVE  /\ run'[q].pc = run[q].pc /\ run'[q].snap = run[q].snap
               /\ run'[q].status = run[q].status
               /\ run'[q].finalizing = run[q].finalizing
               /\ run[q].cancel => run'[q].cancel
    <2>1. run[q] \in Record
      BY <1>0
    <2>2. QED
      BY <2>1 DEF BeginShutdown, Record
  <1>3. ASSUME NEW q \in Runs PROVE Own(q)'
    BY <1>1, <1>2 DEF IInv, Own, Settled, Marked, Aborting, Finished, Numbered,
       Present, Over
  <1>4. ASSUME NEW p \in Runs, NEW q \in Runs PROVE Behind(p, q)'
    BY <1>1, <1>2 DEF IInv, Behind, Present, Over, Past
  <1>5. QED
    BY <1>0, <1>1, <1>3, <1>4 DEF IInv, Process

\* The invariant holds initially, and every step keeps it.
LEMMA Inductive ==
    /\ Init => IInv
    /\ IInv /\ [Next]_vars => IInv'
  <1>1. ASSUME Init PROVE IInv
    BY <1>1, TypeInit DEF Init, IInv, Process, Own, Settled, Marked, Aborting, Finished,
       Numbered, Behind, Present, Post, Active, NoRecord
  <1>2. ASSUME IInv, [Next]_vars PROVE IInv'
    <2>1. CASE UNCHANGED vars
      BY <1>2, <2>1 DEF vars, IInv, TypeOK, Process, Own, Settled, Marked, Aborting,
         Finished, Numbered, Behind, Present, Over, Past
    <2>2. CASE \E strategy \in {"reject", "interrupt", "rollback"} : CreateOrReject(strategy)
      BY <1>2, <2>2, CreateKeeps
    <2>3. ASSUME NEW r \in Runs,
                 \/ \E action \in {"interrupt", "rollback"} : Cancel(r, action)
                 \/ PersistInterrupted(r) \/ UpsertThread(r) \/ StartTask(r)
          PROVE  IInv'
      BY <1>2, <2>3, RequestKeeps
    <2>4. ASSUME NEW r \in Runs, TaskStep(r) PROVE IInv'
      BY <1>2, <2>4, TaskKeeps
    <2>5. CASE BeginShutdown
      BY <1>2, <2>5, ShutdownKeeps
    <2>6. CASE EndShutdown
      <3>1. TypeOK'
        BY <1>2, <2>6, TypeOuter
      <3>2. Process' /\ \A r \in Runs : run'[r] = NoRecord
        BY <1>2, <2>6 DEF EndShutdown, IInv, Process
      <3>3. QED
        BY <3>1, <3>2, EmptyMemory
    <2>7. CASE Crash
      <3>1. TypeOK'
        BY <1>2, <2>7, TypeOuter
      <3>2. Process' /\ \A r \in Runs : run'[r] = NoRecord
        BY <1>2, <2>7 DEF Crash, IInv, Process
      <3>3. QED
        BY <3>1, <3>2, EmptyMemory
    <2>8. CASE Restart
      <3>1. TypeOK'
        BY <1>2, <2>8, TypeOuter
      <3>2. Process' /\ \A r \in Runs : run'[r] = NoRecord
        BY <1>2, <2>8 DEF Restart, IInv, Process
      <3>3. QED
        BY <3>1, <3>2, EmptyMemory
    <2>9. QED
      BY <1>2, <2>1, <2>2, <2>3, <2>4, <2>5, <2>6, <2>7, <2>8 DEF Next, UpNext
  <1>3. QED
    BY <1>1, <1>2

-----------------------------------------------------------------------------
(* The theorems. *)

\* A run that works implies that every older one that was aborted in time is
\* over, and a run that is over does not work.
LEMMA Exclusive == IInv => ThreadExclusive
  <1>1. SUFFICES ASSUME IInv, NEW q \in Runs, NEW r \in Runs,
                        q < r, Writing(q), Writing(r), q \notin early
                 PROVE  FALSE
    BY DEF ThreadExclusive
  <1>2. Present(q) /\ Present(r)
    BY <1>1 DEF Writing, Present
  <1>3. /\ run[q].finalizing \/ Over(q)
        /\ Past(r) => Over(q)
    BY <1>1, <1>2 DEF IInv, Behind
  <1>4. ~Over(q)
    BY <1>1 DEF Over, Writing
  <1>5. CASE run[r].pc = "title" /\ PriorSettled(r)
    BY <1>1, <1>3, <1>4, <1>5 DEF PriorSettled
  <1>6. CASE ~(run[r].pc = "title" /\ PriorSettled(r))
    BY <1>1, <1>3, <1>4, <1>6 DEF Writing, Past
  <1>7. QED
    BY <1>5, <1>6

\* Every variable keeps its type, for any number of runs and restarts; the
\* thread's status, which a finished run's status is copied to, included.
THEOREM RunTypeCorrect == Spec => []TypeOK
  <1>1. IInv => TypeOK
    BY DEF IInv
  <1>2. QED
    BY <1>1, Inductive, PTL DEF Spec

\* Two runs never write the thread's checkpoints at the same time, unless the
\* older one was aborted before it had a task: for any number of runs queued
\* behind one another, cancelled, rolled back, drained or lost in a crash.
THEOREM ThreadExclusiveHolds == Spec => []ThreadExclusive
  BY Inductive, Exclusive, PTL DEF Spec

-----------------------------------------------------------------------------
(* Rows. *)

\* The final status has been written.
After == {"rollback", "complete", "title", "thread", "clear", "end", "done"}

\* What ties the row of a run to its record: an abort leaves a write behind,
\* and nothing writes the row after the final status but that.
RowInv(r) ==
    /\ ~Present(r) => run[r] = NoRecord
    /\ r \in writes => run[r].action # "none"
    /\ run[r].pc \in NoTask => ~run[r].cancel
    /\ phase # "down" /\ ~Present(r) => row[r] \notin Active
    /\ phase = "up" /\ run[r].pc = "created" /\ run[r].cancel
         => run[r].status = "interrupted" /\ (r \in writes \/ row[r] = "interrupted")
    /\ phase = "up" /\ run[r].pc \in After
         => \/ row[r] = run[r].status
            \/ row[r] = "interrupted" /\ run[r].action # "none"
            \/ run[r].pc = "done" /\ r \in writes

RowsInv == \A r \in Runs : RowInv(r)

\* A step that changes one run, its row and its writes only.
LEMMA OneRow ==
    ASSUME RowsInv, NEW r \in Runs, RowInv(r)', phase' = phase,
           \A q \in Runs \ {r} : /\ run'[q] = run[q] /\ row'[q] = row[q]
                                 /\ q \in writes' <=> q \in writes
    PROVE  RowsInv'
  <1> SUFFICES ASSUME NEW q \in Runs, q # r PROVE RowInv(q)'
    BY DEF RowsInv
  <1>1. RowInv(q)
    BY DEF RowsInv
  <1> QED BY <1>1 DEF RowInv, Present

\* The steps of run_agent.
LEMMA TaskRows ==
    ASSUME IInv, RowsInv, NEW r \in Runs, TaskStep(r) PROVE RowsInv'
  <1>0. /\ run \in [Runs -> Record] /\ run[r] \in Record /\ row \in [Runs -> Status]
        /\ RowInv(r)
    BY DEF IInv, TypeOK, RowsInv
  <1>1. /\ phase' = phase
        /\ \A q \in Runs \ {r} : run'[q] = run[q] /\ row'[q] = row[q]
        /\ writes' = writes
    BY <1>0 DEF TaskStep, FirstStep, MarkRunning, PersistRunning, Capture, StreamItem, StreamEnd,
       Throw, HandleCancelled, PersistFinal, Rollback, Complete, Title, UpdateThread,
       ClearFinalizing, PublishEnd, Advance
  <1>2. RowInv(r)'
    <2> USE DEF RowInv, Present, After, NoTask, Record, Running
    <2>1. CASE FirstStep(r)
      BY <1>0, <2>1 DEF FirstStep, Advance
    <2>2. CASE MarkRunning(r)
      BY <1>0, <2>2 DEF MarkRunning
    <2>3. CASE PersistRunning(r)
      BY <1>0, <2>3 DEF PersistRunning, Advance
    <2>4. CASE Capture(r)
      BY <1>0, <2>4 DEF Capture
    <2>5. CASE StreamItem(r)
      BY <1>0, <2>5 DEF StreamItem, AfterAbort
    <2>6. ASSUME NEW status \in {"success", "error"}, StreamEnd(r, status) PROVE RowInv(r)'
      BY <1>0, <2>6 DEF StreamEnd
    <2>7. CASE Throw(r)
      BY <1>0, <2>7 DEF Throw
    <2>8. CASE HandleCancelled(r)
      BY <1>0, <2>8 DEF HandleCancelled, AfterAbort
    <2>9. CASE PersistFinal(r)
      BY <1>0, <2>9 DEF PersistFinal, Advance
    <2>10. CASE Rollback(r)
      BY <1>0, <2>10 DEF Rollback, Advance
    <2>11. CASE Complete(r)
      BY <1>0, <2>11 DEF Complete, Advance
    <2>12. CASE Title(r)
      BY <1>0, <2>12 DEF Title, Advance
    <2>13. CASE UpdateThread(r)
      BY <1>0, <2>13 DEF UpdateThread, Advance
    <2>14. CASE ClearFinalizing(r)
      BY <1>0, <2>14 DEF ClearFinalizing
    <2>15. CASE PublishEnd(r)
      BY <1>0, <2>15 DEF PublishEnd, Advance
    <2> QED
      BY <2>1, <2>2, <2>3, <2>4, <2>5, <2>6, <2>7, <2>8, <2>9, <2>10, <2>11, <2>12,
         <2>13, <2>14, <2>15 DEF TaskStep
  <1> QED BY <1>1, <1>2, OneRow

\* An abort of one run.
LEMMA AbortRow ==
    ASSUME IInv, NEW r \in Runs, RowInv(r), NEW action \in {"interrupt", "rollback"},
           phase = "up", run[r].status \in Active, ~run[r].finalizing,
           run'[r] = Aborted(run[r], action), r \in writes', row'[r] = row[r], phase' = phase
    PROVE  RowInv(r)'
  <1>0. run[r] \in Record /\ Own(r)
    BY DEF IInv, TypeOK
  <1>1. /\ run'[r].pc = run[r].pc /\ run'[r].action = action
        /\ run'[r].status = "interrupted"
        /\ run'[r].cancel <=> run[r].pc \in TaskActive \/ run[r].cancel
    BY <1>0 DEF Aborted, Record
  <1>2. run[r].pc \notin After
    BY <1>0 DEF Own, Settled, Aborting, After, Post, Active
  <1>3. Present(r)
    BY DEF RowInv, NoRecord, Active
  <1> QED BY <1>1, <1>2, <1>3 DEF RowInv, Present, NoTask, TaskActive

\* The other steps of the gateway.
LEMMA RequestRows ==
    ASSUME IInv, RowsInv, NEW r \in Runs,
           \/ \E action \in {"interrupt", "rollback"} : Cancel(r, action)
           \/ PersistInterrupted(r) \/ UpsertThread(r) \/ StartTask(r)
    PROVE  RowsInv'
  <1>0. /\ run \in [Runs -> Record] /\ run[r] \in Record /\ row \in [Runs -> Status]
        /\ RowInv(r) /\ Own(r)
    BY DEF IInv, TypeOK, RowsInv
  <1>1. /\ phase' = phase
        /\ \A q \in Runs \ {r} : /\ run'[q] = run[q] /\ row'[q] = row[q]
                                 /\ q \in writes' <=> q \in writes
    BY <1>0 DEF Cancel, PersistInterrupted, UpsertThread, StartTask
  <1>2. ASSUME NEW action \in {"interrupt", "rollback"}, Cancel(r, action) PROVE RowInv(r)'
    <2>1. ~run[r].finalizing
      BY <1>0, <1>2 DEF Cancel, Own, Marked
    <2> QED BY <1>0, <1>2, <2>1, AbortRow DEF Cancel
  <1>3. ASSUME PersistInterrupted(r) PROVE RowInv(r)'
    BY <1>0, <1>3 DEF PersistInterrupted, RowInv, Present, NoRecord, Active
  <1>4. ASSUME UpsertThread(r) PROVE RowInv(r)'
    BY <1>0, <1>4 DEF UpsertThread, RowInv, Present, NoTask, After, Record
  <1>5. ASSUME StartTask(r) PROVE RowInv(r)'
    BY <1>0, <1>5 DEF StartTask, RowInv, Present, NoTask, After, Record
  <1> QED BY <1>1, <1>2, <1>3, <1>4, <1>5, OneRow

\* A new run has a row of its own.
LEMMA CreateRows ==
    ASSUME IInv, RowsInv, NEW strategy \in {"reject", "interrupt", "rollback"},
           CreateOrReject(strategy)
    PROVE  RowsInv'
  <1>0. run \in [Runs -> Record] /\ row \in [Runs -> Status] /\ admitted \in Nat
    BY RunAssumption DEF IInv, TypeOK
  <1> DEFINE new == admitted + 1
             hit == {q \in Runs : run[q].status \in Active /\ ~run[q].finalizing}
  <1>1. phase = "up" /\ phase' = phase /\ writes' = writes \cup hit
    BY DEF CreateOrReject
  <1>2. ASSUME NEW q \in Runs PROVE RowInv(q)'
    <2>0. RowInv(q) /\ Numbered(q) /\ q \in Nat
      BY DEF IInv, Own, RowsInv, Runs
    <2>1. CASE q = new
      <3>1. ~Present(q)
        BY <1>0, <2>0, <2>1 DEF Numbered
      <3>2. run[q] = NoRecord
        BY <2>0, <3>1 DEF RowInv
      <3>3. q \notin writes'
        BY <1>1, <2>0, <3>2 DEF RowInv, NoRecord, Active
      <3>4. run'[q].pc = "unborn" /\ ~run'[q].cancel
        BY <2>1 DEF CreateOrReject, NoRecord
      <3> QED BY <3>3, <3>4 DEF RowInv, Present, After
    <2>2. CASE q # new /\ q \notin hit
      <3>1. run'[q] = run[q] /\ row'[q] = row[q] /\ (q \in writes' <=> q \in writes)
        BY <1>0, <1>1, <2>2 DEF CreateOrReject
      <3> QED BY <1>1, <2>0, <3>1 DEF RowInv, Present
    <2>3. CASE q # new /\ q \in hit
      <3>1. run'[q] = Aborted(run[q], strategy) /\ row'[q] = row[q] /\ q \in writes'
        BY <1>0, <1>1, <2>3 DEF CreateOrReject
      <3>2. strategy # "reject"
        BY <2>3 DEF CreateOrReject, Inflight
      <3> QED BY <1>1, <2>0, <2>3, <3>1, <3>2, AbortRow
    <2> QED BY <2>1, <2>2, <2>3
  <1> QED BY <1>2 DEF RowsInv

\* Rows and records stay together, from the start and through every step.
LEMMA RowsInductive ==
    /\ Init => RowsInv
    /\ IInv /\ RowsInv /\ [Next]_vars => RowsInv'
  <1>1. ASSUME Init PROVE RowsInv
    BY <1>1 DEF Init, RowsInv, RowInv, Present, NoRecord, NoTask, After, Active
  <1>2. ASSUME IInv, RowsInv, [Next]_vars PROVE RowsInv'
    <2>0. run \in [Runs -> Record] /\ row \in [Runs -> Status]
      BY <1>2 DEF IInv, TypeOK
    <2>1. CASE UNCHANGED vars
      BY <1>2, <2>1 DEF vars, RowsInv, RowInv, Present
    <2>2. CASE \E strategy \in {"reject", "interrupt", "rollback"} : CreateOrReject(strategy)
      BY <1>2, <2>2, CreateRows
    <2>3. ASSUME NEW r \in Runs,
                 \/ \E action \in {"interrupt", "rollback"} : Cancel(r, action)
                 \/ PersistInterrupted(r) \/ UpsertThread(r) \/ StartTask(r)
          PROVE  RowsInv'
      BY <1>2, <2>3, RequestRows
    <2>4. ASSUME NEW r \in Runs, TaskStep(r) PROVE RowsInv'
      BY <1>2, <2>4, TaskRows
    <2>5. CASE BeginShutdown
      <3> SUFFICES ASSUME NEW q \in Runs PROVE RowInv(q)'
        BY DEF RowsInv
      <3>1. RowInv(q) /\ phase = "up" /\ phase' = "draining" /\ UNCHANGED <<row, writes>>
        BY <1>2, <2>5 DEF RowsInv, BeginShutdown
      <3>2. \/ run'[q] = run[q]
            \/ /\ run[q].pc \in TaskActive /\ run'[q].pc = run[q].pc
               /\ run'[q].action = "interrupt"
        BY <2>0, <2>5 DEF BeginShutdown, Record
      <3> QED BY <3>1, <3>2 DEF RowInv, Present, TaskActive, NoTask
    <2>6. CASE EndShutdown \/ Crash
      <3>1. phase' = "down" /\ writes' = {} /\ \A q \in Runs : run'[q] = NoRecord
        BY <2>6 DEF EndShutdown, Crash
      <3> QED BY <3>1 DEF RowsInv, RowInv, Present, NoRecord, NoTask
    <2>7. CASE Restart
      <3>1. \A q \in Runs : run'[q] = NoRecord /\ run[q] = NoRecord
        BY <1>2, <2>7 DEF Restart, IInv, Process
      <3>2. \A q \in Runs : row'[q] \notin Active /\ q \notin writes'
        BY <1>2, <2>0, <2>7, <3>1 DEF Restart, Orphans, RowsInv, RowInv, NoRecord, Active
      <3> QED BY <3>1, <3>2 DEF RowsInv, RowInv, Present, NoRecord, NoTask, After
    <2> QED
      BY <1>2, <2>1, <2>2, <2>3, <2>4, <2>5, <2>6, <2>7 DEF Next, UpNext
  <1> QED BY <1>1, <1>2

\* While the process is up, a row that says pending or running belongs to a run
\* that has not ended, or a write of its final status is under way.
THEOREM ActiveRowHasOwnerHolds == Spec => []ActiveRowHasOwner
  <1>1. IInv /\ RowsInv => ActiveRowHasOwner
    <2> SUFFICES ASSUME IInv, RowsInv, NEW r \in Runs, phase = "up", row[r] \in Active,
                        run[r].pc \notin NoTask \cup TaskActive, r \notin writes
                 PROVE  FALSE
      BY DEF ActiveRowHasOwner
    <2>1. run[r] \in Record /\ Own(r) /\ RowInv(r)
      BY DEF IInv, TypeOK, RowsInv
    <2>2. run[r].pc \in {"absent", "done"}
      BY <2>1 DEF Record, PCs
    <2> QED BY <2>1, <2>2 DEF RowInv, Present, Own, Aborting, After, Active
  <1> QED BY <1>1, Inductive, RowsInductive, PTL DEF Spec

\* Once a run is over and its writes are done its row holds the run's status,
\* or the interrupted of whoever cancelled it.
THEOREM RowIsOutcomeHolds == Spec => []RowIsOutcome
  <1>1. RowsInv => RowIsOutcome
    BY DEF RowsInv, RowInv, RowIsOutcome, After
  <1> QED BY <1>1, Inductive, RowsInductive, PTL DEF Spec

-----------------------------------------------------------------------------
(* Rollback. *)

\* The pre-run checkpoint has not been read yet.
BeforeCapture == {"absent", "created", "wait", "marking", "capture"} \cup NoTask

Unread(r) == run[r].pc \in BeforeCapture => run[r].snap.kind = "unset"

\* The run goes by its snapshot, or still may.
Holding(r) ==
    run[r].snap.kind = "taken" /\ run[r].pc \in {"stream", "caught", "settle_rb", "rollback"}

SnapInv == (\A r \in Runs : Unread(r)) /\ RollbackLosesOwnWorkOnly

\* Nobody else writes the thread while a run holds a snapshot of it, except a
\* rollback that has no snapshot.
LEMMA OthersKeepOut ==
    ASSUME IInv, NEW r \in Runs, NEW q \in Runs, q # r, early = {}, Holding(r)
    PROVE  /\ run[q].pc # "stream"
           /\ run[q].pc = "rollback" => run[q].snap.kind = "unset"
           /\ run[q].pc = "title" => ~PriorSettled(q)
  <1>0. /\ Present(r) /\ Past(r) /\ ~Over(r) /\ r \in Nat /\ q \in Nat
        /\ Behind(q, r) /\ Behind(r, q)
    BY DEF IInv, Holding, Present, Past, Over, Runs
  <1> SUFFICES ASSUME Present(q) PROVE /\ run[q].pc # "stream"
                                       /\ run[q].pc = "rollback" => run[q].snap.kind = "unset"
                                       /\ run[q].pc = "title" => ~PriorSettled(q)
    BY DEF Present
  <1>1. CASE q < r
    <2>1. Over(q)
      BY <1>0, <1>1 DEF Behind
    <2> QED BY <2>1 DEF Over
  <1>2. CASE r < q
    <2>1. run[r].finalizing /\ ~Past(q)
      BY <1>0, <1>2 DEF Behind
    <2> QED BY <1>2, <2>1 DEF Past, PriorSettled
  <1> QED BY <1>0, <1>1, <1>2

\* A step of one run: either it leaves the thread alone, or it is the run's own
\* work, or nobody holds a snapshot that it could spoil.
LEMMA OneSnap ==
    ASSUME IInv, SnapInv, NEW r \in Runs, Unread(r)', early \subseteq early',
           \A q \in Runs \ {r} : run'[q] = run[q],
           Holding(r)' => \/ ckpt' \in {run'[r].snap.at, r + 1}
                          \/ Holding(r) /\ run'[r].snap = run[r].snap /\ ckpt' = ckpt,
           \A q \in Runs \ {r} : early = {} /\ Holding(q) => ckpt' \in {ckpt, 0}
    PROVE  SnapInv'
  <1>1. \A q \in Runs : Unread(q)'
    BY DEF SnapInv, Unread
  <1>2. ASSUME NEW q \in Runs, early' = {}, Holding(q)'
        PROVE  ckpt' \in {0, run'[q].snap.at, q + 1}
    <2>1. early = {} /\ (Holding(q) => ckpt \in {0, run[q].snap.at, q + 1})
      BY <1>2 DEF SnapInv, RollbackLosesOwnWorkOnly, Holding
    <2>2. CASE q = r
      BY <1>2, <2>1, <2>2
    <2>3. CASE q # r
      BY <1>2, <2>1, <2>3 DEF Holding
    <2> QED BY <2>2, <2>3
  <1> QED BY <1>1, <1>2 DEF SnapInv, RollbackLosesOwnWorkOnly, Holding

\* The steps of run_agent.
LEMMA TaskSnap ==
    ASSUME IInv, SnapInv, NEW r \in Runs, TaskStep(r) PROVE SnapInv'
  <1>0. /\ run \in [Runs -> Record] /\ run[r] \in Record /\ Unread(r)
        /\ run[r].snap \in Snapshot
    BY DEF IInv, TypeOK, SnapInv, Record
  <1>1. early' = early /\ \A q \in Runs \ {r} : run'[q] = run[q]
    BY <1>0 DEF TaskStep, FirstStep, MarkRunning, PersistRunning, Capture, StreamItem, StreamEnd,
       Throw, HandleCancelled, PersistFinal, Rollback, Complete, Title, UpdateThread,
       ClearFinalizing, PublishEnd, Advance
  <1>2. \A q \in Runs \ {r} :
          early = {} /\ Holding(q) =>
            /\ run[r].pc # "stream"
            /\ run[r].pc = "rollback" => run[r].snap.kind = "unset"
            /\ run[r].pc = "title" => ~PriorSettled(r)
    BY OthersKeepOut
  <1>3. ASSUME \/ FirstStep(r) \/ MarkRunning(r) \/ PersistRunning(r)
               \/ (\E status \in {"success", "error"} : StreamEnd(r, status))
               \/ HandleCancelled(r) \/ PersistFinal(r)
               \/ Complete(r) \/ UpdateThread(r) \/ ClearFinalizing(r)
               \/ PublishEnd(r)
        PROVE  SnapInv'
    <2>1. /\ ckpt' = ckpt /\ run'[r].snap = run[r].snap
          /\ run'[r].pc \in BeforeCapture => run[r].pc \in BeforeCapture
          /\ run'[r].pc \in {"stream", "caught", "settle_rb", "rollback"} =>
               run[r].pc \in {"stream", "caught", "settle_rb", "rollback"}
      <3> USE <1>0 DEF Record, BeforeCapture, NoTask, Advance
      <3>1. CASE FirstStep(r) \/ MarkRunning(r)
        BY <3>1 DEF FirstStep, MarkRunning
      <3>2. CASE PersistRunning(r) \/ \E status \in {"success", "error"} : StreamEnd(r, status)
        BY <3>2 DEF PersistRunning, StreamEnd
      <3>3. CASE HandleCancelled(r)
        BY <3>3 DEF HandleCancelled, AfterAbort
      <3>4. CASE PersistFinal(r) \/ Complete(r)
        BY <3>4 DEF PersistFinal, Complete
      <3>5. CASE UpdateThread(r) \/ ClearFinalizing(r) \/ PublishEnd(r)
        BY <3>5 DEF UpdateThread, ClearFinalizing, PublishEnd
      <3> QED BY <1>3, <3>1, <3>2, <3>3, <3>4, <3>5
    <2>3. Unread(r)' /\ (Holding(r)' => Holding(r))
      BY <1>0, <2>1 DEF Unread, Holding
    <2> QED BY <1>1, <2>1, <2>3, OneSnap
  <1>4. CASE Capture(r)
    <2>1. /\ ckpt' = ckpt /\ run'[r].pc = "stream" /\ run'[r].snap.at = ckpt
      BY <1>0, <1>4 DEF Capture, Record
    <2> QED BY <1>1, <2>1, OneSnap DEF Unread, BeforeCapture, NoTask
  <1>5. CASE StreamItem(r)
    <2>1. /\ run[r].pc = "stream" /\ ckpt' \in {ckpt, r + 1}
          /\ run'[r].pc \notin BeforeCapture /\ run'[r].snap = run[r].snap
      BY <1>0, <1>5 DEF StreamItem, AfterAbort, Record, BeforeCapture, NoTask
    <2>2. Holding(r)' => Holding(r)
      BY <2>1 DEF Holding
    <2> QED BY <1>1, <1>2, <2>1, <2>2, OneSnap DEF Unread
  <1>6. CASE Throw(r)
    <2>1. /\ run'[r].snap = run[r].snap
          /\ run[r].pc = "stream" => ckpt' \in {ckpt, r + 1}
          /\ run[r].pc # "stream" => run[r].pc \in BeforeCapture /\ ckpt' = ckpt
          /\ run'[r].pc \in {"caught", "done"}
      BY <1>0, <1>6 DEF Throw, Record, BeforeCapture, NoTask
    <2>2. Holding(r)' => Holding(r) /\ run[r].pc = "stream"
      BY <1>0, <2>1 DEF Holding, Unread
    <2>3. Unread(r)'
      BY <2>1 DEF Unread, BeforeCapture, NoTask
    <2> QED BY <1>1, <1>2, <2>1, <2>2, <2>3, OneSnap
  <1>7. CASE Rollback(r)
    <2>1. /\ run[r].pc = "rollback" /\ run'[r].pc = "complete"
          /\ ckpt' \in {ckpt, Restored(run[r].snap)}
      BY <1>0, <1>7 DEF Rollback, Advance, Record
    <2>2. run[r].snap.kind = "unset" => Restored(run[r].snap) = 0
      BY DEF Restored
    <2>3. Unread(r)' /\ ~Holding(r)'
      BY <2>1 DEF Unread, Holding, BeforeCapture, NoTask
    <2> QED BY <1>1, <1>2, <2>1, <2>2, <2>3, OneSnap
  <1>8. CASE Title(r)
    <2>1. /\ run[r].pc = "title" /\ PriorSettled(r) /\ run'[r].pc = "thread"
      BY <1>0, <1>8 DEF Title, Advance, Record
    <2>2. Unread(r)' /\ ~Holding(r)'
      BY <2>1 DEF Unread, Holding, BeforeCapture, NoTask
    <2> QED BY <1>1, <1>2, <2>1, <2>2, OneSnap
  <1> QED BY <1>3, <1>4, <1>5, <1>6, <1>7, <1>8 DEF TaskStep

\* The other steps leave the checkpoints alone.
LEMMA QuietSnap ==
    ASSUME SnapInv, ckpt' = ckpt, early \subseteq early',
           \A r \in Runs : /\ Unread(r)'
                           /\ Holding(r)' => Holding(r) /\ run'[r].snap = run[r].snap
    PROVE  SnapInv'
  BY DEF SnapInv, RollbackLosesOwnWorkOnly, Holding

\* What a run holds for its rollback is kept by every step.
LEMMA SnapInductive ==
    /\ Init => SnapInv
    /\ IInv /\ SnapInv /\ [Next]_vars => SnapInv'
  <1>1. ASSUME Init PROVE SnapInv
    BY <1>1 DEF Init, SnapInv, Unread, RollbackLosesOwnWorkOnly, NoRecord
  <1>2. ASSUME IInv, SnapInv, [Next]_vars PROVE SnapInv'
    <2>0. run \in [Runs -> Record] /\ \A r \in Runs : run[r] \in Record /\ Unread(r)
      BY <1>2 DEF IInv, TypeOK, SnapInv
    <2>1. CASE UNCHANGED vars
      BY <1>2, <2>1 DEF vars, SnapInv, Unread, RollbackLosesOwnWorkOnly
    <2>2. ASSUME NEW strategy \in {"reject", "interrupt", "rollback"}, CreateOrReject(strategy)
          PROVE  SnapInv'
      <3>1. ASSUME NEW r \in Runs
            PROVE  \/ run'[r].pc = "unborn" /\ run'[r].snap.kind = "unset"
                   \/ run'[r].pc = run[r].pc /\ run'[r].snap = run[r].snap
        BY <2>0, <2>2 DEF CreateOrReject, NoRecord, Aborted, Record
      <3>2. \A r \in Runs : /\ Unread(r)'
                            /\ Holding(r)' => Holding(r) /\ run'[r].snap = run[r].snap
        BY <2>0, <3>1 DEF Unread, Holding
      <3> QED BY <1>2, <2>2, <3>2, QuietSnap DEF CreateOrReject
    <2>3. ASSUME NEW r \in Runs,
                 \/ \E action \in {"interrupt", "rollback"} : Cancel(r, action)
                 \/ PersistInterrupted(r) \/ UpsertThread(r) \/ StartTask(r)
          PROVE  SnapInv'
      <3>1. ckpt' = ckpt /\ early \subseteq early'
        BY <2>3 DEF Cancel, PersistInterrupted, UpsertThread, StartTask
      <3>2. ASSUME NEW q \in Runs
            PROVE  /\ run'[q].snap = run[q].snap
                   /\ \/ run'[q].pc = run[q].pc
                      \/ run[q].pc \in NoTask /\ run'[q].pc \in NoTask \cup {"created"}
        <4>1. run[q] \in Record
          BY <2>0
        <4>2. ASSUME NEW action \in {"interrupt", "rollback"}, Cancel(r, action)
              PROVE  run'[q].snap = run[q].snap /\ run'[q].pc = run[q].pc
          BY <2>0, <4>1, <4>2 DEF Cancel, Aborted, Record
        <4>3. CASE PersistInterrupted(r)
          BY <4>3 DEF PersistInterrupted
        <4>4. CASE UpsertThread(r) \/ StartTask(r)
          BY <2>0, <4>1, <4>4 DEF UpsertThread, StartTask, Record, NoTask
        <4> QED BY <2>3, <4>2, <4>3, <4>4
      <3>3. \A q \in Runs : /\ Unread(q)'
                            /\ Holding(q)' => Holding(q) /\ run'[q].snap = run[q].snap
        BY <2>0, <3>2 DEF Unread, Holding, BeforeCapture, NoTask
      <3> QED BY <1>2, <3>1, <3>3, QuietSnap
    <2>4. ASSUME NEW r \in Runs, TaskStep(r) PROVE SnapInv'
      BY <1>2, <2>4, TaskSnap
    <2>5. CASE BeginShutdown
      <3>1. \A r \in Runs : run'[r].pc = run[r].pc /\ run'[r].snap = run[r].snap
        BY <2>0, <2>5 DEF BeginShutdown, Record
      <3>2. \A r \in Runs : /\ Unread(r)'
                            /\ Holding(r)' => Holding(r) /\ run'[r].snap = run[r].snap
        BY <2>0, <3>1 DEF Unread, Holding
      <3> QED BY <1>2, <2>5, <3>2, QuietSnap DEF BeginShutdown
    <2>6. CASE EndShutdown \/ Crash \/ Restart
      <3>1. \A r \in Runs : run'[r] = NoRecord
        BY <1>2, <2>6 DEF EndShutdown, Crash, Restart, IInv, Process
      <3> QED BY <3>1 DEF SnapInv, Unread, RollbackLosesOwnWorkOnly, NoRecord
    <2> QED
      BY <1>2, <2>1, <2>2, <2>3, <2>4, <2>5, <2>6 DEF Next, UpNext
  <1> QED BY <1>1, <1>2

\* From its snapshot to its rollback the thread holds what a run found or what
\* it wrote itself, so that restoring the snapshot undoes its own work only.
THEOREM RollbackLosesOwnWorkOnlyHolds == Spec => []RollbackLosesOwnWorkOnly
  <1>1. SnapInv => RollbackLosesOwnWorkOnly
    BY DEF SnapInv
  <1> QED BY <1>1, Inductive, SnapInductive, PTL DEF Spec

-----------------------------------------------------------------------------
(* The thread's status. *)

\* The run has made the thread running and has yet to settle it; a stillborn
\* run never will.
Unsettling(r) ==
    \/ run[r].pc \in {"launch", "lost"} \cup (TaskActive \ {"clear", "end"})
    \/ Stillborn(r)

ThreadInv ==
    restarts = 0 /\ phase # "down" =>
        /\ \A r \in ended : r <= admitted /\ run[r].pc \notin NoTask \cup TaskActive
        /\ thread = "running" => \E r \in Runs : Unsettling(r)

\* The steps of run_agent: whoever stops unsettling the thread settles it.
LEMMA TaskThread ==
    ASSUME IInv, ThreadInv, NEW r \in Runs, TaskStep(r) PROVE ThreadInv'
  <1>0. /\ run \in [Runs -> Record] /\ run[r] \in Record /\ ended \subseteq Runs /\ r \in Nat
        /\ Own(r) /\ run'[r].pc \in PCs /\ r <= admitted
    <2>1. run' \in [Runs -> Record]
      BY TypeTask DEF TypeOK
    <2>2. Present(r)
      BY DEF TaskStep, FirstStep, MarkRunning, PersistRunning, Capture, StreamItem, StreamEnd,
         Throw, HandleCancelled, PersistFinal, Rollback, Complete, Title, UpdateThread,
         ClearFinalizing, PublishEnd, Present
    <2> QED BY <2>1, <2>2 DEF IInv, TypeOK, Record, Runs, Own, Numbered
  <1>1. /\ restarts' = restarts /\ phase' = phase /\ admitted' = admitted
        /\ \A q \in Runs \ {r} : run'[q] = run[q]
    BY <1>0 DEF TaskStep, FirstStep, MarkRunning, PersistRunning, Capture, StreamItem, StreamEnd,
       Throw, HandleCancelled, PersistFinal, Rollback, Complete, Title, UpdateThread,
       ClearFinalizing, PublishEnd, Advance
  <1> SUFFICES ASSUME restarts = 0, phase # "down"
               PROVE  /\ \A q \in ended' : q <= admitted /\ run'[q].pc \notin NoTask \cup TaskActive
                      /\ thread' = "running" => \E q \in Runs : Unsettling(q)'
    BY <1>1 DEF ThreadInv
  <1>2. \A q \in ended : q <= admitted /\ run[q].pc \notin NoTask \cup TaskActive
    BY DEF ThreadInv
  <1>3. CASE PublishEnd(r)
    <2>1. ended' = ended \cup {r} /\ run'[r].pc = "done" /\ run[r].pc = "end" /\ thread' = thread
      BY <1>0, <1>3 DEF PublishEnd, Advance, Record
    <2>2. \A q \in ended' : q <= admitted /\ run'[q].pc \notin NoTask \cup TaskActive
      BY <1>0, <1>1, <1>2, <2>1 DEF NoTask, TaskActive
    <2>3. ASSUME thread' = "running" PROVE \E q \in Runs : Unsettling(q)'
      <3>1. PICK q \in Runs : Unsettling(q)
        BY <2>1, <2>3 DEF ThreadInv
      <3>2. q # r
        BY <2>1, <3>1 DEF Unsettling, Stillborn
      <3> QED BY <1>1, <2>1, <3>1, <3>2 DEF Unsettling, Stillborn
    <2> QED BY <2>2, <2>3
  <1>4. CASE ~PublishEnd(r)
    <2>1. /\ ended' = ended /\ run[r].pc \in TaskActive
      BY <1>4 DEF TaskStep, FirstStep, MarkRunning, PersistRunning, Capture, StreamItem, StreamEnd,
         Throw, HandleCancelled, PersistFinal, Rollback, Complete, Title, UpdateThread,
         ClearFinalizing, TaskActive
    <2>2. r \notin ended
      BY <1>2, <2>1
    <2>3. \A q \in ended' : q <= admitted /\ run'[q].pc \notin NoTask \cup TaskActive
      BY <1>0, <1>1, <1>2, <2>1, <2>2
    <2>4. ASSUME thread' = "running" PROVE \E q \in Runs : Unsettling(q)'
      <3>1. ~UpdateThread(r)
        <4>1. run[r].pc = "thread" => run[r].status \in {"success", "error", "interrupted"}
          BY <1>0 DEF Own, Settled, Post
        <4> QED BY <2>4, <4>1 DEF UpdateThread, ThreadStatus
      <3>2. thread' = thread
        BY <1>4, <3>1 DEF TaskStep, FirstStep, MarkRunning, PersistRunning, Capture, StreamItem,
           StreamEnd, Throw, HandleCancelled, PersistFinal, Rollback, Complete, Title,
           ClearFinalizing
      <3>3. PICK q \in Runs : Unsettling(q)
        BY <2>4, <3>2 DEF ThreadInv
      <3>4. CASE q # r
        BY <1>1, <2>1, <3>3, <3>4 DEF Unsettling, Stillborn
      <3>5. CASE q = r
        <4>1. run[r].pc \notin {"clear", "end", "done"}
          BY <2>1, <3>3, <3>5 DEF Unsettling, Stillborn, TaskActive
        <4>2. run'[r].pc \in (TaskActive \ {"clear", "end"}) \cup {"done"}
          <5> USE <1>0 DEF Record, TaskActive, Advance
          <5>1. CASE FirstStep(r) \/ MarkRunning(r) \/ PersistRunning(r)
            BY <5>1 DEF FirstStep, MarkRunning, PersistRunning
          <5>2. CASE Capture(r)
            BY <5>2 DEF Capture
          <5>a. CASE StreamItem(r)
            BY <5>a DEF StreamItem, AfterAbort
          <5>3. CASE \E status \in {"success", "error"} : StreamEnd(r, status)
            BY <5>3 DEF StreamEnd
          <5>4. CASE Throw(r)
            BY <5>4 DEF Throw
          <5>5. CASE HandleCancelled(r)
            BY <5>5 DEF HandleCancelled, AfterAbort
          <5>6. CASE PersistFinal(r) \/ Rollback(r)
            BY <5>6 DEF PersistFinal, Rollback
          <5>7. CASE Complete(r) \/ Title(r)
            BY <5>7 DEF Complete, Title
          <5>8. ~ClearFinalizing(r)
            BY <4>1 DEF ClearFinalizing
          <5> QED BY <1>4, <3>1, <5>1, <5>2, <5>a, <5>3, <5>4, <5>5, <5>6, <5>7, <5>8
                 DEF TaskStep
        <4>3. Unsettling(r)'
          BY <2>1, <2>2, <4>2 DEF Unsettling, Stillborn
        <4> QED BY <4>3
      <3> QED BY <3>4, <3>5
    <2> QED BY <2>3, <2>4
  <1> QED BY <1>3, <1>4

\* The thread shows as running only while a run has yet to settle it.
LEMMA ThreadInductive ==
    /\ Init => ThreadInv
    /\ IInv /\ ThreadInv /\ [Next]_vars => ThreadInv'
  <1>1. ASSUME Init PROVE ThreadInv
    BY <1>1 DEF Init, ThreadInv
  <1>2. ASSUME IInv, ThreadInv, [Next]_vars PROVE ThreadInv'
    <2>0. /\ run \in [Runs -> Record] /\ ended \subseteq Runs /\ admitted \in Nat
          /\ restarts \in Nat /\ \A r \in Runs : Numbered(r) /\ r \in Nat /\ run[r] \in Record
      BY <1>2, RunAssumption DEF IInv, TypeOK, Own, Runs
    <2>1. CASE UNCHANGED vars
      BY <1>2, <2>1 DEF vars, ThreadInv, Unsettling, Stillborn
    <2>2. ASSUME NEW strategy \in {"reject", "interrupt", "rollback"}, CreateOrReject(strategy)
          PROVE  ThreadInv'
      <3>1. /\ admitted' = admitted + 1 /\ UNCHANGED <<thread, ended, restarts, phase>>
        BY <2>2 DEF CreateOrReject
      <3>2. \A q \in Runs : q # admitted + 1 => run'[q].pc = run[q].pc
        BY <2>0, <2>2 DEF CreateOrReject, Aborted, Record
      <3> SUFFICES ASSUME restarts = 0, phase # "down"
                   PROVE  /\ \A q \in ended : /\ q <= admitted + 1
                                              /\ run'[q].pc \notin NoTask \cup TaskActive
                          /\ thread = "running" => \E q \in Runs : Unsettling(q)'
        BY <3>1 DEF ThreadInv
      <3>3. \A q \in ended : q <= admitted /\ run[q].pc \notin NoTask \cup TaskActive
        BY <1>2 DEF ThreadInv
      <3>4. \A q \in ended : q <= admitted + 1 /\ run'[q].pc \notin NoTask \cup TaskActive
        BY <2>0, <3>2, <3>3
      <3>5. ASSUME thread = "running" PROVE \E q \in Runs : Unsettling(q)'
        <4>1. PICK q \in Runs : Unsettling(q)
          BY <1>2, <3>5 DEF ThreadInv
        <4>2. Present(q)
          BY <4>1 DEF Unsettling, Stillborn, TaskActive, NoTask, Present
        <4>3. q # admitted + 1
          BY <2>0, <4>2 DEF Numbered
        <4> QED BY <3>1, <3>2, <4>1, <4>3 DEF Unsettling, Stillborn
      <3> QED BY <3>4, <3>5
    <2>3. ASSUME NEW r \in Runs,
                 \/ \E action \in {"interrupt", "rollback"} : Cancel(r, action)
                 \/ PersistInterrupted(r)
          PROVE  ThreadInv'
      <3>1. UNCHANGED <<admitted, thread, ended, restarts, phase>>
        BY <2>3 DEF Cancel, PersistInterrupted
      <3>2. ASSUME NEW q \in Runs PROVE run'[q].pc = run[q].pc
        <4>1. ASSUME NEW action \in {"interrupt", "rollback"}, Cancel(r, action)
              PROVE  run'[q].pc = run[q].pc
          BY <2>0, <4>1 DEF Cancel, Aborted, Record
        <4> QED BY <2>3, <4>1 DEF PersistInterrupted
      <3> QED BY <1>2, <2>0, <3>1, <3>2 DEF ThreadInv, Unsettling, Stillborn
    <2>4. ASSUME NEW r \in Runs, UpsertThread(r) \/ StartTask(r) PROVE ThreadInv'
      <3>1. UNCHANGED <<admitted, ended, restarts, phase>>
        BY <2>4 DEF UpsertThread, StartTask
      <3>2. /\ run[r].pc \in NoTask /\ run'[r].pc \in {"launch", "lost", "created"}
            /\ \A q \in Runs \ {r} : run'[q] = run[q]
        BY <2>0, <2>4 DEF UpsertThread, StartTask, Record, NoTask
      <3>3. Unsettling(r)'
        BY <3>2 DEF Unsettling, TaskActive
      <3> QED BY <1>2, <2>0, <3>1, <3>2, <3>3 DEF ThreadInv
    <2>5. ASSUME NEW r \in Runs, TaskStep(r) PROVE ThreadInv'
      BY <1>2, <2>5, TaskThread
    <2>6. CASE BeginShutdown
      <3>1. UNCHANGED <<admitted, thread, ended, restarts>> /\ phase = "up"
        BY <2>6 DEF BeginShutdown
      <3>2. \A q \in Runs : run'[q].pc = run[q].pc
        BY <2>0, <2>6 DEF BeginShutdown, Record
      <3> QED BY <1>2, <2>0, <3>1, <3>2 DEF ThreadInv, Unsettling, Stillborn
    <2>7. CASE EndShutdown \/ Crash
      BY <2>7 DEF EndShutdown, Crash, ThreadInv
    <2>8. CASE Restart
      <3>1. restarts' # 0
        BY <2>0, <2>8 DEF Restart
      <3> QED BY <3>1 DEF ThreadInv
    <2> QED
      BY <1>2, <2>1, <2>2, <2>3, <2>4, <2>5, <2>6, <2>7, <2>8 DEF Next, UpNext
  <1> QED BY <1>1, <1>2

\* When the last run of the thread has ended, the thread no longer shows as
\* running, however the runs overlapped and were cancelled.
THEOREM ThreadSettlesHolds == Spec => []ThreadSettles
  <1>1. IInv /\ ThreadInv => ThreadSettles
    <2> SUFFICES ASSUME IInv, ThreadInv, restarts = 0, phase = "up", thread = "running",
                        \A r \in 1..admitted : run[r].pc = "done" /\ ~Stillborn(r)
                 PROVE  FALSE
      BY DEF ThreadSettles
    <2>1. PICK r \in Runs : Unsettling(r)
      BY DEF ThreadInv
    <2>2. r \in 1..admitted
      <3>1. Present(r)
        BY <2>1 DEF Unsettling, Stillborn, TaskActive, Present
      <3> QED BY <3>1, RunAssumption DEF IInv, TypeOK, Own, Numbered, Runs
    <2> QED BY <2>1, <2>2 DEF Unsettling, TaskActive
  <1> QED BY <1>1, Inductive, ThreadInductive, PTL DEF Spec
=============================================================================
