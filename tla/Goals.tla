------------------------------- MODULE Goals -------------------------------
(***************************************************************************)
(* A thread's goal and messages in its latest checkpoint, and everybody    *)
(* who reads a checkpoint and puts a changed copy on top of it: the turns  *)
(* of a run (LangGraph, external), the goal evaluator of worker.py, and    *)
(* the requests of routers/threads.py that set or clear the goal, compact  *)
(* the thread or update its state.                                         *)
(*                                                                         *)
(* The latest checkpoint is the one with the greatest id, and an id is     *)
(* drawn when the copy is made, not when it is put.  All but turns and     *)
(* state updates hold goal_thread_lock between the two.  The thread's runs *)
(* follow one another (RunLifecycle); a rollback is left to that module.   *)
(***************************************************************************)
EXTENDS Naturals, Sequences, SequencesExt

CONSTANTS
    GoalRequests,       \* requests, each made once
    MaxContinuations,   \* max_continuations of a goal
    MaxNoProgress,      \* max_no_progress_continuations
    MaxGoalRuns,        \* bound: runs of the thread
    MaxGoals,           \* bound: goals set
    MaxChanges          \* bound: changes of the visible conversation

ASSUME GoalsAssumption ==
    /\ MaxContinuations \in Nat /\ MaxNoProgress \in Nat
    /\ MaxGoalRuns \in Nat /\ MaxChanges \in Nat /\ MaxGoals \in Nat \ {0}
    /\ "run" \notin GoalRequests /\ "free" \notin GoalRequests

VARIABLES
    latest,     \* the latest checkpoint
    drawn,      \* who drew an id and has not put the copy, by id, as far as it is
                \* greater than the latest checkpoint's
    goals,      \* goals set so far
    changes,    \* changes of the visible conversation so far
    lock,       \* goal_thread_lock: a request, "run" or "free"
    runs,       \* runs admitted so far
    grun,       \* where the run stands, with the evaluator's locals
    greq,       \* where each request stands
    settled,    \* history: changes put by a writer nobody disturbed
    retired,    \* history: goals cleared or replaced by such a request
    continued,  \* history: continuation turns of each goal
    barren,     \* history: of these, one after the other with the same reply
    overrun     \* history: evaluations put while another writer disturbed

goalVars == <<latest, drawn, goals, changes, lock, runs, grun, greq, settled,
              retired, continued, barren, overrun>>

\* A goal is its instance (objective and created_at) and its counters; key is the
\* progress_key of last_evaluation.
NoGoal == [instance |-> 0, count |-> 0, stalled |-> 0, key |-> <<"none", 0>>]
NewGoal(i) == [NoGoal EXCEPT !.instance = i]

\* The visible conversation is the set of changes it went through; reply is the
\* change that brought the latest assistant text, answered whether that is the
\* last message; pending: writes are queued for this checkpoint.
Nothing == [goal |-> NoGoal, talk |-> {}, reply |-> 0,
            answered |-> FALSE, pending |-> FALSE]

\* copy: what is about to be put, or a turn's own state; calm: nobody disturbed it.
\* goal, talk and reply are what the evaluator decides on, moved: the checkpoint it
\* read, if any, is not the latest any more; current is the goal it read again,
\* result and stalled its outcome; step says what the goal's write does and what
\* follows it.
RunIdle == [pc |-> "idle", copy |-> Nothing, calm |-> TRUE, goal |-> NoGoal,
            current |-> NoGoal, moved |-> TRUE, talk |-> {}, reply |-> 0,
            result |-> "none", stalled |-> 0, step |-> "record"]

RequestIdle == [pc |-> "idle", kind |-> "set", copy |-> Nothing, calm |-> TRUE]

Results == {"none", "satisfied", "unmet", "blocked", "run_failed"}
ThreadGoal == [instance : 0..MaxGoals, count : Nat, stalled : Nat, key : Results \X Nat]
ThreadCheckpoint ==
    [goal : ThreadGoal, talk : SUBSET (1..MaxChanges), reply : 0..MaxChanges,
     answered : BOOLEAN, pending : BOOLEAN]
GoalRun ==
    [pc : {"idle", "load", "turn", "landing", "goal", "checkpoint", "evaluate", "regoal",
           "recheck", "persist", "reread", "put", "verifyGoal", "verify"},
     copy : ThreadCheckpoint, calm : BOOLEAN, goal : ThreadGoal, current : ThreadGoal,
     moved : BOOLEAN, talk : SUBSET (1..MaxChanges), reply : 0..MaxChanges,
     result : Results, stalled : Nat, step : {"record", "clear", "continue", "retract"}]
GoalRequest ==
    [pc : {"idle", "summarise", "put", "done"}, kind : {"set", "clear", "compact", "update"},
     copy : ThreadCheckpoint, calm : BOOLEAN]

\* Every variable has its type.
GoalsTypeOK ==
    /\ latest \in ThreadCheckpoint
    /\ drawn \in Seq(GoalRequests \cup {"run"})
    /\ goals \in 0..MaxGoals /\ changes \in 0..MaxChanges /\ runs \in 0..MaxGoalRuns
    /\ lock \in GoalRequests \cup {"free", "run"}
    /\ grun \in GoalRun /\ greq \in [GoalRequests -> GoalRequest]
    /\ settled \subseteq 1..MaxChanges /\ retired \subseteq 1..MaxGoals
    /\ continued \in [1..MaxGoals -> Nat] /\ overrun \in Nat
    /\ barren \in [instance : 0..MaxGoals, reply : 0..MaxChanges, turns : Nat]

-----------------------------------------------------------------------------

\* A new thread whose goal was set first.
GoalsInit ==
    /\ latest = [Nothing EXCEPT !.goal = NewGoal(1)]
    /\ drawn = <<>> /\ goals = 1 /\ changes = 0
    /\ lock = "free" /\ runs = 0
    /\ grun = RunIdle /\ greq = [r \in GoalRequests |-> RequestIdle]
    /\ settled = {} /\ retired = {} /\ overrun = 0
    /\ continued = [i \in 1..MaxGoals |-> 0]
    /\ barren = [instance |-> 0, reply |-> 0, turns |-> 0]

history == <<settled, retired, continued, barren, overrun>>

\* A copy of the latest checkpoint; the queued writes stay with the old one.
Copied == [latest EXCEPT !.pending = FALSE]

\* aput: savers take the checkpoint with the greatest id for the latest, so a copy
\* with a smaller one changes nothing.
Counts(w) == \E i \in 1..Len(drawn) : drawn[i] = w
Put(w, copy) ==
    IF Counts(w)
    THEN LET i == CHOOSE i \in 1..Len(drawn) : drawn[i] = w IN
         latest' = copy /\ drawn' = SubSeq(drawn, i + 1, Len(drawn))
    ELSE UNCHANGED <<latest, drawn>>

InTurn == grun.pc \in {"turn", "landing"}
Compacting == \E r \in GoalRequests : greq[r].pc = "summarise"

\* A copy drawn now, of this kind, has a greater id than those that are drawn and
\* not yet put, and does not hold what they bring.
DisturbedRequests(kind) ==
    [r \in GoalRequests |->
        [greq[r] EXCEPT !.calm = @ /\ ~(greq[r].pc = "put" /\ "update" \in {kind, greq[r].kind})]]
DisturbsRun(kind) ==
    \/ grun.pc = "landing" /\ kind # "compact"
    \/ grun.pc = "put" /\ kind = "update"

-----------------------------------------------------------------------------
\* The run.

\* start_run: create_or_reject under the thread's lock.
AdmitRun ==
    /\ grun.pc = "idle" /\ lock = "free" /\ runs < MaxGoalRuns
    /\ runs' = runs + 1
    /\ grun' = [RunIdle EXCEPT !.pc = "load"]
    /\ barren' = [barren EXCEPT !.turns = 0]
    /\ UNCHANGED <<latest, drawn, goals, changes, lock, greq, settled, retired, continued, overrun>>

\* External: the graph takes over the latest checkpoint; what others put on top
\* of it afterwards is hidden by its own checkpoints.
LoadTurn ==
    /\ grun.pc = "load"
    /\ grun' = [RunIdle EXCEPT !.pc = "turn", !.copy = latest]
    /\ greq' = [r \in GoalRequests |-> [greq[r] EXCEPT !.calm = @ /\ greq[r].pc # "put"]]
    /\ UNCHANGED <<latest, drawn, goals, changes, lock, runs, history>>

\* What becomes of a conversation: nothing visible, a message of the user, a new
\* reply, or the same reply once more.
Happenings(copy) == {"hidden", "user", "reply"} \cup (IF copy.reply = 0 THEN {} ELSE {"again"})
Visible(what) == what # "hidden"
After(copy, what) ==
    [copy EXCEPT
        !.talk = IF Visible(what) THEN @ \cup {changes + 1} ELSE @,
        !.reply = IF what = "reply" THEN changes + 1 ELSE @,
        !.answered = IF Visible(what) THEN what # "user" ELSE @]
Happens(what) ==
    /\ Visible(what) => changes < MaxChanges
    /\ changes' = IF Visible(what) THEN changes + 1 ELSE changes

\* External: the turn's last checkpoint; a turn that was cut off leaves pending
\* writes.
WriteTurn ==
    /\ grun.pc = "turn"
    /\ drawn' = Append(drawn, "run")
    /\ \E what \in Happenings(grun.copy), pending \in BOOLEAN :
        /\ Happens(what)
        /\ grun' = [grun EXCEPT !.pc = "landing",
                        !.copy = [After(grun.copy, what) EXCEPT !.pending = pending]]
    /\ UNCHANGED <<latest, goals, lock, runs, greq, history>>

\* The checkpoint is there and the turn is over.
LandTurn ==
    /\ grun.pc = "landing"
    /\ Put("run", grun.copy)
    /\ settled' = IF grun.calm THEN settled \cup grun.copy.talk ELSE settled
    /\ grun' = [RunIdle EXCEPT !.pc = "goal"]
    /\ UNCHANGED <<goals, changes, lock, runs, greq, retired, continued, barren, overrun>>

\* A cancel, or an error of the graph; a put under way may have landed.
AbortRun ==
    /\ grun.pc # "idle"
    /\ \/ latest' = latest /\ drawn' = RemoveFirst(drawn, "run")
       \/ grun.pc \in {"landing", "put"} /\ Put("run", grun.copy)
    /\ grun' = RunIdle
    /\ lock' = IF lock = "run" THEN "free" ELSE lock
    /\ UNCHANGED <<goals, changes, runs, greq, history>>

-----------------------------------------------------------------------------
\* _prepare_goal_continuation_input.

StandDown == grun' = RunIdle

\* read_thread_goal
ReadGoal ==
    /\ grun.pc = "goal"
    /\ IF latest.goal = NoGoal
       THEN StandDown
       ELSE grun' = [grun EXCEPT !.pc = "checkpoint", !.goal = latest.goal]
    /\ UNCHANGED <<latest, drawn, goals, changes, lock, runs, greq, history>>

\* Mutant: a count that the reply's text never repeats.
StalledNever(result, reply) == 0

\* compute_no_progress_count
Stalled(result, reply) ==
    IF result # "satisfied" /\ grun.goal.key = <<result, reply>> THEN grun.goal.stalled + 1 ELSE 0

\* _has_durable_goal_turn_receipt
DurableReceipt == latest.answered /\ ~latest.pending

\* The checkpoint the evaluation is about; without a durable turn the evaluation
\* is that the run failed.
ReadReceipt ==
    /\ grun.pc = "checkpoint"
    /\ LET read == [grun EXCEPT !.moved = FALSE, !.talk = latest.talk, !.reply = latest.reply] IN
       grun' = IF DurableReceipt
               THEN [read EXCEPT !.pc = "evaluate"]
               ELSE [read EXCEPT !.pc = "persist", !.result = "run_failed",
                                 !.stalled = Stalled("run_failed", latest.reply)]
    /\ UNCHANGED <<latest, drawn, goals, changes, lock, runs, greq, history>>

\* evaluate_goal_completion: satisfied, goal_not_met_yet, or any other blocker.
Evaluate ==
    /\ grun.pc = "evaluate"
    /\ \E result \in {"satisfied", "unmet", "blocked"} :
        grun' = [grun EXCEPT !.pc = "regoal", !.result = result,
                             !.stalled = Stalled(result, grun.reply)]
    /\ UNCHANGED <<latest, drawn, goals, changes, lock, runs, greq, history>>

\* _reread_goal_and_checkpoint, and again before the continuation.
RereadGoal ==
    /\ grun.pc \in {"regoal", "verifyGoal"}
    /\ grun' = [grun EXCEPT !.current = latest.goal,
                            !.pc = IF @ = "regoal" THEN "recheck" ELSE "verify"]
    /\ UNCHANGED <<latest, drawn, goals, changes, lock, runs, greq, history>>

\* _goal_instance_matches
Matches(goal) == goal.instance = grun.goal.instance

\* _stand_down_reason and should_continue_goal
Continuable ==
    /\ grun.result = "unmet"
    /\ grun.goal.count < MaxContinuations
    /\ grun.stalled < MaxNoProgress

\* What follows when the goal and the checkpoint, and so the messages, are as they
\* were.
RecheckThread ==
    /\ grun.pc = "recheck"
    /\ IF ~Matches(grun.current)
       THEN StandDown
       ELSE grun' = [grun EXCEPT !.pc = "persist", !.moved = TRUE, !.current = NoGoal, !.step =
                CASE ~grun.moved /\ grun.result = "satisfied" -> "clear"
                  [] ~grun.moved /\ Continuable -> "continue"
                  [] OTHER -> "record"]
    /\ UNCHANGED <<latest, drawn, goals, changes, lock, runs, greq, history>>

\* _persist_goal_evaluation, or the clearing of a satisfied goal: under the lock,
\* for the same goal only.
PersistGoal ==
    /\ grun.pc = "persist" /\ lock = "free"
    /\ IF Matches(latest.goal)
       THEN /\ lock' = "run"
            /\ grun' = [grun EXCEPT !.pc = "reread", !.moved = FALSE, !.current = latest.goal]
       ELSE StandDown /\ UNCHANGED lock
    /\ UNCHANGED <<latest, drawn, goals, changes, runs, greq, history>>

\* attach_goal_evaluation
Attach ==
    [grun.current EXCEPT
        !.count = IF grun.step \in {"continue", "retract"} THEN grun.goal.count + 1 ELSE @,
        !.stalled = grun.stalled, !.key = <<grun.result, grun.reply>>]

\* write_thread_goal: the checkpoint must still be the expected one.
WriteGoal ==
    /\ grun.pc = "reread"
    /\ IF ~grun.moved
       THEN /\ drawn' = Append(drawn, "run")
            /\ grun' = [grun EXCEPT
                !.pc = "put",
                !.copy = [Copied EXCEPT
                            !.goal = IF grun.step = "clear" THEN NoGoal ELSE Attach]]
            /\ greq' = DisturbedRequests("evaluator")
            /\ UNCHANGED lock
       ELSE StandDown /\ lock' = "free" /\ UNCHANGED <<drawn, greq>>
    /\ UNCHANGED <<latest, goals, changes, runs, history>>

PutGoal ==
    /\ grun.pc = "put"
    /\ Put("run", grun.copy) /\ lock' = "free"
    /\ overrun' = IF grun.calm THEN overrun ELSE overrun + 1
    /\ grun' = IF grun.step = "continue"
               THEN [grun EXCEPT !.pc = "verifyGoal", !.moved = TRUE, !.copy = Nothing, !.calm = TRUE]
               ELSE RunIdle
    /\ UNCHANGED <<goals, changes, runs, greq, settled, retired, continued, barren>>

\* The last look before the hidden continuation turn.
Verify ==
    /\ grun.pc = "verify"
    /\ \/ ~Matches(grun.current) /\ StandDown /\ UNCHANGED <<continued, barren>>
       \/ /\ Matches(grun.current) /\ latest.talk # grun.talk
          /\ grun' = [grun EXCEPT !.pc = "persist", !.step = "retract"]
          /\ UNCHANGED <<continued, barren>>
       \/ /\ Matches(grun.current) /\ latest.talk = grun.talk
          /\ grun' = [RunIdle EXCEPT !.pc = "load"]
          /\ continued' = [continued EXCEPT ![grun.goal.instance] = @ + 1]
          /\ LET same == barren.instance = grun.goal.instance /\ barren.reply = grun.reply IN
             barren' = [instance |-> grun.goal.instance, reply |-> grun.reply,
                        turns |-> IF same THEN barren.turns + 1 ELSE 1]
    /\ UNCHANGED <<latest, drawn, goals, changes, lock, runs, greq, settled, retired, overrun>>

-----------------------------------------------------------------------------
\* The requests.

\* Draws a copy for request r.
Draw(r, kind, copy) ==
    /\ drawn' = Append(drawn, r)
    /\ greq' = [DisturbedRequests(kind) EXCEPT ![r] =
                    [pc |-> "put", kind |-> kind, copy |-> copy,
                     calm |-> ~InTurn /\ ~(kind = "update" /\ Compacting)]]
    /\ grun' = [grun EXCEPT !.calm = @ /\ ~DisturbsRun(kind)]

\* set_thread_goal and clear_thread_goal, up to the put.
SetGoal(r) ==
    /\ greq[r].pc = "idle" /\ lock = "free" /\ goals < MaxGoals
    /\ lock' = r /\ goals' = goals + 1
    /\ Draw(r, "set", [Copied EXCEPT !.goal = NewGoal(goals + 1)])
    /\ UNCHANGED <<latest, changes, runs, history>>

ClearGoal(r) ==
    /\ greq[r].pc = "idle" /\ lock = "free"
    /\ lock' = r
    /\ Draw(r, "clear", [Copied EXCEPT !.goal = NoGoal])
    /\ UNCHANGED <<latest, goals, changes, runs, history>>

\* update_thread_state, which takes no lock, on the latest checkpoint: messages, or
\* values that change no message.  (A saver that stores channels apart keeps the old
\* values of an update, which names no new versions; that is the second case.)
UpdateState(r) ==
    /\ greq[r].pc = "idle"
    /\ \E what \in Happenings(latest) :
        Happens(what) /\ Draw(r, "update", After(Copied, what))
    /\ UNCHANGED <<latest, goals, lock, runs, history>>

\* Mutant: has_inflight is not asked.
CompactAnytime(r) ==
    /\ greq[r].pc = "idle" /\ lock = "free"
    /\ latest.talk # {}
    /\ lock' = r
    /\ greq' = [DisturbedRequests("compact") EXCEPT
                    ![r] = [RequestIdle EXCEPT !.pc = "summarise", !.kind = "compact", !.copy = Copied]]
    /\ UNCHANGED <<latest, drawn, goals, changes, runs, grun, history>>

\* compact_thread: refused while a run is in flight; the summary takes a while.
CompactReads(r) ==
    /\ greq[r].pc = "idle" /\ lock = "free" /\ grun.pc = "idle"
    /\ latest.talk # {}
    /\ lock' = r
    /\ greq' = [DisturbedRequests("compact") EXCEPT
                    ![r] = [RequestIdle EXCEPT !.pc = "summarise", !.kind = "compact", !.copy = Copied]]
    /\ UNCHANGED <<latest, drawn, goals, changes, runs, grun, history>>

\* acompact_state had nothing to do, or failed.
CompactNothing(r) ==
    /\ greq[r].pc = "summarise"
    /\ lock' = "free"
    /\ greq' = [greq EXCEPT ![r] = [RequestIdle EXCEPT !.pc = "done"]]
    /\ UNCHANGED <<latest, drawn, goals, changes, runs, grun, history>>

\* The compacted checkpoint: another visible conversation, made of the same changes.
CompactDraws(r) ==
    /\ greq[r].pc = "summarise" /\ changes < MaxChanges
    /\ drawn' = Append(drawn, r) /\ changes' = changes + 1
    /\ greq' = [DisturbedRequests("compact") EXCEPT
                    ![r].pc = "put",
                    ![r].copy = [greq[r].copy EXCEPT !.talk = @ \cup {changes + 1}]]
    /\ UNCHANGED <<latest, goals, lock, runs, grun, history>>

\* The copy is put, and the lock is released.
PutRequest(r) ==
    /\ greq[r].pc = "put"
    /\ Put(r, greq[r].copy)
    /\ grun' = [grun EXCEPT !.moved = @ \/ Counts(r)]
    /\ lock' = IF lock = r THEN "free" ELSE lock
    /\ settled' = IF greq[r].calm THEN settled \cup greq[r].copy.talk ELSE settled
    /\ retired' = IF greq[r].calm /\ greq[r].kind \in {"set", "clear"}
                  THEN retired \cup ((1..goals) \ {greq[r].copy.goal.instance}) ELSE retired
    /\ greq' = [greq EXCEPT ![r] = [RequestIdle EXCEPT !.pc = "done"]]
    /\ UNCHANGED <<goals, changes, runs, continued, barren, overrun>>

GoalsNext ==
    \/ AdmitRun \/ LoadTurn \/ WriteTurn \/ LandTurn \/ AbortRun
    \/ ReadGoal \/ ReadReceipt \/ Evaluate \/ RereadGoal \/ RecheckThread
    \/ PersistGoal \/ WriteGoal \/ PutGoal \/ Verify
    \/ \E r \in GoalRequests :
        \/ SetGoal(r) \/ ClearGoal(r) \/ UpdateState(r)
        \/ CompactReads(r) \/ CompactNothing(r) \/ CompactDraws(r)
        \/ PutRequest(r)

GoalsSpec == GoalsInit /\ [][GoalsNext]_goalVars

-----------------------------------------------------------------------------

\* What a turn, a compaction, an update or a request about the goal has put while
\* nobody whom no lock keeps away was at work stays: no later copy of an older
\* checkpoint takes a message out of the thread or brings back a goal the user
\* has cleared or replaced.  ("stale evaluator writes stand down instead of
\* clobbering a newer goal change", worker.py.)
UndisturbedStays ==
    /\ settled \subseteq latest.talk
    /\ latest.goal.instance \notin retired

\* A goal gets no more continuation turns than it is allowed, over all the
\* thread's runs, and a run no more than allowed in a row whose reply is the same,
\* save one for each evaluation whose record an update of the state has hidden.
ContinuationsBounded ==
    /\ \A i \in 1..MaxGoals : continued[i] <= MaxContinuations + overrun
    /\ barren.turns <= MaxNoProgress + overrun
=============================================================================
