------------------------------ MODULE Subagents ------------------------------
(***************************************************************************)
(* Subagents: the background executions of subagents/executor.py and the   *)
(* task tool that starts, polls, cancels and clears them away              *)
(* (tools/builtins/task_tool.py).                                          *)
(*                                                                         *)
(* Three kinds of threads meet at a SubagentResult: a worker of            *)
(* _scheduler_pool that waits with a timeout, the isolated event loop that *)
(* runs the coroutine, and the loop of the parent run, which polls without *)
(* a lock.  try_set_terminal is two steps, the fields and the status.      *)
(* Every tool call has an id of its own.                                   *)
(***************************************************************************)
EXTENDS Naturals, Sequences, FiniteSets, SequencesExt

CONSTANTS
    Subtasks,       \* tool calls; each starts one subagent
    PoolSize        \* max_workers of _scheduler_pool

ASSUME SubagentsAssumption == PoolSize \in Nat \ {0}

VARIABLES
    result,     \* SubagentResult of a task
    listed,     \* the keys of _background_tasks
    waiting,    \* run_task functions submitted and not yet begun
    waiter,     \* run_task in a worker of the pool
    coro,       \* _aexecute on the isolated loop
    tool,       \* task_tool
    cleaner     \* _deferred_cleanup_subagent_task

subagentVars == <<result, listed, waiting, waiter, coro, tool, cleaner>>

TerminalStatus == {"completed", "failed", "cancelled", "timed_out"}

\* fields: the status that result, error, stop_reason and token records were
\* written for; lock: who holds _state_lock.
SubagentResult == [status : {"pending", "running"} \cup TerminalStatus,
                   fields : {"none"} \cup TerminalStatus,
                   cancel : BOOLEAN, lock : {"free", "coroutine", "waiter"}]

\* said and fields: the outcome task_tool returns, as it read it.
Tool == [pc : {"none", "poll", "fields", "settle", "over"},
         said : {"none", "polling_timed_out", "lost", "raised"} \cup TerminalStatus,
         fields : {"none"} \cup TerminalStatus]

\* Every variable has its type.
SubagentsTypeOK ==
    /\ result \in [Subtasks -> SubagentResult]
    /\ listed \subseteq Subtasks
    /\ waiting \in Seq(Subtasks)
    /\ waiter \in [Subtasks -> {"none", "waiting", "fields", "status", "cancel", "over"}]
    /\ coro \in [Subtasks -> [pc : {"none", "build", "stream", "fields", "status", "over"},
                              to : {"none"} \cup TerminalStatus]]
    /\ tool \in [Subtasks -> Tool]
    /\ cleaner \in [Subtasks -> {"none", "polling", "over"}]

SubagentsInit ==
    /\ result = [t \in Subtasks |-> [status |-> "pending", fields |-> "none",
                                     cancel |-> FALSE, lock |-> "free"]]
    /\ listed = {} /\ waiting = <<>>
    /\ waiter = [t \in Subtasks |-> "none"]
    /\ coro = [t \in Subtasks |-> [pc |-> "none", to |-> "none"]]
    /\ tool = [t \in Subtasks |-> [pc |-> "none", said |-> "none", fields |-> "none"]]
    /\ cleaner = [t \in Subtasks |-> "none"]

-----------------------------------------------------------------------------
(* SubagentResult.try_set_terminal *)

IsTerminal(t) == result[t].status \in TerminalStatus

\* What clean-up asks: completed_at, which is set before the status, is enough.
IsSettled(t) == IsTerminal(t) \/ result[t].fields # "none"

\* Mutant: the status is not looked at.
FieldsUnguarded(t, who, to) ==
    [result[t] EXCEPT !.fields = to, !.lock = who]

\* The first terminal transition wins.
Fields(t, who, to) ==
    IF IsTerminal(t) THEN result[t]
    ELSE [result[t] EXCEPT !.fields = to, !.lock = who]

\* Under the lock: check, and the fields of the result.
SetFields(t, who, to) ==
    /\ result[t].lock = "free"
    /\ result' = [result EXCEPT ![t] = Fields(t, who, to)]

\* The status comes last, then the lock is released.
SetStatus(t, who, to) ==
    result' = [result EXCEPT ![t] = IF @.lock = who
                THEN [@ EXCEPT !.status = to, !.lock = "free"] ELSE @]

-----------------------------------------------------------------------------
(* execute_async and run_task *)

\* task_tool up to its first poll.
ExecuteAsync(t) ==
    /\ tool[t].pc = "none"
    /\ listed' = listed \cup {t}
    /\ waiting' = Append(waiting, t)
    /\ tool' = [tool EXCEPT ![t].pc = "poll"]
    /\ UNCHANGED <<result, waiter, coro, cleaner>>

InPool == {t \in Subtasks : waiter[t] \notin {"none", "over"}}

\* A worker begins run_task and submits the coroutine to the isolated loop,
\* which may fail.
RunTask(submitted) ==
    LET t == waiting[1] IN
    /\ waiting # <<>> /\ Cardinality(InPool) < PoolSize
    /\ waiting' = Tail(waiting)
    /\ result' = [result EXCEPT ![t].status = "running"]
    /\ waiter' = [waiter EXCEPT ![t] = IF submitted THEN "waiting" ELSE "fields"]
    /\ coro' = [coro EXCEPT ![t].pc = IF submitted THEN "build" ELSE @]
    /\ UNCHANGED <<listed, tool, cleaner>>

\* execution_future has a result.
WaiterDone(t) ==
    /\ waiter[t] = "waiting" /\ coro[t].pc = "over"
    /\ waiter' = [waiter EXCEPT ![t] = "over"]
    /\ UNCHANGED <<result, listed, waiting, coro, tool, cleaner>>

\* timeout_seconds are over: the cancel event, then the terminal status.
WaiterTimeout(t) ==
    /\ waiter[t] = "waiting" /\ coro[t].pc # "over"
    /\ result' = [result EXCEPT ![t].cancel = TRUE]
    /\ waiter' = [waiter EXCEPT ![t] = "fields"]
    /\ UNCHANGED <<listed, waiting, coro, tool, cleaner>>

WaiterOutcome(t) == IF coro[t].pc = "none" THEN "failed" ELSE "timed_out"

WaiterFields(t) ==
    /\ waiter[t] = "fields"
    /\ SetFields(t, "waiter", WaiterOutcome(t))
    /\ waiter' = [waiter EXCEPT ![t] = "status"]
    /\ UNCHANGED <<listed, waiting, coro, tool, cleaner>>

WaiterStatus(t) ==
    /\ waiter[t] = "status"
    /\ SetStatus(t, "waiter", WaiterOutcome(t))
    /\ waiter' = [waiter EXCEPT ![t] = "cancel"]
    /\ UNCHANGED <<listed, waiting, coro, tool, cleaner>>

\* execution_future.cancel(): the coroutine ends at the await it is in, and
\* writes nothing.
WaiterCancels(t) ==
    /\ waiter[t] = "cancel"
    /\ waiter' = [waiter EXCEPT ![t] = "over"]
    /\ coro' = [coro EXCEPT ![t].pc = IF @ \in {"build", "stream"} THEN "over" ELSE @]
    /\ UNCHANGED <<result, listed, waiting, tool, cleaner>>

-----------------------------------------------------------------------------
(* _aexecute *)

Outcome(t, to) == coro' = [coro EXCEPT ![t] = [pc |-> "fields", to |-> to]]

\* The initial state and the agent are built, then the cancel event is looked
\* at for the first time.
Build(t) ==
    /\ coro[t].pc = "build"
    /\ \/ Outcome(t, "failed")
       \/ ~result[t].cancel /\ coro' = [coro EXCEPT ![t].pc = "stream"]
       \/ result[t].cancel /\ Outcome(t, "cancelled")
    /\ UNCHANGED <<result, listed, waiting, waiter, tool, cleaner>>

\* A chunk with the cancel event set ends the run; so does the stream's end,
\* the recursion limit (with or without usable output) or an exception.
Stream(t) ==
    /\ coro[t].pc = "stream"
    /\ \/ result[t].cancel /\ Outcome(t, "cancelled")
       \/ \E to \in {"completed", "failed"} : Outcome(t, to)
    /\ UNCHANGED <<result, listed, waiting, waiter, tool, cleaner>>

CoroFields(t) ==
    /\ coro[t].pc = "fields"
    /\ SetFields(t, "coroutine", coro[t].to)
    /\ coro' = [coro EXCEPT ![t].pc = "status"]
    /\ UNCHANGED <<listed, waiting, waiter, tool, cleaner>>

CoroStatus(t) ==
    /\ coro[t].pc = "status"
    /\ SetStatus(t, "coroutine", coro[t].to)
    /\ coro' = [coro EXCEPT ![t].pc = "over"]
    /\ UNCHANGED <<listed, waiting, waiter, tool, cleaner>>

-----------------------------------------------------------------------------
(* task_tool *)

\* Mutant: an entry is removed whatever its state.
CleanedUpAlways(t) == listed \ {t}

\* cleanup_background_task
CleanedUp(t) == IF IsSettled(t) THEN listed \ {t} ELSE listed

Say(t, what) == tool' = [tool EXCEPT ![t].pc = "over", ![t].said = what]

\* A poll reads the status without a lock: over, or sleep and poll again.
PollStatus(t) ==
    /\ tool[t].pc = "poll"
    /\ CASE t \notin listed -> Say(t, "lost")
         [] t \in listed /\ IsTerminal(t) ->
              tool' = [tool EXCEPT ![t].pc = "fields", ![t].said = result[t].status]
         [] OTHER -> UNCHANGED tool
    /\ UNCHANGED <<result, listed, waiting, waiter, coro, cleaner>>

\* ... then the fields; the entry is removed and the outcome returned.
PollResult(t) ==
    /\ tool[t].pc = "fields"
    /\ tool' = [tool EXCEPT ![t].pc = "over", ![t].fields = result[t].fields]
    /\ listed' = CleanedUp(t)
    /\ UNCHANGED <<result, waiting, waiter, coro, cleaner>>

\* request_cancel_background_task
RequestCancel(t) ==
    result' = IF t \in listed THEN [result EXCEPT ![t].cancel = TRUE] ELSE result

\* max_poll_count polls, though the execution's own timeout is shorter: the
\* task may still be queued for a worker.
PollTimeout(t) ==
    /\ tool[t].pc = "poll"
    /\ RequestCancel(t)
    /\ cleaner' = [cleaner EXCEPT ![t] = "polling"]
    /\ Say(t, "polling_timed_out")
    /\ UNCHANGED <<listed, waiting, waiter, coro>>

\* The parent run is cancelled while the tool sleeps.
CancelTool(t) ==
    /\ tool[t].pc = "poll"
    /\ RequestCancel(t)
    /\ tool' = [tool EXCEPT ![t].pc = "settle"]
    /\ UNCHANGED <<listed, waiting, waiter, coro, cleaner>>

\* _await_subagent_terminal is over, by the result, by its number of polls or
\* by another cancel: remove the entry or leave that to a task.
Settle(t) ==
    /\ tool[t].pc = "settle"
    /\ listed' = CleanedUp(t)
    /\ cleaner' = [cleaner EXCEPT ![t] = IF IsSettled(t) THEN @ ELSE "polling"]
    /\ Say(t, "raised")
    /\ UNCHANGED <<result, waiting, waiter, coro>>

\* _deferred_cleanup_subagent_task
DeferredCleanup(t) ==
    /\ cleaner[t] = "polling" /\ (IsSettled(t) \/ t \notin listed)
    /\ listed' = CleanedUp(t)
    /\ cleaner' = [cleaner EXCEPT ![t] = "over"]
    /\ UNCHANGED <<result, waiting, waiter, coro, tool>>

\* It gives up after max_polls.
DeferredGivesUp(t) ==
    /\ cleaner[t] = "polling" /\ ~IsSettled(t)
    /\ cleaner' = [cleaner EXCEPT ![t] = "over"]
    /\ UNCHANGED <<result, listed, waiting, waiter, coro, tool>>

PoolNext(t) ==
    WaiterDone(t) \/ WaiterTimeout(t) \/ WaiterFields(t) \/ WaiterStatus(t) \/ WaiterCancels(t)
CoroNext(t) == Build(t) \/ Stream(t) \/ CoroFields(t) \/ CoroStatus(t)
ToolNext(t) == PollStatus(t) \/ PollResult(t) \/ PollTimeout(t) \/ Settle(t)

SubagentsNext ==
    \/ \E submitted \in BOOLEAN : RunTask(submitted)
    \/ \E t \in Subtasks :
        \/ ExecuteAsync(t) \/ PoolNext(t) \/ CoroNext(t) \/ ToolNext(t) \/ CancelTool(t)
        \/ DeferredCleanup(t) \/ DeferredGivesUp(t)

SubagentsSpec == SubagentsInit /\ [][SubagentsNext]_subagentVars

-----------------------------------------------------------------------------

\* The outcome a tool call returns is the subagent's, with the fields that
\* belong to it: neither the poll, which takes no lock, nor a timeout that
\* races with the end of the run makes a mixture.
ReturnedAsSet ==
    \A t \in Subtasks :
        tool[t].pc = "over" /\ tool[t].said \in TerminalStatus =>
            tool[t].said = result[t].status /\ tool[t].fields = result[t].status

\* The registry holds an execution as long as somebody works on it, so that
\* run_task and the tool find it, and no longer: once the tool call is over the
\* entry is gone or a task is there to remove it (which may give up waiting).
EntryLifetime ==
    \A t \in Subtasks :
        /\ tool[t].said # "lost"
        /\ waiter[t] \in {"waiting", "fields"} /\ ~IsSettled(t) => t \in listed
        /\ t \in Range(waiting) => t \in listed
        /\ tool[t].pc = "over" /\ t \in listed => cleaner[t] # "none"
=============================================================================
