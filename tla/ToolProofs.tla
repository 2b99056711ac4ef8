----------------------------- MODULE ToolProofs -----------------------------
(***************************************************************************)
(* Proofs about the parts around an agent, for every number of calls,      *)
(* tasks and messages: the circuit breaker of the model calls, the results *)
(* of subagents, the threads of an IM channel's conversations, the         *)
(* containers of the sandbox providers, and the sessions of the MCP pool.  *)
(***************************************************************************)
EXTENDS CircuitBreaker, Subagents, Channels, SandboxProvider, McpSessionPool, SequenceLemmas,
        FiniteSetTheorems, TLAPS

-----------------------------------------------------------------------------
(* The circuit breaker. *)

\* The state of the breaker that every step keeps: its variables have their
\* types, it is open exactly at the threshold, and a probe it waits for is on
\* its way.
BreakerInv == BreakerTypeOK /\ OpenIffThreshold /\ ProbeIsUnderWay

\* A call that is not under way, and one that begins, are of the type.
LEMMA ModelCallType ==
    ASSUME NEW probe \in BOOLEAN
    PROVE  /\ [pc |-> "idle", attempt |-> 0, probe |-> FALSE] \in ModelCall
           /\ [pc |-> "calling", attempt |-> 1, probe |-> probe] \in ModelCall
  <1>1. 0 \in {n \in Nat : n <= 1 \/ \E budget \in Budgets : n <= budget}
    OBVIOUS
  <1>2. 1 \in {n \in Nat : n <= 1 \/ \E budget \in Budgets : n <= budget}
    OBVIOUS
  <1> QED BY <1>1, <1>2 DEF ModelCall

\* The breaker as __init__ leaves it satisfies the invariant.
LEMMA BreakerInitInv == BreakerInit => BreakerInv
  <1> SUFFICES ASSUME BreakerInit PROVE BreakerInv
    OBVIOUS
  <1>1. circuit \in Circuit /\ OpenIffThreshold
    BY BreakerAssumption DEF BreakerInit, Circuit, OpenIffThreshold
  <1>2. mcall \in [ModelCalls -> ModelCall] /\ wasted \in BOOLEAN
    BY ModelCallType DEF BreakerInit
  <1>3. ProbeIsUnderWay
    BY DEF BreakerInit, ProbeIsUnderWay
  <1> QED BY <1>1, <1>2, <1>3 DEF BreakerInv, BreakerTypeOK

\* Whatever the call reports, recording a failure leaves a circuit that is open
\* exactly at the threshold, and not half-open.
LEMMA FailureRecordedOpens ==
    ASSUME circuit \in Circuit, OpenIffThreshold
    PROVE  /\ FailureRecorded \in Circuit
           /\ FailureRecorded.state # "half_open"
           /\ FailureRecorded.state = "closed" =>
                FailureRecorded.failures < Threshold /\ ~FailureRecorded.probing
           /\ FailureRecorded.state = "open" => FailureRecorded.failures = Threshold
  <1> DEFINE count == IF circuit.failures < Threshold THEN circuit.failures + 1
                                                      ELSE Threshold
  <1>0. /\ circuit.failures \in 0..Threshold /\ count \in 0..Threshold
        /\ circuit.over \in BOOLEAN /\ circuit.probing \in BOOLEAN
        /\ circuit.state \in {"closed", "open", "half_open"}
    BY BreakerAssumption DEF Circuit
  <1>1. CASE circuit.state = "half_open"
    <2>1. FailureRecorded = [circuit EXCEPT !.state = "open", !.over = FALSE, !.probing = FALSE]
      BY <1>1 DEF FailureRecorded
    <2> QED BY <1>0, <1>1, <2>1 DEF Circuit, OpenIffThreshold
  <1>2. CASE circuit.state = "open"
    <2>1. FailureRecorded = [circuit EXCEPT !.failures = count, !.over = FALSE]
      BY <1>2 DEF FailureRecorded
    <2>2. count = Threshold
      BY <1>0, <1>2, BreakerAssumption DEF OpenIffThreshold
    <2> HIDE DEF count
    <2> QED BY <1>0, <1>2, <2>1, <2>2 DEF Circuit
  <1>3. CASE circuit.state = "closed" /\ count = Threshold
    <2>1. FailureRecorded = [state |-> "open", failures |-> count, over |-> FALSE, probing |-> FALSE]
      BY <1>3 DEF FailureRecorded
    <2> HIDE DEF count
    <2> QED BY <1>0, <1>3, <2>1 DEF Circuit
  <1>4. CASE circuit.state = "closed" /\ count # Threshold
    <2>1. FailureRecorded = [circuit EXCEPT !.failures = count]
      BY <1>4 DEF FailureRecorded
    <2>2. count < Threshold /\ ~circuit.probing
      BY <1>0, <1>4, BreakerAssumption DEF OpenIffThreshold
    <2> HIDE DEF count
    <2> QED BY <1>0, <1>4, <2>1, <2>2 DEF Circuit
  <1> QED BY <1>0, <1>1, <1>2, <1>3, <1>4

\* Every step keeps the invariant.
LEMMA BreakerStep == BreakerInv /\ [BreakerNext]_breakerVars => BreakerInv'
<1> SUFFICES ASSUME BreakerInv, [BreakerNext]_breakerVars PROVE BreakerInv'
  OBVIOUS
<1> USE BreakerAssumption
   DEF BreakerInv, BreakerTypeOK, OpenIffThreshold, ProbeIsUnderWay, Circuit, ModelCall
<1>1. ASSUME NEW c \in ModelCalls, StartCall(c) PROVE BreakerInv'
  <2>1. /\ HalfOpened \in Circuit
        /\ HalfOpened.state = "closed" => HalfOpened = circuit
        /\ HalfOpened.state # "closed" => HalfOpened.failures = Threshold
        /\ HalfOpened.state = "half_open" /\ HalfOpened.probing => HalfOpened = circuit
    BY DEF HalfOpened
  <2>2. CASE FastFail
    BY <1>1, <2>1, <2>2 DEF StartCall
  <2>3. CASE ~FastFail /\ HalfOpened.state = "half_open"
    <3>1. circuit' = [HalfOpened EXCEPT !.probing = TRUE]
      BY <1>1, <2>3 DEF StartCall
    <3>2. mcall' = [mcall EXCEPT ![c] = [pc |-> "calling", attempt |-> 1, probe |-> TRUE]]
      BY <1>1, <2>3 DEF StartCall
    <3>3. /\ circuit' \in Circuit /\ OpenIffThreshold'
      BY <2>1, <2>3, <3>1
    <3>4. mcall' \in [ModelCalls -> ModelCall] /\ mcall'[c].pc = "calling" /\ mcall'[c].probe
      BY <3>2, ModelCallType
    <3> QED BY <1>1, <3>3, <3>4 DEF StartCall
  <2>4. CASE ~FastFail /\ HalfOpened.state # "half_open"
    <3>1. circuit' = circuit /\ circuit.state # "half_open"
      BY <1>1, <2>4 DEF StartCall, HalfOpened
    <3>2. mcall' \in [ModelCalls -> ModelCall]
      BY <1>1, <2>4, ModelCallType DEF StartCall
    <3> QED BY <1>1, <3>1, <3>2 DEF StartCall
  <2> QED BY <2>2, <2>3, <2>4
<1>2. ASSUME NEW c \in ModelCalls, Succeed(c) PROVE BreakerInv'
  BY <1>2 DEF Succeed, EndCall
<1>3. ASSUME NEW c \in ModelCalls, Retry(c) PROVE BreakerInv'
  BY <1>3 DEF Retry
<1>4. ASSUME NEW c \in ModelCalls, Exhaust(c) PROVE BreakerInv'
  BY <1>4, FailureRecordedOpens DEF Exhaust, EndCall
<1>5. ASSUME NEW c \in ModelCalls, Interrupt(c) PROVE BreakerInv'
  <2>1. /\ AfterInterrupt \in Circuit /\ AfterInterrupt.failures = circuit.failures
        /\ AfterInterrupt.state = circuit.state
        /\ circuit.state # "half_open" => AfterInterrupt = circuit
        /\ circuit.state = "half_open" => AfterInterrupt.probing = FALSE
    BY DEF AfterInterrupt
  <2>2. mcall' \in [ModelCalls -> ModelCall]
    BY <1>5, ModelCallType DEF Interrupt, EndCall
  <2> QED BY <1>5, <2>1, <2>2 DEF Interrupt
<1>6. ASSUME NEW c \in ModelCalls, Refused(c) PROVE BreakerInv'
  BY <1>6 DEF Refused, EndCall
<1>7. CASE RecoveryTimeout
  BY <1>7 DEF RecoveryTimeout
<1>8. CASE UNCHANGED breakerVars
  BY <1>8 DEF breakerVars
<1> QED
  BY <1>1, <1>2, <1>3, <1>4, <1>5, <1>6, <1>7, <1>8 DEF BreakerNext

\* The breaker is open exactly at the threshold (_check_circuit,
\* _record_failure), for every threshold and every retry budget.
THEOREM OpenIffThresholdHolds == BreakerSpec => []OpenIffThreshold
  BY BreakerInitInv, BreakerStep, PTL DEF BreakerSpec, BreakerInv

\* A half-open circuit that refuses calls waits for a probe that is running,
\* unless a probe ended with an error that is not reported.
THEOREM ProbeIsUnderWayHolds == BreakerSpec => []ProbeIsUnderWay
  BY BreakerInitInv, BreakerStep, PTL DEF BreakerSpec, BreakerInv

-----------------------------------------------------------------------------
(* Subagents. *)

\* The lock is held between the fields of a result and its status, by the
\* thread whose next step is the status; the status never differs from the
\* fields it was set with.
LockInv(t) ==
    /\ result[t].lock = "free" /\ ~IsTerminal(t) => result[t].fields = "none"
    /\ IsTerminal(t) => result[t].lock = "free" /\ result[t].fields = result[t].status
    /\ result[t].lock = "waiter" => waiter[t] = "status" /\ result[t].fields = WaiterOutcome(t)
    /\ result[t].lock = "coroutine" => coro[t].pc = "status" /\ result[t].fields = coro[t].to
    /\ coro[t].pc \in {"fields", "status"} => coro[t].to \in TerminalStatus

\* A task that is not started or in the queue of the pool has a result nobody
\* touched.
QueuedInv(t) ==
    /\ t \in Range(waiting) => tool[t].pc # "none"
    /\ tool[t].pc = "none" \/ t \in Range(waiting) =>
        /\ waiter[t] = "none" /\ coro[t].pc = "none"
        /\ result[t].status = "pending" /\ result[t].fields = "none" /\ result[t].lock = "free"

\* What the tool read stays true, and its entry is registered until it is over.
ToolInv(t) ==
    /\ tool[t].pc \in {"none", "poll", "settle"} => tool[t].said = "none"
    /\ tool[t].pc = "fields" => tool[t].said = result[t].status /\ IsTerminal(t)
    /\ tool[t].pc = "over" /\ tool[t].said \in TerminalStatus =>
            IsTerminal(t) /\ tool[t].said = result[t].status /\ tool[t].fields = result[t].status
    /\ tool[t].said # "lost"
    /\ tool[t].pc \in {"poll", "fields", "settle"} => t \in listed
    /\ tool[t].pc # "none" /\ ~IsSettled(t) => t \in listed
    /\ tool[t].pc = "over" /\ t \in listed => cleaner[t] # "none"
    /\ cleaner[t] # "none" => tool[t].pc = "over"
    /\ tool[t].pc = "none" => t \notin listed

SubagentsInv ==
    /\ SubagentsTypeOK
    /\ \A i, j \in 1..Len(waiting) : waiting[i] = waiting[j] => i = j
    /\ \A t \in Subtasks : LockInv(t) /\ QueuedInv(t) /\ ToolInv(t)

\* A result keeps its type through try_set_terminal.
LEMMA ResultType ==
    ASSUME SubagentsTypeOK, NEW t \in Subtasks, NEW who \in {"coroutine", "waiter"},
           NEW to \in TerminalStatus
    PROVE  /\ SetFields(t, who, to) => result' \in [Subtasks -> SubagentResult]
           /\ SetStatus(t, who, to) => result' \in [Subtasks -> SubagentResult]
  <1>1. result \in [Subtasks -> SubagentResult] /\ result[t] \in SubagentResult
    BY DEF SubagentsTypeOK
  <1>2. Fields(t, who, to) \in SubagentResult
    BY <1>1 DEF Fields, SubagentResult
  <1>3. [result[t] EXCEPT !.status = to, !.lock = "free"] \in SubagentResult
    BY <1>1 DEF SubagentResult
  <1> QED BY <1>1, <1>2, <1>3 DEF SetFields, SetStatus

\* No subagent has been started.
LEMMA SubagentsInitInv == SubagentsInit => SubagentsInv
  BY DEF SubagentsInit, SubagentsInv, SubagentsTypeOK, SubagentResult, Tool, LockInv,
         QueuedInv, ToolInv, Range, IsTerminal, IsSettled, TerminalStatus

\* execute_async keeps the invariant.
LEMMA ExecuteAsyncInv ==
    ASSUME SubagentsInv, NEW t \in Subtasks, ExecuteAsync(t) PROVE SubagentsInv'
  <1>0. SubagentsTypeOK /\ LockInv(t) /\ QueuedInv(t) /\ ToolInv(t)
    BY DEF SubagentsInv
  <1>1. tool' \in [Subtasks -> Tool] /\ tool'[t] = [tool[t] EXCEPT !.pc = "poll"]
    BY <1>0, ZenonT(40) DEF ExecuteAsync, SubagentsTypeOK, Tool
  <1>a. waiting' \in Seq(Subtasks) /\ listed' \in SUBSET Subtasks
    BY <1>0 DEF ExecuteAsync, SubagentsTypeOK
  <1>b. SubagentsTypeOK'
    BY <1>0, <1>1, <1>a DEF ExecuteAsync, SubagentsTypeOK
  <1>2. t \notin Range(waiting)
    BY <1>0 DEF ExecuteAsync, QueuedInv
  <1>c. Range(waiting') = Range(waiting) \cup {t}
    BY <1>0, RangeAppend DEF ExecuteAsync, SubagentsTypeOK
  <1>3. \A i, j \in 1..Len(waiting') : waiting'[i] = waiting'[j] => i = j
    BY <1>0, <1>2 DEF SubagentsInv, SubagentsTypeOK, ExecuteAsync, Range
  <1>4. ASSUME NEW u \in Subtasks PROVE LockInv(u)' /\ ToolInv(u)'
    BY <1>0 DEF SubagentsInv, SubagentsTypeOK, ExecuteAsync, LockInv, ToolInv, IsTerminal,
       IsSettled, WaiterOutcome, Tool
  <1>5. ASSUME NEW u \in Subtasks PROVE QueuedInv(u)'
    BY <1>0, <1>c DEF SubagentsInv, SubagentsTypeOK, ExecuteAsync, QueuedInv, ToolInv, Tool
  <1> QED BY <1>b, <1>3, <1>4, <1>5 DEF SubagentsInv

\* run_task keeps the invariant: it takes a task that nobody works on yet.
LEMMA RunTaskInv ==
    ASSUME SubagentsInv, NEW submitted \in BOOLEAN, RunTask(submitted) PROVE SubagentsInv'
  <1>0. SubagentsTypeOK /\ waiting \in Seq(Subtasks) /\ waiting # <<>>
    BY DEF SubagentsInv, SubagentsTypeOK, RunTask
  <1>t. PICK t \in Subtasks : t = waiting[1]
    BY <1>0
  <1>1. /\ t \in Subtasks /\ t \in Range(waiting) /\ Len(waiting) \in Nat \ {0}
        /\ Tail(waiting) \in Seq(Subtasks) /\ Len(Tail(waiting)) = Len(waiting) - 1
        /\ \A i \in 1..Len(Tail(waiting)) : Tail(waiting)[i] = waiting[i + 1]
        /\ Range(Tail(waiting)) \subseteq Range(waiting)
    BY <1>0, <1>t, RangeTail
  <1>2. \A i, j \in 1..Len(Tail(waiting)) : Tail(waiting)[i] = Tail(waiting)[j] => i = j
    BY <1>1 DEF SubagentsInv
  <1>3. t \notin Range(Tail(waiting))
    <2>1. ASSUME NEW i \in 1..Len(Tail(waiting)) PROVE Tail(waiting)[i] # t
      BY <1>1, <1>t DEF SubagentsInv
    <2> QED BY <1>1, <2>1 DEF Range
  <1>4. /\ result' = [result EXCEPT ![t].status = "running"] /\ waiting' = Tail(waiting)
        /\ waiter' = [waiter EXCEPT ![t] = IF submitted THEN "waiting" ELSE "fields"]
        /\ coro' = [coro EXCEPT ![t].pc = IF submitted THEN "build" ELSE @]
        /\ UNCHANGED <<listed, tool, cleaner>>
    BY <1>t DEF RunTask
  <1>a. LockInv(t) /\ QueuedInv(t) /\ ToolInv(t)
    BY <1>1 DEF SubagentsInv
  <1>5. /\ result' \in [Subtasks -> SubagentResult]
        /\ result'[t] = [result[t] EXCEPT !.status = "running"]
        /\ \A u \in Subtasks \ {t} : result'[u] = result[u]
    <2>1. result[t] \in SubagentResult
      BY <1>0 DEF SubagentsTypeOK
    <2>2. [result[t] EXCEPT !.status = "running"] \in SubagentResult
      BY <2>1 DEF SubagentResult
    <2> QED BY <1>0, <1>4, <2>2 DEF SubagentsTypeOK
  <1>6. /\ waiter' \in [Subtasks -> {"none", "waiting", "fields", "status", "cancel", "over"}]
        /\ waiter'[t] \in {"waiting", "fields"}
        /\ \A u \in Subtasks \ {t} : waiter'[u] = waiter[u]
    BY <1>0, <1>1, <1>4 DEF SubagentsTypeOK
  <1>7. /\ coro' \in [Subtasks -> [pc : {"none", "build", "stream", "fields", "status", "over"},
                                   to : {"none"} \cup TerminalStatus]]
        /\ coro'[t].pc \in {"build", "none"}
        /\ \A u \in Subtasks \ {t} : coro'[u] = coro[u]
    <2>1. PICK pc \in {"build", coro[t].pc} : coro' = [coro EXCEPT ![t].pc = pc]
      BY <1>4
    <2>2. /\ coro[t].pc = "none"
          /\ coro \in [Subtasks -> [pc : {"none", "build", "stream", "fields", "status", "over"},
                                     to : {"none"} \cup TerminalStatus]]
      BY <1>0, <1>1, <1>a DEF SubagentsTypeOK, QueuedInv
    <2> QED BY <2>1, <2>2
  <1>8. SubagentsTypeOK'
    BY <1>0, <1>1, <1>4, <1>5, <1>6, <1>7 DEF SubagentsTypeOK
  <1>9. ASSUME NEW u \in Subtasks PROVE LockInv(u)' /\ ToolInv(u)' /\ QueuedInv(u)'
    <2>1. CASE u # t
      <3>1. LockInv(u) /\ ToolInv(u) /\ QueuedInv(u)
        BY DEF SubagentsInv
      <3>2. result'[u] = result[u] /\ waiter'[u] = waiter[u] /\ coro'[u] = coro[u]
        BY <1>5, <1>6, <1>7, <2>1
      <3>3. LockInv(u)'
        BY <3>1, <3>2 DEF LockInv, IsTerminal, WaiterOutcome
      <3>4. ToolInv(u)' /\ QueuedInv(u)'
        BY <1>1, <1>4, <3>1, <3>2 DEF ToolInv, QueuedInv, IsTerminal, IsSettled
      <3> QED BY <3>3, <3>4
    <2>2. CASE u = t
      <3>1. /\ result'[t].status = "running" /\ result'[t].lock = "free"
            /\ result'[t].fields = "none"
        BY <1>0, <1>1, <1>5, <1>a DEF SubagentsTypeOK, QueuedInv, SubagentResult
      <3>2. LockInv(t)'
        BY <3>1, <1>7 DEF LockInv, IsTerminal, TerminalStatus
      <3>3. ToolInv(t)' /\ QueuedInv(t)'
        BY <3>1, <1>1, <1>3, <1>4, <1>a
           DEF ToolInv, QueuedInv, IsTerminal, IsSettled, TerminalStatus
      <3> QED BY <2>2, <3>2, <3>3
    <2> QED BY <2>1, <2>2
  <1> QED BY <1>2, <1>4, <1>8, <1>9 DEF SubagentsInv

\* Steps of one task leave the others alone.
LEMMA OneTask ==
    ASSUME SubagentsInv, NEW t \in Subtasks, SubagentsTypeOK', UNCHANGED waiting,
           \A u \in Subtasks \ {t} :
              /\ result'[u] = result[u] /\ waiter'[u] = waiter[u] /\ coro'[u] = coro[u]
              /\ tool'[u] = tool[u] /\ cleaner'[u] = cleaner[u]
              /\ u \in listed' <=> u \in listed,
           LockInv(t)', QueuedInv(t)', ToolInv(t)'
    PROVE  SubagentsInv'
  <1>1. ASSUME NEW u \in Subtasks PROVE LockInv(u)' /\ QueuedInv(u)' /\ ToolInv(u)'
    <2>1. CASE u # t
      <3>1. LockInv(u) /\ ToolInv(u) /\ QueuedInv(u)
        BY DEF SubagentsInv
      <3>2. LockInv(u)'
        BY <2>1, <3>1 DEF LockInv, IsTerminal, WaiterOutcome
      <3>3. ToolInv(u)'
        BY <2>1, <3>1 DEF ToolInv, IsTerminal, IsSettled
      <3>4. QueuedInv(u)'
        BY <2>1, <3>1 DEF QueuedInv
      <3> QED BY <3>2, <3>3, <3>4
    <2> QED BY <2>1
  <1> QED BY <1>1 DEF SubagentsInv

\* The waiting thread keeps the invariant.
LEMMA PoolInv ==
    ASSUME SubagentsInv, NEW t \in Subtasks, PoolNext(t) PROVE SubagentsInv'
  <1>0. SubagentsTypeOK /\ LockInv(t) /\ QueuedInv(t) /\ ToolInv(t) /\ result[t] \in SubagentResult
    BY DEF SubagentsInv, SubagentsTypeOK
  <1> USE DEF SubagentsTypeOK
  <1>1. CASE WaiterDone(t)
    <2>1. SubagentsTypeOK'
      BY <1>0, <1>1 DEF WaiterDone
    <2>2. LockInv(t)' /\ QueuedInv(t)' /\ ToolInv(t)'
      BY <1>0, <1>1 DEF WaiterDone, LockInv, QueuedInv, ToolInv, IsTerminal, IsSettled,
         WaiterOutcome
    <2> QED BY <1>0, <1>1, <2>1, <2>2, OneTask DEF WaiterDone
  <1>2. CASE WaiterTimeout(t)
    <2>0. [result[t] EXCEPT !.cancel = TRUE] \in SubagentResult
      BY <1>0 DEF SubagentResult
    <2>1. SubagentsTypeOK'
      BY <1>0, <1>2, <2>0 DEF WaiterTimeout
    <2>2. /\ result'[t].status = result[t].status /\ result'[t].lock = result[t].lock
          /\ result'[t].fields = result[t].fields /\ waiter'[t] = "fields"
      BY <1>0, <1>2 DEF WaiterTimeout, SubagentResult
    <2>3. LockInv(t)' /\ QueuedInv(t)' /\ ToolInv(t)'
      BY <1>0, <1>2, <2>2 DEF WaiterTimeout, LockInv, QueuedInv, ToolInv, IsTerminal,
         IsSettled, WaiterOutcome
    <2> QED BY <1>0, <1>2, <2>1, <2>3, OneTask DEF WaiterTimeout
  <1>3. CASE WaiterFields(t)
    <2>0. WaiterOutcome(t) \in TerminalStatus
      BY DEF WaiterOutcome, TerminalStatus
    <2>1. SubagentsTypeOK'
      BY <1>0, <1>3, <2>0, ResultType DEF WaiterFields
    <2>2. /\ result'[t].status = result[t].status /\ waiter'[t] = "status"
          /\ IF IsTerminal(t) THEN result'[t] = result[t]
             ELSE result'[t].lock = "waiter" /\ result'[t].fields = WaiterOutcome(t)
          /\ result[t].lock = "free"
      BY <1>0, <1>3 DEF WaiterFields, SetFields, Fields, SubagentResult
    <2>3. LockInv(t)' /\ QueuedInv(t)' /\ ToolInv(t)'
      BY <1>0, <1>3, <2>0, <2>2
         DEF WaiterFields, LockInv, QueuedInv, ToolInv, IsTerminal, IsSettled, WaiterOutcome,
             TerminalStatus
    <2> QED BY <1>0, <1>3, <2>1, <2>3, OneTask DEF WaiterFields, SetFields
  <1>4. CASE WaiterStatus(t)
    <2>0. WaiterOutcome(t) \in TerminalStatus
      BY DEF WaiterOutcome, TerminalStatus
    <2>1. SubagentsTypeOK'
      BY <1>0, <1>4, <2>0, ResultType DEF WaiterStatus
    <2>2. /\ result'[t].fields = result[t].fields /\ waiter'[t] = "cancel"
          /\ IF result[t].lock = "waiter"
             THEN result'[t].lock = "free" /\ result'[t].status = WaiterOutcome(t)
             ELSE result'[t] = result[t]
      BY <1>0, <1>4 DEF WaiterStatus, SetStatus, SubagentResult
    <2>3. LockInv(t)' /\ QueuedInv(t)' /\ ToolInv(t)'
      BY <1>0, <1>4, <2>0, <2>2
         DEF WaiterStatus, LockInv, QueuedInv, ToolInv, IsTerminal, IsSettled, WaiterOutcome,
             TerminalStatus
    <2> QED BY <1>0, <1>4, <2>1, <2>3, OneTask DEF WaiterStatus, SetStatus
  <1>5. CASE WaiterCancels(t)
    <2>1. /\ coro' \in [Subtasks -> [pc : {"none", "build", "stream", "fields", "status", "over"},
                                     to : {"none"} \cup TerminalStatus]]
          /\ coro'[t].to = coro[t].to
          /\ coro'[t].pc = IF coro[t].pc \in {"build", "stream"} THEN "over" ELSE coro[t].pc
          /\ waiter'[t] = "over" /\ waiter[t] = "cancel"
      BY <1>0, <1>5 DEF WaiterCancels
    <2>2. SubagentsTypeOK'
      BY <1>0, <1>5, <2>1 DEF WaiterCancels
    <2>3. LockInv(t)' /\ QueuedInv(t)' /\ ToolInv(t)'
      BY <1>0, <1>5, <2>1 DEF WaiterCancels, LockInv, QueuedInv, ToolInv, IsTerminal,
         IsSettled, WaiterOutcome
    <2> QED BY <1>0, <1>5, <2>2, <2>3, OneTask DEF WaiterCancels
  <1> QED BY <1>1, <1>2, <1>3, <1>4, <1>5 DEF PoolNext

\* The coroutine keeps the invariant.
LEMMA CoroInv ==
    ASSUME SubagentsInv, NEW t \in Subtasks, CoroNext(t) PROVE SubagentsInv'
  <1>0. SubagentsTypeOK /\ LockInv(t) /\ QueuedInv(t) /\ ToolInv(t) /\ result[t] \in SubagentResult
    BY DEF SubagentsInv, SubagentsTypeOK
  <1> USE DEF SubagentsTypeOK
  <1>1. ASSUME Build(t) \/ Stream(t) PROVE SubagentsInv'
    <2>1. /\ coro' \in [Subtasks -> [pc : {"none", "build", "stream", "fields", "status", "over"},
                                     to : {"none"} \cup TerminalStatus]]
          /\ coro[t].pc \in {"build", "stream"}
          /\ \/ coro'[t].pc = "stream"
             \/ coro'[t].pc = "fields" /\ coro'[t].to \in TerminalStatus
          /\ \A u \in Subtasks \ {t} : coro'[u] = coro[u]
      BY <1>0, <1>1 DEF Build, Stream, Outcome, TerminalStatus
    <2>2. UNCHANGED <<result, listed, waiting, waiter, tool, cleaner>>
      BY <1>1 DEF Build, Stream
    <2>3. SubagentsTypeOK'
      BY <1>0, <2>1, <2>2
    <2>4. LockInv(t)' /\ QueuedInv(t)' /\ ToolInv(t)'
      BY <1>0, <2>1, <2>2 DEF LockInv, QueuedInv, ToolInv, IsTerminal, IsSettled, WaiterOutcome
    <2> QED BY <2>1, <2>2, <2>3, <2>4, OneTask
  <1>2. CASE CoroFields(t)
    <2>0. coro[t].to \in TerminalStatus
      BY <1>0, <1>2 DEF CoroFields, LockInv
    <2>1. SubagentsTypeOK'
      BY <1>0, <1>2, <2>0, ResultType DEF CoroFields
    <2>2. /\ result'[t].status = result[t].status
          /\ coro[t].pc = "fields" /\ coro'[t].pc = "status" /\ coro'[t].to = coro[t].to
          /\ IF IsTerminal(t) THEN result'[t] = result[t]
             ELSE result'[t].lock = "coroutine" /\ result'[t].fields = coro[t].to
          /\ result[t].lock = "free"
      BY <1>0, <1>2 DEF CoroFields, SetFields, Fields, SubagentResult
    <2>3. LockInv(t)' /\ QueuedInv(t)' /\ ToolInv(t)'
      BY <1>0, <1>2, <2>0, <2>2
         DEF CoroFields, LockInv, QueuedInv, ToolInv, IsTerminal, IsSettled, WaiterOutcome,
             TerminalStatus
    <2> QED BY <1>0, <1>2, <2>1, <2>3, OneTask DEF CoroFields, SetFields
  <1>3. CASE CoroStatus(t)
    <2>0. coro[t].to \in TerminalStatus
      BY <1>0, <1>3 DEF CoroStatus, LockInv
    <2>1. SubagentsTypeOK'
      BY <1>0, <1>3, <2>0, ResultType DEF CoroStatus
    <2>2. /\ result'[t].fields = result[t].fields
          /\ coro[t].pc = "status" /\ coro'[t].pc = "over" /\ coro'[t].to = coro[t].to
          /\ IF result[t].lock = "coroutine"
             THEN result'[t].lock = "free" /\ result'[t].status = coro[t].to
             ELSE result'[t] = result[t]
      BY <1>0, <1>3 DEF CoroStatus, SetStatus, SubagentResult
    <2>3. LockInv(t)' /\ QueuedInv(t)' /\ ToolInv(t)'
      BY <1>0, <1>3, <2>0, <2>2
         DEF CoroStatus, LockInv, QueuedInv, ToolInv, IsTerminal, IsSettled, WaiterOutcome,
             TerminalStatus
    <2> QED BY <1>0, <1>3, <2>1, <2>3, OneTask DEF CoroStatus, SetStatus
  <1> QED BY <1>1, <1>2, <1>3 DEF CoroNext

\* The tool and the task that clears up after it keep the invariant.
LEMMA ToolStepInv ==
    ASSUME SubagentsInv, NEW t \in Subtasks,
           ToolNext(t) \/ CancelTool(t) \/ DeferredCleanup(t) \/ DeferredGivesUp(t)
    PROVE  SubagentsInv'
  <1>0. /\ SubagentsTypeOK /\ LockInv(t) /\ QueuedInv(t) /\ ToolInv(t)
        /\ result[t] \in SubagentResult /\ tool[t] \in Tool
    BY DEF SubagentsInv, SubagentsTypeOK
  <1> USE DEF SubagentsTypeOK
  <1>1. CASE PollStatus(t)
    <2>1. CASE ~IsTerminal(t)
      <3>1. UNCHANGED subagentVars
        BY <1>0, <1>1, <2>1 DEF PollStatus, ToolInv, subagentVars
      <3>2. SubagentsTypeOK' /\ LockInv(t)' /\ QueuedInv(t)' /\ ToolInv(t)'
        BY <1>0, <3>1 DEF subagentVars, LockInv, QueuedInv, ToolInv, IsTerminal, IsSettled,
           WaiterOutcome
      <3> QED BY <3>1, <3>2, OneTask DEF subagentVars
    <2>2. CASE IsTerminal(t)
      <3>0. result[t].status \in TerminalStatus /\ t \in listed /\ tool[t].pc = "poll"
        BY <1>0, <1>1, <2>2 DEF IsTerminal, PollStatus, ToolInv
      <3>1. /\ tool' = [tool EXCEPT ![t].pc = "fields", ![t].said = result[t].status]
            /\ UNCHANGED <<result, listed, waiting, waiter, coro, cleaner>>
        BY <1>1, <2>2, <3>0 DEF PollStatus
      <3>2. /\ tool' \in [Subtasks -> Tool] /\ tool'[t].pc = "fields"
            /\ tool'[t].said = result[t].status
        BY <1>0, <3>0, <3>1 DEF Tool
      <3>3. SubagentsTypeOK'
        BY <1>0, <3>1, <3>2
      <3>4. LockInv(t)' /\ QueuedInv(t)' /\ ToolInv(t)'
        BY <1>0, <2>2, <3>0, <3>1, <3>2
           DEF LockInv, QueuedInv, ToolInv, IsTerminal, IsSettled, WaiterOutcome, TerminalStatus
      <3> QED BY <3>1, <3>3, <3>4, OneTask
    <2> QED BY <2>1, <2>2
  <1>2. CASE PollResult(t)
    <2>0. /\ tool[t].pc = "fields" /\ listed' = listed \ {t}
          /\ IsTerminal(t) /\ result[t].fields = result[t].status /\ tool[t].said = result[t].status
      BY <1>0, <1>2 DEF PollResult, CleanedUp, IsSettled, ToolInv, LockInv
    <2>1. /\ tool' \in [Subtasks -> Tool] /\ tool'[t].pc = "over"
          /\ tool'[t].said = tool[t].said /\ tool'[t].fields = result[t].fields
      BY <1>0, <1>2 DEF PollResult, Tool, SubagentResult
    <2>2. SubagentsTypeOK'
      BY <1>0, <1>2, <2>0, <2>1 DEF PollResult
    <2>3. LockInv(t)' /\ QueuedInv(t)' /\ ToolInv(t)'
      BY <1>0, <1>2, <2>0, <2>1
         DEF PollResult, LockInv, QueuedInv, ToolInv, IsTerminal, IsSettled, WaiterOutcome,
             TerminalStatus
    <2> QED BY <1>0, <1>2, <2>0, <2>2, <2>3, OneTask DEF PollResult
  <1>3. CASE PollTimeout(t)
    <2>0. /\ result' \in [Subtasks -> SubagentResult]
          /\ result'[t].status = result[t].status /\ result'[t].lock = result[t].lock
          /\ result'[t].fields = result[t].fields
          /\ \A u \in Subtasks \ {t} : result'[u] = result[u]
      BY <1>0, <1>3 DEF PollTimeout, RequestCancel, SubagentResult
    <2>1. /\ tool' \in [Subtasks -> Tool] /\ tool'[t].pc = "over"
          /\ tool'[t].said = "polling_timed_out" /\ tool[t].pc = "poll"
      BY <1>0, <1>3 DEF PollTimeout, Say, Tool
    <2>2. SubagentsTypeOK'
      BY <1>0, <1>3, <2>0, <2>1 DEF PollTimeout
    <2>3. LockInv(t)' /\ QueuedInv(t)' /\ ToolInv(t)'
      BY <1>0, <1>3, <2>0, <2>1
         DEF PollTimeout, LockInv, QueuedInv, ToolInv, IsTerminal, IsSettled, WaiterOutcome,
             TerminalStatus
    <2> QED BY <1>0, <1>3, <2>0, <2>2, <2>3, OneTask DEF PollTimeout, Say
  <1>4. CASE CancelTool(t)
    <2>0. /\ result' \in [Subtasks -> SubagentResult]
          /\ result'[t].status = result[t].status /\ result'[t].lock = result[t].lock
          /\ result'[t].fields = result[t].fields
          /\ \A u \in Subtasks \ {t} : result'[u] = result[u]
      BY <1>0, <1>4 DEF CancelTool, RequestCancel, SubagentResult
    <2>1. /\ tool' \in [Subtasks -> Tool] /\ tool'[t].pc = "settle"
          /\ tool'[t].said = tool[t].said /\ tool[t].pc = "poll"
      BY <1>0, <1>4 DEF CancelTool, Tool
    <2>2. SubagentsTypeOK'
      BY <1>0, <1>4, <2>0, <2>1 DEF CancelTool
    <2>3. LockInv(t)' /\ QueuedInv(t)' /\ ToolInv(t)'
      BY <1>0, <1>4, <2>0, <2>1
         DEF CancelTool, LockInv, QueuedInv, ToolInv, IsTerminal, IsSettled, WaiterOutcome
    <2> QED BY <1>0, <1>4, <2>0, <2>2, <2>3, OneTask DEF CancelTool
  <1>5. CASE Settle(t)
    <2>1. /\ tool' \in [Subtasks -> Tool] /\ tool'[t].pc = "over"
          /\ tool'[t].said = "raised" /\ tool[t].pc = "settle"
      BY <1>0, <1>5 DEF Settle, Say, Tool
    <2>2. SubagentsTypeOK'
      BY <1>0, <1>5, <2>1 DEF Settle, CleanedUp
    <2>3. LockInv(t)' /\ QueuedInv(t)' /\ ToolInv(t)'
      BY <1>0, <1>5, <2>1 DEF Settle, CleanedUp, LockInv, QueuedInv, ToolInv, IsTerminal,
         IsSettled, WaiterOutcome, TerminalStatus
    <2> QED BY <1>0, <1>5, <2>2, <2>3, OneTask DEF Settle, Say, CleanedUp
  <1>6. CASE DeferredCleanup(t)
    <2>2. SubagentsTypeOK'
      BY <1>0, <1>6 DEF DeferredCleanup, CleanedUp
    <2>3. LockInv(t)' /\ QueuedInv(t)' /\ ToolInv(t)'
      BY <1>0, <1>6 DEF DeferredCleanup, CleanedUp, LockInv, QueuedInv, ToolInv, IsTerminal,
         IsSettled, WaiterOutcome
    <2> QED BY <1>0, <1>6, <2>2, <2>3, OneTask DEF DeferredCleanup, CleanedUp
  <1>7. CASE DeferredGivesUp(t)
    <2>2. SubagentsTypeOK'
      BY <1>0, <1>7 DEF DeferredGivesUp
    <2>3. LockInv(t)' /\ QueuedInv(t)' /\ ToolInv(t)'
      BY <1>0, <1>7 DEF DeferredGivesUp, LockInv, QueuedInv, ToolInv, IsTerminal, IsSettled,
         WaiterOutcome
    <2> QED BY <1>0, <1>7, <2>2, <2>3, OneTask DEF DeferredGivesUp
  <1> QED BY <1>1, <1>2, <1>3, <1>4, <1>5, <1>6, <1>7 DEF ToolNext

\* Every step keeps the invariant.
LEMMA SubagentsStep == SubagentsInv /\ [SubagentsNext]_subagentVars => SubagentsInv'
  <1> SUFFICES ASSUME SubagentsInv, [SubagentsNext]_subagentVars PROVE SubagentsInv'
    OBVIOUS
  <1>1. CASE UNCHANGED subagentVars
    BY <1>1 DEF subagentVars, SubagentsInv, SubagentsTypeOK, LockInv, QueuedInv, ToolInv,
                IsTerminal, IsSettled, WaiterOutcome
  <1>2. CASE SubagentsNext
    BY <1>2, ExecuteAsyncInv, RunTaskInv, PoolInv, CoroInv, ToolStepInv DEF SubagentsNext
  <1> QED BY <1>1, <1>2

\* A tool call returns the outcome its subagent was given first, and the fields
\* written for it, for every number of subagents and workers of the pool.
THEOREM ReturnedAsSetHolds == SubagentsSpec => []ReturnedAsSet
  <1>1. SubagentsInv => ReturnedAsSet
    BY DEF SubagentsInv, ToolInv, ReturnedAsSet
  <1> QED BY <1>1, SubagentsInitInv, SubagentsStep, PTL DEF SubagentsSpec

\* _background_tasks holds an execution exactly as long as somebody needs it.
THEOREM EntryLifetimeHolds == SubagentsSpec => []EntryLifetime
  <1>1. SubagentsInv => EntryLifetime
    BY DEF SubagentsInv, ToolInv, QueuedInv, EntryLifetime, IsSettled, IsTerminal,
       TerminalStatus
  <1> QED BY <1>1, SubagentsInitInv, SubagentsStep, PTL DEF SubagentsSpec

-----------------------------------------------------------------------------
(* Channels. *)

\* The types, without the bounds of a finite model.
AnyTask == [msg : Messages, thread : Nat, lock : Nat, at : Steps]

ChannelsShape ==
    /\ inbound \in Seq(Messages) /\ recent \in Seq(Messages)
    /\ tasks \in Seq(AnyTask)
    /\ mapping \in Nat /\ threads \in Nat /\ opened \in Nat /\ failures \in Nat
    /\ locks \in Seq(Seq(Nat)) /\ registry \in 0..Len(locks)
    /\ forgotten \subseteq Messages

\* The key of a message is recorded as long as it counts.
KeyInv ==
    \A i \in DOMAIN tasks :
        tasks[i].at # "failed" /\ tasks[i].msg \notin forgotten => tasks[i].msg \in Range(recent)

\* The task makes the thread of a conversation that had none.
Opening(i) == tasks[i].at \in {"create", "store"} /\ ~IsNew(i)

\* What holds of one task and of the registry: a task that needs its lock is
\* in the lock's queue, and one that has it is at the head.
LocksInv ==
    /\ \A i \in DOMAIN tasks :
        /\ Opening(i) \/ tasks[i].at = "recheck" =>
            tasks[i].lock \in 1..Len(locks) /\ i \in Range(locks[tasks[i].lock])
        /\ Opening(i) => locks[tasks[i].lock][1] = i
        /\ IsNew(i) => tasks[i].lock = 0 /\ tasks[i].at \notin {"lookup", "lock", "recheck"}
        /\ tasks[i].at = "store" => tasks[i].thread > 0
    /\ registry # 0 => locks[registry] # <<>>

\* Whoever opens the conversation is alone; until a thread is stored there is
\* only the one lock.
OpeningInv ==
    /\ \A i, j \in DOMAIN tasks : Opening(i) /\ Opening(j) => i = j
    /\ \A i \in DOMAIN tasks : Opening(i) /\ tasks[i].at = "create" => opened = 0
    /\ opened <= 1
    /\ mapping = 0 => /\ opened = 1 => \E i \in DOMAIN tasks : tasks[i].at = "store" /\ Opening(i)
                      /\ Len(locks) <= 1 /\ registry = Len(locks)

ChannelsInv ==
    /\ ChannelsShape /\ KeyInv /\ HandledOnce /\ LocksInv
    /\ failures = 0 => OpeningInv

\* No message has come.
LEMMA ChannelsInitInv == ChannelsInit => ChannelsInv
  BY DEF ChannelsInit, ChannelsInv, ChannelsShape, KeyInv, HandledOnce, LocksInv, OpeningInv,
     Range

\* A step of one task: what becomes of the others.
LEMMA TaskUpdated ==
    ASSUME ChannelsShape, NEW i \in DOMAIN tasks, NEW rec \in AnyTask,
           tasks' = [tasks EXCEPT ![i] = rec]
    PROVE  /\ tasks' \in Seq(AnyTask) /\ DOMAIN tasks' = DOMAIN tasks /\ tasks'[i] = rec
           /\ \A j \in DOMAIN tasks \ {i} : tasks'[j] = tasks[j]
  BY ReplaceProperties DEF ChannelsShape

\* A task that goes on keeps its key; one that fails, and releases it, was the
\* only one to count for its message.
LEMMA DedupeKept ==
    ASSUME ChannelsInv, NEW i \in DOMAIN tasks, NEW rec \in AnyTask,
           tasks' = [tasks EXCEPT ![i] = rec], rec.msg = tasks[i].msg,
           tasks[i].at # "failed", UNCHANGED forgotten,
           \/ rec.at # "failed" /\ UNCHANGED recent
           \/ rec.at = "failed" /\ recent' = Released(tasks[i].msg)
    PROVE  recent' \in Seq(Messages) /\ KeyInv' /\ HandledOnce'
  <1>0. ChannelsShape /\ KeyInv /\ HandledOnce /\ recent \in Seq(Messages) /\ DOMAIN tasks \subseteq Nat
    BY DEF ChannelsInv, ChannelsShape
  <1>1. /\ tasks' \in Seq(AnyTask) /\ DOMAIN tasks' = DOMAIN tasks /\ tasks'[i] = rec
        /\ \A j \in DOMAIN tasks \ {i} : tasks'[j] = tasks[j]
    BY <1>0, TaskUpdated
  <1>2. HandledOnce'
    BY <1>0, <1>1 DEF HandledOnce
  <1>3. CASE rec.at # "failed" /\ UNCHANGED recent
    BY <1>0, <1>1, <1>2, <1>3 DEF KeyInv
  <1>4. CASE rec.at = "failed" /\ recent' = Released(tasks[i].msg)
    <2>1. /\ recent' \in Seq(Messages)
          /\ \A m \in Range(recent) : m # tasks[i].msg => m \in Range(recent')
      BY <1>0, <1>4, RemoveFirstProperties DEF Released
    <2>2. ASSUME NEW j \in DOMAIN tasks', tasks'[j].at # "failed", tasks'[j].msg \notin forgotten'
          PROVE  tasks'[j].msg \in Range(recent')
      <3>1. j # i /\ tasks'[j] = tasks[j] /\ j \in DOMAIN tasks
        BY <1>1, <1>4, <2>2
      <3>2. tasks[j].msg # tasks[i].msg
        BY <1>0, <2>2, <3>1 DEF HandledOnce
      <3>3. tasks[j].msg \in Range(recent)
        BY <1>0, <2>2, <3>1 DEF KeyInv
      <3> QED BY <2>1, <3>1, <3>2, <3>3
    <2> QED BY <1>2, <2>1, <2>2 DEF KeyInv
  <1> QED BY <1>3, <1>4

\* A step of a task that does not open the conversation and does not begin to.
LEMMA QuietStep ==
    ASSUME ChannelsInv, NEW i \in DOMAIN tasks, NEW rec \in AnyTask,
           tasks' = [tasks EXCEPT ![i] = rec], rec.msg = tasks[i].msg, rec.lock = tasks[i].lock,
           tasks[i].at # "failed", tasks[i].at \in {"create", "store"} => IsNew(i),
           rec.at # "recheck",
           rec.at \in {"create", "store"} => IsNew(i),
           rec.at = "store" => rec.thread > 0,
           rec.at \in {"lookup", "lock"} => ~IsNew(i),
           \/ rec.at # "failed" /\ UNCHANGED recent
           \/ rec.at = "failed" /\ recent' = Released(tasks[i].msg),
           mapping' \in Nat /\ threads' \in Nat, mapping' = mapping \/ mapping' > 0,
           UNCHANGED <<inbound, registry, locks, forgotten, opened, failures>>
    PROVE  ChannelsInv'
  <1>0. ChannelsShape /\ LocksInv
    BY DEF ChannelsInv
  <1>1. /\ tasks' \in Seq(AnyTask) /\ DOMAIN tasks' = DOMAIN tasks /\ tasks'[i] = rec
        /\ \A j \in DOMAIN tasks \ {i} : tasks'[j] = tasks[j]
    BY <1>0, TaskUpdated
  <1>2. recent' \in Seq(Messages) /\ KeyInv' /\ HandledOnce'
    BY DedupeKept
  <1>3. ChannelsShape'
    BY <1>0, <1>1, <1>2 DEF ChannelsShape
  <1>4. \A j \in DOMAIN tasks : (Opening(j)' <=> Opening(j)) /\ (IsNew(j)' <=> IsNew(j))
    BY <1>1 DEF Opening, IsNew
  <1>5. ~Opening(i)
    BY DEF Opening
  <1>6. LocksInv'
    <2>1. ASSUME NEW j \in DOMAIN tasks'
          PROVE  /\ Opening(j)' \/ tasks'[j].at = "recheck" =>
                    tasks'[j].lock \in 1..Len(locks') /\ j \in Range(locks'[tasks'[j].lock])
                 /\ Opening(j)' => locks'[tasks'[j].lock][1] = j
      BY <1>0, <1>1, <1>4, <1>5 DEF LocksInv
    <2>2. \A j \in DOMAIN tasks' :
            /\ IsNew(j)' => tasks'[j].lock = 0 /\ tasks'[j].at \notin {"lookup", "lock", "recheck"}
            /\ tasks'[j].at = "store" => tasks'[j].thread > 0
      BY <1>0, <1>1, <1>4 DEF LocksInv
    <2> QED BY <1>0, <2>1, <2>2 DEF LocksInv
  <1>7. OpeningInv => OpeningInv'
    BY <1>0, <1>1, <1>4, <1>5 DEF OpeningInv, ChannelsShape
  <1> QED BY <1>2, <1>3, <1>6, <1>7 DEF ChannelsInv

\* Delivery keeps the invariant.
LEMMA DeliverInv == ASSUME ChannelsInv, NEW m \in Messages, Deliver(m) PROVE ChannelsInv'
  <1>1. inbound' \in Seq(Messages)
    BY DEF ChannelsInv, ChannelsShape, Deliver
  <1>2. UNCHANGED <<recent, tasks, mapping, threads, registry, locks, forgotten, opened, failures>>
    BY DEF Deliver
  <1>3. ChannelsShape' /\ KeyInv' /\ HandledOnce' /\ LocksInv'
    BY <1>1, <1>2 DEF ChannelsInv, ChannelsShape, KeyInv, HandledOnce, LocksInv, Opening, IsNew
  <1>4. OpeningInv => OpeningInv'
    BY <1>2 DEF OpeningInv, Opening, IsNew
  <1> QED BY <1>2, <1>3, <1>4 DEF ChannelsInv

\* The dispatcher keeps the invariant: a message whose key is not kept was
\* forgotten, or no task counts for it.
LEMMA DispatchInv ==
    ASSUME ChannelsInv, NEW expired \in 0..Len(recent), Dispatch(expired) PROVE ChannelsInv'
  <1>0. ChannelsShape /\ KeyInv /\ HandledOnce /\ LocksInv
    BY DEF ChannelsInv
  <1>1. PICK kept : kept = Kept(expired)
    OBVIOUS
  <1>2. kept \in Seq(Messages)
    <2>1. PICK young \in Seq(Messages) : young = SubSeq(recent, expired + 1, Len(recent))
      <3>1. recent \in Seq(Messages) /\ Len(recent) \in Nat /\ expired + 1 \in 1..(Len(recent) + 1)
        BY <1>0 DEF ChannelsShape
      <3>2. \A j \in (expired + 1)..Len(recent) : recent[j] \in Messages
        BY <3>1
      <3>3. SubSeq(recent, expired + 1, Len(recent)) \in Seq(Messages)
        BY <3>1, <3>2, SubSeqProperties
      <3> QED BY <3>3
    <2>2. Len(young) > MaxEntries => SubSeq(young, Len(young) - MaxEntries + 1, Len(young)) \in Seq(Messages)
      BY <2>1, ChannelsAssumption
    <2> QED BY <1>1, <2>1, <2>2 DEF Kept
  <1>3. PICK m \in Messages : m = Head(inbound)
    BY <1>0 DEF ChannelsShape, Dispatch
  <1>4. /\ inbound' \in Seq(Messages)
        /\ UNCHANGED <<mapping, threads, registry, locks, opened, failures>>
    BY <1>0 DEF ChannelsShape, Dispatch
  <1>5. /\ recent' = Recorded(kept, m)
        /\ forgotten' = forgotten \cup (Range(recent) \ Range(kept))
        /\ tasks' = IF m \in Range(kept) THEN tasks
                    ELSE Append(tasks, [msg |-> m, thread |-> 0, lock |-> 0, at |-> "admit"])
    BY <1>1, <1>3 DEF Dispatch
  <1>6. forgotten' \subseteq Messages
    BY <1>0, <1>5 DEF ChannelsShape, Range
  <1>7. CASE m \in Range(kept)
    <2>1. recent' = kept /\ tasks' = tasks
      BY <1>5, <1>7 DEF Recorded
    <2>2. ChannelsShape' /\ LocksInv'
      BY <1>0, <1>2, <1>4, <1>6, <2>1 DEF ChannelsShape, LocksInv, Opening, IsNew
    <2>3. KeyInv' /\ HandledOnce'
      BY <1>0, <1>5, <2>1 DEF KeyInv, HandledOnce
    <2>4. OpeningInv => OpeningInv'
      BY <1>4, <2>1 DEF OpeningInv, Opening, IsNew
    <2> QED BY <1>4, <2>2, <2>3, <2>4 DEF ChannelsInv
  <1>8. CASE m \notin Range(kept)
    <2>0. PICK new \in AnyTask : new = [msg |-> m, thread |-> 0, lock |-> 0, at |-> "admit"]
      BY DEF AnyTask, Steps
    <2>1. recent' = Append(kept, m) /\ tasks' = Append(tasks, new)
      BY <1>5, <1>8, <2>0 DEF Recorded
    <2>2. recent' \in Seq(Messages) /\ Range(recent') = Range(kept) \cup {m}
      BY <1>2, <2>1, RangeAppend
    <2>3. PICK n \in Nat : n = Len(tasks) /\ DOMAIN tasks = 1..n
      BY <1>0 DEF ChannelsShape
    <2>4. /\ tasks' \in Seq(AnyTask) /\ DOMAIN tasks' = 1..(n + 1) /\ tasks'[n + 1] = new
          /\ \A j \in 1..n : tasks'[j] = tasks[j]
      BY <1>0, <2>1, <2>3 DEF ChannelsShape
    <2>5. new.msg = m /\ new.lock = 0 /\ new.at = "admit"
      BY <2>0
    <2>6. ChannelsShape'
      BY <1>0, <1>4, <1>6, <2>2, <2>4 DEF ChannelsShape
    <2>7. ASSUME NEW j \in 1..n, tasks[j].at # "failed", tasks[j].msg \notin forgotten'
          PROVE  tasks[j].msg \in Range(kept)
      BY <1>0, <1>5, <2>3, <2>7 DEF KeyInv
    <2>8. KeyInv'
      BY <2>2, <2>4, <2>5, <2>7 DEF KeyInv
    <2>9. HandledOnce'
      <3> SUFFICES ASSUME NEW i \in DOMAIN tasks', NEW j \in DOMAIN tasks',
                          i < j, tasks'[i].msg = tasks'[j].msg
                   PROVE  tasks'[i].at = "failed" \/ tasks'[i].msg \in forgotten'
        BY DEF HandledOnce
      <3>1. i \in 1..n /\ tasks'[i] = tasks[i]
        BY <2>4
      <3>2. CASE j \in 1..n
        BY <1>0, <1>5, <2>3, <2>4, <3>1, <3>2 DEF HandledOnce
      <3>3. CASE j = n + 1
        BY <1>8, <2>4, <2>5, <2>7, <3>1, <3>3
      <3> QED BY <2>4, <3>2, <3>3
    <2>10. /\ \A j \in 1..n : (Opening(j)' <=> Opening(j)) /\ (IsNew(j)' <=> IsNew(j))
           /\ ~Opening(n + 1)'
      BY <2>4, <2>5 DEF Opening, IsNew
    <2>11. LocksInv'
      BY <1>0, <1>4, <2>3, <2>4, <2>5, <2>10 DEF LocksInv
    <2>12. OpeningInv => OpeningInv'
      <3> SUFFICES ASSUME OpeningInv PROVE OpeningInv'
        OBVIOUS
      <3>1. mapping = 0 /\ opened = 1 => \E j \in DOMAIN tasks' : tasks'[j].at = "store" /\ Opening(j)'
        <4>1. ASSUME mapping = 0, opened = 1
              PROVE  \E j \in DOMAIN tasks' : tasks'[j].at = "store" /\ Opening(j)'
          <5>1. PICK j \in 1..n : tasks[j].at = "store" /\ Opening(j)
            BY <2>3, <4>1 DEF OpeningInv
          <5>2. j \in 1..(n + 1) /\ tasks'[j].at = "store" /\ Opening(j)'
            BY <2>4, <2>10, <5>1
          <5> QED BY <2>4, <5>2
        <4> QED BY <4>1
      <3>2. \A j \in DOMAIN tasks' : Opening(j)' => j \in 1..n /\ Opening(j) /\ tasks'[j] = tasks[j]
        BY <2>4, <2>10
      <3> QED BY <1>4, <2>3, <3>1, <3>2 DEF OpeningInv
    <2> QED BY <1>4, <2>6, <2>8, <2>9, <2>11, <2>12 DEF ChannelsInv
  <1> QED BY <1>7, <1>8

\* The steps of a task outside of the lock keep the invariant.
LEMMA QuietSteps ==
    ASSUME ChannelsInv, NEW i \in DOMAIN tasks,
           \/ Admit(i) \/ Enter(i) \/ LookupThread(i)
           \/ \E no \in BOOLEAN : StartRun(i, no) \/ EndRun(i, no)
    PROVE  ChannelsInv'
  <1>0. ChannelsShape /\ LocksInv /\ tasks[i] \in AnyTask /\ mapping \in Nat /\ threads \in Nat
    BY DEF ChannelsInv, ChannelsShape
  <1>1. \A at \in Steps : /\ [tasks[i] EXCEPT !.at = at] \in AnyTask
                          /\ [tasks[i] EXCEPT !.at = at].at = at
                          /\ [tasks[i] EXCEPT !.at = at].msg = tasks[i].msg
                          /\ [tasks[i] EXCEPT !.at = at].lock = tasks[i].lock
    BY <1>0 DEF AnyTask
  <1>2. CASE Admit(i)
    <2>1. PICK at \in {"slot", "done", "failed"} :
            /\ MoveTo(i, at)
            /\ \/ at # "failed" /\ UNCHANGED recent
               \/ at = "failed" /\ recent' = Released(tasks[i].msg)
      BY <1>2 DEF Admit, Raise
    <2>2. tasks' = [tasks EXCEPT ![i] = [tasks[i] EXCEPT !.at = at]] /\ at \in Steps
      BY <2>1 DEF MoveTo, Steps
    <2> QED BY <1>0, <1>1, <1>2, <2>1, <2>2, QuietStep DEF Admit
  <1>3. CASE Enter(i)
    <2>1. PICK at \in {"create", "lookup"} :
            MoveTo(i, at) /\ (at = "create" => IsNew(i)) /\ (at = "lookup" => ~IsNew(i))
      BY <1>3 DEF Enter
    <2>2. tasks' = [tasks EXCEPT ![i] = [tasks[i] EXCEPT !.at = at]] /\ at \in Steps
      BY <2>1 DEF MoveTo, Steps
    <2> QED BY <1>0, <1>1, <1>3, <2>1, <2>2, QuietStep DEF Enter
  <1>4. CASE LookupThread(i)
    <2>0. ~IsNew(i) /\ tasks[i].at = "lookup"
      BY <1>0, <1>4 DEF LookupThread, LocksInv
    <2>1. PICK at \in {"lock", "run"} :
            tasks' = [tasks EXCEPT ![i].thread = mapping, ![i].at = at]
      BY <1>4 DEF LookupThread
    <2>2. PICK rec \in AnyTask : rec = [tasks[i] EXCEPT !.thread = mapping, !.at = at]
      BY <1>0 DEF ChannelsShape, AnyTask, Steps
    <2>3. /\ tasks' = [tasks EXCEPT ![i] = rec] /\ rec.msg = tasks[i].msg
          /\ rec.lock = tasks[i].lock /\ rec.at = at
      BY <1>0, <2>1, <2>2 DEF AnyTask
    <2> QED BY <1>0, <1>4, <2>0, <2>3, QuietStep DEF LookupThread
  <1>5. ASSUME NEW no \in BOOLEAN, StartRun(i, no) PROVE ChannelsInv'
    <2>1. PICK at \in {"done", "running"} : MoveTo(i, at)
      BY <1>5 DEF StartRun
    <2>2. tasks' = [tasks EXCEPT ![i] = [tasks[i] EXCEPT !.at = at]] /\ at \in Steps
      BY <2>1 DEF MoveTo, Steps
    <2> QED BY <1>0, <1>1, <1>5, <2>1, <2>2, QuietStep DEF StartRun
  <1>6. ASSUME NEW no \in BOOLEAN, EndRun(i, no) PROVE ChannelsInv'
    <2>1. PICK at \in {"done", "failed"} :
            /\ MoveTo(i, at)
            /\ \/ at # "failed" /\ UNCHANGED recent
               \/ at = "failed" /\ recent' = Released(tasks[i].msg)
      BY <1>6 DEF EndRun, Raise
    <2>2. tasks' = [tasks EXCEPT ![i] = [tasks[i] EXCEPT !.at = at]] /\ at \in Steps
      BY <2>1 DEF MoveTo, Steps
    <2> QED BY <1>0, <1>1, <1>6, <2>1, <2>2, QuietStep DEF EndRun
  <1> QED BY <1>2, <1>3, <1>4, <1>5, <1>6

\* Taking the lock keeps the invariant.
LEMMA TakeLockInv == ASSUME ChannelsInv, NEW i \in DOMAIN tasks, TakeLock(i) PROVE ChannelsInv'
  <1>0. /\ ChannelsShape /\ LocksInv /\ tasks[i] \in AnyTask /\ i \in Nat
        /\ locks \in Seq(Seq(Nat)) /\ Len(locks) \in Nat /\ registry \in 0..Len(locks)
        /\ DOMAIN locks = 1..Len(locks) /\ tasks[i].at = "lock" /\ ~IsNew(i)
    BY DEF ChannelsInv, ChannelsShape, LocksInv, TakeLock
  <1>1. PICK l \in Nat : /\ l = IF registry = 0 THEN Len(locks) + 1 ELSE registry
                         /\ l \in 1..(Len(locks) + 1)
    BY <1>0
  <1>2. PICK rec \in AnyTask : rec = [tasks[i] EXCEPT !.at = "recheck", !.lock = l]
    BY <1>0 DEF AnyTask, Steps
  <1>3. rec.msg = tasks[i].msg /\ rec.lock = l /\ rec.at = "recheck" /\ tasks' = [tasks EXCEPT ![i] = rec]
    BY <1>0, <1>1, <1>2 DEF TakeLock, AnyTask
  <1>4. /\ tasks' \in Seq(AnyTask) /\ DOMAIN tasks' = DOMAIN tasks /\ tasks'[i] = rec
        /\ \A j \in DOMAIN tasks \ {i} : tasks'[j] = tasks[j]
    BY <1>0, <1>3, TaskUpdated
  <1>5. /\ recent' \in Seq(Messages) /\ KeyInv' /\ HandledOnce'
    BY <1>0, <1>3, DedupeKept DEF TakeLock
  <1>6. /\ registry' = l /\ UNCHANGED <<inbound, mapping, threads, forgotten, opened, failures>>
    BY <1>1 DEF TakeLock
  <1>7. /\ locks' \in Seq(Seq(Nat)) /\ l \in 1..Len(locks') /\ locks'[l] # <<>>
        /\ i \in Range(locks'[l])
        /\ Len(locks') = IF registry = 0 THEN Len(locks) + 1 ELSE Len(locks)
        /\ \A k \in 1..Len(locks) : locks[k] # <<>> => locks'[k][1] = locks[k][1]
        /\ \A k \in 1..Len(locks) : Range(locks[k]) \subseteq Range(locks'[k])
    <2>1. CASE registry = 0
      <3>1. locks' = Append(locks, <<i>>) /\ <<i>> \in Seq(Nat) /\ <<i>> # <<>>
        BY <1>0, <2>1 DEF TakeLock
      <3>2. i \in Range(<<i>>)
        BY DEF Range
      <3>3. locks' \in Seq(Seq(Nat)) /\ Len(locks') = Len(locks) + 1 /\ locks'[l] = <<i>>
        BY <1>0, <1>1, <2>1, <3>1, AppendProperties
      <3>4. \A k \in 1..Len(locks) : locks'[k] = locks[k]
        BY <1>0, <3>1, AppendProperties
      <3> QED BY <1>0, <1>1, <2>1, <3>1, <3>2, <3>3, <3>4
    <2>2. CASE registry # 0
      <3>1. registry \in DOMAIN locks /\ locks[registry] \in Seq(Nat) /\ locks[registry] # <<>>
        BY <1>0, <2>2 DEF LocksInv
      <3>2. PICK q \in Seq(Nat) : /\ q = Append(locks[registry], i)
                                  /\ q # <<>> /\ q[1] = locks[registry][1]
                                  /\ Range(q) = Range(locks[registry]) \cup {i}
        <4>1. Append(locks[registry], i) \in Seq(Nat) /\ Append(locks[registry], i) # <<>>
          <5>1. PICK w \in Seq(Nat) : w = locks[registry]
            BY <3>1
          <5>2. i \in Nat
            BY <1>0
          <5> QED BY <5>1, <5>2, AppendProperties
        <4>2. Append(locks[registry], i)[1] = locks[registry][1]
          BY <1>0, <3>1, AppendKeepsHead
        <4>3. Range(Append(locks[registry], i)) = Range(locks[registry]) \cup {i}
          <5>1. PICK w \in Seq(Nat) : w = locks[registry]
            BY <3>1
          <5>2. Range(Append(w, i)) = Range(w) \cup {i}
            BY <1>0, RangeAppend
          <5> QED BY <5>1, <5>2
        <4> QED BY <4>1, <4>2, <4>3
      <3>4. locks' = [locks EXCEPT ![registry] = q]
        BY <1>1, <2>2, <3>2 DEF TakeLock
      <3>5. /\ locks' \in Seq(Seq(Nat)) /\ Len(locks') = Len(locks) /\ locks'[registry] = q
            /\ \A k \in DOMAIN locks \ {registry} : locks'[k] = locks[k]
        BY <1>0, <3>1, <3>4, ReplaceProperties
      <3>6. l = registry /\ l \in 1..Len(locks') /\ DOMAIN locks = 1..Len(locks)
        BY <1>0, <1>1, <2>2, <3>5
      <3>7. \A k \in 1..Len(locks) :
              /\ locks[k] # <<>> => locks'[k][1] = locks[k][1]
              /\ Range(locks[k]) \subseteq Range(locks'[k])
        BY <3>2, <3>5, <3>6
      <3> QED BY <2>2, <3>2, <3>5, <3>6, <3>7
    <2> QED BY <2>1, <2>2
  <1>8. ChannelsShape'
    BY <1>0, <1>4, <1>5, <1>6, <1>7 DEF ChannelsShape
  <1>9. \A j \in DOMAIN tasks : (Opening(j)' <=> Opening(j)) /\ (IsNew(j)' <=> IsNew(j))
    BY <1>0, <1>3, <1>4 DEF Opening, IsNew
  <1>a. ~Opening(i) /\ Len(locks) <= Len(locks')
    BY <1>0, <1>7 DEF Opening
  <1>10. LocksInv'
    <2>1. ASSUME NEW j \in DOMAIN tasks, Opening(j) \/ tasks[j].at = "recheck"
          PROVE  /\ tasks'[j].lock \in 1..Len(locks') /\ j \in Range(locks'[tasks'[j].lock])
                 /\ Opening(j) => locks'[tasks'[j].lock][1] = j
      <3>1. PICK k \in 1..Len(locks) : k = tasks[j].lock /\ tasks'[j] = tasks[j]
        BY <1>0, <1>4, <1>a, <2>1 DEF LocksInv
      <3>2. j \in Range(locks[k]) /\ locks[k] \in Seq(Nat)
        BY <1>0, <2>1, <3>1 DEF LocksInv
      <3>a. k \in 1..Len(locks') /\ j \in Range(locks'[k])
        BY <1>0, <1>7, <1>a, <3>2
      <3>b. locks[k] # <<>>
        BY <3>2 DEF Range
      <3>3. Opening(j) => locks'[k][1] = j
        BY <1>0, <1>7, <3>1, <3>b DEF LocksInv
      <3> QED BY <3>1, <3>a, <3>3
    <2>2. \A j \in DOMAIN tasks \ {i} : tasks'[j].at = "recheck" => tasks[j].at = "recheck"
      BY <1>4
    <2>3. ASSUME NEW j \in DOMAIN tasks'
          PROVE  /\ Opening(j)' \/ tasks'[j].at = "recheck" =>
                    tasks'[j].lock \in 1..Len(locks') /\ j \in Range(locks'[tasks'[j].lock])
                 /\ Opening(j)' => locks'[tasks'[j].lock][1] = j
      <3>1. CASE j = i
        BY <1>3, <1>4, <1>7, <1>9, <1>a, <3>1
      <3>2. CASE j # i
        BY <1>4, <1>9, <2>1, <2>2, <3>2
      <3> QED BY <3>1, <3>2
    <2>4. \A j \in DOMAIN tasks' :
            /\ IsNew(j)' => tasks'[j].lock = 0 /\ tasks'[j].at \notin {"lookup", "lock", "recheck"}
            /\ tasks'[j].at = "store" => tasks'[j].thread > 0
      BY <1>0, <1>3, <1>4, <1>9 DEF LocksInv
    <2> QED BY <1>6, <1>7, <2>3, <2>4 DEF LocksInv
  <1>11. OpeningInv => OpeningInv'
    <2> SUFFICES ASSUME OpeningInv PROVE OpeningInv'
      OBVIOUS
    <2>1. mapping = 0 => Len(locks') <= 1 /\ registry' = Len(locks')
      BY <1>0, <1>1, <1>6, <1>7 DEF OpeningInv
    <2>2. \A j \in DOMAIN tasks : Opening(j) => tasks'[j] = tasks[j]
      BY <1>4, <1>a
    <2> QED BY <1>4, <1>6, <1>9, <2>1, <2>2 DEF OpeningInv
  <1> QED BY <1>5, <1>6, <1>8, <1>10, <1>11 DEF ChannelsInv

\* Whoever has the lock gives it up: those who wait stay in line.
LEMMA UnlockInv ==
    ASSUME ChannelsInv, NEW i \in DOMAIN tasks, NEW rec \in AnyTask,
           tasks' = [tasks EXCEPT ![i] = rec], rec.msg = tasks[i].msg, ~IsNew(i),
           tasks[i].at \in {"recheck", "create", "store"}, rec.at \in {"run", "failed"},
           locks[tasks[i].lock][1] = i, ReleaseLock(i),
           \/ rec.at # "failed" /\ UNCHANGED recent
           \/ rec.at = "failed" /\ recent' = Released(tasks[i].msg),
           mapping' \in Nat, mapping' > 0 \/ failures' > 0,
           failures' \in Nat, failures' >= failures,
           UNCHANGED <<inbound, threads, forgotten, opened>>
    PROVE  ChannelsInv'
  <1>a. ChannelsShape /\ LocksInv
    BY DEF ChannelsInv
  <1>b. tasks[i] \in AnyTask /\ failures \in Nat /\ locks \in Seq(Seq(Nat))
    BY <1>a DEF ChannelsShape
  <1>0. /\ ChannelsShape /\ LocksInv /\ tasks[i] \in AnyTask /\ Len(locks) \in Nat /\ failures \in Nat
        /\ locks \in Seq(Seq(Nat)) /\ DOMAIN locks = 1..Len(locks)
    BY <1>a, <1>b
  <1>1. PICK l \in 1..Len(locks) : l = tasks[i].lock /\ i \in Range(locks[l])
    BY <1>0 DEF LocksInv, Opening
  <1>2. locks[l] \in Seq(Nat) /\ locks[l] # <<>>
    BY <1>0, <1>1 DEF Range
  <1>3. PICK q \in Seq(Nat) : q = Tail(locks[l]) /\ Range(locks[l]) = Range(q) \cup {i}
    <2>1. PICK w \in Seq(Nat) : w = locks[l] /\ w # <<>> /\ w[1] = i
      BY <1>1, <1>2
    <2>2. Tail(w) \in Seq(Nat) /\ Range(w) = Range(Tail(w)) \cup {w[1]}
      BY <2>1, RangeTail
    <2> QED BY <2>1, <2>2
  <1>4. registry' = 0 /\ locks' = [locks EXCEPT ![l] = q]
    BY <1>1, <1>3 DEF ReleaseLock
  <1>5. /\ locks' \in Seq(Seq(Nat)) /\ Len(locks') = Len(locks) /\ locks'[l] = q
        /\ \A k \in DOMAIN locks \ {l} : locks'[k] = locks[k]
    BY <1>0, <1>4, ReplaceProperties
  <1>6. /\ tasks' \in Seq(AnyTask) /\ DOMAIN tasks' = DOMAIN tasks /\ tasks'[i] = rec
        /\ \A j \in DOMAIN tasks \ {i} : tasks'[j] = tasks[j]
    BY <1>0, TaskUpdated
  <1>7. recent' \in Seq(Messages) /\ KeyInv' /\ HandledOnce'
    BY DedupeKept
  <1>8. ChannelsShape'
    BY <1>0, <1>4, <1>5, <1>6, <1>7 DEF ChannelsShape
  <1>9. /\ ~Opening(i)' /\ \A j \in DOMAIN tasks \ {i} : Opening(j)' <=> Opening(j)
        /\ \A j \in DOMAIN tasks : IsNew(j)' <=> IsNew(j)
    BY <1>6 DEF Opening, IsNew
  <1>10. LocksInv'
    <2>1. ASSUME NEW j \in DOMAIN tasks', Opening(j)' \/ tasks'[j].at = "recheck"
          PROVE  /\ tasks'[j].lock \in 1..Len(locks') /\ j \in Range(locks'[tasks'[j].lock])
                 /\ Opening(j)' => locks'[tasks'[j].lock][1] = j
      <3>1. j \in DOMAIN tasks \ {i} /\ tasks'[j] = tasks[j] /\ (Opening(j)' <=> Opening(j))
        BY <1>6, <1>9, <2>1
      <3>2. PICK k \in 1..Len(locks) : /\ k = tasks[j].lock /\ j \in Range(locks[k])
                                       /\ Opening(j) => locks[k][1] = j
        BY <1>0, <2>1, <3>1 DEF LocksInv
      <3>3. CASE k = l
        <4>1. ~Opening(j)
          BY <1>1, <3>1, <3>2, <3>3
        <4>2. j \in Range(locks'[k])
          BY <1>3, <1>5, <3>1, <3>2, <3>3
        <4> QED BY <1>5, <3>1, <3>2, <4>1, <4>2
      <3>4. CASE k # l
        <4>1. locks'[k] = locks[k]
          BY <1>0, <1>5, <3>4
        <4> QED BY <1>5, <3>1, <3>2, <4>1
      <3> QED BY <3>3, <3>4
    <2>2. \A j \in DOMAIN tasks' :
            /\ IsNew(j)' => tasks'[j].lock = 0 /\ tasks'[j].at \notin {"lookup", "lock", "recheck"}
            /\ tasks'[j].at = "store" => tasks'[j].thread > 0
      BY <1>0, <1>6, <1>9 DEF LocksInv
    <2> QED BY <1>4, <2>1, <2>2 DEF LocksInv
  <1>11. OpeningInv /\ failures' = 0 => OpeningInv'
    <2> SUFFICES ASSUME OpeningInv, failures' = 0 PROVE OpeningInv'
      OBVIOUS
    <2>1. mapping' # 0
      OBVIOUS
    <2>2. \A j \in DOMAIN tasks' : Opening(j)' => j \in DOMAIN tasks /\ Opening(j) /\ tasks'[j] = tasks[j]
      BY <1>6, <1>9
    <2> QED BY <2>1, <2>2 DEF OpeningInv
  <1> QED BY <1>0, <1>7, <1>8, <1>10, <1>11 DEF ChannelsInv

\* The lookup under the lock keeps the invariant: it finds no thread only when
\* nobody else is at making one.
LEMMA RecheckInv == ASSUME ChannelsInv, NEW i \in DOMAIN tasks, Recheck(i) PROVE ChannelsInv'
  <1>a. ChannelsShape /\ LocksInv /\ tasks[i].at = "recheck" /\ locks[tasks[i].lock][1] = i
    BY DEF ChannelsInv, Recheck
  <1>b. tasks[i] \in AnyTask /\ mapping \in Nat /\ failures \in Nat
    BY <1>a DEF ChannelsShape
  <1>0. /\ ChannelsShape /\ LocksInv /\ tasks[i] \in AnyTask /\ mapping \in Nat /\ failures \in Nat
        /\ tasks[i].at = "recheck" /\ ~IsNew(i) /\ locks[tasks[i].lock][1] = i
    BY <1>a, <1>b DEF LocksInv
  <1>1. UNCHANGED <<inbound, recent, mapping, threads, forgotten, opened, failures>>
    BY DEF Recheck
  <1>2. CASE mapping # 0
    <2>1. PICK rec \in AnyTask : rec = [tasks[i] EXCEPT !.thread = mapping, !.at = "run"]
      BY <1>0 DEF AnyTask, Steps
    <2>2. tasks' = [tasks EXCEPT ![i] = rec] /\ rec.msg = tasks[i].msg /\ rec.at = "run" /\ ReleaseLock(i)
      BY <1>0, <1>2, <2>1 DEF Recheck, Found, AnyTask
    <2>3. mapping' \in Nat /\ mapping' > 0 /\ failures' \in Nat /\ failures' >= failures
      BY <1>0, <1>1, <1>2
    <2> QED BY <1>0, <1>1, <2>2, <2>3, UnlockInv
  <1>3. CASE mapping = 0
    <2>1. PICK rec \in AnyTask : rec = [tasks[i] EXCEPT !.thread = mapping, !.at = "create"]
      BY <1>0 DEF AnyTask, Steps
    <2>2. /\ tasks' = [tasks EXCEPT ![i] = rec] /\ rec.msg = tasks[i].msg /\ rec.at = "create"
          /\ rec.lock = tasks[i].lock /\ UNCHANGED <<registry, locks>>
      BY <1>0, <1>3, <2>1 DEF Recheck, Found, AnyTask
    <2>3. /\ tasks' \in Seq(AnyTask) /\ DOMAIN tasks' = DOMAIN tasks /\ tasks'[i] = rec
          /\ \A j \in DOMAIN tasks \ {i} : tasks'[j] = tasks[j]
      BY <1>0, <2>2, TaskUpdated
    <2>4. recent' \in Seq(Messages) /\ KeyInv' /\ HandledOnce'
      BY <1>0, <1>1, <2>2, DedupeKept
    <2>5. ChannelsShape'
      BY <1>0, <1>1, <2>2, <2>3, <2>4 DEF ChannelsShape
    <2>6. /\ ~Opening(i) /\ Opening(i)' /\ \A j \in DOMAIN tasks \ {i} : Opening(j)' <=> Opening(j)
          /\ \A j \in DOMAIN tasks : IsNew(j)' <=> IsNew(j)
      BY <1>0, <2>2, <2>3 DEF Opening, IsNew
    <2>7. LocksInv'
      BY <1>0, <2>2, <2>3, <2>6 DEF LocksInv
    <2>8. ASSUME OpeningInv PROVE OpeningInv'
      <3>1. ASSUME NEW j \in DOMAIN tasks, Opening(j) PROVE FALSE
        <4>1. tasks[i].lock \in 1..Len(locks) /\ tasks[j].lock \in 1..Len(locks) /\ Len(locks) \in Nat
          BY <1>0, <3>1 DEF LocksInv, ChannelsShape
        <4>2. tasks[i].lock = tasks[j].lock
          BY <1>3, <2>8, <4>1 DEF OpeningInv
        <4>3. locks[tasks[j].lock][1] = j
          BY <1>0, <3>1 DEF LocksInv
        <4> QED BY <1>0, <2>6, <3>1, <4>2, <4>3
      <3>2. opened = 0
        BY <1>0, <1>3, <2>8, <3>1 DEF OpeningInv, ChannelsShape
      <3>3. \A j \in DOMAIN tasks' : Opening(j)' => j = i
        BY <2>3, <2>6, <3>1
      <3> QED BY <1>1, <1>3, <2>2, <2>8, <3>2, <3>3 DEF OpeningInv
    <2> QED BY <1>1, <2>4, <2>5, <2>7, <2>8 DEF ChannelsInv
  <1> QED BY <1>2, <1>3

\* Making the thread keeps the invariant.
LEMMA CreateThreadInv ==
    ASSUME ChannelsInv, NEW i \in DOMAIN tasks, CreateThread(i) PROVE ChannelsInv'
  <1>a. ChannelsShape /\ LocksInv /\ tasks[i].at = "create"
    BY DEF ChannelsInv, CreateThread
  <1>0. tasks[i] \in AnyTask /\ mapping \in Nat /\ threads \in Nat /\ opened \in Nat
    BY <1>a DEF ChannelsShape
  <1>1. /\ UNCHANGED <<inbound, recent, mapping, registry, locks, forgotten, failures>>
        /\ opened' = IF IsNew(i) THEN opened ELSE opened + 1
    BY DEF CreateThread
  <1>2. PICK n \in Nat : n = threads + 1 /\ n > 0 /\ threads' = n
    BY <1>0 DEF CreateThread
  <1>3. PICK rec \in AnyTask : rec = [tasks[i] EXCEPT !.thread = n, !.at = "store"]
    BY <1>0 DEF AnyTask, Steps
  <1>4. /\ tasks' = [tasks EXCEPT ![i] = rec] /\ rec.msg = tasks[i].msg /\ rec.at = "store"
        /\ rec.lock = tasks[i].lock /\ rec.thread = n
    BY <1>0, <1>2, <1>3 DEF CreateThread, AnyTask
  <1>5. CASE IsNew(i)
    BY <1>a, <1>0, <1>1, <1>2, <1>4, <1>5, QuietStep
  <1>6. CASE ~IsNew(i)
    <2>3. /\ tasks' \in Seq(AnyTask) /\ DOMAIN tasks' = DOMAIN tasks /\ tasks'[i] = rec
          /\ \A j \in DOMAIN tasks \ {i} : tasks'[j] = tasks[j]
      BY <1>a, <1>4, TaskUpdated
    <2>4. recent' \in Seq(Messages) /\ KeyInv' /\ HandledOnce'
      BY <1>a, <1>1, <1>4, DedupeKept
    <2>5. ChannelsShape'
      BY <1>a, <1>0, <1>1, <1>2, <2>3, <2>4 DEF ChannelsShape
    <2>6. /\ Opening(i) /\ Opening(i)' /\ \A j \in DOMAIN tasks : Opening(j)' <=> Opening(j)
          /\ \A j \in DOMAIN tasks : IsNew(j)' <=> IsNew(j)
      BY <1>a, <1>4, <1>6, <2>3 DEF Opening, IsNew
    <2>7. LocksInv'
      <3>1. ASSUME NEW j \in DOMAIN tasks'
            PROVE  /\ Opening(j)' \/ tasks'[j].at = "recheck" =>
                      tasks'[j].lock \in 1..Len(locks') /\ j \in Range(locks'[tasks'[j].lock])
                   /\ Opening(j)' => locks'[tasks'[j].lock][1] = j
        BY <1>a, <1>1, <1>4, <2>3, <2>6 DEF LocksInv
      <3>2. \A j \in DOMAIN tasks' :
              /\ IsNew(j)' => tasks'[j].lock = 0 /\ tasks'[j].at \notin {"lookup", "lock", "recheck"}
              /\ tasks'[j].at = "store" => tasks'[j].thread > 0
        BY <1>a, <1>2, <1>4, <2>3, <2>6 DEF LocksInv
      <3> QED BY <1>a, <1>1, <3>1, <3>2 DEF LocksInv
    <2>8. ASSUME OpeningInv PROVE OpeningInv'
      <3>1. opened' = 1
        BY <1>a, <1>1, <1>6, <2>6, <2>8 DEF OpeningInv
      <3>2. \A j \in DOMAIN tasks' : Opening(j)' => j = i
        BY <2>3, <2>6, <2>8 DEF OpeningInv
      <3>3. tasks'[i].at = "store" /\ i \in DOMAIN tasks'
        BY <1>4, <2>3
      <3> QED BY <1>1, <2>6, <2>8, <3>1, <3>2, <3>3 DEF OpeningInv
    <2> QED BY <1>1, <2>4, <2>5, <2>7, <2>8 DEF ChannelsInv
  <1> QED BY <1>5, <1>6

\* So do storing it ...
LEMMA StoreThreadInv ==
    ASSUME ChannelsInv, NEW i \in DOMAIN tasks, StoreThread(i) PROVE ChannelsInv'
  <1>a. ChannelsShape /\ LocksInv /\ tasks[i].at = "store" /\ ReleaseLock(i)
    BY DEF ChannelsInv, StoreThread
  <1>b. tasks[i] \in AnyTask /\ threads \in Nat /\ failures \in Nat
    BY <1>a DEF ChannelsShape
  <1>0. mapping' \in Nat /\ mapping' > 0
    BY <1>a, <1>b DEF StoreThread, LocksInv, AnyTask
  <1>1. UNCHANGED <<inbound, recent, threads, forgotten, opened, failures>>
    BY DEF StoreThread
  <1>2. PICK at \in Steps : at = IF IsNew(i) THEN "done" ELSE "run"
    BY DEF Steps
  <1>3. PICK rec \in AnyTask : rec = [tasks[i] EXCEPT !.at = at]
    BY <1>b DEF AnyTask
  <1>4. /\ tasks' = [tasks EXCEPT ![i] = rec] /\ rec.msg = tasks[i].msg /\ rec.at = at
        /\ rec.lock = tasks[i].lock
    BY <1>b, <1>2, <1>3 DEF StoreThread, MoveTo, AnyTask
  <1>5. CASE IsNew(i)
    <2>1. UNCHANGED <<registry, locks>>
      BY <1>a, <1>5 DEF LocksInv, ReleaseLock
    <2> QED BY <1>a, <1>b, <1>0, <1>1, <1>2, <1>4, <1>5, <2>1, QuietStep
  <1>6. CASE ~IsNew(i)
    <2>1. locks[tasks[i].lock][1] = i
      BY <1>a, <1>6 DEF LocksInv, Opening
    <2>2. failures' \in Nat /\ failures' >= failures
      BY <1>b, <1>1
    <2> QED BY <1>a, <1>0, <1>1, <1>2, <1>4, <1>6, <2>1, <2>2, UnlockInv
  <1> QED BY <1>5, <1>6

\* ... and failing to.
LEMMA ThreadFailsInv ==
    ASSUME ChannelsInv, NEW i \in DOMAIN tasks, ThreadFails(i) PROVE ChannelsInv'
  <1>a. /\ ChannelsShape /\ LocksInv /\ tasks[i].at \in {"create", "store"} /\ ReleaseLock(i)
        /\ failures' = IF IsNew(i) THEN failures ELSE failures + 1
    BY DEF ChannelsInv, ThreadFails
  <1>b. tasks[i] \in AnyTask /\ threads \in Nat /\ mapping \in Nat /\ failures \in Nat
    BY <1>a DEF ChannelsShape
  <1>1. /\ UNCHANGED <<inbound, mapping, threads, forgotten, opened>>
        /\ recent' = Released(tasks[i].msg)
    BY DEF ThreadFails, Raise
  <1>3. PICK rec \in AnyTask : rec = [tasks[i] EXCEPT !.at = "failed"]
    BY <1>b DEF AnyTask, Steps
  <1>4. /\ tasks' = [tasks EXCEPT ![i] = rec] /\ rec.msg = tasks[i].msg /\ rec.at = "failed"
        /\ rec.lock = tasks[i].lock
    BY <1>b, <1>3 DEF ThreadFails, Raise, MoveTo, AnyTask
  <1>5. CASE IsNew(i)
    <2>1. UNCHANGED <<registry, locks, failures>>
      BY <1>a, <1>5 DEF LocksInv, ReleaseLock
    <2> QED BY <1>a, <1>b, <1>1, <1>4, <1>5, <2>1, QuietStep
  <1>6. CASE ~IsNew(i)
    <2>1. locks[tasks[i].lock][1] = i
      BY <1>a, <1>6 DEF LocksInv, Opening
    <2>2. failures' \in Nat /\ failures' >= failures /\ failures' > 0 /\ mapping' \in Nat
      BY <1>a, <1>b, <1>1, <1>6
    <2> QED BY <1>a, <1>1, <1>4, <1>6, <2>1, <2>2, UnlockInv
  <1> QED BY <1>5, <1>6

\* Every step keeps the invariant.
LEMMA ChannelsStep == ChannelsInv /\ [ChannelsNext]_channelVars => ChannelsInv'
  <1> SUFFICES ASSUME ChannelsInv, [ChannelsNext]_channelVars PROVE ChannelsInv'
    OBVIOUS
  <1>1. CASE UNCHANGED channelVars
    BY <1>1 DEF channelVars, ChannelsInv, ChannelsShape, KeyInv, HandledOnce, LocksInv,
                OpeningInv, Opening, IsNew
  <1>2. CASE ChannelsNext
    BY <1>2, DeliverInv, DispatchInv, QuietSteps, TakeLockInv, RecheckInv, CreateThreadInv,
       StoreThreadInv, ThreadFailsInv DEF ChannelsNext
  <1> QED BY <1>1, <1>2

\* A message is handled once, whatever the provider delivers again, for every
\* number of messages, deliveries, slots of the semaphore and recorded keys.
THEOREM HandledOnceHolds == ChannelsSpec => []HandledOnce
  <1>1. ChannelsInv => HandledOnce
    BY DEF ChannelsInv
  <1> QED BY <1>1, ChannelsInitInv, ChannelsStep, PTL DEF ChannelsSpec

\* The first messages of a conversation, however they overlap, open one thread
\* for it, as long as no creation fails.
THEOREM OneConversationHolds == ChannelsSpec => []OneConversation
  <1>1. ChannelsInv => OneConversation
    BY DEF ChannelsInv, ChannelsShape, OpeningInv, OneConversation
  <1> QED BY <1>1, ChannelsInitInv, ChannelsStep, PTL DEF ChannelsSpec

-----------------------------------------------------------------------------
(* The containers of the sandboxes. *)

\* Steps of acquire in which the slot's info is of a container it will stop.
Stopping == {"dropreuse", "dropwarm", "evict"}

\* A slot whose info is a claim to the container of a thread.
Holds(s, t) ==
    \/ acq[s].pc = "ready" /\ s[2] = t
    \/ acq[s].pc \in Stopping /\ acq[s].thread = t

\* Who has an info of a thread.
ActiveClaim(t, i) == \E p \in Providers : active[p][t] = i
WarmClaim(t, i) == \E p \in Providers : [t |-> t, info |-> i] \in Range(warm[p])
StopClaim(t, i) == \E p \in Providers : [t |-> t, info |-> i] \in Range(reaper[p].stops)
SlotClaim(t, i) == \E s \in Slots : Holds(s, t) /\ acq[s].info = i
Claim(t, i) == ActiveClaim(t, i) \/ WarmClaim(t, i) \/ StopClaim(t, i) \/ SlotClaim(t, i)

\* The container of a thread is given up, or somebody has an info that leads to it.
Covered(t) ==
    running[t] # 0 =>
        <<t, running[t]>> \in abandoned \/ \E i \in Info : Claim(t, i) /\ Reaches(t, i)

\* The warm pool is a dict.
WarmOnce ==
    \A p \in Providers : \A i, j \in DOMAIN warm[p] : warm[p][i].t = warm[p][j].t => i = j

\* Only a slot that evicts, or has, is about a container of another thread.
Sound(s, a) == a \in Acq /\ (a.pc \notin {"evict", "start", "ready"} => a.thread = s[2])
SlotsSound == \A s \in Slots : Sound(s, acq[s])

\* What every step of the sandbox providers keeps.
SandboxInv == SandboxTypeOK /\ WarmOnce /\ SlotsSound /\ \A t \in Threads : Covered(t)

\* A slot is of a provider and a thread.
LEMMA SlotFields == ASSUME NEW s \in Slots PROVE s[1] \in Providers /\ s[2] \in Threads
  BY DEF Slots

\* A slot at rest.
LEMMA ReadySound ==
    ASSUME NEW s \in Slots
    PROVE  Sound(s, Ready(s)) /\ Ready(s).pc = "none" /\ ~(Ready(s).pc \in Stopping)
  <1>1. s[2] \in Threads
    BY SlotFields
  <1>2. NoInfo \in Info
    BY DEF NoInfo, Info
  <1> QED BY <1>1, <1>2 DEF Sound, Ready, Acq, Stopping

\* A slot changes: the others keep what they claim.
LEMMA SlotChanges ==
    ASSUME SandboxTypeOK, SlotsSound, NEW s \in Slots, NEW a, Sound(s, a),
           acq' = [acq EXCEPT ![s] = a]
    PROVE  /\ acq' \in [Slots -> Acq] /\ SlotsSound' /\ acq'[s] = a
           /\ \A t, i : SlotClaim(t, i) => SlotClaim(t, i)' \/ (Holds(s, t) /\ acq[s].info = i)
  <1>1. acq \in [Slots -> Acq] /\ a \in Acq
    BY DEF SandboxTypeOK, Sound
  <1>2. acq' \in [Slots -> Acq] /\ acq'[s] = a /\ \A u \in Slots \ {s} : acq'[u] = acq[u]
    BY <1>1
  <1>3. SlotsSound'
    BY <1>2 DEF SlotsSound, Sound
  <1>4. ASSUME NEW t, NEW i, SlotClaim(t, i), ~(Holds(s, t) /\ acq[s].info = i)
        PROVE  SlotClaim(t, i)'
    <2>1. PICK u \in Slots : Holds(u, t) /\ acq[u].info = i
      BY <1>4 DEF SlotClaim
    <2>2. acq'[u] = acq[u]
      BY <1>2, <1>4, <2>1
    <2> QED BY <2>1, <2>2 DEF SlotClaim, Holds
  <1> QED BY <1>2, <1>3, <1>4

\* Goto, from a step that is about the slot's own thread.
LEMMA GotoSound ==
    ASSUME SandboxTypeOK, SlotsSound, NEW s \in Slots, NEW pc, Goto(s, pc),
           \/ pc \in {"warm", "lock", "discover", "count"}
              /\ acq[s].pc \notin {"evict", "start", "ready"}
           \/ pc = "start"
    PROVE  \E a : Sound(s, a) /\ acq' = [acq EXCEPT ![s] = a] /\ a.pc \in {"none", pc}
  <1>0. acq[s] \in Acq /\ Sound(s, acq[s])
    BY DEF SandboxTypeOK, SlotsSound
  <1>1. CASE s[3] \in Ghosts
    <2>1. acq' = [acq EXCEPT ![s] = Ready(s)]
      BY <1>1 DEF Goto
    <2> QED BY <2>1, ReadySound
  <1>2. CASE s[3] \notin Ghosts
    <2>1. PICK a : a = [acq[s] EXCEPT !.pc = pc]
      OBVIOUS
    <2>2. acq' = [acq EXCEPT ![s] = a]
      BY <1>2, <2>1 DEF Goto
    <2>3. Sound(s, a) /\ a.pc = pc
      BY <1>0, <2>1 DEF Sound, Acq
    <2> QED BY <2>2, <2>3
  <1> QED BY <1>1, <1>2

\* The infos of the warm pool.
LEMMA WarmFacts ==
    ASSUME SandboxTypeOK, WarmOnce, NEW p \in Providers, NEW t \in Threads
    PROVE  /\ WarmInfo(p, t) \in Info
           /\ IsWarm(p, t) => [t |-> t, info |-> WarmInfo(p, t)] \in Range(warm[p])
           /\ \A e \in Range(warm[p]) : e.t = t => IsWarm(p, t) /\ e.info = WarmInfo(p, t)
           /\ IsWarm(p, t) => WarmOf(p, t) = [t |-> t, info |-> WarmInfo(p, t)]
  <1>1. warm[p] \in Seq(WarmEntry) /\ \A e \in Range(warm[p]) : e \in WarmEntry
    BY DEF SandboxTypeOK, Range
  <1>2. NoInfo \in Info
    BY DEF NoInfo, Info
  <1>3. ASSUME IsWarm(p, t)
        PROVE  /\ WarmOf(p, t) \in Range(warm[p]) /\ WarmOf(p, t).t = t
               /\ WarmInfo(p, t) = WarmOf(p, t).info
    <2>1. \E e \in Range(warm[p]) : e.t = t
      BY <1>3 DEF IsWarm, Range
    <2> QED BY <1>3, <2>1 DEF WarmOf, WarmInfo
  <1>4. ASSUME IsWarm(p, t)
        PROVE  WarmOf(p, t) = [t |-> t, info |-> WarmInfo(p, t)] /\ WarmInfo(p, t) \in Info
    <2>1. PICK e \in WarmEntry : e = WarmOf(p, t)
      BY <1>1, <1>3, <1>4
    <2> QED BY <1>3, <1>4, <2>1 DEF WarmEntry
  <1>5. ASSUME NEW e \in Range(warm[p]), e.t = t
        PROVE  IsWarm(p, t) /\ e.info = WarmInfo(p, t)
    <2>1. PICK i \in DOMAIN warm[p] : e = warm[p][i]
      BY DEF Range
    <2>2. IsWarm(p, t)
      BY <1>5, <2>1 DEF IsWarm
    <2>3. PICK j \in DOMAIN warm[p] : WarmOf(p, t) = warm[p][j]
      BY <1>3, <2>2 DEF Range
    <2>4. i = j
      BY <1>3, <1>5, <2>1, <2>2, <2>3 DEF WarmOnce
    <2> QED BY <1>3, <2>1, <2>2, <2>3, <2>4
  <1>6. ~IsWarm(p, t) => WarmInfo(p, t) = NoInfo
    BY DEF WarmInfo
  <1> QED BY <1>2, <1>3, <1>4, <1>5, <1>6

\* The infos of the maps have their type.
LEMMA TrackedTypes ==
    ASSUME SandboxTypeOK, WarmOnce, NEW p \in Providers, NEW t \in Threads
    PROVE  active[p][t] \in Info /\ WarmInfo(p, t) \in Info /\ TrackedInfo(p, t) \in Info
  <1>1. WarmInfo(p, t) \in Info
    BY WarmFacts
  <1>2. active[p][t] \in Info
    BY DEF SandboxTypeOK
  <1> QED BY <1>1, <1>2 DEF TrackedInfo

\* The warm pool without a thread.
LEMMA NotWarmFacts ==
    ASSUME SandboxTypeOK, WarmOnce, NEW p \in Providers, NEW t \in Threads
    PROVE  /\ NotWarm(p, t) \in Seq(WarmEntry)
           /\ \A i, j \in DOMAIN NotWarm(p, t) : NotWarm(p, t)[i].t = NotWarm(p, t)[j].t => i = j
           /\ \A e \in Range(warm[p]) : e.t # t => e \in Range(NotWarm(p, t))
  <1>1. warm[p] \in Seq(WarmEntry)
    BY DEF SandboxTypeOK
  <1>2. CASE ~IsWarm(p, t)
    <2>1. NotWarm(p, t) = warm[p]
      BY <1>2 DEF NotWarm
    <2> QED BY <1>1, <2>1 DEF WarmOnce
  <1>3. CASE IsWarm(p, t)
    <2>1. PICK q \in Seq(WarmEntry) : q = warm[p]
      BY <1>1
    <2>2. PICK x : x = WarmOf(p, t) /\ x.t = t
      <3>1. WarmOf(p, t) = [t |-> t, info |-> WarmInfo(p, t)]
        BY <1>3, WarmFacts
      <3> QED BY <3>1
    <2>3. PICK r \in Seq(WarmEntry) : r = RemoveFirst(q, x)
      <3>1. RemoveFirst(q, x) \in Seq(WarmEntry)
        BY RemoveFirstProperties, Zenon
      <3> QED BY <3>1
    <2>4. NotWarm(p, t) = r
      BY <1>3, <2>1, <2>2, <2>3 DEF NotWarm
    <2>5. PICK K : K = [e \in WarmEntry |-> e.t]
      OBVIOUS
    <2>6. ASSUME NEW i \in DOMAIN r, NEW j \in DOMAIN r, r[i].t = r[j].t PROVE i = j
      <3>1. \A k, l \in DOMAIN q : K[q[k]] = K[q[l]] => k = l
        <4>1. ASSUME NEW k \in DOMAIN q, NEW l \in DOMAIN q, K[q[k]] = K[q[l]] PROVE k = l
          <5>1. q[k] \in WarmEntry /\ q[l] \in WarmEntry
            OBVIOUS
          <5>2. q[k].t = q[l].t
            BY <2>5, <4>1, <5>1
          <5> QED BY <2>1, <5>2 DEF WarmOnce
        <4> QED BY <4>1
      <3>2. \A k, l \in DOMAIN r : K[r[k]] = K[r[l]] => k = l
        <4>1. \A k, l \in DOMAIN RemoveFirst(q, x) :
                K[RemoveFirst(q, x)[k]] = K[RemoveFirst(q, x)[l]] => k = l
          <5> HIDE <2>1, <2>2, <2>3, <2>5
          <5> QED BY <3>1, RemoveFirstKeys, ZenonT(40)
        <4> QED BY <2>3, <4>1
      <3>3. r[i] \in WarmEntry /\ r[j] \in WarmEntry
        OBVIOUS
      <3> QED BY <2>5, <2>6, <3>2, <3>3
    <2>7. \A e \in Range(q) : e.t # t => e \in Range(r)
      BY <2>2, <2>3, RemoveFirstProperties
    <2> QED BY <2>1, <2>3, <2>4, <2>6, <2>7
  <1> QED BY <1>2, <1>3

\* A step that leaves the containers and the maps alone, and whose slot claims
\* nothing before it.
LEMMA QuietSandbox ==
    ASSUME SandboxInv, NEW s \in Slots, NEW a, Sound(s, a), acq' = [acq EXCEPT ![s] = a],
           acq[s].pc \notin Stopping \cup {"ready"},
           UNCHANGED <<running, infos, active, warm, reaper, faults, abandoned>>,
           idle' \in [Providers -> SUBSET Threads], fileLock' \in [Threads -> SUBSET Providers]
    PROVE  SandboxInv'
  <1>0. SandboxTypeOK /\ WarmOnce /\ SlotsSound
    BY DEF SandboxInv
  <1>1. /\ acq' \in [Slots -> Acq] /\ SlotsSound'
        /\ \A t, i : SlotClaim(t, i) => SlotClaim(t, i)'
    BY <1>0, SlotChanges DEF Holds
  <1>2. SandboxTypeOK' /\ WarmOnce'
    BY <1>0, <1>1 DEF SandboxTypeOK, WarmOnce
  <1>3. ASSUME NEW t \in Threads PROVE Covered(t)'
    <2>1. Covered(t)
      BY DEF SandboxInv
    <2>2. \A i : Claim(t, i) => Claim(t, i)'
      BY <1>1 DEF Claim, ActiveClaim, WarmClaim, StopClaim
    <2> QED BY <2>1, <2>2 DEF Covered, Reaches
  <1> QED BY <1>1, <1>2, <1>3 DEF SandboxInv

\* The lock file is given up.
LEMMA UnlockType ==
    ASSUME SandboxTypeOK, NEW s \in Slots, Unlock(s)
    PROVE  fileLock' \in [Threads -> SUBSET Providers]
  <1>1. s[2] \in Threads /\ fileLock \in [Threads -> SUBSET Providers]
    BY SlotFields DEF SandboxTypeOK
  <1>2. fileLock[s[2]] \in SUBSET Providers /\ fileLock[s[2]] \ {s[1]} \in SUBSET Providers
    BY <1>1
  <1>3. PICK f \in SUBSET Providers : fileLock' = [fileLock EXCEPT ![s[2]] = f]
    BY <1>2 DEF Unlock
  <1> QED BY <1>1, <1>3

\* A thread is used.
LEMMA UsedType ==
    ASSUME SandboxTypeOK, NEW p \in Providers, NEW t
    PROVE  [idle EXCEPT ![p] = @ \ {t}] \in [Providers -> SUBSET Threads]
  BY DEF SandboxTypeOK

\* An entry of the maps is registered: the container is covered by it, and the
\* entry it replaces is given up if it was the one that led to the container.
LEMMA RegisterCovers ==
    ASSUME SandboxInv, NEW p \in Providers, NEW t \in Threads, NEW info \in Info,
           Register(p, t, info), UNCHANGED <<running, reaper>>,
           \A u, i : WarmClaim(u, i) => WarmClaim(u, i)' \/ (u = t /\ i = info),
           \A u, i : SlotClaim(u, i) => SlotClaim(u, i)' \/ (u = t /\ i = info)
    PROVE  /\ active' \in [Providers -> [Threads -> Info]]
           /\ idle' \in [Providers -> SUBSET Threads] /\ abandoned' \subseteq Threads \X Nat
           /\ \A u \in Threads : Covered(u)'
  <1>0. /\ active \in [Providers -> [Threads -> Info]] /\ running \in [Threads -> Nat]
        /\ abandoned \subseteq Threads \X Nat
    BY DEF SandboxInv, SandboxTypeOK
  <1>1. /\ active' = [active EXCEPT ![p][t] = info]
        /\ abandoned' = IF Reaches(t, info) THEN abandoned \ {<<t, running[t]>>}
                        ELSE Dropped(t, active[p][t], info)
    BY DEF Register
  <1>2. active' \in [Providers -> [Threads -> Info]] /\ active'[p][t] = info
    BY <1>0, <1>1
  <1>3. idle' \in [Providers -> SUBSET Threads]
    BY UsedType DEF Register, SandboxInv
  <1>4. /\ abandoned' \subseteq Threads \X Nat
        /\ \A u \in Threads \ {t} : \A n : <<u, n>> \in abandoned => <<u, n>> \in abandoned'
        /\ ~Reaches(t, info) => abandoned \subseteq abandoned'
        /\ ~Reaches(t, info) /\ Reaches(t, active[p][t]) /\ running[t] # 0 =>
             <<t, running[t]>> \in abandoned'
    BY <1>0, <1>1 DEF Dropped, GivenUp
  <1>5. \A u, i : ActiveClaim(u, i) => ActiveClaim(u, i)' \/ (u = t /\ i = active[p][t])
    <2>1. ASSUME NEW u, NEW i, ActiveClaim(u, i), ~(u = t /\ i = active[p][t])
          PROVE  ActiveClaim(u, i)'
      <3>1. PICK r \in Providers : active[r][u] = i
        BY <2>1 DEF ActiveClaim
      <3>2. active'[r][u] = i
        BY <1>0, <1>1, <2>1, <3>1
      <3> QED BY <3>2 DEF ActiveClaim
    <2> QED BY <2>1
  <1>6. \A u, i : StopClaim(u, i) => StopClaim(u, i)'
    BY DEF StopClaim
  <1>7. ASSUME NEW u \in Threads, running[u] # 0 PROVE Covered(u)'
    <2>1. CASE u = t /\ Reaches(t, info)
      <3>1. ActiveClaim(t, info)'
        BY <1>2 DEF ActiveClaim
      <3> QED BY <2>1, <3>1 DEF Covered, Claim, Reaches
    <2>2. CASE ~(u = t /\ Reaches(t, info)) /\ <<u, running[u]>> \in abandoned
      BY <1>4, <2>2 DEF Covered
    <2>3. CASE ~(u = t /\ Reaches(t, info)) /\ \E i \in Info : Claim(u, i) /\ Reaches(u, i)
      <3>1. PICK i \in Info : Claim(u, i) /\ Reaches(u, i)
        BY <2>3
      <3>2. Claim(u, i)' \/ (u = t /\ i = active[p][t])
        BY <1>5, <1>6, <2>3, <3>1 DEF Claim
      <3>3. CASE u = t /\ i = active[p][t]
        BY <1>4, <1>7, <2>3, <3>1, <3>3 DEF Covered
      <3>4. CASE Claim(u, i)'
        BY <3>1, <3>4 DEF Covered, Reaches
      <3> QED BY <3>2, <3>3, <3>4
    <2>4. Covered(u)
      BY DEF SandboxInv
    <2> QED BY <1>7, <2>1, <2>2, <2>3, <2>4 DEF Covered
  <1>8. \A u \in Threads : Covered(u)'
    BY <1>7 DEF Covered
  <1> QED BY <1>2, <1>3, <1>4, <1>8

\* A container is stopped, or the attempt fails: the info that is used up led
\* to it, or the others are as before.
LEMMA StopCovers ==
    ASSUME SandboxInv, NEW t \in Threads, NEW info \in Info, NEW works \in BOOLEAN,
           Stop(t, info, works), UNCHANGED <<active, warm>>,
           \A u, i : StopClaim(u, i) => StopClaim(u, i)' \/ (u = t /\ i = info),
           \A u, i : SlotClaim(u, i) => SlotClaim(u, i)' \/ (u = t /\ i = info)
    PROVE  /\ running' \in [Threads -> Nat] /\ faults' \in 0..MaxFaults
           /\ abandoned' \subseteq Threads \X Nat
           /\ \A u \in Threads : Covered(u)'
  <1>0. /\ running \in [Threads -> Nat] /\ abandoned \subseteq Threads \X Nat
        /\ faults \in 0..MaxFaults /\ MaxFaults \in Nat
    BY SandboxAssumption DEF SandboxInv, SandboxTypeOK
  <1>1. \A u, i : Claim(u, i) => Claim(u, i)' \/ (u = t /\ i = info)
    BY DEF Claim, ActiveClaim, WarmClaim
  <1>2. CASE works
    <2>1. running' = Stopped(t, info) /\ UNCHANGED <<faults, abandoned>>
      BY <1>2 DEF Stop
    <2>2. running' \in [Threads -> Nat]
      <3>1. PICK n \in {0, running[t]} : running' = [running EXCEPT ![t] = n]
        BY <1>0, <2>1 DEF Stopped
      <3> QED BY <1>0, <3>1
    <2>3. ASSUME NEW u \in Threads, running'[u] # 0 PROVE Covered(u)'
      <3>1. running'[u] = running[u] /\ ~(u = t /\ Reaches(t, info))
        BY <1>0, <2>1, <2>3 DEF Stopped
      <3>2. Covered(u)
        BY DEF SandboxInv
      <3>3. \A i : Claim(u, i) /\ Reaches(u, i) => Claim(u, i)'
        BY <1>1, <3>1
      <3> QED BY <2>1, <3>1, <3>2, <3>3 DEF Covered, Reaches
    <2> QED BY <1>0, <2>1, <2>2, <2>3 DEF Covered
  <1>3. CASE ~works
    <2>1. Fault /\ abandoned' = GivenUp(t) /\ UNCHANGED running
      BY <1>3 DEF Stop
    <2>2. faults' \in 0..MaxFaults
      BY <1>0, <2>1 DEF Fault
    <2>3. abandoned' \subseteq Threads \X Nat /\ abandoned \subseteq abandoned'
      BY <1>0, <2>1 DEF GivenUp
    <2>4. ASSUME NEW u \in Threads, running[u] # 0 PROVE Covered(u)'
      <3>1. CASE u = t
        BY <2>1, <2>4, <3>1 DEF Covered, GivenUp
      <3>2. CASE u # t
        <4>1. Covered(u) /\ \A i : Claim(u, i) => Claim(u, i)'
          BY <1>1, <3>2 DEF SandboxInv
        <4> QED BY <2>1, <2>3, <4>1 DEF Covered, Reaches
      <3> QED BY <3>1, <3>2
    <2> QED BY <1>0, <2>1, <2>2, <2>3, <2>4 DEF Covered
  <1> QED BY <1>2, <1>3

\* A call begins; it keeps the invariant.
LEMMA AcquireInv ==
    ASSUME SandboxInv, NEW p \in Providers, NEW t \in Threads, Acquire(p, t)
    PROVE  SandboxInv'
  <1>0. SandboxTypeOK /\ SlotsSound
    BY DEF SandboxInv
  <1>1. PICK s \in Slots : s = <<p, t, "call">>
    BY DEF Slots
  <1>2. acq[s].pc = "none" /\ acq' = [acq EXCEPT ![s] = [acq[s] EXCEPT !.pc = "reuse"]]
    BY <1>0, <1>1 DEF Acquire
  <1>3. Sound(s, [acq[s] EXCEPT !.pc = "reuse"])
    BY <1>0, <1>2 DEF SlotsSound, Sound, Acq
  <1>4. /\ idle' \in [Providers -> SUBSET Threads] /\ fileLock' \in [Threads -> SUBSET Providers]
        /\ UNCHANGED <<running, infos, active, warm, reaper, faults, abandoned>>
    BY <1>0 DEF Acquire, SandboxTypeOK
  <1> QED BY <1>2, <1>3, <1>4, QuietSandbox DEF Stopping

\* Looking an entry up, and taking the lock file.
LEMMA LookUpInv ==
    ASSUME SandboxInv, NEW s \in Slots, LookUp(s) \/ LockFile(s)
    PROVE  SandboxInv'
  <1>0. SandboxTypeOK /\ SlotsSound /\ WarmOnce /\ s[1] \in Providers /\ s[2] \in Threads
    BY SlotFields DEF SandboxInv
  <1>1. /\ acq[s].pc \in {"reuse", "warm", "lock"} /\ acq[s] \in Acq /\ acq[s].thread = s[2]
        /\ UNCHANGED <<running, infos, active, warm, reaper, faults, abandoned>>
        /\ idle' \in [Providers -> SUBSET Threads]
    BY <1>0 DEF LookUp, LockFile, SlotsSound, Sound, SandboxTypeOK
  <1>2. CASE LookUp(s)
    <2>1. PICK found \in Info : found = IF acq[s].pc = "reuse" THEN active[s[1]][s[2]]
                                                               ELSE WarmInfo(s[1], s[2])
      BY <1>0, TrackedTypes
    <2>2. PICK pc \in {"warm", "reusecheck", "discover", "lock", "warmcheck"} :
            acq' = [acq EXCEPT ![s].info = found, ![s].pc = pc]
      BY <1>1, <1>2, <2>1 DEF LookUp, BeyondCaches
    <2>3. acq' = [acq EXCEPT ![s] = [acq[s] EXCEPT !.info = found, !.pc = pc]]
      BY <1>0, <2>2 DEF SandboxTypeOK
    <2>4. Sound(s, [acq[s] EXCEPT !.info = found, !.pc = pc])
      BY <1>1 DEF Sound, Acq
    <2>5. fileLock' \in [Threads -> SUBSET Providers]
      BY <1>0, <1>2 DEF LookUp, SandboxTypeOK
    <2> QED BY <1>1, <2>3, <2>4, <2>5, QuietSandbox DEF Stopping
  <1>3. CASE LockFile(s)
    <2>1. acq' = [acq EXCEPT ![s] = [acq[s] EXCEPT !.pc = "reuse", !.locked = TRUE]]
      BY <1>0, <1>3 DEF LockFile, SandboxTypeOK
    <2>2. Sound(s, [acq[s] EXCEPT !.pc = "reuse", !.locked = TRUE])
      BY <1>1 DEF Sound, Acq
    <2>3. fileLock' \in [Threads -> SUBSET Providers]
      BY <1>0, <1>3 DEF LockFile, SandboxTypeOK
    <2> QED BY <1>1, <2>1, <2>2, <2>3, QuietSandbox DEF Stopping
  <1> QED BY <1>2, <1>3

\* What removing the entries of a thread leaves.
LEMMA RemoveTrackedFacts ==
    ASSUME SandboxTypeOK, WarmOnce, NEW p \in Providers, NEW t \in Threads, RemoveTracked(p, t)
    PROVE  /\ active' \in [Providers -> [Threads -> Info]] /\ warm' \in [Providers -> Seq(WarmEntry)]
           /\ idle' \in [Providers -> SUBSET Threads] /\ WarmOnce'
           /\ \A u, i : ActiveClaim(u, i) => ActiveClaim(u, i)' \/ (u = t /\ i = active[p][t])
           /\ \A u, i : WarmClaim(u, i) => WarmClaim(u, i)' \/ (u = t /\ i = WarmInfo(p, t))
  <1>0. /\ active \in [Providers -> [Threads -> Info]] /\ warm \in [Providers -> Seq(WarmEntry)]
        /\ NoInfo \in Info
    BY DEF SandboxTypeOK, NoInfo, Info
  <1>1. /\ active' = [active EXCEPT ![p][t] = NoInfo] /\ warm' = [warm EXCEPT ![p] = NotWarm(p, t)]
        /\ idle' \in [Providers -> SUBSET Threads]
    BY UsedType DEF RemoveTracked
  <1>2. PICK q \in Seq(WarmEntry) :
          /\ q = NotWarm(p, t)
          /\ \A i, j \in DOMAIN q : q[i].t = q[j].t => i = j
          /\ \A e \in Range(warm[p]) : e.t # t => e \in Range(q)
    BY NotWarmFacts
  <1>3. /\ warm' \in [Providers -> Seq(WarmEntry)] /\ warm'[p] = q
        /\ \A r \in Providers \ {p} : warm'[r] = warm[r]
    BY <1>0, <1>1, <1>2
  <1>4. WarmOnce'
    BY <1>2, <1>3 DEF WarmOnce
  <1>5. ASSUME NEW u, NEW i, ActiveClaim(u, i), ~(u = t /\ i = active[p][t])
        PROVE  ActiveClaim(u, i)'
    <2>1. PICK r \in Providers : active[r][u] = i
      BY <1>5 DEF ActiveClaim
    <2>2. active'[r][u] = i
      BY <1>0, <1>1, <1>5, <2>1
    <2> QED BY <2>2 DEF ActiveClaim
  <1>6. ASSUME NEW u, NEW i, WarmClaim(u, i), ~(u = t /\ i = WarmInfo(p, t))
        PROVE  WarmClaim(u, i)'
    <2>1. PICK r \in Providers : [t |-> u, info |-> i] \in Range(warm[r])
      BY <1>6 DEF WarmClaim
    <2>2. CASE r # p
      BY <1>3, <2>1, <2>2 DEF WarmClaim
    <2>3. CASE r = p
      <3>1. PICK e \in Range(warm[p]) : e = [t |-> u, info |-> i] /\ e.t = u /\ e.info = i
        BY <2>1, <2>3
      <3>2. e.t # t
        BY <1>6, <3>1, WarmFacts
      <3> QED BY <1>2, <1>3, <3>1, <3>2 DEF WarmClaim
    <2> QED BY <2>2, <2>3
  <1>7. active' \in [Providers -> [Threads -> Info]]
    BY <1>0, <1>1
  <1> QED BY <1>1, <1>3, <1>4, <1>5, <1>6, <1>7

\* The health check keeps the invariant: what it removes leads nowhere.
LEMMA CheckInv ==
    ASSUME SandboxInv, NEW s \in Slots, NEW answered \in BOOLEAN, Check(s, answered)
    PROVE  SandboxInv'
  <1>0. SandboxTypeOK /\ SlotsSound /\ WarmOnce /\ s[1] \in Providers /\ s[2] \in Threads
    BY SlotFields DEF SandboxInv
  <1>1. /\ acq[s].pc \in {"reusecheck", "warmcheck"} /\ acq[s] \in Acq /\ acq[s].thread = s[2]
        /\ UNCHANGED <<running, infos, reaper, faults, abandoned>>
        /\ fileLock' \in [Threads -> SUBSET Providers]
    BY <1>0 DEF Check, SlotsSound, Sound, SandboxTypeOK
  <1>2. CASE UNCHANGED <<active, warm, idle>> /\ \E pc \in {"warm", "lock", "discover"} : Goto(s, pc)
    <2>1. PICK pc \in {"warm", "lock", "discover"} : Goto(s, pc)
      BY <1>2
    <2>2. PICK a : Sound(s, a) /\ acq' = [acq EXCEPT ![s] = a]
      BY <1>0, <1>1, <2>1, GotoSound
    <2>3. idle' \in [Providers -> SUBSET Threads]
      BY <1>0, <1>2 DEF SandboxTypeOK
    <2> QED BY <1>1, <1>2, <2>2, <2>3, QuietSandbox DEF Stopping
  <1>3. CASE /\ UNCHANGED <<active, warm, idle>>
             /\ \E pc \in {"reuseend", "warmend"} : acq' = [acq EXCEPT ![s].pc = pc]
    <2>1. PICK pc \in {"reuseend", "warmend"} : acq' = [acq EXCEPT ![s].pc = pc]
      BY <1>3
    <2>2. /\ acq' = [acq EXCEPT ![s] = [acq[s] EXCEPT !.pc = pc]]
          /\ Sound(s, [acq[s] EXCEPT !.pc = pc])
      BY <1>0, <1>1, <2>1 DEF SandboxTypeOK, Sound, Acq
    <2>3. idle' \in [Providers -> SUBSET Threads]
      BY <1>0, <1>3 DEF SandboxTypeOK
    <2> QED BY <1>1, <1>3, <2>2, <2>3, QuietSandbox DEF Stopping
  <1>4. CASE /\ running[s[2]] = 0 /\ RemoveTracked(s[1], s[2])
             /\ \E pc \in {"dropreuse", "dropwarm"} :
                  acq' = [acq EXCEPT ![s].pc = pc, ![s].info = TrackedInfo(s[1], s[2])]
    <2>1. PICK info \in Info : info = TrackedInfo(s[1], s[2])
      BY <1>0, TrackedTypes
    <2>2. PICK pc \in {"dropreuse", "dropwarm"} : acq' = [acq EXCEPT ![s].pc = pc, ![s].info = info]
      BY <1>4, <2>1
    <2>3. PICK a : a = [acq[s] EXCEPT !.pc = pc, !.info = info]
      OBVIOUS
    <2>4. acq' = [acq EXCEPT ![s] = a] /\ Sound(s, a)
      BY <1>0, <1>1, <2>2, <2>3 DEF SandboxTypeOK, Sound, Acq
    <2>5. /\ acq' \in [Slots -> Acq] /\ SlotsSound'
          /\ \A t, i : SlotClaim(t, i) => SlotClaim(t, i)'
      BY <1>0, <1>1, <2>4, SlotChanges DEF Holds, Stopping
    <2>6. /\ active' \in [Providers -> [Threads -> Info]]
          /\ warm' \in [Providers -> Seq(WarmEntry)]
          /\ idle' \in [Providers -> SUBSET Threads] /\ WarmOnce'
          /\ \A u, i : ActiveClaim(u, i) => ActiveClaim(u, i)' \/ u = s[2]
          /\ \A u, i : WarmClaim(u, i) => WarmClaim(u, i)' \/ u = s[2]
      BY <1>0, <1>4, RemoveTrackedFacts
    <2>7. SandboxTypeOK'
      BY <1>0, <1>1, <2>5, <2>6 DEF SandboxTypeOK
    <2>8. ASSUME NEW u \in Threads, running[u] # 0 PROVE Covered(u)'
      <3>1. Covered(u) /\ u # s[2]
        BY <1>4, <2>8 DEF SandboxInv
      <3>2. \A i : Claim(u, i) => Claim(u, i)'
        BY <1>1, <2>5, <2>6, <3>1 DEF Claim, StopClaim
      <3> QED BY <1>1, <3>1, <3>2 DEF Covered, Reaches
    <2> QED BY <1>1, <2>5, <2>6, <2>7, <2>8 DEF SandboxInv, Covered
  <1>5. BeyondCaches(s) \in {"lock", "discover"}
    BY DEF BeyondCaches
  <1>6. CASE answered /\ running[s[2]] = 0
    <2>1. \/ RemoveTracked(s[1], s[2]) /\ \E pc \in {"dropreuse", "dropwarm"} :
                acq' = [acq EXCEPT ![s].pc = pc, ![s].info = TrackedInfo(s[1], s[2])]
          \/ UNCHANGED <<active, warm, idle>> /\ \E pc \in {"warm", BeyondCaches(s)} : Goto(s, pc)
      BY <1>6 DEF Check
    <2> QED BY <1>2, <1>4, <1>5, <1>6, <2>1
  <1>7. CASE ~(answered /\ running[s[2]] = 0)
    <2>1. /\ UNCHANGED <<active, warm, idle>>
          /\ \E pc \in {"reuseend", "warmend"} : acq' = [acq EXCEPT ![s].pc = pc]
      BY <1>7 DEF Check
    <2> QED BY <1>3, <2>1
  <1> QED BY <1>6, <1>7

\* A slot stops the container its info leads to.
LEMMA SlotStopInv ==
    ASSUME SandboxInv, NEW s \in Slots, NEW works \in BOOLEAN,
           DropStop(s, works) \/ EvictStop(s, works) \/ NotReady(s, works)
    PROVE  SandboxInv'
  <1>0. /\ SandboxTypeOK /\ SlotsSound /\ WarmOnce /\ s[1] \in Providers /\ s[2] \in Threads
        /\ acq[s] \in Acq /\ Sound(s, acq[s]) /\ acq[s].info \in Info /\ acq[s].thread \in Threads
    BY SlotFields DEF SandboxInv, SandboxTypeOK, SlotsSound, Acq
  <1>1. PICK t \in Threads :
          /\ Stop(t, acq[s].info, works) /\ \A u : Holds(s, u) => u = t
          /\ UNCHANGED <<infos, active, warm, idle, reaper>>
    <2>1. CASE DropStop(s, works)
      <3>1. acq[s].pc \in {"dropreuse", "dropwarm"} /\ acq[s].thread = s[2]
        BY <1>0, <2>1 DEF DropStop, Sound
      <3>2. \A u : Holds(s, u) => u = s[2]
        BY <3>1 DEF Holds
      <3> QED BY <1>0, <2>1, <3>2 DEF DropStop
    <2>2. CASE EvictStop(s, works)
      <3>1. \A u : Holds(s, u) => u = acq[s].thread
        BY <2>2 DEF Holds, EvictStop
      <3> QED BY <1>0, <2>2, <3>1 DEF EvictStop
    <2>3. CASE NotReady(s, works)
      <3>1. \A u : Holds(s, u) => u = s[2]
        BY <2>3 DEF Holds, NotReady, Stopping
      <3> QED BY <1>0, <2>3, <3>1 DEF NotReady
    <2> QED BY <2>1, <2>2, <2>3
  <1>2. /\ fileLock' \in [Threads -> SUBSET Providers]
        /\ \E a : Sound(s, a) /\ acq' = [acq EXCEPT ![s] = a]
    <2>1. CASE DropStop(s, works)
      <3>1. acq[s].pc \in {"dropreuse", "dropwarm"} /\ UNCHANGED fileLock
        BY <2>1 DEF DropStop
      <3>2. PICK pc \in {"warm", "lock", "discover"} : Goto(s, pc)
        BY <2>1 DEF DropStop, BeyondCaches
      <3>3. \E a : Sound(s, a) /\ acq' = [acq EXCEPT ![s] = a]
        BY <1>0, <3>1, <3>2, GotoSound
      <3> QED BY <1>0, <3>1, <3>3 DEF SandboxTypeOK
    <2>2. CASE EvictStop(s, works)
      <3>1. Goto(s, "start") /\ UNCHANGED fileLock
        BY <2>2 DEF EvictStop
      <3>2. \E a : Sound(s, a) /\ acq' = [acq EXCEPT ![s] = a]
        BY <1>0, <3>1, GotoSound
      <3> QED BY <1>0, <3>1, <3>2 DEF SandboxTypeOK
    <2>3. CASE NotReady(s, works)
      <3>1. acq' = [acq EXCEPT ![s] = Ready(s)] /\ Unlock(s)
        BY <2>3 DEF NotReady, Done
      <3> QED BY <1>0, <3>1, ReadySound, UnlockType
    <2> QED BY <2>1, <2>2, <2>3
  <1>3. /\ acq' \in [Slots -> Acq] /\ SlotsSound'
        /\ \A u, i : SlotClaim(u, i) => SlotClaim(u, i)' \/ (u = t /\ i = acq[s].info)
    BY <1>0, <1>1, <1>2, SlotChanges
  <1>4. \A u, i : StopClaim(u, i) => StopClaim(u, i)'
    BY <1>1 DEF StopClaim
  <1>5. /\ running' \in [Threads -> Nat] /\ faults' \in 0..MaxFaults
        /\ abandoned' \subseteq Threads \X Nat /\ \A u \in Threads : Covered(u)'
    <2>1. PICK info \in Info : info = acq[s].info
      BY <1>0
    <2>2. /\ Stop(t, info, works) /\ UNCHANGED <<active, warm>>
          /\ \A u, i : SlotClaim(u, i) => SlotClaim(u, i)' \/ (u = t /\ i = info)
      BY <1>1, <1>3, <2>1
    <2> QED BY <1>4, <2>2, StopCovers
  <1>6. SandboxTypeOK' /\ WarmOnce'
    BY <1>0, <1>1, <1>2, <1>3, <1>5 DEF SandboxTypeOK, WarmOnce
  <1> QED BY <1>3, <1>5, <1>6 DEF SandboxInv

\* The reaper stops the container of its next entry.
LEMMA ReaperStopInv ==
    ASSUME SandboxInv, NEW p \in Providers, NEW works \in BOOLEAN, ReaperStop(p, works)
    PROVE  SandboxInv'
  <1>0. SandboxTypeOK /\ SlotsSound /\ WarmOnce
    BY DEF SandboxInv
  <1>1. PICK q \in Seq(WarmEntry) : q = reaper[p].stops /\ q # <<>>
    BY <1>0 DEF SandboxTypeOK, ReaperStop
  <1>2. PICK e \in WarmEntry : e = q[1] /\ Tail(q) \in Seq(WarmEntry)
                               /\ Range(q) = Range(Tail(q)) \cup {e}
    BY <1>1, RangeTail
  <1>3. /\ Stop(e.t, e.info, works) /\ reaper' = [reaper EXCEPT ![p].stops = Tail(q)]
        /\ UNCHANGED <<infos, active, warm, idle, fileLock, acq>>
    BY <1>0, <1>1, <1>2 DEF ReaperStop, SandboxTypeOK
  <1>4. /\ e.t \in Threads /\ e.info \in Info
        /\ \A t, i : [t |-> t, info |-> i] = e => t = e.t /\ i = e.info
    BY DEF WarmEntry
  <1>5. /\ reaper' \in [Providers -> [doomed : SUBSET Threads, stops : Seq(WarmEntry),
                                      down : BOOLEAN]]
        /\ reaper'[p].stops = Tail(q) /\ \A r \in Providers \ {p} : reaper'[r] = reaper[r]
    BY <1>0, <1>2, <1>3 DEF SandboxTypeOK
  <1>6. ASSUME NEW u, NEW i, StopClaim(u, i), ~(u = e.t /\ i = e.info) PROVE StopClaim(u, i)'
    <2>1. PICK r \in Providers : [t |-> u, info |-> i] \in Range(reaper[r].stops)
      BY <1>6 DEF StopClaim
    <2>2. CASE r # p
      BY <1>5, <2>1, <2>2 DEF StopClaim
    <2>3. CASE r = p
      <3>1. [t |-> u, info |-> i] \in Range(Tail(q))
        BY <1>1, <1>2, <1>4, <1>6, <2>1, <2>3
      <3> QED BY <1>5, <3>1 DEF StopClaim
    <2> QED BY <2>2, <2>3
  <1>7. \A u, i : SlotClaim(u, i) => SlotClaim(u, i)'
    BY <1>3 DEF SlotClaim, Holds
  <1>8. /\ running' \in [Threads -> Nat] /\ faults' \in 0..MaxFaults
        /\ abandoned' \subseteq Threads \X Nat /\ \A u \in Threads : Covered(u)'
    <2>1. PICK t \in Threads, info \in Info : t = e.t /\ info = e.info
      BY <1>4
    <2>2. Stop(t, info, works) /\ UNCHANGED <<active, warm>>
          /\ \A u, i : StopClaim(u, i) => StopClaim(u, i)' \/ (u = t /\ i = info)
      BY <1>3, <1>6, <2>1
    <2> QED BY <1>7, <2>2, StopCovers
  <1>9. SandboxTypeOK' /\ WarmOnce' /\ SlotsSound'
    BY <1>0, <1>3, <1>5, <1>8 DEF SandboxTypeOK, WarmOnce, SlotsSound, Sound
  <1> QED BY <1>8, <1>9 DEF SandboxInv

\* The end of the reuse of an active entry, a creation that fails.
LEMMA ReuseEndInv ==
    ASSUME SandboxInv, NEW s \in Slots, ReuseEnd(s) \/ StartFails(s)
    PROVE  SandboxInv'
  <1>0. SandboxTypeOK /\ SlotsSound /\ WarmOnce /\ s[1] \in Providers /\ s[2] \in Threads
    BY SlotFields DEF SandboxInv
  <1>1. /\ acq[s].pc \in {"reuseend", "start"}
        /\ UNCHANGED <<running, infos, active, warm, reaper, faults, abandoned>>
    BY DEF ReuseEnd, StartFails
  <1>2. idle' \in [Providers -> SUBSET Threads]
    <2>1. idle' = idle \/ idle' = [idle EXCEPT ![s[1]] = @ \ {s[2]}]
      BY DEF ReuseEnd, StartFails
    <2>2. idle \in [Providers -> SUBSET Threads]
      BY <1>0 DEF SandboxTypeOK
    <2>3. [idle EXCEPT ![s[1]] = @ \ {s[2]}] \in [Providers -> SUBSET Threads]
      BY <1>0, UsedType
    <2> QED BY <2>1, <2>2, <2>3
  <1>3. CASE Done(s)
    <2>1. acq' = [acq EXCEPT ![s] = Ready(s)] /\ Sound(s, Ready(s))
      BY <1>3, ReadySound DEF Done
    <2>2. fileLock' \in [Threads -> SUBSET Providers]
      BY <1>0, <1>3, UnlockType DEF Done
    <2> QED BY <1>1, <1>2, <2>1, <2>2, QuietSandbox DEF Stopping
  <1>4. CASE acq[s].pc = "reuseend" /\ Goto(s, "warm") /\ UNCHANGED fileLock
    <2>1. \E a : Sound(s, a) /\ acq' = [acq EXCEPT ![s] = a]
      BY <1>0, <1>4, GotoSound
    <2>2. fileLock' \in [Threads -> SUBSET Providers]
      BY <1>0, <1>4 DEF SandboxTypeOK
    <2> QED BY <1>1, <1>2, <2>1, <2>2, QuietSandbox DEF Stopping
  <1> QED BY <1>3, <1>4 DEF ReuseEnd, StartFails

\* A warm entry becomes the active one.
LEMMA WarmEndInv ==
    ASSUME SandboxInv, NEW s \in Slots, WarmEnd(s)
    PROVE  SandboxInv'
  <1>0. /\ SandboxTypeOK /\ SlotsSound /\ WarmOnce /\ s[1] \in Providers /\ s[2] \in Threads
        /\ acq[s].pc = "warmend" /\ UNCHANGED <<running, infos, reaper, faults>>
    BY SlotFields DEF SandboxInv, WarmEnd
  <1>1. CASE IsWarm(s[1], s[2])
    <2>1. PICK p \in Providers, t \in Threads : p = s[1] /\ t = s[2]
      BY <1>0
    <2>2. PICK info \in Info : info = WarmInfo(p, t)
      BY <1>0, TrackedTypes
    <2>3. /\ warm' = [warm EXCEPT ![p] = NotWarm(p, t)] /\ Register(p, t, info)
          /\ acq' = [acq EXCEPT ![s] = Ready(s)] /\ Unlock(s)
      BY <1>1, <2>1, <2>2 DEF WarmEnd, Done
    <2>4. PICK q \in Seq(WarmEntry) :
            /\ q = NotWarm(p, t)
            /\ \A i, j \in DOMAIN q : q[i].t = q[j].t => i = j
            /\ \A e \in Range(warm[p]) : e.t # t => e \in Range(q)
      BY <1>0, NotWarmFacts
    <2>5. /\ warm' \in [Providers -> Seq(WarmEntry)] /\ warm'[p] = q
          /\ \A r \in Providers \ {p} : warm'[r] = warm[r]
      BY <1>0, <2>3, <2>4 DEF SandboxTypeOK
    <2>6. WarmOnce'
      BY <1>0, <2>4, <2>5 DEF WarmOnce
    <2>7. ASSUME NEW u, NEW i, WarmClaim(u, i), ~(u = t /\ i = info) PROVE WarmClaim(u, i)'
      <3>1. PICK r \in Providers : [t |-> u, info |-> i] \in Range(warm[r])
        BY <2>7 DEF WarmClaim
      <3>2. CASE r # p
        BY <2>5, <3>1, <3>2 DEF WarmClaim
      <3>3. CASE r = p
        <4>1. PICK e \in Range(warm[p]) : e = [t |-> u, info |-> i] /\ e.t = u /\ e.info = i
          BY <3>1, <3>3
        <4>2. e.t = t => e.info = WarmInfo(p, t)
          BY <1>0, <4>1, WarmFacts
        <4> QED BY <2>2, <2>4, <2>5, <2>7, <4>1, <4>2 DEF WarmClaim
      <3> QED BY <3>2, <3>3
    <2>8. /\ acq' \in [Slots -> Acq] /\ SlotsSound'
          /\ \A u, i : SlotClaim(u, i) => SlotClaim(u, i)'
      BY <1>0, <2>3, ReadySound, SlotChanges DEF Holds, Stopping
    <2>9. /\ active' \in [Providers -> [Threads -> Info]]
          /\ idle' \in [Providers -> SUBSET Threads] /\ abandoned' \subseteq Threads \X Nat
          /\ \A u \in Threads : Covered(u)'
      BY <1>0, <2>3, <2>7, <2>8, RegisterCovers
    <2>10. fileLock' \in [Threads -> SUBSET Providers]
      BY <1>0, <2>3, UnlockType
    <2>11. SandboxTypeOK'
      BY <1>0, <2>5, <2>8, <2>9, <2>10 DEF SandboxTypeOK
    <2> QED BY <2>6, <2>8, <2>9, <2>11 DEF SandboxInv
  <1>2. CASE ~IsWarm(s[1], s[2])
    <2>1. /\ UNCHANGED <<active, warm, idle, fileLock, abandoned>>
          /\ Goto(s, BeyondCaches(s)) /\ BeyondCaches(s) \in {"lock", "discover"}
      BY <1>2 DEF WarmEnd, BeyondCaches
    <2>2. \E a : Sound(s, a) /\ acq' = [acq EXCEPT ![s] = a]
      BY <1>0, <2>1, GotoSound
    <2>3. /\ idle' \in [Providers -> SUBSET Threads]
          /\ fileLock' \in [Threads -> SUBSET Providers]
      BY <1>0, <2>1 DEF SandboxTypeOK
    <2> QED BY <1>0, <2>1, <2>2, <2>3, QuietSandbox DEF Stopping
  <1> QED BY <1>1, <1>2

\* A container that runs is registered, or there is none.
LEMMA DiscoverInv ==
    ASSUME SandboxInv, NEW s \in Slots, NEW answers \in BOOLEAN, Discover(s, answers)
    PROVE  SandboxInv'
  <1>0. /\ SandboxTypeOK /\ SlotsSound /\ WarmOnce /\ s[1] \in Providers /\ s[2] \in Threads
        /\ acq[s].pc = "discover" /\ UNCHANGED <<running, warm, reaper, faults>>
        /\ infos \in [Threads -> Nat]
    BY SlotFields DEF SandboxInv, Discover, SandboxTypeOK
  <1>1. CASE running[s[2]] # 0 /\ answers
    <2>1. PICK p \in Providers, t \in Threads : p = s[1] /\ t = s[2]
      BY <1>0
    <2>2. PICK n \in Nat : n = infos[t] + 1
      BY <1>0
    <2>3. PICK info \in Info : info = NewInfo(t, 0)
      BY <2>2 DEF Info, NewInfo
    <2>4. /\ infos' = [infos EXCEPT ![t] = n] /\ Register(p, t, info)
          /\ acq' = [acq EXCEPT ![s] = Ready(s)] /\ Unlock(s)
      BY <1>0, <1>1, <2>1, <2>2, <2>3 DEF Discover, Done
    <2>5. infos' \in [Threads -> Nat]
      BY <1>0, <2>4
    <2>6. /\ acq' \in [Slots -> Acq] /\ SlotsSound'
          /\ \A u, i : SlotClaim(u, i) => SlotClaim(u, i)'
      BY <1>0, <2>4, ReadySound, SlotChanges DEF Holds, Stopping
    <2>7. \A u, i : WarmClaim(u, i) => WarmClaim(u, i)'
      BY <1>0 DEF WarmClaim
    <2>8. /\ active' \in [Providers -> [Threads -> Info]]
          /\ idle' \in [Providers -> SUBSET Threads] /\ abandoned' \subseteq Threads \X Nat
          /\ \A u \in Threads : Covered(u)'
      BY <1>0, <2>4, <2>6, <2>7, RegisterCovers
    <2>9. fileLock' \in [Threads -> SUBSET Providers]
      BY <1>0, <2>4, UnlockType
    <2>10. SandboxTypeOK' /\ WarmOnce'
      BY <1>0, <2>5, <2>6, <2>8, <2>9 DEF SandboxTypeOK, WarmOnce
    <2> QED BY <2>6, <2>8, <2>10 DEF SandboxInv
  <1>2. CASE ~(running[s[2]] # 0 /\ answers)
    <2>1. UNCHANGED <<infos, active, idle, fileLock, abandoned>> /\ Goto(s, "count")
      BY <1>2 DEF Discover
    <2>2. \E a : Sound(s, a) /\ acq' = [acq EXCEPT ![s] = a]
      BY <1>0, <2>1, GotoSound
    <2>3. /\ idle' \in [Providers -> SUBSET Threads]
          /\ fileLock' \in [Threads -> SUBSET Providers]
      BY <1>0, <2>1 DEF SandboxTypeOK
    <2> QED BY <1>0, <2>1, <2>2, <2>3, QuietSandbox DEF Stopping
  <1> QED BY <1>1, <1>2

\* The oldest warm entry is taken out of the pool by the slot that will stop it.
LEMMA CountInv ==
    ASSUME SandboxInv, NEW s \in Slots, Count(s)
    PROVE  SandboxInv'
  <1>0. /\ SandboxTypeOK /\ SlotsSound /\ WarmOnce /\ s[1] \in Providers /\ s[2] \in Threads
        /\ acq[s].pc = "count" /\ acq[s] \in Acq
        /\ UNCHANGED <<running, infos, active, idle, fileLock, reaper, faults, abandoned>>
    BY SlotFields DEF SandboxInv, Count, SandboxTypeOK
  <1>1. CASE Goto(s, "start") /\ UNCHANGED warm
    <2>1. \E a : Sound(s, a) /\ acq' = [acq EXCEPT ![s] = a]
      BY <1>0, <1>1, GotoSound
    <2>2. /\ idle' \in [Providers -> SUBSET Threads]
          /\ fileLock' \in [Threads -> SUBSET Providers]
      BY <1>0 DEF SandboxTypeOK
    <2> QED BY <1>0, <1>1, <2>1, <2>2, QuietSandbox DEF Stopping
  <1>2. CASE /\ warm[s[1]] # <<>> /\ warm' = [warm EXCEPT ![s[1]] = Tail(@)]
             /\ acq' = [acq EXCEPT ![s].pc = "evict", ![s].info = warm[s[1]][1].info,
                                   ![s].thread = warm[s[1]][1].t]
    <2>1. PICK p \in Providers : p = s[1]
      BY <1>0
    <2>2. PICK q \in Seq(WarmEntry) : q = warm[p] /\ q # <<>>
      BY <1>0, <1>2, <2>1 DEF SandboxTypeOK
    <2>3. PICK tl \in Seq(WarmEntry) : tl = Tail(q)
      BY <2>2, RangeTail
    <2>4. PICK e \in WarmEntry : e = q[1] /\ Range(q) = Range(tl) \cup {e}
      BY <2>2, <2>3, RangeTail
    <2>5. /\ e.t \in Threads /\ e.info \in Info
          /\ \A t, i : [t |-> t, info |-> i] = e => t = e.t /\ i = e.info
      BY DEF WarmEntry
    <2>6. PICK a : a = [acq[s] EXCEPT !.pc = "evict", !.info = e.info, !.thread = e.t]
      OBVIOUS
    <2>7. /\ acq' = [acq EXCEPT ![s] = a] /\ Sound(s, a)
          /\ a.pc = "evict" /\ a.info = e.info /\ a.thread = e.t
      BY <1>0, <1>2, <2>1, <2>2, <2>4, <2>5, <2>6 DEF SandboxTypeOK, Sound, Acq
    <2>8. /\ acq' \in [Slots -> Acq] /\ SlotsSound' /\ acq'[s] = a
          /\ \A t, i : SlotClaim(t, i) => SlotClaim(t, i)'
      BY <1>0, <2>7, SlotChanges DEF Holds, Stopping
    <2>9. /\ warm' \in [Providers -> Seq(WarmEntry)] /\ warm'[p] = tl
          /\ \A r \in Providers \ {p} : warm'[r] = warm[r]
      BY <1>0, <1>2, <2>1, <2>2, <2>3 DEF SandboxTypeOK
    <2>10. WarmOnce'
      <3>1. ASSUME NEW i \in DOMAIN tl, NEW j \in DOMAIN tl, tl[i].t = tl[j].t PROVE i = j
        <4>1. /\ DOMAIN tl = 1..Len(tl) /\ Len(tl) = Len(q) - 1 /\ Len(q) \in Nat
              /\ DOMAIN q = 1..Len(q)
          BY <2>2, <2>3, RangeTail
        <4>2. tl[i] = q[i + 1] /\ tl[j] = q[j + 1]
          BY <2>2, <2>3, <4>1, RangeTail
        <4>3. i + 1 \in DOMAIN q /\ j + 1 \in DOMAIN q
          BY <4>1
        <4>4. i + 1 = j + 1
          BY <1>0, <2>2, <3>1, <4>2, <4>3 DEF WarmOnce
        <4> QED BY <4>1, <4>4
      <3> QED BY <1>0, <2>9, <3>1 DEF WarmOnce
    <2>11. ASSUME NEW u, NEW i, WarmClaim(u, i) PROVE WarmClaim(u, i)' \/ SlotClaim(u, i)'
      <3>1. PICK r \in Providers : [t |-> u, info |-> i] \in Range(warm[r])
        BY <2>11 DEF WarmClaim
      <3>2. CASE [t |-> u, info |-> i] = e
        BY <2>5, <2>7, <2>8, <3>2 DEF SlotClaim, Holds, Stopping
      <3>3. CASE [t |-> u, info |-> i] # e
        <4>1. [t |-> u, info |-> i] \in Range(warm'[r])
          BY <2>2, <2>4, <2>9, <3>1, <3>3
        <4> QED BY <4>1 DEF WarmClaim
      <3> QED BY <3>2, <3>3
    <2>12. ASSUME NEW u \in Threads PROVE Covered(u)'
      <3>1. Covered(u)
        BY DEF SandboxInv
      <3>2. \A i : Claim(u, i) => Claim(u, i)'
        BY <1>0, <2>8, <2>11 DEF Claim, ActiveClaim, StopClaim
      <3> QED BY <1>0, <3>1, <3>2 DEF Covered, Reaches
    <2>13. SandboxTypeOK'
      BY <1>0, <2>8, <2>9 DEF SandboxTypeOK
    <2> QED BY <2>8, <2>10, <2>12, <2>13 DEF SandboxInv
  <1> QED BY <1>1, <1>2 DEF Count

\* A container is started: the call has its info, or it is given up at once.
LEMMA StartInv ==
    ASSUME SandboxInv, NEW s \in Slots, Start(s)
    PROVE  SandboxInv'
  <1>0. /\ SandboxTypeOK /\ SlotsSound /\ WarmOnce /\ s[2] \in Threads
        /\ acq[s].pc = "start" /\ acq[s] \in Acq
        /\ UNCHANGED <<active, warm, idle, reaper, faults>>
        /\ infos \in [Threads -> Nat] /\ running \in [Threads -> Nat]
        /\ abandoned \subseteq Threads \X Nat
    BY SlotFields DEF SandboxInv, Start, SandboxTypeOK
  <1>1. PICK t \in Threads : t = s[2]
    BY <1>0
  <1>2. PICK id \in Nat \ {0} : id = infos[t] + 1
    BY <1>0
  <1>3. /\ infos' = [infos EXCEPT ![t] = id]
        /\ running' = [running EXCEPT ![t] = IF running[t] = 0 THEN id ELSE running[t]]
    BY <1>0, <1>1, <1>2 DEF Start
  <1>4. PICK up \in Nat : up = IF running[t] = 0 THEN id ELSE running[t]
    BY <1>0
  <1>5. /\ infos' \in [Threads -> Nat] /\ running' \in [Threads -> Nat] /\ running'[t] = up
        /\ \A u \in Threads \ {t} : running'[u] = running[u]
    BY <1>0, <1>3, <1>4
  <1>6. PICK info \in Info :
          /\ info = [obj |-> id, id |-> IF running[t] = 0 THEN id ELSE 0]
          /\ info # NoInfo /\ info.id \in {0, up}
    <2>1. PICK n \in Nat : n = IF running[t] = 0 THEN id ELSE 0
      OBVIOUS
    <2>2. [obj |-> id, id |-> n] \in Info /\ [obj |-> id, id |-> n] # NoInfo /\ n \in {0, up}
      BY <1>4, <2>1 DEF Info, NoInfo
    <2> QED BY <2>1, <2>2
  <1>7. CASE s[3] \in Ghosts
    <2>1. /\ acq' = [acq EXCEPT ![s] = Ready(s)] /\ Unlock(s)
          /\ abandoned' = abandoned \cup {<<t, up>>}
      BY <1>1, <1>5, <1>7 DEF Start, Done
    <2>2. /\ acq' \in [Slots -> Acq] /\ SlotsSound'
          /\ \A u, i : SlotClaim(u, i) => SlotClaim(u, i)'
      BY <1>0, <2>1, ReadySound, SlotChanges DEF Holds, Stopping
    <2>3. fileLock' \in [Threads -> SUBSET Providers]
      BY <1>0, <2>1, UnlockType
    <2>4. ASSUME NEW u \in Threads PROVE Covered(u)'
      <3>1. CASE u = t
        BY <1>5, <2>1, <3>1 DEF Covered
      <3>2. CASE u # t
        <4>1. Covered(u) /\ \A i : Claim(u, i) => Claim(u, i)'
          BY <1>0, <2>2 DEF SandboxInv, Claim, ActiveClaim, WarmClaim, StopClaim
        <4>2. running'[u] = running[u]
          BY <1>5, <3>2
        <4> QED BY <2>1, <4>1, <4>2 DEF Covered, Reaches
      <3> QED BY <3>1, <3>2
    <2>5. abandoned' \subseteq Threads \X Nat
      BY <1>0, <2>1
    <2>6. SandboxTypeOK' /\ WarmOnce'
      BY <1>0, <1>5, <2>2, <2>3, <2>5 DEF SandboxTypeOK, WarmOnce
    <2> QED BY <2>2, <2>4, <2>6 DEF SandboxInv
  <1>8. CASE s[3] \notin Ghosts
    <2>1. PICK a : a = [acq[s] EXCEPT !.pc = "ready", !.info = info]
      OBVIOUS
    <2>2. /\ acq' = [acq EXCEPT ![s] = a] /\ Sound(s, a) /\ a.pc = "ready" /\ a.info = info
          /\ UNCHANGED <<fileLock, abandoned>>
      <3>1. NewInfo(t, IF running[t] = 0 THEN id ELSE 0) = info
        BY <1>2, <1>6 DEF NewInfo
      <3>2. /\ acq' = [acq EXCEPT ![s].pc = "ready", ![s].info = info]
            /\ UNCHANGED <<fileLock, abandoned>>
        BY <1>1, <1>2, <1>8, <3>1 DEF Start
      <3> QED BY <1>0, <2>1, <3>2 DEF SandboxTypeOK, Sound, Acq
    <2>3. /\ acq' \in [Slots -> Acq] /\ SlotsSound' /\ acq'[s] = a
          /\ \A u, i : SlotClaim(u, i) => SlotClaim(u, i)'
      BY <1>0, <2>2, SlotChanges DEF Holds, Stopping
    <2>4. ASSUME NEW u \in Threads PROVE Covered(u)'
      <3>1. CASE u = t
        <4>1. SlotClaim(t, info)'
          BY <1>1, <2>2, <2>3 DEF SlotClaim, Holds
        <4>2. Reaches(t, info)'
          BY <1>5, <1>6 DEF Reaches
        <4> QED BY <3>1, <4>1, <4>2 DEF Covered, Claim
      <3>2. CASE u # t
        <4>1. Covered(u) /\ \A i : Claim(u, i) => Claim(u, i)'
          BY <1>0, <2>3 DEF SandboxInv, Claim, ActiveClaim, WarmClaim, StopClaim
        <4>2. running'[u] = running[u]
          BY <1>5, <3>2
        <4> QED BY <2>2, <4>1, <4>2 DEF Covered, Reaches
      <3> QED BY <3>1, <3>2
    <2>5. SandboxTypeOK' /\ WarmOnce'
      BY <1>0, <1>5, <2>2, <2>3 DEF SandboxTypeOK, WarmOnce
    <2> QED BY <2>3, <2>4, <2>5 DEF SandboxInv
  <1> QED BY <1>7, <1>8

\* The container answers: the call's info becomes the active entry.
LEMMA BecomesReadyInv ==
    ASSUME SandboxInv, NEW s \in Slots, BecomesReady(s)
    PROVE  SandboxInv'
  <1>0. /\ SandboxTypeOK /\ SlotsSound /\ WarmOnce /\ s[1] \in Providers /\ s[2] \in Threads
        /\ acq[s].pc = "ready" /\ acq[s].info \in Info
        /\ UNCHANGED <<running, infos, warm, reaper, faults>>
    BY SlotFields DEF SandboxInv, BecomesReady, SandboxTypeOK, Acq
  <1>1. PICK p \in Providers, t \in Threads, info \in Info :
          p = s[1] /\ t = s[2] /\ info = acq[s].info
    BY <1>0
  <1>2. Register(p, t, info) /\ acq' = [acq EXCEPT ![s] = Ready(s)] /\ Unlock(s)
    BY <1>1 DEF BecomesReady, Done
  <1>3. /\ acq' \in [Slots -> Acq] /\ SlotsSound'
        /\ \A u, i : SlotClaim(u, i) => SlotClaim(u, i)' \/ (u = t /\ i = info)
    BY <1>0, <1>1, <1>2, ReadySound, SlotChanges, ZenonT(40) DEF Holds, Stopping
  <1>4. \A u, i : WarmClaim(u, i) => WarmClaim(u, i)'
    BY <1>0 DEF WarmClaim
  <1>5. /\ active' \in [Providers -> [Threads -> Info]]
        /\ idle' \in [Providers -> SUBSET Threads] /\ abandoned' \subseteq Threads \X Nat
        /\ \A u \in Threads : Covered(u)'
    BY <1>0, <1>2, <1>3, <1>4, RegisterCovers
  <1>6. fileLock' \in [Threads -> SUBSET Providers]
    BY <1>0, <1>2, UnlockType
  <1>7. SandboxTypeOK' /\ WarmOnce'
    BY <1>0, <1>3, <1>5, <1>6 DEF SandboxTypeOK, WarmOnce
  <1> QED BY <1>3, <1>5, <1>7 DEF SandboxInv

\* A call is cancelled: a ghost goes on with what it had, or it is given up.
LEMMA CancelAcquireInv ==
    ASSUME SandboxInv, NEW p \in Providers, NEW t \in Threads, NEW ghost \in Ghosts,
           CancelAcquire(p, t, ghost)
    PROVE  SandboxInv'
  <1>0. /\ SandboxTypeOK /\ SlotsSound /\ WarmOnce /\ faults \in 0..MaxFaults /\ MaxFaults \in Nat
        /\ UNCHANGED <<running, infos, active, warm, idle, reaper>>
        /\ running \in [Threads -> Nat] /\ abandoned \subseteq Threads \X Nat
        /\ acq \in [Slots -> Acq]
    BY SandboxAssumption DEF SandboxInv, CancelAcquire, SandboxTypeOK
  <1>1. PICK s \in Slots : s = <<p, t, "call">>
    BY DEF Slots
  <1>2. PICK g \in Slots : g = <<p, t, ghost>>
    BY DEF Slots
  <1>3. s # g /\ s[2] = t /\ g[2] = t
    BY <1>1, <1>2, SandboxAssumption
  <1>4. /\ acq[s].pc # "none" /\ acq[g].pc = "none" /\ Fault /\ Unlock(s)
        /\ abandoned' = IF acq[s].pc = "ready" THEN GivenUp(t) ELSE abandoned
    BY <1>1, <1>2 DEF CancelAcquire
  <1>5. PICK b \in {acq[g], [acq[s] EXCEPT !.locked = FALSE]} :
          /\ acq' = [acq EXCEPT ![s] = Ready(s), ![g] = b]
          /\ acq[s].pc \in Stopping => b = [acq[s] EXCEPT !.locked = FALSE]
    BY <1>1, <1>2 DEF CancelAcquire, Stopping
  <1>6. acq[s] \in Acq /\ Sound(s, acq[s]) /\ Sound(g, acq[g])
    BY <1>0 DEF SlotsSound
  <1>7. Sound(g, b)
    BY <1>3, <1>5, <1>6 DEF Sound, Acq
  <1>8. /\ acq' \in [Slots -> Acq] /\ acq'[s] = Ready(s) /\ acq'[g] = b
        /\ \A u \in Slots \ {s, g} : acq'[u] = acq[u]
    <2>1. Ready(s) \in Acq /\ b \in Acq
      BY <1>7, ReadySound DEF Sound
    <2> QED BY <1>0, <1>3, <1>5, <2>1
  <1>9. SlotsSound'
    <2>1. Sound(s, Ready(s))
      BY ReadySound
    <2> QED BY <1>0, <1>7, <1>8, <2>1 DEF SlotsSound, Sound
  <1>10. ASSUME NEW u, NEW i, SlotClaim(u, i), ~(u = t /\ acq[s].pc = "ready")
         PROVE  SlotClaim(u, i)'
    <2>1. PICK r \in Slots : Holds(r, u) /\ acq[r].info = i
      BY <1>10 DEF SlotClaim
    <2>2. CASE r = s
      <3>1. acq[s].pc \in Stopping /\ acq[s].thread = u
        BY <1>3, <1>10, <2>1, <2>2 DEF Holds
      <3>2. b.pc = acq[s].pc /\ b.thread = acq[s].thread /\ b.info = acq[s].info
        BY <1>5, <1>6, <3>1 DEF Acq
      <3> QED BY <1>8, <2>1, <2>2, <3>1, <3>2 DEF SlotClaim, Holds
    <2>3. r # g
      BY <1>4, <2>1 DEF Holds, Stopping
    <2>4. CASE r # s
      <3>1. acq'[r] = acq[r]
        BY <1>8, <2>3, <2>4
      <3> QED BY <2>1, <3>1 DEF SlotClaim, Holds
    <2> QED BY <2>2, <2>4
  <1>11. abandoned' \subseteq Threads \X Nat /\ abandoned \subseteq abandoned'
    BY <1>0, <1>4 DEF GivenUp
  <1>12. ASSUME NEW u \in Threads, running[u] # 0 PROVE Covered(u)'
    <2>1. CASE u = t /\ acq[s].pc = "ready"
      BY <1>0, <1>4, <1>12, <2>1 DEF Covered, GivenUp
    <2>2. CASE ~(u = t /\ acq[s].pc = "ready")
      <3>1. Covered(u)
        BY DEF SandboxInv
      <3>2. \A i : Claim(u, i) => Claim(u, i)'
        BY <1>0, <1>10, <2>2 DEF Claim, ActiveClaim, WarmClaim, StopClaim
      <3> QED BY <1>0, <1>11, <3>1, <3>2 DEF Covered, Reaches
    <2> QED BY <2>1, <2>2
  <1>13. fileLock' \in [Threads -> SUBSET Providers]
    BY <1>0, <1>4, UnlockType
  <1>14. faults' \in 0..MaxFaults
    BY <1>0, <1>4 DEF Fault
  <1>15. SandboxTypeOK' /\ WarmOnce'
    BY <1>0, <1>8, <1>11, <1>13, <1>14 DEF SandboxTypeOK, WarmOnce
  <1>16. \A u \in Threads : Covered(u)'
    BY <1>0, <1>12 DEF Covered
  <1> QED BY <1>9, <1>15, <1>16 DEF SandboxInv

\* Time passes, a sandbox is used or found idle.
LEMMA UseInv ==
    ASSUME SandboxInv, NEW p \in Providers, NEW t \in Threads, NEW stale \in BOOLEAN,
           Use(p, t, stale) \/ FindIdle(p, t)
    PROVE  SandboxInv'
  <1>0. /\ SandboxTypeOK /\ SlotsSound /\ WarmOnce
        /\ UNCHANGED <<running, infos, active, warm, fileLock, acq, faults, abandoned>>
    BY DEF SandboxInv, Use, FindIdle
  <1>1. idle' \in [Providers -> SUBSET Threads]
    <2>1. PICK I \in SUBSET Threads : idle' = idle \/ idle' = [idle EXCEPT ![p] = I]
      BY <1>0, ZenonT(40) DEF Use, FindIdle, SandboxTypeOK
    <2> QED BY <1>0, <2>1 DEF SandboxTypeOK
  <1>2. /\ reaper' \in [Providers -> [doomed : SUBSET Threads, stops : Seq(WarmEntry),
                                      down : BOOLEAN]]
        /\ \A r \in Providers : reaper'[r].stops = reaper[r].stops
    <2>1. reaper' = reaper \/ reaper' = [reaper EXCEPT ![p].doomed = {t}]
      BY DEF Use, FindIdle
    <2>2. PICK D \in SUBSET Threads : D = {t}
      OBVIOUS
    <2>3. reaper \in [Providers -> [doomed : SUBSET Threads, stops : Seq(WarmEntry),
                                    down : BOOLEAN]]
      BY <1>0 DEF SandboxTypeOK
    <2>4. CASE reaper' = reaper
      BY <2>3, <2>4
    <2>5. CASE reaper' = [reaper EXCEPT ![p].doomed = D]
      BY <2>3, <2>5
    <2> QED BY <2>1, <2>2, <2>4, <2>5
  <1>3. SandboxTypeOK' /\ WarmOnce' /\ SlotsSound'
    BY <1>0, <1>1, <1>2 DEF SandboxTypeOK, WarmOnce, SlotsSound, Sound
  <1>4. ASSUME NEW u \in Threads PROVE Covered(u)'
    <2>1. Covered(u)
      BY DEF SandboxInv
    <2>2. \A i : Claim(u, i) => Claim(u, i)'
      BY <1>0, <1>2 DEF Claim, ActiveClaim, WarmClaim, StopClaim, SlotClaim, Holds
    <2> QED BY <1>0, <2>1, <2>2 DEF Covered, Reaches
  <1> QED BY <1>3, <1>4 DEF SandboxInv

\* An active entry becomes warm; if the thread is warm already, it is given up
\* when it was the one that led to the container.
LEMMA ReleaseInv ==
    ASSUME SandboxInv, NEW p \in Providers, NEW t \in Threads, Release(p, t)
    PROVE  SandboxInv'
  <1>0. /\ SandboxTypeOK /\ SlotsSound /\ WarmOnce
        /\ active \in [Providers -> [Threads -> Info]] /\ running \in [Threads -> Nat]
        /\ warm \in [Providers -> Seq(WarmEntry)] /\ abandoned \subseteq Threads \X Nat
        /\ UNCHANGED <<running, infos, fileLock, acq, reaper, faults>> /\ NoInfo \in Info
    BY DEF SandboxInv, Release, SandboxTypeOK, NoInfo, Info
  <1>1. PICK info \in Info : info = active[p][t]
    BY <1>0
  <1>2. /\ active' = [active EXCEPT ![p][t] = NoInfo]
        /\ idle' \in [Providers -> SUBSET Threads]
    BY <1>0, UsedType DEF Release
  <1>3. active' \in [Providers -> [Threads -> Info]]
    BY <1>0, <1>2
  <1>4. ASSUME NEW u, NEW i, ActiveClaim(u, i), ~(u = t /\ i = info) PROVE ActiveClaim(u, i)'
    <2>1. PICK r \in Providers : active[r][u] = i
      BY <1>4 DEF ActiveClaim
    <2>2. active'[r][u] = i
      BY <1>0, <1>1, <1>2, <1>4, <2>1
    <2> QED BY <2>2 DEF ActiveClaim
  <1>5. \A u, i : (StopClaim(u, i) => StopClaim(u, i)') /\ (SlotClaim(u, i) => SlotClaim(u, i)')
    BY <1>0 DEF StopClaim, SlotClaim, Holds
  <1>6. CASE IsWarm(p, t)
    <2>1. warm' = warm /\ abandoned' = Dropped(t, info, WarmInfo(p, t))
      BY <1>1, <1>6 DEF Release
    <2>2. /\ abandoned' \subseteq Threads \X Nat /\ abandoned \subseteq abandoned'
          /\ Reaches(t, info) /\ ~Reaches(t, WarmInfo(p, t)) /\ running[t] # 0 =>
               <<t, running[t]>> \in abandoned'
      BY <1>0, <2>1 DEF Dropped, GivenUp
    <2>3. \A u, i : WarmClaim(u, i) => WarmClaim(u, i)'
      BY <2>1 DEF WarmClaim
    <2>4. WarmClaim(t, WarmInfo(p, t)) /\ WarmInfo(p, t) \in Info
      BY <1>0, <1>6, WarmFacts DEF WarmClaim
    <2>5. ASSUME NEW u \in Threads, running[u] # 0 PROVE Covered(u)'
      <3>1. CASE <<u, running[u]>> \in abandoned
        BY <1>0, <2>2, <3>1 DEF Covered
      <3>2. CASE \E i \in Info : Claim(u, i) /\ Reaches(u, i)
        <4>1. PICK i \in Info : Claim(u, i) /\ Reaches(u, i)
          BY <3>2
        <4>2. Claim(u, i)' \/ (u = t /\ i = info)
          BY <1>4, <1>5, <2>3, <4>1 DEF Claim
        <4>3. CASE Claim(u, i)'
          BY <1>0, <4>1, <4>3 DEF Covered, Reaches
        <4>4. CASE u = t /\ i = info
          <5>1. CASE Reaches(t, WarmInfo(p, t))
            <6>1. PICK j \in Info : j = WarmInfo(p, t) /\ WarmClaim(t, j)' /\ Reaches(t, j)
              BY <2>3, <2>4, <5>1
            <6>2. Reaches(t, j)'
              BY <1>0, <6>1 DEF Reaches
            <6> QED BY <4>4, <6>1, <6>2 DEF Covered, Claim
          <5>2. CASE ~Reaches(t, WarmInfo(p, t))
            BY <1>0, <2>2, <2>5, <4>1, <4>4, <5>2 DEF Covered
          <5> QED BY <5>1, <5>2
        <4> QED BY <4>2, <4>3, <4>4
      <3>3. Covered(u)
        BY DEF SandboxInv
      <3> QED BY <2>5, <3>1, <3>2, <3>3 DEF Covered
    <2>6. \A u \in Threads : Covered(u)'
      BY <1>0, <2>5 DEF Covered
    <2>7. SandboxTypeOK' /\ WarmOnce' /\ SlotsSound'
      BY <1>0, <1>2, <1>3, <2>1, <2>2 DEF SandboxTypeOK, WarmOnce, SlotsSound, Sound
    <2> QED BY <2>6, <2>7 DEF SandboxInv
  <1>7. CASE ~IsWarm(p, t)
    <2>1. PICK e \in WarmEntry : e = [t |-> t, info |-> info]
      BY DEF WarmEntry
    <2>2. warm' = [warm EXCEPT ![p] = Append(warm[p], e)] /\ abandoned' = abandoned
      BY <1>0, <1>1, <1>7, <2>1 DEF Release
    <2>3. PICK q \in Seq(WarmEntry) : q = warm[p]
      BY <1>0
    <2>4. PICK w \in Seq(WarmEntry) : w = Append(q, e)
      BY AppendProperties
    <2>5. /\ Range(w) = Range(q) \cup {e} /\ DOMAIN w = 1..(Len(q) + 1) /\ Len(q) \in Nat
          /\ w[Len(q) + 1] = e /\ \A k \in 1..Len(q) : w[k] = q[k]
      BY <2>4, RangeAppend, AppendProperties
    <2>6. /\ warm' \in [Providers -> Seq(WarmEntry)] /\ warm'[p] = w
          /\ \A r \in Providers \ {p} : warm'[r] = warm[r]
      BY <1>0, <2>2, <2>3, <2>4
    <2>7. WarmOnce'
      <3>1. DOMAIN q = 1..Len(q) /\ \A k \in 1..Len(q) : q[k].t # t
        BY <1>7, <2>3 DEF IsWarm
      <3>2. e.t = t
        BY <2>1
      <3>3. ASSUME NEW j \in DOMAIN w, NEW k \in DOMAIN w, w[j].t = w[k].t PROVE j = k
        <4>1. CASE j \in 1..Len(q) /\ k \in 1..Len(q)
          BY <1>0, <2>3, <2>5, <3>1, <3>3, <4>1, SMTT(30) DEF WarmOnce
        <4>2. CASE j = Len(q) + 1 \/ k = Len(q) + 1
          BY <2>5, <3>1, <3>2, <3>3, <4>2
        <4> QED BY <2>5, <4>1, <4>2
      <3> QED BY <1>0, <2>6, <3>3 DEF WarmOnce
    <2>8. ASSUME NEW u, NEW i, WarmClaim(u, i) PROVE WarmClaim(u, i)'
      <3>1. PICK r \in Providers : [t |-> u, info |-> i] \in Range(warm[r])
        BY <2>8 DEF WarmClaim
      <3>2. [t |-> u, info |-> i] \in Range(warm'[r])
        BY <2>3, <2>5, <2>6, <3>1
      <3> QED BY <3>2 DEF WarmClaim
    <2>9. WarmClaim(t, info)'
      BY <2>1, <2>5, <2>6 DEF WarmClaim
    <2>10. ASSUME NEW u \in Threads PROVE Covered(u)'
      <3>1. Covered(u)
        BY DEF SandboxInv
      <3>2. \A i : Claim(u, i) => Claim(u, i)'
        BY <1>4, <1>5, <2>8, <2>9 DEF Claim
      <3> QED BY <1>0, <2>2, <3>1, <3>2 DEF Covered, Reaches
    <2>11. SandboxTypeOK' /\ SlotsSound'
      BY <1>0, <1>2, <1>3, <2>2, <2>6 DEF SandboxTypeOK, SlotsSound, Sound
    <2> QED BY <2>7, <2>10, <2>11 DEF SandboxInv
  <1> QED BY <1>6, <1>7

\* What destroy removes the reaper stops, or it is given up.
LEMMA DestroyIdleInv ==
    ASSUME SandboxInv, NEW p \in Providers, NEW t \in Threads, DestroyIdle(p, t)
    PROVE  SandboxInv'
  <1>0. /\ SandboxTypeOK /\ SlotsSound /\ WarmOnce /\ RemoveTracked(p, t)
        /\ running \in [Threads -> Nat] /\ abandoned \subseteq Threads \X Nat
        /\ UNCHANGED <<running, infos, fileLock, acq, faults>>
        /\ abandoned' = IF active[p][t] = NoInfo THEN abandoned
                        ELSE Dropped(t, WarmInfo(p, t), active[p][t])
    BY DEF SandboxInv, DestroyIdle, SandboxTypeOK
  <1>1. /\ active' \in [Providers -> [Threads -> Info]]
        /\ warm' \in [Providers -> Seq(WarmEntry)]
        /\ idle' \in [Providers -> SUBSET Threads] /\ WarmOnce'
        /\ \A u, i : ActiveClaim(u, i) => ActiveClaim(u, i)' \/ (u = t /\ i = active[p][t])
        /\ \A u, i : WarmClaim(u, i) => WarmClaim(u, i)' \/ (u = t /\ i = WarmInfo(p, t))
    BY <1>0, RemoveTrackedFacts
  <1>2. PICK info \in Info : info = TrackedInfo(p, t)
    BY <1>0, TrackedTypes
  <1>3. PICK e \in WarmEntry : e = [t |-> t, info |-> info]
    BY DEF WarmEntry
  <1>4. PICK q \in Seq(WarmEntry) : q = reaper[p].stops
    BY <1>0 DEF SandboxTypeOK
  <1>5. PICK one \in Seq(WarmEntry) : one = <<e>> /\ Range(one) = {e}
    <2>1. <<e>> \in Seq(WarmEntry) /\ DOMAIN <<e>> = {1} /\ <<e>>[1] = e
      OBVIOUS
    <2> QED BY <2>1 DEF Range
  <1>6. PICK w \in Seq(WarmEntry) :
          /\ w = IF info = NoInfo THEN q ELSE one \o q
          /\ Range(q) \subseteq Range(w) /\ (info # NoInfo => e \in Range(w))
    <2>1. one \o q \in Seq(WarmEntry) /\ Range(one \o q) = Range(one) \cup Range(q)
      BY RangeConcat
    <2> QED BY <1>5, <2>1
  <1>7. PICK D \in SUBSET Threads : reaper' = [reaper EXCEPT ![p].doomed = D, ![p].stops = w]
    <2>1. reaper' = [reaper EXCEPT ![p].doomed = reaper[p].doomed \ {t}, ![p].stops = w]
      BY <1>0, <1>2, <1>3, <1>4, <1>5, <1>6 DEF DestroyIdle, SandboxTypeOK
    <2>2. reaper[p].doomed \ {t} \in SUBSET Threads
      BY <1>0 DEF SandboxTypeOK
    <2> QED BY <2>1, <2>2
  <1>8. /\ reaper' \in [Providers -> [doomed : SUBSET Threads, stops : Seq(WarmEntry),
                                      down : BOOLEAN]]
        /\ reaper'[p].stops = w /\ \A r \in Providers \ {p} : reaper'[r] = reaper[r]
    BY <1>0, <1>7, ZenonT(40) DEF SandboxTypeOK
  <1>9. ASSUME NEW u, NEW i, StopClaim(u, i) PROVE StopClaim(u, i)'
    <2>1. PICK r \in Providers : [t |-> u, info |-> i] \in Range(reaper[r].stops)
      BY <1>9 DEF StopClaim
    <2>2. [t |-> u, info |-> i] \in Range(reaper'[r].stops)
      BY <1>4, <1>6, <1>8, <2>1
    <2> QED BY <2>2 DEF StopClaim
  <1>10. info # NoInfo => StopClaim(t, info)'
    BY <1>3, <1>6, <1>8 DEF StopClaim
  <1>11. \A u, i : SlotClaim(u, i) => SlotClaim(u, i)'
    BY <1>0 DEF SlotClaim, Holds
  <1>12. /\ abandoned' \subseteq Threads \X Nat /\ abandoned \subseteq abandoned'
         /\ /\ active[p][t] # NoInfo /\ running[t] # 0
            /\ Reaches(t, WarmInfo(p, t)) /\ ~Reaches(t, active[p][t])
            => <<t, running[t]>> \in abandoned'
    BY <1>0 DEF Dropped, GivenUp
  <1>13. /\ active[p][t] # NoInfo => info = active[p][t]
         /\ active[p][t] = NoInfo => info = WarmInfo(p, t)
    BY <1>2 DEF TrackedInfo
  <1>14. ASSUME NEW u \in Threads, running[u] # 0 PROVE Covered(u)'
    <2>1. CASE <<u, running[u]>> \in abandoned
      BY <1>0, <1>12, <2>1 DEF Covered
    <2>2. CASE \E i \in Info : Claim(u, i) /\ Reaches(u, i)
      <3>1. PICK i \in Info : Claim(u, i) /\ Reaches(u, i)
        BY <2>2
      <3>2. Claim(u, i)' \/ (u = t /\ i \in {active[p][t], WarmInfo(p, t)})
        BY <1>1, <1>9, <1>11, <3>1 DEF Claim
      <3>3. CASE Claim(u, i)'
        BY <1>0, <3>1, <3>3 DEF Covered, Reaches
      <3>4. CASE u = t /\ Reaches(t, info)
        <4>1. StopClaim(t, info)' /\ Reaches(t, info)'
          BY <1>0, <1>10, <3>4 DEF Reaches
        <4> QED BY <3>4, <4>1 DEF Covered, Claim
      <3>5. CASE u = t /\ ~Reaches(t, info) /\ i \in {active[p][t], WarmInfo(p, t)}
        <4>1. i # NoInfo
          BY <3>1 DEF Reaches
        <4>2. active[p][t] # NoInfo /\ i = WarmInfo(p, t) /\ ~Reaches(t, active[p][t])
          BY <1>13, <3>1, <3>5, <4>1
        <4>3. <<t, running[t]>> \in abandoned'
          BY <1>12, <1>14, <3>1, <3>5, <4>2
        <4> QED BY <1>0, <3>5, <4>3 DEF Covered
      <3> QED BY <3>2, <3>3, <3>4, <3>5
    <2>3. Covered(u)
      BY DEF SandboxInv
    <2> QED BY <1>14, <2>1, <2>2, <2>3 DEF Covered
  <1>15. \A u \in Threads : Covered(u)'
    BY <1>0, <1>14 DEF Covered
  <1>16. SandboxTypeOK' /\ SlotsSound'
    BY <1>0, <1>1, <1>8, <1>12 DEF SandboxTypeOK, SlotsSound, Sound
  <1> QED BY <1>1, <1>15, <1>16 DEF SandboxInv

\* The oldest warm entries, or all of them, go to the reaper.
LEMMA ReapInv ==
    ASSUME SandboxInv, NEW p \in Providers,
           Shutdown(p) \/ \E n \in 1..Len(warm[p]) : Reap(p, n)
    PROVE  SandboxInv'
  <1>0. /\ SandboxTypeOK /\ SlotsSound /\ WarmOnce /\ Resting(p)
        /\ warm \in [Providers -> Seq(WarmEntry)]
        /\ reaper \in [Providers -> [doomed : SUBSET Threads, stops : Seq(WarmEntry),
                                     down : BOOLEAN]]
        /\ UNCHANGED <<running, infos, active, idle, fileLock, acq, faults, abandoned>>
    BY DEF SandboxInv, Shutdown, Reap, SandboxTypeOK
  <1>1. PICK q \in Seq(WarmEntry) : q = warm[p]
    BY <1>0
  <1>2. \A n \in 0..Len(q) :
          /\ SubSeq(q, n + 1, Len(q)) \in Seq(WarmEntry) /\ SubSeq(q, 1, n) \in Seq(WarmEntry)
          /\ DOMAIN SubSeq(q, n + 1, Len(q)) = 1..(Len(q) - n) /\ DOMAIN SubSeq(q, 1, n) = 1..n
          /\ \A k \in 1..(Len(q) - n) : SubSeq(q, n + 1, Len(q))[k] = q[k + n]
          /\ \A k \in 1..n : SubSeq(q, 1, n)[k] = q[k]
    OBVIOUS
  <1>3. PICK n \in 0..Len(q), R \in [doomed : SUBSET Threads, stops : Seq(WarmEntry),
                                     down : BOOLEAN] :
          /\ warm' = [warm EXCEPT ![p] = SubSeq(q, n + 1, Len(q))]
          /\ R.stops = SubSeq(q, 1, n) /\ reaper' = [reaper EXCEPT ![p] = R]
    <2>1. CASE Shutdown(p)
      <3>1. SubSeq(q, Len(q) + 1, Len(q)) = <<>> /\ SubSeq(q, 1, Len(q)) = q /\ Len(q) \in 0..Len(q)
        <4>1. Len(q) \in Nat
          OBVIOUS
        <4>2. SubSeq(q, Len(q) + 1, Len(q)) = <<>>
          BY <4>1, SubSeqProperties, EmptySeq
        <4>3. SubSeq(q, 1, Len(q)) = q
          OBVIOUS
        <4> QED BY <4>1, <4>2, <4>3
      <3>2. PICK D \in SUBSET Threads : D = ActiveThreads(p)
        BY DEF ActiveThreads
      <3>3. PICK R \in [doomed : SUBSET Threads, stops : Seq(WarmEntry), down : BOOLEAN] :
              R = [doomed |-> D, stops |-> q, down |-> TRUE] /\ R.stops = q
        <4>1. [doomed |-> D, stops |-> q, down |-> TRUE]
                \in [doomed : SUBSET Threads, stops : Seq(WarmEntry), down : BOOLEAN]
          OBVIOUS
        <4> QED BY <4>1, Zenon
      <3>4. warm' = [warm EXCEPT ![p] = <<>>] /\ reaper' = [reaper EXCEPT ![p] = R]
        BY <1>1, <2>1, <3>2, <3>3 DEF Shutdown
      <3> QED BY <3>1, <3>3, <3>4
    <2>2. CASE \E n \in 1..Len(warm[p]) : Reap(p, n)
      <3>1. PICK n \in 1..Len(q) : Reap(p, n)
        BY <1>1, <2>2
      <3>2. n \in 0..Len(q)
        OBVIOUS
      <3>3. PICK y \in Seq(WarmEntry) : y = SubSeq(q, 1, n)
        BY <1>2, <3>2
      <3>4. /\ warm' = [warm EXCEPT ![p] = SubSeq(q, n + 1, Len(q))]
            /\ reaper' = [reaper EXCEPT ![p].stops = y]
        BY <1>0, <1>1, <3>1, <3>3 DEF Reap
      <3>5. PICK R \in [doomed : SUBSET Threads, stops : Seq(WarmEntry), down : BOOLEAN] :
              R = [reaper[p] EXCEPT !.stops = y] /\ R.stops = y
        <4>1. reaper[p] \in [doomed : SUBSET Threads, stops : Seq(WarmEntry), down : BOOLEAN]
          BY <1>0
        <4>2. [reaper[p] EXCEPT !.stops = y]
                \in [doomed : SUBSET Threads, stops : Seq(WarmEntry), down : BOOLEAN]
          BY <4>1
        <4>3. [reaper[p] EXCEPT !.stops = y].stops = y
          BY <4>1
        <4> QED BY <4>2, <4>3
      <3>6. reaper' = [reaper EXCEPT ![p] = R]
        BY <1>0, <3>4, <3>5
      <3> QED BY <3>2, <3>3, <3>4, <3>5, <3>6
    <2> QED BY <2>1, <2>2
  <1>4. PICK x \in Seq(WarmEntry) :
          /\ x = SubSeq(q, n + 1, Len(q)) /\ DOMAIN x = 1..(Len(q) - n)
          /\ \A k \in 1..(Len(q) - n) : x[k] = q[k + n]
    BY <1>2
  <1>5. PICK y \in Seq(WarmEntry) :
          y = SubSeq(q, 1, n) /\ DOMAIN y = 1..n /\ \A k \in 1..n : y[k] = q[k]
    BY <1>2
  <1>6. Range(q) \subseteq Range(x) \cup Range(y)
    <2>1. ASSUME NEW z \in Range(q) PROVE z \in Range(x) \cup Range(y)
      <3>1. PICK k \in 1..Len(q) : z = q[k]
        BY DEF Range
      <3>2. CASE k <= n
        BY <1>5, <3>1, <3>2, k \in 1..n DEF Range
      <3>3. CASE k > n
        <4>1. k - n \in 1..(Len(q) - n) /\ (k - n) + n = k
          BY <3>3
        <4> QED BY <1>4, <3>1, <4>1 DEF Range
      <3> QED BY <3>2, <3>3
    <2> QED BY <2>1
  <1>7. /\ warm' \in [Providers -> Seq(WarmEntry)] /\ warm'[p] = x
        /\ \A r \in Providers \ {p} : warm'[r] = warm[r]
    BY <1>0, <1>3, <1>4
  <1>8. /\ reaper' \in [Providers -> [doomed : SUBSET Threads, stops : Seq(WarmEntry),
                                      down : BOOLEAN]]
        /\ reaper'[p].stops = y /\ \A r \in Providers \ {p} : reaper'[r] = reaper[r]
    BY <1>0, <1>3, <1>5
  <1>9. WarmOnce'
    <2>1. ASSUME NEW i \in DOMAIN x, NEW j \in DOMAIN x, x[i].t = x[j].t PROVE i = j
      <3>1. i + n \in 1..Len(q) /\ j + n \in 1..Len(q) /\ q[i + n].t = q[j + n].t
        <4>1. PICK len \in Nat : len = Len(q)
          OBVIOUS
        <4>2. i \in 1..(len - n) /\ j \in 1..(len - n) /\ n \in 0..len
          BY <1>4, <4>1
        <4>3. i + n \in 1..len /\ j + n \in 1..len
          BY <4>2
        <4>4. x[i] = q[i + n] /\ x[j] = q[j + n]
          BY <1>4, <4>1, <4>2
        <4> QED BY <2>1, <4>1, <4>3, <4>4
      <3>2. i + n = j + n
        BY <1>0, <1>1, <3>1 DEF WarmOnce
      <3> QED BY <1>4, <3>2
    <2> QED BY <1>0, <1>7, <2>1 DEF WarmOnce
  <1>10. ASSUME NEW u, NEW i, WarmClaim(u, i) PROVE WarmClaim(u, i)' \/ StopClaim(u, i)'
    <2>1. PICK r \in Providers : [t |-> u, info |-> i] \in Range(warm[r])
      BY <1>10 DEF WarmClaim
    <2>2. \/ [t |-> u, info |-> i] \in Range(warm'[r])
          \/ [t |-> u, info |-> i] \in Range(reaper'[r].stops)
      BY <1>1, <1>6, <1>7, <1>8, <2>1
    <2> QED BY <2>2 DEF WarmClaim, StopClaim
  <1>11. ASSUME NEW u, NEW i, StopClaim(u, i) PROVE StopClaim(u, i)'
    <2>1. PICK r \in Providers : [t |-> u, info |-> i] \in Range(reaper[r].stops)
      BY <1>11 DEF StopClaim
    <2>2. r # p
      <3>1. reaper[p].stops = <<>> /\ DOMAIN <<>> = {}
        BY <1>0 DEF Resting, AtRest
      <3> QED BY <2>1, <3>1 DEF Range
    <2> QED BY <1>8, <2>1, <2>2 DEF StopClaim
  <1>12. ASSUME NEW u \in Threads PROVE Covered(u)'
    <2>1. Covered(u)
      BY DEF SandboxInv
    <2>2. \A i : Claim(u, i) => Claim(u, i)'
      BY <1>0, <1>10, <1>11 DEF Claim, ActiveClaim, SlotClaim, Holds
    <2> QED BY <1>0, <2>1, <2>2 DEF Covered, Reaches
  <1>13. SandboxTypeOK' /\ SlotsSound'
    BY <1>0, <1>7, <1>8 DEF SandboxTypeOK, SlotsSound, Sound
  <1> QED BY <1>9, <1>12, <1>13 DEF SandboxInv

\* A reaper at rest has nothing to do.
LEMMA NothingYet ==
    /\ <<>> \in Seq(WarmEntry) /\ DOMAIN <<>> = {}
    /\ AtRest \in [doomed : SUBSET Threads, stops : Seq(WarmEntry), down : BOOLEAN]
  <1>1. <<>> \in Seq(WarmEntry) /\ DOMAIN <<>> = {}
    OBVIOUS
  <1>2. PICK none : none = <<>> /\ none \in Seq(WarmEntry)
    BY <1>1
  <1>3. [doomed |-> {}, stops |-> none, down |-> FALSE]
          \in [doomed : SUBSET Threads, stops : Seq(WarmEntry), down : BOOLEAN]
    BY <1>2
  <1> QED BY <1>1, <1>2, <1>3, Zenon DEF AtRest

\* A process dies, and the next one adopts every container that runs.
LEMMA RestartInv ==
    ASSUME SandboxInv, NEW p \in Providers, Restart(p)
    PROVE  SandboxInv'
  <1> DEFINE up == {t \in Threads : running[t] # 0}
  <1>0. /\ SandboxTypeOK /\ SlotsSound /\ WarmOnce /\ NoInfo \in Info
        /\ infos \in [Threads -> Nat] /\ running' = running
        /\ faults \in 0..MaxFaults /\ MaxFaults \in Nat
    BY SandboxAssumption DEF SandboxInv, Restart, SandboxTypeOK, NoInfo, Info
  <1>1. PICK found \in Bijection(1..Cardinality(up), up) :
          warm' = [warm EXCEPT ![p] = [i \in DOMAIN found |->
                      [t |-> found[i], info |-> NewInfo(found[i], 0)]]]
    BY DEF Restart
  <1>2. PICK n : n = Cardinality(up)
    OBVIOUS
  <1>3. /\ found \in [1..n -> up] /\ \A i, j \in 1..n : found[i] = found[j] => i = j
        /\ \A t \in up : \E i \in 1..n : found[i] = t
    BY <1>1, <1>2 DEF Bijection, Injection, Surjection, IsInjective
  <1>4. \A t \in Threads : NewInfo(t, 0) \in Info /\ NewInfo(t, 0) # NoInfo /\ NewInfo(t, 0).id = 0
    <2>1. ASSUME NEW t \in Threads
          PROVE  NewInfo(t, 0) \in Info /\ NewInfo(t, 0) # NoInfo /\ NewInfo(t, 0).id = 0
      <3>1. PICK m \in Nat \ {0} : m = infos[t] + 1
        BY <1>0
      <3> QED BY <3>1 DEF NewInfo, Info, NoInfo
    <2> QED BY <2>1
  <1> DEFINE w == [i \in 1..n |-> [t |-> found[i], info |-> NewInfo(found[i], 0)]]
  <1>5. \A i \in 1..n : w[i] \in WarmEntry
    BY <1>3, <1>4 DEF WarmEntry
  <1>6. w \in Seq(WarmEntry)
    <2>1. n \in Nat
      BY <1>2, SandboxAssumption, FS_Subset, FS_CardinalityType
    <2> QED BY <1>5, <2>1
  <1>7. warm' = [warm EXCEPT ![p] = w]
    BY <1>1, <1>3
  <1>8. DOMAIN w = 1..n /\ \A i \in 1..n : w[i].t = found[i]
    OBVIOUS
  <1>9. ASSUME NEW t \in up PROVE [t |-> t, info |-> NewInfo(t, 0)] \in Range(w)
    <2>1. PICK i \in 1..n : found[i] = t
      BY <1>3
    <2>2. w[i] = [t |-> t, info |-> NewInfo(t, 0)]
      BY <2>1
    <2> QED BY <1>8, <2>2 DEF Range
  <1> HIDE DEF w
  <1>10. /\ warm' \in [Providers -> Seq(WarmEntry)] /\ warm'[p] = w
         /\ \A r \in Providers \ {p} : warm'[r] = warm[r]
    BY <1>0, <1>6, <1>7 DEF SandboxTypeOK
  <1>11. WarmOnce'
    <2>1. ASSUME NEW i \in DOMAIN w, NEW j \in DOMAIN w, w[i].t = w[j].t PROVE i = j
      BY <1>3, <1>8, <2>1
    <2> QED BY <1>0, <1>10, <2>1 DEF WarmOnce
  <1>12. ASSUME NEW t \in Threads PROVE Covered(t)'
    <2>1. CASE running[t] # 0
      <3>1. PICK i \in Info : i = NewInfo(t, 0) /\ i # NoInfo /\ i.id = 0
        BY <1>4
      <3>2. WarmClaim(t, i)'
        BY <1>9, <1>10, <2>1, <3>1 DEF WarmClaim
      <3>3. Reaches(t, i)'
        BY <3>1 DEF Reaches
      <3> QED BY <3>2, <3>3 DEF Covered, Claim
    <2> QED BY <1>0, <2>1 DEF Covered
  <1>13. infos' \in [Threads -> Nat]
    <2>1. infos' = [t \in Threads |-> infos[t] + IF running[t] # 0 THEN 1 ELSE 0]
      BY DEF Restart
    <2>2. \A t \in Threads : infos[t] + (IF running[t] # 0 THEN 1 ELSE 0) \in Nat
      BY <1>0
    <2> QED BY <2>1, <2>2
  <1>14. active' \in [Providers -> [Threads -> Info]] /\ idle' \in [Providers -> SUBSET Threads]
    <2>1. PICK N \in [Threads -> Info] : N = [t \in Threads |-> NoInfo]
      BY <1>0
    <2>2. PICK I \in SUBSET Threads : I = {}
      OBVIOUS
    <2>3. active' = [active EXCEPT ![p] = N] /\ idle' = [idle EXCEPT ![p] = I]
      BY <2>1, <2>2 DEF Restart
    <2> QED BY <1>0, <2>3 DEF SandboxTypeOK
  <1>15. fileLock' \in [Threads -> SUBSET Providers] /\ faults' \in 0..MaxFaults
    BY <1>0 DEF Restart, Fault, SandboxTypeOK
  <1>16. acq' \in [Slots -> Acq] /\ SlotsSound'
    <2>1. acq' = [s \in Slots |-> IF s[1] = p THEN Ready(s) ELSE acq[s]]
      BY DEF Restart
    <2>2. ASSUME NEW s \in Slots PROVE Sound(s, acq'[s])
      <3>1. Sound(s, Ready(s)) /\ Sound(s, acq[s])
        BY <1>0, ReadySound DEF SlotsSound
      <3> QED BY <2>1, <3>1
    <2>3. \A s \in Slots : acq'[s] \in Acq
      BY <2>2 DEF Sound
    <2> QED BY <2>1, <2>2, <2>3 DEF SlotsSound, Sound
  <1>17. reaper' \in [Providers -> [doomed : SUBSET Threads, stops : Seq(WarmEntry),
                                    down : BOOLEAN]]
    <2>1. AtRest \in [doomed : SUBSET Threads, stops : Seq(WarmEntry), down : BOOLEAN]
      BY NothingYet
    <2> QED BY <1>0, <2>1 DEF Restart, SandboxTypeOK
  <1>18. abandoned' \subseteq Threads \X Nat
    BY DEF Restart
  <1>19. SandboxTypeOK'
    BY <1>0, <1>10, <1>13, <1>14, <1>15, <1>16, <1>17, <1>18 DEF SandboxTypeOK
  <1> QED BY <1>11, <1>12, <1>16, <1>19 DEF SandboxInv

\* A container dies.
LEMMA ContainerDiesInv ==
    ASSUME SandboxInv, NEW t \in Threads, ContainerDies(t)
    PROVE  SandboxInv'
  <1>0. /\ SandboxTypeOK /\ SlotsSound /\ WarmOnce /\ faults \in 0..MaxFaults /\ MaxFaults \in Nat
        /\ running \in [Threads -> Nat] /\ running' = [running EXCEPT ![t] = 0]
        /\ UNCHANGED <<infos, active, warm, idle, fileLock, acq, reaper, abandoned>>
    BY SandboxAssumption DEF SandboxInv, ContainerDies, SandboxTypeOK
  <1>1. running' \in [Threads -> Nat] /\ faults' \in 0..MaxFaults
    BY <1>0 DEF ContainerDies, Fault
  <1>2. ASSUME NEW u \in Threads PROVE Covered(u)'
    <2>1. Covered(u) /\ running'[u] \in {0, running[u]}
      BY <1>0 DEF SandboxInv
    <2>2. \A i : Claim(u, i) => Claim(u, i)'
      BY <1>0 DEF Claim, ActiveClaim, WarmClaim, StopClaim, SlotClaim, Holds
    <2> QED BY <1>0, <2>1, <2>2 DEF Covered, Reaches
  <1>3. SandboxTypeOK' /\ WarmOnce' /\ SlotsSound'
    BY <1>0, <1>1 DEF SandboxTypeOK, WarmOnce, SlotsSound, Sound
  <1> QED BY <1>2, <1>3 DEF SandboxInv

\* The providers begin without containers.
LEMMA SandboxInitInv == SandboxInit => SandboxInv
  <1> SUFFICES ASSUME SandboxInit PROVE SandboxInv
    OBVIOUS
  <1>1. <<>> \in Seq(WarmEntry) /\ DOMAIN <<>> = {}
    BY NothingYet
  <1>2. AtRest \in [doomed : SUBSET Threads, stops : Seq(WarmEntry), down : BOOLEAN]
    BY NothingYet
  <1>3. acq \in [Slots -> Acq] /\ SlotsSound
    BY ReadySound DEF SandboxInit, Sound, SlotsSound
  <1>4. NoInfo \in Info /\ faults \in 0..MaxFaults
    BY SandboxAssumption DEF SandboxInit, NoInfo, Info
  <1>5. warm \in [Providers -> Seq(WarmEntry)] /\ WarmOnce
    BY <1>1 DEF SandboxInit, WarmOnce
  <1>6. SandboxTypeOK
    BY <1>2, <1>3, <1>4, <1>5 DEF SandboxInit, SandboxTypeOK
  <1>7. \A t \in Threads : Covered(t)
    BY DEF SandboxInit, Covered
  <1> QED BY <1>3, <1>5, <1>6, <1>7 DEF SandboxInv

\* Every step of the providers, their calls and their reapers keeps the invariant.
LEMMA SandboxNextInv == SandboxInv /\ [SandboxNext]_sandboxVars => SandboxInv'
  <1> SUFFICES ASSUME SandboxInv, [SandboxNext]_sandboxVars PROVE SandboxInv'
    OBVIOUS
  <1>1. CASE \E s \in Slots : AcquireStep(s)
    <2>1. PICK s \in Slots : AcquireStep(s)
      BY <1>1
    <2> QED BY <2>1, LookUpInv, CheckInv, ReuseEndInv, WarmEndInv, DiscoverInv, CountInv,
               StartInv, BecomesReadyInv, SlotStopInv DEF AcquireStep
  <1>2. CASE \E p \in Providers : ReaperStep(p) \/ Shutdown(p) \/ Restart(p)
    <2>1. PICK p \in Providers : ReaperStep(p) \/ Shutdown(p) \/ Restart(p)
      BY <1>2
    <2> QED BY <2>1, UseInv, DestroyIdleInv, ReapInv, ReaperStopInv, RestartInv DEF ReaperStep
  <1>3. CASE \E t \in Threads : ContainerDies(t)
    BY <1>3, ContainerDiesInv
  <1>4. CASE \E p \in Providers, t \in Threads :
               \/ Acquire(p, t) \/ (\E ghost \in Ghosts : CancelAcquire(p, t, ghost))
               \/ Release(p, t) \/ \E stale \in BOOLEAN : Use(p, t, stale)
    BY <1>4, AcquireInv, CancelAcquireInv, ReleaseInv, UseInv
  <1>5. CASE UNCHANGED sandboxVars
    <2>1. SandboxTypeOK' /\ WarmOnce' /\ SlotsSound'
      BY <1>5 DEF sandboxVars, SandboxInv, SandboxTypeOK, WarmOnce, SlotsSound, Sound
    <2>2. \A t \in Threads : Covered(t)'
      BY <1>5 DEF sandboxVars, SandboxInv, Covered, Reaches, Claim, ActiveClaim, WarmClaim,
                  StopClaim, SlotClaim, Holds
    <2> QED BY <2>1, <2>2 DEF SandboxInv
  <1> QED BY <1>1, <1>2, <1>3, <1>4, <1>5 DEF SandboxNext

\* What the claims say about the providers' maps.
LEMMA CoveredMeans == SandboxInv => NoContainerLeaks
  <1> SUFFICES ASSUME SandboxInv, NEW t \in Threads, running[t] # 0,
                      <<t, running[t]>> \notin abandoned
               PROVE  \/ \E p \in Providers :
                           Reaches(t, active[p][t]) \/ Reaches(t, WarmInfo(p, t))
                      \/ \E s \in Slots :
                           s[2] = t /\ acq[s].pc = "ready" /\ Reaches(t, acq[s].info)
                      \/ StopPending(t)
    BY DEF NoContainerLeaks
  <1>1. PICK i \in Info : Claim(t, i) /\ Reaches(t, i)
    BY DEF SandboxInv, Covered
  <1>2. CASE ActiveClaim(t, i)
    BY <1>1, <1>2 DEF ActiveClaim
  <1>3. CASE WarmClaim(t, i)
    <2>1. PICK p \in Providers : [t |-> t, info |-> i] \in Range(warm[p])
      BY <1>3 DEF WarmClaim
    <2>2. PICK e \in Range(warm[p]) : e.t = t /\ e.info = i
      BY <2>1
    <2>3. i = WarmInfo(p, t)
      BY <2>2, WarmFacts DEF SandboxInv
    <2> QED BY <1>1, <2>3
  <1>4. CASE StopClaim(t, i)
    <2>1. PICK p \in Providers : [t |-> t, info |-> i] \in Range(reaper[p].stops)
      BY <1>4 DEF StopClaim
    <2>2. PICK e \in Range(reaper[p].stops) : e.t = t /\ e.info = i
      BY <2>1
    <2> QED BY <1>1, <2>2 DEF StopPending
  <1>5. CASE SlotClaim(t, i)
    BY <1>1, <1>5 DEF SlotClaim, Holds, Stopping, StopPending
  <1> QED BY <1>1, <1>2, <1>3, <1>4, <1>5 DEF Claim

\* Every container that runs is tracked, being started, about to be stopped, or
\* one of those the code knowingly or in a named race gave up; for any number of
\* providers, threads, ghosts and faults.
THEOREM NoContainerLeaksHolds == SandboxSpec => [](NoContainerLeaks /\ SandboxTypeOK)
  <1>1. SandboxInv => SandboxTypeOK
    BY DEF SandboxInv
  <1> QED BY <1>1, SandboxInitInv, SandboxNextInv, CoveredMeans, PTL DEF SandboxSpec

-----------------------------------------------------------------------------
(* The sessions with the MCP servers. *)

\* An owner that has a session, or may still get one.
Live(s) == owner[s] \in {"new", "enter", "init", "open"}

\* A call that is not over, and one that still wants the session it creates.
UnderWay(c) == pcall[c].pc \in {"evict", "wait", "unwind", "teardown"}
Creating(c) == pcall[c].pc \in {"evict", "wait"} /\ pcall[c].target = c

\* Somebody's list of owners to shut down has this one, or is to cancel it.
Listed(s) == \E c \in Calls : \E e \in Range(pcall[c].evict) : e.s = s
ToCancel(s) == \E c \in Calls : \E e \in Range(pcall[c].evict) : e.s = s /\ e.cancel /\ ~e.sent

\* A session with an owner has a creator; nothing was said to one without.
Owned(s) ==
    IF owner[s] = "none" THEN ready[s] = "pending" /\ ~close[s] /\ ~ocancel[s]
    ELSE pcall[s].pc # "idle"

\* Only a call that evicts has something to evict, and the loop of a call that
\* is under way runs.
CallSound(c) ==
    /\ pcall[c].pc # "evict" => pcall[c].evict = <<>>
    /\ UnderWay(c) => loopOpen[LoopOf(c)]
    /\ pcall[c].target = c => owner[c] # "none"
    /\ pcall[c].pc = "teardown" => pcall[c].target = c

\* An owner whose loop has ended, or that has failed, has no session.
OwnerSound(s) == Live(s) => loopOpen[LoopOf(s)] /\ ready[s] # "error"

\* The entry of a key: its creator has it, and there is no creation.
EntrySound(s) ==
    /\ owner[s] # "none" /\ pcall[s].pc = "got" /\ inflight[KeyOf(s)] = NoCall
    /\ loopOpen[LoopOf(s)] => owner[s] = "open" /\ ~close[s] /\ ~ocancel[s]

\* A creation is recorded under its key, and untouched while it is wanted.
InflightSound(k) ==
    inflight[k] # NoCall => owner[inflight[k]] # "none" /\ KeyOf(inflight[k]) = k
CreationSound(c) ==
    Creating(c) /\ inflight[KeyOf(c)] = c =>
        ~close[c] /\ ~ocancel[c] /\ (ready[c] = "session" => owner[c] = "open")

\* What is to be shut down is out of the pool; once told, it closes.
EvicteeSound(e) ==
    /\ owner[e.s] # "none" /\ e.s \notin Range(entries) /\ inflight[KeyOf(e.s)] # e.s
    /\ e.sent => close[e.s] \/ ~Live(e.s)

\* Somebody knows of a session that is, or may get, open.
Tended(s) ==
    \/ s \in Range(entries) \/ close[s] \/ ocancel[s] \/ s \in dropped
    \/ pcall[s].pc = "wait" /\ pcall[s].target = s
    \/ pcall[s].pc # "unwind" /\ inflight[KeyOf(s)] = s
    \/ Listed(s)

\* A creation that was taken out of the pool does not wait in vain.
Woken(c) ==
    \/ ready[c] # "pending" \/ ocancel[c] \/ owner[c] = "done" \/ c \in dropped
    \/ ToCancel(c)

OneOfAKey == \A i, j \in DOMAIN entries : KeyOf(entries[i]) = KeyOf(entries[j]) => i = j
CallsSound == \A c \in Calls : Owned(c) /\ CallSound(c) /\ OwnerSound(c) /\ CreationSound(c)
PoolSound ==
    /\ \A s \in Range(entries) : EntrySound(s)
    /\ \A k \in Keys : InflightSound(k)
    /\ \A c \in Calls : \A e \in Range(pcall[c].evict) : EvicteeSound(e)
AllTended == \A s \in Calls : Live(s) => Tended(s)
AllWoken == \A c \in Calls : Creating(c) /\ inflight[KeyOf(c)] # c => Woken(c)

\* What every step of the session pool keeps.
McpInv == McpTypeOK /\ OneOfAKey /\ CallsSound /\ PoolSound /\ AllTended /\ AllWoken


\* The calls are numbers, and none of them is 0.
LEMMA CallNumbers == Calls \in SUBSET Nat /\ NoCall \notin Calls /\ NoCall = 0
  BY McpAssumption DEF Calls, NoCall

\* A call that has not begun is a call.
LEMMA UnbornType == Unborn \in PoolCall
  <1>1. 1 \in Keys /\ (CHOOSE l \in Loops : TRUE) \in Loops
    BY McpAssumption DEF Keys
  <1>2. <<>> \in Seq(Evictee)
    OBVIOUS
  <1> QED BY <1>1, <1>2, Zenon DEF Unborn, PoolCall

\* The elements of a list of owners to shut down.
LEMMA EvicteeType ==
    ASSUME NEW q \in Seq(Evictee), NEW e \in Range(q)
    PROVE  e \in Evictee /\ e.s \in Calls
  <1>1. e \in Evictee
    BY DEF Range
  <1> QED BY <1>1 DEF Evictee

\* The lists of the calls have such elements.
LEMMA ListTypes ==
    ASSUME pcall \in [Calls -> PoolCall], NEW b \in Calls, NEW e \in Range(pcall[b].evict)
    PROVE  e \in Evictee /\ e.s \in Calls
  <1>1. pcall[b].evict \in Seq(Evictee)
    BY DEF PoolCall
  <1> QED BY <1>1, EvicteeType

\* A pool that has just been made satisfies the invariant.
LEMMA McpInitInv == McpInit => McpInv
  <1> SUFFICES ASSUME McpInit PROVE McpInv
    OBVIOUS
  <1>1. McpTypeOK
    <2>1. pcall \in [Calls -> PoolCall]
      BY UnbornType DEF McpInit
    <2>2. cancels \in 0..MaxCancels
      BY McpAssumption DEF McpInit
    <2>3. entries \in Seq(Calls)
      BY DEF McpInit
    <2> QED BY <2>1, <2>2, <2>3 DEF McpInit, McpTypeOK, OwnerPc
  <1>2. DOMAIN entries = {} /\ Range(entries) = {}
    BY DEF McpInit, Range
  <1>3. ASSUME NEW c \in Calls
        PROVE  pcall[c].pc = "idle" /\ pcall[c].evict = <<>> /\ pcall[c].target = NoCall
    BY DEF McpInit, Unborn
  <1>4. ASSUME NEW c \in Calls PROVE ~Live(c) /\ owner[c] = "none" /\ ~Creating(c) /\ ~UnderWay(c)
    BY <1>3 DEF McpInit, Live, Creating, UnderWay
  <1>5. OneOfAKey
    BY <1>2 DEF OneOfAKey
  <1>6. CallsSound
    BY <1>3, <1>4, CallNumbers DEF McpInit, CallsSound, Owned, CallSound, OwnerSound, CreationSound
  <1>7. PoolSound
    <2>1. ASSUME NEW c \in Calls PROVE Range(pcall[c].evict) = {}
      BY <1>3 DEF Range
    <2> QED BY <1>2, <2>1 DEF McpInit, PoolSound, InflightSound
  <1> QED BY <1>1, <1>4, <1>5, <1>6, <1>7 DEF McpInv, AllTended, AllWoken

-----------------------------------------------------------------------------

\* What an owner may do: it gets a session only if nobody has told it to stop,
\* and says so when it has none.
OwnerStep ==
    /\ UNCHANGED <<entries, inflight, pcall, close, dropped, cancels>>
    /\ owner' \in [Calls -> OwnerPc] /\ ready' \in [Calls -> {"pending", "session", "error"}]
    /\ ocancel' \in [Calls -> BOOLEAN] /\ loopOpen' \in [Loops -> BOOLEAN]
    /\ \A c \in Calls : UnderWay(c) => loopOpen'[LoopOf(c)]
    /\ \A s \in Calls :
        /\ owner'[s] = "none" <=> owner[s] = "none"
        /\ owner[s] = "none" => ready'[s] = ready[s]
        /\ Live(s)' => Live(s) /\ loopOpen'[LoopOf(s)] /\ ready'[s] # "error"
        /\ Live(s)' /\ ocancel[s] => ocancel'[s]
        /\ loopOpen'[LoopOf(s)] => loopOpen[LoopOf(s)]
        /\ owner[s] = "open" /\ ~close[s] /\ ~ocancel[s] /\ loopOpen'[LoopOf(s)] => owner'[s] = "open"
        /\ ocancel'[s] => ocancel[s]
        /\ ready'[s] = "session" => ready[s] = "session" \/ owner'[s] = "open"
        /\ ready[s] # "pending" => ready'[s] # "pending"
        /\ ocancel[s] => ocancel'[s] \/ owner'[s] = "done" \/ ready'[s] # "pending"
        /\ owner[s] = "done" => owner'[s] = "done"

\* ... which keeps the invariant.
LEMMA OwnerStepInv == ASSUME McpInv, OwnerStep PROVE McpInv'
  <1>1. McpTypeOK'
    BY DEF McpInv, McpTypeOK, OwnerStep
  <1>2. /\ \A s \in Calls : KeyOf(s)' = KeyOf(s) /\ LoopOf(s)' = LoopOf(s)
        /\ \A s \in Calls : Creating(s)' = Creating(s) /\ UnderWay(s)' = UnderWay(s)
        /\ \A s \in Calls : Listed(s)' = Listed(s) /\ ToCancel(s)' = ToCancel(s)
        /\ pcall' = pcall /\ entries' = entries /\ inflight' = inflight
        /\ close' = close /\ dropped' = dropped
    BY DEF OwnerStep, KeyOf, LoopOf, Creating, UnderWay, Listed, ToCancel
  <1>3. Range(entries) \subseteq Calls /\ \A i \in DOMAIN entries : entries[i] \in Calls
    BY DEF McpInv, McpTypeOK, Range
  <1>4. \A c \in Calls : \A e \in Range(pcall[c].evict) : e \in Evictee
    BY DEF McpInv, McpTypeOK, PoolCall, Range
  <1>5. OneOfAKey'
    BY <1>2, <1>3 DEF McpInv, OneOfAKey
  <1>6. CallsSound'
    <2> SUFFICES ASSUME NEW c \in Calls
                 PROVE  (Owned(c) /\ CallSound(c) /\ OwnerSound(c) /\ CreationSound(c))'
      BY DEF CallsSound
    <2>1. Owned(c) /\ CallSound(c) /\ OwnerSound(c) /\ CreationSound(c)
      BY DEF McpInv, CallsSound
    <2>2. Owned(c)'
      BY <1>2, <2>1 DEF Owned, OwnerStep
    <2>3. CallSound(c)'
      BY <1>2, <2>1 DEF CallSound, OwnerStep
    <2>4. OwnerSound(c)'
      BY <1>2, <2>1 DEF OwnerSound, OwnerStep
    <2>5. CreationSound(c)'
      BY <1>2, <2>1 DEF CreationSound, OwnerStep, Creating, UnderWay
    <2> QED BY <2>2, <2>3, <2>4, <2>5
  <1>7. PoolSound'
    <2>1. ASSUME NEW s \in Range(entries) PROVE EntrySound(s)'
      <3>1. EntrySound(s) /\ s \in Calls
        BY <1>3 DEF McpInv, PoolSound
      <3> QED BY <1>2, <3>1 DEF EntrySound, OwnerStep
    <2>2. ASSUME NEW k \in Keys PROVE InflightSound(k)'
      <3>1. InflightSound(k) /\ (inflight[k] = NoCall \/ inflight[k] \in Calls)
        BY DEF McpInv, PoolSound, McpTypeOK
      <3> QED BY <1>2, <3>1 DEF InflightSound, OwnerStep
    <2>3. ASSUME NEW c \in Calls, NEW e \in Range(pcall[c].evict) PROVE EvicteeSound(e)'
      <3>1. EvicteeSound(e) /\ e.s \in Calls
        BY <1>4 DEF McpInv, PoolSound, Evictee
      <3> QED BY <1>2, <3>1 DEF EvicteeSound, OwnerStep
    <2> QED BY <1>2, <2>1, <2>2, <2>3 DEF PoolSound
  <1>8. AllTended'
    <2> SUFFICES ASSUME NEW s \in Calls, Live(s)' PROVE Tended(s)'
      BY DEF AllTended
    <2>1. Tended(s) /\ (ocancel[s] => ocancel'[s])
      BY DEF McpInv, AllTended, OwnerStep
    <2> QED BY <1>2, <2>1 DEF Tended
  <1>9. AllWoken'
    <2> SUFFICES ASSUME NEW c \in Calls, Creating(c)', (inflight[KeyOf(c)] # c)' PROVE Woken(c)'
      BY DEF AllWoken
    <2>1. Woken(c)
      BY <1>2 DEF McpInv, AllWoken
    <2> QED BY <1>2, <2>1 DEF Woken, OwnerStep
  <1> QED BY <1>1, <1>5, <1>6, <1>7, <1>8, <1>9 DEF McpInv


\* The task of an owner, the server, and the end of a loop do only that.
LEMMA OwnerActions ==
    ASSUME McpInv, \/ \E s \in Calls : OwnerNext(s) \/ ServerAnswers(s) \/ ServerFails(s)
                   \/ \E l \in Loops : LoopEnds(l)
    PROVE  OwnerStep
  <1>0. /\ owner \in [Calls -> OwnerPc] /\ ready \in [Calls -> {"pending", "session", "error"}]
        /\ ocancel \in [Calls -> BOOLEAN] /\ loopOpen \in [Loops -> BOOLEAN]
        /\ close \in [Calls -> BOOLEAN]
        /\ \A s \in Calls : LoopOf(s) \in Loops /\ OwnerSound(s) /\ CallSound(s)
    BY DEF McpInv, McpTypeOK, LoopOf, PoolCall, CallsSound
  <1> USE DEF Live, OwnerPc
  <1>1. ASSUME NEW s \in Calls, OwnerBegins(s) PROVE OwnerStep
    BY <1>0, <1>1 DEF OwnerBegins, OwnerStep, OwnerSound, CallSound
  <1>2. ASSUME NEW s \in Calls, OwnerCancelled(s) PROVE OwnerStep
    BY <1>0, <1>2 DEF OwnerCancelled, SetError, OwnerStep, OwnerSound, CallSound
  <1>3. ASSUME NEW s \in Calls, OwnerCloses(s) PROVE OwnerStep
    BY <1>0, <1>3 DEF OwnerCloses, OwnerStep, OwnerSound, CallSound
  <1>4. ASSUME NEW s \in Calls, OwnerExits(s) PROVE OwnerStep
    BY <1>0, <1>4 DEF OwnerExits, OwnerStep, OwnerSound, CallSound
  <1>5. ASSUME NEW s \in Calls, ServerAnswers(s) PROVE OwnerStep
    BY <1>0, <1>5 DEF ServerAnswers, OwnerStep, OwnerSound, CallSound
  <1>6. ASSUME NEW s \in Calls, ServerFails(s) PROVE OwnerStep
    BY <1>0, <1>6 DEF ServerFails, SetError, OwnerStep, OwnerSound, CallSound
  <1>7. ASSUME NEW l \in Loops, LoopEnds(l) PROVE OwnerStep
    BY <1>0, <1>7 DEF LoopEnds, OwnerStep, OwnerSound, CallSound, UnderWay
  <1> QED BY <1>1, <1>2, <1>3, <1>4, <1>5, <1>6, <1>7 DEF OwnerNext

-----------------------------------------------------------------------------

\* What a call under way may do: tell an owner on a list, or its own once it
\* does not want the session, to close; take from its list whom it has told or
\* whom it drops; and take its own creation from the pool when it is unwound.
CallStep(c, rec) ==
    /\ UNCHANGED <<entries, owner, ready, loopOpen>>
    /\ close' \in [Calls -> BOOLEAN] /\ ocancel' \in [Calls -> BOOLEAN]
    /\ dropped \subseteq dropped' /\ dropped' \subseteq Calls /\ cancels' \in 0..MaxCancels
    /\ UnderWay(c) /\ rec \in PoolCall /\ pcall' = [pcall EXCEPT ![c] = rec]
    /\ rec.key = KeyOf(c) /\ rec.loop = LoopOf(c) /\ rec.pc # "idle"
    /\ rec.pc # "evict" => rec.evict = <<>>
    /\ rec.target \in {pcall[c].target, NoCall} /\ (rec.pc = "teardown" => rec.target = c)
    /\ Creating(c)' => Creating(c) /\ inflight' = inflight
    /\ \/ inflight' = inflight
       \/ /\ inflight[KeyOf(c)] = c /\ pcall[c].pc = "unwind"
          /\ inflight' = [inflight EXCEPT ![KeyOf(c)] = NoCall]
    /\ \A e \in Range(rec.evict) :
          \E d \in Range(pcall[c].evict) :
              d.s = e.s /\ (e.sent => d.sent \/ close'[e.s] \/ ~Live(e.s))
    /\ \A d \in Range(pcall[c].evict) :
          /\ d.sent \/ d.s \in dropped' \/ \E e \in Range(rec.evict) : e.s = d.s
          /\ d.cancel /\ ~d.sent =>
                \/ d.s \in dropped' \/ ocancel'[d.s] \/ ~loopOpen[LoopOf(d.s)]
                \/ \E e \in Range(rec.evict) : e.s = d.s /\ e.cancel /\ ~e.sent
    /\ \A s \in Calls :
          /\ (close[s] => close'[s]) /\ (ocancel[s] => ocancel'[s])
          /\ \/ close'[s] = close[s] /\ ocancel'[s] = ocancel[s]
             \/ s = c /\ pcall[c].target = c /\ ~Creating(c)'
             \/ Listed(s)
    /\ pcall[c].pc = "wait" /\ pcall[c].target = c =>
          (rec.pc = "wait" /\ rec.target = c) \/ close'[c] \/ ready[c] = "error"
    /\ rec.pc = "unwind" => pcall[c].pc = "unwind" \/ close'[c] \/ ready[c] = "error"

\* ... which keeps the invariant.
LEMMA CallStepInv ==
    ASSUME McpInv, NEW c \in Calls, NEW rec, CallStep(c, rec)
    PROVE  McpInv'
  <1>0. /\ pcall \in [Calls -> PoolCall] /\ inflight \in [Keys -> Calls \cup {NoCall}]
        /\ \A s \in Calls : KeyOf(s) \in Keys
        /\ close \in [Calls -> BOOLEAN] /\ ocancel \in [Calls -> BOOLEAN]
    BY DEF McpInv, McpTypeOK, KeyOf, PoolCall
  <1>1. McpTypeOK'
    <2>1. inflight' \in [Keys -> Calls \cup {NoCall}]
      BY <1>0 DEF CallStep
    <2>2. pcall' \in [Calls -> PoolCall]
      BY <1>0 DEF CallStep
    <2> QED BY <2>1, <2>2 DEF McpInv, McpTypeOK, CallStep
  <1>2. /\ pcall'[c] = rec /\ \A s \in Calls \ {c} : pcall'[s] = pcall[s]
        /\ entries' = entries /\ owner' = owner /\ ready' = ready /\ loopOpen' = loopOpen
    BY <1>0 DEF CallStep
  <1>3. /\ \A s \in Calls : KeyOf(s)' = KeyOf(s) /\ LoopOf(s)' = LoopOf(s) /\ Live(s)' = Live(s)
        /\ \A s \in Calls \ {c} : Creating(s)' = Creating(s) /\ UnderWay(s)' = UnderWay(s)
    BY <1>2 DEF CallStep, KeyOf, LoopOf, Creating, UnderWay, Live
  <1>4. Range(entries) \subseteq Calls /\ \A i \in DOMAIN entries : entries[i] \in Calls
    BY DEF McpInv, McpTypeOK, Range
  <1>5. \A b \in Calls : \A e \in Range(pcall[b].evict) : e \in Evictee /\ e.s \in Calls
    BY <1>0, ListTypes
  <1>6. \A s \in Calls : Listed(s) => owner[s] # "none" /\ s \notin Range(entries)
                                     /\ inflight[KeyOf(s)] # s
    BY DEF McpInv, PoolSound, Listed, EvicteeSound
  <1>7. \A k \in Keys : inflight'[k] = inflight[k] \/ (k = KeyOf(c) /\ inflight'[k] = NoCall)
    BY <1>0 DEF CallStep
  <1>8. \A s \in Calls : inflight'[KeyOf(s)] = s => inflight[KeyOf(s)] = s
    BY <1>0, <1>7, CallNumbers
  <1>9. OneOfAKey'
    BY <1>2, <1>3, <1>4 DEF McpInv, OneOfAKey
  <1>10. CallsSound'
    <2> SUFFICES ASSUME NEW s \in Calls
                 PROVE  (Owned(s) /\ CallSound(s) /\ OwnerSound(s) /\ CreationSound(s))'
      BY DEF CallsSound
    <2>0. Owned(s) /\ CallSound(s) /\ OwnerSound(s) /\ CreationSound(s)
      BY DEF McpInv, CallsSound
    <2>1. /\ (close[s] => close'[s]) /\ (ocancel[s] => ocancel'[s])
          /\ \/ close'[s] = close[s] /\ ocancel'[s] = ocancel[s]
             \/ s = c /\ pcall[c].target = c /\ ~Creating(c)'
             \/ Listed(s)
      BY DEF CallStep
    <2>2. Owned(s)'
      <3>1. owner[s] = "none" => close'[s] = close[s] /\ ocancel'[s] = ocancel[s]
        BY <1>6, <2>0, <2>1 DEF CallSound
      <3>2. pcall[s].pc # "idle" => pcall'[s].pc # "idle"
        BY <1>2 DEF CallStep
      <3> QED BY <1>0, <1>2, <2>0, <3>1, <3>2 DEF Owned
    <2>3. CallSound(s)'
      <3>1. CASE s # c
        BY <1>2, <1>3, <2>0, <3>1 DEF CallSound
      <3>2. CASE s = c
        <4>1. pcall'[s].pc # "evict" => pcall'[s].evict = <<>>
          BY <1>2, <3>2 DEF CallStep
        <4>2. loopOpen[LoopOf(s)]
          BY <2>0, <3>2 DEF CallSound, CallStep
        <4>3. pcall'[s].target = s => owner[s] # "none"
          BY <1>2, <2>0, <3>2, CallNumbers DEF CallSound, CallStep
        <4>4. pcall'[s].pc = "teardown" => pcall'[s].target = s
          BY <1>2, <3>2 DEF CallStep
        <4> QED BY <1>2, <1>3, <4>1, <4>2, <4>3, <4>4 DEF CallSound
      <3> QED BY <3>1, <3>2
    <2>4. OwnerSound(s)'
      BY <1>2, <1>3, <2>0 DEF OwnerSound
    <2>5. CreationSound(s)'
      <3> SUFFICES ASSUME Creating(s)', inflight'[KeyOf(s)] = s
                   PROVE  ~close'[s] /\ ~ocancel'[s] /\ (ready[s] = "session" => owner[s] = "open")
        BY <1>2, <1>3 DEF CreationSound
      <3>1. inflight[KeyOf(s)] = s
        BY <1>8
      <3>2. Creating(s)
        BY <1>3 DEF CallStep
      <3>3. close'[s] = close[s] /\ ocancel'[s] = ocancel[s]
        BY <1>6, <2>1, <3>1
      <3> QED BY <2>0, <3>1, <3>2, <3>3 DEF CreationSound
    <2> QED BY <2>2, <2>3, <2>4, <2>5
  <1>11. PoolSound'
    <2>1. ASSUME NEW s \in Range(entries) PROVE EntrySound(s)'
      <3>1. EntrySound(s) /\ s \in Calls
        BY <1>4 DEF McpInv, PoolSound
      <3>2. s # c
        BY <3>1 DEF EntrySound, CallStep, UnderWay
      <3>3. close'[s] = close[s] /\ ocancel'[s] = ocancel[s]
        BY <1>6, <3>1, <3>2 DEF CallStep
      <3>4. inflight'[KeyOf(s)] = NoCall
        BY <1>0, <1>7, <3>1 DEF EntrySound
      <3> QED BY <1>2, <1>3, <3>1, <3>2, <3>3, <3>4 DEF EntrySound
    <2>2. ASSUME NEW k \in Keys PROVE InflightSound(k)'
      <3>1. InflightSound(k) /\ (inflight[k] = NoCall \/ inflight[k] \in Calls)
        BY <1>0 DEF McpInv, PoolSound
      <3> QED BY <1>2, <1>3, <1>7, <3>1 DEF InflightSound
    <2>3. ASSUME NEW b \in Calls, NEW e \in Range(pcall'[b].evict) PROVE EvicteeSound(e)'
      <3>1. PICK d \in Range(pcall[b].evict) :
               d.s = e.s /\ (e.sent => d.sent \/ close'[e.s] \/ ~Live(e.s))
        <4>1. CASE b = c
          BY <1>2, <4>1 DEF CallStep
        <4>2. CASE b # c
          BY <1>2, <4>2
        <4> QED BY <4>1, <4>2
      <3>2. EvicteeSound(d) /\ d.s \in Calls
        BY <1>5 DEF McpInv, PoolSound
      <3>3. close[d.s] => close'[d.s]
        BY <3>2 DEF CallStep
      <3>4. inflight'[KeyOf(d.s)] # d.s
        BY <1>8, <3>2 DEF EvicteeSound
      <3> QED BY <1>2, <1>3, <3>1, <3>2, <3>3, <3>4 DEF EvicteeSound
    <2> QED BY <1>2, <2>1, <2>2, <2>3 DEF PoolSound
  <1>12. AllTended'
    <2> SUFFICES ASSUME NEW s \in Calls, Live(s), ~close'[s], ~ocancel'[s], s \notin dropped'
                 PROVE  Tended(s)'
      BY <1>3 DEF AllTended, Tended
    <2>1. Tended(s) /\ ~close[s] /\ ~ocancel[s] /\ s \notin dropped /\ ready[s] # "error"
      BY DEF McpInv, AllTended, CallStep, CallsSound, OwnerSound
    <2>2. CASE s \in Range(entries)
      BY <1>2, <2>2 DEF Tended
    <2>3. CASE pcall[s].pc = "wait" /\ pcall[s].target = s
      <3>1. pcall'[s].pc = "wait" /\ pcall'[s].target = s
        BY <1>2, <2>1, <2>3 DEF CallStep
      <3> QED BY <3>1 DEF Tended
    <2>4. CASE pcall[s].pc # "unwind" /\ inflight[KeyOf(s)] = s
      <3>1. pcall'[s].pc # "unwind"
        BY <1>2, <2>1, <2>4 DEF CallStep
      <3>2. inflight'[KeyOf(s)] = s
        <4>1. CASE inflight' = inflight
          BY <2>4, <4>1
        <4>2. CASE inflight[KeyOf(c)] = c /\ pcall[c].pc = "unwind"
                   /\ inflight' = [inflight EXCEPT ![KeyOf(c)] = NoCall]
          <5>1. KeyOf(s) # KeyOf(c)
            BY <2>4, <4>2
          <5> QED BY <1>0, <2>4, <4>2, <5>1
        <4> QED BY <4>1, <4>2 DEF CallStep
      <3> QED BY <1>3, <3>1, <3>2 DEF Tended
    <2>5. CASE Listed(s)
      <3>1. PICK b \in Calls : \E d \in Range(pcall[b].evict) : d.s = s
        BY <2>5 DEF Listed
      <3>2. PICK d \in Range(pcall[b].evict) : d.s = s
        BY <3>1
      <3>3. ~d.sent
        BY <2>1, <3>2 DEF McpInv, PoolSound, EvicteeSound
      <3>4. \E e \in Range(pcall'[b].evict) : e.s = s
        BY <1>2, <3>2, <3>3 DEF CallStep
      <3> QED BY <3>4 DEF Tended, Listed
    <2> QED BY <2>1, <2>2, <2>3, <2>4, <2>5 DEF Tended
  <1>13. AllWoken'
    <2> SUFFICES ASSUME NEW s \in Calls, Creating(s)', inflight'[KeyOf(s)] # s PROVE Woken(s)'
      BY <1>3 DEF AllWoken
    <2>1. Creating(s) /\ (s = c => inflight' = inflight)
      BY <1>3 DEF CallStep
    <2>2. inflight[KeyOf(s)] # s
      <3>1. CASE inflight' = inflight
        BY <3>1
      <3>2. CASE inflight[KeyOf(c)] = c /\ inflight' # inflight
        <4>1. s # c /\ (KeyOf(s) = KeyOf(c) => inflight[KeyOf(s)] = c)
          BY <2>1, <3>2
        <4>2. KeyOf(s) # KeyOf(c) => inflight'[KeyOf(s)] = inflight[KeyOf(s)]
          BY <1>0, <1>7
        <4> QED BY <4>1, <4>2
      <3> QED BY <3>1, <3>2 DEF CallStep
    <2>3. Woken(s) /\ loopOpen[LoopOf(s)]
      BY <2>1, <2>2 DEF McpInv, AllWoken, CallsSound, CallSound, Creating, UnderWay
    <2>4. CASE ready[s] # "pending" \/ ocancel[s] \/ owner[s] = "done" \/ s \in dropped
      BY <1>2, <2>4 DEF Woken, CallStep
    <2>5. CASE ToCancel(s)
      <3>1. PICK b \in Calls : \E d \in Range(pcall[b].evict) : d.s = s /\ d.cancel /\ ~d.sent
        BY <2>5 DEF ToCancel
      <3>2. PICK d \in Range(pcall[b].evict) : d.s = s /\ d.cancel /\ ~d.sent
        BY <3>1
      <3>3. \/ s \in dropped' \/ ocancel'[s]
            \/ \E e \in Range(pcall'[b].evict) : e.s = s /\ e.cancel /\ ~e.sent
        BY <1>2, <2>3, <3>2 DEF CallStep
      <3> QED BY <3>3 DEF Woken, ToCancel
    <2> QED BY <2>3, <2>4, <2>5 DEF Woken
  <1> QED BY <1>1, <1>9, <1>10, <1>11, <1>12, <1>13 DEF McpInv


\* A call that ends, and one that goes on, keeps its key and its loop.
LEMMA EndsRecord ==
    ASSUME McpInv, NEW c \in Calls, NEW pc \in {"got", "raised", "closed"}, Ends(c, pc)
    PROVE  \E rec \in PoolCall :
             /\ pcall' = [pcall EXCEPT ![c] = rec]
             /\ rec.pc = pc /\ rec.key = KeyOf(c) /\ rec.loop = LoopOf(c)
             /\ rec.target = NoCall /\ rec.evict = <<>>
  <1>1. pcall \in [Calls -> PoolCall] /\ pcall[c] \in PoolCall
    BY DEF McpInv, McpTypeOK
  <1> DEFINE rec == [pcall[c] EXCEPT !.pc = pc, !.target = NoCall, !.evict = <<>>]
  <1>2. <<>> \in Seq(Evictee)
    OBVIOUS
  <1>3. rec \in PoolCall
    BY <1>1, <1>2 DEF PoolCall
  <1>4. pcall' = [pcall EXCEPT ![c] = rec]
    BY <1>1 DEF Ends, PoolCall
  <1>5. /\ rec.pc = pc /\ rec.key = KeyOf(c) /\ rec.loop = LoopOf(c)
        /\ rec.target = NoCall /\ rec.evict = <<>>
    BY <1>1 DEF PoolCall, KeyOf, LoopOf
  <1> QED BY <1>3, <1>4, <1>5

\* The same for a call that goes on.
LEMMA GoesOnRecord ==
    ASSUME McpInv, NEW c \in Calls, NEW pc \in {"wait", "unwind", "teardown"},
           pcall' = [pcall EXCEPT ![c].pc = pc]
    PROVE  \E rec \in PoolCall :
             /\ pcall' = [pcall EXCEPT ![c] = rec]
             /\ rec.pc = pc /\ rec.key = KeyOf(c) /\ rec.loop = LoopOf(c)
             /\ rec.target = pcall[c].target /\ rec.evict = pcall[c].evict
  <1>1. pcall \in [Calls -> PoolCall] /\ pcall[c] \in PoolCall
    BY DEF McpInv, McpTypeOK
  <1> DEFINE rec == [pcall[c] EXCEPT !.pc = pc]
  <1>3. rec \in PoolCall
    BY <1>1 DEF PoolCall
  <1>4. pcall' = [pcall EXCEPT ![c] = rec]
    BY <1>1 DEF PoolCall
  <1>5. /\ rec.pc = pc /\ rec.key = KeyOf(c) /\ rec.loop = LoopOf(c)
        /\ rec.target = pcall[c].target /\ rec.evict = pcall[c].evict
    BY <1>1 DEF PoolCall, KeyOf, LoopOf
  <1> QED BY <1>3, <1>4, <1>5

\* A call that signals the first of its list, waits for it, and has done them
\* all, does what a call may do.
LEMMA ShutDownActions ==
    ASSUME McpInv, NEW c \in Calls, Signal(c) \/ ShutDown(c) \/ AllShutDown(c)
    PROVE  \E rec : CallStep(c, rec)
  <1>0. /\ pcall \in [Calls -> PoolCall] /\ pcall[c] \in PoolCall
        /\ close \in [Calls -> BOOLEAN] /\ ocancel \in [Calls -> BOOLEAN]
        /\ dropped \subseteq Calls /\ cancels \in 0..MaxCancels
        /\ loopOpen \in [Loops -> BOOLEAN] /\ pcall[c].evict \in Seq(Evictee)
    BY DEF McpInv, McpTypeOK, PoolCall
  <1>1. /\ pcall[c].pc # "evict" => pcall[c].evict = <<>>
        /\ UnderWay(c) => loopOpen[LoopOf(c)]
        /\ pcall[c].pc = "teardown" => pcall[c].target = c
    BY DEF McpInv, CallsSound, CallSound
  <1>2. \A e \in Range(pcall[c].evict) : e \in Evictee /\ e.s \in Calls /\ Listed(e.s)
    BY <1>0, ListTypes DEF Listed
  <1>3. ASSUME Signal(c) PROVE \E rec : CallStep(c, rec)
    <2> DEFINE q == pcall[c].evict
               e == q[1]
               told == [e EXCEPT !.sent = TRUE]
               r == [q EXCEPT ![1] = told]
               rec == [pcall[c] EXCEPT !.evict = r]
    <2>1. q # <<>> /\ pcall[c].pc = "evict" /\ ~e.sent
      BY <1>3 DEF Signal
    <2>2. 1 \in DOMAIN q /\ e \in Range(q) /\ e \in Evictee
      BY <1>0, <2>1, EmptySeq, RangeTail DEF Range
    <2>3. told \in Evictee /\ told.s = e.s /\ told.cancel = e.cancel /\ told.sent
      BY <2>2 DEF Evictee
    <2>4. /\ r \in Seq(Evictee) /\ DOMAIN r = DOMAIN q /\ r[1] = told
          /\ \A j \in DOMAIN q \ {1} : r[j] = q[j]
      BY <1>0, <2>2, <2>3, ReplaceProperties
    <2>5. rec \in PoolCall /\ rec.evict = r /\ rec.pc = "evict" /\ rec.key = KeyOf(c)
          /\ rec.loop = LoopOf(c) /\ rec.target = pcall[c].target
      BY <1>0, <2>1, <2>4 DEF PoolCall, KeyOf, LoopOf
    <2>6. pcall' = [pcall EXCEPT ![c] = rec]
      BY <1>0, <1>3, <2>2 DEF Signal, PoolCall, Evictee
    <2>7. /\ close' \in [Calls -> BOOLEAN] /\ ocancel' \in [Calls -> BOOLEAN]
          /\ \A s \in Calls : (close[s] => close'[s]) /\ (ocancel[s] => ocancel'[s])
          /\ \A s \in Calls \ {e.s} : close'[s] = close[s] /\ ocancel'[s] = ocancel[s]
          /\ loopOpen[LoopOf(e.s)] => close'[e.s] /\ (e.cancel => ocancel'[e.s])
      BY <1>0, <1>3, <2>2 DEF Signal, Evictee
    <2>8. ~loopOpen[LoopOf(e.s)] => ~Live(e.s)
      BY <2>2 DEF McpInv, CallsSound, OwnerSound, Evictee
    <2> HIDE DEF q, e, told, r, rec
    <2>9. ASSUME NEW x \in Range(r)
          PROVE  \E d \in Range(q) : d.s = x.s /\ (x.sent => d.sent \/ close'[x.s] \/ ~Live(x.s))
      <3>1. PICK j \in DOMAIN q : x = r[j]
        BY <2>4 DEF Range
      <3>2. CASE j = 1
        BY <2>2, <2>3, <2>4, <2>7, <2>8, <3>1, <3>2
      <3>3. CASE j # 1
        BY <2>4, <3>1, <3>3 DEF Range
      <3> QED BY <3>2, <3>3
    <2>10. ASSUME NEW d \in Range(q)
           PROVE  /\ \E x \in Range(r) : x.s = d.s
                  /\ d.cancel /\ ~d.sent =>
                        \/ ocancel'[d.s] \/ ~loopOpen[LoopOf(d.s)]
                        \/ \E x \in Range(r) : x.s = d.s /\ x.cancel /\ ~x.sent
      <3>1. PICK j \in DOMAIN q : d = q[j]
        BY DEF Range
      <3>2. r[j] \in Range(r)
        BY <2>4 DEF Range
      <3>3. CASE j = 1
        BY <2>3, <2>4, <2>7, <3>1, <3>2, <3>3 DEF e
      <3>4. CASE j # 1
        BY <2>4, <3>1, <3>2, <3>4
      <3> QED BY <3>3, <3>4
    <2>11. Creating(c)' => Creating(c)
      BY <1>0, <2>1, <2>5, <2>6 DEF Creating
    <2>12. UNCHANGED <<entries, inflight, owner, ready, loopOpen, dropped, cancels>>
      BY <1>3 DEF Signal
    <2>13. Listed(e.s)
      BY <1>2, <2>2 DEF q
    <2>14. CallStep(c, rec)
      BY <1>0, <2>1, <2>5, <2>6, <2>7, <2>9, <2>10, <2>11, <2>12, <2>13 DEF CallStep, UnderWay, q
    <2> QED BY <2>14
  <1>4. ASSUME ShutDown(c) PROVE \E rec : CallStep(c, rec)
    <2> DEFINE q == pcall[c].evict
               rec == [pcall[c] EXCEPT !.evict = Tail(q)]
    <2>1. q # <<>> /\ pcall[c].pc = "evict" /\ q[1].sent
      BY <1>4 DEF ShutDown
    <2>2. Tail(q) \in Seq(Evictee) /\ Range(q) = Range(Tail(q)) \cup {q[1]}
      BY <1>0, <2>1, RangeTail
    <2>3. rec \in PoolCall /\ rec.evict = Tail(q) /\ rec.pc = "evict" /\ rec.key = KeyOf(c)
          /\ rec.loop = LoopOf(c) /\ rec.target = pcall[c].target
      BY <1>0, <2>1, <2>2 DEF PoolCall, KeyOf, LoopOf
    <2>4. pcall' = [pcall EXCEPT ![c] = rec]
      BY <1>0, <1>4 DEF ShutDown, PoolCall
    <2> HIDE DEF q, rec
    <2>5. Creating(c)' => Creating(c)
      BY <1>0, <2>1, <2>3, <2>4 DEF Creating
    <2>6. UNCHANGED <<entries, inflight, ownerVars, loopOpen, dropped, cancels>>
      BY <1>4 DEF ShutDown
    <2>7. CallStep(c, rec)
      BY <1>0, <2>1, <2>2, <2>3, <2>4, <2>5, <2>6 DEF CallStep, UnderWay, q, ownerVars
    <2> QED BY <2>7
  <1>5. ASSUME AllShutDown(c) PROVE \E rec : CallStep(c, rec)
    <2>1. pcall[c].pc = "evict" /\ pcall[c].evict = <<>> /\ Range(pcall[c].evict) = {}
      BY <1>5 DEF AllShutDown, Range
    <2>2. PICK rec \in PoolCall :
             /\ pcall' = [pcall EXCEPT ![c] = rec]
             /\ rec.pc \in {"closed", "wait"} /\ rec.key = KeyOf(c) /\ rec.loop = LoopOf(c)
             /\ rec.target = pcall[c].target /\ rec.evict = <<>>
      <3>1. CASE pcall[c].target = NoCall
        BY <1>5, <3>1, EndsRecord DEF AllShutDown
      <3>2. CASE pcall[c].target # NoCall
        BY <1>5, <2>1, <3>2, GoesOnRecord DEF AllShutDown
      <3> QED BY <3>1, <3>2
    <2>3. Range(rec.evict) = {}
      BY <2>2 DEF Range
    <2>4. Creating(c)' => Creating(c)
      BY <1>0, <2>1, <2>2 DEF Creating
    <2>5. UNCHANGED <<entries, inflight, ownerVars, loopOpen, dropped, cancels>>
      BY <1>5 DEF AllShutDown
    <2>6. CallStep(c, rec)
      BY <1>0, <2>1, <2>2, <2>3, <2>4, <2>5 DEF CallStep, UnderWay, ownerVars
    <2> QED BY <2>6
  <1> QED BY <1>3, <1>4, <1>5


\* A call without a list that goes to a step without one, and stops wanting its
\* session only when the owner knows.
PlainStep(c, rec) ==
    /\ UNCHANGED <<entries, owner, ready, loopOpen, dropped>> /\ cancels' \in 0..MaxCancels
    /\ pcall[c].pc \in {"wait", "unwind", "teardown"} /\ rec.pc \notin {"idle", "evict", "wait"}
    /\ pcall' = [pcall EXCEPT ![c] = rec] /\ rec.key = KeyOf(c) /\ rec.loop = LoopOf(c)
    /\ rec.evict = <<>> /\ rec.target \in {pcall[c].target, NoCall}
    /\ rec.pc = "teardown" => rec.target = c
    /\ inflight' = inflight \/ (PopInflight(c) /\ pcall[c].pc = "unwind")
    /\ \/ UNCHANGED <<close, ocancel>>
       \/ /\ pcall[c].target = c /\ close' \in {close, [close EXCEPT ![c] = TRUE]}
          /\ ocancel' \in {ocancel, [ocancel EXCEPT ![c] = TRUE]}
    /\ pcall[c].pc = "wait" /\ pcall[c].target = c => close'[c] \/ ready[c] = "error"
    /\ rec.pc = "unwind" => pcall[c].pc = "unwind" \/ close'[c] \/ ready[c] = "error"

\* ... is one of the things a call may do.
LEMMA PlainCallStep ==
    ASSUME McpInv, NEW c \in Calls, NEW rec \in PoolCall, PlainStep(c, rec)
    PROVE  CallStep(c, rec)
  <1>0. /\ pcall \in [Calls -> PoolCall] /\ dropped \subseteq Calls
        /\ close \in [Calls -> BOOLEAN] /\ ocancel \in [Calls -> BOOLEAN]
    BY DEF McpInv, McpTypeOK
  <1>1. pcall[c].evict = <<>> /\ Range(pcall[c].evict) = {} /\ Range(rec.evict) = {}
    BY DEF PlainStep, McpInv, CallsSound, CallSound, Range
  <1>2. ~Creating(c)'
    BY <1>0 DEF PlainStep, Creating
  <1>3. /\ close' \in [Calls -> BOOLEAN] /\ ocancel' \in [Calls -> BOOLEAN]
        /\ \A s \in Calls :
              /\ (close[s] => close'[s]) /\ (ocancel[s] => ocancel'[s])
              /\ \/ close'[s] = close[s] /\ ocancel'[s] = ocancel[s]
                 \/ s = c /\ pcall[c].target = c
    BY <1>0 DEF PlainStep
  <1>4. \/ inflight' = inflight
        \/ /\ inflight[KeyOf(c)] = c /\ pcall[c].pc = "unwind"
           /\ inflight' = [inflight EXCEPT ![KeyOf(c)] = NoCall]
    BY DEF PlainStep, PopInflight
  <1> QED BY <1>0, <1>1, <1>2, <1>3, <1>4 DEF PlainStep, CallStep, UnderWay

\* A call that waits for a creation, or for an owner to end, does what a call may do.
LEMMA WaitActions ==
    ASSUME McpInv, NEW c \in Calls,
           Joined(c) \/ CreationFails(c) \/ Unwound(c) \/ (Promote(c) /\ ~StillOurs(c))
    PROVE  \E rec : CallStep(c, rec)
  <1>0. cancels \in 0..MaxCancels /\ (pcall[c].pc # "evict" => pcall[c].evict = <<>>)
        /\ close \in [Calls -> BOOLEAN]
    BY DEF McpInv, McpTypeOK, CallsSound, CallSound
  <1>1. ASSUME Joined(c) PROVE \E rec : CallStep(c, rec)
    <2>1. PICK pc \in {"got", "raised", "closed"} : Ends(c, pc)
      BY <1>1 DEF Joined
    <2>2. PICK rec \in PoolCall :
             /\ pcall' = [pcall EXCEPT ![c] = rec]
             /\ rec.pc = pc /\ rec.key = KeyOf(c) /\ rec.loop = LoopOf(c)
             /\ rec.target = NoCall /\ rec.evict = <<>>
      BY <2>1, EndsRecord
    <2>3. PlainStep(c, rec)
      BY <1>0, <1>1, <2>2, CallNumbers DEF Joined, ownerVars, PlainStep
    <2>4. CallStep(c, rec)
      BY <1>0, <2>2, <2>3, PlainCallStep
    <2> QED BY <2>4
  <1>2. ASSUME CreationFails(c) PROVE \E rec : CallStep(c, rec)
    <2>2. PICK rec \in PoolCall :
             /\ pcall' = [pcall EXCEPT ![c] = rec]
             /\ rec.pc = "unwind" /\ rec.key = KeyOf(c) /\ rec.loop = LoopOf(c)
             /\ rec.target = pcall[c].target /\ rec.evict = pcall[c].evict
      BY <1>2, GoesOnRecord DEF CreationFails
    <2>3. PlainStep(c, rec)
      BY <1>0, <1>2, <2>2 DEF CreationFails, ownerVars, PlainStep
    <2>4. CallStep(c, rec)
      BY <1>0, <2>2, <2>3, PlainCallStep
    <2> QED BY <2>4
  <1>3. ASSUME Unwound(c) PROVE \E rec : CallStep(c, rec)
    <2>2. PICK rec \in PoolCall :
             /\ pcall' = [pcall EXCEPT ![c] = rec]
             /\ rec.pc = "raised" /\ rec.key = KeyOf(c) /\ rec.loop = LoopOf(c)
             /\ rec.target = NoCall /\ rec.evict = <<>>
      BY <1>3, EndsRecord DEF Unwound
    <2>3. PlainStep(c, rec)
      BY <1>0, <1>3, <2>2, CallNumbers DEF Unwound, ownerVars, PlainStep
    <2>4. CallStep(c, rec)
      BY <1>0, <2>2, <2>3, PlainCallStep
    <2> QED BY <2>4
  <1>4. ASSUME Promote(c), ~StillOurs(c) PROVE \E rec : CallStep(c, rec)
    <2>2. PICK rec \in PoolCall :
             /\ pcall' = [pcall EXCEPT ![c] = rec]
             /\ rec.pc = "teardown" /\ rec.key = KeyOf(c) /\ rec.loop = LoopOf(c)
             /\ rec.target = pcall[c].target /\ rec.evict = pcall[c].evict
      BY <1>4, GoesOnRecord DEF Promote
    <2>3. PlainStep(c, rec)
      BY <1>0, <1>4, <2>2 DEF Promote, PlainStep
    <2>4. CallStep(c, rec)
      BY <1>0, <2>2, <2>3, PlainCallStep
    <2> QED BY <2>4
  <1> QED BY <1>1, <1>2, <1>3, <1>4

\* A call that is cancelled does what a call may do.
LEMMA CancelAction ==
    ASSUME McpInv, NEW c \in Calls, CancelCall(c)
    PROVE  \E rec : CallStep(c, rec)
  <1>0. /\ pcall \in [Calls -> PoolCall] /\ pcall[c] \in PoolCall
        /\ close \in [Calls -> BOOLEAN] /\ ocancel \in [Calls -> BOOLEAN]
        /\ dropped \subseteq Calls /\ pcall[c].evict \in Seq(Evictee)
        /\ (pcall[c].pc # "evict" => pcall[c].evict = <<>>)
        /\ (pcall[c].pc = "teardown" => pcall[c].target = c)
    BY DEF McpInv, McpTypeOK, PoolCall, CallsSound, CallSound
  <1>1. cancels' \in 0..MaxCancels /\ UNCHANGED <<entries, owner, ready, loopOpen>>
    BY McpAssumption DEF CancelCall, McpInv, McpTypeOK
  <1> DEFINE q == pcall[c].evict
             e == q[1]
  <1>2. ASSUME pcall[c].pc = "evict", q # <<>>, e.sent, e.wait,
               ocancel' = [ocancel EXCEPT ![e.s] = TRUE], UNCHANGED <<inflight, close>>,
               IF LoopOf(e.s) = LoopOf(c) THEN UNCHANGED <<pcall, dropped>>
               ELSE Ends(c, "raised") /\ dropped' = dropped \cup {b.s : b \in Range(Tail(q))}
        PROVE  \E rec : CallStep(c, rec)
    <2>1. /\ Tail(q) \in Seq(Evictee) /\ Range(q) = Range(Tail(q)) \cup {e} /\ e \in Evictee
          /\ e.s \in Calls
      BY <1>0, <1>2, RangeTail, ListTypes
    <2>2. Listed(e.s) /\ UnderWay(c)
      BY <1>2, <2>1 DEF Listed, UnderWay
    <2>3. /\ ocancel' \in [Calls -> BOOLEAN]
          /\ \A s \in Calls : (ocancel[s] => ocancel'[s])
          /\ \A s \in Calls \ {e.s} : ocancel'[s] = ocancel[s]
      BY <1>0, <1>2, <2>1
    <2>4. CASE UNCHANGED <<pcall, dropped>>
      <3>1. pcall' = [pcall EXCEPT ![c] = pcall[c]] /\ Creating(c)' = Creating(c)
        BY <1>0, <2>4 DEF Creating
      <3> HIDE DEF q, e
      <3>2. CallStep(c, pcall[c])
        BY <1>0, <1>1, <1>2, <2>2, <2>3, <2>4, <3>1 DEF CallStep, KeyOf, LoopOf, UnderWay
      <3> QED BY <3>2
    <2>5. CASE Ends(c, "raised") /\ dropped' = dropped \cup {b.s : b \in Range(Tail(q))}
      <3>1. PICK rec \in PoolCall :
               /\ pcall' = [pcall EXCEPT ![c] = rec]
               /\ rec.pc = "raised" /\ rec.key = KeyOf(c) /\ rec.loop = LoopOf(c)
               /\ rec.target = NoCall /\ rec.evict = <<>>
        BY <2>5, EndsRecord
      <3>2. Range(rec.evict) = {} /\ ~Creating(c)'
        BY <1>0, <3>1 DEF Range, Creating
      <3>3. dropped' \subseteq Calls
        <4>1. \A b \in Range(Tail(q)) : b.s \in Calls
          BY <2>1, EvicteeType
        <4> QED BY <1>0, <2>5, <4>1
      <3>4. \A d \in Range(q) : d.sent \/ d.s \in dropped'
        BY <1>2, <2>1, <2>5
      <3> HIDE DEF q, e
      <3>5. CallStep(c, rec)
        BY <1>0, <1>1, <1>2, <2>2, <2>3, <2>5, <3>1, <3>2, <3>3, <3>4 DEF CallStep, q
      <3> QED BY <3>5
    <2> QED BY <1>2, <2>4, <2>5
  <1>3. ASSUME pcall[c].pc = "wait", pcall[c].target # c, Ends(c, "raised"),
               UNCHANGED <<inflight, close, ocancel, dropped>>
        PROVE  \E rec : CallStep(c, rec)
    <2>1. PICK rec \in PoolCall :
             /\ pcall' = [pcall EXCEPT ![c] = rec]
             /\ rec.pc = "raised" /\ rec.key = KeyOf(c) /\ rec.loop = LoopOf(c)
             /\ rec.target = NoCall /\ rec.evict = <<>>
      BY <1>3, EndsRecord
    <2>2. PlainStep(c, rec)
      BY <1>0, <1>1, <1>3, <2>1 DEF PlainStep
    <2>3. CallStep(c, rec)
      BY <1>0, <2>1, <2>2, PlainCallStep
    <2> QED BY <2>3
  <1>4. ASSUME pcall[c].pc = "wait", pcall[c].target = c, GiveUpCreation(c),
               pcall' = [pcall EXCEPT ![c].pc = "unwind"], UNCHANGED <<inflight, dropped>>
        PROVE  \E rec : CallStep(c, rec)
    <2>1. PICK rec \in PoolCall :
             /\ pcall' = [pcall EXCEPT ![c] = rec]
             /\ rec.pc = "unwind" /\ rec.key = KeyOf(c) /\ rec.loop = LoopOf(c)
             /\ rec.target = pcall[c].target /\ rec.evict = pcall[c].evict
      BY <1>4, GoesOnRecord
    <2>2. PlainStep(c, rec)
      BY <1>0, <1>1, <1>4, <2>1 DEF GiveUpCreation, PlainStep
    <2>3. CallStep(c, rec)
      BY <1>0, <2>1, <2>2, PlainCallStep
    <2> QED BY <2>3
  <1>5. ASSUME pcall[c].pc = "unwind", PopInflight(c), Ends(c, "raised"),
               UNCHANGED <<close, ocancel, dropped>>
        PROVE  \E rec : CallStep(c, rec)
    <2>1. PICK rec \in PoolCall :
             /\ pcall' = [pcall EXCEPT ![c] = rec]
             /\ rec.pc = "raised" /\ rec.key = KeyOf(c) /\ rec.loop = LoopOf(c)
             /\ rec.target = NoCall /\ rec.evict = <<>>
      BY <1>5, EndsRecord
    <2>2. PlainStep(c, rec)
      BY <1>0, <1>1, <1>5, <2>1 DEF PlainStep
    <2>3. CallStep(c, rec)
      BY <1>0, <2>1, <2>2, PlainCallStep
    <2> QED BY <2>3
  <1>6. ASSUME pcall[c].pc = "teardown", ocancel' = [ocancel EXCEPT ![c] = TRUE],
               UNCHANGED <<inflight, pcall, close, dropped>>
        PROVE  \E rec : CallStep(c, rec)
    <2>1. pcall' = [pcall EXCEPT ![c] = pcall[c]]
      BY <1>0, <1>6
    <2>2. PlainStep(c, pcall[c])
      BY <1>0, <1>1, <1>6, <2>1 DEF KeyOf, LoopOf, PlainStep
    <2>3. CallStep(c, pcall[c])
      BY <1>0, <2>1, <2>2, PlainCallStep
    <2> QED BY <2>3
  <1> QED BY <1>2, <1>3, <1>4, <1>5, <1>6 DEF CancelCall


\* The session of a creation that is still in the pool is registered.
LEMMA PromoteInv ==
    ASSUME McpInv, NEW c \in Calls, Promote(c), StillOurs(c)
    PROVE  McpInv'
  <1>0. /\ pcall \in [Calls -> PoolCall] /\ inflight \in [Keys -> Calls \cup {NoCall}]
        /\ \A s \in Calls : KeyOf(s) \in Keys
        /\ close \in [Calls -> BOOLEAN] /\ ocancel \in [Calls -> BOOLEAN]
        /\ entries \in Seq(Calls) /\ Range(entries) \subseteq Calls
        /\ \A i \in DOMAIN entries : entries[i] \in Calls /\ entries[i] \in Range(entries)
    BY DEF McpInv, McpTypeOK, KeyOf, PoolCall, Range
  <1>1. /\ pcall[c].pc = "wait" /\ pcall[c].target = c /\ ready[c] = "session"
        /\ inflight[KeyOf(c)] = c /\ inflight' = [inflight EXCEPT ![KeyOf(c)] = NoCall]
        /\ entries' = Assigned(c) /\ Ends(c, "got")
        /\ UNCHANGED <<close, owner, ready, ocancel, loopOpen, dropped, cancels>>
    BY DEF Promote, StillOurs, PopInflight
  <1>2. PICK rec \in PoolCall :
           /\ pcall' = [pcall EXCEPT ![c] = rec]
           /\ rec.pc = "got" /\ rec.key = KeyOf(c) /\ rec.loop = LoopOf(c)
           /\ rec.target = NoCall /\ rec.evict = <<>>
    BY <1>1, EndsRecord
  <1>3. /\ pcall'[c] = rec /\ \A s \in Calls \ {c} : pcall'[s] = pcall[s]
        /\ \A s \in Calls : KeyOf(s)' = KeyOf(s) /\ LoopOf(s)' = LoopOf(s) /\ Live(s)' = Live(s)
        /\ \A s \in Calls \ {c} : Creating(s)' = Creating(s) /\ UnderWay(s)' = UnderWay(s)
        /\ ~Creating(c)' /\ ~UnderWay(c)' /\ Creating(c)
    BY <1>0, <1>1, <1>2 DEF KeyOf, LoopOf, Creating, UnderWay, Live
  <1>4. /\ \A s \in Range(entries) : EntrySound(s) /\ inflight[KeyOf(s)] = NoCall /\ s # c
        /\ \A s \in Range(entries) : KeyOf(s) # KeyOf(c)
    BY <1>1, CallNumbers DEF McpInv, PoolSound, EntrySound
  <1>5. entries' = Append(entries, c)
    <2>1. Places({KeyOf(c)}) = {}
      BY <1>0, <1>4 DEF Places
    <2> QED BY <1>1, <2>1 DEF Assigned
  <1>6. Range(entries') = Range(entries) \cup {c}
    BY <1>0, <1>5, RangeAppend
  <1>7. McpTypeOK'
    <2>1. inflight' \in [Keys -> Calls \cup {NoCall}] /\ pcall' \in [Calls -> PoolCall]
      BY <1>0, <1>1, <1>2
    <2>2. entries' \in Seq(Calls)
      BY <1>0, <1>5
    <2> QED BY <1>1, <2>1, <2>2 DEF McpInv, McpTypeOK
  <1>8. OneOfAKey'
    <2>1. PICK n \in Nat : n = Len(entries) /\ DOMAIN entries = 1..n
      BY <1>0
    <2>2. /\ DOMAIN entries' = 1..(n + 1) /\ entries'[n + 1] = c
          /\ \A i \in 1..n : entries'[i] = entries[i]
      BY <1>0, <1>5, <2>1, AppendProperties
    <2>3. ASSUME NEW i \in 1..(n + 1), NEW j \in 1..(n + 1),
                 KeyOf(entries'[i]) = KeyOf(entries'[j])
          PROVE  i = j
      <3>1. i \in 1..n \/ i = n + 1
        OBVIOUS
      <3>2. j \in 1..n \/ j = n + 1
        OBVIOUS
      <3>3. \A a \in 1..n : KeyOf(entries'[a]) # KeyOf(c)
        BY <1>0, <1>4, <2>1, <2>2
      <3>4. CASE i \in 1..n /\ j \in 1..n
        BY <2>1, <2>2, <2>3, <3>4 DEF McpInv, OneOfAKey
      <3> QED BY <2>2, <2>3, <3>1, <3>2, <3>3, <3>4
    <2>4. \A i \in DOMAIN entries' : entries'[i] \in Calls
      BY <1>7 DEF McpTypeOK
    <2> QED BY <1>3, <2>2, <2>3, <2>4 DEF OneOfAKey
  <1>9. \A k \in Keys : inflight'[k] = inflight[k] \/ (k = KeyOf(c) /\ inflight'[k] = NoCall)
    BY <1>0, <1>1
  <1>10. \A s \in Calls : inflight'[KeyOf(s)] = s => inflight[KeyOf(s)] = s
    BY <1>0, <1>9, CallNumbers
  <1>11. \A s \in Calls \ {c} : inflight[KeyOf(s)] = s => inflight'[KeyOf(s)] = s
    BY <1>0, <1>1, <1>9
  <1>12. CallsSound'
    <2> SUFFICES ASSUME NEW s \in Calls
                 PROVE  (Owned(s) /\ CallSound(s) /\ OwnerSound(s) /\ CreationSound(s))'
      BY DEF CallsSound
    <2>0. Owned(s) /\ CallSound(s) /\ OwnerSound(s) /\ CreationSound(s)
      BY DEF McpInv, CallsSound
    <2>1. Owned(s)'
      BY <1>1, <1>2, <1>3, <2>0 DEF Owned
    <2>2. CallSound(s)'
      BY <1>1, <1>2, <1>3, <2>0, CallNumbers DEF CallSound
    <2>3. OwnerSound(s)'
      BY <1>1, <1>3, <2>0 DEF OwnerSound
    <2>4. CreationSound(s)'
      BY <1>1, <1>3, <1>10, <2>0 DEF CreationSound
    <2> QED BY <2>1, <2>2, <2>3, <2>4
  <1>13. PoolSound'
    <2>1. ASSUME NEW s \in Range(entries') PROVE EntrySound(s)'
      <3>1. CASE s = c
        <4>1. CallSound(c) /\ CreationSound(c)
          BY DEF McpInv, CallsSound
        <4>2. inflight'[KeyOf(c)] = NoCall
          BY <1>0, <1>1
        <4> QED BY <1>1, <1>2, <1>3, <3>1, <4>1, <4>2 DEF EntrySound, CreationSound, CallSound
      <3>2. CASE s \in Range(entries)
        <4>1. inflight'[KeyOf(s)] = NoCall /\ s \in Calls
          BY <1>0, <1>4, <1>9, <3>2
        <4> QED BY <1>1, <1>3, <1>4, <3>2, <4>1 DEF EntrySound
      <3> QED BY <1>6, <3>1, <3>2
    <2>2. ASSUME NEW k \in Keys PROVE InflightSound(k)'
      <3>1. InflightSound(k) /\ (inflight[k] = NoCall \/ inflight[k] \in Calls)
        BY <1>0 DEF McpInv, PoolSound
      <3> QED BY <1>1, <1>3, <1>9, <3>1 DEF InflightSound
    <2>3. ASSUME NEW b \in Calls, NEW e \in Range(pcall'[b].evict) PROVE EvicteeSound(e)'
      <3>1. b # c /\ e \in Range(pcall[b].evict)
        BY <1>2, <1>3 DEF Range
      <3>2. EvicteeSound(e) /\ e.s \in Calls
        BY <1>0, <3>1, ListTypes DEF McpInv, PoolSound
      <3>3. e.s # c
        BY <1>1, <3>2 DEF EvicteeSound
      <3> QED BY <1>1, <1>3, <1>6, <1>10, <3>2, <3>3 DEF EvicteeSound
    <2> QED BY <2>1, <2>2, <2>3 DEF PoolSound
  <1>14. /\ \A s \in Calls : Listed(s) => Listed(s)'
         /\ \A s \in Calls : ToCancel(s) => ToCancel(s)'
    <2>1. Range(pcall[c].evict) = {}
      BY <1>1 DEF McpInv, CallsSound, CallSound, Range
    <2>2. ASSUME NEW s \in Calls, Listed(s) PROVE Listed(s)'
      BY <1>3, <2>1, <2>2 DEF Listed
    <2>3. ASSUME NEW s \in Calls, ToCancel(s) PROVE ToCancel(s)'
      BY <1>3, <2>1, <2>3 DEF ToCancel
    <2> QED BY <2>2, <2>3
  <1>15. AllTended'
    <2> SUFFICES ASSUME NEW s \in Calls, Live(s) PROVE Tended(s)'
      BY <1>3 DEF AllTended
    <2>1. Tended(s)
      BY DEF McpInv, AllTended
    <2> QED BY <1>1, <1>3, <1>6, <1>11, <1>14, <2>1 DEF Tended
  <1>16. AllWoken'
    <2> SUFFICES ASSUME NEW s \in Calls, Creating(s)', inflight'[KeyOf(s)] # s PROVE Woken(s)'
      BY <1>3 DEF AllWoken
    <2>1. Woken(s)
      BY <1>3, <1>11 DEF McpInv, AllWoken
    <2> QED BY <1>1, <1>14, <2>1 DEF Woken
  <1> QED BY <1>7, <1>8, <1>12, <1>13, <1>15, <1>16 DEF McpInv

-----------------------------------------------------------------------------

\* An owner that is out of the pool after a step.
Out(s) == owner[s] # "none" /\ s \notin Range(entries)' /\ inflight'[KeyOf(s)] # s

\* What a call that begins may do: take entries and creations out of the pool, to
\* shut them down, and add a creation.
BirthStep(c, rec) ==
    /\ UNCHANGED <<ready, loopOpen, dropped, cancels>>
    /\ pcall[c].pc = "idle" /\ rec \in PoolCall /\ pcall' = [pcall EXCEPT ![c] = rec]
    /\ rec.pc \in {"evict", "wait", "got", "closed"} /\ loopOpen[rec.loop]
    /\ rec.pc # "evict" => rec.evict = <<>>
    /\ entries' \in Seq(Calls) /\ Range(entries') \subseteq Range(entries)
    /\ \A i, j \in DOMAIN entries' : KeyOf(entries'[i]) = KeyOf(entries'[j]) => i = j
    /\ inflight' \in [Keys -> Calls \cup {NoCall}]
    /\ close' \in [Calls -> BOOLEAN] /\ ocancel' \in [Calls -> BOOLEAN]
    /\ \/ /\ owner' = owner /\ rec.target # c
          /\ \A k \in Keys : inflight'[k] \in {inflight[k], NoCall}
       \/ /\ owner' = [owner EXCEPT ![c] = "new"] /\ rec.target = c /\ inflight'[rec.key] = c
          /\ \A k \in Keys \ {rec.key} : inflight'[k] \in {inflight[k], NoCall}
          /\ \A s \in Range(entries') : KeyOf(s) # rec.key
    /\ \A s \in Calls :
          /\ (close[s] => close'[s]) /\ (ocancel[s] => ocancel'[s])
          /\ (close'[s] = close[s] /\ ocancel'[s] = ocancel[s]) \/ Out(s)
    /\ \A e \in Range(rec.evict) : ~e.sent /\ Out(e.s)
    /\ \A s \in Range(entries) \ Range(entries') :
          close'[s] \/ ~loopOpen[LoopOf(s)] \/ \E e \in Range(rec.evict) : e.s = s
    /\ \A k \in Keys :
          inflight[k] # NoCall /\ inflight'[k] # inflight[k] =>
              \/ ocancel'[inflight[k]] \/ ~loopOpen[LoopOf(inflight[k])]
              \/ \E e \in Range(rec.evict) : e.s = inflight[k] /\ e.cancel

\* ... which keeps the invariant.
LEMMA BirthStepInv ==
    ASSUME McpInv, NEW c \in Calls, NEW rec, BirthStep(c, rec)
    PROVE  McpInv'
  <1>0. /\ pcall \in [Calls -> PoolCall] /\ inflight \in [Keys -> Calls \cup {NoCall}]
        /\ \A s \in Calls : KeyOf(s) \in Keys
        /\ close \in [Calls -> BOOLEAN] /\ ocancel \in [Calls -> BOOLEAN]
        /\ owner \in [Calls -> OwnerPc]
        /\ Range(entries) \subseteq Calls /\ rec \in PoolCall /\ rec.key \in Keys
    BY DEF McpInv, McpTypeOK, KeyOf, PoolCall, Range, BirthStep
  <1>1. McpTypeOK'
    <2>1. pcall' \in [Calls -> PoolCall] /\ owner' \in [Calls -> OwnerPc]
      BY <1>0 DEF BirthStep, OwnerPc
    <2> QED BY <2>1 DEF McpInv, McpTypeOK, BirthStep
  <1>2. /\ pcall'[c] = rec /\ \A s \in Calls \ {c} : pcall'[s] = pcall[s]
        /\ ready' = ready /\ loopOpen' = loopOpen /\ dropped' = dropped
        /\ \A s \in Calls \ {c} : owner'[s] = owner[s]
    BY <1>0 DEF BirthStep
  <1>3. /\ \A s \in Calls \ {c} : KeyOf(s)' = KeyOf(s) /\ LoopOf(s)' = LoopOf(s)
        /\ \A s \in Calls \ {c} : Live(s)' = Live(s)
        /\ \A s \in Calls \ {c} : Creating(s)' = Creating(s) /\ UnderWay(s)' = UnderWay(s)
        /\ KeyOf(c)' = rec.key /\ LoopOf(c)' = rec.loop
    BY <1>2 DEF KeyOf, LoopOf, Creating, UnderWay, Live
  <1>4. owner[c] = "none" /\ ready[c] = "pending" /\ ~close[c] /\ ~ocancel[c] /\ ~Live(c)
    BY DEF BirthStep, McpInv, CallsSound, Owned, Live
  <1>5. \A s \in Range(entries) : s # c /\ s \in Calls /\ EntrySound(s)
    BY <1>0, <1>4 DEF McpInv, PoolSound, EntrySound
  <1>6. \A k \in Keys : inflight[k] # c /\ InflightSound(k)
    BY <1>4 DEF McpInv, PoolSound, InflightSound, NoCall, Calls
  <1>7. Range(pcall[c].evict) = {} /\ pcall[c].evict = <<>>
    BY DEF McpInv, CallsSound, CallSound, BirthStep, Range
  <1>8. \A b \in Calls : \A e \in Range(pcall[b].evict) : EvicteeSound(e) /\ e.s \in Calls /\ e.s # c
    <2>1. \A b \in Calls : \A e \in Range(pcall[b].evict) : e.s \in Calls
      BY <1>0, ListTypes
    <2> QED BY <1>4, <2>1 DEF McpInv, PoolSound, EvicteeSound
  <1>9. \A e \in Range(rec.evict) : e.s \in Calls /\ e.s # c /\ ~e.sent /\ Out(e.s)
    <2>1. \A e \in Range(rec.evict) : e.s \in Calls
      <3>1. rec.evict \in Seq(Evictee)
        BY <1>0 DEF PoolCall
      <3> QED BY <3>1, EvicteeType
    <2> QED BY <1>4, <2>1 DEF BirthStep, Out
  <1>10. close'[c] = close[c] /\ ocancel'[c] = ocancel[c]
    BY <1>4 DEF BirthStep, Out
  <1>11. \A k \in Keys : inflight'[k] \in {inflight[k], NoCall, c}
    BY DEF BirthStep
  <1>12. OneOfAKey'
    <2>1. \A i \in DOMAIN entries' : entries'[i] \in Calls /\ entries'[i] # c
      <3>1. \A i \in DOMAIN entries' : entries'[i] \in Range(entries')
        BY DEF Range
      <3> QED BY <1>5, <3>1 DEF BirthStep
    <2> QED BY <1>3, <2>1 DEF OneOfAKey, BirthStep
  <1>13. CallsSound'
    <2> SUFFICES ASSUME NEW s \in Calls
                 PROVE  (Owned(s) /\ CallSound(s) /\ OwnerSound(s) /\ CreationSound(s))'
      BY DEF CallsSound
    <2>0. Owned(s) /\ CallSound(s) /\ OwnerSound(s) /\ CreationSound(s)
      BY DEF McpInv, CallsSound
    <2>1. CASE s = c
      <3>1. pcall'[c].pc # "idle" /\ (pcall'[c].pc # "evict" => pcall'[c].evict = <<>>)
            /\ pcall'[c].pc # "teardown" /\ loopOpen[rec.loop]
        BY <1>2 DEF BirthStep
      <3>2. owner'[c] = "none" \/ owner'[c] = "new"
        BY <1>0, <1>4 DEF BirthStep
      <3>3. rec.target = c => owner'[c] # "none"
        BY <1>0 DEF BirthStep
      <3>4. Owned(c)'
        BY <1>2, <1>4, <1>10, <3>1 DEF Owned
      <3>5. CallSound(c)'
        BY <1>2, <1>3, <3>1, <3>3 DEF CallSound
      <3>6. OwnerSound(c)'
        BY <1>2, <1>3, <1>4, <3>1 DEF OwnerSound
      <3>7. CreationSound(c)'
        BY <1>2, <1>4, <1>10 DEF CreationSound
      <3> QED BY <2>1, <3>4, <3>5, <3>6, <3>7
    <2>2. CASE s # c
      <3>1. (close'[s] = close[s] /\ ocancel'[s] = ocancel[s]) \/ Out(s)
        BY DEF BirthStep
      <3>2. Owned(s)'
        BY <1>2, <2>0, <2>2, <3>1 DEF Owned, Out
      <3>3. CallSound(s)'
        BY <1>2, <1>3, <2>0, <2>2 DEF CallSound
      <3>4. OwnerSound(s)'
        BY <1>2, <1>3, <2>0, <2>2 DEF OwnerSound
      <3>5. CreationSound(s)'
        <4> SUFFICES ASSUME Creating(s), inflight'[KeyOf(s)] = s
                     PROVE  /\ ~close'[s] /\ ~ocancel'[s]
                            /\ ready[s] = "session" => owner[s] = "open"
          BY <1>2, <1>3, <2>2 DEF CreationSound
        <4>1. inflight[KeyOf(s)] = s
          BY <1>0, <1>11, <2>2, CallNumbers
        <4>2. close'[s] = close[s] /\ ocancel'[s] = ocancel[s]
          BY <3>1 DEF Out
        <4> QED BY <2>0, <4>1, <4>2 DEF CreationSound
      <3> QED BY <3>2, <3>3, <3>4, <3>5
    <2> QED BY <2>1, <2>2
  <1>14. PoolSound'
    <2>1. ASSUME NEW s \in Range(entries') PROVE EntrySound(s)'
      <3>1. s \in Range(entries) /\ s \in Calls /\ s # c /\ EntrySound(s)
        BY <1>5 DEF BirthStep
      <3>2. close'[s] = close[s] /\ ocancel'[s] = ocancel[s]
        BY <3>1 DEF BirthStep, Out
      <3>3. inflight'[KeyOf(s)] = NoCall
        BY <1>0, <3>1 DEF BirthStep, EntrySound
      <3> QED BY <1>2, <1>3, <3>1, <3>2, <3>3 DEF EntrySound
    <2>2. ASSUME NEW k \in Keys PROVE InflightSound(k)'
      <3>1. InflightSound(k) /\ (inflight[k] = NoCall \/ inflight[k] \in Calls) /\ inflight[k] # c
        BY <1>0, <1>6
      <3>2. CASE inflight'[k] = c
        <4>1. rec.key = k /\ owner'[c] = "new"
          BY <1>0, <3>1, <3>2, CallNumbers DEF BirthStep
        <4> QED BY <1>3, <3>2, <4>1 DEF InflightSound
      <3>3. CASE inflight'[k] # c
        BY <1>2, <1>3, <1>11, <3>1, <3>3 DEF InflightSound
      <3> QED BY <3>2, <3>3
    <2>3. ASSUME NEW b \in Calls, NEW e \in Range(pcall'[b].evict) PROVE EvicteeSound(e)'
      <3>1. CASE b = c
        <4>1. e.s \in Calls /\ e.s # c /\ ~e.sent /\ Out(e.s)
          BY <1>2, <1>9, <3>1
        <4> QED BY <1>2, <1>3, <4>1 DEF EvicteeSound, Out
      <3>2. CASE b # c
        <4>1. EvicteeSound(e) /\ e.s \in Calls /\ e.s # c
          BY <1>2, <1>8, <3>2
        <4>2. (close[e.s] => close'[e.s]) /\ e.s \notin Range(entries')
          BY <4>1 DEF BirthStep, EvicteeSound
        <4>3. inflight'[KeyOf(e.s)] # e.s
          BY <1>0, <1>11, <4>1, CallNumbers DEF EvicteeSound
        <4> QED BY <1>2, <1>3, <4>1, <4>2, <4>3 DEF EvicteeSound
      <3> QED BY <3>1, <3>2
    <2> QED BY <2>1, <2>2, <2>3 DEF PoolSound
  <1>15. /\ \A s \in Calls : Listed(s) \/ (\E e \in Range(rec.evict) : e.s = s) => Listed(s)'
         /\ \A s \in Calls :
               ToCancel(s) \/ (\E e \in Range(rec.evict) : e.s = s /\ e.cancel) => ToCancel(s)'
    <2>1. ASSUME NEW s \in Calls, Listed(s) \/ (\E e \in Range(rec.evict) : e.s = s)
          PROVE  Listed(s)'
      BY <1>2, <1>7, <2>1 DEF Listed
    <2>2. ASSUME NEW s \in Calls,
                 ToCancel(s) \/ (\E e \in Range(rec.evict) : e.s = s /\ e.cancel)
          PROVE  ToCancel(s)'
      BY <1>2, <1>7, <1>9, <2>2 DEF ToCancel
    <2> QED BY <2>1, <2>2
  <1>16. AllTended'
    <2> SUFFICES ASSUME NEW s \in Calls, Live(s)' PROVE Tended(s)'
      BY DEF AllTended
    <2>1. CASE s = c
      <3>1. owner'[c] # "none"
        BY <2>1 DEF Live
      <3>2. inflight'[rec.key] = c /\ rec.pc # "unwind"
        BY <1>4, <3>1 DEF BirthStep
      <3> QED BY <1>2, <1>3, <2>1, <3>2 DEF Tended
    <2>2. CASE s # c
      <3>1. Live(s) /\ Tended(s) /\ loopOpen[LoopOf(s)]
        BY <1>3, <2>2 DEF McpInv, AllTended, CallsSound, OwnerSound
      <3>2. (close[s] => close'[s]) /\ (ocancel[s] => ocancel'[s])
        BY DEF BirthStep
      <3>3. CASE s \in Range(entries)
        <4>1. s \in Range(entries') \/ close'[s] \/ Listed(s)'
          BY <1>15, <3>1, <3>3 DEF BirthStep
        <4> QED BY <4>1 DEF Tended
      <3>4. CASE pcall[s].pc # "unwind" /\ inflight[KeyOf(s)] = s
        <4>0. KeyOf(s) \in Keys /\ inflight[KeyOf(s)] # NoCall
          BY <1>0, <3>4, CallNumbers
        <4>1. \/ inflight'[KeyOf(s)] = s \/ ocancel'[s]
              \/ \E e \in Range(rec.evict) : e.s = s /\ e.cancel
          BY <3>1, <3>4, <4>0 DEF BirthStep
        <4>2. inflight'[KeyOf(s)] = s \/ ocancel'[s] \/ Listed(s)'
          BY <1>15, <4>1
        <4> QED BY <1>2, <1>3, <2>2, <3>4, <4>2 DEF Tended
      <3> QED BY <1>2, <1>15, <2>2, <3>1, <3>2, <3>3, <3>4 DEF Tended
    <2> QED BY <2>1, <2>2
  <1>17. AllWoken'
    <2> SUFFICES ASSUME NEW s \in Calls, Creating(s)', (inflight[KeyOf(s)] # s)' PROVE Woken(s)'
      BY DEF AllWoken
    <2>1. s # c
      <3>1. CASE rec.target = c
        BY <1>3, <3>1 DEF BirthStep
      <3>2. CASE rec.target # c
        BY <1>2, <3>2 DEF Creating
      <3> QED BY <3>1, <3>2
    <2>2. Creating(s) /\ inflight'[KeyOf(s)] # s /\ loopOpen[LoopOf(s)]
      BY <1>3, <2>1 DEF McpInv, CallsSound, CallSound, Creating, UnderWay
    <2>3. CASE inflight[KeyOf(s)] # s
      <3>1. Woken(s) /\ (ocancel[s] => ocancel'[s])
        BY <2>2, <2>3 DEF McpInv, AllWoken, BirthStep
      <3> QED BY <1>2, <1>15, <2>1, <3>1 DEF Woken
    <2>4. CASE inflight[KeyOf(s)] = s
      <3>1. ocancel'[s] \/ ToCancel(s)'
        BY <1>0, <1>15, <2>2, <2>4, CallNumbers DEF BirthStep
      <3> QED BY <3>1 DEF Woken
    <2> QED BY <2>3, <2>4
  <1> QED BY <1>1, <1>12, <1>13, <1>14, <1>16, <1>17 DEF McpInv

-----------------------------------------------------------------------------

\* The entries at places of the dict, in order.
LEMMA AtProperties ==
    ASSUME McpInv, NEW I \in SUBSET DOMAIN entries, NEW f \in Ascending(I)
    PROVE  /\ At(f) \in Seq(Calls) /\ DOMAIN At(f) = DOMAIN f
           /\ \A i \in DOMAIN f : f[i] \in I /\ At(f)[i] = entries[f[i]]
           /\ Range(At(f)) = {entries[i] : i \in I}
           /\ \A i, j \in DOMAIN At(f) : KeyOf(At(f)[i]) = KeyOf(At(f)[j]) => i = j
  <1>1. PICK n \in Nat : DOMAIN entries = 1..n /\ \A i \in 1..n : entries[i] \in Calls
    BY DEF McpInv, McpTypeOK
  <1>2. IsFiniteSet(I)
    BY <1>1, FS_Interval, FS_Subset
  <1>3. PICK m \in Nat : m = Cardinality(I)
    BY <1>2, FS_CardinalityType
  <1>4. /\ f \in [1..m -> I] /\ \A i, j \in 1..m : f[i] = f[j] => i = j
        /\ \A x \in I : \E i \in 1..m : f[i] = x
    BY <1>3 DEF Ascending, Bijection, Injection, Surjection, IsInjective
  <1>5. DOMAIN f = 1..m /\ \A i \in 1..m : f[i] \in I /\ entries[f[i]] \in Calls
    BY <1>1, <1>4
  <1>6. At(f) = [i \in 1..m |-> entries[f[i]]]
    BY <1>5 DEF At
  <1>7. At(f) \in Seq(Calls) /\ DOMAIN At(f) = 1..m
    BY <1>5, <1>6
  <1>8. Range(At(f)) = {entries[i] : i \in I}
    BY <1>4, <1>5, <1>6 DEF Range
  <1>9. ASSUME NEW i \in 1..m, NEW j \in 1..m, KeyOf(At(f)[i]) = KeyOf(At(f)[j]) PROVE i = j
    <2>1. f[i] = f[j]
      BY <1>1, <1>5, <1>6, <1>9 DEF McpInv, OneOfAKey
    <2> QED BY <1>4, <2>1
  <1> QED BY <1>5, <1>6, <1>7, <1>8, <1>9

\* An owner put on a list has not been told yet.
LEMMA EvicteesMade ==
    ASSUME NEW s \in Calls, NEW l \in Loops
    PROVE  /\ EvictEntry(s, l) \in Evictee /\ EvictEntry(s, l).s = s /\ ~EvictEntry(s, l).sent
           /\ EvictClosed(s) \in Evictee /\ EvictClosed(s).s = s /\ ~EvictClosed(s).sent
           /\ EvictInflight(s) \in Evictee /\ EvictInflight(s).s = s
           /\ ~EvictInflight(s).sent /\ EvictInflight(s).cancel
  BY DEF EvictEntry, EvictClosed, EvictInflight, Evictee

\* The list of the entries that get_session shuts down.
LEMMA EvictEntryList ==
    ASSUME NEW q \in Seq(Calls), NEW n \in 0..Len(q), NEW l \in Loops
    PROVE  /\ [i \in 1..n |-> EvictEntry(q[i], l)] \in Seq(Evictee)
           /\ \A x \in Range([i \in 1..n |-> EvictEntry(q[i], l)]) : ~x.sent /\ \E i \in 1..n : x.s = q[i]
           /\ \A i \in 1..n : \E x \in Range([j \in 1..n |-> EvictEntry(q[j], l)]) : x.s = q[i]
  <1>1. n \in Nat /\ \A i \in 1..n : q[i] \in Calls
    OBVIOUS
  <1>2. \A s \in Calls : /\ EvictEntry(s, l) \in Evictee /\ EvictEntry(s, l).s = s
                         /\ ~EvictEntry(s, l).sent
    BY EvicteesMade, McpAssumption
  <1> QED BY <1>1, <1>2 DEF Range

\* The list of the entries that close_* shut down.
LEMMA EvictClosedList ==
    ASSUME NEW q \in Seq(Calls), NEW n \in 0..Len(q)
    PROVE  /\ [i \in 1..n |-> EvictClosed(q[i])] \in Seq(Evictee)
           /\ \A x \in Range([i \in 1..n |-> EvictClosed(q[i])]) : ~x.sent /\ \E i \in 1..n : x.s = q[i]
           /\ \A i \in 1..n : \E x \in Range([j \in 1..n |-> EvictClosed(q[j])]) : x.s = q[i]
  <1>1. n \in Nat /\ \A i \in 1..n : q[i] \in Calls
    OBVIOUS
  <1>2. \A s \in Calls : /\ EvictClosed(s) \in Evictee /\ EvictClosed(s).s = s
                         /\ ~EvictClosed(s).sent
    BY EvicteesMade, McpAssumption
  <1> QED BY <1>1, <1>2 DEF Range

\* The list of the creations that are shut down.
LEMMA EvictInflightList ==
    ASSUME NEW q \in Seq(Calls), NEW n \in 0..Len(q)
    PROVE  /\ [i \in 1..n |-> EvictInflight(q[i])] \in Seq(Evictee)
           /\ \A x \in Range([i \in 1..n |-> EvictInflight(q[i])]) : ~x.sent /\ \E i \in 1..n : x.s = q[i]
           /\ \A i \in 1..n : \E x \in Range([j \in 1..n |-> EvictInflight(q[j])]) : x.s = q[i] /\ x.cancel
  <1>1. n \in Nat /\ \A i \in 1..n : q[i] \in Calls
    OBVIOUS
  <1>2. \A s \in Calls : /\ EvictInflight(s) \in Evictee /\ EvictInflight(s).s = s
                         /\ ~EvictInflight(s).sent /\ EvictInflight(s).cancel
    BY EvicteesMade, McpAssumption
  <1> QED BY <1>1, <1>2 DEF Range

\* Who is in the pool has an owner, which is not a call that has not begun.
LEMMA PoolMembers ==
    ASSUME McpInv, NEW c \in Calls, pcall[c].pc = "idle"
    PROVE  /\ owner[c] = "none" /\ close[c] = FALSE /\ ocancel[c] = FALSE
           /\ \A s \in Range(entries) : /\ s \in Calls /\ s # c /\ owner[s] # "none"
                                        /\ KeyOf(s) \in Keys /\ inflight[KeyOf(s)] = NoCall
           /\ \A k \in Keys : inflight[k] # NoCall =>
                 /\ inflight[k] \in Calls /\ inflight[k] # c /\ owner[inflight[k]] # "none"
                 /\ KeyOf(inflight[k]) = k
  <1>1. owner[c] = "none" /\ ~close[c] /\ ~ocancel[c]
    BY DEF McpInv, CallsSound, Owned
  <1>2. close[c] \in BOOLEAN /\ ocancel[c] \in BOOLEAN
    BY DEF McpInv, McpTypeOK
  <1>3. ASSUME NEW s \in Range(entries)
        PROVE  /\ s \in Calls /\ s # c /\ owner[s] # "none"
               /\ KeyOf(s) \in Keys /\ inflight[KeyOf(s)] = NoCall
    <2>1. s \in Calls
      BY DEF McpInv, McpTypeOK, Range
    <2>2. KeyOf(s) \in Keys
      BY <2>1 DEF McpInv, McpTypeOK, KeyOf, PoolCall
    <2> QED BY <1>1, <2>1, <2>2 DEF McpInv, PoolSound, EntrySound
  <1>4. ASSUME NEW k \in Keys, inflight[k] # NoCall
        PROVE  /\ inflight[k] \in Calls /\ inflight[k] # c /\ owner[inflight[k]] # "none"
               /\ KeyOf(inflight[k]) = k
    <2>1. inflight[k] \in Calls
      BY <1>4 DEF McpInv, McpTypeOK
    <2> QED BY <1>1, <1>4, <2>1 DEF McpInv, PoolSound, InflightSound
  <1> QED BY <1>1, <1>2, <1>3, <1>4

\* A call that finds its session does what a call that begins may do.
LEMMA GetExistingAction ==
    ASSUME McpInv, NEW c \in Calls, NEW k \in Keys, NEW l \in Loops, GetExisting(c, k, l)
    PROVE  \E rec : BirthStep(c, rec)
  <1> DEFINE rec == [Unborn EXCEPT !.pc = "got", !.key = k, !.loop = l]
             P == Places({k})
  <1>0. /\ pcall[c].pc = "idle" /\ loopOpen[l] /\ pcall' = [pcall EXCEPT ![c] = rec]
        /\ UNCHANGED <<inflight, ownerVars, loopOpen, dropped, cancels>>
    BY DEF GetExisting, Begins
  <1>1. PICK i \in P, f \in Ascending(DOMAIN entries \ P) :
           entries' = Append(At(f), entries[i])
    BY DEF GetExisting
  <1>2. /\ rec \in PoolCall /\ rec.pc = "got" /\ rec.loop = l /\ rec.evict = <<>>
        /\ rec.target = NoCall
    BY UnbornType DEF PoolCall, Unborn
  <1>3. P \subseteq DOMAIN entries /\ KeyOf(entries[i]) = k /\ entries[i] \in Range(entries)
    BY DEF Places, Range
  <1>4. PICK left \in Seq(Calls) :
           /\ left = At(f) /\ Range(left) = {entries[j] : j \in DOMAIN entries \ P}
           /\ \A a, b \in DOMAIN left : KeyOf(left[a]) = KeyOf(left[b]) => a = b
    <2> HIDE DEF P
    <2>1. DOMAIN entries \ P \in SUBSET DOMAIN entries
      OBVIOUS
    <2>2. /\ At(f) \in Seq(Calls) /\ Range(At(f)) = {entries[j] : j \in DOMAIN entries \ P}
          /\ \A a, b \in DOMAIN At(f) : KeyOf(At(f)[a]) = KeyOf(At(f)[b]) => a = b
      BY <2>1, AtProperties
    <2> QED BY <2>2
  <1>5. entries[i] \in Calls
    BY <1>0, <1>3, PoolMembers
  <1>6. entries' \in Seq(Calls) /\ Range(entries') = Range(left) \cup {entries[i]}
    <2> HIDE DEF P, rec
    <2>0. PICK x \in Calls : x = entries[i]
      BY <1>5
    <2>1. Range(Append(left, x)) = Range(left) \cup {x}
      BY RangeAppend
    <2>2. Append(left, entries[i]) \in Seq(Calls)
      BY <1>4, <1>5
    <2> QED BY <1>1, <1>4, <2>0, <2>1, <2>2
  <1>7. Range(entries') \subseteq Range(entries)
    BY <1>3, <1>4, <1>6 DEF Range
  <1>8. ASSUME NEW s \in Range(entries) PROVE s \in Range(entries')
    <2>1. PICK j \in DOMAIN entries : s = entries[j]
      BY DEF Range
    <2>2. CASE j \in P
      <3>1. j = i
        BY <1>3, <2>2 DEF McpInv, OneOfAKey, Places
      <3> QED BY <1>6, <2>1, <3>1
    <2>3. CASE j \notin P
      BY <1>4, <1>6, <2>1, <2>3
    <2> QED BY <2>2, <2>3
  <1>9. \A a, b \in DOMAIN entries' : KeyOf(entries'[a]) = KeyOf(entries'[b]) => a = b
    <2>1. PICK n \in Nat : n = Len(left) /\ DOMAIN left = 1..n
      BY <1>4
    <2>2. /\ DOMAIN entries' = 1..(n + 1) /\ entries'[n + 1] = entries[i]
          /\ \A a \in 1..n : entries'[a] = left[a]
      BY <1>1, <1>4, <1>5, <2>1, AppendProperties
    <2>3. \A a \in 1..n : KeyOf(entries'[a]) # k
      <3>1. ASSUME NEW a \in 1..n PROVE KeyOf(left[a]) # k
        <4>1. left[a] \in Range(left)
          BY <2>1 DEF Range
        <4>2. PICK j \in DOMAIN entries \ P : left[a] = entries[j]
          BY <1>4, <4>1
        <4> QED BY <4>2 DEF Places
      <3> QED BY <2>2, <3>1
    <2>4. ASSUME NEW a \in 1..(n + 1), NEW b \in 1..(n + 1),
                 KeyOf(entries'[a]) = KeyOf(entries'[b])
          PROVE  a = b
      <3>1. a \in 1..n \/ a = n + 1
        OBVIOUS
      <3>2. b \in 1..n \/ b = n + 1
        OBVIOUS
      <3>3. CASE a \in 1..n /\ b \in 1..n
        BY <1>4, <2>1, <2>2, <2>4, <3>3
      <3> QED BY <1>3, <2>2, <2>3, <2>4, <3>1, <3>2, <3>3
    <2> QED BY <2>2, <2>4
  <1>10. /\ inflight' \in [Keys -> Calls \cup {NoCall}]
         /\ close' \in [Calls -> BOOLEAN] /\ ocancel' \in [Calls -> BOOLEAN]
    BY <1>0 DEF McpInv, McpTypeOK, ownerVars
  <1>11. Range(rec.evict) = {} /\ rec.target # c
    BY <1>2, CallNumbers DEF Range
  <1> HIDE DEF rec, P
  <1>12. BirthStep(c, rec)
    BY <1>0, <1>2, <1>6, <1>7, <1>8, <1>9, <1>10, <1>11 DEF BirthStep, ownerVars
  <1> QED BY <1>12

\* A call of close_all_sync does what a call that begins may do.
LEMMA CloseAllSyncAction ==
    ASSUME McpInv, NEW c \in Calls, NEW l \in Loops, CloseAllSync(c, l)
    PROVE  \E rec : BirthStep(c, rec)
  <1> DEFINE rec == [Unborn EXCEPT !.pc = "closed", !.loop = l]
             flying == {inflight[k] : k \in Keys} \ {NoCall}
             all == {s \in Range(entries) \cup flying : loopOpen[LoopOf(s)]}
  <1>0. /\ pcall[c].pc = "idle" /\ loopOpen[l] /\ pcall' = [pcall EXCEPT ![c] = rec]
        /\ entries' = <<>> /\ inflight' = [k \in Keys |-> NoCall]
        /\ close' = [s \in Calls |-> close[s] \/ s \in all]
        /\ ocancel' = [s \in Calls |-> ocancel[s] \/ s \in flying \cap all]
        /\ UNCHANGED <<owner, ready, loopOpen, dropped, cancels>>
    BY DEF CloseAllSync, Begins
  <1>1. /\ rec \in PoolCall /\ rec.pc = "closed" /\ rec.loop = l /\ rec.evict = <<>>
        /\ rec.target = NoCall
    BY UnbornType DEF PoolCall, Unborn
  <1>2. Range(rec.evict) = {} /\ rec.target # c
    BY <1>1, CallNumbers DEF Range
  <1>3. entries' \in Seq(Calls) /\ Range(entries') = {} /\ DOMAIN entries' = {}
    BY <1>0 DEF Range
  <1>4. /\ inflight' \in [Keys -> Calls \cup {NoCall}]
        /\ close' \in [Calls -> BOOLEAN] /\ ocancel' \in [Calls -> BOOLEAN]
        /\ close \in [Calls -> BOOLEAN] /\ ocancel \in [Calls -> BOOLEAN]
    BY <1>0 DEF McpInv, McpTypeOK
  <1>5. ASSUME NEW s \in all PROVE Out(s) /\ s \in Calls
    <2>1. owner[s] # "none" /\ s \in Calls
      <3>1. CASE s \in Range(entries)
        BY <1>0, <3>1, PoolMembers
      <3>2. CASE s \in flying
        <4>1. PICK k \in Keys : s = inflight[k] /\ inflight[k] # NoCall
          BY <3>2
        <4> QED BY <1>0, <4>1, PoolMembers
      <3> QED BY <3>1, <3>2
    <2>2. KeyOf(s) \in Keys
      BY <2>1 DEF McpInv, McpTypeOK, KeyOf, PoolCall
    <2>3. inflight'[KeyOf(s)] # s
      BY <1>0, <2>1, <2>2, CallNumbers
    <2> QED BY <1>3, <2>1, <2>3 DEF Out
  <1>6. ASSUME NEW s \in Range(entries) PROVE close'[s] \/ ~loopOpen[LoopOf(s)]
    <2>1. s \in Calls
      BY <1>0, PoolMembers
    <2> QED BY <1>0, <2>1
  <1>7. ASSUME NEW k \in Keys, inflight[k] # NoCall
        PROVE  ocancel'[inflight[k]] \/ ~loopOpen[LoopOf(inflight[k])]
    <2>1. inflight[k] \in Calls /\ inflight[k] \in flying
      BY <1>0, <1>7, PoolMembers
    <2> QED BY <1>0, <2>1
  <1>8. \A s \in Calls :
          /\ (close[s] => close'[s]) /\ (ocancel[s] => ocancel'[s])
          /\ (close'[s] = close[s] /\ ocancel'[s] = ocancel[s]) \/ s \in all
    BY <1>0, <1>4
  <1>9. \A k \in Keys : inflight'[k] = NoCall
    BY <1>0
  <1> HIDE DEF rec, flying, all
  <1>10. BirthStep(c, rec)
    BY <1>0, <1>1, <1>2, <1>3, <1>4, <1>5, <1>6, <1>7, <1>8, <1>9 DEF BirthStep
  <1> QED BY <1>10

\* A call that creates a session, or joins its creation, does what a call that
\* begins may do.
LEMMA GetCreateAction ==
    ASSUME McpInv, NEW c \in Calls, NEW k \in Keys, NEW l \in Loops, GetCreate(c, k, l)
    PROVE  \E rec : BirthStep(c, rec)
  <1> DEFINE P == Places({k})
             old == inflight[k]
             join == old # NoCall /\ LoopOf(old) = l
             stale == IF old # NoCall /\ ~join THEN <<EvictInflight(old)>> ELSE <<>>
  <1>0. /\ pcall[c].pc = "idle" /\ loopOpen[l]
        /\ UNCHANGED <<ready, close, ocancel, loopOpen, dropped, cancels>>
        /\ inflight \in [Keys -> Calls \cup {NoCall}] /\ close \in [Calls -> BOOLEAN]
        /\ ocancel \in [Calls -> BOOLEAN] /\ P \subseteq DOMAIN entries
    BY DEF GetCreate, Begins, McpInv, McpTypeOK, Places
  <1>1. PICK f \in Ascending(P), g \in Ascending(DOMAIN entries \ P) :
           GetCreateFrom(c, k, l, At(f), At(g))
    BY DEF GetCreate
  <1>2. PICK found \in Seq(Calls) :
           found = At(f) /\ Range(found) = {entries[j] : j \in P}
    <2> HIDE DEF P
    <2>1. P \in SUBSET DOMAIN entries
      BY <1>0
    <2>2. At(f) \in Seq(Calls) /\ Range(At(f)) = {entries[j] : j \in P}
      BY <2>1, AtProperties
    <2> QED BY <2>2
  <1>3. PICK left \in Seq(Calls) :
           /\ left = At(g) /\ Range(left) = {entries[j] : j \in DOMAIN entries \ P}
           /\ \A a, b \in DOMAIN left : KeyOf(left[a]) = KeyOf(left[b]) => a = b
    <2> HIDE DEF P
    <2>1. DOMAIN entries \ P \in SUBSET DOMAIN entries
      OBVIOUS
    <2>2. /\ At(g) \in Seq(Calls) /\ Range(At(g)) = {entries[j] : j \in DOMAIN entries \ P}
          /\ \A a, b \in DOMAIN At(g) : KeyOf(At(g)[a]) = KeyOf(At(g)[b]) => a = b
      BY <2>1, AtProperties
    <2> QED BY <2>2
  <1>4. /\ \A s \in Range(found) : s \in Range(entries) /\ KeyOf(s) = k
        /\ \A s \in Range(left) : s \in Range(entries) /\ KeyOf(s) # k
        /\ \A s \in Range(entries) : s \in Range(found) \/ s \in Range(left)
    BY <1>2, <1>3 DEF Places, Range
  <1>5. PICK m \in Nat : m = Len(left) /\ DOMAIN left = 1..m
    BY <1>3
  <1>6. PICK n \in 0..m : n = Surplus(left)
    <2>1. Surplus(left) = IF m >= MaxSessions THEN m - MaxSessions + 1 ELSE 0
      BY <1>5 DEF Surplus
    <2>2. (IF m >= MaxSessions THEN m - MaxSessions + 1 ELSE 0) \in 0..m
      BY McpAssumption
    <2> QED BY <2>1, <2>2
  <1>7. PICK w \in Nat : w = Len(found) /\ DOMAIN found = 1..w
    BY <1>2
  <1> DEFINE evictA == [i \in 1..w |-> EvictEntry(found[i], l)]
             evictC == [i \in 1..n |-> EvictEntry(left[i], l)]
             evict == evictA \o stale \o evictC
             rec == [pc |-> IF evict = <<>> THEN "wait" ELSE "evict",
                     key |-> k, loop |-> l, target |-> IF join THEN old ELSE c,
                     evict |-> evict]
  <1>8. /\ entries' = SubSeq(left, n + 1, m)
        /\ inflight' = IF join THEN inflight ELSE [inflight EXCEPT ![k] = c]
        /\ owner' = IF join THEN owner ELSE [owner EXCEPT ![c] = "new"]
        /\ pcall' = [pcall EXCEPT ![c] = rec]
    BY <1>1, <1>2, <1>3, <1>5, <1>6, <1>7 DEF GetCreateFrom
  <1>9. /\ entries' \in Seq(Calls) /\ DOMAIN entries' = 1..(m - n)
        /\ \A j \in 1..(m - n) : n + j \in 1..m /\ entries'[j] = left[n + j]
    <2> HIDE DEF rec, evict, evictA, evictC, stale, join, old, P
    <2>1. n + 1 \in 1..(m + 1) /\ n \in Nat /\ n <= m
      OBVIOUS
    <2>2. /\ SubSeq(left, n + 1, m) \in Seq(Calls) /\ Len(SubSeq(left, n + 1, m)) = m - n
          /\ \A j \in 1..(m - n) : SubSeq(left, n + 1, m)[j] = left[n + j]
      BY <1>5, <2>1, SubSeqProperties
    <2>3. \A j \in 1..(m - n) : n + j \in 1..m
      BY <2>1
    <2> QED BY <1>8, <2>2, <2>3, SMTT(30)
  <1>10. /\ \A a, b \in DOMAIN entries' : KeyOf(entries'[a]) = KeyOf(entries'[b]) => a = b
         /\ Range(entries') \subseteq Range(left)
         /\ \A i \in 1..n : left[i] \notin Range(entries')
         /\ \A s \in Range(left) : s \in Range(entries') \/ \E i \in 1..n : s = left[i]
    <2> HIDE DEF rec, evict, evictA, evictC, stale, join, old, P
    <2>1. ASSUME NEW a \in 1..(m - n), NEW b \in 1..(m - n),
                 KeyOf(entries'[a]) = KeyOf(entries'[b])
          PROVE  a = b
      <3>0. /\ n + a \in 1..m /\ entries'[a] = left[n + a]
            /\ n + b \in 1..m /\ entries'[b] = left[n + b]
        BY <1>9
      <3>1. n + a = n + b
        BY <1>3, <1>5, <2>1, <3>0
      <3> QED BY <3>1
    <2>2. Range(entries') \subseteq Range(left)
      BY <1>5, <1>9 DEF Range
    <2>3. ASSUME NEW i \in 1..n, left[i] \in Range(entries') PROVE FALSE
      <3>1. PICK j \in 1..(m - n) : left[i] = left[n + j] /\ n + j \in 1..m
        BY <1>9, <2>3 DEF Range
      <3>2. i = n + j
        BY <1>3, <1>5, <3>1
      <3> QED BY <3>2
    <2>4. ASSUME NEW s \in Range(left), s \notin Range(entries')
          PROVE  \E i \in 1..n : s = left[i]
      <3>1. PICK i \in 1..m : s = left[i]
        BY <1>5 DEF Range
      <3>2. CASE i \in 1..n
        BY <3>1, <3>2
      <3>3. CASE i \notin 1..n
        <4>1. PICK j \in 1..(m - n) : i = n + j
          <5>1. i - n \in 1..(m - n) /\ i = n + (i - n)
            BY <3>3
          <5> QED BY <5>1
        <4>2. s = entries'[j]
          BY <1>9, <3>1, <4>1
        <4> QED BY <1>9, <2>4, <4>2 DEF Range
      <3> QED BY <3>2, <3>3
    <2> QED BY <1>9, <2>1, <2>2, <2>3, <2>4
  <1>11. /\ evictA \in Seq(Evictee)
         /\ \A x \in Range(evictA) : ~x.sent /\ x.s \in Range(found)
         /\ \A s \in Range(found) : \E x \in Range(evictA) : x.s = s
    <2>1. w \in 0..Len(found)
      BY <1>7
    <2>2. /\ evictA \in Seq(Evictee)
          /\ \A x \in Range(evictA) : ~x.sent /\ \E i \in 1..w : x.s = found[i]
          /\ \A i \in 1..w : \E x \in Range(evictA) : x.s = found[i]
      BY <2>1, EvictEntryList
    <2> HIDE DEF rec, evict, evictA, evictC, stale, join, old, P
    <2>3. /\ \A i \in 1..w : found[i] \in Range(found)
          /\ \A s \in Range(found) : \E i \in 1..w : s = found[i]
      BY <1>7 DEF Range
    <2>4. ASSUME NEW x \in Range(evictA) PROVE ~x.sent /\ x.s \in Range(found)
      <3>1. PICK i \in 1..w : x.s = found[i]
        BY <2>2
      <3> QED BY <2>2, <2>3, <3>1
    <2> QED BY <2>2, <2>3, <2>4
  <1>12. /\ evictC \in Seq(Evictee)
         /\ \A x \in Range(evictC) : ~x.sent /\ \E i \in 1..n : x.s = left[i]
         /\ \A i \in 1..n : \E x \in Range(evictC) : x.s = left[i]
    <2> HIDE DEF rec, evict, evictA, stale, join, old, P
    <2>1. n \in 0..Len(left)
      BY <1>5
    <2>2. /\ [i \in 1..n |-> EvictEntry(left[i], l)] \in Seq(Evictee)
          /\ \A x \in Range([i \in 1..n |-> EvictEntry(left[i], l)]) :
                ~x.sent /\ \E i \in 1..n : x.s = left[i]
          /\ \A i \in 1..n :
                \E x \in Range([j \in 1..n |-> EvictEntry(left[j], l)]) : x.s = left[i]
      BY <2>1, EvictEntryList
    <2> QED BY <2>2
  <1>13. /\ stale \in Seq(Evictee)
         /\ \A x \in Range(stale) : ~x.sent /\ x.s = old /\ old # NoCall /\ ~join
         /\ old # NoCall /\ ~join => \E x \in Range(stale) : x.s = old /\ x.cancel
    <2>1. CASE old # NoCall /\ ~join
      <3>1. old \in Calls
        BY <1>0, <2>1
      <3>2. PICK x \in Evictee : x = EvictInflight(old) /\ x.s = old /\ ~x.sent /\ x.cancel
        <4> HIDE DEF old
        <4> QED BY <3>1, EvicteesMade
      <3>3. stale = <<x>> /\ Range(stale) = {x}
        BY <2>1, <3>2 DEF Range
      <3> HIDE DEF stale
      <3> QED BY <2>1, <3>2, <3>3
    <2>2. CASE ~(old # NoCall /\ ~join)
      <3>1. stale = <<>> /\ Range(stale) = {}
        BY <2>2 DEF Range
      <3> HIDE DEF stale
      <3> QED BY <2>2, <3>1
    <2> QED BY <2>1, <2>2
  <1> HIDE DEF evictA, evictC, stale
  <1>14. evict \in Seq(Evictee) /\ Range(evict) = Range(evictA) \cup Range(stale) \cup Range(evictC)
    <2>1. /\ evictA \o stale \in Seq(Evictee)
          /\ Range(evictA \o stale) = Range(evictA) \cup Range(stale)
      BY <1>11, <1>13, RangeConcat
    <2>2. /\ (evictA \o stale) \o evictC \in Seq(Evictee)
          /\ Range((evictA \o stale) \o evictC) = Range(evictA \o stale) \cup Range(evictC)
      <3>1. PICK q \in Seq(Evictee) : q = evictA \o stale
        BY <2>1
      <3>2. q \o evictC \in Seq(Evictee) /\ Range(q \o evictC) = Range(q) \cup Range(evictC)
        BY <1>12, RangeConcat
      <3> QED BY <3>1, <3>2
    <2> QED BY <2>1, <2>2
  <1> HIDE DEF evict
  <1>15. /\ rec \in PoolCall /\ rec.pc \in {"evict", "wait"} /\ rec.key = k /\ rec.loop = l
         /\ rec.evict = evict /\ (rec.pc # "evict" => evict = <<>>)
         /\ join => rec.target = old
         /\ ~join => rec.target = c
    BY <1>0, <1>14 DEF PoolCall
  <1> HIDE DEF rec
  <1>16. /\ old # NoCall => old \in Calls /\ old # c /\ owner[old] # "none" /\ KeyOf(old) = k
         /\ \A s \in Range(entries) : /\ s \in Calls /\ s # c /\ owner[s] # "none"
                                      /\ KeyOf(s) \in Keys /\ inflight[KeyOf(s)] = NoCall
    BY <1>0, PoolMembers
  <1>17. ASSUME NEW x \in Range(evict) PROVE ~x.sent /\ Out(x.s)
    <2>1. CASE x \in Range(evictA)
      <3>1. ~x.sent /\ x.s \in Range(entries) /\ KeyOf(x.s) = k /\ x.s \notin Range(left)
        BY <1>4, <1>11, <2>1
      <3>2. old = NoCall /\ inflight' = [inflight EXCEPT ![k] = c]
        BY <1>8, <1>16, <3>1
      <3>3. inflight'[KeyOf(x.s)] # x.s
        BY <1>0, <1>16, <3>1, <3>2
      <3> QED BY <1>10, <1>16, <3>1, <3>3 DEF Out
    <2>2. CASE x \in Range(stale)
      <3>1. ~x.sent /\ x.s = old /\ old # NoCall /\ ~join
        BY <1>13, <2>2
      <3>2. inflight'[k] = c
        BY <1>0, <1>8, <3>1
      <3>3. old \notin Range(entries')
        BY <1>4, <1>10, <1>16, <3>1
      <3> QED BY <1>16, <3>1, <3>2, <3>3 DEF Out
    <2>3. CASE x \in Range(evictC)
      <3>1. PICK i \in 1..n : ~x.sent /\ x.s = left[i]
        BY <1>12, <2>3
      <3>2. x.s \in Range(left) /\ x.s \notin Range(entries')
        BY <1>5, <1>10, <3>1 DEF Range
      <3>3. x.s \in Range(entries) /\ KeyOf(x.s) # k
        BY <1>4, <3>2
      <3>4. inflight'[KeyOf(x.s)] # x.s
        BY <1>0, <1>8, <1>16, <3>3, CallNumbers
      <3> QED BY <1>16, <3>1, <3>2, <3>3, <3>4 DEF Out
    <2> QED BY <1>14, <2>1, <2>2, <2>3
  <1>18. ASSUME NEW s \in Range(entries) \ Range(entries')
         PROVE  \E x \in Range(evict) : x.s = s
    <2>1. CASE s \in Range(found)
      BY <1>11, <1>14, <2>1
    <2>2. CASE s \in Range(left)
      BY <1>10, <1>12, <1>14, <2>2
    <2> QED BY <1>4, <2>1, <2>2
  <1>19. ASSUME NEW k2 \in Keys, inflight[k2] # NoCall, inflight'[k2] # inflight[k2]
         PROVE  \E x \in Range(evict) : x.s = inflight[k2] /\ x.cancel
    <2>1. k2 = k /\ ~join
      BY <1>0, <1>8, <1>19
    <2> QED BY <1>13, <1>14, <1>19, <2>1
  <1>20. \/ /\ owner' = owner /\ rec.target # c
            /\ \A k2 \in Keys : inflight'[k2] \in {inflight[k2], NoCall}
         \/ /\ owner' = [owner EXCEPT ![c] = "new"] /\ rec.target = c /\ inflight'[rec.key] = c
            /\ \A k2 \in Keys \ {rec.key} : inflight'[k2] \in {inflight[k2], NoCall}
            /\ \A s \in Range(entries') : KeyOf(s) # rec.key
    <2>1. CASE join
      BY <1>8, <1>15, <1>16, <2>1
    <2>2. CASE ~join
      BY <1>0, <1>4, <1>8, <1>10, <1>15, <2>2
    <2> QED BY <2>1, <2>2
  <1>21. inflight' \in [Keys -> Calls \cup {NoCall}] /\ Range(entries') \subseteq Range(entries)
    BY <1>0, <1>4, <1>8, <1>10
  <1> HIDE DEF join, old, P
  <1>22. BirthStep(c, rec)
    BY <1>0, <1>8, <1>9, <1>10, <1>15, <1>17, <1>18, <1>19, <1>20, <1>21 DEF BirthStep
  <1> QED BY <1>22

\* A call of close_scope, close_server or close_all does what a call that begins
\* may do.
LEMMA CloseKeysAction ==
    ASSUME McpInv, NEW c \in Calls, NEW keys \in SUBSET Keys, NEW l \in Loops, CloseKeys(c, keys, l)
    PROVE  \E rec : BirthStep(c, rec)
  <1> DEFINE P == Places(keys)
             flying == {inflight[k] : k \in keys} \ {NoCall}
  <1>0. /\ pcall[c].pc = "idle" /\ loopOpen[l]
        /\ UNCHANGED <<ownerVars, loopOpen, dropped, cancels>>
        /\ inflight \in [Keys -> Calls \cup {NoCall}] /\ close \in [Calls -> BOOLEAN]
        /\ inflight' = [k \in Keys |-> IF k \in keys THEN NoCall ELSE inflight[k]]
        /\ ocancel \in [Calls -> BOOLEAN] /\ P \subseteq DOMAIN entries
    BY DEF CloseKeys, Begins, McpInv, McpTypeOK, Places
  <1>1. PICK mine \in Ascending(P), begun \in Ascending(flying) :
           pcall' = [pcall EXCEPT ![c] = [Unborn EXCEPT !.pc = "evict", !.loop = l,
              !.evict = [i \in DOMAIN mine |-> EvictClosed(entries[mine[i]])]
                        \o [i \in DOMAIN begun |-> EvictInflight(begun[i])]]]
    BY DEF CloseKeys
  <1>2. PICK g \in Ascending(DOMAIN entries \ P) : entries' = At(g)
    BY DEF CloseKeys
  <1>3. /\ \A s \in Range(entries) : /\ s \in Calls /\ s # c /\ owner[s] # "none"
                                     /\ KeyOf(s) \in Keys /\ inflight[KeyOf(s)] = NoCall
        /\ \A k \in Keys : inflight[k] # NoCall =>
               /\ inflight[k] \in Calls /\ inflight[k] # c /\ owner[inflight[k]] # "none"
               /\ KeyOf(inflight[k]) = k
    BY <1>0, PoolMembers
  <1>4. PICK found \in Seq(Calls) :
           /\ found = At(mine) /\ Range(found) = {entries[j] : j \in P}
           /\ DOMAIN found = DOMAIN mine
           /\ \A i \in DOMAIN mine : found[i] = entries[mine[i]]
    <2> HIDE DEF P, flying
    <2>1. P \in SUBSET DOMAIN entries
      BY <1>0
    <2>2. /\ At(mine) \in Seq(Calls) /\ Range(At(mine)) = {entries[j] : j \in P}
          /\ DOMAIN At(mine) = DOMAIN mine
          /\ \A i \in DOMAIN mine : At(mine)[i] = entries[mine[i]]
      BY <2>1, AtProperties
    <2> QED BY <2>2
  <1>5. /\ entries' \in Seq(Calls) /\ Range(entries') = {entries[j] : j \in DOMAIN entries \ P}
        /\ \A a, b \in DOMAIN entries' : KeyOf(entries'[a]) = KeyOf(entries'[b]) => a = b
    <2> HIDE DEF P, flying
    <2>1. DOMAIN entries \ P \in SUBSET DOMAIN entries
      OBVIOUS
    <2>2. /\ At(g) \in Seq(Calls) /\ Range(At(g)) = {entries[j] : j \in DOMAIN entries \ P}
          /\ \A a, b \in DOMAIN At(g) : KeyOf(At(g)[a]) = KeyOf(At(g)[b]) => a = b
      BY <2>1, AtProperties
    <2> QED BY <1>2, <2>2
  <1>6. /\ \A s \in Range(found) : s \in Range(entries) /\ KeyOf(s) \in keys
        /\ \A s \in Range(entries') : s \in Range(entries) /\ KeyOf(s) \notin keys
        /\ \A s \in Range(entries) : s \in Range(found) \/ s \in Range(entries')
    BY <1>4, <1>5 DEF Places, Range
  <1>7. begun \in Seq(Calls) /\ Range(begun) = flying
    <2>1. flying \subseteq Calls
      BY <1>3
    <2>2. IsFiniteSet(Calls)
      BY McpAssumption, FS_Interval DEF Calls
    <2> HIDE DEF flying
    <2>3. PICK m \in Nat : m = Cardinality(flying)
      BY <2>1, <2>2, FS_Subset, FS_CardinalityType
    <2>4. begun \in [1..m -> flying] /\ \A x \in flying : \E i \in 1..m : begun[i] = x
      BY <2>3 DEF Ascending, Bijection, Injection, Surjection
    <2> QED BY <2>1, <2>4 DEF Range
  <1>8. PICK w \in Nat : w = Len(found) /\ DOMAIN mine = 1..w
    BY <1>4
  <1>9. PICK v \in Nat : v = Len(begun) /\ DOMAIN begun = 1..v
    BY <1>7
  <1> DEFINE evictA == [i \in 1..w |-> EvictClosed(found[i])]
             evictB == [i \in 1..v |-> EvictInflight(begun[i])]
             evict == evictA \o evictB
             rec == [Unborn EXCEPT !.pc = "evict", !.loop = l, !.evict = evict]
  <1>10. pcall' = [pcall EXCEPT ![c] = rec]
    <2>1. [i \in DOMAIN mine |-> EvictClosed(entries[mine[i]])] = evictA
      BY <1>4, <1>8
    <2>2. [i \in DOMAIN begun |-> EvictInflight(begun[i])] = evictB
      BY <1>9
    <2> HIDE DEF evictA, evictB
    <2> QED BY <1>1, <2>1, <2>2
  <1>11. /\ evictA \in Seq(Evictee)
         /\ \A x \in Range(evictA) : ~x.sent /\ x.s \in Range(found)
         /\ \A s \in Range(found) : \E x \in Range(evictA) : x.s = s
    <2> HIDE DEF P, flying
    <2>1. w \in 0..Len(found)
      BY <1>8
    <2>2. /\ evictA \in Seq(Evictee)
          /\ \A x \in Range(evictA) : ~x.sent /\ \E i \in 1..w : x.s = found[i]
          /\ \A i \in 1..w : \E x \in Range(evictA) : x.s = found[i]
      BY <2>1, EvictClosedList
    <2> HIDE DEF rec, evict, evictA, evictB
    <2>3. /\ \A i \in 1..w : found[i] \in Range(found)
          /\ \A s \in Range(found) : \E i \in 1..w : s = found[i]
      BY <1>4, <1>8 DEF Range
    <2>4. ASSUME NEW x \in Range(evictA) PROVE ~x.sent /\ x.s \in Range(found)
      <3>1. PICK i \in 1..w : x.s = found[i]
        BY <2>2
      <3> QED BY <2>2, <2>3, <3>1
    <2> QED BY <2>2, <2>3, <2>4
  <1>12. /\ evictB \in Seq(Evictee)
         /\ \A x \in Range(evictB) : ~x.sent /\ x.s \in flying
         /\ \A s \in flying : \E x \in Range(evictB) : x.s = s /\ x.cancel
    <2> HIDE DEF P, flying
    <2>1. v \in 0..Len(begun)
      BY <1>9
    <2>2. /\ evictB \in Seq(Evictee)
          /\ \A x \in Range(evictB) : ~x.sent /\ \E i \in 1..v : x.s = begun[i]
          /\ \A i \in 1..v : \E x \in Range(evictB) : x.s = begun[i] /\ x.cancel
      BY <1>7, <2>1, EvictInflightList
    <2> HIDE DEF rec, evict, evictA, evictB
    <2>3. /\ \A i \in 1..v : begun[i] \in flying
          /\ \A s \in flying : \E i \in 1..v : s = begun[i]
      BY <1>7, <1>9 DEF Range
    <2>4. ASSUME NEW x \in Range(evictB) PROVE ~x.sent /\ x.s \in flying
      <3>1. PICK i \in 1..v : x.s = begun[i]
        BY <2>2
      <3> QED BY <2>2, <2>3, <3>1
    <2> QED BY <2>2, <2>3, <2>4
  <1> HIDE DEF evictA, evictB, P
  <1>13. evict \in Seq(Evictee) /\ Range(evict) = Range(evictA) \cup Range(evictB)
    BY <1>11, <1>12, RangeConcat
  <1> HIDE DEF evict
  <1>14. /\ rec \in PoolCall /\ rec.pc = "evict" /\ rec.loop = l /\ rec.evict = evict
         /\ rec.target = NoCall
    BY <1>13, UnbornType DEF PoolCall, Unborn
  <1> HIDE DEF rec
  <1>15. \A k \in Keys : inflight'[k] = IF k \in keys THEN NoCall ELSE inflight[k]
    BY <1>0
  <1>16. ASSUME NEW x \in Range(evict) PROVE ~x.sent /\ Out(x.s)
    <2>1. CASE x \in Range(evictA)
      <3>1. ~x.sent /\ x.s \in Range(entries) /\ x.s \notin Range(entries')
        BY <1>6, <1>11, <2>1
      <3>2. inflight'[KeyOf(x.s)] # x.s
        BY <1>3, <1>15, <3>1, CallNumbers
      <3> QED BY <1>3, <3>1, <3>2 DEF Out
    <2>2. CASE x \in Range(evictB)
      <3>1. PICK k \in keys : x.s = inflight[k] /\ inflight[k] # NoCall /\ ~x.sent
        BY <1>12, <2>2
      <3>2. x.s \notin Range(entries') /\ inflight'[KeyOf(x.s)] = NoCall
        BY <1>3, <1>6, <1>15, <3>1
      <3> QED BY <1>3, <3>1, <3>2 DEF Out
    <2> QED BY <1>13, <2>1, <2>2
  <1>17. ASSUME NEW s \in Range(entries) \ Range(entries')
         PROVE  \E x \in Range(evict) : x.s = s
    BY <1>6, <1>11, <1>13
  <1>18. ASSUME NEW k \in Keys, inflight[k] # NoCall, inflight'[k] # inflight[k]
         PROVE  \E x \in Range(evict) : x.s = inflight[k] /\ x.cancel
    <2>1. inflight[k] \in flying
      BY <1>15, <1>18
    <2> QED BY <1>12, <1>13, <2>1
  <1>19. /\ inflight' \in [Keys -> Calls \cup {NoCall}] /\ Range(entries') \subseteq Range(entries)
         /\ \A k \in Keys : inflight'[k] \in {inflight[k], NoCall}
    BY <1>0, <1>6, <1>15
  <1>20. rec.target # c
    BY <1>14, CallNumbers
  <1> HIDE DEF flying
  <1>21. BirthStep(c, rec)
    BY <1>0, <1>5, <1>10, <1>14, <1>16, <1>17, <1>18, <1>19, <1>20 DEF BirthStep, ownerVars
  <1> QED BY <1>21

\* Every step of the pool keeps the invariant.
LEMMA McpNextInv == ASSUME McpInv, [McpNext]_poolVars PROVE McpInv'
  <1>1. ASSUME NEW c \in Calls, NEW l \in Loops, NEW k \in Keys,
               GetExisting(c, k, l) \/ GetCreate(c, k, l)
        PROVE  McpInv'
    BY <1>1, GetExistingAction, GetCreateAction, BirthStepInv
  <1>2. ASSUME NEW c \in Calls, NEW l \in Loops, CloseAllSync(c, l) PROVE McpInv'
    BY <1>2, CloseAllSyncAction, BirthStepInv
  <1>3. ASSUME NEW c \in Calls, NEW l \in Loops, NEW keys \in SUBSET Keys, CloseKeys(c, keys, l)
        PROVE  McpInv'
    BY <1>3, CloseKeysAction, BirthStepInv
  <1>4. ASSUME NEW c \in Calls, CallNext(c) PROVE McpInv'
    <2>1. CASE Signal(c) \/ ShutDown(c) \/ AllShutDown(c)
      BY <2>1, ShutDownActions, CallStepInv
    <2>2. CASE Joined(c) \/ CreationFails(c) \/ Unwound(c)
      BY <2>2, WaitActions, CallStepInv
    <2>3. CASE Promote(c) /\ StillOurs(c)
      BY <2>3, PromoteInv
    <2>4. CASE Promote(c) /\ ~StillOurs(c)
      BY <2>4, WaitActions, CallStepInv
    <2> QED BY <1>4, <2>1, <2>2, <2>3, <2>4 DEF CallNext
  <1>5. ASSUME NEW c \in Calls, CancelCall(c) PROVE McpInv'
    BY <1>5, CancelAction, CallStepInv
  <1>6. ASSUME \/ \E s \in Calls : OwnerNext(s) \/ ServerAnswers(s) \/ ServerFails(s)
               \/ \E l \in Loops : LoopEnds(l)
        PROVE  McpInv'
    BY <1>6, OwnerActions, OwnerStepInv
  <1>7. CASE UNCHANGED poolVars
    BY <1>7 DEF poolVars, McpInv, McpTypeOK, OneOfAKey, CallsSound, PoolSound, AllTended, AllWoken,
        Owned, CallSound, OwnerSound, CreationSound, EntrySound, InflightSound, EvicteeSound, Tended,
        Woken, Listed, ToCancel, Live, UnderWay, Creating, KeyOf, LoopOf
  <1> QED BY <1>1, <1>2, <1>3, <1>4, <1>5, <1>6, <1>7 DEF McpNext

\* The invariant is what the properties of the pool are about.
LEMMA McpInvImplies == McpInv => RegisteredIsLive /\ NoSessionLeaks /\ PreemptedIsWoken
  <1> SUFFICES ASSUME McpInv PROVE RegisteredIsLive /\ NoSessionLeaks /\ PreemptedIsWoken
    OBVIOUS
  <1>1. RegisteredIsLive
    BY DEF McpInv, PoolSound, EntrySound, OneOfAKey, RegisteredIsLive
  <1>2. NoSessionLeaks
    BY DEF McpInv, AllTended, Live, Tended, Listed, NoSessionLeaks
  <1>3. PreemptedIsWoken
    <2> SUFFICES ASSUME NEW c \in Calls, pcall[c].pc = "wait", pcall[c].target = c,
                        inflight[KeyOf(c)] # c
                 PROVE  \/ ready[c] # "pending" \/ ocancel[c]
                        \/ Stillborn(c) \/ c \in dropped \/ ToCancel(c)
      BY DEF PreemptedIsWoken, ToCancel
    <2>1. Woken(c)
      BY DEF McpInv, AllWoken, Creating
    <2> QED BY <2>1 DEF Woken, Stillborn
  <1> QED BY <1>1, <1>2, <1>3

\* The invariant holds in every state of the pool.
LEMMA McpInvHolds == McpSpec => []McpInv
  <1>1. McpInit => McpInv
    BY McpInitInv
  <1>2. McpInv /\ [McpNext]_poolVars => McpInv'
    BY McpNextInv
  <1> QED BY <1>1, <1>2, PTL DEF McpSpec

\* MCPSessionPool, for every number of calls, keys, loops and sessions: what
\* get_session would hand out is open and nobody has told its owner to close it,
\* a key has one session, and every variable has its type.
THEOREM RegisteredIsLiveHolds == McpSpec => [](RegisteredIsLive /\ McpTypeOK)
  <1>1. McpInv => RegisteredIsLive /\ McpTypeOK
    BY McpInvImplies DEF McpInv
  <1> QED BY <1>1, McpInvHolds, PTL

\* No open session is forgotten, but one that a cancelled call was to shut down:
\* the pool, its creator or a call that closes it knows of it.
THEOREM NoSessionLeaksHolds == McpSpec => []NoSessionLeaks
  BY McpInvImplies, McpInvHolds, PTL

\* A call of get_session whose creation was taken out of the pool is told so by
\* its owner, or the owner is to be cancelled.
THEOREM PreemptedIsWokenHolds == McpSpec => []PreemptedIsWoken
  BY McpInvImplies, McpInvHolds, PTL

=============================================================================
