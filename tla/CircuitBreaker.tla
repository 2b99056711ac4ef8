--------------------------- MODULE CircuitBreaker ---------------------------
(***************************************************************************)
(* Retries and the circuit breaker around model calls:                     *)
(* LLMErrorHandlingMiddleware.  One instance serves all calls of an agent, *)
(* from the threads and tasks it runs in; its lock makes each access to    *)
(* the breaker one step.                                                   *)
(***************************************************************************)
EXTENDS Naturals, FiniteSets

CONSTANTS
    ModelCalls,     \* calls of wrap_model_call or awrap_model_call
    Threshold,      \* failure_threshold
    Budgets         \* attempts for an exception: retry_max_attempts or its override

ASSUME BreakerAssumption == Threshold \in Nat \ {0} /\ Budgets \subseteq Nat \ {0}

VARIABLES
    circuit,    \* the breaker
    mcall,      \* where each call stands
    wasted      \* history: a probe ended without a word to the breaker

breakerVars == <<circuit, mcall, wasted>>

\* over: the time until which the circuit is open has passed.
Circuit == [state : {"closed", "open", "half_open"}, failures : 0..Threshold,
            over : BOOLEAN, probing : BOOLEAN]

\* probe: the call was let through by a half-open circuit.
ModelCall == [pc : {"idle", "calling"},
              attempt : {n \in Nat : n <= 1 \/ \E budget \in Budgets : n <= budget},
              probe : BOOLEAN]

\* Every variable has its type.  The code goes on counting beyond the threshold,
\* and only ever compares with it.
BreakerTypeOK ==
    /\ circuit \in Circuit
    /\ mcall \in [ModelCalls -> ModelCall]
    /\ wasted \in BOOLEAN

BreakerInit ==
    /\ circuit = [state |-> "closed", failures |-> 0, over |-> FALSE, probing |-> FALSE]
    /\ mcall = [c \in ModelCalls |-> [pc |-> "idle", attempt |-> 0, probe |-> FALSE]]
    /\ wasted = FALSE

-----------------------------------------------------------------------------

\* _check_circuit moves an open circuit to half-open when its time is over.
HalfOpened ==
    IF circuit.state = "open" /\ circuit.over
    THEN [circuit EXCEPT !.state = "half_open", !.probing = FALSE] ELSE circuit

\* _check_circuit returns True.
FastFail ==
    \/ HalfOpened.state = "open"
    \/ HalfOpened.state = "half_open" /\ HalfOpened.probing

\* The call is refused, or begins; in a half-open circuit as the probe.
StartCall(c) ==
    LET probe == HalfOpened.state = "half_open" IN
    /\ mcall[c].pc = "idle"
    /\ IF FastFail
       THEN /\ circuit' = HalfOpened
            /\ UNCHANGED mcall
       ELSE /\ circuit' = IF probe THEN [HalfOpened EXCEPT !.probing = TRUE] ELSE circuit
            /\ mcall' = [mcall EXCEPT ![c] = [pc |-> "calling", attempt |-> 1, probe |-> probe]]
    /\ UNCHANGED wasted

EndCall(c) == mcall' = [mcall EXCEPT ![c] = [pc |-> "idle", attempt |-> 0, probe |-> FALSE]]

\* _record_success
Succeed(c) ==
    /\ mcall[c].pc = "calling"
    /\ circuit' = [state |-> "closed", failures |-> 0, over |-> FALSE, probing |-> FALSE]
    /\ EndCall(c)
    /\ UNCHANGED wasted

\* A transient error with attempts left: wait and call again.
Retry(c) ==
    /\ mcall[c].pc = "calling" /\ \E budget \in Budgets : mcall[c].attempt < budget
    /\ mcall' = [mcall EXCEPT ![c].attempt = @ + 1]
    /\ UNCHANGED <<circuit, wasted>>

\* Mutant: the circuit opens one failure too late.
FailureRecordedLate ==
    IF circuit.state = "half_open"
    THEN [circuit EXCEPT !.state = "open", !.over = FALSE, !.probing = FALSE]
    ELSE IF circuit.failures = Threshold
    THEN [circuit EXCEPT !.state = "open", !.over = FALSE, !.probing = FALSE]
    ELSE [circuit EXCEPT !.failures = @ + 1]

\* _record_failure: back to open, or one more failure and open at the
\* threshold; a failure that comes late prolongs the time of an open circuit.
FailureRecorded ==
    LET failures == IF circuit.failures < Threshold THEN circuit.failures + 1 ELSE Threshold IN
    CASE circuit.state = "half_open" ->
            [circuit EXCEPT !.state = "open", !.over = FALSE, !.probing = FALSE]
      [] circuit.state = "open" -> [circuit EXCEPT !.failures = failures, !.over = FALSE]
      [] circuit.state = "closed" /\ failures = Threshold ->
            [state |-> "open", failures |-> failures, over |-> FALSE, probing |-> FALSE]
      [] OTHER -> [circuit EXCEPT !.failures = failures]

\* A transient error and no attempt left.
Exhaust(c) ==
    /\ mcall[c].pc = "calling" /\ \E budget \in Budgets : mcall[c].attempt >= budget
    /\ circuit' = FailureRecorded
    /\ EndCall(c)
    /\ UNCHANGED wasted

\* Mutant: an interrupt leaves the probe in flight.
AfterInterruptKept == circuit

\* GraphBubbleUp: whoever raises it gives the half-open circuit a new probe.
AfterInterrupt ==
    IF circuit.state = "half_open" THEN [circuit EXCEPT !.probing = FALSE] ELSE circuit

Interrupt(c) ==
    /\ mcall[c].pc = "calling"
    /\ circuit' = AfterInterrupt
    /\ EndCall(c)
    /\ UNCHANGED wasted

\* An error that is not retriable (quota, auth, generic), or CancelledError,
\* which is no Exception: neither is reported to the breaker.
Refused(c) ==
    /\ mcall[c].pc = "calling"
    /\ EndCall(c)
    /\ wasted' = (wasted \/ mcall[c].probe)
    /\ UNCHANGED circuit

\* recovery_timeout_sec have passed.
RecoveryTimeout ==
    /\ circuit.state = "open" /\ ~circuit.over
    /\ circuit' = [circuit EXCEPT !.over = TRUE]
    /\ UNCHANGED <<mcall, wasted>>

BreakerNext ==
    \/ \E c \in ModelCalls : \/ StartCall(c) \/ Succeed(c) \/ Retry(c) \/ Exhaust(c)
                             \/ Interrupt(c) \/ Refused(c)
    \/ RecoveryTimeout

BreakerSpec == BreakerInit /\ [][BreakerNext]_breakerVars

-----------------------------------------------------------------------------

\* While a half-open circuit refuses calls because of a probe, that probe, or a
\* later one, is still on its way, so that the circuit will leave this state,
\* unless a probe ended with an error that is not reported.
ProbeIsUnderWay ==
    circuit.state = "half_open" /\ circuit.probing /\ ~wasted =>
        \E c \in ModelCalls : mcall[c].pc = "calling" /\ mcall[c].probe

\* A circuit that lets every call through has not reached its threshold, and
\* one that is not closed has, however late the calls that began before return.
OpenIffThreshold ==
    /\ circuit.state = "closed" => circuit.failures < Threshold /\ ~circuit.probing
    /\ circuit.state # "closed" => circuit.failures = Threshold
=============================================================================
