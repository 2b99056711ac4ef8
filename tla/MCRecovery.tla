----------------------------- MODULE MCRecovery -----------------------------
(***************************************************************************)
(* ActionWorker for TLC in two scenarios: "queue", two proposals and the   *)
(* worker w1 alone, and "takeover", two workers and the proposal p1 alone. *)
(***************************************************************************)
EXTENDS ActionWorker
CONSTANTS p1, p2, w1, w2, s1
VARIABLE scenario

recoveryVars == <<vars, scenario>>

In(A) ==
    /\ A /\ UNCHANGED scenario
    /\ scenario = "queue" => worker'[w2] = worker[w2]
    /\ scenario = "takeover" => prop'[p2] = prop[p2]

MCSpec ==
    /\ Init /\ scenario \in {"queue", "takeover"}
    /\ [][In(Next)]_recoveryVars
    /\ \A w \in Workers : WF_recoveryVars(In(WorkerStep(w)))
    /\ \A p \in Proposals : WF_recoveryVars(In(ExpireLease(p)))
=============================================================================
