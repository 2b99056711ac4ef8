------------------------------ MODULE MCThread ------------------------------
(***************************************************************************)
(* A conversation thread, for TLC: its runs over a restart (RunLifecycle)  *)
(* and, in finer steps, the writers of its checkpoints (Goals).  A         *)
(* behaviour is about one of the two, the other rests.                     *)
(***************************************************************************)
EXTENDS RunLifecycle, Goals
CONSTANTS q1, q2
VARIABLE part

threadVars == <<part, vars, goalVars>>

MCInit == part \in {"runs", "goals"} /\ Init /\ GoalsInit

MCNext ==
    \/ part = "runs" /\ Next /\ UNCHANGED <<part, goalVars>>
    \/ part = "goals" /\ GoalsNext /\ UNCHANGED <<part, vars>>

MCSpec == MCInit /\ [][MCNext]_threadVars
=============================================================================
