---------------------------- MODULE ActionWorker ----------------------------
(***************************************************************************)
(* The Action Worker (backend/app/semantic/worker.py): run_once claims one *)
(* execution, revalidates the stored authorization with the SaaS IAM,      *)
(* re-reads the target, calls the domain API and records the outcome.      *)
(*                                                                         *)
(* A worker's record holds where run_once is (pc), the claimed proposal,   *)
(* the status it was claimed in, the outcome it is about to record, and    *)
(* the snapshot of the transaction it has open (None outside one).  At pc  *)
(* "claim", "begin", "finish_comp" or "finish" a snapshot other than None  *)
(* means that the method has read and not yet committed.                   *)
(*                                                                         *)
(* The domain API and the IAM are external.  A domain call is a message:   *)
(* the worker may give up on it (timeout, connection error, 5xx) before or *)
(* after the domain handles it, and the domain handles each Idempotency-Key*)
(* once.                                                                   *)
(***************************************************************************)
EXTENDS ActionRepository

CONSTANTS
    HasCompensation,  \* proposals whose action declares a compensation
    Versioned,        \* proposals with an expected_object_version
    MaxCrashes,       \* bound: worker processes that are killed
    MaxSlow           \* bound: leases that expire under a working owner

ASSUME WorkerAssumption ==
    /\ HasCompensation \subseteq Proposals
    /\ Versioned \subseteq Proposals
    /\ MaxCrashes \in Nat
    /\ MaxSlow \in Nat

VARIABLES
    worker,     \* the state of run_once in each worker process
    sent,       \* domain calls issued: <<proposal, kind>>
    handled,    \* domain calls the domain API has applied
    crashes,
    slow

workerVars == <<worker, sent, handled, crashes, slow>>
vars == <<prop, exec, clock, ptrail, etrail, session,
          worker, sent, handled, crashes, slow>>

Calls == Proposals \X {"execute", "compensate"}

PCs == {"idle", "claim", "revalidate", "target", "execute", "executing",
        "begin", "compensate", "compensating", "finish_comp", "finish", "down"}

Resting == [pc |-> "idle", job |-> None, mode |-> "NONE", ok |-> FALSE,
            snap |-> None]

WorkerState == [pc : PCs, job : Proposals \cup {None},
                mode : {"NONE", "EXECUTING", "COMPENSATING"}, ok : BOOLEAN,
                snap : Snapshot \cup {None}]

\* Every variable has its type.
TypeOK ==
    /\ RepoTypeOK
    /\ worker \in [Workers -> WorkerState]
    /\ sent \subseteq Calls
    /\ handled \subseteq Calls
    /\ crashes \in 0..MaxCrashes
    /\ slow \in 0..MaxSlow

Init ==
    /\ RepoInit
    /\ worker = [w \in Workers |-> Resting]
    /\ sent = {}
    /\ handled = {}
    /\ crashes = 0
    /\ slow = 0

-----------------------------------------------------------------------------

Goto(w, pc) == worker' = [worker EXCEPT ![w].pc = pc, ![w].snap = None]

\* Any exception in the body of run_once ends in finish(error_code=...).
Fail(w) == worker' = [worker EXCEPT ![w].pc = "finish", ![w].ok = FALSE,
                                    ![w].snap = None]

OpenTransaction(w) ==
    worker' = [worker EXCEPT ![w].snap = ReadRows(worker[w].job)]

\* Rows that the FOR UPDATE of an open claim_ready keeps to itself.
Locked == IF RowLocks
            THEN {p \in Proposals : \E w \in Workers :
                    /\ worker[w].pc = "claim"
                    /\ worker[w].job = p}
            ELSE {}

\* claim_ready reads; with nothing to claim run_once returns False and polls.
ClaimRead(w, p) ==
    /\ worker[w].pc = "idle"
    /\ Head(p, Locked)
    /\ ProposalClaimable(p)
    /\ worker' = [worker EXCEPT
         ![w] = [pc |-> "claim", job |-> p, mode |-> "NONE", ok |-> FALSE,
                 snap |-> ReadRows(p)]]
    /\ UNCHANGED <<repoVars, sent, handled, crashes, slow>>

ClaimCommit(w) ==
    /\ worker[w].pc = "claim"
    /\ ClaimWrite(w, worker[w].job, worker[w].snap)
    /\ worker' = [worker EXCEPT ![w].pc = "revalidate", ![w].snap = None,
                                ![w].mode = ClaimedStatus(worker[w].snap)]
    /\ UNCHANGED <<clock, session, sent, handled,
                   crashes, slow>>

\* The snapshot checks, the IAM call, and the comparison with what it says.
\* The IAM's answer is external: a changed scope and an unavailable IAM both
\* fail the execution.
Revalidate(w) ==
    /\ worker[w].pc = "revalidate"
    /\ Goto(w, "target") \/ Fail(w)
    /\ UNCHANGED <<repoVars, sent, handled, crashes, slow>>

\* Applying the action gave the target a version other than the expected one.
VersionMoved(p) == p \in Versioned /\ <<p, "execute">> \in handled

\* get_target and validate_action_target, then the branch on the claimed
\* status.  Anyone may have changed the target, so the check can always fail.
CheckTarget(w) ==
    LET p == worker[w].job IN
    /\ worker[w].pc = "target"
    /\ \/ /\ ~VersionMoved(p)
          /\ IF worker[w].mode # "COMPENSATING" THEN Goto(w, "execute")
             ELSE IF p \in HasCompensation THEN Goto(w, "compensate")
             ELSE worker' = [worker EXCEPT ![w].pc = "finish_comp",
                                           ![w].ok = FALSE]
       \/ Fail(w)
    /\ UNCHANGED <<repoVars, sent, handled, crashes, slow>>

Call(w, kind, pc) ==
    /\ sent' = sent \cup {<<worker[w].job, kind>>}
    /\ Goto(w, pc)
    /\ UNCHANGED <<repoVars, handled, crashes, slow>>

Execute(w) == worker[w].pc = "execute" /\ Call(w, "execute", "executing")

\* A 2xx answer exists only once the domain has applied the key.
ExecuteOk(w) ==
    /\ worker[w].pc = "executing"
    /\ <<worker[w].job, "execute">> \in handled
    /\ worker' = [worker EXCEPT ![w].pc = "finish", ![w].ok = TRUE]
    /\ UNCHANGED <<repoVars, sent, handled, crashes, slow>>

\* Mutant: a failed call is taken for a success.
ExecuteErrorIgnored(w) ==
    /\ worker[w].pc = "executing"
    /\ worker' = [worker EXCEPT ![w].pc = "finish", ![w].ok = TRUE]
    /\ UNCHANGED <<repoVars, sent, handled, crashes, slow>>

ExecuteError(w) ==
    /\ worker[w].pc = "executing"
    /\ IF worker[w].job \in HasCompensation THEN Goto(w, "begin") ELSE Fail(w)
    /\ UNCHANGED <<repoVars, sent, handled, crashes, slow>>

Compensate(w) == worker[w].pc = "compensate" /\ Call(w, "compensate", "compensating")

CompensateReply(w) ==
    /\ worker[w].pc = "compensating"
    /\ \E ok \in BOOLEAN :
         /\ ok => <<worker[w].job, "compensate">> \in handled
         /\ worker' = [worker EXCEPT ![w].pc = "finish_comp", ![w].ok = ok]
    /\ UNCHANGED <<repoVars, sent, handled, crashes, slow>>

\* The three recording methods.  A refused one raises ActionError: out of
\* begin/finish_compensation, and out of a successful finish, it is caught by
\* run_once, which calls finish with the error; out of that last call it
\* leaves run_once, and run_worker, and the process ends.
BeginRead(w) ==
    /\ worker[w].pc = "begin" /\ worker[w].snap = None
    /\ IF MayBeginCompensation(w, worker[w].job) THEN OpenTransaction(w) ELSE Fail(w)
    /\ UNCHANGED <<repoVars, sent, handled, crashes, slow>>

FinishCompensationRead(w) ==
    /\ worker[w].pc = "finish_comp" /\ worker[w].snap = None
    /\ IF MayFinishCompensation(w, worker[w].job) THEN OpenTransaction(w) ELSE Fail(w)
    /\ UNCHANGED <<repoVars, sent, handled, crashes, slow>>

Exit(w) == worker' = [worker EXCEPT ![w] = [Resting EXCEPT !.pc = "down"]]

FinishRead(w) ==
    /\ worker[w].pc = "finish" /\ worker[w].snap = None
    /\ \/ MayFinish(w, worker[w].job) /\ OpenTransaction(w)
       \/ ~MayFinish(w, worker[w].job) /\ worker[w].ok /\ Fail(w)
       \/ ~MayFinish(w, worker[w].job) /\ ~worker[w].ok /\ Exit(w)
    /\ UNCHANGED <<repoVars, sent, handled, crashes, slow>>

\* An UPDATE waits for the row lock of an open claim.
MayCommit(w) == worker[w].snap # None /\ worker[w].job \notin Locked

BeginCommit(w) ==
    /\ worker[w].pc = "begin" /\ MayCommit(w)
    /\ BeginCompensationWrite(worker[w].job, worker[w].snap)
    /\ Goto(w, "compensate")
    /\ UNCHANGED <<clock, session, sent, handled,
                   crashes, slow>>

FinishCompensationCommit(w) ==
    /\ worker[w].pc = "finish_comp" /\ MayCommit(w)
    /\ FinishCompensationWrite(worker[w].job, worker[w].snap, worker[w].ok)
    /\ worker' = [worker EXCEPT ![w] = Resting]
    /\ UNCHANGED <<clock, session, sent, handled,
                   crashes, slow>>

FinishCommit(w) ==
    /\ worker[w].pc = "finish" /\ MayCommit(w)
    /\ FinishWrite(worker[w].job, worker[w].snap, worker[w].ok)
    /\ worker' = [worker EXCEPT ![w] = Resting]
    /\ UNCHANGED <<clock, session, sent, handled,
                   crashes, slow>>

\* The process is killed: its transaction is rolled back, its lease stays.
Crash(w) ==
    /\ worker[w].pc # "down"
    /\ crashes < MaxCrashes
    /\ crashes' = crashes + 1
    /\ Exit(w)
    /\ UNCHANGED <<repoVars, sent, handled, slow>>

\* The supervisor starts run_worker again.
Restart(w) ==
    /\ worker[w].pc = "down"
    /\ worker' = [worker EXCEPT ![w] = Resting]
    /\ UNCHANGED <<repoVars, sent, handled, crashes, slow>>

-----------------------------------------------------------------------------
(* The environment. *)

\* w is inside run_once for p, past the claim.
Working(w, p) == worker[w].job = p /\ worker[w].pc # "claim"

\* Time passes lease_expires_at.  The lease (30 s, never renewed) may run out
\* under a worker that is still waiting for the IAM (15 s) or the domain (30 s).
ExpireLease(p) ==
    /\ exec[p].lease = "live"
    /\ IF \E w \in Workers : exec[p].owner = w /\ Working(w, p)
         THEN slow < MaxSlow /\ slow' = slow + 1
         ELSE slow' = slow
    /\ exec' = [exec EXCEPT ![p].lease = "expired"]
    /\ UNCHANGED <<prop, clock, ptrail, etrail, session,
                   worker, sent, handled, crashes>>

\* The domain API applies a call it has not seen yet (external).
DomainApply(p, kind) ==
    /\ <<p, kind>> \in sent \ handled
    /\ handled' = handled \cup {<<p, kind>>}
    /\ UNCHANGED <<repoVars, worker, sent, crashes, slow>>

WorkerStep(w) ==
    \/ \E p \in Proposals : ClaimRead(w, p)
    \/ ClaimCommit(w) \/ Revalidate(w) \/ CheckTarget(w)
    \/ Execute(w) \/ ExecuteOk(w) \/ ExecuteError(w)
    \/ Compensate(w) \/ CompensateReply(w)
    \/ BeginRead(w) \/ BeginCommit(w)
    \/ FinishCompensationRead(w) \/ FinishCompensationCommit(w)
    \/ FinishRead(w) \/ FinishCommit(w)
    \/ Restart(w)

Next ==
    \/ ApiNext /\ UNCHANGED workerVars
    \/ \E w \in Workers : WorkerStep(w) \/ Crash(w)
    \/ \E p \in Proposals : ExpireLease(p)
    \/ \E p \in Proposals, kind \in {"execute", "compensate"} : DomainApply(p, kind)

Spec == Init /\ [][Next]_vars

\* Worker processes run (the supervisor restarts them, every HTTP call has a
\* timeout) and time passes.  Nothing is assumed of the API's callers, the
\* domain or the IAM.
Fairness ==
    /\ \A w \in Workers : WF_vars(WorkerStep(w))
    /\ \A p \in Proposals : WF_vars(ExpireLease(p))

FairSpec == Spec /\ Fairness

-----------------------------------------------------------------------------
(* Properties. *)

\* Approval gate: the domain is never called for an approval_required action
\* that no one approved or that was never previewed, whatever re-previews,
\* duplicate requests, lost updates and lease recoveries happened before.
ApprovalGate ==
    \A c \in sent :
        /\ "PREVIEWED" \in ptrail[c[1]]
        /\ c[1] \in NeedsApproval => prop[c[1]].approved

\* A recorded success is real: SUCCEEDED means the domain applied the action
\* and COMPENSATED means it applied the compensation, although stale workers
\* commit outcomes on top of one another.
OutcomeIsReal ==
    \A p \in Proposals :
        /\ exec[p].status = "SUCCEEDED" => <<p, "execute">> \in handled
        /\ exec[p].status = "COMPENSATED" => <<p, "compensate">> \in handled

\* Only a declared compensation is ever sent, and only for an action whose
\* execution was attempted and failed.
CompensationIsDeclared ==
    \A p \in Proposals :
        <<p, "compensate">> \in sent =>
            p \in HasCompensation /\ <<p, "execute">> \in sent

\* With row locks a terminal outcome is only ever replaced by a transaction
\* that read the row before it became terminal: the owner check fences every
\* later caller.  (Without them a claim whose read is old can take ownership
\* of a finished row, since the unchanged status column is not rewritten.)
TerminalIsFenced ==
    [][\A p \in Proposals :
         /\ RowLocks
         /\ exec[p].status \in Terminal
         /\ exec'[p].status # exec[p].status
         => \E w \in Workers :
              /\ worker[w].job = p
              /\ worker[w].snap # None
              /\ worker[w].snap.exec.status \notin Terminal]_vars

\* claim_ready stops at the oldest claimable row whose proposal was taken out
\* of READY (a preview after the enqueue), and everything behind it waits.
QueueBlocked ==
    \E p \in Proposals : Head(p, {}) /\ ~ProposalClaimable(p)

\* A row in progress whose lease was cleared by a racing finish: no claim
\* matches it any more.
Wedged(p) ==
    /\ exec[p].status \in {"EXECUTING", "COMPENSATING"}
    /\ exec[p].lease = "null"

\* Unless the queue's head is parked over and over, every enqueued execution
\* reaches a terminal status through crashes, expired leases and refused
\* finishes (or is wedged by a lost update).
ExecutionsFinish ==
    <>[]~QueueBlocked =>
        \A p \in Proposals :
            (exec[p].status # "NONE") ~>
                (exec[p].status \in Terminal \/ Wedged(p))

\* What tests/test_semantic_actions.py states for the recovery of a
\* compensation lease: once an execution is being compensated, or is
\* compensated, the action itself is not sent again.
NoReplayDuringCompensation ==
    [][\A p \in Proposals, w \in Workers :
         exec[p].status \in {"COMPENSATING", "COMPENSATED"}
           => ~(worker[w].job = p /\ worker[w].pc = "execute"
                /\ worker'[w].pc = "executing")]_vars

=============================================================================
