-------------------------- MODULE ActionRepository --------------------------
(***************************************************************************)
(* The persistent state machine of governed Actions                        *)
(* (backend/app/semantic/actions.py, models.py) and the requests of the    *)
(* Semantic API that drive it (backend/app/semantic/api.py).               *)
(*                                                                         *)
(* A proposal is identified by its idempotency key: the table is unique on *)
(* (principal_id, idempotency_key).  A proposal has at most one execution  *)
(* row (proposal_id is unique), so the execution is identified by its      *)
(* proposal.                                                               *)
(*                                                                         *)
(* Every repository method opens a session, reads rows, decides, and       *)
(* commits.  The reads take no lock (except claim_ready, see RowLocks), so *)
(* a method is two steps: a read, kept as a snapshot, and a commit.  The   *)
(* commit is the ORM's: it writes a column only when the value assigned    *)
(* differs from the value that was read (operator Column).                 *)
(***************************************************************************)
EXTENDS Naturals

CONSTANTS
    Proposals,        \* idempotency keys of one principal
    Workers,          \* worker_ids of the Action Worker processes
    Sessions,         \* concurrent Semantic API requests
    NeedsApproval,    \* proposals whose action is approval_required
    RowLocks,         \* TRUE: FOR UPDATE is honoured (PostgreSQL)
                      \* FALSE: it is not rendered (SQLite, the default)
    None              \* SQL NULL, and "no snapshot"

ASSUME RepositoryAssumption ==
    /\ NeedsApproval \subseteq Proposals
    /\ RowLocks \in BOOLEAN
    /\ None \notin Proposals
    /\ None \notin Workers

VARIABLES
    prop,      \* [status, approved] of each row of semantic_action_proposals
    exec,      \* [status, owner, lease, created] of ..._executions
    clock,     \* created_at stamps handed out so far
    ptrail,    \* to_statuses recorded for the proposal  (..._transitions)
    etrail,    \* to_statuses recorded for the execution (..._transitions)
    session    \* the API request each session is serving

repoVars == <<prop, exec, clock, ptrail, etrail, session>>

PStatus == {"NONE", "PROPOSED", "VALIDATED", "PREVIEWED", "PENDING_APPROVAL",
            "READY", "EXECUTING", "COMPENSATING", "SUCCEEDED", "FAILED",
            "COMPENSATED"}
EStatus == {"NONE", "READY", "EXECUTING", "COMPENSATING", "SUCCEEDED",
            "FAILED", "COMPENSATED"}
Terminal == {"SUCCEEDED", "FAILED", "COMPENSATED"}

\* lease_expires_at: NULL, in the future, or in the past.
Lease == {"null", "live", "expired"}

ProposalRow == [status : PStatus, approved : BOOLEAN]
ExecutionRow == [status : EStatus, owner : Workers \cup {None},
                 lease : Lease, created : Nat]
Snapshot == [exec : ExecutionRow, prop : PStatus]

ASSUME NullAssumption == None \notin Snapshot

Idle == [op |-> "none", p |-> None, seen |-> "NONE"]
Request == [op : {"preview", "approve", "enqueue"}, p : Proposals,
            seen : PStatus]

RepoTypeOK ==
    /\ prop \in [Proposals -> ProposalRow]
    /\ exec \in [Proposals -> ExecutionRow]
    /\ clock \in Nat
    /\ ptrail \in [Proposals -> SUBSET PStatus]
    /\ etrail \in [Proposals -> SUBSET EStatus]
    /\ session \in [Sessions -> Request \cup {Idle}]

RepoInit ==
    /\ prop = [p \in Proposals |-> [status |-> "NONE", approved |-> FALSE]]
    /\ exec = [p \in Proposals |-> [status |-> "NONE", owner |-> None,
                                    lease |-> "null", created |-> 0]]
    /\ clock = 0
    /\ ptrail = [p \in Proposals |-> {}]
    /\ etrail = [p \in Proposals |-> {}]
    /\ session = [s \in Sessions |-> Idle]

-----------------------------------------------------------------------------
(* Rows as a transaction reads and writes them. *)

\* What a flush leaves in a column that held `cur', was read as `seen' and
\* was assigned `new': an assignment that changes nothing is not written.
Column(cur, seen, new) == IF new = seen THEN cur ELSE new

ReadRows(p) == [exec |-> exec[p], prop |-> prop[p].status]

\* The ORM's UPDATE of both rows of p, from the snapshot the method read.
WriteRows(p, snap, status, owner, lease) ==
    /\ exec' = [exec EXCEPT
         ![p] = [status  |-> Column(@.status, snap.exec.status, status),
                 owner   |-> Column(@.owner, snap.exec.owner, owner),
                 lease   |-> Column(@.lease, snap.exec.lease, lease),
                 created |-> @.created]]
    /\ prop' = [prop EXCEPT ![p].status = Column(@, snap.prop, status)]
    /\ ptrail' = [ptrail EXCEPT ![p] = @ \cup {status}]
    /\ etrail' = [etrail EXCEPT ![p] = @ \cup {status}]

-----------------------------------------------------------------------------
(* Semantic API requests. *)

Reply(s) == session' = [session EXCEPT ![s] = Idle]

\* propose: one INSERT, refused by the unique constraint when the key is
\* already used (the existing row is returned, or ACTION_CONFLICT).
Propose(p) ==
    /\ prop[p].status = "NONE"
    /\ prop' = [prop EXCEPT ![p].status = "PROPOSED"]
    /\ ptrail' = [ptrail EXCEPT ![p] = @ \cup {"PROPOSED"}]
    /\ UNCHANGED <<exec, clock, etrail, session>>

Previewable == {"PROPOSED", "PENDING_APPROVAL", "READY"}

\* preview: the target was read before the row (preview_action), and
\* validate_action_target may refuse it, which changes nothing.
PreviewRead(s, p) ==
    /\ session[s] = Idle
    /\ prop[p].status \in Previewable
    /\ session' = [session EXCEPT
         ![s] = [op |-> "preview", p |-> p, seen |-> prop[p].status]]
    /\ UNCHANGED <<prop, exec, clock, ptrail, etrail>>

\* Mutant: preview forgets approval_required.
NextAfterPreviewUnapproved(p) == "READY"

NextAfterPreview(p) == IF p \in NeedsApproval THEN "PENDING_APPROVAL" ELSE "READY"

PreviewCommit(s) ==
    LET p == session[s].p
        next == NextAfterPreview(p) IN
    /\ session[s].op = "preview"
    /\ prop' = [prop EXCEPT ![p].status = Column(@, session[s].seen, next)]
    /\ ptrail' = [ptrail EXCEPT ![p] = @ \cup {"VALIDATED", "PREVIEWED", next}]
    /\ Reply(s)
    /\ UNCHANGED <<exec, clock, etrail>>

\* approve: only PENDING_APPROVAL changes anything (READY is returned as it
\* is, every other status is a conflict).
ApproveRead(s, p) ==
    /\ session[s] = Idle
    /\ prop[p].status = "PENDING_APPROVAL"
    /\ session' = [session EXCEPT
         ![s] = [op |-> "approve", p |-> p, seen |-> "PENDING_APPROVAL"]]
    /\ UNCHANGED <<prop, exec, clock, ptrail, etrail>>

ApproveCommit(s) ==
    LET p == session[s].p IN
    /\ session[s].op = "approve"
    /\ prop' = [prop EXCEPT ![p] = [status |-> "READY", approved |-> TRUE]]
    /\ ptrail' = [ptrail EXCEPT ![p] = @ \cup {"READY"}]
    /\ Reply(s)
    /\ UNCHANGED <<exec, clock, etrail>>

Enqueuable == {"READY", "EXECUTING", "SUCCEEDED", "FAILED"}

\* enqueue_execution: an existing execution is returned unchanged.
EnqueueRead(s, p) ==
    /\ session[s] = Idle
    /\ prop[p].status \in Enqueuable
    /\ exec[p].status = "NONE"
    /\ session' = [session EXCEPT
         ![s] = [op |-> "enqueue", p |-> p, seen |-> prop[p].status]]
    /\ UNCHANGED <<prop, exec, clock, ptrail, etrail>>

\* The INSERT; it fails on the unique proposal_id when another request won.
EnqueueCommit(s) ==
    LET p == session[s].p IN
    /\ session[s].op = "enqueue"
    /\ IF exec[p].status = "NONE"
         THEN /\ exec' = [exec EXCEPT ![p].status = "READY",
                                      ![p].created = clock + 1]
              /\ clock' = clock + 1
              /\ etrail' = [etrail EXCEPT ![p] = @ \cup {"READY"}]
         ELSE UNCHANGED <<exec, clock, etrail>>
    /\ Reply(s)
    /\ UNCHANGED <<prop, ptrail>>

\* The request dies before its commit: the transaction is rolled back.
Abort(s) ==
    /\ session[s] # Idle
    /\ Reply(s)
    /\ UNCHANGED <<prop, exec, clock, ptrail, etrail>>

ApiNext ==
    \/ \E p \in Proposals : Propose(p)
    \/ \E s \in Sessions :
         \/ PreviewCommit(s) \/ ApproveCommit(s) \/ EnqueueCommit(s) \/ Abort(s)
         \/ \E p \in Proposals :
              PreviewRead(s, p) \/ ApproveRead(s, p) \/ EnqueueRead(s, p)

-----------------------------------------------------------------------------
(* The methods the Action Worker calls.  A guard says what the method reads *)
(* before it decides; a Write is its commit.                                *)

\* Mutant: nothing is recovered.
ClaimableReadyOnly(p) == exec[p].status = "READY"

\* The WHERE clause of claim_ready: a NULL lease compares as unknown.
Claimable(p) ==
    \/ exec[p].status = "READY"
    \/ exec[p].status \in {"EXECUTING", "COMPENSATING"} /\ exec[p].lease = "expired"

\* ORDER BY created_at LIMIT 1 among the rows no other claim has locked.
Head(p, locked) ==
    /\ p \notin locked
    /\ Claimable(p)
    /\ \A q \in Proposals \ locked :
         Claimable(q) => exec[p].created <= exec[q].created

\* claim_ready gives up (returns None) when the head's proposal is elsewhere.
ProposalClaimable(p) == prop[p].status \in {"READY", "EXECUTING", "COMPENSATING"}

\* Mutant: every recovered lease compensates.
ClaimedStatusRecovered(snap) ==
    IF snap.exec.status = "READY" THEN "EXECUTING" ELSE "COMPENSATING"

ClaimedStatus(snap) ==
    IF snap.exec.status = "COMPENSATING" THEN "COMPENSATING" ELSE "EXECUTING"

ClaimWrite(w, p, snap) == WriteRows(p, snap, ClaimedStatus(snap), w, "live")

MayBeginCompensation(w, p) == exec[p].owner = w /\ exec[p].status = "EXECUTING"

\* begin_compensation leaves the lease alone.
BeginCompensationWrite(p, snap) ==
    WriteRows(p, snap, "COMPENSATING", snap.exec.owner, snap.exec.lease)

MayFinishCompensation(w, p) == exec[p].owner = w /\ exec[p].status = "COMPENSATING"

FinishCompensationWrite(p, snap, ok) ==
    WriteRows(p, snap, IF ok THEN "COMPENSATED" ELSE "FAILED", None, "null")

\* Mutant: finish does not check the owner.
MayFinishAnyone(w, p) == exec[p].status # "NONE"

\* finish checks the owner only: neither the status nor the lease's age.
MayFinish(w, p) == exec[p].owner = w

\* Mutant: an error is recorded as a success.
FinishWriteSucceeds(p, snap, ok) == WriteRows(p, snap, "SUCCEEDED", None, "null")

FinishWrite(p, snap, ok) ==
    WriteRows(p, snap, IF ok THEN "SUCCEEDED" ELSE "FAILED", None, "null")

=============================================================================
