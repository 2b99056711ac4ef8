---------------------------- MODULE ActionProofs ----------------------------
(***************************************************************************)
(* Proofs about the Action repository and worker, for every number of      *)
(* proposals, workers, API sessions, crashes and slow leases, with and     *)
(* without row locks.                                                      *)
(***************************************************************************)
EXTENDS ActionWorker, TLAPS

Running(w) == worker[w].pc \notin {"idle", "down"}

\* TypeOK is not inductive: what a commit writes is typed only because a
\* running worker has a job, and an open claim a snapshot.
WorkerShape ==
    \A w \in Workers :
        /\ Running(w) => worker[w].job \in Proposals
        /\ worker[w].pc = "claim" => worker[w].snap \in Snapshot

TypeInv == TypeOK /\ WorkerShape

USE RepositoryAssumption, WorkerAssumption

\* A flushed column holds one of the two values.
LEMMA ColumnType ==
    ASSUME NEW S, NEW cur \in S, NEW new \in S, NEW seen
    PROVE  Column(cur, seen, new) \in S
  BY DEF Column

\* A commit of both rows keeps their types.
LEMMA WriteRowsType ==
    ASSUME RepoTypeOK, NEW p \in Proposals, NEW snap \in Snapshot,
           NEW status \in EStatus, NEW owner \in Workers \cup {None},
           NEW lease \in Lease, WriteRows(p, snap, status, owner, lease)
    PROVE  /\ prop' \in [Proposals -> ProposalRow]
           /\ exec' \in [Proposals -> ExecutionRow]
           /\ ptrail' \in [Proposals -> SUBSET PStatus]
           /\ etrail' \in [Proposals -> SUBSET EStatus]
  <1>1. exec[p] \in ExecutionRow /\ prop[p] \in ProposalRow
    BY DEF RepoTypeOK
  <1>2. status \in PStatus
    BY DEF EStatus, PStatus
  <1>3. [status  |-> Column(exec[p].status, snap.exec.status, status),
         owner   |-> Column(exec[p].owner, snap.exec.owner, owner),
         lease   |-> Column(exec[p].lease, snap.exec.lease, lease),
         created |-> exec[p].created] \in ExecutionRow
    BY <1>1, ColumnType DEF ExecutionRow, Column
  <1>4. exec' \in [Proposals -> ExecutionRow]
    BY <1>3 DEF WriteRows, RepoTypeOK
  <1>5. Column(prop[p].status, snap.prop, status) \in PStatus
    BY <1>1, <1>2 DEF ProposalRow, Column
  <1>6. prop' \in [Proposals -> ProposalRow]
    BY <1>1, <1>5 DEF WriteRows, RepoTypeOK, ProposalRow
  <1>7. ptrail' \in [Proposals -> SUBSET PStatus]
    BY <1>2 DEF WriteRows, RepoTypeOK
  <1>8. etrail' \in [Proposals -> SUBSET EStatus]
    BY DEF WriteRows, RepoTypeOK
  <1> QED BY <1>4, <1>6, <1>7, <1>8

\* What a method reads is a snapshot.
LEMMA ReadRowsType ==
    ASSUME RepoTypeOK, NEW p \in Proposals
    PROVE  ReadRows(p) \in Snapshot
  BY DEF ReadRows, Snapshot, RepoTypeOK, ProposalRow

\* The initial state is well typed.
LEMMA InitType == Init => TypeInv
  BY DEF Init, RepoInit, TypeInv, TypeOK, RepoTypeOK, WorkerShape, Running,
         ProposalRow, ExecutionRow, PStatus, EStatus, Lease, Idle, Resting,
         WorkerState, PCs

\* The requests of the Semantic API keep the types.
LEMMA ApiType ==
    ASSUME TypeInv, ApiNext, UNCHANGED workerVars
    PROVE  TypeInv'
  <1> USE DEF TypeInv, TypeOK, workerVars
  <1>1. RepoTypeOK'
    <2> USE DEF RepoTypeOK
    <2>1. ASSUME NEW p \in Proposals, Propose(p) PROVE RepoTypeOK'
      BY <2>1 DEF Propose, ProposalRow, PStatus
    <2>2. ASSUME NEW s \in Sessions, PreviewCommit(s) PROVE RepoTypeOK'
      <3>1. session[s] \in Request
        BY <2>2 DEF PreviewCommit, Idle
      <3>2. session[s].p \in Proposals /\ session[s].seen \in PStatus
        BY <3>1 DEF Request
      <3>3. NextAfterPreview(session[s].p) \in PStatus
        BY DEF NextAfterPreview, PStatus
      <3>4. prop' \in [Proposals -> ProposalRow]
        BY <2>2, <3>2, <3>3 DEF PreviewCommit, ProposalRow, Column
      <3>5. ptrail' \in [Proposals -> SUBSET PStatus]
        BY <2>2, <3>2, <3>3 DEF PreviewCommit, PStatus
      <3>6. session' \in [Sessions -> Request \cup {Idle}]
        BY <2>2 DEF PreviewCommit, Reply
      <3> QED BY <2>2, <3>4, <3>5, <3>6 DEF PreviewCommit
    <2>3. ASSUME NEW s \in Sessions, ApproveCommit(s) PROVE RepoTypeOK'
      <3>1. session[s] \in Request
        BY <2>3 DEF ApproveCommit, Idle
      <3>2. session[s].p \in Proposals
        BY <3>1 DEF Request
      <3>3. prop' \in [Proposals -> ProposalRow]
        BY <2>3, <3>2 DEF ApproveCommit, ProposalRow, PStatus
      <3>4. ptrail' \in [Proposals -> SUBSET PStatus]
        BY <2>3, <3>2 DEF ApproveCommit, PStatus
      <3>5. session' \in [Sessions -> Request \cup {Idle}]
        BY <2>3 DEF ApproveCommit, Reply
      <3> QED BY <2>3, <3>3, <3>4, <3>5 DEF ApproveCommit
    <2>4. ASSUME NEW s \in Sessions, EnqueueCommit(s) PROVE RepoTypeOK'
      <3>1. session[s] \in Request
        BY <2>4 DEF EnqueueCommit, Idle
      <3>2. session[s].p \in Proposals
        BY <3>1 DEF Request
      <3>3. exec' \in [Proposals -> ExecutionRow] /\ clock' \in Nat
        <4>1. CASE exec[session[s].p].status = "NONE"
          <5>1. exec' = [exec EXCEPT ![session[s].p].status = "READY",
                                     ![session[s].p].created = clock + 1]
            BY <2>4, <4>1 DEF EnqueueCommit
          <5>2. exec[session[s].p] \in ExecutionRow /\ clock + 1 \in Nat
            BY <3>2
          <5>3. [exec[session[s].p] EXCEPT !.status = "READY",
                                           !.created = clock + 1] \in ExecutionRow
            BY <5>2 DEF ExecutionRow, EStatus
          <5>4. exec' \in [Proposals -> ExecutionRow]
            BY <5>1, <5>3, <3>2
          <5> QED BY <2>4, <4>1, <5>4 DEF EnqueueCommit
        <4>2. CASE exec[session[s].p].status # "NONE"
          BY <2>4, <4>2 DEF EnqueueCommit
        <4> QED BY <4>1, <4>2
      <3>4. etrail' \in [Proposals -> SUBSET EStatus]
        BY <2>4, <3>2 DEF EnqueueCommit, EStatus
      <3>5. session' \in [Sessions -> Request \cup {Idle}]
        BY <2>4 DEF EnqueueCommit, Reply
      <3> QED BY <2>4, <3>3, <3>4, <3>5 DEF EnqueueCommit
    <2>5. ASSUME NEW s \in Sessions, Abort(s) PROVE RepoTypeOK'
      BY <2>5 DEF Abort, Reply
    <2>6. ASSUME NEW s \in Sessions, NEW p \in Proposals, PreviewRead(s, p)
          PROVE RepoTypeOK'
      BY <2>6 DEF PreviewRead, Request, ProposalRow
    <2>7. ASSUME NEW s \in Sessions, NEW p \in Proposals, ApproveRead(s, p)
          PROVE RepoTypeOK'
      BY <2>7 DEF ApproveRead, Request, PStatus
    <2>8. ASSUME NEW s \in Sessions, NEW p \in Proposals, EnqueueRead(s, p)
          PROVE RepoTypeOK'
      BY <2>8 DEF EnqueueRead, Request, ProposalRow
    <2> QED BY <2>1, <2>2, <2>3, <2>4, <2>5, <2>6, <2>7, <2>8 DEF ApiNext
  <1>2. WorkerShape'
    BY DEF WorkerShape, Running
  <1> QED BY <1>1, <1>2

\* A worker outside run_once is well typed.
LEMMA RestingType ==
    /\ Resting \in WorkerState /\ Resting.pc = "idle"
    /\ [Resting EXCEPT !.pc = "down"] \in WorkerState
    /\ [Resting EXCEPT !.pc = "down"].pc = "down"
  BY DEF Resting, WorkerState, PCs

\* run_once keeps the types.
LEMMA WorkerType ==
    ASSUME TypeInv, NEW w \in Workers, WorkerStep(w) \/ Crash(w)
    PROVE  TypeInv'
  <1> USE DEF TypeInv, TypeOK, WorkerShape, Running
  <1>w. worker[w] \in WorkerState
    OBVIOUS
  <1>1. ASSUME NEW p \in Proposals, ClaimRead(w, p) PROVE TypeInv'
    <2>1. ReadRows(p) \in Snapshot
      BY ReadRowsType
    <2> QED BY <1>1, <2>1 DEF ClaimRead, repoVars, RepoTypeOK, WorkerState, PCs
  <1>2. ASSUME ClaimCommit(w) PROVE TypeInv'
    <2>1. worker[w].job \in Proposals /\ worker[w].snap \in Snapshot
      BY <1>2 DEF ClaimCommit
    <2>2. ClaimedStatus(worker[w].snap) \in {"EXECUTING", "COMPENSATING"}
      BY DEF ClaimedStatus
    <2>3. RepoTypeOK'
      BY <1>2, <2>1, <2>2, WriteRowsType
         DEF ClaimCommit, ClaimWrite, RepoTypeOK, EStatus, Lease
    <2> QED BY <1>2, <1>w, <2>1, <2>2, <2>3 DEF ClaimCommit, WorkerState, PCs
  <1>3. ASSUME \/ Revalidate(w) \/ CheckTarget(w) \/ ExecuteOk(w)
               \/ ExecuteError(w) \/ CompensateReply(w)
        PROVE TypeInv'
    <2>1. worker[w].job \in Proposals
      BY <1>3 DEF Revalidate, CheckTarget, ExecuteOk, ExecuteError, CompensateReply
    <2>2. UNCHANGED <<repoVars, sent, handled, crashes, slow>>
      BY <1>3 DEF Revalidate, CheckTarget, ExecuteOk, ExecuteError, CompensateReply
    <2>3. /\ worker' \in [Workers -> WorkerState]
          /\ \A v \in Workers \ {w} : worker'[v] = worker[v]
          /\ worker'[w].job = worker[w].job /\ worker'[w].pc # "claim"
      <3>1. \/ \E pc \in {"target", "execute", "compensate", "begin"} : Goto(w, pc)
            \/ Fail(w)
            \/ \E pc \in {"finish", "finish_comp"}, ok \in BOOLEAN :
                 worker' = [worker EXCEPT ![w].pc = pc, ![w].ok = ok]
        <4>1. CASE Revalidate(w)
          BY <4>1 DEF Revalidate
        <4>2. CASE CheckTarget(w)
          BY <4>2 DEF CheckTarget
        <4>3. CASE ExecuteOk(w)
          BY <4>3 DEF ExecuteOk
        <4>4. CASE ExecuteError(w)
          BY <4>4 DEF ExecuteError
        <4>5. CASE CompensateReply(w)
          BY <4>5 DEF CompensateReply
        <4> QED BY <1>3, <4>1, <4>2, <4>3, <4>4, <4>5
      <3>2. ASSUME NEW pc \in {"target", "execute", "compensate", "begin"}, Goto(w, pc)
            PROVE <2>3!1 /\ <2>3!2 /\ <2>3!3
        BY <3>2, <1>w DEF Goto, WorkerState, PCs
      <3>3. CASE Fail(w)
        BY <3>3, <1>w DEF Fail, WorkerState, PCs
      <3>4. ASSUME NEW pc \in {"finish", "finish_comp"}, NEW ok \in BOOLEAN,
                   worker' = [worker EXCEPT ![w].pc = pc, ![w].ok = ok]
            PROVE <2>3!1 /\ <2>3!2 /\ <2>3!3
        BY <3>4, <1>w DEF WorkerState, PCs
      <3> QED BY <3>1, <3>2, <3>3, <3>4
    <2> QED BY <2>1, <2>2, <2>3 DEF repoVars, RepoTypeOK
  <1>4. ASSUME Execute(w) \/ Compensate(w) PROVE TypeInv'
    <2>1. worker[w].job \in Proposals
      BY <1>4 DEF Execute, Compensate
    <2>2. UNCHANGED <<repoVars, handled, crashes, slow>>
      BY <1>4 DEF Execute, Compensate, Call
    <2>3. sent' \subseteq Calls
      BY <1>4, <2>1 DEF Execute, Compensate, Call, Calls
    <2>4. /\ worker' \in [Workers -> WorkerState]
          /\ \A v \in Workers \ {w} : worker'[v] = worker[v]
          /\ worker'[w].job = worker[w].job /\ worker'[w].pc # "claim"
      BY <1>4, <1>w DEF Execute, Compensate, Call, Goto, WorkerState, PCs
    <2> QED BY <2>1, <2>2, <2>3, <2>4 DEF repoVars, RepoTypeOK
  <1>5. ASSUME BeginRead(w) \/ FinishCompensationRead(w) \/ FinishRead(w)
        PROVE TypeInv'
    <2>1. worker[w].job \in Proposals
      BY <1>5 DEF BeginRead, FinishCompensationRead, FinishRead
    <2>2. UNCHANGED <<repoVars, sent, handled, crashes, slow>>
      BY <1>5 DEF BeginRead, FinishCompensationRead, FinishRead
    <2>3. OpenTransaction(w) \/ Fail(w) \/ Exit(w)
      BY <1>5 DEF BeginRead, FinishCompensationRead, FinishRead
    <2>4. ReadRows(worker[w].job) \in Snapshot
      BY <2>1, ReadRowsType
    <2>5. /\ worker' \in [Workers -> WorkerState]
          /\ \A v \in Workers \ {w} : worker'[v] = worker[v]
          /\ worker'[w].job = worker[w].job \/ worker'[w].pc = "down"
          /\ worker'[w].pc # "claim"
      <3>1. worker[w].pc # "claim"
        BY <1>5 DEF BeginRead, FinishCompensationRead, FinishRead
      <3>2. CASE OpenTransaction(w)
        BY <3>1, <3>2, <2>4, <1>w DEF OpenTransaction, WorkerState
      <3>3. CASE Fail(w)
        BY <3>3, <1>w DEF Fail, WorkerState, PCs
      <3>4. CASE Exit(w)
        BY <3>4, <1>w DEF Exit, Resting, WorkerState, PCs
      <3> QED BY <2>3, <3>2, <3>3, <3>4
    <2> QED BY <2>1, <2>2, <2>5 DEF repoVars, RepoTypeOK
  <1>6. ASSUME BeginCommit(w) \/ FinishCompensationCommit(w) \/ FinishCommit(w)
        PROVE TypeInv'
    <2>1. worker[w].job \in Proposals /\ worker[w].snap \in Snapshot
      BY <1>6, <1>w
         DEF BeginCommit, FinishCompensationCommit, FinishCommit, MayCommit, WorkerState
    <2>2. UNCHANGED <<clock, session, sent, handled, crashes, slow>>
      BY <1>6 DEF BeginCommit, FinishCompensationCommit, FinishCommit
    <2>3. \E status \in EStatus, owner \in Workers \cup {None}, lease \in Lease :
            WriteRows(worker[w].job, worker[w].snap, status, owner, lease)
      BY <1>6, <2>1
         DEF BeginCommit, FinishCompensationCommit, FinishCommit,
             BeginCompensationWrite, FinishCompensationWrite, FinishWrite,
             EStatus, Lease, Snapshot, ExecutionRow
    <2>4. RepoTypeOK'
      BY <2>1, <2>2, <2>3, WriteRowsType DEF RepoTypeOK
    <2>5. Goto(w, "compensate") \/ worker' = [worker EXCEPT ![w] = Resting]
      BY <1>6 DEF BeginCommit, FinishCompensationCommit, FinishCommit
    <2>6. /\ worker' \in [Workers -> WorkerState]
          /\ \A v \in Workers \ {w} : worker'[v] = worker[v]
          /\ worker'[w].job = worker[w].job \/ worker'[w].pc = "idle"
          /\ worker'[w].pc # "claim"
      <3>1. CASE Goto(w, "compensate")
        BY <3>1, <1>w DEF Goto, WorkerState, PCs
      <3>2. CASE worker' = [worker EXCEPT ![w] = Resting]
        BY <3>2, RestingType
      <3> QED BY <2>5, <3>1, <3>2
    <2> QED BY <2>1, <2>2, <2>4, <2>6
  <1>7. ASSUME Crash(w) \/ Restart(w) PROVE TypeInv'
    <2>1. UNCHANGED <<repoVars, sent, handled, slow>> /\ crashes' \in 0..MaxCrashes
      BY <1>7 DEF Crash, Restart
    <2>2. /\ worker' \in [Workers -> WorkerState]
          /\ \A v \in Workers \ {w} : worker'[v] = worker[v]
          /\ worker'[w].pc \in {"idle", "down"}
      BY <1>7, RestingType DEF Crash, Restart, Exit
    <2> QED BY <2>1, <2>2 DEF repoVars, RepoTypeOK
  <1> QED BY <1>1, <1>2, <1>3, <1>4, <1>5, <1>6, <1>7 DEF WorkerStep

\* Time and the domain keep the types.
LEMMA EnvironmentType ==
    ASSUME TypeInv, NEW p \in Proposals,
           \/ ExpireLease(p)
           \/ \E kind \in {"execute", "compensate"} : DomainApply(p, kind)
    PROVE  TypeInv'
  <1> USE DEF TypeInv, TypeOK, WorkerShape, Running
  <1>1. CASE ExpireLease(p)
    <2>1. slow' \in 0..MaxSlow
      BY <1>1 DEF ExpireLease
    <2>2. exec' \in [Proposals -> ExecutionRow]
      BY <1>1 DEF ExpireLease, RepoTypeOK, ExecutionRow, Lease
    <2> QED BY <1>1, <2>1, <2>2 DEF ExpireLease, RepoTypeOK
  <1>2. ASSUME NEW kind \in {"execute", "compensate"}, DomainApply(p, kind)
        PROVE TypeInv'
    BY <1>2 DEF DomainApply, repoVars, RepoTypeOK
  <1> QED BY <1>1, <1>2

\* Every step keeps the types.
LEMMA NextType == TypeInv /\ [Next]_vars => TypeInv'
  <1> SUFFICES ASSUME TypeInv, [Next]_vars PROVE TypeInv'
    OBVIOUS
  <1>1. CASE UNCHANGED vars
    BY <1>1 DEF vars, TypeInv, TypeOK, RepoTypeOK, WorkerShape, Running
  <1>2. CASE Next
    BY <1>2, ApiType, WorkerType, EnvironmentType DEF Next
  <1> QED BY <1>1, <1>2

\* Every variable of the Action repository and worker keeps its type.
THEOREM TypeCorrect == Spec => []TypeOK
  <1>1. Spec => []TypeInv
    BY InitType, NextType, PTL DEF Spec
  <1> QED BY <1>1, PTL DEF TypeInv

-----------------------------------------------------------------------------
(* The approval gate. *)

\* p may be executed: it was previewed and, if need be, approved.
Cleared(p) ==
    /\ "PREVIEWED" \in ptrail[p]
    /\ p \in NeedsApproval => prop[p].approved

\* The gate holds at the domain call because it holds at every place a
\* proposal passes through on its way there: the statuses behind READY, the
\* execution row, the open requests and the workers.
GateInv ==
    /\ \A p \in Proposals :
         /\ prop[p].status \notin {"NONE", "PROPOSED"} => "PREVIEWED" \in ptrail[p]
         /\ prop[p].status \notin {"NONE", "PROPOSED", "PENDING_APPROVAL"} => Cleared(p)
         /\ exec[p].status # "NONE" => Cleared(p)
    /\ \A s \in Sessions :
         /\ session[s].op = "approve" => "PREVIEWED" \in ptrail[session[s].p]
         /\ session[s].op = "enqueue" => Cleared(session[s].p)
    /\ \A w \in Workers : Running(w) => Cleared(worker[w].job)
    /\ \A c \in sent : Cleared(c[1])

\* Nothing was sent yet.
LEMMA InitGate == Init => GateInv
  BY DEF Init, RepoInit, GateInv, Idle, Resting, Running

\* A commit by a worker on a cleared proposal.
LEMMA WriteRowsGate ==
    ASSUME TypeInv, GateInv, NEW p \in Proposals, Cleared(p),
           NEW snap, NEW status, NEW owner, NEW lease,
           WriteRows(p, snap, status, owner, lease)
    PROVE  /\ \A q \in Proposals : Cleared(q) => Cleared(q)'
           /\ \A q \in Proposals : ptrail[q] \subseteq ptrail'[q]
           /\ \A q \in Proposals \ {p} :
                prop'[q] = prop[q] /\ exec'[q] = exec[q] /\ ptrail'[q] = ptrail[q]
  <1>1. /\ ptrail' = [ptrail EXCEPT ![p] = @ \cup {status}]
        /\ prop' = [prop EXCEPT ![p].status = Column(prop[p].status, snap.prop, status)]
        /\ \A q \in Proposals \ {p} : exec'[q] = exec[q]
    BY DEF WriteRows, TypeInv, TypeOK, RepoTypeOK
  <1>2. \A q \in Proposals : prop'[q].approved = prop[q].approved
    BY <1>1 DEF TypeInv, TypeOK, RepoTypeOK, ProposalRow
  <1>3. \A q \in Proposals : ptrail[q] \subseteq ptrail'[q]
    BY <1>1 DEF TypeInv, TypeOK, RepoTypeOK
  <1> QED BY <1>1, <1>2, <1>3 DEF Cleared, TypeInv, TypeOK, RepoTypeOK

\* Requests keep the gate closed.
LEMMA ApiGate ==
    ASSUME TypeInv, GateInv, ApiNext, UNCHANGED workerVars
    PROVE  GateInv'
  <1> USE DEF TypeInv, TypeOK, RepoTypeOK, Running, workerVars
  <1>0. \A c \in sent : c[1] \in Proposals
    BY DEF Calls
  <1>s. \A s \in Sessions : session[s].op # "none" => session[s].p \in Proposals
    BY DEF Request, Idle
  <1>w. \A w \in Workers : Running(w) => worker[w].job \in Proposals
    BY DEF WorkerShape
  <1>1. ASSUME NEW p \in Proposals, Propose(p) PROVE GateInv'
    <2>1. \A q \in Proposals : /\ prop'[q].approved = prop[q].approved
                               /\ ptrail[q] \subseteq ptrail'[q]
                               /\ prop'[q].status # prop[q].status => prop'[q].status = "PROPOSED"
      BY <1>1 DEF Propose, ProposalRow
    <2>2. \A q \in Proposals : Cleared(q) => Cleared(q)'
      BY <2>1 DEF Cleared
    <2> QED BY <1>1, <1>0, <1>s, <1>w, <2>1, <2>2, Zenon DEF Propose, GateInv
  <1>2. ASSUME NEW s \in Sessions, PreviewCommit(s) PROVE GateInv'
    <2>1. PICK p \in Proposals : p = session[s].p
      BY <1>2, <1>s DEF PreviewCommit
    <2>2. /\ \A q \in Proposals : prop'[q].approved = prop[q].approved
          /\ \A q \in Proposals : ptrail[q] \subseteq ptrail'[q]
          /\ "PREVIEWED" \in ptrail'[p]
          /\ prop'[p].status = prop[p].status \/ prop'[p].status = NextAfterPreview(p)
          /\ \A q \in Proposals \ {p} : prop'[q] = prop[q]
      BY <1>2, <2>1 DEF PreviewCommit, ProposalRow, Column
    <2>3. \A q \in Proposals : Cleared(q) => Cleared(q)'
      BY <2>2 DEF Cleared
    <2>4. NextAfterPreview(p) # "PENDING_APPROVAL" => p \notin NeedsApproval
      BY DEF NextAfterPreview
    <2>5. prop'[p].status \notin {"NONE", "PROPOSED", "PENDING_APPROVAL"} => Cleared(p)'
      BY <2>1, <2>2, <2>3, <2>4 DEF Cleared, GateInv
    <2>6. \A t \in Sessions : session'[t] = session[t] \/ session'[t] = Idle
      BY <1>2 DEF PreviewCommit, Reply
    <2>7. UNCHANGED exec
      BY <1>2 DEF PreviewCommit
    <2>8. \A q \in Proposals :
            /\ prop'[q].status \notin {"NONE", "PROPOSED"} => "PREVIEWED" \in ptrail'[q]
            /\ prop'[q].status \notin {"NONE", "PROPOSED", "PENDING_APPROVAL"} => Cleared(q)'
            /\ exec'[q].status # "NONE" => Cleared(q)'
      BY <2>1, <2>2, <2>3, <2>5, <2>7 DEF GateInv
    <2>9. \A t \in Sessions :
            /\ session'[t].op = "approve" => "PREVIEWED" \in ptrail'[session'[t].p]
            /\ session'[t].op = "enqueue" => Cleared(session[t].p)'
      BY <2>2, <2>3, <2>6, <1>s DEF GateInv, Idle, Cleared
    <2> QED BY <1>0, <1>w, <2>3, <2>8, <2>9 DEF GateInv
  <1>3. ASSUME NEW s \in Sessions, ApproveCommit(s) PROVE GateInv'
    <2>1. PICK p \in Proposals : p = session[s].p
      BY <1>3, <1>s DEF ApproveCommit
    <2>2. /\ \A q \in Proposals : prop[q].approved => prop'[q].approved
          /\ \A q \in Proposals : ptrail[q] \subseteq ptrail'[q]
          /\ prop'[p].approved
          /\ \A q \in Proposals \ {p} : prop'[q] = prop[q]
      BY <1>3, <2>1 DEF ApproveCommit, ProposalRow
    <2>3. \A q \in Proposals : Cleared(q) => Cleared(q)'
      BY <2>2 DEF Cleared
    <2>4. Cleared(p)'
      BY <1>3, <2>1, <2>2 DEF Cleared, GateInv, ApproveCommit
    <2>6. \A t \in Sessions : session'[t] = session[t] \/ session'[t] = Idle
      BY <1>3 DEF ApproveCommit, Reply
    <2>7. UNCHANGED exec
      BY <1>3 DEF ApproveCommit
    <2>8. \A q \in Proposals :
            /\ prop'[q].status \notin {"NONE", "PROPOSED"} => "PREVIEWED" \in ptrail'[q]
            /\ prop'[q].status \notin {"NONE", "PROPOSED", "PENDING_APPROVAL"} => Cleared(q)'
            /\ exec'[q].status # "NONE" => Cleared(q)'
      BY <2>1, <2>2, <2>3, <2>4, <2>7 DEF GateInv, Cleared
    <2>9. \A t \in Sessions :
            /\ session'[t].op = "approve" => "PREVIEWED" \in ptrail'[session'[t].p]
            /\ session'[t].op = "enqueue" => Cleared(session[t].p)'
      BY <2>2, <2>3, <2>6, <1>s DEF GateInv, Idle, Cleared
    <2> QED BY <1>0, <1>w, <2>3, <2>8, <2>9 DEF GateInv
  <1>4. ASSUME NEW s \in Sessions, EnqueueCommit(s) PROVE GateInv'
    <2>1. PICK p \in Proposals : p = session[s].p /\ Cleared(p)
      BY <1>4, <1>s DEF EnqueueCommit, GateInv
    <2>2. \A q \in Proposals \ {p} : exec'[q] = exec[q]
      BY <1>4, <2>1 DEF EnqueueCommit
    <2>3. UNCHANGED <<prop, ptrail>>
      BY <1>4 DEF EnqueueCommit
    <2>4. \A t \in Sessions : session'[t] = session[t] \/ session'[t] = Idle
      BY <1>4 DEF EnqueueCommit, Reply
    <2> QED BY <2>1, <2>2, <2>3, <2>4 DEF GateInv, Cleared, Idle
  <1>5. ASSUME NEW s \in Sessions, Abort(s) PROVE GateInv'
    BY <1>5 DEF Abort, Reply, GateInv, Cleared, Idle
  <1>6. ASSUME NEW s \in Sessions, NEW p \in Proposals,
               PreviewRead(s, p) \/ ApproveRead(s, p) \/ EnqueueRead(s, p)
        PROVE GateInv'
    <2>1. UNCHANGED <<prop, exec, ptrail>>
      BY <1>6 DEF PreviewRead, ApproveRead, EnqueueRead
    <2>2. /\ \A t \in Sessions \ {s} : session'[t] = session[t]
          /\ session'[s].p = p
          /\ session'[s].op = "approve" => prop[p].status = "PENDING_APPROVAL"
          /\ session'[s].op = "enqueue" => prop[p].status \in Enqueuable
      BY <1>6 DEF PreviewRead, ApproveRead, EnqueueRead
    <2> QED BY <2>1, <2>2 DEF GateInv, Cleared, Enqueuable
  <1> QED BY <1>1, <1>2, <1>3, <1>4, <1>5, <1>6 DEF ApiNext

\* What a step of worker w may do to its own record and to the calls.
LEMMA WorkerGate ==
    ASSUME TypeInv, GateInv, NEW w \in Workers, WorkerStep(w) \/ Crash(w)
    PROVE  GateInv'
  <1> USE DEF TypeInv, TypeOK, RepoTypeOK, Running
  <1>0. \A c \in sent : c[1] \in Proposals
    BY DEF Calls
  <1>w. \A v \in Workers : Running(v) => worker[v].job \in Proposals
    BY DEF WorkerShape
  <1>s. \A s \in Sessions : session[s].op # "none" => session[s].p \in Proposals
    BY DEF Request, Idle
  <1>1. ASSUME NEW p \in Proposals, ClaimRead(w, p) PROVE GateInv'
    <2>1. Cleared(p)
      BY <1>1 DEF ClaimRead, Head, Claimable, GateInv
    <2> QED BY <1>1, <2>1 DEF ClaimRead, repoVars, GateInv, Cleared
  <1>2. ASSUME \/ ClaimCommit(w) \/ BeginCommit(w)
               \/ FinishCompensationCommit(w) \/ FinishCommit(w)
        PROVE GateInv'
    <2>1. PICK p \in Proposals : p = worker[w].job /\ Cleared(p)
      BY <1>2, <1>w DEF ClaimCommit, BeginCommit, FinishCompensationCommit,
                        FinishCommit, GateInv
    <2>2. \E snap, status, owner, lease : WriteRows(p, snap, status, owner, lease)
      BY <1>2, <2>1
         DEF ClaimCommit, BeginCommit, FinishCompensationCommit, FinishCommit,
             ClaimWrite, BeginCompensationWrite, FinishCompensationWrite, FinishWrite
    <2>3. /\ \A q \in Proposals : Cleared(q) => Cleared(q)'
          /\ \A q \in Proposals : ptrail[q] \subseteq ptrail'[q]
          /\ \A q \in Proposals \ {p} :
                prop'[q] = prop[q] /\ exec'[q] = exec[q] /\ ptrail'[q] = ptrail[q]
      BY <2>1, <2>2, WriteRowsGate
    <2>4. UNCHANGED <<session, sent>>
      BY <1>2 DEF ClaimCommit, BeginCommit, FinishCompensationCommit, FinishCommit
    <2>5. /\ \A v \in Workers \ {w} : worker'[v] = worker[v]
          /\ worker'[w].job = p \/ worker'[w].pc = "idle"
      BY <1>2, <2>1 DEF ClaimCommit, BeginCommit, FinishCompensationCommit,
                        FinishCommit, Goto, Resting, WorkerState
    <2>6. \A q \in Proposals :
            /\ prop'[q].status \notin {"NONE", "PROPOSED"} => "PREVIEWED" \in ptrail'[q]
            /\ prop'[q].status \notin {"NONE", "PROPOSED", "PENDING_APPROVAL"} => Cleared(q)'
            /\ exec'[q].status # "NONE" => Cleared(q)'
      BY <2>1, <2>3 DEF GateInv, Cleared
    <2>7. \A s \in Sessions :
            /\ session'[s].op = "approve" => "PREVIEWED" \in ptrail'[session'[s].p]
            /\ session'[s].op = "enqueue" => Cleared(session[s].p)'
      BY <2>3, <2>4, <1>s DEF GateInv, Cleared
    <2>8. \A v \in Workers : Running(v)' => Cleared(worker[v].job)'
      BY <2>1, <2>3, <2>5, <1>w DEF GateInv, Cleared
    <2> QED BY <1>0, <2>3, <2>4, <2>6, <2>7, <2>8 DEF GateInv
  <1>3. ASSUME Execute(w) \/ Compensate(w) PROVE GateInv'
    <2>1. Cleared(worker[w].job)
      BY <1>3 DEF Execute, Compensate, GateInv
    <2>2. UNCHANGED <<prop, exec, ptrail, session>>
      BY <1>3 DEF Execute, Compensate, Call, repoVars
    <2>3. \E kind : sent' = sent \cup {<<worker[w].job, kind>>}
      BY <1>3 DEF Execute, Compensate, Call
    <2>4. /\ \A v \in Workers \ {w} : worker'[v] = worker[v]
          /\ worker'[w].job = worker[w].job
      BY <1>3 DEF Execute, Compensate, Call, Goto, WorkerState
    <2> QED BY <2>1, <2>2, <2>3, <2>4 DEF GateInv, Cleared
  <1>4. ASSUME \/ Revalidate(w) \/ CheckTarget(w) \/ ExecuteOk(w)
               \/ ExecuteError(w) \/ CompensateReply(w) \/ BeginRead(w)
               \/ FinishCompensationRead(w) \/ FinishRead(w)
               \/ Crash(w) \/ Restart(w)
        PROVE GateInv'
    <2>1. UNCHANGED <<prop, exec, ptrail, session, sent>>
      BY <1>4 DEF Revalidate, CheckTarget, ExecuteOk, ExecuteError,
                  CompensateReply, BeginRead, FinishCompensationRead, FinishRead,
                  Crash, Restart, repoVars
    <2>2. /\ \A v \in Workers \ {w} : worker'[v] = worker[v]
          /\ \/ Running(w) /\ worker'[w].job = worker[w].job
             \/ worker'[w].pc \in {"idle", "down"}
      <3>1. CASE Crash(w) \/ Restart(w)
        BY <3>1, RestingType DEF Crash, Restart, Exit
      <3>2. CASE BeginRead(w) \/ FinishCompensationRead(w) \/ FinishRead(w)
        <4>1. OpenTransaction(w) \/ Fail(w) \/ Exit(w)
          BY <3>2 DEF BeginRead, FinishCompensationRead, FinishRead
        <4>2. Running(w)
          BY <3>2 DEF BeginRead, FinishCompensationRead, FinishRead
        <4> QED BY <4>1, <4>2, RestingType DEF OpenTransaction, Fail, Exit, WorkerState
      <3>3. CASE \/ Revalidate(w) \/ CheckTarget(w) \/ ExecuteOk(w)
                 \/ ExecuteError(w) \/ CompensateReply(w)
        BY <3>3 DEF Revalidate, CheckTarget, ExecuteOk, ExecuteError,
                    CompensateReply, Goto, Fail, WorkerState
      <3> QED BY <1>4, <3>1, <3>2, <3>3
    <2> QED BY <2>1, <2>2 DEF GateInv, Cleared
  <1> QED BY <1>1, <1>2, <1>3, <1>4 DEF WorkerStep

\* Every step keeps the gate closed.
LEMMA NextGate == TypeInv /\ GateInv /\ [Next]_vars => GateInv'
  <1> SUFFICES ASSUME TypeInv, GateInv, [Next]_vars PROVE GateInv'
    OBVIOUS
  <1>1. CASE UNCHANGED vars
    BY <1>1 DEF vars, GateInv, Cleared, Running
  <1>2. ASSUME NEW p \in Proposals, ExpireLease(p) PROVE GateInv'
    <2>1. \A q \in Proposals : exec'[q].status = exec[q].status
      BY <1>2 DEF ExpireLease, TypeInv, TypeOK, RepoTypeOK, ExecutionRow
    <2> QED BY <1>2, <2>1 DEF ExpireLease, GateInv, Cleared, Running
  <1>3. ASSUME NEW p \in Proposals, NEW kind \in {"execute", "compensate"},
               DomainApply(p, kind)
        PROVE GateInv'
    BY <1>3 DEF DomainApply, repoVars, GateInv, Cleared, Running
  <1> QED BY <1>1, <1>2, <1>3, ApiGate, WorkerGate DEF Next

\* The approval gate: in every reachable state, a domain call was issued only
\* for a previewed proposal, approved by someone if its action requires it.
THEOREM ApprovalGateHolds == Spec => []ApprovalGate
  <1>1. Spec => [](TypeInv /\ GateInv)
    BY InitType, NextType, InitGate, NextGate, PTL DEF Spec
  <1>2. GateInv => ApprovalGate
    BY DEF GateInv, ApprovalGate, Cleared
  <1> QED BY <1>1, <1>2, PTL

-----------------------------------------------------------------------------
(* Recorded outcomes are real. *)

\* A worker about to record a success has seen the domain apply the call.
OutcomeInv ==
    /\ OutcomeIsReal
    /\ \A w \in Workers :
         /\ worker[w].pc = "finish" /\ worker[w].ok
              => <<worker[w].job, "execute">> \in handled
         /\ worker[w].pc = "finish_comp" /\ worker[w].ok
              => <<worker[w].job, "compensate">> \in handled

\* Nothing is recorded yet.
LEMMA InitOutcome == Init => OutcomeInv
  BY DEF Init, RepoInit, OutcomeInv, OutcomeIsReal, Resting

\* After a commit the status is the one written or the one that was there.
LEMMA WriteRowsStatus ==
    ASSUME TypeInv, NEW p \in Proposals, NEW snap, NEW status, NEW owner, NEW lease,
           WriteRows(p, snap, status, owner, lease)
    PROVE  /\ exec'[p].status \in {exec[p].status, status}
           /\ \A q \in Proposals \ {p} : exec'[q] = exec[q]
  BY DEF WriteRows, Column, TypeInv, TypeOK, RepoTypeOK

\* A worker records as success only what the domain has applied.
LEMMA WorkerOutcome ==
    ASSUME TypeInv, OutcomeInv, NEW w \in Workers, WorkerStep(w) \/ Crash(w)
    PROVE  OutcomeInv'
  <1> USE DEF TypeInv, TypeOK
  <1>h. UNCHANGED handled
    BY DEF WorkerStep, ClaimRead, ClaimCommit, Revalidate, CheckTarget, Execute,
           ExecuteOk, ExecuteError, Compensate, CompensateReply, BeginRead,
           BeginCommit, FinishCompensationRead, FinishCompensationCommit,
           FinishRead, FinishCommit, Crash, Restart, Call
  <1>1. ASSUME ClaimCommit(w) \/ BeginCommit(w) PROVE OutcomeInv'
    <2>1. PICK p \in Proposals : p = worker[w].job
      BY <1>1 DEF ClaimCommit, BeginCommit, WorkerShape, Running
    <2>2. PICK snap, owner, lease, status :
             /\ status \in {"EXECUTING", "COMPENSATING"}
             /\ WriteRows(p, snap, status, owner, lease)
      <3>1. CASE ClaimCommit(w)
        <4>1. ClaimedStatus(worker[w].snap) \in {"EXECUTING", "COMPENSATING"}
          BY DEF ClaimedStatus
        <4> QED BY <3>1, <4>1, <2>1 DEF ClaimCommit, ClaimWrite
      <3>2. CASE BeginCommit(w)
        BY <3>2, <2>1 DEF BeginCommit, BeginCompensationWrite
      <3> QED BY <1>1, <3>1, <3>2
    <2>x. /\ exec'[p].status \in {exec[p].status, status}
          /\ \A q \in Proposals \ {p} : exec'[q] = exec[q]
      BY <2>2, WriteRowsStatus
    <2>3. OutcomeIsReal'
      BY <2>2, <2>x, <1>h DEF OutcomeInv, OutcomeIsReal
    <2>4. /\ \A v \in Workers \ {w} : worker'[v] = worker[v]
          /\ worker'[w].pc \in {"revalidate", "compensate"}
      BY <1>1 DEF ClaimCommit, BeginCommit, Goto, WorkerState
    <2> QED BY <2>3, <2>4, <1>h DEF OutcomeInv
  <1>2. ASSUME FinishCompensationCommit(w) \/ FinishCommit(w) PROVE OutcomeInv'
    <2>1. PICK p \in Proposals : p = worker[w].job
      BY <1>2 DEF FinishCompensationCommit, FinishCommit, WorkerShape, Running
    <2>2. PICK snap, owner, lease, status :
             /\ WriteRows(p, snap, status, owner, lease)
             /\ status = "SUCCEEDED" => <<p, "execute">> \in handled
             /\ status = "COMPENSATED" => <<p, "compensate">> \in handled
      BY <1>2, <2>1 DEF FinishCompensationCommit, FinishCommit,
                        FinishCompensationWrite, FinishWrite, OutcomeInv
    <2>x. /\ exec'[p].status \in {exec[p].status, status}
          /\ \A q \in Proposals \ {p} : exec'[q] = exec[q]
      BY <2>2, WriteRowsStatus
    <2>3. OutcomeIsReal'
      BY <2>2, <2>x, <1>h DEF OutcomeInv, OutcomeIsReal
    <2>4. /\ \A v \in Workers \ {w} : worker'[v] = worker[v]
          /\ worker'[w].pc = "idle"
      BY <1>2, RestingType DEF FinishCompensationCommit, FinishCommit
    <2> QED BY <2>3, <2>4, <1>h DEF OutcomeInv
  <1>3. ASSUME \/ Revalidate(w) \/ CheckTarget(w) \/ Execute(w) \/ ExecuteOk(w)
               \/ ExecuteError(w) \/ Compensate(w) \/ CompensateReply(w)
               \/ BeginRead(w) \/ FinishCompensationRead(w) \/ FinishRead(w)
               \/ Crash(w) \/ Restart(w) \/ \E p \in Proposals : ClaimRead(w, p)
        PROVE OutcomeInv'
    <2>1. UNCHANGED exec
      BY <1>3 DEF ClaimRead, Revalidate, CheckTarget, Execute, ExecuteOk,
                  ExecuteError, Compensate, CompensateReply, BeginRead,
                  FinishCompensationRead, FinishRead, Crash, Restart, Call, repoVars
    <2>2. /\ \A v \in Workers \ {w} : worker'[v] = worker[v]
          /\ worker'[w].pc = "finish" /\ worker'[w].ok
               => <<worker'[w].job, "execute">> \in handled
          /\ worker'[w].pc = "finish_comp" /\ worker'[w].ok
               => <<worker'[w].job, "compensate">> \in handled
      <3>1. CASE Crash(w) \/ Restart(w)
        BY <3>1, RestingType DEF Crash, Restart, Exit
      <3>2. CASE BeginRead(w) \/ FinishCompensationRead(w) \/ FinishRead(w)
        <4>1. OpenTransaction(w) \/ Fail(w) \/ Exit(w)
          BY <3>2 DEF BeginRead, FinishCompensationRead, FinishRead
        <4> QED BY <4>1, RestingType DEF OpenTransaction, Fail, Exit, WorkerState, OutcomeInv
      <3>3. CASE \/ Revalidate(w) \/ CheckTarget(w) \/ ExecuteError(w)
        BY <3>3 DEF Revalidate, CheckTarget, ExecuteError, Goto, Fail, WorkerState
      <3>4. CASE ExecuteOk(w) \/ CompensateReply(w)
        BY <3>4 DEF ExecuteOk, CompensateReply, WorkerState
      <3>5. CASE Execute(w) \/ Compensate(w)
        BY <3>5 DEF Execute, Compensate, Call, Goto, WorkerState
      <3>6. CASE \E p \in Proposals : ClaimRead(w, p)
        BY <3>6 DEF ClaimRead, WorkerState
      <3> QED BY <1>3, <3>1, <3>2, <3>3, <3>4, <3>5, <3>6
    <2> QED BY <2>1, <2>2, <1>h DEF OutcomeInv, OutcomeIsReal
  <1> QED BY <1>1, <1>2, <1>3 DEF WorkerStep

\* Every step keeps the recorded outcomes true.
LEMMA NextOutcome == TypeInv /\ OutcomeInv /\ [Next]_vars => OutcomeInv'
  <1> SUFFICES ASSUME TypeInv, OutcomeInv, [Next]_vars PROVE OutcomeInv'
    OBVIOUS
  <1>1. CASE UNCHANGED vars
    BY <1>1 DEF vars, OutcomeInv, OutcomeIsReal
  <1>2. ASSUME NEW p \in Proposals, ExpireLease(p) PROVE OutcomeInv'
    <2>1. \A q \in Proposals : exec'[q].status = exec[q].status
      BY <1>2 DEF ExpireLease, TypeInv, TypeOK, RepoTypeOK, ExecutionRow
    <2> QED BY <1>2, <2>1 DEF ExpireLease, OutcomeInv, OutcomeIsReal
  <1>3. ASSUME NEW p \in Proposals, NEW kind \in {"execute", "compensate"},
               DomainApply(p, kind)
        PROVE OutcomeInv'
    BY <1>3 DEF DomainApply, repoVars, OutcomeInv, OutcomeIsReal
  <1>4. ASSUME ApiNext, UNCHANGED workerVars PROVE OutcomeInv'
    <2>1. \A q \in Proposals : exec'[q].status \in {exec[q].status, "READY"}
      <3>1. UNCHANGED exec \/ \E s \in Sessions : EnqueueCommit(s)
        BY <1>4 DEF ApiNext, Propose, PreviewCommit, ApproveCommit, Abort,
                    PreviewRead, ApproveRead, EnqueueRead
      <3>2. ASSUME NEW s \in Sessions, EnqueueCommit(s)
            PROVE  \A q \in Proposals : exec'[q].status \in {exec[q].status, "READY"}
        BY <3>2 DEF EnqueueCommit, TypeInv, TypeOK, RepoTypeOK, ExecutionRow
      <3> QED BY <3>1, <3>2
    <2> QED BY <1>4, <2>1 DEF workerVars, OutcomeInv, OutcomeIsReal
  <1> QED BY <1>1, <1>2, <1>3, <1>4, WorkerOutcome DEF Next

\* SUCCEEDED is recorded only for an action the domain has applied, and
\* COMPENSATED only for a compensation it has applied.
THEOREM OutcomeHolds == Spec => []OutcomeIsReal
  <1>1. Spec => [](TypeInv /\ OutcomeInv)
    BY InitType, NextType, InitOutcome, NextOutcome, PTL DEF Spec
  <1> QED BY <1>1, PTL DEF OutcomeInv

-----------------------------------------------------------------------------
(* Compensations are declared, and follow an attempt. *)

Attempted(p) == p \in HasCompensation /\ <<p, "execute">> \in sent

\* What is being compensated was attempted, in the row, in a snapshot of it and
\* in a worker that took it over.
CompensationInv ==
    /\ CompensationIsDeclared
    /\ \A p \in Proposals : exec[p].status = "COMPENSATING" => Attempted(p)
    /\ \A w \in Workers :
         /\ worker[w].pc = "claim" /\ worker[w].snap.exec.status = "COMPENSATING"
              => Attempted(worker[w].job)
         /\ worker[w].mode = "COMPENSATING" => Attempted(worker[w].job)
         /\ worker[w].pc \in {"begin", "compensate", "compensating"}
              => Attempted(worker[w].job)
         /\ worker[w].pc = "executing" => <<worker[w].job, "execute">> \in sent

\* Nothing is sent.
LEMMA InitCompensation == Init => CompensationInv
  BY DEF Init, RepoInit, CompensationInv, CompensationIsDeclared, Resting

\* One worker's step: what has to hold of it, of the rows and of the calls.
LEMMA CompensationFrame ==
    ASSUME CompensationInv, NEW w \in Workers,
           \A v \in Workers \ {w} : worker'[v] = worker[v],
           sent \subseteq sent',
           \A p \in Proposals : <<p, "compensate">> \in sent' => Attempted(p)',
           \A p \in Proposals : exec'[p].status = "COMPENSATING" => Attempted(p)',
           worker'[w].pc = "claim" /\ worker'[w].snap.exec.status = "COMPENSATING"
             => Attempted(worker[w].job)',
           worker'[w].mode = "COMPENSATING" => Attempted(worker[w].job)',
           worker'[w].pc \in {"begin", "compensate", "compensating"}
             => Attempted(worker[w].job)',
           worker'[w].pc = "executing" => <<worker'[w].job, "execute">> \in sent'
    PROVE  CompensationInv'
  <1>1. \A p : Attempted(p) => Attempted(p)'
    BY DEF Attempted
  <1>2. CompensationIsDeclared'
    BY DEF CompensationIsDeclared, Attempted
  <1>3. ASSUME NEW v \in Workers \ {w}
        PROVE  /\ worker'[v].pc = "claim" /\ worker'[v].snap.exec.status = "COMPENSATING"
                    => Attempted(worker[v].job)'
               /\ worker'[v].mode = "COMPENSATING" => Attempted(worker[v].job)'
               /\ worker'[v].pc \in {"begin", "compensate", "compensating"}
                    => Attempted(worker[v].job)'
               /\ worker'[v].pc = "executing" => <<worker'[v].job, "execute">> \in sent'
    BY <1>1, <1>3 DEF CompensationInv, Attempted
  <1> QED BY <1>2, <1>3 DEF CompensationInv

\* A worker compensates only what it attempted itself or took over from one
\* that had.
LEMMA WorkerCompensation ==
    ASSUME TypeInv, CompensationInv, NEW w \in Workers, WorkerStep(w) \/ Crash(w)
    PROVE  CompensationInv'
  <1>0. /\ worker \in [Workers -> WorkerState] /\ worker[w] \in WorkerState
        /\ Running(w) => worker[w].job \in Proposals
        /\ worker[w].pc = "claim" => worker[w].snap \in Snapshot
    BY DEF TypeInv, TypeOK, WorkerShape
  <1>c. \A p \in Proposals : <<p, "compensate">> \in sent => Attempted(p)
    BY DEF CompensationInv, CompensationIsDeclared, Attempted
  <1>1. ASSUME ClaimCommit(w) PROVE CompensationInv'
    <2>1. PICK p \in Proposals : p = worker[w].job
      BY <1>0, <1>1 DEF ClaimCommit, Running
    <2>2. PICK st : st = ClaimedStatus(worker[w].snap) /\ (st = "COMPENSATING" => Attempted(p))
      <3>1. ClaimedStatus(worker[w].snap) = "COMPENSATING" => Attempted(p)
        BY <1>1, <2>1 DEF ClaimCommit, CompensationInv, ClaimedStatus
      <3> QED BY <3>1
    <2>3. /\ exec'[p].status \in {exec[p].status, st}
          /\ \A q \in Proposals \ {p} : exec'[q] = exec[q]
      BY <1>1, <2>1, <2>2, WriteRowsStatus DEF ClaimCommit, ClaimWrite
    <2>4. UNCHANGED sent /\ \A q \in Proposals : Attempted(q)' <=> Attempted(q)
      BY <1>1 DEF ClaimCommit, Attempted
    <2>5. \A q \in Proposals : exec'[q].status = "COMPENSATING" => Attempted(q)'
      BY <2>2, <2>3, <2>4 DEF CompensationInv
    <2>6. /\ \A v \in Workers \ {w} : worker'[v] = worker[v]
          /\ worker'[w].pc = "revalidate" /\ worker'[w].mode = st /\ worker'[w].job = p
      BY <1>0, <1>1, <2>1, <2>2 DEF ClaimCommit, WorkerState
    <2> QED BY <1>c, <2>2, <2>4, <2>5, <2>6, CompensationFrame
  <1>2. ASSUME BeginCommit(w) PROVE CompensationInv'
    <2>1. PICK p \in Proposals : p = worker[w].job /\ Attempted(p)
      BY <1>0, <1>2 DEF BeginCommit, Running, CompensationInv
    <2>3. /\ exec'[p].status \in {exec[p].status, "COMPENSATING"}
          /\ \A q \in Proposals \ {p} : exec'[q] = exec[q]
      BY <1>2, <2>1, WriteRowsStatus DEF BeginCommit, BeginCompensationWrite
    <2>4. UNCHANGED sent /\ \A q \in Proposals : Attempted(q)' <=> Attempted(q)
      BY <1>2 DEF BeginCommit, Attempted
    <2>5. \A q \in Proposals : exec'[q].status = "COMPENSATING" => Attempted(q)'
      BY <2>1, <2>3, <2>4 DEF CompensationInv
    <2>6. /\ \A v \in Workers \ {w} : worker'[v] = worker[v]
          /\ worker'[w].pc = "compensate" /\ worker'[w].job = p
      BY <1>0, <1>2, <2>1 DEF BeginCommit, Goto, WorkerState
    <2> QED BY <1>c, <2>1, <2>4, <2>5, <2>6, CompensationFrame
  <1>3. ASSUME FinishCompensationCommit(w) \/ FinishCommit(w) PROVE CompensationInv'
    <2>1. PICK p \in Proposals : p = worker[w].job
      BY <1>0, <1>3 DEF FinishCompensationCommit, FinishCommit, Running
    <2>2. PICK snap, st : WriteRows(p, snap, st, None, "null") /\ st \in Terminal
      BY <1>3, <2>1 DEF FinishCompensationCommit, FinishCommit,
                        FinishCompensationWrite, FinishWrite, Terminal
    <2>3. /\ exec'[p].status \in {exec[p].status, st}
          /\ \A q \in Proposals \ {p} : exec'[q] = exec[q]
      BY <2>2, WriteRowsStatus
    <2>4. UNCHANGED sent /\ \A q \in Proposals : Attempted(q)' <=> Attempted(q)
      BY <1>3 DEF FinishCompensationCommit, FinishCommit, Attempted
    <2>5. \A q \in Proposals : exec'[q].status = "COMPENSATING" => Attempted(q)'
      BY <2>2, <2>3, <2>4 DEF CompensationInv, Terminal
    <2>6. /\ \A v \in Workers \ {w} : worker'[v] = worker[v]
          /\ worker'[w].pc = "idle" /\ worker'[w].mode = "NONE"
      BY <1>0, <1>3 DEF FinishCompensationCommit, FinishCommit, Resting
    <2> QED BY <1>c, <2>4, <2>5, <2>6, CompensationFrame
  <1>4. ASSUME Execute(w) \/ Compensate(w) PROVE CompensationInv'
    <2>1. PICK p \in Proposals : p = worker[w].job
      BY <1>0, <1>4 DEF Execute, Compensate, Running
    <2>2. /\ UNCHANGED exec /\ sent \subseteq sent'
          /\ \A v \in Workers \ {w} : worker'[v] = worker[v]
          /\ worker'[w].mode = worker[w].mode /\ worker'[w].job = p
      BY <1>0, <1>4, <2>1 DEF Execute, Compensate, Call, Goto, WorkerState, repoVars
    <2>3. \A q \in Proposals : Attempted(q) => Attempted(q)'
      BY <2>2 DEF Attempted
    <2>4. \/ worker'[w].pc = "executing" /\ sent' = sent \cup {<<p, "execute">>}
          \/ worker'[w].pc = "compensating" /\ sent' = sent \cup {<<p, "compensate">>} /\ Attempted(p)
      <3>1. CASE Execute(w)
        BY <1>0, <2>1, <3>1 DEF Execute, Call, Goto, WorkerState
      <3>2. CASE Compensate(w)
        BY <1>0, <2>1, <3>2 DEF Compensate, Call, Goto, WorkerState, CompensationInv
      <3> QED BY <1>4, <3>1, <3>2
    <2>5. \A q \in Proposals : <<q, "compensate">> \in sent' => Attempted(q)'
      BY <1>c, <2>3, <2>4
    <2>6. worker'[w].mode = "COMPENSATING" => Attempted(p)'
      BY <2>1, <2>2, <2>3 DEF CompensationInv
    <2>7. \A q \in Proposals : exec'[q].status = "COMPENSATING" => Attempted(q)'
      BY <2>2, <2>3 DEF CompensationInv
    <2> QED BY <2>2, <2>3, <2>4, <2>5, <2>6, <2>7, CompensationFrame
  <1>5. ASSUME \/ Revalidate(w) \/ CheckTarget(w) \/ ExecuteOk(w)
               \/ ExecuteError(w) \/ CompensateReply(w)
               \/ BeginRead(w) \/ FinishCompensationRead(w) \/ FinishRead(w)
               \/ Crash(w) \/ Restart(w) \/ \E p \in Proposals : ClaimRead(w, p)
        PROVE CompensationInv'
    <2>1. UNCHANGED <<exec, sent>> /\ \A q : Attempted(q)' <=> Attempted(q)
      BY <1>5 DEF ClaimRead, Revalidate, CheckTarget, ExecuteOk,
                  ExecuteError, CompensateReply, BeginRead,
                  FinishCompensationRead, FinishRead, Crash, Restart, repoVars, Attempted
    <2>2. /\ \A v \in Workers \ {w} : worker'[v] = worker[v]
          /\ worker'[w].pc = "claim" /\ worker'[w].snap.exec.status = "COMPENSATING"
               => Attempted(worker'[w].job)
          /\ worker'[w].mode = "COMPENSATING" => Attempted(worker'[w].job)
          /\ worker'[w].pc \in {"begin", "compensate", "compensating"}
               => Attempted(worker'[w].job)
          /\ worker'[w].pc = "executing" => <<worker'[w].job, "execute">> \in sent
      <3>1. CASE Crash(w) \/ Restart(w)
        BY <1>0, <3>1, RestingType DEF Crash, Restart, Exit, Resting
      <3>2. CASE BeginRead(w) \/ FinishCompensationRead(w) \/ FinishRead(w)
        <4>1. /\ OpenTransaction(w) \/ Fail(w) \/ Exit(w)
              /\ worker[w].pc # "claim" /\ worker[w].pc # "executing"
          BY <3>2 DEF BeginRead, FinishCompensationRead, FinishRead
        <4> QED BY <1>0, <4>1, RestingType DEF OpenTransaction, Fail, Exit, WorkerState,
                                               CompensationInv, Resting
      <3>3. CASE Revalidate(w) \/ CheckTarget(w)
        BY <1>0, <3>3 DEF Revalidate, CheckTarget, Goto, Fail, WorkerState, CompensationInv
      <3>4. CASE ExecuteError(w)
        BY <1>0, <3>4 DEF ExecuteError, Goto, Fail, WorkerState, CompensationInv, Attempted
      <3>5. CASE ExecuteOk(w) \/ CompensateReply(w)
        BY <1>0, <3>5 DEF ExecuteOk, CompensateReply, WorkerState, CompensationInv
      <3>6. CASE \E p \in Proposals : ClaimRead(w, p)
        BY <1>0, <3>6 DEF ClaimRead, ReadRows, CompensationInv
      <3> QED BY <1>5, <3>1, <3>2, <3>3, <3>4, <3>5, <3>6
    <2>3. \A q \in Proposals : <<q, "compensate">> \in sent' => Attempted(q)'
      BY <1>c, <2>1
    <2>4. \A q \in Proposals : exec'[q].status = "COMPENSATING" => Attempted(q)'
      BY <2>1 DEF CompensationInv
    <2> QED BY <2>1, <2>2, <2>3, <2>4, CompensationFrame
  <1> QED BY <1>1, <1>2, <1>3, <1>4, <1>5 DEF WorkerStep

\* Every step keeps the invariant.
LEMMA NextCompensation == TypeInv /\ CompensationInv /\ [Next]_vars => CompensationInv'
  <1> SUFFICES ASSUME TypeInv, CompensationInv, [Next]_vars PROVE CompensationInv'
    OBVIOUS
  <1>0. ASSUME UNCHANGED <<worker, sent>>,
               \A q \in Proposals : exec'[q].status \in {exec[q].status, "READY"}
        PROVE  CompensationInv'
    BY <1>0 DEF CompensationInv, CompensationIsDeclared, Attempted
  <1>1. CASE UNCHANGED vars
    BY <1>0, <1>1 DEF vars
  <1>2. ASSUME NEW p \in Proposals, ExpireLease(p) PROVE CompensationInv'
    <2>1. \A q \in Proposals : exec'[q].status = exec[q].status
      BY <1>2 DEF ExpireLease, TypeInv, TypeOK, RepoTypeOK, ExecutionRow
    <2> QED BY <1>0, <1>2, <2>1 DEF ExpireLease
  <1>3. ASSUME NEW p \in Proposals, NEW kind \in {"execute", "compensate"},
               DomainApply(p, kind)
        PROVE CompensationInv'
    BY <1>0, <1>3 DEF DomainApply, repoVars
  <1>4. ASSUME ApiNext, UNCHANGED workerVars PROVE CompensationInv'
    <2>1. \A q \in Proposals : exec'[q].status \in {exec[q].status, "READY"}
      <3>1. UNCHANGED exec \/ \E s \in Sessions : EnqueueCommit(s)
        BY <1>4 DEF ApiNext, Propose, PreviewCommit, ApproveCommit, Abort,
                    PreviewRead, ApproveRead, EnqueueRead
      <3>2. ASSUME NEW s \in Sessions, EnqueueCommit(s)
            PROVE  \A q \in Proposals : exec'[q].status \in {exec[q].status, "READY"}
        BY <3>2 DEF EnqueueCommit, TypeInv, TypeOK, RepoTypeOK, ExecutionRow
      <3> QED BY <3>1, <3>2
    <2> QED BY <1>0, <1>4, <2>1 DEF workerVars
  <1> QED BY <1>1, <1>2, <1>3, <1>4, WorkerCompensation DEF Next

\* The domain is only ever asked to compensate an action that declares a
\* compensation and whose execution was sent before.
THEOREM CompensationHolds == Spec => []CompensationIsDeclared
  <1>1. Spec => [](TypeInv /\ CompensationInv)
    BY InitType, NextType, InitCompensation, NextCompensation, PTL DEF Spec
  <1> QED BY <1>1, PTL DEF CompensationInv

-----------------------------------------------------------------------------
(* With row locks a terminal outcome is fenced. *)

\* A finished row has no owner.
RowFenced(p) == exec[p].owner # None => exec[p].status \notin Terminal

\* What an open claim has read is still there.
ClaimFenced(w) ==
    worker[w].pc = "claim" =>
        /\ worker[w].snap # None
        /\ worker[w].snap.exec.status = exec[worker[w].job].status
        /\ exec[worker[w].job].status \in {"READY", "EXECUTING", "COMPENSATING"}

\* A worker that has read in order to record was the owner of an unfinished row.
RecordFenced(w) ==
    /\ worker[w].pc \in {"begin", "finish_comp", "finish"} /\ worker[w].snap # None
         => worker[w].snap.exec.owner = w /\ worker[w].snap.exec.status \notin Terminal
    /\ worker[w].pc \notin {"claim", "begin", "finish_comp", "finish"} => worker[w].snap = None

FenceInv ==
    RowLocks =>
        /\ \A p \in Proposals : RowFenced(p)
        /\ \A w \in Workers : ClaimFenced(w) /\ RecordFenced(w)
        /\ \A v, w \in Workers :
             /\ worker[v].pc = "claim" /\ worker[w].pc = "claim"
             /\ worker[v].job = worker[w].job
             => v = w

\* Nobody owns anything.
LEMMA InitFence == Init => FenceInv
  BY DEF Init, RepoInit, FenceInv, RowFenced, ClaimFenced, RecordFenced, Resting

\* One worker's step: what has to hold of it and of the rows.
LEMMA FenceFrame ==
    ASSUME FenceInv, NEW w \in Workers,
           \A v \in Workers \ {w} : worker'[v] = worker[v],
           \A p \in Proposals : RowFenced(p)',
           ClaimFenced(w)', RecordFenced(w)',
           \A v \in Workers \ {w} :
             worker[v].pc = "claim" =>
               /\ exec'[worker[v].job].status = exec[worker[v].job].status
               /\ worker'[w].pc = "claim" => worker'[w].job # worker[v].job
    PROVE  FenceInv'
  <1>1. RowLocks' = RowLocks
    OBVIOUS
  <1> SUFFICES ASSUME RowLocks
               PROVE  /\ \A v \in Workers : ClaimFenced(v)' /\ RecordFenced(v)'
                      /\ \A u, v \in Workers :
                           /\ worker'[u].pc = "claim" /\ worker'[v].pc = "claim"
                           /\ worker'[u].job = worker'[v].job
                           => u = v
    BY <1>1 DEF FenceInv
  <1>2. ASSUME NEW v \in Workers \ {w} PROVE ClaimFenced(v)' /\ RecordFenced(v)'
    BY <1>2 DEF FenceInv, ClaimFenced, RecordFenced
  <1>3. ASSUME NEW u \in Workers, NEW v \in Workers, worker'[u].pc = "claim",
               worker'[v].pc = "claim", worker'[u].job = worker'[v].job
        PROVE  u = v
    BY <1>3 DEF FenceInv
  <1> QED BY <1>2, <1>3

\* A commit of a worker finds its row without an open claim of another.
LEMMA RowIsFree ==
    ASSUME RowLocks, NEW w \in Workers, worker[w].job \in Proposals, MayCommit(w)
    PROVE  \A v \in Workers \ {w} : worker[v].pc = "claim" => worker[v].job # worker[w].job
  BY DEF MayCommit, Locked

\* Workers keep the fence.
LEMMA WorkerFence ==
    ASSUME TypeInv, FenceInv, RowLocks, NEW w \in Workers, WorkerStep(w) \/ Crash(w)
    PROVE  FenceInv'
  <1>0. /\ worker \in [Workers -> WorkerState] /\ worker[w] \in WorkerState
        /\ exec \in [Proposals -> ExecutionRow]
        /\ Running(w) => worker[w].job \in Proposals
        /\ worker[w].pc = "claim" => worker[w].snap \in Snapshot
    BY DEF TypeInv, TypeOK, RepoTypeOK, WorkerShape
  <1>r. ClaimFenced(w) /\ RecordFenced(w) /\ \A p \in Proposals : RowFenced(p)
    BY DEF FenceInv
  <1>1. ASSUME ClaimCommit(w) PROVE FenceInv'
    <2>1. PICK p \in Proposals : p = worker[w].job
      BY <1>0, <1>1 DEF ClaimCommit, Running
    <2>2. PICK st \in {"EXECUTING", "COMPENSATING"} : st = ClaimedStatus(worker[w].snap)
      BY DEF ClaimedStatus
    <2>3. /\ exec'[p].status = Column(exec[p].status, worker[w].snap.exec.status, st)
          /\ \A q \in Proposals \ {p} : exec'[q] = exec[q]
      BY <1>0, <1>1, <2>1, <2>2 DEF ClaimCommit, ClaimWrite, WriteRows
    <2>4. exec'[p].status = st
      BY <1>r, <1>1, <2>1, <2>3 DEF ClaimFenced, Column, ClaimCommit
    <2>5. \A q \in Proposals : RowFenced(q)'
      BY <1>r, <2>2, <2>3, <2>4 DEF RowFenced, Terminal
    <2>6. /\ \A v \in Workers \ {w} : worker'[v] = worker[v]
          /\ worker'[w].pc = "revalidate" /\ worker'[w].snap = None
      BY <1>0, <1>1 DEF ClaimCommit, WorkerState
    <2>7. \A v \in Workers \ {w} : worker[v].pc = "claim" => worker[v].job \in Proposals \ {p}
      BY <1>1, <2>1 DEF FenceInv, ClaimCommit, TypeInv, WorkerShape, Running
    <2>8. ClaimFenced(w)' /\ RecordFenced(w)'
      BY <2>6 DEF ClaimFenced, RecordFenced
    <2> QED BY <2>3, <2>5, <2>6, <2>7, <2>8, FenceFrame
  <1>2. ASSUME BeginCommit(w) PROVE FenceInv'
    <2>1. PICK p \in Proposals : p = worker[w].job
      BY <1>0, <1>2 DEF BeginCommit, Running
    <2>3. /\ exec'[p].status \in {exec[p].status, "COMPENSATING"} /\ exec'[p].owner = exec[p].owner
          /\ \A q \in Proposals \ {p} : exec'[q] = exec[q]
      BY <1>0, <1>2, <2>1 DEF BeginCommit, BeginCompensationWrite, WriteRows, Column
    <2>5. \A q \in Proposals : RowFenced(q)'
      BY <1>r, <2>3 DEF RowFenced, Terminal
    <2>6. /\ \A v \in Workers \ {w} : worker'[v] = worker[v]
          /\ worker'[w].pc = "compensate" /\ worker'[w].snap = None
      BY <1>0, <1>2 DEF BeginCommit, Goto, WorkerState
    <2>7. \A v \in Workers \ {w} : worker[v].pc = "claim" => worker[v].job \in Proposals \ {p}
      BY <1>2, <2>1, RowIsFree DEF BeginCommit, TypeInv, WorkerShape, Running
    <2>8. ClaimFenced(w)' /\ RecordFenced(w)'
      BY <2>6 DEF ClaimFenced, RecordFenced
    <2> QED BY <2>3, <2>5, <2>6, <2>7, <2>8, FenceFrame
  <1>3. ASSUME FinishCompensationCommit(w) \/ FinishCommit(w) PROVE FenceInv'
    <2>1. PICK p \in Proposals : p = worker[w].job
      BY <1>0, <1>3 DEF FinishCompensationCommit, FinishCommit, Running
    <2>2. /\ MayCommit(w) /\ worker[w].snap.exec.owner = w
          /\ \E st : WriteRows(p, worker[w].snap, st, None, "null")
      BY <1>r, <1>3, <2>1 DEF FinishCompensationCommit, FinishCommit, RecordFenced, MayCommit,
                              FinishCompensationWrite, FinishWrite
    <2>3. exec'[p].owner = None /\ \A q \in Proposals \ {p} : exec'[q] = exec[q]
      BY <1>0, <2>2 DEF WriteRows, Column
    <2>5. \A q \in Proposals : RowFenced(q)'
      BY <1>r, <2>3 DEF RowFenced
    <2>6. /\ \A v \in Workers \ {w} : worker'[v] = worker[v]
          /\ worker'[w].pc = "idle" /\ worker'[w].snap = None
      BY <1>0, <1>3 DEF FinishCompensationCommit, FinishCommit, Resting
    <2>7. \A v \in Workers \ {w} : worker[v].pc = "claim" => worker[v].job \in Proposals \ {p}
      BY <2>1, <2>2, RowIsFree DEF TypeInv, WorkerShape, Running
    <2>8. ClaimFenced(w)' /\ RecordFenced(w)'
      BY <2>6 DEF ClaimFenced, RecordFenced
    <2> QED BY <2>3, <2>5, <2>6, <2>7, <2>8, FenceFrame
  <1>4. ASSUME NEW p \in Proposals, ClaimRead(w, p) PROVE FenceInv'
    <2>1. UNCHANGED exec
      BY <1>4 DEF ClaimRead, repoVars
    <2>2. \A q \in Proposals : RowFenced(q)'
      BY <1>r, <2>1 DEF RowFenced
    <2>3. ReadRows(p) \in Snapshot /\ ReadRows(p) # None /\ ReadRows(p).exec = exec[p]
      BY ReadRowsType, NullAssumption DEF ReadRows, TypeInv, TypeOK
    <2>4. /\ \A v \in Workers \ {w} : worker'[v] = worker[v]
          /\ worker'[w].pc = "claim" /\ worker'[w].snap = ReadRows(p) /\ worker'[w].job = p
      BY <1>0, <1>4 DEF ClaimRead
    <2>5. ClaimFenced(w)' /\ RecordFenced(w)'
      BY <1>4, <2>1, <2>3, <2>4 DEF ClaimFenced, RecordFenced, ClaimRead, Head, Claimable
    <2>6. \A v \in Workers \ {w} : worker[v].pc = "claim" => worker[v].job # p
      BY <1>4 DEF ClaimRead, Head, Locked
    <2> QED BY <2>1, <2>2, <2>4, <2>5, <2>6, FenceFrame
  <1>5. ASSUME BeginRead(w) \/ FinishCompensationRead(w) \/ FinishRead(w) PROVE FenceInv'
    <2>0. PICK p \in Proposals : p = worker[w].job
      BY <1>0, <1>5 DEF BeginRead, FinishCompensationRead, FinishRead, Running
    <2>1. UNCHANGED exec
      BY <1>5 DEF BeginRead, FinishCompensationRead, FinishRead, repoVars
    <2>2. \A q \in Proposals : RowFenced(q)'
      BY <1>r, <2>1 DEF RowFenced
    <2>3. \/ OpenTransaction(w) /\ exec[p].owner = w
          \/ Fail(w) \/ Exit(w)
      BY <1>5, <2>0 DEF BeginRead, FinishCompensationRead, FinishRead, MayBeginCompensation,
                        MayFinishCompensation, MayFinish
    <2>4. /\ \A v \in Workers \ {w} : worker'[v] = worker[v]
          /\ worker'[w].pc # "claim"
          /\ \/ worker'[w].snap = None
             \/ /\ worker'[w].snap = ReadRows(p) /\ exec[p].owner = w
                /\ worker'[w].pc \in {"begin", "finish_comp", "finish"}
      BY <1>0, <1>5, <2>0, <2>3, RestingType
         DEF OpenTransaction, Fail, Exit, Resting, WorkerState, BeginRead,
             FinishCompensationRead,
             FinishRead
    <2>5. ClaimFenced(w)' /\ RecordFenced(w)'
      <3>1. exec[p].owner = w => exec[p].status \notin Terminal
        BY <1>r DEF RowFenced
      <3>2. ReadRows(p).exec = exec[p]
        BY DEF ReadRows
      <3> QED BY <2>4, <3>1, <3>2 DEF ClaimFenced, RecordFenced
    <2> QED BY <2>1, <2>2, <2>4, <2>5, FenceFrame
  <1>6. ASSUME \/ Revalidate(w) \/ CheckTarget(w) \/ Execute(w) \/ ExecuteOk(w)
               \/ ExecuteError(w) \/ Compensate(w) \/ CompensateReply(w)
               \/ Crash(w) \/ Restart(w)
        PROVE FenceInv'
    <2>1. UNCHANGED exec
      BY <1>6 DEF Revalidate, CheckTarget, Execute, ExecuteOk, ExecuteError, Compensate,
                  CompensateReply, Crash, Restart, Call, repoVars
    <2>2. \A q \in Proposals : RowFenced(q)'
      BY <1>r, <2>1 DEF RowFenced
    <2>4. /\ \A v \in Workers \ {w} : worker'[v] = worker[v]
          /\ worker'[w].pc # "claim" /\ worker'[w].snap = None
      <3>1. CASE Crash(w) \/ Restart(w)
        BY <1>0, <3>1 DEF Crash, Restart, Exit, Resting
      <3>2. CASE ExecuteOk(w) \/ CompensateReply(w)
        BY <1>0, <1>r, <3>2 DEF ExecuteOk, CompensateReply, WorkerState, RecordFenced
      <3>3. CASE Execute(w) \/ Compensate(w) \/ Revalidate(w) \/ ExecuteError(w)
        BY <1>0, <3>3 DEF Execute, Compensate, Call, Goto, Fail, Revalidate, ExecuteError,
           WorkerState
      <3>4. CASE CheckTarget(w)
        BY <1>0, <1>r, <3>4 DEF CheckTarget, Goto, Fail, WorkerState, RecordFenced
      <3> QED BY <1>6, <3>1, <3>2, <3>3, <3>4
    <2>5. ClaimFenced(w)' /\ RecordFenced(w)'
      BY <2>4 DEF ClaimFenced, RecordFenced
    <2> QED BY <2>1, <2>2, <2>4, <2>5, FenceFrame
  <1> QED BY <1>1, <1>2, <1>3, <1>4, <1>5, <1>6 DEF WorkerStep

\* Every step keeps the fence.
LEMMA NextFence == TypeInv /\ FenceInv /\ [Next]_vars => FenceInv'
  <1> SUFFICES ASSUME TypeInv, FenceInv, [Next]_vars, RowLocks PROVE FenceInv'
    BY DEF FenceInv
  <1>0. ASSUME UNCHANGED worker,
               \A q \in Proposals :
                 /\ exec'[q].owner = exec[q].owner
                 /\ \/ exec'[q].status = exec[q].status
                    \/ exec[q].status = "NONE" /\ exec'[q].status = "READY"
        PROVE  FenceInv'
    <2>1. \A q \in Proposals : RowFenced(q)'
      BY <1>0 DEF FenceInv, RowFenced, Terminal
    <2>2. ASSUME NEW w \in Workers PROVE ClaimFenced(w)' /\ RecordFenced(w)'
      <3>1. worker[w].pc = "claim" => worker[w].job \in Proposals
        BY DEF TypeInv, WorkerShape, Running
      <3> QED BY <1>0, <3>1 DEF FenceInv, ClaimFenced, RecordFenced
    <2> QED BY <1>0, <2>1, <2>2 DEF FenceInv
  <1>1. CASE UNCHANGED vars
    BY <1>0, <1>1 DEF vars
  <1>2. ASSUME NEW p \in Proposals, ExpireLease(p) PROVE FenceInv'
    <2>1. \A q \in Proposals : exec'[q].status = exec[q].status /\ exec'[q].owner = exec[q].owner
      BY <1>2 DEF ExpireLease, TypeInv, TypeOK, RepoTypeOK, ExecutionRow
    <2> QED BY <1>0, <1>2, <2>1 DEF ExpireLease
  <1>3. ASSUME NEW p \in Proposals, NEW kind \in {"execute", "compensate"},
               DomainApply(p, kind)
        PROVE FenceInv'
    BY <1>0, <1>3 DEF DomainApply, repoVars
  <1>4. ASSUME ApiNext, UNCHANGED workerVars PROVE FenceInv'
    <2>1. UNCHANGED exec \/ \E s \in Sessions : EnqueueCommit(s)
      BY <1>4 DEF ApiNext, Propose, PreviewCommit, ApproveCommit, Abort,
                  PreviewRead, ApproveRead, EnqueueRead
    <2>2. ASSUME NEW s \in Sessions, EnqueueCommit(s)
          PROVE  \A q \in Proposals :
                   /\ exec'[q].owner = exec[q].owner
                   /\ \/ exec'[q].status = exec[q].status
                      \/ exec[q].status = "NONE" /\ exec'[q].status = "READY"
      <3>1. \/ UNCHANGED exec
            \/ \E p : /\ exec[p].status = "NONE"
                     /\ exec' = [exec EXCEPT ![p].status = "READY", ![p].created = clock + 1]
        BY <2>2 DEF EnqueueCommit
      <3>2. exec \in [Proposals -> ExecutionRow]
        BY DEF TypeInv, TypeOK, RepoTypeOK
      <3>3. CASE UNCHANGED exec
        BY <3>3
      <3>4. ASSUME NEW p, exec[p].status = "NONE",
                   exec' = [exec EXCEPT ![p].status = "READY", ![p].created = clock + 1],
                   NEW q \in Proposals
            PROVE  /\ exec'[q].owner = exec[q].owner
                   /\ \/ exec'[q].status = exec[q].status
                      \/ exec[q].status = "NONE" /\ exec'[q].status = "READY"
        <4>1. exec[q] \in ExecutionRow
          BY <3>2
        <4>2. CASE q = p
          BY <3>2, <3>4, <4>1, <4>2 DEF ExecutionRow
        <4>3. CASE q # p
          BY <3>2, <3>4, <4>3
        <4> QED BY <4>2, <4>3
      <3> QED BY <3>1, <3>3, <3>4
    <2>3. CASE UNCHANGED exec
      BY <1>0, <1>4, <2>3 DEF workerVars
    <2>4. CASE \E s \in Sessions : EnqueueCommit(s)
      BY <1>0, <1>4, <2>2, <2>4 DEF workerVars
    <2> QED BY <2>1, <2>3, <2>4
  <1> QED BY <1>1, <1>2, <1>3, <1>4, WorkerFence DEF Next

\* A step that changes the status of a finished execution.
LEMMA FencedStep ==
    ASSUME TypeInv, FenceInv, [Next]_vars, RowLocks, NEW p \in Proposals,
           exec[p].status \in Terminal, exec'[p].status # exec[p].status
    PROVE  \E w \in Workers :
             /\ worker[w].job = p /\ worker[w].snap # None
             /\ worker[w].snap.exec.status \notin Terminal
  <1>0. exec \in [Proposals -> ExecutionRow]
    BY DEF TypeInv, TypeOK, RepoTypeOK
  <1>1. ~UNCHANGED exec
    OBVIOUS
  <1>2. ASSUME NEW q \in Proposals, ExpireLease(q) PROVE FALSE
    BY <1>0, <1>2 DEF ExpireLease, ExecutionRow
  <1>3. ASSUME ApiNext PROVE FALSE
    <2>1. PICK s \in Sessions : EnqueueCommit(s)
      BY <1>1, <1>3 DEF ApiNext, Propose, PreviewCommit, ApproveCommit, Abort,
                        PreviewRead, ApproveRead, EnqueueRead
    <2>2. PICK q : /\ exec[q].status = "NONE"
                   /\ exec' = [exec EXCEPT ![q].status = "READY", ![q].created = clock + 1]
      BY <1>1, <2>1 DEF EnqueueCommit
    <2>3. p # q
      BY <2>2 DEF Terminal
    <2> QED BY <1>0, <2>2, <2>3
  <1>4. PICK w \in Workers : WorkerStep(w) \/ Crash(w)
    BY <1>1, <1>2, <1>3 DEF Next, vars, DomainApply, repoVars
  <1>5. PICK snap, status, owner, lease :
          /\ snap = worker[w].snap /\ WriteRows(worker[w].job, snap, status, owner, lease)
          /\ \/ worker[w].pc = "claim"
             \/ worker[w].pc \in {"begin", "finish_comp", "finish"} /\ snap # None
    <2>1. ClaimCommit(w) \/ BeginCommit(w) \/ FinishCompensationCommit(w) \/ FinishCommit(w)
      BY <1>1, <1>4 DEF WorkerStep, Crash, ClaimRead, Revalidate, CheckTarget, Execute,
         ExecuteOk,
                        ExecuteError, Compensate, CompensateReply, BeginRead, FinishRead,
                        FinishCompensationRead, Restart, Call, repoVars
    <2> QED BY <2>1 DEF ClaimCommit, BeginCommit, FinishCompensationCommit, FinishCommit, ClaimWrite,
                        BeginCompensationWrite, FinishCompensationWrite, FinishWrite, MayCommit
  <1>6. worker[w].job = p
    BY <1>0, <1>5 DEF WriteRows
  <1>7. snap # None /\ snap.exec.status \notin Terminal
    BY <1>5 DEF FenceInv, ClaimFenced, RecordFenced, Terminal
  <1> QED BY <1>5, <1>6, <1>7

\* With row locks only a transaction that read the row before it was finished
\* replaces a terminal outcome: claims take out the rows they read, and a
\* finished row has no owner, so every later caller is refused.
THEOREM TerminalIsFencedHolds == Spec => TerminalIsFenced
  <1>1. Spec => [](TypeInv /\ FenceInv)
    BY InitType, NextType, InitFence, NextFence, PTL DEF Spec
  <1>2. TypeInv /\ FenceInv /\ [Next]_vars =>
          [\A p \in Proposals :
             /\ RowLocks
             /\ exec[p].status \in Terminal
             /\ exec'[p].status # exec[p].status
             => \E w \in Workers :
                  /\ worker[w].job = p
                  /\ worker[w].snap # None
                  /\ worker[w].snap.exec.status \notin Terminal]_vars
    BY FencedStep
  <1> QED BY <1>1, <1>2, PTL DEF Spec, TerminalIsFenced
=============================================================================
