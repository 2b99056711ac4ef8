--------------------------- MODULE SandboxProvider ---------------------------
(***************************************************************************)
(* Sandbox containers and who keeps track of them: AioSandboxProvider with *)
(* its warm pool (community/aio_sandbox/aio_sandbox_provider.py,           *)
(* community/warm_pool_lifecycle.py) over local containers                 *)
(* (local_backend.py).                                                     *)
(*                                                                         *)
(* A thread has one sandbox id, so one container name.  _thread_sandboxes, *)
(* _sandboxes, _sandbox_infos and _last_activity change together and are   *)
(* one entry here.  Each critical section of a provider's lock and each    *)
(* command to the container runtime is one step.                           *)
(*                                                                         *)
(* A call of acquire_async runs its steps in worker threads: a cancelled   *)
(* call gives up its locks, while the thread, a ghost, ends what it does.  *)
(***************************************************************************)
EXTENDS Naturals, Sequences, FiniteSets, Functions, SequencesExt

CONSTANTS
    Providers,      \* processes, each with its provider
    Threads,        \* conversations
    Ghosts,         \* bound: ghosts of a thread in a provider
    Replicas,       \* replicas
    MaxInfos,       \* bound: SandboxInfo objects
    MaxFaults       \* bound: crashes, cancelled calls, dead containers, failed stops

ASSUME SandboxAssumption ==
    /\ Replicas \in Nat /\ MaxInfos \in Nat /\ MaxFaults \in Nat
    /\ "call" \notin Ghosts /\ IsFiniteSet(Threads)

VARIABLES
    running,    \* the container of a thread's name, 0 if there is none
    infos,      \* SandboxInfo objects made for a thread so far
    active,     \* _sandbox_infos and its companions, by provider and thread
    warm,       \* _warm_pool of a provider, the longest there first
    idle,       \* threads whose _last_activity is older than idle_timeout
    fileLock,   \* the provider that holds a thread's lock file
    acq,        \* the calls of acquire and the ghosts
    reaper,     \* the idle checker of a provider, and shutdown
    faults,     \* faults so far
    abandoned   \* history: containers nobody feels responsible for any more

sandboxVars == <<running, infos, active, warm, idle, fileLock, acq, reaper, faults, abandoned>>

\* A SandboxInfo: which object it is, and the container's id, or 0 if it only
\* has the name (discover and list_running).
Info == [obj : Nat, id : Nat]
NoInfo == [obj |-> 0, id |-> 0]

\* One call for a thread at a time, which its lock sees to, and ghosts.
Slots == Providers \X Threads \X ({"call"} \cup Ghosts)

Acq == [pc : {"none", "reuse", "reusecheck", "reuseend", "dropreuse", "warm", "warmcheck",
              "warmend", "dropwarm", "lock", "discover", "count", "evict", "start",
              "ready", "unready"},
        locked : BOOLEAN, info : Info, thread : Threads]

WarmEntry == [t : Threads, info : Info]

\* Every variable has its type.
SandboxTypeOK ==
    /\ running \in [Threads -> Nat] /\ infos \in [Threads -> Nat]
    /\ active \in [Providers -> [Threads -> Info]]
    /\ warm \in [Providers -> Seq(WarmEntry)]
    /\ idle \in [Providers -> SUBSET Threads]
    /\ fileLock \in [Threads -> SUBSET Providers]
    /\ acq \in [Slots -> Acq]
    /\ reaper \in [Providers -> [doomed : SUBSET Threads, stops : Seq(WarmEntry), down : BOOLEAN]]
    /\ faults \in 0..MaxFaults
    /\ abandoned \subseteq Threads \X Nat

AtRest == [doomed |-> {}, stops |-> <<>>, down |-> FALSE]

Ready(s) == [pc |-> "none", locked |-> FALSE, info |-> NoInfo, thread |-> s[2]]

SandboxInit ==
    /\ running = [t \in Threads |-> 0] /\ infos = [t \in Threads |-> 0]
    /\ active = [p \in Providers |-> [t \in Threads |-> NoInfo]]
    /\ warm = [p \in Providers |-> <<>>]
    /\ idle = [p \in Providers |-> {}]
    /\ fileLock = [t \in Threads |-> {}]
    /\ acq = [s \in Slots |-> Ready(s)]
    /\ reaper = [p \in Providers |-> AtRest]
    /\ faults = 0 /\ abandoned = {}

-----------------------------------------------------------------------------
(* The container runtime. *)

Fault == faults < MaxFaults /\ faults' = faults + 1

\* The info leads to the container that runs.
Reaches(t, info) == info # NoInfo /\ info.id \in {0, running[t]}

\* backend.destroy: docker stop, by id or by name.
Stopped(t, info) ==
    [running EXCEPT ![t] = IF Reaches(t, info) THEN 0 ELSE @]

\* The container of a thread is given up.
GivenUp(t) == abandoned \cup IF running[t] = 0 THEN {} ELSE {<<t, running[t]>>}

\* Of two entries of a thread only one stays, or is what will be stopped.
Dropped(t, old, kept) ==
    IF Reaches(t, old) /\ ~Reaches(t, kept) THEN GivenUp(t) ELSE abandoned

\* It may fail, which is only logged.
Stop(t, info, works) ==
    IF works THEN running' = Stopped(t, info) /\ UNCHANGED <<faults, abandoned>>
    ELSE Fault /\ abandoned' = GivenUp(t) /\ UNCHANGED running

ContainerDies(t) ==
    /\ running[t] # 0
    /\ Fault /\ running' = [running EXCEPT ![t] = 0]
    /\ UNCHANGED <<infos, active, warm, idle, fileLock, acq, reaper, abandoned>>

RoomForInfos(n) == MapThenSumSet(LAMBDA t : infos[t], Threads) + n <= MaxInfos

NewInfo(t, id) == [obj |-> infos[t] + 1, id |-> id]

-----------------------------------------------------------------------------
(* The maps of a provider. *)

IsWarm(p, t) == \E i \in DOMAIN warm[p] : warm[p][i].t = t
WarmOf(p, t) == CHOOSE e \in Range(warm[p]) : e.t = t
WarmInfo(p, t) == IF IsWarm(p, t) THEN WarmOf(p, t).info ELSE NoInfo
NotWarm(p, t) == IF IsWarm(p, t) THEN RemoveFirst(warm[p], WarmOf(p, t)) ELSE warm[p]

\* Mutant: the entry of the warm pool goes, its container stays.
TrackedInfoActive(p, t) == active[p][t]

\* _remove_tracked_sandbox returns the info of the active or the warm entry.
TrackedInfo(p, t) == IF active[p][t] # NoInfo THEN active[p][t] ELSE WarmInfo(p, t)

RemoveTracked(p, t) ==
    /\ active' = [active EXCEPT ![p][t] = NoInfo]
    /\ warm' = [warm EXCEPT ![p] = NotWarm(p, t)]
    /\ idle' = [idle EXCEPT ![p] = @ \ {t}]

\* _register_discovered_sandbox, _register_created_sandbox.
Register(p, t, info) ==
    /\ active' = [active EXCEPT ![p][t] = info]
    /\ idle' = [idle EXCEPT ![p] = @ \ {t}]
    /\ abandoned' = IF Reaches(t, info) THEN abandoned \ {<<t, running[t]>>}
                    ELSE Dropped(t, active[p][t], info)

-----------------------------------------------------------------------------
(* acquire and acquire_async *)

Unlock(s) ==
    fileLock' = [fileLock EXCEPT ![s[2]] = IF acq[s].locked THEN @ \ {s[1]} ELSE @]

\* A ghost ends with the function its thread is in.
Goto(s, pc) ==
    acq' = [acq EXCEPT ![s] = IF s[3] \in Ghosts THEN Ready(s) ELSE [@ EXCEPT !.pc = pc]]

\* The call, or the ghost, is over.
Done(s) == acq' = [acq EXCEPT ![s] = Ready(s)] /\ Unlock(s)

\* After the caches: discovery under the lock file.
BeyondCaches(s) == IF acq[s].locked THEN "discover" ELSE "lock"

\* A call; after shutdown the process ends and begins none.
Acquire(p, t) ==
    LET s == <<p, t, "call">> IN
    /\ acq[s].pc = "none" /\ ~reaper[p].down
    /\ acq' = [acq EXCEPT ![s].pc = "reuse"]
    /\ UNCHANGED <<running, infos, active, warm, idle, fileLock, reaper, faults, abandoned>>

\* The first critical section of _reuse_in_process_sandbox, and that of
\* _reclaim_warm_pool_sandbox.
LookUp(s) ==
    LET p == s[1]  t == s[2]
        found == IF acq[s].pc = "reuse" THEN active[p][t] ELSE WarmInfo(p, t) IN
    /\ acq[s].pc \in {"reuse", "warm"}
    /\ acq' = [acq EXCEPT ![s].info = found,
          ![s].pc = CASE @ = "reuse" -> IF found = NoInfo THEN "warm" ELSE "reusecheck"
                      [] @ = "warm" -> IF found = NoInfo THEN BeyondCaches(s) ELSE "warmcheck"]
    /\ UNCHANGED <<running, infos, active, warm, idle, fileLock, reaper, faults, abandoned>>

\* The health check; an answer that is none counts as alive.  A dead entry is
\* removed if it is still the one that was checked.
Check(s, answered) ==
    LET p == s[1]  t == s[2]  info == acq[s].info
        reuse == acq[s].pc = "reusecheck"
        same == info \in {active[p][t], WarmInfo(p, t)} IN
    /\ acq[s].pc \in {"reusecheck", "warmcheck"}
    /\ IF answered /\ running[t] = 0
       THEN IF same
            THEN /\ RemoveTracked(p, t)
                 /\ acq' = [acq EXCEPT ![s].pc = IF reuse THEN "dropreuse" ELSE "dropwarm",
                                       ![s].info = TrackedInfo(p, t)]
            ELSE /\ Goto(s, IF reuse THEN "warm" ELSE BeyondCaches(s))
                 /\ UNCHANGED <<active, warm, idle>>
       ELSE /\ acq' = [acq EXCEPT ![s].pc = IF reuse THEN "reuseend" ELSE "warmend"]
            /\ UNCHANGED <<active, warm, idle>>
    /\ UNCHANGED <<running, infos, fileLock, reaper, faults, abandoned>>

\* _drop_unhealthy_sandbox destroys what it removed.
DropStop(s, works) ==
    /\ acq[s].pc \in {"dropreuse", "dropwarm"}
    /\ Stop(s[2], acq[s].info, works)
    /\ Goto(s, IF acq[s].pc = "dropreuse" THEN "warm" ELSE BeyondCaches(s))
    /\ UNCHANGED <<infos, active, warm, idle, fileLock, reaper>>

\* The second critical section of _reuse_in_process_sandbox.
ReuseEnd(s) ==
    LET p == s[1]  t == s[2] IN
    /\ acq[s].pc = "reuseend"
    /\ IF active[p][t] # NoInfo
       THEN idle' = [idle EXCEPT ![p] = @ \ {t}] /\ Done(s)
       ELSE Goto(s, "warm") /\ UNCHANGED <<idle, fileLock>>
    /\ UNCHANGED <<running, infos, active, warm, reaper, faults, abandoned>>

\* The second critical section of _reclaim_warm_pool_sandbox.
WarmEnd(s) ==
    LET p == s[1]  t == s[2] IN
    /\ acq[s].pc = "warmend"
    /\ IF IsWarm(p, t)
       THEN /\ warm' = [warm EXCEPT ![p] = NotWarm(p, t)]
            /\ Register(p, t, WarmInfo(p, t))
            /\ Done(s)
       ELSE /\ Goto(s, BeyondCaches(s))
            /\ UNCHANGED <<active, warm, idle, fileLock, abandoned>>
    /\ UNCHANGED <<running, infos, reaper, faults>>

\* _discover_or_create_with_lock: the caches are looked at again.
LockFile(s) ==
    /\ acq[s].pc = "lock" /\ fileLock[s[2]] = {}
    /\ fileLock' = [fileLock EXCEPT ![s[2]] = {s[1]}]
    /\ acq' = [acq EXCEPT ![s].pc = "reuse", ![s].locked = TRUE]
    /\ UNCHANGED <<running, infos, active, warm, idle, reaper, faults, abandoned>>

\* discover: a container that runs and answers.
Discover(s, answers) ==
    LET t == s[2] IN
    /\ acq[s].pc = "discover"
    /\ IF running[t] # 0 /\ answers
       THEN /\ RoomForInfos(1) /\ infos' = [infos EXCEPT ![t] = @ + 1]
            /\ Register(s[1], t, NewInfo(t, 0))
            /\ Done(s)
       ELSE /\ Goto(s, "count")
            /\ UNCHANGED <<infos, active, idle, fileLock, abandoned>>
    /\ UNCHANGED <<running, warm, reaper, faults>>

ActiveThreads(p) == {t \in Threads : active[p][t] # NoInfo}

\* _replica_count and _evict_oldest_warm.
Count(s) ==
    LET p == s[1] IN
    /\ acq[s].pc = "count"
    /\ IF Cardinality(ActiveThreads(p)) + Len(warm[p]) >= Replicas /\ warm[p] # <<>>
       THEN /\ acq' = [acq EXCEPT ![s].pc = "evict", ![s].info = warm[p][1].info,
                                  ![s].thread = warm[p][1].t]
            /\ warm' = [warm EXCEPT ![p] = Tail(@)]
       ELSE Goto(s, "start") /\ UNCHANGED warm
    /\ UNCHANGED <<running, infos, active, idle, fileLock, reaper, faults, abandoned>>

\* _destroy_warm_entry
EvictStop(s, works) ==
    /\ acq[s].pc = "evict"
    /\ Stop(acq[s].thread, acq[s].info, works)
    /\ Goto(s, "start")
    /\ UNCHANGED <<infos, active, warm, idle, fileLock, reaper>>

\* backend.create: a new container; or its name is in use, by one that answers.
\* What a ghost starts nobody registers.
Start(s) ==
    LET t == s[2]  id == infos[t] + 1 IN
    /\ acq[s].pc = "start" /\ RoomForInfos(1)
    /\ infos' = [infos EXCEPT ![t] = @ + 1]
    /\ running' = [running EXCEPT ![t] = IF @ = 0 THEN id ELSE @]
    /\ IF s[3] \in Ghosts
       THEN Done(s) /\ abandoned' = abandoned \cup {<<t, running'[t]>>}
       ELSE /\ acq' = [acq EXCEPT ![s].pc = "ready",
                          ![s].info = NewInfo(t, IF running[t] = 0 THEN id ELSE 0)]
            /\ UNCHANGED <<fileLock, abandoned>>
    /\ UNCHANGED <<active, warm, idle, reaper, faults>>

\* The runtime refuses: acquire raises.
StartFails(s) ==
    /\ acq[s].pc = "start"
    /\ Done(s)
    /\ UNCHANGED <<running, infos, active, warm, idle, reaper, faults, abandoned>>

\* wait_for_sandbox_ready
BecomesReady(s) ==
    /\ acq[s].pc = "ready"
    /\ Register(s[1], s[2], acq[s].info)
    /\ Done(s)
    /\ UNCHANGED <<running, infos, warm, reaper, faults>>

\* It is not ready in time: it is destroyed and acquire raises.
NotReady(s, works) ==
    /\ acq[s].pc = "ready"
    /\ Stop(s[2], acq[s].info, works)
    /\ Done(s)
    /\ UNCHANGED <<infos, active, warm, idle, reaper>>

\* The run is cancelled in acquire_async.
CancelAcquire(p, t, ghost) ==
    LET s == <<p, t, "call">>  g == <<p, t, ghost>> IN
    /\ acq[s].pc \notin {"none", "lock"} /\ acq[g].pc = "none"
    /\ acq' = [acq EXCEPT ![s] = Ready(s),
          ![g] = IF acq[s].pc \in {"reusecheck", "reuseend", "dropreuse", "warmcheck",
                                   "warmend", "dropwarm", "evict", "start"}
                 THEN [acq[s] EXCEPT !.locked = FALSE] ELSE @]
    /\ Fault /\ Unlock(s)
    /\ abandoned' = IF acq[s].pc = "ready" THEN GivenUp(t) ELSE abandoned
    /\ UNCHANGED <<running, infos, active, warm, idle, reaper>>

-----------------------------------------------------------------------------
(* get, release, the idle checker, shutdown and a restart *)

\* Time passes, or get: the sandbox is used.
Use(p, t, stale) ==
    /\ active[p][t] # NoInfo
    /\ idle' = [idle EXCEPT ![p] = IF stale THEN @ \cup {t} ELSE @ \ {t}]
    /\ UNCHANGED <<running, infos, active, warm, fileLock, acq, reaper, faults, abandoned>>

\* release, by the run that ends or by a subagent of it.  An entry that is warm
\* already stays, and the info of the active one is lost.
Release(p, t) ==
    /\ active[p][t] # NoInfo
    /\ active' = [active EXCEPT ![p][t] = NoInfo]
    /\ idle' = [idle EXCEPT ![p] = @ \ {t}]
    /\ warm' = IF IsWarm(p, t) THEN warm
               ELSE [warm EXCEPT ![p] = Append(@, [t |-> t, info |-> active[p][t]])]
    /\ abandoned' = IF IsWarm(p, t) THEN Dropped(t, active[p][t], WarmInfo(p, t)) ELSE abandoned
    /\ UNCHANGED <<running, infos, fileLock, acq, reaper, faults>>

Resting(p) == reaper[p] = AtRest

\* _cleanup_idle_sandboxes: a sandbox found idle, and idle still ...
FindIdle(p, t) ==
    /\ Resting(p) /\ t \in idle[p]
    /\ reaper' = [reaper EXCEPT ![p].doomed = {t}]
    /\ UNCHANGED <<running, infos, active, warm, idle, fileLock, acq, faults, abandoned>>

\* ... is removed by destroy, whatever happened since, ...
DestroyIdle(p, t) ==
    /\ t \in reaper[p].doomed
    /\ RemoveTracked(p, t)
    /\ reaper' = [reaper EXCEPT ![p].doomed = @ \ {t},
          ![p].stops = IF TrackedInfo(p, t) = NoInfo THEN @
                       ELSE <<[t |-> t, info |-> TrackedInfo(p, t)]>> \o @]
    /\ abandoned' = IF active[p][t] = NoInfo THEN abandoned
                    ELSE Dropped(t, WarmInfo(p, t), active[p][t])
    /\ UNCHANGED <<running, infos, fileLock, acq, faults>>

\* _reap_expired_warm: the oldest entries are removed, ...
Reap(p, n) ==
    /\ Resting(p) /\ n \in 1..Len(warm[p])
    /\ warm' = [warm EXCEPT ![p] = SubSeq(@, n + 1, Len(@))]
    /\ reaper' = [reaper EXCEPT ![p].stops = SubSeq(warm[p], 1, n)]
    /\ UNCHANGED <<running, infos, active, idle, fileLock, acq, faults, abandoned>>

\* ... then stopped one by one.
ReaperStop(p, works) ==
    LET e == reaper[p].stops[1] IN
    /\ reaper[p].stops # <<>>
    /\ Stop(e.t, e.info, works)
    /\ reaper' = [reaper EXCEPT ![p].stops = Tail(@)]
    /\ UNCHANGED <<infos, active, warm, idle, fileLock, acq>>

\* shutdown, once, after the idle checker stopped: the active sandboxes are
\* destroyed, and what was warm.
Shutdown(p) ==
    /\ Resting(p)
    /\ reaper' = [reaper EXCEPT ![p] = [doomed |-> ActiveThreads(p), stops |-> warm[p],
                                        down |-> TRUE]]
    /\ warm' = [warm EXCEPT ![p] = <<>>]
    /\ UNCHANGED <<running, infos, active, idle, fileLock, acq, faults, abandoned>>

\* The process dies; the next one adopts every container that runs.
Restart(p) ==
    LET up == {t \in Threads : running[t] # 0} IN
    /\ Fault /\ RoomForInfos(Cardinality(up))
    /\ infos' = [t \in Threads |-> infos[t] + IF running[t] # 0 THEN 1 ELSE 0]
    /\ active' = [active EXCEPT ![p] = [t \in Threads |-> NoInfo]]
    /\ \E found \in Bijection(1..Cardinality(up), up) :
        warm' = [warm EXCEPT ![p] = [i \in DOMAIN found |->
                    [t |-> found[i], info |-> NewInfo(found[i], 0)]]]
    /\ idle' = [idle EXCEPT ![p] = {}]
    /\ fileLock' = [t \in Threads |-> fileLock[t] \ {p}]
    /\ acq' = [s \in Slots |-> IF s[1] = p THEN Ready(s) ELSE acq[s]]
    /\ reaper' = [reaper EXCEPT ![p] = AtRest]
    /\ abandoned' = {}
    /\ UNCHANGED running

AcquireStep(s) ==
    \/ LookUp(s) \/ (\E answered \in BOOLEAN : Check(s, answered)) \/ ReuseEnd(s) \/ WarmEnd(s)
    \/ LockFile(s) \/ (\E answers \in BOOLEAN : Discover(s, answers)) \/ Count(s)
    \/ Start(s) \/ StartFails(s) \/ BecomesReady(s)
    \/ \E works \in BOOLEAN : DropStop(s, works) \/ EvictStop(s, works) \/ NotReady(s, works)

ReaperStep(p) ==
    \/ \E t \in Threads : FindIdle(p, t) \/ DestroyIdle(p, t)
    \/ \E n \in 1..Len(warm[p]) : Reap(p, n)
    \/ \E works \in BOOLEAN : ReaperStop(p, works)

SandboxNext ==
    \/ \E s \in Slots : AcquireStep(s)
    \/ \E p \in Providers : ReaperStep(p) \/ Shutdown(p) \/ Restart(p)
    \/ \E t \in Threads : ContainerDies(t)
    \/ \E p \in Providers, t \in Threads :
        \/ Acquire(p, t) \/ (\E ghost \in Ghosts : CancelAcquire(p, t, ghost))
        \/ Release(p, t) \/ \E stale \in BOOLEAN : Use(p, t, stale)

SandboxSpec == SandboxInit /\ [][SandboxNext]_sandboxVars

-----------------------------------------------------------------------------

\* Somebody is about to stop the container that runs.
StopPending(t) ==
    \/ \E p \in Providers : \E e \in Range(reaper[p].stops) : e.t = t /\ Reaches(t, e.info)
    \/ \E s \in Slots :
        /\ acq[s].pc \in {"dropreuse", "dropwarm", "evict"}
        /\ acq[s].thread = t /\ Reaches(t, acq[s].info)

\* A container that runs is in a provider's maps, or being started, or about
\* to be stopped, in every interleaving of acquire, release, eviction, the idle
\* checker, shutdown, cancelled calls and restarts, unless stopping it failed,
\* its acquire was cancelled, or ghosts had given its thread an active and a warm
\* entry and only the other one was kept; then it is forgotten until the thread
\* acquires its sandbox again or the process restarts.
NoContainerLeaks ==
    \A t \in Threads :
        running[t] # 0 =>
            \/ \E p \in Providers : Reaches(t, active[p][t]) \/ Reaches(t, WarmInfo(p, t))
            \/ \E s \in Slots : s[2] = t /\ acq[s].pc = "ready" /\ Reaches(t, acq[s].info)
            \/ StopPending(t) \/ <<t, running[t]>> \in abandoned
=============================================================================
