------------------------------ MODULE Channels ------------------------------
(***************************************************************************)
(* Messages of one IM conversation on their way to the agent:              *)
(* ChannelManager (app/channels/manager.py), with the bus it reads         *)
(* (message_bus.py) and the mapping of conversations to threads (store.py, *)
(* or the connection repository).                                          *)
(*                                                                         *)
(* A provider may deliver a message again.  Each delivery that is no       *)
(* duplicate has a task of its own; an await in it is where a step ends.   *)
(***************************************************************************)
EXTENDS Naturals, Sequences, FiniteSets, SequencesExt

CONSTANTS
    Messages,       \* messages of the conversation, by their id
    NewCommands,    \* those that say /new
    MaxDeliveries,  \* bound: deliveries
    MaxConcurrency, \* max_concurrency
    MaxEntries      \* INBOUND_DEDUPE_MAX_ENTRIES

ASSUME ChannelsAssumption ==
    /\ NewCommands \subseteq Messages
    /\ MaxDeliveries \in Nat /\ MaxEntries \in Nat /\ MaxConcurrency \in Nat \ {0}

VARIABLES
    inbound,    \* the queue of the bus
    delivered,  \* deliveries so far
    recent,     \* _recent_inbound_events, the oldest first
    tasks,      \* the tasks of _handle_message so far
    mapping,    \* the thread of the conversation in the store, 0 if none
    threads,    \* threads the Gateway made so far
    registry,   \* the lock in _thread_create_locks, 0 if none
    locks,      \* each lock that was made: its holder, and who waits for it
    forgotten,  \* history: messages whose key was dropped by age or for room
    opened,     \* history: threads made for a message that found none
    failures    \* history: such threads that could not be made or stored

channelVars == <<inbound, delivered, recent, tasks, mapping, threads, registry, locks,
                 forgotten, opened, failures>>

TaskIds == 1..MaxDeliveries

Steps == {"admit", "slot", "lookup", "lock", "recheck", "create", "store",
          "run", "running", "done", "failed"}

Task == [msg : Messages, thread : 0..MaxDeliveries, lock : 0..MaxDeliveries, at : Steps]

\* Every variable has its type.
ChannelsTypeOK ==
    /\ inbound \in Seq(Messages) /\ recent \in Seq(Messages)
    /\ delivered \in 0..MaxDeliveries
    /\ tasks \in Seq(Task)
    /\ mapping \in 0..threads /\ threads \in 0..MaxDeliveries
    /\ registry \in 0..Len(locks) /\ locks \in Seq(Seq(TaskIds))
    /\ forgotten \subseteq Messages
    /\ opened \in 0..threads /\ failures \in 0..MaxDeliveries

ChannelsInit ==
    /\ inbound = <<>> /\ delivered = 0 /\ recent = <<>> /\ tasks = <<>>
    /\ mapping = 0 /\ threads = 0 /\ registry = 0 /\ locks = <<>>
    /\ forgotten = {} /\ opened = 0 /\ failures = 0

-----------------------------------------------------------------------------
(* Delivery and dispatch *)

\* publish_inbound, by the adapter of the provider.
Deliver(m) ==
    /\ delivered < MaxDeliveries
    /\ delivered' = delivered + 1 /\ inbound' = Append(inbound, m)
    /\ UNCHANGED <<recent, tasks, mapping, threads, registry, locks,
                   forgotten, opened, failures>>

\* The oldest keys go: those that are too old, and those there is no room for.
Kept(expired) ==
    LET young == SubSeq(recent, expired + 1, Len(recent)) IN
    IF Len(young) > MaxEntries THEN SubSeq(young, Len(young) - MaxEntries + 1, Len(young))
    ELSE young

\* Mutant: the key is checked and not recorded.
RecordedNever(kept, m) == kept

\* _is_duplicate_inbound records the key on receipt.
Recorded(kept, m) == IF m \in Range(kept) THEN kept ELSE Append(kept, m)

\* _dispatch_loop: the next message, unless it is a duplicate, gets a task.
Dispatch(expired) ==
    LET m == Head(inbound)  kept == Kept(expired) IN
    /\ inbound # <<>> /\ inbound' = Tail(inbound)
    /\ recent' = Recorded(kept, m)
    /\ forgotten' = forgotten \cup (Range(recent) \ Range(kept))
    /\ tasks' = IF m \in Range(kept) THEN tasks
                ELSE Append(tasks, [msg |-> m, thread |-> 0, lock |-> 0, at |-> "admit"])
    /\ UNCHANGED <<delivered, mapping, threads, registry, locks, opened, failures>>

-----------------------------------------------------------------------------
(* _handle_message *)

IsNew(i) == tasks[i].msg \in NewCommands
MoveTo(i, at) == tasks' = [tasks EXCEPT ![i].at = at]

\* _release_inbound_dedupe_key
Released(m) == RemoveFirst(recent, m)

\* An exception ends the task; a redelivery is to be handled again.
Raise(i) == MoveTo(i, "failed") /\ recent' = Released(tasks[i].msg)

\* _get_bound_identity_rejection: refused, with an answer; it cannot be read;
\* or accepted.
Admit(i) ==
    /\ tasks[i].at = "admit"
    /\ \/ MoveTo(i, "slot") /\ UNCHANGED recent
       \/ MoveTo(i, "done") /\ UNCHANGED recent
       \/ Raise(i)
    /\ UNCHANGED <<inbound, delivered, mapping, threads, registry, locks,
                   forgotten, opened, failures>>

AtWork == {i \in DOMAIN tasks : tasks[i].at \notin {"admit", "slot", "done", "failed"}}

\* The semaphore; /new creates a thread, everything else looks for one.
Enter(i) ==
    /\ tasks[i].at = "slot" /\ Cardinality(AtWork) < MaxConcurrency
    /\ MoveTo(i, IF IsNew(i) THEN "create" ELSE "lookup")
    /\ UNCHANGED <<inbound, delivered, recent, mapping, threads, registry, locks,
                   forgotten, opened, failures>>

\* _lookup_thread_id, before the lock.
LookupThread(i) ==
    /\ tasks[i].at = "lookup"
    /\ tasks' = [tasks EXCEPT ![i].thread = mapping,
                              ![i].at = IF mapping = 0 THEN "lock" ELSE "run"]
    /\ UNCHANGED <<inbound, delivered, recent, mapping, threads, registry, locks,
                   forgotten, opened, failures>>

\* The lock of the conversation: the one in the registry, or a new one.
TakeLock(i) ==
    LET l == IF registry = 0 THEN Len(locks) + 1 ELSE registry IN
    /\ tasks[i].at = "lock"
    /\ registry' = l
    /\ locks' = IF registry = 0 THEN Append(locks, <<i>>)
                ELSE [locks EXCEPT ![l] = Append(@, i)]
    /\ tasks' = [tasks EXCEPT ![i].at = "recheck", ![i].lock = l]
    /\ UNCHANGED <<inbound, delivered, recent, mapping, threads, forgotten, opened, failures>>

\* The lock goes to the next in line; the registry forgets whatever lock it has.
ReleaseLock(i) ==
    IF tasks[i].lock = 0 THEN UNCHANGED <<registry, locks>>
    ELSE /\ registry' = 0
         /\ locks' = [locks EXCEPT ![tasks[i].lock] = Tail(@)]

\* Mutant: whoever waited for the lock makes a thread as well.
FoundStale(i) == 0

\* What the second lookup finds.
Found(i) == mapping

\* _lookup_thread_id, under the lock.
Recheck(i) ==
    /\ tasks[i].at = "recheck" /\ locks[tasks[i].lock][1] = i
    /\ tasks' = [tasks EXCEPT ![i].thread = Found(i),
                              ![i].at = IF Found(i) = 0 THEN "create" ELSE "run"]
    /\ IF Found(i) = 0 THEN UNCHANGED <<registry, locks>> ELSE ReleaseLock(i)
    /\ UNCHANGED <<inbound, delivered, recent, mapping, threads, forgotten, opened, failures>>

\* _create_thread: the Gateway makes one, ...
CreateThread(i) ==
    /\ tasks[i].at = "create"
    /\ threads' = threads + 1
    /\ opened' = IF IsNew(i) THEN opened ELSE opened + 1
    /\ tasks' = [tasks EXCEPT ![i].thread = threads', ![i].at = "store"]
    /\ UNCHANGED <<inbound, delivered, recent, mapping, registry, locks, forgotten, failures>>

\* ... _store_thread_id maps the conversation to it ...
StoreThread(i) ==
    /\ tasks[i].at = "store"
    /\ mapping' = tasks[i].thread
    /\ MoveTo(i, IF IsNew(i) THEN "done" ELSE "run")
    /\ ReleaseLock(i)
    /\ UNCHANGED <<inbound, delivered, recent, threads, forgotten, opened, failures>>

\* ... and either may raise.
ThreadFails(i) ==
    /\ tasks[i].at \in {"create", "store"}
    /\ failures' = IF IsNew(i) THEN failures ELSE failures + 1
    /\ Raise(i) /\ ReleaseLock(i)
    /\ UNCHANGED <<inbound, delivered, mapping, threads, forgotten, opened>>

\* runs.wait, runs.stream or runs.create: the thread takes the run; or it is
\* busy, which the user is told.
StartRun(i, busy) ==
    /\ tasks[i].at = "run"
    /\ MoveTo(i, IF busy THEN "done" ELSE "running")
    /\ UNCHANGED <<inbound, delivered, recent, mapping, threads, registry, locks,
                   forgotten, opened, failures>>

\* The answer is published; or an error, which on a channel that streams is
\* the answer and elsewhere is raised.
EndRun(i, raises) ==
    /\ tasks[i].at = "running"
    /\ IF raises THEN Raise(i) ELSE MoveTo(i, "done") /\ UNCHANGED recent
    /\ UNCHANGED <<inbound, delivered, mapping, threads, registry, locks,
                   forgotten, opened, failures>>

ChannelsNext ==
    \/ \E m \in Messages : Deliver(m)
    \/ \E expired \in 0..Len(recent) : Dispatch(expired)
    \/ \E i \in DOMAIN tasks :
        \/ Admit(i) \/ Enter(i) \/ LookupThread(i) \/ TakeLock(i) \/ Recheck(i)
        \/ CreateThread(i) \/ StoreThread(i) \/ ThreadFails(i)
        \/ \E no \in BOOLEAN : StartRun(i, no) \/ EndRun(i, no)

ChannelsSpec == ChannelsInit /\ [][ChannelsNext]_channelVars

-----------------------------------------------------------------------------

\* A conversation is not split: however its first messages overlap with one
\* another and with /new, one thread is made for it, although the lock's entry
\* in the registry goes while others still wait for the lock.  (Once a creation
\* has failed, one that waited and one that comes later hold different locks.)
OneConversation == opened <= 1 \/ failures > 0

\* A message is handled once, whatever is delivered again while it is being
\* handled and after: unless handling it failed, or its key was dropped by age
\* or for room.
HandledOnce ==
    \A i, j \in DOMAIN tasks :
        i < j /\ tasks[i].msg = tasks[j].msg =>
            tasks[i].at = "failed" \/ tasks[i].msg \in forgotten
=============================================================================
