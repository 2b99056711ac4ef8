--------------------------- MODULE McpSessionPool ---------------------------
(***************************************************************************)
(* MCPSessionPool (deerflow/mcp/session_pool.py): sessions with MCP        *)
(* servers, each owned by a task of its own that enters and exits it.      *)
(*                                                                         *)
(* A critical section under the pool's lock, and what a task does between  *)
(* two awaits, is one step.  Calls of get_session and of close_* run on    *)
(* event loops in different threads; a short-lived loop (asyncio.run)      *)
(* closes when its calls are over.  A call that creates a session gives    *)
(* the session its name.                                                   *)
(***************************************************************************)
EXTENDS Naturals, Sequences, FiniteSets, Functions, SequencesExt

CONSTANTS
    MaxCalls,       \* bound: calls of get_session and of close_*
    MaxKeys,        \* bound: pairs (server_name, scope_key)
    Loops,          \* event loops
    ShortLoops,     \* the ones of asyncio.run
    MaxSessions,    \* MAX_SESSIONS
    MaxCancels      \* bound: cancelled calls

Calls == 1..MaxCalls    \* in the order they begin; also the sessions
Keys == 1..MaxKeys      \* in the order they are first used
NoCall == 0

ASSUME McpAssumption ==
    /\ ShortLoops \subseteq Loops /\ Loops # {} /\ MaxCalls \in Nat /\ MaxKeys \in Nat \ {0}
    /\ MaxSessions \in Nat \ {0} /\ MaxCancels \in Nat

VARIABLES
    entries,    \* _entries: sessions, the least recently used first
    inflight,   \* _inflight: the creation under way for a key
    pcall,      \* where each call stands
    owner,      \* where the owner task of a session stands
    ready,      \* its ready future
    close,      \* its close_evt
    ocancel,    \* task.cancel() was called on it
    loopOpen,   \* not loop.is_closed()
    dropped,    \* history: sessions a cancelled call was to shut down and did not
    cancels     \* calls cancelled so far

poolVars == <<entries, inflight, pcall, owner, ready, close, ocancel, loopOpen,
              dropped, cancels>>
ownerVars == <<owner, ready, close, ocancel>>

\* An owner to shut down: cancelled or only signalled, awaited or not, and
\* whether that was done.
Evictee == [s : Calls, cancel : BOOLEAN, wait : BOOLEAN, sent : BOOLEAN]

PoolCall == [pc : {"idle", "evict", "wait", "unwind", "teardown", "got", "raised", "closed"},
             key : Keys, loop : Loops, target : Calls \cup {NoCall},
             evict : Seq(Evictee)]

OwnerPc == {"none", "new", "enter", "init", "open", "exit", "done"}

Unborn == [pc |-> "idle", key |-> 1,
           loop |-> CHOOSE l \in Loops : TRUE, target |-> NoCall, evict |-> <<>>]

\* Every variable has its type.
McpTypeOK ==
    /\ entries \in Seq(Calls)
    /\ inflight \in [Keys -> Calls \cup {NoCall}]
    /\ pcall \in [Calls -> PoolCall]
    /\ owner \in [Calls -> OwnerPc]
    /\ ready \in [Calls -> {"pending", "session", "error"}]
    /\ close \in [Calls -> BOOLEAN] /\ ocancel \in [Calls -> BOOLEAN]
    /\ loopOpen \in [Loops -> BOOLEAN]
    /\ dropped \subseteq Calls
    /\ cancels \in 0..MaxCancels

McpInit ==
    /\ entries = <<>>
    /\ inflight = [k \in Keys |-> NoCall]
    /\ pcall = [c \in Calls |-> Unborn]
    /\ owner = [s \in Calls |-> "none"]
    /\ ready = [s \in Calls |-> "pending"]
    /\ close = [s \in Calls |-> FALSE] /\ ocancel = [s \in Calls |-> FALSE]
    /\ loopOpen = [l \in Loops |-> TRUE]
    /\ dropped = {} /\ cancels = 0

\* The next call, on a loop that runs.
Begins(c, l) ==
    /\ pcall[c].pc = "idle" /\ \A b \in 1..(c - 1) : pcall[b].pc # "idle"
    /\ loopOpen[l]

KeyOf(s) == pcall[s].key
LoopOf(s) == pcall[s].loop

-----------------------------------------------------------------------------
(* get_session *)

\* The call is over.
Ends(c, pc) ==
    pcall' = [pcall EXCEPT ![c].pc = pc, ![c].target = NoCall, ![c].evict = <<>>]

\* Where the dict has entries of some keys, and the entries at some places.
Places(keys) == {i \in DOMAIN entries : KeyOf(entries[i]) \in keys}
At(f) == [i \in DOMAIN f |-> entries[f[i]]]

\* The lists of some numbers that keep their order; there is one.
Ascending(I) ==
    {f \in Bijection(1..Cardinality(I), I) : \A i, j \in DOMAIN f : i < j => f[i] < f[j]}

\* Mutant: the creation that is dropped is only signalled.
EvictInflightGently(s) == [s |-> s, cancel |-> FALSE, wait |-> TRUE, sent |-> FALSE]

\* An owner that may be blocked in initialize has to be cancelled.
EvictInflight(s) == [s |-> s, cancel |-> TRUE, wait |-> TRUE, sent |-> FALSE]

\* get_session waits for entries of its own loop only.
EvictEntry(s, l) == [s |-> s, cancel |-> FALSE, wait |-> LoopOf(s) = l, sent |-> FALSE]

\* Evict the oldest entries while the pool is at capacity.
Surplus(left) ==
    IF Len(left) >= MaxSessions THEN Len(left) - MaxSessions + 1 ELSE 0

\* Phase 1, a session of this loop exists.
GetExisting(c, k, l) ==
    /\ Begins(c, l)
    /\ \E i \in Places({k}), rest \in Ascending(DOMAIN entries \ Places({k})) :
          LoopOf(entries[i]) = l /\ entries' = Append(At(rest), entries[i])
    /\ pcall' = [pcall EXCEPT ![c] = [Unborn EXCEPT !.pc = "got", !.key = k, !.loop = l]]
    /\ UNCHANGED <<inflight, ownerVars, loopOpen, dropped, cancels>>

\* Phase 1, otherwise: join a creation of this loop or begin one.  found is
\* where the entry of the key is, if there is one, left is the other entries.
GetCreateFrom(c, k, l, found, left) ==
    LET old == inflight[k]
        join == old # NoCall /\ LoopOf(old) = l
        stale == IF old # NoCall /\ ~join THEN <<EvictInflight(old)>> ELSE <<>>
        evict == [i \in DOMAIN found |-> EvictEntry(found[i], l)] \o stale
                 \o [i \in 1..Surplus(left) |-> EvictEntry(left[i], l)] IN
    /\ entries' = SubSeq(left, Surplus(left) + 1, Len(left))
    /\ inflight' = IF join THEN inflight ELSE [inflight EXCEPT ![k] = c]
    /\ owner' = IF join THEN owner ELSE [owner EXCEPT ![c] = "new"]
    /\ pcall' = [pcall EXCEPT ![c] = [pc |-> IF evict = <<>> THEN "wait" ELSE "evict",
                    key |-> k, loop |-> l, target |-> IF join THEN old ELSE c,
                    evict |-> evict]]

GetCreate(c, k, l) ==
    /\ Begins(c, l)
    /\ \A i \in Places({k}) : LoopOf(entries[i]) # l
    /\ \E found \in Ascending(Places({k})), rest \in Ascending(DOMAIN entries \ Places({k})) :
          GetCreateFrom(c, k, l, At(found), At(rest))
    /\ UNCHANGED <<ready, close, ocancel, loopOpen, dropped, cancels>>

\* Phase 2, _shutdown, _shutdown_entry and _signal_close: the next owner is
\* signalled on its loop, where it has begun if the loop is another one.
Signal(c) ==
    LET e == pcall[c].evict[1] IN
    /\ pcall[c].pc = "evict" /\ pcall[c].evict # <<>> /\ ~e.sent
    /\ LoopOf(e.s) = LoopOf(c) \/ owner[e.s] # "new"
    /\ pcall' = [pcall EXCEPT ![c].evict[1].sent = TRUE]
    /\ IF loopOpen[LoopOf(e.s)]
       THEN /\ close' = [close EXCEPT ![e.s] = TRUE]
            /\ ocancel' = [ocancel EXCEPT ![e.s] = @ \/ e.cancel]
       ELSE UNCHANGED <<close, ocancel>>
    /\ UNCHANGED <<entries, inflight, owner, ready, loopOpen, dropped, cancels>>

\* ... and has ended, or is not waited for.
ShutDown(c) ==
    LET e == pcall[c].evict[1] IN
    /\ pcall[c].pc = "evict" /\ pcall[c].evict # <<>> /\ e.sent
    /\ e.wait /\ loopOpen[LoopOf(e.s)] => owner[e.s] = "done"
    /\ pcall' = [pcall EXCEPT ![c].evict = Tail(@)]
    /\ UNCHANGED <<entries, inflight, ownerVars, loopOpen, dropped, cancels>>

AllShutDown(c) ==
    /\ pcall[c].pc = "evict" /\ pcall[c].evict = <<>>
    /\ IF pcall[c].target = NoCall THEN Ends(c, "closed")
       ELSE pcall' = [pcall EXCEPT ![c].pc = "wait"]
    /\ UNCHANGED <<entries, inflight, ownerVars, loopOpen, dropped, cancels>>

\* Phase 2b: the creation a call has joined is over.
Joined(c) ==
    LET s == pcall[c].target IN
    /\ pcall[c].pc = "wait" /\ s # c /\ ready[s] # "pending"
    /\ Ends(c, IF ready[s] = "session" THEN "got" ELSE "raised")
    /\ UNCHANGED <<entries, inflight, ownerVars, loopOpen, dropped, cancels>>

\* Mutant: the session is registered whatever happened to the creation.
StillOursAlways(c) == TRUE

StillOurs(c) == inflight[KeyOf(c)] = c

\* The in-flight record is removed if it is this creation's.
PopInflight(c) ==
    inflight' = IF inflight[KeyOf(c)] = c THEN [inflight EXCEPT ![KeyOf(c)] = NoCall]
                ELSE inflight

\* The entry of a key is assigned: in its place, or at the end.
Assigned(s) ==
    IF Places({KeyOf(s)}) = {} THEN Append(entries, s)
    ELSE [i \in DOMAIN entries |-> IF i \in Places({KeyOf(s)}) THEN s ELSE entries[i]]

\* Phase 4: register the session, or shut it down if it was closed meanwhile.
Promote(c) ==
    /\ pcall[c].pc = "wait" /\ pcall[c].target = c /\ ready[c] = "session"
    /\ IF StillOurs(c)
       THEN /\ PopInflight(c)
            /\ entries' = Assigned(c)
            /\ Ends(c, "got")
            /\ UNCHANGED close
       ELSE /\ close' = [close EXCEPT ![c] = TRUE]
            /\ pcall' = [pcall EXCEPT ![c].pc = "teardown"]
            /\ UNCHANGED <<entries, inflight>>
    /\ UNCHANGED <<owner, ready, ocancel, loopOpen, dropped, cancels>>

\* Phase 3, the owner reported an error: wait for it to unwind.
CreationFails(c) ==
    /\ pcall[c].pc = "wait" /\ pcall[c].target = c /\ ready[c] = "error"
    /\ pcall' = [pcall EXCEPT ![c].pc = "unwind"]
    /\ UNCHANGED <<entries, inflight, ownerVars, loopOpen, dropped, cancels>>

\* The owner has ended: the call raises.
Unwound(c) ==
    /\ pcall[c].pc \in {"unwind", "teardown"} /\ owner[c] = "done"
    /\ Ends(c, "raised")
    /\ IF pcall[c].pc = "unwind" THEN PopInflight(c) ELSE UNCHANGED inflight
    /\ UNCHANGED <<entries, ownerVars, loopOpen, dropped, cancels>>

\* Mutant: the call goes, its owner stays.
GiveUpCreationAlone(c) == UNCHANGED <<close, ocancel>>

\* Phase 3, the call is cancelled: its owner is told to close, and cancelled.
GiveUpCreation(c) ==
    /\ close' = [close EXCEPT ![c] = TRUE]
    /\ ocancel' = [ocancel EXCEPT ![c] = TRUE]

\* The call is cancelled at the await it is in.  In _shutdown the cancel goes
\* to the owner and is then swallowed; while a foreign loop shuts an owner down
\* it ends the call, which leaves the rest of its list alone; a creator that
\* waits cancels its owner, which has begun by then.
CancelCall(c) ==
    LET e == pcall[c].evict[1]  pc == pcall[c].pc IN
    /\ cancels < MaxCancels /\ cancels' = cancels + 1
    /\ \/ /\ pc = "evict" /\ pcall[c].evict # <<>> /\ e.sent /\ e.wait
          /\ ocancel' = [ocancel EXCEPT ![e.s] = TRUE]
          /\ IF LoopOf(e.s) = LoopOf(c) THEN UNCHANGED <<pcall, dropped>>
             ELSE /\ Ends(c, "raised")
                  /\ dropped' = dropped \cup {b.s : b \in Range(Tail(pcall[c].evict))}
          /\ UNCHANGED <<inflight, close>>
       \/ /\ pc = "wait" /\ pcall[c].target # c
          /\ Ends(c, "raised")
          /\ UNCHANGED <<inflight, close, ocancel, dropped>>
       \/ /\ pc = "wait" /\ pcall[c].target = c /\ owner[c] # "new" /\ ready[c] # "error"
          /\ GiveUpCreation(c)
          /\ pcall' = [pcall EXCEPT ![c].pc = "unwind"]
          /\ UNCHANGED <<inflight, dropped>>
       \/ /\ pc = "unwind"
          /\ PopInflight(c)
          /\ Ends(c, "raised")
          /\ UNCHANGED <<close, ocancel, dropped>>
       \/ /\ pc = "teardown"
          /\ ocancel' = [ocancel EXCEPT ![c] = TRUE]
          /\ UNCHANGED <<inflight, pcall, close, dropped>>
    /\ UNCHANGED <<entries, owner, ready, loopOpen>>

-----------------------------------------------------------------------------
(* _run_session *)

\* A task that is cancelled before its first step never runs.
OwnerBegins(s) ==
    /\ owner[s] = "new"
    /\ owner' = [owner EXCEPT ![s] = IF ocancel[s] THEN "done" ELSE "enter"]
    /\ ocancel' = [ocancel EXCEPT ![s] = FALSE]
    /\ UNCHANGED <<entries, inflight, pcall, ready, close, loopOpen, dropped, cancels>>

\* The server answers: __aenter__, then initialize.
ServerAnswers(s) ==
    /\ owner[s] \in {"enter", "init"} /\ ~ocancel[s]
    /\ owner' = [owner EXCEPT ![s] = IF @ = "enter" THEN "init" ELSE "open"]
    /\ ready' = [ready EXCEPT ![s] = IF owner[s] = "init" THEN "session" ELSE @]
    /\ UNCHANGED <<entries, inflight, pcall, close, ocancel, loopOpen, dropped, cancels>>

SetError(s) == ready' = [ready EXCEPT ![s] = IF @ = "pending" THEN "error" ELSE @]

\* The server refuses; an entered session is always exited.
ServerFails(s) ==
    /\ owner[s] \in {"enter", "init"} /\ ~ocancel[s]
    /\ owner' = [owner EXCEPT ![s] = IF @ = "enter" THEN "done" ELSE "exit"]
    /\ SetError(s)
    /\ UNCHANGED <<entries, inflight, pcall, close, ocancel, loopOpen, dropped, cancels>>

\* A cancel reaches the owner; in __aexit__ it cuts the cleanup short.
OwnerCancelled(s) ==
    /\ owner[s] \in {"enter", "init", "open", "exit"} /\ ocancel[s]
    /\ owner' = [owner EXCEPT ![s] = IF @ \in {"enter", "exit"} THEN "done" ELSE "exit"]
    /\ ocancel' = [ocancel EXCEPT ![s] = FALSE]
    /\ SetError(s)
    /\ UNCHANGED <<entries, inflight, pcall, close, loopOpen, dropped, cancels>>

OwnerCloses(s) ==
    /\ owner[s] = "open" /\ close[s]
    /\ owner' = [owner EXCEPT ![s] = "exit"]
    /\ UNCHANGED <<entries, inflight, pcall, ready, close, ocancel, loopOpen, dropped, cancels>>

OwnerExits(s) ==
    /\ owner[s] = "exit"
    /\ owner' = [owner EXCEPT ![s] = "done"]
    /\ UNCHANGED <<entries, inflight, pcall, ready, close, ocancel, loopOpen, dropped, cancels>>

-----------------------------------------------------------------------------
(* close_scope, close_server, close_all and close_all_sync; the end of a loop. *)

\* close_* wait for every entry they shut down.
EvictClosed(s) == [s |-> s, cancel |-> FALSE, wait |-> TRUE, sent |-> FALSE]

\* Every entry and every creation of the keys is removed, then shut down: the
\* entries as the dict has them, the creations in the order they began.
CloseKeys(c, keys, l) ==
    LET flying == {inflight[k] : k \in keys} \ {NoCall} IN
    /\ Begins(c, l) /\ (Places(keys) # {} \/ flying # {})
    /\ \E mine \in Ascending(Places(keys)), begun \in Ascending(flying) :
          pcall' = [pcall EXCEPT ![c] = [Unborn EXCEPT !.pc = "evict", !.loop = l,
              !.evict = [i \in DOMAIN mine |-> EvictClosed(entries[mine[i]])]
                        \o [i \in DOMAIN begun |-> EvictInflight(begun[i])]]]
    /\ \E rest \in Ascending(DOMAIN entries \ Places(keys)) : entries' = At(rest)
    /\ inflight' = [k \in Keys |-> IF k \in keys THEN NoCall ELSE inflight[k]]
    /\ UNCHANGED <<ownerVars, loopOpen, dropped, cancels>>

\* close_all_sync: owners on this thread's loop are signalled; the shutdown of
\* the others is scheduled on their loops, for a limited time of waiting.
CloseAllSync(c, l) ==
    LET flying == {inflight[k] : k \in Keys} \ {NoCall}
        all == {s \in Range(entries) \cup flying : loopOpen[LoopOf(s)]} IN
    /\ Begins(c, l) /\ all # {}
    /\ \A s \in flying : LoopOf(s) # l => owner[s] # "new"
    /\ entries' = <<>>
    /\ inflight' = [k \in Keys |-> NoCall]
    /\ close' = [s \in Calls |-> close[s] \/ s \in all]
    /\ ocancel' = [s \in Calls |-> ocancel[s] \/ s \in flying \cap all]
    /\ pcall' = [pcall EXCEPT ![c] = [Unborn EXCEPT !.pc = "closed", !.loop = l]]
    /\ UNCHANGED <<owner, ready, loopOpen, dropped, cancels>>

\* asyncio.run returns: what is left on the loop is cancelled and ends, then
\* the loop is closed.
LoopEnds(l) ==
    /\ l \in ShortLoops /\ loopOpen[l]
    /\ \A c \in Calls : pcall[c].pc # "idle" /\ LoopOf(c) = l =>
                            pcall[c].pc \in {"got", "raised", "closed"}
    /\ loopOpen' = [loopOpen EXCEPT ![l] = FALSE]
    /\ owner' = [s \in Calls |-> IF LoopOf(s) = l /\ owner[s] # "none" THEN "done" ELSE owner[s]]
    /\ ready' = [s \in Calls |-> IF LoopOf(s) = l /\ ready[s] = "pending" /\ owner[s] # "none"
                                 THEN "error" ELSE ready[s]]
    /\ UNCHANGED <<entries, inflight, pcall, close, ocancel, dropped, cancels>>

CallNext(c) ==
    \/ Signal(c) \/ ShutDown(c) \/ AllShutDown(c) \/ Joined(c)
    \/ Promote(c) \/ CreationFails(c) \/ Unwound(c)

OwnerNext(s) == OwnerBegins(s) \/ OwnerCancelled(s) \/ OwnerCloses(s) \/ OwnerExits(s)

McpNext ==
    \/ \E c \in Calls, l \in Loops :
        \/ \E k \in Keys \cap 1..c : GetExisting(c, k, l) \/ GetCreate(c, k, l)
        \/ CloseAllSync(c, l) \/ \E keys \in SUBSET Keys : CloseKeys(c, keys, l)
    \/ \E c \in Calls : CallNext(c) \/ CancelCall(c)
    \/ \E s \in Calls : OwnerNext(s) \/ ServerAnswers(s) \/ ServerFails(s)
    \/ \E l \in Loops : LoopEnds(l)

McpSpec == McpInit /\ [][McpNext]_poolVars

-----------------------------------------------------------------------------

\* A session that get_session would hand out is open and nobody has asked its
\* owner to close it: closing a pool while a session is being created does not
\* put it back, and a key never has two sessions in the pool.
RegisteredIsLive ==
    /\ \A s \in Range(entries) :
          loopOpen[LoopOf(s)] => owner[s] = "open" /\ ~close[s] /\ ~ocancel[s]
    /\ \A i, j \in DOMAIN entries : i # j => KeyOf(entries[i]) # KeyOf(entries[j])
    /\ \A s \in Range(entries) : inflight[KeyOf(s)] = NoCall

\* An open session is in the pool, or its creator still waits for it, or a
\* creator that was cancelled while it evicted others has left it among the
\* creations, where the next close finds it, or somebody will close it; unless
\* the call that was to close it was cancelled while it waited for another loop.
NoSessionLeaks ==
    \A s \in Calls :
        owner[s] = "open" =>
            \/ s \in Range(entries)
            \/ close[s] \/ ocancel[s] \/ s \in dropped
            \/ pcall[s].pc = "wait" /\ pcall[s].target = s
            \/ pcall[s].pc # "unwind" /\ inflight[KeyOf(s)] = s
            \/ \E c \in Calls : \E e \in Range(pcall[c].evict) : e.s = s

\* The creation was cancelled before its owner's first step, so that nobody
\* completes its future.
Stillborn(s) == owner[s] = "done" /\ ready[s] = "pending"

\* A call whose creation was taken out of the pool is not left to wait for a
\* server that may never answer: its owner has reported or will be cancelled,
\* unless the owner never began or the call that was to cancel it gave up.
PreemptedIsWoken ==
    \A c \in Calls :
        pcall[c].pc = "wait" /\ pcall[c].target = c /\ inflight[KeyOf(c)] # c =>
            \/ ready[c] # "pending" \/ ocancel[c]
            \/ Stillborn(c) \/ c \in dropped
            \/ \E b \in Calls : \E e \in Range(pcall[b].evict) : e.s = c /\ e.cancel /\ ~e.sent
=============================================================================
