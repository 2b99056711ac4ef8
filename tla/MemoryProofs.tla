---------------------------- MODULE MemoryProofs ----------------------------
(***************************************************************************)
(* Proofs about what a run leaves behind: the memory's update queue, for   *)
(* every number of conversations, adds and flushes; the memory's file with *)
(* the cache, for every number of threads and replacements; and the run's  *)
(* journal, for every number of events and every threshold.                *)
(***************************************************************************)
EXTENDS MemoryQueue, MemoryStorage, Journal, SequenceLemmas, TLAPS

-----------------------------------------------------------------------------
(* The update queue. *)

\* Of each key there is one context.
OnePerKey(q) == \A i, j \in DOMAIN q : q[i].key = q[j].key => i = j

QueueInv ==
    /\ MemoryQueueTypeOK
    /\ OnePerKey(mqueue)
    /\ ~processing => batch = <<>>
    /\ QueueHasTimer
    /\ CorrectionKept

\* Dropping a key drops the one context that has it.
LEMMA QueuedWithoutProperties ==
    ASSUME mqueue \in Seq(Context), OnePerKey(mqueue), NEW k \in Conversations
    PROVE  /\ QueuedWithout(k) \in Seq(Context)
           /\ OnePerKey(QueuedWithout(k))
           /\ Range(QueuedWithout(k)) = {c \in Range(mqueue) : c.key # k}
  <1>0. Len(mqueue) \in Nat /\ DOMAIN mqueue = 1..Len(mqueue)
    OBVIOUS
  <1>1. CASE \E i \in 1..Len(mqueue) : mqueue[i].key = k
    <2>1. PICK i \in 1..Len(mqueue) : mqueue[i].key = k
      BY <1>1
    <2>2. {j \in 1..Len(mqueue) : mqueue[j].key = k} = {i}
      BY <1>0, <2>1 DEF OnePerKey
    <2>3. Min({i}) = i
      BY DEF Min
    <2>4. QueuedWithout(k) = RemoveAt(mqueue, i)
      BY <1>1, <2>2, <2>3 DEF QueuedWithout, RemoveFirstMatch, SelectInSeq
    <2> DEFINE r == RemoveAt(mqueue, i)
    <2>5. /\ r \in Seq(Context) /\ Len(r) = Len(mqueue) - 1 /\ DOMAIN r = 1..(Len(mqueue) - 1)
          /\ \A j \in 1..(Len(mqueue) - 1) : r[j] = mqueue[IF j < i THEN j ELSE j + 1]
      BY RemoveAtProperties
    <2> HIDE DEF r
    <2>6. OnePerKey(r)
      <3>1. ASSUME NEW j \in 1..(Len(mqueue) - 1), NEW l \in 1..(Len(mqueue) - 1), r[j].key = r[l].key
            PROVE  j = l
        <4>1. PICK jj \in 1..Len(mqueue) : jj = IF j < i THEN j ELSE j + 1
          BY <1>0
        <4>2. PICK ll \in 1..Len(mqueue) : ll = IF l < i THEN l ELSE l + 1
          BY <1>0
        <4>3. jj = ll
          BY <1>0, <2>5, <3>1, <4>1, <4>2 DEF OnePerKey
        <4> QED BY <4>1, <4>2, <4>3
      <3> QED BY <2>5, <3>1 DEF OnePerKey
    <2>7. ASSUME NEW c \in Range(r) PROVE c \in Range(mqueue) /\ c.key # k
      <3>1. PICK j \in 1..(Len(mqueue) - 1) : c = r[j]
        BY <2>5 DEF Range
      <3>2. PICK l \in 1..Len(mqueue) : c = mqueue[l] /\ l # i
        BY <1>0, <2>5, <3>1
      <3> QED BY <1>0, <2>1, <3>2 DEF Range, OnePerKey
    <2>8. ASSUME NEW c \in Range(mqueue), c.key # k PROVE c \in Range(r)
      <3>1. PICK l \in 1..Len(mqueue) : c = mqueue[l]
        BY <1>0 DEF Range
      <3>2. l # i
        BY <2>1, <2>8, <3>1
      <3>3. \E j \in 1..(Len(mqueue) - 1) : r[j] = mqueue[l]
        <4>1. CASE l < i
          <5>1. l \in 1..(Len(mqueue) - 1) /\ r[l] = mqueue[l]
            BY <1>0, <2>5, <4>1
          <5> QED BY <5>1
        <4>2. CASE l > i
          <5>1. l - 1 \in 1..(Len(mqueue) - 1) /\ r[l - 1] = mqueue[(l - 1) + 1] /\ (l - 1) + 1 = l
            BY <1>0, <2>5, <4>2
          <5> QED BY <5>1
        <4> QED BY <3>2, <4>1, <4>2
      <3> QED BY <2>5, <3>1, <3>3 DEF Range
    <2>9. Range(r) = {c \in Range(mqueue) : c.key # k}
      BY <2>7, <2>8
    <2> QED BY <2>4, <2>5, <2>6, <2>9 DEF r
  <1>2. CASE ~\E i \in 1..Len(mqueue) : mqueue[i].key = k
    <2>1. QueuedWithout(k) = mqueue
      BY <1>2 DEF QueuedWithout, RemoveFirstMatch
    <2>2. \A c \in Range(mqueue) : c.key # k
      BY <1>0, <1>2 DEF Range
    <2> QED BY <2>1, <2>2
  <1> QED BY <1>1, <1>2

\* Nothing is queued.
LEMMA QueueInitInv == MemoryQueueInit => QueueInv
  <1> SUFFICES ASSUME MemoryQueueInit PROVE QueueInv
    OBVIOUS
  <1>1. timer \in Timer
    BY DEF MemoryQueueInit, Timer
  <1>2. MemoryQueueTypeOK
    <2>1. mqueue \in Seq(Context) /\ batch \in Seq(Context)
      BY DEF MemoryQueueInit
    <2>2. 0 \in 0..MaxAdds /\ 0 \in 0..MaxFlushes
      BY MemoryQueueAssumption
    <2> QED BY <1>1, <2>1, <2>2 DEF MemoryQueueInit, MemoryQueueTypeOK
  <1>3. OnePerKey(mqueue) /\ QueueHasTimer /\ CorrectionKept /\ batch = <<>>
    BY DEF MemoryQueueInit, OnePerKey, QueueHasTimer, CorrectionKept
  <1> QED BY <1>2, <1>3 DEF QueueInv

\* What the operations make of a timer.
LEMMA TimerType ==
    ASSUME NEW t \in Timer
    PROVE  /\ t.ref \in {"none", "armed", "spent"} /\ t.loose \in Nat /\ t.fired \in Nat
           /\ \A ref \in {"none", "armed", "spent"}, loose \in Nat, fired \in Nat :
                [t EXCEPT !.ref = ref, !.loose = loose, !.fired = fired] \in Timer
           /\ ScheduleTimer(t) \in Timer /\ ScheduleTimer(t).ref = "armed"
  BY DEF Timer, ScheduleTimer

\* _enqueue_locked keeps the queue's shape and every correction.
LEMMA AddInv ==
    ASSUME QueueInv, NEW k \in Conversations, NEW correction \in BOOLEAN, Add(k, correction)
    PROVE  QueueInv'
  <1> DEFINE c == [key |-> k, n |-> added[k] + 1, correction |-> correction \/ EarlierCorrection(k)]
             q == QueuedWithout(k)
  <1>0. MemoryQueueTypeOK /\ OnePerKey(mqueue)
    BY DEF QueueInv
  <1>1. c \in Context /\ c.key = k /\ c.correction = (correction \/ EarlierCorrection(k))
    <2>1. added[k] + 1 \in 1..MaxAdds
      BY <1>0, MemoryQueueAssumption DEF Add, MemoryQueueTypeOK
    <2>2. (correction \/ EarlierCorrection(k)) \in BOOLEAN
      BY DEF EarlierCorrection
    <2> QED BY <2>1, <2>2 DEF Context
  <1>2. /\ q \in Seq(Context) /\ OnePerKey(q)
        /\ Range(q) = {d \in Range(mqueue) : d.key # k}
    BY <1>0, QueuedWithoutProperties DEF MemoryQueueTypeOK
  <1>3. mqueue' = Append(q, c)
    BY DEF Add, Enqueue
  <1> HIDE DEF c, q
  <1>4. mqueue' \in Seq(Context) /\ Range(mqueue') = Range(q) \cup {c}
    BY <1>1, <1>2, <1>3, RangeAppend
  <1>5. OnePerKey(mqueue')
    <2>1. /\ DOMAIN mqueue' = 1..(Len(q) + 1) /\ DOMAIN q = 1..Len(q) /\ Len(q) \in Nat
          /\ mqueue'[Len(q) + 1] = c /\ \A i \in 1..Len(q) : mqueue'[i] = q[i]
      BY <1>1, <1>2, <1>3
    <2>2. \A i \in 1..Len(q) : q[i].key # k
      BY <1>2, <2>1 DEF Range
    <2> QED BY <1>1, <1>2, <2>1, <2>2 DEF OnePerKey
  <1>6. MemoryQueueTypeOK'
    <2>1. timer' \in Timer
      BY <1>0 DEF Add, ScheduleTimer, MemoryQueueTypeOK, Timer
    <2>2. added' \in [Conversations -> 0..MaxAdds] /\ corrected' \in [Conversations -> BOOLEAN]
      BY <1>0, MemoryQueueAssumption DEF Add, MemoryQueueTypeOK
    <2> QED BY <1>0, <1>4, <2>1, <2>2 DEF Add, MemoryQueueTypeOK
  <1>7. QueueHasTimer'
    BY <1>0 DEF Add, ScheduleTimer, QueueHasTimer, MemoryQueueTypeOK, Timer
  <1>8. CorrectionKept'
    <2>1. ASSUME NEW l \in Conversations, corrected'[l]
          PROVE  \E d \in Range(mqueue') \cup Range(batch') : d.key = l /\ d.correction
      <3>1. CASE l = k /\ correction
        BY <1>1, <1>4, <3>1
      <3>2. CASE ~(l = k /\ correction)
        <4>1. corrected[l]
          BY <1>0, <2>1, <3>2 DEF Add, MemoryQueueTypeOK
        <4>2. PICK d \in Range(mqueue) \cup Range(batch) : d.key = l /\ d.correction
          BY <4>1 DEF QueueInv, CorrectionKept
        <4>3. CASE d \in Range(batch)
          BY <4>2, <4>3 DEF Add
        <4>4. CASE d \in Range(mqueue) /\ l # k
          BY <1>2, <1>4, <4>2, <4>4
        <4>5. CASE d \in Range(mqueue) /\ l = k
          <5>1. EarlierCorrection(k)
            BY <4>2, <4>5 DEF EarlierCorrection, Range
          <5> QED BY <1>1, <1>4, <4>5, <5>1
        <4> QED BY <4>2, <4>3, <4>4, <4>5
      <3> QED BY <3>1, <3>2
    <2> QED BY <2>1 DEF CorrectionKept
  <1> QED BY <1>5, <1>6, <1>7, <1>8 DEF QueueInv, Add

\* flush and the timers keep the invariant.
LEMMA TimersInv ==
    ASSUME QueueInv, TimerFires \/ \E nowait \in BOOLEAN : Flush(nowait)
    PROVE  QueueInv'
  <1>0. MemoryQueueTypeOK
    BY DEF QueueInv
  <1>1. /\ timer' \in Timer /\ (timer'.fired > 0 \/ timer'.ref = "armed")
        /\ flushes' \in 0..MaxFlushes
        /\ UNCHANGED <<mqueue, processing, batch, added, handled, corrected>>
    <2>1. CASE TimerFires
      <3>0. timer \in Timer /\ timer.loose \in Nat /\ timer.fired \in Nat
        BY <1>0, TimerType DEF MemoryQueueTypeOK
      <3>a. PICK fired \in Nat : fired = timer.fired + 1 /\ fired > 0
        BY <3>0
      <3>1. ASSUME timer' = [timer EXCEPT !.ref = "spent", !.fired = @ + 1]
            PROVE  timer' \in Timer /\ timer'.fired > 0
        <4>1. timer' = [timer EXCEPT !.ref = "spent", !.fired = fired]
          BY <3>a, <3>1
        <4> QED BY <3>0, <3>a, <4>1 DEF Timer
      <3>2. ASSUME timer.loose > 0 /\ timer' = [timer EXCEPT !.loose = @ - 1, !.fired = @ + 1]
            PROVE  timer' \in Timer /\ timer'.fired > 0
        <4>1. PICK loose \in Nat : loose = timer.loose - 1
          BY <3>0, <3>2
        <4>2. timer' = [timer EXCEPT !.loose = loose, !.fired = fired]
          BY <3>a, <3>2, <4>1
        <4> QED BY <3>0, <3>a, <4>2 DEF Timer
      <3> QED BY <1>0, <2>1, <3>1, <3>2 DEF TimerFires, MemoryQueueTypeOK
    <2>2. ASSUME NEW nowait \in BOOLEAN, Flush(nowait)
          PROVE  /\ timer' \in Timer /\ (timer'.fired > 0 \/ timer'.ref = "armed")
                 /\ flushes' \in 0..MaxFlushes
                 /\ UNCHANGED <<mqueue, processing, batch, added, handled, corrected>>
      <3>0. timer \in Timer /\ timer.fired \in Nat /\ flushes \in 0..MaxFlushes
        BY <1>0, TimerType DEF MemoryQueueTypeOK
      <3>1. flushes' \in 0..MaxFlushes
        BY <2>2, <3>0, MemoryQueueAssumption DEF Flush
      <3>2. CASE nowait
        BY <2>2, <3>0, <3>1, <3>2, TimerType DEF Flush
      <3>3. CASE timer' = [timer EXCEPT !.ref = "none", !.fired = @ + 1]
        <4>0. PICK fired \in Nat : fired = timer.fired + 1 /\ fired > 0
          BY <3>0
        <4>a. timer' = [timer EXCEPT !.ref = "none", !.fired = fired]
          BY <3>3, <4>0
        <4>1. timer' \in Timer /\ timer'.fired > 0
          BY <3>0, <4>0, <4>a DEF Timer
        <4> QED BY <2>2, <3>1, <4>1 DEF Flush
      <3> QED BY <2>2, <3>2, <3>3 DEF Flush
    <2> QED BY <2>1, <2>2
  <1> QED BY <1>0, <1>1 DEF QueueInv, MemoryQueueTypeOK, QueueHasTimer, CorrectionKept

\* The timers once a thread has the lock.
LEMMA Left ==
    ASSUME MemoryQueueTypeOK, ProcessQueue PROVE [timer EXCEPT !.fired = @ - 1] \in Timer
  <1>1. timer \in Timer /\ timer.fired \in Nat /\ timer.fired > 0
    BY TimerType DEF MemoryQueueTypeOK, ProcessQueue
  <1>2. PICK fired \in Nat : fired = timer.fired - 1
    BY <1>1
  <1>3. [timer EXCEPT !.fired = fired] \in Timer
    BY <1>1 DEF Timer
  <1> QED BY <1>2, <1>3

\* _process_queue keeps the invariant: it takes the whole queue, and only when
\* the last batch is done.
LEMMA ProcessQueueInv == ASSUME QueueInv, ProcessQueue PROVE QueueInv'
  <1>0. MemoryQueueTypeOK
    BY DEF QueueInv
  <1>1. CASE processing
    <2>1. timer' \in Timer /\ timer'.ref = "armed"
      <3>1. PICK left \in Timer : left = [timer EXCEPT !.fired = @ - 1]
        BY <1>0, Left
      <3>2. timer' = ScheduleTimer(left)
        BY <1>1, <3>1 DEF ProcessQueue, TryAgain
      <3> QED BY <3>1, <3>2, TimerType
    <2> QED BY <1>0, <1>1, <2>1
       DEF ProcessQueue, QueueInv, MemoryQueueTypeOK, QueueHasTimer, CorrectionKept
  <1>2. CASE ~processing /\ mqueue = <<>>
    <2>1. timer' \in Timer
      BY <1>0, <1>2, Left DEF ProcessQueue
    <2> QED BY <1>0, <1>2, <2>1
       DEF ProcessQueue, QueueInv, MemoryQueueTypeOK, QueueHasTimer, CorrectionKept
  <1>3. CASE ~processing /\ mqueue # <<>>
    <2>1. timer' \in Timer
      <3>1. PICK left \in Timer : left = [timer EXCEPT !.fired = @ - 1]
        BY <1>0, Left
      <3>2. PICK loose \in Nat : loose = IF timer.ref = "armed" THEN left.loose + 1 ELSE left.loose
        <4>1. left.loose \in Nat
          BY TimerType
        <4> QED BY <4>1
      <3>3. timer' = [left EXCEPT !.ref = "none", !.loose = loose]
        BY <1>3, <3>1, <3>2 DEF ProcessQueue
      <3> QED BY <3>1, <3>2, <3>3 DEF Timer
    <2>2. /\ batch' = mqueue /\ mqueue' = <<>> /\ processing' = TRUE /\ batch = <<>>
          /\ UNCHANGED <<added, handled, corrected, flushes>>
      BY <1>3 DEF ProcessQueue, QueueInv
    <2>3. MemoryQueueTypeOK'
      BY <1>0, <2>1, <2>2 DEF MemoryQueueTypeOK
    <2>4. OnePerKey(mqueue') /\ QueueHasTimer'
      BY <2>2 DEF OnePerKey, QueueHasTimer
    <2>5. CorrectionKept'
      <3>1. Range(<<>>) = {}
        BY DEF Range
      <3> QED BY <2>2, <3>1 DEF QueueInv, CorrectionKept
    <2> QED BY <2>2, <2>3, <2>4, <2>5 DEF QueueInv
  <1> QED BY <1>1, <1>2, <1>3

\* The update of one conversation keeps the invariant.
LEMMA HandleContextInv == ASSUME QueueInv, HandleContext PROVE QueueInv'
  <1>0. MemoryQueueTypeOK /\ batch # <<>> /\ processing
    BY DEF QueueInv, HandleContext
  <1>1. PICK c \in Context : c = batch[1]
    BY <1>0 DEF MemoryQueueTypeOK
  <1>2. batch' \in Seq(Context) /\ Range(batch) = Range(batch') \cup {c}
    BY <1>0, <1>1, RangeTail DEF HandleContext, MemoryQueueTypeOK
  <1>3. /\ handled' = [handled EXCEPT ![c.key] = c.n]
        /\ corrected' = [corrected EXCEPT ![c.key] = @ /\ ~c.correction]
        /\ UNCHANGED <<mqueue, timer, processing, added, flushes>>
    BY <1>1 DEF HandleContext
  <1>4. c.key \in Conversations /\ c.n \in 0..MaxAdds /\ c.correction \in BOOLEAN
    BY MemoryQueueAssumption DEF Context
  <1>5. MemoryQueueTypeOK'
    BY <1>0, <1>2, <1>3, <1>4 DEF MemoryQueueTypeOK
  <1>6. CorrectionKept'
    <2>1. ASSUME NEW k \in Conversations, corrected'[k]
          PROVE  \E d \in Range(mqueue') \cup Range(batch') : d.key = k /\ d.correction
      <3>1. corrected[k] /\ ~(k = c.key /\ c.correction)
        BY <1>0, <1>3, <1>4, <2>1 DEF MemoryQueueTypeOK
      <3>2. PICK d \in Range(mqueue) \cup Range(batch) : d.key = k /\ d.correction
        BY <3>1 DEF QueueInv, CorrectionKept
      <3>3. d # c
        BY <3>1, <3>2
      <3> QED BY <1>2, <1>3, <3>2, <3>3
    <2> QED BY <2>1 DEF CorrectionKept
  <1> QED BY <1>0, <1>3, <1>5, <1>6 DEF QueueInv, QueueHasTimer

\* Every step keeps the invariant.
LEMMA QueueStep == QueueInv /\ [MemoryQueueNext]_mqueueVars => QueueInv'
  <1> SUFFICES ASSUME QueueInv, [MemoryQueueNext]_mqueueVars PROVE QueueInv'
    OBVIOUS
  <1>1. CASE ProcessEnds
    BY <1>1 DEF ProcessEnds, QueueInv, MemoryQueueTypeOK, QueueHasTimer, CorrectionKept
  <1>2. CASE UNCHANGED mqueueVars
    BY <1>2 DEF mqueueVars, QueueInv, MemoryQueueTypeOK, QueueHasTimer, CorrectionKept
  <1> QED
    BY <1>1, <1>2, AddInv, TimersInv, ProcessQueueInv, HandleContextInv DEF MemoryQueueNext

\* A queue with conversations in it always has a timer that is armed or whose
\* thread is on its way (_schedule_timer, _process_queue).
THEOREM QueueHasTimerHolds == MemoryQueueSpec => []QueueHasTimer
  BY QueueInitInv, QueueStep, PTL DEF MemoryQueueSpec, QueueInv

\* A detected correction is in the queue or in the batch until the updater was
\* called with it (_enqueue_locked merges the flag).
THEOREM CorrectionKeptHolds == MemoryQueueSpec => []CorrectionKept
  BY QueueInitInv, QueueStep, PTL DEF MemoryQueueSpec, QueueInv

-----------------------------------------------------------------------------
(* The memory file and its cache. *)

\* A pair of content and mtime that is good for an entry: no newer than the
\* file and, where the mtime is the file's, its content.
Good(data, mtime) == mtime <= file /\ (~spoiled /\ mtime = file => data = file)

\* What a thread holds: before the read the mtime is not newer than the file;
\* between the content and the mtime the content is the file's; then the two
\* are good for an entry.
StorerInv(s) ==
    /\ storer[s].pc \in {"cache", "read"} => storer[s].mtime <= file
    /\ storer[s].pc \in {"restat", "stat"} /\ ~spoiled => storer[s].data = file
    /\ storer[s].pc \in {"fill", "store"} => Good(storer[s].data, storer[s].mtime)

StorageInv ==
    /\ MemoryStorageTypeOK
    /\ Good(cache.data, cache.mtime)
    /\ \A s \in Storers : StorerInv(s)

\* Nothing is cached.
LEMMA StorageInitInv == MemoryStorageInit => StorageInv
  <1> SUFFICES ASSUME MemoryStorageInit PROVE StorageInv
    OBVIOUS
  <1>1. 0 \in Version /\ 1 \in Version
    BY MemoryStorageAssumption DEF Version
  <1>2. Resting \in Storer
    BY <1>1 DEF Resting, Storer
  <1>3. MemoryStorageTypeOK
    BY <1>1, <1>2 DEF MemoryStorageInit, MemoryStorageTypeOK
  <1>4. Good(cache.data, cache.mtime)
    BY DEF MemoryStorageInit, Good
  <1>5. \A s \in Storers : StorerInv(s)
    BY DEF MemoryStorageInit, StorerInv, Resting
  <1> QED BY <1>3, <1>4, <1>5 DEF StorageInv

\* What load does with the data it returns.
LEMMA LoadedInv ==
    ASSUME MemoryStorageTypeOK, NEW s \in Storers, NEW data \in Version, Loaded(s, data)
    PROVE  /\ storer' \in [Storers -> Storer] /\ storer'[s].pc \in {"save", "model", "idle"}
           /\ \A r \in Storers \ {s} : storer'[r] = storer[r]
  <1>0. storer[s] \in Storer /\ Resting \in Storer
    BY MemoryStorageAssumption DEF MemoryStorageTypeOK, Resting, Storer, Version
  <1>1. \A pc \in {"save", "model"} : [storer[s] EXCEPT !.pc = pc, !.data = data] \in Storer
    BY <1>0 DEF Storer
  <1>2. CASE storer[s].op = "edit"
    <2>1. storer' = [storer EXCEPT ![s].pc = "save", ![s].data = data]
      BY <1>2 DEF Loaded
    <2> QED BY <1>0, <1>1, <2>1 DEF MemoryStorageTypeOK, Storer
  <1>3. CASE storer[s].op = "update"
    <2>1. storer' = [storer EXCEPT ![s].pc = "model", ![s].data = data]
      BY <1>3 DEF Loaded
    <2> QED BY <1>0, <1>1, <2>1 DEF MemoryStorageTypeOK, Storer
  <1>4. CASE storer[s].op \notin {"edit", "update"}
    <2>1. storer' = [storer EXCEPT ![s] = Resting]
      BY <1>4 DEF Loaded, Leave
    <2> QED BY <1>0, <2>1 DEF MemoryStorageTypeOK, Resting
  <1> QED BY <1>2, <1>3, <1>4

\* The first step of a call.
LEMMA BeginInv ==
    ASSUME MemoryStorageTypeOK, NEW s \in Storers,
           NEW op \in {"get", "edit", "clear", "import", "reload", "update"}, Begin(s, op)
    PROVE  /\ storer' \in [Storers -> Storer]
           /\ storer'[s].pc \in {"save", "reread", "cache"}
           /\ storer'[s].pc = "cache" => storer'[s].mtime = file
           /\ \A r \in Storers \ {s} : storer'[r] = storer[r]
  <1>1. PICK pc \in {"save", "reread", "cache"} :
           pc = CASE op \in {"clear", "import"} -> "save"
                  [] op = "reload" -> "reread"
                  [] OTHER -> "cache"
    OBVIOUS
  <1>2. PICK mtime \in Version :
           mtime = IF op \in {"clear", "import", "reload"} THEN 0 ELSE file
    BY MemoryStorageAssumption DEF MemoryStorageTypeOK, Version
  <1>3. storer' = [storer EXCEPT ![s] = [pc |-> pc, op |-> op, data |-> 0, mtime |-> mtime]]
    BY <1>1, <1>2 DEF Begin
  <1>4. [pc |-> pc, op |-> op, data |-> 0, mtime |-> mtime] \in Storer
    BY <1>1, <1>2, MemoryStorageAssumption DEF Storer, Version
  <1>5. pc = "cache" => mtime = file
    BY <1>1, <1>2
  <1> QED BY <1>3, <1>4, <1>5 DEF MemoryStorageTypeOK

\* A step of one thread that leaves the file alone.
LEMMA OneStorer ==
    ASSUME StorageInv, NEW s \in Storers, file' = file, spoiled => spoiled',
           MemoryStorageTypeOK', Good(cache.data, cache.mtime)', StorerInv(s)',
           \A r \in Storers \ {s} : storer'[r] = storer[r]
    PROVE  StorageInv'
  <1>1. ASSUME NEW r \in Storers PROVE StorerInv(r)'
    <2>1. CASE r # s
      <3>1. StorerInv(r) /\ storer'[r] = storer[r]
        BY <2>1 DEF StorageInv
      <3> QED BY <3>1 DEF StorerInv, Good
    <2> QED BY <2>1
  <1> QED BY <1>1 DEF StorageInv

\* A replacement of the file spoils whoever is between content and mtime, and
\* every other pair is older than the new file.
LEMMA NewVersionInv ==
    ASSUME StorageInv, NewVersion, UNCHANGED cache
    PROVE  /\ file' \in Version /\ file' = file + 1 /\ spoiled' \in BOOLEAN
           /\ Good(cache.data, cache.mtime)'
           /\ \A r \in Storers : storer'[r] = storer[r] => StorerInv(r)'
  <1>0. MemoryStorageTypeOK /\ file \in Nat /\ file' = file + 1
    BY DEF StorageInv, MemoryStorageTypeOK, NewVersion, Version
  <1>1. file' \in Version /\ spoiled' \in BOOLEAN
    BY <1>0, MemoryStorageAssumption DEF NewVersion, Version, MemoryStorageTypeOK, Between
  <1>2. cache.mtime \in Nat /\ cache.mtime <= file
    BY <1>0 DEF StorageInv, Good, MemoryStorageTypeOK, Version
  <1>3. Good(cache.data, cache.mtime)'
    BY <1>0, <1>2 DEF Good
  <1>4. ASSUME NEW r \in Storers, storer'[r] = storer[r] PROVE StorerInv(r)'
    <2>1. StorerInv(r) /\ storer[r].mtime \in Nat
      BY <1>0 DEF StorageInv, MemoryStorageTypeOK, Storer, Version
    <2>2. storer[r].pc \in {"stat", "restat"} => spoiled'
      BY DEF NewVersion, Between
    <2> QED BY <1>0, <1>4, <2>1, <2>2 DEF StorerInv, Good
  <1> QED BY <1>0, <1>1, <1>3, <1>4

\* Every step of a thread keeps the invariant.
LEMMA StorerStep ==
    ASSUME StorageInv, NEW s \in Storers, StorerNext(s) PROVE StorageInv'
  <1>0. /\ MemoryStorageTypeOK /\ storer[s] \in Storer /\ StorerInv(s)
        /\ file \in Version /\ Good(cache.data, cache.mtime)
        /\ storer[s].data \in Version /\ storer[s].mtime \in Version
        /\ cache.data \in Version /\ cache.mtime \in Version /\ Resting \in Storer
    BY MemoryStorageAssumption
    DEF StorageInv, MemoryStorageTypeOK, Storer, Resting, Version
  <1>v. Version \subseteq Nat
    BY MemoryStorageAssumption DEF Version
  <1>1. CASE Call(s)
    <2>1. PICK op \in {"get", "edit", "clear", "import", "reload", "update"} : Begin(s, op)
      BY <1>1 DEF Call
    <2>2. /\ storer' \in [Storers -> Storer]
          /\ storer'[s].pc \in {"save", "reread", "cache"}
          /\ storer'[s].pc = "cache" => storer'[s].mtime = file
          /\ \A r \in Storers \ {s} : storer'[r] = storer[r]
      BY <1>0, <2>1, BeginInv
    <2>3. UNCHANGED <<file, cache, spoiled>>
      BY <1>1 DEF Call
    <2>4. StorerInv(s)'
      BY <1>0, <1>v, <2>2, <2>3 DEF StorerInv
    <2>5. MemoryStorageTypeOK' /\ Good(cache.data, cache.mtime)'
      BY <1>0, <2>2, <2>3 DEF MemoryStorageTypeOK, Good
    <2> QED BY <2>2, <2>3, <2>4, <2>5, OneStorer
  <1>2. CASE LookUp(s)
    <2>3. UNCHANGED <<file, cache, spoiled>>
      BY <1>2 DEF LookUp
    <2>2. /\ storer' \in [Storers -> Storer]
          /\ storer'[s].pc \in {"save", "model", "idle", "read"}
          /\ storer'[s].pc = "read" => storer'[s].mtime <= file
          /\ \A r \in Storers \ {s} : storer'[r] = storer[r]
      <3>1. CASE Loaded(s, cache.data)
        BY <1>0, <3>1, LoadedInv
      <3>2. CASE Goto(s, "read")
        <4>1. storer' = [storer EXCEPT ![s].pc = "read"] /\ storer[s].pc = "cache"
          BY <1>2, <3>2 DEF Goto, LookUp
        <4>2. [storer[s] EXCEPT !.pc = "read"] \in Storer
          BY <1>0 DEF Storer
        <4> QED BY <1>0, <4>1, <4>2 DEF MemoryStorageTypeOK, StorerInv, Storer
      <3> QED BY <1>2, <3>1, <3>2 DEF LookUp
    <2>4. StorerInv(s)'
      BY <2>2, <2>3 DEF StorerInv
    <2>5. MemoryStorageTypeOK' /\ Good(cache.data, cache.mtime)'
      BY <1>0, <2>2, <2>3 DEF MemoryStorageTypeOK, Good
    <2> QED BY <2>2, <2>3, <2>4, <2>5, OneStorer
  <1>3. ASSUME NEW readable \in BOOLEAN, ReadFile(s, readable) PROVE StorageInv'
    <2>1. PICK data \in Version : data = IF readable THEN file ELSE 0
      BY <1>0, MemoryStorageAssumption DEF Version
    <2>2. PICK pc \in {"fill", "restat"} : pc = IF storer[s].pc = "read" THEN "fill" ELSE "restat"
      OBVIOUS
    <2>3. /\ storer' = [storer EXCEPT ![s].data = data, ![s].pc = pc]
          /\ spoiled' = (spoiled \/ ~readable) /\ UNCHANGED <<file, cache>>
      BY <1>3, <2>1, <2>2 DEF ReadFile
    <2>4. [storer[s] EXCEPT !.data = data, !.pc = pc] \in Storer
      BY <1>0, <2>1, <2>2 DEF Storer
    <2>5. /\ storer' \in [Storers -> Storer] /\ storer'[s].pc = pc /\ storer'[s].data = data
          /\ storer'[s].mtime = storer[s].mtime
          /\ \A r \in Storers \ {s} : storer'[r] = storer[r]
      BY <1>0, <2>3, <2>4 DEF MemoryStorageTypeOK, Storer
    <2>6. StorerInv(s)'
      BY <1>0, <1>3, <2>1, <2>2, <2>3, <2>5 DEF StorerInv, Good, ReadFile
    <2>7. MemoryStorageTypeOK' /\ Good(cache.data, cache.mtime)'
      BY <1>0, <2>3, <2>5 DEF MemoryStorageTypeOK, Good
    <2> QED BY <2>3, <2>5, <2>6, <2>7, OneStorer
  <1>4. ASSUME Restat(s) \/ StatSaved(s) PROVE StorageInv'
    <2>1. PICK pc \in {"fill", "store"} : storer' = [storer EXCEPT ![s].mtime = file, ![s].pc = pc]
      BY <1>4 DEF Restat, StatSaved
    <2>2. [storer[s] EXCEPT !.mtime = file, !.pc = pc] \in Storer
      BY <1>0, <2>1 DEF Storer
    <2>3. /\ storer' \in [Storers -> Storer] /\ storer'[s].pc = pc /\ storer'[s].mtime = file
          /\ storer'[s].data = storer[s].data
          /\ \A r \in Storers \ {s} : storer'[r] = storer[r]
      BY <1>0, <2>1, <2>2 DEF MemoryStorageTypeOK, Storer
    <2>4. UNCHANGED <<file, cache, spoiled>> /\ storer[s].pc \in {"restat", "stat"}
      BY <1>4 DEF Restat, StatSaved
    <2>5. StorerInv(s)'
      BY <1>0, <1>v, <2>1, <2>3, <2>4 DEF StorerInv, Good
    <2>6. MemoryStorageTypeOK' /\ Good(cache.data, cache.mtime)'
      BY <1>0, <2>3, <2>4 DEF MemoryStorageTypeOK, Good
    <2> QED BY <2>3, <2>4, <2>5, <2>6, OneStorer
  <1>5. ASSUME Fill(s) \/ StoreSaved(s) PROVE StorageInv'
    <2>1. /\ cache' = [data |-> storer[s].data, mtime |-> storer[s].mtime]
          /\ UNCHANGED <<file, spoiled>> /\ storer[s].pc \in {"fill", "store"}
      BY <1>5 DEF Fill, StoreSaved
    <2>2. /\ storer' \in [Storers -> Storer]
          /\ storer'[s].pc \in {"save", "model", "idle", "reread", "cache"}
          /\ storer'[s].pc = "cache" => storer'[s].mtime = file
          /\ \A r \in Storers \ {s} : storer'[r] = storer[r]
      <3>1. CASE Loaded(s, storer[s].data)
        BY <1>0, <3>1, LoadedInv
      <3>2. CASE Begin(s, "get")
        BY <1>0, <3>2, BeginInv
      <3>3. CASE Leave(s)
        BY <1>0, <3>3 DEF Leave, MemoryStorageTypeOK, Resting
      <3> QED BY <1>5, <3>1, <3>2, <3>3 DEF Fill, StoreSaved
    <2>3. StorerInv(s)'
      BY <1>0, <1>v, <2>1, <2>2 DEF StorerInv
    <2>4. MemoryStorageTypeOK'
      BY <1>0, <2>1, <2>2 DEF MemoryStorageTypeOK
    <2>5. Good(cache.data, cache.mtime)'
      BY <1>0, <2>1 DEF StorerInv, Good
    <2> QED BY <2>1, <2>2, <2>3, <2>4, <2>5, OneStorer
  <1>6. CASE Replace(s)
    <2>1. /\ file' \in Version /\ file' = file + 1 /\ spoiled' \in BOOLEAN
          /\ Good(cache.data, cache.mtime)'
          /\ \A r \in Storers : storer'[r] = storer[r] => StorerInv(r)'
      BY <1>6, NewVersionInv DEF Replace
    <2>2. storer' = [storer EXCEPT ![s].pc = "stat", ![s].data = file'] /\ UNCHANGED cache
      BY <1>6, <2>1 DEF Replace
    <2>3. [storer[s] EXCEPT !.pc = "stat", !.data = file'] \in Storer
      BY <1>0, <2>1 DEF Storer
    <2>4. /\ storer' \in [Storers -> Storer] /\ storer'[s].pc = "stat" /\ storer'[s].data = file'
          /\ \A r \in Storers \ {s} : storer'[r] = storer[r]
      BY <1>0, <2>2, <2>3 DEF MemoryStorageTypeOK, Storer
    <2>5. StorerInv(s)'
      BY <2>4 DEF StorerInv
    <2>6. MemoryStorageTypeOK'
      BY <1>0, <2>1, <2>2, <2>4 DEF MemoryStorageTypeOK
    <2> QED BY <2>1, <2>4, <2>5, <2>6 DEF StorageInv
  <1>7. CASE GiveUp(s)
    <2>1. storer' = [storer EXCEPT ![s] = Resting] /\ UNCHANGED <<file, cache, spoiled>>
      BY <1>7 DEF GiveUp, Leave
    <2>2. StorerInv(s)'
      BY <1>0, <2>1 DEF StorerInv, Resting, MemoryStorageTypeOK
    <2>3. MemoryStorageTypeOK' /\ Good(cache.data, cache.mtime)'
      BY <1>0, <2>1 DEF MemoryStorageTypeOK, Good
    <2> QED BY <1>0, <2>1, <2>2, <2>3, OneStorer DEF MemoryStorageTypeOK
  <1> QED BY <1>1, <1>2, <1>3, <1>4, <1>5, <1>6, <1>7 DEF StorerNext

\* Every step keeps the invariant.
LEMMA StorageStep == StorageInv /\ [MemoryStorageNext]_storageVars => StorageInv'
  <1> SUFFICES ASSUME StorageInv, [MemoryStorageNext]_storageVars PROVE StorageInv'
    OBVIOUS
  <1>0. MemoryStorageTypeOK /\ Good(cache.data, cache.mtime) /\ Updater \in Storers
    BY DEF StorageInv, Storers
  <1>1. CASE ModelAnswers
    <2>1. /\ storer' = [storer EXCEPT ![Updater].pc = "save"] /\ UNCHANGED <<file, cache, spoiled>>
          /\ storer[Updater] \in Storer
      BY <1>0, <1>1 DEF ModelAnswers, Goto, MemoryStorageTypeOK
    <2>2. [storer[Updater] EXCEPT !.pc = "save"] \in Storer
      BY <2>1 DEF Storer
    <2>3. /\ storer' \in [Storers -> Storer] /\ storer'[Updater].pc = "save"
          /\ \A r \in Storers \ {Updater} : storer'[r] = storer[r]
      BY <1>0, <2>1, <2>2 DEF MemoryStorageTypeOK, Storer
    <2>4. StorerInv(Updater)'
      BY <2>3 DEF StorerInv
    <2>5. MemoryStorageTypeOK' /\ Good(cache.data, cache.mtime)'
      BY <1>0, <2>1, <2>3 DEF MemoryStorageTypeOK, Good
    <2> QED BY <1>0, <2>1, <2>3, <2>4, <2>5, OneStorer
  <1>2. CASE EditFile
    <2>1. /\ file' \in Version /\ spoiled' \in BOOLEAN
          /\ Good(cache.data, cache.mtime)'
          /\ \A r \in Storers : storer'[r] = storer[r] => StorerInv(r)'
      BY <1>2, NewVersionInv DEF EditFile
    <2>2. UNCHANGED <<cache, storer>>
      BY <1>2 DEF EditFile
    <2> QED BY <1>0, <2>1, <2>2 DEF StorageInv, MemoryStorageTypeOK
  <1>3. CASE UNCHANGED storageVars
    BY <1>3 DEF storageVars, StorageInv, MemoryStorageTypeOK, Good, StorerInv
  <1> QED BY <1>1, <1>2, <1>3, StorerStep DEF MemoryStorageNext

\* An entry of _memory_cache with the mtime of the file has its content, unless
\* the file could not be read or was replaced between a content and its mtime.
THEOREM CacheCurrentHolds == MemoryStorageSpec => []CacheCurrent
  <1>1. StorageInv => CacheCurrent
    BY DEF StorageInv, Good, CacheCurrent
  <1> QED BY <1>1, StorageInitInv, StorageStep, PTL DEF MemoryStorageSpec

-----------------------------------------------------------------------------
(* The journal. *)

\* Everything in one set comes before everything in another.
Before(A, B) == \A x \in A, y \in B : x < y

\* All events that are not dropped are in one place, the rows before the batch
\* that is written and that before the buffer.  What the loop has read is part
\* of the buffer, or will take its place.
JournalInv ==
    /\ JournalTypeOK
    /\ Rising(jrows) /\ Rising(flushTask.batch) /\ Rising(closing.batch)
    /\ Rising(jbuffer) /\ Rising(loop.list)
    /\ Before(Range(jrows), Range(flushTask.batch)) /\ Before(Range(jrows), Range(closing.batch))
    /\ Before(Range(jrows), Range(jbuffer)) /\ Before(Range(jrows), Range(loop.list))
    /\ Before(Range(flushTask.batch), Range(jbuffer))
    /\ Before(Range(closing.batch), Range(jbuffer))
    /\ Range(jrows) \cup Range(flushTask.batch) \cup Range(closing.batch)
            \cup Range(jbuffer) \cup Range(loop.list) = (1..recorded) \ dropped
    /\ dropped \subseteq 1..recorded
    /\ flushTask.at # "writing" => flushTask.batch = <<>>
    /\ flushTask.at # "none" => closing.at \in {"no", "gather"}
    /\ closing.at # "write" => closing.batch = <<>>
    /\ loop.op = "none" => loop.list = <<>>
    /\ loop.op = "clear" => /\ closing.at = "no" /\ flushTask.at = "none"
                            /\ Range(loop.list) \subseteq Range(jbuffer)
    /\ loop.op = "delete" => /\ closing.at = "take"
                             /\ Len(loop.list) <= FlushThreshold
                             /\ Len(loop.list) <= Len(jbuffer)
                             /\ \A i \in 1..Len(loop.list) : loop.list[i] = jbuffer[i]
    /\ loop.op = "assign" => flushTask.batch = <<>> /\ closing.batch = <<>>

\* Rising sequences, one after the other.
LEMMA RisingConcat ==
    ASSUME NEW S, NEW p \in Seq(S), NEW q \in Seq(S),
           Rising(p), Rising(q), Before(Range(p), Range(q))
    PROVE  Rising(p \o q)
  <1>1. PICK m \in Nat : m = Len(p) /\ DOMAIN p = 1..m
    OBVIOUS
  <1>2. PICK n \in Nat : n = Len(q) /\ DOMAIN q = 1..n
    OBVIOUS
  <1>3. PICK r \in Seq(S) : r = p \o q
    BY ConcatProperties
  <1>4. /\ DOMAIN r = 1..(m + n)
        /\ \A i \in 1..(m + n) : r[i] = IF i <= m THEN p[i] ELSE q[i - m]
    BY <1>1, <1>2, <1>3, ConcatProperties
  <1>5. ASSUME NEW i \in 1..(m + n), NEW j \in 1..(m + n), i < j PROVE r[i] < r[j]
    <2>1. CASE j <= m
      <3>1. i \in 1..m /\ j \in 1..m /\ i <= m
        BY <1>5, <2>1
      <3> QED BY <1>1, <1>4, <1>5, <3>1, <2>1 DEF Rising
    <2>2. CASE i <= m /\ ~(j <= m)
      <3>1. i \in 1..m /\ j - m \in 1..n
        BY <2>2
      <3>2. p[i] \in Range(p) /\ q[j - m] \in Range(q)
        BY <1>1, <1>2, <3>1 DEF Range
      <3> QED BY <1>4, <2>2, <3>2 DEF Before
    <2>3. CASE ~(i <= m)
      <3>1. i - m \in 1..n /\ j - m \in 1..n /\ i - m < j - m /\ ~(j <= m)
        BY <1>5, <2>3
      <3> QED BY <1>2, <1>4, <2>3, <3>1 DEF Rising
    <2> QED BY <2>1, <2>2, <2>3
  <1> QED BY <1>3, <1>4, <1>5 DEF Rising

\* A rising sequence cut in two.
LEMMA RisingCut ==
    ASSUME NEW S \in SUBSET Nat, NEW q \in Seq(S), Rising(q), NEW n \in 0..Len(q)
    PROVE  LET a == SubSeq(q, 1, n)
               b == SubSeq(q, n + 1, Len(q))
           IN  /\ a \in Seq(S) /\ b \in Seq(S)
               /\ Rising(a) /\ Rising(b) /\ Before(Range(a), Range(b))
               /\ Range(a) \cup Range(b) = Range(q)
               /\ Len(a) = n /\ \A i \in 1..n : a[i] = q[i]
  <1>1. PICK l \in Nat : l = Len(q) /\ DOMAIN q = 1..l
    OBVIOUS
  <1>2. n \in 0..l /\ \A i \in 1..l : q[i] \in S /\ q[i] \in Nat
    <2>1. \A i \in 1..l : q[i] \in S
      BY <1>1, ElementOfSeq
    <2> QED BY <1>1, <2>1
  <1>3. PICK a \in Seq(S) : a = SubSeq(q, 1, n)
    BY <1>2, SubSeqProperties, 1 \in Int, n \in Int, \A i \in 1..n : q[i] \in S
  <1>4. PICK b \in Seq(S) : b = SubSeq(q, n + 1, l)
    BY <1>2, SubSeqProperties, n + 1 \in Int, l \in Int, \A i \in (n + 1)..l : q[i] \in S
  <1>5. Len(a) = n /\ DOMAIN a = 1..n /\ \A i \in 1..n : a[i] = q[i]
    BY <1>2, <1>3, SubSeqProperties, \A i \in 1..n : q[i] \in S
  <1>6. DOMAIN b = 1..(l - n) /\ \A i \in 1..(l - n) : b[i] = q[i + n]
    BY <1>2, <1>4, SubSeqProperties, \A i \in (n + 1)..l : q[i] \in S
  <1>7. \A i, j \in 1..l : i < j => q[i] < q[j]
    BY <1>1 DEF Rising
  <1>8. Rising(a)
    BY <1>2, <1>5, <1>7 DEF Rising
  <1>9. ASSUME NEW i \in 1..(l - n), NEW j \in 1..(l - n), i < j PROVE b[i] < b[j]
    <2>1. i + n \in 1..l /\ j + n \in 1..l /\ i + n < j + n
      BY <1>1, <1>9
    <2> QED BY <1>6, <1>7, <2>1
  <1>10. Rising(b)
    BY <1>6, <1>9 DEF Rising
  <1>11. ASSUME NEW x \in Range(a), NEW y \in Range(b) PROVE x < y
    <2>1. PICK i \in 1..n : x = q[i]
      BY <1>5 DEF Range
    <2>2. PICK j \in 1..(l - n) : y = q[j + n]
      BY <1>6 DEF Range
    <2>3. i \in 1..l /\ j + n \in 1..l /\ i < j + n
      BY <1>1
    <2> QED BY <1>7, <2>1, <2>2, <2>3
  <1>12. ASSUME NEW x \in Range(q) PROVE x \in Range(a) \cup Range(b)
    <2>1. PICK i \in 1..l : x = q[i]
      BY <1>1 DEF Range
    <2>2. CASE i <= n
      BY <1>5, <2>1, <2>2, i \in 1..n DEF Range
    <2>3. CASE ~(i <= n)
      <3>1. i - n \in 1..(l - n) /\ (i - n) + n = i
        BY <1>1, <2>3
      <3> QED BY <1>6, <2>1, <3>1 DEF Range
    <2> QED BY <2>2, <2>3
  <1>13. ASSUME NEW x \in Range(a) \cup Range(b) PROVE x \in Range(q)
    <2>1. CASE x \in Range(a)
      <3>1. PICK i \in 1..n : x = q[i]
        BY <1>5, <2>1 DEF Range
      <3> QED BY <1>1, <3>1, i \in 1..l DEF Range
    <2>2. CASE x \in Range(b)
      <3>1. PICK i \in 1..(l - n) : x = q[i + n]
        BY <1>6, <2>2 DEF Range
      <3> QED BY <1>1, <3>1, i + n \in 1..l DEF Range
    <2> QED BY <1>13, <2>1, <2>2
  <1> QED BY <1>1, <1>3, <1>4, <1>5, <1>8, <1>10, <1>11, <1>12, <1>13 DEF Before

\* A sequence without elements.
LEMMA EmptyRange == Range(<<>>) = {} /\ Rising(<<>>) /\ \A S : <<>> \in Seq(S)
  BY DEF Range, Rising

\* A new event has the greatest number.
LEMMA RisingAppend ==
    ASSUME JournalTypeOK, recorded < MaxRecorded, Rising(jbuffer),
           Range(jbuffer) \subseteq 1..recorded
    PROVE  /\ Append(jbuffer, recorded + 1) \in Batch
           /\ Rising(Append(jbuffer, recorded + 1))
           /\ Range(Append(jbuffer, recorded + 1)) = Range(jbuffer) \cup {recorded + 1}
           /\ Len(Append(jbuffer, recorded + 1)) = Len(jbuffer) + 1
           /\ \A i \in 1..Len(jbuffer) : Append(jbuffer, recorded + 1)[i] = jbuffer[i]
  <1>1. PICK e \in 1..MaxRecorded : e = recorded + 1
    BY JournalAssumption DEF JournalTypeOK
  <1>2. PICK q \in Batch : q = jbuffer
    BY DEF JournalTypeOK
  <1>3. PICK l \in Nat : l = Len(q) /\ DOMAIN q = 1..l
    BY <1>2 DEF Batch
  <1>4. PICK r \in Batch : r = Append(q, e)
    BY AppendProperties DEF Batch
  <1>5. /\ Len(r) = l + 1 /\ DOMAIN r = 1..(l + 1) /\ r[l + 1] = e
        /\ \A i \in 1..l : r[i] = q[i]
    BY <1>3, <1>4, AppendProperties DEF Batch
  <1>6. Range(r) = Range(q) \cup {e}
    <2>1. ASSUME NEW y \in Range(r) PROVE y \in Range(q) \cup {e}
      BY <1>3, <1>5 DEF Range
    <2>2. ASSUME NEW y \in Range(q) PROVE y \in Range(r)
      BY <1>3, <1>5, 1..l \subseteq 1..(l + 1) DEF Range
    <2>3. e \in Range(r)
      BY <1>5, l + 1 \in 1..(l + 1) DEF Range
    <2> QED BY <2>1, <2>2, <2>3
  <1>7. ASSUME NEW i \in 1..(l + 1), NEW j \in 1..(l + 1), i < j PROVE r[i] < r[j]
    <2>1. i \in 1..l
      BY <1>7
    <2>2. q[i] \in 1..recorded /\ r[i] = q[i]
      BY <1>2, <1>3, <1>5, <2>1 DEF Range
    <2>3. CASE j = l + 1
      BY <1>1, <1>5, <2>2, <2>3 DEF JournalTypeOK
    <2>4. CASE j # l + 1
      BY <1>2, <1>3, <1>5, <1>7, <2>1, <2>4, j \in 1..l DEF Rising
    <2> QED BY <2>3, <2>4
  <1> QED BY <1>1, <1>2, <1>3, <1>4, <1>5, <1>6, <1>7 DEF Rising

\* The journal of a run that begins.
LEMMA JournalInitInv == JournalInit => JournalInv
  BY JournalAssumption, EmptyRange
  DEF JournalInit, JournalInv, JournalTypeOK, NoTask, Free, Batch, Before

\* Recording keeps the invariant, in whichever thread.
LEMMA RecordStep ==
    ASSUME JournalInv, recorded < MaxRecorded, recorded' = recorded + 1,
           jbuffer' = Append(jbuffer, recorded + 1),
           \/ loop' = loop
           \/ /\ loop = Free /\ loop' = [op |-> "clear", list |-> jbuffer']
              /\ closing.at = "no" /\ flushTask.at = "none",
           UNCHANGED <<jrows, flushTask, closing, dropped>>
    PROVE  JournalInv'
  <1>0. JournalTypeOK /\ recorded \in Nat
    BY DEF JournalInv, JournalTypeOK
  <1>1. /\ Range(jbuffer) \subseteq 1..recorded /\ Range(jrows) \subseteq 1..recorded
        /\ Range(flushTask.batch) \subseteq 1..recorded
        /\ Range(closing.batch) \subseteq 1..recorded
        /\ Range(loop.list) \subseteq 1..recorded
    BY DEF JournalInv
  <1>2. /\ jbuffer' \in Batch /\ Rising(jbuffer')
        /\ Range(jbuffer') = Range(jbuffer) \cup {recorded + 1}
        /\ Len(jbuffer') = Len(jbuffer) + 1 /\ \A i \in 1..Len(jbuffer) : jbuffer'[i] = jbuffer[i]
    BY <1>0, <1>1, RisingAppend DEF JournalInv
  <1>3. Before(Range(jrows), Range(jbuffer')) /\ Before(Range(flushTask.batch), Range(jbuffer'))
        /\ Before(Range(closing.batch), Range(jbuffer'))
    BY <1>0, <1>1, <1>2 DEF JournalInv, Before
  <1>4. recorded' \in 0..MaxRecorded /\ 1..recorded' = (1..recorded) \cup {recorded + 1}
    BY <1>0, JournalAssumption DEF JournalTypeOK
  <1>5. (1..recorded') \ dropped' = ((1..recorded) \ dropped) \cup {recorded + 1}
    <2>1. recorded + 1 \notin dropped
      BY <1>0 DEF JournalInv
    <2> QED BY <1>4, <2>1
  <1>6. CASE loop' = loop
    <2>1. JournalTypeOK'
      BY <1>0, <1>2, <1>4, <1>6 DEF JournalTypeOK
    <2>2. /\ Rising(jrows)' /\ Rising(flushTask.batch)' /\ Rising(closing.batch)'
          /\ Rising(jbuffer)' /\ Rising(loop.list)'
      BY <1>2, <1>6 DEF JournalInv
    <2>3. (loop.op = "delete")' => /\ closing'.at = "take"
                                   /\ Len(loop'.list) <= FlushThreshold
                                   /\ Len(loop'.list) <= Len(jbuffer')
                                   /\ \A i \in 1..Len(loop'.list) : loop'.list[i] = jbuffer'[i]
      <3>1. PICK m \in Nat, n \in Nat : m = Len(loop.list) /\ n = Len(jbuffer)
        BY <1>0 DEF JournalTypeOK, Batch
      <3> QED BY <1>2, <1>6, <3>1 DEF JournalInv
    <2>4. (Range(jrows) \cup Range(flushTask.batch) \cup Range(closing.batch)
            \cup Range(jbuffer) \cup Range(loop.list) = (1..recorded) \ dropped)'
      BY <1>2, <1>5, <1>6 DEF JournalInv
    <2>5. dropped' \subseteq 1..recorded'
      BY <1>4 DEF JournalInv
    <2> QED BY <1>2, <1>3, <1>6, <2>1, <2>2, <2>3, <2>4, <2>5 DEF JournalInv
  <1>7. CASE /\ loop = Free /\ loop' = [op |-> "clear", list |-> jbuffer']
             /\ closing.at = "no" /\ flushTask.at = "none"
    <2>1. loop'.op = "clear" /\ loop'.list = jbuffer' /\ loop.list = <<>>
      BY <1>7 DEF Free
    <2>2. JournalTypeOK'
      BY <1>0, <1>2, <1>4, <1>7 DEF JournalTypeOK
    <2>3. (Range(jrows) \cup Range(flushTask.batch) \cup Range(closing.batch)
            \cup Range(jbuffer) \cup Range(loop.list) = (1..recorded) \ dropped)'
      BY <1>2, <1>5, <2>1, EmptyRange DEF JournalInv
    <2>4. dropped' \subseteq 1..recorded'
      BY <1>4 DEF JournalInv
    <2> QED BY <1>2, <1>3, <1>7, <2>1, <2>2, <2>3, <2>4 DEF JournalInv
  <1> QED BY <1>6, <1>7

\* The operations of the loop on the buffer keep the invariant.
LEMMA BufferStep ==
    ASSUME JournalInv, ClearBuffer \/ AssignBuffer \/ DeleteBatch
    PROVE  JournalInv'
  <1>0. JournalTypeOK /\ recorded \in Nat
    BY DEF JournalInv, JournalTypeOK
  <1>1. 1..recorded \subseteq 1..MaxRecorded
    BY <1>0, JournalAssumption DEF JournalTypeOK
  <1>2. CASE ClearBuffer
    <2>1. /\ loop.op = "clear" /\ jbuffer' = <<>> /\ loop'.op = "none" /\ loop'.list = <<>>
          /\ flushTask'.at = "writing" /\ flushTask'.batch = loop.list
          /\ UNCHANGED <<recorded, jrows, closing>>
          /\ dropped' = dropped \cup (Range(jbuffer) \ Range(loop.list))
      BY <1>2 DEF ClearBuffer, Free
    <2>2. JournalTypeOK'
      <3>1. Range(jbuffer) \subseteq 1..recorded
        BY DEF JournalInv
      <3>2. flushTask' \in [at : {"none", "writing", "returned"}, batch : Batch]
        BY <1>0, <1>2 DEF ClearBuffer, JournalTypeOK
      <3> QED BY <1>0, <1>2, <1>1, <3>1, <3>2, EmptyRange DEF ClearBuffer, Free, JournalTypeOK, Batch
    <2>3. flushTask.batch = <<>> /\ closing.batch = <<>> /\ closing.at = "no"
          /\ Range(loop.list) \subseteq Range(jbuffer)
      BY <2>1 DEF JournalInv
    <2>4. \A x \in Range(jrows) : x \notin Range(jbuffer)
      <3>1. \A x \in Range(jrows) : x \in 1..recorded
        BY DEF JournalInv
      <3>2. \A x \in Range(jrows) : x \in Range(jbuffer) => x < x
        BY DEF JournalInv, Before
      <3> QED BY <1>0, <3>1, <3>2
    <2>5. (Range(jrows) \cup Range(flushTask.batch) \cup Range(closing.batch)
            \cup Range(jbuffer) \cup Range(loop.list) = (1..recorded) \ dropped)'
      BY <2>1, <2>3, <2>4, EmptyRange DEF JournalInv
    <2>6. dropped' \subseteq 1..recorded'
      BY <2>1 DEF JournalInv
    <2> QED BY <2>1, <2>2, <2>3, <2>5, <2>6, EmptyRange DEF JournalInv, Before
  <1>3. CASE AssignBuffer
    <2>1. /\ loop.op = "assign" /\ jbuffer' = loop.list /\ loop'.op = "none" /\ loop'.list = <<>>
          /\ UNCHANGED <<recorded, jrows, flushTask, closing>>
          /\ dropped' = dropped \cup (Range(jbuffer) \ Range(loop.list))
      BY <1>3 DEF AssignBuffer, Free
    <2>2. JournalTypeOK'
      <3>1. Range(jbuffer) \subseteq 1..recorded
        BY DEF JournalInv
      <3> QED BY <1>0, <1>3, <1>1, <3>1, EmptyRange DEF AssignBuffer, Free, JournalTypeOK, Batch
    <2>3. flushTask.batch = <<>> /\ closing.batch = <<>>
      BY <2>1 DEF JournalInv
    <2>4. \A x \in Range(jrows) : x \notin Range(jbuffer)
      <3>1. \A x \in Range(jrows) : x \in 1..recorded
        BY DEF JournalInv
      <3>2. \A x \in Range(jrows) : x \in Range(jbuffer) => x < x
        BY DEF JournalInv, Before
      <3> QED BY <1>0, <3>1, <3>2
    <2>5. (Range(jrows) \cup Range(flushTask.batch) \cup Range(closing.batch)
            \cup Range(jbuffer) \cup Range(loop.list) = (1..recorded) \ dropped)'
      BY <2>1, <2>3, <2>4, EmptyRange DEF JournalInv
    <2>6. dropped' \subseteq 1..recorded'
      BY <2>1 DEF JournalInv
    <2> QED BY <2>1, <2>2, <2>3, <2>5, <2>6, EmptyRange DEF JournalInv, Before
  <1>4. CASE DeleteBatch
    <2>0. PICK l \in Nat : l = Len(jbuffer) /\ DOMAIN jbuffer = 1..l
      BY <1>0 DEF JournalTypeOK, Batch
    <2>1. PICK n \in 0..l : n = AtMost(jbuffer, FlushThreshold) /\ (n = l \/ n = FlushThreshold)
      BY <2>0, JournalAssumption DEF AtMost
    <2>2. PICK a \in Batch, b \in Batch :
            /\ a = SubSeq(jbuffer, 1, n) /\ b = SubSeq(jbuffer, n + 1, l)
            /\ Rising(a) /\ Rising(b) /\ Before(Range(a), Range(b))
            /\ Range(a) \cup Range(b) = Range(jbuffer)
            /\ Len(a) = n /\ \A i \in 1..n : a[i] = jbuffer[i]
      <3>1. jbuffer \in Seq(1..MaxRecorded) /\ Rising(jbuffer) /\ 1..MaxRecorded \in SUBSET Nat
        BY <1>0 DEF JournalInv, JournalTypeOK, Batch
      <3>2. n \in 0..Len(jbuffer)
        BY <2>0
      <3> QED BY <2>0, <3>1, <3>2, RisingCut, ZenonT(40) DEF Batch
    <2>3. /\ loop.op = "delete" /\ jbuffer' = b /\ loop'.op = "none" /\ loop'.list = <<>>
          /\ closing'.at = "write" /\ closing'.batch = loop.list
          /\ UNCHANGED <<recorded, jrows, flushTask>>
          /\ dropped' = dropped \cup (Range(a) \ Range(loop.list))
      BY <1>4, <2>0, <2>1, <2>2 DEF DeleteBatch, Free
    <2>4. Range(a) \subseteq 1..recorded /\ Range(b) \subseteq 1..recorded
      BY <2>2 DEF JournalInv
    <2>5. JournalTypeOK'
      <3>1. closing' \in [at : {"no", "gather", "take", "write", "over"}, batch : Batch]
        BY <1>0, <1>4 DEF DeleteBatch, JournalTypeOK
      <3>2. loop' \in [op : {"none", "clear", "delete", "assign"}, list : Batch]
        BY <1>4, EmptyRange DEF DeleteBatch, Free, Batch
      <3> QED BY <1>0, <1>1, <2>3, <2>4, <3>1, <3>2 DEF JournalTypeOK
    <2>6. flushTask.batch = <<>> /\ closing.batch = <<>> /\ closing.at = "take"
          /\ flushTask.at = "none"
      BY <1>0, <2>3 DEF JournalInv, JournalTypeOK
    <2>7. Range(loop.list) \subseteq Range(a)
      <3>1. PICK m \in Nat : m = Len(loop.list) /\ DOMAIN loop.list = 1..m
        BY <1>0 DEF JournalTypeOK, Batch
      <3>2. m <= FlushThreshold /\ m <= l /\ \A i \in 1..m : loop.list[i] = jbuffer[i]
        BY <2>0, <2>3, <3>1 DEF JournalInv
      <3>3. m <= n
        BY <2>1, <3>2
      <3>4. DOMAIN a = 1..n
        BY <2>2 DEF Batch
      <3>5. \A i \in 1..m : i \in 1..n /\ loop.list[i] = a[i]
        BY <2>1, <2>2, <3>2, <3>3
      <3> QED BY <3>1, <3>4, <3>5 DEF Range
    <2>8. /\ \A x \in Range(jrows) : x \notin Range(jbuffer)
          /\ \A x \in Range(b) : x \notin Range(a)
      <3>1. \A x \in Range(jrows) \cup Range(b) : x \in 1..recorded
        BY <2>4 DEF JournalInv
      <3>2. \A x \in Range(jrows) : x \in Range(jbuffer) => x < x
        BY DEF JournalInv, Before
      <3>3. \A x \in Range(b) : x \in Range(a) => x < x
        BY <2>2 DEF Before
      <3> QED BY <1>0, <3>1, <3>2, <3>3
    <2>9. (Range(jrows) \cup Range(flushTask.batch) \cup Range(closing.batch)
            \cup Range(jbuffer) \cup Range(loop.list) = (1..recorded) \ dropped)'
      BY <2>2, <2>3, <2>6, <2>7, <2>8, EmptyRange DEF JournalInv
    <2>10. dropped' \subseteq 1..recorded'
      BY <2>3, <2>4 DEF JournalInv
    <2>11. /\ Before(Range(jrows), Range(b)) /\ Before(Range(loop.list), Range(b))
           /\ Before(Range(jrows), Range(loop.list))
      BY <2>2, <2>7 DEF JournalInv, Before
    <2> QED
      BY <2>2, <2>3, <2>5, <2>6, <2>9, <2>10, <2>11, EmptyRange DEF JournalInv, Before
  <1> QED BY <1>2, <1>3, <1>4

\* The flush task keeps the invariant.
LEMMA FlushTaskStep ==
    ASSUME JournalInv, FlushTaskWrites \/ FlushTaskFails \/ FlushTaskDone
    PROVE  JournalInv'
  <1>0. JournalTypeOK /\ recorded \in Nat /\ 1..MaxRecorded \in SUBSET Nat
    BY DEF JournalInv, JournalTypeOK
  <1>1. loop.op = "none" /\ loop.list = <<>>
    BY DEF Free, FlushTaskWrites, FlushTaskFails, FlushTaskDone
  <1>2. CASE FlushTaskWrites
    <2>1. PICK p \in Batch, q \in Batch : p = jrows /\ q = flushTask.batch
      BY <1>0 DEF JournalTypeOK
    <2>2. p \o q \in Batch /\ Range(p \o q) = Range(p) \cup Range(q)
      BY RangeConcat, ZenonT(40) DEF Batch
    <2>3. p \in Seq(1..MaxRecorded) /\ q \in Seq(1..MaxRecorded)
      BY DEF Batch
    <2>4. Rising(p \o q)
      BY <2>1, <2>3, RisingConcat DEF JournalInv
    <2>5. /\ jrows' = p \o q /\ flushTask'.at = "returned" /\ flushTask'.batch = <<>>
          /\ flushTask' \in [at : {"none", "writing", "returned"}, batch : Batch]
          /\ UNCHANGED <<recorded, jbuffer, closing, loop, dropped>>
      BY <1>2, <2>1, EmptyRange DEF FlushTaskWrites, Batch
    <2>6. closing.batch = <<>> /\ closing.at \in {"no", "gather"} /\ flushTask.at = "writing"
      BY <1>2 DEF FlushTaskWrites, JournalInv
    <2>7. JournalTypeOK'
      BY <1>0, <2>2, <2>5 DEF JournalTypeOK
    <2>8. (Range(jrows) \cup Range(flushTask.batch) \cup Range(closing.batch)
            \cup Range(jbuffer) \cup Range(loop.list) = (1..recorded) \ dropped)'
      BY <2>1, <2>2, <2>5, EmptyRange DEF JournalInv
    <2>9. Before(Range(jrows)', Range(jbuffer)')
      BY <2>1, <2>2, <2>5 DEF JournalInv, Before
    <2> QED
      BY <1>1, <2>4, <2>5, <2>6, <2>7, <2>8, <2>9, EmptyRange DEF JournalInv, Before
  <1>3. CASE FlushTaskFails
    <2>1. PICK p \in Batch, q \in Batch : p = flushTask.batch /\ q = jbuffer
      BY <1>0 DEF JournalTypeOK
    <2>2. p \o q \in Batch /\ Range(p \o q) = Range(p) \cup Range(q)
      BY RangeConcat, ZenonT(40) DEF Batch
    <2>3. p \in Seq(1..MaxRecorded) /\ q \in Seq(1..MaxRecorded)
      BY DEF Batch
    <2>4. Rising(p \o q)
      BY <2>1, <2>3, RisingConcat DEF JournalInv
    <2>5. /\ loop'.op = "assign" /\ loop'.list = p \o q
          /\ loop' \in [op : {"none", "clear", "delete", "assign"}, list : Batch]
          /\ flushTask'.at = "returned" /\ flushTask'.batch = <<>>
          /\ flushTask' \in [at : {"none", "writing", "returned"}, batch : Batch]
          /\ UNCHANGED <<recorded, jbuffer, jrows, closing, dropped>>
      BY <1>3, <2>1, <2>2, EmptyRange DEF FlushTaskFails, Returned, Batch
    <2>6. closing.batch = <<>> /\ closing.at \in {"no", "gather"} /\ flushTask.at = "writing"
      BY <1>3 DEF FlushTaskFails, JournalInv
    <2>7. JournalTypeOK'
      BY <1>0, <2>5 DEF JournalTypeOK
    <2>8. (Range(jrows) \cup Range(flushTask.batch) \cup Range(closing.batch)
            \cup Range(jbuffer) \cup Range(loop.list) = (1..recorded) \ dropped)'
      BY <1>1, <2>1, <2>2, <2>5, EmptyRange DEF JournalInv
    <2>9. Before(Range(jrows)', Range(loop.list)')
      BY <2>1, <2>2, <2>5 DEF JournalInv, Before
    <2> QED
      BY <1>1, <2>4, <2>5, <2>6, <2>7, <2>8, <2>9, EmptyRange DEF JournalInv, Before
  <1>4. CASE FlushTaskDone
    <2>1. /\ flushTask'.at = "none" /\ flushTask'.batch = flushTask.batch
          /\ UNCHANGED <<recorded, jbuffer, jrows, closing, loop, dropped>>
      BY <1>4 DEF FlushTaskDone, NoTask, JournalInv
    <2>2. JournalTypeOK'
      BY <1>0, <1>4, EmptyRange DEF FlushTaskDone, NoTask, JournalTypeOK, Batch
    <2>3. flushTask.batch = <<>>
      BY <1>4 DEF FlushTaskDone, JournalInv
    <2> QED BY <1>1, <2>1, <2>2, <2>3 DEF JournalInv
  <1> QED BY <1>2, <1>3, <1>4

\* The flush at the end of the run keeps the invariant.
LEMMA CloseStep ==
    ASSUME JournalInv,
           \/ CloseBegins \/ Gathered \/ TakeBatch \/ CloseWrites \/ CloseFails \/ CloseCancelled
    PROVE  JournalInv'
  <1>0. JournalTypeOK /\ recorded \in Nat /\ 1..MaxRecorded \in SUBSET Nat
    BY DEF JournalInv, JournalTypeOK
  <1>1. loop.op = "none" /\ loop.list = <<>>
    BY DEF Free, CloseBegins, Gathered, TakeBatch, CloseWrites, CloseFails, CloseCancelled
  <1>2. CASE CloseBegins
    <2>1. /\ closing'.at = "gather" /\ closing'.batch = closing.batch /\ closing.at = "no"
          /\ UNCHANGED <<recorded, jbuffer, jrows, flushTask, loop, dropped>>
      BY <1>0, <1>2 DEF CloseBegins, JournalTypeOK
    <2>2. JournalTypeOK'
      BY <1>0, <1>2 DEF CloseBegins, JournalTypeOK
    <2> QED BY <1>1, <2>1, <2>2 DEF JournalInv
  <1>3. CASE Gathered
    <2>1. /\ closing'.at = "take" /\ closing'.batch = closing.batch /\ closing.at = "gather"
          /\ flushTask.at = "none"
          /\ UNCHANGED <<recorded, jbuffer, jrows, flushTask, loop, dropped>>
      BY <1>0, <1>3 DEF Gathered, JournalTypeOK
    <2>2. JournalTypeOK'
      BY <1>0, <1>3 DEF Gathered, JournalTypeOK
    <2> QED BY <1>1, <2>1, <2>2 DEF JournalInv
  <1>4. CASE TakeBatch
    <2>0. closing.at = "take" /\ flushTask.at = "none" /\ closing.batch = <<>>
      BY <1>0, <1>4 DEF TakeBatch, JournalInv, JournalTypeOK
    <2>1. CASE jbuffer = <<>>
      <3>1. /\ closing'.at = "over" /\ closing'.batch = closing.batch
            /\ UNCHANGED <<recorded, jbuffer, jrows, flushTask, loop, dropped>>
        BY <1>0, <1>4, <2>1 DEF TakeBatch, JournalTypeOK
      <3>2. JournalTypeOK'
        BY <1>0, <1>4, <2>1 DEF TakeBatch, JournalTypeOK
      <3> QED BY <1>1, <2>0, <3>1, <3>2 DEF JournalInv
    <2>2. CASE jbuffer # <<>>
      <3>0. PICK l \in Nat : l = Len(jbuffer) /\ DOMAIN jbuffer = 1..l
        BY <1>0 DEF JournalTypeOK, Batch
      <3>1. PICK n \in 0..l : n = AtMost(jbuffer, FlushThreshold) /\ n <= FlushThreshold
        BY <3>0, JournalAssumption DEF AtMost
      <3>2. PICK a \in Batch :
              /\ a = SubSeq(jbuffer, 1, n) /\ Rising(a)
              /\ Range(a) \subseteq Range(jbuffer)
              /\ Len(a) = n /\ \A i \in 1..n : a[i] = jbuffer[i]
        <4>1. jbuffer \in Seq(1..MaxRecorded) /\ Rising(jbuffer)
          BY <1>0 DEF JournalInv, JournalTypeOK, Batch
        <4>2. n \in 0..Len(jbuffer)
          BY <3>0
        <4> QED BY <1>0, <4>1, <4>2, RisingCut, Zenon DEF Batch
      <3>3. /\ loop'.op = "delete" /\ loop'.list = a
            /\ loop' \in [op : {"none", "clear", "delete", "assign"}, list : Batch]
            /\ UNCHANGED <<recorded, jbuffer, jrows, flushTask, closing, dropped>>
        <4>1. /\ loop' = [op |-> "delete", list |-> a]
              /\ UNCHANGED <<recorded, jbuffer, jrows, flushTask, closing, dropped>>
          BY <1>4, <2>2, <3>1, <3>2, Zenon DEF TakeBatch
        <4> QED BY <4>1
      <3>4. JournalTypeOK'
        BY <1>0, <3>3 DEF JournalTypeOK
      <3>5. (Range(jrows) \cup Range(flushTask.batch) \cup Range(closing.batch)
              \cup Range(jbuffer) \cup Range(loop.list) = (1..recorded) \ dropped)'
        BY <1>1, <3>2, <3>3, EmptyRange DEF JournalInv
      <3>6. Before(Range(jrows)', Range(loop.list)')
        BY <3>2, <3>3 DEF JournalInv, Before
      <3>7. (loop.op = "delete" => /\ closing.at = "take"
                                   /\ Len(loop.list) <= FlushThreshold
                                   /\ Len(loop.list) <= Len(jbuffer)
                                   /\ \A i \in 1..Len(loop.list) : loop.list[i] = jbuffer[i])'
        BY <2>0, <3>0, <3>1, <3>2, <3>3
      <3> QED BY <2>0, <3>2, <3>3, <3>4, <3>5, <3>6, <3>7 DEF JournalInv
    <2> QED BY <2>1, <2>2
  <1>5. CASE CloseWrites
    <2>1. PICK p \in Batch, q \in Batch : p = jrows /\ q = closing.batch
      BY <1>0 DEF JournalTypeOK
    <2>2. p \o q \in Batch /\ Range(p \o q) = Range(p) \cup Range(q)
      BY RangeConcat, ZenonT(40) DEF Batch
    <2>3. p \in Seq(1..MaxRecorded) /\ q \in Seq(1..MaxRecorded)
      BY DEF Batch
    <2>4. Rising(p \o q)
      BY <2>1, <2>3, RisingConcat DEF JournalInv
    <2>5. /\ jrows' = p \o q /\ closing'.at = "take" /\ closing'.batch = <<>>
          /\ closing' \in [at : {"no", "gather", "take", "write", "over"}, batch : Batch]
          /\ UNCHANGED <<recorded, jbuffer, flushTask, loop, dropped>>
      BY <1>5, <2>1, EmptyRange DEF CloseWrites, Batch
    <2>6. flushTask.at = "none" /\ flushTask.batch = <<>>
      BY <1>0, <1>5 DEF CloseWrites, JournalInv, JournalTypeOK
    <2>7. JournalTypeOK'
      BY <1>0, <2>2, <2>5 DEF JournalTypeOK
    <2>8. (Range(jrows) \cup Range(flushTask.batch) \cup Range(closing.batch)
            \cup Range(jbuffer) \cup Range(loop.list) = (1..recorded) \ dropped)'
      BY <2>1, <2>2, <2>5, EmptyRange DEF JournalInv
    <2>9. Before(Range(jrows)', Range(jbuffer)')
      BY <2>1, <2>2, <2>5 DEF JournalInv, Before
    <2> QED
      BY <1>1, <2>4, <2>5, <2>6, <2>7, <2>8, <2>9, EmptyRange DEF JournalInv, Before
  <1>6. CASE CloseFails
    <2>1. PICK p \in Batch, q \in Batch : p = closing.batch /\ q = jbuffer
      BY <1>0 DEF JournalTypeOK
    <2>2. p \o q \in Batch /\ Range(p \o q) = Range(p) \cup Range(q)
      BY RangeConcat, ZenonT(40) DEF Batch
    <2>3. p \in Seq(1..MaxRecorded) /\ q \in Seq(1..MaxRecorded)
      BY DEF Batch
    <2>4. Rising(p \o q)
      BY <2>1, <2>3, RisingConcat DEF JournalInv
    <2>5. /\ loop'.op = "assign" /\ loop'.list = p \o q
          /\ loop' \in [op : {"none", "clear", "delete", "assign"}, list : Batch]
          /\ closing'.at = "over" /\ closing'.batch = <<>>
          /\ closing' \in [at : {"no", "gather", "take", "write", "over"}, batch : Batch]
          /\ UNCHANGED <<recorded, jbuffer, jrows, flushTask, dropped>>
      BY <1>6, <2>1, <2>2, EmptyRange DEF CloseFails, Returned, Batch
    <2>6. flushTask.at = "none" /\ flushTask.batch = <<>>
      BY <1>0, <1>6 DEF CloseFails, JournalInv, JournalTypeOK
    <2>7. JournalTypeOK'
      BY <1>0, <2>5 DEF JournalTypeOK
    <2>8. (Range(jrows) \cup Range(flushTask.batch) \cup Range(closing.batch)
            \cup Range(jbuffer) \cup Range(loop.list) = (1..recorded) \ dropped)'
      BY <1>1, <2>1, <2>2, <2>5, EmptyRange DEF JournalInv
    <2>9. Before(Range(jrows)', Range(loop.list)')
      BY <2>1, <2>2, <2>5 DEF JournalInv, Before
    <2> QED
      BY <1>1, <2>4, <2>5, <2>6, <2>7, <2>8, <2>9, EmptyRange DEF JournalInv, Before
  <1>7. CASE CloseCancelled
    <2>1. /\ flushTask'.at = "none" /\ flushTask'.batch = <<>>
          /\ flushTask' \in [at : {"none", "writing", "returned"}, batch : Batch]
          /\ closing'.at = "over" /\ closing'.batch = <<>>
          /\ closing' \in [at : {"no", "gather", "take", "write", "over"}, batch : Batch]
          /\ UNCHANGED <<recorded, jbuffer, jrows, loop>>
      BY <1>0, <1>7, EmptyRange DEF CloseCancelled, NoTask, JournalInv, JournalTypeOK, Batch
    <2>2. dropped' = dropped \cup Range(closing.batch) \cup Range(flushTask.batch)
      BY <1>0, <1>7, EmptyRange DEF CloseCancelled, JournalInv, JournalTypeOK
    <2>3. dropped' \subseteq 1..recorded /\ 1..recorded \subseteq 1..MaxRecorded
      <3>1. 1..recorded \subseteq 1..MaxRecorded
        BY <1>0, JournalAssumption DEF JournalTypeOK
      <3> QED BY <2>2, <3>1 DEF JournalInv
    <2>4. JournalTypeOK'
      BY <1>0, <2>1, <2>3 DEF JournalTypeOK
    <2>5. /\ \A x \in Range(jrows) \cup Range(jbuffer) :
                x \notin Range(closing.batch) /\ x \notin Range(flushTask.batch)
      <3>1. \A x \in Range(jrows) \cup Range(jbuffer) : x \in 1..recorded
        BY DEF JournalInv
      <3>2. \A x \in Range(jrows) \cup Range(jbuffer) :
              x \in Range(closing.batch) \cup Range(flushTask.batch) => x < x
        BY DEF JournalInv, Before
      <3> QED BY <1>0, <3>1, <3>2
    <2>6. (Range(jrows) \cup Range(flushTask.batch) \cup Range(closing.batch)
            \cup Range(jbuffer) \cup Range(loop.list) = (1..recorded) \ dropped)'
      BY <1>1, <2>1, <2>2, <2>5, EmptyRange DEF JournalInv
    <2> QED BY <1>1, <2>1, <2>3, <2>4, <2>6, EmptyRange DEF JournalInv, Before
  <1> QED BY <1>2, <1>3, <1>4, <1>5, <1>6, <1>7

\* Every step keeps the invariant.
LEMMA JournalStep == JournalInv /\ [JournalNext]_journalVars => JournalInv'
  <1> SUFFICES ASSUME JournalInv, [JournalNext]_journalVars PROVE JournalInv'
    OBVIOUS
  <1>1. CASE RecordInThread
    BY <1>1, RecordStep DEF RecordInThread
  <1>2. ASSUME NEW chainEnds \in BOOLEAN, RecordInLoop(chainEnds) PROVE JournalInv'
    BY <1>2, RecordStep DEF RecordInLoop, MayFlush
  <1>3. CASE UNCHANGED journalVars
    BY <1>3 DEF journalVars, JournalInv, JournalTypeOK
  <1> QED
    BY <1>1, <1>2, <1>3, BufferStep, FlushTaskStep, CloseStep DEF JournalNext

\* The parts of the history, one after the other, are the history.
LEMMA PartsInOrder == JournalInv => HistoryInOrder
  <1> SUFFICES ASSUME JournalInv, loop = Free PROVE HistoryInOrder
    BY DEF HistoryInOrder
  <1>1. PICK a \in Batch, b \in Batch, c \in Batch, d \in Batch :
          a = jrows /\ b = flushTask.batch /\ c = closing.batch /\ d = jbuffer
    BY DEF JournalInv, JournalTypeOK
  <1>2. PICK ab \in Batch : ab = a \o b /\ Range(ab) = Range(a) \cup Range(b)
    BY RangeConcat, ZenonT(40) DEF Batch
  <1>3. PICK abc \in Batch : abc = ab \o c /\ Range(abc) = Range(ab) \cup Range(c)
    BY RangeConcat, ZenonT(40) DEF Batch
  <1>4. Range(abc \o d) = Range(abc) \cup Range(d)
    BY RangeConcat, ZenonT(40) DEF Batch
  <1>5. b = <<>> \/ c = <<>>
    BY <1>1 DEF JournalInv, JournalTypeOK
  <1>6. Before(Range(b), Range(c))
    BY <1>5, EmptyRange DEF Before
  <1>7. /\ a \in Seq(1..MaxRecorded) /\ b \in Seq(1..MaxRecorded) /\ c \in Seq(1..MaxRecorded)
        /\ d \in Seq(1..MaxRecorded) /\ ab \in Seq(1..MaxRecorded) /\ abc \in Seq(1..MaxRecorded)
    BY DEF Batch
  <1>8. Rising(ab)
    BY <1>1, <1>2, <1>7, RisingConcat DEF JournalInv
  <1>9. Before(Range(ab), Range(c)) /\ Before(Range(abc), Range(d))
    BY <1>1, <1>2, <1>3, <1>6 DEF JournalInv, Before
  <1>10. Rising(abc)
    BY <1>1, <1>3, <1>7, <1>8, <1>9, RisingConcat DEF JournalInv
  <1>11. Rising(abc \o d)
    BY <1>1, <1>7, <1>9, <1>10, RisingConcat DEF JournalInv
  <1>12. Range(abc \o d) = (1..recorded) \ dropped
    BY <1>1, <1>2, <1>3, <1>4, EmptyRange DEF JournalInv, Free
  <1> QED BY <1>1, <1>2, <1>3, <1>11, <1>12 DEF HistoryInOrder

\* A run's rows, the batches that are written and the buffer of its RunJournal
\* are the events as they were recorded, in order, none twice and none missing,
\* save those of a cancelled write or of a race, whatever the threshold and the
\* number of events; and the journal's state is well formed.
THEOREM HistoryInOrderHolds == JournalSpec => [](HistoryInOrder /\ JournalTypeOK)
  <1>1. JournalInv => JournalTypeOK
    BY DEF JournalInv
  <1> QED BY <1>1, JournalInitInv, JournalStep, PartsInOrder, PTL DEF JournalSpec
=============================================================================
