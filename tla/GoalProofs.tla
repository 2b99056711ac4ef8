----------------------------- MODULE GoalProofs -----------------------------
(***************************************************************************)
(* Goals for every set of requests and every limit: what an undisturbed    *)
(* writer has put into the thread stays, and a goal's continuations are    *)
(* bounded by its counters although these live in the checkpoint itself.   *)
(***************************************************************************)
EXTENDS Goals, SequenceLemmas, TLAPS

\* A writer whose copy has the greatest id of those that are drawn.
IsLast(w) == drawn # <<>> /\ drawn[Len(drawn)] = w

\* Ids are drawn by writers that have not put their copy.
DrawnInv ==
    /\ \A i, j \in 1..Len(drawn) : drawn[i] = drawn[j] => i = j
    /\ Counts("run") => grun.pc \in {"landing", "put"}
    /\ \A r \in GoalRequests : Counts(r) => greq[r].pc = "put"

\* Who holds the thread's lock; a compaction keeps runs away.
Holds(r) == greq[r].pc \in {"summarise", "put"} /\ greq[r].kind # "update"
LockInv ==
    /\ grun.pc \in {"reread", "put"} => lock = "run"
    /\ \A r \in GoalRequests :
         /\ greq[r].pc = "summarise" => greq[r].kind = "compact"
         /\ Holds(r) => lock = r
         /\ Holds(r) /\ greq[r].kind = "compact" => grun.pc = "idle"

\* A writer nobody disturbed drew the last id, with no turn and no compaction
\* under way that would hide what it puts.
CalmInv ==
    /\ grun.pc \in {"landing", "put"} /\ grun.calm => IsLast("run")
    /\ \A r \in GoalRequests :
         greq[r].pc = "put" /\ greq[r].calm => IsLast(r) /\ ~InTurn /\ ~Compacting

\* The checkpoints that are or may become the latest one: it, the copies that
\* still count, what is being summarised and a turn's own state; apart from
\* these the copy of the evaluator.
HasCopy(r) == greq[r].pc = "summarise" \/ (greq[r].pc = "put" /\ Counts(r))
RunHasCopy == grun.pc = "turn" \/ (grun.pc = "landing" /\ Counts("run"))
Copies ==
    {latest} \cup {greq[r].copy : r \in {r \in GoalRequests : HasCopy(r)}}
             \cup {x \in {grun.copy} : RunHasCopy}
Live == Copies \cup {x \in {grun.copy} : grun.pc = "put" /\ Counts("run")}

\* A checkpoint has everything that is settled.
Fresh(x) == settled \subseteq x.talk /\ x.goal.instance \notin retired

FreshInv ==
    /\ retired \subseteq 1..goals
    /\ \A x \in Live : Fresh(x)
    /\ grun.pc = "reread" =>
         /\ grun.current.instance = grun.goal.instance
         /\ ~grun.moved => grun.current = latest.goal

\* What the evaluator has decided, and what its copy says.
Evaluating ==
    grun.pc \in {"checkpoint", "evaluate", "regoal", "recheck", "persist", "reread",
                 "put", "verifyGoal", "verify"}
Verifying == grun.pc \in {"verifyGoal", "verify"}
Recording == grun.pc \in {"persist", "reread", "put"}
StepInv ==
    /\ grun.step = "record" \/ Recording \/ Verifying
    /\ Verifying => grun.step = "continue"
    /\ grun.step = "continue" =>
         /\ grun.result = "unmet"
         /\ grun.goal.count < MaxContinuations /\ grun.stalled < MaxNoProgress
    /\ grun.pc = "put" /\ grun.step = "continue" =>
         grun.copy.goal = [instance |-> grun.goal.instance, count |-> grun.goal.count + 1,
                           stalled |-> grun.stalled, key |-> <<"unmet", grun.reply>>]

\* Every goal that may come back has counted the continuations it had, and after
\* the evaluation has been put also the one to come, save the overrun.
Known(g) == g = NoGoal \/ g.instance \in 1..goals
Owed(i) == IF Verifying /\ grun.goal.instance = i THEN 1 ELSE 0
Counted(g) ==
    \A i \in 1..MaxGoals : g.instance = i => continued[i] + Owed(i) <= g.count + overrun
CountInv ==
    /\ \A x \in Live : Known(x.goal) /\ Counted(x.goal)
    /\ \A i \in 1..MaxGoals : i > goals => continued[i] = 0
    /\ Evaluating => /\ grun.goal.instance \in 1..goals
                     /\ continued[grun.goal.instance] <= grun.goal.count + overrun
    /\ \A i \in 1..MaxGoals : continued[i] <= MaxContinuations + overrun

\* A goal that is evaluated next has counted n turns with this reply.
KeptAs(g, reply, n) ==
    IF g.key = <<"unmet", reply>> THEN n <= g.stalled + 1 + overrun ELSE n <= overrun
Kept(g) == g.instance = barren.instance => KeptAs(g, barren.reply, barren.turns)

\* The run may still go on by itself; the turn it would make.
OnPath ==
    \/ grun.pc \in {"load", "turn", "landing", "goal", "checkpoint", "evaluate",
                   "regoal", "recheck"}
    \/ Recording /\ grun.step = "continue"
Same == barren.instance = grun.goal.instance /\ barren.reply = grun.reply
Turns == IF Same THEN barren.turns + 1 ELSE 1

BarrenInv ==
    /\ barren.turns > 0 => barren.instance \in 1..goals
    /\ barren.turns <= MaxNoProgress + overrun
    /\ OnPath => \A x \in Copies : Kept(x.goal)
    /\ grun.pc \in {"checkpoint", "evaluate"} => Kept(grun.goal)
    /\ grun.pc \in {"regoal", "recheck"} \/ grun.step = "continue" =>
         (grun.result = "unmet" /\ Same => barren.turns <= grun.stalled + overrun)
    /\ Verifying =>
         \A x \in Copies : x.goal.instance = grun.goal.instance
                              => KeptAs(x.goal, grun.reply, Turns)

\* The inductive invariant.
GInv ==
    /\ GoalsTypeOK /\ DrawnInv /\ LockInv /\ CalmInv
    /\ FreshInv /\ StepInv /\ CountInv /\ BarrenInv

-----------------------------------------------------------------------------
(* Types. *)

USE GoalsAssumption

\* The fields of a checkpoint, and the constant records, have their types.
LEMMA CheckpointType ==
    ASSUME NEW x \in ThreadCheckpoint
    PROVE  /\ x.goal \in ThreadGoal /\ x.talk \subseteq 1..MaxChanges /\ x.reply \in 0..MaxChanges
           /\ x.answered \in BOOLEAN /\ x.pending \in BOOLEAN
           /\ x.goal.instance \in 0..MaxGoals /\ x.goal.count \in Nat /\ x.goal.stalled \in Nat
  BY DEF ThreadCheckpoint, ThreadGoal

\* The initial values have their types.
LEMMA ConstantTypes ==
    /\ NoGoal \in ThreadGoal /\ Nothing \in ThreadCheckpoint
    /\ RunIdle \in GoalRun /\ RequestIdle \in GoalRequest
    /\ \A i \in 1..MaxGoals : NewGoal(i) \in ThreadGoal
  <1>1. <<"none", 0>> \in Results \X Nat
    BY DEF Results
  <1>2. NoGoal \in ThreadGoal
    BY <1>1 DEF NoGoal, ThreadGoal
  <1>3. Nothing \in ThreadCheckpoint
    BY <1>2 DEF Nothing, ThreadCheckpoint
  <1>4. RunIdle \in GoalRun /\ RequestIdle \in GoalRequest
    BY <1>2, <1>3 DEF RunIdle, RequestIdle, GoalRun, GoalRequest, Results
  <1>5. \A i \in 1..MaxGoals : NewGoal(i) \in ThreadGoal
    BY <1>1 DEF NewGoal, NoGoal, ThreadGoal
  <1> QED BY <1>2, <1>3, <1>4, <1>5

\* A copy of the latest checkpoint, with another goal, or after a change.
LEMMA CopiedType ==
    ASSUME latest \in ThreadCheckpoint
    PROVE  /\ Copied \in ThreadCheckpoint
           /\ Copied.goal = latest.goal /\ Copied.talk = latest.talk
           /\ \A g \in ThreadGoal :
                /\ [Copied EXCEPT !.goal = g] \in ThreadCheckpoint
                /\ [Copied EXCEPT !.goal = g].goal = g
                /\ [Copied EXCEPT !.goal = g].talk = latest.talk
  BY DEF Copied, ThreadCheckpoint

\* A conversation that goes on keeps its goal and loses no change.
LEMMA AfterType ==
    ASSUME NEW x \in ThreadCheckpoint, changes \in 0..MaxChanges,
           NEW what, Happens(what)
    PROVE  /\ After(x, what) \in ThreadCheckpoint
           /\ After(x, what).goal = x.goal /\ x.talk \subseteq After(x, what).talk
           /\ changes' \in 0..MaxChanges
  <1>1. CASE Visible(what)
    <2>1. changes + 1 \in 1..MaxChanges /\ changes + 1 \in 0..MaxChanges /\ changes' = changes + 1
      BY <1>1 DEF Happens
    <2>2. PICK n \in 1..MaxChanges : n = changes + 1 /\ n \in 0..MaxChanges
      BY <2>1
    <2> QED BY <1>1, <2>1, <2>2 DEF After, ThreadCheckpoint
  <1>2. CASE ~Visible(what)
    BY <1>2 DEF Happens, After, ThreadCheckpoint, Visible
  <1> QED BY <1>1, <1>2

\* What follows an element.
LEMMA SuffixProperties ==
    ASSUME NEW S, NEW q \in Seq(S), NEW i \in 1..Len(q)
    PROVE  /\ SubSeq(q, i + 1, Len(q)) \in Seq(S) /\ Len(SubSeq(q, i + 1, Len(q))) = Len(q) - i
           /\ \A j \in 1..(Len(q) - i) : SubSeq(q, i + 1, Len(q))[j] = q[i + j]
  <1>1. \A j \in 1..(Len(q) - i) : SubSeq(q, i + 1, Len(q))[j] = q[j + i]
    OBVIOUS
  <1>2. \A j \in 1..(Len(q) - i) : j + i = i + j
    OBVIOUS
  <1> QED BY <1>1, <1>2

\* A put: nobody else's id begins to count, and the last one stays the last.
LEMMA PutProperties ==
    ASSUME drawn \in Seq(GoalRequests \cup {"run"}), NEW w, NEW copy, Put(w, copy),
           \A i, j \in 1..Len(drawn) : drawn[i] = drawn[j] => i = j
    PROVE  /\ drawn' \in Seq(GoalRequests \cup {"run"})
           /\ \A i, j \in 1..Len(drawn') : drawn'[i] = drawn'[j] => i = j
           /\ ~Counts(w)'
           /\ \A v : Counts(v)' => Counts(v)
           /\ latest' = IF Counts(w) THEN copy ELSE latest
           /\ \A v : v # w /\ IsLast(v) => IsLast(v)'
           /\ IsLast(w) => Counts(w) /\ drawn' = <<>>
  <1>0. Len(drawn) \in Nat /\ DOMAIN drawn = 1..Len(drawn)
    OBVIOUS
  <1>1. CASE Counts(w)
    <2> DEFINE i == CHOOSE i \in 1..Len(drawn) : drawn[i] = w
    <2>1. i \in 1..Len(drawn) /\ drawn[i] = w
      BY <1>1 DEF Counts
    <2>2. latest' = copy /\ drawn' = SubSeq(drawn, i + 1, Len(drawn))
      BY <1>1 DEF Put
    <2> HIDE DEF i
    <2>3. /\ drawn' \in Seq(GoalRequests \cup {"run"}) /\ Len(drawn') = Len(drawn) - i
          /\ \A j \in 1..Len(drawn') : drawn'[j] = drawn[i + j]
      <3>1. /\ drawn' \in Seq(GoalRequests \cup {"run"}) /\ Len(drawn') = Len(drawn) - i
            /\ \A j \in 1..(Len(drawn) - i) : drawn'[j] = drawn[i + j]
        BY <2>1, <2>2, SuffixProperties
      <3> QED BY <3>1
    <2>4. \A j \in 1..Len(drawn') : i + j \in 1..Len(drawn) /\ i + j # i
      BY <1>0, <2>1, <2>3
    <2>5. \A j, k \in 1..Len(drawn') : drawn'[j] = drawn'[k] => j = k
      <3> SUFFICES ASSUME NEW j \in 1..Len(drawn'), NEW k \in 1..Len(drawn'),
                          drawn'[j] = drawn'[k]
                   PROVE  j = k
        OBVIOUS
      <3>1. i + j = i + k
        BY <2>3, <2>4
      <3> QED BY <3>1, <2>1
    <2>6. ~Counts(w)' /\ \A v : Counts(v)' => Counts(v)
      BY <2>1, <2>3, <2>4 DEF Counts
    <2>7. ASSUME NEW v, v # w, IsLast(v) PROVE IsLast(v)'
      <3>1. Len(drawn) # i
        BY <2>1, <2>7 DEF IsLast
      <3>2. Len(drawn') \in 1..Len(drawn') /\ i + Len(drawn') = Len(drawn)
        BY <3>1, <2>1, <2>3, <1>0
      <3>3. drawn'[Len(drawn')] = v /\ drawn' # <<>>
        BY <3>2, <2>3, <2>7 DEF IsLast
      <3> QED BY <3>3 DEF IsLast
    <2>8. ASSUME IsLast(w) PROVE drawn' = <<>>
      <3>1. Len(drawn) \in 1..Len(drawn)
        BY <1>0, <2>1
      <3>2. Len(drawn) = i
        BY <2>1, <2>8, <3>1 DEF IsLast
      <3> QED BY <2>3, <3>2, EmptySeq
    <2> QED BY <1>1, <2>2, <2>3, <2>5, <2>6, <2>7, <2>8
  <1>2. CASE ~Counts(w)
    <2>1. UNCHANGED <<latest, drawn>>
      BY <1>2 DEF Put
    <2>2. ~IsLast(w)
      <3> SUFFICES ASSUME IsLast(w) PROVE FALSE
        OBVIOUS
      <3>1. Len(drawn) \in 1..Len(drawn)
        BY <1>0, EmptySeq DEF IsLast
      <3> QED BY <3>1, <1>2 DEF IsLast, Counts
    <2>3. \A v : Counts(v)' = Counts(v) /\ IsLast(v)' = IsLast(v)
      BY <2>1 DEF Counts, IsLast
    <2> QED BY <1>2, <2>1, <2>2, <2>3
  <1> QED BY <1>1, <1>2

\* An id drawn now is the last.
LEMMA AppendDrawn ==
    ASSUME drawn \in Seq(GoalRequests \cup {"run"}), NEW w \in GoalRequests \cup {"run"},
           drawn' = Append(drawn, w), ~Counts(w),
           \A i, j \in 1..Len(drawn) : drawn[i] = drawn[j] => i = j
    PROVE  /\ drawn' \in Seq(GoalRequests \cup {"run"})
           /\ \A i, j \in 1..Len(drawn') : drawn'[i] = drawn'[j] => i = j
           /\ Counts(w)' /\ IsLast(w)'
           /\ \A v : v # w => Counts(v)' = Counts(v)
  <1>1. /\ drawn' \in Seq(GoalRequests \cup {"run"}) /\ Len(drawn) \in Nat
        /\ Len(drawn') = Len(drawn) + 1 /\ drawn'[Len(drawn) + 1] = w
        /\ \A i \in 1..Len(drawn) : drawn'[i] = drawn[i]
    OBVIOUS
  <1>2. \A i \in 1..Len(drawn') : i \in 1..Len(drawn) \/ i = Len(drawn) + 1
    BY <1>1
  <1>3. \A i \in 1..Len(drawn) : i \in 1..Len(drawn') /\ drawn[i] # w
    BY <1>1 DEF Counts
  <1>4. Len(drawn') \in 1..Len(drawn') /\ drawn' # <<>>
    BY <1>1
  <1>5. \A i, j \in 1..Len(drawn') : drawn'[i] = drawn'[j] => i = j
    BY <1>1, <1>2, <1>3
  <1>6. Counts(w)' /\ IsLast(w)'
    BY <1>1, <1>4 DEF Counts, IsLast
  <1>7. \A v : v # w => Counts(v)' = Counts(v)
    BY <1>1, <1>2, <1>3 DEF Counts
  <1> QED BY <1>1, <1>5, <1>6, <1>7

\* The run's id is dropped.
LEMMA RunDropped ==
    ASSUME drawn \in Seq(GoalRequests \cup {"run"}), drawn' = RemoveFirst(drawn, "run"),
           \A i, j \in 1..Len(drawn) : drawn[i] = drawn[j] => i = j
    PROVE  /\ drawn' \in Seq(GoalRequests \cup {"run"})
           /\ \A i, j \in 1..Len(drawn') : drawn'[i] = drawn'[j] => i = j
           /\ ~Counts("run")'
           /\ \A v : Counts(v)' => Counts(v)
           /\ \A v : v # "run" /\ IsLast(v) => IsLast(v)'
  <1>0. Len(drawn) \in Nat /\ DOMAIN drawn = 1..Len(drawn)
    OBVIOUS
  <1>1. CASE Counts("run")
    <2> DEFINE I == {i \in 1..Len(drawn) : drawn[i] = "run"}
    <2>1. I \in SUBSET Nat /\ I # {}
      BY <1>0, <1>1 DEF Counts
    <2>2. PICK i \in 1..Len(drawn) : i = Min(I) /\ drawn[i] = "run"
      BY <2>1, MinProperties
    <2>3. drawn' = RemoveAt(drawn, i)
      BY <1>1, <2>2 DEF RemoveFirst, SelectInSeq, Counts
    <2>4. /\ drawn' \in Seq(GoalRequests \cup {"run"}) /\ Len(drawn') = Len(drawn) - 1
          /\ \A j \in 1..Len(drawn') : drawn'[j] = drawn[IF j < i THEN j ELSE j + 1]
      <3>1. /\ drawn' \in Seq(GoalRequests \cup {"run"}) /\ Len(drawn') = Len(drawn) - 1
            /\ \A j \in 1..(Len(drawn) - 1) : drawn'[j] = drawn[IF j < i THEN j ELSE j + 1]
        BY <2>3, RemoveAtProperties
      <3> QED BY <3>1
    <2> DEFINE f(j) == IF j < i THEN j ELSE j + 1
    <2>5. \A j \in 1..Len(drawn') : f(j) \in 1..Len(drawn) /\ f(j) # i
      BY <1>0, <2>2, <2>4
    <2>6. \A j, k \in 1..Len(drawn') : f(j) = f(k) => j = k
      BY <1>0, <2>2, <2>4
    <2>7. \A j, k \in 1..Len(drawn') : drawn'[j] = drawn'[k] => j = k
      BY <2>4, <2>5, <2>6, SMTT(30)
    <2>8. ~Counts("run")' /\ \A v : Counts(v)' => Counts(v)
      BY <2>2, <2>4, <2>5, ZenonT(40) DEF Counts
    <2>9. ASSUME NEW v, v # "run", IsLast(v) PROVE IsLast(v)'
      <3>1. Len(drawn) # i
        BY <2>2, <2>9 DEF IsLast
      <3>2. Len(drawn') \in 1..Len(drawn') /\ f(Len(drawn')) = Len(drawn)
        BY <3>1, <2>2, <2>4, <1>0
      <3>3. drawn'[Len(drawn')] = v /\ drawn' # <<>>
        BY <3>2, <2>4, <2>9 DEF IsLast
      <3> QED BY <3>3 DEF IsLast
    <2> QED BY <2>4, <2>7, <2>8, <2>9
  <1>2. CASE ~Counts("run")
    <2>1. drawn' = drawn
      BY <1>2 DEF RemoveFirst, Counts
    <2>2. \A v : Counts(v)' = Counts(v) /\ IsLast(v)' = IsLast(v)
      BY <2>1 DEF Counts, IsLast
    <2> QED BY <1>2, <2>1, <2>2
  <1> QED BY <1>1, <1>2

\* The fields of the run's and the requests' locals have their types.
LEMMA RunFields ==
    ASSUME GoalsTypeOK
    PROVE  /\ latest \in ThreadCheckpoint /\ latest.goal \in ThreadGoal
           /\ latest.talk \subseteq 1..MaxChanges /\ latest.reply \in 0..MaxChanges
           /\ grun.copy \in ThreadCheckpoint
           /\ grun.goal \in ThreadGoal /\ grun.current \in ThreadGoal
           /\ grun.calm \in BOOLEAN /\ grun.moved \in BOOLEAN /\ grun.talk \subseteq 1..MaxChanges
           /\ grun.reply \in 0..MaxChanges /\ grun.result \in Results /\ grun.stalled \in Nat
           /\ grun.step \in {"record", "clear", "continue", "retract"}
           /\ grun.goal.instance \in 0..MaxGoals /\ grun.goal.count \in Nat
           /\ grun.goal.stalled \in Nat
           /\ \A r \in GoalRequests :
                /\ greq[r] \in GoalRequest /\ greq[r].copy \in ThreadCheckpoint
                /\ greq[r].calm \in BOOLEAN
           /\ goals \in Nat /\ changes \in Nat /\ overrun \in Nat
           /\ barren.instance \in 0..MaxGoals /\ barren.reply \in 0..MaxChanges
           /\ barren.turns \in Nat
  <1>1. grun \in GoalRun /\ greq \in [GoalRequests -> GoalRequest] /\ latest \in ThreadCheckpoint
    BY DEF GoalsTypeOK
  <1>2. /\ grun.copy \in ThreadCheckpoint /\ grun.goal \in ThreadGoal /\ grun.current \in ThreadGoal
        /\ grun.calm \in BOOLEAN /\ grun.moved \in BOOLEAN /\ grun.talk \subseteq 1..MaxChanges
        /\ grun.reply \in 0..MaxChanges /\ grun.result \in Results /\ grun.stalled \in Nat
        /\ grun.step \in {"record", "clear", "continue", "retract"}
    BY <1>1 DEF GoalRun
  <1>3. grun.goal.instance \in 0..MaxGoals /\ grun.goal.count \in Nat /\ grun.goal.stalled \in Nat
    BY <1>2 DEF ThreadGoal
  <1>4. \A r \in GoalRequests :
          greq[r] \in GoalRequest /\ greq[r].copy \in ThreadCheckpoint /\ greq[r].calm \in BOOLEAN
    BY <1>1 DEF GoalRequest
  <1>5. /\ goals \in Nat /\ changes \in Nat /\ overrun \in Nat
        /\ barren.instance \in 0..MaxGoals /\ barren.reply \in 0..MaxChanges /\ barren.turns \in Nat
    BY DEF GoalsTypeOK
  <1> QED BY <1>1, <1>2, <1>3, <1>4, <1>5, CheckpointType

\* What others draw changes only who is calm.
LEMMA DisturbedType ==
    ASSUME GoalsTypeOK, NEW kind
    PROVE  /\ DisturbedRequests(kind) \in [GoalRequests -> GoalRequest]
           /\ \A r \in GoalRequests :
                /\ DisturbedRequests(kind)[r].pc = greq[r].pc
                /\ DisturbedRequests(kind)[r].kind = greq[r].kind
                /\ DisturbedRequests(kind)[r].copy = greq[r].copy
                /\ DisturbedRequests(kind)[r].calm =>
                     /\ greq[r].calm
                     /\ ~(greq[r].pc = "put" /\ "update" \in {kind, greq[r].kind})
  <1> SUFFICES ASSUME NEW r \in GoalRequests
               PROVE  /\ DisturbedRequests(kind)[r] \in GoalRequest
                      /\ DisturbedRequests(kind)[r].pc = greq[r].pc
                      /\ DisturbedRequests(kind)[r].kind = greq[r].kind
                      /\ DisturbedRequests(kind)[r].copy = greq[r].copy
                      /\ DisturbedRequests(kind)[r].calm =>
                           /\ greq[r].calm
                           /\ ~(greq[r].pc = "put" /\ "update" \in {kind, greq[r].kind})
    BY DEF DisturbedRequests
  <1>1. greq[r] \in GoalRequest
    BY RunFields
  <1>2. PICK calm \in BOOLEAN :
          calm = (greq[r].calm /\ ~(greq[r].pc = "put" /\ "update" \in {kind, greq[r].kind}))
    BY <1>1
  <1>3. DisturbedRequests(kind)[r] = [greq[r] EXCEPT !.calm = calm]
    BY <1>2 DEF DisturbedRequests
  <1> QED BY <1>1, <1>2, <1>3 DEF GoalRequest

\* Drawing a copy for a request: what becomes of requests and run.
LEMMA DrawProperties ==
    ASSUME GoalsTypeOK, NEW r \in GoalRequests, NEW copy \in ThreadCheckpoint,
           NEW kind \in {"set", "clear", "compact", "update"}, Draw(r, kind, copy)
    PROVE  /\ greq' \in [GoalRequests -> GoalRequest]
           /\ drawn' = Append(drawn, r)
           /\ greq'[r].pc = "put" /\ greq'[r].kind = kind /\ greq'[r].copy = copy
           /\ greq'[r].calm => ~InTurn /\ ~(kind = "update" /\ Compacting)
           /\ \A q \in GoalRequests \ {r} :
                /\ greq'[q].pc = greq[q].pc /\ greq'[q].kind = greq[q].kind
                /\ greq'[q].copy = greq[q].copy
                /\ greq'[q].calm =>
                     greq[q].calm /\ ~(greq[q].pc = "put" /\ "update" \in {kind, greq[q].kind})
           /\ \E calm \in BOOLEAN :
                grun' = [grun EXCEPT !.calm = calm] /\ (calm => grun.calm /\ ~DisturbsRun(kind))
  <1>1. PICK calm \in BOOLEAN : calm = (~InTurn /\ ~(kind = "update" /\ Compacting))
    OBVIOUS
  <1>2. [pc |-> "put", kind |-> kind, copy |-> copy, calm |-> calm] \in GoalRequest
    BY DEF GoalRequest
  <1>3. greq' = [DisturbedRequests(kind) EXCEPT ![r] =
                    [pc |-> "put", kind |-> kind, copy |-> copy, calm |-> calm]]
    BY <1>1 DEF Draw
  <1>4. /\ DisturbedRequests(kind) \in [GoalRequests -> GoalRequest]
        /\ \A q \in GoalRequests :
             /\ DisturbedRequests(kind)[q].pc = greq[q].pc
             /\ DisturbedRequests(kind)[q].kind = greq[q].kind
             /\ DisturbedRequests(kind)[q].copy = greq[q].copy
             /\ DisturbedRequests(kind)[q].calm =>
                  greq[q].calm /\ ~(greq[q].pc = "put" /\ "update" \in {kind, greq[q].kind})
    BY DisturbedType
  <1>5. /\ greq' \in [GoalRequests -> GoalRequest]
        /\ greq'[r].pc = "put" /\ greq'[r].kind = kind /\ greq'[r].copy = copy
        /\ greq'[r].calm => ~InTurn /\ ~(kind = "update" /\ Compacting)
    BY <1>1, <1>2, <1>3, <1>4
  <1>6. \A q \in GoalRequests \ {r} : greq'[q] = DisturbedRequests(kind)[q]
    BY <1>3, <1>4
  <1>7. PICK c \in BOOLEAN : c = (grun.calm /\ ~DisturbsRun(kind))
    OBVIOUS
  <1>8. grun' = [grun EXCEPT !.calm = c]
    BY <1>7 DEF Draw
  <1> QED BY <1>4, <1>5, <1>6, <1>7, <1>8 DEF Draw

\* The run's and the evaluator's steps keep the types.
LEMMA RunTypeStep ==
    ASSUME GoalsTypeOK, DrawnInv,
           \/ AdmitRun \/ LoadTurn \/ WriteTurn \/ LandTurn \/ AbortRun
    PROVE  GoalsTypeOK'
  <1>0. grun \in GoalRun /\ greq \in [GoalRequests -> GoalRequest]
    BY DEF GoalsTypeOK
  <1>c. RunIdle \in GoalRun
    BY ConstantTypes
  <1>f. latest \in ThreadCheckpoint /\ grun.copy \in ThreadCheckpoint
    BY RunFields
  <1>1. CASE AdmitRun
    <2>1. grun' \in GoalRun
      BY <1>1, <1>c DEF AdmitRun, GoalRun
    <2>2. runs' \in 0..MaxGoalRuns
      BY <1>1 DEF AdmitRun, GoalsTypeOK
    <2>3. barren' \in [instance : 0..MaxGoals, reply : 0..MaxChanges, turns : Nat]
      BY <1>1 DEF AdmitRun, GoalsTypeOK
    <2> QED BY <1>1, <2>1, <2>2, <2>3 DEF AdmitRun, GoalsTypeOK
  <1>2. CASE LoadTurn
    <2>1. grun' \in GoalRun
      BY <1>2, <1>c, <1>f DEF LoadTurn, GoalRun
    <2>2. ASSUME NEW r \in GoalRequests PROVE greq'[r] \in GoalRequest
      <3>1. PICK calm \in BOOLEAN : calm = (greq[r].calm /\ greq[r].pc # "put")
        BY RunFields
      <3>2. greq'[r] = [greq[r] EXCEPT !.calm = calm]
        BY <1>2, <3>1 DEF LoadTurn
      <3> QED BY <3>2, RunFields DEF GoalRequest
    <2>3. greq' \in [GoalRequests -> GoalRequest]
      BY <1>2, <2>2 DEF LoadTurn
    <2> QED BY <1>2, <2>1, <2>3 DEF LoadTurn, GoalsTypeOK, history
  <1>3. CASE WriteTurn
    <2>1. PICK what \in Happenings(grun.copy), pending \in BOOLEAN :
            /\ Happens(what)
            /\ grun' = [grun EXCEPT !.pc = "landing",
                            !.copy = [After(grun.copy, what) EXCEPT !.pending = pending]]
      BY <1>3 DEF WriteTurn
    <2>2. After(grun.copy, what) \in ThreadCheckpoint /\ changes' \in 0..MaxChanges
      BY <1>f, <2>1, AfterType DEF GoalsTypeOK
    <2>3. [After(grun.copy, what) EXCEPT !.pending = pending] \in ThreadCheckpoint
      BY <2>2 DEF ThreadCheckpoint
    <2>4. grun' \in GoalRun
      BY <1>0, <2>1, <2>3 DEF GoalRun
    <2>5. drawn' \in Seq(GoalRequests \cup {"run"})
      <3>1. drawn \in Seq(GoalRequests \cup {"run"}) /\ drawn' = Append(drawn, "run")
        BY <1>3 DEF WriteTurn, GoalsTypeOK
      <3> QED BY <3>1
    <2> QED BY <1>3, <2>2, <2>4, <2>5 DEF WriteTurn, GoalsTypeOK, history
  <1>4. CASE LandTurn
    <2>1. grun' \in GoalRun
      BY <1>4, <1>c DEF LandTurn, GoalRun
    <2>2. drawn' \in Seq(GoalRequests \cup {"run"}) /\ latest' \in ThreadCheckpoint
      BY <1>4, <1>f, PutProperties DEF LandTurn, GoalsTypeOK, DrawnInv
    <2>3. settled' \subseteq 1..MaxChanges
      BY <1>4, <1>f, CheckpointType DEF LandTurn, GoalsTypeOK
    <2> QED BY <1>4, <2>1, <2>2, <2>3 DEF LandTurn, GoalsTypeOK
  <1>5. CASE AbortRun
    <2>1. drawn' \in Seq(GoalRequests \cup {"run"}) /\ latest' \in ThreadCheckpoint
      <3>1. CASE latest' = latest /\ drawn' = RemoveFirst(drawn, "run")
        BY <3>1, <1>f, RunDropped DEF GoalsTypeOK, DrawnInv
      <3>2. CASE Put("run", grun.copy)
        BY <3>2, <1>f, PutProperties DEF GoalsTypeOK, DrawnInv
      <3> QED BY <1>5, <3>1, <3>2 DEF AbortRun
    <2>2. lock' \in GoalRequests \cup {"free", "run"}
      BY <1>5 DEF AbortRun, GoalsTypeOK
    <2> QED BY <1>5, <1>c, <2>1, <2>2 DEF AbortRun, GoalsTypeOK, history
  <1> QED BY <1>1, <1>2, <1>3, <1>4, <1>5

\* So do the evaluator's steps.
LEMMA EvaluatorTypeStep ==
    ASSUME GoalsTypeOK, DrawnInv,
           \/ ReadGoal \/ ReadReceipt \/ Evaluate \/ RereadGoal \/ RecheckThread
           \/ PersistGoal \/ WriteGoal \/ PutGoal \/ Verify
    PROVE  GoalsTypeOK'
  <1>0. grun \in GoalRun /\ greq \in [GoalRequests -> GoalRequest]
    BY DEF GoalsTypeOK
  <1>c. RunIdle \in GoalRun /\ Nothing \in ThreadCheckpoint /\ NoGoal \in ThreadGoal
    BY ConstantTypes
  <1>f. /\ latest \in ThreadCheckpoint /\ latest.goal \in ThreadGoal
        /\ latest.talk \subseteq 1..MaxChanges /\ latest.reply \in 0..MaxChanges
        /\ grun.copy \in ThreadCheckpoint /\ grun.goal \in ThreadGoal /\ grun.current \in ThreadGoal
        /\ grun.goal.count \in Nat /\ grun.goal.stalled \in Nat
        /\ grun.reply \in 0..MaxChanges /\ grun.result \in Results /\ grun.stalled \in Nat
        /\ grun.goal.instance \in 0..MaxGoals
    BY RunFields
  <1>s. \A result, reply : Stalled(result, reply) \in Nat
    BY <1>f DEF Stalled
  <1>q. ASSUME UNCHANGED <<latest, drawn, goals, changes, lock, runs, greq, history>>,
               grun' \in GoalRun
        PROVE  GoalsTypeOK'
    BY <1>q DEF GoalsTypeOK, history
  <1>1. CASE ReadGoal
    <2>1. grun' \in GoalRun
      <3>1. grun' = RunIdle \/ grun' = [grun EXCEPT !.pc = "checkpoint", !.goal = latest.goal]
        BY <1>1 DEF ReadGoal, StandDown
      <3>2. [grun EXCEPT !.pc = "checkpoint", !.goal = latest.goal] \in GoalRun
        BY <1>0, <1>f DEF GoalRun
      <3> QED BY <1>c, <3>1, <3>2
    <2> QED BY <1>1, <1>q, <2>1 DEF ReadGoal
  <1>2. CASE ReadReceipt
    <2>1. PICK s \in Nat : s = Stalled("run_failed", latest.reply)
      BY <1>s
    <2>2. "run_failed" \in Results
      BY DEF Results
    <2>3. grun' \in GoalRun
      BY <1>0, <1>2, <1>f, <2>1, <2>2 DEF ReadReceipt, GoalRun
    <2> QED BY <1>2, <1>q, <2>3 DEF ReadReceipt
  <1>3. CASE Evaluate
    <2>1. PICK result \in {"satisfied", "unmet", "blocked"} :
            grun' = [grun EXCEPT !.pc = "regoal", !.result = result,
                                 !.stalled = Stalled(result, grun.reply)]
      BY <1>3 DEF Evaluate
    <2>2. PICK s \in Nat : s = Stalled(result, grun.reply)
      BY <1>s
    <2>3. result \in Results
      BY DEF Results
    <2>4. grun' \in GoalRun
      BY <1>0, <2>1, <2>2, <2>3 DEF GoalRun
    <2> QED BY <1>3, <1>q, <2>4 DEF Evaluate
  <1>4. CASE RereadGoal
    <2>1. grun' \in GoalRun
      BY <1>0, <1>4, <1>f DEF RereadGoal, GoalRun
    <2> QED BY <1>4, <1>q, <2>1 DEF RereadGoal
  <1>5. CASE RecheckThread
    <2>1. CASE Matches(grun.current)
      <3>1. PICK step \in {"record", "clear", "continue"} :
              grun' = [grun EXCEPT !.pc = "persist", !.moved = TRUE, !.current = NoGoal,
                                   !.step = step]
        BY <1>5, <2>1 DEF RecheckThread
      <3> QED BY <1>0, <1>5, <1>c, <1>q, <3>1 DEF RecheckThread, GoalRun
    <2>2. CASE ~Matches(grun.current)
      BY <1>5, <1>c, <1>q, <2>2 DEF RecheckThread, StandDown
    <2> QED BY <2>1, <2>2
  <1>6. CASE PersistGoal
    <2>1. grun' \in GoalRun
      <3>1. \/ grun' = RunIdle
            \/ grun' = [grun EXCEPT !.pc = "reread", !.moved = FALSE, !.current = latest.goal]
        BY <1>6 DEF PersistGoal, StandDown
      <3>2. [grun EXCEPT !.pc = "reread", !.moved = FALSE, !.current = latest.goal] \in GoalRun
        BY <1>0, <1>f DEF GoalRun
      <3> QED BY <1>c, <3>1, <3>2
    <2>2. lock' \in GoalRequests \cup {"free", "run"}
      BY <1>6 DEF PersistGoal, GoalsTypeOK
    <2> QED BY <1>6, <2>1, <2>2 DEF PersistGoal, GoalsTypeOK, history
  <1>7. CASE WriteGoal
    <2>1. CASE ~grun.moved
      <3>1. Attach \in ThreadGoal
        <4>1. PICK n \in Nat : n = IF grun.step \in {"continue", "retract"}
                                   THEN grun.goal.count + 1 ELSE grun.current.count
          BY <1>f DEF ThreadGoal
        <4>2. Attach = [grun.current EXCEPT !.count = n, !.stalled = grun.stalled,
                                            !.key = <<grun.result, grun.reply>>]
          BY <4>1 DEF Attach
        <4>3. <<grun.result, grun.reply>> \in Results \X Nat
          BY <1>f
        <4> QED BY <1>f, <4>2, <4>3 DEF ThreadGoal
      <3>2. PICK g \in ThreadGoal : g = IF grun.step = "clear" THEN NoGoal ELSE Attach
        BY <1>c, <3>1
      <3>3. [Copied EXCEPT !.goal = g] \in ThreadCheckpoint
        BY <1>f, CopiedType
      <3>4. grun' = [grun EXCEPT !.pc = "put", !.copy = [Copied EXCEPT !.goal = g]]
        BY <1>7, <2>1, <3>2 DEF WriteGoal
      <3>5. grun' \in GoalRun
        BY <1>0, <3>3, <3>4 DEF GoalRun
      <3>6. drawn' \in Seq(GoalRequests \cup {"run"})
        <4>1. drawn \in Seq(GoalRequests \cup {"run"}) /\ drawn' = Append(drawn, "run")
          BY <1>7, <2>1 DEF WriteGoal, GoalsTypeOK
        <4> QED BY <4>1
      <3>7. greq' \in [GoalRequests -> GoalRequest]
        BY <1>7, <2>1, DisturbedType DEF WriteGoal
      <3> QED BY <1>7, <2>1, <3>5, <3>6, <3>7 DEF WriteGoal, GoalsTypeOK, history
    <2>2. CASE grun.moved
      BY <1>7, <1>c, <2>2 DEF WriteGoal, StandDown, GoalsTypeOK, history
    <2> QED BY <2>1, <2>2
  <1>8. CASE PutGoal
    <2>1. grun' \in GoalRun
      BY <1>0, <1>8, <1>c DEF PutGoal, GoalRun
    <2>2. drawn' \in Seq(GoalRequests \cup {"run"}) /\ latest' \in ThreadCheckpoint
      BY <1>8, <1>f, PutProperties DEF PutGoal, GoalsTypeOK, DrawnInv
    <2>3. overrun' \in Nat
      BY <1>8 DEF PutGoal, GoalsTypeOK
    <2> QED BY <1>8, <2>1, <2>2, <2>3 DEF PutGoal, GoalsTypeOK
  <1>9. CASE Verify
    <2>1. grun' \in GoalRun
      <3>1. \/ grun' = RunIdle \/ grun' = [RunIdle EXCEPT !.pc = "load"]
            \/ grun' = [grun EXCEPT !.pc = "persist", !.step = "retract"]
        BY <1>9 DEF Verify, StandDown
      <3>2. [RunIdle EXCEPT !.pc = "load"] \in GoalRun
        BY <1>c DEF GoalRun
      <3>3. [grun EXCEPT !.pc = "persist", !.step = "retract"] \in GoalRun
        BY <1>0 DEF GoalRun
      <3> QED BY <1>c, <3>1, <3>2, <3>3
    <2>2. continued' \in [1..MaxGoals -> Nat]
      BY <1>9, SMTT(30) DEF Verify, GoalsTypeOK
    <2>3. barren' \in [instance : 0..MaxGoals, reply : 0..MaxChanges, turns : Nat]
      <3>1. CASE UNCHANGED barren
        BY <3>1 DEF GoalsTypeOK
      <3>2. CASE ~UNCHANGED barren
        <4>1. PICK n \in Nat :
                n = IF barren.instance = grun.goal.instance /\ barren.reply = grun.reply
                    THEN barren.turns + 1 ELSE 1
          BY RunFields
        <4>2. barren' = [instance |-> grun.goal.instance, reply |-> grun.reply, turns |-> n]
          BY <1>9, <3>2, <4>1 DEF Verify
        <4> QED BY <1>f, <4>2
      <3> QED BY <3>1, <3>2
    <2> QED BY <1>9, <2>1, <2>2, <2>3 DEF Verify, GoalsTypeOK
  <1> QED BY <1>1, <1>2, <1>3, <1>4, <1>5, <1>6, <1>7, <1>8, <1>9

\* And those of the requests.
LEMMA RequestTypeStep ==
    ASSUME GoalsTypeOK, DrawnInv, NEW r \in GoalRequests,
           \/ SetGoal(r) \/ ClearGoal(r) \/ UpdateState(r)
           \/ CompactReads(r) \/ CompactNothing(r) \/ CompactDraws(r) \/ PutRequest(r)
    PROVE  GoalsTypeOK'
  <1>0. /\ grun \in GoalRun /\ greq \in [GoalRequests -> GoalRequest]
        /\ drawn \in Seq(GoalRequests \cup {"run"})
        /\ latest \in ThreadCheckpoint
        /\ greq[r].copy \in ThreadCheckpoint /\ greq[r] \in GoalRequest
    BY RunFields DEF GoalsTypeOK
  <1>c. /\ NoGoal \in ThreadGoal /\ RequestIdle \in GoalRequest
        /\ [RequestIdle EXCEPT !.pc = "done"] \in GoalRequest
    BY ConstantTypes DEF GoalRequest
  <1>d. ASSUME NEW kind \in {"set", "clear", "compact", "update"}, NEW copy \in ThreadCheckpoint,
               Draw(r, kind, copy)
        PROVE  /\ drawn' \in Seq(GoalRequests \cup {"run"})
               /\ grun' \in GoalRun /\ greq' \in [GoalRequests -> GoalRequest]
    <2>1. drawn' = Append(drawn, r) /\ greq' \in [GoalRequests -> GoalRequest]
      BY <1>d, DrawProperties
    <2>2. PICK calm \in BOOLEAN : grun' = [grun EXCEPT !.calm = calm]
      BY <1>d, DrawProperties
    <2>3. grun' \in GoalRun
      BY <1>0, <2>2 DEF GoalRun
    <2>4. drawn' \in Seq(GoalRequests \cup {"run"})
      BY <1>0, <2>1
    <2> QED BY <2>1, <2>3, <2>4
  <1>1. CASE SetGoal(r)
    <2>1. goals + 1 \in 1..MaxGoals /\ goals' \in 0..MaxGoals /\ lock' = r
      BY <1>1 DEF SetGoal, GoalsTypeOK
    <2>2. NewGoal(goals + 1) \in ThreadGoal
      BY <2>1, ConstantTypes
    <2>3. [Copied EXCEPT !.goal = NewGoal(goals + 1)] \in ThreadCheckpoint
      BY <1>0, <2>2, CopiedType
    <2>4. Draw(r, "set", [Copied EXCEPT !.goal = NewGoal(goals + 1)])
      BY <1>1 DEF SetGoal
    <2>5. /\ drawn' \in Seq(GoalRequests \cup {"run"})
          /\ grun' \in GoalRun /\ greq' \in [GoalRequests -> GoalRequest]
      BY <1>d, <2>3, <2>4
    <2> QED BY <1>1, <2>1, <2>5 DEF SetGoal, GoalsTypeOK, history
  <1>2. CASE ClearGoal(r)
    <2>1. [Copied EXCEPT !.goal = NoGoal] \in ThreadCheckpoint
      BY <1>0, <1>c, CopiedType
    <2>2. Draw(r, "clear", [Copied EXCEPT !.goal = NoGoal])
      BY <1>2 DEF ClearGoal
    <2>3. /\ drawn' \in Seq(GoalRequests \cup {"run"})
          /\ grun' \in GoalRun /\ greq' \in [GoalRequests -> GoalRequest]
      BY <1>d, <2>1, <2>2
    <2> QED BY <1>2, <2>3 DEF ClearGoal, GoalsTypeOK, history
  <1>3. CASE UpdateState(r)
    <2>1. PICK what \in Happenings(latest) : Happens(what) /\ Draw(r, "update", After(Copied, what))
      BY <1>3 DEF UpdateState
    <2>2. Copied \in ThreadCheckpoint /\ changes \in 0..MaxChanges
      BY <1>0, CopiedType DEF GoalsTypeOK
    <2>3. After(Copied, what) \in ThreadCheckpoint /\ changes' \in 0..MaxChanges
      BY <2>1, <2>2, AfterType
    <2>4. /\ drawn' \in Seq(GoalRequests \cup {"run"})
          /\ grun' \in GoalRun /\ greq' \in [GoalRequests -> GoalRequest]
      BY <1>d, <2>1, <2>3
    <2> QED BY <1>3, <2>3, <2>4 DEF UpdateState, GoalsTypeOK, history
  <1>4. CASE CompactReads(r)
    <2>1. DisturbedRequests("compact") \in [GoalRequests -> GoalRequest]
      BY DisturbedType
    <2>2. Copied \in ThreadCheckpoint
      BY <1>0, CopiedType
    <2>3. [RequestIdle EXCEPT !.pc = "summarise", !.kind = "compact", !.copy = Copied]
            \in GoalRequest
      BY <1>c, <2>2 DEF GoalRequest
    <2>4. greq' \in [GoalRequests -> GoalRequest]
      BY <1>4, <2>1, <2>3 DEF CompactReads
    <2> QED BY <1>4, <2>4 DEF CompactReads, GoalsTypeOK, history
  <1>5. CASE CompactNothing(r)
    <2>1. greq' \in [GoalRequests -> GoalRequest]
      BY <1>0, <1>5, <1>c DEF CompactNothing
    <2> QED BY <1>5, <2>1 DEF CompactNothing, GoalsTypeOK, history
  <1>6. CASE CompactDraws(r)
    <2>1. changes + 1 \in 1..MaxChanges /\ changes' \in 0..MaxChanges
      BY <1>6, SMTT(30) DEF CompactDraws, GoalsTypeOK
    <2>2. PICK copy \in ThreadCheckpoint :
            copy = [greq[r].copy EXCEPT !.talk = @ \cup {changes + 1}]
      <3>1. PICK n \in 1..MaxChanges : n = changes + 1
        BY <2>1
      <3> QED BY <1>0, <3>1 DEF ThreadCheckpoint
    <2>3. PICK D \in [GoalRequests -> GoalRequest] : D = DisturbedRequests("compact")
      BY DisturbedType
    <2>4. greq' = [D EXCEPT ![r].pc = "put", ![r].copy = copy]
      BY <1>6, <2>2, <2>3 DEF CompactDraws
    <2>5. greq' \in [GoalRequests -> GoalRequest]
      BY <2>4, ZenonT(40) DEF GoalRequest
    <2>6. drawn' \in Seq(GoalRequests \cup {"run"})
      BY <1>0, <1>6 DEF CompactDraws
    <2> QED BY <1>6, <2>1, <2>5, <2>6 DEF CompactDraws, GoalsTypeOK, history
  <1>7. CASE PutRequest(r)
    <2>1. drawn' \in Seq(GoalRequests \cup {"run"}) /\ latest' \in ThreadCheckpoint
      BY <1>0, <1>7, PutProperties DEF PutRequest, DrawnInv
    <2>2. grun' \in GoalRun
      <3>1. PICK moved \in BOOLEAN : moved = (grun.moved \/ Counts(r))
        BY RunFields DEF Counts
      <3>2. grun' = [grun EXCEPT !.moved = moved]
        BY <1>7, <3>1 DEF PutRequest
      <3> QED BY <1>0, <3>2 DEF GoalRun
    <2>3. greq' \in [GoalRequests -> GoalRequest]
      BY <1>0, <1>7, <1>c DEF PutRequest
    <2>4. settled' \subseteq 1..MaxChanges
      BY <1>0, <1>7, CheckpointType DEF PutRequest, GoalsTypeOK
    <2>5. retired' \subseteq 1..MaxGoals
      <3>1. 1..goals \subseteq 1..MaxGoals
        BY DEF GoalsTypeOK
      <3> QED BY <1>7, <3>1 DEF PutRequest, GoalsTypeOK
    <2>6. lock' \in GoalRequests \cup {"free", "run"}
      BY <1>7 DEF PutRequest, GoalsTypeOK
    <2> QED BY <1>7, <2>1, <2>2, <2>3, <2>4, <2>5, <2>6 DEF PutRequest, GoalsTypeOK
  <1> QED BY <1>1, <1>2, <1>3, <1>4, <1>5, <1>6, <1>7

\* Every step keeps the types.
LEMMA GoalsTypeStep ==
    ASSUME GoalsTypeOK, DrawnInv, GoalsNext PROVE GoalsTypeOK'
  BY RunTypeStep, EvaluatorTypeStep, RequestTypeStep DEF GoalsNext

-----------------------------------------------------------------------------
(* Ids, lock and calm. *)

Shape == GoalsTypeOK /\ DrawnInv /\ LockInv /\ CalmInv

\* A step of the run or the evaluator that neither draws nor puts.
LEMMA QuietShape ==
    ASSUME Shape, drawn' = drawn, greq' = greq,
           grun.pc \notin {"turn", "landing", "put"}, grun'.pc \notin {"turn", "landing", "put"},
           grun.pc = "idle" => lock = "free",
           \/ lock' = lock /\ grun'.pc # "reread"
           \/ lock = "free" /\ lock' = "run"
           \/ lock = "run" /\ lock' = "free" /\ grun'.pc # "reread"
    PROVE  DrawnInv' /\ LockInv' /\ CalmInv'
  <1>1. /\ \A v : Counts(v)' = Counts(v) /\ IsLast(v)' = IsLast(v)
        /\ Compacting' = Compacting /\ ~InTurn' /\ \A r \in GoalRequests : Holds(r)' = Holds(r)
    BY DEF Counts, IsLast, Compacting, InTurn, Holds
  <1>2. DrawnInv'
    BY <1>1 DEF Shape, DrawnInv
  <1>3. LockInv'
    BY <1>1 DEF Shape, LockInv
  <1>4. CalmInv'
    BY <1>1 DEF Shape, CalmInv
  <1> QED BY <1>2, <1>3, <1>4

\* Turns, which take no lock.
LEMMA RunShape ==
    ASSUME Shape, \/ AdmitRun \/ LoadTurn \/ WriteTurn \/ LandTurn \/ AbortRun
    PROVE  DrawnInv' /\ LockInv' /\ CalmInv'
  <1>0. /\ drawn \in Seq(GoalRequests \cup {"run"}) /\ grun \in GoalRun /\ RunIdle \in GoalRun
        /\ \A i, j \in 1..Len(drawn) : drawn[i] = drawn[j] => i = j
        /\ greq \in [GoalRequests -> GoalRequest]
    BY ConstantTypes DEF Shape, GoalsTypeOK, DrawnInv
  <1>1. CASE AdmitRun
    <2>1. grun'.pc = "load"
      BY <1>0, <1>1 DEF AdmitRun, GoalRun
    <2> QED BY <1>1, <2>1, QuietShape DEF AdmitRun
  <1>2. CASE LoadTurn
    <2>1. grun'.pc = "turn" /\ grun.pc = "load" /\ drawn' = drawn /\ lock' = lock
      BY <1>0, <1>2 DEF LoadTurn, GoalRun
    <2>2. \A r \in GoalRequests :
            /\ greq'[r].pc = greq[r].pc /\ greq'[r].kind = greq[r].kind
            /\ ~(greq'[r].pc = "put" /\ greq'[r].calm)
      <3> SUFFICES ASSUME NEW r \in GoalRequests
                   PROVE  /\ greq'[r].pc = greq[r].pc /\ greq'[r].kind = greq[r].kind
                          /\ ~(greq'[r].pc = "put" /\ greq'[r].calm)
        OBVIOUS
      <3>1. greq'[r] = [greq[r] EXCEPT !.calm = greq[r].calm /\ greq[r].pc # "put"]
        BY <1>2 DEF LoadTurn
      <3>2. greq[r] \in GoalRequest
        BY <1>0
      <3> QED BY <3>1, <3>2 DEF GoalRequest
    <2>3. /\ \A v : Counts(v)' = Counts(v) /\ IsLast(v)' = IsLast(v)
          /\ \A r \in GoalRequests : Holds(r)' = Holds(r)
      BY <2>1, <2>2 DEF Counts, IsLast, Holds
    <2>4. DrawnInv'
      BY <2>1, <2>2, <2>3 DEF Shape, DrawnInv
    <2>5. LockInv'
      BY <2>1, <2>2, <2>3 DEF Shape, LockInv
    <2>6. CalmInv'
      BY <2>1, <2>2 DEF CalmInv
    <2> QED BY <2>4, <2>5, <2>6
  <1>3. CASE WriteTurn
    <2>1. grun'.pc = "landing" /\ grun.pc = "turn" /\ UNCHANGED <<lock, greq>>
      BY <1>0, <1>3 DEF WriteTurn, GoalRun
    <2>2. ~Counts("run") /\ drawn' = Append(drawn, "run")
      BY <1>3, <2>1 DEF Shape, DrawnInv, WriteTurn
    <2>3. /\ \A i, j \in 1..Len(drawn') : drawn'[i] = drawn'[j] => i = j
          /\ IsLast("run")' /\ \A v : v # "run" => Counts(v)' = Counts(v)
      BY <1>0, <2>2, AppendDrawn
    <2>4. DrawnInv'
      BY <2>1, <2>3 DEF Shape, DrawnInv
    <2>5. LockInv'
      BY <2>1 DEF Shape, LockInv, Holds
    <2>6. InTurn /\ InTurn'
      BY <2>1 DEF InTurn
    <2>7. CalmInv'
      BY <2>1, <2>3, <2>6 DEF Shape, CalmInv
    <2> QED BY <2>4, <2>5, <2>7
  <1>4. CASE LandTurn
    <2>1. grun'.pc = "goal" /\ grun.pc = "landing" /\ UNCHANGED <<lock, greq>>
      BY <1>0, <1>4 DEF LandTurn, GoalRun
    <2>2. /\ \A i, j \in 1..Len(drawn') : drawn'[i] = drawn'[j] => i = j
          /\ ~Counts("run")' /\ \A v : Counts(v)' => Counts(v)
      BY <1>0, <1>4, PutProperties DEF LandTurn
    <2>3. DrawnInv'
      BY <2>1, <2>2 DEF Shape, DrawnInv
    <2>4. LockInv'
      BY <2>1 DEF Shape, LockInv, Holds
    <2>5. InTurn
      BY <2>1 DEF InTurn
    <2>6. CalmInv'
      BY <2>1, <2>5 DEF Shape, CalmInv
    <2> QED BY <2>3, <2>4, <2>6
  <1>5. CASE AbortRun
    <2>1. /\ grun'.pc = "idle" /\ greq' = greq
          /\ lock' = IF lock = "run" THEN "free" ELSE lock
      BY <1>5 DEF AbortRun, RunIdle
    <2>2. /\ \A i, j \in 1..Len(drawn') : drawn'[i] = drawn'[j] => i = j
          /\ ~Counts("run")' /\ \A v : Counts(v)' => Counts(v)
          /\ \A v : v # "run" /\ IsLast(v) => IsLast(v)'
      <3>1. CASE drawn' = RemoveFirst(drawn, "run")
        BY <1>0, <3>1, RunDropped
      <3>2. CASE Put("run", grun.copy)
        BY <1>0, <3>2, PutProperties
      <3> QED BY <1>5, <3>1, <3>2 DEF AbortRun
    <2>3. DrawnInv'
      BY <2>1, <2>2 DEF Shape, DrawnInv
    <2>4. LockInv'
      BY <2>1 DEF Shape, LockInv, Holds
    <2>5. Compacting' = Compacting /\ ~InTurn'
      BY <2>1 DEF Compacting, InTurn
    <2>6. CalmInv'
      BY <2>1, <2>2, <2>5 DEF Shape, CalmInv
    <2> QED BY <2>3, <2>4, <2>6
  <1> QED BY <1>1, <1>2, <1>3, <1>4, <1>5

\* Where the evaluator's steps lead.
LEMMA EvaluatorGoes ==
    ASSUME GoalsTypeOK
    PROVE  /\ ReadGoal => grun.pc = "goal" /\ grun'.pc \in {"idle", "checkpoint"}
           /\ ReadReceipt => grun.pc = "checkpoint" /\ grun'.pc \in {"evaluate", "persist"}
           /\ Evaluate => grun.pc = "evaluate" /\ grun'.pc = "regoal"
           /\ RereadGoal => \/ grun.pc = "regoal" /\ grun'.pc = "recheck"
                            \/ grun.pc = "verifyGoal" /\ grun'.pc = "verify"
           /\ RecheckThread => grun.pc = "recheck" /\ grun'.pc \in {"idle", "persist"}
           /\ PersistGoal => grun.pc = "persist" /\ grun'.pc \in {"idle", "reread"}
           /\ WriteGoal => grun.pc = "reread" /\ grun'.pc \in {"idle", "put"}
           /\ PutGoal => grun.pc = "put" /\ grun'.pc \in {"idle", "verifyGoal"}
           /\ Verify => grun.pc = "verify" /\ grun'.pc \in {"idle", "persist", "load"}
  <1>0. grun \in GoalRun /\ RunIdle.pc = "idle" /\ [RunIdle EXCEPT !.pc = "load"].pc = "load"
    BY DEF GoalsTypeOK, RunIdle
  <1>1. ReadGoal => grun.pc = "goal" /\ grun'.pc \in {"idle", "checkpoint"}
    BY <1>0 DEF ReadGoal, StandDown, GoalRun
  <1>2. ReadReceipt => grun.pc = "checkpoint" /\ grun'.pc \in {"evaluate", "persist"}
    BY <1>0 DEF ReadReceipt, GoalRun
  <1>3. Evaluate => grun.pc = "evaluate" /\ grun'.pc = "regoal"
    BY <1>0 DEF Evaluate, GoalRun
  <1>4. RereadGoal => \/ grun.pc = "regoal" /\ grun'.pc = "recheck"
                      \/ grun.pc = "verifyGoal" /\ grun'.pc = "verify"
    BY <1>0 DEF RereadGoal, GoalRun
  <1>5. RecheckThread => grun.pc = "recheck" /\ grun'.pc \in {"idle", "persist"}
    BY <1>0 DEF RecheckThread, StandDown, GoalRun
  <1>6. PersistGoal => grun.pc = "persist" /\ grun'.pc \in {"idle", "reread"}
    BY <1>0 DEF PersistGoal, StandDown, GoalRun
  <1>7. WriteGoal => grun.pc = "reread" /\ grun'.pc \in {"idle", "put"}
    BY <1>0 DEF WriteGoal, StandDown, GoalRun
  <1>8. PutGoal => grun.pc = "put" /\ grun'.pc \in {"idle", "verifyGoal"}
    BY <1>0 DEF PutGoal, GoalRun
  <1>9. Verify => grun.pc = "verify" /\ grun'.pc \in {"idle", "persist", "load"}
    BY <1>0 DEF Verify, StandDown, GoalRun
  <1> QED BY <1>1, <1>2, <1>3, <1>4, <1>5, <1>6, <1>7, <1>8, <1>9

\* The evaluator, which writes under the lock.
LEMMA EvaluatorShape ==
    ASSUME Shape,
           \/ ReadGoal \/ ReadReceipt \/ Evaluate \/ RereadGoal \/ RecheckThread
           \/ PersistGoal \/ WriteGoal \/ PutGoal \/ Verify
    PROVE  DrawnInv' /\ LockInv' /\ CalmInv'
  <1>0. /\ drawn \in Seq(GoalRequests \cup {"run"}) /\ GoalsTypeOK
        /\ \A i, j \in 1..Len(drawn) : drawn[i] = drawn[j] => i = j
        /\ greq \in [GoalRequests -> GoalRequest]
    BY DEF Shape, GoalsTypeOK, DrawnInv
  <1>1. CASE \/ ReadGoal \/ ReadReceipt \/ Evaluate \/ RereadGoal \/ RecheckThread \/ Verify
    <2>1. UNCHANGED <<drawn, greq, lock>>
      BY <1>1 DEF ReadGoal, ReadReceipt, Evaluate, RereadGoal, RecheckThread, Verify
    <2>2. /\ grun.pc \notin {"idle", "turn", "landing", "put"}
          /\ grun'.pc \notin {"turn", "landing", "put", "reread"}
      BY <1>0, <1>1, EvaluatorGoes
    <2> QED BY <2>1, <2>2, QuietShape
  <1>2. CASE PersistGoal
    <2>1. grun.pc = "persist" /\ grun'.pc \in {"idle", "reread"} /\ UNCHANGED <<drawn, greq>>
      BY <1>0, <1>2, EvaluatorGoes DEF PersistGoal
    <2>2. (lock' = lock /\ grun'.pc # "reread") \/ (lock = "free" /\ lock' = "run")
      BY <1>2 DEF PersistGoal, StandDown, RunIdle
    <2> QED BY <2>1, <2>2, QuietShape
  <1>3. CASE WriteGoal /\ grun.moved
    <2>1. grun.pc = "reread" /\ grun'.pc = "idle" /\ lock' = "free" /\ UNCHANGED <<drawn, greq>>
      BY <1>3 DEF WriteGoal, StandDown, RunIdle
    <2>2. lock = "run"
      BY <2>1 DEF Shape, LockInv
    <2> QED BY <2>1, <2>2, QuietShape
  <1>4. CASE WriteGoal /\ ~grun.moved
    <2>1. /\ grun.pc = "reread" /\ grun'.pc = "put" /\ UNCHANGED lock
          /\ drawn' = Append(drawn, "run")
          /\ greq' = DisturbedRequests("evaluator")
      BY <1>0, <1>4 DEF WriteGoal, GoalsTypeOK, GoalRun
    <2>2. lock = "run" /\ ~Counts("run") /\ lock' = "run" /\ \A r \in GoalRequests : ~Holds(r)
      BY <2>1 DEF Shape, LockInv, DrawnInv
    <2>3. /\ \A i, j \in 1..Len(drawn') : drawn'[i] = drawn'[j] => i = j
          /\ IsLast("run")' /\ \A v : v # "run" => Counts(v)' = Counts(v)
      BY <1>0, <2>1, <2>2, AppendDrawn
    <2>4. \A r \in GoalRequests :
            /\ greq'[r].pc = greq[r].pc /\ greq'[r].kind = greq[r].kind
            /\ greq'[r].calm => ~(greq[r].pc = "put" /\ greq[r].kind = "update")
      BY <1>0, <2>1, DisturbedType
    <2>5. \A r \in GoalRequests : ~Holds(r)' /\ ~(greq'[r].pc = "put" /\ greq'[r].calm)
      BY <2>2, <2>4 DEF Holds
    <2>6. DrawnInv'
      BY <2>1, <2>3, <2>4 DEF Shape, DrawnInv
    <2>7. LockInv'
      BY <2>1, <2>2, <2>4, <2>5 DEF Shape, LockInv
    <2>8. CalmInv'
      BY <2>1, <2>3, <2>5 DEF CalmInv
    <2> QED BY <2>6, <2>7, <2>8
  <1>5. CASE PutGoal
    <2>1. /\ grun.pc = "put" /\ grun'.pc \in {"idle", "verifyGoal"}
          /\ lock' = "free" /\ greq' = greq
      BY <1>0, <1>5, EvaluatorGoes DEF PutGoal
    <2>2. lock = "run" /\ \A r \in GoalRequests : ~Holds(r)
      BY <2>1 DEF Shape, LockInv
    <2>3. /\ \A i, j \in 1..Len(drawn') : drawn'[i] = drawn'[j] => i = j
          /\ ~Counts("run")' /\ \A v : Counts(v)' => Counts(v)
          /\ \A v : v # "run" /\ IsLast(v) => IsLast(v)'
      BY <1>0, <1>5, PutProperties DEF PutGoal
    <2>4. DrawnInv'
      BY <2>1, <2>3 DEF Shape, DrawnInv
    <2>5. \A r \in GoalRequests : ~Holds(r)'
      BY <2>1, <2>2 DEF Holds
    <2>6. LockInv'
      BY <2>1, <2>5 DEF Shape, LockInv
    <2>7. Compacting' = Compacting /\ ~InTurn'
      BY <2>1 DEF Compacting, InTurn
    <2>8. CalmInv'
      BY <2>1, <2>3, <2>7 DEF Shape, CalmInv
    <2> QED BY <2>4, <2>6, <2>8
  <1> QED BY <1>1, <1>2, <1>3, <1>4, <1>5

\* The requests.
LEMMA RequestShape ==
    ASSUME Shape, NEW r \in GoalRequests,
           \/ SetGoal(r) \/ ClearGoal(r) \/ UpdateState(r)
           \/ CompactReads(r) \/ CompactNothing(r) \/ CompactDraws(r) \/ PutRequest(r)
    PROVE  DrawnInv' /\ LockInv' /\ CalmInv'
  <1>0. /\ drawn \in Seq(GoalRequests \cup {"run"}) /\ GoalsTypeOK /\ latest \in ThreadCheckpoint
        /\ \A i, j \in 1..Len(drawn) : drawn[i] = drawn[j] => i = j
        /\ greq \in [GoalRequests -> GoalRequest] /\ grun \in GoalRun
        /\ r # "run" /\ r # "free"
    BY DEF Shape, GoalsTypeOK, DrawnInv
  <1>1. ASSUME NEW kind \in {"set", "clear", "update"}, NEW copy \in ThreadCheckpoint,
               Draw(r, kind, copy), greq[r].pc = "idle",
               \/ kind = "update" /\ lock' = lock
               \/ lock = "free" /\ lock' = r
        PROVE  DrawnInv' /\ LockInv' /\ CalmInv'
    <2>1. /\ drawn' = Append(drawn, r)
          /\ greq'[r].pc = "put" /\ greq'[r].kind = kind
          /\ greq'[r].calm => ~InTurn /\ ~(kind = "update" /\ Compacting)
          /\ \A q \in GoalRequests \ {r} :
               /\ greq'[q].pc = greq[q].pc /\ greq'[q].kind = greq[q].kind
               /\ greq'[q].calm =>
                    greq[q].calm /\ ~(greq[q].pc = "put" /\ "update" \in {kind, greq[q].kind})
      BY <1>0, <1>1, DrawProperties
    <2>2. PICK calm \in BOOLEAN :
            grun' = [grun EXCEPT !.calm = calm] /\ (calm => grun.calm /\ ~DisturbsRun(kind))
      BY <1>0, <1>1, DrawProperties
    <2>3. grun'.pc = grun.pc /\ grun'.calm = calm
      BY <1>0, <2>2 DEF GoalRun
    <2>4. ~Counts(r)
      BY <1>1 DEF Shape, DrawnInv
    <2>5. /\ \A i, j \in 1..Len(drawn') : drawn'[i] = drawn'[j] => i = j
          /\ IsLast(r)' /\ \A v : v # r => Counts(v)' = Counts(v)
      BY <1>0, <2>1, <2>4, AppendDrawn
    <2>6. lock = "free" => \A q \in GoalRequests : ~Holds(q)
      BY DEF Shape, LockInv
    <2>7. \A q \in GoalRequests \ {r} : Holds(q)' = Holds(q)
      BY <2>1 DEF Holds
    <2>8. Holds(r)' => kind # "update"
      BY <2>1 DEF Holds
    <2>9. Compacting' => Compacting
      BY <2>1 DEF Compacting
    <2>10. Compacting => lock # "free"
      BY <2>6 DEF Compacting, Holds, Shape, LockInv
    <2>11. DrawnInv'
      BY <1>0, <2>1, <2>3, <2>5 DEF Shape, DrawnInv
    <2>12. LockInv'
      <3>1. grun.pc \in {"reread", "put"} => lock' = "run"
        BY <1>1 DEF Shape, LockInv
      <3>2. ASSUME NEW q \in GoalRequests
            PROVE  /\ greq'[q].pc = "summarise" => greq'[q].kind = "compact"
                   /\ Holds(q)' => lock' = q
                   /\ Holds(q)' /\ greq'[q].kind = "compact" => grun'.pc = "idle"
        <4>1. CASE q = r
          BY <1>1, <2>1, <2>8, <4>1
        <4>2. CASE q # r
          <5>1. /\ greq'[q].pc = greq[q].pc /\ greq'[q].kind = greq[q].kind /\ Holds(q)' = Holds(q)
            BY <2>1, <2>7, <4>2
          <5>2. Holds(q) => lock # "free"
            BY <2>6
          <5>3. Holds(q) => lock' = lock
            BY <1>1, <5>2
          <5> QED BY <2>3, <5>1, <5>3 DEF Shape, LockInv
        <4> QED BY <4>1, <4>2
      <3> QED BY <2>3, <3>1, <3>2 DEF LockInv
    <2>13. CalmInv'
      <3>1. ASSUME NEW q \in GoalRequests \ {r}, greq'[q].pc = "put" PROVE ~greq'[q].calm
        <4>1. CASE kind = "update"
          BY <2>1, <3>1, <4>1
        <4>2. CASE lock = "free"
          <5>1. greq[q].kind = "update" \/ greq[q].pc # "put"
            BY <2>6, <4>2 DEF Holds
          <5> QED BY <2>1, <3>1, <5>1
        <4> QED BY <1>1, <4>1, <4>2
      <3>2. grun.pc \in {"landing", "put"} => ~calm
        <4>1. grun.pc = "landing" => DisturbsRun(kind)
          BY DEF DisturbsRun
        <4>2. grun.pc = "put" => kind = "update"
          BY <1>1 DEF Shape, LockInv
        <4>3. grun.pc = "put" => DisturbsRun(kind)
          BY <4>2 DEF DisturbsRun
        <4> QED BY <2>2, <4>1, <4>3
      <3>3. InTurn' = InTurn
        BY <2>3 DEF InTurn
      <3>4. greq'[r].calm => ~InTurn' /\ ~Compacting'
        BY <1>1, <2>1, <2>9, <2>10, <3>3
      <3> QED BY <2>3, <2>5, <3>1, <3>2, <3>4 DEF CalmInv
    <2> QED BY <2>11, <2>12, <2>13
  <1>2. CASE SetGoal(r)
    <2>1. goals + 1 \in 1..MaxGoals
      BY <1>0, <1>2, SMTT(30) DEF SetGoal, GoalsTypeOK
    <2>2. NewGoal(goals + 1) \in ThreadGoal
      BY <2>1, ConstantTypes
    <2>3. [Copied EXCEPT !.goal = NewGoal(goals + 1)] \in ThreadCheckpoint
      BY <1>0, <2>2, CopiedType
    <2> QED BY <1>1, <1>2, <2>3 DEF SetGoal
  <1>3. CASE ClearGoal(r)
    <2>1. [Copied EXCEPT !.goal = NoGoal] \in ThreadCheckpoint
      BY <1>0, ConstantTypes, CopiedType
    <2> QED BY <1>1, <1>3, <2>1 DEF ClearGoal
  <1>4. CASE UpdateState(r)
    <2>1. PICK what \in Happenings(latest) : Happens(what) /\ Draw(r, "update", After(Copied, what))
      BY <1>4 DEF UpdateState
    <2>2. Copied \in ThreadCheckpoint /\ changes \in 0..MaxChanges
      BY <1>0, CopiedType DEF GoalsTypeOK
    <2>3. After(Copied, what) \in ThreadCheckpoint
      BY <2>1, <2>2, AfterType
    <2> QED BY <1>1, <1>4, <2>1, <2>3 DEF UpdateState
  <1>5. CASE CompactReads(r)
    <2>0. /\ greq[r].pc = "idle" /\ lock = "free" /\ grun.pc = "idle" /\ lock' = r
          /\ UNCHANGED <<drawn, grun>>
          /\ greq' = [DisturbedRequests("compact") EXCEPT ![r] =
                [RequestIdle EXCEPT !.pc = "summarise", !.kind = "compact", !.copy = Copied]]
      BY <1>5 DEF CompactReads
    <2>1. /\ greq'[r].pc = "summarise" /\ greq'[r].kind = "compact"
          /\ \A q \in GoalRequests \ {r} : greq'[q] = DisturbedRequests("compact")[q]
      BY <2>0 DEF DisturbedRequests, RequestIdle
    <2>2. \A q \in GoalRequests \ {r} :
            /\ greq'[q].pc = greq[q].pc /\ greq'[q].kind = greq[q].kind
            /\ greq'[q].calm => greq[q].calm /\ ~(greq[q].pc = "put" /\ greq[q].kind = "update")
      BY <1>0, <2>1, DisturbedType
    <2>3. \A q \in GoalRequests : ~Holds(q)
      BY <2>0 DEF Shape, LockInv
    <2>4. \A q \in GoalRequests : ~(greq'[q].pc = "put" /\ greq'[q].calm)
      BY <2>1, <2>2, <2>3 DEF Holds
    <2>5. \A q \in GoalRequests \ {r} : ~Holds(q)'
      BY <2>2, <2>3 DEF Holds
    <2>6. \A v : Counts(v)' = Counts(v)
      BY <2>0 DEF Counts
    <2>7. DrawnInv'
      BY <2>0, <2>1, <2>2, <2>6 DEF Shape, DrawnInv
    <2>8. LockInv'
      <3>1. \A q \in GoalRequests \ {r} : greq'[q].pc = "summarise" => greq'[q].kind = "compact"
        BY <2>2 DEF Shape, LockInv
      <3> QED BY <2>0, <2>1, <2>5, <3>1 DEF LockInv
    <2>9. CalmInv'
      BY <2>0, <2>4 DEF CalmInv
    <2> QED BY <2>7, <2>8, <2>9
  <1>6. CASE CompactNothing(r)
    <2>1. /\ greq[r].pc = "summarise" /\ lock' = "free" /\ UNCHANGED <<drawn, grun>>
          /\ greq' = [greq EXCEPT ![r] = [RequestIdle EXCEPT !.pc = "done"]]
      BY <1>6 DEF CompactNothing
    <2>2. greq'[r].pc = "done" /\ \A q \in GoalRequests \ {r} : greq'[q] = greq[q]
      BY <1>0, <2>1 DEF RequestIdle
    <2>3. Compacting /\ lock = r
      BY <2>1 DEF Compacting, Shape, LockInv, Holds
    <2>4. \A q \in GoalRequests : ~Holds(q)'
      BY <2>2, <2>3 DEF Shape, LockInv, Holds
    <2>5. \A v : Counts(v)' = Counts(v)
      BY <2>1 DEF Counts
    <2>6. DrawnInv'
      BY <2>1, <2>2, <2>5 DEF Shape, DrawnInv
    <2>7. LockInv'
      <3>1. grun.pc \notin {"reread", "put"}
        BY <1>0, <2>3 DEF Shape, LockInv
      <3> QED BY <2>1, <2>2, <2>4, <3>1 DEF Shape, LockInv
    <2>8. CalmInv'
      <3>1. grun.pc \notin {"landing", "put"}
        BY <2>1, <2>3 DEF Shape, LockInv, Holds
      <3> QED BY <2>1, <2>2, <2>3, <3>1 DEF Shape, CalmInv
    <2> QED BY <2>6, <2>7, <2>8
  <1>7. CASE CompactDraws(r)
    <2>0. /\ greq[r].pc = "summarise" /\ drawn' = Append(drawn, r) /\ UNCHANGED <<lock, grun>>
          /\ greq' = [DisturbedRequests("compact") EXCEPT ![r].pc = "put",
                        ![r].copy = [greq[r].copy EXCEPT !.talk = @ \cup {changes + 1}]]
      BY <1>7 DEF CompactDraws
    <2>1. PICK D \in [GoalRequests -> GoalRequest] : D = DisturbedRequests("compact")
      BY <1>0, DisturbedType
    <2>2. /\ \A q \in GoalRequests : D[q].pc = greq[q].pc /\ D[q].kind = greq[q].kind
          /\ \A q \in GoalRequests : D[q].calm => greq[q].calm
      BY <1>0, <2>1, DisturbedType
    <2>3. /\ greq'[r].pc = "put" /\ greq'[r].kind = greq[r].kind
          /\ \A q \in GoalRequests \ {r} : greq'[q] = D[q]
      BY <2>0, <2>1, <2>2 DEF GoalRequest
    <2>4. greq[r].kind = "compact" /\ Compacting /\ Holds(r)
      BY <2>0 DEF Shape, LockInv, Compacting, Holds
    <2>5. lock = r /\ grun.pc = "idle"
      BY <2>4 DEF Shape, LockInv
    <2>6. \A q \in GoalRequests \ {r} : ~Holds(q)
      BY <2>5 DEF Shape, LockInv
    <2>7. ~Counts(r)
      BY <2>0 DEF Shape, DrawnInv
    <2>8. /\ \A i, j \in 1..Len(drawn') : drawn'[i] = drawn'[j] => i = j
          /\ IsLast(r)' /\ \A v : v # r => Counts(v)' = Counts(v)
      BY <1>0, <2>0, <2>7, AppendDrawn
    <2>9. \A q \in GoalRequests \ {r} : ~Holds(q)' /\ greq'[q].pc # "summarise"
      BY <2>2, <2>3, <2>6 DEF Holds, Shape, LockInv
    <2>10. DrawnInv'
      <3>1. \A q \in GoalRequests \ {r} : greq'[q].pc = greq[q].pc
        BY <2>2, <2>3
      <3>2. Counts("run")' = Counts("run") /\ \A q \in GoalRequests \ {r} : Counts(q)' = Counts(q)
        BY <1>0, <2>8
      <3> QED BY <2>0, <2>3, <2>8, <3>1, <3>2 DEF Shape, DrawnInv
    <2>11. LockInv'
      BY <2>0, <2>3, <2>4, <2>5, <2>9 DEF LockInv
    <2>12. CalmInv'
      <3>1. \A q \in GoalRequests \ {r} : ~(greq'[q].pc = "put" /\ greq'[q].calm)
        BY <2>2, <2>3, <2>4 DEF Shape, CalmInv
      <3>2. ~InTurn' /\ ~Compacting'
        BY <2>0, <2>3, <2>5, <2>9 DEF InTurn, Compacting
      <3> QED BY <2>0, <2>5, <2>8, <3>1, <3>2 DEF CalmInv
    <2> QED BY <2>10, <2>11, <2>12
  <1>8. CASE PutRequest(r)
    <2>1. /\ greq[r].pc = "put" /\ Put(r, greq[r].copy)
          /\ lock' = IF lock = r THEN "free" ELSE lock
          /\ greq' = [greq EXCEPT ![r] = [RequestIdle EXCEPT !.pc = "done"]]
      BY <1>8 DEF PutRequest
    <2>2. greq'[r].pc = "done" /\ \A q \in GoalRequests \ {r} : greq'[q] = greq[q]
      BY <1>0, <2>1 DEF RequestIdle
    <2>3. grun'.pc = grun.pc /\ grun'.calm = grun.calm
      BY <1>0, <1>8 DEF PutRequest, GoalRun
    <2>4. /\ \A i, j \in 1..Len(drawn') : drawn'[i] = drawn'[j] => i = j
          /\ ~Counts(r)' /\ \A v : Counts(v)' => Counts(v)
          /\ \A v : v # r /\ IsLast(v) => IsLast(v)'
      BY <1>0, <2>1, PutProperties
    <2>5. DrawnInv'
      BY <2>2, <2>3, <2>4 DEF Shape, DrawnInv
    <2>6. ~Holds(r)' /\ \A q \in GoalRequests \ {r} : Holds(q)' = Holds(q)
      BY <2>2 DEF Holds
    <2>7. LockInv'
      BY <1>0, <2>1, <2>2, <2>3, <2>6 DEF Shape, LockInv
    <2>8. InTurn' = InTurn /\ (Compacting' => Compacting)
      BY <2>2, <2>3 DEF InTurn, Compacting
    <2>9. CalmInv'
      BY <1>0, <2>2, <2>3, <2>4, <2>8 DEF Shape, CalmInv
    <2> QED BY <2>5, <2>7, <2>9
  <1> QED BY <1>2, <1>3, <1>4, <1>5, <1>6, <1>7, <1>8

\* Every step keeps types, ids, lock and calm.
LEMMA ShapeStep == ASSUME Shape, GoalsNext PROVE Shape'
  <1>1. GoalsTypeOK'
    BY GoalsTypeStep DEF Shape
  <1>2. DrawnInv' /\ LockInv' /\ CalmInv'
    BY RunShape, EvaluatorShape, RequestShape DEF GoalsNext
  <1> QED BY <1>1, <1>2 DEF Shape

-----------------------------------------------------------------------------
(* Where a checkpoint that may become the latest one comes from. *)

\* x has all messages of y, and its goal, or none, or one that is set now.
Derives(x, y) ==
    /\ y.talk \subseteq x.talk
    /\ x.goal \in {y.goal, NoGoal} \/ (x.goal = NewGoal(goals + 1) /\ goals' = goals + 1)

\* The members of Copies and Live, one by one.
LEMMA CopiesMembers ==
    /\ latest \in Copies
    /\ \A r \in GoalRequests : HasCopy(r) => greq[r].copy \in Copies
    /\ RunHasCopy => grun.copy \in Copies
    /\ Copies \subseteq Live
    /\ grun.pc = "put" /\ Counts("run") => grun.copy \in Live
    /\ \A x \in Copies : \/ x = latest \/ (RunHasCopy /\ x = grun.copy)
                         \/ \E r \in GoalRequests : HasCopy(r) /\ x = greq[r].copy
    /\ \A x \in Live : x \in Copies \/ (grun.pc = "put" /\ Counts("run") /\ x = grun.copy)
  BY DEF Copies, Live

\* To look at all copies after a step it is enough to look at each writer's.
LEMMA CopiesFrom ==
    ASSUME NEW S, \E y \in S : Derives(latest', y),
           \A q \in GoalRequests : HasCopy(q)' => \E y \in S : Derives(greq'[q].copy, y),
           RunHasCopy' => \E y \in S : Derives(grun'.copy, y)
    PROVE  \A x \in Copies' : \E y \in S : Derives(x, y)
  <1>1. \A x \in Copies' : \/ x = latest' \/ (RunHasCopy' /\ x = grun'.copy)
                           \/ \E r \in GoalRequests : HasCopy(r)' /\ x = greq'[r].copy
    BY DEF Copies
  <1> QED BY <1>1

\* A step of the run or the evaluator that puts and draws nothing.
LEMMA QuietCopies ==
    ASSUME latest' = latest, drawn' = drawn, greq' = greq, ~RunHasCopy'
    PROVE  \A x \in Copies' : \E y \in Copies : Derives(x, y)
  <1>1. \A q \in GoalRequests : HasCopy(q)' = HasCopy(q)
    BY DEF HasCopy, Counts
  <1>2. \A y : Derives(y, y)
    BY DEF Derives
  <1> QED BY <1>1, <1>2, CopiesMembers, CopiesFrom

\* The run's steps.
LEMMA RunCopies ==
    ASSUME Shape, \/ AdmitRun \/ LoadTurn \/ WriteTurn \/ LandTurn
    PROVE  \A x \in Copies' : \E y \in Copies : Derives(x, y)
  <1>0. /\ drawn \in Seq(GoalRequests \cup {"run"}) /\ grun \in GoalRun
        /\ \A i, j \in 1..Len(drawn) : drawn[i] = drawn[j] => i = j
        /\ greq \in [GoalRequests -> GoalRequest] /\ grun.copy \in ThreadCheckpoint
        /\ changes \in 0..MaxChanges
    BY RunFields DEF Shape, GoalsTypeOK, DrawnInv
  <1>d. \A y : Derives(y, y)
    BY DEF Derives
  <1>1. CASE AdmitRun
    <2>1. ~RunHasCopy'
      BY <1>1 DEF AdmitRun, RunHasCopy, RunIdle
    <2> QED BY <1>1, <2>1, QuietCopies DEF AdmitRun
  <1>2. CASE LoadTurn
    <2>1. latest' = latest /\ drawn' = drawn /\ grun'.copy = latest
      BY <1>2 DEF LoadTurn, RunIdle
    <2>2. \A r \in GoalRequests : greq'[r].pc = greq[r].pc /\ greq'[r].copy = greq[r].copy
      <3> SUFFICES ASSUME NEW r \in GoalRequests
                   PROVE  greq'[r].pc = greq[r].pc /\ greq'[r].copy = greq[r].copy
        OBVIOUS
      <3>1. greq'[r] = [greq[r] EXCEPT !.calm = greq[r].calm /\ greq[r].pc # "put"]
        BY <1>2 DEF LoadTurn
      <3>2. greq[r] \in GoalRequest
        BY <1>0
      <3> QED BY <3>1, <3>2 DEF GoalRequest
    <2>3. \A q \in GoalRequests : HasCopy(q)' = HasCopy(q)
      BY <2>1, <2>2 DEF HasCopy, Counts
    <2> QED BY <1>d, <2>1, <2>2, <2>3, CopiesMembers, CopiesFrom
  <1>3. CASE WriteTurn
    <2>1. PICK what \in Happenings(grun.copy), pending \in BOOLEAN :
            /\ Happens(what)
            /\ grun' = [grun EXCEPT !.pc = "landing",
                            !.copy = [After(grun.copy, what) EXCEPT !.pending = pending]]
      BY <1>3 DEF WriteTurn
    <2>2. /\ After(grun.copy, what) \in ThreadCheckpoint
          /\ After(grun.copy, what).goal = grun.copy.goal
          /\ grun.copy.talk \subseteq After(grun.copy, what).talk
      BY <1>0, <2>1, AfterType
    <2>3. grun'.copy = [After(grun.copy, what) EXCEPT !.pending = pending]
      BY <1>0, <2>1 DEF GoalRun
    <2>4. Derives(grun'.copy, grun.copy)
      BY <2>2, <2>3 DEF Derives, ThreadCheckpoint
    <2>5. RunHasCopy /\ latest' = latest /\ greq' = greq /\ ~Counts("run")
          /\ drawn' = Append(drawn, "run")
      BY <1>3 DEF WriteTurn, RunHasCopy, Shape, DrawnInv
    <2>6. \A v : v # "run" => Counts(v)' = Counts(v)
      BY <1>0, <2>5, AppendDrawn
    <2>7. \A q \in GoalRequests : HasCopy(q)' = HasCopy(q)
      BY <2>5, <2>6 DEF HasCopy
    <2> QED BY <1>d, <2>4, <2>5, <2>7, CopiesMembers, CopiesFrom
  <1>4. CASE LandTurn
    <2>1. /\ grun.pc = "landing" /\ greq' = greq /\ Put("run", grun.copy) /\ ~RunHasCopy'
      BY <1>4 DEF LandTurn, RunHasCopy, RunIdle
    <2>2. /\ \A v : Counts(v)' => Counts(v)
          /\ latest' = IF Counts("run") THEN grun.copy ELSE latest
      BY <1>0, <2>1, PutProperties
    <2>3. latest' \in Copies
      BY <2>1, <2>2, CopiesMembers DEF RunHasCopy
    <2>4. \A q \in GoalRequests : HasCopy(q)' => HasCopy(q)
      BY <2>1, <2>2 DEF HasCopy
    <2> QED BY <1>d, <2>1, <2>3, <2>4, CopiesMembers, CopiesFrom
  <1> QED BY <1>1, <1>2, <1>3, <1>4

\* A run that is cut off, and the evaluator's put, leave what was live.
LEMMA PutCopies ==
    ASSUME Shape, AbortRun \/ PutGoal
    PROVE  Live' \subseteq Live
  <1>0. /\ drawn \in Seq(GoalRequests \cup {"run"}) /\ grun \in GoalRun
        /\ \A i, j \in 1..Len(drawn) : drawn[i] = drawn[j] => i = j
    BY DEF Shape, GoalsTypeOK, DrawnInv
  <1>1. grun'.pc \in {"idle", "verifyGoal"} /\ greq' = greq
    <2>1. AbortRun => grun'.pc \in {"idle", "verifyGoal"}
      BY DEF AbortRun, RunIdle
    <2>2. PutGoal => grun'.pc \in {"idle", "verifyGoal"}
      BY EvaluatorGoes DEF Shape
    <2> QED BY <2>1, <2>2 DEF AbortRun, PutGoal
  <1>2. (\A v : Counts(v)' => Counts(v)) /\ latest' \in Live
    <2>1. CASE latest' = latest /\ drawn' = RemoveFirst(drawn, "run")
      BY <1>0, <2>1, RunDropped, CopiesMembers
    <2>2. CASE grun.pc \in {"landing", "put"} /\ Put("run", grun.copy)
      <3>1. /\ \A v : Counts(v)' => Counts(v)
            /\ latest' = IF Counts("run") THEN grun.copy ELSE latest
        BY <1>0, <2>2, PutProperties
      <3> QED BY <2>2, <3>1, CopiesMembers DEF RunHasCopy
    <2> QED BY <2>1, <2>2 DEF AbortRun, PutGoal
  <1>3. \A q \in GoalRequests : HasCopy(q)' => HasCopy(q)
    BY <1>1, <1>2 DEF HasCopy
  <1>4. \A x \in Live' : x = latest' \/ \E r \in GoalRequests : HasCopy(r)' /\ x = greq'[r].copy
    <2>1. ~RunHasCopy' /\ grun'.pc # "put"
      BY <1>1 DEF RunHasCopy
    <2> QED BY <2>1 DEF Live, Copies
  <1> QED BY <1>1, <1>2, <1>3, <1>4, CopiesMembers

\* The evaluator's steps up to its put.
LEMMA EvaluatorCopies ==
    ASSUME Shape,
           \/ ReadGoal \/ ReadReceipt \/ Evaluate \/ RereadGoal \/ RecheckThread
           \/ PersistGoal \/ WriteGoal \/ Verify
    PROVE  \A x \in Copies' : \E y \in Copies : Derives(x, y)
  <1>0. grun'.pc \notin {"turn", "landing"}
    BY EvaluatorGoes DEF Shape
  <1>1. ~RunHasCopy'
    BY <1>0 DEF RunHasCopy
  <1>2. CASE \/ ReadGoal \/ ReadReceipt \/ Evaluate \/ RereadGoal \/ RecheckThread
             \/ PersistGoal \/ Verify \/ (WriteGoal /\ grun.moved)
    <2>1. latest' = latest /\ drawn' = drawn /\ greq' = greq
      BY <1>2 DEF ReadGoal, ReadReceipt, Evaluate, RereadGoal, RecheckThread, PersistGoal,
                  Verify, WriteGoal
    <2> QED BY <1>1, <2>1, QuietCopies
  <1>3. CASE WriteGoal /\ ~grun.moved
    <2>1. /\ latest' = latest /\ drawn' = Append(drawn, "run") /\ grun.pc = "reread"
          /\ greq' = DisturbedRequests("evaluator")
      BY <1>3 DEF WriteGoal
    <2>2. ~Counts("run")
      BY <2>1 DEF Shape, DrawnInv
    <2>3. \A v : v # "run" => Counts(v)' = Counts(v)
      BY <2>1, <2>2, AppendDrawn DEF Shape, GoalsTypeOK, DrawnInv
    <2>4. \A q \in GoalRequests : greq'[q].pc = greq[q].pc /\ greq'[q].copy = greq[q].copy
      BY <2>1, DisturbedType DEF Shape
    <2>5. \A q \in GoalRequests : HasCopy(q)' = HasCopy(q)
      BY <2>3, <2>4 DEF HasCopy
    <2>6. \A y : Derives(y, y)
      BY DEF Derives
    <2> QED BY <1>1, <2>1, <2>4, <2>5, <2>6, CopiesMembers, CopiesFrom
  <1> QED BY <1>2, <1>3

\* The requests: the copy of the evaluator stays as it is.
LEMMA RequestCopies ==
    ASSUME Shape, NEW r \in GoalRequests,
           \/ SetGoal(r) \/ ClearGoal(r) \/ UpdateState(r)
           \/ CompactReads(r) \/ CompactNothing(r) \/ CompactDraws(r) \/ PutRequest(r)
    PROVE  /\ \A x \in Copies' : \E y \in Copies : Derives(x, y)
           /\ grun'.pc = grun.pc /\ grun'.copy = grun.copy
           /\ Counts("run")' => Counts("run")
  <1>0. /\ drawn \in Seq(GoalRequests \cup {"run"}) /\ GoalsTypeOK /\ latest \in ThreadCheckpoint
        /\ \A i, j \in 1..Len(drawn) : drawn[i] = drawn[j] => i = j
        /\ greq \in [GoalRequests -> GoalRequest] /\ grun \in GoalRun
        /\ r # "run" /\ r # "free"
    BY DEF Shape, GoalsTypeOK, DrawnInv
  <1>d. \A y : Derives(y, y)
    BY DEF Derives
  <1>1. ASSUME NEW kind \in {"set", "clear", "update"}, NEW copy \in ThreadCheckpoint,
               Draw(r, kind, copy), greq[r].pc = "idle", latest' = latest,
               Derives(copy, latest)
        PROVE  /\ \A x \in Copies' : \E y \in Copies : Derives(x, y)
               /\ grun'.pc = grun.pc /\ grun'.copy = grun.copy
               /\ Counts("run")' => Counts("run")
    <2>1. /\ drawn' = Append(drawn, r) /\ greq'[r].copy = copy
          /\ \A q \in GoalRequests \ {r} :
               greq'[q].pc = greq[q].pc /\ greq'[q].copy = greq[q].copy
      BY <1>0, <1>1, DrawProperties
    <2>2. PICK calm \in BOOLEAN : grun' = [grun EXCEPT !.calm = calm]
      BY <1>0, <1>1, DrawProperties
    <2>3. grun'.pc = grun.pc /\ grun'.copy = grun.copy
      BY <1>0, <2>2 DEF GoalRun
    <2>4. ~Counts(r)
      BY <1>1 DEF Shape, DrawnInv
    <2>5. \A v : v # r => Counts(v)' = Counts(v)
      BY <1>0, <2>1, <2>4, AppendDrawn
    <2>6. \A q \in GoalRequests \ {r} : HasCopy(q)' = HasCopy(q)
      BY <2>1, <2>5 DEF HasCopy
    <2>7. RunHasCopy' = RunHasCopy
      BY <1>0, <2>3, <2>5 DEF RunHasCopy
    <2>8. \A q \in GoalRequests : HasCopy(q)' => \E y \in Copies : Derives(greq'[q].copy, y)
      BY <1>1, <1>d, <2>1, <2>6, CopiesMembers
    <2>9. \E y \in Copies : Derives(latest', y)
      BY <1>1, <1>d, CopiesMembers
    <2>10. RunHasCopy' => \E y \in Copies : Derives(grun'.copy, y)
      BY <1>d, <2>3, <2>7, CopiesMembers
    <2>11. \A x \in Copies' : \E y \in Copies : Derives(x, y)
      BY <2>8, <2>9, <2>10, CopiesFrom
    <2> QED BY <1>0, <2>3, <2>5, <2>11
  <1>2. CASE SetGoal(r)
    <2>1. goals + 1 \in 1..MaxGoals
      BY <1>0, <1>2, SMTT(30) DEF SetGoal, GoalsTypeOK
    <2>2. PICK g \in ThreadGoal : g = NewGoal(goals + 1)
      BY <2>1, ConstantTypes
    <2>3. PICK copy \in ThreadCheckpoint :
            copy = [Copied EXCEPT !.goal = g] /\ copy.goal = g /\ copy.talk = latest.talk
      BY <1>0, CopiedType
    <2>4. Derives(copy, latest)
      BY <1>2, <2>2, <2>3 DEF Derives, SetGoal
    <2>5. Draw(r, "set", copy) /\ greq[r].pc = "idle" /\ latest' = latest
      BY <1>2, <2>2, <2>3 DEF SetGoal
    <2> QED BY <1>1, <2>4, <2>5
  <1>3. CASE ClearGoal(r)
    <2>1. PICK copy \in ThreadCheckpoint :
            copy = [Copied EXCEPT !.goal = NoGoal] /\ copy.goal = NoGoal /\ copy.talk = latest.talk
      BY <1>0, ConstantTypes, CopiedType
    <2>2. Derives(copy, latest)
      BY <2>1 DEF Derives
    <2>3. Draw(r, "clear", copy) /\ greq[r].pc = "idle" /\ latest' = latest
      BY <1>3, <2>1 DEF ClearGoal
    <2> QED BY <1>1, <2>2, <2>3
  <1>4. CASE UpdateState(r)
    <2>1. PICK what \in Happenings(latest) : Happens(what) /\ Draw(r, "update", After(Copied, what))
      BY <1>4 DEF UpdateState
    <2>2. /\ Copied \in ThreadCheckpoint /\ changes \in 0..MaxChanges
          /\ Copied.goal = latest.goal /\ Copied.talk = latest.talk
      BY <1>0, CopiedType DEF GoalsTypeOK
    <2>3. PICK copy \in ThreadCheckpoint :
            copy = After(Copied, what) /\ copy.goal = latest.goal /\ latest.talk \subseteq copy.talk
      BY <2>1, <2>2, AfterType
    <2>4. Derives(copy, latest)
      BY <2>3 DEF Derives
    <2>5. Draw(r, "update", copy) /\ greq[r].pc = "idle" /\ latest' = latest
      BY <1>4, <2>1, <2>3 DEF UpdateState
    <2> QED BY <1>1, <2>4, <2>5
  <1>5. CASE CompactReads(r)
    <2>0. /\ UNCHANGED <<latest, drawn, grun>>
          /\ greq' = [DisturbedRequests("compact") EXCEPT ![r] =
                [RequestIdle EXCEPT !.pc = "summarise", !.kind = "compact", !.copy = Copied]]
      BY <1>5 DEF CompactReads
    <2>1. /\ greq'[r].copy = Copied
          /\ \A q \in GoalRequests \ {r} : greq'[q] = DisturbedRequests("compact")[q]
      BY <2>0 DEF DisturbedRequests, RequestIdle
    <2>2. \A q \in GoalRequests \ {r} : greq'[q].pc = greq[q].pc /\ greq'[q].copy = greq[q].copy
      BY <1>0, <2>1, DisturbedType
    <2>3. Derives(Copied, latest)
      BY <1>0, CopiedType DEF Derives
    <2>4. (\A v : Counts(v)' = Counts(v)) /\ RunHasCopy' = RunHasCopy
      BY <2>0 DEF Counts, RunHasCopy
    <2>5. \A q \in GoalRequests \ {r} : HasCopy(q)' = HasCopy(q)
      BY <2>2, <2>4 DEF HasCopy
    <2>6. \A q \in GoalRequests : HasCopy(q)' => \E y \in Copies : Derives(greq'[q].copy, y)
      BY <1>d, <2>1, <2>2, <2>3, <2>5, CopiesMembers
    <2> QED BY <1>d, <2>0, <2>4, <2>6, CopiesMembers, CopiesFrom
  <1>6. CASE CompactNothing(r)
    <2>1. /\ UNCHANGED <<latest, drawn, grun>>
          /\ greq' = [greq EXCEPT ![r] = [RequestIdle EXCEPT !.pc = "done"]]
      BY <1>6 DEF CompactNothing
    <2>2. greq'[r].pc = "done" /\ \A q \in GoalRequests \ {r} : greq'[q] = greq[q]
      BY <1>0, <2>1 DEF RequestIdle
    <2>3. (\A v : Counts(v)' = Counts(v)) /\ RunHasCopy' = RunHasCopy
      BY <2>1 DEF Counts, RunHasCopy
    <2>4. ~HasCopy(r)' /\ \A q \in GoalRequests \ {r} : HasCopy(q)' = HasCopy(q)
      BY <2>2, <2>3 DEF HasCopy
    <2>5. \A q \in GoalRequests : HasCopy(q)' => \E y \in Copies : Derives(greq'[q].copy, y)
      BY <1>d, <2>2, <2>4, CopiesMembers
    <2> QED BY <1>d, <2>1, <2>3, <2>5, CopiesMembers, CopiesFrom
  <1>7. CASE CompactDraws(r)
    <2>0. /\ greq[r].pc = "summarise" /\ drawn' = Append(drawn, r) /\ UNCHANGED <<latest, grun>>
          /\ greq' = [DisturbedRequests("compact") EXCEPT ![r].pc = "put",
                        ![r].copy = [greq[r].copy EXCEPT !.talk = @ \cup {changes + 1}]]
      BY <1>7 DEF CompactDraws
    <2>1. PICK D \in [GoalRequests -> GoalRequest] : D = DisturbedRequests("compact")
      BY <1>0, DisturbedType
    <2>2. \A q \in GoalRequests : D[q].pc = greq[q].pc /\ D[q].copy = greq[q].copy
      BY <1>0, <2>1, DisturbedType
    <2>3. /\ greq'[r].copy = [greq[r].copy EXCEPT !.talk = @ \cup {changes + 1}]
          /\ \A q \in GoalRequests \ {r} : greq'[q] = D[q]
      BY <2>0, <2>1 DEF GoalRequest
    <2>4. greq[r].copy \in ThreadCheckpoint
      BY <1>0, RunFields
    <2>5. Derives(greq'[r].copy, greq[r].copy)
      BY <2>3, <2>4 DEF Derives, ThreadCheckpoint
    <2>6. ~Counts(r)
      BY <2>0 DEF Shape, DrawnInv
    <2>7. \A v : v # r => Counts(v)' = Counts(v)
      BY <1>0, <2>0, <2>6, AppendDrawn
    <2>8. HasCopy(r) /\ RunHasCopy' = RunHasCopy /\ Counts("run")' = Counts("run")
      BY <1>0, <2>0, <2>7 DEF HasCopy, RunHasCopy
    <2>9. \A q \in GoalRequests \ {r} : HasCopy(q)' = HasCopy(q)
      BY <2>2, <2>3, <2>7 DEF HasCopy
    <2>10. \A q \in GoalRequests : HasCopy(q)' => \E y \in Copies : Derives(greq'[q].copy, y)
      BY <1>d, <2>2, <2>3, <2>5, <2>8, <2>9, CopiesMembers
    <2> QED BY <1>d, <2>0, <2>8, <2>10, CopiesMembers, CopiesFrom
  <1>8. CASE PutRequest(r)
    <2>1. /\ greq[r].pc = "put" /\ Put(r, greq[r].copy)
          /\ greq' = [greq EXCEPT ![r] = [RequestIdle EXCEPT !.pc = "done"]]
      BY <1>8 DEF PutRequest
    <2>2. greq'[r].pc = "done" /\ \A q \in GoalRequests \ {r} : greq'[q] = greq[q]
      BY <1>0, <2>1 DEF RequestIdle
    <2>3. grun'.pc = grun.pc /\ grun'.copy = grun.copy
      BY <1>0, <1>8 DEF PutRequest, GoalRun
    <2>4. /\ \A v : Counts(v)' => Counts(v)
          /\ latest' = IF Counts(r) THEN greq[r].copy ELSE latest
      BY <1>0, <2>1, PutProperties
    <2>5. latest' \in Copies
      BY <2>1, <2>4, CopiesMembers DEF HasCopy
    <2>6. ~HasCopy(r)' /\ \A q \in GoalRequests \ {r} : HasCopy(q)' => HasCopy(q)
      BY <2>2, <2>4 DEF HasCopy
    <2>7. RunHasCopy' => RunHasCopy
      BY <2>3, <2>4 DEF RunHasCopy
    <2>8. \A q \in GoalRequests : HasCopy(q)' => \E y \in Copies : Derives(greq'[q].copy, y)
      BY <1>d, <2>2, <2>6, CopiesMembers
    <2> QED BY <1>d, <2>3, <2>4, <2>5, <2>7, <2>8, CopiesMembers, CopiesFrom
  <1> QED BY <1>2, <1>3, <1>4, <1>5, <1>6, <1>7, <1>8

\* What may become the latest checkpoint comes from what might have before.
LEMMA CopiesDerived ==
    ASSUME Shape, GoalsNext, ~AbortRun, ~PutGoal
    PROVE  \A x \in Copies' : \E y \in Copies : Derives(x, y)
  BY RunCopies, EvaluatorCopies, RequestCopies DEF GoalsNext

\* The same with the evaluator's copy, once it is made.
LEMMA LiveDerived ==
    ASSUME Shape, GoalsNext, ~(WriteGoal /\ ~grun.moved)
    PROVE  \A x \in Live' : \E y \in Live : Derives(x, y)
  <1>d. \A y : Derives(y, y)
    BY DEF Derives
  <1>1. CASE AbortRun \/ PutGoal
    BY <1>1, <1>d, PutCopies
  <1>2. CASE ~AbortRun /\ ~PutGoal /\ grun'.pc # "put"
    <2>1. Live' \subseteq Copies'
      BY <1>2 DEF Live
    <2> QED BY <1>2, <2>1, CopiesDerived, CopiesMembers
  <1>3. CASE \E r \in GoalRequests :
               \/ SetGoal(r) \/ ClearGoal(r) \/ UpdateState(r)
               \/ CompactReads(r) \/ CompactNothing(r) \/ CompactDraws(r) \/ PutRequest(r)
    <2>1. /\ \A x \in Copies' : \E y \in Copies : Derives(x, y)
          /\ grun'.pc = grun.pc /\ grun'.copy = grun.copy
          /\ Counts("run")' => Counts("run")
      BY <1>3, RequestCopies
    <2>2. \A x \in Live' : x \in Copies' \/ (grun'.pc = "put" /\ Counts("run")' /\ x = grun'.copy)
      BY DEF Live
    <2> QED BY <1>d, <2>1, <2>2, CopiesMembers
  <1>4. CASE AdmitRun \/ LoadTurn \/ WriteTurn \/ LandTurn
    <2>1. grun'.pc # "put"
      BY <1>4 DEF AdmitRun, LoadTurn, WriteTurn, LandTurn, RunIdle, Shape, GoalsTypeOK, GoalRun
    <2>2. (~AbortRun /\ ~PutGoal) \/ AbortRun \/ PutGoal
      OBVIOUS
    <2> QED BY <1>1, <1>2, <2>1, <2>2
  <1>5. CASE \/ ReadGoal \/ ReadReceipt \/ Evaluate \/ RereadGoal \/ RecheckThread
             \/ PersistGoal \/ WriteGoal \/ Verify
    <2>1. grun'.pc # "put"
      <3>1. CASE WriteGoal
        BY <3>1 DEF WriteGoal, StandDown, RunIdle
      <3> QED BY <1>5, <3>1, EvaluatorGoes DEF Shape
    <2>2. (~AbortRun /\ ~PutGoal) \/ AbortRun \/ PutGoal
      OBVIOUS
    <2> QED BY <1>1, <1>2, <2>1, <2>2
  <1> QED BY <1>1, <1>3, <1>4, <1>5 DEF GoalsNext

\* After an undisturbed put nothing else may become the latest checkpoint.
LEMMA CalmRunPut ==
    ASSUME Shape, LandTurn \/ PutGoal, grun.calm
    PROVE  Counts("run") /\ latest' = grun.copy /\ Live' = {latest'}
  <1>0. /\ drawn \in Seq(GoalRequests \cup {"run"}) /\ greq' = greq /\ Put("run", grun.copy)
        /\ \A i, j \in 1..Len(drawn) : drawn[i] = drawn[j] => i = j
        /\ grun.pc \in {"landing", "put"}
    BY DEF Shape, GoalsTypeOK, DrawnInv, LandTurn, PutGoal
  <1>1. IsLast("run")
    BY <1>0 DEF Shape, CalmInv
  <1>2. Counts("run") /\ drawn' = <<>> /\ latest' = grun.copy
    BY <1>0, <1>1, PutProperties
  <1>3. \A r \in GoalRequests : greq[r].pc # "summarise"
    BY <1>0 DEF Shape, LockInv, Holds
  <1>4. \A v : ~Counts(v)'
    BY <1>2 DEF Counts
  <1>5. grun'.pc \notin {"turn", "landing", "put"}
    <2>1. LandTurn => grun'.pc = "goal"
      BY DEF LandTurn, RunIdle
    <2>2. PutGoal => grun'.pc \in {"idle", "verifyGoal"}
      BY EvaluatorGoes DEF Shape
    <2> QED BY <2>1, <2>2
  <1>6. ~RunHasCopy' /\ \A r \in GoalRequests : ~HasCopy(r)'
    BY <1>0, <1>3, <1>4, <1>5 DEF RunHasCopy, HasCopy
  <1>7. Live' = {latest'}
    BY <1>5, <1>6 DEF Live, Copies
  <1> QED BY <1>2, <1>7

\* The same for an undisturbed request.
LEMMA CalmRequestPut ==
    ASSUME Shape, NEW r \in GoalRequests, PutRequest(r), greq[r].calm
    PROVE  Counts(r) /\ latest' = greq[r].copy /\ Live' = {latest'}
  <1>0. /\ drawn \in Seq(GoalRequests \cup {"run"}) /\ Put(r, greq[r].copy)
        /\ \A i, j \in 1..Len(drawn) : drawn[i] = drawn[j] => i = j
        /\ greq[r].pc = "put" /\ greq' = [greq EXCEPT ![r] = [RequestIdle EXCEPT !.pc = "done"]]
        /\ greq \in [GoalRequests -> GoalRequest] /\ grun \in GoalRun
    BY DEF Shape, GoalsTypeOK, DrawnInv, PutRequest
  <1>1. IsLast(r) /\ ~InTurn /\ ~Compacting
    BY <1>0 DEF Shape, CalmInv
  <1>2. Counts(r) /\ drawn' = <<>> /\ latest' = greq[r].copy
    BY <1>0, <1>1, PutProperties
  <1>3. \A q \in GoalRequests : greq'[q].pc # "summarise"
    BY <1>0, <1>1 DEF Compacting, RequestIdle
  <1>4. \A v : ~Counts(v)'
    BY <1>2 DEF Counts
  <1>5. grun'.pc = grun.pc /\ grun.pc \notin {"turn", "landing"}
    BY <1>0, <1>1 DEF PutRequest, GoalRun, InTurn
  <1>6. ~RunHasCopy' /\ \A q \in GoalRequests : ~HasCopy(q)'
    BY <1>3, <1>4, <1>5 DEF RunHasCopy, HasCopy
  <1>7. Live' = {latest'}
    BY <1>4, <1>6 DEF Live, Copies
  <1> QED BY <1>2, <1>7

\* What the evaluator is about to put.
LEMMA WrittenCopy ==
    ASSUME GoalsTypeOK, WriteGoal, ~grun.moved
    PROVE  /\ grun'.copy.talk = latest.talk
           /\ grun'.copy.goal = IF grun.step = "clear" THEN NoGoal ELSE Attach
           /\ Attach.instance = grun.current.instance
           /\ Attach.count = IF grun.step \in {"continue", "retract"} THEN grun.goal.count + 1
                             ELSE grun.current.count
           /\ Attach = [instance |-> grun.current.instance, count |-> Attach.count,
                        stalled |-> grun.stalled, key |-> <<grun.result, grun.reply>>]
           /\ grun'.pc = "put" /\ grun'.goal = grun.goal /\ grun'.step = grun.step
           /\ grun'.result = grun.result /\ grun'.reply = grun.reply /\ grun'.stalled = grun.stalled
           /\ grun'.calm = grun.calm
  <1>0. /\ grun \in GoalRun /\ latest \in ThreadCheckpoint /\ grun.current \in ThreadGoal
        /\ grun.goal.count \in Nat
    BY RunFields DEF GoalsTypeOK
  <1>1. PICK n \in Nat : n = IF grun.step \in {"continue", "retract"}
                             THEN grun.goal.count + 1 ELSE grun.current.count
    BY <1>0 DEF ThreadGoal
  <1>2. Attach = [grun.current EXCEPT !.count = n, !.stalled = grun.stalled,
                                      !.key = <<grun.result, grun.reply>>]
    BY <1>1 DEF Attach
  <1>3. /\ Attach.instance = grun.current.instance /\ Attach.count = n
        /\ Attach = [instance |-> grun.current.instance, count |-> Attach.count,
                     stalled |-> grun.stalled, key |-> <<grun.result, grun.reply>>]
    BY <1>0, <1>2 DEF ThreadGoal
  <1>4. PICK g : g = IF grun.step = "clear" THEN NoGoal ELSE Attach
    OBVIOUS
  <1>5. grun' = [grun EXCEPT !.pc = "put", !.copy = [Copied EXCEPT !.goal = g]]
    BY <1>4 DEF WriteGoal
  <1>6. [Copied EXCEPT !.goal = g].talk = latest.talk /\ [Copied EXCEPT !.goal = g].goal = g
    BY <1>0 DEF Copied, ThreadCheckpoint
  <1>7. /\ grun'.copy = [Copied EXCEPT !.goal = g] /\ grun'.pc = "put"
        /\ grun'.goal = grun.goal /\ grun'.step = grun.step
        /\ grun'.result = grun.result /\ grun'.reply = grun.reply /\ grun'.stalled = grun.stalled
        /\ grun'.calm = grun.calm
    BY <1>0, <1>5 DEF GoalRun
  <1> QED BY <1>1, <1>3, <1>4, <1>6, <1>7

\* How the run moves while the graph works, with nothing decided by the evaluator.
LEMMA RunGoes ==
    ASSUME GoalsTypeOK
    PROVE  /\ AdmitRun => grun.pc = "idle" /\ grun'.pc = "load" /\ grun'.step = "record"
           /\ LoadTurn => grun.pc = "load" /\ grun'.pc = "turn" /\ grun'.step = "record"
           /\ WriteTurn => grun.pc = "turn" /\ grun'.pc = "landing" /\ grun'.step = grun.step
           /\ LandTurn => grun.pc = "landing" /\ grun'.pc = "goal" /\ grun'.step = "record"
           /\ AbortRun => grun'.pc = "idle" /\ grun'.step = "record"
  <1>0. grun \in GoalRun
    BY DEF GoalsTypeOK
  <1>1. AdmitRun => grun.pc = "idle" /\ grun'.pc = "load" /\ grun'.step = "record"
    BY DEF AdmitRun, RunIdle
  <1>2. LoadTurn => grun.pc = "load" /\ grun'.pc = "turn" /\ grun'.step = "record"
    BY DEF LoadTurn, RunIdle
  <1>3. ASSUME WriteTurn
        PROVE  grun.pc = "turn" /\ grun'.pc = "landing" /\ grun'.step = grun.step
    <2>1. PICK copy : grun' = [grun EXCEPT !.pc = "landing", !.copy = copy]
      BY <1>3 DEF WriteTurn
    <2> QED BY <1>0, <1>3, <2>1 DEF WriteTurn, GoalRun
  <1>4. LandTurn => grun.pc = "landing" /\ grun'.pc = "goal" /\ grun'.step = "record"
    BY DEF LandTurn, RunIdle
  <1>5. AbortRun => grun'.pc = "idle" /\ grun'.step = "record"
    BY DEF AbortRun, RunIdle
  <1> QED BY <1>1, <1>2, <1>3, <1>4, <1>5

\* A request leaves the evaluator's locals alone; when it puts a checkpoint that
\* counts, the one the evaluator has read is not the latest any more.
LEMMA RequestRun ==
    ASSUME GoalsTypeOK, DrawnInv, NEW r \in GoalRequests,
           \/ SetGoal(r) \/ ClearGoal(r) \/ UpdateState(r)
           \/ CompactReads(r) \/ CompactNothing(r) \/ CompactDraws(r) \/ PutRequest(r)
    PROVE  /\ grun'.pc = grun.pc /\ grun'.copy = grun.copy /\ grun'.goal = grun.goal
           /\ grun'.current = grun.current /\ grun'.reply = grun.reply
           /\ grun'.result = grun.result /\ grun'.stalled = grun.stalled /\ grun'.step = grun.step
           /\ ~grun'.moved => ~grun.moved /\ latest' = latest
           /\ UNCHANGED <<continued, barren, overrun>>
  <1>0. grun \in GoalRun /\ grun.moved \in BOOLEAN /\ greq[r].copy \in ThreadCheckpoint
    BY RunFields DEF GoalsTypeOK
  <1>1. CASE SetGoal(r) \/ ClearGoal(r) \/ UpdateState(r)
    <2>1. PICK calm : grun' = [grun EXCEPT !.calm = calm]
      BY <1>1 DEF SetGoal, ClearGoal, UpdateState, Draw
    <2> QED BY <1>0, <1>1, <2>1 DEF SetGoal, ClearGoal, UpdateState, GoalRun, history
  <1>2. CASE CompactReads(r) \/ CompactNothing(r) \/ CompactDraws(r)
    BY <1>2 DEF CompactReads, CompactNothing, CompactDraws, history
  <1>3. CASE PutRequest(r)
    <2>1. PICK moved \in BOOLEAN : moved = (grun.moved \/ Counts(r))
      BY <1>0 DEF Counts
    <2>2. grun' = [grun EXCEPT !.moved = moved] /\ UNCHANGED <<continued, barren, overrun>>
      BY <1>3, <2>1 DEF PutRequest
    <2>3. ~Counts(r) => latest' = latest
      BY <1>3 DEF PutRequest, Put
    <2> QED BY <1>0, <2>1, <2>2, <2>3 DEF GoalRun
  <1> QED BY <1>1, <1>2, <1>3

\* Goals are only added.
LEMMA GoalsGrow ==
    ASSUME GoalsTypeOK, GoalsNext
    PROVE  goals \in Nat /\ goals' \in Nat /\ goals <= goals'
  <1>1. goals \in Nat
    BY RunFields
  <1>2. goals' = goals \/ goals' = goals + 1
    BY DEF GoalsNext, AdmitRun, LoadTurn, WriteTurn, LandTurn, AbortRun, ReadGoal, ReadReceipt,
           Evaluate, RereadGoal, RecheckThread, PersistGoal, WriteGoal, PutGoal, Verify,
           SetGoal, ClearGoal, UpdateState, CompactReads, CompactNothing, CompactDraws, PutRequest
  <1> QED BY <1>1, <1>2

\* The history changes in a few steps only.
LEMMA SettledBy ==
    ASSUME GoalsNext, ~LandTurn, \A r \in GoalRequests : ~PutRequest(r)
    PROVE  UNCHANGED <<settled, retired>>
  BY DEF GoalsNext, AdmitRun, LoadTurn, WriteTurn, AbortRun, ReadGoal, ReadReceipt,
         Evaluate, RereadGoal, RecheckThread, PersistGoal, WriteGoal, PutGoal, Verify,
         SetGoal, ClearGoal, UpdateState, CompactReads, CompactNothing, CompactDraws, history

\* What comes from a checkpoint with everything settled has it too.
LEMMA FreshDerived ==
    ASSUME GoalsTypeOK, retired \subseteq 1..goals, NEW x, NEW y, Fresh(y), Derives(x, y)
    PROVE  Fresh(x)
  <1>1. goals \in Nat /\ 0 \notin retired /\ goals + 1 \notin retired
    <2>1. goals \in Nat
      BY RunFields
    <2> QED BY <2>1
  <1>2. NoGoal.instance = 0 /\ NewGoal(goals + 1).instance = goals + 1
    BY DEF NoGoal, NewGoal
  <1> QED BY <1>1, <1>2 DEF Fresh, Derives

\* What is settled stays in every checkpoint that may become the latest.
LEMMA FreshLive ==
    ASSUME Shape, FreshInv, GoalsNext
    PROVE  (\A x \in Live : Fresh(x))'
  <1>0. GoalsTypeOK /\ retired \subseteq 1..goals /\ \A x \in Live : Fresh(x)
    BY DEF Shape, FreshInv
  <1>1. CASE WriteGoal /\ ~grun.moved
    <2>1. UNCHANGED <<settled, retired>>
      BY <1>1 DEF WriteGoal, history
    <2>2. \A x \in Copies' : Fresh(x)
      <3>1. (~AbortRun /\ ~PutGoal) \/ Live' \subseteq Live
        BY PutCopies
      <3> QED BY <1>0, <3>1, CopiesDerived, FreshDerived, CopiesMembers DEF Live
    <2>3. grun.current = latest.goal /\ grun.pc = "reread"
      BY <1>1 DEF FreshInv, WriteGoal
    <2>4. Derives(grun'.copy, latest) \/ grun'.copy.goal.instance = latest.goal.instance
      BY <1>0, <1>1, <2>3, WrittenCopy DEF Derives
    <2>5. Fresh(latest)
      BY <1>0, CopiesMembers
    <2>6. Fresh(grun'.copy)
      BY <1>0, <1>1, <2>4, <2>5, WrittenCopy, FreshDerived DEF Fresh
    <2>7. \A x \in Live' : x \in Copies' \/ x = grun'.copy
      BY DEF Live
    <2> QED BY <2>1, <2>2, <2>6, <2>7 DEF Fresh
  <1>2. CASE LandTurn /\ grun.calm
    <2>1. Counts("run") /\ latest' = grun.copy /\ Live' = {latest'}
      BY <1>2, CalmRunPut
    <2>2. Fresh(grun.copy)
      BY <1>0, <1>2, <2>1, CopiesMembers DEF LandTurn, RunHasCopy
    <2>3. settled' = settled \cup grun.copy.talk /\ retired' = retired
      BY <1>2 DEF LandTurn
    <2> QED BY <2>1, <2>2, <2>3 DEF Fresh
  <1>3. ASSUME NEW r \in GoalRequests, PutRequest(r), greq[r].calm
        PROVE  (\A x \in Live : Fresh(x))'
    <2>1. Counts(r) /\ latest' = greq[r].copy /\ Live' = {latest'}
      BY <1>3, CalmRequestPut
    <2>2. Fresh(greq[r].copy)
      BY <1>0, <1>3, <2>1, CopiesMembers DEF PutRequest, HasCopy
    <2>3. /\ settled' = settled \cup greq[r].copy.talk
          /\ retired' \subseteq retired \cup ((1..goals) \ {greq[r].copy.goal.instance})
      BY <1>3 DEF PutRequest
    <2> QED BY <2>1, <2>2, <2>3 DEF Fresh
  <1>4. CASE /\ UNCHANGED <<settled, retired>>
             /\ ~(WriteGoal /\ ~grun.moved)
    <2>1. \A x \in Live' : Fresh(x)
      BY <1>0, <1>4, LiveDerived, FreshDerived
    <2> QED BY <1>4, <2>1 DEF Fresh
  <1>5. LandTurn /\ ~grun.calm => UNCHANGED <<settled, retired>>
    BY DEF LandTurn
  <1>6. \A r \in GoalRequests : PutRequest(r) /\ ~greq[r].calm => UNCHANGED <<settled, retired>>
    BY DEF PutRequest
  <1> QED BY <1>1, <1>2, <1>3, <1>4, <1>5, <1>6, SettledBy

\* FreshInv is inductive over the writers' bookkeeping.
LEMMA FreshStep == ASSUME Shape, FreshInv, GoalsNext PROVE FreshInv'
  <1>0. GoalsTypeOK /\ DrawnInv /\ grun \in GoalRun
    BY DEF Shape, GoalsTypeOK
  <1>1. retired' \subseteq 1..goals'
    <2>1. retired' \subseteq 1..goals
      <3>1. CASE LandTurn
        BY <3>1 DEF LandTurn, FreshInv
      <3>2. CASE \E r \in GoalRequests : PutRequest(r)
        BY <3>2 DEF PutRequest, FreshInv
      <3> QED BY <3>1, <3>2, SettledBy DEF FreshInv
    <2> QED BY <1>0, <2>1, GoalsGrow
  <1>2. ASSUME grun'.pc = "reread"
        PROVE  /\ grun'.current.instance = grun'.goal.instance
               /\ ~grun'.moved => grun'.current = latest'.goal
    <2>1. CASE PersistGoal
      <3>1. /\ Matches(latest.goal) /\ latest' = latest
            /\ grun' = [grun EXCEPT !.pc = "reread", !.moved = FALSE, !.current = latest.goal]
        BY <1>2, <2>1 DEF PersistGoal, StandDown, RunIdle
      <3> QED BY <1>0, <3>1 DEF Matches, GoalRun
    <2>2. CASE \E r \in GoalRequests :
                 \/ SetGoal(r) \/ ClearGoal(r) \/ UpdateState(r)
                 \/ CompactReads(r) \/ CompactNothing(r) \/ CompactDraws(r) \/ PutRequest(r)
      <3>1. /\ grun'.pc = grun.pc /\ grun'.goal = grun.goal /\ grun'.current = grun.current
            /\ ~grun'.moved => ~grun.moved /\ latest' = latest
        BY <1>0, <2>2, RequestRun
      <3> QED BY <1>2, <3>1 DEF FreshInv
    <2>3. CASE AdmitRun \/ LoadTurn \/ WriteTurn \/ LandTurn \/ AbortRun
      <3>1. grun'.pc # "reread"
        BY <1>0, <2>3, RunGoes
      <3> QED BY <1>2, <3>1
    <2> QED BY <1>0, <1>2, <2>1, <2>2, <2>3, EvaluatorGoes DEF GoalsNext
  <1> QED BY <1>1, <1>2, FreshLive DEF FreshInv

\* What the evaluator has decided on is kept from step to step.
SameDecision ==
    /\ grun'.goal = grun.goal /\ grun'.reply = grun.reply
    /\ grun'.result = grun.result /\ grun'.stalled = grun.stalled

\* What each step of the evaluator does to its locals.
LEMMA EvaluatorLocals ==
    ASSUME GoalsTypeOK
    PROVE  /\ ReadGoal => \/ grun' = RunIdle
                          \/ /\ grun'.goal = latest.goal /\ latest.goal # NoGoal
                             /\ grun'.step = grun.step
           /\ ReadReceipt => grun'.goal = grun.goal /\ grun'.step = grun.step
           /\ Evaluate => /\ grun'.goal = grun.goal /\ grun'.reply = grun.reply
                          /\ grun'.stalled = Stalled(grun'.result, grun.reply)
                          /\ grun'.step = grun.step
           /\ RereadGoal => SameDecision /\ grun'.step = grun.step
           /\ RecheckThread => \/ grun' = RunIdle
                               \/ /\ SameDecision /\ grun'.pc = "persist"
                                  /\ grun'.step = "continue" => Continuable
           /\ PersistGoal => \/ grun' = RunIdle
                             \/ SameDecision /\ grun'.step = grun.step /\ grun'.pc = "reread"
           /\ WriteGoal => grun' = RunIdle \/ (SameDecision /\ grun'.step = grun.step)
           /\ PutGoal => IF grun.step = "continue"
                         THEN SameDecision /\ grun'.step = "continue" /\ grun'.pc = "verifyGoal"
                         ELSE grun' = RunIdle
           /\ Verify => \/ grun' = RunIdle \/ grun' = [RunIdle EXCEPT !.pc = "load"]
                        \/ SameDecision /\ grun'.step = "retract" /\ grun'.pc = "persist"
  <1>0. grun \in GoalRun
    BY DEF GoalsTypeOK
  <1>1. ReadGoal => \/ grun' = RunIdle
                    \/ /\ grun'.goal = latest.goal /\ latest.goal # NoGoal
                       /\ grun'.step = grun.step
    BY <1>0 DEF ReadGoal, StandDown, GoalRun
  <1>2. ASSUME ReadReceipt PROVE grun'.goal = grun.goal /\ grun'.step = grun.step
    <2>1. PICK s : s = Stalled("run_failed", latest.reply)
      OBVIOUS
    <2> QED BY <1>0, <1>2, <2>1 DEF ReadReceipt, GoalRun
  <1>3. ASSUME Evaluate
        PROVE  /\ grun'.goal = grun.goal /\ grun'.reply = grun.reply
               /\ grun'.stalled = Stalled(grun'.result, grun.reply)
               /\ grun'.step = grun.step
    <2>1. PICK result \in {"satisfied", "unmet", "blocked"} :
            grun' = [grun EXCEPT !.pc = "regoal", !.result = result,
                                 !.stalled = Stalled(result, grun.reply)]
      BY <1>3 DEF Evaluate
    <2>2. PICK s : s = Stalled(result, grun.reply)
      OBVIOUS
    <2>3. /\ grun'.goal = grun.goal /\ grun'.reply = grun.reply /\ grun'.step = grun.step
          /\ grun'.result = result /\ grun'.stalled = s
      BY <1>0, <2>1, <2>2 DEF GoalRun
    <2> QED BY <2>2, <2>3
  <1>4. RereadGoal => SameDecision /\ grun'.step = grun.step
    BY <1>0 DEF RereadGoal, GoalRun, SameDecision
  <1>5. ASSUME RecheckThread
        PROVE  \/ grun' = RunIdle
               \/ /\ SameDecision /\ grun'.pc = "persist"
                  /\ grun'.step = "continue" => Continuable
    <2>1. CASE Matches(grun.current)
      <3>1. PICK step \in {"record", "clear", "continue"} :
              /\ grun' = [grun EXCEPT !.pc = "persist", !.moved = TRUE, !.current = NoGoal,
                                      !.step = step]
              /\ step = "continue" => Continuable
        BY <1>5, <2>1 DEF RecheckThread
      <3> QED BY <1>0, <3>1 DEF GoalRun, SameDecision
    <2>2. CASE ~Matches(grun.current)
      BY <1>5, <2>2 DEF RecheckThread, StandDown
    <2> QED BY <2>1, <2>2
  <1>6. PersistGoal => \/ grun' = RunIdle
                       \/ SameDecision /\ grun'.step = grun.step /\ grun'.pc = "reread"
    BY <1>0 DEF PersistGoal, StandDown, GoalRun, SameDecision
  <1>7. WriteGoal => grun' = RunIdle \/ (SameDecision /\ grun'.step = grun.step)
    <2>1. WriteGoal /\ grun.moved => grun' = RunIdle
      BY DEF WriteGoal, StandDown
    <2> QED BY <2>1, WrittenCopy DEF SameDecision
  <1>8. PutGoal => IF grun.step = "continue"
                   THEN SameDecision /\ grun'.step = "continue" /\ grun'.pc = "verifyGoal"
                   ELSE grun' = RunIdle
    BY <1>0 DEF PutGoal, GoalRun, SameDecision
  <1>9. Verify => \/ grun' = RunIdle \/ grun' = [RunIdle EXCEPT !.pc = "load"]
                  \/ SameDecision /\ grun'.step = "retract" /\ grun'.pc = "persist"
    BY <1>0 DEF Verify, StandDown, GoalRun, SameDecision
  <1> QED BY <1>1, <1>2, <1>3, <1>4, <1>5, <1>6, <1>7, <1>8, <1>9

\* Only a continuable evaluation leads to a continuation, and what is put then
\* counts it.
LEMMA StepStep == ASSUME Shape, FreshInv, StepInv, GoalsNext PROVE StepInv'
  <1>0. GoalsTypeOK /\ DrawnInv /\ grun \in GoalRun
    BY DEF Shape, GoalsTypeOK
  <1>i. ASSUME grun'.step = "record", grun'.pc # "verifyGoal", grun'.pc # "verify"
        PROVE  StepInv'
    BY <1>i DEF StepInv, Verifying
  <1>j. RunIdle.step = "record" /\ RunIdle.pc = "idle"
    BY DEF RunIdle
  <1>1. CASE AdmitRun \/ LoadTurn \/ WriteTurn \/ LandTurn \/ AbortRun
    <2>1. WriteTurn => grun'.step = "record"
      BY <1>0, RunGoes DEF StepInv, Recording, Verifying
    <2> QED BY <1>0, <1>1, <1>i, <2>1, RunGoes
  <1>2. CASE \E r \in GoalRequests :
               \/ SetGoal(r) \/ ClearGoal(r) \/ UpdateState(r)
               \/ CompactReads(r) \/ CompactNothing(r) \/ CompactDraws(r) \/ PutRequest(r)
    <2>1. /\ grun'.pc = grun.pc /\ grun'.copy = grun.copy /\ grun'.goal = grun.goal
          /\ grun'.reply = grun.reply /\ grun'.result = grun.result
          /\ grun'.stalled = grun.stalled /\ grun'.step = grun.step
      BY <1>0, <1>2, RequestRun
    <2> QED BY <2>1 DEF StepInv, Recording, Verifying
  <1>3. CASE ReadGoal \/ ReadReceipt \/ Evaluate
    <2>1. grun.step = "record"
      BY <1>0, <1>3, EvaluatorGoes DEF StepInv, Recording, Verifying
    <2>2. grun'.step = "record" /\ grun'.pc # "verifyGoal" /\ grun'.pc # "verify"
      BY <1>0, <1>3, <1>j, <2>1, EvaluatorGoes, EvaluatorLocals
    <2> QED BY <1>i, <2>2
  <1>k. grun' = RunIdle => StepInv'
    BY <1>i, <1>j
  <1>s. SameDecision /\ grun'.step = grun.step /\ grun.step = "continue" =>
            /\ grun'.result = "unmet"
            /\ grun'.goal.count < MaxContinuations /\ grun'.stalled < MaxNoProgress
    BY DEF SameDecision, StepInv
  <1>4. CASE RereadGoal
    <2>1. SameDecision /\ grun'.step = grun.step
      BY <1>0, <1>4, EvaluatorLocals
    <2> QED BY <1>0, <1>4, <1>s, <2>1, EvaluatorGoes DEF StepInv, Recording, Verifying
  <1>5. CASE RecheckThread
    <2>1. CASE SameDecision /\ (grun'.step = "continue" => Continuable) /\ grun'.pc = "persist"
      <3>1. grun'.step = "continue" =>
              /\ grun'.result = "unmet"
              /\ grun'.goal.count < MaxContinuations /\ grun'.stalled < MaxNoProgress
        BY <2>1 DEF SameDecision, Continuable
      <3> QED BY <2>1, <3>1 DEF StepInv, Recording, Verifying
    <2> QED BY <1>0, <1>5, <1>k, <2>1, EvaluatorLocals
  <1>6. CASE PersistGoal
    <2>1. CASE SameDecision /\ grun'.step = grun.step /\ grun'.pc = "reread"
      BY <1>s, <2>1 DEF StepInv, Recording, Verifying
    <2> QED BY <1>0, <1>6, <1>k, <2>1, EvaluatorLocals
  <1>7. CASE WriteGoal
    <2>1. CASE ~grun.moved
      <3>1. grun'.pc = "put" /\ SameDecision /\ grun'.step = grun.step
        BY <1>0, <1>7, <2>1, WrittenCopy DEF SameDecision
      <3>2. grun.step = "continue" =>
              grun'.copy.goal = [instance |-> grun'.goal.instance, count |-> grun'.goal.count + 1,
                                 stalled |-> grun'.stalled, key |-> <<"unmet", grun'.reply>>]
        <4>1. grun.current.instance = grun.goal.instance
          BY <1>7 DEF FreshInv, WriteGoal
        <4> QED BY <1>0, <1>7, <2>1, <4>1, WrittenCopy DEF StepInv
      <3> QED BY <1>s, <3>1, <3>2 DEF StepInv, Recording, Verifying
    <2>2. CASE grun.moved
      BY <1>7, <1>k, <2>2 DEF WriteGoal, StandDown
    <2> QED BY <2>1, <2>2
  <1>8. CASE PutGoal
    <2>1. CASE grun.step = "continue"
      BY <1>0, <1>8, <1>s, <2>1, EvaluatorLocals DEF StepInv, Recording, Verifying
    <2> QED BY <1>0, <1>8, <1>k, <2>1, EvaluatorLocals
  <1>9. CASE Verify
    <2>1. CASE SameDecision /\ grun'.step = "retract" /\ grun'.pc = "persist"
      BY <2>1 DEF StepInv, Recording, Verifying
    <2>2. CASE grun' = [RunIdle EXCEPT !.pc = "load"]
      <3>1. grun'.pc = "load" /\ grun'.step = "record"
        BY <2>2 DEF RunIdle
      <3> QED BY <1>i, <3>1
    <2> QED BY <1>0, <1>9, <1>k, <2>1, <2>2, EvaluatorLocals
  <1> QED BY <1>1, <1>2, <1>3, <1>4, <1>5, <1>6, <1>7, <1>8, <1>9 DEF GoalsNext

\* The evaluator works on the goal it has read, up to the last look.
LEMMA EvaluatingFrom ==
    ASSUME GoalsTypeOK, DrawnInv, GoalsNext
    PROVE  /\ Evaluating' /\ ~ReadGoal => Evaluating /\ grun'.goal = grun.goal
           /\ Verifying' /\ ~PutGoal => Verifying /\ SameDecision
  <1>j. RunIdle.pc = "idle"
    BY DEF RunIdle
  <1>1. CASE AdmitRun \/ LoadTurn \/ WriteTurn \/ LandTurn \/ AbortRun
    BY <1>1, RunGoes DEF Evaluating, Verifying
  <1>2. CASE \E r \in GoalRequests :
               \/ SetGoal(r) \/ ClearGoal(r) \/ UpdateState(r)
               \/ CompactReads(r) \/ CompactNothing(r) \/ CompactDraws(r) \/ PutRequest(r)
    <2>1. /\ grun'.pc = grun.pc /\ grun'.goal = grun.goal /\ grun'.reply = grun.reply
          /\ grun'.result = grun.result /\ grun'.stalled = grun.stalled
      BY <1>2, RequestRun
    <2> QED BY <2>1 DEF Evaluating, Verifying, SameDecision
  <1>3. CASE ReadGoal \/ ReadReceipt \/ Evaluate \/ RereadGoal
    BY <1>3, EvaluatorGoes, EvaluatorLocals DEF Evaluating, Verifying, SameDecision
  <1>4. CASE RecheckThread \/ PersistGoal \/ WriteGoal
    <2>1. CASE SameDecision
      BY <1>4, <2>1, EvaluatorGoes DEF Evaluating, Verifying, SameDecision
    <2> QED BY <1>4, <1>j, <2>1, EvaluatorLocals DEF Evaluating, Verifying
  <1>5. CASE PutGoal
    <2>1. CASE SameDecision
      BY <1>5, <2>1, EvaluatorGoes DEF Evaluating, SameDecision
    <2> QED BY <1>5, <1>j, <2>1, EvaluatorLocals DEF Evaluating, Verifying
  <1>6. CASE Verify
    <2>1. CASE SameDecision /\ grun'.pc = "persist"
      BY <1>6, <2>1, EvaluatorGoes DEF Evaluating, Verifying, SameDecision
    <2>2. CASE grun' = RunIdle \/ grun' = [RunIdle EXCEPT !.pc = "load"]
      <3>1. grun'.pc \in {"idle", "load"}
        BY <2>2 DEF RunIdle
      <3> QED BY <3>1 DEF Evaluating, Verifying
    <2> QED BY <1>6, <2>1, <2>2, EvaluatorLocals
  <1> QED BY <1>1, <1>2, <1>3, <1>4, <1>5, <1>6 DEF GoalsNext

\* Which steps change the counters of the history.
LEMMA CountersBy ==
    ASSUME GoalsNext
    PROVE  /\ ~Verify => continued' = continued
           /\ ~PutGoal => overrun' = overrun
           /\ ~Verify /\ ~AdmitRun => barren' = barren
  BY DEF GoalsNext, AdmitRun, LoadTurn, WriteTurn, LandTurn, AbortRun, ReadGoal, ReadReceipt,
         Evaluate, RereadGoal, RecheckThread, PersistGoal, WriteGoal, PutGoal, Verify,
         SetGoal, ClearGoal, UpdateState, CompactReads, CompactNothing, CompactDraws, PutRequest,
         history

\* The last look: the run stands down, retracts, or makes one more turn.
LEMMA VerifyCases ==
    ASSUME GoalsTypeOK, Verify
    PROVE  /\ UNCHANGED <<latest, drawn, goals, greq, overrun>>
           /\ \/ /\ UNCHANGED <<continued, barren>> /\ grun'.pc \in {"idle", "persist"}
                 /\ grun'.step \in {"record", "retract"}
              \/ /\ grun'.pc = "load" /\ grun'.step = "record"
                 /\ continued' = [continued EXCEPT ![grun.goal.instance] = @ + 1]
                 /\ barren' = [instance |-> grun.goal.instance, reply |-> grun.reply,
                               turns |-> Turns]
  <1>0. grun \in GoalRun
    BY DEF GoalsTypeOK
  <1>1. CASE StandDown
    BY <1>1 DEF Verify, StandDown, RunIdle
  <1>2. CASE grun' = [grun EXCEPT !.pc = "persist", !.step = "retract"]
    <2>1. grun'.pc = "persist" /\ grun'.step = "retract"
      BY <1>0, <1>2 DEF GoalRun
    <2>2. ~StandDown /\ grun' # [RunIdle EXCEPT !.pc = "load"]
      BY <2>1 DEF StandDown, RunIdle
    <2> QED BY <2>1, <2>2 DEF Verify
  <1>3. CASE /\ grun' = [RunIdle EXCEPT !.pc = "load"]
             /\ continued' = [continued EXCEPT ![grun.goal.instance] = @ + 1]
             /\ barren' = [instance |-> grun.goal.instance, reply |-> grun.reply, turns |-> Turns]
    <2>1. grun'.pc = "load" /\ grun'.step = "record"
      BY <1>3 DEF RunIdle
    <2> QED BY <1>3, <2>1 DEF Verify
  <1> QED BY <1>1, <1>2, <1>3 DEF Verify, Turns, Same

\* A copy that comes from one whose counters are right has them right too.
LEMMA CountedDerived ==
    ASSUME GoalsTypeOK, CountInv, GoalsNext, NEW x, NEW y, Derives(x, y),
           Known(y.goal), Counted(y.goal)
    PROVE  Known(x.goal)' /\ Counted(x.goal)
  <1>0. goals \in Nat /\ goals' \in Nat /\ goals <= goals' /\ overrun \in Nat
    BY GoalsGrow, RunFields
  <1>1. CASE x.goal = y.goal
    BY <1>0, <1>1 DEF Known
  <1>2. CASE x.goal = NoGoal
    BY <1>2 DEF Known, Counted, NoGoal
  <1>3. CASE x.goal = NewGoal(goals + 1) /\ goals' = goals + 1
    <2>1. x.goal.instance = goals + 1 /\ x.goal.count = 0
      BY <1>3 DEF NewGoal, NoGoal
    <2>2. goals + 1 \in 1..MaxGoals => continued[goals + 1] = 0
      BY <1>0 DEF CountInv
    <2>3. Owed(goals + 1) = 0
      BY <1>0 DEF Owed, CountInv, Verifying, Evaluating
    <2> QED BY <1>0, <1>3, <2>1, <2>2, <2>3 DEF Known, Counted
  <1> QED BY <1>1, <1>2, <1>3 DEF Derives

\* Every goal that may come back has counted its continuations.
LEMMA CountLive ==
    ASSUME Shape, FreshInv, StepInv, CountInv, GoalsNext
    PROVE  (\A x \in Live : Known(x.goal) /\ Counted(x.goal))'
  <1>0. /\ GoalsTypeOK /\ DrawnInv /\ overrun \in Nat /\ goals \in Nat
        /\ continued \in [1..MaxGoals -> Nat] /\ MaxGoals \in Nat
        /\ grun.goal.count \in Nat /\ grun.goal.instance \in 0..MaxGoals
    BY RunFields, GoalsAssumption DEF Shape, GoalsTypeOK
  <1>l. \A x \in Live : Known(x.goal) /\ Counted(x.goal)
    BY DEF CountInv
  <1>o. \A i : Owed(i) \in {0, 1}
    BY DEF Owed
  <1>d. ASSUME UNCHANGED <<continued, overrun>>, \A i : Owed(i)' <= Owed(i),
               \A i : Owed(i)' \in {0, 1}, NEW g, g.count \in Nat, Counted(g)
        PROVE  \A i \in 1..MaxGoals :
                 g.instance = i => continued'[i] + Owed(i)' <= g.count + overrun'
    BY <1>0, <1>d, <1>o DEF Counted
  <1>t. ASSUME NEW x \in Live PROVE x.goal.count \in Nat
    <2>1. x \in ThreadCheckpoint
      BY <1>0, RunFields, CopiesMembers, SMTT(30)
    <2> QED BY <2>1, CheckpointType
  <1>t2. ASSUME NEW x \in Live' PROVE x.goal.count \in Nat
    <2>1. GoalsTypeOK'
      BY ShapeStep DEF Shape
    <2>2. x \in ThreadCheckpoint
      <3>1. latest' \in ThreadCheckpoint /\ grun'.copy \in ThreadCheckpoint
        BY <2>1 DEF GoalsTypeOK, GoalRun
      <3>2. \A r \in GoalRequests : greq'[r].copy \in ThreadCheckpoint
        BY <2>1 DEF GoalsTypeOK, GoalRequest
      <3> QED BY <3>1, <3>2 DEF Live, Copies
    <2> QED BY <2>2, CheckpointType
  <1>1. CASE PutGoal
    <2>1. UNCHANGED <<continued, goals>> /\ overrun' = IF grun.calm THEN overrun ELSE overrun + 1
      BY <1>1 DEF PutGoal
    <2>2. Live' \subseteq Live /\ \A i : Owed(i) = 0 /\ Owed(i)' \in {0, 1}
      <3>1. grun.pc = "put"
        BY <1>1 DEF PutGoal
      <3> QED BY <1>1, <3>1, PutCopies DEF Owed, Verifying
    <2>3. CASE ~grun.calm
      <3>1. ASSUME NEW x \in Live' PROVE Known(x.goal)' /\ Counted(x.goal)'
        <4>1. Known(x.goal) /\ Counted(x.goal) /\ x.goal.count \in Nat
          BY <1>l, <1>t, <2>2
        <4>2. overrun' = overrun + 1 /\ continued' = continued
          BY <2>1, <2>3
        <4> QED BY <1>0, <2>1, <2>2, <4>1, <4>2, SMTT(30) DEF Known, Counted
      <3> QED BY <3>1
    <2>4. CASE grun.calm /\ grun.step = "continue"
      <3>1. latest' = grun.copy /\ Live' = {latest'}
        BY <1>1, <2>4, CalmRunPut
      <3>2. /\ grun.copy.goal.instance = grun.goal.instance
            /\ grun.copy.goal.count = grun.goal.count + 1
        BY <1>1, <2>4 DEF StepInv, PutGoal
      <3>3. /\ grun.goal.instance \in 1..goals
            /\ continued[grun.goal.instance] <= grun.goal.count + overrun
        BY <1>1 DEF CountInv, Evaluating, PutGoal
      <3>4. overrun' = overrun /\ continued' = continued /\ goals' = goals
        BY <2>1, <2>4
      <3>5. ASSUME NEW i \in 1..MaxGoals, grun.copy.goal.instance = i
            PROVE  continued'[i] + Owed(i)' <= grun.copy.goal.count + overrun'
        BY <1>0, <2>2, <3>2, <3>3, <3>4, <3>5
      <3>6. ASSUME NEW x \in Live' PROVE Known(x.goal)' /\ Counted(x.goal)'
        <4>1. x = grun.copy
          BY <3>1
        <4> QED BY <3>2, <3>3, <3>4, <3>5, <4>1 DEF Known, Counted
      <3> QED BY <3>6
    <2>5. CASE grun.calm /\ grun.step # "continue"
      <3>1. \A i : Owed(i)' = 0
        <4>1. grun'.pc = "idle"
          BY <1>0, <1>1, <2>5, EvaluatorLocals DEF RunIdle
        <4> QED BY <4>1 DEF Owed, Verifying
      <3>2. overrun' = overrun /\ continued' = continued /\ goals' = goals
        BY <2>1, <2>5
      <3>3. ASSUME NEW x \in Live' PROVE Known(x.goal)' /\ Counted(x.goal)'
        BY <1>l, <2>2, <3>1, <3>2 DEF Known, Counted
      <3> QED BY <3>3
    <2> QED BY <2>3, <2>4, <2>5
  <1>2. CASE Verify
    <2>1. Verifying /\ \A i : Owed(i)' = 0
      <3>1. grun.pc = "verify" /\ grun'.pc \in {"idle", "persist", "load"}
        BY <1>0, <1>2, EvaluatorGoes
      <3> QED BY <3>1 DEF Owed, Verifying
    <2>2. goals' = goals /\ overrun' = overrun
      BY <1>0, <1>2, VerifyCases
    <2>3. ASSUME NEW i \in 1..MaxGoals PROVE continued'[i] <= continued[i] + Owed(i)
      <3>1. CASE continued' = continued
        BY <1>0, <1>o, <3>1
      <3>2. CASE continued' = [continued EXCEPT ![grun.goal.instance] = @ + 1]
        <4>1. CASE i = grun.goal.instance
          BY <1>0, <2>1, <3>2, <4>1 DEF Owed
        <4>2. CASE i # grun.goal.instance
          BY <1>0, <1>o, <3>2, <4>2
        <4> QED BY <4>1, <4>2
      <3> QED BY <1>0, <1>2, <3>1, <3>2, VerifyCases
    <2>4. ASSUME NEW x \in Live' PROVE Known(x.goal)' /\ Counted(x.goal)'
      <3>1. PICK y \in Live : Derives(x, y)
        <4>1. ~(WriteGoal /\ ~grun.moved)
          BY <1>2 DEF Verify, WriteGoal
        <4> QED BY <4>1, LiveDerived
      <3>2. Known(x.goal)' /\ Counted(x.goal)
        BY <1>0, <1>l, <3>1, CountedDerived
      <3>3. x.goal.count \in Nat
        BY <1>t2
      <3>4. \A i \in 1..MaxGoals : continued'[i] \in Nat
        BY ShapeStep DEF Shape, GoalsTypeOK
      <3>5. ASSUME NEW i \in 1..MaxGoals, x.goal.instance = i
            PROVE  continued'[i] + Owed(i)' <= x.goal.count + overrun'
        <4>1. continued[i] + Owed(i) <= x.goal.count + overrun
          BY <3>2, <3>5 DEF Counted
        <4>2. /\ continued[i] \in Nat /\ continued'[i] \in Nat /\ Owed(i) \in {0, 1}
              /\ Owed(i)' = 0 /\ continued'[i] <= continued[i] + Owed(i)
          BY <1>0, <1>o, <2>1, <2>3, <3>4
        <4>3. overrun \in Nat /\ overrun' = overrun
          BY <1>0, <2>2
        <4> QED BY <3>3, <4>1, <4>2, <4>3
      <3> QED BY <3>2, <3>5 DEF Counted
    <2> QED BY <2>4
  <1>3. CASE ~PutGoal /\ ~Verify
    <2>1. continued' = continued /\ overrun' = overrun
      BY <1>3, CountersBy
    <2>2. \A i : Owed(i)' <= Owed(i) /\ Owed(i)' \in {0, 1}
      BY <1>0, <1>3, EvaluatingFrom DEF Owed, SameDecision
    <2>3. ASSUME NEW x \in Live', NEW y, Derives(x, y), Known(y.goal), Counted(y.goal)
          PROVE  Known(x.goal)' /\ Counted(x.goal)'
      BY <1>0, <1>d, <1>t2, <2>1, <2>2, <2>3, CountedDerived DEF Counted
    <2>4. CASE ~(WriteGoal /\ ~grun.moved)
      BY <1>l, <2>3, <2>4, LiveDerived
    <2>5. CASE WriteGoal /\ ~grun.moved
      <3>1. ASSUME NEW x \in Copies' PROVE Known(x.goal)' /\ Counted(x.goal)'
        <4>1. PICK y \in Copies : Derives(x, y)
          BY <2>5, EvaluatorCopies
        <4>2. y \in Live /\ x \in Live'
          BY CopiesMembers DEF Live
        <4> QED BY <1>l, <2>3, <4>1, <4>2
      <3>2. /\ grun.pc = "reread" /\ grun.current = latest.goal
            /\ grun.current.instance = grun.goal.instance /\ goals' = goals
        BY <2>5 DEF FreshInv, WriteGoal
      <3>3. /\ grun.goal.instance \in 1..goals
            /\ continued[grun.goal.instance] <= grun.goal.count + overrun
        BY <3>2 DEF CountInv, Evaluating
      <3>4. Counted(latest.goal) /\ latest.goal.count \in Nat
        BY <1>l, <1>t, CopiesMembers
      <3>5. \A i : Owed(i)' = 0 /\ Owed(i) = 0
        <4>1. grun'.pc = "put"
          BY <1>0, <2>5, WrittenCopy
        <4> QED BY <3>2, <4>1 DEF Owed, Verifying
      <3>6. CASE grun'.copy.goal = NoGoal
        <4>1. \A x : x.goal = NoGoal => Known(x.goal)' /\ Counted(x.goal)'
          BY DEF Known, Counted, NoGoal
        <4> QED BY <3>1, <3>6, <4>1 DEF Live
      <3>7. CASE grun'.copy.goal = Attach
        <4>1. /\ Attach.instance = grun.goal.instance
              /\ Attach.count = grun.goal.count + 1 \/ Attach.count = latest.goal.count
          BY <1>0, <2>5, <3>2, WrittenCopy
        <4>2. continued[grun.goal.instance] <= Attach.count + overrun
          <5>1. CASE Attach.count = grun.goal.count + 1
            BY <1>0, <3>3, <5>1, SMTT(30)
          <5>2. CASE Attach.count = latest.goal.count
            BY <1>0, <3>2, <3>3, <3>4, <3>5, <5>2 DEF Counted
          <5> QED BY <4>1, <5>1, <5>2
        <4>3. PICK g : g = Attach
          OBVIOUS
        <4>4. Known(g)' /\ Counted(g)'
          BY <1>0, <2>1, <3>2, <3>3, <3>5, <4>1, <4>2, <4>3 DEF Known, Counted
        <4>5. \A x \in Live' : x \in Copies' \/ x.goal = g
          BY <3>7, <4>3 DEF Live
        <4> QED BY <3>1, <4>4, <4>5
      <3> QED BY <1>0, <2>5, <3>6, <3>7, WrittenCopy
    <2> QED BY <2>4, <2>5
  <1> QED BY <1>1, <1>2, <1>3

\* CountInv is inductive: no goal gets more continuations than it may.
LEMMA CountStep ==
    ASSUME Shape, FreshInv, StepInv, CountInv, GoalsNext
    PROVE  CountInv'
  <1>0. /\ GoalsTypeOK /\ DrawnInv /\ overrun \in Nat /\ goals \in Nat
        /\ continued \in [1..MaxGoals -> Nat] /\ MaxGoals \in Nat /\ MaxContinuations \in Nat
        /\ grun.goal.count \in Nat
    BY RunFields, GoalsAssumption DEF Shape, GoalsTypeOK
  <1>g. goals' \in Nat /\ goals <= goals'
    BY <1>0, GoalsGrow
  <1>w. overrun' \in Nat /\ overrun <= overrun'
    <2>1. CASE PutGoal
      BY <1>0, <2>1 DEF PutGoal
    <2> QED BY <1>0, <2>1, CountersBy
  <1>v. ASSUME Verify, continued' # continued
        PROVE  /\ grun.goal.instance \in 1..goals /\ grun.goal.instance \in 1..MaxGoals
               /\ continued[grun.goal.instance] + 1 <= MaxContinuations + overrun
               /\ continued' = [continued EXCEPT ![grun.goal.instance] = @ + 1]
               /\ grun'.pc = "load" /\ goals' = goals
    <2>1. grun.pc = "verify"
      BY <1>v DEF Verify
    <2>2. /\ grun.goal.instance \in 1..goals
          /\ continued[grun.goal.instance] <= grun.goal.count + overrun
      BY <2>1 DEF CountInv, Evaluating
    <2>3. grun.goal.count < MaxContinuations
      BY <2>1 DEF StepInv, Verifying
    <2>4. grun.goal.instance \in 1..MaxGoals
      BY <1>0, <2>2, RunFields
    <2>5. continued[grun.goal.instance] \in Nat
      BY <1>0, <2>4
    <2>6. continued[grun.goal.instance] + 1 <= MaxContinuations + overrun
      <3>1. PICK c \in Nat, n \in Nat : c = continued[grun.goal.instance] /\ n = grun.goal.count
        BY <1>0, <2>5
      <3>2. c <= n + overrun /\ n < MaxContinuations
        BY <2>2, <2>3, <3>1
      <3>3. c + 1 <= MaxContinuations + overrun
        BY <1>0, <3>2
      <3> QED BY <3>1, <3>3
    <2> QED BY <1>0, <1>v, <2>2, <2>4, <2>6, VerifyCases
  <1>c. ~Verify => continued' = continued
    BY CountersBy
  <1>1. ASSUME NEW i \in 1..MaxGoals, i > goals' PROVE continued'[i] = 0
    <2>1. i > goals /\ continued[i] = 0
      BY <1>0, <1>g, <1>1 DEF CountInv
    <2>2. CASE continued' = continued
      BY <2>1, <2>2
    <2>3. CASE continued' # continued
      <3>1. i # grun.goal.instance
        BY <1>0, <1>c, <1>v, <2>1, <2>3
      <3> QED BY <1>0, <1>c, <1>v, <2>1, <2>3, <3>1
    <2> QED BY <2>2, <2>3
  <1>2. ASSUME Evaluating'
        PROVE  /\ grun'.goal.instance \in 1..goals'
               /\ continued'[grun'.goal.instance] <= grun'.goal.count + overrun'
    <2>0. continued' = continued
      BY <1>2, <1>c, <1>v DEF Evaluating
    <2>1. CASE ReadGoal
      <3>1. grun'.goal = latest.goal /\ latest.goal # NoGoal
        <4>1. grun' # RunIdle
          BY <1>2 DEF RunIdle, Evaluating
        <4> QED BY <1>0, <2>1, <4>1, EvaluatorLocals
      <3>2. Known(latest.goal) /\ Counted(latest.goal)
        BY CopiesMembers DEF CountInv
      <3>3. latest.goal.instance \in 1..goals /\ latest.goal.instance \in 1..MaxGoals
        <4>1. latest.goal.instance \in 0..MaxGoals
          BY <1>0, RunFields, CheckpointType
        <4> QED BY <1>0, <3>1, <3>2, <4>1 DEF Known
      <3>4. goals' = goals /\ overrun' = overrun /\ Owed(latest.goal.instance) = 0
        BY <2>1 DEF ReadGoal, history, Owed, Verifying
      <3>5. continued[latest.goal.instance] \in Nat
        BY <1>0, <3>3
      <3>6. continued[latest.goal.instance] + 0 <= latest.goal.count + overrun
        BY <3>2, <3>3, <3>4 DEF Counted
      <3> QED BY <2>0, <3>1, <3>3, <3>4, <3>5, <3>6
    <2>2. CASE ~ReadGoal
      <3>1. Evaluating /\ grun'.goal = grun.goal
        BY <1>0, <1>2, <2>2, EvaluatingFrom
      <3>2. /\ grun.goal.instance \in 1..goals
            /\ continued[grun.goal.instance] <= grun.goal.count + overrun
        BY <3>1 DEF CountInv
      <3>3. continued[grun.goal.instance] \in Nat
        BY <1>0, <3>2, RunFields
      <3> QED BY <1>0, <1>g, <1>w, <2>0, <3>1, <3>2, <3>3, SMTT(30)
    <2> QED BY <2>1, <2>2
  <1>3. ASSUME NEW i \in 1..MaxGoals PROVE continued'[i] <= MaxContinuations + overrun'
    <2>1. continued[i] <= MaxContinuations + overrun /\ continued[i] \in Nat
      BY <1>0 DEF CountInv
    <2>2. CASE continued'[i] = continued[i]
      BY <1>0, <1>w, <2>1, <2>2
    <2>3. CASE continued'[i] # continued[i]
      <3>1. Verify /\ continued' # continued
        BY <1>c, <2>3
      <3>2. i = grun.goal.instance /\ continued'[i] = continued[i] + 1
        BY <1>0, <1>v, <2>3, <3>1
      <3> QED BY <1>0, <1>v, <1>w, <2>1, <3>1, <3>2, SMTT(30)
    <2> QED BY <2>2, <2>3
  <1> QED BY <1>1, <1>2, <1>3, CountLive DEF CountInv

\* Where the run can go on by itself from.
LEMMA OnPathFrom ==
    ASSUME GoalsTypeOK, DrawnInv, StepInv, GoalsNext, OnPath'
    PROVE  \/ AdmitRun
           \/ Verify /\ grun'.pc = "load"
           \/ OnPath /\ ~AbortRun /\ ~PutGoal /\ ~Verify
  <1>j. RunIdle.pc = "idle" /\ RunIdle.step = "record"
    BY DEF RunIdle
  <1>i. grun' # RunIdle
    BY DEF RunIdle, OnPath, Recording
  <1>1. CASE AdmitRun \/ LoadTurn \/ WriteTurn \/ LandTurn \/ AbortRun
    <2>1. ~AbortRun
      BY <1>i DEF AbortRun
    <2>2. ~AdmitRun => ~PutGoal /\ ~Verify /\ OnPath
      BY <1>1, <2>1, RunGoes, EvaluatorGoes DEF OnPath
    <2> QED BY <2>1, <2>2
  <1>2. CASE \E r \in GoalRequests :
               \/ SetGoal(r) \/ ClearGoal(r) \/ UpdateState(r)
               \/ CompactReads(r) \/ CompactNothing(r) \/ CompactDraws(r) \/ PutRequest(r)
    <2>1. grun'.pc = grun.pc /\ grun'.step = grun.step
      BY <1>2, RequestRun
    <2>2. ~AbortRun
      BY <1>i DEF AbortRun
    <2>3. ~PutGoal /\ ~Verify
      BY <2>1, EvaluatorGoes
    <2> QED BY <2>1, <2>2, <2>3 DEF OnPath, Recording
  <1>3. CASE \/ ReadGoal \/ ReadReceipt \/ Evaluate \/ RereadGoal \/ RecheckThread
             \/ PersistGoal \/ WriteGoal
    <2>1. ~AbortRun
      BY <1>i DEF AbortRun
    <2>2. ~PutGoal /\ ~Verify
      BY <1>3, EvaluatorGoes
    <2>3. OnPath
      <3>1. CASE PersistGoal \/ WriteGoal
        <4>1. grun'.step = grun.step /\ grun.pc \in {"persist", "reread"}
          BY <1>i, <3>1, EvaluatorGoes, EvaluatorLocals
        <4>2. grun'.pc \in {"idle", "reread", "put"}
          BY <3>1, EvaluatorGoes
        <4> QED BY <4>1, <4>2 DEF OnPath, Recording
      <3>2. CASE RereadGoal
        BY <3>2, EvaluatorGoes DEF OnPath, Recording
      <3> QED BY <1>3, <3>1, <3>2, EvaluatorGoes DEF OnPath
    <2> QED BY <2>1, <2>2, <2>3
  <1>4. CASE PutGoal
    BY <1>4, <1>i, EvaluatorLocals DEF OnPath, Recording
  <1>5. CASE Verify
    <2>1. \/ grun'.pc = "load"
          \/ grun'.step \in {"record", "retract"} /\ grun'.pc \in {"idle", "persist"}
      BY <1>5, VerifyCases
    <2> QED BY <1>5, <2>1 DEF OnPath, Recording
  <1> QED BY <1>1, <1>2, <1>3, <1>4, <1>5 DEF GoalsNext

\* Checkpoints that may become the latest have their type.
LEMMA LiveType ==
    ASSUME Shape, GoalsNext
    PROVE  \A x \in Live \cup Live' : x \in ThreadCheckpoint /\ x.goal.stalled \in Nat
  <1>1. \A x \in Live : x \in ThreadCheckpoint
    BY RunFields, CopiesMembers DEF Shape
  <1>2. GoalsTypeOK'
    BY ShapeStep DEF Shape
  <1>3. latest' \in ThreadCheckpoint /\ grun'.copy \in ThreadCheckpoint
    BY <1>2 DEF GoalsTypeOK, GoalRun
  <1>4. \A r \in GoalRequests : greq'[r].copy \in ThreadCheckpoint
    BY <1>2 DEF GoalsTypeOK, GoalRequest
  <1>5. \A x \in Live' : x \in ThreadCheckpoint
    BY <1>3, <1>4 DEF Live, Copies
  <1> QED BY <1>1, <1>5, CheckpointType

\* What comes from a checkpoint that has counted the turns has counted them too.
LEMMA KeptDerived ==
    ASSUME GoalsTypeOK, barren.turns > 0 => barren.instance \in 1..goals,
           NEW x, NEW y, Derives(x, y), Kept(y.goal)
    PROVE  Kept(x.goal)
  <1>0. goals \in Nat /\ overrun \in Nat /\ barren.turns \in Nat
    BY RunFields
  <1>1. CASE x.goal = y.goal
    BY <1>1
  <1>2. CASE x.goal = NoGoal \/ x.goal = NewGoal(goals + 1)
    <2>1. x.goal.stalled = 0 /\ x.goal.instance \notin 1..goals
      BY <1>0, <1>2 DEF NoGoal, NewGoal
    <2>2. CASE x.goal.instance = barren.instance
      <3>1. barren.turns = 0
        BY <1>0, <2>1, <2>2
      <3> QED BY <1>0, <2>1, <3>1 DEF Kept, KeptAs
    <2> QED BY <2>2 DEF Kept
  <1> QED BY <1>1, <1>2 DEF Derives

\* The turns the run makes in a row are counted in what it will read next.
LEMMA BarrenPath ==
    ASSUME Shape, FreshInv, StepInv, CountInv, BarrenInv, GoalsNext, OnPath'
    PROVE  (\A x \in Copies : Kept(x.goal))'
  <1>0. /\ GoalsTypeOK /\ DrawnInv /\ overrun \in Nat
        /\ barren \in [instance : 0..MaxGoals, reply : 0..MaxChanges, turns : Nat]
    BY RunFields DEF Shape, GoalsTypeOK
  <1>t. \A x \in Copies' : x.goal.stalled \in Nat
    BY LiveType DEF Live
  <1>1. CASE AdmitRun
    <2>1. barren'.turns = 0 /\ overrun' = overrun
      BY <1>0, <1>1 DEF AdmitRun
    <2>2. ASSUME NEW x \in Copies' PROVE Kept(x.goal)'
      <3>1. x.goal.stalled \in Nat
        BY <1>t
      <3> QED BY <1>0, <2>1, <3>1 DEF Kept, KeptAs
    <2> QED BY <2>2
  <1>2. CASE Verify /\ grun'.pc = "load"
    <2>1. grun.pc = "verify" /\ grun.goal.instance \in 1..goals
      BY <1>2 DEF Verify, CountInv, Evaluating
    <2>2. /\ overrun' = overrun
          /\ barren' = [instance |-> grun.goal.instance, reply |-> grun.reply, turns |-> Turns]
      BY <1>0, <1>2, VerifyCases
    <2>3. ASSUME NEW x \in Copies' PROVE Kept(x.goal)'
      <3>1. x \in Copies
        <4>1. latest' = latest /\ drawn' = drawn /\ greq' = greq
          BY <1>0, <1>2, VerifyCases
        <4>2. \A q \in GoalRequests : HasCopy(q)' = HasCopy(q)
          BY <4>1 DEF HasCopy, Counts
        <4> QED BY <1>2, <4>1, <4>2 DEF Copies, RunHasCopy
      <3>2. x.goal.instance = grun.goal.instance => KeptAs(x.goal, grun.reply, Turns)
        BY <2>1, <3>1 DEF BarrenInv, Verifying
      <3>3. /\ barren'.instance = grun.goal.instance /\ barren'.reply = grun.reply
            /\ barren'.turns = Turns
        BY <2>2
      <3> QED BY <2>2, <3>2, <3>3 DEF Kept, KeptAs
    <2> QED BY <2>3
  <1>3. CASE OnPath /\ ~AbortRun /\ ~PutGoal /\ ~Verify /\ ~AdmitRun
    <2>1. barren' = barren /\ overrun' = overrun
      BY <1>3, CountersBy
    <2>2. ASSUME NEW x \in Copies' PROVE Kept(x.goal)'
      <3>1. PICK y \in Copies : Derives(x, y)
        BY <1>3, CopiesDerived
      <3>2. Kept(x.goal)
        BY <1>0, <1>3, <3>1, KeptDerived DEF BarrenInv
      <3> QED BY <2>1, <3>2 DEF Kept, KeptAs
    <2> QED BY <2>2
  <1> QED BY <1>0, <1>1, <1>2, <1>3, OnPathFrom

\* The goal an evaluation starts from has counted the turns in a row, and so has
\* the decision that comes of it.
LEMMA BarrenDecision ==
    ASSUME Shape, FreshInv, StepInv, CountInv, BarrenInv, GoalsNext
    PROVE  /\ (grun.pc \in {"checkpoint", "evaluate"} => Kept(grun.goal))'
           /\ (grun.pc \in {"regoal", "recheck"} \/ grun.step = "continue" =>
                 (grun.result = "unmet" /\ Same => barren.turns <= grun.stalled + overrun))'
  <1>0. /\ GoalsTypeOK /\ DrawnInv /\ overrun \in Nat /\ barren.turns \in Nat
        /\ grun.stalled \in Nat /\ grun.goal.stalled \in Nat
    BY RunFields DEF Shape
  <1>j. RunIdle.pc = "idle" /\ RunIdle.step = "record"
    BY DEF RunIdle
  <1>i. ASSUME grun'.pc \notin {"checkpoint", "evaluate", "regoal", "recheck"},
               grun'.step # "continue"
        PROVE  /\ (grun.pc \in {"checkpoint", "evaluate"} => Kept(grun.goal))'
               /\ (grun.pc \in {"regoal", "recheck"} \/ grun.step = "continue" =>
                     (grun.result = "unmet" /\ Same => barren.turns <= grun.stalled + overrun))'
    BY <1>i
  <1>s. ASSUME SameDecision, barren' = barren, overrun' = overrun \/ overrun' = overrun + 1,
               grun.pc \in {"regoal", "recheck"} \/ grun.step = "continue"
        PROVE  grun'.result = "unmet" /\ Same' => barren'.turns <= grun'.stalled + overrun'
    <2>1. ASSUME grun'.result = "unmet", Same' PROVE barren'.turns <= grun'.stalled + overrun'
      <3>1. grun.result = "unmet" /\ Same /\ grun'.stalled = grun.stalled
        BY <1>s, <2>1 DEF Same, SameDecision
      <3>2. barren.turns <= grun.stalled + overrun
        BY <1>s, <3>1 DEF BarrenInv
      <3> QED BY <1>0, <1>s, <3>1, <3>2
    <2> QED BY <2>1
  <1>1. CASE AdmitRun \/ LoadTurn \/ WriteTurn \/ LandTurn \/ AbortRun
    <2>1. WriteTurn => grun'.step = "record"
      BY <1>0, RunGoes DEF StepInv, Recording, Verifying
    <2> QED BY <1>0, <1>1, <1>i, <2>1, RunGoes
  <1>2. CASE \E r \in GoalRequests :
               \/ SetGoal(r) \/ ClearGoal(r) \/ UpdateState(r)
               \/ CompactReads(r) \/ CompactNothing(r) \/ CompactDraws(r) \/ PutRequest(r)
    <2>1. /\ grun'.pc = grun.pc /\ grun'.goal = grun.goal /\ grun'.reply = grun.reply
          /\ grun'.result = grun.result /\ grun'.stalled = grun.stalled /\ grun'.step = grun.step
          /\ UNCHANGED <<barren, overrun>>
      BY <1>0, <1>2, RequestRun
    <2> QED BY <2>1 DEF BarrenInv, Kept, KeptAs, Same
  <1>3. CASE ReadGoal
    <2>0. grun.pc = "goal" /\ UNCHANGED <<barren, overrun>> /\ grun.step = "record"
      BY <1>3 DEF ReadGoal, history, StepInv, Recording, Verifying
    <2>1. CASE grun' = RunIdle
      BY <1>i, <1>j, <2>1
    <2>2. CASE grun'.goal = latest.goal /\ grun'.step = grun.step
      <3>1. Kept(latest.goal)
        BY <2>0, CopiesMembers DEF BarrenInv, OnPath
      <3>2. grun'.pc \notin {"regoal", "recheck"}
        BY <1>0, <1>3, EvaluatorGoes
      <3> QED BY <2>0, <2>2, <3>1, <3>2 DEF Kept, KeptAs
    <2> QED BY <1>0, <1>3, <2>1, <2>2, EvaluatorLocals
  <1>4. CASE ReadReceipt
    <2>0. /\ grun.pc = "checkpoint" /\ UNCHANGED <<barren, overrun>> /\ grun.step = "record"
          /\ grun'.pc \notin {"regoal", "recheck"} /\ grun'.goal = grun.goal
          /\ grun'.step = grun.step
      BY <1>0, <1>4, EvaluatorGoes, EvaluatorLocals
         DEF ReadReceipt, history, StepInv, Recording, Verifying
    <2> QED BY <2>0 DEF BarrenInv, Kept, KeptAs
  <1>5. CASE Evaluate
    <2>0. /\ grun.pc = "evaluate" /\ grun'.pc = "regoal" /\ UNCHANGED <<barren, overrun>>
          /\ grun'.goal = grun.goal /\ grun'.reply = grun.reply
          /\ grun'.stalled = Stalled(grun'.result, grun.reply)
      BY <1>0, <1>5, EvaluatorGoes, EvaluatorLocals DEF Evaluate, history
    <2>1. ASSUME grun'.result = "unmet", Same' PROVE barren'.turns <= grun'.stalled + overrun'
      <3>1. barren.instance = grun.goal.instance /\ barren.reply = grun.reply
        BY <2>0, <2>1 DEF Same
      <3>2. KeptAs(grun.goal, grun.reply, barren.turns)
        BY <2>0, <3>1 DEF BarrenInv, Kept
      <3>3. barren.turns <= Stalled("unmet", grun.reply) + overrun
        <4>1. CASE grun.goal.key = <<"unmet", grun.reply>>
          BY <1>0, <3>2, <4>1 DEF KeptAs, Stalled
        <4>2. CASE grun.goal.key # <<"unmet", grun.reply>>
          BY <1>0, <3>2, <4>2 DEF KeptAs, Stalled
        <4> QED BY <4>1, <4>2
      <3> QED BY <2>0, <2>1, <3>3
    <2> QED BY <2>0, <2>1
  <1>6. CASE RereadGoal \/ RecheckThread \/ PersistGoal \/ WriteGoal
    <2>0. barren' = barren /\ overrun' = overrun
      BY <1>6 DEF RereadGoal, RecheckThread, PersistGoal, WriteGoal, history
    <2>1. CASE grun' = RunIdle
      BY <1>i, <1>j, <2>1
    <2>2. CASE SameDecision
      <3>1. grun'.pc \notin {"checkpoint", "evaluate"}
        BY <1>0, <1>6, EvaluatorGoes
      <3>2. ASSUME grun'.pc \in {"regoal", "recheck"} \/ grun'.step = "continue",
                   grun' # RunIdle
            PROVE  grun.pc \in {"regoal", "recheck"} \/ grun.step = "continue"
        BY <1>0, <1>6, <3>2, EvaluatorGoes, EvaluatorLocals
      <3> QED BY <1>s, <2>0, <2>1, <2>2, <3>1, <3>2
    <2> QED BY <1>0, <1>6, <2>1, <2>2, EvaluatorLocals
  <1>7. CASE PutGoal
    <2>0. barren' = barren /\ (overrun' = overrun \/ overrun' = overrun + 1)
      BY <1>7 DEF PutGoal
    <2>1. CASE grun.step = "continue"
      BY <1>0, <1>7, <1>s, <2>0, <2>1, EvaluatorLocals
    <2>2. CASE grun.step # "continue"
      BY <1>0, <1>7, <1>i, <1>j, <2>2, EvaluatorLocals
    <2> QED BY <2>1, <2>2
  <1>8. CASE Verify
    <2>1. grun'.pc \in {"idle", "persist", "load"} /\ grun'.step \in {"record", "retract"}
      BY <1>0, <1>8, VerifyCases
    <2> QED BY <1>i, <2>1
  <1> QED BY <1>1, <1>2, <1>3, <1>4, <1>5, <1>6, <1>7, <1>8 DEF GoalsNext

\* Before one more turn, whatever goal the run may read after it has counted it.
LEMMA BarrenVerify ==
    ASSUME Shape, FreshInv, StepInv, CountInv, BarrenInv, GoalsNext, Verifying'
    PROVE  (\A x \in Copies : x.goal.instance = grun.goal.instance
                                 => KeptAs(x.goal, grun.reply, Turns))'
  <1>0. /\ GoalsTypeOK /\ DrawnInv /\ overrun \in Nat /\ barren.turns \in Nat
        /\ grun.stalled \in Nat /\ goals \in Nat
    BY RunFields DEF Shape
  <1>t. \A x \in Copies' : x.goal.stalled \in Nat
    BY LiveType DEF Live
  <1>1. CASE PutGoal
    <2>0. /\ grun.pc = "put" /\ barren' = barren /\ grun.step = "continue" /\ SameDecision
          /\ overrun' = IF grun.calm THEN overrun ELSE overrun + 1
      <3>1. grun.step # "continue" => grun'.pc = "idle"
        BY <1>0, <1>1, EvaluatorLocals DEF RunIdle
      <3> QED BY <1>0, <1>1, <3>1, EvaluatorLocals DEF PutGoal, Verifying
    <2>1. /\ Turns' = Turns /\ grun'.reply = grun.reply
          /\ grun'.goal.instance = grun.goal.instance
      BY <2>0 DEF Turns, Same, SameDecision
    <2>2. /\ grun.copy.goal.key = <<"unmet", grun.reply>>
          /\ grun.copy.goal.stalled = grun.stalled /\ grun.result = "unmet"
      BY <2>0 DEF StepInv
    <2>3. Same => barren.turns <= grun.stalled + overrun
      BY <2>0, <2>2 DEF BarrenInv
    <2>4. Turns \in Nat /\ Turns <= grun.stalled + 1 + overrun
      BY <1>0, <2>3 DEF Turns
    <2>5. overrun' \in Nat /\ overrun <= overrun'
      BY <1>0, <2>0
    <2>6. KeptAs(grun.copy.goal, grun.reply, Turns) /\ Turns <= grun.stalled + 1 + overrun'
      BY <1>0, <2>2, <2>4, <2>5 DEF KeptAs
    <2>7. ASSUME NEW x \in Copies', x.goal.instance = grun'.goal.instance
          PROVE  IF x.goal.key = <<"unmet", grun'.reply>>
                 THEN Turns' <= x.goal.stalled + 1 + overrun'
                 ELSE Turns' <= overrun'
      <3>1. CASE x = grun.copy
        BY <2>1, <2>2, <2>6, <3>1
      <3>2. CASE x # grun.copy
        <4>1. ~grun.calm /\ x \in Copies
          <5>1. x \in Live' /\ x \in Live
            BY <1>1, PutCopies DEF Live
          <5> QED BY <1>1, <3>2, <5>1, CalmRunPut, CopiesMembers
        <4>2. overrun' = overrun + 1 /\ x.goal.stalled \in Nat
          BY <1>t, <2>0, <4>1
        <4>3. CASE Same
          <5>1. KeptAs(x.goal, grun.reply, barren.turns)
            BY <2>0, <2>1, <2>7, <4>1, <4>3 DEF BarrenInv, OnPath, Recording, Kept, Same
          <5>2. Turns = barren.turns + 1
            BY <4>3 DEF Turns
          <5> QED BY <1>0, <2>1, <4>2, <5>1, <5>2 DEF KeptAs
        <4>4. CASE ~Same
          <5>1. Turns = 1
            BY <4>4 DEF Turns
          <5> QED BY <1>0, <2>1, <4>2, <5>1
        <4> QED BY <4>3, <4>4
      <3> QED BY <3>1, <3>2
    <2> QED BY <2>7 DEF KeptAs
  <1>2. CASE ~PutGoal
    <2>1. Verifying /\ SameDecision
      BY <1>0, <1>2, EvaluatingFrom
    <2>2. ~Verify /\ ~AdmitRun /\ ~AbortRun
      BY <1>0, EvaluatorGoes, RunGoes DEF Verifying
    <2>3. barren' = barren /\ overrun' = overrun
      BY <1>2, <2>2, CountersBy
    <2>4. /\ Turns' = Turns /\ grun'.reply = grun.reply
          /\ grun'.goal.instance = grun.goal.instance /\ grun.goal.instance \in 1..goals
      BY <2>1, <2>3 DEF Turns, Same, SameDecision, CountInv, Evaluating, Verifying
    <2>5. ASSUME NEW x \in Copies', x.goal.instance = grun'.goal.instance
          PROVE  IF x.goal.key = <<"unmet", grun'.reply>>
                 THEN Turns' <= x.goal.stalled + 1 + overrun'
                 ELSE Turns' <= overrun'
      <3>1. PICK y \in Copies : Derives(x, y)
        BY <1>2, <2>2, CopiesDerived
      <3>2. x.goal = y.goal
        <4>1. x.goal.instance \in 1..goals
          BY <2>4, <2>5
        <4>2. NoGoal.instance = 0 /\ NewGoal(goals + 1).instance = goals + 1
          BY DEF NoGoal, NewGoal
        <4> QED BY <1>0, <3>1, <4>1, <4>2 DEF Derives
      <3>3. KeptAs(x.goal, grun.reply, Turns)
        BY <2>1, <2>4, <2>5, <3>2 DEF BarrenInv
      <3> QED BY <2>3, <2>4, <3>3 DEF KeptAs
    <2> QED BY <2>5 DEF KeptAs
  <1> QED BY <1>1, <1>2

\* BarrenInv is inductive: no run makes more turns in a row with the same reply
\* than it may.
LEMMA BarrenStep ==
    ASSUME Shape, FreshInv, StepInv, CountInv, BarrenInv, GoalsNext
    PROVE  BarrenInv'
  <1>0. /\ GoalsTypeOK /\ overrun \in Nat /\ barren.turns \in Nat /\ MaxNoProgress \in Nat
        /\ grun.stalled \in Nat
        /\ barren \in [instance : 0..MaxGoals, reply : 0..MaxChanges, turns : Nat]
    BY RunFields, GoalsAssumption DEF Shape, GoalsTypeOK
  <1>g. goals \in Nat /\ goals' \in Nat /\ goals <= goals'
    BY <1>0, GoalsGrow
  <1>w. overrun' \in Nat /\ overrun <= overrun'
    <2>1. CASE PutGoal
      BY <1>0, <2>1 DEF PutGoal
    <2> QED BY <1>0, <2>1, CountersBy
  <1>1. /\ barren'.turns > 0 => barren'.instance \in 1..goals'
        /\ barren'.turns <= MaxNoProgress + overrun'
    <2>1. CASE barren' = barren
      BY <1>0, <1>g, <1>w, <2>1 DEF BarrenInv
    <2>2. CASE AdmitRun
      <3>1. barren'.turns = 0
        BY <1>0, <2>2 DEF AdmitRun
      <3>2. PICK n \in Nat : n = overrun'
        BY <1>w
      <3>3. 0 <= MaxNoProgress + n /\ ~(0 > 0)
        BY GoalsAssumption
      <3> QED BY <3>1, <3>2, <3>3
    <2>3. CASE Verify /\ barren' # barren
      <3>1. grun.pc = "verify"
        BY <2>3 DEF Verify
      <3>2. /\ barren' = [instance |-> grun.goal.instance, reply |-> grun.reply, turns |-> Turns]
            /\ goals' = goals
        BY <1>0, <2>3, VerifyCases
      <3>3. grun.step = "continue" /\ grun.result = "unmet" /\ grun.stalled < MaxNoProgress
        BY <3>1 DEF StepInv, Verifying
      <3>4. Same => barren.turns <= grun.stalled + overrun
        BY <3>3 DEF BarrenInv
      <3>5. Turns \in Nat /\ Turns <= MaxNoProgress + overrun
        BY <1>0, <3>3, <3>4 DEF Turns
      <3>6. grun.goal.instance \in 1..goals
        BY <3>1 DEF CountInv, Evaluating
      <3> QED BY <1>0, <1>w, <3>2, <3>5, <3>6
    <2> QED BY <2>1, <2>2, <2>3, CountersBy
  <1> QED BY <1>1, BarrenPath, BarrenDecision, BarrenVerify DEF BarrenInv

-----------------------------------------------------------------------------

\* The inductive invariant holds at first and every step keeps it.
LEMMA GInvInductive ==
    /\ GoalsInit => GInv
    /\ GInv /\ [GoalsNext]_goalVars => GInv'
  <1>1. ASSUME GoalsInit PROVE GInv
    <2>0. /\ MaxGoals \in Nat \ {0} /\ MaxContinuations \in Nat /\ MaxNoProgress \in Nat
          /\ MaxGoalRuns \in Nat /\ MaxChanges \in Nat
      BY GoalsAssumption
    <2>1. /\ grun.pc = "idle" /\ grun.step = "record" /\ grun.goal = NoGoal
          /\ \A r \in GoalRequests : greq[r].pc = "idle"
          /\ drawn = <<>> /\ \A w : ~Counts(w)
      BY <1>1 DEF GoalsInit, RunIdle, RequestIdle, Counts
    <2>2. GoalsTypeOK
      <3>1. NewGoal(1) \in ThreadGoal /\ Nothing \in ThreadCheckpoint
        BY <2>0, ConstantTypes
      <3>2. latest \in ThreadCheckpoint
        BY <1>1, <3>1 DEF GoalsInit, ThreadCheckpoint
      <3>3. grun \in GoalRun /\ greq \in [GoalRequests -> GoalRequest]
        BY <1>1, ConstantTypes DEF GoalsInit
      <3>4. continued \in [1..MaxGoals -> Nat]
        BY <1>1 DEF GoalsInit
      <3>5. barren \in [instance : 0..MaxGoals, reply : 0..MaxChanges, turns : Nat]
        BY <1>1, <2>0 DEF GoalsInit
      <3>6. drawn \in Seq(GoalRequests \cup {"run"})
        BY <2>1
      <3> QED BY <1>1, <2>0, <3>2, <3>3, <3>4, <3>5, <3>6 DEF GoalsInit, GoalsTypeOK
    <2>3. DrawnInv /\ LockInv /\ CalmInv
      BY <2>1 DEF DrawnInv, LockInv, CalmInv, Holds
    <2>4. Live = {latest} /\ Copies = {latest}
      BY <2>1 DEF Live, Copies, HasCopy, RunHasCopy
    <2>5. latest.goal.instance = 1
      BY <1>1 DEF GoalsInit, NewGoal, NoGoal, Nothing
    <2>6. FreshInv
      BY <1>1, <2>1, <2>4 DEF GoalsInit, FreshInv, Fresh
    <2>7. StepInv
      BY <2>1 DEF StepInv, Verifying
    <2>8. CountInv
      <3>1. latest.goal.count = 0 /\ \A i \in 1..MaxGoals : continued[i] = 0 /\ Owed(i) = 0
        <4>1. latest.goal.count = 0
          BY <1>1 DEF GoalsInit, NewGoal, NoGoal, Nothing
        <4>2. \A i \in 1..MaxGoals : continued[i] = 0
          BY <1>1 DEF GoalsInit
        <4>3. \A i : Owed(i) = 0
          BY <2>1 DEF Owed, Verifying
        <4> QED BY <4>1, <4>2, <4>3
      <3>2. overrun = 0 /\ goals = 1 /\ ~Evaluating
        BY <1>1, <2>1 DEF GoalsInit, Evaluating
      <3> QED BY <2>0, <2>4, <2>5, <3>1, <3>2 DEF CountInv, Known, Counted
    <2>9. BarrenInv
      <3>1. barren.turns = 0 /\ overrun = 0 /\ ~OnPath /\ ~Verifying
        BY <1>1, <2>1 DEF GoalsInit, OnPath, Recording, Verifying
      <3> QED BY <2>0, <2>1, <3>1 DEF BarrenInv
    <2> QED BY <2>2, <2>3, <2>6, <2>7, <2>8, <2>9 DEF GInv
  <1>2. ASSUME GInv, GoalsNext PROVE GInv'
    <2>1. Shape /\ FreshInv /\ StepInv /\ CountInv /\ BarrenInv
      BY <1>2 DEF GInv, Shape
    <2>2. Shape' /\ FreshInv' /\ StepInv' /\ CountInv' /\ BarrenInv'
      BY <1>2, <2>1, ShapeStep, FreshStep, StepStep, CountStep, BarrenStep
    <2> QED BY <2>2 DEF GInv, Shape
  <1>3. ASSUME GInv, UNCHANGED goalVars PROVE GInv'
    <2>1. /\ UNCHANGED <<latest, drawn, goals, changes, lock, runs, grun, greq, settled, retired>>
          /\ UNCHANGED <<continued, barren, overrun>>
      BY <1>3 DEF goalVars
    <2>2. GoalsTypeOK' /\ DrawnInv' /\ LockInv' /\ CalmInv'
      BY <1>3, <2>1 DEF GInv, GoalsTypeOK, DrawnInv, LockInv, CalmInv, Holds, IsLast, Counts,
                        InTurn, Compacting
    <2>3. Live' = Live /\ Copies' = Copies
      BY <2>1 DEF Live, Copies, HasCopy, RunHasCopy, Counts
    <2>4. FreshInv' /\ StepInv'
      BY <1>3, <2>1, <2>3 DEF GInv, FreshInv, Fresh, StepInv, Recording, Verifying
    <2>5. CountInv'
      BY <1>3, <2>1, <2>3 DEF GInv, CountInv, Known, Counted, Owed, Evaluating, Verifying
    <2>6. BarrenInv'
      BY <1>3, <2>1, <2>3
         DEF GInv, BarrenInv, Kept, KeptAs, OnPath, Recording, Verifying, Same, Turns
    <2> QED BY <2>2, <2>4, <2>5, <2>6 DEF GInv
  <1> QED BY <1>1, <1>2, <1>3

\* Every variable of the thread, the run and the requests has its type.
THEOREM GoalsTypeCorrect == GoalsSpec => []GoalsTypeOK
  <1>1. GInv => GoalsTypeOK
    BY DEF GInv
  <1> QED BY <1>1, GInvInductive, PTL DEF GoalsSpec

\* Whatever the requests and the runs do, no later copy of an older checkpoint
\* takes a message out of the thread, or brings back a goal the user has cleared
\* or replaced, when nobody whom no lock keeps away was at work.
THEOREM UndisturbedStaysHolds == GoalsSpec => []UndisturbedStays
  <1>1. GInv => UndisturbedStays
    BY CopiesMembers DEF GInv, FreshInv, Fresh, UndisturbedStays
  <1> QED BY <1>1, GInvInductive, PTL DEF GoalsSpec

\* No goal gets more continuation turns than its limit, over all runs, and no run
\* more in a row with the same reply, but for the evaluations that an update of the
\* state has hidden.
THEOREM ContinuationsBoundedHolds == GoalsSpec => []ContinuationsBounded
  <1>1. GInv => ContinuationsBounded
    BY DEF GInv, CountInv, BarrenInv, ContinuationsBounded
  <1> QED BY <1>1, GInvInductive, PTL DEF GoalsSpec
=============================================================================
