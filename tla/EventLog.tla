------------------------------ MODULE EventLog ------------------------------
(***************************************************************************)
(* What a stream bridge promises (runtime/stream_bridge/base.py): the log  *)
(* of one run's events, of which at most the newest Window are retained,   *)
(* and readers that get them in order, each once, missing none but those   *)
(* that are no longer retained, and the end after the last one.            *)
(*                                                                         *)
(* An event is its number, from 0; -1 stands for no event.                 *)
(***************************************************************************)
EXTENDS Integers

CONSTANTS Readers, Window

VARIABLES
    emitted,    \* events so far
    oldest,     \* the first event retained; emitted if there is none
    over,       \* no more events will come
    reader      \* each reader and the event it got last

logVars == <<emitted, oldest, over, reader>>

Init ==
    /\ emitted = 0 /\ oldest = 0 /\ over = FALSE
    /\ reader = [r \in Readers |-> [at |-> "away", last |-> -1]]

\* publish
Emit ==
    /\ ~over
    /\ emitted' = emitted + 1
    /\ oldest' = IF oldest + Window <= emitted THEN oldest + 1 ELSE oldest
    /\ UNCHANGED <<over, reader>>

\* publish_end
End ==
    /\ ~over /\ over' = TRUE
    /\ UNCHANGED <<emitted, oldest, reader>>

\* What is retained is given up, by cleanup or after a time.
Forget ==
    /\ oldest' = emitted
    /\ UNCHANGED <<emitted, over, reader>>

\* A reader comes, with the event it got last or without; one with an id that
\* means nothing may also begin at the end.
Subscribe(r, last) ==
    /\ reader[r].at # "reading"
    /\ reader' = [reader EXCEPT ![r] = [at |-> "reading", last |-> last]]
    /\ UNCHANGED <<emitted, oldest, over>>

\* The next event, or the first one that is retained, or one of those between.
Deliver(r, e) ==
    /\ reader[r].at = "reading"
    /\ reader[r].last < e /\ e < emitted
    /\ e = reader[r].last + 1 \/ e <= oldest
    /\ reader' = [reader EXCEPT ![r].last = e]
    /\ UNCHANGED <<emitted, oldest, over>>

\* The end, after the last event.
Finish(r) ==
    /\ reader[r].at = "reading" /\ over /\ reader[r].last = emitted - 1
    /\ reader' = [reader EXCEPT ![r].at = "done"]
    /\ UNCHANGED <<emitted, oldest, over>>

\* The end, as nothing is retained: the reader does not have to wait.
TurnAway(r) ==
    /\ reader[r].at # "done" /\ oldest = emitted
    /\ reader' = [reader EXCEPT ![r].at = "done"]
    /\ UNCHANGED <<emitted, oldest, over>>

Leave(r) ==
    /\ reader' = [reader EXCEPT ![r].at = "away"]
    /\ UNCHANGED <<emitted, oldest, over>>

Next ==
    \/ Emit \/ End \/ Forget
    \/ \E r \in Readers :
        \/ \E last \in {-1, reader[r].last, emitted - 1} : Subscribe(r, last)
        \/ \E e \in 0..(emitted - 1) : Deliver(r, e)
        \/ Finish(r) \/ TurnAway(r) \/ Leave(r)

Spec == Init /\ [][Next]_logVars
=============================================================================
