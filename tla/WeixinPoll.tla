----------------------------- MODULE WeixinPoll ------------------------------
(***************************************************************************)
(* The poll loop of one WeChat channel (infr/im/weixin/weixin_adapter.py): *)
(* start_listening and stop_listening replace and end loops under a lock,  *)
(* a loop hands every message of a batch to the orchestration before it    *)
(* moves its cursor on, and nothing but the cursor tells the server what   *)
(* has been received.                                                      *)
(*                                                                         *)
(* Messages are numbered as the server got them; the ones without text or  *)
(* id, which the loop skips by design, are left out.                       *)
(***************************************************************************)
EXTENDS Naturals, FiniteSets

CONSTANTS
    Callers,       \* calls of start_listening and stop_listening
    Loops,         \* identities of poll loops
    MaxMessages,   \* bound
    NoLoop

VARIABLES
    caller,     \* call -> off, waiting for the old loop to start or stop, or done
    loop,       \* loop -> phase, cursor, next message, end of its batch, cancelled
    task,       \* _poll_tasks: the registered loop
    sent,       \* messages the server has
    confirmed,  \* the server's: the last cursor it was asked with
    accepted    \* messages that are in the inbox

pollVars == <<caller, loop, task, sent, confirmed, accepted>>

NotYet == [phase |-> "off", cursor |-> 0, at |-> 0, upto |-> 0, cancelled |-> FALSE]
Live == {l \in Loops : loop[l].phase \notin {"off", "ended"}}

Init ==
    /\ caller = [c \in Callers |-> [does |-> "off", old |-> NoLoop]]
    /\ loop = [l \in Loops |-> NotYet]
    /\ task = NoLoop
    /\ sent = 0 /\ confirmed = 0
    /\ accepted = {}

----------------------------------------------------------------------------
\* start_listening and stop_listening, both under _listen_lock

LockFree == \A c \in Callers : caller[c].does \in {"off", "done"}

\* The registered loop is cancelled and awaited; its stop event is set with
\* that, and ends no loop sooner.
CancelTask(c, does) ==
    /\ caller[c].does = "off" /\ LockFree
    /\ caller' = [caller EXCEPT ![c] = [does |-> does, old |-> task]]
    /\ loop' = IF task \in Live THEN [loop EXCEPT ![task].cancelled = TRUE] ELSE loop

Start(c) ==
    /\ CancelTask(c, "starts")
    /\ UNCHANGED <<task, sent, confirmed, accepted>>

Stop(c) ==
    /\ CancelTask(c, "stops")
    /\ task' = NoLoop
    /\ UNCHANGED <<sent, confirmed, accepted>>

InstallAtOnce(c) ==
    /\ caller[c].does = "starts"
    /\ \E l \in Loops :
         /\ loop[l] = NotYet
         /\ loop' = [loop EXCEPT ![l].phase = "notify"]
         /\ task' = l
    /\ caller' = [caller EXCEPT ![c].does = "done"]
    /\ UNCHANGED <<sent, confirmed, accepted>>

Install(c) ==
    /\ caller[c].does = "starts" /\ caller[c].old \notin Live
    /\ \E l \in Loops :
         /\ loop[l] = NotYet
         /\ loop' = [loop EXCEPT ![l].phase = "notify"]
         /\ task' = l
    /\ caller' = [caller EXCEPT ![c].does = "done"]
    /\ UNCHANGED <<sent, confirmed, accepted>>

\* The callback goes when the loop is gone, which never finds it missing; the
\* server is told afterwards.
Stopped(c) ==
    /\ caller[c].does = "stops" /\ caller[c].old \notin Live
    /\ caller' = [caller EXCEPT ![c].does = "done"]
    /\ UNCHANGED <<loop, task, sent, confirmed, accepted>>

----------------------------------------------------------------------------
\* _run_poll_loop

Send == sent < MaxMessages /\ sent' = sent + 1
        /\ UNCHANGED <<caller, loop, task, confirmed, accepted>>

In(l, phase) == loop[l].phase = phase /\ ~loop[l].cancelled

\* notifystart, whose failure is logged; the cursor begins empty. Also the end
\* of a wait after an error.
Goes(l) ==
    /\ \E phase \in {"notify", "backoff"} : In(l, phase)
    /\ loop' = [loop EXCEPT ![l].phase = "poll"]
    /\ UNCHANGED <<caller, task, sent, confirmed, accepted>>

\* getupdates: what comes after the cursor, any part of it. An empty cursor
\* stands for the last one the server was asked with.
Poll(l) ==
    LET from == IF loop[l].cursor = 0 THEN confirmed ELSE loop[l].cursor IN
    /\ In(l, "poll")
    /\ confirmed' = IF loop[l].cursor = 0 THEN confirmed ELSE loop[l].cursor
    /\ \E upto \in from..sent :
         loop' = [loop EXCEPT ![l].phase = "batch", ![l].at = from, ![l].upto = upto]
    /\ UNCHANGED <<caller, task, sent, accepted>>

\* An error, or credentials rejected (then notifystart once more): the loop
\* waits and asks again with the cursor it had.
PollFails(l) ==
    /\ In(l, "poll")
    /\ loop' = [loop EXCEPT ![l].phase = "backoff"]
    /\ UNCHANGED <<caller, task, sent, confirmed, accepted>>

HandOverRegardless(l) ==
    /\ In(l, "batch") /\ loop[l].at < loop[l].upto
    /\ loop' = [loop EXCEPT ![l].at = @ + 1]
    /\ accepted' \in {accepted, accepted \cup {loop[l].at + 1}}
    /\ UNCHANGED <<caller, task, sent, confirmed>>

\* A message goes to the callback, which tries five times to store it and
\* raises then (_persist_inbound_with_retry). Whether a failing attempt stored
\* it the loop cannot tell.
HandOver(l) ==
    LET m == loop[l].at + 1 IN
    /\ In(l, "batch") /\ loop[l].at < loop[l].upto
    /\ \/ accepted' = accepted \cup {m} /\ loop' = [loop EXCEPT ![l].at = m]
       \/ /\ accepted' \in {accepted, accepted \cup {m}}
          /\ loop' = [loop EXCEPT ![l].phase = "backoff"]
    /\ UNCHANGED <<caller, task, sent, confirmed>>

BatchDoneOneMore(l) ==
    /\ In(l, "batch") /\ loop[l].at = loop[l].upto
    /\ loop' = [loop EXCEPT ![l].phase = "poll", ![l].cursor = loop[l].upto + 1]
    /\ UNCHANGED <<caller, task, sent, confirmed, accepted>>

BatchDone(l) ==
    /\ In(l, "batch") /\ loop[l].at = loop[l].upto
    /\ loop' = [loop EXCEPT ![l].phase = "poll", ![l].cursor = loop[l].upto]
    /\ UNCHANGED <<caller, task, sent, confirmed, accepted>>

\* A cancellation ends the loop at whatever it awaits; a message that is being
\* stored may be stored or not.
Ends(l) ==
    /\ l \in Live /\ loop[l].cancelled
    /\ loop' = [loop EXCEPT ![l].phase = "ended"]
    /\ \/ UNCHANGED accepted
       \/ /\ loop[l].phase = "batch" /\ loop[l].at < loop[l].upto
          /\ accepted' = accepted \cup {loop[l].at + 1}
    /\ UNCHANGED <<caller, task, sent, confirmed>>

\* The process dies; the calls to come are those of its next life.
Restart ==
    /\ loop' = [l \in Loops |-> IF l \in Live THEN [loop[l] EXCEPT !.phase = "ended"] ELSE loop[l]]
    /\ caller' = [c \in Callers |-> IF caller[c].does = "off" THEN caller[c]
                                      ELSE [does |-> "done", old |-> NoLoop]]
    /\ task' = NoLoop
    /\ UNCHANGED <<sent, confirmed, accepted>>

Next ==
    \/ \E c \in Callers : Start(c) \/ Stop(c) \/ Install(c) \/ Stopped(c)
    \/ \E l \in Loops :
         Goes(l) \/ Poll(l) \/ PollFails(l) \/ HandOver(l) \/ BatchDone(l) \/ Ends(l)
    \/ Send \/ Restart

Spec == Init /\ [][Next]_pollVars

----------------------------------------------------------------------------
\* Properties

TypeOK ==
    /\ caller \in [Callers -> [does : {"off", "starts", "stops", "done"}, old : Loops \cup {NoLoop}]]
    /\ loop \in [Loops -> [phase : {"off", "notify", "poll", "batch", "backoff", "ended"},
                           cursor : 0..MaxMessages, at : 0..MaxMessages,
                           upto : 0..MaxMessages, cancelled : BOOLEAN]]
    /\ task \in Loops \cup {NoLoop}
    /\ sent \in 0..MaxMessages /\ confirmed \in 0..sent
    /\ accepted \subseteq 1..sent

\* No message is skipped: the server is told of no message that is not in the
\* inbox, through failures, restarts of the loop and of the process, and with
\* a stop in the middle of a batch (the cursor moves after the whole batch).
NothingIsSkipped == 1..confirmed \subseteq accepted

\* A channel has one loop at most, and none that is not registered unless a
\* call is ending it.
OneLoop ==
    \A l \in Live :
        /\ Live = {l}
        /\ l = task \/ \E c \in Callers : caller[c].does \in {"starts", "stops"} /\ caller[c].old = l
=============================================================================
