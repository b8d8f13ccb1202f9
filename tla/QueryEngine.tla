----------------------------- MODULE QueryEngine -----------------------------
(***************************************************************************)
(* The query engine of one session                                         *)
(* (application/session/session_query_engine.py) with the WebSocket        *)
(* handler that feeds it (ohs/ws/session_ws.py).                           *)
(*                                                                         *)
(* A prompt is submitted, or queued behind the run in progress, on the     *)
(* strength of a persisted status read earlier.  Submissions run one after *)
(* the other under the session's lock; each works on its own copy of the   *)
(* session and saves it whole.  Meanwhile cancels, steers and a restart    *)
(* reach into the same shared state.  No coroutine is suspended inside     *)
(* queue_guard, so every section under it is part of one step.             *)
(***************************************************************************)
EXTENDS Naturals, SequencesExt

CONSTANTS
  Messages,   \* client_message_ids, each with its prompt
  Cancels,    \* cancel requests
  MaxRuns,    \* bound: submissions ever made
  MaxSends,   \* bound: prompts sent by clients
  MaxSteers,  \* bound: steers
  MaxFaults,  \* bound: failed saves and restarts
  NoMessage

ASSUME ConstantsAssumption ==
  /\ MaxRuns \in Nat
  /\ MaxSends \in Nat
  /\ MaxSteers \in Nat
  /\ MaxFaults \in Nat
  /\ NoMessage \notin Messages

VARIABLES
  db,        \* the persisted session: status and user messages
  run,       \* submission -> pc, message, its copy of the session, outcome
  made,      \* submissions made so far
  line,      \* session_lock: its holder, then those who wait for it
  queue,     \* queued_messages
  ctx,       \* active_contexts: a submission, or 0
  flag,      \* the session is in cancelled_sessions
  active,    \* the session is in the gateway's _active_sessions
  connected, \* the gateway has a client
  seen,      \* message -> what its handler decided to do with it
  cancel,    \* cancel request -> its pc and its copy of the session
  steer,     \* the steer in progress
  sends, steers, faults,
  \* History, read by no guard:
  skipped,   \* why the queue was not served, or a status saved, since a run
  answered,  \* messages of the conversation whose run ended with a result
  hidden,    \* those whose result was stored behind a later user message
  targets    \* runs a cancel was requested for

vars == <<db, run, made, line, queue, ctx, flag, active, connected, seen,
          cancel, steer, sends, steers, faults,
          skipped, answered, hidden, targets>>
clients == <<seen, sends>>
steering == <<steer, steers>>
cancelling == <<cancel, targets>>

Runs == 1 .. MaxRuns
Statuses == {"idle", "running", "error"}
\* A user message; done: a RESULT follows it before the next one.
Entry == [id : Messages, done : BOOLEAN]
Session == [status : Statuses, msgs : Seq(Entry)]
Fresh == [status |-> "idle", msgs |-> <<>>]

Registered == {"started", "streaming", "concluding", "finishing"}
Held == Registered \cup {"checked", "loaded", "saving", "draining"}
Phases == Held \cup {"unused", "created", "waiting", "over"}
Results == {"result", "error"}
Run == [pc : Phases, msg : Messages \cup {NoMessage}, copy : Session,
        out : Results \cup {"none", "broken"}]
NoRun == [pc |-> "unused", msg |-> NoMessage, copy |-> Fresh, out |-> "none"]
Over == [NoRun EXCEPT !.pc = "over"]

Cancel == [pc : {"unused", "flagged", "cleared", "rewound", "over"},
           copy : Session]
Steer == [msg : Messages \cup {NoMessage}, run : 0 .. MaxRuns]
NoSteer == [msg |-> NoMessage, run |-> 0]

TypeOK ==
  /\ db \in Session
  /\ run \in [Runs -> Run]
  /\ made \in 0 .. MaxRuns
  /\ line \in Seq(Runs)
  /\ queue \in Messages \cup {NoMessage}
  /\ ctx \in 0 .. MaxRuns
  /\ ctx # 0 => line # <<>> /\ ctx = Head(line) /\ run[ctx].pc \in Registered
  /\ flag \in BOOLEAN /\ active \in BOOLEAN /\ connected \in BOOLEAN
  /\ seen \in [Messages -> {"none", "submit", "stale", "queue"}]
  /\ cancel \in [Cancels -> Cancel]
  /\ steer \in Steer
  /\ sends \in 0 .. MaxSends
  /\ steers \in 0 .. MaxSteers
  /\ faults \in 0 .. MaxFaults
  /\ skipped \subseteq {"dropped", "restored"}
  /\ answered \cup hidden \subseteq Messages
  /\ targets \subseteq Runs

Init ==
  /\ db = Fresh
  /\ run = [s \in Runs |-> NoRun]
  /\ made = 0
  /\ line = <<>>
  /\ queue = NoMessage
  /\ ctx = 0
  /\ flag = FALSE
  /\ active = FALSE
  /\ connected = FALSE
  /\ seen = [m \in Messages |-> "none"]
  /\ cancel = [c \in Cancels |-> [pc |-> "unused", copy |-> Fresh]]
  /\ steer = NoSteer
  /\ sends = 0
  /\ steers = 0
  /\ faults = 0
  /\ skipped = {}
  /\ answered = {}
  /\ hidden = {}
  /\ targets = {}

-----------------------------------------------------------------------------
(* The conversation                                                        *)

Has(ms, m) == \E i \in DOMAIN ms : ms[i].id = m

\* The first user message with this id is followed by its RESULT.
Completed(ms, m) ==
  \E i \in DOMAIN ms : /\ ms[i].id = m /\ ms[i].done
                       /\ \A j \in 1 .. i - 1 : ms[j].id # m

Asked(ms, m) == Append(ms, [id |-> m, done |-> FALSE])

\* A RESULT is appended: it follows the last user message.
Replied(ms) == IF ms = <<>> THEN ms ELSE [ms EXCEPT ![Len(ms)].done = TRUE]

\* Session.cancel_query drops the last user message and what follows it.
Rewound(d) ==
  IF d.status \in {"running", "idle"}
  THEN [status |-> "idle", msgs |-> IF d.msgs = <<>> THEN <<>>
                                                     ELSE Front(d.msgs)]
  ELSE d

(***************************************************************************)
(* save: merge re-reads the row - the identity map keeps no clean object   *)
(* alive - and writes every column in which the copy differs from it, so   *)
(* the row becomes the copy.  more: messages completed by the saver.       *)
(***************************************************************************)
Save(d, more) ==
  /\ db' = d
  /\ answered' = {m \in answered \cup more : Has(d.msgs, m)}

\* safe_create_task of a submission.
Spawn(m) ==
  /\ made < MaxRuns
  /\ made' = made + 1
  /\ run' = [run EXCEPT ![made + 1] = [NoRun EXCEPT !.pc = "created",
                                                    !.msg = m]]

-----------------------------------------------------------------------------
(* The client's prompts: _handle_send_prompt                               *)

Verdict(m) ==
  CASE Completed(db.msgs, m) -> "none"
    [] Has(db.msgs, m) /\ db.status = "running" ->
         IF connected THEN "none" ELSE "stale"
    [] db.status = "running" -> "queue"
    [] OTHER -> "submit"

\* The handler reads the session, then stores the attachments.
ReadSession(m) ==
  /\ seen[m] = "none"
  /\ sends < MaxSends
  /\ Verdict(m) # "none"
  /\ sends' = sends + 1
  /\ seen' = [seen EXCEPT ![m] = Verdict(m)]
  /\ UNCHANGED <<db, run, made, line, queue, ctx, flag, active, connected,
                 cancelling, steering, faults, skipped, answered, hidden>>

Submit(m) ==
  /\ seen[m] = "submit"
  /\ Spawn(m)
  /\ seen' = [seen EXCEPT ![m] = "none"]
  /\ UNCHANGED <<db, line, queue, ctx, flag, active, connected, cancelling,
                 steering, sends, faults, skipped, answered, hidden>>

\* ensure_session_idle: a run without a live process is given up.
EnsureIdle(m) ==
  /\ seen[m] = "stale"
  /\ \E alive \in BOOLEAN :
       IF db.status = "running" /\ ~active /\ ~(connected /\ alive)
       THEN Save([db EXCEPT !.status = "error"], {})
       ELSE UNCHANGED <<db, answered>>
  /\ seen' = [seen EXCEPT ![m] = "submit"]
  /\ UNCHANGED <<run, made, line, queue, ctx, flag, active, connected,
                 cancelling, steering, sends, faults, skipped, hidden>>

\* Mutant: queue_message does not look for the run that would drain it.
QueueAlways(m) ==
  /\ seen[m] = "queue"
  /\ IF connected
     THEN queue' = m /\ seen' = [seen EXCEPT ![m] = "none"]
     ELSE seen' = [seen EXCEPT ![m] = "stale"] /\ UNCHANGED queue
  /\ UNCHANGED <<db, run, made, line, ctx, flag, active, connected,
                 cancelling, steering, sends, faults, skipped, answered,
                 hidden>>

\* queue_message: the latest message wins; without a run it is submitted.
QueueMessage(m) ==
  /\ seen[m] = "queue"
  /\ \/ /\ ~connected
        /\ seen' = [seen EXCEPT ![m] = "stale"]
        /\ UNCHANGED <<queue, run, made>>
     \/ /\ connected
        /\ seen' = [seen EXCEPT ![m] = "none"]
        /\ IF ctx = 0 THEN Spawn(m) /\ UNCHANGED queue
                      ELSE queue' = m /\ UNCHANGED <<run, made>>
  /\ UNCHANGED <<db, line, ctx, flag, active, connected, cancelling,
                 steering, sends, faults, skipped, answered, hidden>>

\* clear_queued_message, asked for by the client.
ClearQueued ==
  /\ queue # NoMessage
  /\ queue' = NoMessage
  /\ UNCHANGED <<db, run, made, line, ctx, flag, active, connected, clients,
                 cancelling, steering, faults, skipped, answered, hidden>>

-----------------------------------------------------------------------------
(* One submission                                                          *)

Holds(s, pc) == line # <<>> /\ Head(line) = s /\ run[s].pc = pc
Becomes(s, pc) == run' = [run EXCEPT ![s].pc = pc]
\* The session lock is released; its next waiter holds it.
Leave(s) ==
  /\ run' = [run EXCEPT ![s] = Over]
  /\ line' = Tail(line)

\* submit_query up to the lock.
Begin(s) ==
  /\ run[s].pc = "created"
  /\ Becomes(s, "waiting")
  /\ active' = TRUE
  /\ line' = Append(line, s)
  /\ UNCHANGED <<db, made, queue, ctx, flag, connected, clients, cancelling,
                 steering, faults, skipped, answered, hidden>>

\* Mutant: a completed request is executed again.
AcknowledgeNothing(s) ==
  /\ Holds(s, "waiting")
  /\ Becomes(s, "checked")
  /\ UNCHANGED <<db, made, line, queue, ctx, flag, active, connected,
                 clients, cancelling, steering, faults, skipped, answered,
                 hidden>>

(***************************************************************************)
(* With the lock and a slot: _acknowledge_terminal_duplicate.  A completed *)
(* request returns at once, and leaves the session marked active.          *)
(***************************************************************************)
Acknowledge(s) ==
  /\ Holds(s, "waiting")
  /\ IF Completed(db.msgs, run[s].msg)
     THEN Leave(s)
     ELSE Becomes(s, "checked") /\ UNCHANGED line
  /\ UNCHANGED <<db, made, queue, ctx, flag, active, connected, clients,
                 cancelling, steering, faults, skipped, answered, hidden>>

\* _prepare_query reads the session ...
Load(s) ==
  /\ Holds(s, "checked")
  /\ run' = [run EXCEPT ![s].pc = "loaded", ![s].copy = db]
  /\ UNCHANGED <<db, made, line, queue, ctx, flag, active, connected,
                 clients, cancelling, steering, faults, skipped, answered,
                 hidden>>

\* Session.start_query and the user message, on the copy.
Started(r) ==
  [r EXCEPT !.pc = "started", !.copy.status = "running",
            !.copy.msgs = IF Has(@, r.msg) THEN @ ELSE Asked(@, r.msg)]

\* Mutant: preparing a query does not mark the session active once more.
StartUnmarked(s) ==
  /\ Holds(s, "loaded")
  /\ IF run[s].copy.status = "running"
     THEN Leave(s) /\ active' = FALSE /\ UNCHANGED ctx
     ELSE /\ run' = [run EXCEPT ![s] = Started(run[s])]
          /\ ctx' = s
          /\ UNCHANGED <<line, active>>
  /\ UNCHANGED <<db, made, queue, flag, connected, clients, cancelling,
                 steering, faults, skipped, answered, hidden>>

(***************************************************************************)
(* ... starts the query on its copy, and registers the context.  If the    *)
(* copy is RUNNING, start_query raises and submit_query marks it idle.     *)
(***************************************************************************)
Start(s) ==
  /\ Holds(s, "loaded")
  /\ IF run[s].copy.status = "running"
     THEN Leave(s) /\ active' = FALSE /\ UNCHANGED ctx
     ELSE /\ run' = [run EXCEPT ![s] = Started(run[s])]
          /\ active' = TRUE
          /\ ctx' = s
          /\ UNCHANGED line
  /\ UNCHANGED <<db, made, queue, flag, connected, clients, cancelling,
                 steering, faults, skipped, answered, hidden>>

\* _establish_stream: RUNNING is saved, the SDK is connected.
SaveRunning(s) ==
  /\ Holds(s, "started")
  /\ Becomes(s, "streaming")
  /\ Save(run[s].copy, {})
  /\ connected' = TRUE
  /\ skipped' = {}
  /\ UNCHANGED <<made, line, queue, ctx, flag, active, clients, cancelling,
                 steering, faults, hidden>>

\* It fails: no stream, straight to the error handling.
SaveRunningFails(s) ==
  /\ Holds(s, "started")
  /\ faults < MaxFaults
  /\ faults' = faults + 1
  /\ run' = [run EXCEPT ![s].pc = "concluding", ![s].out = "broken"]
  /\ UNCHANGED <<db, made, line, queue, ctx, flag, active, connected,
                 clients, cancelling, steering, skipped, answered, hidden>>

\* The stream consumer saves every two seconds, unless cancelled.
PeriodicSave(s) ==
  /\ Holds(s, "streaming")
  /\ ~flag
  /\ db # run[s].copy
  /\ Save(run[s].copy, {})
  /\ UNCHANGED <<run, made, line, queue, ctx, flag, active, connected,
                 clients, cancelling, steering, faults, skipped, hidden>>

(***************************************************************************)
(* The stream ends with a result - the SDK's, saved on arrival, or one the *)
(* engine makes up; both may be errors - or breaks for good.  Retries and  *)
(* continuations are inside.  A broken stream of a cancelled session skips *)
(* the handling of results and errors.                                     *)
(***************************************************************************)
StreamEnds(s, o) ==
  /\ Holds(s, "streaming")
  /\ LET copy == IF o = "broken" THEN run[s].copy
                 ELSE [run[s].copy EXCEPT !.msgs = Replied(@)]
     IN  /\ run' = [run EXCEPT
              ![s].copy = copy, ![s].out = o,
              ![s].pc = IF o = "broken" /\ flag THEN "finishing"
                                                ELSE "concluding"]
         /\ \/ o # "broken" /\ ~flag /\ Save(copy, {})
            \/ UNCHANGED <<db, answered>>
         /\ hidden' = IF o # "broken" /\ ~Completed(copy.msgs, run[s].msg)
                      THEN hidden \cup {run[s].msg} ELSE hidden
  /\ UNCHANGED <<made, line, queue, ctx, flag, active, connected, clients,
                 cancelling, steering, faults, skipped>>

\* Mutant: a completed query keeps its session RUNNING.
ConcludeRunning(s) ==
  /\ Holds(s, "concluding")
  /\ run' = [run EXCEPT ![s].pc = "finishing",
               ![s].copy.status = IF flag \/ run[s].out = "result"
                                  THEN @ ELSE "error"]
  /\ UNCHANGED <<db, made, line, queue, ctx, flag, active, connected,
                 clients, cancelling, steering, faults, skipped, answered,
                 hidden>>

\* _handle_result, _handle_error: complete_query, fail_query, or neither.
Conclude(s) ==
  /\ Holds(s, "concluding")
  /\ run' = [run EXCEPT
       ![s].pc = "finishing",
       ![s].copy.status = IF flag THEN @
                          ELSE IF run[s].out = "result" THEN "idle"
                                                        ELSE "error"]
  /\ UNCHANGED <<db, made, line, queue, ctx, flag, active, connected,
                 clients, cancelling, steering, faults, skipped, answered,
                 hidden>>

\* Mutant: the context of a cancelled run stays registered.
FinalizeRegistered(s) ==
  /\ Holds(s, "finishing")
  /\ active' = FALSE
  /\ flag' = FALSE
  /\ IF flag THEN Leave(s) /\ UNCHANGED ctx
             ELSE Becomes(s, "saving") /\ ctx' = 0 /\ UNCHANGED line
  /\ skipped' = IF flag THEN skipped \cup {"dropped"} ELSE skipped
  /\ UNCHANGED <<db, made, queue, connected, clients, cancelling, steering,
                 faults, answered, hidden>>

(***************************************************************************)
(* The context is removed; _finalize_query.  A cancelled session is not    *)
(* saved and its queue is not drained.                                     *)
(***************************************************************************)
Finalize(s) ==
  /\ Holds(s, "finishing")
  /\ ctx' = 0
  /\ active' = FALSE
  /\ flag' = FALSE
  /\ IF flag THEN Leave(s) ELSE Becomes(s, "saving") /\ UNCHANGED line
  /\ skipped' = IF flag THEN skipped \cup {"dropped"} ELSE skipped
  /\ UNCHANGED <<db, made, queue, connected, clients, cancelling, steering,
                 faults, answered, hidden>>

FinalSave(s) ==
  /\ Holds(s, "saving")
  /\ Becomes(s, "draining")
  /\ Save(run[s].copy, IF run[s].out = "broken" THEN {} ELSE {run[s].msg})
  /\ UNCHANGED <<made, line, queue, ctx, flag, active, connected, clients,
                 cancelling, steering, faults, skipped, hidden>>

\* Both attempts fail: fail_query raises, the session being RUNNING no more.
FinalSaveFails(s) ==
  /\ Holds(s, "saving")
  /\ faults < MaxFaults
  /\ faults' = faults + 1
  /\ Leave(s)
  /\ active' = FALSE
  /\ skipped' = skipped \cup {"dropped"}
  /\ UNCHANGED <<db, made, queue, ctx, flag, connected, clients, cancelling,
                 steering, answered, hidden>>

\* Mutant: the queued message is dispatched and stays in the queue.
DrainKeeps(s) ==
  /\ Holds(s, "draining")
  /\ line' = Tail(line)
  /\ run' = [run EXCEPT ![s] = Over]
  /\ UNCHANGED <<db, made, queue, ctx, flag, active, connected, clients,
                 cancelling, steering, faults, skipped, answered, hidden>>

\* The queued message, if any, becomes the next submission.
Drain(s) ==
  /\ Holds(s, "draining")
  /\ queue' = NoMessage
  /\ line' = Tail(line)
  /\ IF queue = NoMessage
     THEN run' = [run EXCEPT ![s] = Over] /\ UNCHANGED made
     ELSE /\ made < MaxRuns
          /\ made' = made + 1
          /\ run' = [run EXCEPT ![s] = Over,
                       ![made + 1] = [NoRun EXCEPT !.pc = "created",
                                                   !.msg = queue]]
  /\ UNCHANGED <<db, ctx, flag, active, connected, clients, cancelling,
                 steering, faults, skipped, answered, hidden>>

-----------------------------------------------------------------------------
(* cancel_query                                                            *)

\* The flag goes up; what is marked cancelled is the session, not a run.
RequestCancel(c) ==
  /\ cancel[c].pc = "unused"
  /\ cancel' = [cancel EXCEPT ![c].pc = "flagged"]
  /\ flag' = TRUE
  /\ targets' = targets \cup {s \in Runs : run[s].pc \notin {"unused", "over"}}
  /\ UNCHANGED <<db, run, made, line, queue, ctx, active, connected, clients,
                 steering, faults, skipped, answered, hidden>>

CancelClearsQueue(c) ==
  /\ cancel[c].pc = "flagged"
  /\ cancel' = [cancel EXCEPT ![c].pc = "cleared"]
  /\ queue' = NoMessage
  /\ UNCHANGED <<db, run, made, line, ctx, flag, active, connected, clients,
                 targets, steering, faults, skipped, answered, hidden>>

\* What a cancel writes back; results that its copy lacks are taken back too.
TakeBack(d) ==
  /\ db' = d
  /\ answered' = {m \in answered : \/ Completed(d.msgs, m)
                                   \/ Has(d.msgs, m) /\ m \in hidden}

(***************************************************************************)
(* After an interrupt, and at most two seconds of waiting for the run to   *)
(* become idle: the last exchange is taken back, in one transaction.  If   *)
(* /rewind yielded an SDK session id the copy will be saved once more.     *)
(***************************************************************************)
Rewind(c) ==
  /\ cancel[c].pc = "cleared"
  /\ TakeBack(Rewound(db))
  /\ \/ cancel' = [cancel EXCEPT ![c] = [pc |-> "over", copy |-> Fresh]]
     \/ /\ connected
        /\ cancel' = [cancel EXCEPT ![c] = [pc |-> "rewound",
                                            copy |-> Rewound(db)]]
  /\ UNCHANGED <<run, made, line, queue, ctx, flag, active, connected,
                 clients, targets, steering, faults, skipped, hidden>>

CancelSavesAgain(c) ==
  /\ cancel[c].pc = "rewound"
  /\ TakeBack(cancel[c].copy)
  /\ cancel' = [cancel EXCEPT ![c] = [pc |-> "over", copy |-> Fresh]]
  /\ UNCHANGED <<run, made, line, queue, ctx, flag, active, connected,
                 clients, targets, steering, faults, skipped, hidden>>

-----------------------------------------------------------------------------
(* steer_queued_message                                                    *)

\* The message leaves the queue for the run that is streaming.
ClaimSteer ==
  /\ steer = NoSteer
  /\ steers < MaxSteers
  /\ queue # NoMessage
  /\ ctx # 0
  /\ active
  /\ run[ctx].pc = "streaming"
  /\ steers' = steers + 1
  /\ steer' = [msg |-> queue, run |-> ctx]
  /\ queue' = NoMessage
  /\ UNCHANGED <<db, run, made, line, ctx, flag, active, connected, clients,
                 cancelling, faults, skipped, answered, hidden>>

\* The SDK took it; the context's session, in use or not, remembers it.
SteerAccepted ==
  /\ steer # NoSteer
  /\ run' = IF run[steer.run].pc = "over" THEN run
            ELSE [run EXCEPT ![steer.run].copy.msgs = Asked(@, steer.msg)]
  /\ steer' = NoSteer
  /\ UNCHANGED <<db, made, line, queue, ctx, flag, active, connected,
                 clients, cancelling, steers, faults, skipped, answered,
                 hidden>>

\* RuntimeError: it goes back, unless another message was queued.
SteerRejected ==
  /\ steer # NoSteer
  /\ queue' = IF queue = NoMessage THEN steer.msg ELSE queue
  /\ skipped' = skipped \cup {"restored"}
  /\ steer' = NoSteer
  /\ UNCHANGED <<db, run, made, line, ctx, flag, active, connected, clients,
                 cancelling, steers, faults, answered, hidden>>

\* Any other exception: nothing puts it back.
SteerRaises ==
  /\ steer # NoSteer
  /\ steer' = NoSteer
  /\ UNCHANGED <<db, run, made, line, queue, ctx, flag, active, connected,
                 clients, cancelling, steers, faults, skipped, answered,
                 hidden>>

-----------------------------------------------------------------------------
\* The client is disconnected: idle, retried, reconfigured, or stuck.
Disconnect ==
  /\ connected
  /\ connected' = FALSE
  /\ UNCHANGED <<db, run, made, line, queue, ctx, flag, active, clients,
                 cancelling, steering, faults, skipped, answered, hidden>>

\* The process restarts: InterruptedRunRecoveryService, before any request. Of the
\* tasks that wait in submit_query for a run nothing is cancelled but those of the
\* IM coordinator, which close cancels as the process shuts down; what they undo in
\* memory then (mark_idle) goes with the process.
Restart ==
  /\ faults < MaxFaults
  /\ faults' = faults + 1
  /\ db' = IF db.status = "running" THEN [db EXCEPT !.status = "error"] ELSE db
  /\ run' = [s \in Runs |-> IF run[s].pc = "unused" THEN NoRun ELSE Over]
  /\ line' = <<>>
  /\ queue' = NoMessage
  /\ ctx' = 0
  /\ flag' = FALSE
  /\ active' = FALSE
  /\ connected' = FALSE
  /\ seen' = [m \in Messages |-> "none"]
  /\ cancel' = [c \in Cancels |-> IF cancel[c].pc = "unused" THEN cancel[c]
                                  ELSE [pc |-> "over", copy |-> Fresh]]
  /\ steer' = NoSteer
  /\ UNCHANGED <<made, sends, steers, skipped, answered, hidden, targets>>

-----------------------------------------------------------------------------
Sending == \/ \E m \in Messages : ReadSession(m)
           \/ \E m \in Messages : Submit(m)
           \/ \E m \in Messages : EnsureIdle(m)
           \/ \E m \in Messages : QueueMessage(m)
           \/ ClearQueued

\* What a submission does by itself.
Advance(s) == \/ Begin(s) \/ Acknowledge(s) \/ Load(s) \/ Start(s)
              \/ SaveRunning(s)
              \/ \E o \in {"result", "error", "broken"} : StreamEnds(s, o)
              \/ Conclude(s) \/ Finalize(s) \/ FinalSave(s) \/ Drain(s)

Running == \E s \in Runs : \/ Advance(s) \/ PeriodicSave(s)
                           \/ SaveRunningFails(s) \/ FinalSaveFails(s)

Cancelling == \E c \in Cancels : \/ RequestCancel(c) \/ CancelClearsQueue(c)
                                 \/ Rewind(c) \/ CancelSavesAgain(c)

Steering == ClaimSteer \/ SteerAccepted \/ SteerRejected \/ SteerRaises

Next == Sending \/ Running \/ Cancelling \/ Steering \/ Disconnect \/ Restart

Spec == Init /\ [][Next]_vars

(***************************************************************************)
(* Every submission goes on, but for the stream itself: nothing makes an   *)
(* agent that lives and says nothing end its stream. The limit on silence, *)
(* CLAUDE_STREAM_MAX_SILENT_TIMEOUTS, is 0 by default, which is no limit.  *)
(***************************************************************************)
GoesOn(s) == run[s].pc # "streaming" /\ Advance(s)
FairSpec == Spec /\ \A s \in Runs : WF_vars(GoesOn(s))

-----------------------------------------------------------------------------
(* Properties                                                              *)

\* A run is before the point where it drains the queue.
Draining == \E s \in Runs : run[s].pc \in Registered \cup {"saving", "draining"}

(***************************************************************************)
(* A message is only queued while a run is on its way to drain the queue,  *)
(* although the handler that queues it read the status long before.  Two   *)
(* exceptions: the run was dropped - cancelled, or its final save failed - *)
(* and a rejected steer put the message back.                              *)
(***************************************************************************)
QueueIsServed == queue # NoMessage => Draining \/ skipped # {}

(***************************************************************************)
(* A request whose result is in the conversation is not executed a second  *)
(* time, whoever sends it again and when, unless its result was stored     *)
(* behind a later user message (see CompletedOnce).                        *)
(***************************************************************************)
AnsweredOnce ==
  \A s \in Runs : run[s].pc \in {"loaded", "started"} =>
    run[s].msg \notin answered \ hidden

(***************************************************************************)
(* The marks a session carries tell the run it has. While a run is         *)
(* registered the gateway counts its session as active, so the idle timer  *)
(* does not disconnect it and ensure_session_idle does not fail it, even   *)
(* when an earlier run has just marked the session idle. And a session     *)
(* persisted as RUNNING has a run, or its last run was dropped: cancelled, *)
(* or not saved.                                                           *)
(***************************************************************************)
MarksTellTheRun ==
  /\ ctx # 0 => active
  /\ db.status = "running" /\ line = <<>> => "dropped" \in skipped

(***************************************************************************)
(* A queued message leaves the queue: a run takes it, a later message, a   *)
(* cancel or a steer replaces it - or its run was dropped. What keeps it   *)
(* there for ever is one thing alone, a run whose stream never ends.       *)
(***************************************************************************)
StaysSilent(s) == <>[](run[s].pc = "streaming")
QueueDrains ==
  \/ \A m \in Messages : queue = m ~> queue # m \/ skipped # {}
  \/ \E s \in Runs : StaysSilent(s)

(***************************************************************************)
(* "Queueing at that point strands the message because the finalizer may   *)
(* already have drained the queue. Make the decision under the same guard" *)
(* (queue_message): no queued message is without a run to drain it, or a   *)
(* cancel about to clear it.                                               *)
(***************************************************************************)
NeverStranded ==
  queue # NoMessage => Draining \/ \E c \in Cancels : cancel[c].pc = "flagged"

(***************************************************************************)
(* "Return completed client requests without executing them a second time" *)
(* (_acknowledge_terminal_duplicate), whatever was steered into the run.   *)
(***************************************************************************)
CompletedOnce ==
  \A s \in Runs : run[s].pc \in {"loaded", "started"} =>
    run[s].msg \notin answered

(***************************************************************************)
(* "cancel the running query" (README): a run that is cancelled had been   *)
(* submitted when the cancel was requested.                                *)
(***************************************************************************)
CancelHitsItsRun ==
  \A s \in Runs : run[s].pc \in Registered /\ flag => s \in targets
=============================================================================
