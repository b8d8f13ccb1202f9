------------------------------ MODULE EventPump ------------------------------
(***************************************************************************)
(* The event pump of one Claude connection                                 *)
(* (infr/client/claude_event_pump.py), with the gateway code that calls it *)
(* (_execute_query, interrupt, _disconnect_unlocked of                     *)
(* infr/client/claude_agent_gateway.py).                                   *)
(*                                                                         *)
(* One reader takes the SDK's messages, which carry no turn number, and    *)
(* routes them to the active response turn.  A turn whose result may be an *)
(* intermediate one is kept open - until a settling delay passes, or until *)
(* its background tasks are over and a second result arrives - by three    *)
(* timers.  Every method runs under the pump's lock, so each is one step.  *)
(* A timer task that is cancelled before it has the lock never acts.       *)
(***************************************************************************)
EXTENDS Naturals, FiniteSets, SequencesExt

CONSTANTS
  Tasks,        \* background task ids
  MaxRetired,   \* _max_retired_task_ids
  MaxTurns,     \* bound: turns of the connection
  MaxMessages   \* bound: messages the SDK sends that belong to a turn

ASSUME ConstantsAssumption ==
  /\ MaxRetired \in Nat
  /\ MaxTurns \in Nat
  /\ MaxMessages \in Nat

VARIABLES
  turn,      \* the active ResponseTurn, NoTurn when there is none
  active,    \* its number, or 0
  begun,     \* _next_turn_id - 1
  retired,   \* _retired_task_order, oldest first
  reading,   \* the reader task is still in its loop
  closed,
  caller,    \* the turn whose _execute_query holds the operation lock, or 0
  sending,   \* ... which is still awaiting client.query
  messages,
  \* History, read by no guard:
  ends,      \* turn -> the endings put on its queue
  owner,     \* task -> the turn that saw it start first, or 0
  forgotten, \* tasks dropped from `retired' by its limit
  orphaned   \* turns whose caller was cancelled while sending

vars == <<turn, active, begun, retired, reading, closed, caller, sending,
          messages, ends, owner, forgotten, orphaned>>
connection == <<reading, closed>>
calls == <<caller, sending, orphaned>>

Turns == 1 .. MaxTurns
Phases == {"STREAMING", "SETTLING", "WAITING", "AWAITING", "INTERRUPTED",
           "TERMINAL"}
Timers == {"settle", "completion", "background"}
\* "spent": it ran to its end and the turn still refers to it.
TimerStates == {"off", "armed", "spent"}
NoTimers == [x \in Timers |-> "off"]

Turn == [phase : Phases, tasks : [Tasks -> {"unknown", "running", "over"}],
         order : Seq(Tasks), deferred : BOOLEAN, had : BOOLEAN,
         interrupted : BOOLEAN, timer : [Timers -> TimerStates]]
NoTurn == [phase |-> "TERMINAL", tasks |-> [t \in Tasks |-> "unknown"],
           order |-> <<>>, deferred |-> FALSE, had |-> FALSE,
           interrupted |-> FALSE, timer |-> NoTimers]

Ending == [by : {"result", "error_result", "deferred", "timeout", "failure"},
           running : SUBSET Tasks, interrupted : BOOLEAN]

TypeOK ==
  /\ turn \in Turn
  /\ active \in 0 .. MaxTurns
  /\ begun \in 0 .. MaxTurns
  /\ retired \in Seq(Tasks) /\ Len(retired) <= MaxRetired
  /\ reading \in BOOLEAN
  /\ closed \in BOOLEAN
  /\ caller \in 0 .. MaxTurns
  /\ sending \in BOOLEAN
  /\ messages \in 0 .. MaxMessages
  /\ ends \in [Turns -> Seq(Ending)]
  /\ owner \in [Tasks -> 0 .. MaxTurns]
  /\ forgotten \subseteq Tasks
  /\ orphaned \subseteq Turns

Init ==
  /\ turn = NoTurn
  /\ active = 0
  /\ begun = 0
  /\ retired = <<>>
  /\ reading = TRUE
  /\ closed = FALSE
  /\ caller = 0
  /\ sending = FALSE
  /\ messages = 0
  /\ ends = [n \in Turns |-> <<>>]
  /\ owner = [t \in Tasks |-> 0]
  /\ forgotten = {}
  /\ orphaned = {}

-----------------------------------------------------------------------------
(* Helpers on a turn record                                                *)

RunningTasks(r) == {t \in Tasks : r.tasks[t] = "running"}
Arm(r, x) == [r EXCEPT !.timer[x] = "armed"]
Cancel(r, X) ==
  [r EXCEPT !.timer = [x \in Timers |-> IF x \in X THEN "off" ELSE r.timer[x]]]
ResultTimers == {"settle", "completion"}

\* A task of the turn is running: _record_task_started and _progress.
TaskRuns(r, t) ==
  LET quiet == Cancel(r, ResultTimers)
      known == IF r.tasks[t] = "unknown" THEN Append(r.order, t) ELSE r.order
      timer == IF r.timer["background"] = "off"
               THEN Arm(quiet, "background").timer ELSE quiet.timer
  IN  [quiet EXCEPT !.tasks[t] = "running", !.order = known, !.had = TRUE,
                    !.phase = IF r.deferred THEN "WAITING" ELSE r.phase,
                    !.timer = timer]

\* Mutant: the background timer is not reset when the last task is over.
TaskEndsTimerKept(r, t) ==
  LET noted == [Cancel(r, ResultTimers) EXCEPT !.tasks[t] = "over",
                                               !.had = TRUE]
  IN  IF RunningTasks(noted) = {} /\ r.deferred
      THEN [Arm(noted, "completion") EXCEPT !.phase = "AWAITING"]
      ELSE noted

\* A task of the turn is over: _record_task_notification and its caller.
TaskEnds(r, t) ==
  LET noted == [Cancel(r, ResultTimers) EXCEPT !.tasks[t] = "over",
                                               !.had = TRUE]
      last == RunningTasks(noted) = {}
      quiet == IF last THEN Cancel(noted, {"background"}) ELSE noted
  IN  IF last /\ r.deferred
      THEN [Arm(quiet, "completion") EXCEPT !.phase = "AWAITING"]
      ELSE quiet

\* _record_result keeps the turn open with result deferred.
Defers(r) ==
  IF RunningTasks(r) # {}
  THEN [r EXCEPT !.deferred = TRUE, !.phase = "WAITING",
                 !.timer["background"] = IF @ = "off" THEN "armed" ELSE @]
  ELSE [Arm(r, "settle") EXCEPT !.deferred = TRUE, !.phase = "SETTLING"]

\* Mutant: leaving SETTLING does not arm the completion timer.
ContinuesUntimed(r) ==
  IF r.phase = "SETTLING"
  THEN [Cancel(r, {"settle"}) EXCEPT !.phase = "AWAITING"] ELSE r

\* Any other message, while the turn has a deferred result.
Continues(r) ==
  CASE r.phase = "SETTLING" ->
         [Arm(Cancel(r, {"settle"}), "completion") EXCEPT !.phase = "AWAITING"]
    [] r.phase = "AWAITING" -> Arm(r, "completion")
    [] OTHER -> r

\* Mutant: the memory of retired tasks has no limit.
EvictedNever(q) == 0

Evicted(q) == IF Len(q) > MaxRetired THEN Len(q) - MaxRetired ELSE 0

\* The members of S, in the order in which `order' names them.
InOrder(S, order) ==
  {q \in [1 .. Cardinality(S) -> S] :
     /\ ToSet(q) = S
     /\ \A i, j \in DOMAIN q : i < j =>
          \E k, l \in DOMAIN order :
            k < l /\ order[k] = q[i] /\ order[l] = q[j]}

(***************************************************************************)
(* _retire_tasks_locked: the turn's tasks, in the order it learnt of them, *)
(* are remembered until MaxRetired later ones push them out.               *)
(***************************************************************************)
Retire ==
  \E new \in InOrder(ToSet(turn.order) \ ToSet(retired), turn.order) :
    LET all == retired \o new
        k == Evicted(all)
    IN  /\ retired' = SubSeq(all, k + 1, Len(all))
        /\ forgotten' = forgotten \cup ToSet(SubSeq(all, 1, k))

(***************************************************************************)
(* _finalize_with_result_locked, _fail_turn_locked: turn n gets its last   *)
(* envelope and is the active turn no more.                                *)
(***************************************************************************)
EndTurn(n, by) ==
  /\ ends' = [ends EXCEPT ![n] =
       Append(@, [by |-> by, running |-> RunningTasks(turn),
                  interrupted |-> turn.interrupted])]
  /\ Retire
  /\ turn' = IF active = n THEN NoTurn ELSE turn
  /\ active' = IF active = n THEN 0 ELSE active

KeepTurn == UNCHANGED <<active, ends, retired, forgotten>>

-----------------------------------------------------------------------------
(* Calls                                                                   *)

(***************************************************************************)
(* _execute_query has the operation lock; begin_turn.  A closed pump, or   *)
(* one whose turn is still active, raises instead and changes nothing.     *)
(***************************************************************************)
BeginTurn ==
  /\ caller = 0
  /\ ~closed
  /\ active = 0
  /\ begun < MaxTurns
  /\ begun' = begun + 1
  /\ active' = begun + 1
  /\ turn' = [NoTurn EXCEPT !.phase = "STREAMING"]
  /\ caller' = begun + 1
  /\ sending' = TRUE
  /\ UNCHANGED <<retired, connection, messages, ends, owner, forgotten,
                 orphaned>>

\* client.query returned: the caller consumes the turn from now on.
QuerySent ==
  /\ sending
  /\ sending' = FALSE
  /\ UNCHANGED <<turn, active, begun, retired, connection, caller, messages,
                 ends, owner, forgotten, orphaned>>

\* Mutant: the turn of a query that could not be sent stays active.
QueryFailsSilently ==
  /\ sending
  /\ caller' = 0
  /\ sending' = FALSE
  /\ UNCHANGED turn /\ KeepTurn
  /\ UNCHANGED <<begun, connection, messages, owner, orphaned>>

\* client.query raised: fail_turn(turn), which ignores a turn not active.
QueryFails ==
  /\ sending
  /\ IF active = caller THEN EndTurn(caller, "failure")
                        ELSE UNCHANGED turn /\ KeepTurn
  /\ caller' = 0
  /\ sending' = FALSE
  /\ UNCHANGED <<begun, connection, messages, owner, orphaned>>

(***************************************************************************)
(* The caller is cancelled inside client.query.  CancelledError is no      *)
(* Exception, so neither fail_turn nor abandon_turn is called.             *)
(***************************************************************************)
CancelledWhileSending ==
  /\ sending
  /\ caller' = 0
  /\ sending' = FALSE
  /\ orphaned' = orphaned \cup {caller}
  /\ UNCHANGED <<turn, active, begun, retired, connection, messages, ends,
                 owner, forgotten>>

\* Mutant: abandon_turn does not check that the turn is still active.
AbandonAnyTurn ==
  /\ caller # 0 /\ ~sending
  /\ EndTurn(caller, "failure")
  /\ caller' = 0
  /\ UNCHANGED <<begun, connection, sending, messages, owner, orphaned>>

\* The caller leaves its loop, after the last envelope or cancelled before it.
AbandonTurn ==
  /\ caller # 0 /\ ~sending
  /\ IF active = caller THEN EndTurn(caller, "failure")
                        ELSE UNCHANGED turn /\ KeepTurn
  /\ caller' = 0
  /\ UNCHANGED <<begun, connection, sending, messages, owner, orphaned>>

\* interrupt: not under the operation lock.
InterruptTurn ==
  /\ active # 0
  /\ turn' = [turn EXCEPT !.interrupted = TRUE, !.phase = "INTERRUPTED"]
  /\ UNCHANGED <<active, begun, retired, connection, calls, messages, ends,
                 owner, forgotten>>

\* close, from a disconnect or the session's cleanup.
Close ==
  /\ ~closed
  /\ closed' = TRUE
  /\ reading' = FALSE
  /\ IF active # 0 THEN EndTurn(active, "failure")
                   ELSE UNCHANGED turn /\ KeepTurn
  /\ UNCHANGED <<begun, calls, messages, owner>>

-----------------------------------------------------------------------------
(* The reader task                                                         *)

\* receive_messages raises or ends: _fail_active_turn.  Nobody restarts it.
ReaderStops ==
  /\ reading
  /\ reading' = FALSE
  /\ IF active # 0 THEN EndTurn(active, "failure")
                   ELSE UNCHANGED turn /\ KeepTurn
  /\ UNCHANGED <<begun, closed, calls, messages, owner>>

\* A message reaches the active turn; without one it is dropped.
Routed ==
  /\ reading
  /\ active # 0
  /\ messages < MaxMessages
  /\ messages' = messages + 1
  /\ UNCHANGED <<begun, connection, calls>>

\* Mutant: a start is taken even of a task an earlier turn retired.
TaskStartedUnchecked(t) ==
  /\ Routed
  /\ turn' = TaskRuns(turn, t)
  /\ owner' = [owner EXCEPT ![t] = IF @ = 0 THEN active ELSE @]
  /\ KeepTurn

TaskStarted(t) ==
  /\ Routed
  /\ t \notin ToSet(retired)
  /\ turn' = TaskRuns(turn, t)
  /\ owner' = [owner EXCEPT ![t] = IF @ = 0 THEN active ELSE @]
  /\ KeepTurn

\* Late progress makes a task that was over run again.
TaskProgress(t) ==
  /\ Routed
  /\ turn.tasks[t] # "unknown"
  /\ turn' = TaskRuns(turn, t)
  /\ UNCHANGED owner
  /\ KeepTurn

TaskNotification(t) ==
  /\ Routed
  /\ turn.tasks[t] # "unknown"
  /\ turn' = TaskEnds(turn, t)
  /\ UNCHANGED owner
  /\ KeepTurn

\* Mutant: a turn that ever had tasks is ended although some still run.
ResultTooEarly(error) ==
  /\ Routed
  /\ IF error \/ turn.interrupted \/ turn.had
     THEN EndTurn(active, IF error THEN "error_result" ELSE "result")
     ELSE turn' = Defers(turn) /\ KeepTurn
  /\ UNCHANGED owner

Result(error) ==
  /\ Routed
  /\ IF \/ error
        \/ turn.interrupted
        \/ RunningTasks(turn) = {} /\ turn.had
     THEN EndTurn(active, IF error THEN "error_result" ELSE "result")
     ELSE turn' = Defers(turn) /\ KeepTurn
  /\ UNCHANGED owner

\* A session_state_changed marker is ignored while the result settles.
OtherMessage(marker) ==
  /\ Routed
  /\ turn' = IF marker /\ turn.phase = "SETTLING" THEN turn
                                                  ELSE Continues(turn)
  /\ UNCHANGED owner
  /\ KeepTurn

-----------------------------------------------------------------------------
(* Timers                                                                  *)

TimerRuns(x) ==
  /\ turn.timer[x] = "armed"
  /\ UNCHANGED <<begun, connection, calls, messages, owner>>

Spend(x) == turn' = [turn EXCEPT !.timer[x] = "spent"] /\ KeepTurn

\* _finalize_deferred_after, for the phase its timer was armed in.
DeferredTimer(x, expected) ==
  /\ TimerRuns(x)
  /\ IF turn.phase = expected /\ turn.deferred /\ RunningTasks(turn) = {}
     THEN EndTurn(active, "deferred")
     ELSE Spend(x)

SettleTimer == DeferredTimer("settle", "SETTLING")
CompletionTimer == DeferredTimer("completion", "AWAITING")

\* _fail_background_tasks_after: whatever runs is failed, and the turn ends.
BackgroundTimer ==
  /\ TimerRuns("background")
  /\ IF RunningTasks(turn) # {} THEN EndTurn(active, "timeout")
                                ELSE Spend("background")

-----------------------------------------------------------------------------
Calling == \/ BeginTurn \/ QuerySent \/ QueryFails \/ CancelledWhileSending
           \/ AbandonTurn \/ InterruptTurn \/ Close

Reading ==
  \/ ReaderStops
  \/ \E t \in Tasks : TaskStarted(t)
  \/ \E t \in Tasks : TaskProgress(t)
  \/ \E t \in Tasks : TaskNotification(t)
  \/ \E error \in BOOLEAN : Result(error)
  \/ \E marker \in BOOLEAN : OtherMessage(marker)

Timing == SettleTimer \/ CompletionTimer \/ BackgroundTimer

Next == Calling \/ Reading \/ Timing

Spec == Init /\ [][Next]_vars

\* Only time is fair: an armed timer that nobody cancels runs.
FairSpec == /\ Spec
            /\ WF_vars(SettleTimer)
            /\ WF_vars(CompletionTimer)
            /\ WF_vars(BackgroundTimer)

-----------------------------------------------------------------------------
(* Properties                                                              *)

(***************************************************************************)
(* The consumer of every begun turn gets exactly one ending, when the turn *)
(* stops being active, however results, failures, timers, the caller's own *)
(* fail_turn or abandon_turn, an interrupt and a close race.               *)
(***************************************************************************)
OneEnding ==
  \A n \in Turns :
    Len(ends[n]) = IF n <= begun /\ n # active THEN 1 ELSE 0

(***************************************************************************)
(* A turn ends with a success, fresh or deferred, while one of its         *)
(* background tasks still runs only if the user interrupted it.            *)
(***************************************************************************)
ResultWaitsForTasks ==
  \A n \in Turns : \A i \in DOMAIN ends[n] :
    ends[n][i].by \in {"result", "deferred"} =>
      ends[n][i].running = {} \/ ends[n][i].interrupted

(***************************************************************************)
(* Whatever keeps a turn open is timed: running tasks by the background    *)
(* timer, a deferred result without running tasks by the timer of the      *)
(* phase the turn is in.  A turn that was interrupted is excepted for the  *)
(* second half (see DeferredResultIsUsed).                                 *)
(***************************************************************************)
EveryWaitIsTimed ==
  active # 0 =>
    /\ RunningTasks(turn) # {} => turn.timer["background"] = "armed"
    /\ turn.deferred /\ RunningTasks(turn) = {} /\ ~turn.interrupted =>
         \/ turn.phase = "SETTLING" /\ turn.timer["settle"] = "armed"
         \/ turn.phase = "AWAITING" /\ turn.timer["completion"] = "armed"

(***************************************************************************)
(* A background task belongs to the first turn that saw it start: no late  *)
(* event of it is taken for a task of a later turn, unless MaxRetired      *)
(* other tasks were retired since.                                         *)
(***************************************************************************)
TasksStayWithTheirTurn ==
  \A t \in Tasks \ forgotten :
    active # 0 /\ turn.tasks[t] # "unknown" => owner[t] = active

(***************************************************************************)
(* A query that gets the operation lock never finds another turn active,   *)
(* unless the caller of that turn was cancelled inside client.query.       *)
(***************************************************************************)
ActiveTurnHasCaller == active # 0 => active = caller \/ active \in orphaned

\* The turn is kept open for its tasks or by a result it deferred.
Waiting == active # 0 /\ (turn.deferred \/ RunningTasks(turn) # {})

(***************************************************************************)
(* No turn that nobody interrupted waits for ever for tasks or with a      *)
(* result it deferred, even if the SDK never sends another message.        *)
(***************************************************************************)
WaitsEnd == []<>(~Waiting \/ turn.interrupted)

(***************************************************************************)
(* "test_uses_deferred_result_when_sdk_omits_second_result"                *)
(* (test_claude_event_pump.py): a deferred result ends its turn even if no *)
(* second result ever comes.                                               *)
(***************************************************************************)
DeferredResultIsUsed == []<>(~Waiting)
=============================================================================
