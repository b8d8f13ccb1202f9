----------------------------- MODULE MCServices -----------------------------
(***************************************************************************)
(* The services around the engine and the queues, each a module of its     *)
(* own with variables of its own: focus says which of them moves in a      *)
(* behaviour, the others stay as they began. Where two of them work on the *)
(* same row in the code, a session's, each has the moves of the others     *)
(* that concern it as actions of its own.                                  *)
(***************************************************************************)
EXTENDS Naturals, FiniteSets, TLC

CONSTANTS
    Parts,
    Calls, NoCall, MaxBreaks,
    Tasks, Runs, AutoUnbind, MaxDue, MaxEdits, MaxFailures,
    MaxTriggers,
    BindRequests, OtherRequests, ImSessions, Channels, Nobody, MaxTroubles,
    Callers, Loops, MaxMessages, NoLoop,
    Starters, Stoppers, Connections, MaxReconnects, NoConnection,
    LarkStarters, LarkStoppers, LarkConns, MaxErrors, Nothing,
    Queries, Services, MaxCrashes, NoQuery

VARIABLES
    focus,   \* the service that moves, one of Parts
    asking, future, slot, persisted, waiting, canceller, breaks, overlapped, stranded,
    row, actor, todo, marks, saved, job, bound, open, left, came, asked, repeats,
    expr, since, next, triggers,
    instance, bindings, listener, request, troubles, announced, disturbed,
    caller, loop, task, sent, confirmed, accepted,
    qq_call, qq_victim, qq_registered, conn, reconnects,
    lark_call, lark_victim, mine, lark_registered, stop, client, thread, halting, errors, slipped,
    session, op, turn, activity, cancelled, crashes, behind, overlaps, unsaved

requestVars ==
    <<asking, future, slot, persisted, waiting, canceller, breaks, overlapped, stranded>>
schedVars ==
    <<row, actor, todo, marks, saved, job, bound, open, left, came, asked, repeats>>
cronVars == <<expr, since, next, triggers>>
channelVars == <<instance, bindings, listener, request, troubles, announced, disturbed>>
pollVars == <<caller, loop, task, sent, confirmed, accepted>>
qqVars == <<qq_call, qq_victim, qq_registered, conn, reconnects>>
larkVars ==
    <<lark_call, lark_victim, mine, lark_registered, stop, client, thread, halting, errors, slipped>>
upkeepVars ==
    <<session, op, turn, activity, cancelled, crashes, behind, overlaps, unsaved>>

\* Every kind of expression, from times around midnight and the week's end, in
\* the half minutes CronTime counts.
Field(is, n) == [is |-> is, n |-> n]
Open == {Field("any", 0), Field("unreadable", 0)}
CronExpressions ==
    [minute : Open \cup {Field("every", n) : n \in {0, 45}} \cup {Field("at", n) : n \in {0, 30, 59}},
     hour : Open \cup {Field("every", 2)} \cup {Field("at", n) : n \in {0, 9, 23}},
     dow : Open \cup {Field("at", n) : n \in {0, 3, 6}}]
CronStarts ==
    UNION {{d * 2880 + t, d * 2880 + t + 1} : d \in {0, 2, 3, 6}, t \in {0, 1080, 1140, 2878}}

Requests == INSTANCE PermissionRequests WITH call <- asking
Sched == INSTANCE Scheduler
Cron == INSTANCE CronTime WITH
    Expressions <- CronExpressions, Starts <- CronStarts, Delays <- {0, 1, 3}
Binds == INSTANCE ImChannels
Weixin == INSTANCE WeixinPoll
Qq == INSTANCE QqGateway WITH
    call <- qq_call, victim <- qq_victim, registered <- qq_registered
Lark == INSTANCE LarkConnections WITH
    call <- lark_call, victim <- lark_victim, registered <- lark_registered,
    Starters <- LarkStarters, Stoppers <- LarkStoppers, Connections <- LarkConns
Upkeep == INSTANCE SessionUpkeep

vars == <<focus, requestVars, schedVars, cronVars, channelVars,
          pollVars, qqVars, larkVars, upkeepVars>>

\* The values of the parts' constants that stand for nothing are none of the
\* others; bounds are numbers.
ASSUME ServicesAssumption ==
    /\ NoCall \notin Calls /\ MaxBreaks \in Nat
    /\ "none" \notin Tasks /\ IsFiniteSet(Tasks)
    /\ NoLoop \notin Loops /\ MaxMessages \in Nat
    /\ NoConnection \notin Connections /\ MaxReconnects \in Nat
    /\ Nothing \notin LarkConns /\ LarkStarters \cap LarkStoppers = {} /\ MaxErrors \in Nat
    /\ NoQuery \notin Queries /\ Queries \cap Services = {} /\ MaxCrashes \in Nat
    /\ Nobody \notin BindRequests \cup ImSessions \cup Channels

\* What does not move is 0, which keeps the states small.
Init ==
    /\ focus \in Parts
    /\ IF focus = "requests" THEN Requests!Init ELSE
            /\ asking = 0 /\ future = 0 /\ slot = 0 /\ persisted = 0
            /\ waiting = 0 /\ canceller = 0 /\ breaks = 0 /\ overlapped = 0
            /\ stranded = 0
    /\ IF focus = "scheduler" THEN Sched!Init ELSE
            /\ row = 0 /\ actor = 0 /\ todo = 0 /\ marks = 0 /\ saved = 0
            /\ job = 0 /\ bound = 0 /\ open = 0 /\ left = 0 /\ came = 0
            /\ asked = 0 /\ repeats = 0
    /\ IF focus = "cron" THEN Cron!Init ELSE
            /\ expr = 0 /\ since = 0 /\ next = 0 /\ triggers = 0
    /\ IF focus = "channels" THEN Binds!Init ELSE
            /\ instance = 0 /\ bindings = 0 /\ listener = 0 /\ request = 0
            /\ troubles = 0 /\ announced = 0 /\ disturbed = 0
    /\ IF focus = "weixin" THEN Weixin!Init ELSE
            /\ caller = 0 /\ loop = 0 /\ task = 0 /\ sent = 0 /\ confirmed = 0
            /\ accepted = 0
    /\ IF focus = "qq" THEN Qq!Init ELSE
            /\ qq_call = 0 /\ qq_victim = 0 /\ qq_registered = 0 /\ conn = 0
            /\ reconnects = 0
    /\ IF focus = "lark" THEN Lark!Init ELSE
            /\ lark_call = 0 /\ lark_victim = 0 /\ mine = 0
            /\ lark_registered = 0 /\ stop = 0 /\ client = 0 /\ thread = 0
            /\ halting = 0 /\ errors = 0 /\ slipped = 0
    /\ IF focus = "upkeep" THEN Upkeep!Init ELSE
            /\ session = 0 /\ op = 0 /\ turn = 0 /\ activity = 0
            /\ cancelled = 0 /\ crashes = 0 /\ behind = 0 /\ overlaps = 0
            /\ unsaved = 0

Next ==
    \/ /\ focus = "requests" /\ Requests!Next
       /\ UNCHANGED <<focus, schedVars, cronVars, channelVars, pollVars,
                      qqVars, larkVars, upkeepVars>>
    \/ /\ focus = "scheduler" /\ Sched!Next
       /\ UNCHANGED <<focus, requestVars, cronVars, channelVars, pollVars,
                      qqVars, larkVars, upkeepVars>>
    \/ /\ focus = "cron" /\ Cron!Next
       /\ UNCHANGED <<focus, requestVars, schedVars, channelVars, pollVars,
                      qqVars, larkVars, upkeepVars>>
    \/ /\ focus = "channels" /\ Binds!Next
       /\ UNCHANGED <<focus, requestVars, schedVars, cronVars, pollVars,
                      qqVars, larkVars, upkeepVars>>
    \/ /\ focus = "weixin" /\ Weixin!Next
       /\ UNCHANGED <<focus, requestVars, schedVars, cronVars, channelVars,
                      qqVars, larkVars, upkeepVars>>
    \/ /\ focus = "qq" /\ Qq!Next
       /\ UNCHANGED <<focus, requestVars, schedVars, cronVars, channelVars,
                      pollVars, larkVars, upkeepVars>>
    \/ /\ focus = "lark" /\ Lark!Next
       /\ UNCHANGED <<focus, requestVars, schedVars, cronVars, channelVars,
                      pollVars, qqVars, upkeepVars>>
    \/ /\ focus = "upkeep" /\ Upkeep!Next
       /\ UNCHANGED <<focus, requestVars, schedVars, cronVars, channelVars,
                      pollVars, qqVars, larkVars>>

Spec == Init /\ [][Next]_vars

\* The instance takes the same values for what is interchangeable in one
\* service and what is in another: exchanging them everywhere changes nothing.
Symmetry == Permutations(Calls) \cup Permutations(Queries) \cup Permutations(Services)

----------------------------------------------------------------------------
\* The user's answers reach the tools that ask, and nothing of a request is
\* left when it is over (can_use_tool, resolve_user_response).
RequestsAreAnswered == focus = "requests" => Requests!AnswerReachesTheCall /\ Requests!NothingIsLeft

\* A task is executed as often as it comes due or is asked for (run_due_tasks),
\* its executions close their services and release their channels
\* (_run_task_query), and it comes due at the next time its expression names
\* (_next_time).
SchedulesAreKept ==
    /\ focus = "scheduler" => Sched!OncePerDue /\ Sched!ExecutionsReleaseTheirs
    /\ focus = "cron" => Cron!NextIsTheNext

\* "Every N hours" is every N hours (SchedulerDialog, _next_time).
EveryNHours == Cron!EveryNHours

\* Channels are listened to for the sessions they are bound to (bind, unbind),
\* and a binding whose end was announced is not in the table (_notify_unbound).
BindingsAgree ==
    focus = "channels" => Binds!ListenersFollowBindings /\ Binds!AnnouncedIsGone

\* One poll loop at a time, which confirms nothing that is not in the inbox
\* (WeixinAdapter). A connection to QQ that was stopped is over, and a heartbeat
\* beats for a socket somebody listens to (QqWsClient); one to Lark ends, unless
\* it was met at a moment the stop is not made for (LarkAdapter).
ConnectionsAreKept ==
    /\ focus = "weixin" => Weixin!NothingIsSkipped /\ Weixin!OneLoop
    /\ focus = "qq" => Qq!StoppedIsOver /\ Qq!HeartbeatListens
    /\ focus = "lark" => Lark!OtherStopsEndTheThread

\* The row's status tells which operation is at work (SessionApplicationService).
StatusTellsTheWork == focus = "upkeep" => Upkeep!StatusTellsTheWork
=============================================================================
