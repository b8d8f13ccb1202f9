------------------------------ MODULE Gateway -------------------------------
(***************************************************************************)
(* The connection of one session to its Claude process, and everybody who  *)
(* opens, uses or closes it (infr/client/claude_agent_gateway.py): the     *)
(* engine's run, the "/rewind" of a cancel or "/clear" (the side query),   *)
(* the idle timer, changes of the permission mode, reloads of plugins, and *)
(* other sessions, with which it shares the one _client_lock.              *)
(*                                                                         *)
(* Connections are numbered; so are the permission modes chosen and the    *)
(* plugin installations, so that a newer one can be told from an older.    *)
(* Turns are EventPump's; here one is begun, ends, or fails.               *)
(***************************************************************************)
EXTENDS Naturals

CONSTANTS
    MaxRuns,        \* bound: runs the engine submits
    MaxConnections, \* bound: processes started
    MaxChanges,     \* bound: changes of the permission mode and of plugins
    MaxSides,       \* bound: side queries and control requests
    MaxDisturbances \* bound: times other parts take _client_lock, and SDK calls
                    \* and processes that fail

VARIABLES
    client,    \* _clients: the session's connection, 0 if there is none
    pump,      \* _event_pumps: the connection whose pump is registered, or 0
    state,     \* _session_states
    active,    \* the session is in _active_sessions
    timer,     \* an idle disconnect is scheduled
    oplock,    \* who holds the session's client operation lock
    conn,      \* who holds _client_lock, and what it is doing
    run,       \* the engine's query
    side,      \* a query outside the engine's runs
    idle,      \* the task of an idle timer that fired
    chosen,    \* _session_permission_modes: the newest choice
    actual,    \* connection -> the mode its process has
    setting,   \* the two ways a mode is applied: direct, and the pending task
    installed, \* the newest plugin change
    loaded,    \* connection -> the change its process has loaded
    reload,    \* the two ways plugins are reloaded: now, and the pending task
    used,      \* how much of each bound is used up
    \* History, read by no guard:
    killed,    \* how upkeep closed the connection of a run in its stream
    missed     \* "mode", "plugins": a change was dropped; "timer": cancelled

vars == <<client, pump, state, active, timer, oplock, conn, run, side, idle,
          chosen, actual, setting, installed, loaded, reload, used, killed,
          missed>>

Unused == [by |-> "nobody", step |-> "none", next |-> "none"]
NoQuery == [pc |-> "off", path |-> "none", client |-> 0, pump |-> 0, mode |-> 0,
            plugins |-> 0]
Unset == [pc |-> "off", client |-> 0, value |-> 0]

Init ==
    /\ client = 0 /\ pump = 0 /\ state = "idle"
    /\ active = FALSE /\ timer = FALSE
    /\ oplock = "nobody" /\ conn = Unused
    /\ run = NoQuery /\ side = NoQuery /\ idle = Unset
    /\ chosen = 0 /\ actual = [c \in 1..MaxConnections |-> 0]
    /\ setting = [w \in {"direct", "task"} |-> Unset]
    /\ installed = 0 /\ loaded = [c \in 1..MaxConnections |-> 0]
    /\ reload = [w \in {"now", "later"} |-> Unset]
    /\ used = [runs |-> 0, connections |-> 0, changes |-> 0, sides |-> 0,
               disturbances |-> 0]
    /\ killed = {} /\ missed = {}

\* _QUERY_ACTIVE_STATES, of which two occur here: a turn's phases are
\* EventPump's, waiting_permission is PermissionRequests'.
QueryStates == {"streaming", "interrupted"}

\* What set_permission_mode and _is_query_busy take for a query under way.
Busy == active \/ state \in QueryStates
QueryBusy == Busy \/ oplock # "nobody"

Use(what, bound) ==
    /\ used[what] < bound
    /\ used' = [used EXCEPT ![what] = @ + 1]
Fault == Use("disturbances", MaxDisturbances)

Settings == <<chosen, actual, setting>>
Plugins == <<installed, loaded, reload>>
Link == <<client, pump, conn>>

----------------------------------------------------------------------------
\* _client_lock, and _disconnect_unlocked under it: the pump goes out of its
\* table at once, the client when the pump is closed, the state at the end.

InStream == run.pc \in {"sending", "streaming"} /\ run.client = client

TakeConnKeepingPump(by, next) ==
    /\ conn.by = "nobody"
    /\ conn' = [by |-> by, step |-> "closing", next |-> next]
    /\ UNCHANGED pump

TakeConn(by, next) ==
    /\ conn.by = "nobody"
    /\ conn' = [by |-> by, step |-> "closing", next |-> next]
    /\ pump' = 0

\* How an upkeep task that closes the connection hits a run in its stream.
Hit(how) == killed' = IF InStream THEN killed \cup {how} ELSE killed

CloseClient ==
    /\ conn.step = "closing"
    /\ client' = 0
    /\ conn' = [conn EXCEPT !.step = "ending"]
    /\ UNCHANGED <<pump, state, active, timer, oplock, run, side, idle, Settings,
                   Plugins, used, killed, missed>>

\* The lock's holder goes on: a run connects, or has disconnected to connect
\* again (reading the mode it will connect with); tasks are over.
CloseEnds ==
    /\ conn.step = "ending"
    /\ state' = "idle"
    /\ conn' = IF conn.next = "open" THEN [conn EXCEPT !.step = "opening"] ELSE Unused
    /\ run' = IF conn.by # "run" THEN run
              ELSE IF conn.next = "open" THEN [run EXCEPT !.plugins = installed]
              ELSE [run EXCEPT !.pc = "want", !.mode = chosen]
    /\ idle' = IF conn.by = "idle" THEN Unset ELSE idle
    /\ reload' = [w \in DOMAIN reload |-> IF conn.by = w THEN Unset ELSE reload[w]]
    /\ UNCHANGED <<client, pump, active, timer, oplock, side, Settings, installed,
                   loaded, used, killed, missed>>

\* disconnect called by other parts: the end of a session, a cancel whose
\* interrupt takes too long.
Disconnect ==
    /\ client # 0
    /\ Use("disturbances", MaxDisturbances)
    /\ TakeConn("user", "release")
    /\ UNCHANGED <<client, state, active, timer, oplock, run, side, idle, Settings,
                   Plugins, killed, missed>>

\* Another session connects or disconnects.
Elsewhere ==
    /\ \/ /\ conn.by = "nobody" /\ Use("disturbances", MaxDisturbances)
          /\ conn' = [Unused EXCEPT !.by = "elsewhere"]
       \/ conn.by = "elsewhere" /\ conn' = Unused /\ UNCHANGED used
    /\ UNCHANGED <<client, pump, state, active, timer, oplock, run, side, idle,
                   Settings, Plugins, killed, missed>>

----------------------------------------------------------------------------
\* The engine's run: SessionQueryEngine's calls, then _execute_query.

Submit ==
    /\ run.pc = "off"
    /\ Use("runs", MaxRuns)
    /\ active' = TRUE
    /\ run' = [NoQuery EXCEPT !.pc = "marked"]
    /\ UNCHANGED <<Link, state, timer, oplock, side, idle, Settings, Plugins,
                   killed, missed>>

\* Send over the connection there is, drop it because the model was changed,
\* or connect; connect reads the permission mode before it waits for the lock.
Establish ==
    /\ run.pc = "marked"
    /\ \/ client # 0 /\ run' = [run EXCEPT !.pc = "send"]
       \/ client # 0 /\ run' = [run EXCEPT !.pc = "drop"]
       \/ client = 0 /\ run' = [run EXCEPT !.pc = "want", !.mode = chosen]
    /\ UNCHANGED <<Link, state, active, timer, oplock, side, idle, Settings,
                   Plugins, used, killed, missed>>

\* _run_query: the client and the pump are looked up once, before the
\* operation lock; without them the engine drops the connection.
SendStarts ==
    /\ run.pc = "send"
    /\ run' = IF client # 0 /\ pump # 0
              THEN [run EXCEPT !.pc = "atOp", !.path = "send",
                               !.client = client, !.pump = pump]
              ELSE [run EXCEPT !.pc = "drop"]
    /\ UNCHANGED <<Link, state, active, timer, oplock, side, idle, Settings,
                   Plugins, used, killed, missed>>

\* A failed send is repeated on a new connection, a failed connect is not.
AfterFailure == IF run.path = "send" THEN "drop" ELSE "ended"

\* The operation lock, _touch and begin_turn, which a closed pump refuses.
RunBegins ==
    /\ run.pc = "atOp" /\ oplock = "nobody"
    /\ timer' = FALSE
    /\ \/ /\ pump = run.pump
          /\ oplock' = "run" /\ state' = "streaming"
          /\ run' = [run EXCEPT !.pc = "sending"]
       \/ /\ pump # run.pump
          /\ run' = [run EXCEPT !.pc = AfterFailure]
          /\ UNCHANGED <<oplock, state>>
    /\ UNCHANGED <<Link, active, side, idle, Settings, Plugins, used, killed, missed>>

RunSent ==
    /\ run.pc = "sending" /\ pump = run.pump
    /\ run' = [run EXCEPT !.pc = "streaming"]
    /\ UNCHANGED <<Link, state, active, timer, oplock, side, idle, Settings,
                   Plugins, used, killed, missed>>

\* client.query raises: the turn is failed, the state stays as it was.
RunSendFails ==
    /\ run.pc = "sending"
    /\ IF pump = run.pump THEN Fault ELSE UNCHANGED used
    /\ oplock' = "nobody"
    /\ run' = [run EXCEPT !.pc = AfterFailure]
    /\ UNCHANGED <<Link, state, active, timer, side, idle, Settings, Plugins,
                   killed, missed>>

\* The end of _execute_query's stream, good or bad.
Ended(q) ==
    /\ oplock' = "nobody"
    /\ state' = IF client = q.client THEN "connected" ELSE state

RunEnds ==
    /\ run.pc = "streaming" /\ pump = run.pump
    /\ Ended(run)
    /\ run' = [run EXCEPT !.pc = "ended"]
    /\ UNCHANGED <<Link, active, timer, side, idle, Settings, Plugins, used,
                   killed, missed>>

\* The turn fails with its pump or its reader; a cancelled run is not retried.
RunBreaks ==
    /\ run.pc = "streaming"
    /\ IF pump = run.pump THEN Fault ELSE UNCHANGED used
    /\ Ended(run)
    /\ \E next \in {AfterFailure, "ended"} : run' = [run EXCEPT !.pc = next]
    /\ UNCHANGED <<Link, active, timer, side, idle, Settings, Plugins, killed, missed>>

RunDrops ==
    /\ run.pc = "drop"
    /\ TakeConn("run", "release")
    /\ run' = [run EXCEPT !.pc = "dropping"]
    /\ UNCHANGED <<client, state, active, timer, oplock, side, idle, Settings,
                   Plugins, used, killed, missed>>

RunConnects ==
    /\ run.pc = "want"
    /\ TakeConn("run", "open")
    /\ run' = [run EXCEPT !.pc = "opening"]
    /\ UNCHANGED <<client, state, active, timer, oplock, side, idle, Settings,
                   Plugins, used, killed, missed>>

\* What a fresh process has missed, or now has.
Settle(what, current) ==
    IF current THEN missed \ {what} ELSE missed \cup {what}

\* The end of _connect_and_register. The process has the plugins of some
\* moment of its start.
Opened ==
    LET c == used.connections + 1 IN
    /\ conn.step = "opening"
    /\ Use("connections", MaxConnections)
    /\ client' = c /\ pump' = c /\ conn' = Unused
    /\ state' = "connected" /\ timer' = FALSE
    /\ actual' = [actual EXCEPT ![c] = run.mode]
    /\ \E v \in {run.plugins, installed} :
         /\ loaded' = [loaded EXCEPT ![c] = v]
         /\ missed' = (Settle("mode", run.mode = chosen) \ {"plugins"})
                        \cup (IF v = installed THEN {} ELSE {"plugins"})
    /\ run' = [run EXCEPT !.pc = "atOp", !.path = "connect", !.client = c, !.pump = c]
    /\ UNCHANGED <<active, oplock, side, idle, chosen, setting, installed, reload, killed>>

OpenFails ==
    /\ conn.step = "opening"
    /\ Fault
    /\ conn' = Unused
    /\ run' = [run EXCEPT !.pc = "ended"]
    /\ UNCHANGED <<client, pump, state, active, timer, oplock, side, idle, Settings,
                   Plugins, killed, missed>>

\* _finalize_query, then schedule_idle_disconnect.
Finalize ==
    /\ run.pc = "ended"
    /\ active' = FALSE
    /\ run' = [run EXCEPT !.pc = "finalized"]
    /\ UNCHANGED <<Link, state, timer, oplock, side, idle, Settings, Plugins, used,
                   killed, missed>>

\* schedule_idle_disconnect, for a session that is connected.
ScheduleIdle ==
    IF client # 0 THEN timer' = TRUE /\ missed' = missed \ {"timer"}
                  ELSE UNCHANGED <<timer, missed>>

RunOver ==
    /\ run.pc = "finalized"
    /\ ScheduleIdle
    /\ run' = NoQuery
    /\ UNCHANGED <<Link, state, active, oplock, side, idle, Settings, Plugins, used,
                   killed>>

----------------------------------------------------------------------------
\* Side queries: the "/rewind" of a cancel, after its interrupt, and "/clear".
\* They are not marked active and nobody schedules the timer they cancel.

SideAsked ==
    /\ client # 0 /\ side.pc = "off"
    /\ Use("sides", MaxSides)
    /\ \E s \in {state, "interrupted"} : state' = s
    /\ side' = [NoQuery EXCEPT !.pc = "wait"]
    /\ UNCHANGED <<Link, active, timer, oplock, run, idle, Settings, Plugins, killed,
                   missed>>

SideStarts ==
    /\ side.pc = "wait"
    /\ side' = IF client # 0 /\ pump # 0
               THEN [side EXCEPT !.pc = "atOp", !.client = client, !.pump = pump]
               ELSE NoQuery
    /\ UNCHANGED <<Link, state, active, timer, oplock, run, idle, Settings, Plugins,
                   used, killed, missed>>

SideBegins ==
    /\ side.pc = "atOp" /\ oplock = "nobody"
    /\ timer' = FALSE /\ missed' = missed \cup {"timer"}
    /\ \/ /\ pump = side.pump
          /\ oplock' = "side" /\ state' = "streaming"
          /\ side' = [side EXCEPT !.pc = "streaming"]
       \/ pump # side.pump /\ side' = NoQuery /\ UNCHANGED <<oplock, state>>
    /\ UNCHANGED <<Link, active, run, idle, Settings, Plugins, used, killed>>

\* It ends, or its client.query fails and leaves the state "streaming".
SideEnds ==
    /\ side.pc = "streaming"
    /\ \/ Ended(side) /\ UNCHANGED used
       \/ Fault /\ oplock' = "nobody" /\ UNCHANGED state
    /\ side' = NoQuery
    /\ UNCHANGED <<Link, active, timer, run, idle, Settings, Plugins, killed, missed>>

\* get_context_usage and set_model: a control request under the operation lock.
Control ==
    /\ \/ /\ oplock = "nobody" /\ client # 0 /\ oplock' = "control"
          /\ Use("sides", MaxSides)
       \/ oplock = "control" /\ oplock' = "nobody" /\ UNCHANGED used
    /\ UNCHANGED <<Link, state, active, timer, run, side, idle, Settings, Plugins,
                   killed, missed>>

----------------------------------------------------------------------------
\* The idle timer.

TimerFires ==
    /\ timer /\ idle.pc = "off"
    /\ \/ client = 0 /\ timer' = FALSE /\ UNCHANGED idle
       \/ client # 0 /\ ~active /\ timer' = FALSE
          /\ idle' = [Unset EXCEPT !.pc = "asking", !.client = client]
    /\ UNCHANGED <<Link, state, active, oplock, run, side, Settings, Plugins, used,
                   killed, missed>>

IdleExemptEnds ==
    /\ idle.pc = "asking"
    /\ idle' = Unset
    /\ UNCHANGED <<Link, state, active, timer, oplock, run, side, Settings, Plugins,
                   used, killed, missed>>

\* The session is bound to an IM channel, or its user has yet to answer.
IdleExempt ==
    /\ idle.pc = "asking"
    /\ ScheduleIdle
    /\ idle' = Unset
    /\ UNCHANGED <<Link, state, active, oplock, run, side, Settings, Plugins, used,
                   killed>>

IdleDisconnects(how) ==
    IF client = idle.client
    THEN /\ TakeConn("idle", "release") /\ Hit(how)
         /\ idle' = [idle EXCEPT !.pc = "closing"]
    ELSE /\ conn.by = "nobody" /\ idle' = Unset
         /\ UNCHANGED <<conn, pump, killed>>

IdleTrustsTheTimer ==
    /\ idle.pc = "asking"
    /\ \/ IdleDisconnects("at once")
       \/ /\ conn.by # "nobody"
          /\ idle' = [idle EXCEPT !.pc = "atConn"]
          /\ UNCHANGED <<conn, pump, killed>>
    /\ UNCHANGED <<client, state, active, timer, oplock, run, side, Settings,
                   Plugins, used, missed>>

\* The answer is awaited, so the mark is read again, and then the lock is
\* taken: at once if it is free, or after whoever holds it.
IdleRechecks ==
    /\ idle.pc = "asking"
    /\ \/ active /\ ScheduleIdle /\ idle' = Unset /\ UNCHANGED <<conn, pump, killed>>
       \/ ~active /\ IdleDisconnects("at once") /\ UNCHANGED <<timer, missed>>
       \/ /\ ~active /\ conn.by # "nobody"
          /\ idle' = [idle EXCEPT !.pc = "atConn"]
          /\ UNCHANGED <<conn, pump, timer, killed, missed>>
    /\ UNCHANGED <<client, state, active, oplock, run, side, Settings, Plugins, used>>

IdleGetsLock ==
    /\ idle.pc = "atConn"
    /\ IdleDisconnects("waited")
    /\ UNCHANGED <<client, state, active, timer, oplock, run, side, Settings,
                   Plugins, used, missed>>

----------------------------------------------------------------------------
\* The permission mode.

\* set_permission_mode: remembered, and applied directly, by the pending task,
\* or - if that exists already - by nobody else.
SetMode ==
    /\ Use("changes", MaxChanges)
    /\ chosen' = chosen + 1
    /\ \/ client = 0 /\ UNCHANGED <<setting, missed>>
       \/ /\ client # 0 /\ Busy /\ setting["task"].pc = "off"
          /\ setting' = [setting EXCEPT !["task"] = [pc |-> "waiting", client |-> client, value |-> 0]]
          /\ UNCHANGED missed
       \/ /\ client # 0 /\ Busy /\ setting["task"].pc # "off"
          /\ missed' = missed \cup {"mode"} /\ UNCHANGED setting
       \/ /\ client # 0 /\ ~Busy /\ setting["direct"].pc = "off"
          /\ setting' = [setting EXCEPT !["direct"] = [pc |-> "atOp", client |-> client, value |-> 0]]
          /\ UNCHANGED missed
    /\ UNCHANGED <<Link, state, active, timer, oplock, run, side, idle, actual,
                   Plugins, killed>>

\* _apply_permission_mode_when_idle polls until no query is under way.
ModeTaskWakes ==
    LET t == setting["task"] IN
    /\ t.pc = "waiting"
    /\ \/ client # t.client /\ setting' = [setting EXCEPT !["task"] = Unset]
       \/ /\ client = t.client /\ ~Busy
          /\ setting' = [setting EXCEPT !["task"].pc = "atOp"]
    /\ UNCHANGED <<Link, state, active, timer, oplock, run, side, idle, chosen,
                   actual, Plugins, used, killed, missed>>

\* Under the operation lock the newest choice is sent, if the connection is
\* still the one it was meant for.
ModeStarts(w) ==
    /\ setting[w].pc = "atOp" /\ oplock = "nobody"
    /\ IF client = setting[w].client
       THEN /\ oplock' = w
            /\ setting' = [setting EXCEPT ![w].pc = "sending", ![w].value = chosen]
       ELSE setting' = [setting EXCEPT ![w] = Unset] /\ UNCHANGED oplock
    /\ UNCHANGED <<Link, state, active, timer, run, side, idle, chosen, actual,
                   Plugins, used, killed, missed>>

ModeApplied(w) ==
    /\ setting[w].pc = "sending"
    /\ actual' = [actual EXCEPT ![setting[w].client] = setting[w].value]
    /\ missed' = IF setting[w].client = client /\ setting[w].value = chosen
                 THEN missed \ {"mode"} ELSE missed
    /\ oplock' = "nobody"
    /\ setting' = [setting EXCEPT ![w] = Unset]
    /\ UNCHANGED <<Link, state, active, timer, run, side, idle, chosen, Plugins,
                   used, killed>>

\* A timeout of the direct request starts a task; other errors, and the task's
\* own, leave the choice to the next connection. Bound: one task at a time.
ModeFails(w) ==
    /\ setting[w].pc = "sending"
    /\ Fault
    /\ oplock' = "nobody"
    /\ \/ /\ w = "direct" /\ setting["task"].pc = "off"
          /\ setting' = [setting EXCEPT !["direct"] = Unset,
                !["task"] = [pc |-> "waiting", client |-> setting[w].client, value |-> 0]]
          /\ UNCHANGED missed
       \/ /\ setting' = [setting EXCEPT ![w] = Unset]
          /\ missed' = missed \cup {"mode"}
    /\ UNCHANGED <<Link, state, active, timer, run, side, idle, chosen, actual,
                   Plugins, killed>>

----------------------------------------------------------------------------
\* Plugins.

\* _schedule_plugin_reload: one task at a time, whatever connection it is for.
Scheduled(tasks, c) ==
    IF tasks["later"].pc = "off"
    THEN /\ reload' = [tasks EXCEPT !["later"] = [pc |-> "waiting", client |-> c, value |-> 0]]
         /\ UNCHANGED missed
    ELSE reload' = tasks /\ missed' = missed \cup {"plugins"}

\* A plugin changes and reload_plugins_by_cwd finds the session's connection.
Install ==
    /\ Use("changes", MaxChanges)
    /\ installed' = installed + 1
    /\ \/ client = 0 /\ UNCHANGED <<reload, missed>>
       \/ client # 0 /\ QueryBusy /\ Scheduled(reload, client)
       \/ /\ client # 0 /\ ~QueryBusy /\ reload["now"].pc = "off"
          /\ reload' = [reload EXCEPT !["now"] = [pc |-> "atOp", client |-> client, value |-> 0]]
          /\ UNCHANGED missed
    /\ UNCHANGED <<Link, state, active, timer, oplock, run, side, idle, Settings,
                   loaded, killed>>

\* _reload_plugins_when_idle polls until nothing is under way.
ReloadWakes ==
    LET t == reload["later"] IN
    /\ t.pc = "waiting"
    /\ \/ client # t.client /\ reload' = [reload EXCEPT !["later"] = Unset]
       \/ client = t.client /\ ~QueryBusy /\ reload' = [reload EXCEPT !["later"].pc = "atOp"]
    /\ UNCHANGED <<Link, state, active, timer, oplock, run, side, idle, Settings,
                   installed, loaded, used, killed, missed>>

ReloadStartsOnce(w) ==
    /\ reload[w].pc = "atOp"
    /\ \/ /\ oplock = "nobody" /\ client = reload[w].client
          /\ oplock' = w
          /\ reload' = [reload EXCEPT ![w].pc = "sending", ![w].value = installed]
          /\ UNCHANGED missed
       \/ /\ oplock = "nobody" /\ client # reload[w].client
          /\ reload' = [reload EXCEPT ![w] = Unset]
          /\ UNCHANGED <<oplock, missed>>
       \/ /\ oplock # "nobody"
          /\ IF w = "now" THEN Scheduled([reload EXCEPT !["now"] = Unset], reload[w].client)
             ELSE reload' = [reload EXCEPT !["later"] = Unset] /\ UNCHANGED missed
          /\ UNCHANGED oplock
    /\ UNCHANGED <<Link, state, active, timer, run, side, idle, Settings, installed,
                   loaded, used, killed>>

\* _send_reload_plugins: the lock is not waited for, _ControlChannelBusy.
ReloadStarts(w) ==
    /\ reload[w].pc = "atOp"
    /\ \/ /\ oplock = "nobody" /\ client = reload[w].client
          /\ oplock' = w
          /\ reload' = [reload EXCEPT ![w].pc = "sending", ![w].value = installed]
          /\ UNCHANGED missed
       \/ /\ oplock = "nobody" /\ client # reload[w].client
          /\ reload' = [reload EXCEPT ![w] = Unset]
          /\ UNCHANGED <<oplock, missed>>
       \/ /\ oplock # "nobody"
          /\ IF w = "now" THEN Scheduled([reload EXCEPT !["now"] = Unset], reload[w].client)
             ELSE reload' = [reload EXCEPT !["later"].pc = "waiting"] /\ UNCHANGED missed
          /\ UNCHANGED oplock
    /\ UNCHANGED <<Link, state, active, timer, run, side, idle, Settings, installed,
                   loaded, used, killed>>

\* The process reads its plugins at some moment of the request; _touch then
\* cancels the session's idle timer.
Reloaded(w) ==
    /\ reload[w].pc = "sending"
    /\ \E v \in {reload[w].value, installed} :
         /\ loaded' = [loaded EXCEPT ![reload[w].client] = v]
         /\ missed' = (IF reload[w].client = client /\ v = installed
                       THEN missed \ {"plugins"} ELSE missed) \cup {"timer"}
    /\ timer' = FALSE
    /\ oplock' = "nobody"
    /\ reload' = [reload EXCEPT ![w] = Unset]
    /\ UNCHANGED <<Link, state, active, run, side, idle, Settings, installed, used,
                   killed>>

ReloadDisconnects(w, how) ==
    /\ TakeConn(w, "release") /\ Hit(how)
    /\ reload' = [reload EXCEPT ![w].pc = "closing"]

\* The request fails: tried again behind a query, otherwise the idle session
\* is disconnected - at once, or after whoever holds _client_lock.
ReloadFails(w) ==
    /\ reload[w].pc = "sending"
    /\ Fault
    /\ oplock' = "nobody"
    /\ \/ /\ client # reload[w].client
          /\ reload' = [reload EXCEPT ![w] = Unset]
          /\ UNCHANGED <<conn, pump, killed, missed>>
       \/ /\ client = reload[w].client /\ Busy
          /\ IF w = "now" THEN Scheduled([reload EXCEPT !["now"] = Unset], reload[w].client)
             ELSE reload' = [reload EXCEPT !["later"].pc = "waiting"] /\ UNCHANGED missed
          /\ UNCHANGED <<conn, pump, killed>>
       \/ /\ client = reload[w].client /\ ~Busy
          /\ \/ ReloadDisconnects(w, "at once")
             \/ /\ conn.by # "nobody"
                /\ reload' = [reload EXCEPT ![w].pc = "atConn"]
                /\ UNCHANGED <<conn, pump, killed>>
          /\ UNCHANGED missed
    /\ UNCHANGED <<client, state, active, timer, run, side, idle, Settings,
                   installed, loaded>>

ReloadGetsLock(w) ==
    /\ reload[w].pc = "atConn"
    /\ ReloadDisconnects(w, "waited")
    /\ UNCHANGED <<client, state, active, timer, oplock, run, side, idle, Settings,
                   installed, loaded, used, missed>>

----------------------------------------------------------------------------

RunNext ==
    \/ Submit \/ Establish \/ SendStarts \/ RunBegins \/ RunSent \/ RunSendFails
    \/ RunEnds \/ RunBreaks \/ RunDrops \/ RunConnects \/ Opened \/ OpenFails
    \/ Finalize \/ RunOver

LockNext == CloseClient \/ CloseEnds \/ Disconnect \/ Elsewhere

SideNext == SideAsked \/ SideStarts \/ SideBegins \/ SideEnds \/ Control

IdleNext == TimerFires \/ IdleExempt \/ IdleRechecks \/ IdleGetsLock

ModeNext ==
    \/ SetMode \/ ModeTaskWakes
    \/ \E w \in DOMAIN setting : ModeStarts(w) \/ ModeApplied(w) \/ ModeFails(w)

PluginNext ==
    \/ Install \/ ReloadWakes
    \/ \E w \in DOMAIN reload :
         ReloadStarts(w) \/ Reloaded(w) \/ ReloadFails(w) \/ ReloadGetsLock(w)

Next == RunNext \/ LockNext \/ SideNext \/ IdleNext \/ ModeNext \/ PluginNext

Spec == Init /\ [][Next]_vars

----------------------------------------------------------------------------
\* Properties

Connections == 0..MaxConnections
Query == [pc : {"off", "marked", "send", "drop", "dropping", "want", "opening",
                "wait", "atOp", "sending", "streaming", "ended", "finalized"},
          path : {"none", "send", "connect"}, client : Connections,
          pump : Connections, mode : 0..MaxChanges, plugins : 0..MaxChanges]
Task(bound) == [pc : {"off", "asking", "waiting", "atOp", "sending", "atConn", "closing"},
                client : Connections, value : 0..bound]

\* Types, and that the lock and the table agree: a registered pump belongs to
\* the registered client.
TypeOK ==
    /\ client \in Connections /\ pump \in {0, client}
    /\ state \in {"idle", "connected"} \cup QueryStates
    /\ active \in BOOLEAN /\ timer \in BOOLEAN
    /\ oplock \in {"nobody", "run", "side", "control", "direct", "task", "now", "later"}
    /\ conn \in [by : {"nobody", "elsewhere", "run", "user", "idle", "now", "later"},
                 step : {"none", "closing", "ending", "opening"},
                 next : {"none", "release", "open"}]
    /\ run \in Query /\ side \in Query /\ idle \in Task(0)
    /\ chosen \in 0..MaxChanges
    /\ actual \in [1..MaxConnections -> 0..MaxChanges]
    /\ setting \in [{"direct", "task"} -> Task(MaxChanges)]
    /\ installed \in 0..MaxChanges
    /\ loaded \in [1..MaxConnections -> 0..MaxChanges]
    /\ reload \in [{"now", "later"} -> Task(MaxChanges)]
    /\ killed \subseteq {"at once", "waited"}
    /\ missed \subseteq {"mode", "plugins", "timer"}

\* When nothing is pending, the process has the newest mode and plugins. The
\* exceptions, each named where "missed" is set: a change while a connection
\* with older settings is being opened, a change while a task is pending that
\* is already sending or is for another connection, a failed request.
ChangesReachTheProcess ==
    client # 0 /\ conn.by = "nobody" =>
        /\ (\A w \in DOMAIN setting : setting[w].pc = "off") =>
              actual[client] = chosen \/ "mode" \in missed
        /\ (\A w \in DOMAIN reload : reload[w].pc = "off") =>
              loaded[client] = installed \/ "plugins" \in missed

\* The idle timer and failed plugin reloads close the connection of a run in
\* its stream only if they had to wait for another holder of _client_lock
\* after they last looked whether the session was active (_idle_disconnect).
\* And a connection nobody uses is on the way out: its timer runs, unless a
\* reload or a side query was the last to use it (_touch cancels, the engine's
\* run and the idle task itself schedule).
OnlyTheIdleAreClosed ==
    /\ "at once" \notin killed
    /\ client # 0 /\ run.pc = "off" /\ side.pc = "off" /\ idle.pc = "off"
            /\ conn.by = "nobody"
        => timer \/ "timer" \in missed
=============================================================================
