------------------------------ MODULE QqGateway ------------------------------
(***************************************************************************)
(* The WebSocket connection of one QQ channel (infr/im/qq/qq_ws_client.py):*)
(* a connection object has a task that connects, listens and connects      *)
(* again, a heartbeat task of its own, and a stop that may come anywhere   *)
(* in between.                                                             *)
(***************************************************************************)
EXTENDS Naturals, FiniteSets

CONSTANTS
    Starters, Stoppers,   \* calls of start and of stop (or stop_all)
    Connections,          \* identities of _QqConnection objects
    MaxReconnects,        \* bound
    NoConnection

VARIABLES
    call,        \* each call: off, closing the old socket, awaiting its task, done
    victim,      \* the connection a call is stopping
    registered,  \* _connections: the channel's
    conn,        \* each connection object
    reconnects   \* bound

qqVars == <<call, victim, registered, conn, reconnects>>

Parties == Starters \cup Stoppers

\* task: where _run_loop is; socket: whether the socket it opened last is open,
\* which conn.ws keeps when it is not; heartbeat: whether that task runs.
NotYet == [running |-> FALSE, task |-> "none", socket |-> "none", heartbeat |-> FALSE,
           cancelled |-> FALSE]
Over(k) == conn[k].task \in {"none", "ended"}

Init ==
    /\ call = [c \in Parties |-> "off"]
    /\ victim = [c \in Parties |-> NoConnection]
    /\ registered = NoConnection
    /\ conn = [k \in Connections |-> NotYet]
    /\ reconnects = 0

----------------------------------------------------------------------------
\* start, stop, and _stop_connection, under _lock

LockFree == \A c \in Parties : call[c] \in {"off", "done"}

Begin(c) ==
    /\ call[c] = "off" /\ LockFree
    /\ victim' = [victim EXCEPT ![c] = registered]
    /\ registered' = NoConnection
    /\ IF registered = NoConnection
       THEN call' = [call EXCEPT ![c] = "stopped"] /\ UNCHANGED conn
       ELSE /\ call' = [call EXCEPT ![c] = IF conn[registered].socket = "open"
                                            THEN "closing" ELSE "passing"]
            /\ conn' = [conn EXCEPT ![registered].running = FALSE, ![registered].heartbeat = FALSE]
    /\ UNCHANGED reconnects

\* conn.ws.close returns or raises, of the socket that was there when the stop
\* began: one that is opened meanwhile it misses. Then the task is cancelled.
Closed(c) ==
    /\ call[c] \in {"closing", "passing"}
    /\ conn' = [conn EXCEPT ![victim[c]].socket = IF call[c] = "closing" THEN "none" ELSE @,
                            ![victim[c]].cancelled = ~Over(victim[c])]
    /\ call' = [call EXCEPT ![c] = "awaiting"]
    /\ UNCHANGED <<victim, registered, reconnects>>

AwaitNothing(c) ==
    /\ call[c] = "awaiting"
    /\ call' = [call EXCEPT ![c] = "stopped"]
    /\ UNCHANGED <<victim, registered, conn, reconnects>>

Awaited(c) ==
    /\ call[c] = "awaiting" /\ Over(victim[c])
    /\ call' = [call EXCEPT ![c] = "stopped"]
    /\ UNCHANGED <<victim, registered, conn, reconnects>>

Started(c) ==
    /\ c \in Starters /\ call[c] = "stopped"
    /\ \E k \in Connections :
         /\ conn[k] = NotYet
         /\ conn' = [conn EXCEPT ![k].running = TRUE, ![k].task = "looping"]
         /\ registered' = k
    /\ call' = [call EXCEPT ![c] = "done"]
    /\ UNCHANGED <<victim, reconnects>>

Stopped(c) ==
    /\ c \in Stoppers /\ call[c] = "stopped"
    /\ call' = [call EXCEPT ![c] = "done"]
    /\ UNCHANGED <<victim, registered, conn, reconnects>>

----------------------------------------------------------------------------
\* _run_loop and _connect_and_listen

At(k, task) == conn[k].task = task /\ ~conn[k].cancelled
Becomes(k, task) == conn' = [conn EXCEPT ![k].task = task]

\* The loop's head: the running flag, and credentials, whose absence ends the
\* loop and leaves the connection registered.
Loop(k) ==
    /\ At(k, "looping")
    /\ \/ conn[k].running /\ Becomes(k, "gateway")
       \/ ~conn[k].running /\ Becomes(k, "ended")
       \/ /\ conn[k].running
          /\ conn' = [conn EXCEPT ![k].running = FALSE, ![k].task = "ended"]
    /\ UNCHANGED <<call, victim, registered, reconnects>>

\* The gateway's address came, and the socket is open.
Connect(k) ==
    /\ At(k, "gateway")
    /\ conn' = [conn EXCEPT ![k].task = "hello", ![k].socket = "open"]
    /\ UNCHANGED <<call, victim, registered, reconnects>>

\* Hello, Identify and Ready; then the heartbeat is started and the socket
\* listened to, even if the connection is being stopped.
Ready(k) ==
    /\ At(k, "hello")
    /\ conn' = [conn EXCEPT ![k].task = "listening", ![k].heartbeat = TRUE]
    /\ UNCHANGED <<call, victim, registered, reconnects>>

HeartbeatEnds(k) ==
    /\ conn[k].heartbeat
    /\ conn' = [conn EXCEPT ![k].heartbeat = FALSE]
    /\ UNCHANGED <<call, victim, registered, reconnects>>

LeaveKeepsHeartbeat(k) ==
    /\ At(k, "listening")
    /\ reconnects < MaxReconnects
    /\ reconnects' = reconnects + 1
    /\ conn' = [conn EXCEPT ![k].task = "looping", ![k].socket = "none"]
    /\ UNCHANGED <<call, victim, registered>>

\* The socket is closed by whichever end, or the server asks for a reconnect:
\* the heartbeat is cancelled on the way out, and the loop goes on at once.
Leave(k) ==
    /\ At(k, "listening")
    /\ reconnects < MaxReconnects
    /\ reconnects' = reconnects + 1
    /\ conn' = [conn EXCEPT ![k].task = "looping", ![k].socket = "none", ![k].heartbeat = FALSE]
    /\ UNCHANGED <<call, victim, registered>>

\* An error anywhere: wait and try again, unless the connection was stopped.
Fails(k) ==
    /\ \E task \in {"gateway", "hello", "listening"} : At(k, task)
    /\ reconnects < MaxReconnects
    /\ reconnects' = reconnects + 1
    /\ conn' = [conn EXCEPT ![k].task = IF conn[k].running THEN "backoff" ELSE "ended",
                            ![k].socket = "none", ![k].heartbeat = FALSE]
    /\ UNCHANGED <<call, victim, registered>>

BackedOff(k) ==
    /\ At(k, "backoff")
    /\ Becomes(k, "looping")
    /\ UNCHANGED <<call, victim, registered, reconnects>>

\* A cancellation ends the loop wherever it waits; the context manager closes
\* the socket, the finally clause the heartbeat of a connection that listened.
Ends(k) ==
    /\ conn[k].cancelled /\ ~Over(k)
    /\ conn' = [conn EXCEPT ![k].task = "ended", ![k].socket = "none",
                            ![k].heartbeat = IF conn[k].task = "listening" THEN FALSE ELSE @]
    /\ UNCHANGED <<call, victim, registered, reconnects>>

Next ==
    \/ \E c \in Parties : Begin(c) \/ Closed(c) \/ Awaited(c) \/ Started(c) \/ Stopped(c)
    \/ \E k \in Connections :
         \/ Loop(k) \/ Connect(k) \/ Ready(k) \/ HeartbeatEnds(k) \/ Leave(k)
         \/ Fails(k) \/ BackedOff(k) \/ Ends(k)

Spec == Init /\ [][Next]_qqVars

----------------------------------------------------------------------------
\* Properties

TypeOK ==
    /\ call \in [Parties -> {"off", "closing", "passing", "awaiting", "stopped", "done"}]
    /\ victim \in [Parties -> Connections \cup {NoConnection}]
    /\ registered \in Connections \cup {NoConnection}
    /\ conn \in [Connections ->
         [running : BOOLEAN, socket : {"none", "open"}, heartbeat : BOOLEAN, cancelled : BOOLEAN,
          task : {"none", "looping", "gateway", "hello", "listening", "backoff", "ended"}]]
    /\ reconnects \in 0..MaxReconnects

BeingStopped(k) == \E c \in Parties : victim[c] = k /\ call[c] \in {"closing", "passing", "awaiting"}

\* What was stopped is over: a connection that is neither registered nor being
\* stopped has no task, no heartbeat and no socket, wherever in connecting,
\* reconnecting or listening the stop met it. So a channel has one at most.
StoppedIsOver ==
    \A k \in Connections : k # registered /\ ~BeingStopped(k) =>
        Over(k) /\ ~conn[k].heartbeat /\ conn[k].socket = "none"

\* A heartbeat beats for a socket that is listened to, however often the loop
\* connects again.
HeartbeatListens ==
    \A k \in Connections : conn[k].heartbeat => conn[k].task = "listening"
=============================================================================
