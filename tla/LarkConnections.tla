--------------------------- MODULE LarkConnections ---------------------------
(***************************************************************************)
(* The WebSocket threads of one Lark channel                               *)
(* (infr/im/lark/lark_adapter.py): requests on the main event loop start   *)
(* and stop connections; each connection has a thread with an event loop   *)
(* of its own, in which the patched SDK client connects and serves.        *)
(*                                                                         *)
(* The thread and the requests share conn.stop, conn.client and            *)
(* conn.ws_loop without a lock: every read and write of them is a step.    *)
(***************************************************************************)
EXTENDS Naturals, FiniteSets

CONSTANTS
    Starters, Stoppers,  \* calls of start_listening, of stop_listening or close
    Connections,         \* identities of _WsConnection objects
    MaxErrors,           \* bound: fatal errors of clients
    Nothing

VARIABLES
    call,        \* each call: off, stopping, disconnecting, clearing, starting, done
    victim,      \* the connection it stops
    mine,        \* the connection it starts
    registered,  \* _connections: the channel's
    stop,        \* connections with their stop flag set
    client,      \* connections whose client attribute is set
    thread,      \* where each connection's thread is
    halting,     \* connections whose loop was told to stop and has not seen it
    errors,
    \* History, read by no guard:
    slipped      \* connections a stop met at a moment it is not made for

larkVars == <<call, victim, mine, registered, stop, client, thread, halting, errors, slipped>>

Parties == Starters \cup Stoppers

\* check: the head of the loop; making: the client and its event loop; ready:
\* the client is published; connecting and reconnecting: run_until_complete of
\* those; serving: of _select; orphaned: serving, after the receive loop's task
\* gave up; leaving: out of start; delay: before the next round.
Running == {"connecting", "reconnecting", "serving", "orphaned"}
Phases == Running \cup {"none", "check", "making", "ready", "leaving", "delay", "ended"}
LoopOpen(k) == thread[k] \in Running \cup {"making", "ready", "leaving"}
Alive(k) == thread[k] \notin {"none", "ended"}

Init ==
    /\ call = [c \in Parties |-> "off"]
    /\ victim = [c \in Parties |-> Nothing]
    /\ mine = [c \in Parties |-> Nothing]
    /\ registered = Nothing
    /\ stop = {} /\ client = {} /\ halting = {}
    /\ thread = [k \in Connections |-> "none"]
    /\ errors = 0
    /\ slipped = {}

----------------------------------------------------------------------------
\* start_listening, stop_listening and _stop_connection

CallGoes(c, to) == call' = [call EXCEPT ![c] = to]

\* The new connection takes the old one's place at once. An old one whose
\* thread is alive is stopped first; one whose thread its own call has not
\* started yet is taken for dead.
StartListening(c) ==
    /\ c \in Starters /\ call[c] = "off"
    /\ \E k \in Connections :
         /\ k \notin {mine[d] : d \in Parties}
         /\ mine' = [mine EXCEPT ![c] = k]
         /\ registered' = k
    /\ victim' = [victim EXCEPT ![c] = registered]
    /\ CallGoes(c, IF registered # Nothing /\ Alive(registered) THEN "stopping" ELSE "starting")
    /\ slipped' = IF registered # Nothing /\ thread[registered] = "none"
                  THEN slipped \cup {registered} ELSE slipped
    /\ UNCHANGED <<stop, client, thread, halting, errors>>

StopListening(c) ==
    /\ c \in Stoppers /\ call[c] = "off" /\ registered # Nothing
    /\ victim' = [victim EXCEPT ![c] = registered]
    /\ registered' = Nothing
    /\ CallGoes(c, "stopping")
    /\ UNCHANGED <<mine, stop, client, thread, halting, errors, slipped>>

StopForgetsFlag(c) ==
    /\ call[c] = "stopping"
    /\ CallGoes(c, IF victim[c] \in client /\ LoopOpen(victim[c]) THEN "disconnecting" ELSE "clearing")
    /\ slipped' = IF thread[victim[c]] = "making" THEN slipped \cup {victim[c]} ELSE slipped
    /\ UNCHANGED <<victim, mine, registered, stop, client, thread, halting, errors>>

\* The flag, and then a look at the client: none is published while a thread
\* that has passed its check makes one.
SetFlag(c) ==
    /\ call[c] = "stopping"
    /\ stop' = stop \cup {victim[c]}
    /\ CallGoes(c, IF victim[c] \in client /\ LoopOpen(victim[c]) THEN "disconnecting" ELSE "clearing")
    /\ slipped' = IF thread[victim[c]] = "making" THEN slipped \cup {victim[c]} ELSE slipped
    /\ UNCHANGED <<victim, mine, registered, client, thread, halting, errors>>

\* The disconnect in the thread's loop returned, failed, or timed out; then
\* the loop is told to stop.
Disconnected(c) ==
    /\ call[c] = "disconnecting"
    /\ halting' = IF LoopOpen(victim[c]) THEN halting \cup {victim[c]} ELSE halting
    /\ CallGoes(c, "clearing")
    /\ UNCHANGED <<victim, mine, registered, stop, client, thread, errors, slipped>>

Clear(c) ==
    /\ call[c] = "clearing"
    /\ client' = client \ {victim[c]}
    /\ CallGoes(c, IF c \in Starters THEN "starting" ELSE "done")
    /\ UNCHANGED <<victim, mine, registered, stop, thread, halting, errors, slipped>>

StartThread(c) ==
    /\ call[c] = "starting"
    /\ thread' = [thread EXCEPT ![mine[c]] = "check"]
    /\ CallGoes(c, "done")
    /\ UNCHANGED <<victim, mine, registered, stop, client, halting, errors, slipped>>

----------------------------------------------------------------------------
\* _run_ws_client, the thread, and patched_start

Goes(k, from, to) == thread[k] = from /\ thread' = [thread EXCEPT ![k] = to]

Check(k) ==
    /\ Goes(k, "check", IF k \in stop THEN "ended" ELSE "making")
    /\ UNCHANGED <<call, victim, mine, registered, stop, client, halting, errors, slipped>>

Publish(k) ==
    /\ Goes(k, "making", "ready")
    /\ client' = client \cup {k}
    /\ UNCHANGED <<call, victim, mine, registered, stop, halting, errors, slipped>>

\* The client's start, its connect, and the reconnect in the same place.
Proceed(k) ==
    /\ k \notin halting
    /\ \/ Goes(k, "ready", "connecting")
       \/ Goes(k, "connecting", "serving")
       \/ Goes(k, "reconnecting", "serving")
    /\ UNCHANGED <<call, victim, mine, registered, stop, client, halting, errors, slipped>>

\* A stopped loop raises out of run_until_complete. Out of connecting,
\* patched_start takes that for a failed connect, and connects again.
Halt(k) ==
    /\ k \in halting
    /\ \/ Goes(k, "ready", "reconnecting")
       \/ Goes(k, "connecting", "reconnecting")
       \/ \E phase \in {"reconnecting", "serving", "orphaned"} : Goes(k, phase, "leaving")
    /\ halting' = halting \ {k}
    /\ slipped' = IF thread[k] \in {"ready", "connecting"} THEN slipped \cup {k} ELSE slipped
    /\ UNCHANGED <<call, victim, mine, registered, stop, client, errors>>

Error(k) ==
    /\ errors < MaxErrors /\ k \notin halting
    /\ errors' = errors + 1

\* A failed connect is tried again; one refused for good (ClientException)
\* leaves start, as it does from there.
ConnectFails(k) ==
    /\ Error(k)
    /\ \/ Goes(k, "connecting", "reconnecting")
       \/ Goes(k, "connecting", "leaving")
       \/ Goes(k, "reconnecting", "leaving")
    /\ UNCHANGED <<call, victim, mine, registered, stop, client, halting, slipped>>

\* A lost connection is made again by the receive loop's own task. Refused for
\* good there, the exception ends that task and nothing else.
GivesUp(k) ==
    /\ Error(k)
    /\ Goes(k, "serving", "orphaned")
    /\ UNCHANGED <<call, victim, mine, registered, stop, client, halting, slipped>>

Leave(k) ==
    /\ Goes(k, "leaving", IF k \in stop THEN "ended" ELSE "delay")
    /\ client' = client \ {k}
    /\ halting' = halting \ {k}
    /\ UNCHANGED <<call, victim, mine, registered, stop, errors, slipped>>

Delayed(k) ==
    /\ Goes(k, "delay", "check")
    /\ UNCHANGED <<call, victim, mine, registered, stop, client, halting, errors, slipped>>

Next ==
    \/ \E c \in Parties :
         \/ StartListening(c) \/ StopListening(c) \/ SetFlag(c) \/ Disconnected(c)
         \/ Clear(c) \/ StartThread(c)
    \/ \E k \in Connections :
         \/ Check(k) \/ Publish(k) \/ Proceed(k) \/ Halt(k) \/ ConnectFails(k)
         \/ GivesUp(k) \/ Leave(k) \/ Delayed(k)

Spec == Init /\ [][Next]_larkVars

----------------------------------------------------------------------------
\* Properties

TypeOK ==
    /\ call \in [Parties -> {"off", "stopping", "disconnecting", "clearing", "starting", "done"}]
    /\ victim \in [Parties -> Connections \cup {Nothing}]
    /\ mine \in [Parties -> Connections \cup {Nothing}]
    /\ registered \in Connections \cup {Nothing}
    /\ \A set \in {stop, client, halting, slipped} : set \subseteq Connections
    /\ thread \in [Connections -> Phases]
    /\ errors \in 0..MaxErrors

\* Connections whose replacement or stop is through.
Dismissed == {k \in Connections :
                /\ \E c \in Parties : victim[c] = k
                /\ \A c \in Parties : victim[c] = k => call[c] \in {"starting", "done"}}

\* _stop_connection's promise: the flag keeps the retry loop from going round
\* again, and stopping the loop makes start exit. So a dismissed connection is
\* not on a socket, or its loop has yet to see that it is to stop.
StopEndsTheThread ==
    \A k \in Dismissed : thread[k] \in Running \cup {"ready"} => k \in halting

\* It is kept, but for connections met while their client was made or was
\* connecting, or while their thread was not started.
OtherStopsEndTheThread ==
    \A k \in Dismissed \ slipped : thread[k] \in Running \cup {"ready"} => k \in halting
=============================================================================
