----------------------------- MODULE Terminals -----------------------------
(***************************************************************************)
(* Terminals in the browser: the endpoint /ws/terminal (session_ws.py)     *)
(* with the pseudo-terminals of TerminalExecutor (terminal_executor.py).   *)
(* Each endpoint forks a shell and keeps the master's file descriptor; one *)
(* task relays what the shell writes, the endpoint itself writes what the  *)
(* user types, and on its way out it ends the relay, closes the descriptor *)
(* and signals the shell until it is gone.  The kernel gives a descriptor  *)
(* or a process number that was freed to whoever asks next.                *)
(***************************************************************************)
EXTENDS Naturals, FiniteSets

CONSTANTS
    Terminals,  \* endpoints, each with the terminal it makes
    Fds,        \* descriptors,
    Pids,       \* process numbers
    NoTerminal, NoFd, NoPid

VARIABLES
    endpoint,   \* each endpoint: where it stands
    relay,      \* relay_output: "none", "reading", "over"
    client,     \* its browser: "there" or "gone"
    pty,        \* the PtySession it holds
    listed,     \* _pty_sessions
    fd,         \* the kernel's: whose master each descriptor is
    proc,       \* whose shell each process is, and whether it runs, has ended
                \* or is waited for no more
    \* History, read by no guard:
    leaked,     \* terminals whose browser was gone before they were announced
    undead,     \* shells that outlasted every wait
    early       \* terminals whose relay reaped the shell

termVars == <<endpoint, relay, client, pty, listed, fd, proc, leaked, undead, early>>

NoPty == [fd |-> NoFd, pid |-> NoPid]
Free == [of |-> NoTerminal, state |-> "free"]

Init ==
    /\ endpoint = [t \in Terminals |-> "off"] /\ relay = [t \in Terminals |-> "none"]
    /\ client = [t \in Terminals |-> "there"] /\ pty = [t \in Terminals |-> NoPty]
    /\ listed = {}
    /\ fd = [f \in Fds |-> NoTerminal] /\ proc = [p \in Pids |-> Free]
    /\ leaked = {} /\ undead = {} /\ early = {}

----------------------------------------------------------------------------
\* waitpid, which reaps a shell that has ended: its number is free again. A
\* number that is not a child's is not alive.
Alive(t) == proc[pty[t].pid].state = "running"
Reaped(t) ==
    IF proc[pty[t].pid].state = "ended" THEN [proc EXCEPT ![pty[t].pid] = Free] ELSE proc

\* create_pty, up to its announcement.
Create(t) ==
    /\ endpoint[t] = "off"
    /\ \E f \in Fds, p \in Pids :
          /\ fd[f] = NoTerminal /\ proc[p] = Free
          /\ pty' = [pty EXCEPT ![t] = [fd |-> f, pid |-> p]]
          /\ fd' = [fd EXCEPT ![f] = t]
          /\ proc' = [proc EXCEPT ![p] = [of |-> t, state |-> "running"]]
    /\ listed' = listed \cup {t}
    /\ endpoint' = [endpoint EXCEPT ![t] = "made"]
    /\ UNCHANGED <<relay, client, leaked, undead, early>>

\* "ready", sent before the try that closes the terminal.
Announce(t) ==
    /\ endpoint[t] = "made"
    /\ IF client[t] = "there"
       THEN /\ endpoint' = [endpoint EXCEPT ![t] = "open"]
            /\ relay' = [relay EXCEPT ![t] = "reading"]
            /\ UNCHANGED leaked
       ELSE /\ endpoint' = [endpoint EXCEPT ![t] = "over"]
            /\ leaked' = leaked \cup {t}
            /\ UNCHANGED relay
    /\ UNCHANGED <<client, pty, listed, fd, proc, undead, early>>

\* The relay ends with the shell, found by waitpid when there is nothing to
\* read or by an error of read, or with the browser.  It closes the socket.
RelayEnds(t) ==
    /\ relay[t] = "reading"
    /\ \/ ~ Alive(t) /\ proc' = Reaped(t) /\ early' = early \cup {t}
       \/ (~ Alive(t) \/ client[t] = "gone") /\ UNCHANGED <<proc, early>>
    /\ relay' = [relay EXCEPT ![t] = "over"]
    /\ client' = [client EXCEPT ![t] = "gone"]
    /\ UNCHANGED <<endpoint, pty, listed, fd, leaked, undead>>

\* write_pty goes on while the shell takes nothing, and hears nothing else.
Type(t) ==
    /\ endpoint[t] = "open" /\ client[t] = "there"
    /\ endpoint' = [endpoint EXCEPT ![t] = "writing"]
    /\ UNCHANGED <<relay, client, pty, listed, fd, proc, leaked, undead, early>>

Typed(t) ==
    /\ endpoint[t] = "writing"
    /\ endpoint' = [endpoint EXCEPT ![t] = "open"]
    /\ UNCHANGED <<relay, client, pty, listed, fd, proc, leaked, undead, early>>

\* The browser leaves, or sends "close".
Leave(t) ==
    /\ client[t] = "there"
    /\ client' = [client EXCEPT ![t] = "gone"]
    /\ UNCHANGED <<endpoint, relay, pty, listed, fd, proc, leaked, undead, early>>

\* finally: the relay is cancelled, and over when the endpoint goes on.
EndRelay(t) ==
    /\ endpoint[t] = "open" /\ client[t] = "gone"
    /\ endpoint' = [endpoint EXCEPT ![t] = "closing"]
    /\ relay' = [relay EXCEPT ![t] = "over"]
    /\ UNCHANGED <<client, pty, listed, fd, proc, leaked, undead, early>>

\* Mutant: the shell is signalled without a look whether it runs.
CloseUnasked(t) ==
    /\ endpoint[t] = "closing"
    /\ listed' = listed \ {t}
    /\ fd' = [fd EXCEPT ![pty[t].fd] = NoTerminal]
    /\ proc' = Reaped(t)
    /\ endpoint' = [endpoint EXCEPT ![t] = "terminating"]
    /\ UNCHANGED <<relay, client, pty, leaked, undead, early>>

\* close_pty up to its first wait: only a shell that runs gets SIGTERM.
Close(t) ==
    /\ endpoint[t] = "closing"
    /\ listed' = listed \ {t}
    /\ fd' = [fd EXCEPT ![pty[t].fd] = NoTerminal]
    /\ proc' = Reaped(t)
    /\ endpoint' = [endpoint EXCEPT ![t] = IF Alive(t) THEN "terminating" ELSE "over"]
    /\ UNCHANGED <<relay, client, pty, leaked, undead, early>>

\* Two seconds for SIGTERM, 0.2 for SIGKILL.
Await(t) ==
    /\ endpoint[t] \in {"terminating", "killing"}
    /\ IF Alive(t)
       THEN /\ endpoint' = [endpoint EXCEPT ![t] =
                   IF endpoint[t] = "terminating" THEN "killing" ELSE "over"]
            /\ undead' = IF endpoint[t] = "killing" THEN undead \cup {t} ELSE undead
            /\ UNCHANGED proc
       ELSE /\ endpoint' = [endpoint EXCEPT ![t] = "over"]
            /\ proc' = Reaped(t)
            /\ UNCHANGED undead
    /\ UNCHANGED <<relay, client, pty, listed, fd, leaked, early>>

\* A shell ends by itself or by a signal.
ShellEnds(p) ==
    /\ proc[p].state = "running"
    /\ proc' = [proc EXCEPT ![p].state = "ended"]
    /\ UNCHANGED <<endpoint, relay, client, pty, listed, fd, leaked, undead, early>>

Next ==
    \/ \E t \in Terminals :
          \/ Create(t) \/ Announce(t) \/ RelayEnds(t) \/ Type(t) \/ Typed(t) \/ Leave(t)
          \/ EndRelay(t) \/ Close(t) \/ Await(t)
    \/ \E p \in Pids : ShellEnds(p)

Spec == Init /\ [][Next]_termVars

----------------------------------------------------------------------------
TypeOK ==
    /\ endpoint \in [Terminals -> {"off", "made", "open", "writing", "closing", "terminating",
                                   "killing", "over"}]
    /\ relay \in [Terminals -> {"none", "reading", "over"}]
    /\ client \in [Terminals -> {"there", "gone"}]
    /\ listed \subseteq Terminals
    /\ fd \in [Fds -> Terminals \cup {NoTerminal}]

\* Who reads, writes or resizes a terminal does it through its own descriptor,
\* though a number that was closed is another terminal's at once.
DescriptorsAreTheirOwn ==
    \A t \in Terminals :
        relay[t] = "reading" \/ endpoint[t] \in {"made", "open", "writing", "closing"} =>
            fd[pty[t].fd] = t

\* A signal reaches the terminal's own shell, though the number of a shell that
\* was reaped may be another's at once. Not so with a number that a relay reaped
\* (early): it may be another terminal's shell when close_pty asks whether it is
\* alive, reaps it or signals it.
SignalsHitTheirShell ==
    \A t \in {u \in Terminals : \A e \in early : pty[e].pid # pty[u].pid} :
        endpoint[t] \in {"terminating", "killing"} => proc[pty[t].pid].of = t

\* An endpoint that is over leaves no descriptor, no entry and no shell. Not so
\* one whose browser was gone before it was told of the terminal (leaked), and
\* a shell that ended after the last look at it stays a zombie (undead).
NothingIsLeftOver ==
    \A t \in Terminals \ leaked :
        endpoint[t] = "over" =>
            /\ t \notin listed /\ \A f \in Fds : fd[f] # t
            /\ t \notin undead => \A p \in Pids : proc[p].of # t
=============================================================================
