-------------------------- MODULE ProgressFeedback --------------------------
(***************************************************************************)
(* How the sender of an IM message sees that it is worked on               *)
(* (inbound_progress_reporter.py; reactions of lark_adapter.py, the typing *)
(* indicator of weixin_adapter.py): Lark shows a reaction on the message,  *)
(* WeChat that somebody is typing, kept up by a task, and WeChat and QQ a  *)
(* text when it takes long. Each attempt at a message has a reporter; two  *)
(* attempts, or two messages of one user, may overlap.                     *)
(***************************************************************************)
EXTENDS Naturals, Sequences, FiniteSets

CONSTANTS
    Kinds,      \* of "lark", "weixin", "qq"
    Attempts, Asks, \* attempts at messages, messages
    MaxMishaps, \* bound: calls that fail
    Nobody

VARIABLES
    kind,      \* the channel
    report,    \* report[a]: the message, the step, the reaction's id, the ticket, the delayed text
    typist,    \* _typing_sessions: whose task keeps the indicator up
    keepalive, \* the tasks that run
    typing,    \* WeChat shows that somebody types
    reactions, \* on which messages Lark shows a reaction, and whose
    told,      \* the outbox: what was said about which message
    mishaps,
    lasting    \* history: reactions and an indicator that a failed call left

feedbackVars == <<kind, report, typist, keepalive, typing, reactions, told, mishaps, lasting>>

Idle == [ask |-> Nobody, at |-> "off", reaction |-> FALSE, ticket |-> FALSE, ack |-> FALSE]

Init ==
    /\ kind \in Kinds
    /\ report = [a \in Attempts |-> Idle]
    /\ typist = Nobody /\ keepalive = {} /\ typing = FALSE
    /\ reactions = {} /\ told = <<>> /\ mishaps = 0 /\ lasting = {}

Step(a, at) == report' = [report EXCEPT ![a].at = at]
Mishap(ok) == IF ok THEN mishaps' = mishaps
              ELSE mishaps < MaxMishaps /\ mishaps' = mishaps + 1

\* A row of the outbox for each message and purpose, once.
Say(m, purpose) ==
    told' = IF \E i \in DOMAIN told : told[i] = <<m, purpose>> THEN told
            ELSE Append(told, <<m, purpose>>)

----------------------------------------------------------------------------
\* __aenter__.

Begin(a, m) ==
    /\ report[a].at = "off" /\ report[a].ask = Nobody
    /\ report' = [report EXCEPT ![a].ask = m, ![a].at = "react"]
    /\ UNCHANGED <<kind, typist, keepalive, typing, reactions, told, mishaps, lasting>>

\* add_reaction: without an id nobody can remove it.
React(a, shown, ok) ==
    LET mine == <<report[a].ask, a>> IN
    /\ report[a].at = "react"
    /\ kind # "lark" => ok /\ ~ shown
    /\ kind = "lark" /\ ok => shown
    /\ Mishap(ok)
    /\ reactions' = IF shown THEN reactions \cup {mine} ELSE reactions
    /\ lasting' = IF shown /\ ~ ok THEN lasting \cup {mine} ELSE lasting
    /\ report' = [report EXCEPT ![a].reaction = shown /\ ok, ![a].at = "type"]
    /\ UNCHANGED <<kind, typist, keepalive, typing, told>>

\* start_typing: the ticket, the first call, and the task.
StartTyping(a, shown, ok) ==
    /\ report[a].at = "type"
    /\ kind # "weixin" => ok /\ ~ shown
    /\ kind = "weixin" /\ ok => shown
    /\ Mishap(ok)
    /\ typing' = (typing \/ shown)
    /\ lasting' = IF shown /\ ~ ok THEN lasting \cup {"typing"} ELSE lasting
    /\ keepalive' = IF shown /\ ok THEN keepalive \cup {a} ELSE keepalive
    /\ Step(a, IF shown /\ ok THEN "install" ELSE "enter")
    /\ UNCHANGED <<kind, typist, reactions, told>>

\* Mutant: the one before goes on.
KeptOn(before) == {}

\* The task that was there before is cancelled.
Replaced(before) == {before}

Install(a) ==
    /\ report[a].at = "install"
    /\ typist' = a
    /\ keepalive' = keepalive \ Replaced(typist)
    /\ report' = [report EXCEPT ![a].ticket = TRUE, ![a].at = "enter"]
    /\ UNCHANGED <<kind, typing, reactions, told, mishaps, lasting>>

\* Where nothing shows it, or not for long, a text will.
Enter(a) ==
    /\ report[a].at = "enter"
    /\ report' = [report EXCEPT ![a].ack = kind # "lark", ![a].at = "working"]
    /\ UNCHANGED <<kind, typist, keepalive, typing, reactions, told, mishaps, lasting>>

----------------------------------------------------------------------------
\* While it is worked on.

\* _run_typing_keepalive: a call that fails ends the task.
KeepTyping(a, ok) ==
    /\ a \in keepalive
    /\ Mishap(ok)
    /\ typing' = (typing \/ ok)
    /\ keepalive' = IF ok THEN keepalive ELSE keepalive \ {a}
    /\ UNCHANGED <<kind, report, typist, reactions, told, lasting>>

\* _send_delayed_ack: after eight seconds, until it is cancelled.
Acknowledge(a) ==
    /\ report[a].ack
    /\ Say(report[a].ask, "started")
    /\ report' = [report EXCEPT ![a].ack = FALSE]
    /\ UNCHANGED <<kind, typist, keepalive, typing, reactions, mishaps, lasting>>

\* The answer, or that the session is busy, or an error that says nothing now.
Work(a, purpose) ==
    /\ report[a].at = "working"
    /\ IF purpose = "nothing" \/ (purpose = "busy" /\ kind = "lark") THEN told' = told
       ELSE Say(report[a].ask, purpose)
    /\ Step(a, "leave")
    /\ UNCHANGED <<kind, typist, keepalive, typing, reactions, mishaps, lasting>>

----------------------------------------------------------------------------
\* __aexit__.

\* Mutant: the text is not called off.
LeaveTheText(a) == report[a].ack

\* The delayed text is called off.
TextAfter(a) == FALSE

Leave(a) ==
    /\ report[a].at = "leave"
    /\ report' = [report EXCEPT ![a].ack = TextAfter(a), ![a].at = "unreact"]
    /\ UNCHANGED <<kind, typist, keepalive, typing, reactions, told, mishaps, lasting>>

Unreact(a, ok) ==
    LET mine == <<report[a].ask, a>> IN
    /\ report[a].at = "unreact"
    /\ ~ report[a].reaction => ok
    /\ Mishap(ok)
    /\ reactions' = IF report[a].reaction /\ ok THEN reactions \ {mine} ELSE reactions
    /\ lasting' = IF ok THEN lasting ELSE lasting \cup {mine}
    /\ Step(a, "quiet")
    /\ UNCHANGED <<kind, typist, keepalive, typing, told>>

\* stop_typing: whoever's task is there is cancelled, and WeChat told.
StopTyping(a, ok) ==
    LET stops == report[a].ticket /\ typist # Nobody IN
    /\ report[a].at = "quiet"
    /\ ~ stops => ok
    /\ Mishap(ok)
    /\ IF stops THEN /\ typist' = Nobody /\ keepalive' = keepalive \ {typist}
                     /\ typing' = (typing /\ ~ ok)
                     /\ lasting' = IF ok THEN lasting \ {"typing"}
                                   ELSE lasting \cup {"typing"}
       ELSE UNCHANGED <<typist, keepalive, typing, lasting>>
    /\ Step(a, "off")
    /\ UNCHANGED <<kind, reactions, told>>

Next ==
    \E a \in Attempts :
        \/ \E m \in Asks : Begin(a, m)
        \/ \E shown, ok \in BOOLEAN : React(a, shown, ok) \/ StartTyping(a, shown, ok)
        \/ \E purpose \in {"response", "busy", "nothing"} : Work(a, purpose)
        \/ \E ok \in BOOLEAN : KeepTyping(a, ok) \/ Unreact(a, ok) \/ StopTyping(a, ok)
        \/ Install(a) \/ Enter(a) \/ Acknowledge(a) \/ Leave(a)

Spec == Init /\ [][Next]_feedbackVars

----------------------------------------------------------------------------
AtWork(a) == report[a].at # "off"

\* What shows that somebody works ends with the work, unless the call that ends
\* it failed: a task keeps the indicator up only for who is at work, the
\* indicator and the reactions go, no text is to come, and that it has started
\* is said while somebody works on the message or has done so.
FeedbackEndsWithTheWork ==
    /\ (\A a \in Attempts : ~ AtWork(a)) =>
            /\ keepalive = {} /\ typist = Nobody
            /\ typing => "typing" \in lasting
    /\ reactions \ lasting \subseteq {<<report[a].ask, a>> : a \in {b \in Attempts : AtWork(b)}}
    /\ keepalive \subseteq {typist} \cup {a \in Attempts : AtWork(a)}
    /\ \A a \in Attempts : report[a].ack => report[a].at \in {"working", "leave"}

\* That it has started is said before the answer. It is not: the text is called
\* off only after the answer was given to the outbox.
StartIsSaidFirst ==
    \A i, j \in DOMAIN told :
        i < j /\ told[i][1] = told[j][1] => ~ (told[i][2] = "response" /\ told[j][2] = "started")
=============================================================================
