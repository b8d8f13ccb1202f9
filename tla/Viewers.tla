------------------------------ MODULE Viewers ------------------------------
(***************************************************************************)
(* The browsers that watch one session.  The stream consumer appends each  *)
(* message to the run's copy of the conversation, broadcasts it and only   *)
(* now and then saves; a browser that connects is registered for the       *)
(* broadcasts, gets the saved conversation as its snapshot, and shows what *)
(* it is sent, each snapshot replacing what it showed.  A cancel cuts the  *)
(* saved conversation before its last prompt, a rewind before any of them; *)
(* both broadcast the whole of it when the agent has been told.  A         *)
(* broadcast sends to the sockets that were registered when it began and   *)
(* afterwards drops those that failed or took too long.                    *)
(***************************************************************************)
EXTENDS Naturals, SequencesExt, FiniteSets

CONSTANTS
    Viewers,
    MaxItems,     \* messages of the conversation (bound)
    MaxLosses,    \* connections lost, final saves that fail (bound)
    MaxStalls,    \* sends that take longer than _SEND_TIMEOUT_SECONDS (bound)
    MaxRewinds    \* cancels (bound)

VARIABLES
    log,        \* the conversation as the run has it
    stored,     \* as it is saved
    asks,       \* which of its messages are prompts
    made,
    turn,       \* "idle" or "running"
    flag,       \* the session is in cancelled_sessions
    cancel,     \* cancel_query, rewind_to_message: "off", "asked", "saved"
    back,       \* the conversation it has saved and will broadcast
    cast,       \* the broadcast of the run, and that of the cancel
    listed,     \* _connections
    handler,    \* each endpoint: "off", "registered", "loaded", "open"
    snap,       \* the snapshot it has loaded
    shows,      \* the messages the browser shows, or will when it has got all
    losses, stalls, rewinds,  \* bounds
    \* History, read by no guard:
    late,       \* viewers whose snapshot lacked what they were not sent again
    overdue,    \* a run went on, or a new one had begun, when a rewind was saved or shown
    unsaved     \* a run ended without its conversation saved

viewVars == <<log, stored, asks, made, turn, flag, cancel, back, cast, listed, handler, snap, shows,
              losses, stalls, rewinds, late, overdue, unsaved>>

Sources == {"run", "cancel"}
Quiet == [busy |-> FALSE, dead |-> {}]
Event(kind, items) == [kind |-> kind, items |-> items]

\* removeMessageByClientIdFor: the first message of that id is taken out.
Without(ms, m) ==
    LET found == {i \in DOMAIN ms : ms[i] = m}
    IN  IF found = {} THEN ms ELSE RemoveAt(ms, Min(found))

\* Mutant: a snapshot is added to what was shown.
ShownAfter(ms, event) ==
    CASE event.kind = "rewind" -> event.items
      [] event.kind = "prompt" -> Without(ms, event.items[1]) \o event.items
      [] event.kind \in {"connected", "message"} -> ms \o event.items

\* useSession.js: a snapshot replaces the messages (setMessagesFor), a prompt
\* moves to the end (addMessageTo), others are added.
Shown(ms, event) ==
    CASE event.kind \in {"connected", "rewind"} -> event.items
      [] event.kind = "prompt" -> Without(ms, event.items[1]) \o event.items
      [] event.kind = "message" -> ms \o event.items

Init ==
    /\ log = <<>> /\ stored = <<>> /\ asks = {} /\ made = 0
    /\ turn = "idle" /\ flag = FALSE /\ cancel = "off" /\ back = <<>>
    /\ cast = [c \in Sources |-> Quiet]
    /\ listed = {} /\ handler = [v \in Viewers |-> "off"]
    /\ snap = [v \in Viewers |-> <<>>]
    /\ shows = [v \in Viewers |-> <<>>]
    /\ losses = 0 /\ stalls = 0 /\ rewinds = 0
    /\ late = {} /\ overdue = FALSE /\ unsaved = FALSE

----------------------------------------------------------------------------
\* ConnectionManager.broadcast: what is sent to one socket keeps its order. A
\* send that takes too long is given up; its socket is taken from the list when
\* all the sends are over.
Broadcast(c, event) ==
    \E slow \in SUBSET listed :
        /\ stalls + Cardinality(slow) <= MaxStalls
        /\ stalls' = stalls + Cardinality(slow)
        /\ shows' = [v \in Viewers |->
                IF v \in listed \ slow THEN Shown(shows[v], event) ELSE shows[v]]
        /\ cast' = [cast EXCEPT ![c] = [busy |-> listed # {}, dead |-> slow]]
        /\ late' = IF event.kind = "rewind" THEN late \ (listed \ slow) ELSE late

Sent(c) ==
    /\ cast[c].busy
    /\ listed' = listed \ cast[c].dead
    /\ cast' = [cast EXCEPT ![c] = Quiet]
    /\ UNCHANGED <<log, stored, asks, made, turn, flag, cancel, back, handler, snap, shows,
                   losses, stalls, rewinds, late, overdue, unsaved>>

----------------------------------------------------------------------------
\* The run.

Added(n) == log' = Append(log, n) /\ made' = n

\* submit_query takes the flag down; _save_and_broadcast saves the prompt before
\* it announces it.
Prompt ==
    /\ turn = "idle" /\ ~ cast["run"].busy /\ made < MaxItems
    /\ turn' = "running"
    /\ Added(made + 1) /\ stored' = log'
    /\ asks' = asks \cup {made + 1}
    /\ Broadcast("run", Event("prompt", <<made + 1>>))
    /\ flag' = FALSE
    /\ UNCHANGED <<cancel, back, listed, handler, snap, losses, rewinds, overdue, unsaved>>

\* consume: one message of the stream, broadcast before it is saved.
Message ==
    /\ turn = "running" /\ ~ cast["run"].busy /\ made < MaxItems
    /\ Added(made + 1)
    /\ Broadcast("run", Event("message", <<made + 1>>))
    /\ UNCHANGED <<stored, asks, turn, flag, cancel, back, listed, handler, snap, losses, rewinds,
                   overdue, unsaved>>

\* The save every two seconds, which a cancel stops.
Save ==
    /\ turn = "running" /\ ~ cast["run"].busy /\ ~ flag /\ stored # log
    /\ stored' = log
    /\ UNCHANGED <<log, asks, made, turn, flag, cancel, back, cast, listed, handler, snap, shows,
                   losses, stalls, rewinds, late, overdue, unsaved>>

\* _finalize_query: a cancelled run is not saved; another is, unless both
\* attempts fail.
Finish ==
    /\ turn = "running" /\ ~ cast["run"].busy
    /\ turn' = "idle" /\ flag' = FALSE
    /\ \/ flag /\ log' = stored /\ UNCHANGED <<stored, losses, unsaved>>
       \/ ~ flag /\ stored' = log /\ UNCHANGED <<log, losses, unsaved>>
       \/ /\ ~ flag /\ losses < MaxLosses /\ stored # log
          /\ losses' = losses + 1
          /\ log' = stored /\ unsaved' = TRUE
          /\ UNCHANGED stored
    /\ UNCHANGED <<asks, made, cancel, back, cast, listed, handler, snap, shows, stalls,
                   rewinds, late, overdue>>

----------------------------------------------------------------------------
\* cancel_query.

AskCancel ==
    /\ cancel = "off" /\ rewinds < MaxRewinds
    /\ cancel' = "asked" /\ flag' = TRUE
    /\ rewinds' = rewinds + 1
    /\ UNCHANGED <<log, stored, asks, made, turn, back, cast, listed, handler, snap, shows, losses,
                   stalls, late, overdue, unsaved>>

\* The conversation is cut and saved; the broadcast comes after what the agent
\* has to be told.
CutTo(ms) ==
    /\ cancel' = "saved" /\ back' = ms /\ stored' = ms
    /\ log' = IF turn = "idle" THEN ms ELSE log
    /\ UNCHANGED <<asks, made, turn, flag, cast, listed, handler, snap, shows, losses, stalls,
                   late, unsaved>>

\* The saved conversation up to its last prompt.
Rewound ==
    LET prompts == {i \in DOMAIN stored : stored[i] \in asks}
    IN  IF prompts = {} THEN stored
        ELSE SubSeq(stored, 1, (CHOOSE i \in prompts : \A j \in prompts : j <= i) - 1)

\* The run ends on the interrupt, or is waited for two seconds.
Rewind ==
    /\ cancel = "asked"
    /\ CutTo(Rewound)
    /\ overdue' = (overdue \/ turn = "running")
    /\ UNCHANGED rewinds

\* rewind_to_message, of a session that is idle: up to any of its prompts.
RewindTo(i) ==
    /\ cancel = "off" /\ rewinds < MaxRewinds /\ turn = "idle"
    /\ i \in DOMAIN stored /\ stored[i] \in asks
    /\ CutTo(SubSeq(stored, 1, i - 1))
    /\ rewinds' = rewinds + 1
    /\ UNCHANGED overdue

\* The session's new id in the SDK is saved, with the conversation as it was cut.
SaveAgain ==
    /\ cancel = "saved" /\ stored # back
    /\ stored' = back
    /\ log' = IF turn = "idle" THEN back ELSE log
    /\ overdue' = TRUE
    /\ UNCHANGED <<asks, made, turn, flag, cancel, back, cast, listed, handler, snap, shows, losses,
                   stalls, rewinds, late, unsaved>>

\* _broadcast_rewind_state.
ShowRewound ==
    /\ cancel = "saved" /\ ~ cast["cancel"].busy
    /\ overdue' = (overdue \/ back # log)
    /\ cancel' = "off" /\ back' = <<>>
    /\ Broadcast("cancel", Event("rewind", back))
    /\ UNCHANGED <<log, stored, asks, made, turn, flag, listed, handler, snap, losses, rewinds,
                   unsaved>>

----------------------------------------------------------------------------
\* The endpoint of one browser.

\* ConnectionManager.connect: from here the broadcasts reach it.
Register(v) ==
    /\ handler[v] = "off"
    /\ handler' = [handler EXCEPT ![v] = "registered"]
    /\ listed' = listed \cup {v}
    /\ UNCHANGED <<log, stored, asks, made, turn, flag, cancel, back, cast, snap, shows, losses,
                   stalls, rewinds, late, overdue, unsaved>>

Load(v) ==
    /\ handler[v] = "registered"
    /\ handler' = [handler EXCEPT ![v] = "loaded"]
    /\ snap' = [snap EXCEPT ![v] = stored]
    /\ UNCHANGED <<log, stored, asks, made, turn, flag, cancel, back, cast, listed, shows, losses,
                   stalls, rewinds, late, overdue, unsaved>>

\* "connected": the snapshot replaces what was sent since the registration.
Connected(v) ==
    /\ handler[v] = "loaded"
    /\ handler' = [handler EXCEPT ![v] = "open"]
    /\ shows' = [shows EXCEPT ![v] = Shown(@, Event("connected", snap[v]))]
    /\ late' = IF snap[v] = log THEN late \ {v} ELSE late \cup {v}
    /\ snap' = [snap EXCEPT ![v] = <<>>]
    /\ UNCHANGED <<log, stored, asks, made, turn, flag, cancel, back, cast, listed, losses, stalls,
                   rewinds, overdue, unsaved>>

\* The connection is lost; a broadcast fails on the old socket. The browser
\* connects again, and its next snapshot replaces what it shows.
Lose(v) ==
    /\ handler[v] # "off" /\ losses < MaxLosses
    /\ losses' = losses + 1
    /\ handler' = [handler EXCEPT ![v] = "off"]
    /\ listed' = listed \ {v}
    /\ snap' = [snap EXCEPT ![v] = <<>>] /\ shows' = [shows EXCEPT ![v] = <<>>]
    /\ late' = late \ {v}
    /\ cast' = [c \in Sources |-> [cast[c] EXCEPT !.dead = @ \ {v}]]
    /\ UNCHANGED <<log, stored, asks, made, turn, flag, cancel, back, stalls, rewinds, overdue, unsaved>>

Next ==
    \/ Prompt \/ Message \/ Save \/ Finish \/ AskCancel \/ Rewind
    \/ SaveAgain \/ ShowRewound
    \/ \E i \in DOMAIN stored : RewindTo(i)
    \/ \E c \in Sources : Sent(c)
    \/ \E v \in Viewers : Register(v) \/ Load(v) \/ Connected(v) \/ Lose(v)

Spec == Init /\ [][Next]_viewVars

----------------------------------------------------------------------------
TypeOK ==
    /\ log \in Seq(1 .. MaxItems) /\ stored \in Seq(1 .. MaxItems)
    /\ turn \in {"idle", "running"} /\ flag \in BOOLEAN
    /\ listed \subseteq Viewers
    /\ handler \in [Viewers -> {"off", "registered", "loaded", "open"}]

\* A browser that is connected and is sent the broadcasts.
Watches(v) == handler[v] = "open" /\ v \in listed

\* A browser that has got all it was sent shows the conversation, without a
\* gap, a repetition or a rewound message, whenever it connected.  Not so one
\* whose snapshot was older than a broadcast it missed or that the snapshot
\* replaced (late, until the next snapshot), when a cancelled run went on
\* after the rewind (overdue), and when a run's last save failed (unsaved).
ViewersSeeTheConversation ==
    ~ overdue /\ ~ unsaved =>
        \A v \in Viewers \ late :
            /\ Watches(v)
            /\ \A c \in Sources : v \notin cast[c].dead
            /\ cancel = "off"
            => shows[v] = log

\* No browser shows a message twice or out of order, not even a late one.
ShownInOrder ==
    \A v \in Viewers : \A i \in 2 .. Len(shows[v]) : shows[v][i - 1] < shows[v][i]

\* An open socket is sent the broadcasts: false once a send took too long,
\* which takes the socket from the list and leaves it open, its pings answered.
NobodyIsDeaf == \A v \in Viewers : handler[v] = "open" => v \in listed
=============================================================================
