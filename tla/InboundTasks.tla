---------------------------- MODULE InboundTasks ----------------------------
(***************************************************************************)
(* What becomes of an IM message (im_channel_application_service.py,       *)
(* im_delivery_coordinator.py, session_query_engine.py). A worker takes    *)
(* the messages of a session one after the other. Each is the answer a run *)
(* waits for, or a task: a prompt under an id made from the message's,     *)
(* whose answer is looked for in the conversation behind that prompt, now  *)
(* or when the message is taken again. Browsers send prompts to the same   *)
(* session and take back its last one. That one worker at a time has a     *)
(* message, in order, is ImInbox.                                          *)
(***************************************************************************)
EXTENDS Naturals, Sequences, FiniteSetsExt

CONSTANTS
    Tasks, Prompts,             \* sequence of messages from IM, set of prompts from browsers
    MaxAttempts,                \* of the policy
    MaxSends, MaxStops, MaxTexts, MaxTroubles,
        \* bounds: of one prompt, of cancels, of texts of a run, of failures and crashes
    NoTask

VARIABLES
    chat,      \* the persisted messages: what they are, whose run wrote them
    status,    \* the persisted status
    current,   \* the run: whose, and its copy of the messages
    asking,    \* the run waits for a user's answer
    lineup,    \* submissions waiting for the session's lock, in order
    cancelled, \* cancelled_sessions
    cutting,   \* a cancel is on its way
    stops, troubles,
    inbox,     \* inbox[t]: the row of the message
    work,      \* the worker: its task, its step, what it will say
    said,      \* said[t]: the replies in the outbox, one for each purpose
    web,       \* web[p]: how often p was sent
    \* history
    disturbed, \* whose run ended without a result, or was cut away
    resumed,   \* whose run went on behind the message of another
    again,     \* executed although they had been: with a result, undisturbed, or as an answer
    executed, taken, died  \* tasks that were executed; taken as an answer; whose worker died

inboundVars == <<chat, status, current, asking, lineup, cancelled, cutting, stops, troubles,
                 inbox, work, said, web, disturbed, resumed, again, executed, taken, died>>
sessionVars == <<chat, status, current, asking, cancelled, cutting, stops, disturbed, resumed,
                 again, executed>>

Messages == Range(Tasks)
NoRun == [of |-> NoTask, chat |-> <<>>, texts |-> 0, done |-> FALSE]
Off == [task |-> NoTask, at |-> "off", say |-> "nothing", of |-> NoTask]

Init ==
    /\ chat = <<>> /\ status = "idle" /\ current = NoRun /\ asking = FALSE /\ lineup = <<>>
    /\ cancelled = FALSE /\ cutting = FALSE /\ stops = 0 /\ troubles = 0
    /\ inbox = [t \in Messages |-> [status |-> "received", attempts |-> 0]]
    /\ work = Off /\ said = [t \in Messages |-> {}]
    /\ web = [p \in Prompts |-> 0]
    /\ disturbed = {} /\ resumed = {} /\ again = {} /\ executed = {} /\ taken = {} /\ died = {}

----------------------------------------------------------------------------
\* The conversation.

Of(msgs, kinds) == {i \in DOMAIN msgs : msgs[i].kind \in kinds}
Last(is) == Max(is \cup {0})

\* _find_user_message_index; 0 if there is none.
PromptOf(msgs, r) ==
    LET own == {i \in Of(msgs, {"prompt"}) : msgs[i].of = r} IN IF own = {} THEN 0 ELSE Min(own)

\* Mutant: up to the end.
BehindAll(msgs, r) ==
    LET i == PromptOf(msgs, r) IN {j \in DOMAIN msgs : i # 0 /\ i < j}

\* What follows the prompt of r, up to the next one.
Behind(msgs, r) ==
    LET i == PromptOf(msgs, r) IN
    {j \in DOMAIN msgs : /\ i # 0 /\ i < j
                         /\ \A p \in Of(msgs, {"prompt"}) : i < p => j < p}

Results(msgs) == Of(msgs, {"result", "error"})
Texts(msgs) == Of(msgs, {"text"})

\* _extract_response_after, _extract_result_error_after: what the worker is to say.
Answer(msgs, r) ==
    LET part == Behind(msgs, r)
        last == Last(part \cap Results(msgs))
        completed == last # 0 /\ msgs[last].kind = "result" /\ part \cap Texts(msgs) # {}
    IN  CASE completed ->
                [say |-> "response", of |-> msgs[Last(part \cap Texts(msgs))].of]
          [] ~ completed /\ part \cap Of(msgs, {"error"}) # {} ->
                [say |-> "query-error", of |-> r]
          [] OTHER -> [say |-> "nothing", of |-> NoTask]

----------------------------------------------------------------------------
\* The worker.

Step(at) == work' = [work EXCEPT !.at = at]
Says(at, answer) == work' = [work EXCEPT !.at = at, !.say = answer.say, !.of = answer.of]

Settled(t) == inbox[t].status \in {"processed", "dead"}

\* The first message not settled; one that was left PROCESSING by a crash, too.
Claim(i) ==
    /\ work = Off
    /\ ~ Settled(Tasks[i]) /\ \A j \in 1 .. i - 1 : Settled(Tasks[j])
    /\ inbox' = [inbox EXCEPT ![Tasks[i]].status = "processing", ![Tasks[i]].attempts = @ + 1]
    /\ work' = [Off EXCEPT !.task = Tasks[i], !.at = "look"]
    /\ UNCHANGED <<sessionVars, lineup, troubles, said, web, taken, died>>

\* _execute_inbound, while a run goes: it waits for an answer, or the task waits.
\* The answer is given to the run, which the row does not know yet.
LookBusy ==
    /\ work.at = "look" /\ status = "running"
    /\ IF asking THEN /\ asking' = FALSE /\ taken' = taken \cup {work.task}
                      /\ Step("processed")
       ELSE Step("deferred") /\ UNCHANGED <<asking, taken>>
    /\ UNCHANGED <<chat, status, current, lineup, cancelled, cutting, stops, troubles, inbox,
                   said, web, disturbed, resumed, again, executed, died>>

\* The answer is there, or the task is submitted.
Look ==
    /\ work.at = "look" /\ status # "running"
    /\ LET answer == Answer(chat, work.task)
       IN  IF answer.say # "nothing" THEN Says("reply", answer) /\ lineup' = lineup
           ELSE Step("submitted") /\ lineup' = Append(lineup, work.task)
    /\ UNCHANGED <<sessionVars, troubles, inbox, said, web, taken, died>>

\* _read_inbound_result.
Read ==
    /\ work.at = "read"
    /\ LET answer == Answer(chat, work.task)
       IN  IF answer.say # "nothing" THEN Says("reply", answer) ELSE Step("retry")
    /\ UNCHANGED <<sessionVars, lineup, troubles, inbox, said, web, taken, died>>

\* One row in the outbox for each purpose.
Reply(ok) ==
    LET t == work.task
        new == [purpose |-> work.say, of |-> work.of]
        known == \E a \in said[t] : a.purpose = work.say
    IN  /\ work.at = "reply"
        /\ ~ ok => troubles < MaxTroubles
        /\ troubles' = IF ok THEN troubles ELSE troubles + 1
        /\ said' = IF ok /\ ~ known THEN [said EXCEPT ![t] = @ \cup {new}] ELSE said
        /\ Step(IF ok THEN "processed" ELSE "failed")
        /\ UNCHANGED <<sessionVars, lineup, inbox, web, taken, died>>

\* What failed for another reason is told when it is not tried again.
Told(t) ==
    IF work.at = "failed" /\ inbox[t].attempts >= MaxAttempts
            /\ \A a \in said[t] : a.purpose # "processing-error"
    THEN [said EXCEPT ![t] = @ \cup {[purpose |-> "processing-error", of |-> t]}]
    ELSE said

\* _finish_inbox.
Finish ==
    LET t == work.task
        state == CASE work.at = "processed" -> "processed"
                   [] work.at = "deferred" -> "retry"
                   [] OTHER -> IF inbox[t].attempts >= MaxAttempts THEN "dead" ELSE "retry"
    IN  /\ work.at \in {"processed", "deferred", "retry", "failed"}
        /\ inbox' = [inbox EXCEPT
               ![t] = [status |-> state,
                       attempts |-> IF work.at = "deferred" THEN @.attempts - 1 ELSE @.attempts]]
        /\ said' = Told(t)
        /\ work' = Off
        /\ UNCHANGED <<sessionVars, lineup, troubles, web, taken, died>>

----------------------------------------------------------------------------
\* The engine. Whoever submitted goes on when the run has ended.

Return(r, at) == work' = IF r = work.task THEN [work EXCEPT !.at = at] ELSE work

\* A browser sends a prompt again when it has lost its connection.
Submit(p) ==
    /\ web[p] < MaxSends
    /\ web' = [web EXCEPT ![p] = @ + 1]
    /\ lineup' = Append(lineup, p)
    /\ UNCHANGED <<sessionVars, troubles, inbox, work, said, taken, died>>

\* Mutant: a request is executed whenever it comes.
FinishedNever(r) == FALSE

\* _acknowledge_terminal_duplicate: it has a result, whatever it is.
Finished(r) == Behind(chat, r) \cap Results(chat) # {}

Acknowledge ==
    /\ current = NoRun /\ lineup # <<>>
    /\ Finished(Head(lineup))
    /\ lineup' = Tail(lineup)
    /\ Return(Head(lineup), "read")
    /\ UNCHANGED <<sessionVars, troubles, inbox, said, web, taken, died>>

\* start_query raises: a cancelled run has left the session RUNNING.
Refuse ==
    /\ current = NoRun /\ lineup # <<>> /\ status = "running"
    /\ ~ Finished(Head(lineup))
    /\ lineup' = Tail(lineup)
    /\ Return(Head(lineup), "failed")
    /\ UNCHANGED <<sessionVars, troubles, inbox, said, web, taken, died>>

\* _prepare_query: a request that is known goes on where it is.
Start ==
    LET r == Head(lineup)
        known == PromptOf(chat, r) # 0
        msgs == IF known THEN chat ELSE Append(chat, [kind |-> "prompt", of |-> r])
        last == Last(Of(msgs, {"prompt"}))
    IN  /\ current = NoRun /\ lineup # <<>> /\ status # "running"
        /\ ~ Finished(r)
        /\ lineup' = Tail(lineup)
        /\ current' = [NoRun EXCEPT !.of = r, !.chat = msgs]
        /\ chat' = msgs /\ status' = "running"
        /\ executed' = IF r \in Messages THEN executed \cup {r} ELSE executed
        /\ resumed' = IF msgs[last].of # r THEN resumed \cup {r} ELSE resumed
        /\ again' = again
               \cup (IF \E i \in Results(chat) : chat[i].of = r
                     THEN {<<r, "with a result">>} ELSE {})
               \cup (IF r \in executed \ disturbed THEN {<<r, "undisturbed">>} ELSE {})
               \cup (IF r \in taken THEN {<<r, "as an answer">>} ELSE {})
        /\ UNCHANGED <<asking, cancelled, cutting, stops, troubles, inbox, work, said, web,
                       disturbed, taken, died>>

\* The stream: texts, then a result. It is saved now and then and with the
\* result, unless the session is cancelled.
Stream(kind, save) ==
    LET msgs == Append(current.chat, [kind |-> kind, of |-> current.of]) IN
    /\ current # NoRun /\ ~ current.done /\ ~ asking
    /\ kind = "text" => current.texts < MaxTexts
    /\ save => ~ cancelled
    /\ kind # "text" /\ ~ cancelled => save
    /\ current' = [current EXCEPT !.chat = msgs, !.done = kind # "text",
                                  !.texts = IF kind = "text" THEN @ + 1 ELSE @]
    /\ chat' = IF save THEN msgs ELSE chat
    /\ UNCHANGED <<status, asking, lineup, cancelled, cutting, stops, troubles, inbox, work, said,
                   web, disturbed, resumed, again, executed, taken, died>>

Ask ==
    /\ current # NoRun /\ ~ current.done /\ ~ asking /\ current.texts = 0
    /\ asking' = TRUE
    /\ UNCHANGED <<chat, status, current, lineup, cancelled, cutting, stops, troubles, inbox,
                   work, said, web, disturbed, resumed, again, executed, taken, died>>

\* A browser answers, or the run gives up waiting.
Answered ==
    /\ asking
    /\ asking' = FALSE
    /\ UNCHANGED <<chat, status, current, lineup, cancelled, cutting, stops, troubles, inbox,
                   work, said, web, disturbed, resumed, again, executed, taken, died>>

\* _handle_result, _handle_error, _finalize_query. A cancelled run saves nothing
\* and leaves the status to the cancel.
End(failed) ==
    /\ current # NoRun
    /\ current.done \/ failed
    /\ failed => ~ current.done /\ (cancelled \/ troubles < MaxTroubles)
    /\ troubles' = IF failed /\ ~ cancelled THEN troubles + 1 ELSE troubles
    /\ cancelled' = FALSE /\ current' = NoRun /\ asking' = FALSE
    /\ IF cancelled THEN UNCHANGED <<chat, status>>
       ELSE /\ chat' = current.chat
            /\ status' =
                   IF failed \/ current.chat[Last(Results(current.chat))].kind = "error"
                   THEN "error" ELSE "idle"
    /\ disturbed' = IF failed \/ cancelled THEN disturbed \cup {current.of} ELSE disturbed
    /\ Return(current.of, "read")
    /\ UNCHANGED <<lineup, cutting, stops, inbox, said, web, resumed, again, executed, taken,
                   died>>

\* cancel_query: the mark and, when the run has gone or does not go, the last
\* prompt and what is behind it.
Stop ==
    /\ ~ cutting /\ stops < MaxStops
    /\ stops' = stops + 1
    /\ cancelled' = TRUE /\ cutting' = TRUE /\ asking' = FALSE
    /\ UNCHANGED <<chat, status, current, lineup, troubles, inbox, work, said, web, disturbed,
                   resumed, again, executed, taken, died>>

Cut ==
    LET last == Last(Of(chat, {"prompt"})) IN
    /\ cutting
    /\ cutting' = FALSE
    /\ IF status = "error" THEN UNCHANGED <<chat, status, disturbed>>
       ELSE /\ status' = "idle"
            /\ chat' = IF last = 0 THEN chat ELSE SubSeq(chat, 1, last - 1)
            /\ disturbed' = disturbed \cup {chat[i].of : i \in last .. Len(chat) \ {0}}
    /\ UNCHANGED <<current, asking, lineup, cancelled, stops, troubles, inbox, work, said, web,
                   resumed, again, executed, taken, died>>

\* The process dies; the one that starts next calls the run failed.
Crash ==
    /\ troubles < MaxTroubles
    /\ troubles' = troubles + 1
    /\ status' = IF status = "running" THEN "error" ELSE status
    /\ current' = NoRun /\ asking' = FALSE /\ lineup' = <<>>
    /\ cancelled' = FALSE /\ cutting' = FALSE
    /\ work' = Off
    /\ disturbed' = IF current = NoRun THEN disturbed ELSE disturbed \cup {current.of}
    /\ died' = (died \cup {work.task}) \ {NoTask}
    /\ UNCHANGED <<chat, stops, inbox, said, web, resumed, again, executed, taken>>

Next ==
    \/ \E i \in DOMAIN Tasks : Claim(i)
    \/ LookBusy \/ Look \/ Read \/ Finish
    \/ \E ok \in BOOLEAN : Reply(ok)
    \/ \E p \in Prompts : Submit(p)
    \/ Acknowledge \/ Refuse \/ Start
    \/ \E kind \in {"text", "result", "error"}, save \in BOOLEAN : Stream(kind, save)
    \/ Ask \/ Answered
    \/ \E failed \in BOOLEAN : End(failed)
    \/ Stop \/ Cut \/ Crash

Spec == Init /\ [][Next]_inboundVars

----------------------------------------------------------------------------
\* A message from IM is answered with what its own run said, unless a run went
\* on behind the message of another; it is executed once, unless its run was
\* broken off or taken back; a message that has its result is not executed
\* again, one that was taken as an answer never - unless its worker died
\* before it said so; and what is processed was answered, or was an answer.
TasksAreAnswered ==
    \A t \in Messages :
        /\ \A a \in said[t] : a.purpose = "response" => a.of \in {t} \cup resumed
        /\ {<<t, "with a result">>, <<t, "undisturbed">>} \cap again # {} => t \in resumed
        /\ <<t, "as an answer">> \in again => t \in died
        /\ inbox[t].status = "processed" =>
                t \in taken \/ \E a \in said[t] : a.purpose \in {"response", "query-error"}

\* A message that was given up was told to its sender. It is not: that a run
\* brought no answer is told to nobody (_process_inbound, RetryableInboundError).
GivenUpIsTold ==
    \A t \in Messages : inbox[t].status = "dead" => said[t] # {}
=============================================================================
