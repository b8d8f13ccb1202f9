----------------------------- MODULE MCBackend ------------------------------
(***************************************************************************)
(* What goes on for sessions beside the engine's own queue: the process    *)
(* one is connected to, the conversation it continues, what becomes of a   *)
(* message from IM, how it came and how the answer goes. As in MCServices  *)
(* the parts share no state; focus says which of them moves in a           *)
(* behaviour, the others rest.                                             *)
(***************************************************************************)
EXTENDS Naturals, Sequences

CONSTANTS
    Parts,
    MaxRuns, MaxConnections, MaxChanges, MaxSides, MaxDisturbances,
    MaxAttempts, MaxSends, MaxStops, MaxTexts, MaxTroubles, NoTask,
    Sessions, MaxTranscripts, MaxMishaps, MaxQueries, Prewarmed,
    Kinds, SendWorkers, MaxRows, MaxTries, MaxBreaks, Nobody,
    Attempts, Asks, MaxFailedCalls,
    Sorts, MaxArrivals, MaxSaves, MaxSlips, MaxStages

VARIABLES
    focus,   \* what moves, one of Parts
    client, pump, state, active, timer, oplock, conn, run, side, idle, chosen, actual, setting,
    installed, loaded, reload, used, killed, missed,
    chat, status, current, asking, lineup, cancelled, cutting, stops, troubles, inbox, work, said,
    web, disturbed, resumed, again, executed, taken, died,
    rows, files, made, cache, link, query, warm, import, queries, mishaps, talk, removed, twice,
    lost,
    channel, last, outgoing, sender, arrived, temps, breaks, spoiled,
    kind, report, typist, keepalive, typing, reactions, told, failedCalls, lasting,
    source, written, got, task, accepted, store, placed, pcms, slips, gone, repeated, left

\* Nobody is none of those who could be, and no conversation; the bounds are
\* numbers.
ASSUME BackendAssumption ==
  /\ Nobody \notin Attempts \cup Asks \cup SendWorkers \cup {"user", "group"}
  /\ MaxConnections \in Nat /\ MaxArrivals \in Nat
  /\ Kinds \subseteq {"lark", "weixin", "qq"}

gatewayVars == <<client, pump, state, active, timer, oplock, conn, run, side, idle, chosen,
                 actual, setting, installed, loaded, reload, used, killed, missed>>
inboundVars == <<chat, status, current, asking, lineup, cancelled, cutting, stops, troubles,
                 inbox, work, said, web, disturbed, resumed, again, executed, taken, died>>
bindingVars == <<rows, files, made, cache, link, query, warm, import, queries, mishaps, talk,
                 removed, twice, lost>>
sendVars == <<channel, last, outgoing, sender, arrived, temps, breaks, spoiled>>
feedbackVars ==
    <<kind, report, typist, keepalive, typing, reactions, told, failedCalls, lasting>>
arrivalVars == <<source, written, got, task, accepted, store, placed, pcms, slips, gone, repeated,
                 left>>

Link == INSTANCE Gateway
Inbound == INSTANCE InboundTasks WITH Tasks <- <<"t1", "t2">>, Prompts <- {"p1"}
Bindings == INSTANCE SdkBindings
Sends == INSTANCE ChannelSends WITH Channels <- Kinds, rows <- outgoing, None <- Nobody
Feedback == INSTANCE ProgressFeedback WITH MaxMishaps <- MaxFailedCalls, mishaps <- failedCalls
Arrivals == INSTANCE ChannelArrivals WITH Sources <- Kinds \ {"weixin"}

vars == <<focus, gatewayVars, inboundVars, bindingVars, sendVars, feedbackVars, arrivalVars>>

\* What does not move is 0, which keeps the states small.
Init ==
    /\ focus \in Parts
    /\ IF focus = "gateway" THEN Link!Init ELSE
            /\ client = 0 /\ pump = 0 /\ state = 0 /\ active = 0 /\ timer = 0
            /\ oplock = 0 /\ conn = 0 /\ run = 0 /\ side = 0 /\ idle = 0
            /\ chosen = 0 /\ actual = 0 /\ setting = 0 /\ installed = 0
            /\ loaded = 0 /\ reload = 0 /\ used = 0 /\ killed = 0 /\ missed = 0
    /\ IF focus = "inbound" THEN Inbound!Init ELSE
            /\ chat = 0 /\ status = 0 /\ current = 0 /\ asking = 0 /\ lineup = 0
            /\ cancelled = 0 /\ cutting = 0 /\ stops = 0 /\ troubles = 0 /\ inbox = 0
            /\ work = 0 /\ said = 0 /\ web = 0 /\ disturbed = 0 /\ resumed = 0
            /\ again = 0 /\ executed = 0 /\ taken = 0 /\ died = 0
    /\ IF focus = "bindings" THEN Bindings!Init ELSE
            /\ rows = 0 /\ files = 0 /\ made = 0 /\ cache = 0 /\ link = 0 /\ query = 0
            /\ warm = 0 /\ import = 0 /\ queries = 0 /\ mishaps = 0 /\ talk = 0
            /\ removed = 0 /\ twice = 0 /\ lost = 0
    /\ IF focus = "sends" THEN Sends!Init ELSE
            /\ channel = 0 /\ last = 0 /\ outgoing = 0 /\ sender = 0 /\ arrived = 0
            /\ temps = 0 /\ breaks = 0 /\ spoiled = 0
    /\ IF focus = "feedback" THEN Feedback!Init ELSE
            /\ kind = 0 /\ report = 0 /\ typist = 0 /\ keepalive = 0 /\ typing = 0
            /\ reactions = 0 /\ told = 0 /\ failedCalls = 0 /\ lasting = 0
    /\ IF focus = "arrivals" THEN Arrivals!Init ELSE
            /\ source = 0 /\ written = 0 /\ got = 0 /\ task = 0 /\ accepted = 0
            /\ store = 0 /\ placed = 0 /\ pcms = 0 /\ slips = 0 /\ gone = 0
            /\ repeated = 0 /\ left = 0

Next ==
    \/ /\ focus = "gateway" /\ Link!Next
       /\ UNCHANGED <<focus, inboundVars, bindingVars, sendVars, feedbackVars, arrivalVars>>
    \/ /\ focus = "inbound" /\ Inbound!Next
       /\ UNCHANGED <<focus, gatewayVars, bindingVars, sendVars, feedbackVars, arrivalVars>>
    \/ /\ focus = "bindings" /\ Bindings!Next
       /\ UNCHANGED <<focus, gatewayVars, inboundVars, sendVars, feedbackVars, arrivalVars>>
    \/ /\ focus = "sends" /\ Sends!Next
       /\ UNCHANGED <<focus, gatewayVars, inboundVars, bindingVars, feedbackVars, arrivalVars>>
    \/ /\ focus = "feedback" /\ Feedback!Next
       /\ UNCHANGED <<focus, gatewayVars, inboundVars, bindingVars, sendVars, arrivalVars>>
    \/ /\ focus = "arrivals" /\ Arrivals!Next
       /\ UNCHANGED <<focus, gatewayVars, inboundVars, bindingVars, sendVars, feedbackVars>>

Spec == Init /\ [][Next]_vars

----------------------------------------------------------------------------
\* Upkeep closes a connection nobody uses, and no other (ClaudeAgentGateway).
OnlyTheIdleAreClosed == focus = "gateway" => Link!OnlyTheIdleAreClosed

\* The process gets the newest mode and plugins (ClaudeAgentGateway).
ChangesReachTheProcess == focus = "gateway" => Link!ChangesReachTheProcess

\* A message from IM is executed once and answered with its answer
\* (ImChannelApplicationService._process_inbound).
TasksAreAnswered == focus = "inbound" => Inbound!TasksAreAnswered

\* A session continues its own conversation (SdkSessionBindingService).
ConversationsKeepToTheirSession ==
    focus = "bindings" => Bindings!ConversationsKeepToTheirSession

\* What a person writes comes to the inbox, what is said to him arrives
\* (the channels' adapters, ImChannelFacade).
MessagesAreCarried ==
    /\ focus = "arrivals" => Arrivals!MessagesComeThrough
    /\ focus = "sends" => Sends!MessagesArriveWhole

\* What shows that somebody works ends with the work
\* (inbound_progress_reporter.py).
FeedbackEndsWithTheWork == focus = "feedback" => Feedback!FeedbackEndsWithTheWork
=============================================================================
