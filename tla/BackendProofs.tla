---------------------------- MODULE BackendProofs ----------------------------
(***************************************************************************)
(* Theorems about MCBackend, for every value of the constants: for each of *)
(* these parts an inductive invariant of its own, kept by its steps, and   *)
(* at the end what follows for the whole.                                  *)
(***************************************************************************)
EXTENDS MCBackend, FiniteSetTheorems, TLAPS

-----------------------------------------------------------------------------
(* Feedback (ProgressFeedback.tla)                                         *)

\* The steps of a reporter after its indicator was given to the table.
Installed == {"enter", "working", "leave", "unreact", "quiet"}
Reporters == [ask : Asks \cup {Nobody},
              at : Installed \cup {"off", "react", "type", "install"},
              reaction : BOOLEAN, ticket : BOOLEAN, ack : BOOLEAN]

FeedbackTypes ==
  /\ report \in [Attempts -> Reporters]
  /\ typist \in Attempts \cup {Nobody} /\ keepalive \subseteq Attempts /\ typing \in BOOLEAN

\* Each channel has its own way: reactions or an indicator.
ChannelsInv ==
  /\ kind # "lark" => reactions = {} /\ \A a \in Attempts : ~report[a].reaction
  /\ kind # "weixin" => /\ typist = Nobody /\ keepalive = {} /\ ~typing
                        /\ \A a \in Attempts : ~report[a].ticket /\ report[a].at # "install"

\* Who is at work has a message. A reaction is of an attempt at its message, which
\* knows its id until it has removed it, or a failed call left it.
ReactionsInv ==
  /\ \A a \in Attempts : report[a].at # "off" => report[a].ask # Nobody
  /\ \A r \in reactions : \E a \in Attempts :
       /\ r = <<report[a].ask, a>> /\ report[a].ask # Nobody
       /\ r \in lasting \/ (report[a].reaction /\ report[a].at \notin {"off", "react", "quiet"})

\* Who keeps the indicator up has the ticket to end it, and nobody else keeps
\* it up but who is about to replace it.
TypistInv ==
  /\ typist # Nobody => report[typist].ticket /\ report[typist].at \in Installed
  /\ \A a \in keepalive : a = typist \/ report[a].at = "install"
  /\ typing => \/ "typing" \in lasting \/ typist # Nobody
               \/ \E a \in Attempts : report[a].at = "install"

\* A text is to come only while its message is worked on.
TextsInv == \A a \in Attempts : report[a].ack => report[a].at \in {"working", "leave"}

FeedbackInv == FeedbackTypes /\ ChannelsInv /\ ReactionsInv /\ TypistInv /\ TextsInv

\* Nobody is no attempt and no message.
LEMMA NobodyReports == Nobody \notin Attempts /\ Nobody \notin Asks
  BY BackendAssumption

\* At the beginning nobody works.
LEMMA FeedbackStart == Feedback!Init => FeedbackInv
  <1> SUFFICES ASSUME Feedback!Init  PROVE FeedbackInv
    OBVIOUS
  <1>1. \A a \in Attempts : report[a] = Feedback!Idle
    BY DEF Feedback!Init
  <1>2. FeedbackTypes
    BY DEF Feedback!Init, Feedback!Idle, FeedbackTypes, Reporters
  <1>3. ChannelsInv /\ ReactionsInv /\ TypistInv /\ TextsInv
    BY <1>1 DEF Feedback!Init, Feedback!Idle, ChannelsInv, ReactionsInv, TypistInv, TextsInv
  <1> QED  BY <1>2, <1>3 DEF FeedbackInv

\* A reporter begins.
LEMMA BeginStep ==
  ASSUME FeedbackInv, NEW a \in Attempts, NEW m \in Asks, Feedback!Begin(a, m)
  PROVE  FeedbackInv'
  <1> USE NobodyReports DEF FeedbackInv, Installed
  <1>1. /\ report[a].at = "off" /\ report[a].ask = Nobody
        /\ report' = [report EXCEPT ![a].ask = m, ![a].at = "react"]
        /\ UNCHANGED <<kind, typist, keepalive, typing, reactions, lasting>>
    BY DEF Feedback!Begin, Feedback!Step, Feedback!Replaced, Feedback!TextAfter
  <1>2. /\ report' \in [Attempts -> Reporters]
        /\ report'[a].ask = m
        /\ report'[a].at = "react"
        /\ report'[a].reaction = report[a].reaction
        /\ report'[a].ticket = report[a].ticket
        /\ report'[a].ack = report[a].ack
        /\ \A b \in Attempts \ {a} : report'[b] = report[b]
    BY <1>1 DEF FeedbackTypes, Reporters
  <1>3. FeedbackTypes' /\ TextsInv'
    BY <1>1, <1>2 DEF FeedbackTypes, TextsInv
  <1>4. ChannelsInv'
    BY <1>1, <1>2 DEF ChannelsInv
  <1>5. ReactionsInv'
    BY <1>1, <1>2 DEF ReactionsInv, ChannelsInv
  <1>6. TypistInv'
    BY <1>1, <1>2 DEF TypistInv, ChannelsInv, FeedbackTypes
  <1> QED  BY <1>3, <1>4, <1>5, <1>6

\* Lark shows a reaction.
LEMMA ReactStep ==
  ASSUME FeedbackInv, NEW a \in Attempts, NEW shown \in BOOLEAN, NEW ok \in BOOLEAN, Feedback!React(a, shown, ok)
  PROVE  FeedbackInv'
  <1> USE NobodyReports DEF FeedbackInv, Installed
  <1>1. /\ report[a].at = "react"
        /\ kind # "lark" => ok /\ ~shown
        /\ reactions' = IF shown THEN reactions \cup {<<report[a].ask, a>>} ELSE reactions
        /\ lasting' = IF shown /\ ~ok THEN lasting \cup {<<report[a].ask, a>>} ELSE lasting
        /\ report' = [report EXCEPT ![a].reaction = shown /\ ok, ![a].at = "type"]
        /\ UNCHANGED <<kind, typist, keepalive, typing>>
    BY DEF Feedback!React, Feedback!Step, Feedback!Replaced, Feedback!TextAfter
  <1>2. /\ report' \in [Attempts -> Reporters]
        /\ report'[a].ask = report[a].ask
        /\ report'[a].at = "type"
        /\ report'[a].reaction = (shown /\ ok)
        /\ report'[a].ticket = report[a].ticket
        /\ report'[a].ack = report[a].ack
        /\ \A b \in Attempts \ {a} : report'[b] = report[b]
    BY <1>1 DEF FeedbackTypes, Reporters
  <1>3. FeedbackTypes' /\ TextsInv'
    BY <1>1, <1>2 DEF FeedbackTypes, TextsInv
  <1>4. ChannelsInv'
    BY <1>1, <1>2 DEF ChannelsInv
  <1>5. ReactionsInv'
    BY <1>1, <1>2 DEF ReactionsInv, ChannelsInv
  <1>6. TypistInv'
    BY <1>1, <1>2 DEF TypistInv, ChannelsInv, FeedbackTypes
  <1> QED  BY <1>3, <1>4, <1>5, <1>6

\* WeChat shows that somebody types.
LEMMA StartTypingStep ==
  ASSUME FeedbackInv, NEW a \in Attempts, NEW shown \in BOOLEAN, NEW ok \in BOOLEAN, Feedback!StartTyping(a, shown, ok)
  PROVE  FeedbackInv'
  <1> USE NobodyReports DEF FeedbackInv, Installed
  <1>1. /\ report[a].at = "type"
        /\ kind # "weixin" => ok /\ ~shown
        /\ typing' = (typing \/ shown)
        /\ lasting' = IF shown /\ ~ok THEN lasting \cup {"typing"} ELSE lasting
        /\ keepalive' = IF shown /\ ok THEN keepalive \cup {a} ELSE keepalive
        /\ report' = [report EXCEPT ![a].at = IF shown /\ ok THEN "install" ELSE "enter"]
        /\ UNCHANGED <<kind, typist, reactions>>
    BY DEF Feedback!StartTyping, Feedback!Step, Feedback!Replaced, Feedback!TextAfter
  <1>2. /\ report' \in [Attempts -> Reporters]
        /\ report'[a].ask = report[a].ask
        /\ report'[a].at = (IF shown /\ ok THEN "install" ELSE "enter")
        /\ report'[a].reaction = report[a].reaction
        /\ report'[a].ticket = report[a].ticket
        /\ report'[a].ack = report[a].ack
        /\ \A b \in Attempts \ {a} : report'[b] = report[b]
    BY <1>1 DEF FeedbackTypes, Reporters
  <1>3. FeedbackTypes' /\ TextsInv'
    BY <1>1, <1>2 DEF FeedbackTypes, TextsInv
  <1>4. ChannelsInv'
    BY <1>1, <1>2 DEF ChannelsInv
  <1>5. ReactionsInv'
    BY <1>1, <1>2 DEF ReactionsInv, ChannelsInv
  <1>6. TypistInv'
    BY <1>1, <1>2 DEF TypistInv, ChannelsInv, FeedbackTypes
  <1> QED  BY <1>3, <1>4, <1>5, <1>6

\* The indicator gets a new keeper.
LEMMA IndicatorStep ==
  ASSUME FeedbackInv, NEW a \in Attempts, Feedback!Install(a)
  PROVE  FeedbackInv'
  <1> USE NobodyReports DEF FeedbackInv, Installed
  <1>1. /\ report[a].at = "install"
        /\ typist' = a
        /\ keepalive' = keepalive \ {typist}
        /\ report' = [report EXCEPT ![a].ticket = TRUE, ![a].at = "enter"]
        /\ UNCHANGED <<kind, typing, reactions, lasting>>
    BY DEF Feedback!Install, Feedback!Step, Feedback!Replaced, Feedback!TextAfter
  <1>2. /\ report' \in [Attempts -> Reporters]
        /\ report'[a].ask = report[a].ask
        /\ report'[a].at = "enter"
        /\ report'[a].reaction = report[a].reaction
        /\ report'[a].ticket = TRUE
        /\ report'[a].ack = report[a].ack
        /\ \A b \in Attempts \ {a} : report'[b] = report[b]
    BY <1>1 DEF FeedbackTypes, Reporters
  <1>3. FeedbackTypes' /\ TextsInv'
    BY <1>1, <1>2 DEF FeedbackTypes, TextsInv
  <1>4. ChannelsInv'
    BY <1>1, <1>2 DEF ChannelsInv
  <1>5. ReactionsInv'
    BY <1>1, <1>2 DEF ReactionsInv, ChannelsInv
  <1>6. TypistInv'
    BY <1>1, <1>2 DEF TypistInv, ChannelsInv, FeedbackTypes
  <1> QED  BY <1>3, <1>4, <1>5, <1>6

\* The work begins.
LEMMA EnterStep ==
  ASSUME FeedbackInv, NEW a \in Attempts, Feedback!Enter(a)
  PROVE  FeedbackInv'
  <1> USE NobodyReports DEF FeedbackInv, Installed
  <1>1. /\ report[a].at = "enter"
        /\ report' = [report EXCEPT ![a].ack = kind # "lark", ![a].at = "working"]
        /\ UNCHANGED <<kind, typist, keepalive, typing, reactions, lasting>>
    BY DEF Feedback!Enter, Feedback!Step, Feedback!Replaced, Feedback!TextAfter
  <1>2. /\ report' \in [Attempts -> Reporters]
        /\ report'[a].ask = report[a].ask
        /\ report'[a].at = "working"
        /\ report'[a].reaction = report[a].reaction
        /\ report'[a].ticket = report[a].ticket
        /\ report'[a].ack = (kind # "lark")
        /\ \A b \in Attempts \ {a} : report'[b] = report[b]
    BY <1>1 DEF FeedbackTypes, Reporters
  <1>3. FeedbackTypes' /\ TextsInv'
    BY <1>1, <1>2 DEF FeedbackTypes, TextsInv
  <1>4. ChannelsInv'
    BY <1>1, <1>2 DEF ChannelsInv
  <1>5. ReactionsInv'
    BY <1>1, <1>2 DEF ReactionsInv, ChannelsInv
  <1>6. TypistInv'
    BY <1>1, <1>2 DEF TypistInv, ChannelsInv, FeedbackTypes
  <1> QED  BY <1>3, <1>4, <1>5, <1>6

\* The text is sent.
LEMMA AcknowledgeStep ==
  ASSUME FeedbackInv, NEW a \in Attempts, Feedback!Acknowledge(a)
  PROVE  FeedbackInv'
  <1> USE NobodyReports DEF FeedbackInv, Installed
  <1>1. /\ report' = [report EXCEPT ![a].ack = FALSE]
        /\ UNCHANGED <<kind, typist, keepalive, typing, reactions, lasting>>
    BY DEF Feedback!Acknowledge, Feedback!Step, Feedback!Replaced, Feedback!TextAfter
  <1>2. /\ report' \in [Attempts -> Reporters]
        /\ report'[a].ask = report[a].ask
        /\ report'[a].at = report[a].at
        /\ report'[a].reaction = report[a].reaction
        /\ report'[a].ticket = report[a].ticket
        /\ report'[a].ack = FALSE
        /\ \A b \in Attempts \ {a} : report'[b] = report[b]
    BY <1>1 DEF FeedbackTypes, Reporters
  <1>3. FeedbackTypes' /\ TextsInv'
    BY <1>1, <1>2 DEF FeedbackTypes, TextsInv
  <1>4. ChannelsInv'
    BY <1>1, <1>2 DEF ChannelsInv
  <1>5. ReactionsInv'
    BY <1>1, <1>2 DEF ReactionsInv, ChannelsInv
  <1>6. TypistInv'
    BY <1>1, <1>2 DEF TypistInv, ChannelsInv, FeedbackTypes
  <1> QED  BY <1>3, <1>4, <1>5, <1>6

\* The work ends.
LEMMA WorkStep ==
  ASSUME FeedbackInv, NEW a \in Attempts, NEW purpose, Feedback!Work(a, purpose)
  PROVE  FeedbackInv'
  <1> USE NobodyReports DEF FeedbackInv, Installed
  <1>1. /\ report[a].at = "working"
        /\ report' = [report EXCEPT ![a].at = "leave"]
        /\ UNCHANGED <<kind, typist, keepalive, typing, reactions, lasting>>
    BY DEF Feedback!Work, Feedback!Step, Feedback!Replaced, Feedback!TextAfter
  <1>2. /\ report' \in [Attempts -> Reporters]
        /\ report'[a].ask = report[a].ask
        /\ report'[a].at = "leave"
        /\ report'[a].reaction = report[a].reaction
        /\ report'[a].ticket = report[a].ticket
        /\ report'[a].ack = report[a].ack
        /\ \A b \in Attempts \ {a} : report'[b] = report[b]
    BY <1>1 DEF FeedbackTypes, Reporters
  <1>3. FeedbackTypes' /\ TextsInv'
    BY <1>1, <1>2 DEF FeedbackTypes, TextsInv
  <1>4. ChannelsInv'
    BY <1>1, <1>2 DEF ChannelsInv
  <1>5. ReactionsInv'
    BY <1>1, <1>2 DEF ReactionsInv, ChannelsInv
  <1>6. TypistInv'
    BY <1>1, <1>2 DEF TypistInv, ChannelsInv, FeedbackTypes
  <1> QED  BY <1>3, <1>4, <1>5, <1>6

\* The text is called off.
LEMMA LeaveStep ==
  ASSUME FeedbackInv, NEW a \in Attempts, Feedback!Leave(a)
  PROVE  FeedbackInv'
  <1> USE NobodyReports DEF FeedbackInv, Installed
  <1>1. /\ report[a].at = "leave"
        /\ report' = [report EXCEPT ![a].ack = FALSE, ![a].at = "unreact"]
        /\ UNCHANGED <<kind, typist, keepalive, typing, reactions, lasting>>
    BY DEF Feedback!Leave, Feedback!Step, Feedback!Replaced, Feedback!TextAfter
  <1>2. /\ report' \in [Attempts -> Reporters]
        /\ report'[a].ask = report[a].ask
        /\ report'[a].at = "unreact"
        /\ report'[a].reaction = report[a].reaction
        /\ report'[a].ticket = report[a].ticket
        /\ report'[a].ack = FALSE
        /\ \A b \in Attempts \ {a} : report'[b] = report[b]
    BY <1>1 DEF FeedbackTypes, Reporters
  <1>3. FeedbackTypes' /\ TextsInv'
    BY <1>1, <1>2 DEF FeedbackTypes, TextsInv
  <1>4. ChannelsInv'
    BY <1>1, <1>2 DEF ChannelsInv
  <1>5. ReactionsInv'
    BY <1>1, <1>2 DEF ReactionsInv, ChannelsInv
  <1>6. TypistInv'
    BY <1>1, <1>2 DEF TypistInv, ChannelsInv, FeedbackTypes
  <1> QED  BY <1>3, <1>4, <1>5, <1>6

\* The reaction goes.
LEMMA UnreactStep ==
  ASSUME FeedbackInv, NEW a \in Attempts, NEW ok \in BOOLEAN, Feedback!Unreact(a, ok)
  PROVE  FeedbackInv'
  <1> USE NobodyReports DEF FeedbackInv, Installed
  <1>1. /\ report[a].at = "unreact"
        /\ ~report[a].reaction => ok
        /\ reactions' = IF report[a].reaction /\ ok THEN reactions \ {<<report[a].ask, a>>} ELSE reactions
        /\ lasting' = IF ok THEN lasting ELSE lasting \cup {<<report[a].ask, a>>}
        /\ report' = [report EXCEPT ![a].at = "quiet"]
        /\ UNCHANGED <<kind, typist, keepalive, typing>>
    BY DEF Feedback!Unreact, Feedback!Step, Feedback!Replaced, Feedback!TextAfter
  <1>2. /\ report' \in [Attempts -> Reporters]
        /\ report'[a].ask = report[a].ask
        /\ report'[a].at = "quiet"
        /\ report'[a].reaction = report[a].reaction
        /\ report'[a].ticket = report[a].ticket
        /\ report'[a].ack = report[a].ack
        /\ \A b \in Attempts \ {a} : report'[b] = report[b]
    BY <1>1 DEF FeedbackTypes, Reporters
  <1>3. FeedbackTypes' /\ TextsInv'
    BY <1>1, <1>2 DEF FeedbackTypes, TextsInv
  <1>4. ChannelsInv'
    BY <1>1, <1>2 DEF ChannelsInv
  <1>5. ReactionsInv'
    BY <1>1, <1>2 DEF ReactionsInv, ChannelsInv
  <1>6. TypistInv'
    BY <1>1, <1>2 DEF TypistInv, ChannelsInv, FeedbackTypes
  <1> QED  BY <1>3, <1>4, <1>5, <1>6

\* The indicator goes.
LEMMA StopTypingStep ==
  ASSUME FeedbackInv, NEW a \in Attempts, NEW ok \in BOOLEAN, Feedback!StopTyping(a, ok)
  PROVE  FeedbackInv'
  <1> USE NobodyReports DEF FeedbackInv, Installed
  <1>1. /\ report[a].at = "quiet"
        /\ ~(report[a].ticket /\ typist # Nobody) => ok
        /\ IF report[a].ticket /\ typist # Nobody
           THEN /\ typist' = Nobody /\ keepalive' = keepalive \ {typist}
                /\ typing' = (typing /\ ~ok)
                /\ lasting' = IF ok THEN lasting \ {"typing"} ELSE lasting \cup {"typing"}
           ELSE UNCHANGED <<typist, keepalive, typing, lasting>>
        /\ report' = [report EXCEPT ![a].at = "off"]
        /\ UNCHANGED <<kind, reactions>>
    BY DEF Feedback!StopTyping, Feedback!Step, Feedback!Replaced, Feedback!TextAfter
  <1>2. /\ report' \in [Attempts -> Reporters]
        /\ report'[a].ask = report[a].ask
        /\ report'[a].at = "off"
        /\ report'[a].reaction = report[a].reaction
        /\ report'[a].ticket = report[a].ticket
        /\ report'[a].ack = report[a].ack
        /\ \A b \in Attempts \ {a} : report'[b] = report[b]
    BY <1>1 DEF FeedbackTypes, Reporters
  <1>3. FeedbackTypes' /\ TextsInv'
    BY <1>1, <1>2 DEF FeedbackTypes, TextsInv
  <1>4. ChannelsInv'
    BY <1>1, <1>2 DEF ChannelsInv
  <1>5. ReactionsInv'
    BY <1>1, <1>2 DEF ReactionsInv, ChannelsInv
  <1>6. TypistInv'
    <2>1. CASE report[a].ticket /\ typist # Nobody
      <3>1. /\ typist' = Nobody /\ keepalive' = keepalive \ {typist}
            /\ typing' => "typing" \in lasting'
        BY <1>1, <2>1 DEF TypistInv
      <3> QED  BY <1>1, <1>2, <3>1 DEF TypistInv, FeedbackTypes
    <2>2. CASE ~(report[a].ticket /\ typist # Nobody)
      <3>1. typist' = typist /\ keepalive' = keepalive /\ typing' = typing /\ lasting' = lasting
        BY <1>1, <2>2
      <3>2. typist' # Nobody => report'[typist'].ticket /\ report'[typist'].at \in Installed
        BY <1>2, <2>2, <3>1 DEF TypistInv, FeedbackTypes
      <3>3. \A b \in keepalive' : b = typist' \/ report'[b].at = "install"
        BY <1>1, <1>2, <3>1 DEF TypistInv, FeedbackTypes
      <3>4. typing' => \/ "typing" \in lasting' \/ typist' # Nobody
                       \/ \E b \in Attempts : report'[b].at = "install"
        BY <1>1, <1>2, <3>1 DEF TypistInv
      <3> QED  BY <3>2, <3>3, <3>4 DEF TypistInv
    <2> QED  BY <2>1, <2>2
  <1> QED  BY <1>3, <1>4, <1>5, <1>6

\* WeChat is told again that somebody types.
LEMMA KeepTypingStep ==
  ASSUME FeedbackInv, NEW a \in Attempts, NEW ok \in BOOLEAN, Feedback!KeepTyping(a, ok)
  PROVE  FeedbackInv'
  <1> USE NobodyReports DEF FeedbackInv, Installed
  <1>1. /\ a \in keepalive
        /\ typing' = (typing \/ ok)
        /\ keepalive' = IF ok THEN keepalive ELSE keepalive \ {a}
        /\ UNCHANGED <<kind, report, typist, reactions, lasting>>
    BY DEF Feedback!KeepTyping
  <1>2. FeedbackTypes' /\ TextsInv'
    BY <1>1 DEF FeedbackTypes, TextsInv
  <1>3. ChannelsInv' /\ ReactionsInv'
    BY <1>1 DEF ChannelsInv, ReactionsInv
  <1>4. TypistInv'
    BY <1>1 DEF TypistInv, FeedbackTypes
  <1> QED  BY <1>2, <1>3, <1>4

\* Every step of the feedback keeps the invariant.
LEMMA FeedbackStep == FeedbackInv /\ [Feedback!Next]_feedbackVars => FeedbackInv'
  <1> SUFFICES ASSUME FeedbackInv, [Feedback!Next]_feedbackVars  PROVE FeedbackInv'
    OBVIOUS
  <1>1. CASE UNCHANGED feedbackVars
    BY <1>1 DEF feedbackVars, FeedbackInv, FeedbackTypes, ChannelsInv, ReactionsInv, TypistInv,
                TextsInv
  <1> QED
    BY <1>1, BeginStep, ReactStep, StartTypingStep, IndicatorStep, EnterStep, AcknowledgeStep,
       WorkStep, LeaveStep, UnreactStep, StopTypingStep, KeepTypingStep DEF Feedback!Next

\* What the invariant is for.
LEMMA FeedbackHolds == FeedbackInv => Feedback!FeedbackEndsWithTheWork
  <1> SUFFICES ASSUME FeedbackInv  PROVE Feedback!FeedbackEndsWithTheWork
    OBVIOUS
  <1> USE NobodyReports DEF FeedbackInv, Feedback!AtWork, Installed
  <1>1. ASSUME \A a \in Attempts : report[a].at = "off"
        PROVE  keepalive = {} /\ typist = Nobody /\ (typing => "typing" \in lasting)
    BY <1>1 DEF FeedbackTypes, TypistInv
  <1>2. \A r \in reactions \ lasting : \E a \in Attempts : r = <<report[a].ask, a>> /\ report[a].at # "off"
    BY DEF ReactionsInv
  <1>3. keepalive \subseteq {typist} \cup {a \in Attempts : report[a].at # "off"}
    BY DEF FeedbackTypes, TypistInv
  <1> QED  BY <1>1, <1>2, <1>3 DEF TextsInv, Feedback!FeedbackEndsWithTheWork

-----------------------------------------------------------------------------
(* The connection to the agent (Gateway.tla)                               *)

Ways == {"direct", "task"}
Reloads == {"now", "later"}
Queries == [pc : {"off", "marked", "send", "drop", "dropping", "want", "opening", "wait", "atOp",
                  "sending", "streaming", "ended", "finalized"},
            path : {"none", "send", "connect"}, client : Nat, pump : Nat, mode : Nat, plugins : Nat]
Errands == [pc : {"off", "asking", "waiting", "atOp", "sending", "atConn", "closing"},
            client : Nat, value : Nat]

LinkTypes ==
  /\ client \in Nat /\ pump \in Nat /\ active \in BOOLEAN /\ timer \in BOOLEAN
  /\ conn \in [by : {"nobody", "elsewhere", "run", "user", "idle", "now", "later"},
               step : {"none", "closing", "ending", "opening"}, next : {"none", "release", "open"}]
  /\ used \in [runs : Nat, connections : Nat, changes : Nat, sides : Nat, disturbances : Nat]

QueryTypes == run \in Queries /\ side \in Queries /\ idle \in Errands

SettingTypes ==
  /\ chosen \in Nat /\ actual \in [1 .. MaxConnections -> Nat] /\ setting \in [Ways -> Errands]
  /\ installed \in Nat /\ loaded \in [1 .. MaxConnections -> Nat] /\ reload \in [Reloads -> Errands]

GatewayTypes == LinkTypes /\ QueryTypes /\ SettingTypes

\* Connections are numbered as they are opened, and nobody knows one to come.
NumbersInv ==
  /\ client <= used.connections /\ used.connections <= MaxConnections
  /\ \A w \in Ways : setting[w].client <= used.connections
  /\ \A w \in Reloads : reload[w].client <= used.connections

\* Who has _client_lock waits for it to be over, and there is no connection
\* between the end of the old one and the new one.
ConnInv ==
  /\ conn.by \in {"nobody", "elsewhere"} <=> conn.step = "none"
  /\ conn.step \in {"ending", "opening"} => client = 0
  /\ conn.next = "open" \/ conn.step = "opening" => conn.by = "run"
  /\ conn.by = "run" => run.pc \in {"dropping", "opening"}
  /\ \A w \in Reloads : conn.by = w => reload[w].pc = "closing"

\* The operation lock is of who uses the connection.
HolderInv ==
  /\ oplock = "run" <=> run.pc \in {"sending", "streaming"}
  /\ oplock = "side" <=> side.pc = "streaming"
  /\ \A w \in Ways : oplock = w <=> setting[w].pc = "sending"
  /\ \A w \in Reloads : oplock = w <=> reload[w].pc = "sending"

\* A run is marked as long as it goes on, and upkeep looks at the mark.
ActiveInv ==
  /\ run.pc \notin {"off", "finalized"} => active
  /\ "at once" \notin killed

\* A connection nobody uses has its timer, or the timer's task is at it.
TimerInv ==
  client # 0 /\ run.pc = "off" /\ conn.step = "none" /\ (idle.pc = "off" \/ idle.client # client)
    => timer \/ "timer" \in missed

\* The process has the mode, or somebody is on the way with it; who is sending
\* an old one is followed by another.
ModesInv ==
  client # 0 =>
    /\ (\A w \in Ways : setting[w].pc # "off" => setting[w].client # client) =>
         actual[client] = chosen \/ "mode" \in missed
    /\ \A w \in Ways : setting[w].pc = "sending" /\ setting[w].client = client =>
         \/ setting[w].value = chosen \/ "mode" \in missed
         \/ \E u \in Ways \ {w} : setting[u].pc # "off" /\ setting[u].client = client

\* The same of the plugins.
PluginsInv ==
  client # 0 =>
    /\ (\A w \in Reloads : reload[w].pc # "off" => reload[w].client # client) =>
         loaded[client] = installed \/ "plugins" \in missed
    /\ \A w \in Reloads : reload[w].pc = "sending" /\ reload[w].client = client =>
         \/ reload[w].value = installed \/ "plugins" \in missed
         \/ \E u \in Reloads \ {w} : reload[u].pc # "off" /\ reload[u].client = client

GatewayInv ==
  /\ GatewayTypes /\ NumbersInv /\ ConnInv /\ HolderInv
  /\ ActiveInv /\ TimerInv /\ ModesInv /\ PluginsInv

\* The bound is a number.
LEMMA ConnectionBound == MaxConnections \in Nat
  BY BackendAssumption

\* At the beginning there is no connection.
LEMMA GatewayStart == Link!Init => GatewayInv
  <1> SUFFICES ASSUME Link!Init  PROVE GatewayInv
    OBVIOUS
  <1> USE ConnectionBound DEF Link!Init, Link!Unused, Link!NoQuery, Link!Unset, Ways, Reloads
  <1>1. GatewayTypes
    BY DEF GatewayTypes, LinkTypes, QueryTypes, SettingTypes, Queries, Errands
  <1>2. NumbersInv /\ ConnInv /\ HolderInv
    BY DEF NumbersInv, ConnInv, HolderInv
  <1>3. ActiveInv /\ TimerInv /\ ModesInv /\ PluginsInv
    BY DEF ActiveInv, TimerInv, ModesInv, PluginsInv
  <1> QED  BY <1>1, <1>2, <1>3 DEF GatewayInv

\* Who changes no setting, at most ends the connection, keeps what is known of them.
LEMMA SettingsKept ==
  ASSUME GatewayInv, client' \in {client, 0}, used'.connections = used.connections,
         UNCHANGED <<chosen, actual, setting, installed, loaded, reload>>,
         "mode" \in missed => "mode" \in missed', "plugins" \in missed => "plugins" \in missed'
  PROVE  SettingTypes' /\ NumbersInv' /\ ModesInv' /\ PluginsInv'
  <1> USE DEF GatewayInv, GatewayTypes
  <1>1. SettingTypes'
    BY DEF SettingTypes
  <1>2. NumbersInv'
    BY DEF NumbersInv, LinkTypes
  <1>3. ModesInv'
    BY DEF ModesInv
  <1>4. PluginsInv'
    BY DEF PluginsInv
  <1> QED  BY <1>1, <1>2, <1>3, <1>4

\* The connection is closed.
LEMMA CloseClientStep ==
  ASSUME GatewayInv, Link!CloseClient  PROVE GatewayInv'
  <1> USE ConnectionBound DEF GatewayInv, GatewayTypes, Ways, Reloads, Link!CloseClient,
      Link!Link, Link!Settings, Link!Plugins
  <1>1. LinkTypes'
    BY DEF LinkTypes, QueryTypes
  <1>2. run' \in Queries
    BY DEF LinkTypes, QueryTypes, SettingTypes, Queries
  <1>3. side' \in Queries
    BY DEF LinkTypes, QueryTypes, Queries
  <1>4. idle' \in Errands
    BY DEF LinkTypes, QueryTypes, Errands
  <1>5. SettingTypes' /\ NumbersInv' /\ ModesInv' /\ PluginsInv'
    <2>1. client' \in {client, 0} /\ used'.connections = used.connections
      BY DEF LinkTypes
    <2>2. /\ UNCHANGED <<chosen, actual, setting, installed, loaded, reload>>
          /\ "mode" \in missed => "mode" \in missed'
          /\ "plugins" \in missed => "plugins" \in missed'
      OBVIOUS
    <2> QED  BY <2>1, <2>2, SettingsKept
  <1>6. ConnInv'
    BY DEF ConnInv, LinkTypes, QueryTypes, Queries
  <1>7. HolderInv'
    BY DEF HolderInv, ConnInv, QueryTypes, Queries
  <1>8. ActiveInv'
    BY DEF ActiveInv, ConnInv, QueryTypes, Queries
  <1>9. TimerInv'
    BY DEF TimerInv, ConnInv, LinkTypes, QueryTypes, Queries, Errands
  <1> QED  BY <1>1, <1>2, <1>3, <1>4, <1>5, <1>6, <1>7, <1>8, <1>9 DEF QueryTypes

\* The one who closed it goes on.
LEMMA CloseEndsStep ==
  ASSUME GatewayInv, Link!CloseEnds  PROVE GatewayInv'
  <1> USE ConnectionBound DEF GatewayInv, GatewayTypes, Ways, Reloads
  <1>1. /\ conn.step = "ending" /\ client = 0 /\ state' = "idle"
        /\ UNCHANGED <<client, pump, active, timer, oplock, side, chosen, actual, setting, installed,
                       loaded, used, killed, missed>>
    BY DEF Link!CloseEnds, ConnInv, Link!Settings
  <1>2. /\ conn' = IF conn.next = "open" THEN [conn EXCEPT !.step = "opening"] ELSE Link!Unused
        /\ run' = IF conn.by # "run" THEN run
                  ELSE IF conn.next = "open" THEN [run EXCEPT !.plugins = installed]
                  ELSE [run EXCEPT !.pc = "want", !.mode = chosen]
        /\ idle' = IF conn.by = "idle" THEN Link!Unset ELSE idle
        /\ reload' = [w \in Reloads |-> IF conn.by = w THEN Link!Unset ELSE reload[w]]
    BY DEF Link!CloseEnds, SettingTypes
  <1>3. /\ conn' \in [by : {"nobody", "elsewhere", "run", "user", "idle", "now", "later"},
                      step : {"none", "closing", "ending", "opening"}, next : {"none", "release", "open"}]
        /\ conn'.by = IF conn.next = "open" THEN conn.by ELSE "nobody"
        /\ conn'.step = IF conn.next = "open" THEN "opening" ELSE "none"
        /\ conn'.next = IF conn.next = "open" THEN "open" ELSE "none"
    BY <1>2 DEF LinkTypes, Link!Unused
  <1>4. LinkTypes'
    BY <1>1, <1>3 DEF LinkTypes
  <1>5. /\ run' \in Queries
        /\ conn.by # "run" => run' = run
        /\ conn.by = "run" => run'.pc = IF conn.next = "open" THEN run.pc ELSE "want"
    BY <1>2 DEF QueryTypes, SettingTypes, Queries
  <1>6. QueryTypes'
    BY <1>1, <1>2, <1>5 DEF QueryTypes, Errands, Link!Unset
  <1>7. /\ Link!Unset \in Errands /\ Link!Unset.pc = "off" /\ Link!Unset.client = 0
        /\ reload' \in [Reloads -> Errands]
        /\ \A w \in Reloads : reload'[w] = IF conn.by = w THEN Link!Unset ELSE reload[w]
    BY <1>2 DEF SettingTypes, Errands, Link!Unset
  <1>8. SettingTypes' /\ NumbersInv'
    BY <1>1, <1>7 DEF SettingTypes, NumbersInv, LinkTypes
  <1>9. ConnInv'
    BY <1>1, <1>3, <1>5, <1>7 DEF ConnInv
  <1>10. HolderInv'
    <2>1. run'.pc \in {"sending", "streaming"} <=> run.pc \in {"sending", "streaming"}
      BY <1>5 DEF ConnInv
    <2>2. \A w \in Reloads : reload'[w].pc = "sending" <=> reload[w].pc = "sending"
      BY <1>7 DEF ConnInv
    <2> QED  BY <1>1, <2>1, <2>2 DEF HolderInv
  <1>11. ActiveInv' /\ TimerInv' /\ ModesInv' /\ PluginsInv'
    BY <1>1, <1>5 DEF ActiveInv, ConnInv, TimerInv, ModesInv, PluginsInv
  <1> QED  BY <1>4, <1>6, <1>8, <1>9, <1>10, <1>11

\* Others close it.
LEMMA DisconnectStep ==
  ASSUME GatewayInv, Link!Disconnect  PROVE GatewayInv'
  <1> USE ConnectionBound DEF GatewayInv, GatewayTypes, Ways, Reloads, Link!Disconnect,
      Link!Use, Link!TakeConn, Link!Link, Link!Settings, Link!Plugins
  <1>1. LinkTypes'
    BY DEF LinkTypes, QueryTypes
  <1>2. run' \in Queries
    BY DEF LinkTypes, QueryTypes, SettingTypes, Queries
  <1>3. side' \in Queries
    BY DEF LinkTypes, QueryTypes, Queries
  <1>4. idle' \in Errands
    BY DEF LinkTypes, QueryTypes, Errands
  <1>5. SettingTypes' /\ NumbersInv' /\ ModesInv' /\ PluginsInv'
    <2>1. client' \in {client, 0} /\ used'.connections = used.connections
      BY DEF LinkTypes
    <2>2. /\ UNCHANGED <<chosen, actual, setting, installed, loaded, reload>>
          /\ "mode" \in missed => "mode" \in missed'
          /\ "plugins" \in missed => "plugins" \in missed'
      OBVIOUS
    <2> QED  BY <2>1, <2>2, SettingsKept
  <1>6. ConnInv'
    BY DEF ConnInv, LinkTypes, QueryTypes, Queries
  <1>7. HolderInv'
    BY DEF HolderInv, ConnInv, QueryTypes, Queries
  <1>8. ActiveInv'
    BY DEF ActiveInv, ConnInv, QueryTypes, Queries
  <1>9. TimerInv'
    BY DEF TimerInv, ConnInv, LinkTypes, QueryTypes, Queries, Errands
  <1> QED  BY <1>1, <1>2, <1>3, <1>4, <1>5, <1>6, <1>7, <1>8, <1>9 DEF QueryTypes

\* Another session has the lock.
LEMMA ElsewhereStep ==
  ASSUME GatewayInv, Link!Elsewhere  PROVE GatewayInv'
  <1> USE DEF GatewayInv, GatewayTypes, Ways, Reloads
  <1>1. /\ conn.by \in {"nobody", "elsewhere"} /\ conn.step = "none"
        /\ conn' \in {[Link!Unused EXCEPT !.by = "elsewhere"], Link!Unused}
        /\ UNCHANGED <<client, pump, state, active, timer, oplock, run, side, idle, chosen, actual,
                       setting, installed, loaded, reload, killed, missed>>
    BY DEF Link!Elsewhere, Link!Use, Link!Unused, Link!Link, Link!Settings, Link!Plugins, ConnInv
  <1>2. /\ conn'.by \in {"nobody", "elsewhere"} /\ conn'.step = "none" /\ conn'.next = "none"
        /\ conn' = [by |-> conn'.by, step |-> "none", next |-> "none"]
    BY <1>1 DEF Link!Unused
  <1>3. /\ used'.connections = used.connections
        /\ used' \in [runs : Nat, connections : Nat, changes : Nat, sides : Nat, disturbances : Nat]
    BY DEF Link!Elsewhere, Link!Use, Link!Unused, Link!Link, Link!Settings, Link!Plugins, LinkTypes
  <1>4. LinkTypes' /\ QueryTypes'
    BY <1>1, <1>2, <1>3 DEF LinkTypes, QueryTypes
  <1>5. ConnInv'
    BY <1>1, <1>2 DEF ConnInv
  <1>6. HolderInv' /\ ActiveInv' /\ TimerInv'
    BY <1>1, <1>2 DEF HolderInv, ActiveInv, TimerInv
  <1> QED  BY <1>1, <1>3, <1>4, <1>5, <1>6, SettingsKept

\* A run begins.
LEMMA SubmitStep ==
  ASSUME GatewayInv, Link!Submit  PROVE GatewayInv'
  <1> USE ConnectionBound DEF GatewayInv, GatewayTypes, Ways, Reloads, Link!Submit, Link!Use,
      Link!NoQuery, Link!Link, Link!Settings, Link!Plugins
  <1>1. LinkTypes'
    BY DEF LinkTypes, QueryTypes
  <1>2. run' \in Queries
    BY DEF LinkTypes, QueryTypes, SettingTypes, Queries
  <1>3. side' \in Queries
    BY DEF LinkTypes, QueryTypes, Queries
  <1>4. idle' \in Errands
    BY DEF LinkTypes, QueryTypes, Errands
  <1>5. SettingTypes' /\ NumbersInv' /\ ModesInv' /\ PluginsInv'
    <2>1. client' \in {client, 0} /\ used'.connections = used.connections
      BY DEF LinkTypes
    <2>2. /\ UNCHANGED <<chosen, actual, setting, installed, loaded, reload>>
          /\ "mode" \in missed => "mode" \in missed'
          /\ "plugins" \in missed => "plugins" \in missed'
      OBVIOUS
    <2> QED  BY <2>1, <2>2, SettingsKept
  <1>6. ConnInv'
    BY DEF ConnInv, LinkTypes, QueryTypes, Queries
  <1>7. HolderInv'
    BY DEF HolderInv, ConnInv, QueryTypes, Queries
  <1>8. ActiveInv'
    BY DEF ActiveInv, ConnInv, QueryTypes, Queries
  <1>9. TimerInv'
    BY DEF TimerInv, ConnInv, LinkTypes, QueryTypes, Queries, Errands
  <1> QED  BY <1>1, <1>2, <1>3, <1>4, <1>5, <1>6, <1>7, <1>8, <1>9 DEF QueryTypes

\* It looks for its connection.
LEMMA EstablishStep ==
  ASSUME GatewayInv, Link!Establish  PROVE GatewayInv'
  <1> USE ConnectionBound DEF GatewayInv, GatewayTypes, Ways, Reloads, Link!Establish,
      Link!Link, Link!Settings, Link!Plugins
  <1>1. LinkTypes'
    BY DEF LinkTypes, QueryTypes
  <1>2. run' \in Queries
    BY DEF LinkTypes, QueryTypes, SettingTypes, Queries
  <1>3. side' \in Queries
    BY DEF LinkTypes, QueryTypes, Queries
  <1>4. idle' \in Errands
    BY DEF LinkTypes, QueryTypes, Errands
  <1>5. SettingTypes' /\ NumbersInv' /\ ModesInv' /\ PluginsInv'
    <2>1. client' \in {client, 0} /\ used'.connections = used.connections
      BY DEF LinkTypes
    <2>2. /\ UNCHANGED <<chosen, actual, setting, installed, loaded, reload>>
          /\ "mode" \in missed => "mode" \in missed'
          /\ "plugins" \in missed => "plugins" \in missed'
      OBVIOUS
    <2> QED  BY <2>1, <2>2, SettingsKept
  <1>6. ConnInv'
    BY DEF ConnInv, LinkTypes, QueryTypes, Queries
  <1>7. HolderInv'
    BY DEF HolderInv, ConnInv, QueryTypes, Queries
  <1>8. ActiveInv'
    BY DEF ActiveInv, ConnInv, QueryTypes, Queries
  <1>9. TimerInv'
    BY DEF TimerInv, ConnInv, LinkTypes, QueryTypes, Queries, Errands
  <1> QED  BY <1>1, <1>2, <1>3, <1>4, <1>5, <1>6, <1>7, <1>8, <1>9 DEF QueryTypes

\* It looks for the pump.
LEMMA SendStartsStep ==
  ASSUME GatewayInv, Link!SendStarts  PROVE GatewayInv'
  <1> USE ConnectionBound DEF GatewayInv, GatewayTypes, Ways, Reloads, Link!SendStarts,
      Link!Link, Link!Settings, Link!Plugins
  <1>1. LinkTypes'
    BY DEF LinkTypes, QueryTypes
  <1>2. run' \in Queries
    BY DEF LinkTypes, QueryTypes, SettingTypes, Queries
  <1>3. side' \in Queries
    BY DEF LinkTypes, QueryTypes, Queries
  <1>4. idle' \in Errands
    BY DEF LinkTypes, QueryTypes, Errands
  <1>5. SettingTypes' /\ NumbersInv' /\ ModesInv' /\ PluginsInv'
    <2>1. client' \in {client, 0} /\ used'.connections = used.connections
      BY DEF LinkTypes
    <2>2. /\ UNCHANGED <<chosen, actual, setting, installed, loaded, reload>>
          /\ "mode" \in missed => "mode" \in missed'
          /\ "plugins" \in missed => "plugins" \in missed'
      OBVIOUS
    <2> QED  BY <2>1, <2>2, SettingsKept
  <1>6. ConnInv'
    BY DEF ConnInv, LinkTypes, QueryTypes, Queries
  <1>7. HolderInv'
    BY DEF HolderInv, ConnInv, QueryTypes, Queries
  <1>8. ActiveInv'
    BY DEF ActiveInv, ConnInv, QueryTypes, Queries
  <1>9. TimerInv'
    BY DEF TimerInv, ConnInv, LinkTypes, QueryTypes, Queries, Errands
  <1> QED  BY <1>1, <1>2, <1>3, <1>4, <1>5, <1>6, <1>7, <1>8, <1>9 DEF QueryTypes

\* It has the operation lock.
LEMMA RunBeginsStep ==
  ASSUME GatewayInv, Link!RunBegins  PROVE GatewayInv'
  <1> USE ConnectionBound DEF GatewayInv, GatewayTypes, Ways, Reloads, Link!RunBegins,
      Link!AfterFailure, Link!Link, Link!Settings, Link!Plugins
  <1>1. LinkTypes'
    BY DEF LinkTypes, QueryTypes
  <1>2. run' \in Queries
    BY DEF LinkTypes, QueryTypes, SettingTypes, Queries
  <1>3. side' \in Queries
    BY DEF LinkTypes, QueryTypes, Queries
  <1>4. idle' \in Errands
    BY DEF LinkTypes, QueryTypes, Errands
  <1>5. SettingTypes' /\ NumbersInv' /\ ModesInv' /\ PluginsInv'
    <2>1. client' \in {client, 0} /\ used'.connections = used.connections
      BY DEF LinkTypes
    <2>2. /\ UNCHANGED <<chosen, actual, setting, installed, loaded, reload>>
          /\ "mode" \in missed => "mode" \in missed'
          /\ "plugins" \in missed => "plugins" \in missed'
      OBVIOUS
    <2> QED  BY <2>1, <2>2, SettingsKept
  <1>6. ConnInv'
    BY DEF ConnInv, LinkTypes, QueryTypes, Queries
  <1>7. HolderInv'
    BY DEF HolderInv, ConnInv, QueryTypes, Queries
  <1>8. ActiveInv'
    BY DEF ActiveInv, ConnInv, QueryTypes, Queries
  <1>9. TimerInv'
    BY DEF TimerInv, ConnInv, LinkTypes, QueryTypes, Queries, Errands
  <1> QED  BY <1>1, <1>2, <1>3, <1>4, <1>5, <1>6, <1>7, <1>8, <1>9 DEF QueryTypes

\* Its prompt is sent.
LEMMA RunSentStep ==
  ASSUME GatewayInv, Link!RunSent  PROVE GatewayInv'
  <1> USE ConnectionBound DEF GatewayInv, GatewayTypes, Ways, Reloads, Link!RunSent, Link!Link,
      Link!Settings, Link!Plugins
  <1>1. LinkTypes'
    BY DEF LinkTypes, QueryTypes
  <1>2. run' \in Queries
    BY DEF LinkTypes, QueryTypes, SettingTypes, Queries
  <1>3. side' \in Queries
    BY DEF LinkTypes, QueryTypes, Queries
  <1>4. idle' \in Errands
    BY DEF LinkTypes, QueryTypes, Errands
  <1>5. SettingTypes' /\ NumbersInv' /\ ModesInv' /\ PluginsInv'
    <2>1. client' \in {client, 0} /\ used'.connections = used.connections
      BY DEF LinkTypes
    <2>2. /\ UNCHANGED <<chosen, actual, setting, installed, loaded, reload>>
          /\ "mode" \in missed => "mode" \in missed'
          /\ "plugins" \in missed => "plugins" \in missed'
      OBVIOUS
    <2> QED  BY <2>1, <2>2, SettingsKept
  <1>6. ConnInv'
    BY DEF ConnInv, LinkTypes, QueryTypes, Queries
  <1>7. HolderInv'
    BY DEF HolderInv, ConnInv, QueryTypes, Queries
  <1>8. ActiveInv'
    BY DEF ActiveInv, ConnInv, QueryTypes, Queries
  <1>9. TimerInv'
    BY DEF TimerInv, ConnInv, LinkTypes, QueryTypes, Queries, Errands
  <1> QED  BY <1>1, <1>2, <1>3, <1>4, <1>5, <1>6, <1>7, <1>8, <1>9 DEF QueryTypes

\* Its prompt is not sent.
LEMMA RunSendFailsStep ==
  ASSUME GatewayInv, Link!RunSendFails  PROVE GatewayInv'
  <1> USE ConnectionBound DEF GatewayInv, GatewayTypes, Ways, Reloads, Link!RunSendFails,
      Link!AfterFailure, Link!Fault, Link!Use, Link!Link, Link!Settings, Link!Plugins
  <1>1. LinkTypes'
    BY DEF LinkTypes, QueryTypes
  <1>2. run' \in Queries
    BY DEF LinkTypes, QueryTypes, SettingTypes, Queries
  <1>3. side' \in Queries
    BY DEF LinkTypes, QueryTypes, Queries
  <1>4. idle' \in Errands
    BY DEF LinkTypes, QueryTypes, Errands
  <1>5. SettingTypes' /\ NumbersInv' /\ ModesInv' /\ PluginsInv'
    <2>1. client' \in {client, 0} /\ used'.connections = used.connections
      BY DEF LinkTypes
    <2>2. /\ UNCHANGED <<chosen, actual, setting, installed, loaded, reload>>
          /\ "mode" \in missed => "mode" \in missed'
          /\ "plugins" \in missed => "plugins" \in missed'
      OBVIOUS
    <2> QED  BY <2>1, <2>2, SettingsKept
  <1>6. ConnInv'
    BY DEF ConnInv, LinkTypes, QueryTypes, Queries
  <1>7. HolderInv'
    BY DEF HolderInv, ConnInv, QueryTypes, Queries
  <1>8. ActiveInv'
    BY DEF ActiveInv, ConnInv, QueryTypes, Queries
  <1>9. TimerInv'
    BY DEF TimerInv, ConnInv, LinkTypes, QueryTypes, Queries, Errands
  <1> QED  BY <1>1, <1>2, <1>3, <1>4, <1>5, <1>6, <1>7, <1>8, <1>9 DEF QueryTypes

\* Its stream ends.
LEMMA RunEndsStep ==
  ASSUME GatewayInv, Link!RunEnds  PROVE GatewayInv'
  <1> USE ConnectionBound DEF GatewayInv, GatewayTypes, Ways, Reloads, Link!RunEnds, Link!Ended,
      Link!Link, Link!Settings, Link!Plugins
  <1>1. LinkTypes'
    BY DEF LinkTypes, QueryTypes
  <1>2. run' \in Queries
    BY DEF LinkTypes, QueryTypes, SettingTypes, Queries
  <1>3. side' \in Queries
    BY DEF LinkTypes, QueryTypes, Queries
  <1>4. idle' \in Errands
    BY DEF LinkTypes, QueryTypes, Errands
  <1>5. SettingTypes' /\ NumbersInv' /\ ModesInv' /\ PluginsInv'
    <2>1. client' \in {client, 0} /\ used'.connections = used.connections
      BY DEF LinkTypes
    <2>2. /\ UNCHANGED <<chosen, actual, setting, installed, loaded, reload>>
          /\ "mode" \in missed => "mode" \in missed'
          /\ "plugins" \in missed => "plugins" \in missed'
      OBVIOUS
    <2> QED  BY <2>1, <2>2, SettingsKept
  <1>6. ConnInv'
    BY DEF ConnInv, LinkTypes, QueryTypes, Queries
  <1>7. HolderInv'
    BY DEF HolderInv, ConnInv, QueryTypes, Queries
  <1>8. ActiveInv'
    BY DEF ActiveInv, ConnInv, QueryTypes, Queries
  <1>9. TimerInv'
    BY DEF TimerInv, ConnInv, LinkTypes, QueryTypes, Queries, Errands
  <1> QED  BY <1>1, <1>2, <1>3, <1>4, <1>5, <1>6, <1>7, <1>8, <1>9 DEF QueryTypes

\* Its stream breaks.
LEMMA RunBreaksStep ==
  ASSUME GatewayInv, Link!RunBreaks  PROVE GatewayInv'
  <1> USE ConnectionBound DEF GatewayInv, GatewayTypes, Ways, Reloads, Link!RunBreaks,
      Link!AfterFailure, Link!Ended, Link!Fault, Link!Use, Link!Link, Link!Settings, Link!Plugins
  <1>1. LinkTypes'
    BY DEF LinkTypes, QueryTypes
  <1>2. run' \in Queries
    BY DEF LinkTypes, QueryTypes, SettingTypes, Queries
  <1>3. side' \in Queries
    BY DEF LinkTypes, QueryTypes, Queries
  <1>4. idle' \in Errands
    BY DEF LinkTypes, QueryTypes, Errands
  <1>5. SettingTypes' /\ NumbersInv' /\ ModesInv' /\ PluginsInv'
    <2>1. client' \in {client, 0} /\ used'.connections = used.connections
      BY DEF LinkTypes
    <2>2. /\ UNCHANGED <<chosen, actual, setting, installed, loaded, reload>>
          /\ "mode" \in missed => "mode" \in missed'
          /\ "plugins" \in missed => "plugins" \in missed'
      OBVIOUS
    <2> QED  BY <2>1, <2>2, SettingsKept
  <1>6. ConnInv'
    BY DEF ConnInv, LinkTypes, QueryTypes, Queries
  <1>7. HolderInv'
    BY DEF HolderInv, ConnInv, QueryTypes, Queries
  <1>8. ActiveInv'
    BY DEF ActiveInv, ConnInv, QueryTypes, Queries
  <1>9. TimerInv'
    BY DEF TimerInv, ConnInv, LinkTypes, QueryTypes, Queries, Errands
  <1> QED  BY <1>1, <1>2, <1>3, <1>4, <1>5, <1>6, <1>7, <1>8, <1>9 DEF QueryTypes

\* It drops the connection.
LEMMA RunDropsStep ==
  ASSUME GatewayInv, Link!RunDrops  PROVE GatewayInv'
  <1> USE ConnectionBound DEF GatewayInv, GatewayTypes, Ways, Reloads, Link!RunDrops,
      Link!TakeConn, Link!Link, Link!Settings, Link!Plugins
  <1>1. LinkTypes'
    BY DEF LinkTypes, QueryTypes
  <1>2. run' \in Queries
    BY DEF LinkTypes, QueryTypes, SettingTypes, Queries
  <1>3. side' \in Queries
    BY DEF LinkTypes, QueryTypes, Queries
  <1>4. idle' \in Errands
    BY DEF LinkTypes, QueryTypes, Errands
  <1>5. SettingTypes' /\ NumbersInv' /\ ModesInv' /\ PluginsInv'
    <2>1. client' \in {client, 0} /\ used'.connections = used.connections
      BY DEF LinkTypes
    <2>2. /\ UNCHANGED <<chosen, actual, setting, installed, loaded, reload>>
          /\ "mode" \in missed => "mode" \in missed'
          /\ "plugins" \in missed => "plugins" \in missed'
      OBVIOUS
    <2> QED  BY <2>1, <2>2, SettingsKept
  <1>6. ConnInv'
    BY DEF ConnInv, LinkTypes, QueryTypes, Queries
  <1>7. HolderInv'
    BY DEF HolderInv, ConnInv, QueryTypes, Queries
  <1>8. ActiveInv'
    BY DEF ActiveInv, ConnInv, QueryTypes, Queries
  <1>9. TimerInv'
    BY DEF TimerInv, ConnInv, LinkTypes, QueryTypes, Queries, Errands
  <1> QED  BY <1>1, <1>2, <1>3, <1>4, <1>5, <1>6, <1>7, <1>8, <1>9 DEF QueryTypes

\* It connects.
LEMMA RunConnectsStep ==
  ASSUME GatewayInv, Link!RunConnects  PROVE GatewayInv'
  <1> USE ConnectionBound DEF GatewayInv, GatewayTypes, Ways, Reloads, Link!RunConnects,
      Link!TakeConn, Link!Link, Link!Settings, Link!Plugins
  <1>1. LinkTypes'
    BY DEF LinkTypes, QueryTypes
  <1>2. run' \in Queries
    BY DEF LinkTypes, QueryTypes, SettingTypes, Queries
  <1>3. side' \in Queries
    BY DEF LinkTypes, QueryTypes, Queries
  <1>4. idle' \in Errands
    BY DEF LinkTypes, QueryTypes, Errands
  <1>5. SettingTypes' /\ NumbersInv' /\ ModesInv' /\ PluginsInv'
    <2>1. client' \in {client, 0} /\ used'.connections = used.connections
      BY DEF LinkTypes
    <2>2. /\ UNCHANGED <<chosen, actual, setting, installed, loaded, reload>>
          /\ "mode" \in missed => "mode" \in missed'
          /\ "plugins" \in missed => "plugins" \in missed'
      OBVIOUS
    <2> QED  BY <2>1, <2>2, SettingsKept
  <1>6. ConnInv'
    BY DEF ConnInv, LinkTypes, QueryTypes, Queries
  <1>7. HolderInv'
    BY DEF HolderInv, ConnInv, QueryTypes, Queries
  <1>8. ActiveInv'
    BY DEF ActiveInv, ConnInv, QueryTypes, Queries
  <1>9. TimerInv'
    BY DEF TimerInv, ConnInv, LinkTypes, QueryTypes, Queries, Errands
  <1> QED  BY <1>1, <1>2, <1>3, <1>4, <1>5, <1>6, <1>7, <1>8, <1>9 DEF QueryTypes

\* The connection is open.
LEMMA OpenedStep ==
  ASSUME GatewayInv, Link!Opened  PROVE GatewayInv'
  <1> USE ConnectionBound DEF GatewayInv, GatewayTypes, Ways, Reloads
  <1> DEFINE c == used.connections + 1
  <1>1. /\ conn.step = "opening" /\ used.connections < MaxConnections
        /\ used' = [used EXCEPT !["connections"] = @ + 1]
        /\ client' = c /\ pump' = c /\ conn' = Link!Unused /\ state' = "connected" /\ timer' = FALSE
        /\ actual' = [actual EXCEPT ![c] = run.mode]
        /\ run' = [run EXCEPT !.pc = "atOp", !.path = "connect", !.client = c, !.pump = c]
        /\ UNCHANGED <<active, oplock, side, idle, chosen, setting, installed, reload, killed>>
    BY DEF Link!Opened, Link!Use
  <1>2. PICK v \in {run.plugins, installed} :
          /\ loaded' = [loaded EXCEPT ![c] = v]
          /\ missed' = (Link!Settle("mode", run.mode = chosen) \ {"plugins"})
                         \cup (IF v = installed THEN {} ELSE {"plugins"})
    BY DEF Link!Opened
  <1>3. /\ c \in 1 .. MaxConnections /\ used'.connections = c
        /\ used' \in [runs : Nat, connections : Nat, changes : Nat, sides : Nat, disturbances : Nat]
    BY <1>1 DEF LinkTypes
  <1>4. conn.by = "run" /\ run.pc \in {"dropping", "opening"}
    BY <1>1 DEF ConnInv
  <1>5. run' \in Queries /\ run'.pc = "atOp" /\ run.mode \in Nat /\ v \in Nat
    BY <1>1, <1>3, <1>2 DEF QueryTypes, Queries, SettingTypes
  <1>6. conn'.by = "nobody" /\ conn'.step = "none" /\ conn'.next = "none"
    BY <1>1 DEF Link!Unused
  <1>7. LinkTypes' /\ QueryTypes'
    BY <1>1, <1>3, <1>5 DEF LinkTypes, QueryTypes, Link!Unused
  <1>8. /\ actual' \in [1 .. MaxConnections -> Nat] /\ actual'[c] = run.mode
        /\ loaded' \in [1 .. MaxConnections -> Nat] /\ loaded'[c] = v
    BY <1>1, <1>2, <1>3, <1>5 DEF SettingTypes
  <1>9. SettingTypes'
    BY <1>1, <1>8 DEF SettingTypes
  <1>10. /\ \A w \in Ways : setting[w].client \in Nat /\ setting[w].client < c
         /\ \A w \in Reloads : reload[w].client \in Nat /\ reload[w].client < c
    <2>1. /\ \A w \in Ways : setting[w].client \in Nat
          /\ \A w \in Reloads : reload[w].client \in Nat
          /\ used.connections \in Nat
      BY DEF SettingTypes, Errands, LinkTypes
    <2> QED  BY <2>1 DEF NumbersInv
  <1>11. NumbersInv'
    BY <1>1, <1>3, <1>10 DEF NumbersInv
  <1>12. ConnInv' /\ HolderInv' /\ ActiveInv' /\ TimerInv'
    <2>1. ConnInv'
      BY <1>6 DEF ConnInv
    <2>2. HolderInv' /\ ActiveInv'
      BY <1>1, <1>4, <1>5 DEF HolderInv, ActiveInv
    <2>3. TimerInv'
      BY <1>5 DEF TimerInv
    <2> QED  BY <2>1, <2>2, <2>3
  <1>13. ModesInv'
    <2>1. run.mode = chosen \/ "mode" \in missed'
      BY <1>2 DEF Link!Settle
    <2> QED  BY <1>1, <1>3, <1>8, <1>10, <2>1 DEF ModesInv
  <1>14. PluginsInv'
    <2>1. v = installed \/ "plugins" \in missed'
      BY <1>2
    <2> QED  BY <1>1, <1>3, <1>8, <1>10, <2>1 DEF PluginsInv
  <1> QED  BY <1>7, <1>9, <1>11, <1>12, <1>13, <1>14

\* No connection is opened.
LEMMA OpenFailsStep ==
  ASSUME GatewayInv, Link!OpenFails  PROVE GatewayInv'
  <1> USE ConnectionBound DEF GatewayInv, GatewayTypes, Ways, Reloads, Link!OpenFails,
      Link!Fault, Link!Use, Link!Unused, Link!Link, Link!Settings, Link!Plugins
  <1>1. LinkTypes'
    BY DEF LinkTypes, QueryTypes
  <1>2. run' \in Queries
    BY DEF LinkTypes, QueryTypes, SettingTypes, Queries
  <1>3. side' \in Queries
    BY DEF LinkTypes, QueryTypes, Queries
  <1>4. idle' \in Errands
    BY DEF LinkTypes, QueryTypes, Errands
  <1>5. SettingTypes' /\ NumbersInv' /\ ModesInv' /\ PluginsInv'
    <2>1. client' \in {client, 0} /\ used'.connections = used.connections
      BY DEF LinkTypes
    <2>2. /\ UNCHANGED <<chosen, actual, setting, installed, loaded, reload>>
          /\ "mode" \in missed => "mode" \in missed'
          /\ "plugins" \in missed => "plugins" \in missed'
      OBVIOUS
    <2> QED  BY <2>1, <2>2, SettingsKept
  <1>6. ConnInv'
    BY DEF ConnInv, LinkTypes, QueryTypes, Queries
  <1>7. HolderInv'
    BY DEF HolderInv, ConnInv, QueryTypes, Queries
  <1>8. ActiveInv'
    BY DEF ActiveInv, ConnInv, QueryTypes, Queries
  <1>9. TimerInv'
    BY DEF TimerInv, ConnInv, LinkTypes, QueryTypes, Queries, Errands
  <1> QED  BY <1>1, <1>2, <1>3, <1>4, <1>5, <1>6, <1>7, <1>8, <1>9 DEF QueryTypes

\* The run is finalized.
LEMMA FinalizeStep ==
  ASSUME GatewayInv, Link!Finalize  PROVE GatewayInv'
  <1> USE ConnectionBound DEF GatewayInv, GatewayTypes, Ways, Reloads, Link!Finalize, Link!Link,
      Link!Settings, Link!Plugins
  <1>1. LinkTypes'
    BY DEF LinkTypes, QueryTypes
  <1>2. run' \in Queries
    BY DEF LinkTypes, QueryTypes, SettingTypes, Queries
  <1>3. side' \in Queries
    BY DEF LinkTypes, QueryTypes, Queries
  <1>4. idle' \in Errands
    BY DEF LinkTypes, QueryTypes, Errands
  <1>5. SettingTypes' /\ NumbersInv' /\ ModesInv' /\ PluginsInv'
    <2>1. client' \in {client, 0} /\ used'.connections = used.connections
      BY DEF LinkTypes
    <2>2. /\ UNCHANGED <<chosen, actual, setting, installed, loaded, reload>>
          /\ "mode" \in missed => "mode" \in missed'
          /\ "plugins" \in missed => "plugins" \in missed'
      OBVIOUS
    <2> QED  BY <2>1, <2>2, SettingsKept
  <1>6. ConnInv'
    BY DEF ConnInv, LinkTypes, QueryTypes, Queries
  <1>7. HolderInv'
    BY DEF HolderInv, ConnInv, QueryTypes, Queries
  <1>8. ActiveInv'
    BY DEF ActiveInv, ConnInv, QueryTypes, Queries
  <1>9. TimerInv'
    BY DEF TimerInv, ConnInv, LinkTypes, QueryTypes, Queries, Errands
  <1> QED  BY <1>1, <1>2, <1>3, <1>4, <1>5, <1>6, <1>7, <1>8, <1>9 DEF QueryTypes

\* The run is over.
LEMMA RunOverStep ==
  ASSUME GatewayInv, Link!RunOver  PROVE GatewayInv'
  <1> USE ConnectionBound DEF GatewayInv, GatewayTypes, Ways, Reloads, Link!RunOver,
      Link!ScheduleIdle, Link!NoQuery, Link!Link, Link!Settings, Link!Plugins
  <1>1. LinkTypes'
    BY DEF LinkTypes, QueryTypes
  <1>2. run' \in Queries
    BY DEF LinkTypes, QueryTypes, SettingTypes, Queries
  <1>3. side' \in Queries
    BY DEF LinkTypes, QueryTypes, Queries
  <1>4. idle' \in Errands
    BY DEF LinkTypes, QueryTypes, Errands
  <1>5. SettingTypes' /\ NumbersInv' /\ ModesInv' /\ PluginsInv'
    <2>1. client' \in {client, 0} /\ used'.connections = used.connections
      BY DEF LinkTypes
    <2>2. /\ UNCHANGED <<chosen, actual, setting, installed, loaded, reload>>
          /\ "mode" \in missed => "mode" \in missed'
          /\ "plugins" \in missed => "plugins" \in missed'
      OBVIOUS
    <2> QED  BY <2>1, <2>2, SettingsKept
  <1>6. ConnInv'
    BY DEF ConnInv, LinkTypes, QueryTypes, Queries
  <1>7. HolderInv'
    BY DEF HolderInv, ConnInv, QueryTypes, Queries
  <1>8. ActiveInv'
    BY DEF ActiveInv, ConnInv, QueryTypes, Queries
  <1>9. TimerInv'
    BY DEF TimerInv, ConnInv, LinkTypes, QueryTypes, Queries, Errands
  <1> QED  BY <1>1, <1>2, <1>3, <1>4, <1>5, <1>6, <1>7, <1>8, <1>9 DEF QueryTypes

\* A side query is asked for.
LEMMA SideAskedStep ==
  ASSUME GatewayInv, Link!SideAsked  PROVE GatewayInv'
  <1> USE ConnectionBound DEF GatewayInv, GatewayTypes, Ways, Reloads, Link!SideAsked, Link!Use,
      Link!NoQuery, Link!Link, Link!Settings, Link!Plugins
  <1>1. LinkTypes'
    BY DEF LinkTypes, QueryTypes
  <1>2. run' \in Queries
    BY DEF LinkTypes, QueryTypes, SettingTypes, Queries
  <1>3. side' \in Queries
    BY DEF LinkTypes, QueryTypes, Queries
  <1>4. idle' \in Errands
    BY DEF LinkTypes, QueryTypes, Errands
  <1>5. SettingTypes' /\ NumbersInv' /\ ModesInv' /\ PluginsInv'
    <2>1. client' \in {client, 0} /\ used'.connections = used.connections
      BY DEF LinkTypes
    <2>2. /\ UNCHANGED <<chosen, actual, setting, installed, loaded, reload>>
          /\ "mode" \in missed => "mode" \in missed'
          /\ "plugins" \in missed => "plugins" \in missed'
      OBVIOUS
    <2> QED  BY <2>1, <2>2, SettingsKept
  <1>6. ConnInv'
    BY DEF ConnInv, LinkTypes, QueryTypes, Queries
  <1>7. HolderInv'
    BY DEF HolderInv, ConnInv, QueryTypes, Queries
  <1>8. ActiveInv'
    BY DEF ActiveInv, ConnInv, QueryTypes, Queries
  <1>9. TimerInv'
    BY DEF TimerInv, ConnInv, LinkTypes, QueryTypes, Queries, Errands
  <1> QED  BY <1>1, <1>2, <1>3, <1>4, <1>5, <1>6, <1>7, <1>8, <1>9 DEF QueryTypes

\* It looks for its connection.
LEMMA SideStartsStep ==
  ASSUME GatewayInv, Link!SideStarts  PROVE GatewayInv'
  <1> USE ConnectionBound DEF GatewayInv, GatewayTypes, Ways, Reloads, Link!SideStarts,
      Link!NoQuery, Link!Link, Link!Settings, Link!Plugins
  <1>1. LinkTypes'
    BY DEF LinkTypes, QueryTypes
  <1>2. run' \in Queries
    BY DEF LinkTypes, QueryTypes, SettingTypes, Queries
  <1>3. side' \in Queries
    BY DEF LinkTypes, QueryTypes, Queries
  <1>4. idle' \in Errands
    BY DEF LinkTypes, QueryTypes, Errands
  <1>5. SettingTypes' /\ NumbersInv' /\ ModesInv' /\ PluginsInv'
    <2>1. client' \in {client, 0} /\ used'.connections = used.connections
      BY DEF LinkTypes
    <2>2. /\ UNCHANGED <<chosen, actual, setting, installed, loaded, reload>>
          /\ "mode" \in missed => "mode" \in missed'
          /\ "plugins" \in missed => "plugins" \in missed'
      OBVIOUS
    <2> QED  BY <2>1, <2>2, SettingsKept
  <1>6. ConnInv'
    BY DEF ConnInv, LinkTypes, QueryTypes, Queries
  <1>7. HolderInv'
    BY DEF HolderInv, ConnInv, QueryTypes, Queries
  <1>8. ActiveInv'
    BY DEF ActiveInv, ConnInv, QueryTypes, Queries
  <1>9. TimerInv'
    BY DEF TimerInv, ConnInv, LinkTypes, QueryTypes, Queries, Errands
  <1> QED  BY <1>1, <1>2, <1>3, <1>4, <1>5, <1>6, <1>7, <1>8, <1>9 DEF QueryTypes

\* It has the operation lock.
LEMMA SideBeginsStep ==
  ASSUME GatewayInv, Link!SideBegins  PROVE GatewayInv'
  <1> USE ConnectionBound DEF GatewayInv, GatewayTypes, Ways, Reloads, Link!SideBegins,
      Link!NoQuery, Link!Link, Link!Settings, Link!Plugins
  <1>1. LinkTypes'
    BY DEF LinkTypes, QueryTypes
  <1>2. run' \in Queries
    BY DEF LinkTypes, QueryTypes, SettingTypes, Queries
  <1>3. side' \in Queries
    BY DEF LinkTypes, QueryTypes, Queries
  <1>4. idle' \in Errands
    BY DEF LinkTypes, QueryTypes, Errands
  <1>5. SettingTypes' /\ NumbersInv' /\ ModesInv' /\ PluginsInv'
    <2>1. client' \in {client, 0} /\ used'.connections = used.connections
      BY DEF LinkTypes
    <2>2. /\ UNCHANGED <<chosen, actual, setting, installed, loaded, reload>>
          /\ "mode" \in missed => "mode" \in missed'
          /\ "plugins" \in missed => "plugins" \in missed'
      OBVIOUS
    <2> QED  BY <2>1, <2>2, SettingsKept
  <1>6. ConnInv'
    BY DEF ConnInv, LinkTypes, QueryTypes, Queries
  <1>7. HolderInv'
    BY DEF HolderInv, ConnInv, QueryTypes, Queries
  <1>8. ActiveInv'
    BY DEF ActiveInv, ConnInv, QueryTypes, Queries
  <1>9. TimerInv'
    BY DEF TimerInv, ConnInv, LinkTypes, QueryTypes, Queries, Errands
  <1> QED  BY <1>1, <1>2, <1>3, <1>4, <1>5, <1>6, <1>7, <1>8, <1>9 DEF QueryTypes

\* It ends.
LEMMA SideEndsStep ==
  ASSUME GatewayInv, Link!SideEnds  PROVE GatewayInv'
  <1> USE ConnectionBound DEF GatewayInv, GatewayTypes, Ways, Reloads, Link!SideEnds,
      Link!Ended, Link!Fault, Link!Use, Link!NoQuery, Link!Link, Link!Settings, Link!Plugins
  <1>1. LinkTypes'
    BY DEF LinkTypes, QueryTypes
  <1>2. run' \in Queries
    BY DEF LinkTypes, QueryTypes, SettingTypes, Queries
  <1>3. side' \in Queries
    BY DEF LinkTypes, QueryTypes, Queries
  <1>4. idle' \in Errands
    BY DEF LinkTypes, QueryTypes, Errands
  <1>5. SettingTypes' /\ NumbersInv' /\ ModesInv' /\ PluginsInv'
    <2>1. client' \in {client, 0} /\ used'.connections = used.connections
      BY DEF LinkTypes
    <2>2. /\ UNCHANGED <<chosen, actual, setting, installed, loaded, reload>>
          /\ "mode" \in missed => "mode" \in missed'
          /\ "plugins" \in missed => "plugins" \in missed'
      OBVIOUS
    <2> QED  BY <2>1, <2>2, SettingsKept
  <1>6. ConnInv'
    BY DEF ConnInv, LinkTypes, QueryTypes, Queries
  <1>7. HolderInv'
    BY DEF HolderInv, ConnInv, QueryTypes, Queries
  <1>8. ActiveInv'
    BY DEF ActiveInv, ConnInv, QueryTypes, Queries
  <1>9. TimerInv'
    BY DEF TimerInv, ConnInv, LinkTypes, QueryTypes, Queries, Errands
  <1> QED  BY <1>1, <1>2, <1>3, <1>4, <1>5, <1>6, <1>7, <1>8, <1>9 DEF QueryTypes

\* A control request.
LEMMA ControlStep ==
  ASSUME GatewayInv, Link!Control  PROVE GatewayInv'
  <1> USE ConnectionBound DEF GatewayInv, GatewayTypes, Ways, Reloads, Link!Control, Link!Use,
      Link!Link, Link!Settings, Link!Plugins
  <1>1. LinkTypes'
    BY DEF LinkTypes, QueryTypes
  <1>2. run' \in Queries
    BY DEF LinkTypes, QueryTypes, SettingTypes, Queries
  <1>3. side' \in Queries
    BY DEF LinkTypes, QueryTypes, Queries
  <1>4. idle' \in Errands
    BY DEF LinkTypes, QueryTypes, Errands
  <1>5. SettingTypes' /\ NumbersInv' /\ ModesInv' /\ PluginsInv'
    <2>1. client' \in {client, 0} /\ used'.connections = used.connections
      BY DEF LinkTypes
    <2>2. /\ UNCHANGED <<chosen, actual, setting, installed, loaded, reload>>
          /\ "mode" \in missed => "mode" \in missed'
          /\ "plugins" \in missed => "plugins" \in missed'
      OBVIOUS
    <2> QED  BY <2>1, <2>2, SettingsKept
  <1>6. ConnInv'
    BY DEF ConnInv, LinkTypes, QueryTypes, Queries
  <1>7. HolderInv'
    BY DEF HolderInv, ConnInv, QueryTypes, Queries
  <1>8. ActiveInv'
    BY DEF ActiveInv, ConnInv, QueryTypes, Queries
  <1>9. TimerInv'
    BY DEF TimerInv, ConnInv, LinkTypes, QueryTypes, Queries, Errands
  <1> QED  BY <1>1, <1>2, <1>3, <1>4, <1>5, <1>6, <1>7, <1>8, <1>9 DEF QueryTypes

\* The idle task closes the connection it is for, or finds another one.
LEMMA IdleCloses ==
  ASSUME GatewayInv, NEW how, how = "at once" => ~active, Link!IdleDisconnects(how),
         UNCHANGED <<client, active, timer, oplock, run, side, chosen, actual, setting, installed,
                     loaded, reload, used, missed>>
  PROVE  GatewayInv'
  <1> USE DEF GatewayInv, GatewayTypes, Ways, Reloads
  <1>1. CASE client = idle.client
    <2>1. /\ conn.by = "nobody" /\ conn' = [by |-> "idle", step |-> "closing", next |-> "release"]
          /\ pump' = 0 /\ idle' = [idle EXCEPT !.pc = "closing"]
          /\ killed' = IF run.pc \in {"sending", "streaming"} /\ run.client = client
                       THEN killed \cup {how} ELSE killed
      BY <1>1 DEF Link!IdleDisconnects, Link!TakeConn, Link!Hit, Link!InStream
    <2>2. LinkTypes' /\ QueryTypes'
      BY <2>1 DEF LinkTypes, QueryTypes, Errands
    <2>3. ConnInv' /\ HolderInv' /\ TimerInv'
      BY <2>1 DEF ConnInv, HolderInv, TimerInv
    <2>4. ActiveInv'
      BY <2>1 DEF ActiveInv
    <2> QED  BY <2>2, <2>3, <2>4, SettingsKept
  <1>2. CASE client # idle.client
    <2>1. conn.by = "nobody" /\ idle' = Link!Unset /\ UNCHANGED <<conn, pump, killed>>
      BY <1>2 DEF Link!IdleDisconnects
    <2>2. LinkTypes' /\ QueryTypes'
      BY <2>1 DEF LinkTypes, QueryTypes, Errands, Link!Unset
    <2>3. ConnInv' /\ HolderInv' /\ ActiveInv'
      BY <2>1 DEF ConnInv, HolderInv, ActiveInv
    <2>4. TimerInv'
      BY <1>2, <2>1 DEF TimerInv
    <2> QED  BY <2>2, <2>3, <2>4, SettingsKept
  <1> QED  BY <1>1, <1>2

\* The timer fires.
LEMMA TimerFiresStep ==
  ASSUME GatewayInv, Link!TimerFires  PROVE GatewayInv'
  <1> USE ConnectionBound DEF GatewayInv, GatewayTypes, Ways, Reloads, Link!TimerFires,
      Link!Unset, Link!Link, Link!Settings, Link!Plugins
  <1>1. LinkTypes'
    BY DEF LinkTypes, QueryTypes
  <1>2. run' \in Queries
    BY DEF LinkTypes, QueryTypes, SettingTypes, Queries
  <1>3. side' \in Queries
    BY DEF LinkTypes, QueryTypes, Queries
  <1>4. idle' \in Errands
    <2>1. idle' = idle \/ idle' = [pc |-> "asking", client |-> client, value |-> 0]
      OBVIOUS
    <2>2. [pc |-> "asking", client |-> client, value |-> 0] \in Errands
      BY DEF LinkTypes, Errands
    <2> QED  BY <2>1, <2>2 DEF QueryTypes
  <1>5. SettingTypes' /\ NumbersInv' /\ ModesInv' /\ PluginsInv'
    <2>1. client' \in {client, 0} /\ used'.connections = used.connections
      BY DEF LinkTypes
    <2>2. /\ UNCHANGED <<chosen, actual, setting, installed, loaded, reload>>
          /\ "mode" \in missed => "mode" \in missed'
          /\ "plugins" \in missed => "plugins" \in missed'
      OBVIOUS
    <2> QED  BY <2>1, <2>2, SettingsKept
  <1>6. ConnInv'
    BY DEF ConnInv, LinkTypes, QueryTypes, Queries
  <1>7. HolderInv'
    BY DEF HolderInv, ConnInv, QueryTypes, Queries
  <1>8. ActiveInv'
    BY DEF ActiveInv, ConnInv, QueryTypes, Queries
  <1>9. TimerInv'
    BY DEF TimerInv, ConnInv, LinkTypes, QueryTypes, Queries, Errands
  <1> QED  BY <1>1, <1>2, <1>3, <1>4, <1>5, <1>6, <1>7, <1>8, <1>9 DEF QueryTypes

\* The session is exempt.
LEMMA IdleExemptStep ==
  ASSUME GatewayInv, Link!IdleExempt  PROVE GatewayInv'
  <1> USE ConnectionBound DEF GatewayInv, GatewayTypes, Ways, Reloads, Link!IdleExempt,
      Link!ScheduleIdle, Link!Unset, Link!Link, Link!Settings, Link!Plugins
  <1>1. LinkTypes'
    BY DEF LinkTypes, QueryTypes
  <1>2. run' \in Queries
    BY DEF LinkTypes, QueryTypes, SettingTypes, Queries
  <1>3. side' \in Queries
    BY DEF LinkTypes, QueryTypes, Queries
  <1>4. idle' \in Errands
    BY DEF LinkTypes, QueryTypes, Errands
  <1>5. SettingTypes' /\ NumbersInv' /\ ModesInv' /\ PluginsInv'
    <2>1. client' \in {client, 0} /\ used'.connections = used.connections
      BY DEF LinkTypes
    <2>2. /\ UNCHANGED <<chosen, actual, setting, installed, loaded, reload>>
          /\ "mode" \in missed => "mode" \in missed'
          /\ "plugins" \in missed => "plugins" \in missed'
      OBVIOUS
    <2> QED  BY <2>1, <2>2, SettingsKept
  <1>6. ConnInv'
    BY DEF ConnInv, LinkTypes, QueryTypes, Queries
  <1>7. HolderInv'
    BY DEF HolderInv, ConnInv, QueryTypes, Queries
  <1>8. ActiveInv'
    BY DEF ActiveInv, ConnInv, QueryTypes, Queries
  <1>9. TimerInv'
    BY DEF TimerInv, ConnInv, LinkTypes, QueryTypes, Queries, Errands
  <1> QED  BY <1>1, <1>2, <1>3, <1>4, <1>5, <1>6, <1>7, <1>8, <1>9 DEF QueryTypes

\* It is looked at again.
LEMMA IdleRechecksStep ==
  ASSUME GatewayInv, Link!IdleRechecks  PROVE GatewayInv'
  <1> USE DEF GatewayInv, GatewayTypes, Ways, Reloads
  <1>1. /\ idle.pc = "asking"
        /\ UNCHANGED <<client, active, oplock, run, side, chosen, actual, setting, installed, loaded,
                       reload, used>>
    BY DEF Link!IdleRechecks, Link!Settings, Link!Plugins
  <1>2. CASE active /\ Link!ScheduleIdle /\ idle' = Link!Unset /\ UNCHANGED <<conn, pump, killed>>
    <2>1. /\ client # 0 => timer'
          /\ timer' \in {TRUE, timer} /\ missed' \in {missed, missed \ {"timer"}}
      BY <1>2 DEF Link!ScheduleIdle
    <2>2. LinkTypes' /\ QueryTypes'
      BY <1>1, <1>2, <2>1 DEF LinkTypes, QueryTypes, Errands, Link!Unset
    <2>3. ConnInv' /\ HolderInv' /\ ActiveInv' /\ TimerInv'
      BY <1>1, <1>2, <2>1 DEF ConnInv, HolderInv, ActiveInv, TimerInv
    <2>4. ("mode" \in missed => "mode" \in missed') /\ ("plugins" \in missed => "plugins" \in missed')
      BY <2>1
    <2> QED  BY <1>1, <2>2, <2>3, <2>4, SettingsKept
  <1>3. CASE ~active /\ Link!IdleDisconnects("at once") /\ UNCHANGED <<timer, missed>>
    BY <1>1, <1>3, IdleCloses
  <1>4. CASE /\ idle' = [idle EXCEPT !.pc = "atConn"]
             /\ UNCHANGED <<conn, pump, timer, killed, missed>>
    <2>1. idle' \in Errands /\ idle'.pc = "atConn" /\ idle'.client = idle.client
      BY <1>4 DEF QueryTypes, Errands
    <2>2. LinkTypes' /\ QueryTypes'
      BY <1>1, <1>4, <2>1 DEF LinkTypes, QueryTypes
    <2>3. ConnInv' /\ HolderInv' /\ ActiveInv' /\ TimerInv'
      BY <1>1, <1>4, <2>1 DEF ConnInv, HolderInv, ActiveInv, TimerInv
    <2> QED  BY <1>1, <1>4, <2>2, <2>3, SettingsKept
  <1> QED  BY <1>2, <1>3, <1>4 DEF Link!IdleRechecks

\* The lock is there.
LEMMA IdleGetsLockStep ==
  ASSUME GatewayInv, Link!IdleGetsLock  PROVE GatewayInv'
  BY IdleCloses DEF Link!IdleGetsLock, Link!Settings, Link!Plugins

\* A step of the modes, seen from the rest.
LEMMA ModeFrame ==
  ASSUME GatewayInv, chosen' \in Nat, actual' \in [1 .. MaxConnections -> Nat],
         setting' \in [Ways -> Errands], \A w \in Ways : setting'[w].client <= used.connections,
         used' \in [runs : Nat, connections : Nat, changes : Nat, sides : Nat, disturbances : Nat],
         used'.connections = used.connections,
         "plugins" \in missed => "plugins" \in missed', "timer" \in missed => "timer" \in missed',
         UNCHANGED <<client, pump, active, timer, conn, run, side, idle, installed, loaded, reload,
                     killed>>,
         HolderInv', ModesInv'
  PROVE  GatewayInv'
  <1> USE DEF GatewayInv, GatewayTypes
  <1>1. LinkTypes' /\ QueryTypes' /\ SettingTypes'
    BY DEF LinkTypes, QueryTypes, SettingTypes
  <1>2. NumbersInv'
    BY DEF NumbersInv
  <1>3. ConnInv' /\ ActiveInv' /\ TimerInv'
    BY DEF ConnInv, ActiveInv, TimerInv
  <1>4. PluginsInv'
    BY DEF PluginsInv
  <1> QED  BY <1>1, <1>2, <1>3, <1>4

\* One of the two ways moves.
LEMMA WayMoves ==
  ASSUME SettingTypes, NEW w \in Ways, NEW e \in Errands, setting' = [setting EXCEPT ![w] = e]
  PROVE  /\ setting' \in [Ways -> Errands] /\ setting'[w] = e
         /\ \A u \in Ways \ {w} : setting'[u] = setting[u]
  BY DEF SettingTypes

\* The numbers of connections.
LEMMA KnownConnections ==
  ASSUME GatewayInv
  PROVE  /\ client \in Nat /\ client <= used.connections
         /\ client # 0 => client \in 1 .. MaxConnections
         /\ \A w \in Ways : /\ setting[w] \in Errands /\ setting[w].client \in Nat
                            /\ setting[w].client <= used.connections
         /\ \A w \in Reloads : /\ reload[w] \in Errands /\ reload[w].client \in Nat
                               /\ reload[w].client <= used.connections
         /\ Link!Unset \in Errands /\ Link!Unset.pc = "off" /\ Link!Unset.client = 0
         /\ used.connections \in Nat
  <1> USE DEF GatewayInv, GatewayTypes
  <1>1. client \in Nat /\ used.connections \in Nat
    BY DEF LinkTypes
  <1>2. /\ \A w \in Ways : setting[w] \in Errands /\ setting[w].client \in Nat
        /\ \A w \in Reloads : reload[w] \in Errands /\ reload[w].client \in Nat
    BY DEF SettingTypes, Errands
  <1>3. Link!Unset \in Errands /\ Link!Unset.pc = "off" /\ Link!Unset.client = 0
    BY DEF Errands, Link!Unset
  <1> QED  BY <1>1, <1>2, <1>3, ConnectionBound DEF NumbersInv

\* A mode is chosen.
LEMMA SetModeStep ==
  ASSUME GatewayInv, Link!SetMode  PROVE GatewayInv'
  <1> USE DEF GatewayInv, GatewayTypes
  <1>1. /\ chosen' = chosen + 1
        /\ UNCHANGED <<client, pump, active, timer, oplock, conn, run, side, idle, actual, installed,
                       loaded, reload, killed>>
    BY DEF Link!SetMode, Link!Link, Link!Plugins
  <1>2. /\ used' \in [runs : Nat, connections : Nat, changes : Nat, sides : Nat, disturbances : Nat]
        /\ used'.connections = used.connections
    BY DEF Link!SetMode, Link!Use, LinkTypes
  <1>3. chosen' \in Nat /\ actual' \in [1 .. MaxConnections -> Nat] /\ setting \in [Ways -> Errands]
    BY <1>1 DEF SettingTypes
  <1>4. ASSUME UNCHANGED setting,
               (client = 0 /\ missed' = missed) \/ missed' = missed \cup {"mode"}
        PROVE  GatewayInv'
    <2>1. HolderInv' /\ ModesInv'
      BY <1>1, <1>4 DEF HolderInv, ModesInv
    <2> QED  BY <1>1, <1>2, <1>3, <1>4, <2>1, KnownConnections, ModeFrame
  <1>5. ASSUME NEW w \in Ways, NEW pc \in {"waiting", "atOp"}, client # 0, setting[w].pc = "off",
               setting' = [setting EXCEPT ![w] = [pc |-> pc, client |-> client, value |-> 0]],
               UNCHANGED missed
        PROVE  GatewayInv'
    <2> DEFINE e == [pc |-> pc, client |-> client, value |-> 0]
    <2>1. e \in Errands /\ e.pc = pc /\ e.client = client
      BY KnownConnections DEF Errands
    <2> HIDE DEF e
    <2>2. /\ setting' \in [Ways -> Errands] /\ setting'[w] = e
          /\ \A u \in Ways \ {w} : setting'[u] = setting[u]
      BY <1>5, <2>1, WayMoves DEF e
    <2>3. HolderInv'
      BY <1>1, <1>5, <2>1, <2>2 DEF HolderInv
    <2>4. ModesInv'
      BY <1>1, <1>5, <2>1, <2>2 DEF ModesInv
    <2>5. \A u \in Ways : setting'[u].client <= used.connections
      BY <2>1, <2>2, KnownConnections
    <2> QED  BY <1>1, <1>2, <1>3, <1>5, <2>2, <2>3, <2>4, <2>5, ModeFrame
  <1> QED  BY <1>4, <1>5 DEF Link!SetMode, Ways

\* The pending task looks.
LEMMA ModeTaskWakesStep ==
  ASSUME GatewayInv, Link!ModeTaskWakes  PROVE GatewayInv'
  <1> USE DEF GatewayInv, GatewayTypes
  <1>1. /\ setting["task"].pc = "waiting"
        /\ UNCHANGED <<client, pump, active, timer, oplock, conn, run, side, idle, chosen, actual,
                       installed, loaded, reload, used, killed, missed>>
    BY DEF Link!ModeTaskWakes, Link!Link, Link!Plugins
  <1>2. /\ "task" \in Ways /\ chosen \in Nat /\ actual \in [1 .. MaxConnections -> Nat]
        /\ used \in [runs : Nat, connections : Nat, changes : Nat, sides : Nat, disturbances : Nat]
    BY DEF Ways, SettingTypes, LinkTypes
  <1>3. PICK e \in Errands : /\ setting' = [setting EXCEPT !["task"] = e]
                            /\ \/ e = Link!Unset /\ client # setting["task"].client
                               \/ e.pc = "atOp" /\ e.client = setting["task"].client
    <2>1. CASE client # setting["task"].client /\ setting' = [setting EXCEPT !["task"] = Link!Unset]
      BY <2>1, KnownConnections
    <2>2. CASE setting' = [setting EXCEPT !["task"].pc = "atOp"]
      <3>1. [setting["task"] EXCEPT !.pc = "atOp"] \in Errands
        BY <1>2, KnownConnections DEF Errands
      <3>2. [setting["task"] EXCEPT !.pc = "atOp"].pc = "atOp"
        BY <1>2, KnownConnections DEF Errands
      <3>3. [setting["task"] EXCEPT !.pc = "atOp"].client = setting["task"].client
        BY <1>2, KnownConnections DEF Errands
      <3>4. setting' = [setting EXCEPT !["task"] = [setting["task"] EXCEPT !.pc = "atOp"]]
        BY <2>2
      <3> QED  BY <3>1, <3>2, <3>3, <3>4
    <2> QED  BY <2>1, <2>2 DEF Link!ModeTaskWakes
  <1>4. /\ setting' \in [Ways -> Errands] /\ setting'["task"] = e
        /\ \A u \in Ways \ {"task"} : setting'[u] = setting[u]
    BY <1>2, <1>3, WayMoves
  <1>5. HolderInv'
    BY <1>1, <1>2, <1>3, <1>4, KnownConnections DEF HolderInv
  <1>6. ModesInv'
    BY <1>1, <1>2, <1>3, <1>4, KnownConnections DEF ModesInv
  <1>7. \A u \in Ways : setting'[u].client <= used.connections
    BY <1>2, <1>3, <1>4, KnownConnections
  <1> QED  BY <1>1, <1>2, <1>4, <1>5, <1>6, <1>7, ModeFrame

\* The mode is sent.
LEMMA ModeStartsStep ==
  ASSUME GatewayInv, NEW w \in Ways, Link!ModeStarts(w)  PROVE GatewayInv'
  <1> USE DEF GatewayInv, GatewayTypes
  <1>1. /\ setting[w].pc = "atOp" /\ oplock = "nobody"
        /\ UNCHANGED <<client, pump, active, timer, conn, run, side, idle, chosen, actual, installed,
                       loaded, reload, used, killed, missed>>
    BY DEF Link!ModeStarts, Link!Link, Link!Plugins
  <1>2. /\ chosen \in Nat /\ actual \in [1 .. MaxConnections -> Nat]
        /\ used \in [runs : Nat, connections : Nat, changes : Nat, sides : Nat, disturbances : Nat]
    BY DEF SettingTypes, LinkTypes
  <1>3. PICK e \in Errands :
          /\ setting' = [setting EXCEPT ![w] = e]
          /\ \/ e = Link!Unset /\ client # setting[w].client /\ oplock' = "nobody"
             \/ e.pc = "sending" /\ e.client = client /\ e.value = chosen /\ oplock' = w
    <2>1. CASE client = setting[w].client
      <3> DEFINE e == [setting[w] EXCEPT !.pc = "sending", !.value = chosen]
      <3>1. e \in Errands
        BY <1>2, KnownConnections DEF Errands
      <3>2. e.pc = "sending" /\ e.client = client /\ e.value = chosen
        BY <2>1, KnownConnections DEF Errands
      <3>3. /\ oplock' = w
            /\ setting' = [setting EXCEPT ![w].pc = "sending", ![w].value = chosen]
        BY <2>1 DEF Link!ModeStarts
      <3>4. setting' = [setting EXCEPT ![w] = e]
        BY <3>3 DEF SettingTypes, Errands
      <3> QED  BY <3>1, <3>2, <3>3, <3>4
    <2>2. CASE client # setting[w].client
      BY <1>1, <2>2, KnownConnections DEF Link!ModeStarts
    <2> QED  BY <2>1, <2>2
  <1>4. /\ setting' \in [Ways -> Errands] /\ setting'[w] = e
        /\ \A u \in Ways \ {w} : setting'[u] = setting[u]
    BY <1>3, WayMoves
  <1>5. HolderInv'
    BY <1>1, <1>3, <1>4, KnownConnections DEF HolderInv, Ways, Reloads
  <1>6. ModesInv'
    <2>1. \A u \in Ways : setting[u].pc # "sending"
      BY <1>1 DEF HolderInv, Ways
    <2> QED  BY <1>1, <1>3, <1>4, <2>1, KnownConnections DEF ModesInv
  <1>7. \A u \in Ways : setting'[u].client <= used.connections
    BY <1>1, <1>3, <1>4, KnownConnections
  <1> QED  BY <1>1, <1>2, <1>4, <1>5, <1>6, <1>7, ModeFrame

\* The process has it.
LEMMA ModeAppliedStep ==
  ASSUME GatewayInv, NEW w \in Ways, Link!ModeApplied(w)  PROVE GatewayInv'
  <1> USE DEF GatewayInv, GatewayTypes
  <1>1. /\ setting[w].pc = "sending" /\ oplock' = "nobody"
        /\ actual' = [actual EXCEPT ![setting[w].client] = setting[w].value]
        /\ missed' = IF setting[w].client = client /\ setting[w].value = chosen
                     THEN missed \ {"mode"} ELSE missed
        /\ setting' = [setting EXCEPT ![w] = Link!Unset]
        /\ UNCHANGED <<client, pump, active, timer, conn, run, side, idle, chosen, installed, loaded,
                       reload, used, killed>>
    BY DEF Link!ModeApplied, Link!Link, Link!Plugins
  <1>2. /\ chosen \in Nat /\ setting[w].value \in Nat /\ actual \in [1 .. MaxConnections -> Nat]
        /\ used \in [runs : Nat, connections : Nat, changes : Nat, sides : Nat, disturbances : Nat]
    BY DEF SettingTypes, Errands, LinkTypes
  <1>3. /\ actual' \in [1 .. MaxConnections -> Nat]
        /\ client # 0 => actual'[client] =
             IF client = setting[w].client THEN setting[w].value ELSE actual[client]
    BY <1>1, <1>2, KnownConnections
  <1>4. /\ setting' \in [Ways -> Errands] /\ setting'[w] = Link!Unset
        /\ \A u \in Ways \ {w} : setting'[u] = setting[u]
    BY <1>1, KnownConnections, WayMoves
  <1>5. \A u \in Ways \ {w} : setting[u].pc # "sending"
    BY <1>1 DEF HolderInv, Ways
  <1>6. HolderInv'
    BY <1>1, <1>4, <1>5, KnownConnections DEF HolderInv, Ways, Reloads
  <1>7. ModesInv'
    <2> SUFFICES ASSUME client # 0, \A u \in Ways : setting'[u].pc # "off" => setting'[u].client # client
        PROVE  actual'[client] = chosen \/ "mode" \in missed'
      BY <1>1, <1>4, <1>5, KnownConnections DEF ModesInv
    <2>1. CASE client = setting[w].client
      BY <1>1, <1>3, <1>4, <2>1 DEF ModesInv
    <2>2. CASE client # setting[w].client
      BY <1>1, <1>3, <1>4, <2>2 DEF ModesInv
    <2> QED  BY <2>1, <2>2
  <1>8. \A u \in Ways : setting'[u].client <= used.connections
    BY <1>4, KnownConnections
  <1>9. ("plugins" \in missed => "plugins" \in missed') /\ ("timer" \in missed => "timer" \in missed')
    BY <1>1
  <1> QED  BY <1>1, <1>2, <1>3, <1>4, <1>6, <1>7, <1>8, <1>9, ModeFrame

\* The request fails.
LEMMA ModeFailsStep ==
  ASSUME GatewayInv, NEW w \in Ways, Link!ModeFails(w)  PROVE GatewayInv'
  <1> USE DEF GatewayInv, GatewayTypes
  <1>1. /\ setting[w].pc = "sending" /\ oplock' = "nobody"
        /\ UNCHANGED <<client, pump, active, timer, conn, run, side, idle, chosen, actual, installed,
                       loaded, reload, killed>>
    BY DEF Link!ModeFails, Link!Link, Link!Plugins
  <1>2. /\ chosen \in Nat /\ actual \in [1 .. MaxConnections -> Nat]
        /\ used' \in [runs : Nat, connections : Nat, changes : Nat, sides : Nat, disturbances : Nat]
        /\ used'.connections = used.connections
    BY DEF Link!ModeFails, Link!Fault, Link!Use, SettingTypes, LinkTypes
  <1>3. \A u \in Ways \ {w} : setting[u].pc # "sending"
    BY <1>1 DEF HolderInv, Ways
  <1>4. CASE /\ w = "direct" /\ setting["task"].pc = "off"
             /\ setting' = [setting EXCEPT !["direct"] = Link!Unset,
                   !["task"] = [pc |-> "waiting", client |-> setting[w].client, value |-> 0]]
             /\ UNCHANGED missed
    <2> DEFINE e == [pc |-> "waiting", client |-> setting[w].client, value |-> 0]
    <2>1. e \in Errands /\ e.pc = "waiting" /\ e.client = setting[w].client
      BY KnownConnections DEF Errands
    <2>2. setting' = [setting EXCEPT !["direct"] = Link!Unset, !["task"] = e]
      BY <1>4
    <2> HIDE DEF e
    <2>3. /\ setting' \in [Ways -> Errands]
          /\ setting'["direct"] = Link!Unset /\ setting'["task"] = e
      BY <2>1, <2>2, KnownConnections DEF SettingTypes, Ways
    <2>4. HolderInv'
      BY <1>1, <1>3, <1>4, <2>1, <2>3, KnownConnections DEF HolderInv, Ways, Reloads
    <2>5. ModesInv'
      BY <1>1, <1>3, <1>4, <2>1, <2>3, KnownConnections DEF ModesInv, Ways
    <2>6. \A u \in Ways : setting'[u].client <= used.connections
      BY <2>1, <2>3, KnownConnections DEF Ways
    <2> QED  BY <1>1, <1>2, <1>4, <2>3, <2>4, <2>5, <2>6, ModeFrame
  <1>5. CASE setting' = [setting EXCEPT ![w] = Link!Unset] /\ missed' = missed \cup {"mode"}
    <2>1. /\ setting' \in [Ways -> Errands] /\ setting'[w] = Link!Unset
          /\ \A u \in Ways \ {w} : setting'[u] = setting[u]
      BY <1>5, KnownConnections, WayMoves
    <2>2. HolderInv' /\ ModesInv'
      BY <1>1, <1>3, <1>5, <2>1, KnownConnections DEF HolderInv, ModesInv, Ways, Reloads
    <2>3. \A u \in Ways : setting'[u].client <= used.connections
      BY <2>1, KnownConnections
    <2> QED  BY <1>1, <1>2, <1>5, <2>1, <2>2, <2>3, ModeFrame
  <1> QED  BY <1>4, <1>5 DEF Link!ModeFails

\* A step of the plugins, seen from the rest.
LEMMA ReloadFrame ==
  ASSUME GatewayInv, installed' \in Nat, loaded' \in [1 .. MaxConnections -> Nat],
         reload' \in [Reloads -> Errands], \A w \in Reloads : reload'[w].client <= used.connections,
         used'.connections = used.connections, "mode" \in missed => "mode" \in missed',
         UNCHANGED <<client, run, side, idle, chosen, actual, setting>>,
         LinkTypes', ConnInv', HolderInv', ActiveInv', TimerInv', PluginsInv'
  PROVE  GatewayInv'
  <1> USE DEF GatewayInv, GatewayTypes
  <1>1. QueryTypes' /\ SettingTypes'
    BY DEF QueryTypes, SettingTypes
  <1>2. NumbersInv'
    BY DEF NumbersInv
  <1>3. ModesInv'
    BY DEF ModesInv
  <1> QED  BY <1>1, <1>2, <1>3

\* The same, where nobody takes _client_lock.
LEMMA ReloadStays ==
  ASSUME GatewayInv, installed' \in Nat, loaded' \in [1 .. MaxConnections -> Nat],
         reload' \in [Reloads -> Errands], \A w \in Reloads : reload'[w].client <= used.connections,
         \A w \in Reloads : conn.by = w => reload'[w].pc = "closing",
         used' \in [runs : Nat, connections : Nat, changes : Nat, sides : Nat, disturbances : Nat],
         used'.connections = used.connections, "mode" \in missed => "mode" \in missed',
         \/ timer' = timer /\ ("timer" \in missed => "timer" \in missed')
         \/ timer' = FALSE /\ "timer" \in missed',
         UNCHANGED <<client, pump, active, conn, run, side, idle, chosen, actual, setting, killed>>,
         HolderInv', PluginsInv'
  PROVE  GatewayInv'
  <1>1. LinkTypes' /\ ConnInv' /\ ActiveInv' /\ TimerInv'
    BY DEF GatewayInv, GatewayTypes, LinkTypes, ConnInv, ActiveInv, TimerInv
  <1> QED  BY <1>1, ReloadFrame

\* One of the two reloads moves.
LEMMA ReloadMoves ==
  ASSUME NEW tasks \in [Reloads -> Errands], NEW w \in Reloads, NEW e \in Errands,
         reload' = [tasks EXCEPT ![w] = e]
  PROVE  /\ reload' \in [Reloads -> Errands] /\ reload'[w] = e
         /\ \A u \in Reloads \ {w} : reload'[u] = tasks[u]
  OBVIOUS

\* _schedule_plugin_reload starts the task or leaves the reload to the one there is.
LEMMA ScheduledMeans ==
  ASSUME NEW tasks \in [Reloads -> Errands], NEW c \in Nat, Link!Scheduled(tasks, c)
  PROVE  /\ reload' \in [Reloads -> Errands] /\ reload'["now"] = tasks["now"]
         /\ \/ /\ tasks["later"].pc = "off" /\ missed' = missed
               /\ reload'["later"].pc = "waiting" /\ reload'["later"].client = c
            \/ /\ tasks["later"].pc # "off" /\ missed' = missed \cup {"plugins"}
               /\ reload'["later"] = tasks["later"]
  <1>1. CASE tasks["later"].pc = "off"
    <2> DEFINE e == [pc |-> "waiting", client |-> c, value |-> 0]
    <2>1. e \in Errands /\ e.pc = "waiting" /\ e.client = c
      BY DEF Errands
    <2>2. reload' = [tasks EXCEPT !["later"] = e] /\ missed' = missed
      BY <1>1 DEF Link!Scheduled
    <2> HIDE DEF e
    <2>3. "now" \in Reloads \ {"later"} /\ "later" \in Reloads
      BY DEF Reloads
    <2> QED  BY <1>1, <2>1, <2>2, <2>3, ReloadMoves
  <1>2. CASE tasks["later"].pc # "off"
    BY <1>2 DEF Link!Scheduled
  <1> QED  BY <1>1, <1>2

\* A plugin is installed.
LEMMA InstallStep ==
  ASSUME GatewayInv, Link!Install  PROVE GatewayInv'
  <1> USE DEF GatewayInv, GatewayTypes
  <1>1. /\ installed' = installed + 1
        /\ UNCHANGED <<client, pump, active, timer, oplock, conn, run, side, idle, chosen, actual,
                       setting, loaded, killed>>
    BY DEF Link!Install, Link!Link, Link!Settings
  <1>2. /\ used' \in [runs : Nat, connections : Nat, changes : Nat, sides : Nat, disturbances : Nat]
        /\ used'.connections = used.connections
    BY DEF Link!Install, Link!Use, LinkTypes
  <1>3. installed' \in Nat /\ loaded' \in [1 .. MaxConnections -> Nat] /\ reload \in [Reloads -> Errands]
    BY <1>1 DEF SettingTypes
  <1>4. CASE client = 0 /\ UNCHANGED <<reload, missed>>
    <2>1. HolderInv' /\ PluginsInv'
      BY <1>1, <1>4 DEF HolderInv, PluginsInv
    <2>2. \A w \in Reloads : conn.by = w => reload'[w].pc = "closing"
      BY <1>4 DEF ConnInv
    <2> QED  BY <1>1, <1>2, <1>3, <1>4, <2>1, <2>2, KnownConnections, ReloadStays
  <1>5. CASE client # 0 /\ Link!Scheduled(reload, client)
    <2>1. /\ reload' \in [Reloads -> Errands] /\ reload'["now"] = reload["now"]
          /\ \/ /\ reload["later"].pc = "off" /\ missed' = missed
                /\ reload'["later"].pc = "waiting" /\ reload'["later"].client = client
             \/ /\ reload["later"].pc # "off" /\ missed' = missed \cup {"plugins"}
                /\ reload'["later"] = reload["later"]
      BY <1>3, <1>5, KnownConnections, ScheduledMeans
    <2>2. HolderInv'
      BY <1>1, <2>1 DEF HolderInv, Reloads
    <2>3. PluginsInv'
      BY <1>1, <2>1 DEF PluginsInv, Reloads
    <2>4. \A w \in Reloads : conn.by = w => reload'[w].pc = "closing"
      BY <2>1 DEF ConnInv, Reloads
    <2>5. \A w \in Reloads : reload'[w].client <= used.connections
      BY <2>1, KnownConnections DEF Reloads
    <2>6. ("mode" \in missed => "mode" \in missed') /\ ("timer" \in missed => "timer" \in missed')
      BY <2>1
    <2> QED  BY <1>1, <1>2, <1>3, <2>1, <2>2, <2>3, <2>4, <2>5, <2>6, ReloadStays
  <1>6. CASE /\ client # 0 /\ reload["now"].pc = "off" /\ UNCHANGED missed
             /\ reload' = [reload EXCEPT !["now"] = [pc |-> "atOp", client |-> client, value |-> 0]]
    <2> DEFINE e == [pc |-> "atOp", client |-> client, value |-> 0]
    <2>1. e \in Errands /\ e.pc = "atOp" /\ e.client = client
      BY KnownConnections DEF Errands
    <2>2. reload' = [reload EXCEPT !["now"] = e] /\ "now" \in Reloads
      BY <1>6 DEF Reloads
    <2> HIDE DEF e
    <2>3. /\ reload' \in [Reloads -> Errands] /\ reload'["now"] = e
          /\ \A u \in Reloads \ {"now"} : reload'[u] = reload[u]
      BY <1>3, <2>1, <2>2, ReloadMoves
    <2>4. HolderInv'
      BY <1>1, <1>6, <2>1, <2>3 DEF HolderInv, Reloads
    <2>5. PluginsInv'
      BY <1>1, <1>6, <2>1, <2>3 DEF PluginsInv, Reloads
    <2>6. \A w \in Reloads : conn.by = w => reload'[w].pc = "closing"
      BY <1>6, <2>3 DEF ConnInv, Reloads
    <2>7. \A w \in Reloads : reload'[w].client <= used.connections
      BY <2>1, <2>3, KnownConnections DEF Reloads
    <2> QED  BY <1>1, <1>2, <1>3, <1>6, <2>3, <2>4, <2>5, <2>6, <2>7, ReloadStays
  <1> QED  BY <1>4, <1>5, <1>6 DEF Link!Install

\* The pending task looks.
LEMMA ReloadWakesStep ==
  ASSUME GatewayInv, Link!ReloadWakes  PROVE GatewayInv'
  <1> USE DEF GatewayInv, GatewayTypes
  <1>1. /\ reload["later"].pc = "waiting"
        /\ UNCHANGED <<client, pump, active, timer, oplock, conn, run, side, idle, chosen, actual,
                       setting, installed, loaded, used, killed, missed>>
    BY DEF Link!ReloadWakes, Link!Link, Link!Settings
  <1>2. /\ "later" \in Reloads /\ installed \in Nat /\ loaded \in [1 .. MaxConnections -> Nat]
        /\ reload \in [Reloads -> Errands]
        /\ used \in [runs : Nat, connections : Nat, changes : Nat, sides : Nat, disturbances : Nat]
    BY DEF Reloads, SettingTypes, LinkTypes
  <1>3. PICK e \in Errands : /\ reload' = [reload EXCEPT !["later"] = e]
                            /\ \/ e = Link!Unset /\ client # reload["later"].client
                               \/ e.pc = "atOp" /\ e.client = reload["later"].client
    <2>1. CASE client # reload["later"].client /\ reload' = [reload EXCEPT !["later"] = Link!Unset]
      BY <2>1, KnownConnections
    <2>2. CASE reload' = [reload EXCEPT !["later"].pc = "atOp"]
      <3>1. [reload["later"] EXCEPT !.pc = "atOp"] \in Errands
        BY <1>2, KnownConnections DEF Errands
      <3>2. [reload["later"] EXCEPT !.pc = "atOp"].pc = "atOp"
        BY <1>2, KnownConnections DEF Errands
      <3>3. [reload["later"] EXCEPT !.pc = "atOp"].client = reload["later"].client
        BY <1>2, KnownConnections DEF Errands
      <3>4. reload' = [reload EXCEPT !["later"] = [reload["later"] EXCEPT !.pc = "atOp"]]
        BY <2>2
      <3> QED  BY <3>1, <3>2, <3>3, <3>4
    <2> QED  BY <2>1, <2>2 DEF Link!ReloadWakes
  <1>4. /\ reload' \in [Reloads -> Errands] /\ reload'["later"] = e
        /\ \A u \in Reloads \ {"later"} : reload'[u] = reload[u]
    BY <1>2, <1>3, ReloadMoves
  <1>5. HolderInv'
    BY <1>1, <1>2, <1>3, <1>4, KnownConnections DEF HolderInv
  <1>6. PluginsInv'
    BY <1>1, <1>2, <1>3, <1>4, KnownConnections DEF PluginsInv
  <1>7. \A u \in Reloads : reload'[u].client <= used.connections
    BY <1>2, <1>3, <1>4, KnownConnections
  <1>8. \A u \in Reloads : conn.by = u => reload'[u].pc = "closing"
    BY <1>1, <1>2, <1>4 DEF ConnInv
  <1> QED  BY <1>1, <1>2, <1>4, <1>5, <1>6, <1>7, <1>8, ReloadStays

\* The reload is sent, or left to the task.
LEMMA ReloadStartsStep ==
  ASSUME GatewayInv, NEW w \in Reloads, Link!ReloadStarts(w)  PROVE GatewayInv'
  <1> USE DEF GatewayInv, GatewayTypes
  <1>1. /\ reload[w].pc = "atOp"
        /\ UNCHANGED <<client, pump, active, timer, conn, run, side, idle, chosen, actual, setting,
                       installed, loaded, used, killed>>
    BY DEF Link!ReloadStarts, Link!Link, Link!Settings
  <1>2. /\ installed \in Nat /\ loaded \in [1 .. MaxConnections -> Nat]
        /\ reload \in [Reloads -> Errands]
        /\ used \in [runs : Nat, connections : Nat, changes : Nat, sides : Nat, disturbances : Nat]
    BY DEF SettingTypes, LinkTypes
  <1>3. ASSUME NEW e \in Errands, reload' = [reload EXCEPT ![w] = e], UNCHANGED missed,
               \/ e = Link!Unset /\ client # reload[w].client /\ oplock' = oplock
               \/ e.pc = "waiting" /\ e.client = reload[w].client /\ oplock' = oplock
               \/ /\ e.pc = "sending" /\ e.client = client /\ e.value = installed
                  /\ oplock = "nobody" /\ oplock' = w
        PROVE  GatewayInv'
    <2>1. /\ reload' \in [Reloads -> Errands] /\ reload'[w] = e
          /\ \A u \in Reloads \ {w} : reload'[u] = reload[u]
      BY <1>2, <1>3, ReloadMoves
    <2>2. HolderInv'
      BY <1>1, <1>3, <2>1, KnownConnections DEF HolderInv, Ways, Reloads
    <2>3. PluginsInv'
      <3>1. oplock = "nobody" => \A u \in Reloads : reload[u].pc # "sending"
        BY DEF HolderInv, Reloads
      <3> QED  BY <1>1, <1>3, <2>1, <3>1, KnownConnections DEF PluginsInv
    <2>4. \A u \in Reloads : conn.by = u => reload'[u].pc = "closing"
      BY <1>1, <2>1 DEF ConnInv
    <2>5. \A u \in Reloads : reload'[u].client <= used.connections
      BY <1>1, <1>3, <2>1, KnownConnections
    <2> QED  BY <1>1, <1>2, <1>3, <2>1, <2>2, <2>3, <2>4, <2>5, ReloadStays
  <1>4. CASE /\ oplock = "nobody" /\ client = reload[w].client /\ oplock' = w /\ UNCHANGED missed
             /\ reload' = [reload EXCEPT ![w].pc = "sending", ![w].value = installed]
    <2> DEFINE e == [reload[w] EXCEPT !.pc = "sending", !.value = installed]
    <2>1. e \in Errands
      BY <1>2, KnownConnections DEF Errands
    <2>2. e.pc = "sending" /\ e.client = client /\ e.value = installed
      BY <1>4, KnownConnections DEF Errands
    <2>3. reload' = [reload EXCEPT ![w] = e]
      BY <1>4 DEF SettingTypes, Errands
    <2> HIDE DEF e
    <2> QED  BY <1>3, <1>4, <2>1, <2>2, <2>3
  <1>5. CASE /\ oplock = "nobody" /\ client # reload[w].client /\ UNCHANGED <<oplock, missed>>
             /\ reload' = [reload EXCEPT ![w] = Link!Unset]
    BY <1>3, <1>5, KnownConnections
  <1>6. CASE /\ oplock # "nobody" /\ w = "now" /\ UNCHANGED oplock
             /\ Link!Scheduled([reload EXCEPT !["now"] = Link!Unset], reload[w].client)
    <2> DEFINE tasks == [reload EXCEPT !["now"] = Link!Unset]
    <2>1. /\ tasks \in [Reloads -> Errands] /\ tasks["now"] = Link!Unset
          /\ tasks["later"] = reload["later"] /\ reload[w].client \in Nat
      BY <1>2, KnownConnections DEF Reloads
    <2>2. Link!Scheduled(tasks, reload[w].client)
      BY <1>6
    <2> HIDE DEF tasks
    <2>3. /\ reload' \in [Reloads -> Errands] /\ reload'["now"] = Link!Unset
          /\ \/ /\ reload["later"].pc = "off" /\ missed' = missed
                /\ reload'["later"].pc = "waiting" /\ reload'["later"].client = reload[w].client
             \/ /\ reload["later"].pc # "off" /\ missed' = missed \cup {"plugins"}
                /\ reload'["later"] = reload["later"]
      BY <2>1, <2>2, ScheduledMeans
    <2>4. HolderInv'
      BY <1>1, <1>6, <2>3, KnownConnections DEF HolderInv, Reloads
    <2>5. PluginsInv'
      BY <1>1, <1>6, <2>3, KnownConnections DEF PluginsInv, Reloads
    <2>6. \A u \in Reloads : conn.by = u => reload'[u].pc = "closing"
      BY <1>1, <1>6, <2>3 DEF ConnInv, Reloads
    <2>7. \A u \in Reloads : reload'[u].client <= used.connections
      BY <1>1, <2>3, KnownConnections DEF Reloads
    <2>8. ("mode" \in missed => "mode" \in missed') /\ ("timer" \in missed => "timer" \in missed')
      BY <2>3
    <2> QED  BY <1>1, <1>2, <2>3, <2>4, <2>5, <2>6, <2>7, <2>8, ReloadStays
  <1>7. CASE /\ w # "now" /\ UNCHANGED <<oplock, missed>>
             /\ reload' = [reload EXCEPT !["later"].pc = "waiting"]
    <2> DEFINE e == [reload[w] EXCEPT !.pc = "waiting"]
    <2>1. e \in Errands
      BY <1>2, KnownConnections DEF Errands
    <2>2. e.pc = "waiting" /\ e.client = reload[w].client
      BY <1>2, KnownConnections DEF Errands
    <2>3. reload' = [reload EXCEPT ![w] = e]
      BY <1>7 DEF Reloads
    <2> HIDE DEF e
    <2> QED  BY <1>3, <1>7, <2>1, <2>2, <2>3
  <1> QED  BY <1>4, <1>5, <1>6, <1>7 DEF Link!ReloadStarts

\* The process has the plugins, of when it was asked or of now.
LEMMA ReloadedStep ==
  ASSUME GatewayInv, NEW w \in Reloads, Link!Reloaded(w)  PROVE GatewayInv'
  <1> USE DEF GatewayInv, GatewayTypes
  <1>1. /\ reload[w].pc = "sending" /\ oplock' = "nobody" /\ timer' = FALSE
        /\ reload' = [reload EXCEPT ![w] = Link!Unset]
        /\ UNCHANGED <<client, pump, active, conn, run, side, idle, chosen, actual, setting, installed,
                       used, killed>>
    BY DEF Link!Reloaded, Link!Link, Link!Settings
  <1>2. PICK v \in {reload[w].value, installed} :
          /\ loaded' = [loaded EXCEPT ![reload[w].client] = v]
          /\ missed' = (IF reload[w].client = client /\ v = installed
                        THEN missed \ {"plugins"} ELSE missed) \cup {"timer"}
    BY DEF Link!Reloaded
  <1>3. /\ installed \in Nat /\ v \in Nat /\ loaded \in [1 .. MaxConnections -> Nat]
        /\ reload \in [Reloads -> Errands]
        /\ used \in [runs : Nat, connections : Nat, changes : Nat, sides : Nat, disturbances : Nat]
    BY DEF SettingTypes, Errands, LinkTypes
  <1>4. /\ loaded' \in [1 .. MaxConnections -> Nat]
        /\ client # 0 => loaded'[client] = IF client = reload[w].client THEN v ELSE loaded[client]
    BY <1>2, <1>3, KnownConnections
  <1>5. /\ reload' \in [Reloads -> Errands] /\ reload'[w] = Link!Unset
        /\ \A u \in Reloads \ {w} : reload'[u] = reload[u]
    BY <1>1, <1>3, KnownConnections, ReloadMoves
  <1>6. \A u \in Reloads \ {w} : reload[u].pc # "sending"
    BY <1>1 DEF HolderInv, Reloads
  <1>7. HolderInv'
    BY <1>1, <1>5, <1>6, KnownConnections DEF HolderInv, Ways, Reloads
  <1>8. PluginsInv'
    <2> SUFFICES ASSUME client # 0, \A u \in Reloads : reload'[u].pc # "off" => reload'[u].client # client
        PROVE  loaded'[client] = installed \/ "plugins" \in missed'
      BY <1>1, <1>5, <1>6, KnownConnections DEF PluginsInv
    <2>1. CASE client = reload[w].client
      BY <1>1, <1>2, <1>4, <1>5, <2>1 DEF PluginsInv
    <2>2. CASE client # reload[w].client
      BY <1>1, <1>2, <1>4, <1>5, <2>2 DEF PluginsInv
    <2> QED  BY <2>1, <2>2
  <1>9. \A u \in Reloads : reload'[u].client <= used.connections
    BY <1>5, KnownConnections
  <1>10. ("mode" \in missed => "mode" \in missed') /\ "timer" \in missed'
    BY <1>2
  <1>11. \A u \in Reloads : conn.by = u => reload'[u].pc = "closing"
    BY <1>1, <1>5 DEF ConnInv
  <1> QED  BY <1>1, <1>3, <1>4, <1>5, <1>7, <1>8, <1>9, <1>10, <1>11, ReloadStays

\* A reload that failed closes the connection, of which there is no run if it
\* does so at once.
LEMMA ReloadCloses ==
  ASSUME GatewayInv, NEW w \in Reloads, NEW how, how = "at once" => ~active,
         Link!ReloadDisconnects(w, how), reload[w].pc \in {"sending", "atConn"},
         \/ reload[w].pc = "sending" /\ oplock' = "nobody"
         \/ reload[w].pc = "atConn" /\ oplock' = oplock,
         used' \in [runs : Nat, connections : Nat, changes : Nat, sides : Nat, disturbances : Nat],
         used'.connections = used.connections,
         UNCHANGED <<client, active, timer, run, side, idle, chosen, actual, setting, installed,
                     loaded, missed>>
  PROVE  GatewayInv'
  <1> USE DEF GatewayInv, GatewayTypes
  <1>1. /\ installed \in Nat /\ loaded \in [1 .. MaxConnections -> Nat]
        /\ reload \in [Reloads -> Errands]
    BY DEF SettingTypes
  <1>2. /\ conn.by = "nobody" /\ pump' = 0
        /\ conn' = [by |-> w, step |-> "closing", next |-> "release"]
        /\ killed' = IF Link!InStream THEN killed \cup {how} ELSE killed
        /\ reload' = [reload EXCEPT ![w].pc = "closing"]
    BY DEF Link!ReloadDisconnects, Link!TakeConn, Link!Hit
  <1>3. /\ conn'.by = w /\ conn'.step = "closing" /\ conn'.next = "release"
        /\ conn' \in [by : {"nobody", "elsewhere", "run", "user", "idle", "now", "later"},
                      step : {"none", "closing", "ending", "opening"},
                      next : {"none", "release", "open"}]
    BY <1>2 DEF Reloads
  <1> DEFINE e == [reload[w] EXCEPT !.pc = "closing"]
  <1>4. e \in Errands /\ e.pc = "closing" /\ e.client = reload[w].client
    BY <1>1, KnownConnections DEF Errands
  <1>5. reload' = [reload EXCEPT ![w] = e]
    BY <1>2
  <1> HIDE DEF e
  <1>6. /\ reload' \in [Reloads -> Errands] /\ reload'[w] = e
        /\ \A u \in Reloads \ {w} : reload'[u] = reload[u]
    BY <1>1, <1>4, <1>5, ReloadMoves
  <1>7. LinkTypes'
    BY <1>2, <1>3 DEF LinkTypes
  <1>8. ConnInv'
    BY <1>2, <1>3, <1>4, <1>6 DEF ConnInv, Reloads
  <1>9. HolderInv'
    BY <1>4, <1>6 DEF HolderInv, Ways, Reloads
  <1>10. ActiveInv'
    <2>1. ~active => ~Link!InStream
      BY DEF ActiveInv, Link!InStream
    <2>2. "at once" \notin killed'
      BY <1>2, <2>1 DEF ActiveInv
    <2> QED  BY <2>2 DEF ActiveInv
  <1>11. TimerInv'
    BY <1>3 DEF TimerInv
  <1>12. PluginsInv'
    <2>1. \A u \in Reloads :
            /\ reload'[u].client = reload[u].client
            /\ reload'[u].pc # "off" <=> reload[u].pc # "off"
            /\ reload'[u].pc = "sending" => reload'[u] = reload[u]
      BY <1>4, <1>6
    <2>2. client' = client /\ loaded' = loaded /\ installed' = installed /\ missed' = missed
      OBVIOUS
    <2>3. PluginsInv
      OBVIOUS
    <2>4. SUFFICES ASSUME client # 0  PROVE PluginsInv'
      BY <2>2 DEF PluginsInv
    <2>5. (\A u \in Reloads : reload'[u].pc # "off" => reload'[u].client # client) =>
             loaded[client] = installed \/ "plugins" \in missed
      <3>1. (\A u \in Reloads : reload[u].pc # "off" => reload[u].client # client) =>
               loaded[client] = installed \/ "plugins" \in missed
        BY <2>3, <2>4 DEF PluginsInv
      <3> QED  BY <2>1, <3>1
    <2>6. ASSUME NEW u \in Reloads, reload'[u].pc = "sending" /\ reload'[u].client = client
          PROVE  \/ reload'[u].value = installed \/ "plugins" \in missed
                 \/ \E v \in Reloads \ {u} : reload'[v].pc # "off" /\ reload'[v].client = client
      <3>1. reload'[u] = reload[u]
        BY <2>1, <2>6
      <3>2. \/ reload[u].value = installed \/ "plugins" \in missed
            \/ \E v \in Reloads \ {u} : reload[v].pc # "off" /\ reload[v].client = client
        BY <2>3, <2>4, <2>6, <3>1 DEF PluginsInv
      <3> QED  BY <2>1, <3>1, <3>2
    <2> QED  BY <2>2, <2>5, <2>6 DEF PluginsInv
  <1>13. \A u \in Reloads : reload'[u].client <= used.connections
    BY <1>4, <1>6, KnownConnections
  <1> QED  BY <1>1, <1>6, <1>7, <1>8, <1>9, <1>10, <1>11, <1>12, <1>13, ReloadFrame

\* The lock is there.
LEMMA ReloadGetsLockStep ==
  ASSUME GatewayInv, NEW w \in Reloads, Link!ReloadGetsLock(w)  PROVE GatewayInv'
  <1>1. /\ reload[w].pc = "atConn" /\ Link!ReloadDisconnects(w, "waited")
        /\ UNCHANGED <<client, active, timer, oplock, run, side, idle, chosen, actual, setting,
                       installed, loaded, used, missed>>
    BY DEF Link!ReloadGetsLock, Link!Settings
  <1>2. used \in [runs : Nat, connections : Nat, changes : Nat, sides : Nat, disturbances : Nat]
    BY DEF GatewayInv, GatewayTypes, LinkTypes
  <1>3. "waited" # "at once"
    OBVIOUS
  <1> QED  BY <1>1, <1>2, <1>3, ReloadCloses

\* The request fails.
LEMMA ReloadFailsStep ==
  ASSUME GatewayInv, NEW w \in Reloads, Link!ReloadFails(w)  PROVE GatewayInv'
  <1> USE DEF GatewayInv, GatewayTypes
  <1>1. /\ reload[w].pc = "sending" /\ oplock' = "nobody"
        /\ UNCHANGED <<client, active, timer, run, side, idle, chosen, actual, setting, installed, loaded>>
    BY DEF Link!ReloadFails, Link!Settings
  <1>2. /\ installed \in Nat /\ loaded \in [1 .. MaxConnections -> Nat]
        /\ reload \in [Reloads -> Errands]
        /\ used' \in [runs : Nat, connections : Nat, changes : Nat, sides : Nat, disturbances : Nat]
        /\ used'.connections = used.connections
    <2>1. Link!Use("disturbances", MaxDisturbances)
      BY DEF Link!ReloadFails, Link!Fault
    <2>2. /\ used' \in [runs : Nat, connections : Nat, changes : Nat, sides : Nat, disturbances : Nat]
          /\ used'.connections = used.connections
      BY <2>1 DEF Link!Use, LinkTypes
    <2> QED  BY <2>2 DEF SettingTypes
  <1>3. \A u \in Reloads \ {w} : reload[u].pc # "sending"
    BY <1>1 DEF HolderInv, Reloads
  <1>4. ASSUME NEW e \in Errands, reload' = [reload EXCEPT ![w] = e],
               UNCHANGED <<conn, pump, killed, missed>>,
               \/ e = Link!Unset /\ client # reload[w].client
               \/ e.pc \in {"waiting", "atConn"} /\ e.client = reload[w].client
        PROVE  GatewayInv'
    <2>1. /\ reload' \in [Reloads -> Errands] /\ reload'[w] = e
          /\ \A u \in Reloads \ {w} : reload'[u] = reload[u]
      BY <1>2, <1>4, ReloadMoves
    <2>2. HolderInv'
      BY <1>1, <1>3, <1>4, <2>1, KnownConnections DEF HolderInv, Ways, Reloads
    <2>3. PluginsInv'
      BY <1>1, <1>3, <1>4, <2>1, KnownConnections DEF PluginsInv
    <2>4. \A u \in Reloads : conn.by = u => reload'[u].pc = "closing"
      BY <1>1, <2>1 DEF ConnInv
    <2>5. \A u \in Reloads : reload'[u].client <= used.connections
      BY <1>1, <1>4, <2>1, KnownConnections
    <2> QED  BY <1>1, <1>2, <1>4, <2>1, <2>2, <2>3, <2>4, <2>5, ReloadStays
  <1>5. CASE /\ client # reload[w].client /\ UNCHANGED <<conn, pump, killed, missed>>
             /\ reload' = [reload EXCEPT ![w] = Link!Unset]
    BY <1>4, <1>5, KnownConnections
  <1>6. CASE /\ w = "now" /\ UNCHANGED <<conn, pump, killed>>
             /\ Link!Scheduled([reload EXCEPT !["now"] = Link!Unset], reload[w].client)
    <2> DEFINE tasks == [reload EXCEPT !["now"] = Link!Unset]
    <2>1. /\ tasks \in [Reloads -> Errands] /\ tasks["now"] = Link!Unset
          /\ tasks["later"] = reload["later"] /\ reload[w].client \in Nat
      BY <1>2, KnownConnections DEF Reloads
    <2>2. Link!Scheduled(tasks, reload[w].client)
      BY <1>6
    <2> HIDE DEF tasks
    <2>3. /\ reload' \in [Reloads -> Errands] /\ reload'["now"] = Link!Unset
          /\ \/ /\ reload["later"].pc = "off" /\ missed' = missed
                /\ reload'["later"].pc = "waiting" /\ reload'["later"].client = reload[w].client
             \/ /\ reload["later"].pc # "off" /\ missed' = missed \cup {"plugins"}
                /\ reload'["later"] = reload["later"]
      BY <2>1, <2>2, ScheduledMeans
    <2>4. HolderInv'
      BY <1>1, <1>3, <1>6, <2>3, KnownConnections DEF HolderInv, Ways, Reloads
    <2>5. PluginsInv'
      BY <1>1, <1>3, <1>6, <2>3, KnownConnections DEF PluginsInv, Reloads
    <2>6. \A u \in Reloads : conn.by = u => reload'[u].pc = "closing"
      BY <1>1, <1>6, <2>3 DEF ConnInv, Reloads
    <2>7. \A u \in Reloads : reload'[u].client <= used.connections
      BY <1>1, <2>3, KnownConnections DEF Reloads
    <2>8. ("mode" \in missed => "mode" \in missed') /\ ("timer" \in missed => "timer" \in missed')
      BY <2>3
    <2> QED  BY <1>1, <1>2, <1>6, <2>3, <2>4, <2>5, <2>6, <2>7, <2>8, ReloadStays
  <1>7. CASE /\ w # "now" /\ UNCHANGED <<conn, pump, killed, missed>>
             /\ reload' = [reload EXCEPT !["later"].pc = "waiting"]
    <2> DEFINE e == [reload[w] EXCEPT !.pc = "waiting"]
    <2>1. e \in Errands
      BY <1>2, KnownConnections DEF Errands
    <2>2. e.pc = "waiting" /\ e.client = reload[w].client
      BY <1>2, KnownConnections DEF Errands
    <2>3. reload' = [reload EXCEPT ![w] = e]
      BY <1>7 DEF Reloads
    <2> HIDE DEF e
    <2> QED  BY <1>4, <1>7, <2>1, <2>2, <2>3
  <1>8. CASE Link!ReloadDisconnects(w, "at once") /\ ~active /\ UNCHANGED missed
    BY <1>1, <1>2, <1>8, ReloadCloses
  <1>9. CASE /\ UNCHANGED <<conn, pump, killed, missed>>
             /\ reload' = [reload EXCEPT ![w].pc = "atConn"]
    <2> DEFINE e == [reload[w] EXCEPT !.pc = "atConn"]
    <2>1. e \in Errands
      BY <1>2, KnownConnections DEF Errands
    <2>2. e.pc = "atConn" /\ e.client = reload[w].client
      BY <1>2, KnownConnections DEF Errands
    <2>3. reload' = [reload EXCEPT ![w] = e]
      BY <1>9
    <2> HIDE DEF e
    <2> QED  BY <1>4, <1>9, <2>1, <2>2, <2>3
  <1> QED  BY <1>5, <1>6, <1>7, <1>8, <1>9 DEF Link!ReloadFails, Link!Busy

\* Every step of the connection keeps all of it.
LEMMA GatewayStep == GatewayInv /\ [Link!Next]_gatewayVars => GatewayInv'
  <1> SUFFICES ASSUME GatewayInv, [Link!Next]_gatewayVars  PROVE GatewayInv'
    OBVIOUS
  <1>1. CASE UNCHANGED gatewayVars
    <2>1. /\ UNCHANGED <<client, pump, state, active, timer, oplock, conn, run, side, idle, chosen>>
          /\ UNCHANGED <<actual, setting, installed, loaded, reload, used, killed, missed>>
      BY <1>1 DEF gatewayVars
    <2>2. GatewayTypes'
      BY <2>1 DEF GatewayInv, GatewayTypes, LinkTypes, QueryTypes, SettingTypes
    <2>3. NumbersInv' /\ ConnInv' /\ HolderInv' /\ ActiveInv' /\ TimerInv'
      BY <2>1 DEF GatewayInv, NumbersInv, ConnInv, HolderInv, ActiveInv, TimerInv
    <2>4. ModesInv' /\ PluginsInv'
      BY <2>1 DEF GatewayInv, ModesInv, PluginsInv
    <2> QED  BY <2>2, <2>3, <2>4 DEF GatewayInv
  <1>2. CASE Link!RunNext
    BY <1>2, SubmitStep, EstablishStep, SendStartsStep, RunBeginsStep, RunSentStep,
        RunSendFailsStep,
       RunEndsStep, RunBreaksStep, RunDropsStep, RunConnectsStep, OpenedStep, OpenFailsStep,
       FinalizeStep, RunOverStep DEF Link!RunNext
  <1>3. CASE Link!LockNext
    BY <1>3, CloseClientStep, CloseEndsStep, DisconnectStep, ElsewhereStep DEF Link!LockNext
  <1>4. CASE Link!SideNext
    BY <1>4, SideAskedStep, SideStartsStep, SideBeginsStep, SideEndsStep,
        ControlStep DEF Link!SideNext
  <1>5. CASE Link!IdleNext
    BY <1>5, TimerFiresStep, IdleExemptStep, IdleRechecksStep, IdleGetsLockStep DEF Link!IdleNext
  <1>6. CASE Link!ModeNext
    <2>1. DOMAIN setting = Ways
      BY DEF GatewayInv, GatewayTypes, SettingTypes
    <2> QED  BY <1>6, <2>1, SetModeStep, ModeTaskWakesStep, ModeStartsStep, ModeAppliedStep,
        ModeFailsStep
             DEF Link!ModeNext
  <1>7. CASE Link!PluginNext
    <2>1. DOMAIN reload = Reloads
      BY DEF GatewayInv, GatewayTypes, SettingTypes
    <2> QED  BY <1>7, <2>1, InstallStep, ReloadWakesStep, ReloadStartsStep, ReloadedStep,
                ReloadFailsStep, ReloadGetsLockStep DEF Link!PluginNext
  <1> QED  BY <1>1, <1>2, <1>3, <1>4, <1>5, <1>6, <1>7 DEF Link!Next

\* Upkeep closes no connection of a run in its stream unless it waited for the
\* lock, and what was chosen and installed reaches the process.
LEMMA GatewayHolds == GatewayInv => Link!OnlyTheIdleAreClosed /\ Link!ChangesReachTheProcess
  <1> SUFFICES ASSUME GatewayInv  PROVE Link!OnlyTheIdleAreClosed /\ Link!ChangesReachTheProcess
    OBVIOUS
  <1>1. DOMAIN setting = Ways /\ DOMAIN reload = Reloads
    BY DEF GatewayInv, GatewayTypes, SettingTypes
  <1>2. Link!OnlyTheIdleAreClosed
    BY DEF GatewayInv, ActiveInv, ConnInv, TimerInv, Link!OnlyTheIdleAreClosed
  <1>3. Link!ChangesReachTheProcess
    BY <1>1 DEF GatewayInv, ModesInv, PluginsInv, Link!ChangesReachTheProcess
  <1> QED  BY <1>2, <1>3

-----------------------------------------------------------------------------
(* Which conversation a session continues (SdkBindings.tla)                *)

Idents == [id : Nat, fork : BOOLEAN]
SessionRows == [there : {"not yet", "yes", "no more"}, bound : Idents]
Lines == [up : BOOLEAN, on : Nat, fork : BOOLEAN]
Askings == [at : {"off", "resolve", "connect", "stream", "bind", "save", "broken"},
            copy : Idents, retry : BOOLEAN]
Warmings == [at : {"off", "open", "clear"}, copy : Idents]
Imports == [id : Nat, free : BOOLEAN]

RowTypes == rows \in [Sessions -> SessionRows]
LineTypes == link \in [Sessions -> Lines]
AskTypes == query \in [Sessions -> Askings]
WarmTypes == warm \in [Sessions -> Warmings]
FileTypes ==
  /\ cache \in [Sessions -> Nat] /\ talk \in [Sessions -> Nat]
  /\ made \in Nat /\ files \subseteq 1 .. made
ImportTypes == import \in [Sessions -> Imports]

BindingTypes == RowTypes /\ LineTypes /\ AskTypes /\ WarmTypes /\ FileTypes /\ ImportTypes

\* A session is on a conversation for itself, wherever it has that from.
Holds(s, t) ==
  \/ rows[s].there = "yes" /\ ~ rows[s].bound.fork /\ rows[s].bound.id = t
  \/ link[s].up /\ ~ link[s].fork /\ link[s].on = t
  \/ query[s].at # "off" /\ ~ query[s].copy.fork /\ query[s].copy.id = t
  \/ warm[s].at # "off" /\ ~ warm[s].copy.fork /\ warm[s].copy.id = t
  \/ cache[s] = t

\* Nobody knows a conversation to come.
KnownOf(s) ==
  /\ rows[s].bound.id <= made /\ link[s].on <= made /\ query[s].copy.id <= made
  /\ warm[s].copy.id <= made /\ cache[s] <= made /\ import[s].id <= made

KnownInv == \A s \in Sessions : KnownOf(s)

AloneInv ==
  \A s, r \in Sessions, t \in Nat : s # r /\ t # 0 /\ Holds(s, t) /\ Holds(r, t) => t \in twice

FilesInv ==
  \A s \in Sessions, t \in Nat :
    rows[s].there = "yes" /\ t # 0 /\ Holds(s, t) => t \in files \cup removed \cup twice

\* What is not there yet has nothing, and is at most about to be imported.
BirthOf(s) ==
  /\ rows[s].there = "not yet" =>
       /\ rows[s].bound.id = 0 /\ ~ rows[s].bound.fork /\ ~ link[s].up /\ query[s].at = "off"
       /\ warm[s].at = "off" /\ cache[s] = 0 /\ talk[s] = 0
  /\ import[s].id # 0 =>
       rows[s].there = "not yet" /\ import[s].free /\ import[s].id \in files \cup removed

BirthInv == \A s \in Sessions : BirthOf(s)

\* How far a query is, and a prewarming.
StageOf(s) ==
  /\ query[s].at = "bind" /\ link[s].up => ~ link[s].fork /\ link[s].on # 0
  /\ query[s].at # "off" => rows[s].there = "yes"
  /\ warm[s].at = "open" => warm[s].copy.id # 0

StageInv == \A s \in Sessions : StageOf(s)

On(s, b) == link[s].up => link[s].on = b.id /\ link[s].fork = b.fork

\* The copy is of what the conversation continues, or of one it is a fork of.
Right(s) == query[s].copy.id = talk[s] \/ query[s].copy.fork

Told(s) == link[s].up => link[s].on = talk[s] /\ ~ link[s].fork /\ talk[s] # 0

\* What a session's last turn was on is what it goes on with, step by step.
FollowsOf(s) ==
  /\ query[s].at = "off" =>
       rows[s].bound.id = talk[s] /\ On(s, rows[s].bound) /\ (link[s].up => link[s].on # 0)
  /\ query[s].at \in {"resolve", "connect"} => Right(s)
  /\ query[s].at = "stream" => Right(s) /\ On(s, query[s].copy)
  /\ query[s].at = "bind" => Told(s) /\ (query[s].retry => Right(s))
  /\ query[s].at = "save" =>
       query[s].copy.id = talk[s] /\ ~ query[s].copy.fork /\ talk[s] # 0 /\ Told(s)
  /\ query[s].at = "broken" => ~ link[s].up /\ (query[s].retry => Right(s))
  /\ query[s].at # "off" =>
       /\ query[s].retry => query[s].copy.id # 0
       /\ query[s].copy.fork => rows[s].bound.id = query[s].copy.id

FollowsInv == \A s \in Sessions : rows[s].there = "yes" /\ s \notin lost => FollowsOf(s)

BindingInv ==
  /\ BindingTypes /\ KnownInv /\ AloneInv /\ FilesInv /\ BirthInv /\ StageInv /\ FollowsInv

\* At the beginning no session is there.
LEMMA BindingStart == Bindings!Init => BindingInv
  <1> SUFFICES ASSUME Bindings!Init  PROVE BindingInv
    OBVIOUS
  <1> USE DEF Bindings!Init, Bindings!Gone, Bindings!Unbound, Bindings!Down, Bindings!Rest,
              Bindings!Cold, Bindings!NoImport
  <1>1. RowTypes
    BY DEF RowTypes, SessionRows, Idents
  <1>2. LineTypes
    BY DEF LineTypes, Lines
  <1>3. AskTypes
    BY DEF AskTypes, Askings, Idents
  <1>4. WarmTypes
    BY DEF WarmTypes, Warmings, Idents
  <1>5. FileTypes /\ ImportTypes
    <2>1. made = 1 /\ files = {1}
      OBVIOUS
    <2>2. files \subseteq 1 .. made
      BY ONLY <2>1
    <2>3. cache \in [Sessions -> Nat] /\ talk \in [Sessions -> Nat] /\ ImportTypes
      BY DEF ImportTypes, Imports
    <2> QED  BY ONLY <2>1, <2>2, <2>3 DEF FileTypes
  <1>6. \A s \in Sessions : /\ rows[s].there = "not yet" /\ rows[s].bound.id = 0 /\ ~ rows[s].bound.fork
                            /\ ~ link[s].up /\ link[s].on = 0
                            /\ query[s].at = "off" /\ query[s].copy.id = 0
                            /\ warm[s].at = "off" /\ warm[s].copy.id = 0
                            /\ cache[s] = 0 /\ talk[s] = 0 /\ import[s].id = 0 /\ made = 1
    OBVIOUS
  <1> HIDE DEF Bindings!Init
  <1>7. KnownInv
    <2> SUFFICES ASSUME NEW s \in Sessions  PROVE KnownOf(s)
      BY DEF KnownInv
    <2>0. made = 1
      BY DEF Bindings!Init
    <2>1. 0 <= made
      BY ONLY <2>0
    <2> QED  BY ONLY <1>6, <2>1 DEF KnownOf
  <1>9. BirthInv /\ StageInv
    <2>1. BirthInv
      BY <1>6 DEF BirthInv, BirthOf
    <2>2. StageInv
      BY <1>6 DEF StageInv, StageOf
    <2> QED  BY <2>1, <2>2
  <1>8. AloneInv /\ FilesInv /\ FollowsInv
    BY <1>6 DEF AloneInv, FilesInv, FollowsInv, Holds
  <1> QED  BY <1>1, <1>2, <1>3, <1>4, <1>5, <1>7, <1>8, <1>9 DEF BindingInv, BindingTypes

\* No session but s has anything else than before.
Others(s) ==
  \A r \in Sessions \ {s} :
    /\ rows'[r] = rows[r] /\ link'[r] = link[r] /\ query'[r] = query[r] /\ warm'[r] = warm[r]
    /\ cache'[r] = cache[r] /\ talk'[r] = talk[r] /\ import'[r] = import[r]

\* The others' part of the invariant, when the files are not fewer.
LEMMA OthersKeep ==
  ASSUME BindingInv, NEW s \in Sessions, Others(s), NEW r \in Sessions \ {s},
         made \in Nat, made' \in Nat, made <= made',
         import[r].id # 0 /\ import[r].id \in files \cup removed =>
           import[r].id \in files' \cup removed',
         lost \ {s} \subseteq lost'
  PROVE  /\ \A t \in Nat : Holds(r, t)' <=> Holds(r, t)
         /\ BirthOf(r)' /\ StageOf(r)' /\ (rows'[r].there = "yes" /\ r \notin lost' => FollowsOf(r)')
         /\ KnownOf(r)'
  <1>0. /\ rows'[r] = rows[r] /\ link'[r] = link[r] /\ query'[r] = query[r] /\ warm'[r] = warm[r]
        /\ cache'[r] = cache[r] /\ talk'[r] = talk[r] /\ import'[r] = import[r]
    BY DEF Others
  <1>1. KnownOf(r) /\ BirthOf(r) /\ StageOf(r) /\ (rows[r].there = "yes" /\ r \notin lost => FollowsOf(r))
    BY DEF BindingInv, KnownInv, BirthInv, StageInv, FollowsInv
  <1>2. \A t \in Nat : Holds(r, t)' <=> Holds(r, t)
    BY <1>0 DEF Holds
  <1>3. BirthOf(r)' /\ StageOf(r)'
    BY <1>0, <1>1 DEF BirthOf, StageOf
  <1>4. rows'[r].there = "yes" /\ r \notin lost' => FollowsOf(r)'
    BY <1>0, <1>1 DEF FollowsOf, On, Right, Told
  <1>5. KnownOf(r)'
    <2>1. /\ rows[r].bound.id \in Nat /\ link[r].on \in Nat /\ query[r].copy.id \in Nat
          /\ warm[r].copy.id \in Nat /\ cache[r] \in Nat /\ import[r].id \in Nat
      BY DEF BindingInv, BindingTypes, RowTypes, LineTypes, AskTypes, WarmTypes, FileTypes,
             ImportTypes, SessionRows, Lines, Askings, Warmings, Imports, Idents
    <2> QED  BY <1>0, <1>1, <2>1 DEF KnownOf
  <1> QED  BY <1>2, <1>3, <1>4, <1>5

\* Who takes over no conversation but what it is on already, and a new one,
\* leaves the others alone.
LEMMA AloneKept ==
  ASSUME BindingInv, NEW s \in Sessions, twice \subseteq twice',
         \A r \in Sessions \ {s} : \A t \in Nat : Holds(r, t)' <=> Holds(r, t),
         \A t \in Nat : t # 0 /\ Holds(s, t)' => Holds(s, t) \/ t > made
  PROVE  AloneInv'
  <1>0. made \in Nat
    BY DEF BindingInv, BindingTypes, FileTypes
  <1>4. \A r \in Sessions, t \in Nat : Holds(r, t) => t <= made
    BY <1>0 DEF BindingInv, KnownInv, KnownOf, Holds
  <1> SUFFICES ASSUME NEW p \in Sessions, NEW r \in Sessions, NEW t \in Nat, p # r, t # 0,
                      Holds(p, t)', Holds(r, t)'
               PROVE  t \in twice'
    BY DEF AloneInv
  <1>5. \A q \in Sessions : s # q /\ Holds(s, t)' /\ Holds(q, t)' => t \in twice'
    <2> SUFFICES ASSUME NEW q \in Sessions, s # q, Holds(s, t)', Holds(q, t)'
                 PROVE  t \in twice'
      OBVIOUS
    <2>1. Holds(q, t) /\ t <= made
      BY <1>4
    <2>2. ~ (t > made)
      BY ONLY <2>1, <1>0, t \in Nat
    <2>3. Holds(s, t)
      BY <2>2
    <2> QED  BY <2>1, <2>3 DEF BindingInv, AloneInv
  <1>1. CASE p = s
    BY <1>1, <1>5
  <1>2. CASE r = s
    BY <1>2, <1>5
  <1>3. CASE p # s /\ r # s
    BY <1>3 DEF BindingInv, AloneInv
  <1> QED  BY <1>1, <1>2, <1>3

\* A step of one session which is there, or was, and which takes over no
\* conversation but what it is on already and a new one.
LEMMA Moves ==
  ASSUME BindingInv, NEW s \in Sessions, BindingTypes', Others(s),
         rows'[s].there = rows[s].there, rows[s].there # "not yet", import'[s] = import[s],
         made <= made', files \subseteq files', removed' = removed, twice' = twice,
         lost \ {s} \subseteq lost',
         \A t \in Nat : t # 0 /\ Holds(s, t)' => Holds(s, t) \/ (t > made /\ t \in files'),
         KnownOf(s)', StageOf(s)', rows'[s].there = "yes" /\ s \notin lost' => FollowsOf(s)'
  PROVE  BindingInv'
  <1>0. made \in Nat /\ made' \in Nat
    BY DEF BindingInv, BindingTypes, FileTypes
  <1>1. \A r \in Sessions \ {s} :
          /\ \A t \in Nat : Holds(r, t)' <=> Holds(r, t)
          /\ BirthOf(r)' /\ StageOf(r)' /\ (rows'[r].there = "yes" /\ r \notin lost' => FollowsOf(r)')
          /\ KnownOf(r)' /\ rows'[r] = rows[r]
    BY OthersKeep, <1>0 DEF Others
  <1>2. BirthOf(s)'
    BY DEF BindingInv, BirthInv, BirthOf
  <1>3. KnownInv' /\ BirthInv' /\ StageInv' /\ FollowsInv'
    BY <1>1, <1>2 DEF KnownInv, BirthInv, StageInv, FollowsInv
  <1>5. AloneInv'
    BY <1>1, AloneKept
  <1>6. FilesInv'
    <2> SUFFICES ASSUME NEW r \in Sessions, NEW t \in Nat, rows'[r].there = "yes", t # 0, Holds(r, t)'
                 PROVE  t \in files' \cup removed' \cup twice'
      BY DEF FilesInv
    <2>1. CASE r = s
      BY <2>1 DEF BindingInv, FilesInv
    <2>2. CASE r # s
      BY <2>2, <1>1 DEF BindingInv, FilesInv
    <2> QED  BY <2>1, <2>2
  <1> QED  BY <1>3, <1>5, <1>6 DEF BindingInv

\* A step of one session which is there, or was, by which no conversation
\* begins or ends.
LEMMA Goes ==
  ASSUME BindingInv, NEW s \in Sessions, BindingTypes', Others(s), rows[s].there # "not yet",
         rows'[s].there = rows[s].there, UNCHANGED <<files, made, import, removed, twice>>,
         lost' = lost \/ lost' = lost \cup {s},
         \A t \in Nat : t # 0 /\ Holds(s, t)' => Holds(s, t),
         KnownOf(s)', StageOf(s)', rows[s].there = "yes" /\ s \notin lost' => FollowsOf(s)'
  PROVE  BindingInv'
  <1>0. made' = made /\ made \in Nat
    BY DEF BindingInv, BindingTypes, FileTypes
  <1>1. made <= made'
    BY ONLY <1>0
  <1>2. lost \ {s} \subseteq lost' /\ files \subseteq files' /\ import'[s] = import[s]
    OBVIOUS
  <1> QED  BY <1>1, <1>2, Moves

\* What the state of a session is made of.
LEMMA Fields ==
  ASSUME BindingInv, NEW s \in Sessions
  PROVE  /\ rows[s] \in SessionRows /\ rows[s].bound \in Idents /\ rows[s].bound.id \in Nat
         /\ link[s] \in Lines /\ link[s].on \in Nat
         /\ query[s] \in Askings /\ query[s].copy \in Idents /\ query[s].copy.id \in Nat
         /\ warm[s] \in Warmings /\ warm[s].copy \in Idents /\ warm[s].copy.id \in Nat
         /\ cache[s] \in Nat /\ talk[s] \in Nat /\ made \in Nat /\ import[s].id \in Nat
         /\ KnownOf(s) /\ BirthOf(s) /\ StageOf(s)
         /\ rows[s].there = "yes" /\ s \notin lost => FollowsOf(s)
  <1>1. RowTypes /\ LineTypes /\ AskTypes /\ WarmTypes /\ FileTypes
    BY DEF BindingInv, BindingTypes
  <1>2. rows[s] \in SessionRows /\ rows[s].bound \in Idents /\ rows[s].bound.id \in Nat
    BY <1>1 DEF RowTypes, SessionRows, Idents
  <1>3. link[s] \in Lines /\ link[s].on \in Nat
    BY <1>1 DEF LineTypes, Lines
  <1>4. query[s] \in Askings /\ query[s].copy \in Idents /\ query[s].copy.id \in Nat
    BY <1>1 DEF AskTypes, Askings, Idents
  <1>5. warm[s] \in Warmings /\ warm[s].copy \in Idents /\ warm[s].copy.id \in Nat
    BY <1>1 DEF WarmTypes, Warmings, Idents
  <1>6. cache[s] \in Nat /\ talk[s] \in Nat /\ made \in Nat /\ import[s].id \in Nat
    BY <1>1 DEF FileTypes, BindingInv, BindingTypes, ImportTypes, Imports
  <1>7. KnownOf(s) /\ BirthOf(s) /\ StageOf(s) /\ (rows[s].there = "yes" /\ s \notin lost => FollowsOf(s))
    BY DEF BindingInv, KnownInv, BirthInv, StageInv, FollowsInv
  <1> QED  BY <1>2, <1>3, <1>4, <1>5, <1>6, <1>7

\* No binding is none of a conversation.
LEMMA Unbinding == Bindings!Unbound \in Idents /\ Bindings!Unbound.id = 0 /\ Bindings!Unbound.fork = FALSE
  BY DEF Bindings!Unbound, Idents

\* The binding of one session is another.
LEMMA RowSet ==
  ASSUME BindingInv, NEW s \in Sessions, NEW b \in Idents, Bindings!Bind(s, b)
  PROVE  /\ RowTypes' /\ rows'[s].bound = b /\ rows'[s].there = rows[s].there
         /\ \A r \in Sessions \ {s} : rows'[r] = rows[r]
  <1>0. RowTypes /\ rows[s] \in SessionRows
    BY Fields DEF BindingInv, BindingTypes
  <1> DEFINE e == [rows[s] EXCEPT !.bound = b]
  <1>1. e \in SessionRows /\ e.bound = b /\ e.there = rows[s].there
    BY <1>0 DEF SessionRows
  <1>2. rows' = [rows EXCEPT ![s] = e]
    BY DEF Bindings!Bind
  <1> HIDE DEF e
  <1>3. rows' \in [Sessions -> SessionRows] /\ rows'[s] = e /\ \A r \in Sessions \ {s} : rows'[r] = rows[r]
    BY <1>0, <1>2, <1>1 DEF RowTypes
  <1> QED  BY <1>1, <1>3 DEF RowTypes

\* The connection of one session is another.
LEMMA LineSet ==
  ASSUME BindingInv, NEW s \in Sessions, NEW l \in Lines, link' = [link EXCEPT ![s] = l]
  PROVE  LineTypes' /\ link'[s] = l /\ \A r \in Sessions \ {s} : link'[r] = link[r]
  BY DEF BindingInv, BindingTypes, LineTypes

\* The connection of one session is ended.
LEMMA LineDown ==
  ASSUME BindingInv, NEW s \in Sessions, Bindings!Unlink(s)
  PROVE  /\ LineTypes' /\ ~ link'[s].up /\ link'[s].on = 0
         /\ \A r \in Sessions \ {s} : link'[r] = link[r]
  <1>1. Bindings!Down \in Lines /\ ~ Bindings!Down.up /\ Bindings!Down.on = 0
    BY DEF Bindings!Down, Lines
  <1>2. link' = [link EXCEPT ![s] = Bindings!Down]
    BY DEF Bindings!Unlink
  <1> QED  BY <1>1, <1>2, LineSet

\* The query of one session is elsewhere.
LEMMA AskSet ==
  ASSUME BindingInv, NEW s \in Sessions, NEW a \in Askings, query' = [query EXCEPT ![s] = a]
  PROVE  AskTypes' /\ query'[s] = a /\ \A r \in Sessions \ {s} : query'[r] = query[r]
  BY DEF BindingInv, BindingTypes, AskTypes

\* The query of one session is at another step, with another copy or none.
LEMMA AskMove ==
  ASSUME BindingInv, NEW s \in Sessions, NEW c \in Idents,
         NEW at \in {"off", "resolve", "connect", "stream", "bind", "save", "broken"},
         query' = [query EXCEPT ![s].at = at, ![s].copy = c]
  PROVE  /\ AskTypes' /\ query'[s].at = at /\ query'[s].copy = c /\ query'[s].retry = query[s].retry
         /\ \A r \in Sessions \ {s} : query'[r] = query[r]
  <1>0. query[s] \in Askings
    BY Fields
  <1> DEFINE e == [query[s] EXCEPT !.at = at, !.copy = c]
  <1>1. e \in Askings /\ e.at = at /\ e.copy = c /\ e.retry = query[s].retry
    BY <1>0 DEF Askings
  <1>2. query' = [query EXCEPT ![s] = e]
    <2>1. query \in [Sessions -> Askings]
      BY DEF BindingInv, BindingTypes, AskTypes
    <2> QED  BY <2>1
  <1> HIDE DEF e
  <1> QED  BY <1>1, <1>2, AskSet

\* The same, with the copy it has.
LEMMA AskStep ==
  ASSUME BindingInv, NEW s \in Sessions,
         NEW at \in {"off", "resolve", "connect", "stream", "bind", "save", "broken"},
         Bindings!Step(s, at)
  PROVE  /\ AskTypes' /\ query'[s].at = at /\ query'[s].copy = query[s].copy
         /\ query'[s].retry = query[s].retry /\ \A r \in Sessions \ {s} : query'[r] = query[r]
  <1>0. query[s] \in Askings /\ query \in [Sessions -> Askings]
    BY Fields DEF BindingInv, BindingTypes, AskTypes
  <1> DEFINE e == [query[s] EXCEPT !.at = at]
  <1>1. e \in Askings /\ e.at = at /\ e.copy = query[s].copy /\ e.retry = query[s].retry
    BY <1>0 DEF Askings
  <1>2. query' = [query EXCEPT ![s] = e]
    BY <1>0 DEF Bindings!Step
  <1> HIDE DEF e
  <1> QED  BY <1>1, <1>2, AskSet

\* The query of one session is over.
LEMMA AskRest ==
  ASSUME BindingInv, NEW s \in Sessions, query' = [query EXCEPT ![s] = Bindings!Rest]
  PROVE  /\ AskTypes' /\ query'[s].at = "off" /\ query'[s].copy.id = 0
         /\ \A r \in Sessions \ {s} : query'[r] = query[r]
  <1>1. Bindings!Rest \in Askings /\ Bindings!Rest.at = "off" /\ Bindings!Rest.copy.id = 0
    BY DEF Bindings!Rest, Bindings!Unbound, Askings, Idents
  <1> QED  BY <1>1, AskSet

\* What is not changed keeps its type.
LEMMA TypesNow ==
  ASSUME BindingInv, RowTypes' \/ rows' = rows, LineTypes' \/ link' = link,
         AskTypes' \/ query' = query, WarmTypes' \/ warm' = warm,
         FileTypes' \/ UNCHANGED <<cache, talk, made, files>>, ImportTypes' \/ import' = import
  PROVE  BindingTypes'
  <1>1. RowTypes' /\ LineTypes' /\ AskTypes'
    BY DEF BindingInv, BindingTypes, RowTypes, LineTypes, AskTypes
  <1>2. WarmTypes' /\ FileTypes' /\ ImportTypes'
    BY DEF BindingInv, BindingTypes, WarmTypes, FileTypes, ImportTypes
  <1> QED  BY <1>1, <1>2 DEF BindingTypes

\* A query begins.
LEMMA QueryBeginStep ==
  ASSUME BindingInv, NEW s \in Sessions, Bindings!Begin(s)  PROVE BindingInv'
  <1> DEFINE a == [at |-> IF link[s].up THEN "stream" ELSE "resolve",
                   copy |-> rows[s].bound, retry |-> link[s].up]
  <1>0. query' = [query EXCEPT ![s] = a] /\ query[s].at = "off" /\ rows[s].there = "yes"
    BY DEF Bindings!Begin, Bindings!Rest, Bindings!There
  <1>1. a \in Askings /\ a.copy = rows[s].bound /\ a.retry = link[s].up
        /\ a.at = IF link[s].up THEN "stream" ELSE "resolve"
    BY Fields DEF Askings, Lines
  <1> HIDE DEF a
  <1>2. AskTypes' /\ query'[s] = a /\ \A r \in Sessions \ {s} : query'[r] = query[r]
    BY <1>0, <1>1, AskSet
  <1>3. UNCHANGED <<rows, files, made, cache, link, warm, import, mishaps, talk, removed, twice, lost>>
    BY DEF Bindings!Begin
  <1>4. BindingTypes' /\ Others(s)
    BY <1>2, <1>3, TypesNow DEF Others
  <1>5. \A t \in Nat : Holds(s, t)' => Holds(s, t)
    BY <1>0, <1>1, <1>2, <1>3 DEF Holds
  <1>6. KnownOf(s)' /\ StageOf(s)'
    BY <1>0, <1>1, <1>2, <1>3, Fields DEF KnownOf, StageOf
  <1>7. s \notin lost => FollowsOf(s)'
    BY <1>0, <1>1, <1>2, <1>3, Fields DEF FollowsOf, On, Right, Told
  <1> QED  BY <1>0, <1>3, <1>4, <1>5, <1>6, <1>7, Goes

\* A query looks whether the conversation is its session's.
LEMMA ResolveStep ==
  ASSUME BindingInv, NEW s \in Sessions, Bindings!Resolve(s)  PROVE BindingInv'
  <1>0. query[s].at = "resolve" /\ rows[s].there = "yes"
        /\ UNCHANGED <<files, made, cache, link, warm, import, talk, removed, twice>>
    BY Fields DEF Bindings!Resolve, StageOf
  <1>1. CASE Bindings!Step(s, "connect") /\ UNCHANGED <<rows, lost>>
    <2>1. /\ AskTypes' /\ query'[s].at = "connect" /\ query'[s].copy = query[s].copy
          /\ query'[s].retry = query[s].retry /\ \A r \in Sessions \ {s} : query'[r] = query[r]
      BY <1>1, AskStep
    <2>2. BindingTypes' /\ Others(s)
      BY <1>0, <1>1, <2>1, TypesNow DEF Others
    <2>3. \A t \in Nat : Holds(s, t)' => Holds(s, t)
      BY <1>0, <1>1, <2>1 DEF Holds
    <2>4. KnownOf(s)' /\ StageOf(s)'
      BY <1>0, <1>1, <2>1, Fields DEF KnownOf, StageOf
    <2>5. s \notin lost => FollowsOf(s)'
      BY <1>0, <1>1, <2>1, Fields DEF FollowsOf, On, Right, Told
    <2> QED  BY <1>0, <1>1, <2>2, <2>3, <2>4, <2>5, Goes
  <1>2. CASE /\ query' = [query EXCEPT ![s].at = "connect", ![s].copy = Bindings!Unbound]
             /\ Bindings!Bind(s, Bindings!Unbound) /\ Bindings!Loses(s)
    <2>1. /\ AskTypes' /\ query'[s].at = "connect" /\ query'[s].copy.id = 0
          /\ \A r \in Sessions \ {s} : query'[r] = query[r]
      BY <1>2, AskMove, Unbinding
    <2>2. /\ RowTypes' /\ rows'[s].bound.id = 0 /\ rows'[s].there = rows[s].there
          /\ \A r \in Sessions \ {s} : rows'[r] = rows[r]
      BY <1>2, RowSet, Unbinding
    <2>3. lost' = lost \cup {s}
      BY <1>2 DEF Bindings!Loses, Bindings!LosesUnless
    <2>4. BindingTypes' /\ Others(s)
      BY <1>0, <2>1, <2>2, TypesNow DEF Others
    <2>5. \A t \in Nat : t # 0 /\ Holds(s, t)' => Holds(s, t)
      BY <1>0, <2>1, <2>2 DEF Holds
    <2>6. KnownOf(s)' /\ StageOf(s)'
      BY <1>0, <2>1, <2>2, Fields DEF KnownOf, StageOf
    <2> QED  BY <1>0, <2>2, <2>3, <2>4, <2>5, <2>6, Goes
  <1> QED  BY <1>1, <1>2 DEF Bindings!Resolve

\* The connection of a query is there.
LEMMA ConnectStep ==
  ASSUME BindingInv, NEW s \in Sessions, Bindings!Connect(s)  PROVE BindingInv'
  <1> DEFINE b == query[s].copy
             gone_ == b.id # 0 /\ b.id \notin files
  <1>0. query[s].at = "connect" /\ rows[s].there = "yes" /\ b \in Idents
        /\ UNCHANGED <<files, made, warm, import, talk, removed, twice>>
    BY Fields DEF Bindings!Connect, StageOf
  <1>1. CASE /\ Bindings!Unlink(s) /\ query' = [query EXCEPT ![s] = Bindings!Rest]
             /\ Bindings!LosesUnless(s, talk[s] = b.id) /\ b.fork /\ UNCHANGED <<rows, cache>>
    <2>1. /\ AskTypes' /\ query'[s].at = "off" /\ query'[s].copy.id = 0
          /\ \A r \in Sessions \ {s} : query'[r] = query[r]
      BY <1>1, AskRest
    <2>2. /\ LineTypes' /\ ~ link'[s].up /\ link'[s].on = 0
          /\ \A r \in Sessions \ {s} : link'[r] = link[r]
      BY <1>1, LineDown
    <2>3. lost' = (IF talk[s] = b.id THEN lost ELSE lost \cup {s})
      BY <1>1 DEF Bindings!LosesUnless
    <2>4. BindingTypes' /\ Others(s)
      BY <1>0, <1>1, <2>1, <2>2, TypesNow DEF Others
    <2>5. \A t \in Nat : t # 0 /\ Holds(s, t)' => Holds(s, t)
      BY <1>0, <1>1, <2>1, <2>2 DEF Holds
    <2>6. KnownOf(s)' /\ StageOf(s)'
      BY <1>0, <1>1, <2>1, <2>2, Fields DEF KnownOf, StageOf
    <2>7. s \notin lost' => FollowsOf(s)'
      BY <1>0, <1>1, <2>1, <2>2, <2>3, Fields DEF FollowsOf, On
    <2> QED  BY <1>0, <1>1, <2>3, <2>4, <2>5, <2>6, <2>7, Goes
  <1>2. CASE /\ link' = [link EXCEPT ![s] = Bindings!On(Bindings!Unbound)]
             /\ cache' = [cache EXCEPT ![s] = 0]
             /\ query' = [query EXCEPT ![s].at = "stream", ![s].copy = Bindings!Unbound]
             /\ Bindings!Bind(s, Bindings!Unbound) /\ Bindings!Loses(s)
    <2>1. /\ AskTypes' /\ query'[s].at = "stream" /\ query'[s].copy.id = 0
          /\ \A r \in Sessions \ {s} : query'[r] = query[r]
      BY <1>2, AskMove, Unbinding
    <2>2. /\ RowTypes' /\ rows'[s].bound.id = 0 /\ rows'[s].there = rows[s].there
          /\ \A r \in Sessions \ {s} : rows'[r] = rows[r]
      BY <1>2, RowSet, Unbinding
    <2>3. lost' = lost \cup {s}
      BY <1>2 DEF Bindings!Loses, Bindings!LosesUnless
    <2>4. Bindings!On(Bindings!Unbound) \in Lines /\ Bindings!On(Bindings!Unbound).on = 0
      BY DEF Bindings!Unbound, Bindings!On, Lines
    <2>5. LineTypes' /\ link'[s].on = 0 /\ \A r \in Sessions \ {s} : link'[r] = link[r]
      BY <1>2, <2>4, LineSet
    <2>6. FileTypes' /\ cache'[s] = 0 /\ \A r \in Sessions \ {s} : cache'[r] = cache[r]
      BY <1>0, <1>2 DEF BindingInv, BindingTypes, FileTypes
    <2>7. BindingTypes' /\ Others(s)
      BY <1>0, <2>1, <2>2, <2>5, <2>6, TypesNow DEF Others
    <2>8. \A t \in Nat : t # 0 /\ Holds(s, t)' => Holds(s, t)
      BY <1>0, <2>1, <2>2, <2>5, <2>6 DEF Holds
    <2>9. KnownOf(s)' /\ StageOf(s)'
      BY <1>0, <2>1, <2>2, <2>5, <2>6, Fields DEF KnownOf, StageOf
    <2> QED  BY <1>0, <2>2, <2>3, <2>7, <2>8, <2>9, Goes
  <1>3. CASE /\ link' = [link EXCEPT ![s] = Bindings!On(b)] /\ Bindings!Step(s, "stream")
             /\ UNCHANGED <<rows, cache, lost>>
    <2>1. /\ AskTypes' /\ query'[s].at = "stream" /\ query'[s].copy = query[s].copy
          /\ query'[s].retry = query[s].retry /\ \A r \in Sessions \ {s} : query'[r] = query[r]
      BY <1>3, AskStep
    <2>2. /\ Bindings!On(b) \in Lines /\ Bindings!On(b).on = b.id
          /\ Bindings!On(b).fork = b.fork
      BY <1>0 DEF Bindings!On, Lines, Idents
    <2>3. /\ LineTypes' /\ link'[s].on = b.id /\ link'[s].fork = b.fork
          /\ \A r \in Sessions \ {s} : link'[r] = link[r]
      BY <1>3, <2>2, LineSet
    <2>4. BindingTypes' /\ Others(s)
      BY <1>0, <1>3, <2>1, <2>3, TypesNow DEF Others
    <2>5. \A t \in Nat : Holds(s, t)' => Holds(s, t)
      BY <1>0, <1>3, <2>1, <2>3 DEF Holds
    <2>6. KnownOf(s)' /\ StageOf(s)'
      BY <1>0, <1>3, <2>1, <2>3, Fields DEF KnownOf, StageOf
    <2>7. s \notin lost' => FollowsOf(s)'
      BY <1>0, <1>3, <2>1, <2>3, Fields DEF FollowsOf, On, Right
    <2> QED  BY <1>0, <1>3, <2>4, <2>5, <2>6, <2>7, Goes
  <1> QED  BY <1>1, <1>2, <1>3 DEF Bindings!Connect

\* A conversation that begins.
LEMMA FreshOne ==
  ASSUME BindingInv, Bindings!Fresh
  PROVE  /\ made' = made + 1 /\ made' \in Nat /\ made < made' /\ files' = files \cup {made'}
         /\ files' \subseteq 1 .. made'
  <1>1. made' = made + 1 /\ made \in Nat /\ files' = files \cup {made'} /\ files \subseteq 1 .. made
    BY DEF BindingInv, BindingTypes, FileTypes, Bindings!Fresh
  <1> QED  BY ONLY <1>1

\* The agent answers, and says where.
LEMMA TurnStep ==
  ASSUME BindingInv, NEW s \in Sessions, Bindings!Turn(s)  PROVE BindingInv'
  <1> DEFINE new == link[s].on = 0 \/ link[s].fork
             t == IF new THEN made + 1 ELSE link[s].on
             l == [up |-> TRUE, on |-> t, fork |-> FALSE]
  <1>0. query[s].at = "stream" /\ link[s].up /\ rows[s].there = "yes"
        /\ UNCHANGED <<rows, warm, import, removed, twice, lost>>
    BY Fields DEF Bindings!Turn, StageOf
  <1>1. /\ AskTypes' /\ query'[s].at = "bind" /\ query'[s].copy = query[s].copy
        /\ query'[s].retry = query[s].retry /\ \A r \in Sessions \ {s} : query'[r] = query[r]
    BY AskStep DEF Bindings!Turn
  <1>2. IF new THEN Bindings!Fresh ELSE UNCHANGED <<files, made>>
    BY DEF Bindings!Turn
  <1>3. /\ made \in Nat /\ files \subseteq files' /\ made <= made' /\ made' \in Nat
        /\ files' \subseteq 1 .. made'
    <2>1. made \in Nat /\ files \subseteq 1 .. made
      BY DEF BindingInv, BindingTypes, FileTypes
    <2>2. CASE Bindings!Fresh
      BY <2>1, <2>2, FreshOne
    <2>3. CASE files' = files /\ made' = made
      BY ONLY <2>1, <2>3
    <2> QED  BY <2>2, <2>3, <1>2
  <1>4. /\ t \in Nat /\ t # 0 /\ t <= made'
        /\ (t = link[s].on /\ ~ link[s].fork) \/ (t > made /\ t \in files' /\ new)
    BY <1>2, <1>3, FreshOne, Fields DEF KnownOf
  <1>5. /\ link' = [link EXCEPT ![s] = l] /\ cache' = [cache EXCEPT ![s] = t]
        /\ talk' = [talk EXCEPT ![s] = t]
    BY DEF Bindings!Turn
  <1>6. l \in Lines /\ l.on = t /\ ~ l.fork
    BY <1>4 DEF Lines
  <1> HIDE DEF t, l, new
  <1>7. /\ LineTypes' /\ link'[s].on = t /\ ~ link'[s].fork
        /\ \A r \in Sessions \ {s} : link'[r] = link[r]
    BY <1>5, <1>6, LineSet
  <1>8. /\ FileTypes' /\ cache'[s] = t /\ talk'[s] = t
        /\ \A r \in Sessions \ {s} : cache'[r] = cache[r] /\ talk'[r] = talk[r]
    BY <1>3, <1>4, <1>5 DEF BindingInv, BindingTypes, FileTypes
  <1>9. BindingTypes' /\ Others(s)
    BY <1>0, <1>1, <1>7, <1>8, TypesNow DEF Others
  <1>10. \A u \in Nat : u # 0 /\ Holds(s, u)' => Holds(s, u) \/ (u > made /\ u \in files')
    BY <1>0, <1>1, <1>4, <1>7, <1>8 DEF Holds
  <1>11. KnownOf(s)'
    <2>1. made <= made' /\ made \in Nat /\ made' \in Nat /\ t <= made'
      BY <1>3, <1>4
    <2> QED  BY <2>1, <1>0, <1>1, <1>7, <1>8, Fields DEF KnownOf
  <1>12. StageOf(s)'
    BY <1>0, <1>1, <1>4, <1>7, Fields DEF StageOf
  <1>13. s \notin lost => FollowsOf(s)'
    <2>1. (link[s].on = t /\ ~ link[s].fork) \/ link[s].on = 0 \/ link[s].fork
      BY <1>4 DEF new
    <2> QED  BY <2>1, <1>0, <1>1, <1>4, <1>7, <1>8, Fields DEF FollowsOf, On, Right, Told
  <1>14. /\ rows'[s].there = rows[s].there /\ rows[s].there # "not yet" /\ import'[s] = import[s]
         /\ lost \ {s} \subseteq lost' /\ removed' = removed /\ twice' = twice
    BY <1>0
  <1> QED  BY <1>0, <1>3, <1>9, <1>10, <1>11, <1>12, <1>13, <1>14, Moves

\* The query takes over where the agent says it is.
LEMMA TryBindStep ==
  ASSUME BindingInv, NEW s \in Sessions, Bindings!TryBind(s)  PROVE BindingInv'
  <1> DEFINE b == [id |-> link[s].on, fork |-> FALSE]
  <1>0. query[s].at = "bind" /\ link[s].up /\ rows[s].there = "yes"
        /\ UNCHANGED <<rows, files, made, cache, warm, import, talk, removed, twice>>
    BY Fields DEF Bindings!TryBind, StageOf
  <1>1. CASE query' = [query EXCEPT ![s].at = "save", ![s].copy = b] /\ UNCHANGED <<link, lost>>
    <2>1. b \in Idents /\ b.id = link[s].on /\ ~ b.fork
      BY Fields DEF Idents
    <2>2. /\ AskTypes' /\ query'[s].at = "save" /\ query'[s].copy = b
          /\ query'[s].retry = query[s].retry /\ \A r \in Sessions \ {s} : query'[r] = query[r]
      BY <1>1, <2>1, AskMove
    <2> HIDE DEF b
    <2>3. BindingTypes' /\ Others(s)
      BY <1>0, <1>1, <2>2, TypesNow DEF Others
    <2>4. \A t \in Nat : Holds(s, t)' => Holds(s, t)
      BY <1>0, <1>1, <2>1, <2>2, Fields DEF Holds, StageOf
    <2>5. KnownOf(s)' /\ StageOf(s)'
      BY <1>0, <1>1, <2>1, <2>2, Fields DEF KnownOf, StageOf
    <2>6. s \notin lost => FollowsOf(s)'
      BY <1>0, <1>1, <2>1, <2>2, Fields DEF FollowsOf, Told
    <2> QED  BY <1>0, <1>1, <2>3, <2>4, <2>5, <2>6, Goes
  <1>2. CASE /\ query' = [query EXCEPT ![s].at = "broken", ![s].copy = Bindings!Unbound]
             /\ Bindings!Unlink(s) /\ Bindings!Loses(s)
    <2>1. /\ AskTypes' /\ query'[s].at = "broken" /\ query'[s].copy.id = 0
          /\ \A r \in Sessions \ {s} : query'[r] = query[r]
      BY <1>2, AskMove, Unbinding
    <2>2. /\ LineTypes' /\ ~ link'[s].up /\ link'[s].on = 0
          /\ \A r \in Sessions \ {s} : link'[r] = link[r]
      BY <1>2, LineDown
    <2>3. lost' = lost \cup {s}
      BY <1>2 DEF Bindings!Loses, Bindings!LosesUnless
    <2>4. BindingTypes' /\ Others(s)
      BY <1>0, <2>1, <2>2, TypesNow DEF Others
    <2>5. \A t \in Nat : t # 0 /\ Holds(s, t)' => Holds(s, t)
      BY <1>0, <2>1, <2>2 DEF Holds
    <2>6. KnownOf(s)' /\ StageOf(s)'
      BY <1>0, <2>1, <2>2, Fields DEF KnownOf, StageOf
    <2> QED  BY <1>0, <2>3, <2>4, <2>5, <2>6, Goes
  <1> QED  BY <1>1, <1>2 DEF Bindings!TryBind, Bindings!Adopted

\* The binding is saved, after the result or in between.
LEMMA SaveStep ==
  ASSUME BindingInv, NEW s \in Sessions, NEW done \in BOOLEAN, Bindings!Save(s, done)
  PROVE  BindingInv'
  <1>0. query[s].at = "save" /\ rows[s].there = "yes"
        /\ UNCHANGED <<files, made, cache, link, warm, import, talk, removed, twice, lost>>
    BY Fields DEF Bindings!Save, StageOf
  <1>1. /\ RowTypes' /\ rows'[s].bound = query[s].copy /\ rows'[s].there = rows[s].there
        /\ \A r \in Sessions \ {s} : rows'[r] = rows[r]
    BY RowSet, Fields DEF Bindings!Save
  <1>2. CASE query' = [query EXCEPT ![s] = Bindings!Rest]
    <2>1. /\ AskTypes' /\ query'[s].at = "off" /\ query'[s].copy.id = 0
          /\ \A r \in Sessions \ {s} : query'[r] = query[r]
      BY <1>2, AskRest
    <2>2. BindingTypes' /\ Others(s)
      BY <1>0, <1>1, <2>1, TypesNow DEF Others
    <2>3. \A t \in Nat : Holds(s, t)' => Holds(s, t)
      BY <1>0, <1>1, <2>1 DEF Holds
    <2>4. KnownOf(s)' /\ StageOf(s)'
      BY <1>0, <1>1, <2>1, Fields DEF KnownOf, StageOf
    <2>5. s \notin lost => FollowsOf(s)'
      BY <1>0, <1>1, <2>1, Fields DEF FollowsOf, On, Told, Lines, Idents
    <2> QED  BY <1>0, <1>1, <2>2, <2>3, <2>4, <2>5, Goes
  <1>3. CASE query' = [query EXCEPT ![s] = [@ EXCEPT !.at = "stream"]]
    <2>0. Bindings!Step(s, "stream")
      BY <1>3, Fields DEF Bindings!Step, BindingInv, BindingTypes, AskTypes
    <2>1. /\ AskTypes' /\ query'[s].at = "stream" /\ query'[s].copy = query[s].copy
          /\ query'[s].retry = query[s].retry /\ \A r \in Sessions \ {s} : query'[r] = query[r]
      BY <2>0, AskStep
    <2>2. BindingTypes' /\ Others(s)
      BY <1>0, <1>1, <2>1, TypesNow DEF Others
    <2>3. \A t \in Nat : Holds(s, t)' => Holds(s, t)
      BY <1>0, <1>1, <2>1 DEF Holds
    <2>4. KnownOf(s)' /\ StageOf(s)'
      BY <1>0, <1>1, <2>1, Fields DEF KnownOf, StageOf
    <2>5. s \notin lost => FollowsOf(s)'
      BY <1>0, <1>1, <2>1, Fields DEF FollowsOf, On, Right, Told, Lines, Idents
    <2> QED  BY <1>0, <1>1, <2>2, <2>3, <2>4, <2>5, Goes
  <1> QED  BY <1>2, <1>3 DEF Bindings!Save

\* The process ends in the middle.
LEMMA BreaksStep ==
  ASSUME BindingInv, NEW s \in Sessions, Bindings!Breaks(s)  PROVE BindingInv'
  <1>0. query[s].at \in {"stream", "bind"} /\ rows[s].there = "yes"
        /\ UNCHANGED <<rows, files, made, cache, warm, import, talk, removed, twice, lost>>
    BY Fields DEF Bindings!Breaks, StageOf
  <1>1. /\ AskTypes' /\ query'[s].at = "broken" /\ query'[s].copy = query[s].copy
        /\ query'[s].retry = query[s].retry /\ \A r \in Sessions \ {s} : query'[r] = query[r]
    BY AskStep DEF Bindings!Breaks
  <1>2. /\ LineTypes' /\ ~ link'[s].up /\ link'[s].on = 0
        /\ \A r \in Sessions \ {s} : link'[r] = link[r]
    BY LineDown DEF Bindings!Breaks
  <1>3. BindingTypes' /\ Others(s)
    BY <1>0, <1>1, <1>2, TypesNow DEF Others
  <1>4. \A t \in Nat : Holds(s, t)' => Holds(s, t)
    BY <1>0, <1>1, <1>2 DEF Holds
  <1>5. KnownOf(s)' /\ StageOf(s)'
    BY <1>0, <1>1, <1>2, Fields DEF KnownOf, StageOf
  <1>6. s \notin lost => FollowsOf(s)'
    BY <1>0, <1>1, <1>2, Fields DEF FollowsOf, Right
  <1> QED  BY <1>0, <1>3, <1>4, <1>5, <1>6, Goes

\* What is broken is tried again, or given up.
LEMMA BrokenStep ==
  ASSUME BindingInv, NEW s \in Sessions, Bindings!Broken(s)  PROVE BindingInv'
  <1>0. query[s].at = "broken" /\ rows[s].there = "yes"
        /\ UNCHANGED <<files, made, cache, warm, import, talk, removed, twice>>
    BY Fields DEF Bindings!Broken, StageOf
  <1>1. CASE query[s].retry
    <2> DEFINE a == [query[s] EXCEPT !.at = "resolve", !.retry = FALSE]
    <2>1. a \in Askings /\ a.at = "resolve" /\ a.copy = query[s].copy /\ a.retry = FALSE
      BY Fields DEF Askings
    <2>2. query' = [query EXCEPT ![s] = a]
      BY <1>1 DEF BindingInv, BindingTypes, AskTypes, Bindings!Broken
    <2> HIDE DEF a
    <2>3. AskTypes' /\ query'[s] = a /\ \A r \in Sessions \ {s} : query'[r] = query[r]
      BY <2>1, <2>2, AskSet
    <2>4. /\ LineTypes' /\ ~ link'[s].up /\ link'[s].on = 0
          /\ \A r \in Sessions \ {s} : link'[r] = link[r]
      BY <1>1, LineDown DEF Bindings!Broken
    <2>5. UNCHANGED <<rows, lost>>
      BY <1>1 DEF Bindings!Broken
    <2>6. BindingTypes' /\ Others(s)
      BY <1>0, <2>3, <2>4, <2>5, TypesNow DEF Others
    <2>7. \A t \in Nat : Holds(s, t)' => Holds(s, t)
      BY <1>0, <2>1, <2>3, <2>4, <2>5 DEF Holds
    <2>8. KnownOf(s)' /\ StageOf(s)'
      BY <1>0, <2>1, <2>3, <2>4, <2>5, Fields DEF KnownOf, StageOf
    <2>9. s \notin lost => FollowsOf(s)'
      BY <1>0, <1>1, <2>1, <2>3, <2>4, <2>5, Fields DEF FollowsOf, Right
    <2> QED  BY <1>0, <2>5, <2>6, <2>7, <2>8, <2>9, Goes
  <1>2. CASE ~ query[s].retry
    <2>1. /\ AskTypes' /\ query'[s].at = "off" /\ query'[s].copy.id = 0
          /\ \A r \in Sessions \ {s} : query'[r] = query[r]
      BY <1>2, AskRest DEF Bindings!Broken
    <2>2. /\ RowTypes' /\ rows'[s].bound = query[s].copy /\ rows'[s].there = rows[s].there
          /\ \A r \in Sessions \ {s} : rows'[r] = rows[r]
      BY <1>2, RowSet, Fields DEF Bindings!Broken
    <2>3. link' = link /\ lost' = IF talk[s] = query[s].copy.id THEN lost ELSE lost \cup {s}
      BY <1>2 DEF Bindings!Broken, Bindings!LosesUnless
    <2>4. BindingTypes' /\ Others(s)
      BY <1>0, <2>1, <2>2, <2>3, TypesNow DEF Others
    <2>5. \A t \in Nat : Holds(s, t)' => Holds(s, t)
      BY <1>0, <2>1, <2>2, <2>3 DEF Holds
    <2>6. KnownOf(s)' /\ StageOf(s)'
      BY <1>0, <2>1, <2>2, <2>3, Fields DEF KnownOf, StageOf
    <2>7. s \notin lost' => FollowsOf(s)'
      BY <1>0, <2>1, <2>2, <2>3, Fields DEF FollowsOf, On
    <2> QED  BY <1>0, <2>2, <2>3, <2>4, <2>5, <2>6, <2>7, Goes
  <1> QED  BY <1>1, <1>2

\* A query is cancelled, and what the connection says is saved, or not.
LEMMA CancelStep ==
  ASSUME BindingInv, NEW s \in Sessions, NEW kept \in BOOLEAN, Bindings!Cancel(s, kept)
  PROVE  BindingInv'
  <1> DEFINE b == [id |-> link[s].on, fork |-> FALSE]
             rewinds == kept /\ link[s].up /\ link[s].on # 0 /\ ~ link[s].fork
  <1>0. query[s].at \in {"stream", "bind", "save"} /\ rows[s].there = "yes"
        /\ UNCHANGED <<files, made, cache, warm, import, talk, removed, twice>>
    BY Fields DEF Bindings!Cancel, StageOf
  <1>1. /\ AskTypes' /\ query'[s].at = "off" /\ query'[s].copy.id = 0
        /\ \A r \in Sessions \ {s} : query'[r] = query[r]
    BY AskRest DEF Bindings!Cancel
  <1>2. CASE rewinds /\ Bindings!Bind(s, b) /\ UNCHANGED <<link, lost>>
    <2>1. b \in Idents /\ b.id = link[s].on /\ b.fork = FALSE
      BY Fields DEF Idents
    <2>2. /\ RowTypes' /\ rows'[s].bound = b /\ rows'[s].there = rows[s].there
          /\ \A r \in Sessions \ {s} : rows'[r] = rows[r]
      BY <1>2, <2>1, RowSet
    <2> HIDE DEF b
    <2>3. BindingTypes' /\ Others(s)
      BY <1>0, <1>1, <1>2, <2>2, TypesNow DEF Others
    <2>4. \A t \in Nat : Holds(s, t)' => Holds(s, t)
      BY <1>0, <1>1, <1>2, <2>1, <2>2 DEF Holds
    <2>5. KnownOf(s)' /\ StageOf(s)'
      BY <1>0, <1>1, <1>2, <2>1, <2>2, Fields DEF KnownOf, StageOf
    <2>6. s \notin lost => FollowsOf(s)'
      BY <1>0, <1>1, <1>2, <2>1, <2>2, Fields DEF FollowsOf, On, Right, Told, Lines, Idents
    <2> QED  BY <1>0, <1>2, <2>2, <2>3, <2>4, <2>5, <2>6, Goes
  <1>3. CASE Bindings!Bind(s, Bindings!Unbound) /\ Bindings!Unlink(s) /\ Bindings!Loses(s)
    <2>1. /\ RowTypes' /\ rows'[s].bound.id = 0 /\ rows'[s].there = rows[s].there
          /\ \A r \in Sessions \ {s} : rows'[r] = rows[r]
      BY <1>3, RowSet, Unbinding
    <2>2. /\ LineTypes' /\ ~ link'[s].up /\ link'[s].on = 0
          /\ \A r \in Sessions \ {s} : link'[r] = link[r]
      BY <1>3, LineDown
    <2>3. lost' = lost \cup {s}
      BY <1>3 DEF Bindings!Loses, Bindings!LosesUnless
    <2>4. BindingTypes' /\ Others(s)
      BY <1>0, <1>1, <2>1, <2>2, TypesNow DEF Others
    <2>5. \A t \in Nat : t # 0 /\ Holds(s, t)' => Holds(s, t)
      BY <1>0, <1>1, <2>1, <2>2 DEF Holds
    <2>6. KnownOf(s)' /\ StageOf(s)'
      BY <1>0, <1>1, <2>1, <2>2, Fields DEF KnownOf, StageOf
    <2> QED  BY <1>0, <2>1, <2>3, <2>4, <2>5, <2>6, Goes
  <1>4. CASE Bindings!Unlink(s) /\ Bindings!LosesUnless(s, talk[s] = rows[s].bound.id)
             /\ UNCHANGED rows
    <2>1. /\ LineTypes' /\ ~ link'[s].up /\ link'[s].on = 0
          /\ \A r \in Sessions \ {s} : link'[r] = link[r]
      BY <1>4, LineDown
    <2>2. lost' = IF talk[s] = rows[s].bound.id THEN lost ELSE lost \cup {s}
      BY <1>4 DEF Bindings!LosesUnless
    <2>3. BindingTypes' /\ Others(s)
      BY <1>0, <1>1, <1>4, <2>1, TypesNow DEF Others
    <2>4. \A t \in Nat : Holds(s, t)' => Holds(s, t)
      BY <1>0, <1>1, <1>4, <2>1 DEF Holds
    <2>5. KnownOf(s)' /\ StageOf(s)'
      BY <1>0, <1>1, <1>4, <2>1, Fields DEF KnownOf, StageOf
    <2>6. s \notin lost' => FollowsOf(s)'
      BY <1>0, <1>1, <1>4, <2>1, <2>2, Fields DEF FollowsOf, On
    <2> QED  BY <1>0, <1>4, <2>2, <2>3, <2>4, <2>5, <2>6, Goes
  <1> QED  BY <1>2, <1>3, <1>4 DEF Bindings!Cancel

\* The prewarming of one session is at another step.
LEMMA WarmSet ==
  ASSUME BindingInv, NEW s \in Sessions, NEW w \in Warmings, warm' = [warm EXCEPT ![s] = w]
  PROVE  WarmTypes' /\ warm'[s] = w /\ \A r \in Sessions \ {s} : warm'[r] = warm[r]
  BY DEF BindingInv, BindingTypes, WarmTypes

\* A prewarming looks.
LEMMA WarmLookStep ==
  ASSUME BindingInv, NEW s \in Sessions, Bindings!WarmLook(s)  PROVE BindingInv'
  <1> DEFINE w == [at |-> "open", copy |-> rows[s].bound]
  <1>0. rows[s].there = "yes" /\ rows[s].bound.id # 0
        /\ UNCHANGED <<files, made, cache, link, query, import, talk, removed, twice>>
    BY DEF Bindings!WarmLook, Bindings!There
  <1>1. CASE warm' = [warm EXCEPT ![s] = w] /\ UNCHANGED <<rows, lost>>
    <2>1. w \in Warmings /\ w.at = "open" /\ w.copy = rows[s].bound
      BY Fields DEF Warmings
    <2> HIDE DEF w
    <2>2. WarmTypes' /\ warm'[s] = w /\ \A r \in Sessions \ {s} : warm'[r] = warm[r]
      BY <1>1, <2>1, WarmSet
    <2>3. BindingTypes' /\ Others(s)
      BY <1>0, <1>1, <2>2, TypesNow DEF Others
    <2>4. \A t \in Nat : Holds(s, t)' => Holds(s, t)
      BY <1>0, <1>1, <2>1, <2>2 DEF Holds
    <2>5. KnownOf(s)' /\ StageOf(s)'
      BY <1>0, <1>1, <2>1, <2>2, Fields DEF KnownOf, StageOf
    <2>6. s \notin lost => FollowsOf(s)'
      BY <1>0, <1>1, Fields DEF FollowsOf, On, Right, Told
    <2> QED  BY <1>0, <1>1, <2>3, <2>4, <2>5, <2>6, Goes
  <1>2. CASE Bindings!Bind(s, Bindings!Unbound) /\ Bindings!Loses(s) /\ UNCHANGED warm
    <2>1. /\ RowTypes' /\ rows'[s].bound.id = 0 /\ rows'[s].there = rows[s].there
          /\ \A r \in Sessions \ {s} : rows'[r] = rows[r]
      BY <1>2, RowSet, Unbinding
    <2>2. lost' = lost \cup {s}
      BY <1>2 DEF Bindings!Loses, Bindings!LosesUnless
    <2>3. BindingTypes' /\ Others(s)
      BY <1>0, <1>2, <2>1, TypesNow DEF Others
    <2>4. \A t \in Nat : t # 0 /\ Holds(s, t)' => Holds(s, t)
      BY <1>0, <1>2, <2>1 DEF Holds
    <2>5. KnownOf(s)' /\ StageOf(s)'
      BY <1>0, <1>2, <2>1, Fields DEF KnownOf, StageOf
    <2> QED  BY <1>0, <2>1, <2>2, <2>3, <2>4, <2>5, Goes
  <1> QED  BY <1>1, <1>2 DEF Bindings!WarmLook

\* A prewarming opens the connection, or finds no transcript.
LEMMA WarmOpenStep ==
  ASSUME BindingInv, NEW s \in Sessions, Bindings!WarmOpen(s)  PROVE BindingInv'
  <1> DEFINE b == warm[s].copy
             none == b.id \notin files
             w == [warm[s] EXCEPT !.at = IF none /\ ~ b.fork THEN "clear" ELSE "off"]
             l == IF none THEN Bindings!Down ELSE Bindings!On(b)
  <1>0. /\ warm[s].at = "open" /\ rows[s].there # "not yet" /\ b.id # 0 /\ b \in Idents
        /\ UNCHANGED <<rows, files, made, import, talk, removed, twice>>
    BY Fields DEF Bindings!WarmOpen, BirthOf, StageOf
  <1>1. w \in Warmings /\ w.copy = b
    BY Fields DEF Warmings
  <1>2. w.at \in {"clear", "off"}
    BY Fields DEF Warmings
  <1>3. l \in Lines /\ (l.up => l.on = b.id /\ l.fork = b.fork) /\ l.on \in {0, b.id}
    BY <1>0 DEF Bindings!Down, Bindings!On, Lines, Idents
  <1>4. link' = [link EXCEPT ![s] = l]
    BY DEF Bindings!WarmOpen
  <1>5. warm' = [warm EXCEPT ![s] = w]
    BY DEF Bindings!WarmOpen, BindingInv, BindingTypes, WarmTypes
  <1>6. lost' = IF rows[s].bound = b /\ query[s] = Bindings!Rest THEN lost ELSE lost \cup {s}
    BY DEF Bindings!WarmOpen, Bindings!LosesUnless
  <1>7. /\ AskTypes' /\ \A r \in Sessions \ {s} : query'[r] = query[r]
        /\ query'[s].copy = query[s].copy /\ query'[s].at # "bind"
        /\ query'[s] = query[s] \/ (query'[s].at = "broken" /\ query[s].at # "off")
    <2>1. CASE Bindings!Streams(s)
      <3>1. Bindings!Step(s, "broken")
        BY <2>1 DEF Bindings!WarmOpen, Bindings!Step
      <3> QED  BY <2>1, <3>1, AskStep DEF Bindings!Streams
    <2>2. CASE ~ Bindings!Streams(s)
      <3>1. query' = query
        BY <2>2 DEF Bindings!WarmOpen
      <3> QED  BY <2>2, <3>1 DEF Bindings!Streams, BindingInv, BindingTypes, AskTypes
    <2> QED  BY <2>1, <2>2
  <1>8. /\ FileTypes' /\ \A r \in Sessions \ {s} : cache'[r] = cache[r]
        /\ cache'[s] = 0 \/ cache'[s] = cache[s]
    <2>1. cache' = [cache EXCEPT ![s] = 0] \/ cache' = cache
      BY DEF Bindings!WarmOpen
    <2>2. /\ cache \in [Sessions -> Nat] /\ talk' \in [Sessions -> Nat]
          /\ made' \in Nat /\ files' \subseteq 1 .. made'
      BY <1>0 DEF BindingInv, BindingTypes, FileTypes
    <2>3. cache' \in [Sessions -> Nat] /\ (\A r \in Sessions \ {s} : cache'[r] = cache[r])
          /\ (cache'[s] = 0 \/ cache'[s] = cache[s])
      BY ONLY <2>1, <2>2, s \in Sessions
    <2> QED  BY <2>2, <2>3 DEF FileTypes
  <1> HIDE DEF w, l, none
  <1>9. LineTypes' /\ link'[s] = l /\ \A r \in Sessions \ {s} : link'[r] = link[r]
    BY <1>3, <1>4, LineSet
  <1>10. WarmTypes' /\ warm'[s] = w /\ \A r \in Sessions \ {s} : warm'[r] = warm[r]
    BY <1>1, <1>5, WarmSet
  <1>11. BindingTypes' /\ Others(s)
    BY <1>0, <1>7, <1>8, <1>9, <1>10, TypesNow DEF Others
  <1>12. \A t \in Nat : t # 0 /\ Holds(s, t)' => Holds(s, t)
    BY <1>0, <1>1, <1>3, <1>7, <1>8, <1>9, <1>10 DEF Holds
  <1>13. KnownOf(s)'
    <2>1. /\ KnownOf(s) /\ 0 <= made /\ query[s].copy.id \in Nat
      BY Fields
    <2>2. link'[s].on <= made
      BY <2>1, <1>3, <1>9 DEF KnownOf
    <2>3. cache'[s] <= made
      BY <2>1, <1>8 DEF KnownOf
    <2>4. warm'[s].copy.id <= made /\ query'[s].copy.id <= made
      BY <2>1, <1>1, <1>7, <1>10 DEF KnownOf
    <2> QED  BY <2>1, <2>2, <2>3, <2>4, <1>0 DEF KnownOf
  <1>14. StageOf(s)'
    BY <1>0, <1>2, <1>7, <1>10, Fields DEF StageOf
  <1>15. rows[s].there = "yes" /\ s \notin lost' => FollowsOf(s)'
    <2> SUFFICES ASSUME rows[s].there = "yes", s \notin lost'  PROVE FollowsOf(s)'
      OBVIOUS
    <2>1. rows[s].bound = b /\ query[s] = Bindings!Rest /\ s \notin lost
      BY <1>6
    <2>2. query[s].at = "off" /\ query'[s].at = "off"
      BY <2>1, <1>7 DEF Bindings!Rest
    <2>3. rows[s].bound.id = talk[s]
      BY <2>1, <2>2, Fields DEF FollowsOf
    <2> QED  BY <1>0, <1>3, <1>9, <2>1, <2>2, <2>3 DEF FollowsOf, On
  <1> QED  BY <1>0, <1>6, <1>11, <1>12, <1>13, <1>14, <1>15, Goes

\* A prewarming that found no transcript clears the binding.
LEMMA WarmClearStep ==
  ASSUME BindingInv, NEW s \in Sessions, Bindings!WarmClear(s)  PROVE BindingInv'
  <1>0. /\ warm[s].at = "clear" /\ rows[s].there # "not yet"
        /\ UNCHANGED <<files, made, cache, link, query, import, talk, removed, twice>>
    BY Fields DEF Bindings!WarmClear, BirthOf
  <1>1. Bindings!Cold \in Warmings /\ Bindings!Cold.at = "off" /\ Bindings!Cold.copy.id = 0
    BY DEF Bindings!Cold, Bindings!Unbound, Warmings, Idents
  <1>2. /\ WarmTypes' /\ warm'[s].at = "off" /\ warm'[s].copy.id = 0
        /\ \A r \in Sessions \ {s} : warm'[r] = warm[r]
    BY <1>1, WarmSet DEF Bindings!WarmClear
  <1>5. KnownOf(s) /\ 0 <= made
    BY Fields
  <1>3. CASE Bindings!Bind(s, Bindings!Unbound) /\ Bindings!Loses(s)
    <2>1. /\ RowTypes' /\ rows'[s].bound.id = 0 /\ rows'[s].there = rows[s].there
          /\ \A r \in Sessions \ {s} : rows'[r] = rows[r]
      BY <1>3, RowSet, Unbinding
    <2>2. lost' = lost \cup {s}
      BY <1>3 DEF Bindings!Loses, Bindings!LosesUnless
    <2>3. BindingTypes' /\ Others(s)
      BY <1>0, <1>2, <2>1, TypesNow DEF Others
    <2>4. \A t \in Nat : t # 0 /\ Holds(s, t)' => Holds(s, t)
      BY <1>0, <1>1, <1>2, <2>1 DEF Holds
    <2>5. KnownOf(s)'
      BY <1>0, <1>2, <2>1, <1>5 DEF KnownOf
    <2>6. StageOf(s)'
      BY <1>0, <1>2, <2>1, Fields DEF StageOf
    <2> QED  BY <1>0, <2>1, <2>2, <2>3, <2>4, <2>5, <2>6, Goes
  <1>4. CASE rows[s].there # "yes" /\ UNCHANGED <<rows, lost>>
    <2>1. BindingTypes' /\ Others(s)
      BY <1>0, <1>2, <1>4, TypesNow DEF Others
    <2>2. \A t \in Nat : Holds(s, t)' => Holds(s, t)
      BY <1>0, <1>1, <1>2, <1>4 DEF Holds
    <2>3. KnownOf(s)'
      BY <1>0, <1>2, <1>4, <1>5 DEF KnownOf
    <2>4. StageOf(s)'
      BY <1>0, <1>2, <1>4, Fields DEF StageOf
    <2> QED  BY <1>0, <1>4, <2>1, <2>2, <2>3, <2>4, Goes
  <1> QED  BY <1>3, <1>4 DEF Bindings!WarmClear, Bindings!There

\* An idle connection is closed.
LEMMA IdleStep ==
  ASSUME BindingInv, NEW s \in Sessions, Bindings!IdleDisconnect(s)  PROVE BindingInv'
  <1>0. UNCHANGED <<rows, files, made, cache, query, warm, import, talk, removed, twice, lost>>
    BY DEF Bindings!IdleDisconnect
  <1>6. rows[s].there # "not yet" /\ query[s].at = "off"
    <2>1. link[s].up /\ query[s].at = "off"
      BY DEF Bindings!IdleDisconnect, Bindings!Rest
    <2> QED  BY <2>1, Fields DEF BirthOf
  <1>1. /\ LineTypes' /\ ~ link'[s].up /\ link'[s].on = 0
        /\ \A r \in Sessions \ {s} : link'[r] = link[r]
    BY LineDown DEF Bindings!IdleDisconnect
  <1>2. BindingTypes' /\ Others(s)
    BY <1>0, <1>1, TypesNow DEF Others
  <1>3. \A t \in Nat : Holds(s, t)' => Holds(s, t)
    BY <1>0, <1>1 DEF Holds
  <1>4. KnownOf(s)' /\ StageOf(s)'
    <2>1. KnownOf(s) /\ StageOf(s) /\ 0 <= made
      BY Fields
    <2> QED  BY <2>1, <1>0, <1>1, <1>6 DEF KnownOf, StageOf
  <1>5. rows[s].there = "yes" /\ s \notin lost => FollowsOf(s)'
    BY <1>0, <1>1, <1>6, Fields DEF FollowsOf, On
  <1> QED  BY <1>0, <1>2, <1>3, <1>4, <1>5, <1>6, Goes

\* The conversation is cleared: another one, or none.
LEMMA ClearStep ==
  ASSUME BindingInv, NEW s \in Sessions, NEW ok \in BOOLEAN, Bindings!Clear(s, ok)
  PROVE  BindingInv'
  <1>0. /\ rows[s].there = "yes" /\ query[s].at = "off" /\ lost' = lost \ {s}
        /\ UNCHANGED <<query, warm, import, removed, twice>>
    BY DEF Bindings!Clear, Bindings!Rest, Bindings!There
  <1>1. CASE /\ Bindings!Fresh /\ cache' = [cache EXCEPT ![s] = made']
             /\ link' = [link EXCEPT ![s] = [up |-> TRUE, on |-> made', fork |-> FALSE]]
             /\ Bindings!Bind(s, [id |-> made', fork |-> FALSE])
             /\ talk' = [talk EXCEPT ![s] = made']
    <2>1. /\ made' \in Nat /\ made' > made /\ made' \in files' /\ files' \subseteq 1 .. made'
          /\ files \subseteq files' /\ made <= made' /\ made' # 0 /\ made' <= made'
      <3>1. made' = made + 1 /\ made \in Nat /\ files' = files \cup {made'} /\ files' \subseteq 1 .. made'
        BY <1>1, FreshOne, Fields
      <3> QED  BY <3>1
    <2> DEFINE b == [id |-> made', fork |-> FALSE]
               l == [up |-> TRUE, on |-> made', fork |-> FALSE]
    <2>2. b \in Idents /\ b.id = made' /\ b.fork = FALSE /\ l \in Lines /\ l.on = made' /\ l.fork = FALSE
      BY <2>1 DEF Idents, Lines
    <2> HIDE DEF b, l
    <2>3. /\ RowTypes' /\ rows'[s].bound = b /\ rows'[s].there = rows[s].there
          /\ \A r \in Sessions \ {s} : rows'[r] = rows[r]
      BY <1>1, <2>2, RowSet DEF b
    <2>4. /\ LineTypes' /\ link'[s].on = made' /\ link'[s].fork = FALSE
          /\ \A r \in Sessions \ {s} : link'[r] = link[r]
      BY <1>1, <2>2, LineSet DEF l
    <2>5. /\ FileTypes' /\ cache'[s] = made' /\ talk'[s] = made'
          /\ \A r \in Sessions \ {s} : cache'[r] = cache[r] /\ talk'[r] = talk[r]
      BY <1>1, <2>1 DEF BindingInv, BindingTypes, FileTypes
    <2>6. BindingTypes' /\ Others(s)
      BY <1>0, <2>3, <2>4, <2>5, TypesNow DEF Others
    <2>7. \A t \in Nat : t # 0 /\ Holds(s, t)' => Holds(s, t) \/ (t > made /\ t \in files')
      BY <1>0, <2>1, <2>2, <2>3, <2>4, <2>5 DEF Holds
    <2>8. KnownOf(s)' /\ StageOf(s)'
      <3>1. KnownOf(s) /\ StageOf(s) /\ query[s].copy.id \in Nat /\ warm[s].copy.id \in Nat
            /\ import[s].id \in Nat /\ made \in Nat
        BY Fields
      <3>2. KnownOf(s)'
        BY <3>1, <1>0, <2>1, <2>2, <2>3, <2>4, <2>5 DEF KnownOf
      <3>3. StageOf(s)'
        BY <3>1, <1>0 DEF StageOf
      <3> QED  BY <3>2, <3>3
    <2>9. FollowsOf(s)'
      BY <1>0, <2>1, <2>2, <2>3, <2>4, <2>5 DEF FollowsOf, On
    <2>10. import'[s] = import[s] /\ removed' = removed /\ twice' = twice /\ lost \ {s} \subseteq lost'
      BY <1>0
    <2> QED  BY <1>0, <2>1, <2>3, <2>6, <2>7, <2>8, <2>9, <2>10, Moves
  <1>2. CASE /\ Bindings!Unlink(s) /\ cache' = [cache EXCEPT ![s] = 0]
             /\ Bindings!Bind(s, Bindings!Unbound) /\ talk' = [talk EXCEPT ![s] = 0]
             /\ UNCHANGED <<files, made>>
    <2>1. /\ RowTypes' /\ rows'[s].bound.id = 0 /\ rows'[s].there = rows[s].there
          /\ \A r \in Sessions \ {s} : rows'[r] = rows[r]
      BY <1>2, RowSet, Unbinding
    <2>2. /\ LineTypes' /\ ~ link'[s].up /\ link'[s].on = 0
          /\ \A r \in Sessions \ {s} : link'[r] = link[r]
      BY <1>2, LineDown
    <2>3. /\ FileTypes' /\ cache'[s] = 0 /\ talk'[s] = 0
          /\ \A r \in Sessions \ {s} : cache'[r] = cache[r] /\ talk'[r] = talk[r]
      BY <1>2 DEF BindingInv, BindingTypes, FileTypes
    <2>4. BindingTypes' /\ Others(s)
      BY <1>0, <2>1, <2>2, <2>3, TypesNow DEF Others
    <2>5. \A t \in Nat : t # 0 /\ Holds(s, t)' => Holds(s, t)
      BY <1>0, <2>1, <2>2, <2>3 DEF Holds
    <2>6. KnownOf(s)' /\ StageOf(s)'
      <3>1. KnownOf(s) /\ StageOf(s) /\ 0 <= made
        BY Fields
      <3> QED  BY <3>1, <1>0, <1>2, <2>1, <2>2, <2>3 DEF KnownOf, StageOf
    <2>7. FollowsOf(s)'
      BY <1>0, <2>1, <2>2, <2>3 DEF FollowsOf, On
    <2>8. /\ import'[s] = import[s] /\ removed' = removed /\ twice' = twice
          /\ lost \ {s} \subseteq lost' /\ files \subseteq files'
      BY <1>0, <1>2
    <2>9. made <= made'
      <3>1. made' = made /\ made \in Nat
        BY <1>2, Fields
      <3> QED  BY ONLY <3>1
    <2> QED  BY <1>0, <2>1, <2>4, <2>5, <2>6, <2>7, <2>8, <2>9, Moves
  <1> QED  BY <1>1, <1>2 DEF Bindings!Clear

\* A session is deleted, and the transcript that is its own.
LEMMA DeleteStep ==
  ASSUME BindingInv, NEW s \in Sessions, Bindings!Delete(s)  PROVE BindingInv'
  <1> DEFINE x == Bindings!TranscriptOf(s)
             e == [rows[s] EXCEPT !.there = "no more", !.bound = Bindings!Unbound]
  <1>0. /\ rows[s].there = "yes" /\ query[s].at = "off" /\ lost' = lost \ {s}
        /\ UNCHANGED <<made, query, warm, import, twice>>
    <2>1. rows[s].there = "yes" /\ query[s] = Bindings!Rest
      BY DEF Bindings!Delete, Bindings!There
    <2>2. query[s].at = "off"
      BY ONLY <2>1 DEF Bindings!Rest
    <2>3. lost' = lost \ {s} /\ UNCHANGED <<made, query, warm, import, twice>>
      BY DEF Bindings!Delete
    <2> QED  BY <2>1, <2>2, <2>3
  <1>1. /\ files' = files \ {x}
        /\ removed' = removed \cup (({x} \cap {import[r].id : r \in Sessions}) \ {0})
    BY DEF Bindings!Delete
  <1>2. x = 0 \/ Holds(s, x)
    BY <1>0 DEF Bindings!TranscriptOf, Holds
  <1> HIDE DEF x
  <1>3. e \in SessionRows /\ e.there = "no more" /\ e.bound.id = 0
    BY Fields DEF SessionRows, Bindings!Unbound, Idents
  <1>4. rows' = [rows EXCEPT ![s] = e]
    BY DEF Bindings!Delete, BindingInv, BindingTypes, RowTypes
  <1> HIDE DEF e
  <1>5. RowTypes' /\ rows'[s] = e /\ \A r \in Sessions \ {s} : rows'[r] = rows[r]
    BY <1>3, <1>4 DEF BindingInv, BindingTypes, RowTypes
  <1>6. /\ LineTypes' /\ ~ link'[s].up /\ link'[s].on = 0
        /\ \A r \in Sessions \ {s} : link'[r] = link[r]
    BY LineDown DEF Bindings!Delete
  <1>7. /\ FileTypes' /\ cache'[s] = 0 /\ talk'[s] = 0
        /\ \A r \in Sessions \ {s} : cache'[r] = cache[r] /\ talk'[r] = talk[r]
    <2>1. cache' = [cache EXCEPT ![s] = 0] /\ talk' = [talk EXCEPT ![s] = 0]
      BY DEF Bindings!Delete
    <2> QED  BY <2>1, <1>0, <1>1 DEF BindingInv, BindingTypes, FileTypes
  <1>8. BindingTypes' /\ Others(s)
    BY <1>0, <1>5, <1>6, <1>7, TypesNow DEF Others
  <1>9. \A t \in Nat : t # 0 /\ Holds(s, t)' => Holds(s, t)
    BY <1>0, <1>3, <1>5, <1>6, <1>7 DEF Holds
  <1>10. \A r \in Sessions \ {s} :
           /\ \A t \in Nat : Holds(r, t)' <=> Holds(r, t)
           /\ BirthOf(r)' /\ StageOf(r)' /\ (rows'[r].there = "yes" /\ r \notin lost' => FollowsOf(r)')
           /\ KnownOf(r)' /\ rows'[r] = rows[r]
    <2> SUFFICES ASSUME NEW r \in Sessions \ {s}
                 PROVE  /\ \A t \in Nat : Holds(r, t)' <=> Holds(r, t)
                        /\ BirthOf(r)' /\ StageOf(r)'
                        /\ (rows'[r].there = "yes" /\ r \notin lost' => FollowsOf(r)')
                        /\ KnownOf(r)' /\ rows'[r] = rows[r]
      OBVIOUS
    <2>1. import[r].id # 0 /\ import[r].id \in files \cup removed =>
            import[r].id \in files' \cup removed'
      BY <1>1
    <2>2. made \in Nat /\ made' \in Nat /\ made <= made'
      <3>1. made' = made /\ made \in Nat
        BY <1>0, Fields
      <3> QED  BY ONLY <3>1
    <2>3. lost \ {s} \subseteq lost'
      BY <1>0
    <2> QED  BY <2>1, <2>2, <2>3, <1>5, <1>8, OthersKeep
  <1>11. KnownOf(s)' /\ StageOf(s)' /\ BirthOf(s)'
    <2>1. KnownOf(s) /\ StageOf(s) /\ BirthOf(s) /\ 0 <= made
      BY Fields
    <2>2. KnownOf(s)'
      BY <2>1, <1>0, <1>3, <1>5, <1>6, <1>7 DEF KnownOf
    <2>3. StageOf(s)' /\ BirthOf(s)'
      BY <2>1, <1>0, <1>3, <1>5 DEF StageOf, BirthOf
    <2> QED  BY <2>2, <2>3
  <1>12. KnownInv' /\ BirthInv' /\ StageInv' /\ FollowsInv'
    BY <1>3, <1>5, <1>10, <1>11 DEF KnownInv, BirthInv, StageInv, FollowsInv
  <1>13. AloneInv'
    BY <1>0, <1>9, <1>10, AloneKept
  <1>14. FilesInv'
    <2> SUFFICES ASSUME NEW r \in Sessions, NEW t \in Nat, rows'[r].there = "yes", t # 0, Holds(r, t)'
                 PROVE  t \in files' \cup removed' \cup twice'
      BY DEF FilesInv
    <2>1. r # s /\ rows[r].there = "yes" /\ Holds(r, t)
      BY <1>3, <1>5, <1>10
    <2>2. t \in files \cup removed \cup twice
      BY <2>1 DEF BindingInv, FilesInv
    <2>3. t = x => t \in twice
      BY <2>1, <1>2 DEF BindingInv, AloneInv
    <2> QED  BY <2>2, <2>3, <1>0, <1>1
  <1> QED  BY <1>8, <1>12, <1>13, <1>14 DEF BindingInv

\* A session comes into being.
LEMMA Births ==
  ASSUME BindingInv, NEW s \in Sessions, BindingTypes', Others(s), rows[s].there = "not yet",
         rows'[s].there = "yes", import'[s].id = 0, UNCHANGED <<files, made, removed, lost>>,
         twice \subseteq twice',
         \A t \in Nat : t # 0 /\ Holds(s, t)' => t \in files \cup removed,
         \A t \in Nat : t # 0 /\ Holds(s, t)' =>
           \A r \in Sessions \ {s} : Holds(r, t) => t \in twice',
         KnownOf(s)', StageOf(s)', s \notin lost => FollowsOf(s)'
  PROVE  BindingInv'
  <1>0. made \in Nat /\ made' \in Nat /\ made <= made'
    <2>1. made' = made /\ made \in Nat
      BY DEF BindingInv, BindingTypes, FileTypes
    <2> QED  BY ONLY <2>1
  <1>1. \A r \in Sessions \ {s} :
          /\ \A t \in Nat : Holds(r, t)' <=> Holds(r, t)
          /\ BirthOf(r)' /\ StageOf(r)' /\ (rows'[r].there = "yes" /\ r \notin lost' => FollowsOf(r)')
          /\ KnownOf(r)' /\ rows'[r] = rows[r]
    BY OthersKeep, <1>0 DEF Others
  <1>2. BirthOf(s)'
    BY DEF BirthOf
  <1>3. KnownInv' /\ BirthInv' /\ StageInv' /\ FollowsInv'
    BY <1>1, <1>2 DEF KnownInv, BirthInv, StageInv, FollowsInv
  <1>4. AloneInv'
    <2> SUFFICES ASSUME NEW p \in Sessions, NEW r \in Sessions, NEW t \in Nat, p # r, t # 0,
                        Holds(p, t)', Holds(r, t)'
                 PROVE  t \in twice'
      BY DEF AloneInv
    <2>0. \A q \in Sessions : s # q /\ Holds(s, t)' /\ Holds(q, t)' => t \in twice'
      BY <1>1
    <2>1. CASE p = s
      BY <2>0, <2>1
    <2>2. CASE r = s
      BY <2>0, <2>2
    <2>3. CASE p # s /\ r # s
      BY <2>3, <1>1 DEF BindingInv, AloneInv
    <2> QED  BY <2>1, <2>2, <2>3
  <1>5. FilesInv'
    <2> SUFFICES ASSUME NEW r \in Sessions, NEW t \in Nat, rows'[r].there = "yes", t # 0, Holds(r, t)'
                 PROVE  t \in files' \cup removed' \cup twice'
      BY DEF FilesInv
    <2>1. CASE r = s
      BY <2>1
    <2>2. CASE r # s
      BY <2>2, <1>1 DEF BindingInv, FilesInv
    <2> QED  BY <2>1, <2>2
  <1> QED  BY <1>3, <1>4, <1>5 DEF BindingInv

\* The row of a session that comes into being.
LEMMA RowBorn ==
  ASSUME BindingInv, NEW s \in Sessions, NEW b \in Idents,
         rows' = [rows EXCEPT ![s].there = "yes", ![s].bound = b]
  PROVE  /\ RowTypes' /\ rows'[s].bound = b /\ rows'[s].there = "yes"
         /\ \A r \in Sessions \ {s} : rows'[r] = rows[r]
  <1>0. RowTypes /\ rows[s] \in SessionRows
    BY Fields DEF BindingInv, BindingTypes
  <1> DEFINE e == [rows[s] EXCEPT !.there = "yes", !.bound = b]
  <1>1. e \in SessionRows /\ e.bound = b /\ e.there = "yes"
    BY <1>0 DEF SessionRows
  <1>2. rows' = [rows EXCEPT ![s] = e]
    BY <1>0 DEF RowTypes
  <1> HIDE DEF e
  <1>3. rows' \in [Sessions -> SessionRows] /\ rows'[s] = e /\ \A r \in Sessions \ {s} : rows'[r] = rows[r]
    BY <1>0, <1>2, <1>1 DEF RowTypes
  <1> QED  BY <1>1, <1>3 DEF RowTypes

\* What a session has that is not there yet.
LEMMA Unborn ==
  ASSUME BindingInv, NEW s \in Sessions, rows[s].there = "not yet"
  PROVE  /\ rows[s].bound.id = 0 /\ ~ rows[s].bound.fork /\ ~ link[s].up /\ query[s].at = "off"
         /\ warm[s].at = "off" /\ cache[s] = 0 /\ talk[s] = 0
         /\ KnownOf(s) /\ StageOf(s) /\ 0 <= made
  <1>1. BirthOf(s) /\ KnownOf(s) /\ StageOf(s) /\ made \in Nat
    BY Fields
  <1>2. 0 <= made
    BY ONLY <1>1
  <1> QED  BY <1>1, <1>2 DEF BirthOf

\* What is not there yet, and what is not imported.
LEMMA Nothing == Bindings!Gone.there = "not yet" /\ Bindings!NoImport.id = 0
  BY DEF Bindings!Gone, Bindings!NoImport

\* A session is created.
LEMMA CreateStep ==
  ASSUME BindingInv, NEW s \in Sessions, Bindings!Create(s)  PROVE BindingInv'
  <1>0. rows[s].there = "not yet" /\ import[s].id = 0
    <2>1. rows[s] = Bindings!Gone /\ import[s] = Bindings!NoImport
      BY DEF Bindings!Create
    <2> QED  BY ONLY <2>1, Nothing
  <1>1. UNCHANGED <<files, made, cache, link, query, warm, import, talk, removed, twice, lost>>
    BY DEF Bindings!Create
  <1> DEFINE e == [rows[s] EXCEPT !.there = "yes"]
  <1>2. e \in SessionRows /\ e.there = "yes" /\ e.bound = rows[s].bound
    BY Fields DEF SessionRows
  <1>3. rows' = [rows EXCEPT ![s] = e]
    BY DEF Bindings!Create, BindingInv, BindingTypes, RowTypes
  <1> HIDE DEF e
  <1>4. RowTypes' /\ rows'[s] = e /\ \A r \in Sessions \ {s} : rows'[r] = rows[r]
    BY <1>2, <1>3 DEF BindingInv, BindingTypes, RowTypes
  <1>5. BindingTypes' /\ Others(s)
    BY <1>1, <1>4, TypesNow DEF Others
  <1>6. \A t \in Nat : ~ (t # 0 /\ Holds(s, t)')
    BY <1>0, <1>1, <1>2, <1>4, Unborn DEF Holds
  <1>7. KnownOf(s)' /\ StageOf(s)' /\ FollowsOf(s)'
    <2>1. KnownOf(s)'
      BY <1>0, <1>1, <1>2, <1>4, Unborn DEF KnownOf
    <2>2. StageOf(s)'
      BY <1>0, <1>1, <1>2, <1>4, Unborn DEF StageOf
    <2>3. FollowsOf(s)'
      BY <1>0, <1>1, <1>2, <1>4, Unborn DEF FollowsOf, On
    <2> QED  BY <2>1, <2>2, <2>3
  <1> QED  BY <1>0, <1>1, <1>2, <1>4, <1>5, <1>6, <1>7, Births

\* A session branches off.
LEMMA BranchStep ==
  ASSUME BindingInv, NEW s \in Sessions, NEW p \in Sessions, Bindings!Branch(s, p)
  PROVE  BindingInv'
  <1> DEFINE n == rows[p].bound.id
             b == [id |-> n, fork |-> n # 0]
  <1>0. rows[s].there = "not yet" /\ import[s].id = 0
    <2>1. rows[s] = Bindings!Gone /\ import[s] = Bindings!NoImport
      BY DEF Bindings!Branch
    <2> QED  BY ONLY <2>1, Nothing
  <1>1. UNCHANGED <<files, made, cache, link, query, warm, import, removed, twice, lost>>
    BY DEF Bindings!Branch
  <1>2. b \in Idents /\ b.id = n /\ (b.fork \/ n = 0) /\ n \in Nat /\ n <= made
    BY Fields DEF Idents, KnownOf
  <1>3. rows' = [rows EXCEPT ![s].there = "yes", ![s].bound = b] /\ talk' = [talk EXCEPT ![s] = n]
    BY DEF Bindings!Branch
  <1> HIDE DEF b, n
  <1>4. /\ RowTypes' /\ rows'[s].bound = b /\ rows'[s].there = "yes"
        /\ \A r \in Sessions \ {s} : rows'[r] = rows[r]
    BY <1>2, <1>3, RowBorn
  <1>5. FileTypes' /\ talk'[s] = n /\ \A r \in Sessions \ {s} : talk'[r] = talk[r]
    BY <1>1, <1>2, <1>3 DEF BindingInv, BindingTypes, FileTypes
  <1>6. BindingTypes' /\ Others(s)
    BY <1>1, <1>4, <1>5, TypesNow DEF Others
  <1>7. \A t \in Nat : ~ (t # 0 /\ Holds(s, t)')
    BY <1>0, <1>1, <1>2, <1>4, Unborn DEF Holds
  <1>8. KnownOf(s)' /\ StageOf(s)' /\ FollowsOf(s)'
    <2>1. KnownOf(s)'
      BY <1>0, <1>1, <1>2, <1>4, Unborn DEF KnownOf
    <2>2. StageOf(s)'
      BY <1>0, <1>1, <1>4, Unborn DEF StageOf
    <2>3. FollowsOf(s)'
      BY <1>0, <1>1, <1>2, <1>4, <1>5, Unborn DEF FollowsOf, On
    <2> QED  BY <2>1, <2>2, <2>3
  <1> QED  BY <1>0, <1>1, <1>4, <1>6, <1>7, <1>8, Births

\* A transcript is chosen to make a session of.
LEMMA ImportStep ==
  ASSUME BindingInv, NEW s \in Sessions, NEW t \in files, Bindings!Import(s, t)  PROVE BindingInv'
  <1> DEFINE i == [id |-> t, free |-> Bindings!Unowned(t)]
  <1>0. rows[s].there = "not yet" /\ Bindings!Unowned(t)
        /\ UNCHANGED <<rows, files, made, cache, link, query, warm, talk, removed, twice, lost>>
    <2>1. rows[s] = Bindings!Gone
      BY DEF Bindings!Import
    <2>2. rows[s].there = "not yet"
      BY ONLY <2>1, Nothing
    <2> QED  BY <2>2 DEF Bindings!Import, Bindings!MayImport
  <1>1. t \in Nat /\ t <= made
    <2>1. files \subseteq 1 .. made /\ made \in Nat
      BY DEF BindingInv, BindingTypes, FileTypes
    <2> QED  BY <2>1
  <1>2. i \in Imports /\ i.id = t /\ i.free
    BY <1>0, <1>1 DEF Imports
  <1>3. import' = [import EXCEPT ![s] = i]
    BY DEF Bindings!Import
  <1> HIDE DEF i
  <1>4. ImportTypes' /\ import'[s] = i /\ \A r \in Sessions \ {s} : import'[r] = import[r]
    BY <1>2, <1>3 DEF BindingInv, BindingTypes, ImportTypes
  <1>5. BindingTypes'
    BY <1>0, <1>4, TypesNow
  <1>6. AloneInv' /\ FilesInv' /\ StageInv' /\ FollowsInv'
    <2>4. \A r \in Sessions, u \in Nat : Holds(r, u)' <=> Holds(r, u)
      <3>1. UNCHANGED <<rows, link, query, warm, cache>>
        BY <1>0
      <3> QED  BY ONLY <3>1 DEF Holds
    <2>1. AloneInv' /\ FilesInv'
      BY <2>4, <1>0 DEF BindingInv, AloneInv, FilesInv
    <2>2. StageInv'
      BY <1>0 DEF BindingInv, StageInv, StageOf
    <2>3. FollowsInv'
      BY <1>0 DEF BindingInv, FollowsInv, FollowsOf, On, Right, Told
    <2> QED  BY <2>1, <2>2, <2>3
  <1>7. KnownInv'
    BY <1>0, <1>1, <1>2, <1>4 DEF BindingInv, KnownInv, KnownOf
  <1>8. BirthInv'
    BY <1>0, <1>1, <1>2, <1>4 DEF BindingInv, BirthInv, BirthOf
  <1> QED  BY <1>5, <1>6, <1>7, <1>8 DEF BindingInv

\* The session is made of it.
LEMMA ImportSavesStep ==
  ASSUME BindingInv, NEW s \in Sessions, Bindings!ImportSaves(s)  PROVE BindingInv'
  <1> DEFINE n == import[s].id
             b == [id |-> n, fork |-> FALSE]
             held == \E r \in Sessions \ {s} :
                       \/ link[r].up /\ link[r].on = n
                       \/ query[r].at # "off" /\ query[r].copy.id = n
                       \/ warm[r].at # "off" /\ warm[r].copy.id = n
                       \/ cache[r] = n \/ import[r].id = n
                       \/ Bindings!OwnedBy(r, n) /\ import[s].free
  <1>0. n # 0 /\ UNCHANGED <<files, made, cache, link, query, warm, removed, lost>>
    BY DEF Bindings!ImportSaves
  <1>1. rows[s].there = "not yet" /\ import[s].free /\ n \in files \cup removed /\ n \in Nat /\ n <= made
    BY <1>0, Fields DEF BirthOf, KnownOf
  <1>2. b \in Idents /\ b.id = n /\ b.fork = FALSE
    BY <1>1 DEF Idents
  <1>3. rows' = [rows EXCEPT ![s].there = "yes", ![s].bound = b] /\ talk' = [talk EXCEPT ![s] = n]
        /\ import' = [import EXCEPT ![s] = Bindings!NoImport]
    BY DEF Bindings!ImportSaves
  <1>4. twice' = IF held THEN twice \cup {n} ELSE twice
    BY DEF Bindings!ImportSaves
  <1>5. \A r \in Sessions \ {s} : Holds(r, n) => held
    <2> SUFFICES ASSUME NEW r \in Sessions \ {s}, Holds(r, n)  PROVE held
      OBVIOUS
    <2>1. CASE rows[r].there = "yes" /\ ~ rows[r].bound.fork /\ rows[r].bound.id = n
      <3>1. rows[r].bound = [id |-> n, fork |-> FALSE]
        BY <2>1, Fields DEF Idents
      <3> QED  BY <1>1, <2>1, <3>1 DEF Bindings!OwnedBy, Bindings!There
    <2>2. CASE ~ (rows[r].there = "yes" /\ ~ rows[r].bound.fork /\ rows[r].bound.id = n)
      BY <2>2 DEF Holds
    <2> QED  BY <2>1, <2>2
  <1> HIDE DEF held, b
  <1>6. /\ RowTypes' /\ rows'[s].bound = b /\ rows'[s].there = "yes"
        /\ \A r \in Sessions \ {s} : rows'[r] = rows[r]
    BY <1>2, <1>3, RowBorn
  <1>7. FileTypes' /\ talk'[s] = n /\ \A r \in Sessions \ {s} : talk'[r] = talk[r]
    BY <1>0, <1>1, <1>3 DEF BindingInv, BindingTypes, FileTypes
  <1>8. ImportTypes' /\ import'[s].id = 0 /\ \A r \in Sessions \ {s} : import'[r] = import[r]
    <2>1. Bindings!NoImport \in Imports /\ Bindings!NoImport.id = 0
      BY DEF Bindings!NoImport, Imports
    <2> QED  BY <2>1, <1>3 DEF BindingInv, BindingTypes, ImportTypes
  <1>9. BindingTypes' /\ Others(s)
    BY <1>0, <1>6, <1>7, <1>8, TypesNow DEF Others
  <1>10. \A t \in Nat : t # 0 /\ Holds(s, t)' => t = n
    BY <1>0, <1>1, <1>2, <1>6, Unborn DEF Holds
  <1>11. KnownOf(s)' /\ StageOf(s)' /\ FollowsOf(s)'
    <2>1. KnownOf(s)'
      BY <1>0, <1>1, <1>2, <1>6, <1>8, Unborn DEF KnownOf
    <2>2. StageOf(s)'
      BY <1>0, <1>1, <1>6, Unborn DEF StageOf
    <2>3. FollowsOf(s)'
      BY <1>0, <1>1, <1>2, <1>6, <1>7, Unborn DEF FollowsOf, On
    <2> QED  BY <2>1, <2>2, <2>3
  <1>12. \A t \in Nat : t # 0 /\ Holds(s, t)' => t \in files \cup removed
    BY <1>1, <1>10
  <1>13. \A t \in Nat : t # 0 /\ Holds(s, t)' =>
           \A r \in Sessions \ {s} : Holds(r, t) => t \in twice'
    BY <1>4, <1>5, <1>10
  <1>14. twice \subseteq twice'
    BY <1>4
  <1> QED  BY <1>0, <1>1, <1>6, <1>8, <1>9, <1>11, <1>12, <1>13, <1>14, Births

\* A transcript is deleted by hand.
LEMMA RemoveStep ==
  ASSUME BindingInv, NEW t \in files, Bindings!Remove(t)  PROVE BindingInv'
  <1>0. /\ files' = files \ {t} /\ removed' = removed \cup {t}
        /\ UNCHANGED <<rows, made, cache, link, query, warm, import, talk, twice, lost>>
    BY DEF Bindings!Remove
  <1>1. FileTypes'
    BY <1>0 DEF BindingInv, BindingTypes, FileTypes
  <1>2. BindingTypes'
    BY <1>0, <1>1, TypesNow
  <1>3. AloneInv' /\ KnownInv' /\ StageInv' /\ FollowsInv'
    BY <1>0 DEF BindingInv, AloneInv, KnownInv, StageInv, FollowsInv, Holds, KnownOf, StageOf,
                FollowsOf, On, Right, Told
  <1>4. FilesInv'
    BY <1>0 DEF BindingInv, FilesInv, Holds
  <1>5. BirthInv'
    BY <1>0 DEF BindingInv, BirthInv, BirthOf
  <1> QED  BY <1>2, <1>3, <1>4, <1>5 DEF BindingInv

\* The process ends, and with it whatever is not in the database.
LEMMA CrashStep == BindingInv /\ Bindings!Crash => BindingInv'
  <1> SUFFICES ASSUME BindingInv, Bindings!Crash  PROVE BindingInv'
    OBVIOUS
  <1>0. /\ lost' = lost \cup {s \in Sessions : query[s].at # "off" /\ talk[s] # rows[s].bound.id}
        /\ UNCHANGED <<rows, files, made, talk, removed, twice>>
    BY DEF Bindings!Crash
  <1>1. /\ cache' = [s \in Sessions |-> 0] /\ link' = [s \in Sessions |-> Bindings!Down]
        /\ query' = [s \in Sessions |-> Bindings!Rest] /\ warm' = [s \in Sessions |-> Bindings!Cold]
        /\ import' = [s \in Sessions |-> Bindings!NoImport]
    BY DEF Bindings!Crash
  <1>2. Bindings!Down \in Lines /\ ~ Bindings!Down.up /\ Bindings!Down.on = 0
    BY DEF Bindings!Down, Lines
  <1>3. Bindings!Rest \in Askings /\ Bindings!Rest.at = "off" /\ Bindings!Rest.copy.id = 0
    BY DEF Bindings!Rest, Bindings!Unbound, Askings, Idents
  <1>4. Bindings!Cold \in Warmings /\ Bindings!Cold.at = "off" /\ Bindings!Cold.copy.id = 0
    BY DEF Bindings!Cold, Bindings!Unbound, Warmings, Idents
  <1>5. Bindings!NoImport \in Imports /\ Bindings!NoImport.id = 0
    BY DEF Bindings!NoImport, Imports
  <1>6. LineTypes' /\ AskTypes' /\ WarmTypes' /\ ImportTypes'
    BY <1>1, <1>2, <1>3, <1>4, <1>5 DEF LineTypes, AskTypes, WarmTypes, ImportTypes
  <1>7. FileTypes'
    BY <1>0, <1>1 DEF BindingInv, BindingTypes, FileTypes
  <1>8. BindingTypes'
    BY <1>0, <1>6, <1>7, TypesNow
  <1>9. \A s \in Sessions : /\ ~ link'[s].up /\ link'[s].on = 0 /\ cache'[s] = 0
                            /\ query'[s].at = "off" /\ query'[s].copy.id = 0
                            /\ warm'[s].at = "off" /\ warm'[s].copy.id = 0 /\ import'[s].id = 0
    BY <1>1, <1>2, <1>3, <1>4, <1>5
  <1>10. \A s \in Sessions, t \in Nat : t # 0 /\ Holds(s, t)' => Holds(s, t)
    BY <1>0, <1>9 DEF Holds
  <1>11. AloneInv' /\ FilesInv'
    BY <1>0, <1>10 DEF BindingInv, AloneInv, FilesInv
  <1>12. KnownInv'
    <2> SUFFICES ASSUME NEW s \in Sessions  PROVE KnownOf(s)'
      BY DEF KnownInv
    <2>1. KnownOf(s) /\ made \in Nat
      BY Fields
    <2>2. 0 <= made
      BY ONLY <2>1
    <2> QED  BY <2>1, <2>2, <1>0, <1>9 DEF KnownOf
  <1>13. BirthInv' /\ StageInv'
    BY <1>0, <1>9 DEF BindingInv, BirthInv, BirthOf, StageInv, StageOf
  <1>14. FollowsInv'
    <2> SUFFICES ASSUME NEW s \in Sessions, rows'[s].there = "yes", s \notin lost'
                 PROVE  FollowsOf(s)'
      BY DEF FollowsInv
    <2>1. rows[s].bound.id = talk[s]
      BY <1>0, Fields DEF FollowsOf
    <2> QED  BY <2>1, <1>0, <1>9 DEF FollowsOf, On
  <1> QED  BY <1>8, <1>11, <1>12, <1>13, <1>14 DEF BindingInv

\* Every step of the bindings keeps their invariant.
LEMMA BindingStep == BindingInv /\ [Bindings!Next]_bindingVars => BindingInv'
  <1>1. ASSUME BindingInv, UNCHANGED bindingVars  PROVE BindingInv'
    <2>0. UNCHANGED <<rows, files, made, cache, link, query, warm, import, talk, removed, twice,
                      lost>>
      BY <1>1 DEF bindingVars
    <2>1. BindingTypes'
      BY <1>1, <2>0, TypesNow
    <2>2. AloneInv' /\ FilesInv'
      BY <1>1, <2>0 DEF BindingInv, AloneInv, FilesInv, Holds
    <2>3. KnownInv' /\ StageInv'
      BY <1>1, <2>0 DEF BindingInv, KnownInv, KnownOf, StageInv, StageOf
    <2>4. BirthInv'
      BY <1>1, <2>0 DEF BindingInv, BirthInv, BirthOf
    <2>5. FollowsInv'
      BY <1>1, <2>0 DEF BindingInv, FollowsInv, FollowsOf, On, Right, Told
    <2> QED  BY <2>1, <2>2, <2>3, <2>4, <2>5 DEF BindingInv
  <1>2. ASSUME BindingInv, NEW s \in Sessions,
               \/ Bindings!Create(s) \/ Bindings!ImportSaves(s) \/ Bindings!Begin(s)
               \/ Bindings!Resolve(s) \/ Bindings!Connect(s) \/ Bindings!Turn(s)
               \/ Bindings!TryBind(s) \/ Bindings!Breaks(s) \/ Bindings!Broken(s)
        PROVE  BindingInv'
    BY <1>2, CreateStep, ImportSavesStep, QueryBeginStep, ResolveStep, ConnectStep, TurnStep,
       TryBindStep, BreaksStep, BrokenStep
  <1>3. ASSUME BindingInv, NEW s \in Sessions,
               \/ Bindings!WarmLook(s) \/ Bindings!WarmOpen(s) \/ Bindings!WarmClear(s)
               \/ Bindings!Delete(s) \/ Bindings!IdleDisconnect(s)
               \/ \E p \in Sessions : Bindings!Branch(s, p)
               \/ \E t \in files : Bindings!Import(s, t)
               \/ \E yes \in BOOLEAN :
                    Bindings!Save(s, yes) \/ Bindings!Cancel(s, yes) \/ Bindings!Clear(s, yes)
        PROVE  BindingInv'
    BY <1>3, WarmLookStep, WarmOpenStep, WarmClearStep, DeleteStep, IdleStep, BranchStep,
       ImportStep, SaveStep, CancelStep, ClearStep
  <1> QED  BY <1>1, <1>2, <1>3, RemoveStep, CrashStep DEF Bindings!Next

\* What a session has is its own, and there.
LEMMA BindingHolds == BindingInv => Bindings!ConversationsKeepToTheirSession
  <1> SUFFICES ASSUME BindingInv  PROVE Bindings!ConversationsKeepToTheirSession
    OBVIOUS
  <1>1. ASSUME NEW s \in Sessions, NEW t \in Bindings!Has(s)  PROVE t \in Nat /\ Holds(s, t)
    BY <1>1, Fields DEF Bindings!Has, Bindings!There, Holds
  <1>2. \A s, r \in Sessions : s # r => (Bindings!Has(s) \cap Bindings!Has(r)) \ {0} \subseteq twice
    BY <1>1 DEF BindingInv, AloneInv
  <1>3. ASSUME NEW s \in Sessions, Bindings!There(s), query[s] = Bindings!Rest, s \notin lost
        PROVE  rows[s].bound.id = talk[s]
    <2>1. query[s].at = "off"
      BY ONLY <1>3 DEF Bindings!Rest
    <2> QED  BY <1>3, <2>1, Fields DEF Bindings!There, FollowsOf
  <1>4. ASSUME NEW s \in Sessions, Bindings!There(s), ~ rows[s].bound.fork
        PROVE  rows[s].bound.id \in files \cup removed \cup twice \cup {0}
    BY <1>4, Fields DEF Bindings!There, BindingInv, FilesInv, Holds
  <1> QED  BY <1>2, <1>3, <1>4 DEF Bindings!ConversationsKeepToTheirSession

-----------------------------------------------------------------------------
(* How a message of a person comes to the inbox (ChannelArrivals.tla)      *)

Messages == 1 .. MaxArrivals
Texts == {"none", "text", "placeholder", "transcript"}
Handlers == [at : {"done", "fetch", "transcode", "recognize", "look", "insert"},
             files : SUBSET Arrivals!File, next : {1, 2}, text : Texts, saves : Nat, pcm : {0, 1}]
Entries == [of : Messages, text : Texts, files : SUBSET Arrivals!File, tried : Nat, dead : BOOLEAN]

TaskTypes == task \in [Messages -> [{1, 2} -> Handlers]]
InboxTypes == accepted \in Seq(Entries)
PersonTypes ==
  /\ source \in {"lark", "qq"} /\ written \in Seq(Sorts) /\ got \in Nat
  /\ got <= Len(written) /\ got <= MaxArrivals
PlaceTypes == placed \in [Arrivals!File -> Nat] /\ pcms \in Nat /\ left \in Nat

\* A handler, by what it is at.
HandlerOf(m, c) ==
  /\ task[m][c].at # "done" => m <= got /\ task[m][c].text # "none" /\ (c = 2 => m \in repeated)
  /\ task[m][c].at \in {"transcode", "recognize"} => source = "lark"
  /\ task[m][c].pcm = 1 <=> task[m][c].at = "recognize"
  /\ \A f \in task[m][c].files : f[1] = m
  /\ task[m][c].text = "placeholder" => m <= got /\ written[m] = "voice"

HandlersInv == \A m \in Messages, c \in {1, 2} : HandlerOf(m, c)

\* QQ's loop waits for a message before it takes the next.
AwaitedInv ==
  source = "qq" => \A m \in Messages : task[m][1].at # "done" => m = got

\* What was delivered is somewhere.
ThroughOf(m) ==
  \/ Arrivals!Arrived(m) \/ Arrivals!UnderWay(m)
  \/ source = "qq" /\ written[m] = "image"
  \/ Arrivals!Lost(m, {"save", "crash"})
  \/ source = "lark" /\ Arrivals!Lost(m, {"fetch", "recognize"})

ThroughInv == \A m \in 1 .. got : ThroughOf(m)

\* The inbox has each once, and QQ's in order.
InOrderInv ==
  /\ \A i \in DOMAIN accepted : accepted[i].of <= got
  /\ \A i, j \in DOMAIN accepted :
       i < j => /\ accepted[i].of # accepted[j].of
                /\ source = "qq" => \/ accepted[i].of < accepted[j].of
                                    \/ accepted[j].of \in repeated

\* What an entry has to read.
ReadInv ==
  \A i \in DOMAIN accepted :
    /\ accepted[i].text # "none"
    /\ accepted[i].text = "placeholder" => written[accepted[i].of] = "voice"

\* Its files are its own, and in the project when it was tried.
PlacedInv ==
  /\ \A i \in DOMAIN accepted : \A f \in accepted[i].files : f[1] = accepted[i].of
  /\ \A i \in DOMAIN accepted : \A f \in accepted[i].files :
       placed[f] = IF accepted[i].tried > 0 THEN 1 ELSE 0
  /\ \A f \in Arrivals!File : placed[f] # 0 => \E i \in DOMAIN accepted : f \in accepted[i].files

PcmInv == pcms = left + Cardinality(Arrivals!HaveOne)

ArrivalTypes == TaskTypes /\ InboxTypes /\ PersonTypes /\ PlaceTypes

ArrivalInv ==
  /\ ArrivalTypes /\ HandlersInv /\ AwaitedInv /\ ThroughInv /\ InOrderInv /\ ReadInv
  /\ PlacedInv /\ PcmInv

\* At the beginning nobody wrote anything.
LEMMA ArrivalStart == Arrivals!Init => ArrivalInv
  <1> SUFFICES ASSUME Arrivals!Init  PROVE ArrivalInv
    OBVIOUS
  <1>1. /\ source \in {"lark", "qq"} /\ written = <<>> /\ got = 0 /\ accepted = <<>>
        /\ pcms = 0 /\ left = 0
    BY BackendAssumption DEF Arrivals!Init
  <1>2. placed \in [Arrivals!File -> Nat] /\ \A f \in Arrivals!File : placed[f] = 0
    BY DEF Arrivals!Init
  <1>3. Arrivals!Done \in Handlers /\ Arrivals!Done.at = "done" /\ Arrivals!Done.pcm = 0
        /\ Arrivals!Done.files = {} /\ Arrivals!Done.text = "none"
    BY DEF Arrivals!Done, Handlers, Texts
  <1>4. TaskTypes /\ \A m \in Messages, c \in {1, 2} : task[m][c] = Arrivals!Done
    <2>1. task = [m \in Messages |-> [c \in {1, 2} |-> Arrivals!Done]]
      BY DEF Arrivals!Init, Arrivals!Copies, Messages
    <2> QED  BY <2>1, <1>3 DEF TaskTypes
  <1>5. ArrivalTypes
    <2>1. got <= Len(written) /\ got <= MaxArrivals /\ written \in Seq(Sorts) /\ got \in Nat
      BY <1>1, BackendAssumption
    <2>2. accepted \in Seq(Entries)
      BY <1>1
    <2> QED  BY <2>1, <2>2, <1>1, <1>2, <1>4 DEF ArrivalTypes, InboxTypes, PersonTypes, PlaceTypes
  <1> HIDE DEF Arrivals!Init
  <1>11. \A m \in Messages, c \in {1, 2} :
           task[m][c].at = "done" /\ task[m][c].pcm = 0 /\ task[m][c].files = {} /\ task[m][c].text = "none"
    BY ONLY <1>3, <1>4
  <1>6. HandlersInv /\ AwaitedInv
    <2>1. AwaitedInv
      BY <1>11 DEF AwaitedInv
    <2>2. ASSUME NEW m \in Messages, NEW c \in {1, 2}  PROVE HandlerOf(m, c)
      BY ONLY <1>11, <2>2 DEF HandlerOf
    <2> QED  BY <2>1, <2>2 DEF HandlersInv
  <1>7. DOMAIN accepted = {}
    BY <1>1
  <1>8. ThroughInv
    BY <1>1 DEF ThroughInv
  <1>9. InOrderInv /\ ReadInv /\ PlacedInv
    BY <1>2, <1>7 DEF InOrderInv, ReadInv, PlacedInv
  <1>10. PcmInv
    <2>1. Arrivals!HaveOne = {}
      <3>1. \A m \in 1 .. MaxArrivals, c \in {1, 2} : ~ (task[m][c].pcm = 1)
        BY <1>11 DEF Messages
      <3> QED  BY ONLY <3>1 DEF Arrivals!HaveOne, Arrivals!Copies
    <2> QED  BY <1>1, <2>1, FS_EmptySet DEF PcmInv
  <1> QED  BY <1>5, <1>6, <1>8, <1>9, <1>10 DEF ArrivalInv

\* One handler's state is another.
LEMMA TaskSet ==
  ASSUME TaskTypes, NEW m \in Messages, NEW c \in {1, 2}, NEW t \in Handlers, Arrivals!Set(m, c, t)
  PROVE  /\ TaskTypes' /\ task'[m][c] = t
         /\ \A n \in Messages, d \in {1, 2} : n # m \/ d # c => task'[n][d] = task[n][d]
  <1> DEFINE e == [task[m] EXCEPT ![c] = t]
  <1>1. e \in [{1, 2} -> Handlers] /\ e[c] = t /\ \A d \in {1, 2} : d # c => e[d] = task[m][d]
    BY DEF TaskTypes
  <1>2. task' = [task EXCEPT ![m] = e]
    BY DEF Arrivals!Set, TaskTypes
  <1> HIDE DEF e
  <1>3. TaskTypes' /\ task'[m] = e /\ \A n \in Messages : n # m => task'[n] = task[n]
    BY <1>1, <1>2 DEF TaskTypes
  <1> QED  BY <1>1, <1>3

\* What a handler is made of.
LEMMA HandlerFields ==
  ASSUME ArrivalInv, NEW m \in Messages, NEW c \in {1, 2}
  PROVE  task[m][c] \in Handlers /\ HandlerOf(m, c)
  BY DEF ArrivalInv, ArrivalTypes, TaskTypes, HandlersInv

\* A handler at work goes on, or ends.
LEMMA HandlerMoves ==
  ASSUME ArrivalInv, NEW m \in Messages, NEW c \in {1, 2}, NEW t \in Handlers,
         Arrivals!Set(m, c, t), task[m][c].at # "done",
         UNCHANGED <<source, written, got, repeated>>,
         t.at # "done" => t.text # "none", t.at \in {"transcode", "recognize"} => source = "lark",
         t.pcm = 1 <=> t.at = "recognize", \A f \in t.files : f[1] = m,
         t.text = "placeholder" => written[m] = "voice"
  PROVE  TaskTypes' /\ PersonTypes' /\ HandlersInv' /\ AwaitedInv' /\ m <= got
  <1>1. /\ TaskTypes' /\ task'[m][c] = t
        /\ \A n \in Messages, d \in {1, 2} : n # m \/ d # c => task'[n][d] = task[n][d]
    BY TaskSet DEF ArrivalInv, ArrivalTypes
  <1>2. m <= got /\ (c = 2 => m \in repeated) /\ (source = "qq" /\ c = 1 => m = got)
    BY HandlerFields DEF HandlerOf, ArrivalInv, AwaitedInv
  <1>3. HandlersInv'
    <2> SUFFICES ASSUME NEW n \in Messages, NEW d \in {1, 2}  PROVE HandlerOf(n, d)'
      BY DEF HandlersInv
    <2>1. CASE n = m /\ d = c
      BY <1>1, <1>2, <2>1 DEF HandlerOf
    <2>2. CASE n # m \/ d # c
      <3>1. task'[n][d] = task[n][d] /\ HandlerOf(n, d)
        BY <1>1, <2>2, HandlerFields
      <3> QED  BY <3>1 DEF HandlerOf
    <2> QED  BY <2>1, <2>2
  <1>4. AwaitedInv'
    <2> SUFFICES ASSUME source = "qq", NEW n \in Messages, task'[n][1].at # "done"  PROVE n = got
      BY DEF AwaitedInv
    <2>1. CASE n = m /\ c = 1
      BY <1>2, <2>1
    <2>2. CASE n # m \/ c # 1
      BY <1>1, <2>2 DEF ArrivalInv, AwaitedInv
    <2> QED  BY <2>1, <2>2
  <1>5. PersonTypes'
    BY DEF ArrivalInv, ArrivalTypes, PersonTypes
  <1> QED  BY <1>1, <1>2, <1>3, <1>4, <1>5

\* What was delivered and is not m is where it was.
LEMMA ThroughKept ==
  ASSUME ArrivalInv, NEW m \in Messages, UNCHANGED <<source, written, got>>, gone \subseteq gone',
         \A n \in Messages : n # m => task'[n] = task[n] \/ \A d \in {1, 2} : task'[n][d] = task[n][d],
         \A i \in DOMAIN accepted : i \in DOMAIN accepted' /\ accepted'[i].of = accepted[i].of,
         \/ \E d \in {1, 2} : task'[m][d].at # "done"
         \/ Arrivals!Arrived(m)' \/ Arrivals!Lost(m, {"save", "crash"})'
         \/ source = "lark" /\ Arrivals!Lost(m, {"fetch", "recognize"})'
  PROVE  ThroughInv'
  <1> SUFFICES ASSUME NEW n \in 1 .. got  PROVE ThroughOf(n)'
    BY DEF ThroughInv
  <1>0. n \in Messages /\ ThroughOf(n)
    BY BackendAssumption DEF ArrivalInv, ArrivalTypes, PersonTypes, Messages, ThroughInv
  <1>1. CASE n = m
    BY <1>1 DEF ThroughOf, Arrivals!UnderWay, Arrivals!Copies
  <1>2. CASE n # m
    <2>1. Arrivals!Arrived(n) => Arrivals!Arrived(n)'
      BY DEF Arrivals!Arrived
    <2>2. Arrivals!UnderWay(n) => Arrivals!UnderWay(n)'
      BY <1>0, <1>2 DEF Arrivals!UnderWay, Arrivals!Copies
    <2>3. Arrivals!Lost(n, {"save", "crash"}) => Arrivals!Lost(n, {"save", "crash"})'
      BY DEF Arrivals!Lost
    <2>4. Arrivals!Lost(n, {"fetch", "recognize"}) => Arrivals!Lost(n, {"fetch", "recognize"})'
      BY DEF Arrivals!Lost
    <2> QED  BY <1>0, <2>1, <2>2, <2>3, <2>4 DEF ThroughOf
  <1> QED  BY <1>1, <1>2

\* The inbox is as it was.
LEMMA InboxStays ==
  ASSUME ArrivalInv, UNCHANGED <<source, accepted, placed, written>>, got' \in Nat, got <= got',
         repeated \subseteq repeated'
  PROVE  InboxTypes' /\ InOrderInv' /\ ReadInv' /\ PlacedInv'
  <1>1. InboxTypes'
    BY DEF ArrivalInv, ArrivalTypes, InboxTypes
  <1>2. \A i \in DOMAIN accepted : accepted[i].of \in Nat
    <2>1. \A i \in DOMAIN accepted : accepted[i] \in Entries
      BY DEF ArrivalInv, ArrivalTypes, InboxTypes
    <2>2. Messages \subseteq Nat
      BY BackendAssumption DEF Messages
    <2> QED  BY ONLY <2>1, <2>2 DEF Entries
  <1>3. InOrderInv'
    BY <1>2 DEF ArrivalInv, ArrivalTypes, PersonTypes, InOrderInv
  <1>4. ReadInv' /\ PlacedInv'
    BY DEF ArrivalInv, ReadInv, PlacedInv
  <1> QED  BY <1>1, <1>3, <1>4

\* The same have files.
LEMMA SameOnes ==
  ASSUME ArrivalInv, NEW m \in Messages, NEW c \in {1, 2}, NEW t \in Handlers, Arrivals!Set(m, c, t),
         t.pcm = task[m][c].pcm
  PROVE  Arrivals!HaveOne' = Arrivals!HaveOne
  <1>1. /\ task'[m][c] = t
        /\ \A n \in Messages, d \in {1, 2} : n # m \/ d # c => task'[n][d] = task[n][d]
    BY TaskSet DEF ArrivalInv, ArrivalTypes
  <1>2. \A n \in Messages, d \in {1, 2} : task'[n][d].pcm = task[n][d].pcm
    BY <1>1
  <1> QED  BY <1>2 DEF Arrivals!HaveOne, Arrivals!Copies, Messages

\* No voice's file is made or removed.
LEMMA PcmStays ==
  ASSUME ArrivalInv, NEW m \in Messages, NEW c \in {1, 2}, NEW t \in Handlers, Arrivals!Set(m, c, t),
         t.pcm = task[m][c].pcm, UNCHANGED <<pcms, left>>
  PROVE  PcmInv'
  <1>1. Arrivals!HaveOne' = Arrivals!HaveOne
    BY SameOnes
  <1> QED  BY <1>1 DEF ArrivalInv, PcmInv

\* Those who have a file are finitely many.
LEMMA HaveOneFinite == IsFiniteSet(Arrivals!HaveOne)
  <1>1. IsFiniteSet(1 .. MaxArrivals) /\ IsFiniteSet({1, 2})
    <2>1. IsFiniteSet({1, 2})
      <3>1. IsFiniteSet({1}) /\ {1, 2} = {1} \cup {2}
        BY FS_Singleton
      <3> QED  BY <3>1, FS_AddElement
    <2>2. MaxArrivals \in Int /\ 1 \in Int
      BY BackendAssumption
    <2> QED  BY ONLY <2>1, <2>2, FS_Interval
  <1>2. IsFiniteSet((1 .. MaxArrivals) \X {1, 2})
    BY <1>1, FS_Product
  <1>3. Arrivals!HaveOne \subseteq (1 .. MaxArrivals) \X {1, 2}
    BY DEF Arrivals!HaveOne, Arrivals!Copies
  <1> QED  BY <1>2, <1>3, FS_Subset

\* A handler that is over.
LEMMA Over ==
  /\ Arrivals!Done \in Handlers /\ Arrivals!Done.at = "done" /\ Arrivals!Done.pcm = 0
  /\ Arrivals!Done.files = {} /\ Arrivals!Done.text = "none"
  BY DEF Arrivals!Done, Handlers, Texts

\* A handler at work goes on, and the inbox and the files placed are as they were.
LEMMA WorksOn ==
  ASSUME ArrivalInv, NEW m \in Messages, NEW c \in {1, 2}, NEW t \in Handlers,
         Arrivals!Set(m, c, t), task[m][c].at # "done",
         UNCHANGED <<source, written, got, repeated, accepted, placed>>,
         gone \subseteq gone',
         t.at # "done" => t.text # "none", t.at \in {"transcode", "recognize"} => source = "lark",
         t.pcm = 1 <=> t.at = "recognize", \A f \in t.files : f[1] = m,
         t.text = "placeholder" => written[m] = "voice",
         \/ t.at # "done" \/ Arrivals!Arrived(m) \/ Arrivals!Lost(m, {"save", "crash"})'
         \/ source = "lark" /\ Arrivals!Lost(m, {"fetch", "recognize"})',
         PcmInv', pcms' \in Nat, left' \in Nat
  PROVE  ArrivalInv'
  <1>1. TaskTypes' /\ PersonTypes' /\ HandlersInv' /\ AwaitedInv'
    BY HandlerMoves
  <1>2. InboxTypes' /\ InOrderInv' /\ ReadInv' /\ PlacedInv'
    BY InboxStays DEF ArrivalInv, ArrivalTypes, PersonTypes
  <1>4. ThroughInv'
    <2>1. /\ task'[m][c] = t
          /\ \A n \in Messages, d \in {1, 2} : n # m \/ d # c => task'[n][d] = task[n][d]
      BY TaskSet DEF ArrivalInv, ArrivalTypes
    <2>2. Arrivals!Arrived(m) => Arrivals!Arrived(m)'
      BY DEF Arrivals!Arrived
    <2> QED  BY <2>1, <2>2, ThroughKept
  <1>5. PlaceTypes'
    BY DEF ArrivalInv, ArrivalTypes, PlaceTypes
  <1> QED  BY <1>1, <1>2, <1>4, <1>5 DEF ArrivalInv, ArrivalTypes

\* A handler at work goes on, and the voices' files are as they were as well.
LEMMA GoesOn ==
  ASSUME ArrivalInv, NEW m \in Messages, NEW c \in {1, 2}, NEW t \in Handlers,
         Arrivals!Set(m, c, t), task[m][c].at # "done",
         UNCHANGED <<source, written, got, repeated, accepted, placed, pcms, left>>,
         gone \subseteq gone',
         t.at # "done" => t.text # "none", t.at \in {"transcode", "recognize"} => source = "lark",
         t.pcm = 1 <=> t.at = "recognize", t.pcm = task[m][c].pcm, \A f \in t.files : f[1] = m,
         t.text = "placeholder" => written[m] = "voice",
         \/ t.at # "done" \/ Arrivals!Arrived(m) \/ Arrivals!Lost(m, {"save", "crash"})'
         \/ source = "lark" /\ Arrivals!Lost(m, {"fetch", "recognize"})'
  PROVE  ArrivalInv'
  <1>1. PcmInv'
    BY PcmStays
  <1>2. pcms' \in Nat /\ left' \in Nat
    BY DEF ArrivalInv, ArrivalTypes, PlaceTypes
  <1> QED  BY <1>1, <1>2, WorksOn

\* A handler ends, and what it had is in the inbox or lost.
LEMMA Ends ==
  ASSUME ArrivalInv, NEW m \in Messages, NEW c \in {1, 2}, Arrivals!Set(m, c, Arrivals!Done),
         task[m][c].at # "done", task[m][c].pcm = 0,
         UNCHANGED <<source, written, got, repeated, accepted, placed, pcms, left>>,
         gone \subseteq gone',
         \/ Arrivals!Arrived(m) \/ Arrivals!Lost(m, {"save", "crash"})'
         \/ source = "lark" /\ Arrivals!Lost(m, {"fetch", "recognize"})'
  PROVE  ArrivalInv'
  <1> DEFINE t == Arrivals!Done
  <1>1. /\ t \in Handlers /\ t.at = "done" /\ t.pcm = task[m][c].pcm /\ t.pcm = 0 /\ t.text = "none"
        /\ \A f \in t.files : f[1] = m
    BY Over
  <1>2. Arrivals!Set(m, c, t)
    OBVIOUS
  <1> HIDE DEF t
  <1> QED  BY <1>1, <1>2, GoesOn

\* What an entry of the inbox is made of.
LEMMA EntryFields ==
  ASSUME ArrivalInv, NEW i \in DOMAIN accepted
  PROVE  accepted[i] \in Entries /\ accepted[i].of \in Messages /\ accepted[i].of \in 1 .. got
  <1>1. accepted[i] \in Entries
    BY DEF ArrivalInv, ArrivalTypes, InboxTypes
  <1>2. accepted[i].of \in Messages /\ accepted[i].of <= got
    BY <1>1 DEF Entries, ArrivalInv, InOrderInv
  <1>3. accepted[i].of \in 1 .. got
    BY <1>2, BackendAssumption DEF Messages, ArrivalInv, ArrivalTypes, PersonTypes
  <1> QED  BY <1>1, <1>2, <1>3

\* Two entries are of two messages.
LEMMA OnceEach ==
  ASSUME ArrivalInv, NEW i \in DOMAIN accepted, NEW j \in DOMAIN accepted, i # j
  PROVE  accepted[i].of # accepted[j].of
  <1>1. i \in Nat /\ j \in Nat
    BY DEF ArrivalInv, ArrivalTypes, InboxTypes
  <1>2. i < j \/ j < i
    BY <1>1
  <1> QED  BY <1>2 DEF ArrivalInv, InOrderInv

\* A person writes.
LEMMA WriteStep ==
  ASSUME ArrivalInv, NEW sort \in Sorts, Arrivals!Write(sort)  PROVE ArrivalInv'
  <1>0. /\ written' = Append(written, sort) /\ Len(written) < MaxArrivals
        /\ UNCHANGED <<source, got, task, accepted, store, placed, pcms, slips, gone, repeated, left>>
    BY DEF Arrivals!Write
  <1>1. /\ written' \in Seq(Sorts) /\ got <= Len(written')
        /\ \A n \in 1 .. got : written'[n] = written[n]
    BY <1>0 DEF ArrivalInv, ArrivalTypes, PersonTypes
  <1>2. got \in Nat /\ \A n \in Messages : n <= got => n \in 1 .. got
    BY BackendAssumption DEF ArrivalInv, ArrivalTypes, PersonTypes, Messages
  <1>3. ArrivalTypes'
    BY <1>0, <1>1 DEF ArrivalInv, ArrivalTypes, TaskTypes, InboxTypes, PersonTypes, PlaceTypes
  <1>4. HandlersInv'
    <2> SUFFICES ASSUME NEW n \in Messages, NEW d \in {1, 2}  PROVE HandlerOf(n, d)'
      BY DEF HandlersInv
    <2> QED  BY <1>0, <1>1, <1>2, HandlerFields DEF HandlerOf
  <1>5. AwaitedInv' /\ InOrderInv' /\ PlacedInv'
    BY <1>0 DEF ArrivalInv, AwaitedInv, InOrderInv, PlacedInv
  <1>6. ThroughInv'
    BY <1>0, <1>1 DEF ArrivalInv, ThroughInv, ThroughOf, Arrivals!Arrived, Arrivals!UnderWay,
                      Arrivals!Lost
  <1>7. ReadInv'
    <2>1. \A i \in DOMAIN accepted : accepted[i].of \in 1 .. got
      BY EntryFields
    <2> QED  BY <1>0, <1>1, <2>1 DEF ArrivalInv, ReadInv
  <1>8. PcmInv'
    <2>1. Arrivals!HaveOne' = Arrivals!HaveOne
      BY <1>0 DEF Arrivals!HaveOne
    <2> QED  BY <1>0, <2>1 DEF ArrivalInv, PcmInv
  <1> QED  BY <1>3, <1>4, <1>5, <1>6, <1>7, <1>8 DEF ArrivalInv

\* What a message is first.
LEMMA HandledFields ==
  ASSUME ArrivalInv, NEW m \in Messages
  PROVE  /\ Arrivals!Handled(m) \in Handlers /\ Arrivals!Handled(m).at \in {"done", "fetch", "look"}
         /\ Arrivals!Handled(m).pcm = 0 /\ Arrivals!Handled(m).files = {}
         /\ Arrivals!Handled(m).at = "done" => source = "qq" /\ written[m] = "image"
         /\ Arrivals!Handled(m).at # "done" => Arrivals!Handled(m).text # "none"
         /\ Arrivals!Handled(m).text = "placeholder" => written[m] = "voice"
  <1> DEFINE sort == written[m]
             at == IF Arrivals!Resources(sort) > 0 THEN "fetch"
                   ELSE IF Arrivals!TextOf(sort) = "none" THEN "done" ELSE "look"
             text == Arrivals!TextOf(sort)
  <1>1. at \in {"done", "fetch", "look"}
    OBVIOUS
  <1>2. text \in {"placeholder", "none", "text"} /\ (text = "placeholder" => sort = "voice")
        /\ (text = "none" => source = "qq" /\ sort = "image")
    BY DEF Arrivals!TextOf
  <1>3. at = "done" => source = "qq" /\ sort = "image"
    BY <1>2
  <1>4. source = "qq" /\ sort = "image" => Arrivals!Resources(sort) = 0
    BY DEF Arrivals!Resources
  <1>5. text = "none" => at = "done"
    BY <1>2, <1>4
  <1>6. Arrivals!Done \in Handlers /\ Arrivals!Done.pcm = 0 /\ Arrivals!Done.files = {}
    BY DEF Arrivals!Done, Handlers, Texts
  <1>7. Arrivals!Handled(m) = [Arrivals!Done EXCEPT !.at = at, !.text = text]
    BY DEF Arrivals!Handled
  <1> HIDE DEF at, text
  <1>8. /\ Arrivals!Handled(m) \in Handlers /\ Arrivals!Handled(m).at = at
        /\ Arrivals!Handled(m).text = text /\ Arrivals!Handled(m).pcm = 0
        /\ Arrivals!Handled(m).files = {}
    BY <1>1, <1>2, <1>6, <1>7 DEF Handlers, Texts
  <1> QED  BY <1>1, <1>2, <1>3, <1>5, <1>8

\* A message is delivered.
LEMMA DeliverStep ==
  ASSUME ArrivalInv, NEW m \in Messages, Arrivals!Deliver(m)  PROVE ArrivalInv'
  <1> DEFINE t == Arrivals!Handled(m)
  <1>0. /\ m = got + 1 /\ m <= Len(written) /\ got' = m /\ Arrivals!Set(m, 1, t) /\ Arrivals!Awaited
        /\ UNCHANGED <<source, written, accepted, store, placed, pcms, slips, gone, repeated, left>>
    BY DEF Arrivals!Deliver
  <1>1. /\ t \in Handlers /\ t.at \in {"done", "fetch", "look"} /\ t.pcm = 0 /\ t.files = {}
        /\ t.at = "done" => source = "qq" /\ written[m] = "image"
        /\ t.at # "done" => t.text # "none"
        /\ t.text = "placeholder" => written[m] = "voice"
    BY HandledFields
  <1> HIDE DEF t
  <1>2. /\ TaskTypes' /\ task'[m][1] = t
        /\ \A n \in Messages, d \in {1, 2} : n # m \/ d # 1 => task'[n][d] = task[n][d]
    BY <1>0, <1>1, TaskSet DEF ArrivalInv, ArrivalTypes
  <1>3. got \in Nat /\ got <= MaxArrivals /\ got' \in Nat /\ got <= got' /\ got' <= MaxArrivals /\ ~ (m <= got)
    BY <1>0, BackendAssumption DEF ArrivalInv, ArrivalTypes, PersonTypes, Messages
  <1>4. PersonTypes' /\ PlaceTypes'
    BY <1>0, <1>3 DEF ArrivalInv, ArrivalTypes, PersonTypes, PlaceTypes
  <1>5. HandlersInv'
    <2> SUFFICES ASSUME NEW n \in Messages, NEW d \in {1, 2}  PROVE HandlerOf(n, d)'
      BY DEF HandlersInv
    <2>1. CASE n = m /\ d = 1
      BY <1>0, <1>1, <1>2, <1>3, <2>1 DEF HandlerOf
    <2>2. CASE n # m \/ d # 1
      <3>1. task'[n][d] = task[n][d] /\ HandlerOf(n, d) /\ (n <= got => n <= got')
        BY <1>0, <1>2, <1>3, <2>2, HandlerFields, BackendAssumption DEF Messages
      <3> QED  BY <3>1, <1>0 DEF HandlerOf
    <2> QED  BY <2>1, <2>2
  <1>6. AwaitedInv'
    <2> SUFFICES ASSUME source = "qq", NEW n \in Messages, task'[n][1].at # "done"  PROVE n = m
      BY <1>0 DEF AwaitedInv
    <2>1. task[n][1].at = "done"
      BY <1>0 DEF Arrivals!Awaited, Arrivals!AllDone, Arrivals!Copies, Messages
    <2> QED  BY <1>2, <2>1
  <1>7. ThroughInv'
    <2> SUFFICES ASSUME NEW n \in 1 .. m  PROVE ThroughOf(n)'
      BY <1>0 DEF ThroughInv
    <2>1. CASE n = m
      BY <2>1, <1>0, <1>1, <1>2 DEF ThroughOf, Arrivals!UnderWay, Arrivals!Copies
    <2>2. CASE n # m
      <3>1. n \in 1 .. got /\ n \in Messages
        <4>1. n \in Nat /\ 1 <= n /\ n <= got + 1 /\ n # got + 1
          BY <2>2, <1>0, <1>3
        <4> QED  BY ONLY <4>1, <1>3, BackendAssumption DEF Messages
      <3>2. ThroughOf(n) /\ \A d \in {1, 2} : task'[n][d] = task[n][d]
        BY <2>2, <3>1, <1>2 DEF ArrivalInv, ThroughInv
      <3> QED  BY <3>2, <1>0 DEF ThroughOf, Arrivals!UnderWay, Arrivals!Copies, Arrivals!Arrived,
                                 Arrivals!Lost
    <2> QED  BY <2>1, <2>2
  <1>8. InboxTypes' /\ InOrderInv' /\ ReadInv' /\ PlacedInv'
    BY <1>0, <1>3, InboxStays
  <1>9. PcmInv'
    <2>1. task[m][1].pcm = 0
      BY <1>3, HandlerFields DEF HandlerOf, Handlers
    <2> QED  BY <1>0, <1>1, <2>1, PcmStays
  <1> QED  BY <1>2, <1>4, <1>5, <1>6, <1>7, <1>8, <1>9 DEF ArrivalInv, ArrivalTypes

\* A message is delivered again.
LEMMA DeliverAgainStep ==
  ASSUME ArrivalInv, NEW m \in Messages, Arrivals!DeliverAgain(m)  PROVE ArrivalInv'
  <1> DEFINE t == Arrivals!Handled(m)
  <1>0. /\ m <= got /\ m \notin repeated /\ Arrivals!Set(m, 2, t) /\ repeated' = repeated \cup {m}
        /\ UNCHANGED <<source, written, got, accepted, store, placed, pcms, gone, left>>
    BY DEF Arrivals!DeliverAgain
  <1>1. /\ t \in Handlers /\ t.at \in {"done", "fetch", "look"} /\ t.pcm = 0 /\ t.files = {}
        /\ t.at = "done" => source = "qq" /\ written[m] = "image"
        /\ t.at # "done" => t.text # "none"
        /\ t.text = "placeholder" => written[m] = "voice"
    BY HandledFields
  <1> HIDE DEF t
  <1>2. /\ TaskTypes' /\ task'[m][2] = t
        /\ \A n \in Messages, d \in {1, 2} : n # m \/ d # 2 => task'[n][d] = task[n][d]
    BY <1>0, <1>1, TaskSet DEF ArrivalInv, ArrivalTypes
  <1>3. task[m][2].at = "done" /\ task[m][2].pcm = 0
    BY <1>0, HandlerFields DEF HandlerOf, Handlers
  <1>4. PersonTypes' /\ PlaceTypes'
    BY <1>0 DEF ArrivalInv, ArrivalTypes, PersonTypes, PlaceTypes
  <1>5. HandlersInv'
    <2> SUFFICES ASSUME NEW n \in Messages, NEW d \in {1, 2}  PROVE HandlerOf(n, d)'
      BY DEF HandlersInv
    <2>1. CASE n = m /\ d = 2
      BY <1>0, <1>1, <1>2, <2>1 DEF HandlerOf
    <2>2. CASE n # m \/ d # 2
      <3>1. task'[n][d] = task[n][d] /\ HandlerOf(n, d)
        BY <1>2, <2>2, HandlerFields
      <3> QED  BY <3>1, <1>0 DEF HandlerOf
    <2> QED  BY <2>1, <2>2
  <1>6. AwaitedInv'
    BY <1>0, <1>2 DEF ArrivalInv, AwaitedInv
  <1>7. ThroughInv'
    <2> SUFFICES ASSUME NEW n \in 1 .. got  PROVE ThroughOf(n)'
      BY <1>0 DEF ThroughInv
    <2>1. n \in Messages /\ ThroughOf(n)
      BY BackendAssumption DEF ArrivalInv, ArrivalTypes, PersonTypes, Messages, ThroughInv
    <2>2. Arrivals!UnderWay(n) => Arrivals!UnderWay(n)'
      BY <1>2, <1>3, <2>1 DEF Arrivals!UnderWay, Arrivals!Copies
    <2> QED  BY <1>0, <2>1, <2>2 DEF ThroughOf, Arrivals!Arrived, Arrivals!Lost
  <1>8. InboxTypes' /\ InOrderInv' /\ ReadInv' /\ PlacedInv'
    <2>1. got' \in Nat /\ got <= got'
      BY <1>0 DEF ArrivalInv, ArrivalTypes, PersonTypes
    <2> QED  BY <1>0, <2>1, InboxStays
  <1>9. PcmInv'
    BY <1>0, <1>1, <1>3, PcmStays
  <1> QED  BY <1>2, <1>4, <1>5, <1>6, <1>7, <1>8, <1>9 DEF ArrivalInv, ArrivalTypes

\* After a resource: the next one, or what comes then.
LEMMA FetchedFields ==
  ASSUME NEW m \in Messages, NEW t \in Handlers, t.at = "fetch"
  PROVE  /\ Arrivals!Fetched(m, t) \in Handlers
         /\ Arrivals!Fetched(m, t).at \in {"fetch", "transcode", "look"}
         /\ Arrivals!Fetched(m, t).at = "transcode" => source = "lark"
         /\ Arrivals!Fetched(m, t).pcm = t.pcm /\ Arrivals!Fetched(m, t).files = t.files
         /\ Arrivals!Fetched(m, t).text = t.text
  <1>1. Arrivals!Resources(written[m]) \in {0, 1, 2}
    BY DEF Arrivals!Resources
  <1>2. CASE t.next < Arrivals!Resources(written[m])
    <2>1. t.next + 1 \in {1, 2} /\ t.next \in {1, 2}
      BY <1>1, <1>2 DEF Handlers
    <2>3. written[m] # "voice"
      BY <1>2, <2>1 DEF Arrivals!Resources
    <2>2. Arrivals!Fetched(m, t) = [t EXCEPT !.next = t.next + 1]
      BY <1>2, <2>3 DEF Arrivals!Fetched
    <2> QED  BY <2>1, <2>2 DEF Handlers
  <1>3. CASE Arrivals!Fetched(m, t) = [t EXCEPT !.at = "transcode"] /\ source = "lark"
    BY <1>3 DEF Handlers
  <1>4. CASE Arrivals!Fetched(m, t) = [t EXCEPT !.at = "look"]
    BY <1>4 DEF Handlers
  <1> QED  BY <1>2, <1>3, <1>4 DEF Arrivals!Fetched

\* A resource is fetched, or not.
LEMMA FetchStep ==
  ASSUME ArrivalInv, NEW m \in Messages, NEW c \in {1, 2}, NEW how \in {"ok", "refused", "broken"},
         Arrivals!Fetch(m, c, how)
  PROVE  ArrivalInv'
  <1> DEFINE t == task[m][c]
             f == <<m, t.next>>
             u == [t EXCEPT !.files = @ \cup {f}]
  <1>0. /\ t.at = "fetch"
        /\ UNCHANGED <<source, written, got, accepted, placed, pcms, repeated, left>>
    BY DEF Arrivals!Fetch
  <1>1. t \in Handlers /\ HandlerOf(m, c) /\ source \in {"lark", "qq"}
    BY HandlerFields DEF ArrivalInv, ArrivalTypes, PersonTypes
  <1>2. CASE how = "ok"
    <2>1. f \in Arrivals!File /\ f[1] = m
      BY <1>1 DEF Handlers, Arrivals!File, Messages
    <2>2. u \in Handlers /\ u.at = "fetch" /\ u.pcm = t.pcm /\ u.text = t.text
          /\ u.files = t.files \cup {f}
      BY <1>0, <1>1, <2>1 DEF Handlers
    <2>3. Arrivals!Set(m, c, Arrivals!Fetched(m, u)) /\ gone' = gone
      BY <1>2 DEF Arrivals!Fetch
    <2> HIDE DEF u
    <2> QED  BY <1>0, <1>1, <2>1, <2>2, <2>3, FetchedFields, GoesOn DEF HandlerOf
  <1>3. CASE how # "ok" /\ (how = "refused" \/ source = "qq")
    <2>1. Arrivals!Set(m, c, Arrivals!Fetched(m, t)) /\ gone' = gone
      BY <1>3 DEF Arrivals!Fetch
    <2> QED  BY <1>0, <1>1, <2>1, FetchedFields, GoesOn DEF HandlerOf
  <1>4. CASE how # "ok" /\ ~ (how = "refused" \/ source = "qq")
    <2>1. Arrivals!Set(m, c, Arrivals!Done) /\ gone' = gone \cup {<<m, "fetch">>} /\ source = "lark"
      BY <1>1, <1>4 DEF Arrivals!Fetch, Arrivals!Lose
    <2>2. Arrivals!Lost(m, {"fetch", "recognize"})' /\ gone \subseteq gone'
      BY <2>1 DEF Arrivals!Lost
    <2>3. t.pcm = 0 /\ t.at # "done"
      BY <1>0, <1>1 DEF HandlerOf, Handlers
    <2> QED  BY <1>0, <2>1, <2>2, <2>3, Ends
  <1> QED  BY <1>2, <1>3, <1>4

\* QQ says what a voice says.
LEMMA HeardStep ==
  ASSUME ArrivalInv, NEW m \in Messages, NEW c \in {1, 2}, Arrivals!Heard(m, c)  PROVE ArrivalInv'
  <1> DEFINE t == task[m][c]
             u == [t EXCEPT !.text = "transcript"]
  <1>0. /\ t.at = "fetch" /\ Arrivals!Set(m, c, u)
        /\ UNCHANGED <<source, written, got, accepted, store, placed, pcms, gone, repeated, left>>
    BY DEF Arrivals!Heard
  <1>1. t \in Handlers /\ HandlerOf(m, c)
    BY HandlerFields
  <1>2. u \in Handlers /\ u.at = "fetch" /\ u.pcm = t.pcm /\ u.text = "transcript" /\ u.files = t.files
    BY <1>0, <1>1 DEF Handlers, Texts
  <1>3. (t.pcm = 1 <=> t.at = "recognize") /\ \A f \in t.files : f[1] = m
    BY <1>1 DEF HandlerOf
  <1> HIDE DEF u
  <1> QED  BY <1>0, <1>2, <1>3, GoesOn

\* accept looks whether a message is there.
LEMMA LookStep ==
  ASSUME ArrivalInv, NEW m \in Messages, NEW c \in {1, 2}, Arrivals!Look(m, c)  PROVE ArrivalInv'
  <1> DEFINE t == task[m][c]
             u == [t EXCEPT !.at = "insert"]
  <1>0. /\ t.at = "look"
        /\ UNCHANGED <<source, written, got, accepted, store, placed, pcms, gone, repeated, left>>
        /\ IF Arrivals!Arrived(m) THEN Arrivals!Set(m, c, Arrivals!Done) ELSE Arrivals!Set(m, c, u)
    BY DEF Arrivals!Look, Arrivals!Arrived, Arrivals!At
  <1>1. t \in Handlers /\ HandlerOf(m, c)
    BY HandlerFields
  <1>2. u \in Handlers /\ u.at = "insert" /\ u.pcm = t.pcm /\ u.text = t.text /\ u.files = t.files
    BY <1>0, <1>1 DEF Handlers
  <1>3. /\ t.pcm = 0 /\ t.text # "none"
        /\ t.text = "placeholder" => written[m] = "voice"
        /\ \A f \in t.files : f[1] = m
    BY <1>0, <1>1 DEF HandlerOf, Handlers
  <1> HIDE DEF u, t
  <1>4. CASE Arrivals!Arrived(m)
    <2>1. /\ Arrivals!Set(m, c, Arrivals!Done) /\ task[m][c].at # "done" /\ task[m][c].pcm = 0
          /\ gone \subseteq gone'
      BY <1>0, <1>3, <1>4 DEF t
    <2>2. UNCHANGED <<source, written, got, repeated, accepted, placed, pcms, left>>
      BY <1>0
    <2> QED  BY <2>1, <2>2, <1>4, Ends
  <1>5. CASE ~ Arrivals!Arrived(m)
    <2>1. /\ Arrivals!Set(m, c, u) /\ task[m][c].at # "done" /\ u.pcm = task[m][c].pcm
          /\ gone \subseteq gone'
      BY <1>0, <1>2, <1>5 DEF t
    <2>2. UNCHANGED <<source, written, got, repeated, accepted, placed, pcms, left>>
      BY <1>0
    <2>3. /\ u \in Handlers /\ u.at # "done" /\ u.text # "none" /\ ~ (u.pcm = 1)
          /\ u.at \notin {"transcode", "recognize"} /\ u.at # "recognize"
          /\ u.text = "placeholder" => written[m] = "voice"
          /\ \A f \in u.files : f[1] = m
      BY <1>2, <1>3
    <2> QED  BY <2>1, <2>2, <2>3, GoesOn
  <1> QED  BY <1>4, <1>5

\* Who has a temporary file is one more.
LEMMA OneMore ==
  ASSUME ArrivalInv, NEW m \in Messages, NEW c \in {1, 2}, NEW t \in Handlers,
         Arrivals!Set(m, c, t), task[m][c].pcm = 0, t.pcm = 1
  PROVE  Cardinality(Arrivals!HaveOne') = Cardinality(Arrivals!HaveOne) + 1
  <1>1. /\ task'[m][c] = t
        /\ \A n \in Messages, d \in {1, 2} : n # m \/ d # c => task'[n][d] = task[n][d]
    BY TaskSet DEF ArrivalInv, ArrivalTypes
  <1>2. Arrivals!HaveOne' = Arrivals!HaveOne \cup {<<m, c>>}
    BY <1>1 DEF Arrivals!HaveOne, Arrivals!Copies, Messages
  <1>3. <<m, c>> \notin Arrivals!HaveOne
    BY DEF Arrivals!HaveOne
  <1> QED  BY <1>2, <1>3, HaveOneFinite, FS_AddElement

\* Or one less.
LEMMA OneLess ==
  ASSUME ArrivalInv, NEW m \in Messages, NEW c \in {1, 2}, NEW t \in Handlers,
         Arrivals!Set(m, c, t), task[m][c].pcm = 1, t.pcm = 0
  PROVE  /\ Cardinality(Arrivals!HaveOne') = Cardinality(Arrivals!HaveOne) - 1
         /\ Cardinality(Arrivals!HaveOne) \in Nat \ {0}
  <1>1. /\ task'[m][c] = t
        /\ \A n \in Messages, d \in {1, 2} : n # m \/ d # c => task'[n][d] = task[n][d]
    BY TaskSet DEF ArrivalInv, ArrivalTypes
  <1>2. Arrivals!HaveOne' = Arrivals!HaveOne \ {<<m, c>>}
    BY <1>1 DEF Arrivals!HaveOne, Arrivals!Copies, Messages
  <1>3. <<m, c>> \in Arrivals!HaveOne
    BY DEF Arrivals!HaveOne, Arrivals!Copies, Messages
  <1>4. Cardinality(Arrivals!HaveOne') = Cardinality(Arrivals!HaveOne) - 1
    BY <1>2, <1>3, HaveOneFinite, FS_RemoveElement
  <1>5. Cardinality(Arrivals!HaveOne) # 0
    BY <1>3, HaveOneFinite, FS_EmptySet
  <1> QED  BY <1>4, <1>5, HaveOneFinite, FS_CardinalityType

\* A voice is converted.
LEMMA TranscodeStep ==
  ASSUME ArrivalInv, NEW m \in Messages, NEW c \in {1, 2}, NEW ok \in BOOLEAN,
         Arrivals!Transcode(m, c, ok)
  PROVE  ArrivalInv'
  <1> DEFINE t == task[m][c]
             u == [t EXCEPT !.at = "recognize", !.pcm = 1]
             v == [t EXCEPT !.at = "look"]
  <1>0. /\ t.at = "transcode" /\ pcms' = pcms + 1
        /\ UNCHANGED <<source, written, got, accepted, store, placed, gone, repeated>>
        /\ IF ok THEN Arrivals!Set(m, c, u) /\ left' = left ELSE Arrivals!Set(m, c, v) /\ left' = left + 1
    BY DEF Arrivals!Transcode, Arrivals!At
  <1>1. t \in Handlers /\ HandlerOf(m, c)
    BY HandlerFields
  <1>2. u \in Handlers /\ u.at = "recognize" /\ u.pcm = 1 /\ u.text = t.text /\ u.files = t.files
    BY <1>0, <1>1 DEF Handlers
  <1>3. v \in Handlers /\ v.at = "look" /\ v.pcm = t.pcm /\ v.text = t.text /\ v.files = t.files
    BY <1>0, <1>1 DEF Handlers
  <1>4. /\ t.pcm = 0 /\ t.text # "none" /\ source = "lark"
        /\ t.text = "placeholder" => written[m] = "voice"
        /\ \A f \in t.files : f[1] = m
    BY <1>0, <1>1 DEF HandlerOf, Handlers
  <1>5. /\ pcms \in Nat /\ left \in Nat /\ pcms = left + Cardinality(Arrivals!HaveOne)
        /\ Cardinality(Arrivals!HaveOne) \in Nat
    BY HaveOneFinite, FS_CardinalityType DEF ArrivalInv, ArrivalTypes, PlaceTypes, PcmInv
  <1> HIDE DEF u, t, v
  <1>6. pcms' \in Nat /\ left' \in Nat
    BY <1>0, <1>5
  <1>7. CASE ok
    <2>1. Cardinality(Arrivals!HaveOne') = Cardinality(Arrivals!HaveOne) + 1
      BY <1>0, <1>2, <1>4, <1>7, OneMore DEF t
    <2>2. PcmInv'
      BY <2>1, <1>0, <1>5, <1>7 DEF PcmInv
    <2> QED  BY <1>0, <1>2, <1>4, <1>6, <1>7, <2>2, WorksOn DEF t
  <1>8. CASE ~ ok
    <2>1. Arrivals!HaveOne' = Arrivals!HaveOne
      BY <1>0, <1>3, <1>8, SameOnes DEF t
    <2>2. PcmInv'
      BY <2>1, <1>0, <1>5, <1>8 DEF PcmInv
    <2> QED  BY <1>0, <1>3, <1>4, <1>6, <1>8, <2>2, WorksOn DEF t
  <1> QED  BY <1>7, <1>8

\* A voice is recognized, or not.
LEMMA RecognizeStep ==
  ASSUME ArrivalInv, NEW m \in Messages, NEW c \in {1, 2}, NEW how \in {"ok", "refused", "broken"},
         Arrivals!Recognize(m, c, how)
  PROVE  ArrivalInv'
  <1> DEFINE t == task[m][c]
             text == IF how = "ok" THEN "transcript" ELSE t.text
             u == [Arrivals!Recognized(t, how) EXCEPT !.pcm = 0]
  <1>1. t \in Handlers /\ HandlerOf(m, c)
    BY HandlerFields
  <1>0. /\ t.at = "recognize" /\ t.pcm = 1 /\ pcms' = pcms - 1
        /\ UNCHANGED <<source, written, got, accepted, store, placed, repeated, left>>
        /\ IF how = "broken" THEN Arrivals!Set(m, c, Arrivals!Done) /\ gone' = gone \cup {<<m, "recognize">>}
                             ELSE Arrivals!Set(m, c, u) /\ gone' = gone
    BY <1>1 DEF Arrivals!Recognize, Arrivals!Removed, Arrivals!Lose, HandlerOf
  <1>2. u \in Handlers /\ u.at = "look" /\ u.pcm = 0 /\ u.text = text /\ u.files = t.files
    BY <1>0, <1>1 DEF Handlers, Texts, Arrivals!Recognized
  <1>4. /\ text # "none" /\ source = "lark"
        /\ text = "placeholder" => written[m] = "voice"
        /\ \A f \in t.files : f[1] = m
    BY <1>0, <1>1 DEF HandlerOf, Handlers
  <1>5. /\ pcms \in Nat /\ left \in Nat /\ pcms = left + Cardinality(Arrivals!HaveOne)
    BY DEF ArrivalInv, ArrivalTypes, PlaceTypes, PcmInv
  <1> DEFINE w == IF how = "broken" THEN Arrivals!Done ELSE u
  <1>6. /\ w \in Handlers /\ w.at \in {"done", "look"} /\ w.pcm = 0 /\ (w.text = text \/ w.text = "none")
        /\ w.at = "look" => w.text = text
        /\ \A f \in w.files : f[1] = m
        /\ w.at = "done" => how = "broken"
    BY <1>2, <1>4, Over
  <1>7. Arrivals!Set(m, c, w) /\ gone \subseteq gone' /\ (how = "broken" => <<m, "recognize">> \in gone')
    BY <1>0
  <1> HIDE DEF u, t, w, text
  <1>8. /\ Cardinality(Arrivals!HaveOne') = Cardinality(Arrivals!HaveOne) - 1
        /\ Cardinality(Arrivals!HaveOne) \in Nat \ {0}
    BY <1>0, <1>6, <1>7, OneLess DEF t
  <1>9. PcmInv' /\ pcms' \in Nat /\ left' \in Nat
    BY <1>0, <1>5, <1>8 DEF PcmInv
  <1>10. how = "broken" => Arrivals!Lost(m, {"fetch", "recognize"})'
    BY <1>7 DEF Arrivals!Lost
  <1> QED  BY <1>0, <1>4, <1>6, <1>7, <1>9, <1>10, WorksOn DEF t

\* A message is put into the inbox, if it is not there.
LEMMA InsertStep ==
  ASSUME ArrivalInv, NEW m \in Messages, NEW c \in {1, 2}, NEW ok \in BOOLEAN,
         Arrivals!Insert(m, c, ok)
  PROVE  ArrivalInv'
  <1> DEFINE t == task[m][c]
             u == [t EXCEPT !.at = "look", !.saves = @ + 1]
             e == [of |-> m, text |-> t.text, files |-> t.files, tried |-> 0, dead |-> FALSE]
  <1>1. t \in Handlers /\ HandlerOf(m, c)
    BY HandlerFields
  <1>0. /\ t.at = "insert"
        /\ UNCHANGED <<source, written, got, store, placed, pcms, repeated, left>>
    BY DEF Arrivals!Insert
  <1>2. u \in Handlers /\ u.at = "look" /\ u.pcm = t.pcm /\ u.text = t.text /\ u.files = t.files
    <2>1. u = [t EXCEPT !.at = "look", !.saves = t.saves + 1] /\ t.saves + 1 \in Nat
      BY <1>1 DEF Handlers
    <2> QED  BY <1>1, <2>1 DEF Handlers
  <1>3. e \in Entries /\ e.of = m /\ e.text = t.text /\ e.files = t.files /\ e.tried = 0
    BY <1>1 DEF Handlers, Entries
  <1>4. /\ t.pcm = 0 /\ t.text # "none" /\ m <= got /\ (c = 2 => m \in repeated)
        /\ t.text = "placeholder" => written[m] = "voice"
        /\ \A f \in t.files : f[1] = m
        /\ t.files \subseteq Arrivals!File
    BY <1>0, <1>1 DEF HandlerOf, Handlers
  <1>5. CASE ~ (ok /\ ~ Arrivals!Arrived(m))
    <2>0. accepted' = accepted
      BY <1>5 DEF Arrivals!Insert, Arrivals!Known, Arrivals!Arrived
    <2>1. CASE ok
      <3>1. Arrivals!Set(m, c, Arrivals!Done) /\ gone' = gone
        BY <2>1 DEF Arrivals!Insert
      <3> HIDE DEF t, u, e
      <3>2. task[m][c].at # "done" /\ task[m][c].pcm = 0
        BY <1>0, <1>4 DEF t
      <3> QED  BY <1>0, <1>5, <2>0, <2>1, <3>1, <3>2, Ends
    <2>2. CASE ~ ok /\ t.saves + 1 < MaxSaves
      <3>1. Arrivals!Set(m, c, u) /\ gone' = gone
        BY <2>2 DEF Arrivals!Insert
      <3>2. /\ u \in Handlers /\ u.at = "look" /\ u.pcm = 0 /\ u.text # "none"
            /\ u.text = "placeholder" => written[m] = "voice"
            /\ \A f \in u.files : f[1] = m
        BY <1>2, <1>4
      <3>3. task[m][c].at # "done" /\ task[m][c].pcm = 0
        BY <1>0, <1>4
      <3> HIDE DEF t, u, e
      <3> QED  BY <1>0, <2>0, <3>1, <3>2, <3>3, GoesOn
    <2>3. CASE ~ ok /\ ~ (t.saves + 1 < MaxSaves)
      <3>1. Arrivals!Set(m, c, Arrivals!Done) /\ gone' = gone \cup {<<m, "save">>}
        BY <2>3 DEF Arrivals!Insert, Arrivals!Lose
      <3>2. Arrivals!Lost(m, {"save", "crash"})' /\ gone \subseteq gone'
        BY <3>1 DEF Arrivals!Lost
      <3>3. task[m][c].at # "done" /\ task[m][c].pcm = 0
        BY <1>0, <1>4
      <3> HIDE DEF t, u, e
      <3> QED  BY <1>0, <2>0, <3>1, <3>2, <3>3, Ends
    <2> QED  BY <2>1, <2>2, <2>3
  <1>6. CASE ok /\ ~ Arrivals!Arrived(m)
    <2>0. /\ accepted' = Append(accepted, e) /\ Arrivals!Set(m, c, Arrivals!Done) /\ gone' = gone
      BY <1>6 DEF Arrivals!Insert, Arrivals!Known, Arrivals!Arrived
    <2>1. \A i \in DOMAIN accepted : accepted[i].of # m
      BY <1>6 DEF Arrivals!Arrived
    <2>2. /\ Len(accepted) \in Nat /\ DOMAIN accepted = 1 .. Len(accepted)
          /\ accepted' \in Seq(Entries) /\ DOMAIN accepted' = 1 .. (Len(accepted) + 1)
          /\ \A i \in DOMAIN accepted : i \in DOMAIN accepted' /\ accepted'[i] = accepted[i]
          /\ accepted'[Len(accepted) + 1] = e
          /\ Len(accepted) + 1 \in DOMAIN accepted'
          /\ \A i \in DOMAIN accepted' : i \in DOMAIN accepted \/ i = Len(accepted) + 1
      BY <1>3, <2>0 DEF ArrivalInv, ArrivalTypes, InboxTypes
    <2>3. task[m][c].at # "done" /\ task[m][c].pcm = 0
      BY <1>0, <1>4
    <2>4. source = "qq" /\ c = 1 => m = got
      BY <2>3 DEF ArrivalInv, AwaitedInv
    <2>5. /\ Arrivals!Done \in Handlers /\ Arrivals!Done.at = "done" /\ Arrivals!Done.pcm = 0
          /\ Arrivals!Done.files = {} /\ Arrivals!Done.text = "none"
      BY Over
    <2> DEFINE w == Arrivals!Done
               newest == Len(accepted) + 1
    <2>6. Arrivals!Set(m, c, w) /\ \A f \in w.files : f[1] = m
      BY <2>0, <2>5
    <2> HIDE DEF w, t, u, e
    <2>7. TaskTypes' /\ PersonTypes' /\ HandlersInv' /\ AwaitedInv'
      BY <1>0, <2>3, <2>5, <2>6, HandlerMoves DEF w
    <2>8. InboxTypes' /\ PlaceTypes'
      BY <1>0, <2>2 DEF InboxTypes, PlaceTypes, ArrivalInv, ArrivalTypes
    <2>9. PcmInv'
      BY <1>0, <2>3, <2>5, <2>6, PcmStays DEF w
    <2>10. ThroughInv'
      <3>1. /\ task'[m][c] = w
            /\ \A n \in Messages, d \in {1, 2} : n # m \/ d # c => task'[n][d] = task[n][d]
        BY <2>5, <2>6, TaskSet DEF ArrivalInv, ArrivalTypes, w
      <3>2. Arrivals!Arrived(m)'
        BY <1>3, <2>2 DEF Arrivals!Arrived
      <3> QED  BY <1>0, <2>0, <2>2, <3>1, <3>2, ThroughKept
    <2>11. ReadInv'
      BY <1>0, <1>3, <1>4, <2>2 DEF ArrivalInv, ReadInv
    <2>12. InOrderInv'
      <3>1. \A i \in DOMAIN accepted' : accepted'[i].of <= got'
        BY <1>0, <1>3, <1>4, <2>2 DEF ArrivalInv, InOrderInv
      <3>2. ASSUME NEW i \in DOMAIN accepted', NEW j \in DOMAIN accepted', i < j
            PROVE  /\ accepted'[i].of # accepted'[j].of
                   /\ source' = "qq" => \/ accepted'[i].of < accepted'[j].of
                                        \/ accepted'[j].of \in repeated'
        <4>1. i \in DOMAIN accepted
          BY <2>2, <3>2
        <4>2. CASE j \in DOMAIN accepted
          BY <1>0, <2>2, <3>2, <4>1, <4>2 DEF ArrivalInv, InOrderInv
        <4>3. CASE j = newest
          <5>1. accepted'[i].of # accepted'[j].of /\ accepted'[j].of = m
            BY <1>3, <2>1, <2>2, <4>1, <4>3
          <5>2. source = "qq" => accepted'[i].of < m \/ m \in repeated
            <6>1. accepted[i].of \in Nat /\ accepted[i].of <= got /\ got \in Nat /\ accepted[i].of # m
              BY <2>1, <4>1, EntryFields, BackendAssumption
                 DEF Messages, ArrivalInv, ArrivalTypes, PersonTypes
            <6>2. accepted'[i].of = accepted[i].of
              BY <2>2, <4>1
            <6> QED  BY <1>4, <2>4, <6>1, <6>2
          <5> QED  BY <1>0, <5>1, <5>2
        <4> QED  BY <2>2, <4>2, <4>3
      <3> QED  BY <3>1, <3>2 DEF InOrderInv
    <2>13. PlacedInv'
      <3>1. \A f \in Arrivals!File : f[1] = m => placed[f] = 0
        <4> SUFFICES ASSUME NEW f \in Arrivals!File, f[1] = m, placed[f] # 0  PROVE FALSE
          OBVIOUS
        <4>1. PICK i \in DOMAIN accepted : f \in accepted[i].files
          BY DEF ArrivalInv, PlacedInv
        <4> QED  BY <2>1, <4>1 DEF ArrivalInv, PlacedInv
      <3>2. \A i \in DOMAIN accepted' : \A f \in accepted'[i].files : f[1] = accepted'[i].of
        BY <1>3, <1>4, <2>2 DEF ArrivalInv, PlacedInv
      <3>3. \A i \in DOMAIN accepted' : \A f \in accepted'[i].files :
              placed'[f] = IF accepted'[i].tried > 0 THEN 1 ELSE 0
        <4> SUFFICES ASSUME NEW i \in DOMAIN accepted', NEW f \in accepted'[i].files
                     PROVE  placed[f] = IF accepted'[i].tried > 0 THEN 1 ELSE 0
          BY <1>0
        <4>1. CASE i \in DOMAIN accepted
          BY <2>2, <4>1 DEF ArrivalInv, PlacedInv
        <4>2. CASE i = newest
          <5>1. accepted'[i].tried = 0 /\ f \in t.files
            BY <1>3, <2>2, <4>2
          <5>2. ~ (0 > 0)
            OBVIOUS
          <5> QED  BY <1>4, <3>1, <5>1, <5>2
        <4> QED  BY <2>2, <4>1, <4>2
      <3>4. \A f \in Arrivals!File : placed'[f] # 0 => \E i \in DOMAIN accepted' : f \in accepted'[i].files
        BY <1>0, <2>2 DEF ArrivalInv, PlacedInv
      <3> QED  BY <3>2, <3>3, <3>4 DEF PlacedInv
    <2> QED  BY <2>7, <2>8, <2>9, <2>10, <2>11, <2>12, <2>13 DEF ArrivalInv, ArrivalTypes
  <1> QED  BY <1>5, <1>6

\* An attempt puts a message's files into the project.
LEMMA PlaceStep ==
  ASSUME ArrivalInv, NEW i \in DOMAIN accepted, Arrivals!Stage(i)  PROVE ArrivalInv'
  <1> DEFINE e == accepted[i]
             g == [e EXCEPT !.tried = @ + 1]
             d == [e EXCEPT !.dead = TRUE]
             k == IF e.files \subseteq store THEN g ELSE d
  <1>0. UNCHANGED <<source, written, got, task, store, pcms, gone, repeated, left>>
    BY DEF Arrivals!Stage
  <1>1. e \in Entries /\ e.of \in Messages
    BY EntryFields
  <1>2. g \in Entries /\ g.of = e.of /\ g.text = e.text /\ g.files = e.files /\ g.tried = e.tried + 1
    BY <1>1 DEF Entries
  <1>3. d \in Entries /\ d.of = e.of /\ d.text = e.text /\ d.files = e.files /\ d.tried = e.tried
    BY <1>1 DEF Entries
  <1>4. accepted' = [accepted EXCEPT ![i] = k]
    BY DEF Arrivals!Stage
  <1>5. /\ e.files \subseteq store => placed' = [f \in Arrivals!File |-> IF f \in e.files THEN 1 ELSE placed[f]]
        /\ ~ (e.files \subseteq store) => placed' = placed
    BY DEF Arrivals!Stage, Arrivals!OneCopy
  <1>6. e.files \subseteq Arrivals!File /\ e.tried \in Nat
    BY <1>1 DEF Entries
  <1>7. /\ k \in Entries /\ k.of = e.of /\ k.text = e.text /\ k.files = e.files
        /\ e.files \subseteq store => k.tried > 0
        /\ ~ (e.files \subseteq store) => k.tried = e.tried
    BY <1>2, <1>3, <1>6
  <1> HIDE DEF k, g, d
  <1>8. /\ accepted' \in Seq(Entries) /\ DOMAIN accepted' = DOMAIN accepted
        /\ accepted'[i] = k /\ \A j \in DOMAIN accepted : j # i => accepted'[j] = accepted[j]
    BY <1>4, <1>7 DEF ArrivalInv, ArrivalTypes, InboxTypes
  <1>9. \A j \in DOMAIN accepted : /\ accepted'[j].of = accepted[j].of
                                  /\ accepted'[j].text = accepted[j].text
                                  /\ accepted'[j].files = accepted[j].files
    BY <1>7, <1>8
  <1>10. /\ placed' \in [Arrivals!File -> Nat]
         /\ \A f \in Arrivals!File : f \notin e.files => placed'[f] = placed[f]
         /\ e.files \subseteq store => \A f \in e.files : placed'[f] = 1
         /\ ~ (e.files \subseteq store) => \A f \in e.files : placed'[f] = placed[f]
    BY <1>5, <1>6 DEF ArrivalInv, ArrivalTypes, PlaceTypes
  <1>11. ArrivalTypes'
    BY <1>0, <1>8, <1>10 DEF ArrivalInv, ArrivalTypes, TaskTypes, InboxTypes, PersonTypes,
        PlaceTypes
  <1>12. HandlersInv' /\ AwaitedInv'
    BY <1>0 DEF ArrivalInv, HandlersInv, HandlerOf, AwaitedInv
  <1>13. ThroughInv'
    BY <1>0, <1>8, <1>9 DEF ArrivalInv, ThroughInv, ThroughOf, Arrivals!Arrived, Arrivals!UnderWay,
                            Arrivals!Lost
  <1>14. InOrderInv' /\ ReadInv'
    BY <1>0, <1>8, <1>9 DEF ArrivalInv, InOrderInv, ReadInv
  <1>15. PcmInv'
    <2>1. Arrivals!HaveOne' = Arrivals!HaveOne
      BY <1>0 DEF Arrivals!HaveOne
    <2> QED  BY <1>0, <2>1 DEF ArrivalInv, PcmInv
  <1>16. PlacedInv'
    <2>1. \A j \in DOMAIN accepted' : \A f \in accepted'[j].files : f[1] = accepted'[j].of
      BY <1>8, <1>9 DEF ArrivalInv, PlacedInv
    <2>2. \A f \in Arrivals!File : placed'[f] # 0 => \E j \in DOMAIN accepted' : f \in accepted'[j].files
      BY <1>8, <1>9, <1>10 DEF ArrivalInv, PlacedInv
    <2>3. ASSUME NEW j \in DOMAIN accepted, NEW f \in accepted[j].files
          PROVE  placed'[f] = IF accepted'[j].tried > 0 THEN 1 ELSE 0
      <3>0. f \in Arrivals!File /\ f[1] = accepted[j].of
            /\ placed[f] = IF accepted[j].tried > 0 THEN 1 ELSE 0
        <4>1. accepted[j] \in Entries
          BY EntryFields
        <4> QED  BY <4>1 DEF Entries, ArrivalInv, PlacedInv
      <3>1. CASE j = i
        BY <3>0, <3>1, <1>7, <1>8, <1>10
      <3>2. CASE j # i
        <4>1. accepted[j].of # accepted[i].of
          BY <3>2, OnceEach
        <4>2. f \notin e.files
          BY <3>0, <4>1 DEF ArrivalInv, PlacedInv
        <4> QED  BY <3>0, <3>2, <4>2, <1>8, <1>10
      <3> QED  BY <3>1, <3>2
    <2> QED  BY <2>1, <2>2, <2>3, <1>8, <1>9 DEF PlacedInv
  <1> QED  BY <1>11, <1>12, <1>13, <1>14, <1>15, <1>16 DEF ArrivalInv

\* The process dies, and with it what was under way.
LEMMA DiesStep ==
  ASSUME ArrivalInv, NEW cleared \in BOOLEAN, Arrivals!Crash(cleared)  PROVE ArrivalInv'
  <1>0. /\ UNCHANGED <<source, written, got, accepted, placed, repeated>>
        /\ left' = pcms' /\ pcms' = IF cleared THEN 0 ELSE pcms
        /\ task' = [m \in Messages |-> [c \in {1, 2} |-> Arrivals!Done]]
        /\ gone' = gone \cup {<<m, "crash">> : m \in {n \in Messages : Arrivals!UnderWay(n)}}
    BY DEF Arrivals!Crash, Arrivals!Copies, Arrivals!UnderWay, Messages
  <1>1. TaskTypes' /\ \A m \in Messages, c \in {1, 2} : task'[m][c] = Arrivals!Done
    BY <1>0, Over DEF TaskTypes
  <1>2. \A m \in Messages, c \in {1, 2} :
          task'[m][c].at = "done" /\ task'[m][c].pcm = 0 /\ task'[m][c].files = {} /\ task'[m][c].text = "none"
    BY <1>1, Over
  <1>3. ArrivalTypes'
    <2>1. pcms' \in Nat
      BY <1>0 DEF ArrivalInv, ArrivalTypes, PlaceTypes
    <2> QED  BY <1>0, <1>1, <2>1 DEF ArrivalInv, ArrivalTypes, InboxTypes, PersonTypes, PlaceTypes
  <1>4. HandlersInv'
    <2> SUFFICES ASSUME NEW m \in Messages, NEW c \in {1, 2}  PROVE HandlerOf(m, c)'
      BY DEF HandlersInv
    <2> QED  BY <1>2 DEF HandlerOf
  <1>5. AwaitedInv'
    BY <1>2 DEF AwaitedInv
  <1>6. InOrderInv' /\ ReadInv' /\ PlacedInv'
    BY <1>0 DEF ArrivalInv, InOrderInv, ReadInv, PlacedInv
  <1>7. ThroughInv'
    <2> SUFFICES ASSUME NEW n \in 1 .. got  PROVE ThroughOf(n)'
      BY <1>0 DEF ThroughInv
    <2>1. n \in Messages /\ ThroughOf(n)
      BY BackendAssumption DEF ArrivalInv, ArrivalTypes, PersonTypes, Messages, ThroughInv
    <2>2. Arrivals!UnderWay(n) => Arrivals!Lost(n, {"save", "crash"})'
      BY <1>0, <2>1 DEF Arrivals!Lost
    <2>3. gone \subseteq gone'
      BY <1>0
    <2>4. Arrivals!Lost(n, {"save", "crash"}) => Arrivals!Lost(n, {"save", "crash"})'
      BY <2>3 DEF Arrivals!Lost
    <2>5. Arrivals!Lost(n, {"fetch", "recognize"}) => Arrivals!Lost(n, {"fetch", "recognize"})'
      BY <2>3 DEF Arrivals!Lost
    <2>6. Arrivals!Arrived(n) => Arrivals!Arrived(n)'
      BY <1>0 DEF Arrivals!Arrived
    <2> QED  BY <1>0, <2>1, <2>2, <2>4, <2>5, <2>6 DEF ThroughOf
  <1>8. PcmInv'
    <2>1. Arrivals!HaveOne' = {}
      <3>1. \A m \in 1 .. MaxArrivals, c \in {1, 2} : ~ (task'[m][c].pcm = 1)
        BY <1>2 DEF Messages
      <3> QED  BY ONLY <3>1 DEF Arrivals!HaveOne, Arrivals!Copies
    <2>2. left' = left' + 0
      <3>1. left' \in Nat
        BY <1>3 DEF ArrivalTypes, PlaceTypes
      <3>2. \A n \in Nat : n = n + 0
        OBVIOUS
      <3> QED  BY ONLY <3>1, <3>2
    <2>3. Cardinality(Arrivals!HaveOne') = 0
      BY <2>1, FS_EmptySet
    <2>4. pcms' = left' + Cardinality(Arrivals!HaveOne')
      BY <1>0, <2>2, <2>3
    <2> QED  BY <2>4 DEF PcmInv
  <1> QED  BY <1>3, <1>4, <1>5, <1>6, <1>7, <1>8 DEF ArrivalInv

\* Every step of a message on its way to the inbox keeps it.
LEMMA ArrivalStep == ArrivalInv /\ [Arrivals!Next]_arrivalVars => ArrivalInv'
  <1> SUFFICES ASSUME ArrivalInv, [Arrivals!Next]_arrivalVars  PROVE ArrivalInv'
    OBVIOUS
  <1>1. CASE Arrivals!Next
    <2>1. CASE \E sort \in Sorts : Arrivals!Write(sort)
      BY <2>1, WriteStep
    <2>2. CASE \E m \in Messages : Arrivals!Deliver(m) \/ Arrivals!DeliverAgain(m)
      BY <2>2, DeliverStep, DeliverAgainStep
    <2>3. CASE \E m \in Messages, c \in {1, 2}, how \in {"ok", "refused", "broken"} :
                 Arrivals!Fetch(m, c, how) \/ Arrivals!Recognize(m, c, how)
      BY <2>3, FetchStep, RecognizeStep
    <2>4. CASE \E m \in Messages, c \in {1, 2} : Arrivals!Heard(m, c) \/ Arrivals!Look(m, c)
      BY <2>4, HeardStep, LookStep
    <2>5. CASE \E m \in Messages, c \in {1, 2}, ok \in BOOLEAN :
                 Arrivals!Transcode(m, c, ok) \/ Arrivals!Insert(m, c, ok)
      BY <2>5, TranscodeStep, InsertStep
    <2>6. CASE \E i \in DOMAIN accepted : Arrivals!Stage(i)
      BY <2>6, PlaceStep
    <2>7. CASE \E cleared \in BOOLEAN : Arrivals!Crash(cleared)
      BY <2>7, DiesStep
    <2> QED
      BY <1>1, <2>1, <2>2, <2>3, <2>4, <2>5, <2>6, <2>7 DEF Arrivals!Next, Arrivals!Copies, Messages
  <1>2. CASE UNCHANGED arrivalVars
    <2>1. UNCHANGED <<source, written, got, task, accepted, placed, pcms, gone, repeated, left>>
      BY <1>2 DEF arrivalVars
    <2>2. ArrivalTypes' /\ HandlersInv' /\ AwaitedInv'
      BY <2>1 DEF ArrivalInv, ArrivalTypes, TaskTypes, InboxTypes, PersonTypes, PlaceTypes,
                  HandlersInv, HandlerOf, AwaitedInv
    <2>3. ThroughInv' /\ InOrderInv' /\ ReadInv' /\ PlacedInv'
      BY <2>1 DEF ArrivalInv, ThroughInv, ThroughOf, Arrivals!Arrived, Arrivals!UnderWay,
                  Arrivals!Lost, InOrderInv, ReadInv, PlacedInv
    <2>4. PcmInv'
      <3>1. Arrivals!HaveOne' = Arrivals!HaveOne
        BY <2>1 DEF Arrivals!HaveOne
      <3> QED  BY <2>1, <3>1 DEF ArrivalInv, PcmInv
    <2> QED  BY <2>2, <2>3, <2>4 DEF ArrivalInv
  <1> QED  BY <1>1, <1>2

\* What the invariant says of a message a person wrote.
LEMMA ArrivalHolds == ArrivalInv => Arrivals!MessagesComeThrough
  <1> SUFFICES ASSUME ArrivalInv  PROVE Arrivals!MessagesComeThrough
    OBVIOUS
  <1>1. \A m \in 1 .. got :
          \/ Arrivals!Arrived(m) \/ Arrivals!UnderWay(m)
          \/ source = "qq" /\ written[m] = "image"
          \/ Arrivals!Lost(m, {"save", "crash"})
          \/ source = "lark" /\ Arrivals!Lost(m, {"fetch", "recognize"})
    BY DEF ArrivalInv, ThroughInv, ThroughOf
  <1>2. \A i, j \in DOMAIN accepted :
          i < j => /\ accepted[i].of # accepted[j].of
                   /\ source = "qq" => \/ accepted[i].of < accepted[j].of
                                       \/ accepted[j].of \in repeated
    BY DEF ArrivalInv, InOrderInv
  <1>3. \A i \in DOMAIN accepted :
          /\ accepted[i].text # "none"
          /\ accepted[i].text = "placeholder" => written[accepted[i].of] = "voice"
          /\ \A f \in accepted[i].files : placed[f] = IF accepted[i].tried > 0 THEN 1 ELSE 0
    BY DEF ArrivalInv, ReadInv, PlacedInv
  <1>4. pcms = left + Arrivals!Cardinality(Arrivals!HaveOne)
    BY DEF ArrivalInv, PcmInv, Arrivals!Cardinality, Cardinality
  <1> QED  BY <1>1, <1>2, <1>3, <1>4 DEF Arrivals!MessagesComeThrough

-----------------------------------------------------------------------------
(* How a reply reaches a person (ChannelSends.tla)                         *)

Conversations == {"user", "group"}
Routes == [group : Conversations \cup {Nobody}, sender : {"user", Nobody}]
Outgoings ==
  [home : Conversations \cup {Nobody}, route : Routes, reply : BOOLEAN, parts : {1, 2},
   media : BOOLEAN, status : {"pending", "sending", "sent", "dead", "cancelled"}, tries : Nat,
   owner : SendWorkers \cup {Nobody}]
Calls == {"reply", "create"}
Sending == {"convert", "upload", "reply", "create"}
Senders ==
  [row : Nat, try : Nat, at : {"off", "prepare", "sent", "dead", "cancelled", "retry"} \cup Sending,
   part : Nat, to : Conversations \cup {Nobody}, held : {0, 1}, id : BOOLEAN]
Shows == [row : Nat, part : Nat, key : Nat \X Nat, to : Conversations, call : Calls]

RouteTypes == channel \in {"lark", "weixin", "qq"} /\ last \in Routes
OutgoingTypes == outgoing \in Seq(Outgoings)
SenderTypes == sender \in [SendWorkers -> Senders]
ShownTypes == arrived \in Seq(Shows)
TempTypes == temps \in Nat /\ spoiled \in Nat

SendTypes == RouteTypes /\ OutgoingTypes /\ SenderTypes /\ ShownTypes /\ TempTypes

\* Part p of row r was shown to c, in A; and all parts before p.
Has(A, r, p, c) == \E i \in DOMAIN A : A[i].row = r /\ A[i].part = p /\ A[i].to = c
Before(A, r, p, c) == \A q \in Nat : 1 <= q /\ q < p => Has(A, r, q, c)

\* It is where it was asked for, but for the exception.
Meant(r, c) ==
  \/ c = outgoing[r].home \/ outgoing[r].home = Nobody
  \/ channel = "qq" /\ last.group = "group"

\* Whoever wrote last, Lark names the chat; QQ names only groups.
LastInv ==
  /\ channel = "lark" => (last.group = Nobody => last.sender = Nobody)
  /\ channel = "qq" => last.group # "user"

\* A row's route leads to where it is for.
Leads(o) ==
  /\ channel = "lark" /\ o.home # Nobody => o.route.group = o.home
  /\ channel = "weixin" => o.home # "group"
  /\ channel = "qq" =>
       /\ o.route.group # Nobody => o.route.group = o.home
       /\ o.route.group = Nobody => o.home # "group"

RoutesInv == \A r \in DOMAIN outgoing : Leads(outgoing[r])

\* What is called sent was shown.
WholeOf(r) ==
  outgoing[r].status = "sent" => \E c \in Conversations : Before(arrived, r, outgoing[r].parts + 1, c)

WholeInv == \A r \in DOMAIN outgoing : WholeOf(r)

\* A worker, by what it is at.
SenderOf(w) ==
  /\ sender[w].at # "off" => sender[w].row \in DOMAIN outgoing
  /\ sender[w].at \in Sending =>
       /\ sender[w].to \in Conversations /\ Meant(sender[w].row, sender[w].to)
       /\ 1 <= sender[w].part /\ sender[w].part <= outgoing[sender[w].row].parts
       /\ Before(arrived, sender[w].row, sender[w].part, sender[w].to)
  /\ sender[w].at = "sent" =>
       /\ sender[w].to \in Conversations
       /\ Before(arrived, sender[w].row, outgoing[sender[w].row].parts + 1, sender[w].to)
  /\ sender[w].held = 1 <=> sender[w].at = "upload"

SendersInv == \A w \in SendWorkers : SenderOf(w)

\* What was shown.
ShowInv ==
  \A i \in DOMAIN arrived :
    /\ arrived[i].row \in DOMAIN outgoing /\ arrived[i].key = <<arrived[i].row, arrived[i].part>>
    /\ 1 <= arrived[i].part /\ Meant(arrived[i].row, arrived[i].to)

\* The parts before it were shown before it.
BeforeInv ==
  \A i \in DOMAIN arrived : \A q \in Nat :
    1 <= q /\ q < arrived[i].part =>
      \E k \in DOMAIN arrived : k < i /\ arrived[k].row = arrived[i].row /\ arrived[k].part = q
                               /\ arrived[k].to = arrived[i].to

\* No part is shown before an earlier one, but a second time, after Lark's reply.
TurnInv ==
  \A i, j \in DOMAIN arrived :
    i < j /\ arrived[i].row = arrived[j].row /\ arrived[i].to = arrived[j].to =>
      \/ arrived[i].part < arrived[j].part
      \/ \E k \in 1 .. i : /\ arrived[k].row = arrived[i].row /\ arrived[k].to = arrived[i].to
                           /\ arrived[k].part = arrived[j].part
                           /\ {arrived[k].call, arrived[j].call} = Calls

TempInv == IsFiniteSet(Sends!Holding) /\ temps = spoiled + Cardinality(Sends!Holding)

SendInv ==
  /\ SendTypes /\ LastInv /\ RoutesInv /\ WholeInv /\ SendersInv /\ ShowInv /\ BeforeInv
  /\ TurnInv /\ TempInv

\* At the beginning nothing was said.
LEMMA SendStart == Sends!Init => SendInv
  <1> SUFFICES ASSUME Sends!Init  PROVE SendInv
    OBVIOUS
  <1>1. /\ channel \in {"lark", "weixin", "qq"} /\ last = [group |-> Nobody, sender |-> Nobody]
        /\ outgoing = <<>> /\ arrived = <<>> /\ temps = 0 /\ spoiled = 0
        /\ sender = [w \in SendWorkers |-> Sends!Off]
    BY BackendAssumption DEF Sends!Init, Sends!NoRoute
  <1>2. last \in Routes /\ last.group = Nobody /\ last.sender = Nobody
    BY <1>1 DEF Routes
  <1>3. Sends!Off \in Senders /\ Sends!Off.at = "off" /\ Sends!Off.held = 0
    BY DEF Sends!Off, Senders
  <1>4. SenderTypes /\ \A w \in SendWorkers : sender[w].at = "off" /\ sender[w].held = 0
    BY <1>1, <1>3 DEF SenderTypes
  <1> HIDE DEF Sends!Init
  <1>5. SendTypes
    BY <1>1, <1>2, <1>4 DEF SendTypes, RouteTypes, OutgoingTypes, ShownTypes, TempTypes
  <1>6. LastInv
    BY <1>2, BackendAssumption DEF LastInv
  <1>7. DOMAIN outgoing = {} /\ DOMAIN arrived = {}
    BY <1>1
  <1>8. RoutesInv /\ WholeInv /\ ShowInv /\ BeforeInv /\ TurnInv
    BY <1>7 DEF RoutesInv, WholeInv, ShowInv, BeforeInv, TurnInv
  <1>9. SendersInv
    BY <1>4 DEF SendersInv, SenderOf, Sending
  <1>10. TempInv
    <2>1. Sends!Holding = {}
      BY <1>4 DEF Sends!Holding
    <2> QED  BY <1>1, <2>1, FS_EmptySet DEF TempInv
  <1> QED  BY <1>5, <1>6, <1>8, <1>9, <1>10 DEF SendInv

\* ChannelRoute.merge: what the message's own route has none of is the last one's.
LEMMA Merged ==
  ASSUME NEW base \in Routes, NEW own \in Routes
  PROVE  /\ Sends!Merge(base, own) \in Routes
         /\ Sends!Merge(base, own).group = IF own.group # Nobody THEN own.group ELSE base.group
         /\ Sends!Merge(base, own).sender = IF own.sender # Nobody THEN own.sender ELSE base.sender
  <1> DEFINE e == [f \in DOMAIN base |-> IF own[f] # Nobody THEN own[f] ELSE base[f]]
  <1>1. Sends!Merge(base, own) = e
    BY DEF Sends!Merge
  <1>2. DOMAIN base = {"group", "sender"}
    BY DEF Routes
  <1>3. /\ base["group"] \in Conversations \cup {Nobody} /\ base["sender"] \in {"user", Nobody}
        /\ own["group"] \in Conversations \cup {Nobody} /\ own["sender"] \in {"user", Nobody}
    BY DEF Routes
  <1>4. /\ DOMAIN e = {"group", "sender"}
        /\ e["group"] = IF own["group"] # Nobody THEN own["group"] ELSE base["group"]
        /\ e["sender"] = IF own["sender"] # Nobody THEN own["sender"] ELSE base["sender"]
        /\ e = [f \in {"group", "sender"} |-> e[f]]
    BY <1>2
  <1> HIDE DEF e
  <1>5. e["group"] \in Conversations \cup {Nobody} /\ e["sender"] \in {"user", Nobody}
    BY <1>3, <1>4
  <1>6. e \in Routes
    BY <1>4, <1>5 DEF Routes
  <1> QED  BY <1>1, <1>4, <1>6

\* One worker's state is another.
LEMMA SenderSet ==
  ASSUME SendInv, NEW w \in SendWorkers, NEW s \in Senders, Sends!Set(w, s)
  PROVE  /\ SenderTypes' /\ sender'[w] = s
         /\ \A v \in SendWorkers : v # w => sender'[v] = sender[v]
  BY DEF Sends!Set, SendInv, SendTypes, SenderTypes

\* What a worker is made of.
LEMMA SenderFields ==
  ASSUME SendInv, NEW w \in SendWorkers
  PROVE  sender[w] \in Senders /\ SenderOf(w)
  BY DEF SendInv, SendTypes, SenderTypes, SendersInv

\* The same have files.
LEMMA HoldingSame ==
  ASSUME SendInv, NEW w \in SendWorkers, NEW s \in Senders, Sends!Set(w, s), s.held = sender[w].held,
         UNCHANGED <<temps, spoiled>>
  PROVE  TempInv' /\ TempTypes'
  <1>1. sender'[w] = s /\ \A v \in SendWorkers : v # w => sender'[v] = sender[v]
    BY SenderSet
  <1>2. Sends!Holding' = Sends!Holding
    BY <1>1 DEF Sends!Holding
  <1> QED  BY <1>2 DEF SendInv, SendTypes, TempTypes, TempInv

\* One more has one.
LEMMA HoldingMore ==
  ASSUME SendInv, NEW w \in SendWorkers, NEW s \in Senders, Sends!Set(w, s),
         sender[w].held = 0, s.held = 1, temps' = temps + 1, UNCHANGED spoiled
  PROVE  TempInv' /\ TempTypes'
  <1>1. sender'[w] = s /\ \A v \in SendWorkers : v # w => sender'[v] = sender[v]
    BY SenderSet
  <1>2. Sends!Holding' = Sends!Holding \cup {w} /\ w \notin Sends!Holding
    BY <1>1 DEF Sends!Holding
  <1>3. /\ IsFiniteSet(Sends!Holding') /\ Cardinality(Sends!Holding') = Cardinality(Sends!Holding) + 1
        /\ Cardinality(Sends!Holding) \in Nat
    BY <1>2, FS_AddElement, FS_CardinalityType DEF SendInv, TempInv
  <1>4. temps \in Nat /\ spoiled \in Nat /\ temps = spoiled + Cardinality(Sends!Holding)
    BY DEF SendInv, SendTypes, TempTypes, TempInv
  <1>5. temps' \in Nat /\ spoiled' \in Nat /\ temps' = spoiled' + (Cardinality(Sends!Holding) + 1)
    BY ONLY <1>3, <1>4, temps' = temps + 1, spoiled' = spoiled
  <1> QED  BY <1>3, <1>5 DEF TempInv, TempTypes

\* A file is left behind.
LEMMA HoldingSpoiled ==
  ASSUME SendInv, NEW w \in SendWorkers, NEW s \in Senders, Sends!Set(w, s),
         sender[w].held = 0, s.held = 0, temps' = temps + 1, spoiled' = spoiled + 1 + sender[w].held
  PROVE  TempInv' /\ TempTypes'
  <1>1. sender'[w] = s /\ \A v \in SendWorkers : v # w => sender'[v] = sender[v]
    BY SenderSet
  <1>2. Sends!Holding' = Sends!Holding
    BY <1>1 DEF Sends!Holding
  <1>3. IsFiniteSet(Sends!Holding) /\ Cardinality(Sends!Holding) \in Nat
    BY FS_CardinalityType DEF SendInv, TempInv
  <1>4. temps \in Nat /\ spoiled \in Nat /\ temps = spoiled + Cardinality(Sends!Holding)
    BY DEF SendInv, SendTypes, TempTypes, TempInv
  <1>6. spoiled' = spoiled + 1
    BY <1>4
  <1>5. temps' \in Nat /\ spoiled' \in Nat /\ temps' = spoiled' + Cardinality(Sends!Holding)
    BY ONLY <1>3, <1>4, <1>6, temps' = temps + 1
  <1> QED  BY <1>2, <1>3, <1>5 DEF TempInv, TempTypes

\* One less has one.
LEMMA HoldingLess ==
  ASSUME SendInv, NEW w \in SendWorkers, NEW s \in Senders, Sends!Set(w, s),
         sender[w].held = 1, s.held = 0, temps' = temps - 1, UNCHANGED spoiled
  PROVE  TempInv' /\ TempTypes'
  <1>1. sender'[w] = s /\ \A v \in SendWorkers : v # w => sender'[v] = sender[v]
    BY SenderSet
  <1>2. Sends!Holding' = Sends!Holding \ {w} /\ w \in Sends!Holding
    BY <1>1 DEF Sends!Holding
  <1>3. /\ IsFiniteSet(Sends!Holding') /\ Cardinality(Sends!Holding') = Cardinality(Sends!Holding) - 1
        /\ Cardinality(Sends!Holding) \in Nat /\ Cardinality(Sends!Holding) # 0
    BY <1>2, FS_RemoveElement, FS_CardinalityType, FS_EmptySet DEF SendInv, TempInv
  <1>4. temps \in Nat /\ spoiled \in Nat /\ temps = spoiled + Cardinality(Sends!Holding)
    BY DEF SendInv, SendTypes, TempTypes, TempInv
  <1>5. temps' \in Nat /\ spoiled' \in Nat /\ temps' = spoiled' + (Cardinality(Sends!Holding) - 1)
    BY ONLY <1>3, <1>4, temps' = temps - 1, spoiled' = spoiled
  <1> QED  BY <1>3, <1>5 DEF TempInv, TempTypes

\* What was shown stays shown.
LEMMA Grows ==
  ASSUME \A i \in DOMAIN arrived : i \in DOMAIN arrived' /\ arrived'[i] = arrived[i],
         NEW r, NEW p, NEW c, Before(arrived, r, p, c)
  PROVE  Before(arrived', r, p, c)
  BY DEF Before, Has

\* A worker moves on, and rows and routes are as they were.
LEMMA SenderMoves ==
  ASSUME SendInv, NEW w \in SendWorkers, NEW s \in Senders, Sends!Set(w, s),
         UNCHANGED <<channel, last, outgoing>>,
         \A i \in DOMAIN arrived : i \in DOMAIN arrived' /\ arrived'[i] = arrived[i],
         s.at # "off" => s.row \in DOMAIN outgoing,
         s.at \in Sending =>
           /\ s.to \in Conversations /\ Meant(s.row, s.to)
           /\ 1 <= s.part /\ s.part <= outgoing[s.row].parts
           /\ Before(arrived', s.row, s.part, s.to),
         s.at = "sent" =>
           s.to \in Conversations /\ Before(arrived', s.row, outgoing[s.row].parts + 1, s.to),
         s.held = 1 <=> s.at = "upload"
  PROVE  /\ RouteTypes' /\ OutgoingTypes' /\ SenderTypes' /\ LastInv' /\ RoutesInv' /\ WholeInv'
         /\ SendersInv'
  <1>1. /\ SenderTypes' /\ sender'[w] = s
        /\ \A v \in SendWorkers : v # w => sender'[v] = sender[v]
    BY SenderSet
  <1>2. RouteTypes' /\ OutgoingTypes' /\ LastInv' /\ RoutesInv'
    BY DEF SendInv, SendTypes, RouteTypes, OutgoingTypes, LastInv, RoutesInv, Leads
  <1>3. WholeInv'
    <2> SUFFICES ASSUME NEW r \in DOMAIN outgoing  PROVE WholeOf(r)'
      BY DEF WholeInv
    <2>1. WholeOf(r)
      BY DEF SendInv, WholeInv
    <2> QED  BY <2>1, Grows DEF WholeOf
  <1>4. SendersInv'
    <2> SUFFICES ASSUME NEW v \in SendWorkers  PROVE SenderOf(v)'
      BY DEF SendersInv
    <2>1. CASE v = w
      BY <1>1, <2>1 DEF SenderOf, Meant
    <2>2. CASE v # w
      <3>1. SenderOf(v) /\ sender'[v] = sender[v]
        BY <1>1, <2>2, SenderFields
      <3> QED  BY <3>1, Grows DEF SenderOf, Meant
    <2> QED  BY <2>1, <2>2
  <1> QED  BY <1>1, <1>2, <1>3, <1>4

\* What was shown is as it was.
LEMMA ShownStays ==
  ASSUME SendInv, UNCHANGED <<channel, last, outgoing, arrived>>
  PROVE  /\ ShownTypes' /\ ShowInv' /\ BeforeInv' /\ TurnInv'
         /\ \A i \in DOMAIN arrived : i \in DOMAIN arrived' /\ arrived'[i] = arrived[i]
  BY DEF SendInv, SendTypes, ShownTypes, ShowInv, BeforeInv, TurnInv, Meant

\* The part a worker comes to.
LEMMA BegunFields ==
  ASSUME NEW s \in Senders, NEW part \in Nat
  PROVE  /\ Sends!Begin(s, part) \in Senders
         /\ Sends!Begin(s, part).at \in Sending \ {"upload"}
         /\ Sends!Begin(s, part).part = part /\ Sends!Begin(s, part).row = s.row
         /\ Sends!Begin(s, part).to = s.to /\ Sends!Begin(s, part).held = s.held
         /\ Sends!Begin(s, part).id = s.id
  <1> DEFINE at == IF outgoing[s.row].media /\ part = outgoing[s.row].parts THEN "convert"
                   ELSE Sends!Call(s)
  <1>1. at \in {"convert", "reply", "create"}
    BY DEF Sends!Call
  <1>2. Sends!Begin(s, part) = [s EXCEPT !.part = part, !.at = at]
    BY DEF Sends!Begin
  <1> HIDE DEF at
  <1> QED  BY <1>1, <1>2 DEF Senders, Sending

\* Where a row's message is sent, when it is sent.
LEMMA TargetMeant ==
  ASSUME SendInv, NEW r \in DOMAIN outgoing,
         NEW to, to = Sends!TargetOf(Sends!Merge(last, outgoing[r].route)), to # Nobody
  PROVE  to \in Conversations /\ Meant(r, to)
  <1> DEFINE o == outgoing[r]
             e == Sends!Merge(last, o.route)
  <1>1. o \in Outgoings /\ o.route \in Routes /\ o.home \in Conversations \cup {Nobody} /\ last \in Routes
    <2>1. o \in Outgoings /\ last \in Routes
      BY DEF SendInv, SendTypes, RouteTypes, OutgoingTypes
    <2> HIDE DEF o
    <2> QED  BY <2>1 DEF Outgoings
  <1>2. /\ e \in Routes
        /\ e.group = IF o.route.group # Nobody THEN o.route.group ELSE last.group
        /\ e.sender = IF o.route.sender # Nobody THEN o.route.sender ELSE last.sender
    BY <1>1, Merged
  <1>3. to = IF channel # "weixin" /\ e.group # Nobody THEN e.group ELSE e.sender
    BY DEF Sends!TargetOf
  <1>4. /\ channel \in {"lark", "weixin", "qq"} /\ Leads(o)
        /\ channel = "lark" => (last.group = Nobody => last.sender = Nobody)
        /\ channel = "qq" => last.group # "user"
    BY DEF SendInv, SendTypes, RouteTypes, LastInv, RoutesInv
  <1>5. Nobody \notin Conversations
    BY BackendAssumption DEF Conversations
  <1>6. /\ e.group \in Conversations \cup {Nobody} /\ e.sender \in {"user", Nobody}
        /\ last.group \in Conversations \cup {Nobody} /\ o.route.group \in Conversations \cup {Nobody}
    BY <1>1, <1>2 DEF Routes
  <1> HIDE DEF e, o
  <1>7. to \in Conversations
    BY <1>3, <1>6 DEF Conversations
  <1>8. CASE channel = "lark"
    <2>1. CASE o.home = Nobody
      BY <1>7, <2>1 DEF Meant, o
    <2>2. CASE o.home # Nobody
      <3>1. o.route.group = o.home
        BY <1>4, <1>8, <2>2 DEF Leads
      <3>2. e.group = o.home
        BY <1>2, <2>2, <3>1
      <3>3. to = o.home
        BY <1>3, <1>8, <2>2, <3>2
      <3> QED  BY <1>7, <3>3 DEF Meant, o
    <2> QED  BY <1>7, <2>1, <2>2
  <1>9. CASE channel = "weixin"
    <2>1. to = "user"
      BY <1>3, <1>6, <1>9
    <2>2. o.home = "user" \/ o.home = Nobody
      BY <1>1, <1>4, <1>9 DEF Leads, Conversations
    <2> QED  BY <1>7, <2>1, <2>2 DEF Meant, o
  <1>10. CASE channel = "qq"
    <2>1. CASE o.route.group # Nobody
      <3>1. o.home = o.route.group /\ to = o.route.group
        BY <1>2, <1>3, <1>4, <1>10, <2>1 DEF Leads
      <3> QED  BY <1>7, <3>1 DEF Meant, o
    <2>2. CASE o.route.group = Nobody
      <3>1. CASE last.group = Nobody
        <4>1. to = "user"
          BY <1>2, <1>3, <1>6, <2>2, <3>1
        <4>2. o.home = "user" \/ o.home = Nobody
          BY <1>1, <1>4, <1>10, <2>2 DEF Leads, Conversations
        <4> QED  BY <1>7, <4>1, <4>2 DEF Meant, o
      <3>2. CASE last.group # Nobody
        <4>1. last.group = "group"
          BY <1>4, <1>6, <1>10, <3>2 DEF Conversations
        <4> QED  BY <1>7, <1>10, <4>1 DEF Meant
      <3> QED  BY <3>1, <3>2
    <2> QED  BY <2>1, <2>2
  <1> QED  BY <1>4, <1>8, <1>9, <1>10

\* A worker looks where its row goes.
LEMMA PrepareStep ==
  ASSUME SendInv, NEW w \in SendWorkers, Sends!Prepare(w)  PROVE SendInv'
  <1> DEFINE s == sender[w]
             to == Sends!TargetOf(Sends!Merge(last, outgoing[s.row].route))
             d == [s EXCEPT !.at = "dead"]
             t == [s EXCEPT !.to = to]
             u == Sends!Begin(t, 1)
             k == IF to = Nobody THEN d ELSE u
  <1>0. /\ s.at = "prepare" /\ Sends!Set(w, k)
        /\ UNCHANGED <<channel, last, outgoing, arrived, temps, breaks, spoiled>>
    BY DEF Sends!Prepare, Sends!At
  <1>1. s \in Senders /\ SenderOf(w)
    BY SenderFields
  <1>2. s.row \in DOMAIN outgoing /\ s.held = 0
    BY <1>0, <1>1 DEF SenderOf, Senders
  <1>3. to # Nobody => to \in Conversations /\ Meant(s.row, to)
    BY <1>2, TargetMeant
  <1> HIDE DEF to
  <1>4. d \in Senders /\ d.at = "dead" /\ d.held = 0 /\ d.row = s.row
    BY <1>1, <1>2 DEF Senders
  <1>5. to # Nobody => t \in Senders /\ t.to = to /\ t.held = 0 /\ t.row = s.row
    BY <1>1, <1>2, <1>3 DEF Senders
  <1> HIDE DEF t, d
  <1>6. to # Nobody => /\ u \in Senders /\ u.at \in Sending \ {"upload"} /\ u.part = 1
                      /\ u.row = s.row /\ u.to = to /\ u.held = 0
    BY <1>5, BegunFields
  <1>7. outgoing[s.row].parts \in {1, 2}
    <2>1. outgoing[s.row] \in Outgoings
      BY <1>2 DEF SendInv, SendTypes, OutgoingTypes
    <2> HIDE DEF s
    <2> QED  BY ONLY <2>1 DEF Outgoings
  <1>8. /\ k \in Senders /\ k.row \in DOMAIN outgoing /\ k.held = 0
        /\ k.at \in Sending => /\ k.to \in Conversations /\ Meant(k.row, k.to)
                               /\ 1 <= k.part /\ k.part <= outgoing[k.row].parts /\ k.part = 1
        /\ k.at # "upload" /\ k.at # "sent"
    <2>1. CASE to = Nobody
      BY <1>2, <1>4, <2>1 DEF Sending
    <2>2. CASE to # Nobody
      BY <1>2, <1>3, <1>6, <1>7, <2>2 DEF Sending
    <2> QED  BY <2>1, <2>2
  <1>9. \A c : Before(arrived', k.row, 1, c)
    BY DEF Before
  <1> HIDE DEF k, s
  <1>10. /\ ShownTypes' /\ ShowInv' /\ BeforeInv' /\ TurnInv'
         /\ \A i \in DOMAIN arrived : i \in DOMAIN arrived' /\ arrived'[i] = arrived[i]
    BY <1>0, ShownStays
  <1>11. /\ RouteTypes' /\ OutgoingTypes' /\ SenderTypes' /\ LastInv' /\ RoutesInv' /\ WholeInv'
         /\ SendersInv'
    BY <1>0, <1>8, <1>9, <1>10, SenderMoves
  <1>12. TempInv' /\ TempTypes'
    BY <1>0, <1>2, <1>8, HoldingSame DEF s
  <1> QED  BY <1>10, <1>11, <1>12 DEF SendInv, SendTypes

\* A sound is converted.
LEMMA ConvertStep ==
  ASSUME SendInv, NEW w \in SendWorkers, NEW ok \in BOOLEAN, Sends!Convert(w, ok)  PROVE SendInv'
  <1> DEFINE s == sender[w]
             u == [s EXCEPT !.held = 1, !.at = "upload"]
             d == [s EXCEPT !.held = 0, !.at = "retry"]
             k == IF ok THEN u ELSE d
  <1>1. s \in Senders /\ SenderOf(w)
    BY SenderFields
  <1>2. s.at = "convert" /\ s.held = 0 /\ 0 + 1 = 1 /\ UNCHANGED <<channel, last, outgoing, arrived>>
    BY <1>1 DEF Sends!Convert, SenderOf, Senders
  <1>3. ok => Sends!Set(w, u) /\ temps' = temps + 1 /\ spoiled' = spoiled
    <2>1. ok => Sends!Set(w, [s EXCEPT !.held = s.held + 1, !.at = "upload"])
                /\ temps' = temps + 1 /\ spoiled' = spoiled
      BY DEF Sends!Convert
    <2>2. s.held + 1 = 1
      BY <1>2
    <2> QED  BY <2>1, <2>2
  <1>4. ~ ok => Sends!Set(w, d) /\ temps' = temps + 1 /\ spoiled' = spoiled + 1 + s.held
    BY DEF Sends!Convert
  <1>5. u \in Senders /\ u.at = "upload" /\ u.held = 1 /\ u.row = s.row /\ u.to = s.to /\ u.part = s.part
    BY <1>1 DEF Senders, Sending
  <1>6. d \in Senders /\ d.at = "retry" /\ d.held = 0 /\ d.row = s.row
    BY <1>1 DEF Senders
  <1>7. /\ s.row \in DOMAIN outgoing /\ s.to \in Conversations /\ Meant(s.row, s.to)
        /\ 1 <= s.part /\ s.part <= outgoing[s.row].parts
        /\ Before(arrived, s.row, s.part, s.to)
    BY <1>1, <1>2 DEF SenderOf, Sending
  <1>8. arrived' = arrived
    BY <1>2
  <1> HIDE DEF u, d, s
  <1>9. /\ k \in Senders /\ Sends!Set(w, k) /\ k.row \in DOMAIN outgoing
        /\ k.at \in Sending =>
             /\ k.to \in Conversations /\ Meant(k.row, k.to)
             /\ 1 <= k.part /\ k.part <= outgoing[k.row].parts
             /\ Before(arrived', k.row, k.part, k.to)
        /\ k.at # "sent" /\ k.at # "off" /\ (k.held = 1 <=> k.at = "upload")
    <2>1. CASE ok
      BY <1>3, <1>5, <1>7, <1>8, <2>1
    <2>2. CASE ~ ok
      BY <1>4, <1>6, <1>7, <2>2 DEF Sending
    <2> QED  BY <2>1, <2>2
  <1>10. /\ ShownTypes' /\ ShowInv' /\ BeforeInv' /\ TurnInv'
         /\ \A i \in DOMAIN arrived : i \in DOMAIN arrived' /\ arrived'[i] = arrived[i]
    BY <1>2, ShownStays
  <1> HIDE DEF k
  <1>11. /\ RouteTypes' /\ OutgoingTypes' /\ SenderTypes' /\ LastInv' /\ RoutesInv' /\ WholeInv'
         /\ SendersInv'
    BY <1>2, <1>9, <1>10, SenderMoves
  <1>12. TempInv' /\ TempTypes'
    <2>1. CASE ok
      BY <1>2, <1>3, <1>5, <2>1, HoldingMore DEF s
    <2>2. CASE ~ ok
      BY <1>2, <1>4, <1>6, <2>2, HoldingSpoiled DEF s
    <2> QED  BY <2>1, <2>2
  <1> QED  BY <1>10, <1>11, <1>12 DEF SendInv, SendTypes

\* It is uploaded, and the file removed.
LEMMA UploadStep ==
  ASSUME SendInv, NEW w \in SendWorkers, NEW ok \in BOOLEAN, Sends!Upload(w, ok)  PROVE SendInv'
  <1> DEFINE s == sender[w]
             at == IF ok THEN Sends!Call(s) ELSE "retry"
             k == [s EXCEPT !.held = 0, !.at = at]
  <1>1. s \in Senders /\ SenderOf(w)
    BY SenderFields
  <1>2. /\ s.at = "upload" /\ s.held = 1 /\ UNCHANGED <<channel, last, outgoing, arrived, spoiled>>
        /\ Sends!Set(w, k) /\ temps' = temps - 1
    BY <1>1 DEF Sends!Upload, Sends!Removed, SenderOf, Senders
  <1>3. at \in {"reply", "create", "retry"}
    BY DEF Sends!Call
  <1> HIDE DEF at
  <1>4. k \in Senders /\ k.at = at /\ k.held = 0 /\ k.row = s.row /\ k.to = s.to /\ k.part = s.part
    BY <1>1, <1>3 DEF Senders, Sending
  <1>5. /\ s.row \in DOMAIN outgoing /\ s.to \in Conversations /\ Meant(s.row, s.to)
        /\ 1 <= s.part /\ s.part <= outgoing[s.row].parts
        /\ Before(arrived, s.row, s.part, s.to)
    BY <1>1, <1>2 DEF SenderOf, Sending
  <1>6. arrived' = arrived
    BY <1>2
  <1> HIDE DEF s, k
  <1>7. /\ k.row \in DOMAIN outgoing /\ k.to \in Conversations /\ Meant(k.row, k.to)
        /\ 1 <= k.part /\ k.part <= outgoing[k.row].parts
        /\ Before(arrived', k.row, k.part, k.to)
        /\ k.at # "sent" /\ k.at # "off" /\ k.at # "upload" /\ ~ (k.held = 1)
    BY <1>3, <1>4, <1>5, <1>6
  <1>10. /\ ShownTypes' /\ ShowInv' /\ BeforeInv' /\ TurnInv'
         /\ \A i \in DOMAIN arrived : i \in DOMAIN arrived' /\ arrived'[i] = arrived[i]
    BY <1>2, ShownStays
  <1>11. /\ RouteTypes' /\ OutgoingTypes' /\ SenderTypes' /\ LastInv' /\ RoutesInv' /\ WholeInv'
         /\ SendersInv'
    BY <1>2, <1>4, <1>7, <1>10, SenderMoves
  <1>12. TempInv' /\ TempTypes'
    BY <1>2, <1>4, HoldingLess DEF s
  <1> QED  BY <1>10, <1>11, <1>12 DEF SendInv, SendTypes

\* A call that did not succeed leaves the worker with what it had.
LEMMA CallStep ==
  ASSUME SendInv, NEW w \in SendWorkers, NEW s \in Senders, Sends!Set(w, s),
         UNCHANGED <<channel, last, outgoing, arrived, temps, spoiled>>,
         sender[w].at \in Calls, s.at \in {"create", "retry", "dead", "cancelled"},
         s.row = sender[w].row, s.part = sender[w].part, s.to = sender[w].to, s.held = sender[w].held
  PROVE  SendInv'
  <1>1. SenderOf(w) /\ sender[w] \in Senders
    BY SenderFields
  <1>2. /\ s.row \in DOMAIN outgoing /\ s.to \in Conversations /\ Meant(s.row, s.to)
        /\ 1 <= s.part /\ s.part <= outgoing[s.row].parts
        /\ Before(arrived, s.row, s.part, s.to) /\ ~ (s.held = 1)
    BY <1>1 DEF SenderOf, Sending, Calls
  <1>3. /\ ShownTypes' /\ ShowInv' /\ BeforeInv' /\ TurnInv'
        /\ \A i \in DOMAIN arrived : i \in DOMAIN arrived' /\ arrived'[i] = arrived[i]
    BY ShownStays
  <1>4. Before(arrived', s.row, s.part, s.to)
    BY <1>2
  <1>5. /\ RouteTypes' /\ OutgoingTypes' /\ SenderTypes' /\ LastInv' /\ RoutesInv' /\ WholeInv'
        /\ SendersInv'
    BY <1>2, <1>3, <1>4, SenderMoves
  <1>6. TempInv' /\ TempTypes'
    BY HoldingSame
  <1> QED  BY <1>3, <1>5, <1>6 DEF SendInv, SendTypes

\* It is refused.
LEMMA RefusedStep ==
  ASSUME SendInv, NEW w \in SendWorkers, NEW how \in {"retry", "dead", "cancelled"},
         Sends!Refused(w, how)
  PROVE  SendInv'
  <1> DEFINE s == sender[w]
             at == IF channel = "lark" /\ s.at = "reply" THEN "create" ELSE how
             k == [s EXCEPT !.at = at]
  <1>1. s \in Senders
    BY SenderFields
  <1>2. /\ s.at \in Calls /\ Sends!Set(w, k)
        /\ UNCHANGED <<channel, last, outgoing, arrived, temps, spoiled>>
    BY DEF Sends!Refused, Sends!Called, Sends!At, Calls
  <1>3. at \in {"create", "retry", "dead", "cancelled"}
    OBVIOUS
  <1> HIDE DEF at
  <1>4. k \in Senders /\ k.at = at /\ k.held = s.held /\ k.row = s.row /\ k.to = s.to /\ k.part = s.part
    BY <1>1, <1>3 DEF Senders, Sending
  <1> HIDE DEF k
  <1> QED  BY <1>2, <1>3, <1>4, CallStep

\* What is shown is made of.
LEMMA ShownFields ==
  ASSUME SendInv, NEW i \in DOMAIN arrived
  PROVE  /\ arrived[i] \in Shows /\ arrived[i].part \in Nat /\ arrived[i].row \in Nat
         /\ arrived[i].call \in Calls /\ arrived[i].to \in Conversations
  <1>1. arrived[i] \in Shows
    BY DEF SendInv, SendTypes, ShownTypes
  <1> QED  BY <1>1 DEF Shows

\* What a call shows, or showed before.
LEMMA CallShows ==
  ASSUME SendInv, NEW w \in SendWorkers, sender[w].at \in Calls,
         arrived' = Sends!Shown(sender[w], sender[w].at), UNCHANGED <<channel, last, outgoing>>
  PROVE  /\ ShownTypes' /\ ShowInv' /\ BeforeInv' /\ TurnInv'
         /\ \A i \in DOMAIN arrived : i \in DOMAIN arrived' /\ arrived'[i] = arrived[i]
         /\ Has(arrived', sender[w].row, sender[w].part, sender[w].to)
  <1> DEFINE s == sender[w]
             new == [row |-> s.row, part |-> s.part, key |-> <<s.row, s.part>>, to |-> s.to, call |-> s.at]
             known == \E i \in DOMAIN arrived :
                        arrived[i].key = <<s.row, s.part>> /\ arrived[i].to = s.to /\ arrived[i].call = s.at
  <1>1. s \in Senders /\ SenderOf(w)
    BY SenderFields
  <1>2. /\ s.row \in DOMAIN outgoing /\ s.to \in Conversations /\ Meant(s.row, s.to)
        /\ 1 <= s.part /\ Before(arrived, s.row, s.part, s.to)
    BY <1>1 DEF SenderOf, Sending, Calls
  <1>3. s.row \in Nat /\ s.part \in Nat
    BY <1>1 DEF Senders
  <1>4. arrived' = IF known THEN arrived ELSE Append(arrived, new)
    BY DEF Sends!Shown, Sends!KeyOf, Sends!Range
  <1>5. new \in Shows /\ new.row = s.row /\ new.part = s.part /\ new.key = <<s.row, s.part>>
        /\ new.to = s.to /\ new.call = s.at
    BY <1>2, <1>3 DEF Shows
  <1>6. CASE known
    <2>1. arrived' = arrived
      BY <1>4, <1>6
    <2>2. PICK i \in DOMAIN arrived : arrived[i].key = <<s.row, s.part>> /\ arrived[i].to = s.to
      BY <1>6
    <2>3. arrived[i].row = s.row /\ arrived[i].part = s.part
      BY <2>2 DEF SendInv, ShowInv
    <2> QED  BY <2>1, <2>2, <2>3, ShownStays DEF Has
  <1>7. CASE ~ known
    <2> DEFINE n == Len(arrived) + 1
    <2>1. /\ Len(arrived) \in Nat /\ DOMAIN arrived = 1 .. Len(arrived)
          /\ arrived' \in Seq(Shows) /\ DOMAIN arrived' = 1 .. n
          /\ \A i \in DOMAIN arrived : i \in DOMAIN arrived' /\ arrived'[i] = arrived[i] /\ i < n
          /\ arrived'[n] = new /\ n \in DOMAIN arrived' /\ n \in Nat
          /\ \A i \in DOMAIN arrived' : i \in DOMAIN arrived \/ i = n
      <3>1. arrived \in Seq(Shows) /\ arrived' = Append(arrived, new) /\ new \in Shows
        BY <1>4, <1>5, <1>7 DEF SendInv, SendTypes, ShownTypes
      <3> HIDE DEF new, known
      <3> QED  BY ONLY <3>1
    <2> HIDE DEF n, new
    <2>2. ShownTypes'
      BY <2>1 DEF ShownTypes
    <2>3. ShowInv'
      BY <1>2, <1>5, <2>1 DEF SendInv, ShowInv, Meant
    <2>4. Has(arrived', s.row, s.part, s.to)
      BY <1>5, <2>1 DEF Has
    <2>5. BeforeInv'
      <3> SUFFICES ASSUME NEW i \in DOMAIN arrived', NEW q \in Nat, 1 <= q, q < arrived'[i].part
                   PROVE  \E k \in DOMAIN arrived' : /\ k < i /\ arrived'[k].row = arrived'[i].row
                                                     /\ arrived'[k].part = q /\ arrived'[k].to = arrived'[i].to
        BY DEF BeforeInv
      <3>1. CASE i \in DOMAIN arrived
        <4>1. arrived'[i] = arrived[i] /\ q < arrived[i].part
          BY <2>1, <3>1
        <4>2. PICK k \in DOMAIN arrived : /\ k < i /\ arrived[k].row = arrived[i].row
                                         /\ arrived[k].part = q /\ arrived[k].to = arrived[i].to
          BY <3>1, <4>1 DEF SendInv, BeforeInv
        <4>3. k \in DOMAIN arrived' /\ arrived'[k] = arrived[k]
          BY <2>1
        <4> QED  BY <4>1, <4>2, <4>3
      <3>2. CASE i = n
        <4>1. Has(arrived, s.row, q, s.to)
          BY <1>2, <1>5, <2>1, <3>2 DEF Before
        <4> QED  BY <1>5, <2>1, <3>2, <4>1 DEF Has
      <3> QED  BY <2>1, <3>1, <3>2
    <2>6. TurnInv'
      <3> SUFFICES ASSUME NEW i \in DOMAIN arrived', NEW j \in DOMAIN arrived', i < j,
                          arrived'[i].row = arrived'[j].row, arrived'[i].to = arrived'[j].to
                   PROVE  \/ arrived'[i].part < arrived'[j].part
                          \/ \E k \in 1 .. i : /\ arrived'[k].row = arrived'[i].row
                                               /\ arrived'[k].to = arrived'[i].to
                                               /\ arrived'[k].part = arrived'[j].part
                                               /\ {arrived'[k].call, arrived'[j].call} = Calls
        BY DEF TurnInv
      <3>0. i \in DOMAIN arrived /\ arrived'[i] = arrived[i] /\ i \in Nat
            /\ \A k \in 1 .. i : k \in DOMAIN arrived /\ arrived'[k] = arrived[k]
        BY <2>1
      <3>1. CASE j \in DOMAIN arrived
        <4>1. arrived'[j] = arrived[j]
          BY <2>1, <3>1
        <4> QED  BY <3>0, <3>1, <4>1 DEF SendInv, TurnInv
      <3>2. CASE j = n
        <4>1. arrived[i].row = s.row /\ arrived[i].to = s.to /\ arrived'[j] = new
          BY <1>5, <2>1, <3>0, <3>2
        <4>2. arrived[i].part \in Nat
          BY <3>0, ShownFields
        <4>3. \A k \in 1 .. i : arrived[k].row = s.row /\ arrived[k].to = s.to /\ arrived[k].part = s.part
                => {arrived[k].call, s.at} = Calls
          <5> SUFFICES ASSUME NEW k \in 1 .. i, arrived[k].row = s.row, arrived[k].to = s.to,
                              arrived[k].part = s.part
                       PROVE  {arrived[k].call, s.at} = Calls
            OBVIOUS
          <5>1. arrived[k].call # s.at
            BY <1>7, <3>0 DEF SendInv, ShowInv
          <5>2. arrived[k].call \in Calls
            BY <3>0, ShownFields
          <5> QED  BY <5>1, <5>2 DEF Calls
        <4>4. CASE arrived[i].part < s.part
          BY <1>5, <3>0, <4>1, <4>4
        <4>5. CASE arrived[i].part = s.part
          <5>1. i \in 1 .. i
            BY <2>1, <3>0
          <5> QED  BY <1>5, <3>0, <4>1, <4>3, <4>5, <5>1
        <4>6. CASE s.part < arrived[i].part
          <5>1. PICK k \in DOMAIN arrived : /\ k < i /\ arrived[k].row = s.row /\ arrived[k].part = s.part
                                           /\ arrived[k].to = s.to
            BY <1>2, <1>3, <3>0, <4>1, <4>6 DEF SendInv, BeforeInv
          <5>2. k \in 1 .. i
            BY <2>1, <3>0, <5>1
          <5> QED  BY <1>5, <3>0, <4>1, <4>3, <5>1, <5>2
        <4> QED  BY <1>3, <4>2, <4>4, <4>5, <4>6
      <3> QED  BY <2>1, <3>1, <3>2
    <2> QED  BY <2>1, <2>2, <2>3, <2>4, <2>5, <2>6
  <1> QED  BY <1>6, <1>7

\* The channel takes it, or did and the answer is lost.
LEMMA TakenStep ==
  ASSUME SendInv, NEW w \in SendWorkers, sender[w].at \in Calls, NEW s \in Senders, Sends!Set(w, s),
         arrived' = Sends!Shown(sender[w], sender[w].at),
         UNCHANGED <<channel, last, outgoing, temps, spoiled>>,
         s.row = sender[w].row, s.to = sender[w].to, s.held = sender[w].held,
         \/ s.at = "retry"
         \/ s.at = "sent" /\ ~ (sender[w].part < outgoing[sender[w].row].parts)
         \/ /\ s.at \in Sending \ {"upload"} /\ s.part = sender[w].part + 1
            /\ sender[w].part < outgoing[sender[w].row].parts
  PROVE  SendInv'
  <1> DEFINE parts == outgoing[s.row].parts
             part == sender[w].part
  <1>1. SenderOf(w) /\ sender[w] \in Senders
    BY SenderFields
  <1>2. /\ s.row \in DOMAIN outgoing /\ s.to \in Conversations /\ Meant(s.row, s.to)
        /\ 1 <= part /\ part <= parts /\ Before(arrived, s.row, part, s.to) /\ ~ (s.held = 1)
    BY <1>1 DEF SenderOf, Sending, Calls
  <1>3. part \in Nat /\ parts \in Nat
    <2>1. part \in Nat
      BY <1>1 DEF Senders
    <2>2. outgoing[s.row] \in Outgoings
      BY <1>2 DEF SendInv, SendTypes, OutgoingTypes
    <2> QED  BY <2>1, <2>2 DEF Outgoings
  <1>4. /\ ShownTypes' /\ ShowInv' /\ BeforeInv' /\ TurnInv'
        /\ \A i \in DOMAIN arrived : i \in DOMAIN arrived' /\ arrived'[i] = arrived[i]
        /\ Has(arrived', s.row, part, s.to)
    BY CallShows
  <1>5. Before(arrived', s.row, part, s.to)
    BY <1>2, <1>4, Grows
  <1>6. Before(arrived', s.row, part + 1, s.to)
    <2> SUFFICES ASSUME NEW q \in Nat, 1 <= q, q < part + 1  PROVE Has(arrived', s.row, q, s.to)
      BY DEF Before
    <2>1. q < part \/ q = part
      BY <1>3
    <2> QED  BY <1>4, <1>5, <2>1 DEF Before
  <1>7. ~ (part < parts) => part + 1 = parts + 1
    BY <1>2, <1>3
  <1>8. part < parts => part + 1 <= parts /\ 1 <= part + 1
    BY <1>2, <1>3
  <1> HIDE DEF parts, part
  <1>9. s.at \in Sending =>
          /\ s.to \in Conversations /\ Meant(s.row, s.to)
          /\ 1 <= s.part /\ s.part <= outgoing[s.row].parts
          /\ Before(arrived', s.row, s.part, s.to)
    <2>1. s.at \in Sending => s.part = part + 1 /\ part < parts
      BY DEF Sending, part, parts
    <2> QED  BY <1>2, <1>6, <1>8, <2>1 DEF parts
  <1>10. s.at = "sent" => s.to \in Conversations /\ Before(arrived', s.row, outgoing[s.row].parts + 1, s.to)
    <2>1. s.at = "sent" => ~ (part < parts)
      BY DEF Sending, part, parts
    <2> QED  BY <1>2, <1>6, <1>7, <2>1 DEF parts
  <1>11. s.at # "upload"
    BY DEF Sending
  <1>12. /\ RouteTypes' /\ OutgoingTypes' /\ SenderTypes' /\ LastInv' /\ RoutesInv' /\ WholeInv'
         /\ SendersInv'
    BY <1>2, <1>4, <1>9, <1>10, <1>11, SenderMoves
  <1>13. TempInv' /\ TempTypes'
    BY HoldingSame
  <1> QED  BY <1>4, <1>12, <1>13 DEF SendInv, SendTypes

\* It takes the message.
LEMMA AcceptedStep ==
  ASSUME SendInv, NEW w \in SendWorkers, NEW id \in BOOLEAN, Sends!Accepted(w, id)  PROVE SendInv'
  <1> DEFINE s == sender[w]
             b == Sends!Begin(s, s.part + 1)
             known == s.id \/ id
             u == [b EXCEPT !.id = known]
             at == IF known THEN "sent" ELSE "retry"
             v == [s EXCEPT !.id = known, !.at = at]
             d == [s EXCEPT !.at = "retry"]
             parts == outgoing[s.row].parts
             k == IF ~ id /\ channel = "weixin" THEN d ELSE IF s.part < parts THEN u ELSE v
  <1>1. s \in Senders /\ s.part \in Nat /\ s.id \in BOOLEAN
    <2>1. s \in Senders
      BY SenderFields
    <2> QED  BY <2>1 DEF Senders
  <1>2. /\ s.at \in Calls /\ arrived' = Sends!Shown(s, s.at) /\ Sends!Set(w, k)
        /\ UNCHANGED <<channel, last, outgoing, temps, spoiled>>
    BY DEF Sends!Accepted, Sends!Called, Sends!After, Calls
  <1>3. /\ b \in Senders /\ b.at \in Sending \ {"upload"} /\ b.part = s.part + 1
        /\ b.row = s.row /\ b.to = s.to /\ b.held = s.held
    <2>1. s.part + 1 \in Nat
      BY <1>1
    <2> HIDE DEF s
    <2> QED  BY <1>1, <2>1, BegunFields
  <1>4. known \in BOOLEAN /\ at \in {"sent", "retry"}
    BY <1>1
  <1> HIDE DEF b, known, at, s
  <1>5. /\ u \in Senders /\ u.at \in Sending \ {"upload"} /\ u.part = s.part + 1
        /\ u.row = s.row /\ u.to = s.to /\ u.held = s.held
    BY <1>3, <1>4 DEF Senders
  <1>6. v \in Senders /\ v.at = at /\ v.row = s.row /\ v.to = s.to /\ v.held = s.held
    BY <1>1, <1>4 DEF Senders
  <1>7. d \in Senders /\ d.at = "retry" /\ d.row = s.row /\ d.to = s.to /\ d.held = s.held
    BY <1>1 DEF Senders
  <1> HIDE DEF u, v, d, parts
  <1>8. /\ k \in Senders /\ k.row = s.row /\ k.to = s.to /\ k.held = s.held
        /\ \/ k.at = "retry"
           \/ k.at = "sent" /\ ~ (s.part < parts)
           \/ k.at \in Sending \ {"upload"} /\ k.part = s.part + 1 /\ s.part < parts
    BY <1>4, <1>5, <1>6, <1>7
  <1> HIDE DEF k
  <1> QED  BY <1>2, <1>8, TakenStep DEF s, parts

\* The answer is lost.
LEMMA BrokeStep ==
  ASSUME SendInv, NEW w \in SendWorkers, NEW came \in BOOLEAN, Sends!Broken(w, came)
  PROVE  SendInv'
  <1> DEFINE s == sender[w]
             k == [s EXCEPT !.at = "retry"]
  <1>1. s \in Senders
    BY SenderFields
  <1>2. /\ s.at \in Calls /\ Sends!Set(w, k)
        /\ UNCHANGED <<channel, last, outgoing, temps, spoiled>>
        /\ arrived' = IF came THEN Sends!Shown(s, s.at) ELSE arrived
    BY DEF Sends!Broken, Sends!Called, Sends!At, Calls
  <1>3. k \in Senders /\ k.at = "retry" /\ k.row = s.row /\ k.to = s.to /\ k.held = s.held /\ k.part = s.part
    BY <1>1 DEF Senders
  <1> HIDE DEF k
  <1>4. CASE came
    BY <1>2, <1>3, <1>4, TakenStep
  <1>5. CASE ~ came
    BY <1>2, <1>3, <1>5, CallStep
  <1> QED  BY <1>4, <1>5

\* Rows change, but not what they are and where they go.
LEMMA RowsChange ==
  ASSUME SendInv, outgoing' \in Seq(Outgoings), DOMAIN outgoing' = DOMAIN outgoing,
         UNCHANGED <<channel, last, arrived>>,
         \A r \in DOMAIN outgoing :
           /\ outgoing'[r].home = outgoing[r].home /\ outgoing'[r].route = outgoing[r].route
           /\ outgoing'[r].parts = outgoing[r].parts
           /\ outgoing'[r].status = "sent" =>
                \/ outgoing[r].status = "sent"
                \/ \E c \in Conversations : Before(arrived, r, outgoing[r].parts + 1, c)
  PROVE  /\ RouteTypes' /\ OutgoingTypes' /\ ShownTypes' /\ LastInv' /\ RoutesInv' /\ WholeInv'
         /\ ShowInv' /\ BeforeInv' /\ TurnInv'
         /\ \A w \in SendWorkers : sender'[w] = sender[w] => SenderOf(w)'
  <1>1. RouteTypes' /\ OutgoingTypes' /\ ShownTypes' /\ LastInv'
    BY DEF SendInv, SendTypes, RouteTypes, OutgoingTypes, ShownTypes, LastInv
  <1>2. RoutesInv'
    BY DEF SendInv, RoutesInv, Leads
  <1>3. WholeInv'
    <2> SUFFICES ASSUME NEW r \in DOMAIN outgoing  PROVE WholeOf(r)'
      BY DEF WholeInv
    <2>1. WholeOf(r)
      BY DEF SendInv, WholeInv
    <2> QED  BY <2>1 DEF WholeOf
  <1>4. BeforeInv' /\ TurnInv'
    BY DEF SendInv, BeforeInv, TurnInv
  <1>5. ShowInv'
    BY DEF SendInv, ShowInv, Meant
  <1>6. ASSUME NEW w \in SendWorkers, sender'[w] = sender[w]  PROVE SenderOf(w)'
    <2> DEFINE s == sender[w]
    <2>1. SenderOf(w)
      BY SenderFields
    <2>2. s.at # "off" => /\ outgoing'[s.row].home = outgoing[s.row].home
                          /\ outgoing'[s.row].parts = outgoing[s.row].parts
      BY <2>1 DEF SenderOf
    <2>3. s.at \in Sending \cup {"sent"} => s.at # "off"
      BY DEF Sending
    <2> QED  BY <1>6, <2>1, <2>2, <2>3 DEF SenderOf, Meant
  <1> QED  BY <1>1, <1>2, <1>3, <1>4, <1>5, <1>6

\* One row changes.
LEMMA OutgoingSet ==
  ASSUME SendInv, NEW r \in DOMAIN outgoing, NEW o \in Outgoings,
         outgoing' = [outgoing EXCEPT ![r] = o]
  PROVE  /\ outgoing' \in Seq(Outgoings) /\ DOMAIN outgoing' = DOMAIN outgoing
         /\ outgoing'[r] = o /\ \A q \in DOMAIN outgoing : q # r => outgoing'[q] = outgoing[q]
  BY DEF SendInv, SendTypes, OutgoingTypes

\* A worker takes a row.
LEMMA SendClaimStep ==
  ASSUME SendInv, NEW w \in SendWorkers, NEW r \in DOMAIN outgoing, Sends!Claim(w, r)
  PROVE  SendInv'
  <1> DEFINE o == outgoing[r]
             n == [o EXCEPT !.owner = w, !.status = "sending", !.tries = o.tries + 1]
             k == [Sends!Off EXCEPT !.row = r, !.try = o.tries + 1, !.at = "prepare"]
  <1>1. o \in Outgoings /\ r \in Nat
    BY DEF SendInv, SendTypes, OutgoingTypes
  <1>2. o.tries + 1 \in Nat
    BY <1>1 DEF Outgoings
  <1>3. /\ sender[w] = Sends!Off /\ Sends!Set(w, k) /\ outgoing' = [outgoing EXCEPT ![r] = n]
        /\ UNCHANGED <<channel, last, arrived, temps, spoiled>>
    BY DEF Sends!Claim
  <1>4. n \in Outgoings /\ n.home = o.home /\ n.route = o.route /\ n.parts = o.parts /\ n.status = "sending"
    BY <1>1, <1>2 DEF Outgoings
  <1>5. Sends!Off \in Senders /\ Sends!Off.held = 0
    BY DEF Sends!Off, Senders
  <1>6. k \in Senders /\ k.at = "prepare" /\ k.row = r /\ k.held = 0
    BY <1>1, <1>2, <1>5 DEF Senders
  <1>7. k.held = sender[w].held
    BY <1>3, <1>5, <1>6
  <1> HIDE DEF n, k
  <1>8. /\ outgoing' \in Seq(Outgoings) /\ DOMAIN outgoing' = DOMAIN outgoing
        /\ outgoing'[r] = n /\ \A q \in DOMAIN outgoing : q # r => outgoing'[q] = outgoing[q]
    BY <1>3, <1>4, OutgoingSet
  <1> HIDE DEF o
  <1>9. \A q \in DOMAIN outgoing :
          /\ outgoing'[q].home = outgoing[q].home /\ outgoing'[q].route = outgoing[q].route
          /\ outgoing'[q].parts = outgoing[q].parts
          /\ outgoing'[q].status = "sent" => outgoing[q].status = "sent"
    BY <1>4, <1>8 DEF o
  <1>10. /\ RouteTypes' /\ OutgoingTypes' /\ ShownTypes' /\ LastInv' /\ RoutesInv' /\ WholeInv'
         /\ ShowInv' /\ BeforeInv' /\ TurnInv'
         /\ \A v \in SendWorkers : sender'[v] = sender[v] => SenderOf(v)'
    BY <1>3, <1>8, <1>9, RowsChange
  <1>11. /\ SenderTypes' /\ sender'[w] = k /\ \A v \in SendWorkers : v # w => sender'[v] = sender[v]
    BY <1>3, <1>6, SenderSet
  <1>12. SenderOf(w)'
    BY <1>6, <1>8, <1>11 DEF SenderOf, Sending
  <1>13. SendersInv'
    BY <1>10, <1>11, <1>12 DEF SendersInv
  <1>14. TempInv' /\ TempTypes'
    BY <1>3, <1>6, <1>7, HoldingSame
  <1> QED  BY <1>10, <1>11, <1>13, <1>14 DEF SendInv, SendTypes

\* A lease runs out.
LEMMA LapseStep ==
  ASSUME SendInv, NEW r \in DOMAIN outgoing, Sends!Lapse(r)  PROVE SendInv'
  <1> DEFINE o == outgoing[r]
             n == [o EXCEPT !.owner = Nobody]
  <1>1. o \in Outgoings
    BY DEF SendInv, SendTypes, OutgoingTypes
  <1>3. /\ outgoing' = [outgoing EXCEPT ![r] = n]
        /\ UNCHANGED <<channel, last, sender, arrived, temps, spoiled>>
    BY DEF Sends!Lapse
  <1>4. n \in Outgoings /\ n.home = o.home /\ n.route = o.route /\ n.parts = o.parts /\ n.status = o.status
    BY <1>1 DEF Outgoings
  <1> HIDE DEF n
  <1>8. /\ outgoing' \in Seq(Outgoings) /\ DOMAIN outgoing' = DOMAIN outgoing
        /\ outgoing'[r] = n /\ \A q \in DOMAIN outgoing : q # r => outgoing'[q] = outgoing[q]
    BY <1>3, <1>4, OutgoingSet
  <1> HIDE DEF o
  <1>9. \A q \in DOMAIN outgoing :
          /\ outgoing'[q].home = outgoing[q].home /\ outgoing'[q].route = outgoing[q].route
          /\ outgoing'[q].parts = outgoing[q].parts
          /\ outgoing'[q].status = "sent" => outgoing[q].status = "sent"
    BY <1>4, <1>8 DEF o
  <1>10. /\ RouteTypes' /\ OutgoingTypes' /\ ShownTypes' /\ LastInv' /\ RoutesInv' /\ WholeInv'
         /\ ShowInv' /\ BeforeInv' /\ TurnInv'
         /\ \A v \in SendWorkers : sender'[v] = sender[v] => SenderOf(v)'
    BY <1>3, <1>8, <1>9, RowsChange
  <1>11. SendersInv' /\ SenderTypes'
    BY <1>3, <1>10 DEF SendersInv, SendInv, SendTypes, SenderTypes
  <1>12. Sends!Holding' = Sends!Holding
    BY <1>3 DEF Sends!Holding
  <1>14. TempInv' /\ TempTypes'
    BY <1>3, <1>12 DEF TempInv, TempTypes, SendInv, SendTypes
  <1> QED  BY <1>10, <1>11, <1>14 DEF SendInv, SendTypes

\* A worker writes down what became of its row, if it is its row still.
LEMMA SendFinishStep ==
  ASSUME SendInv, NEW w \in SendWorkers, Sends!Finish(w)  PROVE SendInv'
  <1> DEFINE s == sender[w]
             r == s.row
             o == outgoing[r]
             mine == o.owner = w /\ o.tries = s.try
             outcome == IF s.at # "retry" THEN s.at
                       ELSE IF s.try >= MaxTries THEN "dead" ELSE "pending"
             n == [o EXCEPT !.status = outcome, !.owner = Nobody]
             m == IF mine THEN n ELSE o
  <1>1. s \in Senders /\ SenderOf(w)
    BY SenderFields
  <1>2. /\ s.at \in {"sent", "dead", "cancelled", "retry"} /\ Sends!Set(w, Sends!Off)
        /\ outgoing' = IF mine THEN [outgoing EXCEPT ![r] = n] ELSE outgoing
        /\ UNCHANGED <<channel, last, arrived, temps, spoiled>>
    BY DEF Sends!Finish
  <1>3. /\ r \in DOMAIN outgoing /\ s.held = 0
        /\ s.at = "sent" => s.to \in Conversations /\ Before(arrived, r, o.parts + 1, s.to)
    BY <1>1, <1>2 DEF SenderOf, Senders
  <1>4. o \in Outgoings
    BY <1>3 DEF SendInv, SendTypes, OutgoingTypes
  <1>5. outcome \in {"pending", "sent", "dead", "cancelled"} /\ (outcome = "sent" => s.at = "sent")
    BY <1>2
  <1> HIDE DEF outcome, mine, s
  <1>6. n \in Outgoings /\ n.home = o.home /\ n.route = o.route /\ n.parts = o.parts /\ n.status = outcome
    BY <1>4, <1>5 DEF Outgoings
  <1> HIDE DEF n
  <1>7. outgoing' = [outgoing EXCEPT ![r] = m]
    <2>1. CASE mine
      BY <1>2, <2>1
    <2>2. CASE ~ mine
      BY <1>2, <1>3, <2>2 DEF SendInv, SendTypes, OutgoingTypes
    <2> QED  BY <2>1, <2>2
  <1>8. /\ m \in Outgoings /\ m.home = o.home /\ m.route = o.route /\ m.parts = o.parts
        /\ m.status = "sent" => o.status = "sent" \/ s.at = "sent"
    BY <1>4, <1>5, <1>6
  <1> HIDE DEF m
  <1>9. /\ outgoing' \in Seq(Outgoings) /\ DOMAIN outgoing' = DOMAIN outgoing
        /\ outgoing'[r] = m /\ \A q \in DOMAIN outgoing : q # r => outgoing'[q] = outgoing[q]
    BY <1>3, <1>7, <1>8, OutgoingSet
  <1> HIDE DEF o, r
  <1>10. \A q \in DOMAIN outgoing :
           /\ outgoing'[q].home = outgoing[q].home /\ outgoing'[q].route = outgoing[q].route
           /\ outgoing'[q].parts = outgoing[q].parts
           /\ outgoing'[q].status = "sent" =>
                \/ outgoing[q].status = "sent"
                \/ \E c \in Conversations : Before(arrived, q, outgoing[q].parts + 1, c)
    BY <1>3, <1>8, <1>9 DEF o
  <1>11. /\ RouteTypes' /\ OutgoingTypes' /\ ShownTypes' /\ LastInv' /\ RoutesInv' /\ WholeInv'
         /\ ShowInv' /\ BeforeInv' /\ TurnInv'
         /\ \A v \in SendWorkers : sender'[v] = sender[v] => SenderOf(v)'
    BY <1>2, <1>9, <1>10, RowsChange
  <1>12. Sends!Off \in Senders /\ Sends!Off.held = 0 /\ Sends!Off.at = "off"
    BY DEF Sends!Off, Senders
  <1>13. /\ SenderTypes' /\ sender'[w] = Sends!Off /\ \A v \in SendWorkers : v # w => sender'[v] = sender[v]
    BY <1>2, <1>12, SenderSet
  <1>14. SenderOf(w)'
    BY <1>12, <1>13 DEF SenderOf, Sending
  <1>15. SendersInv'
    BY <1>11, <1>13, <1>14 DEF SendersInv
  <1>16. TempInv' /\ TempTypes'
    BY <1>2, <1>3, <1>12, HoldingSame DEF s
  <1> QED  BY <1>11, <1>13, <1>15, <1>16 DEF SendInv, SendTypes

\* The process dies, and the workers with it.
LEMMA SendCrashStep ==
  ASSUME SendInv, Sends!Crash  PROVE SendInv'
  <1>1. /\ spoiled' = temps /\ sender' = [w \in SendWorkers |-> Sends!Off]
        /\ outgoing' = [r \in DOMAIN outgoing |-> [outgoing[r] EXCEPT !.owner = Nobody]]
        /\ UNCHANGED <<channel, last, arrived, temps>>
    BY DEF Sends!Crash
  <1>2. \A o \in Outgoings :
          /\ [o EXCEPT !.owner = Nobody] \in Outgoings
          /\ [o EXCEPT !.owner = Nobody].home = o.home /\ [o EXCEPT !.owner = Nobody].route = o.route
          /\ [o EXCEPT !.owner = Nobody].parts = o.parts /\ [o EXCEPT !.owner = Nobody].status = o.status
    BY DEF Outgoings
  <1>3. outgoing \in Seq(Outgoings) /\ \A r \in DOMAIN outgoing : outgoing[r] \in Outgoings
    BY DEF SendInv, SendTypes, OutgoingTypes
  <1>4. DOMAIN outgoing = 1 .. Len(outgoing) /\ Len(outgoing) \in Nat
    BY <1>3
  <1>5. DOMAIN outgoing' = DOMAIN outgoing
    BY <1>1
  <1>6. \A r \in DOMAIN outgoing :
          /\ outgoing'[r] \in Outgoings
          /\ outgoing'[r].home = outgoing[r].home /\ outgoing'[r].route = outgoing[r].route
          /\ outgoing'[r].parts = outgoing[r].parts /\ outgoing'[r].status = outgoing[r].status
    BY <1>1, <1>2, <1>3
  <1>7. outgoing' \in Seq(Outgoings)
    <2>1. outgoing' = [r \in 1 .. Len(outgoing) |-> outgoing'[r]]
      BY <1>1, <1>4
    <2> QED  BY <1>4, <1>6, <2>1
  <1>8. /\ RouteTypes' /\ OutgoingTypes' /\ ShownTypes' /\ LastInv' /\ RoutesInv' /\ WholeInv'
        /\ ShowInv' /\ BeforeInv' /\ TurnInv'
    BY <1>1, <1>5, <1>6, <1>7, RowsChange
  <1>9. Sends!Off \in Senders /\ Sends!Off.held = 0 /\ Sends!Off.at = "off"
    BY DEF Sends!Off, Senders
  <1>10. SenderTypes' /\ \A w \in SendWorkers : sender'[w].at = "off" /\ sender'[w].held = 0
    BY <1>1, <1>9 DEF SenderTypes
  <1>11. SendersInv'
    BY <1>10 DEF SendersInv, SenderOf, Sending
  <1>12. TempInv' /\ TempTypes'
    <2>1. Sends!Holding' = {}
      BY <1>10 DEF Sends!Holding
    <2>2. temps' \in Nat /\ spoiled' \in Nat /\ temps' = spoiled'
      BY <1>1 DEF SendInv, SendTypes, TempTypes
    <2>3. \A n \in Nat : n = n + 0
      OBVIOUS
    <2>4. IsFiniteSet(Sends!Holding') /\ Cardinality(Sends!Holding') = 0
      BY <2>1, FS_EmptySet
    <2>5. temps' = spoiled' + Cardinality(Sends!Holding')
      BY ONLY <2>2, <2>3, <2>4
    <2> QED  BY <2>2, <2>4, <2>5 DEF TempInv, TempTypes
  <1> QED  BY <1>8, <1>10, <1>11, <1>12 DEF SendInv, SendTypes

\* A message comes to the outbox.
LEMMA RowAdded ==
  ASSUME SendInv, NEW o \in Outgoings, o.status = "pending", Leads(o),
         outgoing' = Append(outgoing, o), last' \in Routes, LastInv',
         channel = "qq" /\ last.group = "group" => last'.group = "group",
         UNCHANGED <<channel, sender, arrived, temps, spoiled>>
  PROVE  SendInv'
  <1>1. /\ outgoing' \in Seq(Outgoings) /\ Len(outgoing) \in Nat
        /\ \A r \in DOMAIN outgoing : r \in DOMAIN outgoing' /\ outgoing'[r] = outgoing[r]
        /\ \A r \in DOMAIN outgoing' : r \in DOMAIN outgoing \/ outgoing'[r] = o
    BY DEF SendInv, SendTypes, OutgoingTypes
  <1>2. SendTypes'
    BY <1>1 DEF SendInv, SendTypes, RouteTypes, OutgoingTypes, SenderTypes, ShownTypes, TempTypes
  <1>3. RoutesInv'
    BY <1>1 DEF SendInv, RoutesInv, Leads
  <1>4. WholeInv'
    <2> SUFFICES ASSUME NEW r \in DOMAIN outgoing'  PROVE WholeOf(r)'
      BY DEF WholeInv
    <2>1. CASE r \in DOMAIN outgoing
      BY <1>1, <2>1 DEF WholeOf, SendInv, WholeInv
    <2>2. CASE outgoing'[r] = o
      BY <2>2 DEF WholeOf
    <2> QED  BY <1>1, <2>1, <2>2
  <1>5. \A r \in DOMAIN outgoing : \A c : Meant(r, c) =>
          \/ c = outgoing'[r].home \/ outgoing'[r].home = Nobody
          \/ channel' = "qq" /\ last'.group = "group"
    BY <1>1 DEF Meant
  <1>6. SendersInv'
    <2> SUFFICES ASSUME NEW w \in SendWorkers  PROVE SenderOf(w)'
      BY DEF SendersInv
    <2> DEFINE s == sender[w]
    <2>1. SenderOf(w) /\ s' = s
      BY SenderFields
    <2>2. s.at # "off" => /\ s.row \in DOMAIN outgoing /\ s.row \in DOMAIN outgoing'
                          /\ outgoing'[s.row] = outgoing[s.row]
      BY <1>1, <2>1 DEF SenderOf
    <2>3. s.at \in Sending \cup {"sent"} => s.at # "off"
      BY DEF Sending
    <2> QED  BY <1>5, <2>1, <2>2, <2>3 DEF SenderOf, Meant
  <1>7. ShowInv' /\ BeforeInv' /\ TurnInv'
    <2>1. BeforeInv' /\ TurnInv'
      BY DEF SendInv, BeforeInv, TurnInv
    <2>2. ShowInv'
      BY <1>1, <1>5 DEF SendInv, ShowInv, Meant
    <2> QED  BY <2>1, <2>2
  <1>8. TempInv'
    <2>1. Sends!Holding' = Sends!Holding
      BY DEF Sends!Holding
    <2> QED  BY <2>1 DEF SendInv, TempInv
  <1> QED  BY <1>2, <1>3, <1>4, <1>6, <1>7, <1>8 DEF SendInv

\* A message from IM is to be answered.
LEMMA AskedStep ==
  ASSUME SendInv, NEW c \in Conversations, NEW parts \in 1 .. 2, Sends!Ask(c, parts)  PROVE SendInv'
  <1> DEFINE route == Sends!RouteOf(c)
             o == Sends!Row(c, route, TRUE, parts, FALSE)
  <1>0. /\ channel = "weixin" => c = "user"
        /\ last' = Sends!Merge(last, route) /\ outgoing' = Append(outgoing, o)
        /\ UNCHANGED <<channel, sender, arrived, temps, spoiled>>
    BY DEF Sends!Ask
  <1>1. last \in Routes /\ LastInv /\ channel \in {"lark", "weixin", "qq"}
    BY DEF SendInv, SendTypes, RouteTypes
  <1>2. Nobody \notin Conversations /\ Nobody # "user" /\ Nobody # "group"
    BY BackendAssumption DEF Conversations
  <1>3. /\ route \in Routes /\ route.sender = "user"
        /\ channel = "lark" => route.group = c
        /\ channel = "weixin" => route.group = Nobody
        /\ channel = "qq" => route.group = IF c = "group" THEN c ELSE Nobody
    BY <1>1 DEF Sends!RouteOf, Routes
  <1> HIDE DEF route
  <1>4. /\ last' \in Routes
        /\ last'.group = IF route.group # Nobody THEN route.group ELSE last.group
    BY <1>0, <1>1, <1>3, Merged
  <1>5. LastInv' /\ (channel = "qq" /\ last.group = "group" => last'.group = "group")
    BY <1>0, <1>1, <1>2, <1>3, <1>4 DEF LastInv, Conversations
  <1>6. parts \in {1, 2}
    OBVIOUS
  <1>7. /\ o \in Outgoings /\ o.status = "pending" /\ o.home = c /\ o.route = route
    BY <1>3, <1>6 DEF Sends!Row, Outgoings
  <1> HIDE DEF o
  <1>8. Leads(o)
    BY <1>0, <1>1, <1>2, <1>3, <1>7 DEF Leads, Conversations
  <1> QED  BY <1>0, <1>4, <1>5, <1>7, <1>8, RowAdded

\* Something said in a browser is sent on.
LEMMA PushStep ==
  ASSUME SendInv, NEW parts \in 1 .. 2, NEW media \in BOOLEAN, Sends!Push(parts, media)
  PROVE  SendInv'
  <1> DEFINE home == Sends!TargetOf(last)
             o == Sends!Row(home, last, FALSE, parts, media)
  <1>0. /\ outgoing' = Append(outgoing, o)
        /\ UNCHANGED <<channel, last, sender, arrived, temps, spoiled>>
    BY DEF Sends!Push
  <1>1. last \in Routes /\ LastInv /\ channel \in {"lark", "weixin", "qq"}
    BY DEF SendInv, SendTypes, RouteTypes
  <1>2. Nobody \notin Conversations /\ Nobody # "user" /\ Nobody # "group"
    BY BackendAssumption DEF Conversations
  <1>3. /\ home = IF channel # "weixin" /\ last.group # Nobody THEN last.group ELSE last.sender
        /\ last.group \in Conversations \cup {Nobody} /\ last.sender \in {"user", Nobody}
    BY <1>1 DEF Sends!TargetOf, Routes
  <1> HIDE DEF home
  <1>4. home \in Conversations \cup {Nobody} /\ parts \in {1, 2}
    BY <1>3 DEF Conversations
  <1>5. /\ o \in Outgoings /\ o.status = "pending" /\ o.home = home /\ o.route = last
    BY <1>1, <1>4 DEF Sends!Row, Outgoings
  <1> HIDE DEF o
  <1>6. Leads(o)
    BY <1>1, <1>2, <1>3, <1>5 DEF Leads, LastInv, Conversations
  <1>7. last' \in Routes /\ LastInv'
    BY <1>0, <1>1 DEF LastInv
  <1> QED  BY <1>0, <1>5, <1>6, <1>7, RowAdded

\* Every step of the replies keeps it.
LEMMA SendStep == SendInv /\ [Sends!Next]_sendVars => SendInv'
  <1> SUFFICES ASSUME SendInv, [Sends!Next]_sendVars  PROVE SendInv'
    OBVIOUS
  <1>1. CASE Sends!Next
    <2>1. CASE \E c \in Conversations, parts \in 1 .. 2 : Sends!Ask(c, parts)
      BY <2>1, AskedStep
    <2>2. CASE \E parts \in 1 .. 2, media \in BOOLEAN : Sends!Push(parts, media)
      BY <2>2, PushStep
    <2>3. CASE \E w \in SendWorkers : \E r \in DOMAIN outgoing : Sends!Claim(w, r)
      BY <2>3, SendClaimStep
    <2>4. CASE \E w \in SendWorkers : Sends!Prepare(w) \/ Sends!Finish(w)
      BY <2>4, PrepareStep, SendFinishStep
    <2>5. CASE \E w \in SendWorkers : \E ok \in BOOLEAN : Sends!Convert(w, ok) \/ Sends!Upload(w, ok)
      BY <2>5, ConvertStep, UploadStep
    <2>6. CASE \E w \in SendWorkers : \E id \in BOOLEAN : Sends!Accepted(w, id) \/ Sends!Broken(w, id)
      BY <2>6, AcceptedStep, BrokeStep
    <2>7. CASE \E w \in SendWorkers : \E how \in {"retry", "dead", "cancelled"} : Sends!Refused(w, how)
      BY <2>7, RefusedStep
    <2>8. CASE \E r \in DOMAIN outgoing : Sends!Lapse(r)
      BY <2>8, LapseStep
    <2>9. CASE Sends!Crash
      BY <2>9, SendCrashStep
    <2> QED
      BY <1>1, <2>1, <2>2, <2>3, <2>4, <2>5, <2>6, <2>7, <2>8, <2>9
         DEF Sends!Next, Sends!Conversations, Conversations
  <1>2. CASE UNCHANGED sendVars
    <2>1. UNCHANGED <<channel, last, outgoing, sender, arrived, temps, spoiled>>
      BY <1>2 DEF sendVars
    <2>2. /\ ShownTypes' /\ ShowInv' /\ BeforeInv' /\ TurnInv'
      BY <2>1, ShownStays
    <2>3. RouteTypes' /\ OutgoingTypes' /\ SenderTypes' /\ LastInv' /\ RoutesInv' /\ TempTypes'
      BY <2>1 DEF SendInv, SendTypes, RouteTypes, OutgoingTypes, SenderTypes, LastInv, RoutesInv,
          Leads,
                  TempTypes
    <2>4. WholeInv' /\ SendersInv'
      BY <2>1 DEF SendInv, WholeInv, WholeOf, SendersInv, SenderOf, Meant
    <2>5. TempInv'
      <3>1. Sends!Holding' = Sends!Holding
        BY <2>1 DEF Sends!Holding
      <3> QED  BY <2>1, <3>1 DEF SendInv, TempInv
    <2> QED  BY <2>2, <2>3, <2>4, <2>5 DEF SendInv, SendTypes
  <1> QED  BY <1>1, <1>2

\* What the invariant says of a reply.
LEMMA SendHolds == SendInv => Sends!MessagesArriveWhole
  <1> SUFFICES ASSUME SendInv  PROVE Sends!MessagesArriveWhole
    OBVIOUS
  <1>1. ASSUME NEW r \in DOMAIN outgoing, outgoing[r].status = "sent"
        PROVE  \E c \in Conversations : \A p \in 1 .. outgoing[r].parts :
                 \E i \in DOMAIN arrived : arrived[i].row = r /\ arrived[i].part = p /\ arrived[i].to = c
    <2>1. PICK c \in Conversations : Before(arrived, r, outgoing[r].parts + 1, c)
      BY <1>1 DEF SendInv, WholeInv, WholeOf
    <2>2. outgoing[r].parts \in Nat
      <3>1. outgoing[r] \in Outgoings
        BY DEF SendInv, SendTypes, OutgoingTypes
      <3> QED  BY <3>1 DEF Outgoings
    <2>3. \A p \in 1 .. outgoing[r].parts : p \in Nat /\ 1 <= p /\ p < outgoing[r].parts + 1
      BY <2>2
    <2> QED  BY <2>1, <2>3 DEF Before, Has
  <1>2. ASSUME NEW i \in DOMAIN arrived, NEW j \in DOMAIN arrived, i < j,
               arrived[i].row = arrived[j].row, arrived[i].to = arrived[j].to
        PROVE  \/ arrived[i].part < arrived[j].part
               \/ \E k \in 1 .. i : /\ arrived[k].row = arrived[i].row /\ arrived[k].to = arrived[i].to
                                    /\ arrived[k].part = arrived[j].part
                                    /\ {arrived[k].call, arrived[j].call} = {"reply", "create"}
    BY <1>2 DEF SendInv, TurnInv, Calls
  <1>3. \A i \in DOMAIN arrived :
          \/ arrived[i].to = outgoing[arrived[i].row].home \/ outgoing[arrived[i].row].home = Nobody
          \/ channel = "qq" /\ last.group = "group"
    BY DEF SendInv, ShowInv, Meant
  <1>4. temps = spoiled + Sends!Cardinality(Sends!Holding)
    BY DEF SendInv, TempInv, Sends!Cardinality, Cardinality
  <1> QED  BY <1>1, <1>2, <1>3, <1>4
              DEF Sends!MessagesArriveWhole, Sends!Range, Sends!Conversations, Conversations

-----------------------------------------------------------------------------
(* The whole                                                               *)

\* Whichever part moves keeps its invariant.
IInv ==
  /\ focus = "feedback" => FeedbackInv
  /\ focus = "gateway" => GatewayInv
  /\ focus = "bindings" => BindingInv
  /\ focus = "arrivals" => ArrivalInv
  /\ focus = "sends" => SendInv

\* The invariant holds at the beginning, whichever part moves.
LEMMA InitEstablishes == Init => IInv
  <1> SUFFICES ASSUME Init  PROVE IInv
    OBVIOUS
  <1>1. focus = "feedback" => FeedbackInv
    BY FeedbackStart DEF Init
  <1>2. focus = "gateway" => GatewayInv
    BY GatewayStart DEF Init
  <1>3. focus = "bindings" => BindingInv
    BY BindingStart DEF Init
  <1>4. focus = "arrivals" => ArrivalInv
    BY ArrivalStart DEF Init
  <1>5. focus = "sends" => SendInv
    BY SendStart DEF Init
  <1> QED  BY <1>1, <1>2, <1>3, <1>4, <1>5 DEF IInv

\* Every step keeps it: it is one of the moving part, or changes nothing.
LEMMA NextPreserves == IInv /\ [Next]_vars => IInv'
  <1> SUFFICES ASSUME IInv, [Next]_vars  PROVE IInv'
    OBVIOUS
  <1>0. focus' = focus
    BY DEF Next, vars
  <1>1. focus = "feedback" => [Feedback!Next]_feedbackVars
    BY DEF Next, vars
  <1>2. focus = "gateway" => [Link!Next]_gatewayVars
    BY DEF Next, vars
  <1>3. focus = "bindings" => [Bindings!Next]_bindingVars
    BY DEF Next, vars
  <1>4. focus = "arrivals" => [Arrivals!Next]_arrivalVars
    BY DEF Next, vars
  <1>5. focus = "sends" => [Sends!Next]_sendVars
    BY DEF Next, vars
  <1> QED  BY <1>0, <1>1, <1>2, <1>3, <1>4, <1>5,
              FeedbackStep, GatewayStep, BindingStep, ArrivalStep, SendStep DEF IInv

\* The inductive invariant of the parts.
LEMMA Invariance == Spec => []IInv
  BY InitEstablishes, NextPreserves, PTL DEF Spec

\* What shows that somebody works ends with the work, but for a call that failed
\* (ImInboundProgressReporter, the channels' adapters).
THEOREM FeedbackEnds == Spec => []FeedbackEndsWithTheWork
  <1>1. IInv => FeedbackEndsWithTheWork
    BY FeedbackHolds DEF IInv, FeedbackEndsWithTheWork
  <1> QED  BY <1>1, Invariance, PTL

\* No connection is closed under a run's stream but by somebody who waited for
\* _client_lock, and one that nobody uses has its timer (ClaudeAgentGateway).
THEOREM OnlyTheIdleClosed == Spec => []OnlyTheIdleAreClosed
  <1>1. IInv => OnlyTheIdleAreClosed
    BY GatewayHolds DEF IInv, OnlyTheIdleAreClosed
  <1> QED  BY <1>1, Invariance, PTL

\* When nothing is pending the process has the newest permission mode and the
\* newest plugins, but for the named exceptions (set_permission_mode,
\* reload_plugins_by_cwd).
THEOREM ChangesReach == Spec => []ChangesReachTheProcess
  <1>1. IInv => ChangesReachTheProcess
    BY GatewayHolds DEF IInv, ChangesReachTheProcess
  <1> QED  BY <1>1, Invariance, PTL

\* A session continues its own conversation and no other's, but for the named
\* exceptions (SdkSessionBindingService, ClaudeAgentGateway).
THEOREM ConversationsKept == Spec => []ConversationsKeepToTheirSession
  <1>1. IInv => ConversationsKeepToTheirSession
    BY BindingHolds DEF IInv, ConversationsKeepToTheirSession
  <1> QED  BY <1>1, Invariance, PTL

\* What a person writes comes to the inbox and what is said to him arrives, whole
\* and in order, but for the named exceptions (the channels' adapters,
\* ImChannelFacade).
THEOREM MessagesCarried == Spec => []MessagesAreCarried
  <1>1. IInv => MessagesAreCarried
    BY ArrivalHolds, SendHolds DEF IInv, MessagesAreCarried
  <1> QED  BY <1>1, Invariance, PTL
=============================================================================
