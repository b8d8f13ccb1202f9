---------------------------- MODULE ChannelSends ----------------------------
(***************************************************************************)
(* How a reply reaches a person (im_channel_facade.py and the send() of    *)
(* the Lark, WeChat and QQ adapters). A row of the outbox is one message   *)
(* of one or more parts, each sent with a key made from the row's, so that *)
(* the channel keeps it once however often it is sent. ImOutbox has the    *)
(* queue; here are a row's attempts, part by part, with two workers at one *)
(* row when the first one's lease ran out.                                 *)
(***************************************************************************)
EXTENDS Naturals, FiniteSets, Sequences, Functions

CONSTANTS
    Channels,      \* of "lark", "weixin", "qq"
    SendWorkers,
    MaxRows, MaxTries, \* bound: of messages; of the policy: attempts
    MaxBreaks,     \* bound: of calls that go wrong, crashes and leases that run out
    None           \* no conversation

VARIABLES
    channel,   \* the channel of the binding
    last,      \* binding.config: last_sender_id, last_group_id
    rows,      \* the outbox: what is to be sent where, status, attempts, owner
    sender,    \* sender[w]: its row, the part it is at, where to, what it holds
    arrived,   \* what the channel shows, in order
    temps,     \* temporary media files there are
    breaks,
    spoiled    \* history: temporary files of conversions that failed, and of crashes

sendVars == <<channel, last, rows, sender, arrived, temps, breaks, spoiled>>

\* Who writes: a user for himself or in a group.
Conversations == {"user", "group"}
NoRoute == [group |-> None, sender |-> None]
Off == [row |-> 0, try |-> 0, at |-> "off", part |-> 0, to |-> None, held |-> 0, id |-> FALSE]

Init ==
    /\ channel \in Channels
    /\ last = NoRoute /\ rows = <<>> /\ sender = [w \in SendWorkers |-> Off]
    /\ arrived = <<>> /\ temps = 0 /\ breaks = 0 /\ spoiled = 0

----------------------------------------------------------------------------
\* Routes.

\* Lark names the chat of a private message, too; WeChat has no groups.
RouteOf(c) ==
    CASE channel = "lark" -> [group |-> c, sender |-> "user"]
      [] channel = "qq" -> [group |-> IF c = "group" THEN c ELSE None, sender |-> "user"]
      [] OTHER -> [group |-> None, sender |-> "user"]

\* ChannelRoute.merge: field by field.
Merge(base, own) ==
    [f \in DOMAIN base |-> IF own[f] # None THEN own[f] ELSE base[f]]

TargetOf(route) ==
    IF channel # "weixin" /\ route.group # None THEN route.group ELSE route.sender

----------------------------------------------------------------------------
\* Messages come to the outbox.

Row(home, route, reply, parts, media) ==
    [home |-> home, route |-> route, reply |-> reply, parts |-> parts, media |-> media,
     status |-> "pending", tries |-> 0, owner |-> None]

\* A message from IM is answered with a text under the route it came by, which
\* is remembered (_persist_route). WeChat gets a long text in chunks.
Ask(c, parts) ==
    /\ Len(rows) < MaxRows
    /\ channel = "weixin" => c = "user"
    /\ parts = 1 \/ channel = "weixin"
    /\ last' = Merge(last, RouteOf(c))
    /\ rows' = Append(rows, Row(c, RouteOf(c), TRUE, parts, FALSE))
    /\ UNCHANGED <<channel, sender, arrived, temps, breaks, spoiled>>

\* sync_outbound: what is said in a browser goes where somebody wrote last,
\* its attachments as messages of their own where the channel can show them.
Push(parts, media) ==
    /\ Len(rows) < MaxRows
    /\ parts = 1 \/ channel # "qq"
    /\ media => channel = "lark"
    /\ rows' = Append(rows, Row(TargetOf(last), last, FALSE, parts, media))
    /\ UNCHANGED <<channel, last, sender, arrived, temps, breaks, spoiled>>

----------------------------------------------------------------------------
\* The workers.

Settled(r) == rows[r].status \in {"sent", "dead", "cancelled"}
Set(w, s) == sender' = [sender EXCEPT ![w] = s]
At(w, at) == Set(w, [sender[w] EXCEPT !.at = at])
Breaks(n) == breaks + n <= MaxBreaks /\ breaks' = breaks + n

\* The first row that is not settled, unless somebody has it; however often it
\* was tried, when a lease ran out.
Claim(w, r) ==
    /\ sender[w] = Off
    /\ ~ Settled(r) /\ \A q \in 1 .. r - 1 : Settled(q)
    /\ rows[r].owner = None
    /\ rows' = [rows EXCEPT ![r].owner = w, ![r].status = "sending", ![r].tries = @ + 1]
    /\ Set(w, [Off EXCEPT !.row = r, !.try = rows[r].tries + 1, !.at = "prepare"])
    /\ UNCHANGED <<channel, last, arrived, temps, breaks, spoiled>>

\* Its lease runs out while it is at work.
Lapse(r) ==
    /\ rows[r].owner # None
    /\ Breaks(1)
    /\ rows' = [rows EXCEPT ![r].owner = None]
    /\ UNCHANGED <<channel, last, sender, arrived, temps, spoiled>>

\* Lark has a call of its own for what replies to a message.
Call(s) == IF channel = "lark" /\ rows[s.row].reply THEN "reply" ELSE "create"

\* The next part. A sound or a film is converted and uploaded first.
Begin(s, part) ==
    LET media == rows[s.row].media /\ part = rows[s.row].parts
    IN  [s EXCEPT !.part = part, !.at = IF media THEN "convert" ELSE Call(s)]

\* ImChannelFacade._prepare: what is not in the message's route is taken from
\* the last one. Nobody to send to is a permanent error.
Prepare(w) ==
    LET s == sender[w]
        to == TargetOf(Merge(last, rows[s.row].route))
    IN  /\ s.at = "prepare"
        /\ IF to = None THEN At(w, "dead") ELSE Set(w, Begin([s EXCEPT !.to = to], 1))
        /\ UNCHANGED <<channel, last, rows, arrived, temps, breaks, spoiled>>

\* _prepare_media_for_lark: a conversion makes a file. When it fails, the list
\* of files is lost with the call.
Convert(w, ok) ==
    LET s == sender[w] IN
    /\ s.at = "convert"
    /\ temps' = temps + 1
    /\ IF ok THEN /\ Set(w, [s EXCEPT !.held = @ + 1, !.at = "upload"])
                  /\ UNCHANGED <<breaks, spoiled>>
       ELSE /\ Breaks(1)
            /\ spoiled' = spoiled + 1 + s.held
            /\ Set(w, [s EXCEPT !.held = 0, !.at = "retry"])
    /\ UNCHANGED <<channel, last, rows, arrived>>

\* Mutant: they are removed when the upload was good.
RemovedIfUploaded(s, ok) == IF ok THEN s.held ELSE 0

\* The finally of _prepare_outbound_content.
Removed(s, ok) == s.held

\* The upload; the files are removed in any case.
Upload(w, ok) ==
    LET s == sender[w] IN
    /\ s.at = "upload"
    /\ Breaks(IF ok THEN 0 ELSE 1)
    /\ temps' = temps - Removed(s, ok)
    /\ Set(w, [s EXCEPT !.held = 0, !.at = IF ok THEN Call(s) ELSE "retry"])
    /\ UNCHANGED <<channel, last, rows, arrived, spoiled>>

----------------------------------------------------------------------------
\* The calls.

\* Mutant: one key for all parts.
KeyOfRow(s) == <<s.row>>

\* idempotency_key, with the number of the part.
KeyOf(s) == <<s.row, s.part>>

\* The channel keeps one message for a key: each of Lark's two calls for its
\* own keys, QQ and WeChat for those of one receiver.
Shown(s, call) ==
    LET new == [row |-> s.row, part |-> s.part, key |-> KeyOf(s), to |-> s.to, call |-> call]
        known == \E a \in Range(arrived) : a.key = new.key /\ a.to = new.to /\ a.call = call
    IN  IF known THEN arrived ELSE Append(arrived, new)

\* After the last part: no id at all is an error that is tried again.
After(s, id) ==
    LET got == s.id \/ id IN
    IF s.part < rows[s.row].parts THEN [Begin(s, s.part + 1) EXCEPT !.id = got]
    ELSE [s EXCEPT !.id = got, !.at = IF got THEN "sent" ELSE "retry"]

Called(w) == sender[w].at \in {"reply", "create"}

\* The channel takes it and says so; the id may be missing, which WeChat's
\* client does not accept.
Accepted(w, id) ==
    LET s == sender[w] IN
    /\ Called(w)
    /\ Breaks(IF id THEN 0 ELSE 1)
    /\ arrived' = Shown(s, s.at)
    /\ Set(w, IF ~ id /\ channel = "weixin" THEN [s EXCEPT !.at = "retry"] ELSE After(s, id))
    /\ UNCHANGED <<channel, last, rows, temps, spoiled>>

\* It takes it, or does not, and the answer is lost.
Broken(w, taken) ==
    LET s == sender[w] IN
    /\ Called(w)
    /\ Breaks(1)
    /\ arrived' = IF taken THEN Shown(s, s.at) ELSE arrived
    /\ At(w, "retry")
    /\ UNCHANGED <<channel, last, rows, temps, spoiled>>

\* It refuses. Lark: a reply that is refused is sent as a message of its own.
\* WeChat's client tells errors apart, what the others raise is tried again.
Refused(w, how) ==
    LET s == sender[w] IN
    /\ Called(w)
    /\ how \in {"retry", "dead", "cancelled"} /\ (how # "retry" => channel = "weixin")
    /\ Breaks(1)
    /\ At(w, IF channel = "lark" /\ s.at = "reply" THEN "create" ELSE how)
    /\ UNCHANGED <<channel, last, rows, arrived, temps, spoiled>>

\* What was done is written down by the one who has the row still.
Finish(w) ==
    LET s == sender[w]
        mine == rows[s.row].owner = w /\ rows[s.row].tries = s.try
        status == IF s.at # "retry" THEN s.at
                  ELSE IF s.try >= MaxTries THEN "dead" ELSE "pending"
    IN  /\ s.at \in {"sent", "dead", "cancelled", "retry"}
        /\ rows' = IF mine THEN [rows EXCEPT ![s.row].status = status, ![s.row].owner = None]
                   ELSE rows
        /\ Set(w, Off)
        /\ UNCHANGED <<channel, last, arrived, temps, breaks, spoiled>>

\* The process dies; its leases run out.
Crash ==
    /\ \E w \in SendWorkers : sender[w] # Off
    /\ Breaks(1)
    /\ spoiled' = temps
    /\ sender' = [w \in SendWorkers |-> Off]
    /\ rows' = [r \in DOMAIN rows |-> [rows[r] EXCEPT !.owner = None]]
    /\ UNCHANGED <<channel, last, arrived, temps>>

Next ==
    \/ \E c \in Conversations, parts \in 1 .. 2 : Ask(c, parts)
    \/ \E parts \in 1 .. 2, media \in BOOLEAN : Push(parts, media)
    \/ \E w \in SendWorkers :
        \/ \E r \in DOMAIN rows : Claim(w, r)
        \/ Prepare(w)
        \/ \E ok \in BOOLEAN : Convert(w, ok) \/ Upload(w, ok)
        \/ \E id \in BOOLEAN : Accepted(w, id)
        \/ \E taken \in BOOLEAN : Broken(w, taken)
        \/ \E how \in {"retry", "dead", "cancelled"} : Refused(w, how)
        \/ Finish(w)
    \/ \E r \in DOMAIN rows : Lapse(r)
    \/ Crash

Spec == Init /\ [][Next]_sendVars

----------------------------------------------------------------------------
\* Who has a temporary file, at most one each.
Holding == {w \in SendWorkers : sender[w].held = 1}

\* A message that is called sent is there, all of it; its parts come in order,
\* each once - or twice, when Lark took it as a reply and as a message of its
\* own; a reply is where it was asked for - except that a private question on
\* QQ is answered in the group that wrote before; and no temporary file stays
\* but those of conversions that failed and of crashes.
MessagesArriveWhole ==
    /\ \A r \in DOMAIN rows :
        rows[r].status = "sent" =>
            \E c \in Conversations :
                \A p \in 1 .. rows[r].parts :
                    \E a \in Range(arrived) : a.row = r /\ a.part = p /\ a.to = c
    /\ \A i, j \in DOMAIN arrived :
        LET a == arrived[i]
            b == arrived[j]
        IN  i < j /\ a.row = b.row /\ a.to = b.to =>
                \/ a.part < b.part
                \/ \E k \in 1 .. i : /\ arrived[k].row = a.row /\ arrived[k].to = a.to
                                     /\ arrived[k].part = b.part
                                     /\ {arrived[k].call, b.call} = {"reply", "create"}
    /\ \A a \in Range(arrived) :
        \/ a.to = rows[a.row].home \/ rows[a.row].home = None
        \/ channel = "qq" /\ last.group = "group"
    /\ temps = spoiled + Cardinality(Holding)

\* A reply is where it was asked for: the last route fills in what a message
\* has none of (im_channel_facade.py, "路由兜底"). It is not: the group of the last
\* route is added to the route of a private message.
ReplyReachesItsAsker ==
    \A a \in Range(arrived) : rows[a.row].reply => a.to = rows[a.row].home
=============================================================================
