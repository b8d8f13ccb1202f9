--------------------------- MODULE ChannelArrivals ---------------------------
(***************************************************************************)
(* How a message of a person gets from Lark or QQ to the inbox, and its    *)
(* files to the project (_handle_lark_message and what it calls,           *)
(* qq_adapter.py's dispatch, inbound_voice.py, _persist_inbound_with_retry *)
(* and accept, _stage_attachments). Lark's client acknowledges a message   *)
(* when its coroutine is scheduled, and they all run at once; QQ's loop    *)
(* waits for each. Until it is in the inbox a message is only in memory.   *)
(***************************************************************************)
EXTENDS Naturals, FiniteSets, Sequences

CONSTANTS
    Sources,     \* of "lark", "qq"
    Sorts,       \* of "text", "card", "image", "post", "voice"
    MaxArrivals, \* bound: of messages
    MaxSaves,    \* attempts to save one: 5
    MaxSlips,    \* bound: of calls that fail, crashes and second deliveries
    MaxStages    \* bound: of attempts at a message of the inbox

VARIABLES
    source,   \* the channel
    written,  \* what the person sent, in order: their sorts
    got,      \* how many were delivered
    task,     \* task[m][copy]: a handler: its step, files, text, attempts to save
    accepted, \* the inbox, in order: message, text, files, attempts
    store,    \* files of messages there are under the temporary directory
    placed,   \* copies[f]: how many copies of it the project has
    pcms,     \* temporary files of voices
    slips,
    gone,     \* history: messages that a failure or a crash lost, by the call that failed
    repeated, \* history: messages delivered twice
    left      \* history: temporary files of failed conversions and of crashes

arrivalVars == <<source, written, got, task, accepted, store, placed, pcms, slips, gone, repeated,
                 left>>

Copies == {1, 2}
File == (1 .. MaxArrivals) \X {1, 2}
Done == [at |-> "done", files |-> {}, next |-> 1, text |-> "none", saves |-> 0, pcm |-> 0]

Init ==
    /\ source \in Sources
    /\ written = <<>> /\ got = 0
    /\ task = [m \in 1 .. MaxArrivals |-> [c \in Copies |-> Done]]
    /\ accepted = <<>> /\ store = {} /\ placed = [f \in File |-> 0]
    /\ pcms = 0 /\ slips = 0 /\ gone = {} /\ repeated = {} /\ left = 0

\* parse_inbound_content: a text with two pictures, one file, or none. QQ's
\* adapter fetches nothing but voices.
Resources(sort) ==
    IF source = "qq" THEN IF sort = "voice" THEN 1 ELSE 0
    ELSE CASE sort = "post" -> 2 [] sort \in {"image", "voice"} -> 1 [] OTHER -> 0

\* What can be read of it without its files. On QQ an image alone has no text.
TextOf(sort) ==
    CASE sort = "voice" -> "placeholder"
      [] sort = "image" /\ source = "qq" -> "none"
      [] OTHER -> "text"

Slip(ok) == IF ok THEN slips' = slips ELSE slips < MaxSlips /\ slips' = slips + 1
Set(m, c, t) == task' = [task EXCEPT ![m][c] = t]
At(m, c, at) == Set(m, c, [task[m][c] EXCEPT !.at = at])
Lose(m, why) == gone' = gone \cup {<<m, why>>}
AllDone == \A m \in 1 .. MaxArrivals, c \in Copies : task[m][c].at = "done"

----------------------------------------------------------------------------
\* The channel.

Write(sort) ==
    /\ Len(written) < MaxArrivals
    /\ source = "qq" => sort \notin {"card", "post"}
    /\ written' = Append(written, sort)
    /\ UNCHANGED <<source, got, task, accepted, store, placed, pcms, slips, gone, repeated, left>>

\* Mutant: the loop goes on at once.
NotAwaited == TRUE

\* QQ's receive loop awaits the handler of each message.
Awaited == source = "qq" => AllDone

\* _on_lark_message, _on_card_action and _handle_dispatch. A message with no
\* text is not handed on, nor one on QQ that has neither text nor attachment.
Handled(m) ==
    LET sort == written[m] IN
    [Done EXCEPT !.at = IF Resources(sort) > 0 THEN "fetch"
                        ELSE IF TextOf(sort) = "none" THEN "done" ELSE "look",
                 !.text = TextOf(sort)]

Deliver(m) ==
    /\ m = got + 1 /\ m <= Len(written)
    /\ Awaited
    /\ got' = m
    /\ Set(m, 1, Handled(m))
    /\ UNCHANGED <<source, written, accepted, store, placed, pcms, slips, gone, repeated, left>>

\* An acknowledgement was lost.
DeliverAgain(m) ==
    /\ m <= got /\ m \notin repeated
    /\ Awaited
    /\ Slip(FALSE)
    /\ Set(m, 2, Handled(m))
    /\ repeated' = repeated \cup {m}
    /\ UNCHANGED <<source, written, got, accepted, store, placed, pcms, gone, left>>

----------------------------------------------------------------------------
\* The files.

\* After one resource comes the next; a voice with its file is written down:
\* on QQ by the server that sent it, on Lark by a call.
Fetched(m, t) ==
    LET sort == written[m] IN
    CASE t.next < Resources(sort) -> [t EXCEPT !.next = @ + 1]
      [] sort = "voice" /\ source = "lark" /\ t.files # {} -> [t EXCEPT !.at = "transcode"]
      [] OTHER -> [t EXCEPT !.at = "look"]

\* _download_message_resource and _materialize_voice, and the file is kept. A
\* refusal costs the file only. What else goes wrong costs Lark's message, the
\* transport and a file of more than 10 MB included; on QQ the file.
Fetch(m, c, how) ==
    LET t == task[m][c]
        f == <<m, t.next>>
    IN  /\ t.at = "fetch"
        /\ Slip(how = "ok")
        /\ CASE how = "ok" ->
                    /\ store' = store \cup {f}
                    /\ Set(m, c, Fetched(m, [t EXCEPT !.files = @ \cup {f}]))
                    /\ UNCHANGED gone
             [] how # "ok" /\ (how = "refused" \/ source = "qq") ->
                    /\ Set(m, c, Fetched(m, t))
                    /\ UNCHANGED <<store, gone>>
             [] OTHER ->
                    /\ Set(m, c, Done)
                    /\ Lose(m, "fetch")
                    /\ UNCHANGED store
        /\ UNCHANGED <<source, written, got, accepted, placed, pcms, repeated, left>>

\* QQ may say what a voice says (asr_refer_text).
Heard(m, c) ==
    /\ task[m][c].at = "fetch" /\ source = "qq" /\ task[m][c].text = "placeholder"
    /\ Set(m, c, [task[m][c] EXCEPT !.text = "transcript"])
    /\ UNCHANGED <<source, written, got, accepted, store, placed, pcms, slips, gone, repeated, left>>

\* _transcode_to_recognizable_pcm: a file is made before ffmpeg runs, and is
\* not known to anybody when that fails.
Transcode(m, c, ok) ==
    LET t == task[m][c] IN
    /\ t.at = "transcode"
    /\ Slip(ok)
    /\ pcms' = pcms + 1
    /\ IF ok THEN Set(m, c, [t EXCEPT !.at = "recognize", !.pcm = 1]) /\ UNCHANGED left
       ELSE At(m, c, "look") /\ left' = left + 1
    /\ UNCHANGED <<source, written, got, accepted, store, placed, gone, repeated>>

\* Mutant: it is removed when it was recognized.
RemovedIf(t, how) == IF how = "ok" THEN t.pcm ELSE 0

\* The finally of _recognize_speech_file.
Removed(t, how) == t.pcm

\* Mutant: without a transcript there is nothing to hand on.
NothingSaid(t, how) == [t EXCEPT !.at = IF how = "ok" THEN "look" ELSE "done"]

\* The text is the transcript, or stays what stands for it.
Recognized(t, how) ==
    [t EXCEPT !.at = "look", !.text = IF how = "ok" THEN "transcript" ELSE @]

\* The recognition: refused, too long or empty, or the transport fails, which
\* nobody catches.
Recognize(m, c, how) ==
    LET t == task[m][c] IN
    /\ t.at = "recognize"
    /\ Slip(how = "ok")
    /\ pcms' = pcms - Removed(t, how)
    /\ IF how = "broken" THEN Set(m, c, Done) /\ Lose(m, "recognize")
       ELSE Set(m, c, [Recognized(t, how) EXCEPT !.pcm = 0]) /\ UNCHANGED gone
    /\ UNCHANGED <<source, written, got, accepted, store, placed, repeated, left>>

----------------------------------------------------------------------------
\* The inbox.

\* accept: a look whether it is there.
Look(m, c) ==
    /\ task[m][c].at = "look"
    /\ IF \E i \in DOMAIN accepted : accepted[i].of = m THEN Set(m, c, Done)
       ELSE At(m, c, "insert")
    /\ UNCHANGED <<source, written, got, accepted, store, placed, pcms, slips, gone, repeated, left>>

\* Mutant: nothing is unique.
NothingThere(m) == FALSE

\* uk: (channel_id, external_message_id).
Known(m) == \E i \in DOMAIN accepted : accepted[i].of = m

\* The insertion, under the unique key. After the last failure it is given up.
Insert(m, c, ok) ==
    LET t == task[m][c] IN
    /\ t.at = "insert"
    /\ Slip(ok)
    /\ accepted' = IF ok /\ ~ Known(m)
                   THEN Append(accepted, [of |-> m, text |-> t.text, files |-> t.files,
                                          tried |-> 0, dead |-> FALSE])
                   ELSE accepted
    /\ IF ok THEN Set(m, c, Done) /\ UNCHANGED gone
       ELSE IF t.saves + 1 < MaxSaves
            THEN Set(m, c, [t EXCEPT !.at = "look", !.saves = @ + 1]) /\ UNCHANGED gone
            ELSE Set(m, c, Done) /\ Lose(m, "save")
    /\ UNCHANGED <<source, written, got, store, placed, pcms, repeated, left>>

\* Mutant: each attempt makes a copy.
AnotherCopy(n) == n + 1

\* _write_unique_file: what has the same digest is the same file.
OneCopy(n) == 1

\* An attempt at a message puts its files into the project first, where the
\* files have to be there still.
Stage(i) ==
    LET e == accepted[i] IN
    /\ e.tried < MaxStages /\ ~ e.dead
    /\ IF e.files \subseteq store
       THEN /\ placed' = [f \in File |-> IF f \in e.files THEN OneCopy(placed[f]) ELSE placed[f]]
            /\ accepted' = [accepted EXCEPT ![i].tried = @ + 1]
       ELSE /\ accepted' = [accepted EXCEPT ![i].dead = TRUE]
            /\ UNCHANGED placed
    /\ UNCHANGED <<source, written, got, task, store, pcms, slips, gone, repeated, left>>

\* The process dies; with its machine, what is under the temporary directory.
Crash(cleared) ==
    /\ Slip(FALSE)
    /\ gone' = gone \cup {<<m, "crash">> : m \in {n \in 1 .. MaxArrivals :
                                          \E c \in Copies : task[n][c].at # "done"}}
    /\ task' = [m \in 1 .. MaxArrivals |-> [c \in Copies |-> Done]]
    /\ store' = IF cleared THEN {} ELSE store
    /\ pcms' = IF cleared THEN 0 ELSE pcms
    /\ left' = pcms'
    /\ UNCHANGED <<source, written, got, accepted, placed, repeated>>

Next ==
    \/ \E sort \in Sorts : Write(sort)
    \/ \E m \in 1 .. MaxArrivals :
        \/ Deliver(m) \/ DeliverAgain(m)
        \/ \E c \in Copies :
            \/ \E how \in {"ok", "refused", "broken"} : Fetch(m, c, how) \/ Recognize(m, c, how)
            \/ Heard(m, c)
            \/ \E ok \in BOOLEAN : Transcode(m, c, ok) \/ Insert(m, c, ok)
            \/ Look(m, c)
    \/ \E i \in DOMAIN accepted : Stage(i)
    \/ \E cleared \in BOOLEAN : Crash(cleared)

Spec == Init /\ [][Next]_arrivalVars

----------------------------------------------------------------------------
Lost(m, causes) == \E why \in causes : <<m, why>> \in gone
UnderWay(m) == \E c \in Copies : task[m][c].at # "done"
Arrived(m) == \E i \in DOMAIN accepted : accepted[i].of = m
HaveOne == {mc \in (1 .. MaxArrivals) \X Copies : task[mc[1]][mc[2]].pcm = 1}

\* What was delivered is in the inbox once, with something to read, or under
\* way - except a picture on QQ, and what was lost when its files could not be
\* fetched or its voice not be sent for recognition (Lark), it could not be
\* saved often enough, or the process died. On QQ messages are in order, but
\* ones delivered again. After an attempt its files are in the project, once;
\* temporary files go, but those of failed conversions and crashes.
MessagesComeThrough ==
    /\ \A m \in 1 .. got :
        \/ Arrived(m) \/ UnderWay(m)
        \/ source = "qq" /\ written[m] = "image"
        \/ Lost(m, {"save", "crash"})
        \/ source = "lark" /\ Lost(m, {"fetch", "recognize"})
    /\ \A i, j \in DOMAIN accepted :
        i < j => /\ accepted[i].of # accepted[j].of
                 /\ source = "qq" => \/ accepted[i].of < accepted[j].of
                                     \/ accepted[j].of \in repeated
    /\ \A i \in DOMAIN accepted :
        LET e == accepted[i] IN
        /\ e.text # "none"
        /\ e.text = "placeholder" => written[e.of] = "voice"
        /\ \A f \in e.files : placed[f] = IF e.tried > 0 THEN 1 ELSE 0
    /\ pcms = left + Cardinality(HaveOne)

\* A message is saved however often it takes (_persist_inbound_with_retry).
\* It is not: after the fifth failure it is dropped.
NothingIsGivenUp == \A m \in 1 .. MaxArrivals : <<m, "save">> \notin gone

\* A picture without words is not taken for an empty message
\* (qq_ws_client.py, _handle_dispatch). The adapter takes it for one.
PicturesComeThrough ==
    \A m \in 1 .. got : written[m] = "image" => Arrived(m) \/ UnderWay(m) \/ Lost(m, {"save", "crash"})
=============================================================================
