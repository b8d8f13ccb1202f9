----------------------------- MODULE SdkBindings -----------------------------
(***************************************************************************)
(* Which conversation of the Claude agent a session continues              *)
(* (SdkSessionBindingService and its callers, ClaudeAgentGateway). The     *)
(* agent keeps a transcript per conversation; the session's row has its    *)
(* id, the gateway caches the id it heard last, a connection is to one.    *)
(* Only a column with an index, which is not unique, says which session    *)
(* has a transcript, and each caller checks it and writes later.           *)
(*                                                                         *)
(* Queries of one session are one after the other (SessionLocks); what     *)
(* meets a deletion or a clearing is SessionUpkeep's.                      *)
(***************************************************************************)
EXTENDS Naturals, FiniteSets, Sequences

CONSTANTS
    Sessions,
    MaxTranscripts, MaxMishaps, \* bounds: of conversations; of what goes wrong
    MaxQueries,    \* bound: of queries and clearings
    Prewarmed      \* the sessions that a browser opens with CLAUDE_PREWARM_CONNECTIONS set

VARIABLES
    rows,      \* rows[s]: whether it is there, its sdk_session_id
    files,     \* the transcripts there are
    made,      \* how many there were
    cache,     \* _sdk_session_ids
    link,      \* link[s]: the process: whether it is up, on what, as a fork
    query,     \* query[s]: its step, its copy's binding, whether it may retry
    warm,      \* warm[s]: a prewarming: its step, its copy's binding
    import,    \* import[s]: the transcript s is to be made of, and whether nobody had it
    queries, mishaps,
    \* History, read by no guard:
    talk,      \* talk[s]: the transcript with its last turn
    removed,   \* transcripts deleted by hand, or while they were imported
    twice,     \* transcripts imported twice, or while another session had them in memory
    lost       \* sessions whose binding was reset, or overwritten by an older copy

bindingVars == <<rows, files, made, cache, link, query, warm, import, queries, mishaps, talk,
                 removed, twice, lost>>

Unbound == [id |-> 0, fork |-> FALSE]
Down == [up |-> FALSE, on |-> 0, fork |-> FALSE]
Rest == [at |-> "off", copy |-> Unbound, retry |-> FALSE]
Cold == [at |-> "off", copy |-> Unbound]
NoImport == [id |-> 0, free |-> FALSE]
Gone == [there |-> "not yet", bound |-> Unbound]

There(s) == rows[s].there = "yes"

\* One conversation was held outside.
Init ==
    /\ rows = [s \in Sessions |-> Gone]
    /\ files = {1} /\ made = 1
    /\ cache = [s \in Sessions |-> 0] /\ link = [s \in Sessions |-> Down]
    /\ query = [s \in Sessions |-> Rest] /\ warm = [s \in Sessions |-> Cold]
    /\ import = [s \in Sessions |-> NoImport]
    /\ queries = 0 /\ mishaps = 0
    /\ talk = [s \in Sessions |-> 0] /\ removed = {} /\ twice = {} /\ lost = {}

----------------------------------------------------------------------------
\* find_by_sdk_session_id finds one row: when two have the id, either.
OthersWith(s, t) ==
    LET owners == {r \in Sessions : There(r) /\ rows[r].bound = [id |-> t, fork |-> FALSE]}
    IN  owners \ {s}

OwnedBy(s, t) == There(s) /\ rows[s].bound = [id |-> t, fork |-> FALSE]

Unowned(t) == \A s \in Sessions : ~ OwnedBy(s, t)

\* The check finds another session. With two owners the asking one may be found.
MayConflict(s, b) == ~ b.fork /\ b.id # 0 /\ OthersWith(s, b.id) # {}
MayAccept(s, b) == b.fork \/ OthersWith(s, b.id) = {} \/ OwnedBy(s, b.id)

Bind(s, b) == rows' = [rows EXCEPT ![s].bound = b]
Unlink(s) == link' = [link EXCEPT ![s] = Down]
Counted == queries < MaxQueries /\ queries' = queries + 1
Mishap == mishaps < MaxMishaps /\ mishaps' = mishaps + 1
LosesUnless(s, kept) == lost' = IF kept THEN lost ELSE lost \cup {s}
Loses(s) == LosesUnless(s, FALSE)
Fresh == made < MaxTranscripts /\ made' = made + 1 /\ files' = files \cup {made'}

----------------------------------------------------------------------------
\* Sessions come into being.

Create(s) ==
    /\ rows[s] = Gone /\ import[s] = NoImport
    /\ rows' = [rows EXCEPT ![s].there = "yes"]
    /\ UNCHANGED <<files, made, cache, link, query, warm, import, queries, mishaps, talk, removed,
                   twice, lost>>

\* A branch: it continues a copy of p's conversation (_fork_marker).
Branch(s, p) ==
    /\ rows[s] = Gone /\ import[s] = NoImport /\ There(p)
    /\ LET b == rows[p].bound
           marker == [id |-> b.id, fork |-> b.id # 0]
       IN  /\ rows' = [rows EXCEPT ![s].there = "yes", ![s].bound = marker]
           /\ talk' = [talk EXCEPT ![s] = b.id]
    /\ UNCHANGED <<files, made, cache, link, query, warm, import, queries, mishaps, removed,
                   twice, lost>>

\* Mutant: nobody looks.
NoOwnerLook(t) == TRUE

\* A transcript with an owner is that session's already.
MayImport(t) == Unowned(t)

\* import_claude_session.
Import(s, t) ==
    /\ rows[s] = Gone /\ import[s] = NoImport
    /\ t \in files /\ MayImport(t)
    /\ import' = [import EXCEPT ![s] = [id |-> t, free |-> Unowned(t)]]
    /\ UNCHANGED <<rows, files, made, cache, link, query, warm, queries, mishaps, talk, removed,
                   twice, lost>>

ImportSaves(s) ==
    LET t == import[s].id
        held == \E r \in Sessions \ {s} : \/ link[r].up /\ link[r].on = t
                                          \/ query[r].at # "off" /\ query[r].copy.id = t
                                          \/ warm[r].at # "off" /\ warm[r].copy.id = t
                                          \/ cache[r] = t \/ import[r].id = t
                                          \/ OwnedBy(r, t) /\ import[s].free
    IN  /\ t # 0
        /\ rows' = [rows EXCEPT ![s].there = "yes", ![s].bound = [id |-> t, fork |-> FALSE]]
        /\ talk' = [talk EXCEPT ![s] = t]
        /\ twice' = IF held THEN twice \cup {t} ELSE twice
        /\ import' = [import EXCEPT ![s] = NoImport]
        /\ UNCHANGED <<files, made, cache, link, query, warm, queries, mishaps, removed, lost>>

----------------------------------------------------------------------------
\* A query.

Step(s, at) == query' = [query EXCEPT ![s].at = at]

\* A connection there is goes on with what it is on.
Begin(s) ==
    /\ There(s) /\ query[s] = Rest /\ Counted
    /\ query' = [query EXCEPT ![s] = [at |-> IF link[s].up THEN "stream" ELSE "resolve",
                                      copy |-> rows[s].bound, retry |-> link[s].up]]
    /\ UNCHANGED <<rows, files, made, cache, link, warm, import, mishaps, talk, removed, twice,
                   lost>>

\* resolve_for_resume: a conflict takes the binding away, at once in the row.
Resolve(s) ==
    /\ query[s].at = "resolve"
    /\ \/ /\ MayAccept(s, query[s].copy)
          /\ Step(s, "connect")
          /\ UNCHANGED <<rows, lost>>
       \/ /\ MayConflict(s, query[s].copy)
          /\ query' = [query EXCEPT ![s].at = "connect", ![s].copy = Unbound]
          /\ Bind(s, Unbound)
          /\ Loses(s)
    /\ UNCHANGED <<files, made, cache, link, warm, import, queries, mishaps, talk, removed,
                   twice>>

On(b) == [up |-> TRUE, on |-> b.id, fork |-> b.fork]

\* _try_connect: a conversation whose transcript is gone is begun anew, which
\* clears the binding and saves it (_meta resume_failed); a fork of one cannot be.
Connect(s) ==
    LET b == query[s].copy
        gone == b.id # 0 /\ b.id \notin files
    IN  /\ query[s].at = "connect"
        /\ CASE gone /\ b.fork ->
                    /\ Unlink(s)
                    /\ query' = [query EXCEPT ![s] = Rest]
                    /\ LosesUnless(s, talk[s] = b.id)
                    /\ UNCHANGED <<rows, cache>>
             [] gone /\ ~ b.fork ->
                    /\ link' = [link EXCEPT ![s] = On(Unbound)]
                    /\ cache' = [cache EXCEPT ![s] = 0]
                    /\ query' = [query EXCEPT ![s].at = "stream", ![s].copy = Unbound]
                    /\ Bind(s, Unbound)
                    /\ Loses(s)
             [] OTHER ->
                    /\ link' = [link EXCEPT ![s] = On(b)]
                    /\ Step(s, "stream")
                    /\ UNCHANGED <<rows, cache, lost>>
        /\ UNCHANGED <<files, made, warm, import, queries, mishaps, talk, removed, twice>>

\* The agent answers and says where: a new conversation or a fork has a new
\* transcript. _iter_response caches its id.
Turn(s) ==
    LET new == link[s].on = 0 \/ link[s].fork
        t == IF new THEN made + 1 ELSE link[s].on
    IN  /\ query[s].at = "stream" /\ link[s].up
        /\ IF new THEN Fresh ELSE UNCHANGED <<files, made>>
        /\ link' = [link EXCEPT ![s] = [up |-> TRUE, on |-> t, fork |-> FALSE]]
        /\ cache' = [cache EXCEPT ![s] = t]
        /\ talk' = [talk EXCEPT ![s] = t]
        /\ Step(s, "bind")
        /\ UNCHANGED <<rows, warm, import, queries, mishaps, removed, twice, lost>>

\* Mutant: the first id is kept, the fork's source.
FirstKept(old, new) == IF old = Unbound THEN new ELSE old

Adopted(old, new) == new

\* try_bind, which changes the copy; a conflict ends the connection.
TryBind(s) ==
    LET b == [id |-> link[s].on, fork |-> FALSE] IN
    /\ query[s].at = "bind"
    /\ link[s].up
    /\ \/ /\ b = query[s].copy \/ MayAccept(s, b)
          /\ query' = [query EXCEPT ![s].at = "save", ![s].copy = Adopted(@, b)]
          /\ UNCHANGED <<link, lost>>
       \/ /\ b # query[s].copy /\ MayConflict(s, b)
          /\ query' = [query EXCEPT ![s].at = "broken", ![s].copy = Unbound]
          /\ Unlink(s)
          /\ Loses(s)
    /\ UNCHANGED <<rows, files, made, cache, warm, import, queries, mishaps, talk, removed,
                   twice>>

\* The save after the result, or in between.
Save(s, done) ==
    /\ query[s].at = "save"
    /\ Bind(s, query[s].copy)
    /\ query' = [query EXCEPT ![s] = IF done THEN Rest ELSE [@ EXCEPT !.at = "stream"]]
    /\ UNCHANGED <<files, made, cache, link, warm, import, queries, mishaps, talk, removed, twice,
                   lost>>

\* The process ends in the middle.
Breaks(s) ==
    /\ query[s].at \in {"stream", "bind"} /\ link[s].up
    /\ Mishap
    /\ Unlink(s)
    /\ Step(s, "broken")
    /\ UNCHANGED <<rows, files, made, cache, warm, import, queries, talk, removed, twice, lost>>

\* A query that went by an old connection is tried with a new one; else the
\* session fails, and its copy is saved.
Broken(s) ==
    /\ query[s].at = "broken"
    /\ IF query[s].retry
       THEN /\ query' = [query EXCEPT ![s].at = "resolve", ![s].retry = FALSE]
            /\ Unlink(s)
            /\ UNCHANGED <<rows, lost>>
       ELSE /\ Bind(s, query[s].copy)
            /\ query' = [query EXCEPT ![s] = Rest]
            /\ LosesUnless(s, talk[s] = query[s].copy.id)
            /\ UNCHANGED link
    /\ UNCHANGED <<files, made, cache, warm, import, queries, mishaps, talk, removed, twice>>

\* cancel_query: the copy is left as it is. /rewind over the connection, if it
\* is up still, says where the conversation is.
Cancel(s, kept) ==
    LET b == [id |-> link[s].on, fork |-> FALSE]
        rewinds == kept /\ link[s].up /\ link[s].on # 0 /\ ~ link[s].fork
    IN  /\ query[s].at \in {"stream", "bind", "save"}
        /\ query' = [query EXCEPT ![s] = Rest]
        /\ \/ /\ rewinds /\ MayAccept(s, b)
              /\ Bind(s, b)
              /\ UNCHANGED <<link, lost>>
           \/ /\ rewinds /\ b # rows[s].bound /\ MayConflict(s, b)
              /\ Bind(s, Unbound)
              /\ Unlink(s)
              /\ Loses(s)
           \/ /\ ~ rewinds
              /\ Unlink(s)
              /\ LosesUnless(s, talk[s] = rows[s].bound.id)
              /\ UNCHANGED rows
        /\ UNCHANGED <<files, made, cache, warm, import, queries, mishaps, talk, removed, twice>>

----------------------------------------------------------------------------
\* Prewarming, which takes no lock of the session.

WarmLook(s) ==
    LET b == rows[s].bound IN
    /\ s \in Prewarmed
    /\ There(s) /\ b.id # 0 /\ ~ link[s].up /\ warm[s].at = "off"
    /\ \/ /\ MayAccept(s, b)
          /\ warm' = [warm EXCEPT ![s] = [at |-> "open", copy |-> b]]
          /\ UNCHANGED <<rows, lost>>
       \/ /\ MayConflict(s, b)
          /\ Bind(s, Unbound)
          /\ Loses(s)
          /\ UNCHANGED warm
    /\ UNCHANGED <<files, made, cache, link, query, import, queries, mishaps, talk, removed,
                   twice>>

Streams(s) == query[s].at \in {"stream", "bind"}

\* open_connection: the connection there is, is closed, a query's, too.
WarmOpen(s) ==
    LET b == warm[s].copy
        gone == b.id \notin files
    IN  /\ warm[s].at = "open"
        /\ warm' = [warm EXCEPT ![s].at = IF gone /\ ~ b.fork THEN "clear" ELSE "off"]
        /\ link' = [link EXCEPT ![s] = IF gone THEN Down ELSE On(b)]
        /\ cache' = IF gone /\ ~ b.fork THEN [cache EXCEPT ![s] = 0] ELSE cache
        /\ query' = IF Streams(s) THEN [query EXCEPT ![s].at = "broken"] ELSE query
        /\ LosesUnless(s, rows[s].bound = b /\ query[s] = Rest)
        /\ UNCHANGED <<rows, files, made, import, queries, mishaps, talk, removed, twice>>

\* "no longer exists": the copy is saved without its binding.
WarmClear(s) ==
    /\ warm[s].at = "clear"
    /\ warm' = [warm EXCEPT ![s] = Cold]
    /\ IF There(s) THEN Bind(s, Unbound) /\ Loses(s) ELSE UNCHANGED <<rows, lost>>
    /\ UNCHANGED <<files, made, cache, link, query, import, queries, mishaps, talk, removed,
                   twice>>

----------------------------------------------------------------------------
\* What goes on beside.

\* clear_context. /clear begins a new conversation.
Clear(s, ok) ==
    /\ There(s) /\ query[s] = Rest /\ Counted
    /\ IF link[s].up /\ ok
       THEN /\ Fresh
            /\ cache' = [cache EXCEPT ![s] = made']
            /\ link' = [link EXCEPT ![s] = [up |-> TRUE, on |-> made', fork |-> FALSE]]
            /\ Bind(s, [id |-> made', fork |-> FALSE])
            /\ talk' = [talk EXCEPT ![s] = made']
            /\ UNCHANGED mishaps
       ELSE /\ IF link[s].up THEN Mishap ELSE UNCHANGED mishaps
            /\ ok <=> ~ link[s].up
            /\ Unlink(s)
            /\ cache' = [cache EXCEPT ![s] = 0]
            /\ Bind(s, Unbound)
            /\ talk' = [talk EXCEPT ![s] = 0]
            /\ UNCHANGED <<files, made>>
    /\ lost' = lost \ {s}
    /\ UNCHANGED <<query, warm, import, removed, twice>>

\* Mutant: what a fork was made from is deleted with it.
TranscriptWithSource(s) == IF cache[s] # 0 THEN cache[s] ELSE rows[s].bound.id

\* delete_session_files: what the cache says, else the row, but no fork's source.
TranscriptOf(s) ==
    IF cache[s] # 0 THEN cache[s] ELSE IF rows[s].bound.fork THEN 0 ELSE rows[s].bound.id

Delete(s) ==
    /\ There(s) /\ query[s] = Rest
    /\ files' = files \ {TranscriptOf(s)}
    /\ Unlink(s)
    /\ cache' = [cache EXCEPT ![s] = 0]
    /\ rows' = [rows EXCEPT ![s].there = "no more", ![s].bound = Unbound]
    /\ talk' = [talk EXCEPT ![s] = 0]
    /\ lost' = lost \ {s}
    /\ removed' = removed \cup (({TranscriptOf(s)} \cap {import[r].id : r \in Sessions}) \ {0})
    /\ UNCHANGED <<made, query, warm, import, queries, mishaps, twice>>

\* ClaudeSessionApplicationService.delete_claude_session asks nobody.
Remove(t) ==
    /\ Mishap
    /\ files' = files \ {t}
    /\ removed' = removed \cup {t}
    /\ UNCHANGED <<rows, made, cache, link, query, warm, import, queries, talk, twice, lost>>

\* The connection is closed when it is idle.
IdleDisconnect(s) ==
    /\ link[s].up /\ query[s] = Rest
    /\ Unlink(s)
    /\ UNCHANGED <<rows, files, made, cache, query, warm, import, queries, mishaps, talk, removed,
                   twice, lost>>

Crash ==
    /\ Mishap
    /\ cache' = [s \in Sessions |-> 0] /\ link' = [s \in Sessions |-> Down]
    /\ query' = [s \in Sessions |-> Rest] /\ warm' = [s \in Sessions |-> Cold]
    /\ import' = [s \in Sessions |-> NoImport]
    /\ lost' = lost \cup {s \in Sessions : query[s].at # "off" /\ talk[s] # rows[s].bound.id}
    /\ UNCHANGED <<rows, files, made, queries, talk, removed, twice>>

Next ==
    \/ \E s \in Sessions :
        \/ Create(s) \/ ImportSaves(s) \/ Begin(s) \/ Resolve(s) \/ Connect(s) \/ Turn(s)
        \/ TryBind(s) \/ Breaks(s) \/ Broken(s) \/ WarmLook(s) \/ WarmOpen(s) \/ WarmClear(s)
        \/ Delete(s) \/ IdleDisconnect(s)
        \/ \E p \in Sessions : Branch(s, p)
        \/ \E t \in files : Import(s, t)
        \/ \E yes \in BOOLEAN : Save(s, yes) \/ Cancel(s, yes) \/ Clear(s, yes)
    \/ \E t \in files : Remove(t)
    \/ Crash

Spec == Init /\ [][Next]_bindingVars

----------------------------------------------------------------------------
\* What a session is on, for itself: the row's, its query's, its connection's.
Has(s) ==
    (IF There(s) /\ ~ rows[s].bound.fork THEN {rows[s].bound.id} ELSE {})
    \cup (IF link[s].up /\ ~ link[s].fork THEN {link[s].on} ELSE {})
    \cup (IF query[s].at # "off" /\ ~ query[s].copy.fork THEN {query[s].copy.id} ELSE {})

\* No two sessions continue one conversation, but one that was imported twice
\* at once, or while another session had it in memory and not in its row; a
\* session without a query goes on with its last turn, unless its binding was
\* reset; and the transcript of one does not go with another.
ConversationsKeepToTheirSession ==
    /\ \A s, r \in Sessions : s # r => (Has(s) \cap Has(r)) \ {0} \subseteq twice
    /\ \A s \in Sessions :
        There(s) /\ query[s] = Rest /\ s \notin lost => rows[s].bound.id = talk[s]
    /\ \A s \in Sessions :
        There(s) /\ ~ rows[s].bound.fork =>
            rows[s].bound.id \in files \cup removed \cup twice \cup {0}
=============================================================================
