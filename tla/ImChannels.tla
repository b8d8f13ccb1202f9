------------------------------ MODULE ImChannels ------------------------------
(***************************************************************************)
(* Channel instances, their bindings to sessions, and who listens to them  *)
(* (ImChannelApplicationService, ImChannelFacade, the repositories of both *)
(* tables). Every request works in a transaction of its own on the rows it *)
(* read at its beginning; listeners are started and stopped at once, where *)
(* the request happens to be, whatever becomes of its transaction.         *)
(*                                                                         *)
(* A binding's row bears the name of the request that created it. The      *)
(* channels are Lark's, WeChat's and QQ's, whose adapters bind at once; a  *)
(* bind of OpenIM's always fails (its adapter refuses the row that the     *)
(* service has marked BINDING). What an adapter does when it listens is    *)
(* the subject of WeixinPoll, QqGateway and LarkConnections.               *)
(***************************************************************************)
EXTENDS Naturals, FiniteSets

CONSTANTS
    BindRequests, OtherRequests,   \* calls, of which the first are bind's
    ImSessions, Channels,
    Nobody,
    MaxTroubles     \* bound: failed steps, expired credentials, restarts

VARIABLES
    instance,   \* channel -> its committed row's init_status
    bindings,   \* committed rows of im_bindings
    listener,   \* channel -> the session its listener works for
    request,    \* each call: what it is about, where it is, what it has read
    troubles,
    \* History, read by no guard:
    announced,  \* rows whose end was broadcast (im_unbound)
    disturbed   \* channels of calls that failed or met another of their session

channelVars == <<instance, bindings, listener, request, troubles, announced, disturbed>>

Requests == BindRequests \cup OtherRequests
\* raw stands for NOT_INITIALIZED and INITIALIZING, which have no credentials
\* that a bind could check again; an instance in ERROR has.
InitStates == {"none", "raw", "ready", "error"}
Row(id, s, c) == [id |-> id, session |-> s, channel |-> c]
NoRow == Row(Nobody, Nobody, Nobody)

\* own: the row that is bound, completed or removed; old: a row removed first;
\* writes: what a commit will do.
NoWrites == [gone |-> {}, put |-> {}, instances |-> {}]
NoRequest == [op |-> "none", pc |-> "off", session |-> Nobody, channel |-> Nobody,
              own |-> NoRow, old |-> NoRow, writes |-> NoWrites]

Init ==
    /\ instance = [c \in Channels |-> "none"]
    /\ bindings = {}
    /\ listener = [c \in Channels |-> Nobody]
    /\ request = [r \in Requests |-> NoRequest]
    /\ troubles = 0
    /\ announced = {} /\ disturbed = {}

Only(rows) == IF rows = {} THEN NoRow ELSE CHOOSE b \in rows : TRUE
OfSession(s) == Only({b \in bindings : b.session = s})
OfChannel(c) == Only({b \in bindings : b.channel = c})

Active == {r \in Requests : request[r].pc \notin {"off", "done"}}
Trouble == troubles < MaxTroubles /\ troubles' = troubles + 1

\* Channels a call is about, and those of calls that meet one of its session.
About(q) == {q.channel, q.own.channel, q.old.channel} \cap Channels
Meets(q) == {r \in Active : q.session # Nobody /\ request[r].session = q.session}
Disturbing(q) ==
    IF Meets(q) = {} THEN disturbed
    ELSE disturbed \cup About(q) \cup UNION {About(request[r]) : r \in Meets(q)}

Begins(r, q) ==
    /\ request[r] = NoRequest
    /\ request' = [request EXCEPT ![r] = q]
    /\ disturbed' = Disturbing(q)
    /\ UNCHANGED <<instance, bindings, listener, troubles, announced>>

Goes(r, pc) == request' = [request EXCEPT ![r].pc = pc]

----------------------------------------------------------------------------
\* Channel instances: calls that are over in one transaction on one row.

SetInstance(c, from, to) ==
    /\ instance[c] \in from
    /\ instance' = [instance EXCEPT ![c] = to]
    /\ UNCHANGED <<bindings, listener, request, troubles, announced, disturbed>>

CreateInstance(c) == SetInstance(c, {"none"}, "raw")

\* initialize_channel: the adapter's verdict; a call that finds the instance
\* initialized is refused.
Initialize(c) ==
    \E verdict \in {"raw", "ready", "error"} : SetInstance(c, {"raw", "error"}, verdict)

\* reset_channel takes no notice of a binding or its listener.
Reset(c) == SetInstance(c, InitStates \ {"none"}, "raw")

\* The delivery of a message met expired credentials.
CredentialsExpire(c) ==
    /\ instance[c] \notin {"none", "error"}
    /\ Trouble
    /\ instance' = [instance EXCEPT ![c] = "error"]
    /\ UNCHANGED <<bindings, listener, request, announced, disturbed>>

----------------------------------------------------------------------------
\* Requests begin with what they read.

\* bind: refused without an instance, if that is not ready and its credentials
\* do not pass a new check, or if its channel is bound to another session.
Bind(r, s, c) ==
    LET renewed == instance[c] = "error" IN
    /\ instance[c] \in {"ready", "error"}
    /\ OfChannel(c) = NoRow \/ OfChannel(c).session = s
    /\ Begins(r, [op |-> "bind", pc |-> IF OfSession(s).channel \in {c, Nobody} THEN "ask" ELSE "silence",
                  session |-> s, channel |-> c, own |-> OfChannel(c),
                  old |-> IF OfSession(s).channel = c THEN NoRow ELSE OfSession(s),
                  writes |-> [NoWrites EXCEPT !.instances = IF renewed THEN {[channel |-> c, to |-> "ready"]} ELSE {}]])

Complete(r, s, c) ==
    /\ OfSession(s).channel = c
    /\ Begins(r, [NoRequest EXCEPT !.op = "complete", !.pc = "ask", !.session = s,
                                   !.channel = c, !.own = OfSession(s)])

UnbindKeepsListener(r, s) ==
    /\ OfSession(s) # NoRow
    /\ Begins(r, [NoRequest EXCEPT !.op = "unbind", !.pc = "remove", !.session = s,
                                   !.channel = OfSession(s).channel, !.old = OfSession(s)])

Unbind(r, s) ==
    /\ OfSession(s) # NoRow
    /\ Begins(r, [NoRequest EXCEPT !.op = "unbind", !.pc = "silence", !.session = s,
                                   !.channel = OfSession(s).channel, !.old = OfSession(s)])

Delete(r, c) ==
    /\ instance[c] # "none"
    /\ Begins(r, [NoRequest EXCEPT !.op = "delete",
                                   !.pc = IF OfChannel(c) = NoRow THEN "drop" ELSE "silence",
                                   !.session = OfChannel(c).session,
                                   !.channel = c, !.old = OfChannel(c)])

----------------------------------------------------------------------------
\* Their steps

\* _force_unbind: the listener first,
Silence(r) ==
    LET q == request[r] IN
    /\ q.pc = "silence"
    /\ listener' = [listener EXCEPT ![q.old.channel] = Nobody]
    /\ Goes(r, "remove")
    /\ UNCHANGED <<instance, bindings, troubles, announced, disturbed>>

\* A row is locked by whoever has written it and not committed.
Touched(w) == {b.id : b \in w.gone \cup w.put}
Locked(r, id) == \E p \in Active \ {r} : id \in Touched(request[p].writes)

\* then the row. A row that is gone already is no error.
Remove(r) ==
    LET q == request[r] IN
    /\ q.pc = "remove"
    /\ ~Locked(r, q.old.id)
    /\ request' = [request EXCEPT ![r].pc = IF q.op = "bind" THEN "ask"
                                            ELSE IF q.op = "delete" THEN "drop" ELSE "commit",
                                  ![r].writes.gone = {q.old}]
    /\ UNCHANGED <<instance, bindings, listener, troubles, announced, disturbed>>

Drop(r) ==
    LET q == request[r] IN
    /\ q.pc = "drop"
    /\ request' = [request EXCEPT ![r].pc = "commit",
                                  ![r].writes.instances = {[channel |-> q.channel, to |-> "none"]}]
    /\ UNCHANGED <<instance, bindings, listener, troubles, announced, disturbed>>

\* The adapter's bind or complete_bind: the binding is bound.
Ask(r) ==
    LET q == request[r] IN
    /\ q.pc = "ask"
    /\ request' = [request EXCEPT ![r].pc = "save",
                     ![r].own = Row(IF q.own = NoRow THEN r ELSE q.own.id, q.session, q.channel)]
    /\ UNCHANGED <<instance, bindings, listener, troubles, announced, disturbed>>

\* The row to be saved is there, and nobody else is at it: an update. A new
\* row needs its channel and its session to be free, uncommitted rows included.
Updates(q) == \E b \in bindings : b.id = q.own.id
Free(r, q) ==
    \A b \in bindings \cup UNION {request[p].writes.put : p \in Active \ {r}} :
        b \in q.writes.gone \/ (b.channel # q.channel /\ b.session # q.session)
Waits(r, q) ==
    \/ Locked(r, q.own.id)
    \/ \E p \in Active \ {r} : \E b \in request[p].writes.put \cup request[p].writes.gone :
          b.channel = q.channel \/ b.session = q.session

\* A row that was read and is gone cannot be updated (StaleDataError), a new
\* one must keep both unique constraints.
Saves(r, q) == IF q.own.id = r THEN Free(r, q) ELSE Updates(q)

Save(r) ==
    LET q == request[r] IN
    /\ q.pc = "save"
    /\ ~Waits(r, q) /\ Saves(r, q)
    /\ request' = [request EXCEPT ![r].writes.put = {q.own}, ![r].pc = "listen"]
    /\ UNCHANGED <<instance, bindings, listener, troubles, announced, disturbed>>

\* start_channel_listener replaces a listener of the channel; its failure is
\* logged, and nothing else.
Listen(r) ==
    LET q == request[r] IN
    /\ q.pc = "listen"
    /\ \/ listener' = [listener EXCEPT ![q.channel] = q.session] /\ UNCHANGED <<troubles, disturbed>>
       \/ Trouble /\ UNCHANGED listener /\ disturbed' = disturbed \cup About(q)
    /\ Goes(r, "commit")
    /\ UNCHANGED <<instance, bindings, announced>>

CommitButUnbinds(r) ==
    LET w == IF request[r].op = "unbind" THEN NoWrites ELSE request[r].writes IN
    /\ request[r].pc = "commit"
    /\ bindings' = {b \in bindings : b.id \notin Touched(w)} \cup w.put
    /\ UNCHANGED instance
    /\ Goes(r, IF request[r].op \in {"unbind", "delete"} THEN "announce" ELSE "done")
    /\ UNCHANGED <<listener, troubles, announced, disturbed>>

\* The request's transaction; before _notify_unbound it is committed early.
Commit(r) ==
    LET w == request[r].writes IN
    /\ request[r].pc = "commit"
    /\ bindings' = {b \in bindings : b.id \notin Touched(w)} \cup w.put
    /\ instance' = [c \in Channels |->
                      IF \E i \in w.instances : i.channel = c
                      THEN (CHOOSE i \in w.instances : i.channel = c).to
                      ELSE instance[c]]
    /\ request' = [request EXCEPT ![r].writes = NoWrites,
                     ![r].pc = IF request[r].op \in {"unbind", "delete"} THEN "announce" ELSE "done"]
    /\ UNCHANGED <<listener, troubles, announced, disturbed>>

\* _notify_unbound, if there was a binding.
Announce(r) ==
    /\ request[r].pc = "announce"
    /\ announced' = announced \cup ({request[r].old} \ {NoRow})
    /\ Goes(r, "done")
    /\ UNCHANGED <<instance, bindings, listener, troubles, disturbed>>

\* A call fails: by the constraints, by a row that is gone, or by trouble of
\* its own. Its writes are taken back, its listeners are not.
Fail(r) ==
    LET q == request[r] IN
    /\ \/ q.pc = "save" /\ ~Waits(r, q) /\ ~Saves(r, q) /\ UNCHANGED troubles
       \/ q.pc \in {"ask", "save", "remove", "drop", "commit"} /\ Trouble
    /\ request' = [request EXCEPT ![r].writes = NoWrites, ![r].pc = "done"]
    /\ disturbed' = IF q.old # NoRow \/ q.pc = "commit" THEN disturbed \cup About(q) ELSE disturbed
    /\ UNCHANGED <<instance, bindings, listener, announced>>

\* The process ends; at its start it listens for the bindings it finds.
Restart ==
    /\ Trouble
    /\ request' = [r \in Requests |-> IF r \in Active
                      THEN [request[r] EXCEPT !.writes = NoWrites, !.pc = "done"] ELSE request[r]]
    /\ listener' = [c \in Channels |-> OfChannel(c).session]
    /\ disturbed' = {}
    /\ UNCHANGED <<instance, bindings, announced>>

Next ==
    \/ \E c \in Channels :
         \/ CreateInstance(c) \/ Initialize(c) \/ Reset(c) \/ CredentialsExpire(c)
         \/ \E s \in ImSessions :
              \/ \E r \in BindRequests : Bind(r, s, c)
              \/ \E r \in OtherRequests : Complete(r, s, c)
         \/ \E r \in OtherRequests : Delete(r, c)
    \/ \E r \in OtherRequests, s \in ImSessions : Unbind(r, s)
    \/ \E r \in Requests :
         \/ Silence(r) \/ Remove(r) \/ Drop(r) \/ Ask(r) \/ Save(r) \/ Listen(r)
         \/ Commit(r) \/ Announce(r) \/ Fail(r)
    \/ Restart

Spec == Init /\ [][Next]_channelVars

----------------------------------------------------------------------------
\* Properties

TypeOK ==
    /\ instance \in [Channels -> InitStates]
    /\ bindings \subseteq [id : BindRequests, session : ImSessions, channel : Channels]
    /\ listener \in [Channels -> ImSessions \cup {Nobody}]
    /\ DOMAIN request = Requests
    /\ troubles \in 0..MaxTroubles
    /\ disturbed \subseteq Channels

Settled(c) == c \notin disturbed /\ \A r \in Active : c \notin About(request[r])

\* A channel is listened to for the session it is bound to, and not at all if
\* it is bound to none, once the calls about it are over: whichever sessions
\* compete for it, and through every change of a binding - unless two calls of
\* one session met, or a call failed after it had touched a listener.
ListenersFollowBindings ==
    \A c \in Channels : Settled(c) =>
        listener[c] = OfChannel(c).session

\* A binding whose end was announced is not in the table, and does not come
\* back: clients read the table when they hear of it (_notify_unbound).
AnnouncedIsGone ==
    \A b \in announced : \A row \in bindings : row.id # b.id
=============================================================================
