------------------------- MODULE PermissionRequests --------------------------
(***************************************************************************)
(* Tool calls of one session that ask the user (can_use_tool and its       *)
(* companions in infr/client/claude_agent_gateway.py): one slot per        *)
(* session holds the future of the call that waits, the row keeps a copy   *)
(* for a reconnecting browser, and answers carry no call's name.           *)
(*                                                                         *)
(* A turn is under way. Calls allowed at once (bypassPermissions, nobody   *)
(* to ask) ask nobody and are left out.                                    *)
(***************************************************************************)
EXTENDS Naturals, FiniteSets

CONSTANTS
    Calls,      \* tool calls that ask the user
    NoCall,
    MaxBreaks   \* bound on failed writes, failed broadcasts and killed calls

VARIABLES
    call,       \* where each call of can_use_tool is
    future,     \* call -> its asyncio.Future
    slot,       \* _pending_user_responses, with its request context
    persisted,  \* the row's pending_request_context
    waiting,    \* the session's state is waiting_permission
    canceller,  \* cancel_pending_response has its write ahead
    breaks,     \* bound used up
    \* History, read by no guard:
    overlapped, \* calls that were under way together with another
    stranded    \* calls that ended without their finally clause, or failed in it

requestVars == <<call, future, slot, persisted, waiting, canceller, breaks, overlapped, stranded>>

\* asked: registered, its context to be written; showing: state set, to be
\* broadcast; waiting: for its future; ending, clearing: in the finally clause.
UnderWay == {"asked", "showing", "waiting", "ending", "clearing"}
Active == {c \in Calls : call[c] \in UnderWay}

Init ==
    /\ call = [c \in Calls |-> "off"]
    /\ future = [c \in Calls |-> "pending"]
    /\ slot = NoCall /\ persisted = NoCall
    /\ waiting = FALSE /\ canceller = FALSE
    /\ breaks = 0
    /\ overlapped = {} /\ stranded = {}

Moves(c, from, to) == call[c] = from /\ call' = [call EXCEPT ![c] = to]
Break(c) == breaks < MaxBreaks /\ breaks' = breaks + 1 /\ stranded' = stranded \cup {c}

\* The newest call takes the slot, whoever is in it.
Ask(c) ==
    /\ Moves(c, "off", "asked")
    /\ slot' = c
    /\ overlapped' = IF Active = {} THEN overlapped ELSE overlapped \cup Active \cup {c}
    /\ UNCHANGED <<future, persisted, waiting, canceller, breaks, stranded>>

\* _persist_pending_request_context, then the state.
Persist(c) ==
    /\ Moves(c, "asked", "showing")
    /\ persisted' = c
    /\ waiting' = TRUE
    /\ UNCHANGED <<future, slot, canceller, breaks, overlapped, stranded>>

Show(c) ==
    /\ Moves(c, "showing", "waiting")
    /\ UNCHANGED <<future, slot, persisted, waiting, canceller, breaks, overlapped, stranded>>

\* The write or the broadcast fails, or the call is cancelled in one of them:
\* the finally clause does not cover them.
BreaksEarly(c) ==
    /\ call[c] \in {"asked", "showing"}
    /\ Break(c)
    /\ call' = [call EXCEPT ![c] = "broken"]
    /\ UNCHANGED <<future, slot, persisted, waiting, canceller, overlapped>>

\* resolve_user_response, from a browser or as a message of the bound chat.
Resolve ==
    /\ slot # NoCall /\ future[slot] = "pending"
    /\ future' = [future EXCEPT ![slot] = "set"]
    /\ UNCHANGED <<call, slot, persisted, waiting, canceller, breaks, overlapped, stranded>>

\* cancel_pending_response of a cancelled query: the future, and then the row.
CancelPending ==
    /\ ~canceller /\ slot # NoCall
    /\ slot' = NoCall
    /\ future' = [future EXCEPT ![slot] = IF @ = "pending" THEN "cancelled" ELSE @]
    /\ canceller' = TRUE
    /\ UNCHANGED <<call, persisted, waiting, breaks, overlapped, stranded>>

CancelWrites ==
    /\ canceller
    /\ canceller' = FALSE
    /\ persisted' = NoCall
    /\ UNCHANGED <<call, future, slot, waiting, breaks, overlapped, stranded>>

\* The answer, the cancellation of the future or of the call, or the timeout.
Wakes(c) ==
    /\ Moves(c, "waiting", "ending")
    /\ future' = [future EXCEPT ![c] = IF @ = "pending" THEN "cancelled" ELSE @]
    /\ UNCHANGED <<slot, persisted, waiting, canceller, breaks, overlapped, stranded>>

PopNothing(c) ==
    /\ Moves(c, "ending", "clearing")
    /\ UNCHANGED <<future, slot, persisted, waiting, canceller, breaks, overlapped, stranded>>

\* The finally clause empties the slot, whoever is in it.
Pop(c) ==
    /\ Moves(c, "ending", "clearing")
    /\ slot' = NoCall
    /\ UNCHANGED <<future, persisted, waiting, canceller, breaks, overlapped, stranded>>

ClearRowOnly(c) ==
    /\ Moves(c, "clearing", "done")
    /\ persisted' = NoCall
    /\ UNCHANGED <<future, slot, waiting, canceller, breaks, overlapped, stranded>>

\* Then the row and the state, unless the write fails.
Clear(c) ==
    /\ Moves(c, "clearing", "done")
    /\ \/ persisted' = NoCall /\ waiting' = FALSE /\ UNCHANGED <<breaks, stranded>>
       \/ Break(c) /\ UNCHANGED <<persisted, waiting>>
    /\ UNCHANGED <<future, slot, canceller, overlapped>>

Next ==
    \/ \E c \in Calls :
         \/ Ask(c) \/ Persist(c) \/ Show(c) \/ BreaksEarly(c)
         \/ Wakes(c) \/ Pop(c) \/ Clear(c)
    \/ Resolve \/ CancelPending \/ CancelWrites

Spec == Init /\ [][Next]_requestVars

----------------------------------------------------------------------------
\* Properties

TypeOK ==
    /\ call \in [Calls -> UnderWay \cup {"off", "broken", "done"}]
    /\ future \in [Calls -> {"pending", "set", "cancelled"}]
    /\ slot \in Calls \cup {NoCall} /\ persisted \in Calls \cup {NoCall}
    /\ waiting \in BOOLEAN /\ canceller \in BOOLEAN
    /\ breaks \in 0..MaxBreaks
    /\ overlapped \subseteq Calls /\ stranded \subseteq Calls

\* A user can answer the call that waits, if no other call came near it: its
\* future is the one in the slot. And what is in the slot, unanswered, is
\* awaited by a call: an answer taken is not thrown away - unless a call broke
\* off outside its finally clause.
AnswerReachesTheCall ==
    /\ \A c \in Calls \ overlapped :
         call[c] = "waiting" /\ future[c] = "pending" => slot = c
    /\ slot # NoCall /\ future[slot] = "pending"
         => call[slot] \in UnderWay \/ slot \in stranded

\* When no call is under way and no cancel is, nothing of them is left: not in
\* the slot, not in the row and not in the state - unless a call broke off.
NothingIsLeft ==
    Active = {} /\ ~canceller /\ stranded = {} =>
        slot = NoCall /\ persisted = NoCall /\ ~waiting
=============================================================================
