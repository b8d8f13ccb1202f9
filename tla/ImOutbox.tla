------------------------------ MODULE ImOutbox ------------------------------
(***************************************************************************)
(* The durable outbound IM queue: table im_outbox_messages, its repository *)
(* and the coordinator's outbox workers (ohs/im_delivery_coordinator.py).  *)
(*                                                                         *)
(* A reply is enqueued as a row under a deduplication key.  A worker       *)
(* claims the oldest unsettled row of a session under a lease it does not  *)
(* renew, checks the binding, sends through the channel outside any        *)
(* transaction, and writes the outcome back if it still owns the row.      *)
(* `due' stands for next_attempt_at <= now, `leased' for lease_until > now.*)
(***************************************************************************)
EXTENDS Naturals

CONSTANTS
  Workers,      \* the outbox worker tasks (policy.outbox_workers)
  Keys,         \* deduplication keys
  Sessions,
  Bindings,     \* binding ids
  SessionOf,    \* the session a binding belongs to
  MaxAttempts,  \* policy.max_attempts
  MaxRows,      \* bound: how many ids the table hands out
  MaxFaults,    \* bound: crashes, slow sends and failed write-backs
  MaxRequeues,  \* bound: manual retries
  NoBinding, NoKey

ASSUME ConstantsAssumption ==
  /\ MaxAttempts \in Nat \ {0}
  /\ MaxRows \in Nat
  /\ MaxFaults \in Nat
  /\ MaxRequeues \in Nat
  /\ SessionOf \in [Bindings -> Sessions]
  /\ NoBinding \notin Bindings
  /\ NoKey \notin Keys

VARIABLES
  row,      \* the table: id -> row
  nextId,   \* AUTO_INCREMENT
  wk,       \* worker -> its program counter and its copy of the message
  bound,    \* session -> the binding that is BOUND, or NoBinding
  faults, requeues,
  \* History, read by no guard:
  deliveries,  \* id -> how often the channel delivered it
  causes,      \* id -> reasons why it may be delivered once more
  requeued,    \* ids an administrator put back
  overtaken,   \* ids that became visible after a later id of their session
  outlived,    \* ids whose lease ran out under a worker still busy with them
  late         \* ids delivered after a later id of their session

vars == <<row, nextId, wk, bound, faults, requeues,
          deliveries, causes, requeued, overtaken, outlived, late>>
bounds == <<faults, requeues>>
marks == <<requeued, overtaken, outlived>>
channel == <<deliveries, late>>

Ids == 1 .. MaxRows
Unsettled == {"pending", "retry", "sending"}
Settled == {"sent", "cancelled", "dead"}
\* "absent": no such row; "inserted": flushed, its transaction still open.
Statuses == {"absent", "inserted"} \cup Unsettled \cup Settled
\* "refused": the credentials expired; it cancels like a changed binding.
Outcomes == {"sent", "cancelled", "refused", "dead", "retry"}

Row == [key : Keys \cup {NoKey}, binding : Bindings \cup {NoBinding},
        status : Statuses, attempt : Nat, due : BOOLEAN, leased : BOOLEAN]
NoRow == [key |-> NoKey, binding |-> NoBinding, status |-> "absent",
          attempt |-> 0, due |-> FALSE, leased |-> FALSE]

WorkerState == [pc : {"idle", "claimed", "sending", "finishing"},
                ev : Nat, att : Nat, out : Outcomes \cup {"none"}]
Idle == [pc |-> "idle", ev |-> 0, att |-> 0, out |-> "none"]

TypeOK ==
  /\ row \in [Ids -> Row]
  /\ nextId \in 1 .. MaxRows + 1
  /\ wk \in [Workers -> WorkerState]
  /\ \A w \in Workers : wk[w].pc # "idle" => wk[w].ev \in 1 .. nextId - 1
  /\ bound \in [Sessions -> Bindings \cup {NoBinding}]
  /\ faults \in 0 .. MaxFaults
  /\ requeues \in 0 .. MaxRequeues
  /\ deliveries \in [Ids -> Nat]
  /\ causes \in [Ids -> Nat]
  /\ requeued \cup overtaken \cup outlived \cup late \subseteq Ids
  /\ \A e \in Ids : row[e].leased => row[e].status = "sending"

Visible(e) == row[e].status \notin {"absent", "inserted"}
SameSession(e, f) == /\ row[e].binding \in Bindings
                     /\ row[f].binding \in Bindings
                     /\ SessionOf[row[e].binding] = SessionOf[row[f].binding]
InFlight(w, e) == wk[w].pc # "idle" /\ wk[w].ev = e

Init ==
  /\ row = [e \in Ids |-> NoRow]
  /\ nextId = 1
  /\ wk = [w \in Workers |-> Idle]
  /\ bound \in {b \in [Sessions -> Bindings \cup {NoBinding}] :
                  \A s \in Sessions : b[s] \in Bindings => SessionOf[b[s]] = s}
  /\ faults = 0
  /\ requeues = 0
  /\ deliveries = [e \in Ids |-> 0]
  /\ causes = [e \in Ids |-> 0]
  /\ requeued = {}
  /\ overtaken = {}
  /\ outlived = {}
  /\ late = {}

-----------------------------------------------------------------------------
(* Enqueueing                                                              *)

(***************************************************************************)
(* enqueue_outbound / enqueue: the caller's binding, or the one it read,   *)
(* was BOUND.  A row that has the key already - settled or not - is        *)
(* returned instead; one still being inserted makes the INSERT wait.       *)
(***************************************************************************)
Enqueue(k, b) ==
  /\ nextId <= MaxRows
  /\ \A e \in Ids : row[e].status # "absent" => row[e].key # k
  /\ row' = [row EXCEPT ![nextId] =
               [key |-> k, binding |-> b, status |-> "inserted",
                attempt |-> 0, due |-> TRUE, leased |-> FALSE]]
  /\ nextId' = nextId + 1
  /\ UNCHANGED <<wk, bound, bounds, channel, causes, marks>>

CommitEnqueue(e) ==
  /\ row[e].status = "inserted"
  /\ row' = [row EXCEPT ![e].status = "pending"]
  /\ overtaken' = IF \E f \in Ids : f > e /\ Visible(f) /\ SameSession(e, f)
                  THEN overtaken \cup {e} ELSE overtaken
  /\ UNCHANGED <<nextId, wk, bound, bounds, channel, causes, requeued,
                 outlived>>

RollbackEnqueue(e) ==
  /\ row[e].status = "inserted"
  /\ row' = [row EXCEPT ![e] = NoRow]
  /\ UNCHANGED <<nextId, wk, bound, bounds, channel, causes, marks>>

-----------------------------------------------------------------------------
(* One iteration of an outbox worker                                       *)

\* Mutant: a message being sent can be claimed under a valid lease.
ProcessableLeased(e) ==
  \/ row[e].status \in {"pending", "retry"} /\ row[e].due
  \/ row[e].status = "sending"
\* Mutant: a claim whose lease ran out is never taken up again.
ProcessableFresh(e) == row[e].status \in {"pending", "retry"} /\ row[e].due

Processable(e) ==
  \/ row[e].status \in {"pending", "retry"} /\ row[e].due
  \/ row[e].status = "sending" /\ ~row[e].leased

\* Mutant: a message being sent does not hold up its session.
HeadIgnoringSending(e) ==
  \A f \in Ids : f < e /\ SameSession(f, e) =>
    row[f].status \notin {"pending", "retry"}

\* No visible row of the session with a smaller id is still unsettled.
HeadOfSession(e) ==
  \A f \in Ids : f < e /\ SameSession(f, e) => row[f].status \notin Unsettled

\* claim_next + ImOutboxMessage.claim, committed; locked rows are skipped.
Claim(w, e) ==
  /\ wk[w].pc = "idle"
  /\ Processable(e)
  /\ HeadOfSession(e)
  /\ row' = [row EXCEPT ![e].status = "sending", ![e].attempt = @ + 1,
                        ![e].leased = TRUE]
  /\ wk' = [wk EXCEPT ![w] = [pc |-> "claimed", ev |-> e,
                              att |-> row[e].attempt + 1, out |-> "none"]]
  /\ UNCHANGED <<nextId, bound, bounds, channel, causes, marks>>

Ends(w, o) == wk' = [wk EXCEPT ![w].pc = "finishing", ![w].out = o]

\* The message goes out only through the binding it was enqueued for.
CheckBinding(w) ==
  /\ wk[w].pc = "claimed"
  /\ LET b == row[wk[w].ev].binding
     IN  IF bound[SessionOf[b]] = b
         THEN wk' = [wk EXCEPT ![w].pc = "sending"]
         ELSE Ends(w, "cancelled")
  /\ UNCHANGED <<row, nextId, bound, bounds, channel, causes, marks>>

\* The channel delivers message e.
Deliver(e) ==
  /\ deliveries' = [deliveries EXCEPT ![e] = @ + 1]
  /\ late' = IF \E f \in Ids : f > e /\ SameSession(e, f) /\ deliveries[f] > 0
             THEN late \cup {e} ELSE late

(***************************************************************************)
(* facade.send returns a receipt or raises: ChannelAuthError,              *)
(* ChannelPermanentError, or anything else - perhaps after the channel     *)
(* took the message, as when only its answer is lost.  (On an auth error   *)
(* the channel's own record is marked too; it is no part of the queue.)    *)
(***************************************************************************)
Send(w) ==
  /\ wk[w].pc = "sending"
  /\ LET e == wk[w].ev
     IN  \/ /\ Deliver(e)
            /\ Ends(w, "sent")
            /\ UNCHANGED causes
         \/ /\ Deliver(e)
            /\ Ends(w, "retry")
            /\ causes' = [causes EXCEPT ![e] = @ + 1]
         \/ /\ \E o \in {"retry", "refused", "dead"} : Ends(w, o)
            /\ UNCHANGED <<channel, causes>>
  /\ UNCHANGED <<row, nextId, bound, bounds, marks>>

\* save: still SENDING under the attempt the worker claimed.
Owns(w, e) == row[e].status = "sending" /\ row[e].attempt = wk[w].att

Retried(r, a) == [r EXCEPT !.status = "retry", !.attempt = a,
                           !.due = FALSE, !.leased = FALSE]
Final(r, a, status) == [r EXCEPT !.status = status, !.attempt = a,
                                 !.leased = FALSE]
\* Mutant: the lease of a message sent back for retry is not cleared.
OutcomeLeaseKept(r, a, o) ==
  CASE o = "sent" -> Final(r, a, "sent")
    [] o \in {"cancelled", "refused"} -> Final(r, a, "cancelled")
    [] o = "retry" /\ a < MaxAttempts ->
         [r EXCEPT !.status = "retry", !.attempt = a, !.due = FALSE]
    [] OTHER -> Final(r, a, "dead")
\* What _finish_outbox writes for a worker whose copy is on attempt a.
Outcome(r, a, o) ==
  CASE o = "sent" -> Final(r, a, "sent")
    [] o \in {"cancelled", "refused"} -> Final(r, a, "cancelled")
    [] o = "retry" /\ a < MaxAttempts -> Retried(r, a)
    [] OTHER -> Final(r, a, "dead")

\* _finish_outbox, _settle_outbox: written, or dropped when the lease is lost.
Finish(w) ==
  /\ wk[w].pc = "finishing"
  /\ LET e == wk[w].ev
     IN  IF Owns(w, e)
         THEN row' = [row EXCEPT ![e] = Outcome(@, wk[w].att, wk[w].out)]
         ELSE UNCHANGED row
  /\ wk' = [wk EXCEPT ![w] = Idle]
  /\ UNCHANGED <<nextId, bound, bounds, channel, causes, marks>>

(***************************************************************************)
(* The write-back raises.  Inside the try block - after a send, or for a   *)
(* changed binding - the last handler then asks for a retry, even of a     *)
(* message that was sent; elsewhere the iteration is given up.             *)
(***************************************************************************)
FinishFails(w) ==
  /\ wk[w].pc = "finishing"
  /\ faults < MaxFaults
  /\ faults' = faults + 1
  /\ wk' = [wk EXCEPT ![w] = IF wk[w].out \in {"sent", "cancelled"}
                             THEN [@ EXCEPT !.out = "retry"] ELSE Idle]
  /\ causes' = [causes EXCEPT ![wk[w].ev] =
                  IF wk[w].out = "sent" THEN @ + 1 ELSE @]
  /\ UNCHANGED <<row, nextId, bound, requeues, channel, marks>>

-----------------------------------------------------------------------------
(* Time, faults and the rest of the system                                 *)

HasLiveOwner(e) == \E w \in Workers : InFlight(w, e) /\ Owns(w, e)

OrphanLeaseExpires(e) ==
  /\ row[e].status = "sending" /\ row[e].leased
  /\ ~HasLiveOwner(e)
  /\ row' = [row EXCEPT ![e].leased = FALSE]
  /\ UNCHANGED <<nextId, wk, bound, bounds, channel, causes, marks>>

\* Sending takes longer than the lease, which no heartbeat renews.
LiveLeaseExpires(e) ==
  /\ row[e].status = "sending" /\ row[e].leased
  /\ HasLiveOwner(e)
  /\ faults < MaxFaults
  /\ faults' = faults + 1
  /\ row' = [row EXCEPT ![e].leased = FALSE]
  /\ causes' = [causes EXCEPT ![e] = @ + 1]
  /\ outlived' = outlived \cup {e}
  /\ UNCHANGED <<nextId, wk, bound, requeues, channel, requeued, overtaken>>

BackoffElapses(e) ==
  /\ row[e].status = "retry" /\ ~row[e].due
  /\ row' = [row EXCEPT ![e].due = TRUE]
  /\ UNCHANGED <<nextId, wk, bound, bounds, channel, causes, marks>>

\* The process dies, perhaps between a delivery and its write-back.
Crash ==
  /\ \E w \in Workers : wk[w].pc # "idle"
  /\ faults < MaxFaults
  /\ faults' = faults + 1
  /\ wk' = [w \in Workers |-> Idle]
  /\ row' = [e \in Ids |-> IF row[e].status = "inserted" THEN NoRow
                           ELSE row[e]]
  /\ causes' = [e \in Ids |->
                  IF \E w \in Workers : InFlight(w, e) /\ wk[w].out = "sent"
                  THEN causes[e] + 1 ELSE causes[e]]
  /\ UNCHANGED <<nextId, bound, requeues, channel, marks>>

\* ImDeliveryMonitor.retry -> requeue: dead letters and cancelled messages.
Requeue(e) ==
  /\ row[e].status \in {"dead", "cancelled"}
  /\ requeues < MaxRequeues
  /\ requeues' = requeues + 1
  /\ row' = [row EXCEPT ![e].status = "retry", ![e].attempt = 0,
                        ![e].due = TRUE]
  /\ requeued' = requeued \cup {e}
  /\ UNCHANGED <<nextId, wk, bound, faults, channel, causes, overtaken,
                 outlived>>

\* The session is bound to a channel, rebound or unbound.
Rebind(s, b) ==
  /\ b \in Bindings => SessionOf[b] = s
  /\ bound' = [bound EXCEPT ![s] = b]
  /\ UNCHANGED <<row, nextId, wk, bounds, channel, causes, marks>>

-----------------------------------------------------------------------------
Enqueueing ==
  \/ \E k \in Keys, b \in Bindings : Enqueue(k, b)
  \/ \E e \in Ids : CommitEnqueue(e)
  \/ \E e \in Ids : RollbackEnqueue(e)

Working ==
  \/ \E w \in Workers, e \in Ids : Claim(w, e)
  \/ \E w \in Workers : CheckBinding(w)
  \/ \E w \in Workers : Send(w)
  \/ \E w \in Workers : Finish(w)
  \/ \E w \in Workers : FinishFails(w)

Surroundings ==
  \/ \E e \in Ids : OrphanLeaseExpires(e)
  \/ \E e \in Ids : LiveLeaseExpires(e)
  \/ \E e \in Ids : BackoffElapses(e)
  \/ Crash
  \/ \E e \in Ids : Requeue(e)
  \/ \E s \in Sessions, b \in Bindings \cup {NoBinding} : Rebind(s, b)

Next == Enqueueing \/ Working \/ Surroundings

Spec == Init /\ [][Next]_vars

(***************************************************************************)
(* Workers poll at least once a second, a send ends with a receipt or an   *)
(* error (the adapters use time-outs), and time passes.                    *)
(***************************************************************************)
Fairness ==
  /\ \A e \in Ids : /\ WF_vars(\E w \in Workers : Claim(w, e))
                    /\ WF_vars(OrphanLeaseExpires(e))
                    /\ WF_vars(BackoffElapses(e))
  /\ \A w \in Workers : /\ WF_vars(CheckBinding(w))
                        /\ WF_vars(Send(w))
                        /\ WF_vars(Finish(w))

FairSpec == Spec /\ Fairness

-----------------------------------------------------------------------------
(* Properties                                                              *)

(***************************************************************************)
(* A message marked SENT was delivered, and at most one delivery of a      *)
(* message has no cause of its own: an answer that was lost, a send longer *)
(* than the lease, or a write-back that failed or died.  Whatever workers, *)
(* retries and reclaims do, they add no duplicate by themselves.  Messages *)
(* retried by hand are excepted.                                           *)
(***************************************************************************)
DuplicatesHaveACause ==
  \A e \in Ids \ requeued :
    /\ row[e].status = "sent" => deliveries[e] > 0
    /\ deliveries[e] <= 1 + causes[e]

(***************************************************************************)
(* A session's messages reach the channel in order: one delivered after a  *)
(* later one was retried by hand, was committed after the later one, or    *)
(* outlived its lease in a worker.                                         *)
(***************************************************************************)
DeliveredInOrder == late \subseteq requeued \cup overtaken \cup outlived

(***************************************************************************)
(* Every enqueued message is settled in the end - sent, dead-lettered or   *)
(* cancelled - and is not sent back and forth for ever, whatever crashed,  *)
(* expired or was rebound.                                                 *)
(***************************************************************************)
EventuallySettled ==
  \A e \in Ids : row[e].status = "pending" ~> row[e].status \in Settled
=============================================================================
