------------------------------- MODULE ImInbox -------------------------------
(***************************************************************************)
(* The durable inbound IM queue: table im_inbox_events, the repository     *)
(* that claims and writes back its rows, and the coordinator's inbox       *)
(* workers (ohs/im_delivery_coordinator.py).                               *)
(*                                                                         *)
(* A channel listener accepts a message as a row.  Workers claim the       *)
(* oldest unsettled row of a session under a lease, process it outside any *)
(* transaction while a heartbeat renews the lease, and write the outcome   *)
(* back only if the row is still PROCESSING under the attempt number they  *)
(* claimed it with.  Clocks are abstracted: `due' stands for               *)
(* next_attempt_at <= now, `leased' for lease_until > now.                 *)
(***************************************************************************)
EXTENDS Naturals

CONSTANTS
  Workers,      \* the inbox worker tasks (policy.inbox_workers)
  Messages,     \* (channel_id, external_message_id) pairs
  Sessions,
  Bindings,     \* binding ids; a row remembers the one it arrived through
  SessionOf,    \* the session a binding belongs to
  MaxAttempts,  \* policy.max_attempts
  MaxRows,      \* bound: how many ids the table hands out
  MaxFaults,    \* bound: crashes, missed heartbeats and failed write-backs
  MaxRequeues,  \* bound: manual retries of dead letters
  NoBinding, NoWorker, NoMessage

ASSUME ConstantsAssumption ==
  /\ MaxAttempts \in Nat \ {0}
  /\ MaxRows \in Nat
  /\ MaxFaults \in Nat
  /\ MaxRequeues \in Nat
  /\ SessionOf \in [Bindings -> Sessions]
  /\ NoBinding \notin Bindings
  /\ NoWorker \notin Workers
  /\ NoMessage \notin Messages

VARIABLES
  row,      \* the table: id -> row
  nextId,   \* AUTO_INCREMENT
  wk,       \* worker -> its program counter and its copy of the claimed event
  bound,    \* session -> the binding that is BOUND, or NoBinding
  busy,     \* session.is_running, as _execute_inbound reads it
  faults, requeues,
  \* History, read by no guard:
  holder,    \* id -> the worker that claimed the row last
  requeued,  \* ids an administrator put back from DEAD
  overtaken, \* ids that became visible after a later id of their session
  spent      \* id -> attempts that failed or were lost since the last reset

vars == <<row, nextId, wk, bound, busy, faults, requeues,
          holder, requeued, overtaken, spent>>
environment == <<bound, busy>>
history == <<holder, requeued, overtaken, spent>>

Ids == 1 .. MaxRows
Unsettled == {"received", "retry", "processing"}
Settled == {"processed", "dead"}
\* "absent": no such row; "inserted": flushed, its transaction still open.
Statuses == {"absent", "inserted"} \cup Unsettled \cup Settled
Outcomes == {"processed", "retry", "deferred", "dead"}

Row == [msg : Messages \cup {NoMessage}, binding : Bindings \cup {NoBinding},
        status : Statuses, attempt : Nat, due : BOOLEAN, leased : BOOLEAN]
NoRow == [msg |-> NoMessage, binding |-> NoBinding, status |-> "absent",
          attempt |-> 0, due |-> FALSE, leased |-> FALSE]

WorkerState == [pc : {"idle", "claimed", "executing", "finishing"},
                ev : Nat, att : Nat, beat : BOOLEAN,
                out : Outcomes \cup {"none"}]
Idle == [pc |-> "idle", ev |-> 0, att |-> 0, beat |-> FALSE, out |-> "none"]

TypeOK ==
  /\ row \in [Ids -> Row]
  /\ nextId \in 1 .. MaxRows + 1
  /\ wk \in [Workers -> WorkerState]
  /\ \A w \in Workers : wk[w].pc # "idle" => wk[w].ev \in Ids
  /\ bound \in [Sessions -> Bindings \cup {NoBinding}]
  /\ busy \in [Sessions -> BOOLEAN]
  /\ faults \in 0 .. MaxFaults
  /\ requeues \in 0 .. MaxRequeues
  /\ holder \in [Ids -> Workers \cup {NoWorker}]
  /\ requeued \subseteq Ids
  /\ overtaken \subseteq Ids
  /\ spent \in [Ids -> Nat]

Visible(e) == row[e].status \notin {"absent", "inserted"}
SameSession(e, f) == /\ row[e].binding \in Bindings
                     /\ row[f].binding \in Bindings
                     /\ SessionOf[row[e].binding] = SessionOf[row[f].binding]
InFlight(w, e) == wk[w].pc # "idle" /\ wk[w].ev = e

\* Mutant: the attempt number is not compared.
OwnsAnyAttempt(w, e) == row[e].status = "processing"

(***************************************************************************)
(* _locked_owned_model: the row is still PROCESSING under the attempt      *)
(* number the worker's copy was claimed with.                              *)
(***************************************************************************)
Owns(w, e) == row[e].status = "processing" /\ row[e].attempt = wk[w].att

Init ==
  /\ row = [e \in Ids |-> NoRow]
  /\ nextId = 1
  /\ wk = [w \in Workers |-> Idle]
  /\ bound \in {b \in [Sessions -> Bindings \cup {NoBinding}] :
                  \A s \in Sessions : b[s] \in Bindings => SessionOf[b[s]] = s}
  /\ busy = [s \in Sessions |-> FALSE]
  /\ faults = 0
  /\ requeues = 0
  /\ holder = [e \in Ids |-> NoWorker]
  /\ requeued = {}
  /\ overtaken = {}
  /\ spent = [e \in Ids |-> 0]

-----------------------------------------------------------------------------
(* Accepting a message                                                     *)

\* Mutant: only committed rows count as duplicates (no unique key).
InsertUnkeyed(m, b) ==
  /\ nextId <= MaxRows
  /\ \A e \in Ids : Visible(e) => row[e].msg # m
  /\ row' = [row EXCEPT ![nextId] =
               [msg |-> m, binding |-> b, status |-> "inserted",
                attempt |-> 0, due |-> TRUE, leased |-> FALSE]]
  /\ nextId' = nextId + 1
  /\ UNCHANGED <<wk, environment, faults, requeues, history>>

(***************************************************************************)
(* accept_inbound / accept: the listener's copy of the binding (b, perhaps *)
(* stale) supplies the session.  A committed duplicate is found by the     *)
(* SELECT; an uncommitted one holds the unique key, so the INSERT waits    *)
(* for it and then fails as a duplicate or goes ahead.                     *)
(***************************************************************************)
Insert(m, b) ==
  /\ nextId <= MaxRows
  /\ \A e \in Ids : row[e].status # "absent" => row[e].msg # m
  /\ row' = [row EXCEPT ![nextId] =
               [msg |-> m, binding |-> b, status |-> "inserted",
                attempt |-> 0, due |-> TRUE, leased |-> FALSE]]
  /\ nextId' = nextId + 1
  /\ UNCHANGED <<wk, environment, faults, requeues, history>>

\* The transaction that accepted the row commits: workers can see it.
CommitInsert(e) ==
  /\ row[e].status = "inserted"
  /\ row' = [row EXCEPT ![e].status = "received"]
  /\ overtaken' = IF \E f \in Ids : f > e /\ Visible(f) /\ SameSession(e, f)
                  THEN overtaken \cup {e} ELSE overtaken
  /\ UNCHANGED <<nextId, wk, environment, faults, requeues,
                 holder, requeued, spent>>

\* It fails instead: the id is used up and the listener may try again.
RollbackInsert(e) ==
  /\ row[e].status = "inserted"
  /\ row' = [row EXCEPT ![e] = NoRow]
  /\ UNCHANGED <<nextId, wk, environment, faults, requeues, history>>

-----------------------------------------------------------------------------
(* One iteration of an inbox worker                                        *)

\* Mutant: a claim whose lease ran out is never taken up again.
ProcessableFresh(e) == row[e].status \in {"received", "retry"} /\ row[e].due

Processable(e) ==
  \/ row[e].status \in {"received", "retry"} /\ row[e].due
  \/ row[e].status = "processing" /\ ~row[e].leased

\* Mutant: a row in backoff does not hold up its session.
HeadIgnoringRetries(e) ==
  \A f \in Ids : f < e /\ SameSession(f, e) =>
    row[f].status \notin {"received", "processing"}

\* No visible row of the session with a smaller id is still unsettled.
HeadOfSession(e) ==
  \A f \in Ids : f < e /\ SameSession(f, e) => row[f].status \notin Unsettled

\* ImInboxEvent.claim
Claimed(r) == [r EXCEPT !.status = "processing", !.attempt = r.attempt + 1,
                        !.leased = TRUE]

(***************************************************************************)
(* claim_next + ImInboxEvent.claim, committed.  Rows another transaction   *)
(* has locked are skipped, so any session's head can be the one returned.  *)
(***************************************************************************)
Claim(w, e) ==
  /\ wk[w].pc = "idle"
  /\ Processable(e)
  /\ HeadOfSession(e)
  /\ row' = [row EXCEPT ![e] = Claimed(row[e])]
  /\ wk' = [wk EXCEPT ![w] = [pc |-> "claimed", ev |-> e,
                              att |-> row[e].attempt + 1,
                              beat |-> TRUE, out |-> "none"]]
  /\ holder' = [holder EXCEPT ![e] = w]
  /\ spent' = [spent EXCEPT ![e] = IF row[e].status = "processing"
                                   THEN @ + 1 ELSE @]
  /\ UNCHANGED <<nextId, environment, faults, requeues, requeued, overtaken>>

\* _execute_claimed_inbox returns outcome o; the heartbeat is cancelled.
Ended(c, o) == [c EXCEPT !.pc = "finishing", !.beat = FALSE, !.out = o]

(***************************************************************************)
(* The binding check that opens _execute_claimed_inbox.                    *)
(***************************************************************************)
CheckBinding(w) ==
  /\ wk[w].pc = "claimed"
  /\ LET b == row[wk[w].ev].binding
     IN  IF bound[SessionOf[b]] = b
         THEN wk' = [wk EXCEPT ![w].pc = "executing"]
         ELSE wk' = [wk EXCEPT ![w] = Ended(wk[w], "dead")]
  /\ UNCHANGED <<row, nextId, environment, faults, requeues, history>>

(***************************************************************************)
(* process_inbound_event returns or raises.                                *)
(* Only a running session yields SessionBusyError; it can also hand the    *)
(* message to a pending permission request (PROCESSED).  Anything else is  *)
(* PROCESSED or an exception, which is a RETRY.  Nothing in it touches the *)
(* inbox table, so the lease-lost branch (outcome None) is unreachable.    *)
(***************************************************************************)
Execute(w) ==
  /\ wk[w].pc = "executing"
  /\ LET s == SessionOf[row[wk[w].ev].binding]
     IN  \E o \in {"processed", "retry"}
                    \cup (IF busy[s] THEN {"deferred"} ELSE {}) :
           wk' = [wk EXCEPT ![w] = Ended(wk[w], o)]
  /\ UNCHANGED <<row, nextId, environment, faults, requeues, history>>

(***************************************************************************)
(* What _finish_inbox writes over row r for a worker whose copy was        *)
(* claimed as attempt a.                                                   *)
(***************************************************************************)
Requeuing(r, a) == [r EXCEPT !.status = "retry", !.attempt = a,
                             !.due = FALSE, !.leased = FALSE]
Final(r, a, status) == [r EXCEPT !.status = status, !.attempt = a,
                                 !.leased = FALSE]
\* Mutant: a deferral spends the attempt.
OutcomeDeferralSpends(r, a, o) ==
  CASE o = "processed" -> Final(r, a, "processed")
    [] o = "deferred" -> Requeuing(r, a)
    [] o = "retry" /\ a < MaxAttempts -> Requeuing(r, a)
    [] OTHER -> Final(r, a, "dead")
\* Mutant: a deferral hands back more than the attempt it was claimed with.
OutcomeOverRefund(r, a, o) ==
  CASE o = "processed" -> Final(r, a, "processed")
    [] o = "deferred" -> Requeuing(r, a - 2)
    [] o = "retry" /\ a < MaxAttempts -> Requeuing(r, a)
    [] OTHER -> Final(r, a, "dead")
Outcome(r, a, o) ==
  CASE o = "processed" -> Final(r, a, "processed")
    [] o = "deferred" -> Requeuing(r, a - 1)
    [] o = "retry" /\ a < MaxAttempts -> Requeuing(r, a)
    [] OTHER -> Final(r, a, "dead")

(***************************************************************************)
(* _finish_inbox: the write-back, or nothing after ImDeliveryLeaseLost.    *)
(***************************************************************************)
Finish(w) ==
  /\ wk[w].pc = "finishing"
  /\ LET e == wk[w].ev
     IN  IF Owns(w, e)
         THEN /\ row' = [row EXCEPT ![e] = Outcome(@, wk[w].att, wk[w].out)]
              /\ spent' = [spent EXCEPT ![e] =
                             IF wk[w].out = "retry" THEN @ + 1 ELSE @]
         ELSE UNCHANGED <<row, spent>>
  /\ wk' = [wk EXCEPT ![w] = Idle]
  /\ UNCHANGED <<nextId, environment, faults, requeues,
                 holder, requeued, overtaken>>

\* The write-back raises (database error): _run_inbox logs it and goes on.
FinishFails(w) ==
  /\ wk[w].pc = "finishing"
  /\ faults < MaxFaults
  /\ faults' = faults + 1
  /\ wk' = [wk EXCEPT ![w] = Idle]
  /\ UNCHANGED <<row, nextId, environment, requeues, history>>

(***************************************************************************)
(* _keep_inbox_lease_alive: renew the lease of an owned row, even one that *)
(* has run out but was not reclaimed; stop when the lease is lost.         *)
(***************************************************************************)
Heartbeat(w) ==
  /\ wk[w].beat
  /\ LET e == wk[w].ev
     IN  IF Owns(w, e)
         THEN /\ row' = [row EXCEPT ![e].leased = TRUE]
              /\ UNCHANGED wk
         ELSE /\ wk' = [wk EXCEPT ![w].beat = FALSE]
              /\ UNCHANGED row
  /\ UNCHANGED <<nextId, environment, faults, requeues, history>>

-----------------------------------------------------------------------------
(* Time, faults and the rest of the system                                 *)

HasLiveOwner(e) == \E w \in Workers : InFlight(w, e) /\ Owns(w, e)

\* The lease of a row nobody works on any more runs out.
OrphanLeaseExpires(e) ==
  /\ row[e].status = "processing" /\ row[e].leased
  /\ ~HasLiveOwner(e)
  /\ row' = [row EXCEPT ![e].leased = FALSE]
  /\ UNCHANGED <<nextId, wk, environment, faults, requeues, history>>

(***************************************************************************)
(* The lease runs out under a worker that still processes the event: its   *)
(* renewals failed for a whole lease, the host was suspended, or the       *)
(* write-back took that long.                                              *)
(***************************************************************************)
LiveLeaseExpires(e) ==
  /\ row[e].status = "processing" /\ row[e].leased
  /\ HasLiveOwner(e)
  /\ faults < MaxFaults
  /\ faults' = faults + 1
  /\ row' = [row EXCEPT ![e].leased = FALSE]
  /\ UNCHANGED <<nextId, wk, environment, requeues, history>>

BackoffElapses(e) ==
  /\ row[e].status = "retry" /\ ~row[e].due
  /\ row' = [row EXCEPT ![e].due = TRUE]
  /\ UNCHANGED <<nextId, wk, environment, faults, requeues, history>>

(***************************************************************************)
(* The process dies: its workers, heartbeats and open transactions vanish; *)
(* startup recovery leaves no session running.                             *)
(***************************************************************************)
Crash ==
  /\ \E w \in Workers : wk[w].pc # "idle"
  /\ faults < MaxFaults
  /\ faults' = faults + 1
  /\ wk' = [w \in Workers |-> Idle]
  /\ row' = [e \in Ids |-> IF row[e].status = "inserted" THEN NoRow
                           ELSE row[e]]
  /\ busy' = [s \in Sessions |-> FALSE]
  /\ UNCHANGED <<nextId, bound, requeues, history>>

\* ImInboxEvent.requeue
Revived(r) == [r EXCEPT !.status = "retry", !.attempt = 0,
                        !.due = TRUE, !.leased = FALSE]

\* ImDeliveryMonitor.retry -> requeue: only a dead letter, attempts zeroed.
Requeue(e) ==
  /\ row[e].status = "dead"
  /\ requeues < MaxRequeues
  /\ requeues' = requeues + 1
  /\ row' = [row EXCEPT ![e] = Revived(row[e])]
  /\ requeued' = requeued \cup {e}
  /\ spent' = [spent EXCEPT ![e] = 0]
  /\ UNCHANGED <<nextId, wk, environment, faults, holder, overtaken>>

\* release_deferred_inbox, the engine's on_query_finished callback.
ReleaseDeferred(s) ==
  /\ row' = [e \in Ids |->
               IF /\ row[e].status = "retry"
                  /\ row[e].binding \in Bindings
                  /\ SessionOf[row[e].binding] = s
               THEN [row[e] EXCEPT !.due = TRUE] ELSE row[e]]
  /\ UNCHANGED <<nextId, wk, environment, faults, requeues, history>>

\* The session starts or ends a query of its own (web client, scheduler).
ToggleBusy(s) ==
  /\ busy' = [busy EXCEPT ![s] = ~@]
  /\ UNCHANGED <<row, nextId, wk, bound, faults, requeues, history>>

\* The session is bound to a channel, rebound or unbound.
Rebind(s, b) ==
  /\ b \in Bindings => SessionOf[b] = s
  /\ bound' = [bound EXCEPT ![s] = b]
  /\ UNCHANGED <<row, nextId, wk, busy, faults, requeues, history>>

-----------------------------------------------------------------------------
Accepting ==
  \/ \E m \in Messages, b \in Bindings : Insert(m, b)
  \/ \E e \in Ids : CommitInsert(e)
  \/ \E e \in Ids : RollbackInsert(e)

Working ==
  \/ \E w \in Workers, e \in Ids : Claim(w, e)
  \/ \E w \in Workers : CheckBinding(w)
  \/ \E w \in Workers : Execute(w)
  \/ \E w \in Workers : Finish(w)
  \/ \E w \in Workers : FinishFails(w)
  \/ \E w \in Workers : Heartbeat(w)

Surroundings ==
  \/ \E e \in Ids : OrphanLeaseExpires(e)
  \/ \E e \in Ids : LiveLeaseExpires(e)
  \/ \E e \in Ids : BackoffElapses(e)
  \/ Crash
  \/ \E e \in Ids : Requeue(e)
  \/ \E s \in Sessions : ReleaseDeferred(s)
  \/ \E s \in Sessions : ToggleBusy(s)
  \/ \E s \in Sessions, b \in Bindings \cup {NoBinding} : Rebind(s, b)

Next == Accepting \/ Working \/ Surroundings

Spec == Init /\ [][Next]_vars

(***************************************************************************)
(* Every worker polls at least once a second and never blocks for ever on  *)
(* its own work; claim_next serves the oldest created_at first, so no head *)
(* of a session is passed over for ever; and time passes.  Nothing is      *)
(* assumed of faults, listeners, administrators or the sessions.           *)
(***************************************************************************)
Fairness ==
  /\ \A e \in Ids : /\ WF_vars(\E w \in Workers : Claim(w, e))
                    /\ WF_vars(OrphanLeaseExpires(e))
                    /\ WF_vars(BackoffElapses(e))
  /\ \A w \in Workers : /\ WF_vars(CheckBinding(w))
                        /\ WF_vars(Execute(w))
                        /\ WF_vars(Finish(w))

FairSpec == Spec /\ Fairness

-----------------------------------------------------------------------------
(* Properties                                                              *)

(***************************************************************************)
(* A worker that would pass the ownership check of save and renew_lease is *)
(* the one that claimed the row last, so a stale worker never settles,     *)
(* defers or renews another worker's claim - unless the row was requeued   *)
(* by hand in between (attempt numbers then start over, see                *)
(* StaleWorkerIsRejected).  It rests on attempt numbers growing with every *)
(* claim although defer hands one back.                                    *)
(***************************************************************************)
OwnershipIsExclusive ==
  \A w \in Workers, e \in Ids \ requeued :
    InFlight(w, e) /\ Owns(w, e) => holder[e] = w

(***************************************************************************)
(* Messages of a session are taken in order: while a row is unsettled no   *)
(* later row of its session is being processed or has been settled, except *)
(* when the row came back from DEAD by hand or its transaction committed   *)
(* after a later row's.                                                    *)
(***************************************************************************)
SessionOrder ==
  \A e, f \in Ids :
    /\ e < f
    /\ SameSession(e, f)
    /\ row[e].status \in Unsettled
    /\ row[f].status \in {"processing"} \cup Settled
    => e \in requeued \cup overtaken

(***************************************************************************)
(* The retry budget is exact: the attempt number of an unsettled row       *)
(* counts the attempts that failed or were lost, plus the current one;     *)
(* being deferred by a busy session, any number of times, costs nothing.   *)
(***************************************************************************)
BudgetIsExact ==
  \A e \in Ids :
    row[e].status \in Unsettled =>
      row[e].attempt = spent[e] + (IF row[e].status = "processing" THEN 1 ELSE 0)

(***************************************************************************)
(* A message delivered again by its channel never becomes a second row,    *)
(* even while the first one is still being inserted.                       *)
(***************************************************************************)
OneRowPerMessage ==
  \A e, f \in Ids :
    /\ row[e].status # "absent"
    /\ row[f].status # "absent"
    /\ row[e].msg = row[f].msg
    => e = f

(***************************************************************************)
(* No accepted message is forgotten: if its session is idle from some      *)
(* moment on, a visible row is eventually processed or dead-lettered,      *)
(* whatever crashed, expired or was deferred before.                       *)
(***************************************************************************)
EventuallySettled ==
  \A e \in Ids :
    <>[](\A s \in Sessions : ~busy[s])
      => (row[e].status = "received" ~> row[e].status \in Settled)

(***************************************************************************)
(* "Raised when a stale worker tries to complete a reclaimed delivery"     *)
(* (ImDeliveryLeaseLostError): a worker whose row was reclaimed never      *)
(* passes the ownership check again.                                       *)
(***************************************************************************)
StaleWorkerIsRejected ==
  \A w \in Workers, e \in Ids :
    InFlight(w, e) /\ Owns(w, e) => holder[e] = w
=============================================================================
