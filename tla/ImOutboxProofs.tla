--------------------------- MODULE ImOutboxProofs ---------------------------
(***************************************************************************)
(* What the outbound queue guarantees for any number of messages, workers, *)
(* sessions and faults.  Duplicates: a message's deliveries, the workers   *)
(* about to deliver it and the claims it is still open to never exceed one *)
(* more than the causes (Credit).  Order: while a message waits its turn,  *)
(* nothing behind it in its session has started (InTurn), and a worker     *)
(* that holds it still owns it, unless its lease ran out (Held).           *)
(***************************************************************************)
EXTENDS ImOutbox, FiniteSetTheorems, TLAPS

\* Rows that no id was handed out for, and what a delivery presupposes.
RowsInv ==
  /\ \A e \in Ids : e >= nextId => row[e].status = "absent"
  /\ \A e \in Ids : deliveries[e] > 0 => Visible(e)
  /\ \A e \in Ids, w \in Workers : InFlight(w, e) => Visible(e)

\* A worker that reports a delivery made one, and a row is SENT only then.
SentInv ==
  /\ \A e \in Ids : row[e].status = "sent" => deliveries[e] > 0
  /\ \A w \in Workers : wk[w].pc # "idle" /\ wk[w].out = "sent" =>
                          deliveries[wk[w].ev] > 0

\* Every claim of a message has an attempt of its own.
AttemptsInv ==
  \A e \in Ids \ requeued : \A w \in Workers : InFlight(w, e) =>
    /\ wk[w].att <= row[e].attempt
    /\ \A v \in Workers : InFlight(v, e) /\ wk[v].att = wk[w].att => v = w

\* Workers that may deliver message e before anybody looks at the row again.
Before(e) == {w \in Workers : InFlight(w, e) /\ wk[w].pc \in {"claimed", "sending"}}

\* Its owner will deliver it or mark it SENT.
Minded(e) ==
  \E w \in Workers : /\ InFlight(w, e) /\ Owns(w, e)
                     /\ wk[w].pc \in {"claimed", "sending"} \/ wk[w].out = "sent"

\* Whether the message may be claimed once more as things are.
Open(e) ==
  IF \/ row[e].status \in Settled
     \/ row[e].status = "sending" /\ row[e].leased /\ Minded(e)
  THEN 0 ELSE 1

Credit(e) ==
  /\ IsFiniteSet(Before(e))
  /\ deliveries[e] + Cardinality(Before(e)) + Open(e) <= 1 + causes[e]

CreditInv == \A e \in Ids \ requeued : Credit(e)

\* A worker still owns what it holds, alone and under its lease.
HeldInv ==
  \A e \in Ids \ (requeued \cup outlived) : \A w \in Workers : InFlight(w, e) =>
    /\ Owns(w, e) /\ row[e].leased
    /\ \A v \in Workers : InFlight(v, e) => v = w

\* Nothing behind an unsettled message of the session has started.
Started(f) == \/ deliveries[f] > 0 \/ row[f].status = "sending"
              \/ \E w \in Workers : InFlight(w, f)

InTurn ==
  \A e, f \in Ids : e < f /\ SameSession(e, f) /\ Started(f) =>
    row[e].status \notin Unsettled \/ e \in requeued \cup overtaken \cup outlived

IInv == /\ TypeOK /\ RowsInv /\ SentInv /\ AttemptsInv /\ CreditInv
        /\ HeldInv /\ InTurn /\ DeliveredInOrder

-----------------------------------------------------------------------------
(* Types and rows                                                          *)

\* The outcomes a worker writes leave a row that was visible visible.
LEMMA OutcomeTypes ==
  ASSUME NEW r \in Row, NEW a \in Nat, NEW o
  PROVE  /\ Outcome(r, a, o) \in Row
         /\ Outcome(r, a, o).status \in {"sent", "cancelled", "dead", "retry"}
         /\ Outcome(r, a, o).attempt = a
         /\ ~Outcome(r, a, o).leased
         /\ Outcome(r, a, o).binding = r.binding
         /\ Outcome(r, a, o).status = "sent" => o = "sent"
         /\ Outcome(r, a, o).status = "retry" => o = "retry"
  BY DEF Outcome, Final, Retried, Row, Statuses, Unsettled, Settled

\* A worker moves on with its message, or drops it.
LEMMA WorkerMoves ==
  ASSUME TypeOK, NEW w \in Workers, NEW r \in WorkerState,
         wk' = [wk EXCEPT ![w] = r],
         r.pc # "idle" => wk[w].pc # "idle" /\ r.ev = wk[w].ev
  PROVE  /\ wk' \in [Workers -> WorkerState]
         /\ wk'[w] = r /\ \A v \in Workers \ {w} : wk'[v] = wk[v]
         /\ \A v \in Workers : wk'[v].pc # "idle" =>
              wk[v].pc # "idle" /\ wk'[v].ev = wk[v].ev
  BY DEF TypeOK

\* One row is rewritten.
LEMMA RowMoves ==
  ASSUME TypeOK, NEW e \in Ids, NEW r \in Row, row' = [row EXCEPT ![e] = r]
  PROVE  /\ row' \in [Ids -> Row]
         /\ row'[e] = r /\ \A f \in Ids \ {e} : row'[f] = row[f]
  BY DEF TypeOK

\* The types, with the rows that exist and what they presuppose.
LEMMA TypeStep ==
  ASSUME TypeOK, RowsInv, [Next]_vars
  PROVE  TypeOK' /\ RowsInv'
  <1> USE ConstantsAssumption DEF Ids
  <1>1. ASSUME NEW k \in Keys, NEW b \in Bindings, Enqueue(k, b)
        PROVE  TypeOK' /\ RowsInv'
    <2>1. row' \in [Ids -> Row]
      BY <1>1 DEF Enqueue, TypeOK, Row, Statuses
    <2>2. \A e \in Ids : row'[e] # row[e] =>
            e = nextId /\ row[e].status = "absent"
      BY <1>1 DEF Enqueue, TypeOK, RowsInv
    <2>3. nextId \in Ids /\ row'[nextId].leased = FALSE
      BY <1>1 DEF Enqueue, TypeOK
    <2>4. TypeOK'
      BY <1>1, <2>1, <2>2, <2>3
      DEF Enqueue, TypeOK, bounds, channel, marks
    <2>5. RowsInv'
      BY <1>1, <2>1, <2>2
      DEF Enqueue, RowsInv, TypeOK, Visible, InFlight, channel
    <2> QED  BY <2>4, <2>5
  <1>2. ASSUME NEW e \in Ids, CommitEnqueue(e)
        PROVE  TypeOK' /\ RowsInv'
    <2>1. row' \in [Ids -> Row] /\ overtaken' \subseteq Ids
      BY ZenonT(40), <1>2 DEF CommitEnqueue, TypeOK, Row, Statuses, Unsettled
    <2>2. TypeOK'
      BY SMTT(30), <1>2, <2>1 DEF CommitEnqueue, TypeOK, bounds, channel
    <2>3. RowsInv'
      BY <1>2, <2>1
      DEF CommitEnqueue, RowsInv, TypeOK, Visible, InFlight, channel
    <2> QED  BY <2>2, <2>3
  <1>3. ASSUME NEW e \in Ids, RollbackEnqueue(e)
        PROVE  TypeOK' /\ RowsInv'
    <2>1. row' \in [Ids -> Row] /\ ~NoRow.leased /\ NoRow.status = "absent"
      BY <1>3 DEF RollbackEnqueue, TypeOK, Row, NoRow, Statuses
    <2>2. TypeOK'
      BY <1>3, <2>1 DEF RollbackEnqueue, TypeOK, bounds, channel, marks
    <2>3. RowsInv'
      BY <1>3, <2>1
      DEF RollbackEnqueue, RowsInv, TypeOK, Visible, InFlight, channel
    <2> QED  BY <2>2, <2>3
  <1>4. ASSUME NEW w \in Workers, NEW e \in Ids, Claim(w, e)
        PROVE  TypeOK' /\ RowsInv'
    <2>1. row[e].status \in Unsettled /\ e \in 1 .. nextId - 1
      BY <1>4 DEF Claim, Processable, Unsettled, RowsInv, TypeOK
    <2>2. row' \in [Ids -> Row]
      BY SMTT(30), <1>4 DEF Claim, TypeOK, Row, Statuses, Unsettled
    <2>3. wk' \in [Workers -> WorkerState]
      BY SMTT(30), <1>4 DEF Claim, TypeOK, Row, WorkerState
    <2>4. TypeOK'
      BY <1>4, <2>1, <2>2, <2>3, SMTT(30) DEF Claim, TypeOK, bounds, channel, marks
    <2>5. RowsInv'
      BY SMTT(30), <1>4, <2>1, <2>2, <2>3
      DEF Claim, RowsInv, TypeOK, Visible, InFlight, channel, Unsettled
    <2> QED  BY <2>4, <2>5
  <1>5. ASSUME NEW w \in Workers, CheckBinding(w)
        PROVE  TypeOK' /\ RowsInv'
    <2>1. \/ wk' = [wk EXCEPT ![w] = [wk[w] EXCEPT !.pc = "sending"]]
          \/ wk' = [wk EXCEPT ![w] = [wk[w] EXCEPT !.pc = "finishing",
                                                   !.out = "cancelled"]]
      BY <1>5 DEF CheckBinding, Ends, TypeOK, WorkerState
    <2>2. /\ wk' \in [Workers -> WorkerState]
          /\ \A v \in Workers : wk'[v].pc # "idle" =>
               wk[v].pc # "idle" /\ wk'[v].ev = wk[v].ev
      <3>1. PICK r \in WorkerState : /\ wk' = [wk EXCEPT ![w] = r]
                                     /\ r.ev = wk[w].ev
        <4>1. /\ [wk[w] EXCEPT !.pc = "sending"] \in WorkerState
              /\ [wk[w] EXCEPT !.pc = "sending"].ev = wk[w].ev
          BY DEF TypeOK, WorkerState
        <4>2. /\ [wk[w] EXCEPT !.pc = "finishing", !.out = "cancelled"]
                   \in WorkerState
              /\ [wk[w] EXCEPT !.pc = "finishing",
                               !.out = "cancelled"].ev = wk[w].ev
          BY DEF TypeOK, WorkerState, Outcomes
        <4> QED  BY <2>1, <4>1, <4>2
      <3> QED  BY <1>5, <3>1, WorkerMoves DEF CheckBinding
    <2>3. TypeOK'
      BY <1>5, <2>2 DEF CheckBinding, TypeOK, bounds, channel, marks
    <2>4. RowsInv'
      BY <1>5, <2>2 DEF CheckBinding, RowsInv, Visible, InFlight, channel
    <2> QED  BY <2>3, <2>4
  <1>6. ASSUME NEW w \in Workers, Send(w)
        PROVE  TypeOK' /\ RowsInv'
    <2> DEFINE e == wk[w].ev
    <2>1. PICK o \in Outcomes :
            wk' = [wk EXCEPT ![w] = [wk[w] EXCEPT !.pc = "finishing", !.out = o]]
      BY ZenonT(40), <1>6 DEF Send, Ends, Outcomes, TypeOK, WorkerState
    <2>2. /\ wk' \in [Workers -> WorkerState]
          /\ \A v \in Workers : wk'[v].pc # "idle" =>
               wk[v].pc # "idle" /\ wk'[v].ev = wk[v].ev
      <3> DEFINE r == [wk[w] EXCEPT !.pc = "finishing", !.out = o]
      <3>1. r \in WorkerState /\ r.ev = wk[w].ev
        BY DEF TypeOK, WorkerState
      <3> HIDE DEF r
      <3> QED  BY <1>6, <2>1, <3>1, WorkerMoves DEF Send, r
    <2>3. e \in Ids /\ InFlight(w, e)
      BY <1>6 DEF Send, TypeOK, InFlight
    <2>4. /\ deliveries' \in [Ids -> Nat] /\ late' \subseteq Ids
          /\ \A f \in Ids : deliveries'[f] > 0 => deliveries[f] > 0 \/ f = e
      <3>1. Deliver(e) \/ UNCHANGED channel
        BY <1>6 DEF Send
      <3>2. CASE Deliver(e)
        BY SMTT(30), <2>3, <3>2 DEF Deliver, TypeOK
      <3>3. CASE UNCHANGED channel
        BY <3>3 DEF TypeOK, channel
      <3> QED  BY <3>1, <3>2, <3>3
    <2>5. causes' \in [Ids -> Nat]
      BY SMTT(30), <1>6, <2>3 DEF Send, TypeOK
    <2>6. TypeOK'
      BY <1>6, <2>2, <2>4, <2>5 DEF Send, TypeOK, bounds, marks
    <2>7. RowsInv'
      BY <1>6, <2>2, <2>3, <2>4 DEF Send, RowsInv, Visible, InFlight
    <2> QED  BY <2>6, <2>7
  <1>7. ASSUME NEW w \in Workers, Finish(w)
        PROVE  TypeOK' /\ RowsInv'
    <2> DEFINE e == wk[w].ev
               o == Outcome(row[e], wk[w].att, wk[w].out)
    <2>1. e \in 1 .. nextId - 1 /\ e \in Ids /\ Visible(e)
      BY <1>7 DEF Finish, TypeOK, RowsInv, InFlight
    <2>2. /\ o \in Row
          /\ o.status \in {"sent", "cancelled", "dead", "retry"} /\ ~o.leased
      BY <2>1, OutcomeTypes DEF TypeOK, WorkerState
    <2>3. row' = row \/ row' = [row EXCEPT ![e] = o]
      BY <1>7 DEF Finish
    <2> HIDE DEF o
    <2>4. row' \in [Ids -> Row]
      BY <2>2, <2>3 DEF TypeOK
    <2>5. /\ \A f \in Ids : row'[f].leased => row'[f].status = "sending"
          /\ \A f \in Ids : Visible(f) => Visible(f)'
          /\ \A f \in Ids : f >= nextId => row'[f] = row[f]
      <3>1. CASE row' = row
        BY <3>1 DEF TypeOK, Visible
      <3>2. CASE row' = [row EXCEPT ![e] = o]
        <4>1. row'[e] = o /\ \A f \in Ids \ {e} : row'[f] = row[f]
          BY <2>1, <2>2, <3>2, RowMoves
        <4>2. e < nextId
          BY <2>1 DEF TypeOK
        <4>3. \A f \in Ids : f >= nextId => f # e
          BY <2>1, <4>2 DEF TypeOK
        <4>4. \A f \in Ids : row'[f].leased => row'[f].status = "sending"
          BY <2>1, <2>2, <4>1 DEF TypeOK
        <4>5. \A f \in Ids : Visible(f) => Visible(f)'
          BY <2>1, <2>2, <4>1 DEF Visible
        <4> QED  BY <4>1, <4>3, <4>4, <4>5
      <3> QED  BY <2>3, <3>1, <3>2
    <2>6. wk' \in [Workers -> WorkerState]
      BY <1>7 DEF Finish, TypeOK, Idle, WorkerState
    <2>7. TypeOK'
      BY <1>7, <2>4, <2>5, <2>6
      DEF Finish, TypeOK, Idle, bounds, channel, marks
    <2>8. RowsInv'
      BY <1>7, <2>5, <2>6 DEF Finish, RowsInv, InFlight, Idle, channel, TypeOK
    <2> QED  BY <2>7, <2>8
  <1>8. ASSUME NEW w \in Workers, FinishFails(w)
        PROVE  TypeOK' /\ RowsInv'
    <2>1. wk' = [wk EXCEPT ![w] = [wk[w] EXCEPT !.out = "retry"]]
          \/ wk' = [wk EXCEPT ![w] = Idle]
      BY <1>8 DEF FinishFails
    <2>2. /\ wk' \in [Workers -> WorkerState]
          /\ \A v \in Workers : wk'[v].pc # "idle" =>
               wk[v].pc # "idle" /\ wk'[v].ev = wk[v].ev
      <3>1. PICK r \in WorkerState :
              /\ wk' = [wk EXCEPT ![w] = r]
              /\ r.pc # "idle" => r.ev = wk[w].ev
        <4>1. /\ [wk[w] EXCEPT !.out = "retry"] \in WorkerState
              /\ [wk[w] EXCEPT !.out = "retry"].ev = wk[w].ev
          BY DEF TypeOK, WorkerState, Outcomes
        <4>2. Idle \in WorkerState /\ Idle.pc = "idle"
          BY DEF Idle, WorkerState
        <4> QED  BY <2>1, <4>1, <4>2
      <3> QED  BY <1>8, <3>1, WorkerMoves DEF FinishFails
    <2>3. wk[w].ev \in Ids
      BY <1>8 DEF FinishFails, TypeOK
    <2>4. causes' \in [Ids -> Nat] /\ faults' \in 0 .. MaxFaults
      BY SMTT(30), <1>8, <2>3 DEF FinishFails, TypeOK
    <2>5. TypeOK'
      BY <1>8, <2>2, <2>4 DEF FinishFails, TypeOK, channel, marks
    <2>6. RowsInv'
      BY <1>8, <2>2 DEF FinishFails, RowsInv, Visible, InFlight, channel
    <2> QED  BY <2>5, <2>6
  <1>9. ASSUME NEW e \in Ids,
               OrphanLeaseExpires(e) \/ LiveLeaseExpires(e) \/ BackoffElapses(e)
        PROVE  TypeOK' /\ RowsInv'
    <2>1. /\ row' \in [Ids -> Row]
          /\ \A f \in Ids : row'[f].status = row[f].status
          /\ \A f \in Ids : row'[f].leased => row[f].leased
      <3>1. \/ row' = [row EXCEPT ![e] = [row[e] EXCEPT !.leased = FALSE]]
            \/ row' = [row EXCEPT ![e] = [row[e] EXCEPT !.due = TRUE]]
        BY <1>9 DEF OrphanLeaseExpires, LiveLeaseExpires, BackoffElapses
      <3>2. PICK r \in Row : /\ row' = [row EXCEPT ![e] = r]
                             /\ r.status = row[e].status
                             /\ r.leased => row[e].leased
        <4>1. /\ [row[e] EXCEPT !.leased = FALSE] \in Row
              /\ [row[e] EXCEPT !.leased = FALSE].status = row[e].status
              /\ ~[row[e] EXCEPT !.leased = FALSE].leased
          BY DEF TypeOK, Row
        <4>2. /\ [row[e] EXCEPT !.due = TRUE] \in Row
              /\ [row[e] EXCEPT !.due = TRUE].status = row[e].status
              /\ [row[e] EXCEPT !.due = TRUE].leased = row[e].leased
          BY ZenonT(40) DEF TypeOK, Row
        <4> QED  BY <3>1, <4>1, <4>2
      <3> QED  BY <3>2, RowMoves
    <2>2. /\ causes' \in [Ids -> Nat] /\ outlived' \subseteq Ids
          /\ faults' \in 0 .. MaxFaults
          /\ UNCHANGED <<nextId, wk, bound, requeues, channel, requeued,
                         overtaken>>
      <3>1. CASE LiveLeaseExpires(e)
        BY SMTT(30), <3>1 DEF LiveLeaseExpires, TypeOK
      <3>2. CASE OrphanLeaseExpires(e) \/ BackoffElapses(e)
        BY <3>2 DEF OrphanLeaseExpires, BackoffElapses, TypeOK, bounds, marks
      <3> QED  BY <1>9, <3>1, <3>2
    <2>3. TypeOK'
      BY <2>1, <2>2 DEF TypeOK, channel
    <2>4. RowsInv'
      BY <2>1, <2>2 DEF RowsInv, Visible, InFlight, channel
    <2> QED  BY <2>3, <2>4
  <1>10. ASSUME Crash
         PROVE  TypeOK' /\ RowsInv'
    <2>1. /\ row' \in [Ids -> Row]
          /\ \A e \in Ids : row'[e].leased => row'[e].status = "sending"
          /\ \A e \in Ids : Visible(e) => row'[e] = row[e]
          /\ \A e \in Ids : row[e].status = "absent" => row'[e] = row[e]
      BY <1>10 DEF Crash, TypeOK, NoRow, Row, Statuses, Visible
    <2>2. /\ wk' \in [Workers -> WorkerState]
          /\ \A w \in Workers : wk'[w].pc = "idle"
      BY <1>10 DEF Crash, Idle, WorkerState
    <2>3. causes' \in [Ids -> Nat] /\ faults' \in 0 .. MaxFaults
      BY <1>10 DEF Crash, TypeOK
    <2>4. TypeOK'
      BY <1>10, <2>1, <2>2, <2>3 DEF Crash, TypeOK, channel, marks
    <2>5. RowsInv'
      BY <1>10, <2>1, <2>2 DEF Crash, RowsInv, Visible, InFlight, channel
    <2> QED  BY <2>4, <2>5
  <1>11. ASSUME NEW e \in Ids, Requeue(e)
         PROVE  TypeOK' /\ RowsInv'
    <2>1. /\ row' \in [Ids -> Row]
          /\ \A f \in Ids : Visible(f)' <=> Visible(f)
          /\ \A f \in Ids : row'[f].leased => row'[f].status = "sending"
          /\ \A f \in Ids : row[f].status = "absent" => row'[f] = row[f]
      <3> DEFINE r == [row[e] EXCEPT !.status = "retry", !.attempt = 0,
                                     !.due = TRUE]
      <3>1. /\ r \in Row /\ r.status = "retry" /\ r.leased = row[e].leased
            /\ row' = [row EXCEPT ![e] = r]
        BY ZenonT(40), <1>11 DEF Requeue, TypeOK, Row, Statuses, Unsettled
      <3>2. row[e].status \in {"dead", "cancelled"}
        BY <1>11 DEF Requeue
      <3> HIDE DEF r
      <3> QED  BY <3>1, <3>2, RowMoves DEF TypeOK, Visible
    <2>2. requeues' \in 0 .. MaxRequeues
      BY <1>11 DEF Requeue, TypeOK
    <2>3. TypeOK'
      BY <1>11, <2>1, <2>2 DEF Requeue, TypeOK, channel
    <2>4. RowsInv'
      BY <1>11, <2>1 DEF Requeue, RowsInv, Visible, InFlight, channel
    <2> QED  BY <2>3, <2>4
  <1>12. ASSUME NEW s \in Sessions, NEW b \in Bindings \cup {NoBinding},
                Rebind(s, b)
         PROVE  TypeOK' /\ RowsInv'
    BY <1>12 DEF Rebind, TypeOK, RowsInv, Visible, InFlight, bounds, channel,
                 marks
  <1>13. CASE UNCHANGED vars
    BY <1>13 DEF vars, TypeOK, RowsInv, Visible, InFlight, bounds, channel,
                 marks
  <1> QED
    BY <1>1, <1>2, <1>3, <1>4, <1>5, <1>6, <1>7, <1>8, <1>9, <1>10, <1>11,
       <1>12, <1>13
    DEF Next, Enqueueing, Working, Surroundings

-----------------------------------------------------------------------------
(* What the steps do, field by field                                       *)

\* The worker's copy is of the row's new attempt.
LEMMA ClaimDoes ==
  ASSUME TypeOK, NEW w \in Workers, NEW e \in Ids, Claim(w, e)
  PROVE  /\ wk[w].pc = "idle" /\ wk'[w].pc = "claimed" /\ wk'[w].ev = e
         /\ wk'[w].att = row[e].attempt + 1 /\ wk'[w].out = "none"
         /\ row'[e].status = "sending" /\ row'[e].leased
         /\ row'[e].attempt = row[e].attempt + 1
         /\ row'[e].binding = row[e].binding
         /\ \A v \in Workers \ {w} : wk'[v] = wk[v]
         /\ \A f \in Ids \ {e} : row'[f] = row[f]
         /\ UNCHANGED <<nextId, deliveries, late, causes, requeued, overtaken,
                        outlived>>
  BY DEF Claim, TypeOK, Row, WorkerState, channel, marks

\* Whatever it finds, the worker keeps its message and writes no row.
LEMMA CheckDoes ==
  ASSUME TypeOK, NEW w \in Workers, CheckBinding(w)
  PROVE  /\ wk[w].pc = "claimed"
         /\ wk'[w].ev = wk[w].ev /\ wk'[w].att = wk[w].att
         /\ \/ wk'[w].pc = "sending" /\ wk'[w].out = wk[w].out
            \/ wk'[w].pc = "finishing" /\ wk'[w].out = "cancelled"
         /\ \A v \in Workers \ {w} : wk'[v] = wk[v]
         /\ UNCHANGED <<row, nextId, deliveries, late, causes, requeued,
                        overtaken, outlived>>
  BY DEF CheckBinding, Ends, TypeOK, WorkerState, channel, marks

\* Delivered and known to be, delivered and not known to be, or not delivered.
LEMMA SendDoes ==
  ASSUME TypeOK, NEW w \in Workers, Send(w)
  PROVE  /\ wk[w].pc = "sending" /\ wk'[w].pc = "finishing"
         /\ wk'[w].ev = wk[w].ev /\ wk'[w].att = wk[w].att
         /\ \/ /\ wk'[w].out = "sent" /\ Deliver(wk[w].ev)
               /\ causes' = causes
            \/ /\ wk'[w].out = "retry" /\ Deliver(wk[w].ev)
               /\ causes' = [causes EXCEPT ![wk[w].ev] = @ + 1]
            \/ /\ wk'[w].out \in {"retry", "refused", "dead"}
               /\ UNCHANGED <<deliveries, late, causes>>
         /\ \A v \in Workers \ {w} : wk'[v] = wk[v]
         /\ UNCHANGED <<row, nextId, requeued, overtaken, outlived>>
  BY DEF Send, Ends, TypeOK, WorkerState, channel, marks

\* The outcome is written by the row's owner, or dropped.
LEMMA FinishDoes ==
  ASSUME TypeOK, NEW w \in Workers, Finish(w)
  PROVE  LET e == wk[w].ev
         IN  /\ wk[w].pc = "finishing" /\ wk'[w].pc = "idle"
             /\ e \in Ids
             /\ \/ ~Owns(w, e) /\ row' = row
                \/ /\ Owns(w, e)
                   /\ row'[e].status \in {"sent", "cancelled", "dead", "retry"}
                   /\ row'[e].attempt = row[e].attempt
                   /\ ~row'[e].leased
                   /\ row'[e].binding = row[e].binding
                   /\ row'[e].status = "sent" => wk[w].out = "sent"
                   /\ row'[e].status = "retry" => wk[w].out = "retry"
                   /\ \A f \in Ids \ {e} : row'[f] = row[f]
             /\ \A v \in Workers \ {w} : wk'[v] = wk[v]
             /\ UNCHANGED <<nextId, deliveries, late, causes, requeued,
                            overtaken, outlived>>
  <1> DEFINE e == wk[w].ev
             o == Outcome(row[e], wk[w].att, wk[w].out)
  <1>1. e \in Ids /\ wk[w].att \in Nat
    BY ConstantsAssumption DEF Finish, TypeOK, Ids, WorkerState
  <1>2. /\ o \in Row
        /\ o.status \in {"sent", "cancelled", "dead", "retry"}
        /\ o.attempt = wk[w].att /\ ~o.leased
        /\ o.binding = row[e].binding
        /\ o.status = "sent" => wk[w].out = "sent"
        /\ o.status = "retry" => wk[w].out = "retry"
    BY <1>1, OutcomeTypes DEF TypeOK
  <1>3. /\ wk[w].pc = "finishing" /\ wk'[w].pc = "idle"
        /\ \A v \in Workers \ {w} : wk'[v] = wk[v]
        /\ UNCHANGED <<nextId, deliveries, late, causes, requeued, overtaken,
                       outlived>>
    BY DEF Finish, TypeOK, Idle, channel, marks
  <1>4. IF Owns(w, e) THEN row' = [row EXCEPT ![e] = o] ELSE row' = row
    BY DEF Finish
  <1> HIDE DEF o
  <1>5. CASE Owns(w, e)
    <2>1. row'[e] = o /\ \A f \in Ids \ {e} : row'[f] = row[f]
      BY <1>1, <1>2, <1>4, <1>5, RowMoves
    <2>2. row[e].attempt = wk[w].att
      BY <1>5 DEF Owns
    <2> QED  BY <1>1, <1>2, <1>3, <1>5, <2>1, <2>2
  <1>6. CASE ~Owns(w, e)
    BY <1>1, <1>3, <1>4, <1>6
  <1> QED  BY <1>5, <1>6

\* After a send or a changed binding the worker asks for a retry instead.
LEMMA FinishFailsDoes ==
  ASSUME TypeOK, NEW w \in Workers, FinishFails(w)
  PROVE  /\ wk[w].pc = "finishing"
         /\ \/ /\ wk[w].out \in {"sent", "cancelled"}
               /\ wk'[w].pc = "finishing" /\ wk'[w].out = "retry"
               /\ wk'[w].ev = wk[w].ev /\ wk'[w].att = wk[w].att
            \/ wk[w].out # "sent" /\ wk'[w].pc = "idle"
         /\ causes' = [causes EXCEPT ![wk[w].ev] =
                         IF wk[w].out = "sent" THEN @ + 1 ELSE @]
         /\ \A v \in Workers \ {w} : wk'[v] = wk[v]
         /\ UNCHANGED <<row, nextId, deliveries, late, requeued, overtaken,
                        outlived>>
  BY DEF FinishFails, Idle, TypeOK, WorkerState, channel, marks

\* Time changes a row's lease or its date, never its status or its attempt.
LEMMA TimeDoes ==
  ASSUME TypeOK, NEW e \in Ids,
         OrphanLeaseExpires(e) \/ LiveLeaseExpires(e) \/ BackoffElapses(e)
  PROVE  /\ row'[e].status = row[e].status
         /\ row'[e].attempt = row[e].attempt
         /\ row'[e].binding = row[e].binding
         /\ \/ ~row'[e].leased /\ row[e].status = "sending"
            \/ row'[e].leased = row[e].leased /\ row[e].status = "retry"
         /\ \A f \in Ids \ {e} : row'[f] = row[f]
         /\ UNCHANGED <<nextId, wk, deliveries, late, requeued, overtaken>>
  <1>1. CASE OrphanLeaseExpires(e)
    BY <1>1 DEF OrphanLeaseExpires, TypeOK, Row, channel, marks
  <1>2. CASE LiveLeaseExpires(e)
    BY <1>2 DEF LiveLeaseExpires, TypeOK, Row, channel
  <1>3. CASE BackoffElapses(e)
    BY <1>3 DEF BackoffElapses, TypeOK, Row, channel, marks
  <1> QED  BY <1>1, <1>2, <1>3

\* A message put back by hand starts over.
LEMMA RequeueDoes ==
  ASSUME TypeOK, NEW e \in Ids, Requeue(e)
  PROVE  /\ row[e].status \in {"dead", "cancelled"}
         /\ row'[e].status = "retry" /\ row'[e].binding = row[e].binding
         /\ \A f \in Ids \ {e} : row'[f] = row[f]
         /\ requeued' = requeued \cup {e}
         /\ UNCHANGED <<nextId, wk, deliveries, late, causes, overtaken,
                        outlived>>
  BY DEF Requeue, TypeOK, Row, channel

\* A row is inserted, becomes visible, or is taken back.
LEMMA EnqueueingDoes ==
  ASSUME TypeOK, RowsInv, Enqueueing
  PROVE  \E e \in Ids :
           /\ row[e].status \in {"absent", "inserted"}
           /\ \/ row'[e].status \in {"absent", "inserted"}
                 /\ overtaken' = overtaken
              \/ /\ row'[e].status = "pending"
                 /\ row'[e].binding = row[e].binding
                 /\ (\E f \in Ids : f > e /\ Visible(f) /\ SameSession(e, f)) =>
                      overtaken' = overtaken \cup {e}
                 /\ overtaken \subseteq overtaken'
           /\ \A f \in Ids \ {e} : row'[f] = row[f]
           /\ UNCHANGED <<wk, deliveries, late, causes, requeued, outlived>>
  <1>1. ASSUME NEW k \in Keys, NEW b \in Bindings, Enqueue(k, b)
        PROVE  /\ nextId \in Ids /\ row[nextId].status = "absent"
               /\ row'[nextId].status = "inserted"
               /\ \A f \in Ids \ {nextId} : row'[f] = row[f]
               /\ UNCHANGED <<wk, deliveries, late, causes, requeued,
                              overtaken, outlived>>
    BY <1>1, ConstantsAssumption
    DEF Enqueue, TypeOK, RowsInv, Ids, channel, marks
  <1>2. ASSUME NEW e \in Ids, CommitEnqueue(e)
        PROVE  /\ row[e].status = "inserted"
               /\ row'[e].status = "pending"
               /\ row'[e].binding = row[e].binding
               /\ (\E f \in Ids : f > e /\ Visible(f) /\ SameSession(e, f)) =>
                    overtaken' = overtaken \cup {e}
               /\ overtaken \subseteq overtaken'
               /\ \A f \in Ids \ {e} : row'[f] = row[f]
               /\ UNCHANGED <<wk, deliveries, late, causes, requeued, outlived>>
    BY <1>2 DEF CommitEnqueue, TypeOK, Row, channel
  <1>3. ASSUME NEW e \in Ids, RollbackEnqueue(e)
        PROVE  /\ row[e].status = "inserted"
               /\ row'[e].status = "absent"
               /\ \A f \in Ids \ {e} : row'[f] = row[f]
               /\ UNCHANGED <<wk, deliveries, late, causes, requeued,
                              overtaken, outlived>>
    BY <1>3 DEF RollbackEnqueue, TypeOK, NoRow, channel, marks
  <1> QED  BY <1>1, <1>2, <1>3 DEF Enqueueing

-----------------------------------------------------------------------------
(* Reports, attempts and holders                                           *)

\* A message in somebody's hands is one of the rows.
LEMMA HandsHoldIds ==
  ASSUME TypeOK, NEW w \in Workers, wk[w].pc # "idle"
  PROVE  wk[w].ev \in Ids
  BY ConstantsAssumption DEF TypeOK, Ids

\* A report of a delivery is never made without one.
LEMMA SentStep ==
  ASSUME TypeOK, RowsInv, SentInv, [Next]_vars
  PROVE  SentInv'
  <1>1. CASE Enqueueing
    BY <1>1, EnqueueingDoes DEF SentInv
  <1>2. ASSUME NEW w \in Workers, NEW e \in Ids, Claim(w, e)
        PROVE  SentInv'
    BY <1>2, ClaimDoes DEF SentInv
  <1>3. ASSUME NEW w \in Workers, CheckBinding(w)
        PROVE  SentInv'
    BY <1>3, CheckDoes DEF SentInv
  <1>4. ASSUME NEW w \in Workers, Send(w)
        PROVE  SentInv'
    <2> DEFINE e == wk[w].ev
    <2>1. e \in Ids
      BY <1>4, SendDoes, HandsHoldIds
    <2>2. \A f \in Ids : deliveries[f] > 0 => deliveries'[f] > 0
      BY <1>4, <2>1, SendDoes DEF Deliver, TypeOK
    <2>3. wk'[w].out = "sent" => deliveries'[e] > 0
      BY <1>4, <2>1, SendDoes DEF Deliver, TypeOK
    <2>4. \A v \in Workers : wk[v].pc # "idle" => wk[v].ev \in Ids
      BY HandsHoldIds
    <2> QED  BY <1>4, <2>2, <2>3, <2>4, SendDoes DEF SentInv
  <1>5. ASSUME NEW w \in Workers, Finish(w)
        PROVE  SentInv'
    BY <1>5, FinishDoes DEF SentInv
  <1>6. ASSUME NEW w \in Workers, FinishFails(w)
        PROVE  SentInv'
    BY <1>6, FinishFailsDoes DEF SentInv
  <1>7. ASSUME NEW e \in Ids,
               OrphanLeaseExpires(e) \/ LiveLeaseExpires(e) \/ BackoffElapses(e)
        PROVE  SentInv'
    BY <1>7, TimeDoes DEF SentInv
  <1>8. CASE Crash
    BY <1>8 DEF Crash, SentInv, NoRow, Idle, channel
  <1>9. ASSUME NEW e \in Ids, Requeue(e)
        PROVE  SentInv'
    BY <1>9, RequeueDoes DEF SentInv
  <1>10. ASSUME NEW s \in Sessions, NEW b \in Bindings \cup {NoBinding},
                Rebind(s, b)
         PROVE  SentInv'
    BY <1>10 DEF Rebind, SentInv, channel
  <1>11. CASE UNCHANGED vars
    BY <1>11 DEF vars, SentInv, channel
  <1> QED
    BY <1>1, <1>2, <1>3, <1>4, <1>5, <1>6, <1>7, <1>8, <1>9, <1>10, <1>11
    DEF Next, Working, Surroundings

\* A claim takes an attempt that nobody has, and nothing gives it back.
LEMMA AttemptsStep ==
  ASSUME TypeOK, RowsInv, AttemptsInv, [Next]_vars
  PROVE  AttemptsInv'
  <1>t. /\ \A e \in Ids : row[e].attempt \in Nat
        /\ \A w \in Workers : wk[w].att \in Nat \/ wk[w].pc = "idle"
    BY DEF TypeOK, Row, WorkerState
  <1>1. CASE Enqueueing
    BY <1>1, EnqueueingDoes DEF AttemptsInv, InFlight, RowsInv, Visible
  <1>2. ASSUME NEW w \in Workers, NEW e \in Ids, Claim(w, e)
        PROVE  AttemptsInv'
    BY <1>2, <1>t, ClaimDoes DEF AttemptsInv, InFlight
  <1>3. ASSUME NEW w \in Workers, CheckBinding(w)
        PROVE  AttemptsInv'
    BY <1>3, CheckDoes DEF AttemptsInv, InFlight
  <1>4. ASSUME NEW w \in Workers, Send(w)
        PROVE  AttemptsInv'
    BY <1>4, SendDoes DEF AttemptsInv, InFlight
  <1>5. ASSUME NEW w \in Workers, Finish(w)
        PROVE  AttemptsInv'
    BY <1>5, FinishDoes DEF AttemptsInv, InFlight
  <1>6. ASSUME NEW w \in Workers, FinishFails(w)
        PROVE  AttemptsInv'
    BY <1>6, FinishFailsDoes DEF AttemptsInv, InFlight
  <1>7. ASSUME NEW e \in Ids,
               OrphanLeaseExpires(e) \/ LiveLeaseExpires(e) \/ BackoffElapses(e)
        PROVE  AttemptsInv'
    BY <1>7, TimeDoes DEF AttemptsInv, InFlight
  <1>8. CASE Crash
    BY <1>8 DEF Crash, AttemptsInv, InFlight, Idle
  <1>9. ASSUME NEW e \in Ids, Requeue(e)
        PROVE  AttemptsInv'
    BY <1>9, RequeueDoes DEF AttemptsInv, InFlight
  <1>10. ASSUME NEW s \in Sessions, NEW b \in Bindings \cup {NoBinding},
                Rebind(s, b)
         PROVE  AttemptsInv'
    BY <1>10 DEF Rebind, AttemptsInv, InFlight, marks
  <1>11. CASE UNCHANGED vars
    BY <1>11 DEF vars, AttemptsInv, InFlight, marks
  <1> QED
    BY <1>1, <1>2, <1>3, <1>4, <1>5, <1>6, <1>7, <1>8, <1>9, <1>10, <1>11
    DEF Next, Working, Surroundings

\* As long as its lease lasts, a holder is the only one and the owner.
LEMMA HeldStep ==
  ASSUME TypeOK, RowsInv, HeldInv, [Next]_vars
  PROVE  HeldInv'
  <1> USE DEF HeldInv, InFlight, Owns
  <1>1. CASE Enqueueing
    BY <1>1, EnqueueingDoes DEF RowsInv, Visible
  <1>2. ASSUME NEW w \in Workers, NEW e \in Ids, Claim(w, e)
        PROVE  HeldInv'
    <2>1. ~(row[e].status = "sending" /\ row[e].leased)
      BY <1>2 DEF Claim, Processable
    <2> QED  BY <1>2, <2>1, ClaimDoes
  <1>3. ASSUME NEW w \in Workers, CheckBinding(w)
        PROVE  HeldInv'
    BY <1>3, CheckDoes
  <1>4. ASSUME NEW w \in Workers, Send(w)
        PROVE  HeldInv'
    BY <1>4, SendDoes
  <1>5. ASSUME NEW w \in Workers, Finish(w)
        PROVE  HeldInv'
    BY <1>5, FinishDoes
  <1>6. ASSUME NEW w \in Workers, FinishFails(w)
        PROVE  HeldInv'
    BY <1>6, FinishFailsDoes
  <1>7. ASSUME NEW e \in Ids,
               OrphanLeaseExpires(e) \/ LiveLeaseExpires(e) \/ BackoffElapses(e)
        PROVE  HeldInv'
    <2>1. OrphanLeaseExpires(e) => outlived' = outlived /\ ~HasLiveOwner(e)
      BY DEF OrphanLeaseExpires, marks
    <2>2. LiveLeaseExpires(e) => outlived' = outlived \cup {e}
      BY DEF LiveLeaseExpires
    <2>3. BackoffElapses(e) => outlived' = outlived /\ row[e].status = "retry"
      BY DEF BackoffElapses, marks
    <2> QED  BY <1>7, <2>1, <2>2, <2>3, TimeDoes DEF HasLiveOwner
  <1>8. CASE Crash
    BY <1>8 DEF Crash, Idle
  <1>9. ASSUME NEW e \in Ids, Requeue(e)
        PROVE  HeldInv'
    BY <1>9, RequeueDoes
  <1>10. ASSUME NEW s \in Sessions, NEW b \in Bindings \cup {NoBinding},
                Rebind(s, b)
         PROVE  HeldInv'
    BY <1>10 DEF Rebind, marks
  <1>11. CASE UNCHANGED vars
    BY <1>11 DEF vars, marks
  <1> QED
    BY <1>1, <1>2, <1>3, <1>4, <1>5, <1>6, <1>7, <1>8, <1>9, <1>10, <1>11
    DEF Next, Working, Surroundings

-----------------------------------------------------------------------------
(* Order                                                                   *)

\* A step that starts no message and takes none up keeps everyone in turn.
LEMMA NobodyStarts ==
  ASSUME InTurn,
         \A f \in Ids : Started(f)' => Started(f) /\ row'[f].binding = row[f].binding,
         \A e \in Ids : row'[e].status \in Unsettled =>
           \/ row[e].status \in Unsettled /\ row'[e].binding = row[e].binding
           \/ e \in requeued' \cup overtaken' \cup outlived'
           \/ \A f \in Ids : e < f /\ SameSession(e, f)' => ~Started(f)',
         requeued \cup overtaken \cup outlived
           \subseteq requeued' \cup overtaken' \cup outlived'
  PROVE  InTurn'
  BY DEF InTurn, SameSession

\* Everyone waits for the unsettled messages before it.
LEMMA TurnStep ==
  ASSUME TypeOK, RowsInv, InTurn, [Next]_vars
  PROVE  InTurn'
  <1>1. CASE Enqueueing
    <2>1. PICK e \in Ids :
           /\ row[e].status \in {"absent", "inserted"}
           /\ \/ row'[e].status \in {"absent", "inserted"}
                 /\ overtaken' = overtaken
              \/ /\ row'[e].status = "pending"
                 /\ row'[e].binding = row[e].binding
                 /\ (\E f \in Ids : f > e /\ Visible(f) /\ SameSession(e, f)) =>
                      overtaken' = overtaken \cup {e}
                 /\ overtaken \subseteq overtaken'
           /\ \A f \in Ids \ {e} : row'[f] = row[f]
           /\ UNCHANGED <<wk, deliveries, late, causes, requeued, outlived>>
      BY <1>1, EnqueueingDoes
    <2>2. \A f \in Ids : Started(f) => Visible(f)
      BY DEF RowsInv, Started, Visible
    <2>3. ~Started(e)'
      BY <2>1, <2>2 DEF Started, Visible, InFlight
    <2>4. \A f \in Ids \ {e} : Started(f)' => Started(f)
      BY <2>1 DEF Started, InFlight
    <2>5. row'[e].status = "pending" /\ e \notin overtaken' =>
            \A f \in Ids : e < f /\ SameSession(e, f)' => ~Started(f)'
      <3> SUFFICES ASSUME row'[e].status = "pending", e \notin overtaken',
                          NEW f \in Ids, e < f, SameSession(e, f)', Started(f)'
                   PROVE  FALSE
        OBVIOUS
      <3>1. f # e
        BY <2>3
      <3>2. SameSession(e, f) /\ Visible(f)
        BY <2>1, <2>2, <2>4, <3>1 DEF SameSession
      <3>3. e \in Int /\ f \in Int
        BY ConstantsAssumption DEF Ids
      <3> QED  BY <2>1, <3>2, <3>3
    <2> QED  BY <2>1, <2>3, <2>4, <2>5, NobodyStarts DEF Unsettled
  <1>2. ASSUME NEW w \in Workers, NEW e \in Ids, Claim(w, e)
        PROVE  InTurn'
    <2>1. \A f \in Ids : row'[f].binding = row[f].binding
      BY <1>2, ClaimDoes
    <2>2. \A f \in Ids \ {e} : Started(f)' => Started(f)
      BY <1>2, ClaimDoes DEF Started, InFlight
    <2>3. row[e].status \in Unsettled /\ HeadOfSession(e)
      BY <1>2 DEF Claim, Processable, Unsettled
    <2> SUFFICES ASSUME NEW g \in Ids, NEW f \in Ids, g < f,
                        SameSession(g, f), Started(f)',
                        row'[g].status \in Unsettled
                 PROVE  g \in requeued \cup overtaken \cup outlived
      BY <1>2, <2>1, ClaimDoes DEF InTurn, SameSession
    <2>4. row[g].status \in Unsettled
      BY <1>2, <2>3, ClaimDoes
    <2>5. f # e
      BY <2>3, <2>4 DEF HeadOfSession
    <2> QED  BY <2>2, <2>4, <2>5 DEF InTurn
  <1>3. ASSUME NEW w \in Workers, CheckBinding(w)
        PROVE  InTurn'
    <2>1. \A f \in Ids : Started(f)' => Started(f)
      BY <1>3, CheckDoes DEF Started, InFlight
    <2> QED  BY <1>3, <2>1, CheckDoes, NobodyStarts
  <1>4. ASSUME NEW w \in Workers, Send(w)
        PROVE  InTurn'
    <2>1. InFlight(w, wk[w].ev) /\ wk[w].ev \in Ids
      BY <1>4, SendDoes, HandsHoldIds DEF InFlight
    <2>2. \A f \in Ids : deliveries'[f] > 0 => deliveries[f] > 0 \/ f = wk[w].ev
      BY <1>4, <2>1, SendDoes DEF Deliver, TypeOK
    <2>3. \A f \in Ids : Started(f)' => Started(f)
      BY <1>4, <2>1, <2>2, SendDoes DEF Started, InFlight
    <2> QED  BY <1>4, <2>3, SendDoes, NobodyStarts
  <1>5. ASSUME NEW w \in Workers, Finish(w)
        PROVE  InTurn'
    <2> DEFINE e == wk[w].ev
    <2>1. InFlight(w, e) /\ e \in Ids
      BY <1>5, FinishDoes DEF InFlight
    <2>2. \A f \in Ids : Started(f)' => Started(f)
      BY <1>5, <2>1, FinishDoes DEF Started, InFlight
    <2>3. /\ \A f \in Ids : row'[f].binding = row[f].binding
          /\ \A f \in Ids : row'[f].status \in Unsettled =>
                              row[f].status \in Unsettled
      BY <1>5, <2>1, FinishDoes DEF Owns, Unsettled
    <2> QED  BY <1>5, <2>2, <2>3, FinishDoes, NobodyStarts
  <1>6. ASSUME NEW w \in Workers, FinishFails(w)
        PROVE  InTurn'
    <2>1. \A f \in Ids : Started(f)' => Started(f)
      BY <1>6, FinishFailsDoes DEF Started, InFlight
    <2> QED  BY <1>6, <2>1, FinishFailsDoes, NobodyStarts
  <1>7. ASSUME NEW e \in Ids,
               OrphanLeaseExpires(e) \/ LiveLeaseExpires(e) \/ BackoffElapses(e)
        PROVE  InTurn'
    <2>1. \A f \in Ids : row'[f].binding = row[f].binding
                         /\ row'[f].status = row[f].status
      BY <1>7, TimeDoes
    <2>2. \A f \in Ids : Started(f)' => Started(f)
      BY <1>7, <2>1, TimeDoes DEF Started, InFlight
    <2>3. outlived \subseteq outlived'
      BY <1>7 DEF OrphanLeaseExpires, LiveLeaseExpires, BackoffElapses, marks
    <2> QED  BY <1>7, <2>1, <2>2, <2>3, TimeDoes, NobodyStarts
  <1>8. CASE Crash
    <2>1. \A f \in Ids : row'[f] = row[f] \/ row'[f] = NoRow
      BY <1>8 DEF Crash
    <2>2. \A f \in Ids : Visible(f) => row'[f] = row[f]
      BY <1>8 DEF Crash, Visible
    <2>3. \A f \in Ids : Started(f)' => Started(f) /\ Visible(f)
      BY <1>8, <2>1 DEF Crash, Started, InFlight, Idle, NoRow, RowsInv,
                        Visible, channel
    <2>4. \A f \in Ids : row'[f].status \in Unsettled => row'[f] = row[f]
      BY <2>1 DEF NoRow, Unsettled
    <2> QED  BY <1>8, <2>2, <2>3, <2>4, NobodyStarts DEF Crash, marks
  <1>9. ASSUME NEW e \in Ids, Requeue(e)
        PROVE  InTurn'
    <2>1. \A f \in Ids : row'[f].binding = row[f].binding
      BY <1>9, RequeueDoes
    <2>2. \A f \in Ids : Started(f)' => Started(f)
      BY <1>9, RequeueDoes DEF Started, InFlight
    <2> QED  BY <1>9, <2>1, <2>2, RequeueDoes, NobodyStarts
  <1>10. ASSUME NEW s \in Sessions, NEW b \in Bindings \cup {NoBinding},
                Rebind(s, b)
         PROVE  InTurn'
    BY <1>10 DEF Rebind, InTurn, SameSession, Started, InFlight, marks, channel
  <1>11. CASE UNCHANGED vars
    BY <1>11 DEF vars, InTurn, SameSession, Started, InFlight, marks, channel
  <1> QED
    BY <1>1, <1>2, <1>3, <1>4, <1>5, <1>6, <1>7, <1>8, <1>9, <1>10, <1>11
    DEF Next, Working, Surroundings

\* Only an excused message is delivered behind a later one.
LEMMA OrderStep ==
  ASSUME TypeOK, RowsInv, HeldInv, InTurn, DeliveredInOrder, [Next]_vars
  PROVE  DeliveredInOrder'
  <1> USE DEF DeliveredInOrder
  <1>1. CASE Enqueueing
    BY <1>1, EnqueueingDoes
  <1>2. ASSUME NEW w \in Workers, Send(w)
        PROVE  DeliveredInOrder'
    <2> DEFINE e == wk[w].ev
    <2>1. e \in Ids /\ InFlight(w, e)
      BY <1>2, SendDoes, HandsHoldIds DEF InFlight
    <2>2. \/ late' = late
          \/ /\ late' = late \cup {e}
             /\ \E f \in Ids : f > e /\ SameSession(e, f) /\ deliveries[f] > 0
      BY <1>2, SendDoes DEF Deliver
    <2>3. ASSUME NEW f \in Ids, f > e, SameSession(e, f), deliveries[f] > 0
          PROVE  e \in requeued \cup overtaken \cup outlived
      <3>1. Started(f) /\ e < f
        BY <2>1, <2>3, ConstantsAssumption DEF Started, Ids
      <3>2. row[e].status \notin Unsettled
            \/ e \in requeued \cup overtaken \cup outlived
        BY <2>1, <2>3, <3>1 DEF InTurn
      <3>3. row[e].status = "sending" \/ e \in requeued \cup outlived
        BY <2>1 DEF HeldInv, Owns
      <3> QED  BY <3>2, <3>3 DEF Unsettled
    <2> QED  BY <1>2, <2>2, <2>3, SendDoes
  <1>3. ASSUME NEW e \in Ids,
               OrphanLeaseExpires(e) \/ LiveLeaseExpires(e) \/ BackoffElapses(e)
        PROVE  DeliveredInOrder'
    BY <1>3 DEF OrphanLeaseExpires, LiveLeaseExpires, BackoffElapses, marks,
                channel
  <1>4. ASSUME NEW e \in Ids, Requeue(e)
        PROVE  DeliveredInOrder'
    BY <1>4, RequeueDoes
  <1>5. CASE \/ \E w \in Workers, e \in Ids : Claim(w, e)
             \/ \E w \in Workers : CheckBinding(w) \/ Finish(w) \/ FinishFails(w)
             \/ Crash
             \/ \E s \in Sessions, b \in Bindings \cup {NoBinding} : Rebind(s, b)
             \/ UNCHANGED vars
    <2>1. UNCHANGED <<late, requeued, overtaken, outlived>>
      BY <1>5, ClaimDoes, CheckDoes, FinishDoes, FinishFailsDoes
      DEF Crash, Rebind, vars, channel, marks
    <2> QED  BY <2>1
  <1> QED
    BY <1>1, <1>2, <1>3, <1>4, <1>5 DEF Next, Working, Surroundings

-----------------------------------------------------------------------------
(* Duplicates                                                              *)

\* What the account of a message adds up are numbers.
LEMMA CreditTypes ==
  ASSUME TypeOK, NEW e \in Ids, IsFiniteSet(Before(e))
  PROVE  /\ deliveries[e] \in Nat /\ causes[e] \in Nat
         /\ Cardinality(Before(e)) \in Nat /\ Open(e) \in {0, 1}
  BY FS_CardinalityType DEF TypeOK, Open

\* The account of a message that a step does not concern.
LEMMA CreditStays ==
  ASSUME TypeOK, TypeOK', NEW e \in Ids, Credit(e),
         deliveries'[e] = deliveries[e], causes'[e] = causes[e],
         Before(e)' = Before(e), Open(e)' <= Open(e)
  PROVE  Credit(e)'
  <1>1. /\ deliveries[e] \in Nat /\ causes[e] \in Nat
        /\ Cardinality(Before(e)) \in Nat
        /\ Open(e) \in {0, 1} /\ Open(e)' \in {0, 1}
    BY CreditTypes DEF Credit, Open
  <1> QED  BY <1>1 DEF Credit

\* So is everything a worker does to a message that is not in its hands.
LEMMA OthersStay ==
  ASSUME TypeOK, TypeOK', NEW e \in Ids, NEW w \in Workers,
         \A v \in Workers \ {w} : wk'[v] = wk[v],
         ~InFlight(w, e), ~InFlight(w, e)', row'[e] = row[e]
  PROVE  Before(e)' = Before(e) /\ Open(e)' = Open(e)
  <1>1. Before(e)' = Before(e)
    BY DEF Before, InFlight
  <1>2. \A v \in Workers : InFlight(v, e)' => InFlight(v, e) /\ wk'[v] = wk[v]
    BY DEF InFlight
  <1>3. \A v \in Workers : InFlight(v, e) => wk'[v] = wk[v]
    BY DEF InFlight
  <1>4. Minded(e)' = Minded(e)
    BY <1>2, <1>3 DEF Minded, InFlight, Owns
  <1> QED  BY <1>1, <1>4 DEF Open

\* The worker delivers the message, gives it up or hands the blame on.
LEMMA CreditMoves ==
  ASSUME TypeOK, TypeOK', NEW e \in Ids, Credit(e), NEW w \in Before(e),
         Before(e)' = Before(e) \ {w},
         deliveries'[e] + Open(e)' + causes[e]
           <= 1 + deliveries[e] + Open(e) + causes'[e]
  PROVE  Credit(e)'
  <1>1. /\ IsFiniteSet(Before(e)')
        /\ Cardinality(Before(e)') = Cardinality(Before(e)) - 1
    BY FS_RemoveElement DEF Credit
  <1>2. /\ deliveries[e] \in Nat /\ causes[e] \in Nat
        /\ deliveries'[e] \in Nat /\ causes'[e] \in Nat
        /\ Cardinality(Before(e)) \in Nat
        /\ Open(e) \in {0, 1} /\ Open(e)' \in {0, 1}
    BY CreditTypes DEF Credit, Open, TypeOK
  <1>3. deliveries[e] + Cardinality(Before(e)) + Open(e) <= 1 + causes[e]
    BY DEF Credit
  <1>4. deliveries'[e] + Cardinality(Before(e)') + Open(e)' <= 1 + causes'[e]
    BY <1>1, <1>2, <1>3
  <1> QED  BY <1>1, <1>4 DEF Credit

\* The worker was past delivering; a cause pays for a claim it reopens.
LEMMA CreditReopens ==
  ASSUME TypeOK, TypeOK', NEW e \in Ids, Credit(e), Before(e)' = Before(e),
         deliveries'[e] = deliveries[e],
         Open(e)' + causes[e] <= Open(e) + causes'[e]
  PROVE  Credit(e)'
  <1>1. /\ deliveries[e] \in Nat /\ causes[e] \in Nat /\ causes'[e] \in Nat
        /\ Cardinality(Before(e)) \in Nat
        /\ Open(e) \in {0, 1} /\ Open(e)' \in {0, 1}
    BY CreditTypes DEF Credit, Open, TypeOK
  <1> QED  BY <1>1 DEF Credit

\* Taking a message up uses the claim it was open to.
LEMMA ClaimCredit ==
  ASSUME TypeOK, TypeOK', CreditInv, NEW w \in Workers, NEW e \in Ids,
         Claim(w, e)
  PROVE  CreditInv'
  <1>1. ASSUME NEW f \in Ids \ requeued, f # e
        PROVE  Credit(f)'
    <2>1. ~InFlight(w, f) /\ ~InFlight(w, f)'
      BY <1>1, ClaimDoes DEF InFlight
    <2>2. Before(f)' = Before(f) /\ Open(f)' = Open(f)
      BY <1>1, <2>1, ClaimDoes, OthersStay
    <2>3. Open(f) \in {0, 1}
      BY DEF Open
    <2> QED  BY <1>1, <2>2, <2>3, ClaimDoes, CreditStays DEF CreditInv
  <1>2. CASE e \notin requeued
    <2>1. Credit(e)
      BY <1>2 DEF CreditInv
    <2>2. w \notin Before(e) /\ Before(e)' = Before(e) \cup {w}
      BY ClaimDoes DEF Before, InFlight
    <2>3. /\ IsFiniteSet(Before(e)')
          /\ Cardinality(Before(e)') = Cardinality(Before(e)) + 1
      BY <2>1, <2>2, FS_AddElement DEF Credit
    <2>4. Open(e) = 1
      BY DEF Claim, Processable, Open, Settled
    <2>5. Minded(e)'
      BY ClaimDoes DEF Minded, InFlight, Owns
    <2>6. Open(e)' = 0
      BY <2>5, ClaimDoes DEF Open
    <2>7. /\ deliveries[e] \in Nat /\ causes[e] \in Nat
          /\ Cardinality(Before(e)) \in Nat
      BY <2>1, CreditTypes DEF Credit
    <2>8. Credit(e)'
      BY <2>1, <2>3, <2>4, <2>6, <2>7, ClaimDoes DEF Credit
    <2> QED  BY <1>1, <2>8, ClaimDoes DEF CreditInv
  <1>3. CASE e \in requeued
    BY <1>1, <1>3, ClaimDoes DEF CreditInv
  <1> QED  BY <1>2, <1>3

\* A worker with a message leaves the accounts of the others alone.
LEMMA OthersCredit ==
  ASSUME TypeOK, TypeOK', CreditInv, NEW w \in Workers,
         wk[w].pc # "idle", wk'[w].pc = "idle" \/ wk'[w].ev = wk[w].ev,
         \A v \in Workers \ {w} : wk'[v] = wk[v],
         NEW f \in Ids \ requeued, f # wk[w].ev, row'[f] = row[f],
         deliveries'[f] = deliveries[f], causes'[f] = causes[f]
  PROVE  Credit(f)'
  <1>1. ~InFlight(w, f) /\ ~InFlight(w, f)'
    BY DEF InFlight
  <1>2. Before(f)' = Before(f) /\ Open(f)' = Open(f)
    BY <1>1, OthersStay
  <1>3. Open(f) \in {0, 1}
    BY DEF Open
  <1> QED  BY <1>2, <1>3, CreditStays DEF CreditInv

\* A changed binding gives the message up, and perhaps opens it again.
LEMMA CheckCredit ==
  ASSUME TypeOK, TypeOK', CreditInv, NEW w \in Workers, CheckBinding(w),
         NEW e \in Ids, e = wk[w].ev
  PROVE  CreditInv'
  <1>2. \A f \in Ids \ requeued : f # e => Credit(f)'
    BY CheckDoes, OthersCredit
  <1>3. ASSUME e \notin requeued
        PROVE  Credit(e)'
    <2>1. Credit(e) /\ w \in Before(e) /\ InFlight(w, e) /\ InFlight(w, e)'
      BY <1>3, CheckDoes DEF CreditInv, Before, InFlight
    <2>2. Open(e) \in {0, 1} /\ Open(e)' \in {0, 1}
      BY DEF Open
    <2>3. deliveries'[e] = deliveries[e] /\ causes'[e] = causes[e]
      BY CheckDoes
    <2>4. CASE wk'[w].pc = "sending" /\ wk'[w].out = wk[w].out
      <3>1. Before(e)' = Before(e)
        BY <2>1, <2>4, CheckDoes DEF Before, InFlight
      <3>2. Minded(e)' = Minded(e)
        BY <2>1, <2>4, CheckDoes DEF Minded, InFlight, Owns
      <3>3. Open(e)' = Open(e)
        BY <3>2, CheckDoes DEF Open
      <3> QED  BY <2>1, <2>2, <2>3, <3>1, <3>3, CreditStays
    <2>5. CASE wk'[w].pc = "finishing"
      <3>1. Before(e)' = Before(e) \ {w}
        BY <2>1, <2>5, CheckDoes DEF Before, InFlight
      <3>2. deliveries[e] \in Nat /\ causes[e] \in Nat
        BY DEF TypeOK
      <3> QED  BY <2>1, <2>2, <2>3, <3>1, <3>2, CreditMoves
    <2> QED  BY <2>4, <2>5, CheckDoes
  <1> QED  BY <1>2, <1>3, CheckDoes DEF CreditInv

\* A delivery takes the place of the worker that was about to make it.
LEMMA SendCredit ==
  ASSUME TypeOK, TypeOK', CreditInv, NEW w \in Workers, Send(w),
         NEW e \in Ids, e = wk[w].ev
  PROVE  CreditInv'
  <1>2. \A f \in Ids \ requeued : f # e => Credit(f)'
    <2>1. \A f \in Ids : f # e => deliveries'[f] = deliveries[f]
                                  /\ causes'[f] = causes[f]
      BY SendDoes DEF Deliver, TypeOK
    <2> QED  BY <2>1, SendDoes, OthersCredit
  <1>3. ASSUME e \notin requeued
        PROVE  Credit(e)'
    <2>1. Credit(e) /\ w \in Before(e) /\ InFlight(w, e) /\ InFlight(w, e)'
      BY <1>3, SendDoes DEF CreditInv, Before, InFlight
    <2>2. Open(e) \in {0, 1} /\ Open(e)' \in {0, 1}
      BY DEF Open
    <2>3. Before(e)' = Before(e) \ {w}
      BY <2>1, SendDoes DEF Before, InFlight
    <2>4. deliveries[e] \in Nat /\ causes[e] \in Nat
      BY DEF TypeOK
    <2>5. Deliver(e) => deliveries'[e] = deliveries[e] + 1
      BY DEF Deliver, TypeOK
    <2>6. CASE wk'[w].out = "sent" /\ Deliver(e) /\ causes' = causes
      <3>1. Minded(e) => Minded(e)'
        BY <2>1, <2>6, SendDoes DEF Minded, InFlight, Owns
      <3>2. Open(e)' <= Open(e)
        BY <2>2, <3>1, SendDoes DEF Open
      <3> QED  BY <2>1, <2>2, <2>3, <2>4, <2>5, <2>6, <3>2, CreditMoves
    <2>7. CASE Deliver(e) /\ causes' = [causes EXCEPT ![e] = @ + 1]
      <3>1. causes'[e] = causes[e] + 1
        BY <2>7 DEF TypeOK
      <3> QED  BY <2>1, <2>2, <2>3, <2>4, <2>5, <2>7, <3>1, CreditMoves
    <2>8. CASE UNCHANGED <<deliveries, late, causes>>
      BY <2>1, <2>2, <2>3, <2>4, <2>8, CreditMoves
    <2> QED  BY <2>6, <2>7, <2>8, SendDoes
  <1> QED  BY <1>2, <1>3, SendDoes DEF CreditInv

\* What the owner writes closes the message, or it was open already.
LEMMA FinishCredit ==
  ASSUME TypeOK, TypeOK', AttemptsInv, CreditInv, NEW w \in Workers, Finish(w),
         NEW e \in Ids, e = wk[w].ev
  PROVE  CreditInv'
  <1>1. InFlight(w, e)
    BY FinishDoes DEF InFlight
  <1>2. \A f \in Ids \ requeued : f # e => Credit(f)'
    BY FinishDoes, OthersCredit
  <1>3. ASSUME e \notin requeued
        PROVE  Credit(e)'
    <2>1. Credit(e) /\ Before(e)' = Before(e)
      BY <1>1, <1>3, FinishDoes DEF CreditInv, Before, InFlight
    <2>2. Open(e) \in {0, 1} /\ Open(e)' \in {0, 1}
      BY DEF Open
    <2>3. CASE Owns(w, e)
      <3>1. row[e].status = "sending" /\ wk[w].att = row[e].attempt
        BY <2>3 DEF Owns
      <3>2. \A v \in Workers : InFlight(v, e) /\ Owns(v, e) => v = w
        BY <1>1, <1>3, <3>1 DEF AttemptsInv, Owns
      <3>3. wk[w].out = "retry" => ~Minded(e)
        BY <3>2, FinishDoes DEF Minded
      <3>4. row'[e].status = "retry" => Open(e) = 1
        BY <2>3, <3>1, <3>3, FinishDoes DEF Open, Settled
      <3>5. row'[e].status # "retry" => Open(e)' = 0
        BY <2>3, FinishDoes DEF Open, Settled
      <3> QED  BY <1>1, <2>1, <2>2, <3>4, <3>5, FinishDoes, CreditStays
    <2>4. CASE ~Owns(w, e)
      <3>1. Minded(e) => Minded(e)'
        BY <2>4, FinishDoes DEF Minded, InFlight, Owns
      <3>2. row' = row
        BY <2>4, FinishDoes
      <3>3. Open(e)' <= Open(e)
        BY <2>2, <3>1, <3>2 DEF Open
      <3> QED  BY <1>1, <2>1, <3>3, FinishDoes, CreditStays
    <2> QED  BY <2>3, <2>4
  <1> QED  BY <1>2, <1>3, FinishDoes DEF CreditInv

\* A delivery that is not written down is a cause.
LEMMA FinishFailsCredit ==
  ASSUME TypeOK, TypeOK', CreditInv, NEW w \in Workers, FinishFails(w),
         NEW e \in Ids, e = wk[w].ev
  PROVE  CreditInv'
  <1>1. InFlight(w, e)
    BY FinishFailsDoes DEF InFlight
  <1>2. \A f \in Ids \ requeued : f # e => Credit(f)'
    <2>1. \A f \in Ids : f # e => causes'[f] = causes[f]
      BY <1>1, FinishFailsDoes DEF TypeOK
    <2> QED  BY <2>1, FinishFailsDoes, OthersCredit
  <1>3. ASSUME e \notin requeued
        PROVE  Credit(e)'
    <2>1. Credit(e) /\ Before(e)' = Before(e)
      BY <1>1, <1>3, FinishFailsDoes DEF CreditInv, Before, InFlight
    <2>2. Open(e) \in {0, 1} /\ Open(e)' \in {0, 1}
      BY DEF Open
    <2>3. causes[e] \in Nat
      BY <1>1 DEF TypeOK
    <2>4. CASE wk[w].out = "sent"
      <3>1. causes'[e] = causes[e] + 1
        BY <1>1, <2>4, FinishFailsDoes DEF TypeOK
      <3> QED  BY <1>1, <2>1, <2>2, <2>3, <3>1, FinishFailsDoes, CreditReopens
    <2>5. CASE wk[w].out # "sent"
      <3>1. causes'[e] = causes[e]
        BY <1>1, <2>5, FinishFailsDoes DEF TypeOK
      <3>2. Minded(e) => Minded(e)'
        BY <2>5, FinishFailsDoes DEF Minded, InFlight, Owns
      <3>3. Open(e)' <= Open(e)
        BY <2>2, <3>2, FinishFailsDoes DEF Open
      <3> QED  BY <1>1, <2>1, <3>1, <3>3, FinishFailsDoes, CreditStays
    <2> QED  BY <2>4, <2>5
  <1> QED  BY <1>2, <1>3, FinishFailsDoes DEF CreditInv

\* Only a lease that runs out under a worker opens a message, for a cause.
LEMMA TimeCredit ==
  ASSUME TypeOK, TypeOK', CreditInv, NEW e \in Ids,
         OrphanLeaseExpires(e) \/ LiveLeaseExpires(e) \/ BackoffElapses(e)
  PROVE  CreditInv'
  <1>1. \A f \in Ids : /\ Before(f)' = Before(f)
                       /\ row'[f] = row[f] => Open(f)' = Open(f)
    BY TimeDoes DEF Before, Open, Minded, InFlight, Owns
  <1>2. \A f \in Ids : Open(f) \in {0, 1} /\ Open(f)' \in {0, 1}
    BY DEF Open
  <1>3. CASE LiveLeaseExpires(e)
    <2>1. /\ causes'[e] = causes[e] + 1
          /\ \A f \in Ids \ {e} : causes'[f] = causes[f]
      BY <1>3 DEF LiveLeaseExpires, TypeOK
    <2>2. causes[e] \in Nat
      BY DEF TypeOK
    <2>3. e \notin requeued => Credit(e)'
      BY <1>1, <1>2, <2>1, <2>2, TimeDoes, CreditReopens DEF CreditInv
    <2>4. \A f \in Ids \ requeued : f # e => Credit(f)'
      BY <1>1, <1>2, <2>1, TimeDoes, CreditStays DEF CreditInv
    <2> QED  BY <2>3, <2>4, TimeDoes DEF CreditInv
  <1>4. CASE OrphanLeaseExpires(e) \/ BackoffElapses(e)
    <2>1. causes' = causes
      BY <1>4 DEF OrphanLeaseExpires, BackoffElapses
    <2>2. Open(e) = 1
      <3>1. CASE OrphanLeaseExpires(e)
        <4>1. ~Minded(e)
          BY <3>1 DEF OrphanLeaseExpires, HasLiveOwner, Minded
        <4> QED  BY <3>1, <4>1 DEF OrphanLeaseExpires, Open, Settled
      <3>2. CASE BackoffElapses(e)
        BY <3>2 DEF BackoffElapses, Open, Settled
      <3> QED  BY <1>4, <3>1, <3>2
    <2>3. \A f \in Ids : Open(f)' <= Open(f)
      BY <1>1, <1>2, <2>2, TimeDoes
    <2> QED  BY <1>1, <2>1, <2>3, TimeDoes, CreditStays DEF CreditInv
  <1> QED  BY <1>3, <1>4

\* A crash gives up what was about to be delivered; what was is a cause.
LEMMA CrashCredit ==
  ASSUME TypeOK, TypeOK', CreditInv, Crash
  PROVE  CreditInv'
  <1> SUFFICES ASSUME NEW e \in Ids \ requeued
               PROVE  Credit(e)'
    BY DEF CreditInv, Crash, marks
  <1>1. /\ Credit(e) /\ IsFiniteSet(Before(e))
        /\ deliveries[e] \in Nat /\ causes[e] \in Nat
        /\ Cardinality(Before(e)) \in Nat
        /\ Open(e) \in {0, 1} /\ Open(e)' \in {0, 1}
    BY CreditTypes DEF CreditInv, Credit, Open
  <1>2. Before(e)' = {}
    BY DEF Crash, Before, InFlight, Idle
  <1>3. IsFiniteSet(Before(e)') /\ Cardinality(Before(e)') = 0
    BY <1>2, FS_EmptySet
  <1>4. /\ deliveries'[e] = deliveries[e]
        /\ causes'[e] \in {causes[e], causes[e] + 1}
    BY DEF Crash, TypeOK, channel
  <1>5. CASE Before(e) # {}
    <2>1. Cardinality(Before(e)) # 0
      BY <1>1, <1>5, FS_EmptySet
    <2> QED  BY <1>1, <1>3, <1>4, <2>1 DEF Credit
  <1>6. CASE \E w \in Workers : InFlight(w, e) /\ wk[w].out = "sent"
    <2>1. causes'[e] = causes[e] + 1
      BY <1>6 DEF Crash
    <2> QED  BY <1>1, <1>3, <1>4, <2>1 DEF Credit
  <1>7. CASE /\ Before(e) = {}
             /\ ~\E w \in Workers : InFlight(w, e) /\ wk[w].out = "sent"
    <2>1. ~Minded(e)
      BY <1>7 DEF Minded, Before
    <2>2. row'[e].status = row[e].status \/ row[e].status = "inserted"
      BY DEF Crash
    <2>3. Open(e)' <= Open(e)
      BY <1>1, <2>1, <2>2 DEF Open, Settled
    <2> QED  BY <1>1, <1>3, <1>4, <2>3 DEF Credit
  <1> QED  BY <1>5, <1>6, <1>7

\* Deliveries, deliverers and open claims stay within one and the causes.
LEMMA CreditStep ==
  ASSUME TypeOK, TypeOK', RowsInv, AttemptsInv, CreditInv, [Next]_vars
  PROVE  CreditInv'
  <1>1. CASE Enqueueing
    <2>1. PICK e \in Ids :
           /\ row[e].status \in {"absent", "inserted"}
           /\ row'[e].status \in {"absent", "inserted", "pending"}
           /\ \A f \in Ids \ {e} : row'[f] = row[f]
           /\ UNCHANGED <<wk, deliveries, late, causes, requeued, outlived>>
      BY <1>1, EnqueueingDoes
    <2>2. \A f \in Ids : Before(f)' = Before(f)
      BY <2>1 DEF Before, InFlight
    <2>3. \A f \in Ids : Open(f) \in {0, 1} /\ Open(f)' \in {0, 1}
      BY DEF Open
    <2>4. Open(e) = 1
      BY <2>1 DEF Open, Settled
    <2>5. \A f \in Ids \ {e} : Open(f)' = Open(f)
      BY <2>1 DEF Open, Minded, InFlight, Owns
    <2>6. \A f \in Ids : Open(f)' <= Open(f)
      BY <2>3, <2>4, <2>5
    <2> QED  BY <2>1, <2>2, <2>6, CreditStays DEF CreditInv
  <1>2. ASSUME NEW w \in Workers, NEW e \in Ids, Claim(w, e)
        PROVE  CreditInv'
    BY <1>2, ClaimCredit
  <1>3. ASSUME NEW w \in Workers, CheckBinding(w)
        PROVE  CreditInv'
    BY <1>3, CheckDoes, HandsHoldIds, CheckCredit
  <1>4. ASSUME NEW w \in Workers, Send(w)
        PROVE  CreditInv'
    BY <1>4, SendDoes, HandsHoldIds, SendCredit
  <1>5. ASSUME NEW w \in Workers, Finish(w)
        PROVE  CreditInv'
    BY <1>5, FinishDoes, FinishCredit
  <1>6. ASSUME NEW w \in Workers, FinishFails(w)
        PROVE  CreditInv'
    BY <1>6, FinishFailsDoes, HandsHoldIds, FinishFailsCredit
  <1>7. ASSUME NEW e \in Ids,
               OrphanLeaseExpires(e) \/ LiveLeaseExpires(e) \/ BackoffElapses(e)
        PROVE  CreditInv'
    BY <1>7, TimeCredit
  <1>8. CASE Crash
    BY <1>8, CrashCredit
  <1>9. ASSUME NEW e \in Ids, Requeue(e)
        PROVE  CreditInv'
    <2>1. \A f \in Ids \ {e} : Before(f)' = Before(f) /\ Open(f)' = Open(f)
      BY <1>9, RequeueDoes DEF Before, Open, Minded, InFlight, Owns
    <2>2. \A f \in Ids : Open(f) \in {0, 1}
      BY DEF Open
    <2> QED  BY <1>9, <2>1, <2>2, RequeueDoes, CreditStays DEF CreditInv
  <1>10. CASE \/ \E s \in Sessions, b \in Bindings \cup {NoBinding} : Rebind(s, b)
              \/ UNCHANGED vars
    <2>1. UNCHANGED <<row, wk, deliveries, causes, requeued>>
      BY <1>10 DEF Rebind, vars, channel, marks
    <2>2. \A f \in Ids : Before(f)' = Before(f) /\ Open(f)' = Open(f)
      BY <2>1 DEF Before, Open, Minded, InFlight, Owns
    <2>3. \A f \in Ids : Open(f) \in {0, 1}
      BY DEF Open
    <2> QED  BY <2>1, <2>2, <2>3, CreditStays DEF CreditInv
  <1> QED
    BY <1>1, <1>2, <1>3, <1>4, <1>5, <1>6, <1>7, <1>8, <1>9, <1>10
    DEF Next, Working, Surroundings

-----------------------------------------------------------------------------
(* The invariant and what it says                                          *)

\* An empty table with idle workers.
LEMMA Initially == Init => IInv
  <1> SUFFICES ASSUME Init
               PROVE  IInv
    OBVIOUS
  <1>1. TypeOK
    BY ConstantsAssumption
    DEF Init, TypeOK, Ids, NoRow, Row, Statuses, Idle, WorkerState
  <1>2. CreditInv
    <2> SUFFICES ASSUME NEW e \in Ids
                 PROVE  Credit(e)
      BY DEF CreditInv
    <2>1. Before(e) = {}
      BY DEF Init, Before, InFlight, Idle
    <2>2. IsFiniteSet(Before(e)) /\ Cardinality(Before(e)) = 0
      BY <2>1, FS_EmptySet
    <2>3. Open(e) = 1
      BY DEF Init, Open, NoRow, Settled
    <2>4. deliveries[e] = 0 /\ causes[e] = 0
      BY DEF Init
    <2> QED  BY <2>2, <2>3, <2>4 DEF Credit
  <1>3. InTurn
    BY DEF Init, InTurn, NoRow, Unsettled
  <1>4. RowsInv /\ SentInv /\ AttemptsInv /\ HeldInv /\ DeliveredInOrder
    BY DEF Init, RowsInv, SentInv, AttemptsInv, HeldInv, DeliveredInOrder,
           InFlight, NoRow, Idle
  <1> QED  BY <1>1, <1>2, <1>3, <1>4 DEF IInv

(***************************************************************************)
(* The inductive invariant: rows and reports agree, claims have attempts   *)
(* of their own, the account of every message balances, a holder under its *)
(* lease is alone, and what has started has nothing unsettled before it.   *)
(***************************************************************************)
THEOREM Invariance == Spec => []IInv
  <1>1. Init => IInv
    BY Initially
  <1>2. IInv /\ [Next]_vars => IInv'
    <2> SUFFICES ASSUME IInv, [Next]_vars
                 PROVE  IInv'
      OBVIOUS
    <2>1. TypeOK' /\ RowsInv'
      BY TypeStep DEF IInv
    <2>2. SentInv' /\ AttemptsInv' /\ HeldInv'
      BY SentStep, AttemptsStep, HeldStep DEF IInv
    <2>3. InTurn' /\ DeliveredInOrder'
      BY TurnStep, OrderStep DEF IInv
    <2>4. CreditInv'
      BY <2>1, CreditStep DEF IInv
    <2> QED  BY <2>1, <2>2, <2>3, <2>4 DEF IInv
  <1> QED  BY <1>1, <1>2, PTL DEF Spec

\* Types hold for every number of rows, workers and faults.
THEOREM TypeCorrect == Spec => []TypeOK
  <1>1. IInv => TypeOK
    BY DEF IInv
  <1> QED  BY <1>1, Invariance, PTL

\* A SENT message was delivered, and every delivery but one has a cause.
THEOREM DuplicatesAreExplained == Spec => []DuplicatesHaveACause
  <1>1. IInv => DuplicatesHaveACause
    <2> SUFFICES ASSUME IInv, NEW e \in Ids \ requeued
                 PROVE  /\ row[e].status = "sent" => deliveries[e] > 0
                        /\ deliveries[e] <= 1 + causes[e]
      BY DEF DuplicatesHaveACause
    <2>1. TypeOK /\ Credit(e)
      BY DEF IInv, CreditInv
    <2>2. /\ deliveries[e] \in Nat /\ causes[e] \in Nat
          /\ Cardinality(Before(e)) \in Nat /\ Open(e) \in {0, 1}
      BY <2>1, CreditTypes DEF Credit
    <2>3. deliveries[e] <= 1 + causes[e]
      BY <2>1, <2>2 DEF Credit
    <2> QED  BY <2>3 DEF IInv, SentInv
  <1> QED  BY <1>1, Invariance, PTL

\* Whatever workers interleave, a session's messages go out in order.
THEOREM OrderIsKept == Spec => []DeliveredInOrder
  <1>1. IInv => DeliveredInOrder
    BY DEF IInv
  <1> QED  BY <1>1, Invariance, PTL
=============================================================================
