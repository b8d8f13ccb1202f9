---------------------------- MODULE ImInboxProofs ----------------------------
(***************************************************************************)
(* What holds of the inbound queue for any number of workers, messages,    *)
(* sessions, rows, faults and manual retries.                              *)
(*                                                                         *)
(* OwnershipIsExclusive is not inductive: it says nothing of a worker that *)
(* lost its row.  Leases adds that such a worker's attempt number is       *)
(* behind the row's, and stays behind when defer hands an attempt back,    *)
(* because the deferring owner's number is itself ahead of every stale one.*)
(***************************************************************************)
EXTENDS ImInbox, TLAPS

\* Ids are handed out in order; rows are committed before they are claimed.
Allocation ==
  /\ \A e \in Ids : e >= nextId => row[e].status = "absent"
  /\ \A w \in Workers, e \in Ids :
       InFlight(w, e) =>
         row[e].status \in {"retry", "processing", "processed", "dead"}
  /\ \A e \in Ids : ~Visible(e) => row[e].attempt = 0 /\ spent[e] = 0

\* The last claimer still owns the row; everybody else is behind it.
Leases ==
  \A w \in Workers, e \in Ids \ requeued :
    InFlight(w, e) =>
      IF holder[e] = w
      THEN row[e].status = "processing" /\ row[e].attempt = wk[w].att
      ELSE /\ row[e].status = "processing" => wk[w].att < row[e].attempt
           /\ row[e].status = "retry" => wk[w].att <= row[e].attempt

\* A claim is at least the first attempt, and ends with an outcome.
ClaimsCount == \A w \in Workers : wk[w].pc # "idle" => wk[w].att >= 1
FinishingHasOutcome ==
  \A w \in Workers : wk[w].pc = "finishing" => wk[w].out \in Outcomes

-----------------------------------------------------------------------------
(***************************************************************************)
(* What a write-back leaves in a row: any outcome of a claimed attempt is  *)
(* a row again, and only status, attempt, due and leased change.           *)
(***************************************************************************)
LEMMA OutcomeType ==
  ASSUME NEW r \in Row, NEW a \in Nat, a >= 1, NEW o \in Outcomes
  PROVE  LET x == Outcome(r, a, o)
         IN  /\ x \in Row
             /\ x.msg = r.msg
             /\ x.binding = r.binding
             /\ x.status \in {"processed", "retry", "dead"}
             /\ x.status = "retry" =>
                  \/ o = "deferred" /\ x.attempt = a - 1
                  \/ o = "retry" /\ x.attempt = a
<1> DEFINE x == Outcome(r, a, o)
<1> USE ConstantsAssumption
<1>1. CASE x = Final(r, a, "processed")
  BY <1>1 DEF Final, Row, Statuses, Settled
<1>2. CASE x = Final(r, a, "dead")
  BY <1>2 DEF Final, Row, Statuses, Settled
<1>3. CASE o = "deferred" /\ x = Requeuing(r, a - 1)
  <2>1. a - 1 \in Nat
    OBVIOUS
  <2>2. QED
    BY <1>3, <2>1 DEF Requeuing, Row, Statuses, Unsettled
<1>4. CASE o = "retry" /\ x = Requeuing(r, a)
  BY <1>4 DEF Requeuing, Row, Statuses, Unsettled
<1>5. QED
  BY <1>1, <1>2, <1>3, <1>4 DEF Outcome, Outcomes

\* The other ways a row is rewritten give rows.
LEMMA RowUpdates ==
  ASSUME NEW r \in Row
  PROVE  /\ Claimed(r) \in Row
         /\ Revived(r) \in Row
         /\ [r EXCEPT !.due = TRUE] \in Row
         /\ \A b \in BOOLEAN : [r EXCEPT !.leased = b] \in Row
         /\ [r EXCEPT !.status = "received"] \in Row
<1>1. r.attempt + 1 \in Nat
  BY DEF Row
<1>2. Claimed(r) \in Row
  BY <1>1 DEF Claimed, Row, Statuses, Unsettled
<1>3. Revived(r) \in Row
  BY DEF Revived, Row, Statuses, Unsettled
<1>4. [r EXCEPT !.due = TRUE] \in Row
  BY DEF Row
<1>5. \A b \in BOOLEAN : [r EXCEPT !.leased = b] \in Row
  BY DEF Row
<1>6. [r EXCEPT !.status = "received"] \in Row
  BY DEF Row, Statuses, Unsettled
<1>7. QED
  BY <1>2, <1>3, <1>4, <1>5, <1>6

(***************************************************************************)
(* The table, the workers and the history keep their types.                *)
(***************************************************************************)
LEMMA TypeInit == Init => TypeOK
BY ConstantsAssumption
   DEF Init, TypeOK, Ids, Row, NoRow, Statuses, WorkerState, Idle, Outcomes

\* Every step of a listener, a worker or the surroundings keeps the types.
LEMMA TypeStep ==
  TypeOK /\ ClaimsCount /\ FinishingHasOutcome /\ [Next]_vars => TypeOK'
<1> SUFFICES ASSUME TypeOK, ClaimsCount, FinishingHasOutcome, [Next]_vars
             PROVE  TypeOK'
  OBVIOUS
<1> USE ConstantsAssumption
<1>1. ASSUME NEW m \in Messages, NEW b \in Bindings, Insert(m, b)
      PROVE  TypeOK'
  <2>1. nextId \in Ids
    BY <1>1 DEF Insert, TypeOK, Ids
  <2>2. row' \in [Ids -> Row]
    BY <1>1, <2>1 DEF Insert, TypeOK, Row, Statuses
  <2>3. nextId' \in 1 .. MaxRows + 1
    BY <1>1 DEF Insert, TypeOK
  <2>4. QED
    BY <1>1, <2>2, <2>3 DEF Insert, TypeOK, environment, history
<1>2. ASSUME NEW e \in Ids, CommitInsert(e) PROVE TypeOK'
  <2>1. row' \in [Ids -> Row]
    BY SMTT(30), <1>2 DEF CommitInsert, TypeOK, Row, Statuses, Unsettled
  <2>2. overtaken' \subseteq Ids
    BY <1>2 DEF CommitInsert, TypeOK
  <2>3. QED
    BY <1>2, <2>1, <2>2 DEF CommitInsert, TypeOK, environment
<1>3. ASSUME NEW e \in Ids, RollbackInsert(e) PROVE TypeOK'
  <2>1. row' \in [Ids -> Row]
    BY <1>3 DEF RollbackInsert, TypeOK, Row, NoRow, Statuses
  <2>2. QED
    BY <1>3, <2>1 DEF RollbackInsert, TypeOK, environment, history
<1>4. ASSUME NEW w \in Workers, NEW e \in Ids, Claim(w, e) PROVE TypeOK'
  <2> DEFINE c == [pc |-> "claimed", ev |-> e, att |-> row[e].attempt + 1,
                   beat |-> TRUE, out |-> "none"]
  <2>1. row[e] \in Row /\ row[e].attempt + 1 \in Nat
    BY DEF TypeOK, Row
  <2>2. Claimed(row[e]) \in Row
    BY <2>1, RowUpdates
  <2>3. c \in WorkerState
    BY <2>1 DEF WorkerState, Ids
  <2>4. row' = [row EXCEPT ![e] = Claimed(row[e])] /\ wk' = [wk EXCEPT ![w] = c]
    BY <1>4 DEF Claim
  <2>5. row' \in [Ids -> Row] /\ wk' \in [Workers -> WorkerState]
    BY <2>2, <2>3, <2>4 DEF TypeOK
  <2>6. \A v \in Workers : wk'[v].pc # "idle" => wk'[v].ev \in Ids
    BY <2>4 DEF TypeOK
  <2>7. spent' \in [Ids -> Nat] /\ holder' \in [Ids -> Workers \cup {NoWorker}]
    BY <1>4 DEF Claim, TypeOK
  <2>8. QED
    BY <1>4, <2>5, <2>6, <2>7 DEF Claim, TypeOK, environment
<1>5. ASSUME NEW w \in Workers, CheckBinding(w) PROVE TypeOK'
  <2>1. wk[w] \in WorkerState /\ wk[w].ev \in Ids
    BY <1>5 DEF CheckBinding, TypeOK
  <2>2. PICK c \in WorkerState : wk' = [wk EXCEPT ![w] = c] /\ c.ev = wk[w].ev
    <3>1. [wk[w] EXCEPT !.pc = "executing"] \in WorkerState
      BY <2>1 DEF WorkerState
    <3>2. Ended(wk[w], "dead") \in WorkerState
      BY <2>1 DEF WorkerState, Ended, Outcomes
    <3>3. /\ [wk[w] EXCEPT !.pc = "executing"].ev = wk[w].ev
          /\ Ended(wk[w], "dead").ev = wk[w].ev
      BY <2>1 DEF WorkerState, Ended
    <3>4. \/ wk' = [wk EXCEPT ![w].pc = "executing"]
          \/ wk' = [wk EXCEPT ![w] = Ended(wk[w], "dead")]
      BY <1>5 DEF CheckBinding
    <3>5. QED
      BY <3>1, <3>2, <3>3, <3>4
  <2>3. wk' \in [Workers -> WorkerState]
    BY <2>2 DEF TypeOK
  <2>4. \A v \in Workers : wk'[v].pc # "idle" => wk'[v].ev \in Ids
    BY <2>1, <2>2 DEF TypeOK
  <2>5. QED
    BY <1>5, <2>3, <2>4 DEF CheckBinding, TypeOK, environment, history
<1>6. ASSUME NEW w \in Workers, Execute(w) PROVE TypeOK'
  <2>1. PICK o \in Outcomes : wk' = [wk EXCEPT ![w] = Ended(wk[w], o)]
    BY <1>6 DEF Execute, Outcomes
  <2>2. wk' \in [Workers -> WorkerState]
    BY ZenonT(40), <2>1 DEF TypeOK, WorkerState, Ended
  <2>3. \A v \in Workers : wk'[v].pc # "idle" => wk'[v].ev \in Ids
    BY <1>6, <2>1 DEF Execute, TypeOK, WorkerState, Ended
  <2>4. QED
    BY <1>6, <2>2, <2>3 DEF Execute, TypeOK, environment, history
<1>7. ASSUME NEW w \in Workers, Finish(w) PROVE TypeOK'
  <2> DEFINE e == wk[w].ev
             x == Outcome(row[e], wk[w].att, wk[w].out)
  <2>1. e \in Ids /\ wk[w] \in WorkerState
    BY <1>7 DEF Finish, TypeOK
  <2>2. wk' = [wk EXCEPT ![w] = Idle] /\ Idle \in WorkerState
    BY <1>7 DEF Finish, Idle, WorkerState
  <2>3. /\ wk' \in [Workers -> WorkerState]
        /\ \A v \in Workers : wk'[v].pc # "idle" => wk'[v].ev \in Ids
    BY <2>2 DEF TypeOK, Idle
  <2>4. x \in Row
    BY <1>7, <2>1, OutcomeType
       DEF Finish, ClaimsCount, TypeOK, FinishingHasOutcome, WorkerState
  <2>5. row' \in [Ids -> Row]
    <3>1. row' = row \/ row' = [row EXCEPT ![e] = x]
      BY <1>7 DEF Finish
    <3>2. QED
      BY <2>4, <3>1 DEF TypeOK
  <2>6. spent' \in [Ids -> Nat]
    BY <1>7 DEF Finish, TypeOK
  <2>7. QED
    BY <1>7, <2>3, <2>5, <2>6 DEF Finish, TypeOK, environment
<1>8. ASSUME NEW w \in Workers, FinishFails(w) PROVE TypeOK'
  <2>1. wk' = [wk EXCEPT ![w] = Idle] /\ Idle \in WorkerState
    BY <1>8 DEF FinishFails, Idle, WorkerState
  <2>2. /\ wk' \in [Workers -> WorkerState]
        /\ \A v \in Workers : wk'[v].pc # "idle" => wk'[v].ev \in Ids
    BY <2>1 DEF TypeOK, Idle
  <2>3. faults' \in 0 .. MaxFaults
    BY <1>8 DEF FinishFails, TypeOK
  <2>4. QED
    BY <1>8, <2>2, <2>3 DEF FinishFails, TypeOK, environment, history
<1>9. ASSUME NEW w \in Workers, Heartbeat(w) PROVE TypeOK'
  <2>1. CASE UNCHANGED wk /\ row' = [row EXCEPT ![wk[w].ev].leased = TRUE]
    <3> DEFINE k == wk[w].ev
    <3>0. \A e \in Ids : row'[e] = IF e = k
                                   THEN [row[e] EXCEPT !.leased = TRUE]
                                   ELSE row[e]
      BY <2>1 DEF TypeOK
    <3>1. row' \in [Ids -> Row]
      BY <2>1, <3>0, RowUpdates DEF TypeOK
    <3>2. QED
      BY <1>9, <2>1, <3>1 DEF Heartbeat, TypeOK, environment, history
  <2>2. CASE UNCHANGED row /\ wk' = [wk EXCEPT ![w].beat = FALSE]
    <3>1. wk' \in [Workers -> WorkerState]
      BY ZenonT(40), <2>2 DEF TypeOK, WorkerState
    <3>2. \A v \in Workers : wk'[v].pc # "idle" => wk'[v].ev \in Ids
      BY <2>2 DEF TypeOK, WorkerState
    <3>3. QED
      BY <1>9, <2>2, <3>1, <3>2 DEF Heartbeat, TypeOK, environment, history
  <2>3. QED
    BY <1>9, <2>1, <2>2 DEF Heartbeat
<1>10. ASSUME NEW e \in Ids, OrphanLeaseExpires(e) PROVE TypeOK'
  <2>1. row' \in [Ids -> Row]
    BY ZenonT(40), <1>10 DEF OrphanLeaseExpires, TypeOK, Row
  <2>2. QED
    BY <1>10, <2>1 DEF OrphanLeaseExpires, TypeOK, environment, history
<1>11. ASSUME NEW e \in Ids, LiveLeaseExpires(e) PROVE TypeOK'
  <2>1. row' \in [Ids -> Row]
    BY ZenonT(40), <1>11 DEF LiveLeaseExpires, TypeOK, Row
  <2>2. faults' \in 0 .. MaxFaults
    BY <1>11 DEF LiveLeaseExpires, TypeOK
  <2>3. QED
    BY <1>11, <2>1, <2>2 DEF LiveLeaseExpires, TypeOK, environment, history
<1>12. ASSUME NEW e \in Ids, BackoffElapses(e) PROVE TypeOK'
  <2>1. row' \in [Ids -> Row]
    BY ZenonT(40), <1>12 DEF BackoffElapses, TypeOK, Row
  <2>2. QED
    BY <1>12, <2>1 DEF BackoffElapses, TypeOK, environment, history
<1>13. CASE Crash
  <2>1. row' \in [Ids -> Row]
    BY <1>13 DEF Crash, TypeOK, Row, NoRow, Statuses
  <2>2. /\ wk' \in [Workers -> WorkerState]
        /\ \A v \in Workers : wk'[v].pc # "idle" => wk'[v].ev \in Ids
    BY <1>13 DEF Crash, Idle, WorkerState
  <2>3. faults' \in 0 .. MaxFaults /\ busy' \in [Sessions -> BOOLEAN]
    BY <1>13 DEF Crash, TypeOK
  <2>4. QED
    BY <1>13, <2>1, <2>2, <2>3 DEF Crash, TypeOK, history
<1>14. ASSUME NEW e \in Ids, Requeue(e) PROVE TypeOK'
  <2>1. row' \in [Ids -> Row]
    BY <1>14, RowUpdates DEF Requeue, TypeOK
  <2>2. /\ requeues' \in 0 .. MaxRequeues
        /\ requeued' \subseteq Ids
        /\ spent' \in [Ids -> Nat]
    BY <1>14 DEF Requeue, TypeOK
  <2>3. QED
    BY <1>14, <2>1, <2>2 DEF Requeue, TypeOK, environment
<1>15. ASSUME NEW s \in Sessions, ReleaseDeferred(s) PROVE TypeOK'
  <2>1. \A e \in Ids : [row[e] EXCEPT !.due = TRUE] \in Row /\ row[e] \in Row
    BY RowUpdates DEF TypeOK
  <2>2. row' \in [Ids -> Row]
    BY <1>15, <2>1 DEF ReleaseDeferred
  <2>3. QED
    BY <1>15, <2>2 DEF ReleaseDeferred, TypeOK, environment, history
<1>16. ASSUME NEW s \in Sessions, ToggleBusy(s) PROVE TypeOK'
  BY <1>16 DEF ToggleBusy, TypeOK, history
<1>17. ASSUME NEW s \in Sessions, NEW b \in Bindings \cup {NoBinding},
              Rebind(s, b)
       PROVE  TypeOK'
  BY <1>17 DEF Rebind, TypeOK, history
<1>18. CASE UNCHANGED vars
  BY <1>18 DEF vars, TypeOK, environment, history
<1>19. QED
  BY <1>1, <1>2, <1>3, <1>4, <1>5, <1>6, <1>7, <1>8, <1>9, <1>10, <1>11,
     <1>12, <1>13, <1>14, <1>15, <1>16, <1>17, <1>18
     DEF Next, Accepting, Working, Surroundings

-----------------------------------------------------------------------------
(***************************************************************************)
(* The rest of the invariant only looks at the columns status, attempt,    *)
(* binding and msg, at which worker holds which claim, and at the history. *)
(***************************************************************************)
Rest == /\ Allocation
        /\ ClaimsCount
        /\ FinishingHasOutcome
        /\ Leases
        /\ SessionOrder
        /\ BudgetIsExact
        /\ OneRowPerMessage

SameRow(e) == /\ row'[e].status = row[e].status
              /\ row'[e].attempt = row[e].attempt
              /\ row'[e].binding = row[e].binding
              /\ row'[e].msg = row[e].msg

\* Worker v holds no claim it did not hold before.
KeepsClaim(v) ==
  wk'[v].pc # "idle" => /\ wk[v].pc # "idle"
                        /\ wk'[v].ev = wk[v].ev
                        /\ wk'[v].att = wk[v].att

Outcomed(v) == wk'[v].pc = "finishing" => wk'[v].out \in Outcomes

(***************************************************************************)
(* A step that changes none of that preserves the rest of the invariant.   *)
(***************************************************************************)
LEMMA QuietStep ==
  ASSUME Rest, UNCHANGED <<nextId, history>>,
         \A e \in Ids : SameRow(e),
         \A v \in Workers : KeepsClaim(v) /\ Outcomed(v)
  PROVE  Rest'
<1>1. Allocation'
  BY DEF Rest, Allocation, SameRow, KeepsClaim, InFlight, Visible, history
<1>2. ClaimsCount' /\ FinishingHasOutcome'
  BY DEF Rest, ClaimsCount, FinishingHasOutcome, KeepsClaim, Outcomed
<1>3. Leases'
  BY DEF Rest, Leases, SameRow, KeepsClaim, InFlight, history
<1>4. SessionOrder'
  BY DEF Rest, SessionOrder, SameSession, SameRow, history
<1>5. BudgetIsExact'
  BY DEF Rest, BudgetIsExact, SameRow, history
<1>6. OneRowPerMessage'
  BY DEF Rest, OneRowPerMessage, SameRow
<1>7. QED
  BY <1>1, <1>2, <1>3, <1>4, <1>5, <1>6 DEF Rest

\* Actions that leave the whole table alone but may touch one worker.
LEMMA WorkerSteps ==
  ASSUME TypeOK, Rest, NEW w \in Workers,
         CheckBinding(w) \/ Execute(w) \/ FinishFails(w) \/ Heartbeat(w)
  PROVE  Rest'
<1>1. UNCHANGED <<nextId, history>>
  BY DEF CheckBinding, Execute, FinishFails, Heartbeat
<1>2. \A e \in Ids : SameRow(e)
  <2>1. CASE UNCHANGED row
    BY <2>1 DEF SameRow
  <2>2. CASE Heartbeat(w)
    BY <2>2, SMTT(30) DEF Heartbeat, SameRow, TypeOK, Row
  <2> QED  BY <2>1, <2>2 DEF CheckBinding, Execute, FinishFails
<1>3. \A v \in Workers : wk[v] \in WorkerState
  BY DEF TypeOK
<1>4. \A v \in Workers : KeepsClaim(v) /\ Outcomed(v)
  <2>1. CASE CheckBinding(w)
    <3>1. \/ wk' = [wk EXCEPT ![w].pc = "executing"]
          \/ wk' = [wk EXCEPT ![w] = Ended(wk[w], "dead")]
      BY <2>1 DEF CheckBinding
    <3>2. wk[w].pc # "idle"
      BY <2>1 DEF CheckBinding
    <3>3. CASE wk' = [wk EXCEPT ![w].pc = "executing"]
      BY <1>3, <3>2, <3>3 DEF KeepsClaim, Outcomed, WorkerState, TypeOK, Rest,
                              FinishingHasOutcome
    <3>4. CASE wk' = [wk EXCEPT ![w] = Ended(wk[w], "dead")]
      BY <1>3, <3>2, <3>4 DEF KeepsClaim, Outcomed, Ended, WorkerState,
                              TypeOK, Rest, FinishingHasOutcome, Outcomes
    <3>5. QED
      BY <3>1, <3>3, <3>4
  <2>2. CASE Execute(w)
    <3>1. PICK o \in Outcomes : wk' = [wk EXCEPT ![w] = Ended(wk[w], o)]
      BY <2>2 DEF Execute, Outcomes
    <3>2. wk[w].pc # "idle"
      BY <2>2 DEF Execute
    <3>3. QED
      BY <1>3, <3>1, <3>2
         DEF KeepsClaim, Outcomed, Ended, WorkerState, TypeOK, Rest,
             FinishingHasOutcome
  <2>3. CASE FinishFails(w)
    BY <2>3 DEF FinishFails, Idle, KeepsClaim, Outcomed, TypeOK, Rest,
                FinishingHasOutcome
  <2>4. CASE Heartbeat(w)
    <3>1. wk' = wk \/ wk' = [wk EXCEPT ![w].beat = FALSE]
      BY <2>4 DEF Heartbeat
    <3>2. QED
      BY <1>3, <3>1 DEF KeepsClaim, Outcomed, WorkerState, TypeOK, Rest,
                        FinishingHasOutcome
  <2>5. QED
    BY <2>1, <2>2, <2>3, <2>4
<1>5. QED
  BY <1>1, <1>2, <1>4, QuietStep

\* Time, releases, the session and its binding.
LEMMA SurroundingSteps ==
  ASSUME TypeOK, Rest,
         \/ \E e \in Ids : OrphanLeaseExpires(e) \/ LiveLeaseExpires(e)
                             \/ BackoffElapses(e)
         \/ \E s \in Sessions : ReleaseDeferred(s) \/ ToggleBusy(s)
         \/ \E s \in Sessions, b \in Bindings \cup {NoBinding} : Rebind(s, b)
         \/ UNCHANGED vars
  PROVE  Rest'
<1>1. UNCHANGED <<nextId, wk, history>>
  BY DEF OrphanLeaseExpires, LiveLeaseExpires, BackoffElapses,
         ReleaseDeferred, ToggleBusy, Rebind, vars, history
<1>2. \A e \in Ids : SameRow(e)
  BY DEF OrphanLeaseExpires, LiveLeaseExpires, BackoffElapses,
         ReleaseDeferred, ToggleBusy, Rebind, vars, SameRow, TypeOK, Row
<1>3. \A v \in Workers : KeepsClaim(v) /\ Outcomed(v)
  BY <1>1 DEF KeepsClaim, Outcomed, Rest, FinishingHasOutcome
<1>4. QED
  BY <1>1, <1>2, <1>3, QuietStep

\* A new row has a fresh id and a message no other row has.
LEMMA InsertStep ==
  ASSUME TypeOK, Rest, NEW m \in Messages, NEW b \in Bindings, Insert(m, b)
  PROVE  Rest'
<1> DEFINE x == [msg |-> m, binding |-> b, status |-> "inserted",
                 attempt |-> 0, due |-> TRUE, leased |-> FALSE]
<1>1. /\ nextId \in Ids /\ nextId' = nextId + 1
      /\ row' = [row EXCEPT ![nextId] = x]
      /\ UNCHANGED <<wk, holder, requeued, overtaken, spent>>
  BY ConstantsAssumption DEF Insert, TypeOK, Ids, history
<1>2. \A e \in Ids : row'[e] = IF e = nextId THEN x ELSE row[e]
  BY <1>1 DEF TypeOK
<1>3. row[nextId].status = "absent"
  BY <1>1 DEF Rest, Allocation, Ids
<1>4. \A v \in Workers : ~InFlight(v, nextId)
  BY <1>1, <1>3 DEF Rest, Allocation
<1>5. Allocation'
  BY <1>1, <1>2, <1>4, ConstantsAssumption
     DEF Rest, Allocation, InFlight, Visible, Ids, TypeOK
<1>6. ClaimsCount' /\ FinishingHasOutcome'
  BY <1>1 DEF Rest, ClaimsCount, FinishingHasOutcome
<1>7. Leases'
  BY <1>1, <1>2, <1>4 DEF Rest, Leases, InFlight
<1>8. SessionOrder'
  BY <1>1, <1>2 DEF Rest, SessionOrder, SameSession, Unsettled, Settled
<1>9. BudgetIsExact'
  BY <1>1, <1>2 DEF Rest, BudgetIsExact, Unsettled
<1>10. OneRowPerMessage'
  BY <1>1, <1>2 DEF Rest, OneRowPerMessage, Insert
<1>11. QED
  BY <1>5, <1>6, <1>7, <1>8, <1>9, <1>10 DEF Rest

\* A row that commits behind a later one is recorded as overtaken.
LEMMA CommitStep ==
  ASSUME TypeOK, Rest, NEW x \in Ids, CommitInsert(x)
  PROVE  Rest'
<1>1. /\ row[x].status = "inserted"
      /\ UNCHANGED <<nextId, wk, holder, requeued, spent>>
      /\ overtaken \subseteq overtaken'
  BY DEF CommitInsert
<1>2. \A e \in Ids :
        /\ row'[e].status = (IF e = x THEN "received" ELSE row[e].status)
        /\ row'[e].attempt = row[e].attempt
        /\ row'[e].binding = row[e].binding
        /\ row'[e].msg = row[e].msg
  BY DEF CommitInsert, TypeOK, Row
<1>3. \A v \in Workers : ~InFlight(v, x)
  BY <1>1 DEF Rest, Allocation
<1>4. Allocation'
  BY <1>1, <1>2, <1>3 DEF Rest, Allocation, InFlight, Visible
<1>5. ClaimsCount' /\ FinishingHasOutcome'
  BY <1>1 DEF Rest, ClaimsCount, FinishingHasOutcome
<1>6. Leases'
  BY <1>1, <1>2, <1>3 DEF Rest, Leases, InFlight
<1>7. SessionOrder'
  <2> SUFFICES ASSUME NEW e \in Ids, NEW f \in Ids, e < f,
                      SameSession(e, f),
                      row'[e].status \in Unsettled,
                      row[f].status \in {"processing"} \cup Settled
               PROVE  e \in (requeued \cup overtaken)'
    BY <1>2 DEF SessionOrder, SameSession, Settled
  <2>1. CASE e = x
    <3>1. Visible(f) /\ f > e
      BY DEF Visible, Settled, Ids
    <3>2. QED
      BY <2>1, <3>1 DEF CommitInsert
  <2>2. CASE e # x
    BY <1>1, <1>2, <2>2 DEF Rest, SessionOrder
  <2>3. QED
    BY <2>1, <2>2
<1>8. BudgetIsExact'
  <2>1. row[x].attempt = 0 /\ spent[x] = 0
    BY <1>1 DEF Rest, Allocation, Visible
  <2>2. QED
    BY <1>1, <1>2, <2>1 DEF Rest, BudgetIsExact, Unsettled
<1>9. OneRowPerMessage'
  BY <1>1, <1>2 DEF Rest, OneRowPerMessage
<1>10. QED
  BY <1>4, <1>5, <1>6, <1>7, <1>8, <1>9 DEF Rest

\* Rows whose insertion did not commit disappear (rollback, crash).
LEMMA VanishStep ==
  ASSUME TypeOK, Rest, UNCHANGED <<nextId, history>>,
         \A e \in Ids : \/ row'[e] = row[e]
                        \/ row[e].status = "inserted" /\ row'[e] = NoRow,
         \A v \in Workers : wk'[v] = wk[v] \/ wk'[v] = Idle
  PROVE  Rest'
<1>1. /\ NoRow.status = "absent" /\ NoRow.attempt = 0
      /\ Idle.pc = "idle"
  BY DEF NoRow, Idle
<1>2. Allocation'
  BY <1>1 DEF Rest, Allocation, InFlight, Visible, history
<1>3. ClaimsCount' /\ FinishingHasOutcome'
  BY <1>1 DEF Rest, ClaimsCount, FinishingHasOutcome
<1>4. Leases'
  BY <1>1 DEF Rest, Allocation, Leases, InFlight, history
<1>5. SessionOrder'
  BY <1>1 DEF Rest, SessionOrder, SameSession, Unsettled, Settled, history
<1>6. BudgetIsExact'
  BY <1>1 DEF Rest, BudgetIsExact, Unsettled, history
<1>7. OneRowPerMessage'
  BY <1>1 DEF Rest, OneRowPerMessage
<1>8. QED
  BY <1>2, <1>3, <1>4, <1>5, <1>6, <1>7 DEF Rest

(***************************************************************************)
(* The claimer gets an attempt number ahead of every claim on the row; the *)
(* row was the head of its session.                                        *)
(***************************************************************************)
LEMMA ClaimStep ==
  ASSUME TypeOK, Rest, NEW w \in Workers, NEW x \in Ids, Claim(w, x)
  PROVE  Rest'
<1>1. /\ wk[w].pc = "idle"
      /\ row[x].status \in Unsettled
      /\ HeadOfSession(x)
      /\ UNCHANGED <<nextId, requeued, overtaken>>
      /\ holder' = [holder EXCEPT ![x] = w]
      /\ spent' = [spent EXCEPT ![x] = IF row[x].status = "processing"
                                      THEN @ + 1 ELSE @]
  BY DEF Claim, Processable, Unsettled
<1>2. /\ row[x].attempt \in Nat
      /\ \A e \in Ids :
           /\ row'[e].status = (IF e = x THEN "processing" ELSE row[e].status)
           /\ row'[e].attempt = (IF e = x THEN row[x].attempt + 1
                                         ELSE row[e].attempt)
           /\ row'[e].binding = row[e].binding
           /\ row'[e].msg = row[e].msg
  BY DEF Claim, Claimed, TypeOK, Row
<1>3. /\ wk'[w].pc = "claimed" /\ wk'[w].ev = x
      /\ wk'[w].att = row[x].attempt + 1
      /\ \A v \in Workers \ {w} : wk'[v] = wk[v]
      /\ \A v \in Workers : wk[v].att \in Nat
  BY DEF Claim, TypeOK, WorkerState
<1>4. Allocation'
  BY <1>1, <1>2, <1>3 DEF Rest, Allocation, InFlight, Visible, Unsettled, TypeOK
<1>5. ClaimsCount' /\ FinishingHasOutcome'
  BY <1>2, <1>3 DEF Rest, ClaimsCount, FinishingHasOutcome
<1>6. Leases'
  <2> SUFFICES ASSUME NEW v \in Workers, NEW e \in Ids \ requeued,
                      InFlight(v, e)'
               PROVE  IF holder'[e] = v
                      THEN row'[e].status = "processing"
                           /\ row'[e].attempt = wk'[v].att
                      ELSE /\ row'[e].status = "processing" =>
                                wk'[v].att < row'[e].attempt
                           /\ row'[e].status = "retry" =>
                                wk'[v].att <= row'[e].attempt
    BY <1>1 DEF Leases
  <2>1. CASE v = w
    BY <1>1, <1>2, <1>3, <2>1 DEF InFlight, TypeOK
  <2>2. CASE v # w /\ e = x
    <3>1. InFlight(v, x) /\ row[x].status \in {"retry", "processing"}
      BY <1>1, <1>3, <2>2 DEF InFlight, Rest, Allocation, Unsettled
    <3>2. wk[v].att <= row[x].attempt
      BY <1>2, <1>3, <2>2, <3>1 DEF Rest, Leases
    <3>3. QED
      BY <1>1, <1>2, <1>3, <2>2, <3>2 DEF TypeOK
  <2>3. CASE v # w /\ e # x
    BY <1>1, <1>2, <1>3, <2>3 DEF InFlight, Rest, Leases, TypeOK
  <2>4. QED
    BY <2>1, <2>2, <2>3
<1>7. SessionOrder'
  <2> SUFFICES ASSUME NEW e \in Ids, NEW f \in Ids, e < f,
                      SameSession(e, f),
                      row'[e].status \in Unsettled,
                      row'[f].status \in {"processing"} \cup Settled
               PROVE  e \in requeued \cup overtaken
    BY <1>1, <1>2 DEF SessionOrder, SameSession
  <2>1. row[e].status \in Unsettled
    BY <1>1, <1>2
  <2>2. f # x
    BY <1>1, <2>1 DEF HeadOfSession
  <2>3. QED
    BY <1>2, <2>1, <2>2 DEF Rest, SessionOrder
<1>8. BudgetIsExact'
  BY <1>1, <1>2 DEF Rest, BudgetIsExact, TypeOK
<1>9. OneRowPerMessage'
  BY <1>1, <1>2 DEF Rest, OneRowPerMessage, Unsettled
<1>10. QED
  BY <1>4, <1>5, <1>6, <1>7, <1>8, <1>9 DEF Rest

(***************************************************************************)
(* A worker that owns its row is its last claimer, so the write-back       *)
(* leaves every stale claim behind, even when it hands an attempt back.    *)
(***************************************************************************)
LEMMA FinishStep ==
  ASSUME TypeOK, Rest, NEW w \in Workers, Finish(w)
  PROVE  Rest'
<1> DEFINE x == wk[w].ev
           a == wk[w].att
           o == wk[w].out
           y == Outcome(row[x], a, o)
<1>1. /\ wk[w].pc = "finishing" /\ x \in Ids /\ a \in Nat /\ a >= 1
      /\ o \in Outcomes
      /\ UNCHANGED <<nextId, holder, requeued, overtaken>>
      /\ wk' = [wk EXCEPT ![w] = Idle]
  BY DEF Finish, TypeOK, Rest, ClaimsCount, FinishingHasOutcome, WorkerState
<1>2. /\ wk'[w].pc = "idle"
      /\ \A v \in Workers \ {w} : wk'[v] = wk[v]
  BY <1>1 DEF Idle, TypeOK
<1>3. \A v \in Workers : KeepsClaim(v) /\ Outcomed(v)
  BY <1>2 DEF KeepsClaim, Outcomed, Rest, FinishingHasOutcome
<1>4. CASE ~Owns(w, x)
  <2>1. UNCHANGED <<row, spent>>
    BY <1>4 DEF Finish
  <2>2. QED
    BY <1>1, <1>3, <2>1, QuietStep DEF SameRow, history
<1>5. CASE Owns(w, x)
  <2>1. /\ row' = [row EXCEPT ![x] = y]
        /\ spent' = [spent EXCEPT ![x] = IF o = "retry" THEN @ + 1 ELSE @]
    BY <1>5 DEF Finish
  <2>2. row[x] \in Row /\ row[x].status = "processing" /\ row[x].attempt = a
    BY <1>1, <1>5 DEF Owns, TypeOK
  <2>3. /\ y.msg = row[x].msg /\ y.binding = row[x].binding
        /\ y.status \in {"processed", "retry", "dead"}
        /\ y.status = "retry" => \/ o = "deferred" /\ y.attempt = a - 1
                                 \/ o = "retry" /\ y.attempt = a
    BY <1>1, <2>2, OutcomeType
  <2> HIDE DEF y
  <2>4. \A e \in Ids : row'[e] = IF e = x THEN y ELSE row[e]
    BY <1>1, <2>1 DEF TypeOK
  <2>5. Allocation'
    BY <1>1, <1>2, <2>1, <2>2, <2>3, <2>4
       DEF Rest, Allocation, InFlight, Visible, TypeOK
  <2>6. ClaimsCount' /\ FinishingHasOutcome'
    BY <1>2 DEF Rest, ClaimsCount, FinishingHasOutcome
  <2>7. Leases'
    <3> SUFFICES ASSUME NEW v \in Workers, NEW e \in Ids \ requeued,
                        InFlight(v, e)'
                 PROVE  IF holder[e] = v
                        THEN row'[e].status = "processing"
                             /\ row'[e].attempt = wk'[v].att
                        ELSE /\ row'[e].status = "processing" =>
                                  wk'[v].att < row'[e].attempt
                             /\ row'[e].status = "retry" =>
                                  wk'[v].att <= row'[e].attempt
      BY <1>1 DEF Leases
    <3>1. v # w /\ InFlight(v, e) /\ wk'[v] = wk[v]
      BY <1>2 DEF InFlight
    <3>2. CASE e # x
      BY <2>4, <3>1, <3>2 DEF Rest, Leases
    <3>3. CASE e = x
      <4>1. holder[x] = w
        BY <1>1, <2>2, <3>3 DEF Rest, Leases, InFlight
      <4>2. wk[v].att < a /\ wk[v].att \in Nat
        BY <1>1, <2>2, <3>1, <3>3, <4>1 DEF Rest, Leases, TypeOK, WorkerState
      <4>3. QED
        BY <1>1, <2>3, <2>4, <3>1, <3>3, <4>1, <4>2
    <3>4. QED
      BY <3>2, <3>3
  <2>8. SessionOrder'
    BY <1>1, <2>2, <2>3, <2>4
       DEF Rest, SessionOrder, SameSession, Unsettled, Settled
  <2>9. BudgetIsExact'
    <3>1. a = spent[x] + 1 /\ spent[x] \in Nat
      BY <1>1, <2>2 DEF Rest, BudgetIsExact, Unsettled, TypeOK
    <3>2. \A e \in Ids \ {x} : spent'[e] = spent[e]
      BY <2>1 DEF TypeOK
    <3>3. spent'[x] = IF o = "retry" THEN spent[x] + 1 ELSE spent[x]
      BY <1>1, <2>1 DEF TypeOK
    <3>4. QED
      BY <1>1, <2>3, <2>4, <3>1, <3>2, <3>3 DEF Rest, BudgetIsExact, Unsettled
  <2>10. OneRowPerMessage'
    BY <1>1, <2>2, <2>3, <2>4 DEF Rest, OneRowPerMessage
  <2>11. QED
    BY <2>5, <2>6, <2>7, <2>8, <2>9, <2>10 DEF Rest
<1>6. QED
  BY <1>4, <1>5

\* A requeued row starts over; what is said of its claims lapses.
LEMMA RequeueStep ==
  ASSUME TypeOK, Rest, NEW x \in Ids, Requeue(x)
  PROVE  Rest'
<1>1. /\ row[x].status = "dead"
      /\ UNCHANGED <<nextId, wk, holder, overtaken>>
      /\ requeued' = requeued \cup {x}
      /\ \A e \in Ids : spent'[e] = IF e = x THEN 0 ELSE spent[e]
  BY DEF Requeue, TypeOK
<1>2. \A e \in Ids :
        /\ row'[e].status = (IF e = x THEN "retry" ELSE row[e].status)
        /\ row'[e].attempt = (IF e = x THEN 0 ELSE row[e].attempt)
        /\ row'[e].binding = row[e].binding
        /\ row'[e].msg = row[e].msg
  BY DEF Requeue, Revived, TypeOK, Row
<1>3. Allocation'
  BY <1>1, <1>2 DEF Rest, Allocation, InFlight, Visible
<1>4. ClaimsCount' /\ FinishingHasOutcome'
  BY <1>1 DEF Rest, ClaimsCount, FinishingHasOutcome
<1>5. Leases'
  BY <1>1, <1>2 DEF Rest, Leases, InFlight
<1>6. SessionOrder'
  BY <1>1, <1>2 DEF Rest, SessionOrder, SameSession, Settled
<1>7. BudgetIsExact'
  BY <1>1, <1>2 DEF Rest, BudgetIsExact
<1>8. OneRowPerMessage'
  BY <1>1, <1>2 DEF Rest, OneRowPerMessage
<1>9. QED
  BY <1>3, <1>4, <1>5, <1>6, <1>7, <1>8 DEF Rest

-----------------------------------------------------------------------------
Inv == TypeOK /\ Rest

\* The invariant holds of an empty table and idle workers.
LEMMA InvInit == Init => Inv
<1> SUFFICES ASSUME Init PROVE Inv
  OBVIOUS
<1>1. TypeOK
  BY TypeInit
<1>2. /\ \A e \in Ids : /\ row[e].status = "absent"
                        /\ row[e].attempt = 0
                        /\ spent[e] = 0
      /\ \A w \in Workers : wk[w].pc = "idle"
  BY DEF Init, NoRow, Idle
<1>3. Rest
  BY <1>2 DEF Rest, Allocation, ClaimsCount, FinishingHasOutcome, Leases,
              SessionOrder, BudgetIsExact, OneRowPerMessage, InFlight,
              Visible, Unsettled
<1>4. QED
  BY <1>1, <1>3 DEF Inv

\* Every step of the queue preserves the invariant, action by action.
LEMMA InvStep == Inv /\ [Next]_vars => Inv'
<1> SUFFICES ASSUME TypeOK, Rest, [Next]_vars PROVE Inv'
  BY DEF Inv
<1>1. TypeOK'
  BY TypeStep DEF Rest
<1>2. Rest'
  <2>1. ASSUME NEW m \in Messages, NEW b \in Bindings, Insert(m, b)
        PROVE  Rest'
    BY <2>1, InsertStep
  <2>2. ASSUME NEW e \in Ids, CommitInsert(e) PROVE Rest'
    BY <2>2, CommitStep
  <2>3. ASSUME NEW e \in Ids, RollbackInsert(e) PROVE Rest'
    <3>1. \A f \in Ids : \/ row'[f] = row[f]
                         \/ row[f].status = "inserted" /\ row'[f] = NoRow
      BY <2>3 DEF RollbackInsert, TypeOK
    <3>2. UNCHANGED <<nextId, history>> /\ UNCHANGED wk
      BY <2>3 DEF RollbackInsert
    <3>3. QED
      BY <3>1, <3>2, VanishStep
  <2>4. ASSUME NEW w \in Workers, NEW e \in Ids, Claim(w, e) PROVE Rest'
    BY <2>4, ClaimStep
  <2>5. ASSUME NEW w \in Workers,
               CheckBinding(w) \/ Execute(w) \/ FinishFails(w) \/ Heartbeat(w)
        PROVE  Rest'
    BY <2>5, WorkerSteps
  <2>6. ASSUME NEW w \in Workers, Finish(w) PROVE Rest'
    BY <2>6, FinishStep
  <2>7. CASE Crash
    <3>1. \A f \in Ids : \/ row'[f] = row[f]
                         \/ row[f].status = "inserted" /\ row'[f] = NoRow
      BY <2>7 DEF Crash
    <3>2. UNCHANGED <<nextId, history>> /\ \A v \in Workers : wk'[v] = Idle
      BY <2>7 DEF Crash
    <3>3. QED
      BY <3>1, <3>2, VanishStep
  <2>8. ASSUME NEW e \in Ids, Requeue(e) PROVE Rest'
    BY <2>8, RequeueStep
  <2>9. ASSUME NEW e \in Ids, OrphanLeaseExpires(e) \/ LiveLeaseExpires(e)
                              \/ BackoffElapses(e)
        PROVE  Rest'
    BY <2>9, SurroundingSteps
  <2>10. ASSUME NEW s \in Sessions, ReleaseDeferred(s) \/ ToggleBusy(s)
         PROVE  Rest'
    BY <2>10, SurroundingSteps
  <2>11. ASSUME NEW s \in Sessions, NEW b \in Bindings \cup {NoBinding},
                Rebind(s, b)
         PROVE  Rest'
    BY <2>11, SurroundingSteps
  <2>12. CASE UNCHANGED vars
    BY <2>12, SurroundingSteps
  <2>13. QED
    BY <2>1, <2>2, <2>3, <2>4, <2>5, <2>6, <2>7, <2>8, <2>9, <2>10, <2>11,
       <2>12 DEF Next, Accepting, Working, Surroundings
<1>3. QED
  BY <1>1, <1>2 DEF Inv

\* The inductive invariant holds in every reachable state.
THEOREM Invariance == Spec => []Inv
BY InvInit, InvStep, PTL DEF Spec

(***************************************************************************)
(* Every reachable state is well typed.                                    *)
(***************************************************************************)
THEOREM TypeCorrect == Spec => []TypeOK
<1>1. Inv => TypeOK
  BY DEF Inv
<1>2. QED
  BY <1>1, Invariance, PTL

(***************************************************************************)
(* A row that was not requeued by hand is only ever settled, deferred or   *)
(* renewed by the worker that claimed it last, however many workers,       *)
(* crashes and expired leases there are.                                   *)
(***************************************************************************)
THEOREM ExclusiveOwnership == Spec => []OwnershipIsExclusive
<1>1. Inv => OwnershipIsExclusive
  <2> SUFFICES ASSUME Inv, NEW w \in Workers, NEW e \in Ids \ requeued,
                      InFlight(w, e), Owns(w, e), holder[e] # w
               PROVE  FALSE
    BY DEF OwnershipIsExclusive
  <2>1. wk[w].att < wk[w].att /\ wk[w].att \in Nat
    BY DEF Inv, Rest, Leases, Owns, TypeOK, WorkerState
  <2>2. QED
    BY <2>1
<1>2. QED
  BY <1>1, Invariance, PTL

(***************************************************************************)
(* Messages of a session are taken in the order of their rows, for every   *)
(* number of rows and workers.                                             *)
(***************************************************************************)
THEOREM OrderedSessions == Spec => []SessionOrder
<1>1. Inv => SessionOrder
  BY DEF Inv, Rest
<1>2. QED
  BY <1>1, Invariance, PTL

(***************************************************************************)
(* Deferring never eats into the retry budget, for every budget.           *)
(***************************************************************************)
THEOREM ExactBudget == Spec => []BudgetIsExact
<1>1. Inv => BudgetIsExact
  BY DEF Inv, Rest
<1>2. QED
  BY <1>1, Invariance, PTL

(***************************************************************************)
(* A redelivered message never becomes a second row.                       *)
(***************************************************************************)
THEOREM UniqueMessages == Spec => []OneRowPerMessage
<1>1. Inv => OneRowPerMessage
  BY DEF Inv, Rest
<1>2. QED
  BY <1>1, Invariance, PTL
=============================================================================
