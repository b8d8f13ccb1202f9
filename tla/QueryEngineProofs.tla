-------------------------- MODULE QueryEngineProofs --------------------------
(***************************************************************************)
(* What the query engine guarantees for any number of messages, runs,      *)
(* cancels and faults.  The invariant says who is at the head of the       *)
(* session's line (Ordered), what the row and the copies know of messages  *)
(* that were answered (Remembered), and when the row may read RUNNING      *)
(* (Told).                                                                 *)
(***************************************************************************)
EXTENDS QueryEngine, SequenceTheorems, TLAPS

\* Submissions are numbered; one that has the lock is at the head of the
\* line; a steer has a message and a run.
Ordered ==
  /\ \A s \in Runs : s > made => run[s].pc = "unused"
  /\ \A s \in Runs : run[s].pc \in Held => line # <<>> /\ Head(line) = s
  /\ \A s \in Runs : run[s].pc \notin {"unused", "over"} => run[s].msg \in Messages
  /\ steer # NoSteer => steer.run \in Runs /\ steer.msg \in Messages

TypeInv == TypeOK /\ Ordered

\* A conversation that knows the messages that were answered.
KnowsAll(ms, done, behind) ==
  \A m \in done : Has(ms, m) /\ (m \in behind \/ Completed(ms, m))
Knows(ms) == KnowsAll(ms, answered, hidden)

\* The copy of a run knows them, its message is none of them while it has not
\* started, and a run that ended with a result has it.
Working == {"loaded", "saving"} \cup Registered

RunRemembers(s) ==
  /\ run[s].pc \in Working => Knows(run[s].copy.msgs)
  /\ run[s].pc \in {"checked", "loaded", "started"} =>
       run[s].msg \notin answered \ hidden
  /\ run[s].pc \in {"concluding", "finishing", "saving"} =>
       /\ run[s].out # "none"
       /\ run[s].out \in Results =>
            run[s].msg \in hidden \/ Completed(run[s].copy.msgs, run[s].msg)

\* So does the row.
Remembered == Knows(db.msgs) /\ \A s \in Runs : RunRemembers(s)

\* The row reads RUNNING only between the two saves of the run at the head of
\* the line, or its run was dropped; no copy that may come back says so.
Writing == {"streaming", "concluding", "finishing", "saving"}

RowTold ==
  db.status = "running" /\ "dropped" \notin skipped =>
    line # <<>> /\ run[Head(line)].pc \in Writing

CopiesTold ==
  /\ \A s \in Runs :
       /\ run[s].pc = "finishing" /\ ~flag => run[s].copy.status # "running"
       /\ run[s].pc = "saving" => run[s].copy.status # "running"
  /\ \A c \in Cancels : cancel[c].pc = "rewound" => cancel[c].copy.status # "running"

ActiveTold == ctx # 0 => active

Told == RowTold /\ CopiesTold /\ ActiveTold

IInv == TypeInv /\ QueueIsServed /\ Remembered /\ Told
-----------------------------------------------------------------------------
(* The conversation                                                        *)

\* A user message more: nothing that was there is lost.
LEMMA AskedKeeps ==
  ASSUME NEW ms \in Seq(Entry), NEW m \in Messages
  PROVE  /\ Asked(ms, m) \in Seq(Entry)
         /\ \A x : Has(ms, x) => Has(Asked(ms, m), x)
         /\ \A x : Completed(ms, x) => Completed(Asked(ms, m), x)
  <1> DEFINE e == [id |-> m, done |-> FALSE]
             new == Asked(ms, m)
  <1>1. e \in Entry
    BY DEF Entry
  <1>2. new = Append(ms, e)
    BY DEF Asked
  <1> HIDE DEF e, new
  <1>3. /\ new \in Seq(Entry)
        /\ DOMAIN ms = 1 .. Len(ms) /\ Len(ms) \in Nat
        /\ DOMAIN new = 1 .. Len(ms) + 1
        /\ \A i \in DOMAIN ms : new[i] = ms[i]
    BY <1>1, <1>2
  <1>4. DOMAIN ms \subseteq DOMAIN new
    BY <1>3
  <1>5. ASSUME NEW x, Has(ms, x)  PROVE Has(new, x)
    BY <1>3, <1>4, <1>5 DEF Has
  <1>6. ASSUME NEW x, Completed(ms, x)  PROVE Completed(new, x)
    <2>1. PICK i \in DOMAIN ms : /\ ms[i].id = x /\ ms[i].done
                                 /\ \A j \in 1 .. i - 1 : ms[j].id # x
      BY <1>6 DEF Completed
    <2>2. \A j \in 1 .. i - 1 : j \in DOMAIN ms
      BY <1>3
    <2> QED  BY <1>3, <1>4, <2>1, <2>2 DEF Completed
  <1> QED  BY <1>3, <1>5, <1>6 DEF new

\* A result: likewise.
LEMMA RepliedKeeps ==
  ASSUME NEW ms \in Seq(Entry)
  PROVE  /\ Replied(ms) \in Seq(Entry)
         /\ \A x : Has(ms, x) => Has(Replied(ms), x)
         /\ \A x : Completed(ms, x) => Completed(Replied(ms), x)
  <1>1. CASE ms = <<>>
    BY <1>1 DEF Replied
  <1>2. CASE ms # <<>>
    <2> DEFINE n == Len(ms)
               new == Replied(ms)
    <2>1. /\ n \in Nat /\ n \in DOMAIN ms /\ ms[n] \in Entry
          /\ DOMAIN ms = 1 .. n
      BY <1>2
    <2>2. new = [ms EXCEPT ![n] = [ms[n] EXCEPT !.done = TRUE]]
      BY <1>2 DEF Replied
    <2> HIDE DEF n, new
    <2>3. [ms[n] EXCEPT !.done = TRUE] \in Entry
      BY <2>1 DEF Entry
    <2>4. /\ new \in Seq(Entry)
          /\ DOMAIN new = DOMAIN ms
      BY <2>1, <2>2, <2>3
    <2>5. \A i \in DOMAIN ms : /\ new[i].id = ms[i].id
                               /\ ms[i].done => new[i].done
      <3> TAKE i \in DOMAIN ms
      <3>1. ms[i] \in Entry
        BY <2>1, ElementOfSeq DEF n
      <3> QED  BY <2>1, <2>2, <3>1 DEF Entry
    <2>6. ASSUME NEW x, Completed(ms, x)  PROVE Completed(new, x)
      <3>1. PICK i \in DOMAIN ms : /\ ms[i].id = x /\ ms[i].done
                                   /\ \A j \in 1 .. i - 1 : ms[j].id # x
        BY <2>6 DEF Completed
      <3>2. \A j \in 1 .. i - 1 : j \in DOMAIN ms
        BY <2>1
      <3> QED  BY <2>4, <2>5, <3>1, <3>2 DEF Completed
    <2>7. ASSUME NEW x, Has(ms, x)  PROVE Has(new, x)
      BY <2>4, <2>5, <2>7 DEF Has
    <2> QED  BY <2>4, <2>6, <2>7 DEF new
  <1> QED  BY <1>1, <1>2

\* What a cancel leaves is a session that is not RUNNING.
LEMMA RewoundRests ==
  ASSUME NEW d \in Session
  PROVE  Rewound(d) \in Session /\ Rewound(d).status # "running"
  <1>1. d.msgs \in Seq(Entry) /\ d.status \in Statuses
    BY DEF Session
  <1>2. d.msgs # <<>> => Front(d.msgs) \in Seq(Entry)
    <2> SUFFICES ASSUME d.msgs # <<>>  PROVE Front(d.msgs) \in Seq(Entry)
      OBVIOUS
    <2> DEFINE ms == d.msgs
    <2>1. ms \in Seq(Entry) /\ Len(ms) \in Nat \ {0}
      BY <1>1
    <2> HIDE DEF ms
    <2>2. SubSeq(ms, 1, Len(ms) - 1) \in Seq(Entry)
      BY <2>1
    <2> QED  BY <2>2 DEF Front, ms
  <1>3. CASE d.status \in {"running", "idle"}
    <2>1. Rewound(d) = [status |-> "idle", msgs |-> IF d.msgs = <<>> THEN <<>>
                                                     ELSE Front(d.msgs)]
      BY <1>3 DEF Rewound
    <2>2. (IF d.msgs = <<>> THEN <<>> ELSE Front(d.msgs)) \in Seq(Entry)
      BY <1>2
    <2> QED  BY <2>1, <2>2 DEF Session, Statuses
  <1>4. CASE d.status \notin {"running", "idle"}
    BY <1>1, <1>4 DEF Rewound, Statuses
  <1> QED  BY <1>3, <1>4
-----------------------------------------------------------------------------
(* Types and the line                                                      *)

\* The registered context is the head of the line.
ContextAtHead ==
  ctx # 0 => line # <<>> /\ ctx = Head(line) /\ run[ctx].pc \in Registered

\* The run at the head goes on.
LEMMA HeadMoves ==
  ASSUME TypeInv, NEW s \in Runs, line # <<>>, Head(line) = s,
         NEW r \in Run, run' = [run EXCEPT ![s] = r],
         run[s].pc \notin {"unused", "over"}, r.pc \notin {"unused", "over"},
         r.msg = run[s].msg, UNCHANGED <<line, made, steer>>,
         ctx' # 0 => ctx' = s /\ r.pc \in Registered
  PROVE  run' \in [Runs -> Run] /\ Ordered' /\ ContextAtHead'
  <1>1. /\ run' \in [Runs -> Run] /\ run'[s] = r
        /\ \A q \in Runs : q # s => run'[q] = run[q]
    BY DEF TypeInv, TypeOK
  <1>2. Ordered'
    BY <1>1 DEF TypeInv, Ordered
  <1>3. ContextAtHead'
    BY <1>1 DEF ContextAtHead
  <1> QED  BY <1>1, <1>2, <1>3

\* The run at the head is over, and the next one has the lock.
LEMMA HeadLeaves ==
  ASSUME TypeInv, NEW s \in Runs, line # <<>>, Head(line) = s, Leave(s),
         run[s].pc # "unused", UNCHANGED <<made, steer>>,
         ctx' = 0 \/ (ctx' = ctx /\ run[s].pc \notin Registered)
  PROVE  /\ run' \in [Runs -> Run] /\ Ordered' /\ ContextAtHead'
         /\ line' \in Seq(Runs) /\ ctx' = 0
  <1>1. Over \in Run /\ Over.pc = "over" /\ "over" \notin Held
    <2>1. <<>> \in Seq(Entry)
      OBVIOUS
    <2> QED  BY <2>1 DEF Over, NoRun, Run, Phases, Held, Registered, Fresh, Session,
                         Statuses
  <1>2. /\ run' \in [Runs -> Run] /\ run'[s] = Over
        /\ \A q \in Runs : q # s => run'[q] = run[q]
        /\ line' = Tail(line)
    BY <1>1 DEF Leave, TypeInv, TypeOK
  <1>3. line' \in Seq(Runs)
    BY <1>2 DEF TypeInv, TypeOK
  <1>4. Ordered'
    <2>1. \A q \in Runs : run'[q].pc \notin Held
      BY <1>1, <1>2 DEF TypeInv, Ordered
    <2>2. \A q \in Runs : q > made => run'[q].pc = "unused"
      BY <1>2 DEF TypeInv, Ordered
    <2>3. \A q \in Runs : run'[q].pc \notin {"unused", "over"} => run'[q].msg \in Messages
      BY <1>1, <1>2 DEF TypeInv, Ordered
    <2> QED  BY <2>1, <2>2, <2>3 DEF TypeInv, Ordered
  <1>5. ctx' = 0
    BY DEF TypeInv, TypeOK
  <1> QED  BY <1>2, <1>3, <1>4, <1>5 DEF ContextAtHead

\* A new submission takes the next number.
LEMMA Spawns ==
  ASSUME TypeInv, NEW m \in Messages, Spawn(m), UNCHANGED <<line, ctx, steer>>
  PROVE  /\ run' \in [Runs -> Run] /\ made' \in 0 .. MaxRuns
         /\ Ordered' /\ ContextAtHead'
  <1> DEFINE n == made + 1
             r == [NoRun EXCEPT !.pc = "created", !.msg = m]
  <1>1. n \in Runs /\ run[n].pc = "unused" /\ made' = n
    BY ConstantsAssumption DEF Spawn, TypeInv, TypeOK, Ordered, Runs
  <1>2. r \in Run /\ r.pc = "created" /\ r.msg = m /\ "created" \notin Held
    <2>1. <<>> \in Seq(Entry)
      OBVIOUS
    <2> QED  BY <2>1 DEF NoRun, Run, Phases, Held, Registered, Fresh, Session,
                         Statuses
  <1>3. run' = [run EXCEPT ![n] = r]
    BY DEF Spawn
  <1> HIDE DEF n, r
  <1>4. /\ run' \in [Runs -> Run] /\ run'[n] = r
        /\ \A q \in Runs : q # n => run'[q] = run[q]
    BY <1>1, <1>2, <1>3 DEF TypeInv, TypeOK
  <1>5. Ordered'
    <2>1. \A q \in Runs : q > made' => run'[q].pc = "unused"
      <3>1. \A q \in Runs : q > made' => q > made /\ q # n
        BY <1>1 DEF n, Runs, TypeInv, TypeOK
      <3> QED  BY <1>4, <3>1 DEF TypeInv, Ordered
    <2>2. \A q \in Runs : run'[q].pc \in Held => line # <<>> /\ Head(line) = q
      BY <1>2, <1>4 DEF TypeInv, Ordered
    <2>3. \A q \in Runs : run'[q].pc \notin {"unused", "over"} => run'[q].msg \in Messages
      BY <1>2, <1>4 DEF TypeInv, Ordered
    <2> QED  BY <2>1, <2>2, <2>3 DEF TypeInv, Ordered
  <1>6. ctx # 0 => ctx \in Runs /\ ctx # n
    BY <1>1 DEF TypeInv, TypeOK, Registered, Runs
  <1>7. ContextAtHead'
    BY <1>4, <1>6 DEF TypeInv, TypeOK, ContextAtHead
  <1>8. made' \in 0 .. MaxRuns
    BY <1>1 DEF Runs, n
  <1> QED  BY <1>4, <1>5, <1>7, <1>8

\* ... and leaves the others alone.
LEMMA SpawnsOne ==
  ASSUME TypeInv, NEW m, Spawn(m)
  PROVE  \A q \in Runs : \/ run'[q] = run[q]
                         \/ /\ run[q].pc = "unused" /\ run'[q].pc = "created"
                            /\ run'[q].msg = m
  <1>1. made + 1 \in Runs /\ run[made + 1].pc = "unused"
    BY ConstantsAssumption DEF Spawn, TypeInv, TypeOK, Ordered, Runs
  <1> DEFINE r == [NoRun EXCEPT !.pc = "created", !.msg = m]
  <1>2. r.pc = "created" /\ r.msg = m /\ run' = [run EXCEPT ![made + 1] = r]
    BY DEF Spawn, NoRun
  <1> HIDE DEF r
  <1> QED  BY <1>1, <1>2 DEF TypeInv, TypeOK

\* Nothing that orders the runs changes.
LEMMA LineStays ==
  ASSUME TypeInv, UNCHANGED <<run, made, line, ctx, steer>>
  PROVE  run' \in [Runs -> Run] /\ Ordered' /\ ContextAtHead'
  BY DEF TypeInv, TypeOK, Ordered, ContextAtHead

\* What a save makes of the history: answered stays within the messages.
LEMMA SaveTypes ==
  ASSUME TypeOK, NEW d \in Session, NEW more, more \subseteq Messages,
         Save(d, more)
  PROVE  db' \in Session /\ answered' \subseteq Messages
  BY DEF Save, TypeOK

\* A request on its way to the engine (submit_query, ensure_session_idle) keeps
\* the types.
LEMMA SendingTypes ==
  ASSUME TypeInv, Sending
  PROVE  TypeInv'
  <1> USE ConstantsAssumption DEF TypeInv
  <1>1. ASSUME NEW m \in Messages, ReadSession(m)
        PROVE  TypeInv'
    <2>1. Ordered' /\ ContextAtHead'
      BY <1>1, LineStays DEF ReadSession, steering
    <2>2. seen' \in [Messages -> {"none", "submit", "stale", "queue"}]
      BY <1>1 DEF ReadSession, Verdict, TypeOK
    <2>3. sends' \in 0 .. MaxSends
      BY <1>1 DEF ReadSession, TypeOK
    <2> QED  BY <1>1, <2>1, <2>2, <2>3
             DEF ReadSession, cancelling, steering, TypeOK, ContextAtHead
  <1>2. ASSUME NEW m \in Messages, Submit(m)
        PROVE  TypeInv'
    <2>1. /\ run' \in [Runs -> Run] /\ made' \in 0 .. MaxRuns
          /\ Ordered' /\ ContextAtHead'
      BY <1>2, Spawns DEF Submit, steering
    <2> QED  BY <1>2, <2>1
             DEF Submit, cancelling, steering, TypeOK, ContextAtHead
  <1>3. ASSUME NEW m \in Messages, EnsureIdle(m)
        PROVE  TypeInv'
    <2>1. Ordered' /\ ContextAtHead'
      BY <1>3, LineStays DEF EnsureIdle, steering
    <2>2. db' \in Session /\ answered' \subseteq Messages
      <3>1. [db EXCEPT !.status = "error"] \in Session
        BY DEF TypeOK, Session, Statuses
      <3>2. CASE UNCHANGED <<db, answered>>
        BY <3>2 DEF TypeOK
      <3>3. CASE Save([db EXCEPT !.status = "error"], {})
        BY <3>1, <3>3, SaveTypes
      <3> QED  BY <1>3, <3>2, <3>3 DEF EnsureIdle
    <2> QED  BY <1>3, <2>1, <2>2
             DEF EnsureIdle, cancelling, steering, TypeOK, ContextAtHead
  <1>4. ASSUME NEW m \in Messages, QueueMessage(m)
        PROVE  TypeInv'
    <2>1. /\ run' \in [Runs -> Run] /\ made' \in 0 .. MaxRuns
          /\ Ordered' /\ ContextAtHead'
      <3>1. CASE UNCHANGED <<run, made>>
        BY <1>4, <3>1, LineStays DEF QueueMessage, steering, TypeOK
      <3>2. CASE Spawn(m)
        BY <1>4, <3>2, Spawns DEF QueueMessage, steering
      <3> QED  BY <1>4, <3>1, <3>2 DEF QueueMessage
    <2>2. /\ seen' \in [Messages -> {"none", "submit", "stale", "queue"}]
          /\ queue' \in Messages \cup {NoMessage}
      BY <1>4 DEF QueueMessage, TypeOK
    <2> QED  BY <1>4, <2>1, <2>2
             DEF QueueMessage, cancelling, steering, TypeOK, ContextAtHead
  <1>5. ASSUME ClearQueued
        PROVE  TypeInv'
    <2>1. Ordered' /\ ContextAtHead'
      BY <1>5, LineStays DEF ClearQueued, steering
    <2> QED  BY <1>5, <2>1
             DEF ClearQueued, clients, cancelling, steering, TypeOK, ContextAtHead
  <1> QED  BY <1>1, <1>2, <1>3, <1>4, <1>5 DEF Sending

\* A cancel, up to its second save (cancel_query), keeps the types.
LEMMA CancellingTypes ==
  ASSUME TypeInv, Cancelling
  PROVE  TypeInv'
  <1> USE ConstantsAssumption DEF TypeInv
  <1> PICK c \in Cancels : \/ RequestCancel(c) \/ CancelClearsQueue(c)
                           \/ Rewind(c) \/ CancelSavesAgain(c)
    BY DEF Cancelling
  <1>1. Ordered' /\ ContextAtHead'
    BY LineStays DEF RequestCancel, CancelClearsQueue, Rewind, CancelSavesAgain,
                     steering
  <1>2. Fresh \in Session
    <2>1. <<>> \in Seq(Entry)
      OBVIOUS
    <2> QED  BY <2>1 DEF Fresh, Session, Statuses
  <1>3. cancel[c].copy \in Session /\ cancel[c] \in Cancel
    BY DEF TypeOK, Cancel
  <1>4. CASE RequestCancel(c)
    <2>1. cancel' \in [Cancels -> Cancel]
      BY <1>3, <1>4 DEF RequestCancel, TypeOK, Cancel
    <2> QED  BY <1>1, <1>4, <2>1
             DEF RequestCancel, clients, steering, TypeOK, ContextAtHead
  <1>5. CASE CancelClearsQueue(c)
    <2>1. cancel' \in [Cancels -> Cancel]
      BY <1>3, <1>5 DEF CancelClearsQueue, TypeOK, Cancel
    <2> QED  BY <1>1, <1>5, <2>1
             DEF CancelClearsQueue, clients, steering, TypeOK, ContextAtHead
  <1>6. CASE Rewind(c)
    <2>1. Rewound(db) \in Session
      BY RewoundRests DEF TypeOK
    <2>2. cancel' \in [Cancels -> Cancel]
      BY <1>2, <1>6, <2>1 DEF Rewind, TypeOK, Cancel
    <2>3. db' \in Session /\ answered' \subseteq Messages
      BY <1>6, <2>1 DEF Rewind, TakeBack, TypeOK
    <2> QED  BY <1>1, <1>6, <2>2, <2>3
             DEF Rewind, clients, steering, TypeOK, ContextAtHead
  <1>7. CASE CancelSavesAgain(c)
    <2>1. cancel' \in [Cancels -> Cancel]
      BY <1>2, <1>7 DEF CancelSavesAgain, TypeOK, Cancel
    <2>2. db' \in Session /\ answered' \subseteq Messages
      BY <1>3, <1>7 DEF CancelSavesAgain, TakeBack, TypeOK
    <2> QED  BY <1>1, <1>7, <2>1, <2>2
             DEF CancelSavesAgain, clients, steering, TypeOK, ContextAtHead
  <1> QED  BY <1>4, <1>5, <1>6, <1>7

\* A steer that takes a queued prompt into the running turn keeps the types.
LEMMA SteeringTypes ==
  ASSUME TypeInv, Steering
  PROVE  TypeInv'
  <1> USE ConstantsAssumption DEF TypeInv
  <1>1. CASE ClaimSteer
    <2>1. /\ ctx \in Runs /\ queue \in Messages /\ steers' \in 0 .. MaxSteers
      BY <1>1 DEF ClaimSteer, TypeOK, Runs
    <2>2. steer' \in Steer /\ steer'.run \in Runs /\ steer'.msg \in Messages
      BY <1>1, <2>1 DEF ClaimSteer, Steer, Runs
    <2>3. Ordered' /\ ContextAtHead'
      BY <1>1, <2>2 DEF ClaimSteer, TypeOK, Ordered, ContextAtHead
    <2> QED  BY <1>1, <2>1, <2>2, <2>3
             DEF ClaimSteer, clients, cancelling, TypeOK, ContextAtHead
  <1>n. NoSteer \in Steer
    BY DEF NoSteer, Steer
  <1>2. CASE SteerAccepted
    <2> DEFINE s == steer.run
               r == [run[s] EXCEPT !.copy.msgs = Asked(@, steer.msg)]
    <2>1. s \in Runs /\ steer.msg \in Messages
      BY <1>2 DEF SteerAccepted, Ordered
    <2>2. run[s] \in Run /\ run[s].copy \in Session /\ run[s].copy.msgs \in Seq(Entry)
      BY <2>1 DEF TypeOK, Run, Session
    <2>3. Asked(run[s].copy.msgs, steer.msg) \in Seq(Entry)
      BY <2>1, <2>2, AskedKeeps
    <2>4. r \in Run /\ r.pc = run[s].pc /\ r.msg = run[s].msg
      BY <2>2, <2>3 DEF Run, Session
    <2>5. run' = run \/ run' = [run EXCEPT ![s] = r]
      BY <1>2 DEF SteerAccepted
    <2> HIDE DEF s, r
    <2>6. /\ run' \in [Runs -> Run]
          /\ \A q \in Runs : run'[q].pc = run[q].pc /\ run'[q].msg = run[q].msg
      BY <2>1, <2>4, <2>5 DEF TypeOK
    <2>7. ctx # 0 => ctx \in Runs
      BY DEF TypeOK, Runs
    <2>8. Ordered' /\ ContextAtHead'
      BY <1>2, <2>6, <2>7 DEF SteerAccepted, TypeOK, Ordered, ContextAtHead
    <2> QED  BY <1>2, <1>n, <2>6, <2>8
             DEF SteerAccepted, clients, cancelling, TypeOK, ContextAtHead
  <1>3. CASE SteerRejected
    <2>1. Ordered' /\ ContextAtHead'
      BY <1>3 DEF SteerRejected, TypeOK, Ordered, ContextAtHead
    <2>2. queue' \in Messages \cup {NoMessage}
      BY <1>3 DEF SteerRejected, TypeOK, Ordered
    <2> QED  BY <1>3, <1>n, <2>1, <2>2
             DEF SteerRejected, clients, cancelling, TypeOK, ContextAtHead
  <1>4. CASE SteerRaises
    <2>1. Ordered' /\ ContextAtHead'
      BY <1>4 DEF SteerRaises, TypeOK, Ordered, ContextAtHead
    <2> QED  BY <1>4, <1>n, <2>1
             DEF SteerRaises, clients, cancelling, TypeOK, ContextAtHead
  <1> QED  BY <1>1, <1>2, <1>3, <1>4 DEF Steering
\* A step of a run, from its registration to its finalizer, keeps the types.
LEMMA RunningTypes ==
  ASSUME TypeInv, NEW s \in Runs,
         Advance(s) \/ PeriodicSave(s) \/ SaveRunningFails(s) \/ FinalSaveFails(s)
  PROVE  TypeInv'
  <1> USE ConstantsAssumption DEF TypeInv
  <1>r. /\ run[s] \in Run /\ run[s].copy \in Session
        /\ run[s].copy.msgs \in Seq(Entry) /\ run[s].copy.status \in Statuses
        /\ run[s].pc # "unused" /\ run[s].pc # "over" => run[s].msg \in Messages
    BY DEF TypeOK, Run, Session, Ordered
  <1>p. \A p \in Phases : [run[s] EXCEPT !.pc = p] \in Run
    BY <1>r DEF Run
  <1>c. ctx # 0 => ctx = Head(line) /\ run[ctx].pc \in Registered
    BY DEF TypeOK
  <1>1. CASE Begin(s)
    <2> DEFINE r == [run[s] EXCEPT !.pc = "waiting"]
    <2>1. r \in Run /\ r.pc = "waiting" /\ r.msg = run[s].msg
      BY <1>p, <1>r DEF Phases, Run
    <2>2. /\ run' = [run EXCEPT ![s] = r] /\ run[s].pc = "created"
          /\ line' = Append(line, s)
      BY <1>1 DEF Begin, Becomes
    <2> HIDE DEF r
    <2>3. /\ run' \in [Runs -> Run] /\ run'[s] = r
          /\ \A q \in Runs : q # s => run'[q] = run[q]
      BY <2>1, <2>2 DEF TypeOK
    <2>4. /\ line' \in Seq(Runs) /\ line' # <<>>
          /\ line # <<>> => Head(line') = Head(line)
      BY <2>2 DEF TypeOK
    <2>5. Ordered'
      BY <1>1, <2>1, <2>2, <2>3, <2>4
         DEF Begin, steering, Ordered, Held, Registered
    <2>6. ContextAtHead'
      <3>1. ctx # 0 => ctx \in Runs /\ ctx # s /\ line # <<>>
        BY <2>2 DEF TypeOK, Runs, Registered
      <3> QED  BY <1>1, <2>3, <2>4, <3>1 DEF Begin, TypeOK, ContextAtHead
    <2> QED  BY <1>1, <2>3, <2>4, <2>5, <2>6
             DEF Begin, clients, cancelling, steering, TypeOK, ContextAtHead
  <1>2. CASE Acknowledge(s)
    <2>1. /\ line # <<>> /\ Head(line) = s /\ run[s].pc = "waiting" /\ ctx = 0
          /\ UNCHANGED <<made, ctx, steer>>
      BY <1>2, <1>c DEF Acknowledge, Holds, Registered, steering
    <2>2. CASE Leave(s)
      <3>1. /\ run' \in [Runs -> Run] /\ Ordered' /\ ContextAtHead'
            /\ line' \in Seq(Runs)
        BY <2>1, <2>2, HeadLeaves
      <3> QED  BY <1>2, <3>1
               DEF Acknowledge, clients, cancelling, steering, TypeOK, ContextAtHead
    <2>3. CASE Becomes(s, "checked") /\ UNCHANGED line
      <3> DEFINE r == [run[s] EXCEPT !.pc = "checked"]
      <3>1. /\ r \in Run /\ r.pc = "checked" /\ r.msg = run[s].msg
            /\ run' = [run EXCEPT ![s] = r]
        BY <1>p, <1>r, <2>3 DEF Phases, Held, Registered, Run, Becomes
      <3> HIDE DEF r
      <3>2. run' \in [Runs -> Run] /\ Ordered' /\ ContextAtHead'
        BY <2>1, <2>3, <3>1, HeadMoves
      <3> QED  BY <1>2, <2>3, <3>2
               DEF Acknowledge, clients, cancelling, steering, TypeOK, ContextAtHead
    <2> QED  BY <1>2, <2>2, <2>3 DEF Acknowledge
  <1>3. CASE Load(s)
    <2>1. /\ line # <<>> /\ Head(line) = s /\ run[s].pc = "checked" /\ ctx = 0
          /\ UNCHANGED <<line, made, ctx, steer>>
      BY <1>3, <1>c DEF Load, Holds, Registered, steering
    <2> DEFINE r == [[run[s] EXCEPT !.pc = "loaded"] EXCEPT !.copy = db]
    <2>2. /\ r \in Run /\ r.pc = "loaded" /\ r.msg = run[s].msg
          /\ run' = [run EXCEPT ![s] = r]
      <3>1. db \in Session /\ "loaded" \in Phases
        BY DEF TypeOK, Phases, Held
      <3>2. r \in Run /\ r.pc = "loaded" /\ r.msg = run[s].msg
        BY <1>r, <3>1 DEF Run
      <3>3. run' = [run EXCEPT ![s] = r]
        BY <1>3 DEF Load, TypeOK
      <3> QED  BY <3>2, <3>3
    <2> HIDE DEF r
    <2>3. run' \in [Runs -> Run] /\ Ordered' /\ ContextAtHead'
      BY <2>1, <2>2, HeadMoves
    <2> QED  BY <1>3, <2>3
             DEF Load, clients, cancelling, steering, TypeOK, ContextAtHead
  <1>4. CASE Start(s)
    <2>1. /\ line # <<>> /\ Head(line) = s /\ run[s].pc = "loaded" /\ ctx = 0
          /\ UNCHANGED <<made, steer>>
      BY <1>4, <1>c DEF Start, Holds, Registered, steering
    <2>2. CASE Leave(s) /\ active' = FALSE /\ UNCHANGED ctx
      <3>1. /\ run' \in [Runs -> Run] /\ Ordered' /\ ContextAtHead'
            /\ line' \in Seq(Runs)
        BY <2>1, <2>2, HeadLeaves
      <3> QED  BY <1>4, <2>2, <3>1
               DEF Start, clients, cancelling, steering, TypeOK, ContextAtHead
    <2>3. CASE /\ run' = [run EXCEPT ![s] = Started(run[s])]
               /\ active' = TRUE /\ ctx' = s /\ UNCHANGED line
      <3> DEFINE r == Started(run[s])
                 ms == run[s].copy.msgs
                 new == IF Has(ms, run[s].msg) THEN ms ELSE Asked(ms, run[s].msg)
      <3>1. new \in Seq(Entry)
        BY <1>r, <2>1, AskedKeeps
      <3> DEFINE copy == [run[s].copy EXCEPT !.status = "running", !.msgs = new]
      <3>2. r = [run[s] EXCEPT !.pc = "started", !.copy = copy]
        BY <1>r DEF Started, Run
      <3> HIDE DEF new
      <3>c. copy \in Session
        BY <1>r, <3>1 DEF Session, Statuses
      <3> HIDE DEF copy
      <3>3. /\ r \in Run /\ r.pc = "started" /\ r.msg = run[s].msg
        <4>1. "started" \in Phases
          BY DEF Phases, Held, Registered
        <4> HIDE DEF r
        <4> QED  BY <1>r, <3>2, <3>c, <4>1 DEF Run
      <3>4. run' = [run EXCEPT ![s] = r]
        BY <2>3
      <3> HIDE DEF r
      <3>5. run' \in [Runs -> Run] /\ Ordered' /\ ContextAtHead'
        BY <2>1, <2>3, <3>3, <3>4, HeadMoves DEF Registered
      <3> QED  BY <1>4, <2>3, <3>5
               DEF Start, clients, cancelling, steering, TypeOK, ContextAtHead, Runs
    <2> QED  BY <1>4, <2>2, <2>3 DEF Start
  <1>5. CASE SaveRunning(s)
    <2>1. /\ line # <<>> /\ Head(line) = s /\ run[s].pc = "started"
          /\ UNCHANGED <<line, made, ctx, steer>>
      BY <1>5 DEF SaveRunning, Holds, steering
    <2> DEFINE r == [run[s] EXCEPT !.pc = "streaming"]
    <2>2. /\ r \in Run /\ r.pc = "streaming" /\ r.msg = run[s].msg
          /\ run' = [run EXCEPT ![s] = r]
      BY <1>5, <1>p, <1>r DEF SaveRunning, Becomes, Phases, Held, Registered, Run
    <2> HIDE DEF r
    <2>3. run' \in [Runs -> Run] /\ Ordered' /\ ContextAtHead'
      BY <1>c, <2>1, <2>2, HeadMoves DEF Registered
    <2>4. db' \in Session /\ answered' \subseteq Messages
      BY <1>5, <1>r, SaveTypes DEF SaveRunning
    <2> QED  BY <1>5, <2>3, <2>4
             DEF SaveRunning, clients, cancelling, steering, TypeOK, ContextAtHead
  <1>6. ASSUME NEW o \in {"result", "error", "broken"}, StreamEnds(s, o)
        PROVE  TypeInv'
    <2>1. /\ line # <<>> /\ Head(line) = s /\ run[s].pc = "streaming"
          /\ UNCHANGED <<line, made, ctx, steer>>
      BY <1>6 DEF StreamEnds, Holds, steering
    <2> DEFINE copy == IF o = "broken" THEN run[s].copy
                       ELSE [run[s].copy EXCEPT !.msgs = Replied(@)]
               pc == IF o = "broken" /\ flag THEN "finishing" ELSE "concluding"
               r == [run[s] EXCEPT !.copy = copy, !.out = o, !.pc = pc]
    <2>2. copy \in Session
      BY <1>r, RepliedKeeps DEF Session
    <2>3. run' = [run EXCEPT ![s] = r]
      BY <1>6, <1>r DEF StreamEnds, TypeOK
    <2>4. /\ (o # "broken" /\ ~flag /\ Save(copy, {})) \/ UNCHANGED <<db, answered>>
          /\ hidden' \subseteq hidden \cup {run[s].msg}
      BY <1>6 DEF StreamEnds
    <2>5. pc \in {"finishing", "concluding"}
      OBVIOUS
    <2> HIDE DEF copy, pc
    <2>6. /\ r \in Run /\ r.pc = pc /\ r.msg = run[s].msg
      BY <1>r, <2>2, <2>5 DEF Run, Phases, Held, Registered, Results
    <2> HIDE DEF r
    <2>7. run' \in [Runs -> Run] /\ Ordered' /\ ContextAtHead'
      BY <1>c, <2>1, <2>3, <2>5, <2>6, HeadMoves DEF Registered
    <2>8. db' \in Session /\ answered' \subseteq Messages
      BY <2>2, <2>4, SaveTypes DEF TypeOK
    <2>9. hidden' \subseteq Messages
      BY <1>r, <2>1, <2>4 DEF TypeOK
    <2> QED  BY <1>6, <2>7, <2>8, <2>9
             DEF StreamEnds, clients, cancelling, steering, TypeOK, ContextAtHead
  <1>7. CASE Conclude(s)
    <2>1. /\ line # <<>> /\ Head(line) = s /\ run[s].pc = "concluding"
          /\ UNCHANGED <<line, made, ctx, steer>>
      BY <1>7 DEF Conclude, Holds, steering
    <2> DEFINE status == IF flag THEN run[s].copy.status
                         ELSE IF run[s].out = "result" THEN "idle" ELSE "error"
               r == [run[s] EXCEPT !.pc = "finishing", !.copy.status = status]
    <2>2. run' = [run EXCEPT ![s] = r]
      BY <1>7, <1>r DEF Conclude, TypeOK, Run, Session
    <2>3. status \in Statuses
      BY <1>r DEF Statuses
    <2> HIDE DEF status
    <2>4. /\ r \in Run /\ r.pc = "finishing" /\ r.msg = run[s].msg
      BY <1>r, <2>3 DEF Run, Session, Phases, Held, Registered
    <2> HIDE DEF r
    <2>5. run' \in [Runs -> Run] /\ Ordered' /\ ContextAtHead'
      BY <1>c, <2>1, <2>2, <2>4, HeadMoves DEF Registered
    <2> QED  BY <1>7, <2>5
             DEF Conclude, clients, cancelling, steering, TypeOK, ContextAtHead
  <1>8. CASE Finalize(s)
    <2>1. /\ line # <<>> /\ Head(line) = s /\ run[s].pc = "finishing" /\ ctx' = 0
          /\ UNCHANGED <<made, steer>> /\ skipped' \subseteq {"dropped", "restored"}
      BY <1>8 DEF Finalize, Holds, steering, TypeOK
    <2>t. /\ active' = FALSE /\ flag' = FALSE
          /\ UNCHANGED <<db, queue, connected, seen, sends, cancel, targets,
                         steer, steers, faults, answered, hidden, made>>
      BY <1>8 DEF Finalize, clients, cancelling, steering
    <2>0. ctx' \in 0 .. MaxRuns
      BY <2>1 DEF TypeOK
    <2>2. CASE Leave(s)
      <3>1. /\ run' \in [Runs -> Run] /\ Ordered' /\ ContextAtHead'
            /\ line' \in Seq(Runs)
        BY <2>1, <2>2, HeadLeaves
      <3> QED  BY <2>0, <2>1, <2>t, <3>1 DEF TypeOK, ContextAtHead
    <2>3. CASE Becomes(s, "saving") /\ UNCHANGED line
      <3> DEFINE r == [run[s] EXCEPT !.pc = "saving"]
      <3>1. /\ r \in Run /\ r.pc = "saving" /\ r.msg = run[s].msg
            /\ run' = [run EXCEPT ![s] = r]
        BY <1>p, <1>r, <2>3 DEF Phases, Held, Registered, Run, Becomes
      <3> HIDE DEF r
      <3>2. run' \in [Runs -> Run] /\ Ordered' /\ ContextAtHead'
        BY <2>1, <2>3, <3>1, HeadMoves
      <3> QED  BY <2>0, <2>1, <2>3, <2>t, <3>2 DEF TypeOK, ContextAtHead
    <2> QED  BY <1>8, <2>2, <2>3 DEF Finalize
  <1>9. CASE FinalSave(s)
    <2>1. /\ line # <<>> /\ Head(line) = s /\ run[s].pc = "saving" /\ ctx = 0
          /\ UNCHANGED <<line, made, ctx, steer>>
      BY <1>9, <1>c DEF FinalSave, Holds, Registered, steering
    <2> DEFINE r == [run[s] EXCEPT !.pc = "draining"]
    <2>2. /\ r \in Run /\ r.pc = "draining" /\ r.msg = run[s].msg
          /\ run' = [run EXCEPT ![s] = r]
      BY <1>9, <1>p, <1>r DEF FinalSave, Becomes, Phases, Held, Registered, Run
    <2> HIDE DEF r
    <2>3. run' \in [Runs -> Run] /\ Ordered' /\ ContextAtHead'
      BY <2>1, <2>2, HeadMoves
    <2>4. db' \in Session /\ answered' \subseteq Messages
      <3>1. (IF run[s].out = "broken" THEN {} ELSE {run[s].msg}) \subseteq Messages
        BY <1>r, <2>1
      <3> QED  BY <1>9, <1>r, <3>1, SaveTypes DEF FinalSave
    <2> QED  BY <1>9, <2>3, <2>4
             DEF FinalSave, clients, cancelling, steering, TypeOK, ContextAtHead
  <1>10. CASE Drain(s)
    <2>1. /\ line # <<>> /\ Head(line) = s /\ run[s].pc = "draining" /\ ctx = 0
          /\ UNCHANGED <<ctx, steer>> /\ line' = Tail(line) /\ line' \in Seq(Runs)
      BY <1>10, <1>c DEF Drain, Holds, Registered, steering, TypeOK
    <2>2. CASE queue = NoMessage
      <3>1. Leave(s) /\ made' = made
        BY <1>10, <2>2 DEF Drain, Leave
      <3>2. run' \in [Runs -> Run] /\ Ordered' /\ ContextAtHead'
        BY <2>1, <3>1, HeadLeaves
      <3> QED  BY <1>10, <2>1, <3>1, <3>2
               DEF Drain, clients, cancelling, steering, TypeOK, ContextAtHead
    <2>3. CASE queue # NoMessage
      <3> DEFINE n == made + 1
                 r == [NoRun EXCEPT !.pc = "created", !.msg = queue]
      <3>1. /\ n \in Runs /\ run[n].pc = "unused" /\ made' = n
            /\ run' = [run EXCEPT ![s] = Over, ![n] = r] /\ queue \in Messages
        BY SMTT(30), <1>10, <2>3 DEF Drain, TypeOK, Ordered, Runs
      <3>2. /\ r \in Run /\ r.pc = "created" /\ r.msg = queue
            /\ Over \in Run /\ Over.pc = "over"
            /\ "created" \notin Held /\ "over" \notin Held
        <4>1. <<>> \in Seq(Entry)
          OBVIOUS
        <4> QED  BY <3>1, <4>1 DEF Over, NoRun, Run, Phases, Held, Registered,
                                   Fresh, Session, Statuses
      <3>3. n # s
        BY <2>1, <3>1
      <3> HIDE DEF r
      <3>4. \A q \in Runs : q > n => q > made /\ q # n
        BY DEF Runs, TypeOK
      <3>m. n \in 0 .. MaxRuns
        BY <3>1 DEF Runs
      <3> HIDE DEF n
      <3>5. /\ run' \in [Runs -> Run] /\ run'[n] = r /\ run'[s] = Over
            /\ \A q \in Runs : q # n /\ q # s => run'[q] = run[q]
        BY <3>1, <3>2, <3>3 DEF TypeOK
      <3>6. \A q \in Runs : run'[q].pc \notin Held
        BY <2>1, <3>2, <3>5 DEF Ordered
      <3>7. \A q \in Runs : q > made' => run'[q].pc = "unused"
        <4>1. \A q \in Runs : q > made' => run[q].pc = "unused" /\ q # n
          BY <3>1, <3>4 DEF Ordered
        <4> QED  BY <2>1, <3>5, <4>1
      <3>8. \A q \in Runs : run'[q].pc \notin {"unused", "over"} =>
                              run'[q].msg \in Messages
        BY <3>1, <3>2, <3>5 DEF Ordered
      <3>9. Ordered'
        BY <2>1, <3>6, <3>7, <3>8 DEF Ordered
      <3> QED  BY <1>10, <2>1, <3>1, <3>5, <3>9, <3>m
               DEF Drain, clients, cancelling, steering, TypeOK
    <2> QED  BY <2>2, <2>3
  <1>11. CASE PeriodicSave(s)
    <2>1. Ordered' /\ ContextAtHead'
      BY <1>11, LineStays DEF PeriodicSave, steering
    <2>2. db' \in Session /\ answered' \subseteq Messages
      BY <1>11, <1>r, SaveTypes DEF PeriodicSave
    <2> QED  BY <1>11, <2>1, <2>2
             DEF PeriodicSave, clients, cancelling, steering, TypeOK, ContextAtHead
  <1>12. CASE SaveRunningFails(s)
    <2>1. /\ line # <<>> /\ Head(line) = s /\ run[s].pc = "started"
          /\ UNCHANGED <<line, made, ctx, steer>> /\ faults' \in 0 .. MaxFaults
      BY <1>12 DEF SaveRunningFails, Holds, steering, TypeOK
    <2> DEFINE r == [run[s] EXCEPT !.pc = "concluding", !.out = "broken"]
    <2>2. /\ r \in Run /\ r.pc = "concluding" /\ r.msg = run[s].msg
          /\ run' = [run EXCEPT ![s] = r]
      BY <1>12, <1>r DEF SaveRunningFails, Phases, Held, Registered, Run, TypeOK
    <2> HIDE DEF r
    <2>3. run' \in [Runs -> Run] /\ Ordered' /\ ContextAtHead'
      BY <1>c, <2>1, <2>2, HeadMoves DEF Registered
    <2> QED  BY <1>12, <2>1, <2>3
             DEF SaveRunningFails, clients, cancelling, steering, TypeOK, ContextAtHead
  <1>13. CASE FinalSaveFails(s)
    <2>1. /\ line # <<>> /\ Head(line) = s /\ run[s].pc = "saving" /\ ctx = 0
          /\ UNCHANGED <<made, ctx, steer>> /\ faults' \in 0 .. MaxFaults
          /\ Leave(s)
      BY <1>13, <1>c DEF FinalSaveFails, Holds, Registered, steering, TypeOK
    <2>2. /\ run' \in [Runs -> Run] /\ Ordered' /\ ContextAtHead'
          /\ line' \in Seq(Runs)
      BY <2>1, HeadLeaves
    <2> QED  BY <1>13, <2>1, <2>2
             DEF FinalSaveFails, clients, cancelling, steering, TypeOK, ContextAtHead
  <1> QED  BY <1>1, <1>2, <1>3, <1>4, <1>5, <1>6, <1>7, <1>8, <1>9, <1>10, <1>11,
              <1>12, <1>13 DEF Advance

\* A restart, with the recovery that follows it, keeps the types.
LEMMA RestartTypes ==
  ASSUME TypeInv, Restart
  PROVE  TypeInv'
  <1> USE ConstantsAssumption DEF TypeInv
  <1>1. /\ NoRun \in Run /\ Over \in Run /\ Over.pc = "over" /\ NoRun.pc = "unused"
        /\ Fresh \in Session
    <2>1. <<>> \in Seq(Entry)
      OBVIOUS
    <2> QED  BY <2>1 DEF Over, NoRun, Run, Phases, Held, Registered, Fresh, Session,
                         Statuses
  <1>2. run' = [s \in Runs |-> IF run[s].pc = "unused" THEN NoRun ELSE Over]
    BY DEF Restart
  <1>3. run' \in [Runs -> Run]
    BY <1>1, <1>2
  <1>4. Ordered'
    <2>1. \A q \in Runs : run'[q].pc \in {"unused", "over"}
      BY <1>1, <1>2
    <2>2. \A q \in Runs : q > made => run'[q].pc = "unused"
      BY <1>1, <1>2 DEF Ordered
    <2> QED  BY <2>1, <2>2 DEF Restart, Ordered, Held, Registered
  <1>5. cancel' \in [Cancels -> Cancel]
    BY <1>1 DEF Restart, TypeOK, Cancel
  <1>6. db' \in Session
    BY DEF Restart, TypeOK, Session, Statuses
  <1>7. NoSteer \in Steer /\ <<>> \in Seq(Runs)
    BY DEF NoSteer, Steer
  <1>8. /\ seen' \in [Messages -> {"none", "submit", "stale", "queue"}]
        /\ faults' \in 0 .. MaxFaults /\ made' \in 0 .. MaxRuns
    BY DEF Restart, TypeOK
  <1>9. 0 \in 0 .. MaxRuns
    OBVIOUS
  <1>10. /\ line' = <<>> /\ ctx' = 0 /\ queue' = NoMessage
         /\ flag' = FALSE /\ active' = FALSE /\ connected' = FALSE /\ steer' = NoSteer
         /\ UNCHANGED <<made, sends, steers, skipped, answered, hidden, targets>>
    BY DEF Restart
  <1> QED  BY <1>3, <1>4, <1>5, <1>6, <1>7, <1>8, <1>9, <1>10 DEF TypeOK

\* Every step keeps the types.
LEMMA TypeInvStep ==
  ASSUME TypeInv, [Next]_vars
  PROVE  TypeInv'
  <1>1. CASE Disconnect
    <2>1. Ordered' /\ ContextAtHead'
      BY <1>1, LineStays DEF Disconnect, steering
    <2> QED  BY <1>1, <2>1
             DEF Disconnect, clients, cancelling, steering, TypeInv, TypeOK, ContextAtHead
  <1>2. CASE UNCHANGED vars
    BY <1>2 DEF vars, TypeInv, TypeOK, Ordered
  <1>3. CASE Running
    BY <1>3, RunningTypes DEF Running
  <1> QED  BY <1>1, <1>2, <1>3, SendingTypes, CancellingTypes, SteeringTypes,
              RestartTypes DEF Next
-----------------------------------------------------------------------------
(* The queue                                                               *)

\* A phase the queue can count on.
Serving == Registered \cup {"saving", "draining"}

\* A run that only goes on within these phases keeps the queue served, and so
\* does a step that leaves the runs alone.
LEMMA ServedStays ==
  ASSUME QueueIsServed, queue' = queue \/ queue' = NoMessage,
         skipped \subseteq skipped',
         \A q \in Runs : run[q].pc \in Serving => run'[q].pc \in Serving
  PROVE  QueueIsServed'
  BY DEF QueueIsServed, Draining, Serving

\* A step of a run leaves nobody in the queue unserved.
LEMMA RunningServed ==
  ASSUME TypeInv, QueueIsServed, NEW s \in Runs,
         Advance(s) \/ PeriodicSave(s) \/ SaveRunningFails(s) \/ FinalSaveFails(s)
  PROVE  QueueIsServed'
  <1> USE DEF TypeInv, Serving, Registered
  <1>1. CASE Begin(s) \/ Acknowledge(s) \/ Load(s) \/ Start(s)
    <2>1. /\ run[s].pc \notin Serving
          /\ \A q \in Runs : q # s => run'[q] = run[q]
          /\ UNCHANGED <<queue, skipped>>
      BY <1>1 DEF Begin, Acknowledge, Load, Start, Holds, Becomes, Leave, TypeOK
    <2> QED  BY <2>1, ServedStays
  <1>2. CASE SaveRunning(s)
    <2>1. run'[s].pc = "streaming"
      BY <1>2 DEF SaveRunning, Becomes, TypeOK, Run
    <2> QED  BY <2>1 DEF QueueIsServed, Draining
  <1>3. ASSUME \/ Conclude(s) \/ FinalSave(s) \/ PeriodicSave(s)
               \/ SaveRunningFails(s)
               \/ \E o \in {"result", "error", "broken"} : StreamEnds(s, o)
        PROVE  QueueIsServed'
    <2>1. /\ run'[s].pc \in Serving \/ run' = run
          /\ \A q \in Runs : q # s => run'[q] = run[q]
          /\ UNCHANGED <<queue, skipped>>
      BY <1>3 DEF Conclude, FinalSave, PeriodicSave, SaveRunningFails, StreamEnds,
                  Becomes, TypeOK, Run
    <2> QED  BY <2>1, ServedStays
  <1>4. CASE Finalize(s)
    <2>1. CASE flag
      BY <1>4, <2>1 DEF Finalize, QueueIsServed
    <2>2. CASE ~flag
      <3>1. run'[s].pc = "saving"
        BY <1>4, <2>2 DEF Finalize, Becomes, TypeOK, Run
      <3> QED  BY <3>1 DEF QueueIsServed, Draining
    <2> QED  BY <2>1, <2>2
  <1>5. CASE FinalSaveFails(s)
    BY <1>5 DEF FinalSaveFails, QueueIsServed
  <1>6. CASE Drain(s)
    BY <1>6 DEF Drain, QueueIsServed
  <1> QED  BY <1>1, <1>2, <1>3, <1>4, <1>5, <1>6 DEF Advance

\* Every step leaves somebody to serve the queue, if anybody is in it.
LEMMA ServedStep ==
  ASSUME TypeInv, QueueIsServed, [Next]_vars
  PROVE  QueueIsServed'
  <1> USE DEF TypeInv
  <1>1. CASE Sending
    <2>1. ASSUME NEW m \in Messages, ReadSession(m) \/ EnsureIdle(m)
          PROVE  QueueIsServed'
      BY <2>1, ServedStays DEF ReadSession, EnsureIdle
    <2>2. ASSUME NEW m \in Messages, Submit(m)
          PROVE  QueueIsServed'
      <3>1. \A q \in Runs : run[q].pc \in Serving => run'[q].pc \in Serving
        BY <2>2, SpawnsOne DEF Submit, Serving, Registered
      <3> QED  BY <2>2, <3>1, ServedStays DEF Submit
    <2>3. ASSUME NEW m \in Messages, QueueMessage(m)
          PROVE  QueueIsServed'
      <3>1. CASE ~connected
        BY <2>3, <3>1, ServedStays DEF QueueMessage
      <3>2. CASE ctx = 0 /\ connected
        <4>1. \A q \in Runs : run[q].pc \in Serving => run'[q].pc \in Serving
          BY <2>3, <3>2, SpawnsOne DEF QueueMessage, Serving, Registered
        <4> QED  BY <2>3, <3>2, <4>1, ServedStays DEF QueueMessage
      <3>3. CASE ctx # 0 /\ connected
        <4>1. ctx \in Runs /\ run'[ctx].pc \in Registered
          BY <2>3, <3>3 DEF QueueMessage, TypeOK, Runs
        <4> QED  BY <4>1 DEF QueueIsServed, Draining
      <3> QED  BY <3>1, <3>2, <3>3
    <2>4. ASSUME ClearQueued
          PROVE  QueueIsServed'
      BY <2>4, ServedStays DEF ClearQueued
    <2> QED  BY <1>1, <2>1, <2>2, <2>3, <2>4 DEF Sending
  <1>2. CASE Running
    BY <1>2, RunningServed DEF Running
  <1>3. CASE Cancelling
    BY <1>3, ServedStays
       DEF Cancelling, RequestCancel, CancelClearsQueue, Rewind, CancelSavesAgain
  <1>4. CASE Steering
    <2>1. CASE ClaimSteer \/ SteerRaises
      BY <2>1, ServedStays DEF ClaimSteer, SteerRaises
    <2>2. CASE SteerAccepted
      <3>1. \A q \in Runs : run'[q].pc = run[q].pc
        BY <2>2 DEF SteerAccepted, TypeOK, Run
      <3> QED  BY <2>2, <3>1, ServedStays DEF SteerAccepted
    <2>3. CASE SteerRejected
      BY <2>3 DEF SteerRejected, QueueIsServed
    <2> QED  BY <1>4, <2>1, <2>2, <2>3 DEF Steering
  <1>5. CASE Disconnect \/ UNCHANGED vars
    BY <1>5, ServedStays DEF Disconnect, vars
  <1>6. CASE Restart
    BY <1>6 DEF Restart, QueueIsServed
  <1> QED  BY <1>1, <1>2, <1>3, <1>4, <1>5, <1>6 DEF Next

-----------------------------------------------------------------------------
(* Marks                                                                   *)

\* Runs that keep their phase and the status of their copy.
LEMMA CopiesStay ==
  ASSUME CopiesTold, UNCHANGED cancel, flag => flag',
         \A q \in Runs : /\ run'[q].pc \in {"finishing", "saving"} => run[q].pc = run'[q].pc
                         /\ run[q].pc = run'[q].pc =>
                              run'[q].copy.status = run[q].copy.status
  PROVE  CopiesTold'
  BY DEF CopiesTold

\* A step of a run keeps the marks of the session true (status, _running,
\* active_contexts).
LEMMA RunningTold ==
  ASSUME TypeInv, TypeInv', Told, NEW s \in Runs,
         Advance(s) \/ PeriodicSave(s) \/ SaveRunningFails(s) \/ FinalSaveFails(s)
  PROVE  Told'
  <1> USE DEF TypeInv, Registered, Told, ActiveTold
  <1>r. run[s] \in Run /\ run[s].copy \in Session
    BY DEF TypeOK, Run
  <1>h. \A p : Holds(s, p) => line # <<>> /\ Head(line) = s /\ run[s].pc = p
    BY DEF Holds
  <1>1. CASE Begin(s)
    <2>1. /\ run' = [run EXCEPT ![s].pc = "waiting"] /\ run[s].pc = "created"
          /\ line' = Append(line, s) /\ active'
          /\ UNCHANGED <<db, cancel, flag, skipped>>
      BY <1>1 DEF Begin, Becomes, cancelling
    <2>2. line # <<>> => Head(line') = Head(line) /\ Head(line) \in Runs
      BY <2>1 DEF TypeOK
    <2>3. /\ run'[s].pc = "waiting"
          /\ \A q \in Runs : q # s => run'[q] = run[q]
      BY <2>1 DEF TypeOK, Run
    <2>4. line' # <<>>
      BY <2>1 DEF TypeOK
    <2>5. RowTold'
      BY <2>1, <2>2, <2>3, <2>4 DEF RowTold, Writing
    <2>6. CopiesTold'
      BY <2>1, <2>3, CopiesStay
    <2> QED  BY <2>1, <2>5, <2>6
  <1>2. CASE Acknowledge(s) \/ Load(s) \/ Start(s)
    <2>1. /\ line # <<>> /\ Head(line) = s /\ ctx = 0
          /\ run[s].pc \in {"waiting", "checked", "loaded"}
          /\ UNCHANGED <<db, cancel, flag, skipped>>
      BY <1>2, <1>h DEF Acknowledge, Load, Start, cancelling, TypeOK
    <2>2. RowTold'
      BY <2>1 DEF RowTold, Writing
    <2>3. /\ \A q \in Runs : q # s => run'[q] = run[q]
          /\ run'[s].pc \in {"checked", "loaded", "started", "over"}
          /\ run'[s].pc # run[s].pc
      <3>1. Over.pc = "over"
        BY DEF Over, NoRun
      <3>2. CASE Leave(s)
        BY <2>1, <3>1, <3>2 DEF Leave, TypeOK
      <3>3. CASE Becomes(s, "checked") /\ run[s].pc = "waiting"
        BY <1>r, <3>3 DEF Becomes, TypeOK, Run
      <3>4. CASE Load(s)
        BY <1>h, <1>r, <3>4 DEF Load, TypeOK, Run
      <3>5. CASE run' = [run EXCEPT ![s] = Started(run[s])] /\ run[s].pc = "loaded"
        <4>1. Started(run[s]).pc = "started"
          BY <1>r DEF Started, Run
        <4> QED  BY <3>5, <4>1 DEF TypeOK
      <3> QED  BY <1>2, <1>h, <3>2, <3>3, <3>4, <3>5 DEF Acknowledge, Start
    <2>4. CopiesTold'
      BY <2>1, <2>3, CopiesStay
    <2>5. ctx' # 0 => active'
      BY <1>2, <2>1 DEF Acknowledge, Load, Start
    <2> QED  BY <2>2, <2>4, <2>5
  <1>3. CASE SaveRunning(s)
    <2>1. /\ run' = [run EXCEPT ![s].pc = "streaming"]
          /\ UNCHANGED <<line, ctx, active, cancel, flag>>
          /\ line # <<>> /\ Head(line) = s /\ run[s].pc = "started"
      BY <1>3, <1>h DEF SaveRunning, Becomes, cancelling
    <2>2. /\ run'[s].pc = "streaming"
          /\ \A q \in Runs : q # s => run'[q] = run[q]
      BY <2>1 DEF TypeOK, Run
    <2>3. RowTold'
      BY <2>1, <2>2 DEF RowTold, Writing
    <2>4. CopiesTold'
      BY <2>1, <2>2, CopiesStay
    <2> QED  BY <2>1, <2>3, <2>4
  <1>4. ASSUME NEW o \in {"result", "error", "broken"}, StreamEnds(s, o)
        PROVE  Told'
    <2>1. /\ UNCHANGED <<line, ctx, active, cancel, flag>>
          /\ line # <<>> /\ Head(line) = s /\ run[s].pc = "streaming"
          /\ \A q \in Runs : q # s => run'[q] = run[q]
          /\ run'[s].pc = IF o = "broken" /\ flag THEN "finishing" ELSE "concluding"
      BY SMTT(30), <1>4, <1>h DEF StreamEnds, cancelling, TypeOK, Run
    <2>3. RowTold'
      BY <2>1 DEF RowTold, Writing
    <2>4. CopiesTold'
      BY <2>1 DEF CopiesTold
    <2> QED  BY <2>1, <2>3, <2>4
  <1>5. CASE Conclude(s)
    <2>1. /\ UNCHANGED <<db, line, ctx, active, cancel, flag, skipped>>
          /\ line # <<>> /\ Head(line) = s /\ run[s].pc = "concluding"
          /\ \A q \in Runs : q # s => run'[q] = run[q]
          /\ run'[s].pc = "finishing"
          /\ ~flag => run'[s].copy.status # "running"
      BY <1>5, <1>h, <1>r DEF Conclude, cancelling, TypeOK, Run, Session
    <2>3. RowTold'
      BY <2>1 DEF RowTold, Writing
    <2>4. CopiesTold'
      BY <2>1 DEF CopiesTold
    <2> QED  BY <2>1, <2>3, <2>4
  <1>6. CASE Finalize(s)
    <2>1. /\ UNCHANGED <<db, cancel>> /\ ctx' = 0
          /\ line # <<>> /\ Head(line) = s /\ run[s].pc = "finishing"
          /\ \A q \in Runs : q # s => run'[q] = run[q] /\ run[q].pc \notin Held
      BY <1>6, <1>h DEF Finalize, Becomes, Leave, cancelling, TypeOK, Ordered
    <2>2. CASE flag
      <3>1. "dropped" \in skipped' /\ run'[s].pc = "over"
        BY <1>6, <2>2 DEF Finalize, Leave, Over, NoRun, TypeOK
      <3>2. RowTold'
        BY <3>1 DEF RowTold
      <3>3. CopiesTold'
        BY <2>1, <3>1 DEF CopiesTold, Held
      <3> QED  BY <2>1, <3>2, <3>3
    <2>3. CASE ~flag
      <3>1. /\ UNCHANGED <<skipped, line>> /\ run'[s].pc = "saving"
            /\ run'[s].copy = run[s].copy
        BY <1>6, <2>3 DEF Finalize, Becomes, TypeOK, Run
      <3>2. RowTold'
        BY <2>1, <3>1 DEF RowTold, Writing
      <3>3. CopiesTold'
        BY <2>1, <2>3, <3>1 DEF CopiesTold, Held
      <3> QED  BY <2>1, <3>2, <3>3
    <2> QED  BY <2>2, <2>3
  <1>7. CASE FinalSave(s)
    <2>1. /\ UNCHANGED <<line, ctx, active, cancel, flag, skipped>>
          /\ run[s].pc = "saving" /\ db' = run[s].copy
          /\ \A q \in Runs : q # s => run'[q] = run[q]
          /\ run'[s].pc = "draining"
      BY <1>7, <1>h DEF FinalSave, Save, Becomes, cancelling, TypeOK, Run
    <2>2. RowTold'
      BY <2>1 DEF RowTold, CopiesTold
    <2>3. CopiesTold'
      BY <2>1, CopiesStay
    <2> QED  BY <2>1, <2>2, <2>3
  <1>8. CASE Drain(s)
    <2>1. /\ UNCHANGED <<db, ctx, active, cancel, flag, skipped>>
          /\ run[s].pc = "draining" /\ line # <<>> /\ Head(line) = s
      BY <1>8, <1>h DEF Drain, cancelling
    <2>2. RowTold'
      BY <2>1 DEF RowTold, Writing
    <2>3. \A q \in Runs : \/ run'[q] = run[q]
                          \/ run'[q].pc \in {"over", "created"} /\ run[q].pc # run'[q].pc
      <3>1. CASE queue = NoMessage
        BY <1>8, <2>1, <3>1 DEF Drain, Over, NoRun, TypeOK
      <3>2. CASE queue # NoMessage
        <4>1. made + 1 \in Runs /\ run[made + 1].pc = "unused"
          BY SMTT(30), <1>8, <3>2, ConstantsAssumption DEF Drain, TypeOK, Ordered, Runs
        <4>2. /\ run' = [run EXCEPT ![s] = Over,
                           ![made + 1] = [NoRun EXCEPT !.pc = "created", !.msg = queue]]
          BY <1>8, <3>2 DEF Drain
        <4>3. Over.pc = "over" /\ [NoRun EXCEPT !.pc = "created", !.msg = queue].pc = "created"
          BY DEF Over, NoRun
        <4> QED  BY <2>1, <4>1, <4>2, <4>3 DEF TypeOK
      <3> QED  BY <3>1, <3>2
    <2>4. CopiesTold'
      BY <2>1, <2>3, CopiesStay
    <2> QED  BY <2>1, <2>2, <2>4
  <1>9. CASE PeriodicSave(s)
    <2>1. /\ UNCHANGED <<run, line, ctx, active, cancel, flag, skipped>>
          /\ run[s].pc = "streaming" /\ line # <<>> /\ Head(line) = s
      BY <1>9, <1>h DEF PeriodicSave, cancelling
    <2>2. RowTold' /\ CopiesTold'
      BY <2>1, CopiesStay DEF RowTold, Writing
    <2> QED  BY <2>1, <2>2
  <1>10. CASE SaveRunningFails(s)
    <2>1. /\ UNCHANGED <<db, line, ctx, active, cancel, flag, skipped>>
          /\ run[s].pc = "started" /\ line # <<>> /\ Head(line) = s
          /\ \A q \in Runs : q # s => run'[q] = run[q]
          /\ run'[s].pc = "concluding"
      BY <1>10, <1>h DEF SaveRunningFails, cancelling, TypeOK, Run
    <2>2. RowTold' /\ CopiesTold'
      BY <2>1, CopiesStay DEF RowTold, Writing
    <2> QED  BY <2>1, <2>2
  <1>11. CASE FinalSaveFails(s)
    <2>1. /\ UNCHANGED <<db, cancel, flag>> /\ ctx = 0 /\ ctx' = ctx
          /\ run[s].pc = "saving" /\ "dropped" \in skipped'
          /\ \A q \in Runs : q # s => run'[q] = run[q]
          /\ run'[s].pc = "over"
      BY <1>11, <1>h DEF FinalSaveFails, Leave, Over, NoRun, cancelling, TypeOK
    <2>2. RowTold' /\ CopiesTold'
      BY <2>1, CopiesStay DEF RowTold
    <2> QED  BY <2>1, <2>2
  <1> QED  BY <1>1, <1>2, <1>3, <1>4, <1>5, <1>6, <1>7, <1>8, <1>9, <1>10, <1>11
           DEF Advance

\* Every step keeps the marks true.
LEMMA ToldStep ==
  ASSUME TypeInv, TypeInv', Told, [Next]_vars
  PROVE  Told'
  <1> USE DEF TypeInv, Told, ActiveTold
  <1>l. line # <<>> => Head(line) \in Runs
    BY DEF TypeOK
  <1>1. CASE Sending
    <2>1. ASSUME ClearQueued \/ \E m \in Messages : ReadSession(m)
          PROVE  Told'
      <3>1. RowTold' /\ CopiesTold'
        BY <2>1, CopiesStay DEF ReadSession, ClearQueued, cancelling, RowTold
      <3> QED  BY <2>1, <3>1 DEF ReadSession, ClearQueued
    <2>2. ASSUME NEW m \in Messages, EnsureIdle(m)
          PROVE  Told'
      <3>1. db' = db \/ db'.status = "error"
        BY <2>2 DEF EnsureIdle, Save, TypeOK, Session
      <3>2. RowTold' /\ CopiesTold'
        BY <2>2, <3>1, CopiesStay DEF EnsureIdle, cancelling, RowTold
      <3> QED  BY <2>2, <3>2 DEF EnsureIdle
    <2>3. ASSUME NEW m \in Messages, Submit(m) \/ QueueMessage(m)
          PROVE  Told'
      <3>1. /\ UNCHANGED <<db, line, ctx, active, cancel, flag, skipped>>
            /\ Spawn(m) \/ run' = run
        BY <2>3 DEF Submit, QueueMessage, cancelling
      <3>2. \A q \in Runs : \/ run'[q] = run[q]
                            \/ run'[q].pc = "created" /\ run[q].pc = "unused"
        BY <3>1, SpawnsOne
      <3>5. \A q \in Runs : run[q].pc \in Writing => run'[q].pc \in Writing
        BY <3>2 DEF Writing
      <3>3. RowTold'
        BY <1>l, <3>1, <3>5 DEF RowTold
      <3>4. CopiesTold'
        <4>1. \A q \in Runs :
                /\ run'[q].pc \in {"finishing", "saving"} => run[q].pc = run'[q].pc
                /\ run[q].pc = run'[q].pc => run'[q].copy.status = run[q].copy.status
          BY <3>2
        <4> QED  BY <3>1, <4>1, CopiesStay
      <3> QED  BY <3>1, <3>3, <3>4
    <2> QED  BY <1>1, <2>1, <2>2, <2>3 DEF Sending
  <1>2. CASE Running
    BY <1>2, RunningTold DEF Running
  <1>3. CASE Cancelling
    <2> PICK c \in Cancels : \/ RequestCancel(c) \/ CancelClearsQueue(c)
                             \/ Rewind(c) \/ CancelSavesAgain(c)
      BY <1>3 DEF Cancelling
    <2>1. UNCHANGED <<run, line, ctx, active, skipped>> /\ (flag => flag')
      BY DEF RequestCancel, CancelClearsQueue, Rewind, CancelSavesAgain
    <2>r. Rewound(db).status # "running"
      BY RewoundRests DEF TypeOK
    <2>2. db' = db \/ db'.status # "running"
      BY <2>r DEF RequestCancel, CancelClearsQueue, Rewind, CancelSavesAgain,
                   TakeBack, CopiesTold
    <2>3. \A d \in Cancels : cancel'[d].pc = "rewound" => cancel'[d].copy.status # "running"
      <3>1. \A d \in Cancels : d # c => cancel'[d] = cancel[d]
        BY DEF RequestCancel, CancelClearsQueue, Rewind, CancelSavesAgain, TypeOK
      <3>2. cancel'[c].pc = "rewound" => cancel'[c].copy.status # "running"
        <4>1. CASE RequestCancel(c) \/ CancelClearsQueue(c)
          BY <4>1 DEF RequestCancel, CancelClearsQueue, TypeOK, Cancel
        <4>2. CASE Rewind(c)
          BY <2>r, <4>2 DEF Rewind, TypeOK
        <4>3. CASE CancelSavesAgain(c)
          BY <4>3 DEF CancelSavesAgain, TypeOK
        <4> QED  BY <4>1, <4>2, <4>3
      <3> QED  BY <3>1, <3>2 DEF CopiesTold
    <2>4. RowTold' /\ CopiesTold'
      BY <2>1, <2>2, <2>3 DEF RowTold, CopiesTold
    <2> QED  BY <2>1, <2>4
  <1>4. CASE Steering
    <2>1. /\ UNCHANGED <<db, line, ctx, active, cancel, flag>>
          /\ skipped \subseteq skipped'
      BY <1>4 DEF Steering, ClaimSteer, SteerAccepted, SteerRejected, SteerRaises,
                  cancelling
    <2>2. \A q \in Runs : run'[q].pc = run[q].pc
                          /\ run'[q].copy.status = run[q].copy.status
      <3>1. CASE run' = run
        BY <3>1
      <3>2. CASE run' = [run EXCEPT ![steer.run].copy.msgs = Asked(@, steer.msg)]
        <4>1. \A q \in Runs : run[q] \in Run /\ run[q].copy \in Session
          BY DEF TypeOK, Run
        <4> QED  BY <3>2, <4>1 DEF TypeOK, Run, Session
      <3> QED  BY <1>4, <3>1, <3>2
               DEF Steering, ClaimSteer, SteerAccepted, SteerRejected, SteerRaises
    <2>3. RowTold' /\ CopiesTold'
      BY <1>l, <2>1, <2>2, CopiesStay DEF RowTold
    <2> QED  BY <2>1, <2>3
  <1>5. CASE Disconnect \/ UNCHANGED vars
    <2>1. RowTold' /\ CopiesTold'
      BY <1>5, CopiesStay DEF Disconnect, vars, cancelling, RowTold
    <2> QED  BY <1>5, <2>1 DEF Disconnect, vars
  <1>6. CASE Restart
    <2>1. db'.status # "running" /\ ctx' = 0
      BY <1>6 DEF Restart, TypeOK, Session
    <2>2. \A q \in Runs : run'[q].pc \in {"unused", "over"}
      BY <1>6 DEF Restart, Over, NoRun
    <2>3. \A c \in Cancels : cancel'[c].pc # "rewound"
      BY <1>6 DEF Restart, TypeOK
    <2>4. RowTold' /\ CopiesTold'
      BY <2>1, <2>2, <2>3 DEF RowTold, CopiesTold
    <2> QED  BY <2>1, <2>4
  <1> QED  BY <1>1, <1>2, <1>3, <1>4, <1>5, <1>6 DEF Next

-----------------------------------------------------------------------------
(* What is remembered                                                      *)

\* A conversation that lost nothing still knows them while none is added.
LEMMA KnowsStill ==
  ASSUME NEW ms, NEW new, Knows(ms), answered' \subseteq answered,
         hidden \subseteq hidden',
         \A x : Has(ms, x) => Has(new, x),
         \A x : Completed(ms, x) => Completed(new, x)
  PROVE  KnowsAll(new, answered', hidden')
  BY DEF Knows, KnowsAll

\* A run that stays as it is remembers what it did.
LEMMA RunStill ==
  ASSUME NEW q \in Runs, RunRemembers(q), run'[q] = run[q],
         answered' \subseteq answered, hidden \subseteq hidden'
  PROVE  RunRemembers(q)'
  BY DEF RunRemembers, Knows, KnowsAll

\* A save of a conversation that knows everything.
LEMMA SaveKnows ==
  ASSUME NEW d, Save(d, {}), Knows(d.msgs), hidden \subseteq hidden'
  PROVE  Knows(db.msgs)' /\ answered' \subseteq answered
  BY DEF Save, Knows, KnowsAll

\* A step of a run keeps what is remembered of the answered: the row, or the copy
\* a run will save, has the answer.
LEMMA RunningRemembers ==
  ASSUME TypeInv, Remembered, NEW s \in Runs,
         Advance(s) \/ PeriodicSave(s) \/ SaveRunningFails(s) \/ FinalSaveFails(s)
  PROVE  Remembered'
  <1> USE DEF TypeInv
  <1>d. Knows(db.msgs) /\ RunRemembers(s)
    BY DEF Remembered
  <1>r. /\ run[s] \in Run /\ run[s].copy \in Session
        /\ run[s].copy.msgs \in Seq(Entry)
        /\ run[s].pc \notin {"unused", "over"} => run[s].msg \in Messages
    BY DEF TypeOK, Run, Session, Ordered
  <1>h. \A p : Holds(s, p) => line # <<>> /\ Head(line) = s /\ run[s].pc = p
    BY DEF Holds
  <1>w. Results = {"result", "error"}
    BY DEF Results
  \* It is enough to look at the row and at the run that moves.
  <1>s. ASSUME Knows(db.msgs)', RunRemembers(s)', answered' \subseteq answered,
               hidden \subseteq hidden', \A q \in Runs : q # s => run'[q] = run[q]
        PROVE  Remembered'
    BY <1>s, RunStill DEF Remembered
  \* A run in another phase has nothing to remember.
  <1>n. ASSUME run'[s].pc \in {"waiting", "over", "draining", "created"}
        PROVE  RunRemembers(s)'
    BY <1>n DEF RunRemembers, Working, Registered
  <1>o. Over.pc = "over"
    BY DEF Over, NoRun
  <1>1. CASE Begin(s)
    <2>1. /\ UNCHANGED <<db, answered, hidden>> /\ run'[s].pc = "waiting"
          /\ \A q \in Runs : q # s => run'[q] = run[q]
      BY <1>1, <1>r DEF Begin, Becomes, TypeOK, Run
    <2> QED  BY <1>d, <1>n, <1>s, <2>1 DEF Knows
  <1>2. CASE Acknowledge(s)
    <2>1. /\ UNCHANGED <<db, answered, hidden>>
          /\ \A q \in Runs : q # s => run'[q] = run[q]
      BY <1>2 DEF Acknowledge, Leave, Becomes, TypeOK
    <2>2. CASE Completed(db.msgs, run[s].msg)
      <3>1. run'[s].pc = "over"
        BY <1>2, <1>o, <2>2 DEF Acknowledge, Leave, TypeOK
      <3> QED  BY <1>d, <1>n, <1>s, <2>1, <3>1 DEF Knows
    <2>3. CASE ~Completed(db.msgs, run[s].msg)
      <3>1. run'[s].pc = "checked" /\ run'[s].msg = run[s].msg
        BY <1>2, <1>r, <2>3 DEF Acknowledge, Becomes, TypeOK, Run
      <3>2. run[s].msg \notin answered \ hidden
        BY <1>d, <2>3 DEF Knows, KnowsAll
      <3>3. RunRemembers(s)'
        BY <2>1, <3>1, <3>2 DEF RunRemembers, Working, Registered
      <3> QED  BY <1>d, <1>s, <2>1, <3>3 DEF Knows
    <2> QED  BY <2>2, <2>3
  <1>3. CASE Load(s)
    <2>1. /\ UNCHANGED <<db, answered, hidden>> /\ run[s].pc = "checked"
          /\ \A q \in Runs : q # s => run'[q] = run[q]
          /\ run'[s].pc = "loaded" /\ run'[s].msg = run[s].msg /\ run'[s].copy = db
      BY <1>3, <1>h, <1>r DEF Load, TypeOK, Run
    <2>2. RunRemembers(s)'
      BY <1>d, <2>1 DEF RunRemembers, Knows
    <2> QED  BY <1>d, <1>s, <2>1, <2>2 DEF Knows
  <1>4. CASE Start(s)
    <2>1. /\ UNCHANGED <<db, answered, hidden>> /\ run[s].pc = "loaded"
          /\ \A q \in Runs : q # s => run'[q] = run[q]
      BY <1>4, <1>h DEF Start, Leave, TypeOK
    <2>2. CASE Leave(s)
      <3>1. run'[s].pc = "over"
        BY <1>o, <2>2 DEF Leave, TypeOK
      <3> QED  BY <1>d, <1>n, <1>s, <2>1, <3>1 DEF Knows
    <2>3. CASE run' = [run EXCEPT ![s] = Started(run[s])]
      <3> DEFINE r == Started(run[s])
                 ms == run[s].copy.msgs
      <3>1. /\ r.pc = "started" /\ r.msg = run[s].msg
            /\ r.copy.msgs = IF Has(ms, run[s].msg) THEN ms
                             ELSE Asked(ms, run[s].msg)
        BY <1>r DEF Started, Run, Session
      <3>2. run'[s] = r
        BY <2>3 DEF TypeOK
      <3> HIDE DEF r
      <3>3. /\ \A x : Has(ms, x) => Has(r.copy.msgs, x)
            /\ \A x : Completed(ms, x) => Completed(r.copy.msgs, x)
        BY <1>r, <2>1, <3>1, AskedKeeps
      <3>4. Knows(ms) /\ run[s].msg \notin answered \ hidden
        BY <1>d, <2>1 DEF RunRemembers, Working
      <3>5. KnowsAll(r.copy.msgs, answered', hidden')
        BY <2>1, <3>3, <3>4, KnowsStill
      <3>6. RunRemembers(s)'
        BY <2>1, <3>1, <3>2, <3>4, <3>5 DEF RunRemembers, Knows
      <3> QED  BY <1>d, <1>s, <2>1, <3>6 DEF Knows
    <2> QED  BY <1>4, <2>2, <2>3 DEF Start
  <1>5. CASE SaveRunning(s)
    <2>1. /\ Save(run[s].copy, {}) /\ hidden' = hidden /\ run[s].pc = "started"
          /\ \A q \in Runs : q # s => run'[q] = run[q]
          /\ run'[s].pc = "streaming" /\ run'[s].copy = run[s].copy
      BY <1>5, <1>h, <1>r DEF SaveRunning, Becomes, TypeOK, Run
    <2>2. Knows(run[s].copy.msgs)
      BY <1>d, <2>1 DEF RunRemembers, Working, Registered
    <2>3. Knows(db.msgs)' /\ answered' \subseteq answered
      BY <2>1, <2>2, SaveKnows
    <2>4. KnowsAll(run[s].copy.msgs, answered', hidden')
      BY <2>1, <2>2, <2>3, KnowsStill
    <2>5. RunRemembers(s)'
      BY <2>1, <2>4 DEF RunRemembers, Knows
    <2> QED  BY <1>s, <2>1, <2>3, <2>5
  <1>6. ASSUME NEW o \in {"result", "error", "broken"}, StreamEnds(s, o)
        PROVE  Remembered'
    <2> DEFINE ms == run[s].copy.msgs
               copy == IF o = "broken" THEN run[s].copy
                       ELSE [run[s].copy EXCEPT !.msgs = Replied(@)]
    <2>1. /\ run[s].pc = "streaming"
          /\ \A q \in Runs : q # s => run'[q] = run[q]
          /\ run'[s].pc \in {"concluding", "finishing"}
          /\ run'[s].msg = run[s].msg /\ run'[s].out = o /\ run'[s].copy = copy
      BY <1>6, <1>h, <1>r DEF StreamEnds, TypeOK, Run
    <2>2. /\ Save(copy, {}) \/ UNCHANGED <<db, answered>>
          /\ hidden' = IF o # "broken" /\ ~Completed(copy.msgs, run[s].msg)
                       THEN hidden \cup {run[s].msg} ELSE hidden
      BY <1>6 DEF StreamEnds
    <2>3. /\ \A x : Has(ms, x) => Has(copy.msgs, x)
          /\ \A x : Completed(ms, x) => Completed(copy.msgs, x)
      BY <1>r, RepliedKeeps DEF Session
    <2>4. Knows(ms)
      BY <1>d, <2>1 DEF RunRemembers, Working, Registered
    <2> HIDE DEF copy, ms
    <2>5. hidden \subseteq hidden'
      BY <2>2
    <2>6. KnowsAll(copy.msgs, answered, hidden)
      BY <2>3, <2>4 DEF Knows, KnowsAll
    <2>7. answered' \subseteq answered
      BY <2>2 DEF Save
    <2>8. Knows(db.msgs)'
      <3>1. CASE Save(copy, {})
        BY <2>5, <2>6, <3>1, SaveKnows DEF Knows
      <3>2. CASE UNCHANGED <<db, answered>>
        BY <1>d, <2>5, <3>2 DEF Knows, KnowsAll
      <3> QED  BY <2>2, <3>1, <3>2
    <2>9. KnowsAll(copy.msgs, answered', hidden')
      BY <2>5, <2>6, <2>7 DEF KnowsAll
    <2>10. o \in Results => run[s].msg \in hidden' \/ Completed(copy.msgs, run[s].msg)
      BY <1>w, <2>2
    <2>11. RunRemembers(s)'
      BY <2>1, <2>9, <2>10 DEF RunRemembers, Knows
    <2> QED  BY <1>s, <2>1, <2>5, <2>7, <2>8, <2>11
  <1>7. CASE Conclude(s)
    <2>1. /\ UNCHANGED <<db, answered, hidden>> /\ run[s].pc = "concluding"
          /\ \A q \in Runs : q # s => run'[q] = run[q]
          /\ run'[s].pc = "finishing" /\ run'[s].msg = run[s].msg
          /\ run'[s].out = run[s].out /\ run'[s].copy.msgs = run[s].copy.msgs
      BY <1>7, <1>h, <1>r DEF Conclude, TypeOK, Run, Session
    <2>2. RunRemembers(s)'
      BY <1>d, <2>1 DEF RunRemembers, Working, Registered, Knows
    <2> QED  BY <1>d, <1>s, <2>1, <2>2 DEF Knows
  <1>8. CASE Finalize(s)
    <2>1. /\ UNCHANGED <<db, answered, hidden>> /\ run[s].pc = "finishing"
          /\ \A q \in Runs : q # s => run'[q] = run[q]
      BY <1>8, <1>h DEF Finalize, Leave, Becomes, TypeOK
    <2>2. CASE flag
      <3>1. run'[s].pc = "over"
        BY <1>8, <1>o, <2>2 DEF Finalize, Leave, TypeOK
      <3> QED  BY <1>d, <1>n, <1>s, <2>1, <3>1 DEF Knows
    <2>3. CASE ~flag
      <3>1. /\ run'[s].pc = "saving" /\ run'[s].msg = run[s].msg
            /\ run'[s].out = run[s].out /\ run'[s].copy = run[s].copy
        BY <1>8, <1>r, <2>3 DEF Finalize, Becomes, TypeOK, Run
      <3>2. RunRemembers(s)'
        BY <1>d, <2>1, <3>1 DEF RunRemembers, Working, Registered, Knows
      <3> QED  BY <1>d, <1>s, <2>1, <3>2 DEF Knows
    <2> QED  BY <2>2, <2>3
  <1>9. CASE FinalSave(s)
    <2> DEFINE more == IF run[s].out = "broken" THEN {} ELSE {run[s].msg}
    <2>1. /\ Save(run[s].copy, more) /\ hidden' = hidden
          /\ line # <<>> /\ Head(line) = s /\ run[s].pc = "saving"
          /\ \A q \in Runs : q # s => run'[q] = run[q]
          /\ run'[s].pc = "draining"
      BY <1>9, <1>h, <1>r DEF FinalSave, Becomes, TypeOK, Run
    <2>2. Knows(run[s].copy.msgs)
      BY <1>d, <2>1 DEF RunRemembers, Working, Registered
    <2>3. ASSUME NEW m \in more
          PROVE  m \in hidden \/ Completed(run[s].copy.msgs, m)
      <3>1. m = run[s].msg /\ run[s].out # "broken"
        OBVIOUS
      <3>2. CASE run[s].out \in Results
        BY <1>d, <2>1, <3>1, <3>2 DEF RunRemembers
      <3>3. run[s].out # "none"
        BY <1>d, <2>1 DEF RunRemembers
      <3> QED  BY <1>r, <3>1, <3>2, <3>3 DEF Run
    <2> HIDE DEF more
    <2>4. Knows(db.msgs)'
      BY <2>1, <2>2, <2>3 DEF Save, Knows, KnowsAll
    <2>5. \A q \in Runs : run'[q].pc \notin Working \cup {"checked"}
      BY <2>1 DEF Ordered, Held, Working, Registered
    <2>6. \A q \in Runs : RunRemembers(q)'
      BY <2>5 DEF RunRemembers, Working, Registered
    <2> QED  BY <2>4, <2>6 DEF Remembered
  <1>10. CASE Drain(s)
    <2>1. /\ UNCHANGED <<db, answered, hidden>> /\ run[s].pc = "draining"
          /\ line # <<>> /\ Head(line) = s
      BY <1>10, <1>h DEF Drain
    <2>2. \A q \in Runs : run'[q] = run[q] \/ run'[q].pc \in {"over", "created"}
      <3>1. CASE queue = NoMessage
        BY <1>10, <1>o, <3>1 DEF Drain, TypeOK
      <3>2. CASE queue # NoMessage
        <4> DEFINE r == [NoRun EXCEPT !.pc = "created", !.msg = queue]
        <4>1. r.pc = "created" /\ run' = [run EXCEPT ![s] = Over, ![made + 1] = r]
          BY <1>10, <3>2 DEF Drain, NoRun
        <4> HIDE DEF r
        <4> QED  BY <1>o, <4>1 DEF TypeOK
      <3> QED  BY <3>1, <3>2
    <2>3. ASSUME NEW q \in Runs  PROVE RunRemembers(q)'
      <3>1. CASE run'[q] = run[q]
        BY <2>1, <3>1, RunStill DEF Remembered
      <3>2. CASE run'[q].pc \in {"over", "created"}
        BY <3>2 DEF RunRemembers, Working, Registered
      <3> QED  BY <2>2, <3>1, <3>2
    <2> QED  BY <1>d, <2>1, <2>3 DEF Remembered, Knows
  <1>11. CASE PeriodicSave(s)
    <2>1. /\ Save(run[s].copy, {}) /\ hidden' = hidden /\ run[s].pc = "streaming"
          /\ run' = run
      BY <1>11, <1>h DEF PeriodicSave
    <2>2. Knows(run[s].copy.msgs)
      BY <1>d, <2>1 DEF RunRemembers, Working, Registered
    <2>3. Knows(db.msgs)' /\ answered' \subseteq answered
      BY <2>1, <2>2, SaveKnows
    <2> QED  BY <2>1, <2>3, RunStill DEF Remembered
  <1>12. CASE SaveRunningFails(s)
    <2>1. /\ UNCHANGED <<db, answered, hidden>> /\ run[s].pc = "started"
          /\ \A q \in Runs : q # s => run'[q] = run[q]
          /\ run'[s].pc = "concluding" /\ run'[s].out = "broken"
          /\ run'[s].copy = run[s].copy
      BY <1>12, <1>h, <1>r DEF SaveRunningFails, TypeOK, Run
    <2>2. RunRemembers(s)'
      BY <1>d, <1>w, <2>1 DEF RunRemembers, Working, Registered, Knows
    <2> QED  BY <1>d, <1>s, <2>1, <2>2 DEF Knows
  <1>13. CASE FinalSaveFails(s)
    <2>1. /\ UNCHANGED <<db, answered, hidden>> /\ run'[s].pc = "over"
          /\ \A q \in Runs : q # s => run'[q] = run[q]
      BY <1>13, <1>o DEF FinalSaveFails, Leave, TypeOK
    <2> QED  BY <1>d, <1>n, <1>s, <2>1 DEF Knows
  <1> QED  BY <1>1, <1>2, <1>3, <1>4, <1>5, <1>6, <1>7, <1>8, <1>9, <1>10, <1>11,
              <1>12, <1>13 DEF Advance

\* Every step keeps what is remembered of the answered.
LEMMA RememberedStep ==
  ASSUME TypeInv, Remembered, [Next]_vars
  PROVE  Remembered'
  <1> USE DEF TypeInv
  <1>d. Knows(db.msgs) /\ \A q \in Runs : RunRemembers(q)
    BY DEF Remembered
  \* The runs stay as they are, or one more is created.
  <1>s. ASSUME Knows(db.msgs)', answered' \subseteq answered, hidden' = hidden,
               \A q \in Runs : run'[q] = run[q] \/ run'[q].pc \in {"created", "unused", "over"}
        PROVE  Remembered'
    <2>1. ASSUME NEW q \in Runs, run'[q].pc \in {"created", "unused", "over"}
          PROVE  RunRemembers(q)'
      BY <2>1 DEF RunRemembers, Working, Registered
    <2> QED  BY <1>d, <1>s, <2>1, RunStill DEF Remembered
  <1>1. CASE Sending
    <2>1. ASSUME ClearQueued \/ \E m \in Messages : ReadSession(m)
          PROVE  Remembered'
      <3>1. UNCHANGED <<db, run, answered, hidden>>
        BY <2>1 DEF ClearQueued, ReadSession
      <3> QED  BY <1>d, <1>s, <3>1 DEF Knows
    <2>2. ASSUME NEW m \in Messages, EnsureIdle(m)
          PROVE  Remembered'
      <3> DEFINE d == [db EXCEPT !.status = "error"]
      <3>1. UNCHANGED <<run, hidden>> /\ (Save(d, {}) \/ UNCHANGED <<db, answered>>)
        BY <2>2 DEF EnsureIdle
      <3>2. d.msgs = db.msgs
        BY DEF TypeOK, Session
      <3> HIDE DEF d
      <3>3. Knows(db.msgs)' /\ answered' \subseteq answered
        <4>1. CASE Save(d, {})
          BY <1>d, <3>1, <3>2, <4>1, SaveKnows
        <4>2. CASE UNCHANGED <<db, answered>>
          BY <1>d, <3>1, <4>2 DEF Knows
        <4> QED  BY <3>1, <4>1, <4>2
      <3> QED  BY <1>s, <3>1, <3>3
    <2>3. ASSUME NEW m \in Messages, Submit(m) \/ QueueMessage(m)
          PROVE  Remembered'
      <3>1. UNCHANGED <<db, answered, hidden>> /\ (Spawn(m) \/ run' = run)
        BY <2>3 DEF Submit, QueueMessage
      <3>2. \A q \in Runs : run'[q] = run[q] \/ run'[q].pc \in {"created", "unused", "over"}
        BY <3>1, SpawnsOne
      <3> QED  BY <1>d, <1>s, <3>1, <3>2 DEF Knows
    <2> QED  BY <1>1, <2>1, <2>2, <2>3 DEF Sending
  <1>2. CASE Running
    BY <1>2, RunningRemembers DEF Running
  <1>3. CASE Cancelling
    <2> PICK c \in Cancels : \/ RequestCancel(c) \/ CancelClearsQueue(c)
                             \/ Rewind(c) \/ CancelSavesAgain(c)
      BY <1>3 DEF Cancelling
    <2>1. UNCHANGED <<run, hidden>>
      BY DEF RequestCancel, CancelClearsQueue, Rewind, CancelSavesAgain
    <2>2. CASE RequestCancel(c) \/ CancelClearsQueue(c)
      <3>1. UNCHANGED <<db, answered>>
        BY <2>2 DEF RequestCancel, CancelClearsQueue
      <3> QED  BY <1>d, <1>s, <2>1, <3>1 DEF Knows
    <2>3. ASSUME NEW d, TakeBack(d)
          PROVE  Remembered'
      <3>1. answered' \subseteq answered
        BY <2>3 DEF TakeBack
      <3>2. Knows(db.msgs)'
        <4>1. ASSUME NEW m, Completed(d.msgs, m)  PROVE Has(d.msgs, m)
          BY <4>1 DEF Completed, Has
        <4> QED  BY <2>1, <2>3, <4>1 DEF TakeBack, Knows, KnowsAll
      <3> QED  BY <1>s, <2>1, <3>1, <3>2
    <2> QED  BY <2>2, <2>3 DEF Rewind, CancelSavesAgain
  <1>4. CASE Steering
    <2>1. UNCHANGED <<db, answered, hidden>>
      BY <1>4 DEF Steering, ClaimSteer, SteerAccepted, SteerRejected, SteerRaises
    <2>2. CASE run' = run
      BY <1>d, <1>s, <2>1, <2>2 DEF Knows
    <2>3. CASE SteerAccepted /\ run' # run
      <3> DEFINE s == steer.run
                 ms == run[s].copy.msgs
      <3>1. s \in Runs /\ steer.msg \in Messages
        BY <2>3 DEF SteerAccepted, Ordered
      <3>2. run[s] \in Run /\ run[s].copy \in Session /\ ms \in Seq(Entry)
        BY <3>1 DEF TypeOK, Run, Session
      <3>3. /\ run'[s].pc = run[s].pc /\ run'[s].msg = run[s].msg
            /\ run'[s].out = run[s].out
            /\ run'[s].copy.msgs = Asked(ms, steer.msg)
            /\ \A q \in Runs : q # s => run'[q] = run[q]
        BY <2>3, <3>1, <3>2 DEF SteerAccepted, TypeOK, Run, Session
      <3>4. /\ \A x : Has(ms, x) => Has(Asked(ms, steer.msg), x)
            /\ \A x : Completed(ms, x) => Completed(Asked(ms, steer.msg), x)
        BY <3>1, <3>2, AskedKeeps
      <3>5. Knows(ms) => KnowsAll(Asked(ms, steer.msg), answered', hidden')
        BY <2>1, <3>4 DEF Knows, KnowsAll
      <3>6. ASSUME NEW q \in Runs  PROVE RunRemembers(q)'
        <4>1. CASE q = s
          BY <1>d, <2>1, <3>3, <3>4, <3>5, <4>1 DEF RunRemembers, Knows
        <4>2. CASE q # s
          BY <1>d, <2>1, <3>3, <4>2, RunStill
        <4> QED  BY <4>1, <4>2
      <3> QED  BY <1>d, <2>1, <3>6 DEF Remembered, Knows
    <2> QED  BY <1>4, <2>2, <2>3
             DEF Steering, ClaimSteer, SteerRejected, SteerRaises
  <1>5. CASE Disconnect \/ UNCHANGED vars
    <2>1. UNCHANGED <<db, run, answered, hidden>>
      BY <1>5 DEF Disconnect, vars
    <2> QED  BY <1>d, <1>s, <2>1 DEF Knows
  <1>6. CASE Restart
    <2>1. db'.msgs = db.msgs /\ UNCHANGED <<answered, hidden>>
      BY <1>6 DEF Restart, TypeOK, Session
    <2>2. \A q \in Runs : run'[q].pc \in {"unused", "over"}
      BY <1>6 DEF Restart, Over, NoRun
    <2>3. Knows(db.msgs)'
      BY <1>d, <2>1 DEF Knows
    <2> QED  BY <1>s, <2>1, <2>2, <2>3
  <1> QED  BY <1>1, <1>2, <1>3, <1>4, <1>5, <1>6 DEF Next

-----------------------------------------------------------------------------
(* Theorems                                                                *)

\* The inductive invariant holds at the start.
LEMMA Initially == Init => IInv
  <1> SUFFICES ASSUME Init  PROVE IInv
    OBVIOUS
  <1> USE ConstantsAssumption DEF Init
  <1>1. /\ NoRun \in Run /\ NoRun.pc = "unused" /\ Fresh \in Session
        /\ Fresh.status = "idle"
    <2>1. <<>> \in Seq(Entry)
      OBVIOUS
    <2> QED  BY <2>1 DEF NoRun, Run, Phases, Held, Registered, Fresh, Session, Statuses
  <1>2. /\ NoSteer \in Steer /\ <<>> \in Seq(Runs) /\ 0 \in 0 .. MaxRuns
        /\ \A s \in Runs : run[s].pc = "unused"
    BY <1>1 DEF NoSteer, Steer
  <1>3. [pc |-> "unused", copy |-> Fresh] \in Cancel
    BY <1>1 DEF Cancel
  <1>t. /\ run \in [Runs -> Run] /\ cancel \in [Cancels -> Cancel]
        /\ seen \in [Messages -> {"none", "submit", "stale", "queue"}]
        /\ \A n \in {MaxSends, MaxSteers, MaxFaults} : 0 \in 0 .. n
    BY <1>1, <1>3
  <1>4. TypeOK
    BY <1>1, <1>2, <1>t DEF TypeOK
  <1>5. Ordered
    BY <1>2 DEF Ordered, Held, Registered
  <1>6. QueueIsServed
    BY DEF QueueIsServed
  <1>7. Remembered
    BY <1>2 DEF Remembered, RunRemembers, Working, Registered, Knows, KnowsAll
  <1>8. Told
    BY <1>1, <1>2 DEF Told, RowTold, CopiesTold, ActiveTold
  <1> QED  BY <1>4, <1>5, <1>6, <1>7, <1>8 DEF IInv, TypeInv

\* The conjuncts together are inductive: every reachable state satisfies them.
THEOREM Invariance == Spec => []IInv
  <1>1. IInv /\ [Next]_vars => IInv'
    BY TypeInvStep, ServedStep, RememberedStep, ToldStep DEF IInv
  <1> QED  BY Initially, <1>1, PTL DEF Spec

\* Every variable keeps its type, and a registered context belongs to the run
\* at the head of the session's line (active_contexts under session_lock).
THEOREM TypeCorrect == Spec => []TypeOK
  <1>1. IInv => TypeOK
    BY DEF IInv, TypeInv
  <1> QED  BY Invariance, <1>1, PTL

\* A message waits in the queue only while a run is on its way to drain it, or
\* a run was dropped or a steer gave it back (queue_message, _finalize_query).
THEOREM QueueServed == Spec => []QueueIsServed
  <1>1. IInv => QueueIsServed
    BY DEF IInv
  <1> QED  BY Invariance, <1>1, PTL

\* A request whose result is in the conversation is not executed again, for
\* any number of resends, cancels, steers and restarts
\* (_acknowledge_terminal_duplicate).
THEOREM NothingIsAnsweredTwice == Spec => []AnsweredOnce
  <1>1. IInv => AnsweredOnce
    BY DEF IInv, Remembered, RunRemembers, AnsweredOnce
  <1> QED  BY Invariance, <1>1, PTL

\* A registered run has its session marked active, and a session persisted as
\* RUNNING has a run or its last one was dropped.
THEOREM MarksAreRight == Spec => []MarksTellTheRun
  <1>1. IInv => MarksTellTheRun
    BY DEF IInv, Told, RowTold, ActiveTold, MarksTellTheRun
  <1> QED  BY Invariance, <1>1, PTL
=============================================================================
