--------------------------- MODULE EventPumpProofs ---------------------------
(***************************************************************************)
(* What the event pump guarantees for any number of tasks, turns and       *)
(* messages.  The inductive invariant says which timer goes with which     *)
(* phase of the active turn (Shape), how calls and turns are numbered      *)
(* (CallInv), what the endings of past turns looked like (TurnInv), and    *)
(* where a task that was seen to start is remembered (MemoryInv).          *)
(***************************************************************************)
EXTENDS EventPump, FiniteSetTheorems, SequenceTheorems, TLAPS

\* The types of what the endings depend on.
Typed ==
  /\ turn \in Turn
  /\ active \in 0 .. MaxTurns
  /\ begun \in 0 .. MaxTurns
  /\ ends \in [Turns -> Seq(Ending)]

\* How the phase, tasks, deferred result and timers of a turn go together.
Shape(r) ==
  /\ r.timer["background"] = IF RunningTasks(r) = {} THEN "off" ELSE "armed"
  /\ r.phase = "STREAMING" => ~r.deferred
  /\ r.phase = "SETTLING" => /\ r.deferred /\ RunningTasks(r) = {}
                             /\ r.timer["settle"] = "armed"
  /\ r.phase = "WAITING" => r.deferred /\ RunningTasks(r) # {}
  /\ r.phase = "AWAITING" => /\ r.deferred /\ RunningTasks(r) = {}
                             /\ r.timer["completion"] = "armed"
  /\ r.phase = "INTERRUPTED" => r.interrupted

Shaped ==
  /\ Shape(turn)
  /\ active # 0 => turn.phase # "TERMINAL"
  /\ active = 0 => turn = NoTurn

\* What the turns look like ...
TurnInv == /\ Typed
           /\ Shaped
           /\ active <= begun
           /\ OneEnding
           /\ ResultWaitsForTasks

\* ... and the calls that go with them.
CallInv ==
  /\ caller \in 0 .. MaxTurns
  /\ sending \in BOOLEAN
  /\ caller <= begun
  /\ sending => caller # 0
  /\ ActiveTurnHasCaller

Inv == TurnInv /\ CallInv

\* A turn has every task it knows in its order.
Named == \A t \in Tasks : turn.tasks[t] # "unknown" => t \in ToSet(turn.order)

\* A task that was seen to start is remembered by the pump or by its turn.
Remembered ==
  \A t \in Tasks \ forgotten : owner[t] # 0 =>
    \/ t \in ToSet(retired)
    \/ active # 0 /\ owner[t] = active /\ t \in ToSet(turn.order)

MemoryInv == /\ retired \in Seq(Tasks) /\ Len(retired) <= MaxRetired
             /\ owner \in [Tasks -> 0 .. MaxTurns]
             /\ forgotten \subseteq Tasks
             /\ Named
             /\ Remembered
             /\ TasksStayWithTheirTurn

\* The rest of TypeOK.
FrameInv == /\ reading \in BOOLEAN
            /\ closed \in BOOLEAN
            /\ messages \in 0 .. MaxMessages
            /\ orphaned \subseteq Turns

IInv == Inv /\ MemoryInv /\ FrameInv

-----------------------------------------------------------------------------
(* Lemmas about the operators on turn records                              *)

\* Timer updates keep the record's type and touch nothing but the timers.
LEMMA TimerUpdates ==
  ASSUME NEW r \in Turn, NEW x \in Timers, NEW X \in SUBSET Timers
  PROVE  /\ Arm(r, x) = [r EXCEPT !.timer = [r.timer EXCEPT ![x] = "armed"]]
         /\ Arm(r, x) \in Turn
         /\ Cancel(r, X) \in Turn
         /\ \A y \in Timers :
              /\ Arm(r, x).timer[y] = IF y = x THEN "armed" ELSE r.timer[y]
              /\ Cancel(r, X).timer[y] = IF y \in X THEN "off" ELSE r.timer[y]
  BY DEF Arm, Cancel, Turn, TimerStates

\* A task that starts or makes progress: the turn waits for it.
LEMMA TaskRunsShape ==
  ASSUME NEW r \in Turn, NEW t \in Tasks, Shape(r), r.phase # "TERMINAL"
  PROVE  LET s == TaskRuns(r, t)
         IN  s \in Turn /\ Shape(s) /\ s.phase # "TERMINAL"
  <1> DEFINE q == Cancel(r, ResultTimers)
             s == TaskRuns(r, t)
             order == IF r.tasks[t] = "unknown" THEN Append(r.order, t)
                      ELSE r.order
             timer == IF r.timer["background"] = "off"
                      THEN Arm(q, "background").timer ELSE q.timer
  <1>1. /\ q \in Turn
        /\ q = [r EXCEPT !.timer = q.timer]
        /\ q.timer["background"] = r.timer["background"]
    BY DEF Cancel, ResultTimers, Turn, Timers, TimerStates
  <1>2. /\ timer \in [Timers -> TimerStates]
        /\ timer["background"] = "armed"
    BY <1>1 DEF Arm, Shape, Turn, Timers, TimerStates
  <1>o. order \in Seq(Tasks)
    BY DEF Turn
  <1> HIDE DEF q, timer, order
  <1>3. s = [q EXCEPT !.tasks[t] = "running", !.order = order, !.had = TRUE,
                      !.phase = IF r.deferred THEN "WAITING" ELSE r.phase,
                      !.timer = timer]
    BY DEF TaskRuns, q, timer, order
  <1> HIDE DEF s
  <1>4. s \in Turn
    <2>1. /\ [q.tasks EXCEPT ![t] = "running"]
               \in [Tasks -> {"unknown", "running", "over"}]
          /\ (IF r.deferred THEN "WAITING" ELSE r.phase) \in Phases
      BY <1>1 DEF Turn, Phases
    <2> QED  BY <1>1, <1>2, <1>3, <1>o, <2>1 DEF Turn
  <1>5. /\ s.tasks[t] = "running"
        /\ s.deferred = r.deferred /\ s.interrupted = r.interrupted
        /\ s.phase = IF r.deferred THEN "WAITING" ELSE r.phase
        /\ s.timer["background"] = "armed"
    BY <1>1, <1>2, <1>3 DEF Turn
  <1>6. RunningTasks(s) # {}
    BY <1>5 DEF RunningTasks
  <1>7. Shape(s) /\ s.phase # "TERMINAL"
    BY <1>5, <1>6 DEF Shape
  <1> QED  BY <1>4, <1>7 DEF s

\* A task that is over: the last one hands over to the completion timer.
LEMMA TaskEndsShape ==
  ASSUME NEW r \in Turn, NEW t \in Tasks, Shape(r), r.phase # "TERMINAL",
         r.tasks[t] # "unknown"
  PROVE  LET s == TaskEnds(r, t)
         IN  s \in Turn /\ Shape(s) /\ s.phase # "TERMINAL"
  <1> DEFINE q == Cancel(r, ResultTimers)
             noted == [q EXCEPT !.tasks[t] = "over", !.had = TRUE]
             last == RunningTasks(noted) = {}
             quiet == IF last THEN Cancel(noted, {"background"}) ELSE noted
             s == TaskEnds(r, t)
  <1>1. /\ q \in Turn
        /\ q = [r EXCEPT !.timer = q.timer]
        /\ q.timer["background"] = r.timer["background"]
    BY DEF Cancel, ResultTimers, Turn, Timers, TimerStates
  <1> HIDE DEF q
  <1>2. /\ noted \in Turn
        /\ noted.phase = r.phase /\ noted.deferred = r.deferred
        /\ noted.interrupted = r.interrupted
        /\ noted.timer["background"] = r.timer["background"]
    BY <1>1 DEF Turn
  <1>3. RunningTasks(noted) \subseteq RunningTasks(r)
    BY <1>1 DEF RunningTasks, Turn
  <1>4. s = IF last /\ r.deferred
            THEN [Arm(quiet, "completion") EXCEPT !.phase = "AWAITING"]
            ELSE quiet
    BY DEF TaskEnds, q
  <1> HIDE DEF noted, s
  <1>5. CASE ~last
    <2>1. s = noted /\ RunningTasks(r) # {} /\ RunningTasks(noted) # {}
      BY <1>3, <1>4, <1>5
    <2> QED  BY <1>2, <2>1 DEF Shape, s
  <1>6. CASE last
    <2>1. /\ quiet \in Turn
          /\ quiet = [noted EXCEPT !.timer = quiet.timer]
          /\ quiet.deferred = r.deferred
          /\ quiet.timer["background"] = "off"
      BY <1>2, <1>6 DEF Cancel, Turn, Timers, TimerStates
    <2>2. RunningTasks(quiet) = {}
      BY <1>2, <1>6, <2>1 DEF RunningTasks, Turn
    <2> HIDE DEF quiet
    <2>3. CASE ~r.deferred
      <3>1. s = quiet /\ s.phase = r.phase /\ s.deferred = r.deferred
            /\ s.interrupted = r.interrupted
        BY <1>2, <1>4, <2>1, <2>3 DEF Turn
      <3> QED  BY <2>1, <2>2, <2>3, <3>1 DEF Shape, s
    <2>4. CASE r.deferred
      <3>1. s = [Arm(quiet, "completion") EXCEPT !.phase = "AWAITING"]
        BY <1>4, <1>6, <2>4
      <3>2. /\ s \in Turn
            /\ s.phase = "AWAITING" /\ s.tasks = quiet.tasks
            /\ s.deferred = quiet.deferred
            /\ s.timer["completion"] = "armed"
            /\ s.timer["background"] = "off"
        BY <2>1, <3>1 DEF Arm, Turn, Timers, TimerStates, Phases
      <3>3. s.deferred /\ RunningTasks(s) = {}
        BY <2>1, <2>2, <2>4, <3>2 DEF RunningTasks
      <3> QED  BY <3>2, <3>3 DEF Shape, s
    <2> QED  BY <2>3, <2>4 DEF Turn
  <1> QED  BY <1>5, <1>6

\* A result that does not end the turn leaves it waiting under a timer.
LEMMA DefersShape ==
  ASSUME NEW r \in Turn, Shape(r), r.phase # "TERMINAL"
  PROVE  LET s == Defers(r)
         IN  s \in Turn /\ Shape(s) /\ s.phase # "TERMINAL"
  <1>1. Defers(r) \in Turn
    BY DEF Defers, Arm, Turn, Timers, TimerStates, Phases
  <1>2. Shape(Defers(r)) /\ Defers(r).phase # "TERMINAL"
    BY DEF Defers, Arm, Shape, RunningTasks, Turn, Timers, TimerStates
  <1> QED  BY <1>1, <1>2

\* Any other message: a settling turn now awaits its final result.
LEMMA ContinuesShape ==
  ASSUME NEW r \in Turn, Shape(r), r.phase # "TERMINAL"
  PROVE  LET s == Continues(r)
         IN  s \in Turn /\ Shape(s) /\ s.phase # "TERMINAL"
  <1>1. CASE r.phase = "SETTLING"
    <2> DEFINE q == Cancel(r, {"settle"})
               s == [Arm(q, "completion") EXCEPT !.phase = "AWAITING"]
    <2>1. /\ q \in Turn
          /\ q = [r EXCEPT !.timer = q.timer]
          /\ q.timer["background"] = r.timer["background"]
      BY DEF Cancel, Turn, Timers, TimerStates
    <2> HIDE DEF q
    <2>2. /\ s \in Turn
          /\ s.phase = "AWAITING" /\ s.tasks = r.tasks
          /\ s.deferred = r.deferred
          /\ s.timer["completion"] = "armed"
          /\ s.timer["background"] = r.timer["background"]
      BY <2>1 DEF Arm, Turn, Timers, TimerStates, Phases
    <2>3. RunningTasks(s) = RunningTasks(r)
      BY <2>2 DEF RunningTasks
    <2>4. Shape(s)
      BY <1>1, <2>2, <2>3 DEF Shape
    <2> QED  BY <1>1, <2>2, <2>4 DEF Continues, q
  <1>2. CASE r.phase = "AWAITING"
    BY <1>2 DEF Continues, Arm, Shape, RunningTasks, Turn, Timers, TimerStates
  <1>3. CASE r.phase \notin {"SETTLING", "AWAITING"}
    BY <1>3 DEF Continues
  <1> QED  BY <1>1, <1>2, <1>3

\* No turn: nothing runs and no timer is armed.
LEMMA NoTurnShape ==
  /\ NoTurn \in Turn
  /\ Shape(NoTurn)
  /\ RunningTasks(NoTurn) = {}
  BY DEF NoTurn, Turn, NoTimers, Timers, TimerStates, Phases, Shape,
         RunningTasks

-----------------------------------------------------------------------------
(* Steps                                                                   *)

\* EndTurn on the active turn: the slot is free and one ending was queued.
LEMMA EndTurnStep ==
  ASSUME TurnInv, active # 0,
         NEW by \in {"result", "error_result", "deferred", "timeout", "failure"},
         by \in {"result", "deferred"} =>
           RunningTasks(turn) = {} \/ turn.interrupted,
         EndTurn(active, by), begun' = begun
  PROVE  TurnInv' /\ active' = 0
  <1> DEFINE ending == [by |-> by, running |-> RunningTasks(turn),
                        interrupted |-> turn.interrupted]
  <1>1. /\ turn' = NoTurn
        /\ active' = 0
        /\ ends' = [ends EXCEPT ![active] = Append(@, ending)]
    BY DEF EndTurn
  <1>2. /\ active \in Turns
        /\ ends[active] \in Seq(Ending)
        /\ Len(ends[active]) = 0
    BY DEF TurnInv, Typed, Turns, OneEnding
  <1>3. ending \in Ending
    BY DEF TurnInv, Typed, Ending, Turn, RunningTasks
  <1> HIDE DEF ending
  <1>4. /\ ends' \in [Turns -> Seq(Ending)]
        /\ ends'[active] = Append(ends[active], ending)
        /\ \A n \in Turns \ {active} : ends'[n] = ends[n]
    BY <1>1, <1>2, <1>3 DEF TurnInv, Typed
  <1>5. /\ Append(ends[active], ending) \in Seq(Ending)
        /\ Len(ends'[active]) = 1
        /\ ends'[active][1] = ending
    BY <1>2, <1>3, <1>4
  <1>6. Typed' /\ Shaped' /\ active' <= begun'
    BY <1>1, <1>4, NoTurnShape, ConstantsAssumption
    DEF TurnInv, Typed, Shaped, Shape, NoTurn, RunningTasks
  <1>7. OneEnding'
    <2> SUFFICES ASSUME NEW n \in Turns
                 PROVE  Len(ends'[n]) = IF n <= begun THEN 1 ELSE 0
      BY <1>1, ConstantsAssumption DEF OneEnding, Turns
    <2>1. CASE n = active
      BY <1>5, <2>1 DEF TurnInv
    <2>2. CASE n # active
      BY <1>4, <2>2 DEF TurnInv, OneEnding
    <2> QED  BY <2>1, <2>2
  <1>8. ResultWaitsForTasks'
    <2> SUFFICES ASSUME NEW n \in Turns, NEW i \in DOMAIN ends'[n],
                        ends'[n][i].by \in {"result", "deferred"}
                 PROVE  ends'[n][i].running = {} \/ ends'[n][i].interrupted
      BY DEF ResultWaitsForTasks
    <2>1. CASE n = active
      <3>1. i = 1
        BY <1>4, <1>5, <2>1
      <3> QED  BY <1>5, <2>1, <3>1 DEF ending
    <2>2. CASE n # active
      BY <1>4, <2>2 DEF TurnInv, ResultWaitsForTasks
    <2> QED  BY <2>1, <2>2
  <1> QED  BY <1>1, <1>6, <1>7, <1>8 DEF TurnInv

\* The active turn stays active with a new record of the right shape.
LEMMA KeepTurnStep ==
  ASSUME TurnInv, KeepTurn, begun' = begun, active # 0,
         turn' \in Turn, Shape(turn'), turn'.phase # "TERMINAL"
  PROVE  TurnInv' /\ active' = active
  <1>1. Shape(turn)'
    BY DEF Shape, RunningTasks
  <1> QED  BY <1>1 DEF TurnInv, Typed, Shaped, OneEnding, ResultWaitsForTasks,
                       KeepTurn

\* Nothing about turns changes.
LEMMA QuietStep ==
  ASSUME TurnInv, KeepTurn, UNCHANGED <<turn, begun>>
  PROVE  TurnInv' /\ active' = active
  BY DEF TurnInv, Typed, Shaped, Shape, RunningTasks, OneEnding,
         ResultWaitsForTasks, KeepTurn

\* The caller has left: a turn still active is an orphan.
LEMMA CallReleased ==
  ASSUME caller' = 0, sending' = FALSE, begun' \in 0 .. MaxTurns,
         active' # 0 => active' \in orphaned'
  PROVE  CallInv'
  <1>1. sending' \in BOOLEAN /\ ~sending'
    OBVIOUS
  <1>2. sending' => caller' # 0
    BY <1>1, Zenon
  <1>3. caller' \in 0 .. MaxTurns /\ caller' <= begun' /\ ActiveTurnHasCaller'
    BY ConstantsAssumption DEF ActiveTurnHasCaller
  <1> QED  BY <1>1, <1>2, <1>3, Zenon DEF CallInv

\* Callers, interrupts and close preserve the invariant.
LEMMA CallingSteps ==
  ASSUME Inv, Calling
  PROVE  Inv'
  <1> USE DEF Inv
  <1>1. CASE BeginTurn
    <2> DEFINE r == [NoTurn EXCEPT !.phase = "STREAMING"]
    <2>1. /\ active = 0 /\ begun < MaxTurns
          /\ begun' = begun + 1 /\ active' = begun + 1 /\ caller' = begun + 1
          /\ turn' = r /\ sending' = TRUE
          /\ ends' = ends /\ orphaned' = orphaned
      BY <1>1 DEF BeginTurn
    <2>2. /\ r \in Turn /\ Shape(r) /\ r.phase = "STREAMING"
      <3>1. /\ r.phase = "STREAMING" /\ ~r.deferred
            /\ r.tasks = NoTurn.tasks /\ r.timer = NoTurn.timer
        BY DEF NoTurn
      <3>2. r \in Turn
        BY NoTurnShape DEF Turn, Phases
      <3> QED  BY <3>1, <3>2, NoTurnShape DEF Shape, RunningTasks
    <2>3. Shape(turn)'
      BY <2>1, <2>2 DEF Shape, RunningTasks
    <2>4. Typed' /\ Shaped' /\ active' <= begun'
      BY <2>1, <2>2, <2>3, ConstantsAssumption DEF TurnInv, Typed, Shaped
    <2>5. OneEnding' /\ ResultWaitsForTasks'
      BY SMTT(30), <2>1, ConstantsAssumption
      DEF TurnInv, Typed, OneEnding, ResultWaitsForTasks, Turns
    <2>6. CallInv'
      BY <2>1, ConstantsAssumption DEF TurnInv, Typed, CallInv,
                                       ActiveTurnHasCaller
    <2> QED  BY <2>4, <2>5, <2>6 DEF TurnInv
  <1>2. CASE QuerySent
    <2>1. TurnInv' /\ active' = active
      BY <1>2, QuietStep DEF QuerySent, KeepTurn
    <2> QED  BY <1>2, <2>1 DEF QuerySent, CallInv, ActiveTurnHasCaller
  <1>3. CASE QueryFails
    <2>1. CASE active = caller
      <3>1. TurnInv' /\ active' = 0
        BY <1>3, <2>1, EndTurnStep DEF QueryFails, CallInv
      <3> QED  BY <1>3, <3>1, CallReleased DEF QueryFails, TurnInv, Typed
    <2>2. CASE active # caller
      <3>1. TurnInv' /\ active' = active
        BY <1>3, <2>2, QuietStep DEF QueryFails
      <3> QED  BY <1>3, <2>2, <3>1, CallReleased
               DEF QueryFails, CallInv, ActiveTurnHasCaller, TurnInv, Typed
    <2> QED  BY <2>1, <2>2
  <1>4. CASE CancelledWhileSending
    <2>1. TurnInv' /\ active' = active
      BY <1>4, QuietStep DEF CancelledWhileSending, KeepTurn
    <2>2. /\ caller' = 0 /\ sending' = FALSE /\ begun' \in 0 .. MaxTurns
          /\ active' # 0 => active' \in orphaned'
      BY <1>4, <2>1 DEF CancelledWhileSending, CallInv, ActiveTurnHasCaller,
                        TurnInv, Typed
    <2> QED  BY <2>1, <2>2, CallReleased
  <1>5. CASE AbandonTurn
    <2>0. sending = FALSE /\ UNCHANGED <<sending, begun, orphaned>> /\ caller' = 0
      BY <1>5 DEF AbandonTurn, CallInv
    <2>1. CASE active = caller
      <3>1. TurnInv' /\ active' = 0
        BY <1>5, <2>1, EndTurnStep DEF AbandonTurn
      <3> QED  BY <2>0, <3>1, ConstantsAssumption
               DEF CallInv, ActiveTurnHasCaller, TurnInv, Typed
    <2>2. CASE active # caller
      <3>1. TurnInv' /\ active' = active
        BY <1>5, <2>2, QuietStep DEF AbandonTurn
      <3> QED  BY <1>5, <2>0, <2>2, <3>1, ConstantsAssumption
               DEF AbandonTurn, CallInv, ActiveTurnHasCaller, TurnInv, Typed
    <2> QED  BY <2>1, <2>2
  <1>6. CASE InterruptTurn
    <2>1. /\ active # 0
          /\ turn' = [turn EXCEPT !.interrupted = TRUE, !.phase = "INTERRUPTED"]
      BY <1>6 DEF InterruptTurn
    <2>2. /\ turn' \in Turn
          /\ turn'.phase = "INTERRUPTED" /\ turn'.interrupted
          /\ turn'.tasks = turn.tasks /\ turn'.timer = turn.timer
      BY <2>1 DEF TurnInv, Typed, Turn, Phases
    <2>3. Shape(turn')
      BY <2>2 DEF TurnInv, Shaped, Shape, RunningTasks
    <2>4. TurnInv' /\ active' = active
      BY <1>6, <2>1, <2>2, <2>3, KeepTurnStep DEF InterruptTurn, KeepTurn
    <2> QED  BY <1>6, <2>4 DEF InterruptTurn, calls, CallInv,
                               ActiveTurnHasCaller
  <1>7. CASE Close
    <2>1. TurnInv' /\ active' \in {0, active}
      BY <1>7, EndTurnStep, QuietStep DEF Close
    <2> QED  BY <1>7, <2>1 DEF Close, calls, CallInv, ActiveTurnHasCaller
  <1> QED  BY <1>1, <1>2, <1>3, <1>4, <1>5, <1>6, <1>7 DEF Calling

\* A routed message leaves the calls alone and the slot as it is or empty.
LEMMA CallFrame ==
  ASSUME CallInv, UNCHANGED <<begun, calls>>, active' \in {0, active}
  PROVE  CallInv'
  BY DEF CallInv, ActiveTurnHasCaller, calls

\* Whatever message the reader routes, the invariant is preserved.
LEMMA ReadingSteps ==
  ASSUME Inv, Reading
  PROVE  Inv'
  <1> USE DEF Inv
  <1>a. active # 0 => turn \in Turn /\ Shape(turn) /\ turn.phase # "TERMINAL"
    BY DEF TurnInv, Typed, Shaped
  <1>1. CASE ReaderStops
    <2>1. TurnInv' /\ active' \in {0, active}
      BY <1>1, EndTurnStep, QuietStep DEF ReaderStops
    <2> QED  BY <1>1, <2>1, CallFrame DEF ReaderStops
  <1>2. ASSUME NEW t \in Tasks, TaskStarted(t) \/ TaskProgress(t)
        PROVE  Inv'
    <2>1. /\ active # 0 /\ turn' = TaskRuns(turn, t)
          /\ KeepTurn /\ UNCHANGED <<begun, calls>>
      BY <1>2 DEF TaskStarted, TaskProgress, Routed
    <2>2. TurnInv' /\ active' = active
      BY <1>a, <2>1, TaskRunsShape, KeepTurnStep
    <2> QED  BY <2>1, <2>2, CallFrame
  <1>3. ASSUME NEW t \in Tasks, TaskNotification(t)
        PROVE  Inv'
    <2>1. /\ active # 0 /\ turn' = TaskEnds(turn, t)
          /\ turn.tasks[t] # "unknown"
          /\ KeepTurn /\ UNCHANGED <<begun, calls>>
      BY <1>3 DEF TaskNotification, Routed
    <2>2. TurnInv' /\ active' = active
      BY <1>a, <2>1, TaskEndsShape, KeepTurnStep
    <2> QED  BY <2>1, <2>2, CallFrame
  <1>4. ASSUME NEW error \in BOOLEAN, Result(error)
        PROVE  Inv'
    <2> DEFINE final == \/ error
                        \/ turn.interrupted
                        \/ RunningTasks(turn) = {} /\ turn.had
    <2>1. active # 0 /\ UNCHANGED <<begun, calls>>
      BY <1>4 DEF Result, Routed
    <2>2. CASE final
      <3> DEFINE by == IF error THEN "error_result" ELSE "result"
      <3>1. EndTurn(active, by)
        BY <1>4, <2>2 DEF Result
      <3>2. by \in {"result", "deferred"} =>
              RunningTasks(turn) = {} \/ turn.interrupted
        BY <2>2
      <3>3. TurnInv' /\ active' = 0
        BY <2>1, <3>1, <3>2, EndTurnStep
      <3> QED  BY <2>1, <3>3, CallFrame
    <2>3. CASE ~final
      <3>1. turn' = Defers(turn) /\ KeepTurn
        BY <1>4, <2>3 DEF Result
      <3>2. TurnInv' /\ active' = active
        BY <1>a, <2>1, <3>1, DefersShape, KeepTurnStep
      <3> QED  BY <2>1, <3>2, CallFrame
    <2> QED  BY <2>2, <2>3
  <1>5. ASSUME NEW marker \in BOOLEAN, OtherMessage(marker)
        PROVE  Inv'
    <2>1. /\ active # 0 /\ turn' \in {turn, Continues(turn)}
          /\ KeepTurn /\ UNCHANGED <<begun, calls>>
      BY <1>5 DEF OtherMessage, Routed
    <2>2. TurnInv' /\ active' = active
      BY <1>a, <2>1, ContinuesShape, KeepTurnStep
    <2> QED  BY <2>1, <2>2, CallFrame
  <1> QED  BY <1>1, <1>2, <1>3, <1>4, <1>5 DEF Reading

\* So it is when a timer runs to its end.
LEMMA TimingSteps ==
  ASSUME Inv, Timing
  PROVE  Inv'
  <1> USE DEF Inv
  <1>1. PICK x \in Timers : /\ turn.timer[x] = "armed"
                            /\ UNCHANGED <<begun, calls>>
    BY DEF Timing, SettleTimer, CompletionTimer, DeferredTimer,
           BackgroundTimer, TimerRuns, Timers
  <1>2. active # 0 /\ turn \in Turn /\ Shape(turn)
    BY <1>1 DEF TurnInv, Typed, Shaped, NoTurn, NoTimers
  <1> DEFINE spent(y) == [turn EXCEPT !.timer[y] = "spent"]
  <1>3. ASSUME NEW y \in Timers, NEW by \in {"deferred", "timeout"},
               \/ /\ EndTurn(active, by)
                  /\ by = "deferred" => RunningTasks(turn) = {}
               \/ /\ Spend(y)
                  /\ Shape(spent(y))
        PROVE  Inv'
    <2>1. CASE EndTurn(active, by) /\ (by = "deferred" => RunningTasks(turn) = {})
      <3>1. TurnInv' /\ active' = 0
        BY <1>1, <1>2, <2>1, EndTurnStep
      <3> QED  BY <1>1, <3>1, CallFrame
    <2>2. CASE Spend(y) /\ Shape(spent(y))
      <3>1. spent(y) \in Turn /\ spent(y).phase # "TERMINAL"
        BY <1>2 DEF TurnInv, Shaped, Turn, TimerStates
      <3>2. TurnInv' /\ active' = active
        BY <1>1, <1>2, <2>2, <3>1, KeepTurnStep DEF Spend
      <3> QED  BY <1>1, <3>2, CallFrame
    <2> QED  BY <1>3, <2>1, <2>2
  <1>4. CASE SettleTimer
    <2>1. \/ EndTurn(active, "deferred") /\ RunningTasks(turn) = {}
          \/ /\ Spend("settle")
             /\ ~(turn.phase = "SETTLING" /\ turn.deferred
                  /\ RunningTasks(turn) = {})
      BY <1>4 DEF SettleTimer, DeferredTimer
    <2>2. ~(turn.phase = "SETTLING" /\ turn.deferred /\ RunningTasks(turn) = {})
            => Shape(spent("settle"))
      BY <1>2 DEF Shape, RunningTasks, Turn, Timers, TimerStates
    <2> QED  BY <1>3, <2>1, <2>2 DEF Timers
  <1>5. CASE CompletionTimer
    <2>1. \/ EndTurn(active, "deferred") /\ RunningTasks(turn) = {}
          \/ /\ Spend("completion")
             /\ ~(turn.phase = "AWAITING" /\ turn.deferred
                  /\ RunningTasks(turn) = {})
      BY <1>5 DEF CompletionTimer, DeferredTimer
    <2>2. ~(turn.phase = "AWAITING" /\ turn.deferred /\ RunningTasks(turn) = {})
            => Shape(spent("completion"))
      BY <1>2 DEF Shape, RunningTasks, Turn, Timers, TimerStates
    <2> QED  BY <1>3, <2>1, <2>2 DEF Timers
  <1>6. CASE BackgroundTimer
    <2>1. RunningTasks(turn) # {} /\ EndTurn(active, "timeout")
      BY <1>2, <1>6 DEF BackgroundTimer, TimerRuns, Shape
    <2> QED  BY <1>3, <2>1 DEF Timers
  <1> QED  BY <1>4, <1>5, <1>6 DEF Timing

\* A step that changes nothing.
LEMMA Stuttering ==
  ASSUME Inv, UNCHANGED vars
  PROVE  Inv'
  <1>1. TurnInv'
    BY QuietStep DEF Inv, vars, KeepTurn
  <1> QED  BY <1>1, CallFrame DEF Inv, vars, calls

\* A new connection, without a turn, satisfies the invariant.
LEMMA InitInv ==
  ASSUME Init
  PROVE  Inv
  <1>1. TurnInv
    BY NoTurnShape, ConstantsAssumption
    DEF Init, TurnInv, Typed, Shaped, OneEnding, ResultWaitsForTasks, Turns
  <1>2. sending \in BOOLEAN /\ ~sending
    BY DEF Init
  <1>3. sending => caller # 0
    BY <1>2, Zenon
  <1>4. caller \in 0 .. MaxTurns /\ caller <= begun /\ ActiveTurnHasCaller
    BY ConstantsAssumption DEF Init, ActiveTurnHasCaller
  <1> QED  BY <1>1, <1>2, <1>3, <1>4, Zenon DEF Inv, CallInv

-----------------------------------------------------------------------------
(* The memory of retired tasks                                             *)

\* Finitely many tasks are in order, however often they are.
LEMMA ToSetFinite ==
  ASSUME NEW q \in Seq(Tasks)
  PROVE  IsFiniteSet(ToSet(q)) /\ ToSet(q) \subseteq Tasks
  <1>1. DOMAIN q = 1 .. Len(q) /\ Len(q) \in Nat
    BY LenProperties
  <1>2. IsFiniteSet(DOMAIN q)
    BY <1>1, FS_Interval
  <1> DEFINE f == [i \in DOMAIN q |-> q[i]]
  <1>3. f \in Surjection(DOMAIN q, ToSet(q))
    BY DEF Surjection, ToSet
  <1>4. IsFiniteSet(ToSet(q))
    BY <1>2, <1>3, FS_Surjection
  <1>5. ToSet(q) \subseteq Tasks
    BY <1>1, ElementOfSeq DEF ToSet
  <1> QED  BY <1>4, <1>5

\* A sequence is what it starts with and what is left of it.
LEMMA SplitSeq ==
  ASSUME NEW q \in Seq(Tasks), NEW k \in 0 .. Len(q)
  PROVE  /\ SubSeq(q, k + 1, Len(q)) \in Seq(Tasks)
         /\ Len(SubSeq(q, k + 1, Len(q))) = Len(q) - k
         /\ SubSeq(q, 1, k) \in Seq(Tasks)
         /\ ToSet(q) = ToSet(SubSeq(q, 1, k))
                         \cup ToSet(SubSeq(q, k + 1, Len(q)))
  <1> DEFINE kept == SubSeq(q, k + 1, Len(q))
             gone == SubSeq(q, 1, k)
  <1>1. Len(q) \in Nat /\ DOMAIN q = 1 .. Len(q)
    BY LenProperties
  <1>2. /\ kept \in Seq(Tasks) /\ Len(kept) = Len(q) - k
        /\ \A i \in 1 .. Len(q) - k : kept[i] = q[k + i]
    <2> DEFINE m == k + 1
    <2>1. m \in Int /\ Len(q) \in Int /\ Len(q) - m + 1 = Len(q) - k
      BY <1>1
    <2>2. \A i \in m .. Len(q) : q[i] \in Tasks
      <3> TAKE i \in m .. Len(q)
      <3>1. i \in 1 .. Len(q)
        BY <1>1
      <3> QED  BY <3>1, ElementOfSeq
    <2> HIDE DEF m
    <2>3. /\ SubSeq(q, m, Len(q)) \in Seq(Tasks)
          /\ Len(SubSeq(q, m, Len(q)))
               = IF m <= Len(q) THEN Len(q) - m + 1 ELSE 0
          /\ \A i \in 1 .. Len(q) - m + 1 :
               SubSeq(q, m, Len(q))[i] = q[m + i - 1]
      BY <2>1, <2>2, SubSeqProperties
    <2>4. \A i \in 1 .. Len(q) - k : m + i - 1 = k + i
      BY <1>1 DEF m
    <2>5. kept = SubSeq(q, m, Len(q))
      BY DEF kept, m
    <2>6. \A n \in Nat : \A j \in 0 .. n :
            n - j = IF j + 1 <= n THEN n - (j + 1) + 1 ELSE 0
      OBVIOUS
    <2>7. Len(q) - k = IF m <= Len(q) THEN Len(q) - m + 1 ELSE 0
      BY <1>1, <2>6 DEF m
    <2> QED  BY <2>1, <2>3, <2>4, <2>5, <2>7
  <1>3. /\ gone \in Seq(Tasks) /\ Len(gone) = k
        /\ \A i \in 1 .. k : gone[i] = q[i]
    <2>1. gone = [i \in 1 .. k |-> q[i]]
      BY <1>1 DEF gone
    <2>2. \A i \in 1 .. k : i \in 1 .. Len(q)
      BY <1>1
    <2>3. \A i \in 1 .. Len(q) : q[i] \in Tasks
      BY ElementOfSeq
    <2>4. \A i \in 1 .. k : q[i] \in Tasks
      BY <2>2, <2>3
    <2>5. gone \in [1 .. k -> Tasks]
      BY <2>1, <2>4
    <2>6. k \in Nat
      BY <1>1
    <2> QED  BY <2>1, <2>5, <2>6
  <1> HIDE DEF kept, gone
  <1>4. DOMAIN kept = 1 .. Len(q) - k /\ DOMAIN gone = 1 .. k
    BY <1>2, <1>3, LenProperties
  <1>5. \A i \in 1 .. Len(q) : q[i] \in ToSet(gone) \cup ToSet(kept)
    <2> TAKE i \in 1 .. Len(q)
    <2>1. CASE i <= k
      <3>1. i \in 1 .. k
        BY <1>1, <2>1
      <3> QED  BY <1>3, <1>4, <3>1 DEF ToSet
    <2>2. CASE i > k
      <3>1. i - k \in 1 .. Len(q) - k /\ k + (i - k) = i
        BY <1>1, <2>2
      <3>2. kept[i - k] = q[i]
        BY <1>2, <3>1
      <3> QED  BY <1>4, <3>1, <3>2 DEF ToSet
    <2> QED  BY <1>1, <2>1, <2>2
  <1>6. ToSet(gone) \subseteq ToSet(q)
    BY <1>1, <1>3, <1>4 DEF ToSet
  <1>7. \A i \in 1 .. Len(q) - k : k + i \in 1 .. Len(q)
    BY <1>1
  <1>8. ToSet(kept) \subseteq ToSet(q)
    BY <1>1, <1>2, <1>4, <1>7 DEF ToSet
  <1>9. ToSet(q) \subseteq ToSet(gone) \cup ToSet(kept)
    BY <1>1, <1>5 DEF ToSet
  <1> QED  BY <1>2, <1>3, <1>6, <1>8, <1>9 DEF kept, gone

\* Two sequences after one another hold what both hold.
LEMMA JoinSeq ==
  ASSUME NEW p \in Seq(Tasks), NEW q \in Seq(Tasks)
  PROVE  p \o q \in Seq(Tasks) /\ ToSet(p \o q) = ToSet(p) \cup ToSet(q)
  <1> DEFINE r == p \o q
  <1>1. /\ r \in Seq(Tasks) /\ Len(r) = Len(p) + Len(q)
        /\ \A i \in 1 .. Len(p) : r[i] = p[i]
        /\ \A i \in Len(p) + 1 .. Len(p) + Len(q) : r[i] = q[i - Len(p)]
    BY ConcatProperties
  <1> HIDE DEF r
  <1>2. /\ Len(p) \in Nat /\ Len(q) \in Nat
        /\ DOMAIN p = 1 .. Len(p) /\ DOMAIN q = 1 .. Len(q)
        /\ DOMAIN r = 1 .. Len(p) + Len(q)
    BY <1>1, LenProperties
  <1>3. \A i \in 1 .. Len(q) : r[Len(p) + i] = q[i]
    BY <1>1, <1>2
  <1>4. \A i \in 1 .. Len(q) : Len(p) + i \in DOMAIN r
    BY <1>2
  <1>5. ToSet(p) \subseteq ToSet(r)
    BY <1>1, <1>2 DEF ToSet
  <1>6. ToSet(q) \subseteq ToSet(r)
    BY <1>2, <1>3, <1>4 DEF ToSet
  <1>7. \A i \in DOMAIN r : r[i] \in ToSet(p) \cup ToSet(q)
    <2> TAKE i \in DOMAIN r
    <2>1. CASE i <= Len(p)
      BY <1>1, <1>2, <2>1 DEF ToSet
    <2>2. CASE i > Len(p)
      <3>1. i - Len(p) \in DOMAIN q /\ r[i] = q[i - Len(p)]
        BY <1>1, <1>2, <2>2
      <3> QED  BY <3>1 DEF ToSet
    <2> QED  BY <1>2, <2>1, <2>2
  <1>8. ToSet(r) \subseteq ToSet(p) \cup ToSet(q)
    BY <1>7 DEF ToSet
  <1> QED  BY <1>1, <1>5, <1>6, <1>8 DEF r

\* No task of the turn or of the memory is lost but the ones pushed out.
LEMMA RetireStep ==
  ASSUME retired \in Seq(Tasks), turn.order \in Seq(Tasks),
         forgotten \subseteq Tasks, Retire
  PROVE  /\ retired' \in Seq(Tasks) /\ Len(retired') <= MaxRetired
         /\ forgotten \subseteq forgotten' /\ forgotten' \subseteq Tasks
         /\ ToSet(retired) \cup ToSet(turn.order)
              \subseteq ToSet(retired') \cup forgotten'
  <1> DEFINE S == ToSet(turn.order) \ ToSet(retired)
  <1>1. IsFiniteSet(S) /\ S \subseteq Tasks
    BY ToSetFinite, FS_Subset
  <1>2. Cardinality(S) \in Nat
    BY <1>1, FS_CardinalityType
  <1> HIDE DEF S
  <1>3. PICK new \in InOrder(S, turn.order) :
          LET all == retired \o new
              k == Evicted(all)
          IN  /\ retired' = SubSeq(all, k + 1, Len(all))
              /\ forgotten' = forgotten \cup ToSet(SubSeq(all, 1, k))
    BY DEF Retire, S
  <1>4. new \in Seq(Tasks) /\ ToSet(new) = S
    BY <1>1, <1>2 DEF InOrder
  <1> DEFINE all == retired \o new
             k == Evicted(all)
  <1>5. all \in Seq(Tasks) /\ ToSet(all) = ToSet(retired) \cup S
    BY <1>4, JoinSeq
  <1>6. retired' = SubSeq(all, k + 1, Len(all))
        /\ forgotten' = forgotten \cup ToSet(SubSeq(all, 1, k))
    BY <1>3
  <1> HIDE DEF all
  <1>7. k \in 0 .. Len(all) /\ Len(all) - k <= MaxRetired
    BY <1>5, LenProperties, ConstantsAssumption DEF Evicted
  <1> HIDE DEF k
  <1>8. /\ retired' \in Seq(Tasks) /\ Len(retired') = Len(all) - k
        /\ ToSet(SubSeq(all, 1, k)) \subseteq Tasks
        /\ ToSet(all) = ToSet(SubSeq(all, 1, k)) \cup ToSet(retired')
    BY <1>5, <1>6, <1>7, SplitSeq, ToSetFinite
  <1> QED  BY <1>5, <1>6, <1>7, <1>8 DEF S

\* EndTurn on the active turn hands its tasks over to the memory.
LEMMA MemoryEnds ==
  ASSUME Inv, MemoryInv, active # 0, NEW by, EndTurn(active, by),
         owner' = owner
  PROVE  MemoryInv'
  <1>1. turn' = NoTurn /\ active' = 0
    BY DEF EndTurn
  <1>2. /\ retired' \in Seq(Tasks) /\ Len(retired') <= MaxRetired
        /\ forgotten \subseteq forgotten' /\ forgotten' \subseteq Tasks
        /\ ToSet(retired) \cup ToSet(turn.order)
             \subseteq ToSet(retired') \cup forgotten'
    BY RetireStep DEF EndTurn, MemoryInv, Inv, TurnInv, Typed, Turn
  <1>3. Remembered'
    BY <1>1, <1>2 DEF MemoryInv, Remembered
  <1>4. Named' /\ TasksStayWithTheirTurn'
    BY <1>1 DEF Named, TasksStayWithTheirTurn, NoTurn
  <1> QED  BY <1>2, <1>3, <1>4 DEF MemoryInv

\* The active turn learns of no task that it did not know.
LEMMA MemoryStays ==
  ASSUME MemoryInv, KeepTurn, owner' = owner, turn'.order = turn.order,
         \A t \in Tasks : turn'.tasks[t] # "unknown" => turn.tasks[t] # "unknown"
  PROVE  MemoryInv'
  BY DEF MemoryInv, KeepTurn, Named, Remembered, TasksStayWithTheirTurn

\* A task that starts is new, or the active turn's already.
LEMMA MemoryStarts ==
  ASSUME Inv, MemoryInv, NEW t \in Tasks, TaskStarted(t)
  PROVE  MemoryInv'
  <1> DEFINE s == TaskRuns(turn, t)
  <1>1. turn \in Turn /\ active \in 1 .. MaxTurns
    BY ConstantsAssumption
    DEF TaskStarted, Routed, Inv, TurnInv, Typed
  <1>2. /\ turn.order \in Seq(Tasks)
        /\ turn.tasks \in [Tasks -> {"unknown", "running", "over"}]
    BY <1>1 DEF Turn
  <1>3. /\ s.order = IF turn.tasks[t] = "unknown" THEN Append(turn.order, t)
                     ELSE turn.order
        /\ s.tasks = [turn.tasks EXCEPT ![t] = "running"]
    BY <1>1 DEF TaskRuns, Cancel, Arm, Turn
  <1>4. ToSet(turn.order) \cup {t} \subseteq ToSet(s.order)
    <2>1. CASE turn.tasks[t] = "unknown"
      <3>1. s.order = Append(turn.order, t)
        BY <1>3, <2>1
      <3>2. /\ Len(turn.order) \in Nat /\ DOMAIN turn.order = 1 .. Len(turn.order)
            /\ DOMAIN s.order = 1 .. Len(turn.order) + 1
            /\ \A i \in 1 .. Len(turn.order) : s.order[i] = turn.order[i]
            /\ s.order[Len(turn.order) + 1] = t
        BY <1>2, <3>1
      <3> QED  BY <3>2 DEF ToSet
    <2>2. CASE turn.tasks[t] # "unknown"
      BY <1>3, <2>2 DEF MemoryInv, Named
    <2> QED  BY <2>1, <2>2
  <1>5. /\ turn' = s /\ active' = active /\ retired' = retired
        /\ forgotten' = forgotten /\ t \notin ToSet(retired)
        /\ owner' = [owner EXCEPT ![t] = IF @ = 0 THEN active ELSE @]
    BY DEF TaskStarted, KeepTurn
  <1> HIDE DEF s
  <1>6. /\ owner' \in [Tasks -> 0 .. MaxTurns]
        /\ owner'[t] # 0 /\ \A u \in Tasks \ {t} : owner'[u] = owner[u]
        /\ owner[t] # 0 => owner'[t] = owner[t]
        /\ owner[t] = 0 => owner'[t] = active
    BY <1>1, <1>5 DEF MemoryInv
  <1>7. t \notin forgotten => owner'[t] = active
    BY <1>5, <1>6 DEF MemoryInv, Remembered
  <1>8. \A u \in Tasks \ {t} : s.tasks[u] = turn.tasks[u]
    BY <1>2, <1>3
  <1>9. Named'
    BY <1>4, <1>5, <1>8 DEF MemoryInv, Named
  <1>10. Remembered'
    BY <1>1, <1>4, <1>5, <1>6, <1>7 DEF MemoryInv, Remembered
  <1>11. TasksStayWithTheirTurn'
    BY <1>5, <1>6, <1>7, <1>8 DEF MemoryInv, TasksStayWithTheirTurn
  <1> QED  BY <1>5, <1>6, <1>9, <1>10, <1>11 DEF MemoryInv

\* The other messages change tasks that the turn knows, or none.
LEMMA KnownTasks ==
  ASSUME NEW r \in Turn, NEW t \in Tasks
  PROVE  /\ r.tasks[t] # "unknown" => TaskRuns(r, t).order = r.order
         /\ TaskRuns(r, t).tasks = [r.tasks EXCEPT ![t] = "running"]
         /\ TaskEnds(r, t).order = r.order
         /\ TaskEnds(r, t).tasks = [r.tasks EXCEPT ![t] = "over"]
  BY DEF TaskRuns, TaskEnds, Cancel, Arm, Turn

\* A result or another message changes no task at all.
LEMMA UntouchedTasks ==
  ASSUME NEW r \in Turn
  PROVE  /\ Defers(r).order = r.order /\ Defers(r).tasks = r.tasks
         /\ Continues(r).order = r.order /\ Continues(r).tasks = r.tasks
  BY DEF Defers, Continues, Cancel, Arm, Turn

\* What was remembered stays remembered, and stays with its turn.
LEMMA MemoryStep ==
  ASSUME Inv, MemoryInv, [Next]_vars
  PROVE  MemoryInv'
  <1>t. turn \in Turn
    BY DEF Inv, TurnInv, Typed
  <1>1. CASE BeginTurn
    <2>1. /\ active = 0 /\ UNCHANGED <<retired, owner, forgotten>>
          /\ turn'.tasks = NoTurn.tasks
      BY <1>1 DEF BeginTurn, NoTurn
    <2>2. Named' /\ TasksStayWithTheirTurn'
      BY <2>1 DEF Named, TasksStayWithTheirTurn, NoTurn
    <2>3. Remembered'
      BY <2>1 DEF MemoryInv, Remembered
    <2> QED  BY <2>1, <2>2, <2>3 DEF MemoryInv
  <1>2. CASE QuerySent \/ CancelledWhileSending \/ UNCHANGED vars
    BY <1>2, MemoryStays
    DEF QuerySent, CancelledWhileSending, vars, KeepTurn
  <1>3. CASE QueryFails \/ AbandonTurn \/ Close \/ ReaderStops
    <2>1. /\ owner' = owner
          /\ \/ active # 0 /\ EndTurn(active, "failure")
             \/ turn' = turn /\ KeepTurn
      BY <1>3
      DEF QueryFails, AbandonTurn, Close, ReaderStops, Inv, CallInv
    <2> QED  BY <2>1, MemoryEnds, MemoryStays
  <1>4. CASE InterruptTurn
    <2>1. turn'.order = turn.order /\ turn'.tasks = turn.tasks
      BY <1>t, <1>4 DEF InterruptTurn, Turn
    <2> QED  BY <1>4, <2>1, MemoryStays DEF InterruptTurn, KeepTurn
  <1>5. ASSUME NEW t \in Tasks, TaskStarted(t)
        PROVE  MemoryInv'
    BY <1>5, MemoryStarts
  <1>6. ASSUME NEW t \in Tasks, TaskProgress(t) \/ TaskNotification(t)
        PROVE  MemoryInv'
    <2>1. /\ turn.tasks[t] # "unknown" /\ owner' = owner /\ KeepTurn
          /\ turn' = TaskRuns(turn, t) \/ turn' = TaskEnds(turn, t)
      BY <1>6 DEF TaskProgress, TaskNotification
    <2>2. /\ turn'.order = turn.order
          /\ turn'.tasks = [turn.tasks EXCEPT ![t] = "running"]
             \/ turn'.tasks = [turn.tasks EXCEPT ![t] = "over"]
      BY <1>t, <2>1, KnownTasks
    <2>3. \A u \in Tasks : u # t => turn'.tasks[u] = turn.tasks[u]
      BY <1>t, <2>2 DEF Turn
    <2> QED  BY <2>1, <2>2, <2>3, MemoryStays
  <1>7. ASSUME NEW error \in BOOLEAN, Result(error)
        PROVE  MemoryInv'
    <2>1. /\ owner' = owner /\ active # 0
          /\ \/ \E by \in {"result", "error_result"} : EndTurn(active, by)
             \/ turn' = Defers(turn) /\ KeepTurn
      BY <1>7 DEF Result, Routed
    <2> QED  BY <1>t, <2>1, UntouchedTasks, MemoryEnds, MemoryStays
  <1>8. ASSUME NEW marker \in BOOLEAN, OtherMessage(marker)
        PROVE  MemoryInv'
    <2>1. /\ owner' = owner /\ KeepTurn
          /\ turn' = turn \/ turn' = Continues(turn)
      BY <1>8 DEF OtherMessage
    <2> QED  BY <1>t, <2>1, UntouchedTasks, MemoryStays
  <1>9. CASE Timing
    <2>1. PICK x \in Timers :
            /\ turn.timer[x] = "armed" /\ owner' = owner
            /\ \/ \E by \in {"deferred", "timeout"} : EndTurn(active, by)
               \/ Spend(x)
      BY <1>9 DEF Timing, SettleTimer, CompletionTimer, DeferredTimer,
                  BackgroundTimer, TimerRuns, Timers
    <2>2. active # 0
      BY <2>1 DEF Inv, TurnInv, Shaped, NoTurn, NoTimers
    <2>3. Spend(x) => /\ KeepTurn
                      /\ turn'.order = turn.order /\ turn'.tasks = turn.tasks
      BY <1>t DEF Spend, Turn
    <2> QED  BY <2>1, <2>2, <2>3, MemoryEnds, MemoryStays
  <1> QED  BY <1>1, <1>2, <1>3, <1>4, <1>5, <1>6, <1>7, <1>8, <1>9
           DEF Next, Calling, Reading

\* The other variables keep their types; a query in flight is some turn's.
LEMMA FrameStep ==
  ASSUME Inv, FrameInv, [Next]_vars
  PROVE  FrameInv'
  <1>1. sending => caller \in Turns
    BY DEF Inv, CallInv, Turns
  <1>2. orphaned' \subseteq orphaned \cup {caller}
        /\ (orphaned' # orphaned => sending)
    BY DEF Next, Calling, BeginTurn, QuerySent, QueryFails,
      CancelledWhileSending, AbandonTurn, InterruptTurn, Close, Reading,
      ReaderStops, TaskStarted, TaskProgress, TaskNotification, Result,
      OtherMessage, Routed, Timing, SettleTimer, CompletionTimer,
      DeferredTimer, BackgroundTimer, TimerRuns, connection, calls, vars
  <1>3. messages' \in {messages, messages + 1}
        /\ (messages' # messages => messages < MaxMessages)
    BY DEF Next, Calling, BeginTurn, QuerySent, QueryFails,
      CancelledWhileSending, AbandonTurn, InterruptTurn, Close, Reading,
      ReaderStops, TaskStarted, TaskProgress, TaskNotification, Result,
      OtherMessage, Routed, Timing, SettleTimer, CompletionTimer,
      DeferredTimer, BackgroundTimer, TimerRuns, connection, calls, vars
  <1>4. /\ reading' = reading \/ reading' = FALSE
        /\ closed' = closed \/ closed' = TRUE
    BY DEF Next, Calling, BeginTurn, QuerySent, QueryFails,
      CancelledWhileSending, AbandonTurn, InterruptTurn, Close, Reading,
      ReaderStops, TaskStarted, TaskProgress, TaskNotification, Result,
      OtherMessage, Routed, Timing, SettleTimer, CompletionTimer,
      DeferredTimer, BackgroundTimer, TimerRuns, connection, calls, vars
  <1>5. reading' \in BOOLEAN /\ closed' \in BOOLEAN
    BY <1>4, Zenon DEF FrameInv
  <1>6. orphaned' \subseteq Turns
    BY <1>1, <1>2 DEF FrameInv
  <1>7. messages' \in 0 .. MaxMessages
    BY <1>3, ConstantsAssumption DEF FrameInv
  <1> QED  BY <1>5, <1>6, <1>7, Zenon DEF FrameInv

\* A new connection remembers nothing.
LEMMA InitMemory ==
  ASSUME Init
  PROVE  MemoryInv /\ FrameInv
  <1>1. retired \in Seq(Tasks) /\ Len(retired) <= MaxRetired
    BY ConstantsAssumption DEF Init
  <1>2. Named /\ Remembered /\ TasksStayWithTheirTurn
    BY DEF Init, Named, Remembered, TasksStayWithTheirTurn, NoTurn
  <1>3. MemoryInv
    BY <1>1, <1>2, ConstantsAssumption DEF Init, MemoryInv
  <1>4. reading \in BOOLEAN /\ closed \in BOOLEAN
    BY Zenon DEF Init
  <1>5. messages \in 0 .. MaxMessages /\ orphaned \subseteq Turns
    BY ConstantsAssumption DEF Init
  <1> QED  BY <1>3, <1>4, <1>5, Zenon DEF FrameInv

-----------------------------------------------------------------------------
(* Theorems                                                                *)

\* The inductive invariant holds in every reachable state.
THEOREM Invariance == Spec => []IInv
  <1>1. Init => IInv
    BY InitInv, InitMemory DEF IInv
  <1>2. IInv /\ [Next]_vars => IInv'
    <2> SUFFICES ASSUME IInv, [Next]_vars
                 PROVE  IInv'
      OBVIOUS
    <2>1. Inv'
      BY CallingSteps, ReadingSteps, TimingSteps, Stuttering DEF IInv, Next
    <2> QED  BY <2>1, MemoryStep, FrameStep DEF IInv
  <1> QED  BY <1>1, <1>2, PTL DEF Spec

\* Types hold for any number of tasks, turns and messages, and the memory
\* of retired tasks keeps to its limit.
THEOREM TypeCorrect == Spec => []TypeOK
  <1>1. IInv => TypeOK
    <2> SUFFICES ASSUME IInv
                 PROVE  TypeOK
      OBVIOUS
    <2>1. sending \in BOOLEAN /\ caller \in 0 .. MaxTurns
      BY Zenon DEF IInv, Inv, CallInv
    <2> QED  BY <2>1 DEF IInv, Inv, TurnInv, Typed, MemoryInv, FrameInv, TypeOK
  <1> QED  BY <1>1, Invariance, PTL

\* A task belongs to the first turn that saw it start, as long as it is
\* remembered.
THEOREM TasksKeepTheirTurn == Spec => []TasksStayWithTheirTurn
  <1>1. IInv => TasksStayWithTheirTurn
    BY DEF IInv, MemoryInv
  <1> QED  BY <1>1, Invariance, PTL

\* Every begun turn gets exactly one ending, whoever races to give it.
THEOREM SingleEnding == Spec => []OneEnding
  <1>1. IInv => OneEnding
    BY DEF IInv, Inv, TurnInv
  <1> QED  BY <1>1, Invariance, PTL

\* A success never cuts off a running background task of its own accord.
THEOREM TasksBeforeResult == Spec => []ResultWaitsForTasks
  <1>1. IInv => ResultWaitsForTasks
    BY DEF IInv, Inv, TurnInv
  <1> QED  BY <1>1, Invariance, PTL

\* Whatever keeps an uninterrupted turn open has a timer running.
THEOREM TimedWaits == Spec => []EveryWaitIsTimed
  <1>1. IInv => EveryWaitIsTimed
    BY DEF IInv, Inv, TurnInv, Typed, Shaped, Shape, EveryWaitIsTimed, Turn, Phases
  <1> QED  BY <1>1, Invariance, PTL

\* A query that holds the operation lock finds the turn slot free.
THEOREM ActiveCaller == Spec => []ActiveTurnHasCaller
  <1>1. IInv => ActiveTurnHasCaller
    BY DEF IInv, Inv, CallInv
  <1> QED  BY <1>1, Invariance, PTL
=============================================================================
