--------------------------- MODULE ExecutionTree ---------------------------
(***************************************************************************)
(* The execution tree of a run (execution_trace_query_service.py,          *)
(* execution_trace_projector.py). The agent writes one transcript for all  *)
(* runs of a session, without their ids. A query takes the records between *)
(* the times of the run's span, with the runs before it that it continues, *)
(* and reads them one by one: the turns of the agent, each under the task  *)
(* that is in progress, the results of its calls, the tasks it creates and *)
(* updates.                                                                *)
(***************************************************************************)
EXTENDS Naturals, SequencesExt, FiniteSets

CONSTANTS
    MaxRuns,    \* of the session (bound)
    MaxWritten  \* prompts and turns in its transcript; results come on top (bound)

VARIABLES
    records,  \* the transcript
    runs      \* the spans of the runs

treeVars == <<records, runs>>

Tolerance == 1  \* two seconds; records of a run are one apart
Steps == {1, 3}  \* soon after what was written last, or later than the tolerance

Given(n) == <<"task", n>>
Provisional(c) == <<"pending", c>>
Implicit == <<"implicit", 0>>
NoTask == <<"none", 0>>

Init == records = <<>> /\ runs = <<>>

----------------------------------------------------------------------------
\* _filter_records_to_run, of the spans of rs. A run that runs has no end yet.
Window(rs) ==
    LET begin == CHOOSE t \in {runs[r].started : r \in rs} :
                     \A r \in rs : t <= runs[r].started
        ends == {runs[r].ended : r \in {r \in rs : runs[r].state # "running"}}
        marks == IF ends = {} THEN {runs[r].started : r \in rs} ELSE ends
        end == CHOOSE t \in marks : \A u \in marks : u <= t
    IN  SelectSeq(records, LAMBDA rec : /\ begin <= rec.at + Tolerance
                                        /\ rec.at <= end + Tolerance)

\* _coalesce_assistant_turns: records of the agent that follow one another.
Coalesced(recs) ==
    LET call(rec) == IF rec.op = "text" THEN <<>> ELSE <<rec>>
        add(turns, rec) ==
            LET tail == turns[Len(turns)] IN
            IF rec.kind # "turn" THEN Append(turns, rec)
            ELSE IF turns # <<>> /\ tail.kind = "turn" /\ tail.ids[Len(tail.ids)] = rec.id - 1
            THEN [turns EXCEPT ![Len(turns)] =
                     [@ EXCEPT !.ids = Append(@, rec.id), !.calls = @ \o call(rec)]]
            ELSE Append(turns, [kind |-> "turn", ids |-> <<rec.id>>, calls |-> call(rec)])
    IN  FoldLeft(add, <<>>, recs)

----------------------------------------------------------------------------
\* The projector. What it has read so far: tasks and loops in order, a copy of
\* each loop with its task, and the calls without a result.

Task(id, explicit, status) ==
    [id |-> id, explicit |-> explicit, status |-> status, loops |-> <<>>]
Unread(seeds) ==
    [tasks |-> <<Task(Implicit, FALSE, "in_progress")>> \o seeds, loops |-> <<>>,
     pending |-> {}, creates |-> {}, warned |-> FALSE, broken |-> FALSE]

HasTask(tasks, id) == \E i \in DOMAIN tasks : tasks[i].id = id
At(tasks, id) == CHOOSE i \in DOMAIN tasks : tasks[i].id = id

\* _task_for_blocks, _active_task.
OwnerOf(calls, tasks) ==
    LET updated == {c.task : c \in {c \in ToSet(calls) : c.op = "update" /\ HasTask(tasks, c.task)}}
        active == {t.id : t \in {t \in ToSet(tasks) : t.explicit /\ t.status = "in_progress"}}
    IN  CASE Cardinality(updated) = 1 -> CHOOSE id \in updated : TRUE
          [] Cardinality(updated) # 1 /\ Cardinality(active) = 1 -> CHOOSE id \in active : TRUE
          [] OTHER -> Implicit

Ambiguous(calls, tasks) ==
    LET updated == {c.task : c \in {c \in ToSet(calls) : c.op = "update" /\ HasTask(tasks, c.task)}}
        active == {t \in ToSet(tasks) : t.explicit /\ t.status = "in_progress"}
    IN  Cardinality(updated) > 1 \/ (updated = {} /\ Cardinality(active) > 1)

\* _apply_task_tool. A task may be created in progress, and own turns before it
\* has its id.
ApplyCall(st, c) ==
    LET called == [st EXCEPT !.pending = @ \cup {c.id}] IN
    CASE c.op = "create" ->
            [called EXCEPT !.tasks = Append(@, Task(Provisional(c.id), TRUE, c.status)),
                           !.creates = @ \cup {c.id}]
      [] c.op = "update" /\ HasTask(st.tasks, c.task) ->
            [called EXCEPT !.tasks[At(st.tasks, c.task)].status = c.status]
      [] c.op = "update" /\ ~ HasTask(st.tasks, c.task) -> [called EXCEPT !.warned = TRUE]
      [] OTHER -> called

ReadTurn(st, turn) ==
    LET owner == OwnerOf(turn.calls, st.tasks)
        loop == [no |-> Len(st.loops) + 1, ids |-> turn.ids, task |-> owner, results |-> <<>>,
                 uses |-> {c.id : c \in ToSet(turn.calls)}]
        read == FoldLeft(ApplyCall, st, turn.calls)
    IN  [read EXCEPT !.loops = Append(@, loop),
                     !.tasks[At(read.tasks, owner)].loops = Append(@, loop),
                     !.warned = @ \/ Ambiguous(turn.calls, st.tasks)]

\* Mutant: the task keeps its copy.
ReplacedNowhere(tasks, loop) == tasks

\* _replace_task_loop.
ReplacedIn(tasks, loop) ==
    [i \in DOMAIN tasks |->
        IF tasks[i].id # loop.task THEN tasks[i]
        ELSE [tasks[i] EXCEPT !.loops =
                 [n \in DOMAIN @ |-> IF @[n].no = loop.no THEN loop ELSE @[n]]]]

\* _resolve_task_id: the task gets its id, and its place at the end.
Resolved(tasks, from, to) ==
    IF ~ HasTask(tasks, from) THEN tasks
    ELSE LET task == tasks[At(tasks, from)]
             rest == SelectSeq(tasks, LAMBDA t : t.id # from)
         IN  IF HasTask(rest, to)
             THEN [rest EXCEPT ![At(rest, to)].explicit = TRUE, ![At(rest, to)].loops = @ \o task.loops]
             ELSE Append(rest, [task EXCEPT !.id = to])

\* A result goes to the loop that made its call. The loop keeps the name its task
\* had then: when the task got its id in between, looking it up is a KeyError,
\* and there is no tree.
ReadResult(st, rec) ==
    IF rec.call \notin st.pending THEN [st EXCEPT !.warned = TRUE]
    ELSE LET n == CHOOSE n \in DOMAIN st.loops : rec.call \in st.loops[n].uses
             loop == [st.loops[n] EXCEPT !.results = Append(@, rec.id)]
             replaced == ReplacedIn(st.tasks, loop)
             creates == rec.call \in st.creates
         IN  [st EXCEPT
                 !.pending = @ \ {rec.call}, !.creates = @ \ {rec.call},
                 !.loops[n] = loop,
                 !.broken = @ \/ ~ HasTask(st.tasks, loop.task),
                 !.tasks = IF creates /\ rec.ok
                           THEN Resolved(replaced, Provisional(rec.call), Given(rec.made))
                           ELSE replaced,
                 !.warned = @ \/ (creates /\ ~ rec.ok)]

ReadRecord(st, rec) ==
    CASE rec.kind = "turn" -> ReadTurn(st, rec)
      [] rec.kind = "result" -> ReadResult(st, rec)
      [] rec.kind = "prompt" -> st

\* _assign_unowned_loops: to the task of the nearest loop, of the earlier of two.
Assigned(tasks, unowned) ==
    LET owned == {<<i, l.no>> : i \in DOMAIN tasks, l \in UNION {ToSet(t.loops) : t \in ToSet(tasks)}}
        holds == {p \in owned : \E l \in ToSet(tasks[p[1]].loops) : l.no = p[2]}
        far(p, no) == IF p[2] > no THEN 2 * (p[2] - no) + 1 ELSE 2 * (no - p[2])
        target(no) == IF holds = {} THEN 1
                      ELSE (CHOOSE p \in holds : \A q \in holds : far(p, no) <= far(q, no))[1]
        taken(i) == SelectSeq(unowned, LAMBDA l : target(l.no) = i)
        moved(i) == [n \in DOMAIN taken(i) |-> [taken(i)[n] EXCEPT !.task = tasks[i].id]]
    IN  [i \in DOMAIN tasks |->
            [tasks[i] EXCEPT !.loops = SortSeq(@ \o moved(i), LAMBDA a, b : a.no < b.no)]]

\* What is shown of what has been read: the explicit tasks, with the turns of no
\* task; or all as one task.
Shown(st) ==
    LET explicit == SelectSeq(st.tasks, LAMBDA t : t.explicit)
        implicit == st.tasks[At(st.tasks, Implicit)]
        shown == IF explicit = <<>> THEN SelectSeq(st.tasks, LAMBDA t : t.loops # <<>>)
                 ELSE Assigned(explicit, implicit.loops)
    IN  [tasks |-> shown, complete |-> ~ st.warned /\ st.pending = {}, broken |-> st.broken]

\* project.
Project(recs, seeds) == Shown(FoldLeft(ReadRecord, Unread(seeds), Coalesced(recs)))

----------------------------------------------------------------------------
\* The query.

\* _contains_task_create.
HasCreate(recs) == \E rec \in ToSet(recs) : rec.kind = "turn" /\ rec.op = "create"

\* _extract_task_definitions, of the whole transcript: tasks with the last
\* status they were given, at their creation if not later, those without an
\* answer last.
Seeds ==
    LET made == SelectSeq(records, LAMBDA rec :
                    rec.kind = "result" /\ records[rec.call].op = "create" /\ rec.ok)
        waits == SelectSeq(records, LAMBDA rec :
                    /\ rec.kind = "turn" /\ rec.op = "create"
                    /\ \A a \in ToSet(records) : a.kind = "result" => a.call # rec.id)
        updates(id) == SelectSeq(records, LAMBDA rec :
                           rec.kind = "turn" /\ rec.op = "update" /\ rec.task = id)
        status(id, call) == IF updates(id) = <<>> THEN records[call].status
                            ELSE updates(id)[Len(updates(id))].status
        seed(id, call) == Task(id, TRUE, status(id, call))
    IN  [i \in DOMAIN made |-> seed(Given(made[i].made), made[i].call)]
        \o [i \in DOMAIN waits |-> seed(Provisional(waits[i].id), waits[i].id)]

\* _continuation_spans: back over interrupted runs, as long as it is asked to go on.
Continued(r) ==
    {q \in 1 .. r : \A p \in q + 1 .. r :
        runs[p].resumes /\ runs[p - 1].state = "cancelled"}

\* get_execution_tree.
TreeOf(r) ==
    LET own == Window({r})
        wide == Window(Continued(r))
        recs == IF Continued(r) # {r} /\ ~ HasCreate(own) /\ HasCreate(wide) THEN wide ELSE own
    IN  Project(recs, IF HasCreate(recs) THEN <<>> ELSE Seeds)

----------------------------------------------------------------------------
\* The session: runs one after the other, and what the agent writes.

Now == IF records = <<>> THEN 0 ELSE records[Len(records)].at
Current == Len(runs)
Running == runs # <<>> /\ runs[Current].state = "running"

Write(rec) ==
    /\ rec.kind = "result"
       \/ Cardinality({n \in DOMAIN records : records[n].kind # "result"}) < MaxWritten
    /\ records' = Append(records, rec)

\* A prompt, which may ask to go on.
StartRun(resumes, step) ==
    /\ ~ Running /\ Current < MaxRuns
    /\ resumes => runs # <<>> /\ runs[Current].state = "cancelled"
    /\ runs = <<>> => step = 1
    /\ runs' = Append(runs, [state |-> "running", started |-> Now + step, ended |-> 0,
                             resumes |-> resumes])
    /\ Write([kind |-> "prompt", id |-> Len(records) + 1, at |-> Now + step, run |-> Current + 1])

\* The agent may write more than the run waited for.
Speaks == runs # <<>>

Created == {rec.made : rec \in {rec \in ToSet(records) : rec.kind = "result"}} \ {0}

Turn(op, task, status) ==
    /\ Speaks
    /\ Write([kind |-> "turn", id |-> Len(records) + 1, at |-> Now + 1, run |-> Current,
              op |-> op, task |-> task, status |-> status])
    /\ UNCHANGED runs

\* The result of a call; a task that is created has the next number. What fails
\* otherwise is shown as a result (and as a failure, which is left out here).
Result(c, ok) ==
    /\ Speaks
    /\ records[c].kind = "turn" /\ records[c].op # "text"
    /\ ok \/ records[c].op = "create"
    /\ \A rec \in ToSet(records) : rec.kind = "result" => rec.call # c
    /\ Write([kind |-> "result", id |-> Len(records) + 1, at |-> Now + 1, run |-> Current,
              call |-> c, ok |-> ok,
              made |-> IF ok /\ records[c].op = "create" THEN Cardinality(Created) + 1 ELSE 0])
    /\ UNCHANGED runs

\* Completed or failed; or cut off: cancelled or abandoned.
EndRun(state) ==
    /\ Running
    /\ runs' = [runs EXCEPT ![Current].state = state, ![Current].ended = Now]
    /\ UNCHANGED records

Next ==
    \/ \E resumes \in BOOLEAN, step \in Steps : StartRun(resumes, step)
    \/ \E op \in {"text", "tool"} : Turn(op, NoTask, "none")
    \/ \E status \in {"pending", "in_progress"} : Turn("create", NoTask, status)
    \/ \E n \in Created, status \in {"in_progress", "completed"} : Turn("update", Given(n), status)
    \/ \E c \in DOMAIN records, ok \in BOOLEAN : Result(c, ok)
    \/ \E state \in {"ended", "cancelled"} : EndRun(state)

Spec == Init /\ [][Next]_treeVars

----------------------------------------------------------------------------
Ended == {r \in DOMAIN runs : runs[r].state # "running"}
Turns(r) == {rec.id : rec \in {rec \in ToSet(records) :
                rec.kind = "turn" /\ rec.run = r /\ rec.at <= runs[r].ended}}
ShownIn(tree) == UNION {ToSet(t.loops) : t \in ToSet(tree.tasks)}

Answered(l) == {records[l.results[i]].call : i \in DOMAIN l.results}

AnswerTo(c) == {a.id : a \in {a \in ToSet(records) : a.kind = "result" /\ a.call = c}}

\* A call of a later turn than a creation in progress is answered after the
\* creation, which is answered after the call.
AnsweredLate ==
    \E c \in DOMAIN records, e \in DOMAIN records :
        /\ records[c].kind = "turn" /\ records[c].op = "create" /\ records[c].status = "in_progress"
        /\ records[e].kind = "turn" /\ \E n \in c .. e : records[n].kind # "turn"
        /\ \E a \in AnswerTo(c), b \in AnswerTo(e) : e < a /\ a < b /\ records[a].ok

TellsTheRun(tree, r) ==
    LET results == {rec \in ToSet(Window({r})) : rec.kind = "result"}
        near == {rec.id : rec \in ToSet(Window(Continued(r)))}
    IN  IF tree.broken THEN AnsweredLate ELSE
        /\ \A id \in Turns(r) :
                Cardinality({t \in DOMAIN tree.tasks :
                    \E l \in ToSet(tree.tasks[t].loops) : id \in ToSet(l.ids)}) = 1
        /\ \A t \in ToSet(tree.tasks) : \A n \in 2 .. Len(t.loops) :
                t.loops[n - 1].no < t.loops[n].no
        /\ \A l \in ShownIn(tree) :
                /\ ToSet(l.ids) \subseteq near
                /\ Answered(l) \subseteq l.uses
                /\ {rec.call : rec \in results} \cap l.uses \subseteq Answered(l)
                /\ tree.complete => l.uses = Answered(l)

\* The tree of a run that has ended shows each of its turns, under one task and
\* in order, with the results of its calls, and is called complete only if no
\* call is without one; what it shows of other runs is what it continues or
\* came within the tolerance. There is no tree only if a task was created in
\* progress and got its id between a later turn's call and the call's result.
TreesTellTheRuns == \A r \in Ended : TellsTheRun(TreeOf(r), r)
=============================================================================
