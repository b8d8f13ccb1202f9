------------------------------ MODULE Scheduler ------------------------------
(***************************************************************************)
(* Scheduled tasks (application/scheduler, ohs/scheduler_runner.py): the   *)
(* runner's tick and a user's "run now" execute tasks, each in a database  *)
(* transaction of its own, and leave the query of a run to a task in the   *)
(* background. When a task is due again is CronTime's.                     *)
(*                                                                         *)
(* A row is there or not, and says whether the task is enabled and due. A  *)
(* mark writes back the whole copy its transaction has read: an edit made  *)
(* since is undone, and a task deleted since is there again.               *)
(***************************************************************************)
EXTENDS Naturals, Sequences, FiniteSets

CONSTANTS
    Tasks,
    Runs,          \* identities of runs
    AutoUnbind,    \* tasks with auto_unbind_after_run
    MaxDue,        \* bound: times a task comes due
    MaxEdits,      \* bound: edits, deletions and "run now" of users
    MaxFailures    \* bound: failed steps, rolled back ticks and crashes

VARIABLES
    row,       \* task -> its committed row
    actor,     \* the tick's and run_now's transaction
    todo,      \* the copies of rows each still has to execute
    marks,     \* the copies each has saved and not committed
    saved,     \* run -> its row's status
    job,       \* run -> its execution: the task, and how far it is
    bound,     \* runs whose session was bound to the task's channel
    open,      \* runs whose session service is open
    left,      \* bounds
    \* History, read by no guard:
    came, asked, repeats

schedVars == <<row, actor, todo, marks, saved, job, bound, open, left, came,
               asked, repeats>>

Actors == {"tick", "now"}
NoRow == [there |-> FALSE, enabled |-> FALSE, due |-> FALSE]
NoJob == [task |-> "none", phase |-> "none"]
Phase(r, phase) == job' = [job EXCEPT ![r].phase = phase]

Init ==
    /\ row = [t \in Tasks |-> [there |-> TRUE, enabled |-> TRUE, due |-> FALSE]]
    /\ actor = [a \in Actors |-> "idle"]
    /\ todo = [a \in Actors |-> <<>>]
    /\ marks = [a \in Actors |-> {}]
    /\ saved = [r \in Runs |-> "none"]
    /\ job = [r \in Runs |-> NoJob]
    /\ bound = {} /\ open = {}
    /\ left = [due |-> MaxDue, edits |-> MaxEdits, failures |-> MaxFailures]
    /\ came = [t \in Tasks |-> 0] /\ asked = [t \in Tasks |-> 0]
    /\ repeats = 0

\* What executions end in: one that is kept could not release its channel, a
\* lost one was cut off by a crash.
Final == {"none", "refused", "over", "kept", "leaked", "lost"}

Spend(what) == left[what] > 0 /\ left' = [left EXCEPT ![what] = @ - 1]

\* A row somebody has saved and not committed is locked.
Unlocked(t) == \A a \in Actors : \A m \in marks[a] : m.task # t

Copy(t) == [task |-> t, enabled |-> row[t].enabled]
Copies == UNION {{todo[a][i] : i \in DOMAIN todo[a]} \cup marks[a] : a \in Actors}

----------------------------------------------------------------------------
\* Time and users

ComesDue(t) ==
    /\ row[t].there /\ row[t].enabled /\ ~row[t].due /\ Unlocked(t)
    /\ Spend("due")
    /\ row' = [row EXCEPT ![t].due = TRUE]
    /\ came' = [came EXCEPT ![t] = @ + 1]
    /\ UNCHANGED <<actor, todo, marks, saved, job, bound, open, asked, repeats>>

\* update_task: schedule_next puts the next time into the future again.
Update(t) ==
    /\ row[t].there /\ Unlocked(t)
    /\ Spend("edits")
    /\ \E on \in BOOLEAN :
         row' = [row EXCEPT ![t] = [there |-> TRUE, enabled |-> on, due |-> FALSE]]
    /\ UNCHANGED <<actor, todo, marks, saved, job, bound, open, came, asked, repeats>>

\* delete_task, with the task's runs.
Delete(t) ==
    /\ row[t].there /\ Unlocked(t)
    /\ Spend("edits")
    /\ row' = [row EXCEPT ![t] = NoRow]
    /\ saved' = [r \in Runs |-> IF job[r].task = t THEN "none" ELSE saved[r]]
    /\ UNCHANGED <<actor, todo, marks, job, bound, open, came, asked, repeats>>

----------------------------------------------------------------------------
\* Executing tasks

Due == {t \in Tasks : row[t].there /\ row[t].enabled /\ row[t].due}

\* run_due_tasks reads the rows that are due; execution may take long.
Tick ==
    /\ actor["tick"] = "idle" /\ Due # {}
    /\ \E order \in [1..Cardinality(Due) -> Due] :
         /\ \A i, j \in DOMAIN order : i # j => order[i] # order[j]
         /\ todo' = [todo EXCEPT !["tick"] = [i \in DOMAIN order |-> Copy(order[i])]]
    /\ actor' = [actor EXCEPT !["tick"] = "next"]
    /\ UNCHANGED <<row, marks, saved, job, bound, open, left, came, asked, repeats>>

RunNow(t) ==
    /\ actor["now"] = "idle" /\ row[t].there
    /\ Spend("edits")
    /\ todo' = [todo EXCEPT !["now"] = <<Copy(t)>>]
    /\ actor' = [actor EXCEPT !["now"] = "next"]
    /\ asked' = [asked EXCEPT ![t] = @ + 1]
    /\ UNCHANGED <<row, marks, saved, job, bound, open, came, repeats>>

\* A mark writes the whole copy, whatever became of the row.
Marked(rows, copies) ==
    [t \in Tasks |->
        IF \E m \in copies : m.task = t
        THEN LET m == CHOOSE m \in copies : m.task = t IN
             [there |-> TRUE, enabled |-> m.enabled, due |-> FALSE]
        ELSE rows[t]]

Commit(a) == row' = Marked(row, marks[a]) /\ marks' = [marks EXCEPT ![a] = {}]

\* Identities of runs yet to come; one is as good as another.
Fresh == LET free == {r \in Runs : job[r] = NoJob} IN
         IF free = {} THEN {} ELSE {CHOOSE r \in free : TRUE}

\* _execute_task saves the run and commits, the last task's mark included.
Start(a) ==
    /\ actor[a] = "next" /\ todo[a] # <<>>
    /\ \E r \in Fresh :
         /\ saved' = [saved EXCEPT ![r] = "running"]
         /\ job' = [job EXCEPT ![r] = [task |-> Head(todo[a]).task, phase |-> a]]
         /\ open' = open \cup {r}
    /\ Commit(a)
    /\ actor' = [actor EXCEPT ![a] = "executing"]
    /\ UNCHANGED <<todo, bound, left, came, asked, repeats>>

\* The session is made or found and bound to the channel; the query is left
\* to the background.
Launch(a) ==
    /\ actor[a] = "executing"
    /\ \E r \in Runs :
         /\ job[r].phase = a
         /\ Phase(r, "running")
         /\ bound' = bound \cup {r}
    /\ actor' = [actor EXCEPT ![a] = "mark"]
    /\ UNCHANGED <<row, todo, marks, saved, open, left, came, asked, repeats>>

\* One of these steps fails, before the binding or after it: the run is failed
\* and the service closed. The binding stays.
LaunchFails(a) ==
    /\ actor[a] = "executing"
    /\ Spend("failures")
    /\ \E r \in Runs :
         /\ job[r].phase = a
         /\ Phase(r, "refused")
         /\ saved' = [saved EXCEPT ![r] = "failed"]
         /\ open' = open \ {r}
         /\ bound' \in {bound, bound \cup {r}}
    /\ actor' = [actor EXCEPT ![a] = "mark"]
    /\ UNCHANGED <<row, todo, marks, came, asked, repeats>>

MarkUnlessRefused(a) ==
    /\ actor[a] = "mark"
    /\ Unlocked(Head(todo[a]).task)
    /\ marks' = [marks EXCEPT ![a] =
                   IF \E r \in Runs : job[r] = [task |-> Head(todo[a]).task, phase |-> "refused"]
                   THEN @ ELSE @ \cup {Head(todo[a])}]
    /\ todo' = [todo EXCEPT ![a] = Tail(@)]
    /\ actor' = [actor EXCEPT ![a] = "next"]
    /\ UNCHANGED <<row, saved, job, bound, open, left, came, asked, repeats>>

\* mark_triggered and save, on the copy read before the task was executed.
Mark(a) ==
    /\ actor[a] = "mark"
    /\ Unlocked(Head(todo[a]).task)
    /\ marks' = [marks EXCEPT ![a] = @ \cup {Head(todo[a])}]
    /\ todo' = [todo EXCEPT ![a] = Tail(@)]
    /\ actor' = [actor EXCEPT ![a] = "next"]
    /\ UNCHANGED <<row, saved, job, bound, open, left, came, asked, repeats>>

Done(a) ==
    /\ actor[a] = "next" /\ todo[a] = <<>>
    /\ Commit(a)
    /\ actor' = [actor EXCEPT ![a] = "idle"]
    /\ UNCHANGED <<todo, saved, job, bound, open, left, came, asked, repeats>>

\* A statement of the transaction fails: rolled back, and nothing of the rest
\* is executed now. If it is the one that should save a failed run, the run's
\* service is never closed.
RollBack(a) ==
    /\ actor[a] # "idle"
    /\ Spend("failures")
    /\ IF actor[a] = "executing"
       THEN \E r \in Runs :
              /\ job[r].phase = a /\ Phase(r, "leaked")
              /\ bound' \in {bound, bound \cup {r}}
       ELSE UNCHANGED <<job, bound>>
    /\ todo' = [todo EXCEPT ![a] = <<>>]
    /\ marks' = [marks EXCEPT ![a] = {}]
    /\ actor' = [actor EXCEPT ![a] = "idle"]
    /\ repeats' = repeats + 1
    /\ UNCHANGED <<row, saved, open, came, asked>>

----------------------------------------------------------------------------
\* _run_task_query

QueryEnds(r) ==
    /\ job[r].phase = "running"
    /\ \E how \in {"succeeded", "failed"} : Phase(r, how)
    /\ UNCHANGED <<row, actor, todo, marks, saved, bound, open, left, came, asked, repeats>>

\* The run is saved - merge inserts it again if it was deleted - or that fails.
SaveRun(r) ==
    /\ job[r].phase \in {"succeeded", "failed"}
    /\ \/ saved' = [saved EXCEPT ![r] = job[r].phase] /\ UNCHANGED left
       \/ Spend("failures") /\ UNCHANGED saved
    /\ Phase(r, "saved")
    /\ UNCHANGED <<row, actor, todo, marks, bound, open, came, asked, repeats>>

CleanUpAfterSave(r) ==
    /\ job[r].phase = "saved"
    /\ IF saved[r] # "running"
       THEN /\ bound' = IF job[r].task \in AutoUnbind THEN bound \ {r} ELSE bound
            /\ open' = open \ {r}
       ELSE UNCHANGED <<bound, open>>
    /\ Phase(r, "over")
    /\ UNCHANGED <<row, actor, todo, marks, saved, left, came, asked, repeats>>

\* The nested finally clauses: whatever failed before, the session is unbound,
\* or a failure of that is logged (_im_unbind_for_session), and its service
\* closed.
CleanUp(r) ==
    /\ job[r].phase = "saved"
    /\ \/ /\ Phase(r, "over")
          /\ bound' = IF job[r].task \in AutoUnbind THEN bound \ {r} ELSE bound
          /\ UNCHANGED left
       \/ /\ job[r].task \in AutoUnbind /\ Spend("failures")
          /\ Phase(r, "kept")
          /\ UNCHANGED bound
    /\ open' = open \ {r}
    /\ UNCHANGED <<row, actor, todo, marks, saved, came, asked, repeats>>

\* The process dies; nobody looks for runs that were running.
Crash ==
    /\ Spend("failures")
    /\ actor' = [a \in Actors |-> "idle"]
    /\ todo' = [a \in Actors |-> <<>>]
    /\ marks' = [a \in Actors |-> {}]
    /\ job' = [r \in Runs |-> IF job[r].phase \in Final THEN job[r]
                                ELSE [job[r] EXCEPT !.phase = "lost"]]
    /\ open' = {}
    /\ repeats' = repeats + 1
    /\ UNCHANGED <<row, saved, bound, came, asked>>

Next ==
    \/ \E t \in Tasks : ComesDue(t) \/ Update(t) \/ Delete(t) \/ RunNow(t)
    \/ \E a \in Actors :
         Start(a) \/ Launch(a) \/ LaunchFails(a) \/ Mark(a) \/ Done(a) \/ RollBack(a)
    \/ \E r \in Runs : QueryEnds(r) \/ SaveRun(r) \/ CleanUp(r)
    \/ Tick \/ Crash

Spec == Init /\ [][Next]_schedVars

----------------------------------------------------------------------------
\* Properties

TypeOK ==
    /\ row \in [Tasks -> [there : BOOLEAN, enabled : BOOLEAN, due : BOOLEAN]]
    /\ actor \in [Actors -> {"idle", "next", "executing", "mark"}]
    /\ Copies \subseteq [task : Tasks, enabled : BOOLEAN]
    /\ saved \in [Runs -> {"none", "running", "succeeded", "failed"}]
    /\ job \in [Runs -> [task : Tasks \cup {"none"},
                          phase : Final \cup Actors \cup {"running", "succeeded", "failed", "saved"}]]
    /\ bound \subseteq Runs /\ open \subseteq Runs
    /\ left \in [due : 0..MaxDue, edits : 0..MaxEdits, failures : 0..MaxFailures]

\* A task is executed once each time it comes due and once each time a user
\* asks, and more often only after the mark of an execution was lost with its
\* transaction (run_due_tasks: execute, then mark, then commit).
OncePerDue ==
    \A t \in Tasks :
        Cardinality({r \in Runs : job[r].task = t}) <= came[t] + asked[t] + repeats

\* Whatever fails in its query or after it, an execution closes its service
\* and, as the task says, releases the channel - but for a release that fails
\* itself, which is logged and tried by nobody again. What an execution refused
\* before its query or cut off by a crash leaves behind, nobody takes away.
ExecutionsReleaseTheirs ==
    \A r \in Runs :
        /\ job[r].phase \in Final \ {"leaked"} => r \notin open
        /\ job[r].phase = "over" /\ job[r].task \in AutoUnbind => r \notin bound
=============================================================================
