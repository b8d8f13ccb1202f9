---------------------------- MODULE SessionUpkeep ----------------------------
(***************************************************************************)
(* Everything that reads a session's row, works on its copy and saves the  *)
(* whole row again: queries, which are one after the other (SessionLocks), *)
(* and what takes no lock - compaction, cancels, clearing the context,     *)
(* renaming and other changes of a setting, the check for a lost process,  *)
(* deletion - with the recovery at the start of the process                *)
(* (SessionApplicationService, SessionQueryEngine.cancel_query, Session,   *)
(* SessionRepositoryImpl, InterruptedRunRecoveryService).                  *)
(*                                                                         *)
(* What a query does in between is QueryEngine's. MySQL's REPEATABLE READ  *)
(* is assumed: a transaction goes on seeing the row it has read. A save    *)
(* that fails is there where something is left behind by it.               *)
(***************************************************************************)
EXTENDS Naturals, FiniteSets

CONSTANTS
    Queries,      \* queries of the session
    Services,     \* calls of the other operations
    MaxCrashes,   \* bound: restarts and failing saves
    NoQuery

VARIABLES
    session,    \* the row
    op,         \* each operation: its kind, where it is, its copy of the row
    turn,       \* the query that has the session's lock
    activity,   \* the gateway's active mark
    cancelled,  \* the session is in cancelled_sessions
    crashes,
    \* History, read by no guard:
    behind,     \* operations whose copy the row has left behind
    overlaps,   \* a copy that was behind was saved, or what is in use was taken
    unsaved     \* work ended without the save that should tell so

upkeepVars == <<session, op, turn, activity, cancelled, crashes, behind, overlaps, unsaved>>
marks == <<turn, activity, cancelled, crashes>>

Ops == Queries \cup Services
Busy == {"running", "compacting"}
Fresh == [there |-> TRUE, status |-> "idle", answered |-> {}]
Off == [kind |-> "none", pc |-> "off", copy |-> Fresh]

Init ==
    /\ session = Fresh
    /\ op = [o \in Ops |-> Off]
    /\ turn = NoQuery
    /\ activity = FALSE /\ cancelled = FALSE
    /\ crashes = 0
    /\ behind = {} /\ overlaps = FALSE /\ unsaved = FALSE

Moves(o, pc) == op' = [op EXCEPT ![o].pc = pc]
Done == [Off EXCEPT !.pc = "done"]
Ends(o) == op' = [op EXCEPT ![o] = Done]
Under(o) == op[o].pc \notin {"off", "waiting", "asked", "done"}
AtWork == {o \in Ops : op[o].pc = "working"}

\* A commit of the whole copy. merge inserts a row it does not find, unless
\* the transaction has read the row before it was deleted: then the update
\* meets no row (StaleDataError), and _save_session lets it be. meets: the copy
\* takes a status that is in use.
Saves(o, copy, rereads, meets) ==
    /\ session' = IF session.there \/ rereads THEN copy ELSE session
    /\ behind' = {p \in Ops \ {o} : Under(p)}
    /\ overlaps' = (overlaps \/ meets \/ o \in behind)
    /\ unsaved' = (unsaved /\ copy.status \in Busy)

\* Work ends, and the row goes on saying what it says.
LeavesRow ==
    /\ unsaved' = (unsaved \/ session.status \in Busy)
    /\ UNCHANGED <<session, behind, overlaps>>

Faults == crashes < MaxCrashes /\ crashes' = crashes + 1

----------------------------------------------------------------------------
\* Operations begin with the row.

Reads(o, kind) ==
    /\ op' = [op EXCEPT ![o] = [kind |-> kind, pc |-> "read", copy |-> session]]
    /\ UNCHANGED <<session, activity, cancelled, crashes, behind, overlaps, unsaved>>

\* submit_query marks the session before it waits for the lock.
Submit(o) ==
    /\ o \in Queries /\ op[o].pc = "off"
    /\ activity' = TRUE
    /\ Moves(o, "waiting")
    /\ UNCHANGED <<session, turn, cancelled, crashes, behind, overlaps, unsaved>>

ReadQuery(o) ==
    /\ op[o].pc = "waiting" /\ turn = NoQuery
    /\ turn' = o
    /\ Reads(o, "query")

ReadService(o) ==
    /\ o \in Services /\ op[o].pc = "off"
    /\ \E kind \in {"rename", "compact", "clear", "check", "delete"} : Reads(o, kind)
    /\ UNCHANGED turn

\* cancel_query raises the session's flag, whatever runs or does not, and reads
\* the row when the run has been interrupted, or after two seconds.
AskCancel(o) ==
    /\ o \in Services /\ op[o].pc = "off"
    /\ cancelled' = TRUE
    /\ op' = [op EXCEPT ![o] = [kind |-> "cancel", pc |-> "asked", copy |-> Fresh]]
    /\ UNCHANGED <<session, turn, activity, crashes, behind, overlaps, unsaved>>

ReadCancel(o) ==
    /\ op[o].pc = "asked"
    /\ Reads(o, "cancel")
    /\ UNCHANGED turn

\* No row, or a status for which Session's methods raise. A query that is
\* refused takes the mark, whoever set it.
Permitted == [query |-> {"idle", "error"}, compact |-> {"idle"}, clear |-> {"idle", "error"},
              rename |-> {"idle", "error"} \cup Busy, check |-> {"running"},
              cancel |-> {"idle", "running"}, delete |-> {"idle", "error"} \cup Busy]

MayBegin(o) == op[o].copy.there /\ op[o].copy.status \in Permitted[op[o].kind]

Refused(o) ==
    /\ op[o].pc = "read" /\ ~MayBegin(o)
    /\ Ends(o)
    /\ turn' = IF turn = o THEN NoQuery ELSE turn
    /\ activity' = (activity /\ turn # o)
    /\ UNCHANGED <<session, cancelled, crashes, behind, overlaps, unsaved>>

Begins(o, kind) == op[o].pc = "read" /\ op[o].kind = kind /\ MayBegin(o)

\* rename, and whatever else saves the whole row for one of its columns: the
\* model, a rewind of an idle session, the queued command, that a cancel was
\* asked for, the request that waits for the user, a convergence's directory.
\* What they change is not told apart here.
Rename(o) ==
    /\ Begins(o, "rename")
    /\ Saves(o, op[o].copy, FALSE, FALSE)
    /\ Ends(o)
    /\ UNCHANGED marks

\* delete_session, and clear_context without a connection or when the gateway
\* fails its "/clear": the gateway forgets the session, with its active mark.
\* For a session to be deleted the engine forgets that it was cancelled.
Forget(o) ==
    /\ Begins(o, "delete") \/ Begins(o, "clear")
    /\ activity' = FALSE
    /\ cancelled' = (cancelled /\ op[o].kind # "delete")
    /\ overlaps' = (overlaps \/ AtWork # {})
    /\ Moves(o, "forgotten")
    /\ UNCHANGED <<session, turn, crashes, behind, unsaved>>

\* clear_context: "/clear" may take long; then the copy is emptied and saved.
Clear(o) ==
    /\ Begins(o, "clear") \/ (op[o].kind = "clear" /\ op[o].pc = "forgotten")
    /\ Saves(o, Fresh, FALSE, FALSE)
    /\ Ends(o)
    /\ UNCHANGED marks

\* ensure_session_idle: a run whose process is lost.
Check(o) ==
    /\ Begins(o, "check") /\ ~activity
    /\ Saves(o, [op[o].copy EXCEPT !.status = "error"], FALSE, FALSE)
    /\ Ends(o)
    /\ UNCHANGED marks

CheckPasses(o) ==
    /\ Begins(o, "check")
    /\ Ends(o)
    /\ UNCHANGED <<session, marks, behind, overlaps, unsaved>>

\* Session.cancel_query: idle, without the last exchange. The row is written
\* even if the run goes on, and again if "/rewind" yielded a conversation.
CancelSaves(o) ==
    /\ Begins(o, "cancel")
    /\ \E kept \in SUBSET op[o].copy.answered, pc \in {"done", "rewound"} :
         LET copy == [op[o].copy EXCEPT !.status = "idle", !.answered = kept] IN
         /\ Saves(o, copy, FALSE, AtWork # {})
         /\ op' = [op EXCEPT ![o] = IF pc = "done" THEN Done
                                    ELSE [kind |-> "cancel", pc |-> pc, copy |-> copy]]
    /\ UNCHANGED marks

\* A status cancel_query raises for is saved for the conversation alone.
CancelSavesAgain(o) ==
    /\ op[o].kind = "cancel"
    /\ \/ op[o].pc = "rewound"
       \/ op[o].pc = "read" /\ op[o].copy.there /\ ~MayBegin(o)
    /\ Saves(o, op[o].copy, FALSE, FALSE)
    /\ Ends(o)
    /\ UNCHANGED marks

\* The row is removed, if it is there still.
Remove(o) ==
    /\ op[o].kind = "delete" /\ op[o].pc = "forgotten"
    /\ session' = [Fresh EXCEPT !.there = FALSE]
    /\ behind' = {p \in Ops \ {o} : Under(p)}
    /\ overlaps' = (overlaps \/ \E p \in Ops \ {o} : Under(p))
    /\ Ends(o)
    /\ UNCHANGED <<marks, unsaved>>

----------------------------------------------------------------------------
\* A query and a compaction save at their beginning and at their end, with
\* their work in between.

Work(o, status) ==
    /\ activity' = TRUE
    /\ Saves(o, [op[o].copy EXCEPT !.status = status], FALSE, FALSE)
    /\ op' = [op EXCEPT ![o].pc = "working", ![o].copy.status = status]

StartQuery(o) ==
    /\ Begins(o, "query")
    /\ Work(o, "running")
    /\ UNCHANGED <<turn, cancelled, crashes>>

\* The save fails, and the run is over before it was at work.
StartQueryFails(o) ==
    /\ Begins(o, "query") /\ Faults
    /\ activity' = TRUE
    /\ Moves(o, "failing")
    /\ UNCHANGED <<session, turn, cancelled, behind, overlaps, unsaved>>

\* Every two seconds, unless cancelled.
PeriodicSave(o) ==
    /\ op[o].kind = "query" /\ op[o].pc = "working" /\ ~cancelled
    /\ Saves(o, op[o].copy, FALSE, FALSE)
    /\ UNCHANGED <<op, marks>>

StartCompact(o) ==
    /\ Begins(o, "compact")
    /\ Work(o, "compacting")
    /\ UNCHANGED <<turn, cancelled, crashes>>

\* The mark comes before the save, and nothing takes it back if that fails.
StartCompactFails(o) ==
    /\ Begins(o, "compact") /\ Faults
    /\ activity' = TRUE
    /\ Ends(o)
    /\ UNCHANGED <<session, turn, cancelled, behind, overlaps, unsaved>>

\* What a run ends with: its answer, or an error.
Endings(o) ==
    {[op[o].copy EXCEPT !.status = "error"]} \cup
    IF op[o].pc = "working"
    THEN {[op[o].copy EXCEPT !.status = "idle", !.answered = @ \cup {o}]} ELSE {}

\* The query's finalizer saves in a transaction of its own, if it must; both
\* attempts may fail. A cancelled run's row is left to cancel_query.
EndQuery(o) ==
    /\ op[o].kind = "query" /\ op[o].pc \in {"working", "failing"}
    /\ \/ ~cancelled /\ (\E ended \in Endings(o) : Saves(o, ended, TRUE, FALSE)) /\ UNCHANGED crashes
       \/ ~cancelled /\ Faults /\ LeavesRow
       \/ cancelled /\ LeavesRow /\ UNCHANGED crashes
    /\ activity' = FALSE /\ cancelled' = FALSE
    /\ turn' = NoQuery
    /\ Ends(o)

EndCompactIfDone(o) ==
    /\ op[o].kind = "compact" /\ op[o].pc = "working"
    /\ \/ Saves(o, [op[o].copy EXCEPT !.status = "idle"], TRUE, FALSE)
       \/ UNCHANGED <<session, behind, overlaps, unsaved>>
    /\ activity' = FALSE
    /\ Ends(o)
    /\ UNCHANGED <<turn, cancelled, crashes>>

\* Completed, failed, or failed after it was completed, the finally clause
\* saves the copy, once.
EndCompact(o) ==
    /\ op[o].kind = "compact" /\ op[o].pc = "working"
    /\ \/ Saves(o, [op[o].copy EXCEPT !.status = "idle"], TRUE, FALSE) /\ UNCHANGED crashes
       \/ Faults /\ LeavesRow
    /\ activity' = FALSE
    /\ Ends(o)
    /\ UNCHANGED <<turn, cancelled>>

\* The process dies. The recovery at its start looks at RUNNING rows alone.
Crash ==
    /\ Faults
    /\ op' = [o \in Ops |-> IF op[o].pc = "off" THEN op[o] ELSE Done]
    /\ turn' = NoQuery /\ activity' = FALSE /\ cancelled' = FALSE
    /\ session' = IF session.status = "running" THEN [session EXCEPT !.status = "error"] ELSE session
    /\ unsaved' = (session.status = "compacting")
    /\ behind' = {} /\ UNCHANGED overlaps

Next ==
    \/ \E o \in Ops :
         \/ Submit(o) \/ ReadQuery(o) \/ ReadService(o) \/ AskCancel(o) \/ ReadCancel(o)
         \/ Refused(o) \/ Rename(o) \/ Clear(o) \/ Check(o) \/ CheckPasses(o)
         \/ CancelSaves(o) \/ CancelSavesAgain(o) \/ Forget(o) \/ Remove(o)
         \/ StartQuery(o) \/ StartQueryFails(o) \/ PeriodicSave(o) \/ StartCompact(o)
         \/ StartCompactFails(o) \/ EndQuery(o) \/ EndCompact(o)
    \/ Crash

Spec == Init /\ [][Next]_upkeepVars

----------------------------------------------------------------------------
\* Properties

TypeOK ==
    /\ session \in [there : BOOLEAN, status : {"idle", "error"} \cup Busy, answered : SUBSET Queries]
    /\ DOMAIN op = Ops
    /\ turn \in Queries \cup {NoQuery}
    /\ crashes \in 0..MaxCrashes
    /\ {activity, cancelled, overlaps, unsaved} \subseteq BOOLEAN

\* The status serves as the lock that compaction does not take: as long as no
\* copy that the row had left behind was saved, and no mark or status in use
\* was taken, one operation at most is at work, the row says so as long as it
\* is, and a query at work has the gateway's mark - through failures, cancels
\* and restarts. When nobody is at work the row does not say that somebody is,
\* unless the last work ended without its save: a cancelled run, one whose
\* final saves failed, or a compaction whose last save failed or that was cut
\* off by the process' end.
StatusTellsTheWork ==
    ~overlaps =>
        /\ Cardinality(AtWork) <= 1
        /\ AtWork # {} => session.there /\ session.status \in Busy
        /\ session.there /\ session.status \in Busy => AtWork # {} \/ unsaved
        /\ AtWork \cap Queries # {} => activity

\* "Save skipped because the session was deleted concurrently" (_save_session):
\* a session that was deleted is not there again.
DeletedStaysDeleted == [][~session.there => ~session'.there]_upkeepVars
=============================================================================
