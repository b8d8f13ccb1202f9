--------------------------- MODULE TraceCollector ---------------------------
(***************************************************************************)
(* The run envelopes (trace_collector.py): one span for each run, kept in  *)
(* memory and written to trace_spans and execution_events by flushes. The  *)
(* loop flushes every second, each OTel request flushes before it writes   *)
(* its own spans, and shutdown flushes last. A flush takes what is dirty,  *)
(* writes it in one transaction without the lock, and puts it back if that *)
(* fails; both tables refer to sessions. A session's deletion first takes  *)
(* its spans from memory and later removes its row with everything that    *)
(* refers to it. A restart loses the memory and abandons the rows that     *)
(* are left running (interrupted_run_recovery_service.py).                 *)
(***************************************************************************)
EXTENDS Naturals, Sequences, FiniteSets

CONSTANTS
    TracedRuns,      \* runs,
    TracedSessions,  \* each of one session:
    SessionOf,
    OtelRequests,    \* requests that flush
    FlushLoop,       \* _flush_loop, and the last flush of stop
    MaxWriteFaults,  \* transactions that fail (bound)
    MaxDeletions     \* sessions deleted (bound)

VARIABLES
    span,       \* _buffer: what memory says of each run
    new,        \* _dirty_new
    updated,    \* _dirty_update
    pending,    \* _pending_events, by run
    flush,      \* each flush, with what it took
    life,       \* the process: "up", "stopping", "down", "recovered"
    owner,      \* each session: "present", "discarded" from memory, "removed"
    row,        \* trace_spans, by run
    ledger,     \* execution_events, by run
    writeFaults,
    \* History, read by no guard:
    outcome,    \* what became of each run
    twice,      \* runs that two flushes carried at once
    met,        \* runs whose session was discarded while a flush carried them,
                \* or that began after that
    lost        \* runs whose changes were dropped

traceVars == <<span, new, updated, pending, flush, life, owner, row, ledger, writeFaults,
               outcome, twice, met, lost>>

Flushers == OtelRequests \cup {FlushLoop}
Known == {r \in TracedRuns : span[r] \in {"running", "ended"}}
None == [r \in TracedRuns |-> <<>>]
Dirty == new \cup updated \cup {r \in TracedRuns : pending[r] # <<>>}
Carried(f) ==
    flush[f].new \cup flush[f].updated \cup {r \in TracedRuns : flush[f].events[r] # <<>>}
RunsOf(s) == {r \in TracedRuns : SessionOf[r] = s}
NoSpans == [r \in TracedRuns |-> "none"]
AtRest == [at |-> "idle", new |-> {}, updated |-> {}, as |-> NoSpans, events |-> None]

Init ==
    /\ span = NoSpans /\ new = {} /\ updated = {} /\ pending = None
    /\ flush = [f \in Flushers |-> AtRest] /\ life = "up"
    /\ owner = [s \in TracedSessions |-> "present"]
    /\ row = NoSpans /\ ledger = None /\ writeFaults = 0
    /\ outcome = NoSpans /\ twice = {} /\ met = {} /\ lost = {}

----------------------------------------------------------------------------
\* Runs.

\* ensure_run_span: again for a run whose span was discarded.
Begin(r) ==
    /\ life = "up" /\ span[r] \in {"none", "discarded"} /\ owner[SessionOf[r]] # "removed"
    /\ span' = [span EXCEPT ![r] = "running"]
    /\ outcome' = [outcome EXCEPT ![r] = "running"]
    /\ new' = new \cup {r}
    /\ pending' = [pending EXCEPT ![r] = Append(@, "running")]
    /\ met' = IF owner[SessionOf[r]] = "discarded" THEN met \cup {r} ELSE met
    /\ UNCHANGED <<updated, flush, life, owner, row, ledger, writeFaults, twice, lost>>

\* The spans of rs end, one way or another, as _mark_updated records it.
End(rs) ==
    /\ span' = [r \in TracedRuns |-> IF r \in rs THEN "ended" ELSE span[r]]
    /\ outcome' = [r \in TracedRuns |-> IF r \in rs THEN "ended" ELSE outcome[r]]
    /\ updated' = updated \cup rs
    /\ pending' = [r \in TracedRuns |-> IF r \in rs THEN Append(pending[r], "ended") ELSE pending[r]]

\* finish_run: completed, failed or cancelled.
Finish(r) ==
    /\ life \in {"up", "stopping"} /\ span[r] = "running"
    /\ End({r})
    /\ UNCHANGED <<new, flush, life, owner, row, ledger, writeFaults, twice, met, lost>>

RunningIn(rs) == {r \in rs : span[r] = "running"}

\* abandon_all_running of a session whose process is lost (ensure_session_idle).
AbandonSession(s) ==
    /\ life = "up" /\ RunningIn(RunsOf(s)) # {}
    /\ End(RunningIn(RunsOf(s)))
    /\ UNCHANGED <<new, flush, life, owner, row, ledger, writeFaults, twice, met, lost>>

----------------------------------------------------------------------------
\* Flushes.

Emptied == new' = {} /\ updated' = {} /\ pending' = None

\* The process ends: memory is lost.
Wiped ==
    /\ life' = "down"
    /\ Emptied
    /\ span' = [r \in TracedRuns |-> IF span[r] = "none" THEN "none" ELSE "gone"]
    /\ flush' = [f \in Flushers |-> AtRest]

\* The batch that a flush takes: a span in both sets counts as new.
Batch ==
    [at |-> "writing", new |-> new, updated |-> updated \ new,
     as |-> [r \in TracedRuns |-> IF r \in new \cup updated THEN span[r] ELSE "none"],
     events |-> pending]

\* The requests' flushes are over when stop flushes last.
Flushes(f) == life = "up" \/ (life = "stopping" /\ f = FlushLoop)

Take(f) ==
    /\ Flushes(f) /\ flush[f].at = "idle" /\ Dirty # {} /\ new \cup updated \subseteq Known
    /\ flush' = [flush EXCEPT ![f] = Batch]
    /\ Emptied
    /\ twice' = twice \cup (Dirty \cap UNION {Carried(g) : g \in Flushers \ {f}})
    /\ UNCHANGED <<span, life, owner, row, ledger, writeFaults, outcome, met, lost>>

\* self._buffer[item] of a span that is not there: the sets are cleared by then.
TakeFails(f) ==
    /\ Flushes(f) /\ flush[f].at = "idle" /\ ~ (new \cup updated \subseteq Known)
    /\ lost' = lost \cup Dirty
    /\ IF life = "stopping" THEN Wiped ELSE Emptied /\ UNCHANGED <<span, flush, life>>
    /\ UNCHANGED <<owner, row, ledger, writeFaults, outcome, twice, met>>

\* save_batch, update_batch (merge, which inserts or overwrites) and the events'
\* save_batch, committed.
Put(batch) ==
    /\ row' = [r \in TracedRuns |-> IF batch.as[r] # "none" THEN batch.as[r] ELSE row[r]]
    /\ ledger' = [r \in TracedRuns |-> ledger[r] \o batch.events[r]]

\* The last flush of stop ends the process.
Written(f) ==
    /\ flush[f].at = "writing"
    /\ \A r \in Carried(f) : owner[SessionOf[r]] # "removed"
    /\ Put(flush[f])
    /\ IF life = "stopping" THEN Wiped
            ELSE /\ flush' = [flush EXCEPT ![f] = AtRest]
                 /\ UNCHANGED <<span, new, updated, pending, life>>
    /\ UNCHANGED <<owner, writeFaults, outcome, twice, met, lost>>

\* Mutant: the events of a failed batch go behind those that came since.
PutBackBehind(batch) ==
    /\ new' = new \cup batch.new
    /\ updated' = updated \cup batch.updated
    /\ pending' = [r \in TracedRuns |-> pending[r] \o batch.events[r]]

\* What a failed write puts back, each event before the later ones.
PutBack(batch) ==
    /\ new' = new \cup batch.new
    /\ updated' = updated \cup batch.updated
    /\ pending' = [r \in TracedRuns |-> batch.events[r] \o pending[r]]

\* A batch that names a session that is gone fails at the foreign keys.
Failed(f) ==
    /\ flush[f].at = "writing"
    /\ \/ /\ \E r \in Carried(f) : owner[SessionOf[r]] = "removed"
          /\ UNCHANGED writeFaults
       \/ writeFaults < MaxWriteFaults /\ writeFaults' = writeFaults + 1
    /\ IF life = "stopping" THEN Wiped /\ lost' = lost \cup Dirty \cup Carried(f)
            ELSE /\ PutBack(flush[f])
                 /\ flush' = [flush EXCEPT ![f] = AtRest]
                 /\ UNCHANGED <<span, life, lost>>
    /\ UNCHANGED <<owner, row, ledger, outcome, twice, met>>

----------------------------------------------------------------------------
\* A session's deletion, and the process.

\* discard_session.
Discard(s) ==
    /\ life = "up" /\ owner[s] = "present"
    /\ Cardinality({t \in TracedSessions : owner[t] # "present"}) < MaxDeletions
    /\ owner' = [owner EXCEPT ![s] = "discarded"]
    /\ span' = [r \in TracedRuns |-> IF r \in RunsOf(s) \cap Known THEN "discarded" ELSE span[r]]
    /\ new' = new \ (RunsOf(s) \cap Known)
    /\ updated' = updated \ (RunsOf(s) \cap Known)
    /\ pending' = [r \in TracedRuns |-> IF r \in RunsOf(s) THEN <<>> ELSE pending[r]]
    /\ met' = met \cup (RunsOf(s) \cap UNION {Carried(f) : f \in Flushers})
    /\ UNCHANGED <<flush, life, row, ledger, writeFaults, outcome, twice, lost>>

\* The session's row goes, and with it what refers to it.
Remove(s) ==
    /\ life = "up" /\ owner[s] = "discarded"
    /\ owner' = [owner EXCEPT ![s] = "removed"]
    /\ row' = [r \in TracedRuns |-> IF r \in RunsOf(s) THEN "none" ELSE row[r]]
    /\ ledger' = [r \in TracedRuns |-> IF r \in RunsOf(s) THEN <<>> ELSE ledger[r]]
    /\ UNCHANGED <<span, new, updated, pending, flush, life, writeFaults, outcome, twice, met, lost>>

\* stop, when the requests are over: the loop is cancelled, with the write it
\* may be in, and what still runs is abandoned.
Stop ==
    /\ life = "up" /\ \A f \in OtelRequests : flush[f].at = "idle"
    /\ life' = "stopping"
    /\ \/ UNCHANGED <<row, ledger>>
       \/ /\ \A r \in Carried(FlushLoop) : owner[SessionOf[r]] # "removed"
          /\ Put(flush[FlushLoop])
    /\ lost' = lost \cup Carried(FlushLoop)
    /\ flush' = [flush EXCEPT ![FlushLoop] = AtRest]
    /\ End(RunningIn(TracedRuns))
    /\ UNCHANGED <<new, owner, writeFaults, twice, met>>

\* With nothing to write, the last flush returns at once.
Stopped ==
    /\ life = "stopping" /\ flush[FlushLoop].at = "idle" /\ Dirty = {}
    /\ Wiped
    /\ UNCHANGED <<owner, row, ledger, writeFaults, outcome, twice, met, lost>>

Crash ==
    /\ life = "up"
    /\ lost' = lost \cup Dirty \cup RunningIn(TracedRuns) \cup UNION {Carried(f) : f \in Flushers}
    /\ Wiped
    /\ UNCHANGED <<owner, row, ledger, writeFaults, outcome, twice, met>>

\* The next start abandons the rows that run; the process is followed no further.
Recover ==
    /\ life = "down"
    /\ life' = "recovered"
    /\ row' = [r \in TracedRuns |-> IF row[r] = "running" THEN "abandoned" ELSE row[r]]
    /\ UNCHANGED <<span, new, updated, pending, flush, owner, ledger, writeFaults, outcome,
                   twice, met, lost>>

Next ==
    \/ \E r \in TracedRuns : Begin(r) \/ Finish(r)
    \/ \E s \in TracedSessions : AbandonSession(s) \/ Discard(s) \/ Remove(s)
    \/ \E f \in Flushers : Take(f) \/ TakeFails(f) \/ Written(f) \/ Failed(f)
    \/ Stop \/ Stopped \/ Crash \/ Recover

Spec == Init /\ [][Next]_traceVars

----------------------------------------------------------------------------
\* What memory and the tables hold.
TypeOK ==
    /\ span \in [TracedRuns -> {"none", "running", "ended", "discarded", "gone"}]
    /\ new \subseteq TracedRuns /\ updated \subseteq TracedRuns
    /\ pending \in [TracedRuns -> Seq({"running", "ended"})]
    /\ life \in {"up", "stopping", "down", "recovered"}
    /\ owner \in [TracedSessions -> {"present", "discarded", "removed"}]
    /\ row \in [TracedRuns -> {"none", "running", "ended", "abandoned"}]

Owned(r) == owner[SessionOf[r]] = "present"

\* A run whose changes are all written is in the tables as it is: its span has
\* its outcome, its events are there in the order they happened. Failed
\* writes, further flushes, shutdown and restart change none of it. Two
\* flushes that carry one run at once may (twice), and dropped changes
\* (lost): a deletion that met a flush takes the next flush's batch with it.
TablesTellTheRuns ==
    \A r \in TracedRuns \ (twice \cup lost) :
        Owned(r) /\ r \notin Dirty /\ (\A f \in Flushers : r \notin Carried(f)) =>
            /\ row[r] = outcome[r]
            /\ ledger[r] = (CASE outcome[r] = "none" -> <<>>
                              [] outcome[r] = "running" -> <<"running">>
                              [] OTHER -> <<"running", "ended">>)

\* After a restart no row is left running.
NoRunIsLeftRunning ==
    life = "recovered" => \A r \in TracedRuns : row[r] # "running"

\* Only a deletion that met a flush, or a run that began under it, leaves
\* something for a session that is gone: that batch can never be written.
PoisonComesFromDeletions ==
    life \in {"up", "stopping"} =>
        \A r \in Dirty : owner[SessionOf[r]] = "removed" \/ r \notin Known => r \in met
=============================================================================
