----------------------------- MODULE Telemetry -----------------------------
(***************************************************************************)
(* The telemetry of the agent (otel_router.py, native_otel_ingestor.py,    *)
(* execution_ledger_event_repository_impl.py). The agent exports spans and *)
(* log or metric events in batches, again when it hears nothing. Nothing   *)
(* in them names a run: the receiver has the collector write the runs it   *)
(* holds, and takes for each trace of the batch the newest run begun       *)
(* before its first item.                                                  *)
(***************************************************************************)
EXTENDS Naturals, Sequences, FiniteSetsExt

CONSTANTS
    Receivers, Loop,                       \* who makes the collector write: requests, its own loop
    MaxBegun, MaxExported, MaxBatches,     \* runs, items and batches (bounds)
    MaxSendings, MaxUnwritten              \* deliveries and failing writes (bounds)

VARIABLES
    begun,      \* runs begun; run r is the r-th
    unwritten,  \* runs the collector is to write
    carried,    \* carried[f]: the runs that f is writing
    envelopes,  \* rows of runs
    exported,   \* the items: what they are, when they were (in which run), of which trace
    batch,      \* the batches: their first and their last item
    recv,       \* the requests: the batch, the step, the runs found so far, the keys seen
    table,      \* rows of items
    acked,      \* batches the agent knows to be received
    blind,      \* items whose run had no row when it was looked for
    unexcused,  \* of those, whose run nobody was writing and no write had failed
    sendings, failures

teleVars == <<begun, unwritten, carried, envelopes, exported, batch, recv, table, acked,
              blind, unexcused, sendings, failures>>

Flushers == Receivers \cup {Loop}
Unscoped == 0  \* "otel-unscoped"
NoRequest == [batch |-> 0, at |-> "idle", found |-> <<>>, seen |-> {}]

Init ==
    /\ begun = 0 /\ unwritten = {} /\ carried = [f \in Flushers |-> {}] /\ envelopes = {}
    /\ exported = <<>> /\ batch = <<>> /\ recv = [q \in Receivers |-> NoRequest]
    /\ table = {} /\ acked = {} /\ blind = {} /\ unexcused = {}
    /\ sendings = 0 /\ failures = 0

----------------------------------------------------------------------------
\* The session and its agent.

BeginRun ==
    /\ begun < MaxBegun
    /\ begun' = begun + 1
    /\ unwritten' = unwritten \cup {begun + 1}
    /\ UNCHANGED <<carried, envelopes, exported, batch, recv, table, acked, blind, unexcused,
                   sendings, failures>>

\* A trace is of one run; work in the background goes on in later ones.
Happen(kind, trace) ==
    /\ trace \in 1 .. begun /\ Len(exported) < MaxExported
    /\ exported' = Append(exported, [kind |-> kind, run |-> begun, trace |-> trace])
    /\ UNCHANGED <<begun, unwritten, carried, envelopes, batch, recv, table, acked, blind,
                   unexcused, sendings, failures>>

Items(b) == batch[b].first .. batch[b].last

\* The items that were not sent are one batch.
Export ==
    LET sent == IF batch = <<>> THEN 0 ELSE batch[Len(batch)].last
    IN  /\ sent < Len(exported) /\ Len(batch) < MaxBatches
        /\ batch' = Append(batch, [first |-> sent + 1, last |-> Len(exported)])
        /\ UNCHANGED <<begun, unwritten, carried, envelopes, exported, recv, table, acked, blind,
                       unexcused, sendings, failures>>

\* A batch the agent has heard nothing of comes, again or not.
Deliver(q, b) ==
    /\ recv[q] = NoRequest /\ b \in DOMAIN batch \ acked /\ sendings < MaxSendings
    /\ sendings' = sendings + 1
    /\ recv' = [recv EXCEPT ![q] = [@ EXCEPT !.batch = b, !.at = "flush"]]
    /\ UNCHANGED <<begun, unwritten, carried, envelopes, exported, batch, table, acked, blind,
                   unexcused, failures>>

----------------------------------------------------------------------------
\* The collector. A flush that finds nothing to write returns, even while
\* another one still writes what it took.

Moved(q, at) == [recv EXCEPT ![q].at = at]

\* Mutant: the receiver does not ask the collector to write.
Unflushed(q) == UNCHANGED <<unwritten, carried>> /\ recv' = Moved(q, "resolve")

Flushed(q) ==
    IF unwritten = {} THEN UNCHANGED <<unwritten, carried>> /\ recv' = Moved(q, "resolve")
    ELSE /\ unwritten' = {} /\ carried' = [carried EXCEPT ![q] = unwritten]
         /\ recv' = Moved(q, "write")

Flush(q) ==
    /\ recv[q].at = "flush"
    /\ Flushed(q)
    /\ UNCHANGED <<begun, envelopes, exported, batch, table, acked, blind, unexcused, sendings,
                   failures>>

LoopFlush ==
    /\ unwritten # {} /\ carried[Loop] = {}
    /\ carried' = [carried EXCEPT ![Loop] = unwritten]
    /\ unwritten' = {}
    /\ UNCHANGED <<begun, envelopes, exported, batch, recv, table, acked, blind, unexcused,
                   sendings, failures>>

Back(f) == recv' = IF f \in Receivers THEN Moved(f, "resolve") ELSE recv

Write(f) ==
    /\ carried[f] # {}
    /\ envelopes' = envelopes \cup carried[f]
    /\ carried' = [carried EXCEPT ![f] = {}]
    /\ Back(f)
    /\ UNCHANGED <<begun, unwritten, exported, batch, table, acked, blind, unexcused, sendings,
                   failures>>

\* A write that fails is left to the next flush; the receiver does not hear of it.
WriteFails(f) ==
    /\ carried[f] # {} /\ failures < MaxUnwritten
    /\ failures' = failures + 1
    /\ unwritten' = unwritten \cup carried[f]
    /\ carried' = [carried EXCEPT ![f] = {}]
    /\ Back(f)
    /\ UNCHANGED <<begun, envelopes, exported, batch, table, acked, blind, unexcused, sendings>>

----------------------------------------------------------------------------
\* The ingestor.

\* _resolve_run: the newest run begun by then, or else the newest there is.
RunAt(t) ==
    LET eligible == {r \in envelopes : r <= t} IN
    CASE eligible # {} -> Max(eligible)
      [] eligible = {} /\ envelopes # {} -> Max(envelopes)
      [] OTHER -> Unscoped

\* The first item of the batch that is of the trace of i.
First(b, i) == Min({j \in batch[b].first .. i : exported[j].trace = exported[i].trace})

\* The item that is looked at as the n-th.
ItemAt(q, n) == batch[recv[q].batch].first + n - 1

\* run_cache: one look for each trace of the batch.
Resolve(q) ==
    LET b == recv[q].batch
        found == recv[q].found
        i == ItemAt(q, Len(found) + 1)
        first == First(b, i)
        t == exported[i].run
        unseen == exported[first].run \notin envelopes
    IN  /\ recv[q].at = "resolve" /\ i \in Items(b)
        /\ recv' = [recv EXCEPT ![q].found =
                       Append(@, IF first = i THEN RunAt(t) ELSE @[first - batch[b].first + 1])]
        /\ blind' = IF (first = i /\ unseen) \/ (first # i /\ first \in blind)
                    THEN blind \cup {i} ELSE blind
        /\ unexcused' =
             IF first = i /\ unseen /\ failures = 0 /\ \A f \in Flushers : t \notin carried[f]
             THEN unexcused \cup {i} ELSE unexcused
        /\ UNCHANGED <<begun, unwritten, carried, envelopes, exported, batch, table, acked,
                       sendings, failures>>

\* A span is one row whatever its run; the key of an event has the run in it.
Key(i, r) == IF exported[i].kind = "span" THEN <<i>> ELSE <<i, r>>
RowsFor(q) == {[item |-> ItemAt(q, n), run |-> recv[q].found[n]] : n \in DOMAIN recv[q].found}
KeysOf(q) == {Key(new.item, new.run) : new \in RowsFor(q)}
Keys == {Key(row.item, row.run) : row \in table}

\* save_batch: the rows that are there are looked up, the others inserted.
LookUp(q) ==
    /\ recv[q].at = "resolve" /\ ItemAt(q, Len(recv[q].found)) = batch[recv[q].batch].last
    /\ recv' = [recv EXCEPT ![q].at = "store", ![q].seen = Keys \cap KeysOf(q)]
    /\ UNCHANGED <<begun, unwritten, carried, envelopes, exported, batch, table, acked, blind,
                   unexcused, sendings, failures>>

Stored(q) ==
    {row \in table : exported[row.item].kind = "event"
                        \/ \A new \in RowsFor(q) : new.item # row.item} \cup RowsFor(q)

Store(q) ==
    /\ recv[q].at = "store" /\ Keys \cap KeysOf(q) = recv[q].seen
    /\ table' = Stored(q)
    /\ recv' = Moved(q, "answer")
    /\ UNCHANGED <<begun, unwritten, carried, envelopes, exported, batch, acked, blind, unexcused,
                   sendings, failures>>

\* The same batch was stored in between: its keys are taken, and all is undone.
StoreFails(q) ==
    /\ recv[q].at = "store" /\ Keys \cap KeysOf(q) # recv[q].seen
    /\ recv' = [recv EXCEPT ![q] = NoRequest]
    /\ UNCHANGED <<begun, unwritten, carried, envelopes, exported, batch, table, acked, blind,
                   unexcused, sendings, failures>>

\* The answer, which may not arrive.
Answer(q, heard) ==
    /\ recv[q].at = "answer"
    /\ acked' = IF heard THEN acked \cup {recv[q].batch} ELSE acked
    /\ recv' = [recv EXCEPT ![q] = NoRequest]
    /\ UNCHANGED <<begun, unwritten, carried, envelopes, exported, batch, table, blind, unexcused,
                   sendings, failures>>

Next ==
    \/ BeginRun \/ Export \/ LoopFlush
    \/ \E kind \in {"span", "event"}, trace \in 1 .. MaxBegun : Happen(kind, trace)
    \/ \E f \in Flushers : Write(f) \/ WriteFails(f)
    \/ \E q \in Receivers :
        \/ \E b \in 1 .. MaxBatches : Deliver(q, b)
        \/ Flush(q) \/ Resolve(q) \/ LookUp(q) \/ Store(q) \/ StoreFails(q)
        \/ \E heard \in BOOLEAN : Answer(q, heard)

Spec == Init /\ [][Next]_teleVars

----------------------------------------------------------------------------
RowsOf(i) == {row \in table : row.item = i}
Leading(i) ==
    LET b == CHOOSE b \in DOMAIN batch : i \in Items(b) IN First(b, i)

\* What the agent knows to be received is in the tables, once, and under the
\* run in which its trace was seen first, unless that run had no row when it
\* was looked for: somebody else was writing it, or a write had failed
\* (ingest_traces, ingest_logs, ingest_metrics, TraceCollector.flush).
TelemetryIsKept ==
    /\ \A b \in acked : \A i \in Items(b) : RowsOf(i) # {}
    /\ \A row \in table : row.item \notin blind =>
            /\ RowsOf(row.item) = {row}
            /\ row.run = exported[Leading(row.item)].run
    /\ unexcused = {}
=============================================================================
