------------------------------ MODULE MCRecords ------------------------------
(***************************************************************************)
(* What is kept, shown and left behind: traces, execution trees,           *)
(* telemetry, branches, browsers, terminals and CLAUDE.md, each a module   *)
(* of its own with variables of its own; as in MCServices, focus says      *)
(* which of them moves in a behaviour, the others stay as they began.      *)
(***************************************************************************)
EXTENDS Naturals, TLC

CONSTANTS
    Parts,
    TracedRuns, OtelRequests, FlushLoop, MaxWriteFaults, MaxDeletions,
    Branches, Root, Converges, NoBranch, MaxGroups, MaxIncidents,
    Viewers, MaxItems, MaxLosses, MaxStalls, MaxRewinds,
    Terminals, Fds, Pids, NoTerminal, NoFd, NoPid,
    Revisions, ClaudeMdRequests, Texts, Empty, NoRevision, MaxVersion, MaxMdCalls, MaxMdEdits,
    MaxMdFaults,
    MaxRuns, MaxWritten,
    Receivers, MaxBegun, MaxExported, MaxBatches, MaxSendings, MaxUnwritten

VARIABLES
    focus,   \* what moves, one of Parts
    span, new, updated, pending, flush, life, owner, span_row, ledger, writeFaults,
    outcome, twice, met, lost,
    session, dir, row, tree, checked, ahead, converge, vb, groups, incidents,
    guests, alone, swept, cut,
    log, stored, asks, made, turn, flag, cancel, back, cast, listed, handler, snap, shows,
    losses, stalls, rewinds, late, overdue, unsaved,
    endpoint, relay, client, pty, pty_listed, fd, proc, leaked, undead, early,
    file, rev, project, req, mdCalls, mdEdits, mdFaults, drift, astray,
    records, runs,
    begun, unwritten, carried, envelopes, exported, batch, recv, table, acked, blind, unexcused,
    sendings, failures

traceVars == <<span, new, updated, pending, flush, life, owner, span_row, ledger, writeFaults,
               outcome, twice, met, lost>>
branchVars == <<session, dir, row, tree, checked, ahead, converge, vb, groups, incidents,
                guests, alone, swept, cut>>
viewVars == <<log, stored, asks, made, turn, flag, cancel, back, cast, listed, handler, snap, shows,
              losses, stalls, rewinds, late, overdue, unsaved>>
termVars == <<endpoint, relay, client, pty, pty_listed, fd, proc, leaked, undead, early>>
mdVars == <<file, rev, project, req, mdCalls, mdEdits, mdFaults, drift, astray>>
treeVars == <<records, runs>>
teleVars == <<begun, unwritten, carried, envelopes, exported, batch, recv, table, acked, blind,
              unexcused, sendings, failures>>

ASSUME RecordsAssumption ==
    /\ NoTerminal \notin Terminals /\ NoFd \notin Fds /\ NoPid \notin Pids
    /\ Root \notin Branches /\ NoBranch \notin Branches \cup {Root}
    /\ NoRevision \notin Revisions /\ Empty \in Texts /\ MaxVersion \in Nat \ {0}
    /\ FlushLoop \notin Receivers
    /\ MaxMdCalls \in Nat /\ MaxMdEdits \in Nat /\ MaxMdFaults \in Nat

\* Each run is of a session of its own.
SessionOf == [r \in TracedRuns |-> r]

Traces == INSTANCE TraceCollector WITH TracedSessions <- TracedRuns, row <- span_row
Tree == INSTANCE SessionBranches
Views == INSTANCE Viewers
Terms == INSTANCE Terminals WITH listed <- pty_listed
Memory == INSTANCE ClaudeMdRevisions
Trees == INSTANCE ExecutionTree
Tele == INSTANCE Telemetry WITH Loop <- FlushLoop

vars == <<focus, traceVars, branchVars, viewVars, termVars, mdVars, treeVars, teleVars>>

\* What does not move is 0, which keeps the states small.
Init ==
    /\ focus \in Parts
    /\ IF focus = "traces" THEN Traces!Init ELSE
            /\ span = 0 /\ new = 0 /\ updated = 0 /\ pending = 0 /\ flush = 0
            /\ life = 0 /\ owner = 0 /\ span_row = 0 /\ ledger = 0
            /\ writeFaults = 0 /\ outcome = 0 /\ twice = 0 /\ met = 0 /\ lost = 0
    /\ IF focus = "branches" THEN Tree!Init ELSE
            /\ session = 0 /\ dir = 0 /\ row = 0 /\ tree = 0 /\ checked = 0
            /\ ahead = 0 /\ converge = 0 /\ vb = 0 /\ groups = 0 /\ incidents = 0
            /\ guests = 0 /\ alone = 0 /\ swept = 0 /\ cut = 0
    /\ IF focus = "viewers" THEN Views!Init ELSE
            /\ log = 0 /\ stored = 0 /\ asks = 0 /\ made = 0 /\ turn = 0
            /\ flag = 0 /\ cancel = 0 /\ back = 0 /\ cast = 0 /\ listed = 0 /\ handler = 0
            /\ snap = 0 /\ shows = 0 /\ losses = 0 /\ stalls = 0 /\ rewinds = 0
            /\ late = 0 /\ overdue = 0 /\ unsaved = 0
    /\ IF focus = "terminals" THEN Terms!Init ELSE
            /\ endpoint = 0 /\ relay = 0 /\ client = 0 /\ pty = 0
            /\ pty_listed = 0 /\ fd = 0 /\ proc = 0 /\ leaked = 0
            /\ undead = 0 /\ early = 0
    /\ IF focus = "memory" THEN Memory!Init ELSE
            /\ file = 0 /\ rev = 0 /\ project = 0 /\ req = 0 /\ mdCalls = 0
            /\ mdEdits = 0 /\ mdFaults = 0 /\ drift = 0 /\ astray = 0
    /\ IF focus = "trees" THEN Trees!Init ELSE records = 0 /\ runs = 0
    /\ IF focus = "telemetry" THEN Tele!Init ELSE
            /\ begun = 0 /\ unwritten = 0 /\ carried = 0 /\ envelopes = 0 /\ exported = 0
            /\ batch = 0 /\ recv = 0 /\ table = 0 /\ acked = 0 /\ blind = 0 /\ unexcused = 0
            /\ sendings = 0 /\ failures = 0

Next ==
    \/ /\ focus = "traces" /\ Traces!Next
       /\ UNCHANGED <<focus, branchVars, viewVars, termVars, mdVars, treeVars, teleVars>>
    \/ /\ focus = "branches" /\ Tree!Next
       /\ UNCHANGED <<focus, traceVars, viewVars, termVars, mdVars, treeVars, teleVars>>
    \/ /\ focus = "viewers" /\ Views!Next
       /\ UNCHANGED <<focus, traceVars, branchVars, termVars, mdVars, treeVars, teleVars>>
    \/ /\ focus = "terminals" /\ Terms!Next
       /\ UNCHANGED <<focus, traceVars, branchVars, viewVars, mdVars, treeVars, teleVars>>
    \/ /\ focus = "memory" /\ Memory!Next
       /\ UNCHANGED <<focus, traceVars, branchVars, viewVars, termVars, treeVars, teleVars>>
    \/ /\ focus = "trees" /\ Trees!Next
       /\ UNCHANGED <<focus, traceVars, branchVars, viewVars, termVars, mdVars, teleVars>>
    \/ /\ focus = "telemetry" /\ Tele!Next
       /\ UNCHANGED <<focus, traceVars, branchVars, viewVars, termVars, mdVars, treeVars>>

Spec == Init /\ [][Next]_vars

\* As in MCServices: what is interchangeable takes the same values everywhere.
Symmetry == Permutations(Branches) \cup Permutations(Converges)

----------------------------------------------------------------------------
\* The tables hold the runs as they were, no run is left running by a restart,
\* and only a deletion leaves a batch that cannot be written (TraceCollector).
TablesTellTheRuns ==
    focus = "traces" =>
        Traces!TablesTellTheRuns /\ Traces!NoRunIsLeftRunning /\ Traces!PoisonComesFromDeletions

\* The tree of a run shows its turns and their results (ExecutionTraceQueryService).
TreesTellTheRuns == focus = "trees" => Trees!TreesTellTheRuns

\* What is kept of a run, and what is shown of it, tells the run.
TracesTellTheRuns == TablesTellTheRuns /\ TreesTellTheRuns

\* Branches have a directory, a convergence keeps what it is to keep, and the
\* rows are of sessions that are there (SessionBranchApplicationService).
BranchesAreKept ==
    focus = "branches" =>
        Tree!SessionsHaveTheirDirectory /\ Tree!KeptIsKept /\ Tree!RowsHaveSessions

\* A browser shows the conversation, in order (ConnectionManager, session_ws).
ViewersSeeTheConversation ==
    focus = "viewers" => Views!ViewersSeeTheConversation /\ Views!ShownInOrder

\* A terminal reads and signals what is its own and leaves nothing (TerminalExecutor).
TerminalsKeepToTheirOwn ==
    focus = "terminals" =>
        Terms!DescriptorsAreTheirOwn /\ Terms!SignalsHitTheirShell /\ Terms!NothingIsLeftOver

\* The project's active revision is what CLAUDE.md holds (ClaudeMdRevisionApplicationService).
ActiveIsTheFile == focus = "memory" => Memory!ActiveIsTheFile

\* What the agent exports is kept once, under its run (NativeOtelIngestor).
TelemetryIsKept == focus = "telemetry" => Tele!TelemetryIsKept
=============================================================================
