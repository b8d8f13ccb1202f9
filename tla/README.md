# A TLA+ model of Velpos

Velpos is a web console for Claude Code: a FastAPI backend (`src/backend`, Python) drives
Claude through the Agent SDK, keeps sessions in a database, talks to browsers over
WebSockets and to instant-messaging channels (Lark, WeChat, QQ, OpenIM), and a Vue
frontend shows it all. This directory specifies the parts of the backend where
concurrency, failure and ordering decide whether it is correct, checks them with TLC and
proves the central invariants with TLAPS.

    tlc -workers 2 -config MCImInbox.cfg MCImInbox      model-check one run
    tlapm ImInboxProofs.tla                             check the proofs of one module

A run takes from a few seconds to about four minutes with two workers, a proof module up
to twenty minutes.

## 1. Inventory

The backend is one process (uvicorn without worker processes) with one asyncio event loop.
Code between two `await`s is therefore atomic; everything else interleaves. State lives in
the database, in process-wide dictionaries, in copies of database rows that coroutines
carry across `await`s, and, for a few components, in files, child processes and threads.

| component | state | operations | talks to | modules |
|---|---|---|---|---|
| **IM inbound queue** (`im_delivery.py`, its repository and coordinator) | table `im_inbox_events`; each worker's copy of its event | accept, claim under a lease, renew, process, write back, release deferred, requeue | channel listeners, engine, monitor | `ImInbox` |
| **IM outbound queue** (same files) | table `im_outbox_messages`; workers' copies | enqueue by key, claim, check binding, send, write back, requeue | session events, adapters | `ImOutbox`, `ChannelSends` |
| **Session query engine** (`session_query_engine.py`) | lock, queued message, active context, cancel flag per session; the run's copy | submit, acknowledge duplicates, stream, finalize, cancel, queue, steer | handlers, gateway, repository, queues, scheduler | `QueryEngine` |
| **Session locks** (`async_utils.py`, `session_execution_lock.py`, `_run_with_capacity`) | lock pool, MySQL named locks, semaphore | acquire, evict, release, lose | engine, usage refresh | `SessionLocks` |
| **Session aggregate, repository, application service** | the session's row; copies of it | compact, clear, rename, delete, recover | everyone who works on a session | `SessionUpkeep`, `QueryEngine` |
| **SDK session binding** | `sdk_session_id`, the gateway's cache, transcripts | resolve, bind, reset, import, fork | engine, service, gateway | `SdkBindings` |
| **Claude event pump** (`claude_event_pump.py`) | active turn, its tasks and timers, deferred result | begin, fail, abandon, interrupt, route, close | SDK client, gateway | `EventPump` |
| **Claude agent gateway** | clients, pumps, marks, pending permission futures, modes, reloads | connect, query, interrupt, idle disconnect, permission requests | pump, SDK | `Gateway`, `PermissionRequests` |
| **WebSocket handlers, connection manager** | sockets of a session | snapshots, broadcasts, prompts, cancels, rewinds | browsers, engine | `Viewers`, `QueryEngine` |
| **Scheduler** | tasks, runs | tick, run now, mark, clean up | engine, channels | `Scheduler`, `CronTime` |
| **IM channel service** | instances, bindings, listeners | bind, unbind, process a message | queues, adapters, engine | `ImChannels`, `InboundTasks` |
| **Channel adapters** | poll loops, sockets, threads, staged files, feedback | listen, stop, receive, send | channels, queues | `WeixinPoll`, `QqGateway`, `LarkConnections`, `ChannelArrivals`, `ChannelSends`, `ProgressFeedback` |
| **Session branches** | groups, worktrees, git branches | branch, review, converge, delete | git, sessions | `SessionBranches` |
| **Tracing, ledger, telemetry** | buffer of spans, event tables, transcript | begin, end, flush, discard, ingest, project | engine, agent | `TraceCollector`, `ExecutionTree`, `Telemetry` |
| **Terminal** | PTYs, descriptors, child processes | open, relay, close | browsers, kernel | `Terminals` |
| **CLAUDE.md revisions** | file, revisions, project row | draft, apply, reopen, delete | agents, plugins | `ClaudeMdRevisions` |
| **Markets, project agents, plugins** | entries, installed items, prompt, plugin status | create, import, load, upgrade, initialize | claude command, sessions | `MarketEntries`, `ProjectAgents`, `PluginInits` |
| tool guard, HTTP API, build; CRUD of projects, settings, users | - | - | - | not modelled |

What is hard, and what makes each part correct:

* *Inbound queue.* Workers process a message outside any transaction, under a lease that can
  run out; the attempt number is the only token that tells a current worker from a stale
  one, and it goes up (claim), down (defer) and back to zero (requeue). Correct: one owner
  per row; order within a session; an exact retry budget; one row per message; nothing
  forgotten.
* *Outbound queue.* No heartbeat, and a channel that may take a message and lose the answer.
  Correct: duplicates only for a cause outside the queue; order at the channel.
* *Event pump.* SDK messages carry no turn number, results may be intermediate, and eight
  things may end a turn. Correct: one ending per turn; no success while a background task
  runs; every wait has a timer; a task's events stay with its turn.
* *Query engine.* Decisions are taken on a status read earlier; several whole copies of the
  session are written back; one flag, one queue slot and one mark per session are shared by
  runs, cancels and steers. Correct: a queued message is served; a prompt is answered once;
  the marks tell the run.
* *Locks.* The pool evicts entries at its limit while somebody may be about to take one, and
  the named lock dies with its connection. Correct: one run per session; nobody waits for
  ever.
* *Gateway.* A connection is used by runs, side queries, mode changes, reloads and an idle
  timer. Correct: upkeep closes no connection in use; a change reaches the process. One slot
  holds the permission request of a session, and answers carry no name. Correct: an answer
  reaches the call it was meant for.
* *Row and copies.* Everything that saves a whole session may write back what is behind.
  Correct: status tells the operation at work; a session continues its own conversation.
* *Channels.* Start and stop race in an event loop, across threads, with a server cursor.
  Correct: one loop, no message confirmed before it is kept, nothing runs on after a stop;
  what arrives is accepted, what is sent arrives whole, feedback ends with the work.
* *Scheduler.* Execution, mark and commit are three steps of a transaction that may roll
  back. Correct: an execution per due date; the next time is the next.
* *Records.* Flushes overlap deletions, restarts and each other; branches fail half-way;
  descriptors and process numbers are used again. Correct: tables tell the runs; what is
  kept stays; a terminal touches its own.
* *Projects.* Requests check, call a command, and write much later. Correct: a name and an
  upstream server are listed once; prompt, items and row agree; an upgrade lasts; the status
  of an initialization tells what became of it.

`PROJECT.json` lists the hazards at their lines, with the properties that watch them.

## 2. Modules

Each component has a module with its variables, one action per operation or step between
two `await`s, and its properties at the end. Four MC modules, `MCServices`, `MCRecords`,
`MCBackend` and `MCProjects`, compose parts that are looked at one at a time: a variable
`focus` is chosen at the beginning and says which part moves; the others keep a constant,
which costs no states, and each property says of which part it speaks.

Parts that go on at once share no variable, but three things of the program are in several
modules, each with a view of its own:

* CLAUDE.md is the file of `ClaudeMdRevisions`, the prompt of `ProjectAgents` and the section
  of `PluginInits`. What the others write there is an action of each: `EditFile` and two
  `OverwriteFile`.
* The project's row has the active revision, the agent and the plugins' statuses. A request
  locks it until its commit (`LockRow`, `RowFree`); `ClaudeMdRevisions` has `load_agent`'s save
  of an older copy of it.
* The session's row is the subject of `SessionUpkeep`, which has everybody who saves it, but
  of a query only its beginning, its periodic saves and its end. `QueryEngine` has the
  queries' inner life, with cancels and steers as the others who save; `SdkBindings` the
  column `sdk_session_id`, with the copies that carry it.

The parts take their sets of names from common pools, so that one symmetry serves
all. The remaining `MC...` modules give one specification its constants; `EventPump` and
`QueryEngine` need none beside their configurations.

Definitions whose comment starts with *Mutant* are plausible bugs of the definition that
follows them; no specification uses them. They show that a property can fail.
Variables marked as history are read by no guard.

| module | models |
|---|---|
| `ImInbox`, `ImOutbox` | the two delivery queues: table, repository, workers, faults |
| `EventPump` | the event pump of one connection with the gateway calls that use it |
| `QueryEngine` | the engine for one session with the prompt handler, the row, marks, cancel, steer, restart |
| `SessionLocks`, `SerialRuns` | the locks around a session's work; what they promise |
| `PermissionRequests` | tool calls that ask the user |
| `Scheduler`, `CronTime` | ticks, "run now", executions; when a task is due |
| `ImChannels` | channel instances, bindings, listeners |
| `WeixinPoll`, `QqGateway`, `LarkConnections` | the adapters' connections |
| `SessionUpkeep` | whatever reads, works on and saves a session's row |
| `MCServices` | composition of the eight parts above |
| `Gateway` | the connection of a session and everybody who opens, uses or closes it |
| `InboundTasks` | what becomes of an IM message between inbox and outbox |
| `SdkBindings` | which of the agent's conversations a session continues |
| `ChannelArrivals`, `ChannelSends`, `ProgressFeedback` | messages in, messages out, and the feedback between |
| `MCBackend` | composition of these six |
| `TraceCollector`, `ExecutionTree`, `Telemetry` | spans and their flushes; the projected tree; ingestion of OTLP batches |
| `SessionBranches` | parallel branches, reviews, convergence |
| `Viewers` | the browsers of one session |
| `Terminals` | terminals in the browser |
| `ClaudeMdRevisions` | CLAUDE.md and its revisions |
| `MCRecords` | composition of these seven |
| `MarketEntries`, `ProjectAgents`, `PluginInits` | markets, a project's agent, its plugin |
| `MCProjects` | composition of these three |
| `ImInboxProofs`, `ImOutboxProofs`, `EventPumpProofs`, `QueryEngineProofs`, `SessionLocksProofs`, `ServicesProofs`, `RecordsProofs`, `BackendProofs` | theorems |

### Queues

`row` is the table (status, attempt number, binding, and two abstractions of time: `due` for
`next_attempt_at <= now`, `leased` for `lease_until > now`); `wk` is each worker's program
counter and its copy of the claimed row. `Insert`/`CommitInsert`/`RollbackInsert` are the
transaction of `accept`, split so that ids and visibility can disagree. `Claim` is
`claim_next`; `CheckBinding` and `Execute` are the halves of `_execute_claimed_inbox`;
`Finish` is `_finish_inbox` with the locked ownership check of `save`; `Heartbeat` is one
round of `_keep_inbox_lease_alive`; `Requeue` the monitor's retry, `ReleaseDeferred` the
engine's callback, `Crash` the death of the process. The outbound queue has the same shape
without heartbeat. `Send` has the outcomes that matter: a receipt, an error after the channel
took the message, an error before it. `FinishFails` is a write-back that raises: the last
handler of `_process_one_outbox` then asks for a retry of a message that was sent.

`InboundTasks` opens what is one step there: the prompt under an id made from the message's,
the run, the search for its result, an answer to a question, with browsers that prompt and
cancel meanwhile. `ChannelSends` opens the send: a row of parts, each with a key, by two
workers whose leases overlap. `ChannelArrivals` comes before: acknowledgement, downloads,
voice, the five attempts to save, the staging of files.

### Engine, locks, gateway

`EventPump`: all methods of the pump run under its lock and are one step each. A timer is
`armed` until it is cancelled or runs; one that ran without acting stays referenced
(`spent`), which is why a later `Defers` does not arm it again, as in
`_arm_background_timer_locked`. `QueryEngine`: `db` is the persisted row, its user messages
marked with whether a RESULT follows; `run[s]` a submission with its own copy; sections
under `queue_guard` never suspend, so each is part of one step; `StreamEnds` stands for
everything between an established stream and its end. `Save` overwrites the whole row with
a copy: the SQLAlchemy identity map keeps only weak references, so `merge` re-reads the row
and writes every column that differs.

`SessionLocks` has `KeyedLockPool` literally: entry, reference count, eviction of the oldest
unreferenced unlocked entry, hand-over of an asyncio lock to its first waiter. `Gateway`
numbers connections, mode choices and plugin installations, so that a newer one can be told
from an older. `SdkBindings` has the row's `sdk_session_id`, the gateway's cache, the
process's conversation and the copy of whoever is about to bind.

### Services, records, projects

In `SessionUpkeep` an operation is a record: its kind, where it is, and its copy; MySQL's
REPEATABLE READ is part of the copy. A last save may fail, or be left to a cancel that meets
another run; then the row goes on saying what it says (`LeavesRow`). `LarkConnections` makes
every read and write of `conn.stop`, `conn.client` and `conn.ws_loop` a step, for thread and
event loop share them without a lock. `CronTime` counts half minutes from midnight of a
Monday, so that a time on the minute differs from one within it. `TraceCollector` splits a
flush into taking, writing and putting back. `SessionBranches` has git as a set of branches
with commits and directories clean or dirty, each command able to fail, and the whole call
with it (`CutOff`). `Terminals` has the kernel's descriptors and process numbers, which are
given to whoever asks next. `ExecutionTree` reads a transcript record by record with a fold.
The remaining modules follow the same lines; their headers say what is state of the code and
what is history.

## 3. Runs

| run | distinct states | shows |
|---|---|---|
| `MCImInbox` | 1.3 million | `OwnershipIsExclusive`, `SessionOrder`, `BudgetIsExact`, `OneRowPerMessage` |
| `MCImInboxLive` | 250 000 | `EventuallySettled`: every accepted message is processed or dead |
| `MCImOutbox` | 760 000 | `DuplicatesHaveACause`, `DeliveredInOrder` |
| `MCImOutboxLive` | 330 000 | `EventuallySettled` |
| `MCEventPump` | 1.3 million | `OneEnding`, `ResultWaitsForTasks`, `EveryWaitIsTimed`, `TasksStayWithTheirTurn`, `ActiveTurnHasCaller`, `WaitsEnd` |
| `MCQueryEngine` | 160 000 | `QueueIsServed`, `AnsweredOnce`, `MarksTellTheRun`, `QueueDrains` |
| `MCQueryEngineStranded` | 18 000 | a message queued behind a cancelled run is stranded (violation) |
| `MCSessionLocks` | 88 000 | `OneRunPerSession`, `ShownIsWaiting`, the refinement `ImplementsSerialRuns`, `EveryRequestEnds` |
| `MCServices` | 520 000 | `RequestsAreAnswered`, `SchedulesAreKept`, `BindingsAgree`, `ConnectionsAreKept`, `StatusTellsTheWork` |
| `MCBackend` | 2.1 million | `OnlyTheIdleAreClosed`, `ChangesReachTheProcess`, `TasksAreAnswered`, `ConversationsKeepToTheirSession`, `MessagesAreCarried`, `FeedbackEndsWithTheWork` |
| `MCRecords` | 840 000 | `TracesTellTheRuns`, `BranchesAreKept`, `ViewersSeeTheConversation`, `TerminalsKeepToTheirOwn`, `ActiveIsTheFile`, `TelemetryIsKept` |
| `MCProjects` | 640 000 | `ProjectsAreKept` |

Deadlock is not checked: all these components rest when there is nothing to do or a bound is
reached. Type invariants are not spent a run on where a proof has them (queues, pump, engine,
locks and the proved services); each module has one, and each was checked by TLC when the
module was written.

**Bounds.** Queues: two workers, two messages of one session, two attempts. Each property is
about one row or a pair; two workers and a fault give a stale worker and its successor;
`MaxAttempts = 2` has a retry that is allowed and one that is not; one requeue gives a row a
second life. The live runs have one fault and no requeue, since a history with finitely many
ends with one that has none. Pump: two tasks of which one is remembered (so the memory
overflows), three turns (a task can be seen by the turn after next), five messages. Engine:
two prompts, three runs, two sendings, one cancel, two steers, two faults. Locks: four
requests for two sessions in two processes, a pool of one entry (so that it is always at its
limit) and one slot. Services: three permission calls (one overtaken, one overtaking, one
later); two tasks and two executions, each due twice; two binds with another request on two
channels; three calls on the poll loop with two loops and three messages; two starters and two
stoppers of a connection; two queries and two services on a row, one crash or failing save.
Backend: two runs, two connections, two changes and one disturbance (`MaxDisturbances` is
shared by faults and by others who take `_client_lock`); a message from IM with two attempts
beside a prompt of a browser; two sessions and three transcripts; two workers at a row of at
most three parts; two attempts at two messages; two arrivals with two failures. Records: two
runs and an OTel request beside the loop; three branches in two groups, two convergences and
one incident (a VB job, a change of a worktree, a deletion or a failure); one browser and three
items; two terminals with two descriptors and process numbers, so that either is used again;
three revisions, two requests, one edit on disk and one failure; four prompts and turns of two
runs, with their results, which is what a tree that cannot be built takes; two receivers of
two batches. Projects: three entries and two
upstream servers; two agents, two plugins, two releases and one mishap (`MaxMishaps` is shared
by failing calls and changes of templates); two initializations in two sessions. Everything
bounded is named in the `.cfg`.

Workers, messages, calls and names are symmetric in safety runs; runs with a temporal
property use no symmetry.

**Fairness.** *Queues*: workers poll at least once a second (`_wait_for_work`) and
`claim_next` takes the oldest first, so a claimable head is claimed: weak fairness per row; a
worker goes on with what it claimed, and time passes. Nothing is assumed of faults, listeners,
administrators; `EventuallySettled` of the inbound queue assumes that sessions are idle from
some time on, since a session that is busy for ever defers for ever. *Pump*: only armed timers
are fair, the SDK may be silent for ever. *Engine*: submissions go on (weak fairness of
`GoesOn`), but neither clients, cancels or steers nor a run in its stream. A stream ends when
the agent ends it, or its process dies, which is looked for every half minute; an agent that
lives and says nothing may go on so for ever, since the limit on silence,
`CLAUDE_STREAM_MAX_SILENT_TIMEOUTS`, is 0 by default, which is no limit
(`session_stream_consumer.py:42-45`, `144-145`). `QueueDrains` therefore holds but for runs
that stay silent for ever (`StaysSilent`). The waits outside a stream do end: for the user
after `CLAUDE_USER_RESPONSE_TIMEOUT`, for the named lock and the SDK's control requests after
time-outs of their own. *Locks*: each request that can take its next step takes it, for
asyncio's locks are handed over in order and the named lock is waited for with a time-out; but
the work itself need not end, for the same reason (`GoesOn`). `EveryRequestEnds` says that
every request gets through or gives up, unless one with its lock, or as many as its process
has slots, never end (`NeverEnds`). The other modules state safety only.

**Exceptions named in the properties** are part of what the runs establish; each is a
variable or a set that a named event fills:

| property | except |
|---|---|
| `SessionOrder`, `DeliveredInOrder` | rows retried by hand, committed after a later row, or sent beyond their lease |
| `OwnershipIsExclusive` | rows retried by hand |
| `QueueIsServed`, `QueueDrains`, `MarksTellTheRun` | after a run that was dropped (cancelled, or its final saves failed) |
| `AnsweredOnce` | results stored behind a later user message |
| `OneRunPerSession` | between processes, sessions whose named lock was `lost` with its connection |
| `RequestsAreAnswered` | calls that `overlapped`, or whose end broke (`stranded`) |
| `QueueDrains`, `EveryRequestEnds` | runs whose stream never ends (`StaysSilent`, `NeverEnds`) |
| `SchedulesAreKept` | `repeats`: marks of executions rolled back with their transaction; executions that `kept` their channel, whose release failed and was only logged |
| `BindingsAgree` | channels `disturbed` by a failing call or by two calls at once |
| `ConnectionsAreKept` | Lark connections that a stop met before thread or client were there (`slipped`) |
| `StatusTellsTheWork` | `overlaps`: a copy the row had left behind was saved, or what was in use was taken; work whose end is `unsaved`: cancelled, final saves failed, or a compaction that died with the process |
| `OnlyTheIdleAreClosed`, `ChangesReachTheProcess` | `killed` and `missed`: the ways a change is dropped, each listed |
| `TracesTellTheRuns` | runs carried by two flushes (`twice`), `met` by a deletion, `lost` with a write; no tree, where a task created in progress got its id between a later turn's call and the call's result (`AnsweredLate`) |
| `BranchesAreKept` | `guests` in another's worktree, made there or moved there by a convergence, sessions deleted `alone`, those `swept` by a failing convergence, one kept by a convergence that was `cut` off between removing its worktree and the commit |
| `ViewersSeeTheConversation` | snapshots that are `late`, rewinds `overdue`, ends `unsaved` |
| `TerminalsKeepToTheirOwn` | `leaked` before they were announced, `undead` shells, those reaped `early` by the relay |
| `ActiveIsTheFile` | `drift` on disk, requests that went `astray` of each other |
| `TelemetryIsKept` | items whose run's row was not there yet (`blind`), unless none of the named causes explains it (`unexcused`) |
| `TasksAreAnswered` | runs `disturbed`, `resumed` behind another's prompt, whose worker `died` |
| `MessagesAreCarried` | a Lark rich reply whose create and reply are both taken; QQ's last group; messages `gone` by a crash or five failures, `repeated` by the channel, files `left` |
| `FeedbackEndsWithTheWork` | what a failed call left (`lasting`) |
| `ConversationsKeepToTheirSession` | transcripts imported `twice`, bindings `lost`, files `removed` |
| `ProjectsAreKept` | `shaken` names, `excused` items, `torn` prompts; initializations `slipped`, `crossed`, `shared`; CLAUDE.md written by others since (`rewritten`, `overwritten`) |

## 4. What the models say of the code

**One violation run.** *A cancelled run strands the queue* (`MCQueryEngineStranded`):
`queue_message` promises that a message is not queued behind a finalizer that has drained
the queue, but the finalizer of a cancelled run returns without draining.

**Statements that fail.** These say what a comment, a docstring or a name promises, and are
kept in the modules; put one as a property into the `.cfg` of the component to see its
counterexample:

| statement | what happens instead |
|---|---|
| `ImInbox!StaleWorkerIsRejected` | `requeue` zeroes `attempt_count`: attempt 1 of the second life looks like attempt 1 of the first |
| `EventPump!DeferredResultIsUsed` | an interrupt forgets a deferred result; both timers find the phase INTERRUPTED |
| `QueryEngine!CompletedOnce` | the result comes after a steered message, and the search for it stops there: the request is executed again |
| `QueryEngine!CancelHitsItsRun` | the flag is the session's; nothing clears it when there was no run to cancel |
| `SessionUpkeep!DeletedStaysDeleted` | a merge of a copy read before a deletion inserts the session again |
| `LarkConnections!StopEndsTheThread` | a stop between the creation of thread, loop and client reaches none of them |
| `CronTime!EveryNHours` | "every N hours" comes due every hour: the step of an hour is read and never used |
| `Viewers!NobodyIsDeaf` | a send that took too long takes an open socket off the list, its pings answered |
| `InboundTasks!GivenUpIsTold` | a message that was given up is told to nobody |
| `ChannelSends!ReplyReachesItsAsker` | the last route's group is added to the route of a private message |
| `ProgressFeedback!StartIsSaidFirst` | the delayed text is called off only after the answer is in the outbox |
| `ChannelArrivals!NothingIsGivenUp` | after the fifth failure to save, a message is dropped |
| `ChannelArrivals!PicturesComeThrough` | QQ's adapter takes a picture without words for an empty message |
| `ProjectAgents!LoadsBringTheLatest` | the marketplace is updated in the background; a load may install the copy from before |

**What else is in the models** as the code has it, where a reader might not expect it:

* *Queues and engine.* A row whose lease keeps running out is claimed beyond `max_attempts`;
  a duplicate of a completed request leaves the session marked active; a steer that fails
  with anything but a `RuntimeError` loses its message.
* *Inbound tasks.* A run that goes on behind another's prompt, one removed by a browser's
  cancel, and one that ended by an exception are executed again; a successful run without text
  ends dead and unanswered; a message taken as an answer is a prompt if the worker dies first.
* *Sends, arrivals.* The temporary file of a failed conversion stays; a dead row may be partly
  delivered; texts overtake messages with downloads on Lark; a transport error or a file
  above 10 MB loses a Lark message that was acknowledged; files in `/tmp` lost with the
  machine make a message dead.
* *Bindings of the SDK.* No unique constraint on `sdk_session_id`: two imports, or an import
  during an unsaved first query, give two owners, and a conflict resets whichever asks;
  prewarming takes no session lock and can disconnect a running query; a parent deleted
  before a branch's first query makes its fork fail for ever.
* *Traces.* A flush that meets a discarded session raises and keeps its batch; a flush that
  finds another carrying the run returns at once, so that items are filed under the run
  before; a resent batch resolved differently is stored twice.
* *Trees.* A run without `TaskCreate` shows the tasks of all runs; records within two seconds
  of a neighbour are in both trees; a failed `TaskCreate` stays as "pending:..."; a
  task that is created in progress, as the projector's tests do
  (`test_execution_trace_projector.py:448-509`), owns turns under its provisional name, and when
  a result of such a turn comes after the task's id, looking the name up is a `KeyError`.
* *Branches.* A convergence from the root deletes all groups but removes the rows of the
  newest; a nested group converged after the outer one switches the root's directory; two
  convergences delete both targets; a session deleted alone makes its group unconvergeable; a
  convergence to a session that is not of the group deletes all of it without an error; the
  kept session's move to its new directory is committed after its worktree is removed.
* *Terminals.* "ready" is sent outside the `try`, so that a lost browser leaks the PTY; the
  number of a shell the relay has reaped may be another process's.
* *CLAUDE.md.* A draft whose file changed raises `ValueError` instead of a conflict; a
  reopened revision keeps its old base hash; overlapping applies leave two APPLIED rows;
  `load_agent` saves the project as it was before.
* *Markets, agents, plugins.* Overlapping imports of one upstream server both land if a row
  loses its name meanwhile; installing a skill overwrites a user's own of that name; template
  deletion leaves everything installed; a revision or a newly loaded agent overwrites a
  plugin's section of CLAUDE.md, and the plugin stays "ready"; a failed load leaves the old
  agent's plugins removed; a run that ends without completion leaves "initializing" for ever;
  an automatic failure of an older initialization fails a newer one; modes are set back to
  "default" whatever they were.

## 5. Proofs

Everything here holds for every value of the constants. The only assumptions are the named
ones of the modules: `ConstantsAssumption` (queues, pump, engine), `SessionLocksAssumption`,
`ServicesAssumption`, `RecordsAssumption`, `BackendAssumption`. They say that bounds are
numbers, that "no such thing" values are none of the things, and, in `SessionLocks`, that the
pools are finite and have at least a place; TLC evaluates each on the runs. Every inductive
invariant was checked by TLC on the run of its module before it was proved.

| module | theorems about what a run checks | besides |
|---|---|---|
| `ImInboxProofs` | `ExclusiveOwnership`, `OrderedSessions`, `ExactBudget`, `UniqueMessages` | `TypeCorrect` |
| `ImOutboxProofs` | `DuplicatesAreExplained`, `OrderIsKept` | `TypeCorrect`, `Invariance` |
| `EventPumpProofs` | `SingleEnding`, `TasksBeforeResult`, `TimedWaits`, `ActiveCaller`, `TasksKeepTheirTurn` | `TypeCorrect` |
| `QueryEngineProofs` | `QueueServed`, `NothingIsAnsweredTwice`, `MarksAreRight` | `TypeCorrect`, `Invariance` |
| `SessionLocksProofs` | `RunsExclude`, `MarksAreTrue`, `Refinement` | `TypeCorrect`, `Invariance` |
| `ServicesProofs` | `RequestsAnswered`, `StatusTold`, `ConnectionsKept`, `SchedulesKept`, `BindingsKept` | `Invariance` |
| `RecordsProofs` | `TerminalsKept`, `RevisionsKept`, `BranchesKept`, `TelemetryKept`, `ViewersShow`, `RunsAreTold` | `Invariance` |
| `BackendProofs` | `FeedbackEnds`, `OnlyTheIdleClosed`, `ChangesReach`, `ConversationsKept`, `MessagesCarried` | `Invariance` |

Each module begins with its inductive invariant, a conjunction of named parts; then the
facts about the operators of the model; then one lemma per kind of step; at the end the
theorems, which follow from the invariant alone.

**Inbound queue.** `OwnershipIsExclusive` is not inductive: it says nothing of a worker
that lost its row, and that worker is the one who could come back when a deferral hands an
attempt number back. `Leases` says that such a worker's number is smaller than the row's
while the row is PROCESSING and at most the row's while it waits for a retry; a deferral by
the owner lowers the row's number by one, from a value strictly ahead of every stale one.
`Allocation` (ids are handed out in order, rows committed before they are claimed) carries
the order and the budget. Steps that touch neither status, attempt and binding nor the
history share `QuietStep`.

**Outbound queue.** The property that counts is about history, so the invariant keeps an
account: `CreditInv` says of every message that its deliveries, plus what was delivered
before but is not known to be, plus the workers that still may deliver it, are at most one
more than the causes the history names (a lost answer, an expired lease, a failing
write-back). A claim that passes over a live worker is paid by the lease that ran out, a
delivery by its worker. `SentInv`, `AttemptsInv` and `HeldInv` say which worker may still
write which row; `InTurn` says that the workers of one session hold its rows in the order of
their ids, which makes `DeliveredInOrder` inductive.

**Event pump.** `Shape` says which timers are armed in which phase with which tasks; it is
what `EveryWaitIsTimed` needs and what the operators on turn records (`TaskRuns`,
`TaskEnds`, `Defers`, `Continues`) are proved to preserve. `MemoryInv` is about the bounded
memory of retired task ids: an id a turn has named is with the turn, is remembered, or was
pushed out; a later turn that meets it finds it in one of the three. `FrameInv` types what
the reader has in hand. `OneEnding` and `ResultWaitsForTasks` are carried by `EndTurnStep`.

**Query engine.** The four parts follow four stores. `Ordered` (in the types): the messages
of the row and of each copy are without repetition. `QueueIsServed` is inductive by itself
once the types are known. `Remembered`: a result that some store has for a prompt is in
every store that may be saved later, or a later message hides it; without that, saving an
old copy could forget an answer that a client then asks for again. `Told` is about row,
copies and marks: RUNNING stands in the row only while a run that will write it, or its
copy, is under way.

**Locks.** The pool is the subject: `RefsInv` counts an entry's references (those that
hold it, wait for it or are about to ask), `LocksInv` relates entries, owners and waiters,
so that an entry that is evicted is nobody's; `HoldersInv` and `NamedInv` are about who is
at work. `Refinement` shows that the steps of `SessionLocks` implement `SerialRuns`, in
which runs of a session follow each other: a step is one of `SerialRuns` or leaves it alone.

**Services, records, backend.** A behaviour of `MCServices`, `MCRecords` or `MCBackend` has
one moving part, so the invariant is one implication per part, `focus = ... => ...Inv`, and a
step is a step of the moving part or changes nothing.

* *Permission requests*: a call that never overlapped is alone (`AloneInv`) and has the slot
  until its future is settled (`SlotIsItsOwn`); what is in the slot belongs to a call under
  way or broke.
* *Upkeep*: `OperationsInv` and `WorkInv` relate the row's status with the operations at
  work and their copies, unless copies overlapped: a copy that is not `behind` is the row as
  it is, so whoever saves it knows who is at work. A last save that fails leaves the status,
  and `unsaved` remembers that until a save takes it away.
* *WeChat*: the lock and the loop's generation (`ListenLockInv`, `OneLoop`) make the cursor
  a lower bound of what is in the inbox (`CursorInv`).
* *QQ*: the connection lock, sockets and heartbeats (`QqSockets`, `StoppedIsOver`).
* *Lark*: what of thread, loop and client each party can see when the stop is published,
  flagged or told (`LarkStops`), unless it slipped between them.
* *Scheduler*: an account as in the outbound queue: executions plus what is owed are at most
  the due times that came, what was asked for by hand and the marks that were rolled back
  (`CountInv`). Of what an execution has taken each phase says what is still to be given back;
  the release may fail, the closing of the service may not be left out.
* *Channels*: `RowsKnown` says that a row is of the call that created it, which is over, so a
  row can be told by its id; `PutsApart` and `TouchesInv` that what the calls have written and
  not committed keeps the unique constraints and the row locks, which is what makes a commit
  safe; `ListenersInv` says of each channel who listens to it while calls silence it or have
  started a listener, and otherwise that it is the session in the table.
* *Cron*: `next` is `NextTime` of the expression after the time it was asked, for every
  time of the week; the case split over minute, hour and day is in `InTheHour`, `InTheDay`,
  `InTheWeek`.
* *Terminals*: descriptors and process numbers are given again, so the invariant says whose
  each is (`DescriptorsInv`, `ShellsInv`); `Reused` names the numbers that were reaped early,
  of which nothing can be said.
* *CLAUDE.md*: the property is about moments when no request is under way, so the invariant
  says what each request will leave behind when it commits: one that no other has overtaken
  knows the rows (`RequestsKnow`), rows and project belong together after the commit of any
  that writes no file (`RowsAgree`), the file is what the one that wrote it will make active
  (`FileAgrees`). `NextNumber` shows that the next version number exists, from the least
  element of a set of numbers (`LeastNumber`).
* *Branches*: what a convergence that is under way may still rely on (`UnderWay`, `KeptInv`):
  its target's branch is merged and its own, while others converge, delete and create beside
  it. The proof found that `BranchesAreKept` was too strong beyond the bounds of the run: a
  convergence into a group that was itself made from a worktree moves its target into that
  worktree, which is another session's and goes with it; such targets are `guests` now. A
  failure or a cut at any step (`FailureStep`, `CutOffStep`) leaves rows and directories as
  they are, which costs the group its rows' promise (`swept`) and at the last step the kept
  session its directory (`cut`).
* *Run envelopes*: `Told` says of a run that is still owned that the tables, the one flush that
  may carry it and what is pending make up its events when put one behind the other, and that
  whoever has its span last has its outcome or it is dirty again; that is what a failing
  write, put back before what came since, does not disturb. `LifeInv` says what is left when
  the process stops, `PoisonInv` that what is for a session that is gone has met its deletion.
* *Telemetry*: `RunsInv` says of every run that it is to be written, is being written or has
  its row, which is why a run that is not found has a reason; `OtlpRequestIs` of a request that
  what it found for its items so far is the run of each one's trace, unless it is `blind`.
  Batches follow each other (`BatchesInv`), so an item is in one batch, and rows of the same
  item agree.
* *Browsers*: what a browser shows is the conversation as the run has it (`Follows`), except
  between a cancel's cut and its broadcast; that holds because a run whose cancel flag is up
  has a cancel that waits for it. `OrderInv` needs no exception: every conversation that is
  kept anywhere is in the order in which its messages were made.
* *Gateway*: two locks and four upkeep tasks at one connection. `ConnInv` says who is where
  while `_client_lock` is held, `HolderInv` that the operation lock's owner is the one who
  sends or streams; `ActiveInv` carries the first half of `OnlyTheIdleAreClosed` (a run in
  its stream is marked active from before it looks for its connection), `TimerInv` the
  second. `ChangesReachTheProcess` speaks of moments when nothing is pending; `ModesInv` and
  `PluginsInv` say why it then holds: whoever is pending for the connection will bring the
  newest value, and one who is sending an old value is followed by another pending one.
* *Feedback*: a reaction belongs to an attempt that knows its id (`ReactionsInv`), the
  indicator to the attempt with the ticket or to the one about to replace it (`TypistInv`).
* *Bindings*: a session's conversation stands in its row, in the copy its query or prewarming
  took, in its connection and in a cache, and each is written later than it is read. `Holds`
  takes the five together: only then is "no two sessions on one" inductive (`AloneInv`).
  `FollowsInv` says for each stage of a query which of them is the last turn's, so that
  whichever way it ends the row is that one again; a fork keeps what it is a fork of.
* *Arrivals*: `ThroughInv` names for every message the channel gave the place where it is now
  (undelivered, a handler, the inbox, lost and how), `PlacedInv` where each file is, `PcmInv`
  whose the half-converted voices are; those that are left are counted. QQ's order needs what
  a handler of it knows (`HandlersInv`, `AwaitedInv`). The proof met two overlapping guards in
  the model of `_download_message_resource`, which are disjoint now.
* *Sends*: `BeforeInv` says what of a reply was delivered before its sender's part, `TurnInv`
  that a part is there once but for Lark's reply that is followed by a plain message; with
  `RoutesInv` (where a row's route leads) they give the property when the sender is done.
  Temporary files are those that a sender holds, and those counted as left.

**Only model-checked.** Of `MCBackend` `TasksAreAnswered`; of `MCRecords` the second half of
`TracesTellTheRuns`, `TreesTellTheRuns` (`RunsAreTold` proves the first, `TablesTellTheRuns`);
`ProjectsAreKept`. Out of the provers' reach, and therefore only TLC's: the liveness
properties (`EventuallySettled`, `WaitsEnd`, `QueueDrains`, `EveryRequestEnds`) and ENABLED;
what a fold computes, as in `ExecutionTree`;
`SelectSeq` with a LAMBDA over an unbounded sequence, which is why the pump's memory is
reasoned about by its range and length only.

## 6. Not modelled, and why

* *CRUD of projects, settings, users, usage; memory files.* Single requests to single tables.
  Two things in them could matter and are left out: two requests that ensure the same
  project at once, and a deletion that meets a refresh.
* *Channels.* The login flows (QR codes, device codes) are conversations with a server the
  source does not describe; OpenIM's adapter has a request per message and no state.
* *Gateway.* The options handed to the SDK, file checkpoints, and the SDK itself.
* *Query engine.* A submission that is cancelled while it waits for its lock (`submit_query`,
  158-169) takes the session's mark from whoever runs. The only task that is ever cancelled
  there is the IM coordinator's, when the process shuts down: `Restart`, which takes all marks.
* *Conversations.* A compaction binds the conversation it got
  (`session_application_service.py:823`), and renaming or a change of the model saves the row
  with the conversation it read; neither is among the operations of `SdkBindings`. What a save
  of an older copy does to the row is `SessionUpkeep`'s subject, without that column.
* *Broadcasts* of `clear_context` (line 523) and of a compaction (853) are not among those of
  `Viewers`: they replace the whole conversation a browser shows.
* *Trees.* A `TaskCreate` that brings its own `taskId`, links to the run that is retried, and
  what is made of the last task of a run that failed.
* *Tracing.* Run steps, the observability report and the views of subagents are projections
  of the tables that `TraceCollector` and `ExecutionTree` fill.
* *Tool guard and command policy.* Pure functions of one command line, table-driven; nothing
  interleaves.
* *HTTP API, build and deployment.* Routing, serialization and scripts.
* *Frontend.* It is taken to send any request at any time; `Viewers` has the part of it that
  merges snapshots and events.

## 7. Plan

1. *Done*: the queues, pump, engine and locks; services, backend, records, projects; the
   proofs above.
2. *Proofs next*: `TasksAreAnswered` beside the gateway; `ProjectsAreKept`.
3. *Refinement*: an abstract queue per session (accepted, in progress, settled, in order)
   that `ImInbox` and `ImOutbox` implement.
