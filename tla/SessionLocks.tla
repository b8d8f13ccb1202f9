---------------------------- MODULE SessionLocks ----------------------------
(***************************************************************************)
(* The locks around the work of a session: a pool of in-process locks that *)
(* evicts entries at its limit (domain/shared/async_utils.py), the MySQL   *)
(* named lock between processes (session_execution_lock.py), and the       *)
(* semaphore that bounds the queries of a process, taken inside both       *)
(* (SessionQueryEngine.submit_query, _run_with_capacity).                  *)
(*                                                                         *)
(* A request is one call of submit_query, or of refresh_context_usage,     *)
(* which takes the locks but no slot. What runs inside is QueryEngine's.   *)
(***************************************************************************)
EXTENDS Naturals, FiniteSets

CONSTANTS
    Requests,       \* calls that take a session's locks
    UsageRequests,  \* those that are refresh_context_usage
    Sessions,
    SessionOf,      \* [Requests -> Sessions]
    Processes,      \* application instances on one database
    ProcessOf,      \* [Requests -> Processes]
    LockIds,        \* identities of asyncio.Lock objects
    MaxSize,        \* KeyedLockPool's max_size
    Capacity,       \* the semaphore's initial value
    Mysql,          \* whether the database has named locks
    MaxFaults,      \* bound on lost connections and crashes
    NoRequest, NoLock

ASSUME SessionLocksAssumption ==
    /\ IsFiniteSet(Requests) /\ UsageRequests \subseteq Requests
    /\ SessionOf \in [Requests -> Sessions]
    /\ ProcessOf \in [Requests -> Processes]
    /\ MaxSize \in Nat /\ Capacity \in Nat \ {0} /\ MaxFaults \in Nat
    /\ Mysql \in BOOLEAN
    /\ NoRequest \notin Requests /\ NoLock \notin LockIds

VARIABLES
    pc,         \* where each request is
    lock,       \* the lock object a request got from the pool
    pool,       \* _locks of each process
    refs,       \* _refcounts of each process
    holder,     \* who holds a lock object
    named,      \* whose connection holds a session's named lock
    free,       \* the semaphore's value, per process
    shown,      \* waiting_for_slot, per process
    lost,       \* sessions whose named lock was lost while it was held
    faults

vars == <<pc, lock, pool, refs, holder, named, free, shown, lost, faults>>

\* queued: at the session's lock; named: at the database's; entering and
\* slot: before and at the semaphore; working; leaving: inside the locks
\* still; unref: outside them.
Phases == {"off", "queued", "named", "entering", "slot", "working", "leaving",
           "unref", "done"}
InsideLock == {"named", "entering", "slot", "working", "leaving"}
InsideNamed == {"entering", "slot", "working", "leaving"}
Referring == InsideLock \cup {"queued", "unref"}

Key(r) == <<ProcessOf[r], SessionOf[r]>>

Init ==
    /\ pc = [r \in Requests |-> "off"]
    /\ lock = [r \in Requests |-> NoLock]
    /\ pool = [k \in Processes \X Sessions |-> NoLock]
    /\ refs = [k \in Processes \X Sessions |-> 0]
    /\ holder = [l \in LockIds |-> NoRequest]
    /\ named = [s \in Sessions |-> NoRequest]
    /\ free = [p \in Processes |-> Capacity]
    /\ shown = {}
    /\ lost = {}
    /\ faults = 0

----------------------------------------------------------------------------
\* KeyedLockPool

Pooled(p) == {k \in {p} \X Sessions : pool[k] # NoLock}

StaleUnlocked(p) == {k \in Pooled(p) : holder[pool[k]] = NoRequest}

\* Entries acquire may throw away: unlocked, and nobody refers to them.
Stale(p) ==
    {k \in Pooled(p) : holder[pool[k]] = NoRequest /\ refs[k] = 0}

EvictionsNone(p) == {{}}

\* The first half of the stale entries in insertion order (any half here), at
\* least one if there is one, once the pool is full.
Evictions(p) ==
    LET half == Cardinality(Stale(p)) \div 2 IN
    IF Cardinality(Pooled(p)) < MaxSize \/ Stale(p) = {}
    THEN {{}}
    ELSE {gone \in SUBSET Stale(p) :
            Cardinality(gone) = IF half > 1 THEN half ELSE 1}

\* Lock objects nobody refers to stand for those yet to be created; one is as
\* good as another.
Unused == LockIds \ ({pool[k] : k \in DOMAIN pool} \cup {lock[r] : r \in Requests})
NewLock == CHOOSE l \in Unused : TRUE

\* acquire: the key's lock, or a new one after an eviction. All of it runs
\* under _guard without an await.
Acquire(r) ==
    /\ pc[r] = "off"
    /\ \/ /\ pool[Key(r)] # NoLock
          /\ lock' = [lock EXCEPT ![r] = pool[Key(r)]]
          /\ refs' = [refs EXCEPT ![Key(r)] = @ + 1]
          /\ UNCHANGED pool
       \/ /\ pool[Key(r)] = NoLock
          /\ Unused # {}
          /\ lock' = [lock EXCEPT ![r] = NewLock]
          /\ \E gone \in Evictions(ProcessOf[r]) :
                /\ pool' = [k \in DOMAIN pool |->
                              IF k = Key(r) THEN NewLock
                              ELSE IF k \in gone THEN NoLock ELSE pool[k]]
                /\ refs' = [k \in DOMAIN refs |->
                              IF k = Key(r) THEN refs[k] + 1
                              ELSE IF k \in gone THEN 0 ELSE refs[k]]
    /\ pc' = [pc EXCEPT ![r] = "queued"]
    /\ UNCHANGED <<holder, named, free, shown, lost, faults>>

\* unref, in the callers' finally clauses.
Unref(r) ==
    /\ pc[r] = "unref"
    /\ refs' = [refs EXCEPT ![Key(r)] = IF @ > 0 THEN @ - 1 ELSE 0]
    /\ lock' = [lock EXCEPT ![r] = NoLock]
    /\ pc' = [pc EXCEPT ![r] = "done"]
    /\ UNCHANGED <<pool, holder, named, free, shown, lost, faults>>

\* cleanup_session_state of a deleted session: the waiting mark goes, and the
\* pool's release takes the entry out if nobody uses it.
Cleanup(k) ==
    /\ shown' = shown \ {k}
    /\ pool' = IF pool[k] # NoLock /\ holder[pool[k]] = NoRequest /\ refs[k] = 0
               THEN [pool EXCEPT ![k] = NoLock]
               ELSE pool
    /\ <<shown', pool'>> # <<shown, pool>>
    /\ UNCHANGED <<pc, lock, refs, holder, named, free, lost, faults>>

----------------------------------------------------------------------------
\* submit_query and refresh_context_usage

Go(r, phase) == pc' = [pc EXCEPT ![r] = phase]

TakeLock(r) ==
    /\ pc[r] = "queued"
    /\ holder[lock[r]] = NoRequest
    /\ holder' = [holder EXCEPT ![lock[r]] = r]
    /\ Go(r, "named")
    /\ UNCHANGED <<lock, pool, refs, named, free, shown, lost, faults>>

AfterNamed(r) == IF r \in UsageRequests THEN "working" ELSE "entering"

TakeNamedUnasked(r) ==
    /\ pc[r] = "named"
    /\ named' = IF Mysql THEN [named EXCEPT ![SessionOf[r]] = r] ELSE named
    /\ Go(r, AfterNamed(r))
    /\ UNCHANGED <<lock, pool, refs, holder, free, shown, lost, faults>>

\* GET_LOCK, which other databases pass over.
TakeNamed(r) ==
    /\ pc[r] = "named"
    /\ Mysql => named[SessionOf[r]] = NoRequest
    /\ named' = IF Mysql THEN [named EXCEPT ![SessionOf[r]] = r] ELSE named
    /\ Go(r, AfterNamed(r))
    /\ UNCHANGED <<lock, pool, refs, holder, free, shown, lost, faults>>

\* What the session's lock and the named lock are left with by request r.
LetGo(r) ==
    /\ holder' = [l \in LockIds |-> IF holder[l] = r THEN NoRequest ELSE holder[l]]
    /\ named' = [s \in Sessions |-> IF named[s] = r THEN NoRequest ELSE named[s]]

\* GET_LOCK's time runs out: SESSION_EXECUTION_BUSY.
NamedTimeout(r) ==
    /\ pc[r] = "named"
    /\ Mysql /\ named[SessionOf[r]] # NoRequest
    /\ LetGo(r)
    /\ shown' = IF r \in UsageRequests THEN shown ELSE shown \ {Key(r)}
    /\ Go(r, "unref")
    /\ UNCHANGED <<lock, pool, refs, free, lost, faults>>

\* query_semaphore.locked() is also true while others wait for it.
Waiters(p) == {q \in Requests : ProcessOf[q] = p /\ pc[q] = "slot"}

ShowWaiting(r) ==
    /\ pc[r] = "entering"
    /\ free[ProcessOf[r]] = 0 \/ Waiters(ProcessOf[r]) # {}
    /\ shown' = shown \cup {Key(r)}
    /\ Go(r, "slot")
    /\ UNCHANGED <<lock, pool, refs, holder, named, free, lost, faults>>

TakeSlot(r) ==
    /\ pc[r] \in {"entering", "slot"}
    /\ free[ProcessOf[r]] > 0
    /\ free' = [free EXCEPT ![ProcessOf[r]] = @ - 1]
    /\ shown' = shown \ {Key(r)}
    /\ Go(r, "working")
    /\ UNCHANGED <<lock, pool, refs, holder, named, lost, faults>>

FinishAlwaysGives(r) ==
    /\ pc[r] = "working"
    /\ free' = [free EXCEPT ![ProcessOf[r]] = @ + 1]
    /\ Go(r, "leaving")
    /\ UNCHANGED <<lock, pool, refs, holder, named, shown, lost, faults>>

\* run_claude_query returns or raises; the semaphore is given back.
Finish(r) ==
    /\ pc[r] = "working"
    /\ free' = IF r \in UsageRequests THEN free
               ELSE [free EXCEPT ![ProcessOf[r]] = @ + 1]
    /\ Go(r, "leaving")
    /\ UNCHANGED <<lock, pool, refs, holder, named, shown, lost, faults>>

ReleaseNamedOnly(r) ==
    /\ pc[r] = "leaving"
    /\ named' = [s \in Sessions |-> IF named[s] = r THEN NoRequest ELSE named[s]]
    /\ Go(r, "unref")
    /\ UNCHANGED <<lock, pool, refs, holder, free, shown, lost, faults>>

\* RELEASE_LOCK, whose failure is logged, then the session's lock.
Release(r) ==
    /\ pc[r] = "leaving"
    /\ LetGo(r)
    /\ Go(r, "unref")
    /\ UNCHANGED <<lock, pool, refs, free, shown, lost, faults>>

CancelKeepsShown(r) ==
    /\ pc[r] \in {"queued", "named", "slot"}
    /\ LetGo(r)
    /\ Go(r, "unref")
    /\ UNCHANGED <<lock, pool, refs, free, shown, lost, faults>>

\* The request's task is cancelled while it waits; a query's handler also
\* takes the session's waiting mark away.
Cancel(r) ==
    /\ pc[r] \in {"queued", "named", "slot"}
    /\ LetGo(r)
    /\ shown' = IF r \in UsageRequests THEN shown ELSE shown \ {Key(r)}
    /\ Go(r, "unref")
    /\ UNCHANGED <<lock, pool, refs, free, lost, faults>>

\* The holder's connection breaks: the server releases the lock, and nobody
\* tells the holder.
LoseConnection(s) ==
    /\ faults < MaxFaults
    /\ named[s] # NoRequest
    /\ named' = [named EXCEPT ![s] = NoRequest]
    /\ lost' = lost \cup {s}
    /\ faults' = faults + 1
    /\ UNCHANGED <<pc, lock, pool, refs, holder, free, shown>>

\* A process dies: its requests, its pool and its connections with it.
Crash(p) ==
    LET dead == {r \in Requests : ProcessOf[r] = p} IN
    /\ faults < MaxFaults
    /\ pc' = [r \in Requests |->
                IF r \in dead /\ pc[r] # "off" THEN "done" ELSE pc[r]]
    /\ lock' = [r \in Requests |-> IF r \in dead THEN NoLock ELSE lock[r]]
    /\ pool' = [k \in DOMAIN pool |-> IF k[1] = p THEN NoLock ELSE pool[k]]
    /\ refs' = [k \in DOMAIN refs |-> IF k[1] = p THEN 0 ELSE refs[k]]
    /\ holder' = [l \in LockIds |-> IF holder[l] \in dead THEN NoRequest ELSE holder[l]]
    /\ named' = [s \in Sessions |-> IF named[s] \in dead THEN NoRequest ELSE named[s]]
    /\ free' = [free EXCEPT ![p] = Capacity]
    /\ shown' = {k \in shown : k[1] # p}
    /\ faults' = faults + 1
    /\ UNCHANGED lost

Step(r) ==
    \/ Acquire(r) \/ TakeLock(r) \/ TakeNamed(r) \/ NamedTimeout(r)
    \/ ShowWaiting(r) \/ TakeSlot(r) \/ Finish(r) \/ Release(r) \/ Unref(r)

Next ==
    \/ \E r \in Requests : Step(r) \/ Cancel(r)
    \/ \E k \in Processes \X Sessions : Cleanup(k)
    \/ \E s \in Sessions : LoseConnection(s)
    \/ \E p \in Processes : Crash(p)

Spec == Init /\ [][Next]_vars

\* A request that can move does, for the event loop runs every task that is
\* ready, but nothing makes the work inside the locks end: by default an agent
\* may be silent for ever (CLAUDE_STREAM_MAX_SILENT_TIMEOUTS is 0, no limit).
GoesOn(r) == pc[r] # "working" /\ Step(r)
Fairness == \A r \in Requests : WF_vars(GoesOn(r))
FairSpec == Spec /\ Fairness

----------------------------------------------------------------------------
\* Properties

TypeOK ==
    /\ pc \in [Requests -> Phases]
    /\ lock \in [Requests -> LockIds \cup {NoLock}]
    /\ pool \in [Processes \X Sessions -> LockIds \cup {NoLock}]
    /\ refs \in [Processes \X Sessions -> Nat]
    /\ holder \in [LockIds -> Requests \cup {NoRequest}]
    /\ named \in [Sessions -> Requests \cup {NoRequest}]
    /\ free \in [Processes -> 0..Capacity]
    /\ shown \subseteq Processes \X Sessions
    /\ lost \subseteq Sessions
    /\ faults \in 0..MaxFaults

\* Requests that are in the middle of a session's work.
AtWork == {r \in Requests : pc[r] \in InsideNamed}

\* Two requests of a session are never at work at once in one process, however
\* small the pool is, and on MySQL in any two processes, unless the named lock
\* was lost with its connection (submit_query's nested locks).
OneRunPerSession ==
    \A q, r \in AtWork :
        q # r /\ SessionOf[q] = SessionOf[r] =>
            /\ ProcessOf[q] # ProcessOf[r]
            /\ Mysql => SessionOf[r] \in lost

\* The locks keep SerialRuns' promise within each process.
Serial == INSTANCE SerialRuns WITH
    Units <- Processes \X Sessions,
    UnitOf <- [r \in Requests |-> Key(r)],
    working <- AtWork

ImplementsSerialRuns == Serial!Spec

\* A full pool grows only while every lock in it is in use: otherwise each
\* insertion makes room (acquire).
FullPoolGrowsInUse ==
    [][\A p \in Processes :
         /\ Cardinality(Pooled(p)) >= MaxSize
         /\ Cardinality(Pooled(p)') > Cardinality(Pooled(p))
         => \A k \in Pooled(p) :
              \E r \in Requests : Key(r) = k /\ pc[r] \in Referring]_vars

\* A session shown as waiting for a slot has a request that waits for one: no
\* way out of the wait leaves the mark behind (waiting_for_slot).
ShownIsWaiting ==
    \A k \in shown : \E r \in Requests : Key(r) = k /\ pc[r] = "slot"

\* Work that never ends.
NeverEnds(Q) == <>[](\A q \in Q : pc[q] = "working")

\* Those whose endless work may hold r up: a request for the same lock, or as
\* many queries of its process as there are slots.
HoldingUp(r) ==
    {{q} : q \in {q \in Requests : Key(q) = Key(r)}} \cup
    {Q \in SUBSET (Requests \ UsageRequests) :
        Cardinality(Q) = Capacity /\ \A q \in Q : ProcessOf[q] = ProcessOf[r]}

\* Nested locks, named locks and slots never end in everybody waiting for
\* everybody: every request gets through or gives up, and what never ends holds
\* up its own session and those who need the slots it keeps, nobody else.
EveryRequestEnds ==
    \A r \in Requests : <>(pc[r] = "done") \/ \E Q \in HoldingUp(r) : NeverEnds(Q)
=============================================================================
