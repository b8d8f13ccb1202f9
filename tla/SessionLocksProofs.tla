------------------------- MODULE SessionLocksProofs -------------------------
(***************************************************************************)
(* What the locks of a session guarantee for any number of requests,       *)
(* sessions and processes, any pool size and any capacity.  The invariant  *)
(* is built in layers, each inductive given the ones before it: types and  *)
(* slots, the waiting marks, the pool's reference counts, and who holds a  *)
(* session's two locks.                                                    *)
(***************************************************************************)
EXTENDS SessionLocks, FiniteSetTheorems, TLAPS

\* The queries of a process that have a slot of its semaphore ...
Working(p) ==
  {r \in Requests : /\ ProcessOf[r] = p /\ pc[r] = "working"
                    /\ r \notin UsageRequests}

\* ... and the semaphore counts exactly those.
SlotsInv == \A p \in Processes : free[p] + Cardinality(Working(p)) = Capacity

\* A usage refresh never asks for a slot.
UsageInv == \A r \in UsageRequests : pc[r] \notin {"entering", "slot"}

\* The requests that refer to a pool entry, which its count counts ...
Referrers(k) == {r \in Requests : Key(r) = k /\ pc[r] \in Referring}

RefsInv ==
  \A k \in Processes \X Sessions : refs[k] = Cardinality(Referrers(k))

\* ... so that the entry they got is still the one in the pool.
LocksInv ==
  \A r \in Requests :
    pc[r] \in Referring => lock[r] \in LockIds /\ pool[Key(r)] = lock[r]

\* A request past the session's lock holds it.
HoldersInv ==
  \A r \in Requests : pc[r] \in InsideLock => holder[lock[r]] = r

\* A request past the named lock has it, unless its connection was lost.
NamedInv ==
  \A r \in Requests :
    pc[r] \in InsideNamed /\ Mysql /\ SessionOf[r] \notin lost =>
      named[SessionOf[r]] = r

TypeInv == TypeOK /\ UsageInv /\ SlotsInv
PoolInv == LocksInv /\ RefsInv
HoldInv == HoldersInv /\ NamedInv
IInv == TypeInv /\ ShownIsWaiting /\ PoolInv /\ HoldInv

-----------------------------------------------------------------------------
(* Types and slots                                                         *)

\* A process has finitely many requests, whatever they are doing.
LEMMA FiniteParts ==
  ASSUME NEW S, S \subseteq Requests
  PROVE  IsFiniteSet(S) /\ Cardinality(S) \in Nat
  BY SessionLocksAssumption, FS_Subset, FS_CardinalityType

\* A step that changes no request's work and no semaphore keeps the slots.
LEMMA SlotsStay ==
  ASSUME SlotsInv, free' = free,
         \A q \in Requests : pc'[q] = "working" /\ q \notin UsageRequests
                             <=> pc[q] = "working" /\ q \notin UsageRequests
  PROVE  SlotsInv'
  <1>1. \A p \in Processes : Working(p)' = Working(p)
    BY DEF Working
  <1> QED  BY <1>1 DEF SlotsInv

\* One request moves on, and no slot changes hands.
LEMMA MoveKeepsTypes ==
  ASSUME TypeInv, NEW r \in Requests, NEW phase \in Phases,
         Go(r, phase), free' = free,
         pc[r] = "working" => r \in UsageRequests,
         phase = "working" => r \in UsageRequests,
         phase \in {"entering", "slot"} => r \notin UsageRequests
  PROVE  /\ pc' \in [Requests -> Phases]
         /\ UsageInv' /\ SlotsInv'
  <1>1. /\ pc' \in [Requests -> Phases]
        /\ pc'[r] = phase
        /\ \A q \in Requests : q # r => pc'[q] = pc[q]
    BY DEF TypeInv, TypeOK, Go
  <1>2. UsageInv'
    BY <1>1, SessionLocksAssumption DEF TypeInv, UsageInv
  <1>3. SlotsInv'
    BY <1>1, SlotsStay DEF TypeInv
  <1> QED  BY <1>1, <1>2, <1>3

\* Every step keeps the types.
LEMMA TypeInvStep ==
  ASSUME TypeInv, [Next]_vars
  PROVE  TypeInv'
  <1> USE SessionLocksAssumption DEF TypeInv
  <1>k. \A r \in Requests : Key(r) \in Processes \X Sessions
    BY DEF Key
  <1>1. ASSUME NEW r \in Requests, Acquire(r)
        PROVE  TypeInv'
    <2>1. pc[r] = "off" /\ Go(r, "queued") /\ free' = free
      BY <1>1 DEF Acquire, Go
    <2>2. pc' \in [Requests -> Phases] /\ UsageInv' /\ SlotsInv'
      BY <2>1, MoveKeepsTypes DEF Phases
    <2>3. CASE pool[Key(r)] # NoLock
      <3>1. /\ lock' = [lock EXCEPT ![r] = pool[Key(r)]]
            /\ refs' = [refs EXCEPT ![Key(r)] = @ + 1]
            /\ UNCHANGED <<pool, holder, named, free, shown, lost, faults>>
        BY <1>1, <2>3 DEF Acquire
      <3>2. /\ lock' \in [Requests -> LockIds \cup {NoLock}]
            /\ refs' \in [Processes \X Sessions -> Nat]
        BY <1>k, <3>1 DEF TypeOK
      <3> QED  BY <2>2, <3>1, <3>2 DEF TypeOK
    <2>4. CASE pool[Key(r)] = NoLock
      <3>1. NewLock \in LockIds
        BY <1>1, <2>4 DEF Acquire, NewLock, Unused
      <3>2. PICK gone \in Evictions(ProcessOf[r]) :
              /\ pool' = [k \in DOMAIN pool |->
                            IF k = Key(r) THEN NewLock
                            ELSE IF k \in gone THEN NoLock ELSE pool[k]]
              /\ refs' = [k \in DOMAIN refs |->
                            IF k = Key(r) THEN refs[k] + 1
                            ELSE IF k \in gone THEN 0 ELSE refs[k]]
        BY <1>1, <2>4 DEF Acquire
      <3>3. /\ pool' \in [Processes \X Sessions -> LockIds \cup {NoLock}]
            /\ refs' \in [Processes \X Sessions -> Nat]
        BY <3>1, <3>2 DEF TypeOK
      <3> QED  BY <1>1, <2>2, <2>4, <3>1, <3>3 DEF Acquire, TypeOK
    <2> QED  BY <2>3, <2>4
  <1>2. ASSUME NEW r \in Requests, TakeLock(r)
        PROVE  TypeInv'
    <2>1. pc' \in [Requests -> Phases] /\ UsageInv' /\ SlotsInv'
      BY <1>2, MoveKeepsTypes DEF TakeLock, Phases
    <2> QED  BY <1>2, <2>1 DEF TakeLock, TypeOK
  <1>3. ASSUME NEW r \in Requests, TakeNamed(r)
        PROVE  TypeInv'
    <2>1. pc' \in [Requests -> Phases] /\ UsageInv' /\ SlotsInv'
      BY <1>3, MoveKeepsTypes DEF TakeNamed, AfterNamed, Phases
    <2> QED  BY <1>3, <2>1 DEF TakeNamed, TypeOK
  <1>4. ASSUME NEW r \in Requests, NamedTimeout(r)
        PROVE  TypeInv'
    <2>1. pc' \in [Requests -> Phases] /\ UsageInv' /\ SlotsInv'
      BY <1>4, MoveKeepsTypes DEF NamedTimeout, Phases
    <2> QED  BY <1>4, <2>1 DEF NamedTimeout, LetGo, TypeOK
  <1>5. ASSUME NEW r \in Requests, ShowWaiting(r)
        PROVE  TypeInv'
    <2>1. r \notin UsageRequests
      BY <1>5 DEF ShowWaiting, UsageInv
    <2>2. pc' \in [Requests -> Phases] /\ UsageInv' /\ SlotsInv'
      BY <1>5, <2>1, MoveKeepsTypes DEF ShowWaiting, Phases
    <2> QED  BY <1>5, <1>k, <2>2 DEF ShowWaiting, TypeOK
  <1>6. ASSUME NEW r \in Requests, TakeSlot(r)
        PROVE  TypeInv'
    <2> DEFINE p == ProcessOf[r]
    <2>1. /\ pc' \in [Requests -> Phases]
          /\ pc[r] # "working" /\ pc'[r] = "working"
          /\ \A q \in Requests : q # r => pc'[q] = pc[q]
          /\ r \notin UsageRequests
      BY <1>6 DEF TakeSlot, Go, TypeOK, UsageInv, Phases
    <2>2. /\ free' = [free EXCEPT ![p] = @ - 1]
          /\ free[p] > 0 /\ p \in Processes /\ free[p] \in 0 .. Capacity
      BY <1>6 DEF TakeSlot, TypeOK
    <2>3. SlotsInv'
      <3> SUFFICES ASSUME NEW o \in Processes
                   PROVE  free'[o] + Cardinality(Working(o)') = Capacity
        BY DEF SlotsInv
      <3>1. CASE o = p
        <4>1. Working(p)' = Working(p) \cup {r} /\ r \notin Working(p)
          BY <2>1 DEF Working
        <4>2. Cardinality(Working(p)') = Cardinality(Working(p)) + 1
          BY <4>1, FiniteParts, FS_AddElement DEF Working
        <4>3. free[p] + Cardinality(Working(p)) = Capacity
          BY <2>2 DEF SlotsInv
        <4>4. Cardinality(Working(p)) \in Nat
          BY FiniteParts DEF Working
        <4>5. free'[p] = free[p] - 1
          BY <2>2 DEF TypeOK
        <4> HIDE DEF p
        <4> QED  BY <2>2, <3>1, <4>2, <4>3, <4>4, <4>5
      <3>2. CASE o # p
        <4>1. Working(o)' = Working(o)
          BY <2>1, <3>2 DEF Working
        <4> QED  BY <2>2, <3>2, <4>1 DEF SlotsInv, TypeOK
      <3> QED  BY <3>1, <3>2
    <2>4. UsageInv'
      BY <2>1 DEF UsageInv
    <2>5. free' \in [Processes -> 0 .. Capacity]
      BY <2>2 DEF TypeOK
    <2> QED  BY <1>6, <1>k, <2>1, <2>3, <2>4, <2>5 DEF TakeSlot, TypeOK
  <1>7. ASSUME NEW r \in Requests, Finish(r)
        PROVE  TypeInv'
    <2>1. CASE r \in UsageRequests
      <3>1. pc' \in [Requests -> Phases] /\ UsageInv' /\ SlotsInv'
        BY <1>7, <2>1, MoveKeepsTypes DEF Finish, Phases
      <3> QED  BY <1>7, <2>1, <3>1 DEF Finish, TypeOK
    <2>2. CASE r \notin UsageRequests
      <3> DEFINE p == ProcessOf[r]
      <3>1. /\ pc' \in [Requests -> Phases]
            /\ pc[r] = "working" /\ pc'[r] = "leaving"
            /\ \A q \in Requests : q # r => pc'[q] = pc[q]
        BY <1>7 DEF Finish, Go, TypeOK, Phases
      <3>2. /\ free' = [free EXCEPT ![p] = @ + 1]
            /\ p \in Processes /\ free[p] \in 0 .. Capacity
            /\ free'[p] = free[p] + 1
        BY <1>7, <2>2 DEF Finish, TypeOK
      <3>3. Working(p)' = Working(p) \ {r} /\ r \in Working(p)
        BY <2>2, <3>1 DEF Working
      <3>4. IsFiniteSet(Working(p)) /\ Cardinality(Working(p)) \in Nat
        BY FiniteParts DEF Working
      <3>5. /\ Cardinality(Working(p)') = Cardinality(Working(p)) - 1
            /\ Cardinality(Working(p)') \in Nat
        <4> DEFINE W == Working(p)
        <4>e. Cardinality(W \ {r}) = Cardinality(W) - 1
          <5>1. r \in W /\ IsFiniteSet(W)
            BY <3>3, <3>4
          <5> HIDE DEF W
          <5> QED  BY <5>1, FS_RemoveElement
        <4>1. Cardinality(Working(p)') = Cardinality(Working(p)) - 1
          BY <3>3, <4>e
        <4>2. Cardinality(Working(p)) # 0
          BY <3>3, <3>4, FS_EmptySet
        <4> QED  BY <3>4, <4>1, <4>2
      <3>6. free[p] + Cardinality(Working(p)) = Capacity
        BY <3>2 DEF SlotsInv
      <3>7. free'[p] + Cardinality(Working(p)') = Capacity
        <4> HIDE DEF p
        <4> QED  BY <3>2, <3>4, <3>5, <3>6
      <3>8. free'[p] \in 0 .. Capacity
        <4> HIDE DEF p
        <4> QED  BY <3>2, <3>5, <3>7
      <3>9. SlotsInv'
        <4> SUFFICES ASSUME NEW o \in Processes, o # p
                     PROVE  free'[o] + Cardinality(Working(o)') = Capacity
          BY <3>7 DEF SlotsInv
        <4>1. Working(o)' = Working(o)
          BY <3>1 DEF Working
        <4> QED  BY <3>2, <4>1 DEF SlotsInv, TypeOK
      <3>10. UsageInv'
        BY <3>1 DEF UsageInv
      <3>11. free' \in [Processes -> 0 .. Capacity]
        BY <3>2, <3>8 DEF TypeOK
      <3> QED  BY <1>7, <3>1, <3>9, <3>10, <3>11 DEF Finish, TypeOK
    <2> QED  BY <2>1, <2>2
  <1>8. ASSUME NEW r \in Requests, Release(r)
        PROVE  TypeInv'
    <2>1. pc' \in [Requests -> Phases] /\ UsageInv' /\ SlotsInv'
      BY <1>8, MoveKeepsTypes DEF Release, Phases
    <2> QED  BY <1>8, <2>1 DEF Release, LetGo, TypeOK
  <1>9. ASSUME NEW r \in Requests, Unref(r)
        PROVE  TypeInv'
    <2>1. pc' \in [Requests -> Phases] /\ UsageInv' /\ SlotsInv'
      <3>1. Go(r, "done")
        BY <1>9 DEF Unref, Go
      <3> QED  BY <1>9, <3>1, MoveKeepsTypes DEF Unref, Phases
    <2> QED  BY <1>9, <1>k, <2>1 DEF Unref, TypeOK
  <1>10. ASSUME NEW r \in Requests, Cancel(r)
         PROVE  TypeInv'
    <2>1. pc' \in [Requests -> Phases] /\ UsageInv' /\ SlotsInv'
      BY <1>10, MoveKeepsTypes DEF Cancel, Phases
    <2> QED  BY <1>10, <2>1 DEF Cancel, LetGo, TypeOK
  <1>11. ASSUME NEW k \in Processes \X Sessions, Cleanup(k)
         PROVE  TypeInv'
    <2>1. UsageInv' /\ SlotsInv'
      BY <1>11, SlotsStay DEF Cleanup, UsageInv
    <2> QED  BY <1>11, <2>1 DEF Cleanup, TypeOK
  <1>12. ASSUME NEW s \in Sessions, LoseConnection(s)
         PROVE  TypeInv'
    <2>1. UsageInv' /\ SlotsInv'
      BY <1>12, SlotsStay DEF LoseConnection, UsageInv
    <2> QED  BY <1>12, <2>1 DEF LoseConnection, TypeOK
  <1>13. ASSUME NEW p \in Processes, Crash(p)
         PROVE  TypeInv'
    <2>1. \A q \in Requests :
            /\ pc'[q] = IF ProcessOf[q] = p /\ pc[q] # "off" THEN "done"
                        ELSE pc[q]
      BY <1>13 DEF Crash
    <2>2. UsageInv'
      BY <2>1 DEF UsageInv
    <2>3. SlotsInv'
      <3> SUFFICES ASSUME NEW o \in Processes
                   PROVE  free'[o] + Cardinality(Working(o)') = Capacity
        BY DEF SlotsInv
      <3>1. CASE o = p
        <4>1. Working(p)' = {}
          BY <2>1 DEF Working
        <4> QED  BY <1>13, <3>1, <4>1, FS_EmptySet DEF Crash, TypeOK
      <3>2. CASE o # p
        <4>1. Working(o)' = Working(o)
          BY <2>1, <3>2 DEF Working
        <4> QED  BY <1>13, <3>2, <4>1 DEF Crash, SlotsInv, TypeOK
      <3> QED  BY <3>1, <3>2
    <2>4. /\ pc' \in [Requests -> Phases]
          /\ lock' \in [Requests -> LockIds \cup {NoLock}]
          /\ pool' \in [Processes \X Sessions -> LockIds \cup {NoLock}]
          /\ refs' \in [Processes \X Sessions -> Nat]
      BY <1>13 DEF Crash, TypeOK, Phases
    <2>5. /\ holder' \in [LockIds -> Requests \cup {NoRequest}]
          /\ named' \in [Sessions -> Requests \cup {NoRequest}]
          /\ free' \in [Processes -> 0 .. Capacity]
          /\ shown' \subseteq Processes \X Sessions
      BY <1>13 DEF Crash, TypeOK
    <2> QED  BY <1>13, <2>2, <2>3, <2>4, <2>5 DEF Crash, TypeOK
  <1>14. CASE UNCHANGED vars
    <2>1. UsageInv' /\ SlotsInv'
      BY <1>14, SlotsStay DEF vars, UsageInv
    <2> QED  BY <1>14, <2>1 DEF vars, TypeOK
  <1> QED  BY <1>1, <1>2, <1>3, <1>4, <1>5, <1>6, <1>7, <1>8, <1>9, <1>10,
              <1>11, <1>12, <1>13, <1>14 DEF Next, Step
-----------------------------------------------------------------------------
(* Waiting marks                                                           *)

\* A step that shows no more and takes nobody out of the wait whose mark
\* stays.
LEMMA MarksStay ==
  ASSUME ShownIsWaiting, shown' \subseteq shown,
         \A q \in Requests : pc[q] = "slot" /\ Key(q) \in shown' =>
                               pc'[q] = "slot"
  PROVE  ShownIsWaiting'
  <1>1. \A q \in Requests : Key(q)' = Key(q)
    BY DEF Key
  <1> QED  BY <1>1 DEF ShownIsWaiting

\* Every step keeps the mark of a waiting session true.
LEMMA ShownStep ==
  ASSUME TypeInv, ShownIsWaiting, [Next]_vars
  PROVE  ShownIsWaiting'
  <1> USE SessionLocksAssumption DEF TypeInv
  <1>1. ASSUME NEW r \in Requests,
               \/ Acquire(r) \/ TakeLock(r) \/ TakeNamed(r) \/ Finish(r)
               \/ Release(r) \/ Unref(r)
        PROVE  ShownIsWaiting'
    <2>1. shown' = shown /\ pc[r] # "slot"
      BY <1>1 DEF Acquire, TakeLock, TakeNamed, Finish, Release, Unref
    <2>2. \A q \in Requests : q # r => pc'[q] = pc[q]
      BY <1>1 DEF Acquire, TakeLock, TakeNamed, Finish, Release, Unref, Go,
                  TypeOK
    <2> QED  BY <2>1, <2>2, MarksStay
  <1>2. ASSUME NEW r \in Requests, NamedTimeout(r) \/ Cancel(r)
        PROVE  ShownIsWaiting'
    <2>1. \A q \in Requests : q # r => pc'[q] = pc[q]
      BY <1>2 DEF NamedTimeout, Cancel, Go, TypeOK
    <2>2. CASE r \in UsageRequests
      <3>1. shown' = shown /\ pc[r] # "slot"
        BY <1>2, <2>2 DEF NamedTimeout, Cancel, UsageInv
      <3> QED  BY <2>1, <3>1, MarksStay
    <2>3. CASE r \notin UsageRequests
      <3>1. shown' = shown \ {Key(r)}
        BY <1>2, <2>3 DEF NamedTimeout, Cancel
      <3> QED  BY <2>1, <3>1, MarksStay
    <2> QED  BY <2>2, <2>3
  <1>3. ASSUME NEW r \in Requests, TakeSlot(r)
        PROVE  ShownIsWaiting'
    <2>1. shown' = shown \ {Key(r)}
      BY <1>3 DEF TakeSlot
    <2>2. \A q \in Requests : q # r => pc'[q] = pc[q]
      BY <1>3 DEF TakeSlot, Go, TypeOK
    <2> QED  BY <2>1, <2>2, MarksStay
  <1>4. ASSUME NEW r \in Requests, ShowWaiting(r)
        PROVE  ShownIsWaiting'
    <2>1. /\ shown' = shown \cup {Key(r)}
          /\ pc[r] = "entering" /\ pc'[r] = "slot"
          /\ \A q \in Requests : q # r => pc'[q] = pc[q]
      BY <1>4 DEF ShowWaiting, Go, TypeOK
    <2>2. \A q \in Requests : pc[q] = "slot" => pc'[q] = "slot"
      BY <2>1
    <2>3. \A q \in Requests : Key(q)' = Key(q)
      BY DEF Key
    <2> SUFFICES ASSUME NEW k \in shown'
                 PROVE  \E q \in Requests : Key(q) = k /\ pc'[q] = "slot"
      BY <2>3 DEF ShownIsWaiting
    <2>4. CASE k \in shown
      BY <2>2, <2>4 DEF ShownIsWaiting
    <2>5. CASE k = Key(r)
      BY <2>1, <2>5
    <2> QED  BY <2>1, <2>4, <2>5
  <1>5. ASSUME NEW k \in Processes \X Sessions, Cleanup(k)
        PROVE  ShownIsWaiting'
    BY <1>5, MarksStay DEF Cleanup
  <1>6. ASSUME NEW s \in Sessions, LoseConnection(s)
        PROVE  ShownIsWaiting'
    BY <1>6, MarksStay DEF LoseConnection
  <1>7. ASSUME NEW p \in Processes, Crash(p)
        PROVE  ShownIsWaiting'
    <2>1. shown' = {k \in shown : k[1] # p}
      BY <1>7 DEF Crash
    <2>2. \A q \in Requests : ProcessOf[q] # p => pc'[q] = pc[q]
      BY <1>7 DEF Crash
    <2>3. \A q \in Requests : Key(q)[1] = ProcessOf[q]
      BY DEF Key
    <2> QED  BY <2>1, <2>2, <2>3, MarksStay
  <1>8. CASE UNCHANGED vars
    BY <1>8, MarksStay DEF vars
  <1> QED  BY <1>1, <1>2, <1>3, <1>4, <1>5, <1>6, <1>7, <1>8 DEF Next, Step

-----------------------------------------------------------------------------
(* The pool                                                                *)

\* An entry is counted for nobody exactly if nobody refers to it.
LEMMA NobodyRefers ==
  ASSUME TypeInv, RefsInv, NEW k \in Processes \X Sessions
  PROVE  refs[k] = 0 <=> \A r \in Requests : Key(r) = k => pc[r] \notin Referring
  <1>1. refs[k] = Cardinality(Referrers(k)) /\ IsFiniteSet(Referrers(k))
    BY FiniteParts DEF RefsInv, Referrers
  <1>2. refs[k] = 0 <=> Referrers(k) = {}
    BY <1>1, FS_EmptySet
  <1> QED  BY <1>2 DEF Referrers

\* Steps on either side of the reference leave the pool's account alone.
LEMMA PoolStays ==
  ASSUME PoolInv, UNCHANGED <<lock, pool, refs>>,
         \A q \in Requests : pc'[q] \in Referring <=> pc[q] \in Referring
  PROVE  PoolInv'
  <1>1. \A q \in Requests : Key(q)' = Key(q)
    BY DEF Key
  <1>2. \A k : Referrers(k)' = Referrers(k)
    BY <1>1 DEF Referrers
  <1> QED  BY <1>1, <1>2 DEF PoolInv, LocksInv, RefsInv

\* One request more refers to its entry ...
LEMMA OneMore ==
  ASSUME TypeInv, RefsInv, NEW r \in Requests,
         pc[r] \notin Referring, pc'[r] \in Referring,
         \A q \in Requests : q # r => pc'[q] = pc[q]
  PROVE  /\ Cardinality(Referrers(Key(r))') = refs[Key(r)] + 1
         /\ \A k : k # Key(r) => Referrers(k)' = Referrers(k)
  <1> DEFINE R == Referrers(Key(r))
  <1>1. Key(r) \in Processes \X Sessions /\ \A q \in Requests : Key(q)' = Key(q)
    BY SessionLocksAssumption DEF Key
  <1>2. R' = R \cup {r} /\ r \notin R
    BY <1>1 DEF Referrers
  <1>3. IsFiniteSet(R) /\ refs[Key(r)] = Cardinality(R)
    BY <1>1, FiniteParts DEF Referrers, RefsInv
  <1>4. \A k : k # Key(r) => Referrers(k)' = Referrers(k)
    BY <1>1 DEF Referrers
  <1>5. Cardinality(R \cup {r}) = Cardinality(R) + 1
    <2> HIDE DEF R
    <2> QED  BY <1>2, <1>3, FS_AddElement
  <1> QED  BY <1>1, <1>2, <1>3, <1>4, <1>5

\* ... or one fewer.
LEMMA OneFewer ==
  ASSUME TypeInv, RefsInv, NEW r \in Requests,
         pc[r] \in Referring, pc'[r] \notin Referring,
         \A q \in Requests : q # r => pc'[q] = pc[q]
  PROVE  /\ Cardinality(Referrers(Key(r))') = refs[Key(r)] - 1
         /\ refs[Key(r)] > 0
         /\ \A k : k # Key(r) => Referrers(k)' = Referrers(k)
  <1> DEFINE R == Referrers(Key(r))
  <1>1. Key(r) \in Processes \X Sessions /\ \A q \in Requests : Key(q)' = Key(q)
    BY SessionLocksAssumption DEF Key
  <1>2. R' = R \ {r} /\ r \in R
    BY <1>1 DEF Referrers
  <1>3. IsFiniteSet(R) /\ refs[Key(r)] = Cardinality(R) /\ refs[Key(r)] \in Nat
    BY <1>1, FiniteParts DEF Referrers, RefsInv
  <1>4. \A k : k # Key(r) => Referrers(k)' = Referrers(k)
    BY <1>1 DEF Referrers
  <1>5. Cardinality(R \ {r}) = Cardinality(R) - 1
    <2> HIDE DEF R
    <2> QED  BY <1>2, <1>3, FS_RemoveElement
  <1>6. refs[Key(r)] # 0
    BY <1>1, NobodyRefers
  <1> QED  BY <1>1, <1>2, <1>3, <1>4, <1>5, <1>6

\* Taking a reference of a lock keeps the pool (KeyedLockPool.acquire).
LEMMA AcquireStep ==
  ASSUME TypeInv, TypeInv', PoolInv, NEW r \in Requests, Acquire(r)
  PROVE  PoolInv'
  <1> USE SessionLocksAssumption DEF TypeInv, PoolInv
  <1>1. /\ pc[r] = "off" /\ pc'[r] = "queued"
        /\ \A q \in Requests : q # r => pc'[q] = pc[q]
        /\ "off" \notin Referring /\ "queued" \in Referring
    BY DEF Acquire, TypeOK, Referring, InsideLock
  <1>2. /\ Key(r) \in Processes \X Sessions
        /\ \A q \in Requests : Key(q)' = Key(q)
        /\ \A q \in Requests : Key(q) \in Processes \X Sessions
    BY DEF Key
  <1>3. /\ Cardinality(Referrers(Key(r))') = refs[Key(r)] + 1
        /\ \A k : k # Key(r) => Referrers(k)' = Referrers(k)
    BY <1>1, OneMore
  <1>4. CASE pool[Key(r)] # NoLock
    <2>1. /\ lock' = [lock EXCEPT ![r] = pool[Key(r)]]
          /\ refs' = [refs EXCEPT ![Key(r)] = @ + 1]
          /\ pool' = pool
      BY <1>4 DEF Acquire
    <2>2. LocksInv'
      BY <1>1, <1>2, <1>4, <2>1 DEF LocksInv, TypeOK
    <2>3. ASSUME NEW k \in Processes \X Sessions
          PROVE  refs'[k] = Cardinality(Referrers(k)')
      BY <1>3, <2>1 DEF TypeOK, RefsInv
    <2> QED  BY <2>2, <2>3 DEF RefsInv
  <1>5. CASE pool[Key(r)] = NoLock
    <2>1. PICK gone \in Evictions(ProcessOf[r]) :
            /\ pool' = [k \in DOMAIN pool |->
                          IF k = Key(r) THEN NewLock
                          ELSE IF k \in gone THEN NoLock ELSE pool[k]]
            /\ refs' = [k \in DOMAIN refs |->
                          IF k = Key(r) THEN refs[k] + 1
                          ELSE IF k \in gone THEN 0 ELSE refs[k]]
      BY <1>5 DEF Acquire
    <2>2. lock' = [lock EXCEPT ![r] = NewLock] /\ NewLock \in LockIds
      BY <1>5 DEF Acquire, NewLock, Unused
    <2>3. \A k \in gone : k \in Processes \X Sessions /\ refs[k] = 0
      BY DEF Evictions, Stale, Pooled
    <2>4. \A q \in Requests : pc[q] \in Referring =>
            Key(q) # Key(r) /\ Key(q) \notin gone
      <3> TAKE q \in Requests
      <3> HAVE pc[q] \in Referring
      <3>1. Key(q) # Key(r)
        BY <1>5 DEF LocksInv
      <3>2. Key(q) \notin gone
        BY <2>3, NobodyRefers
      <3> QED  BY <3>1, <3>2
    <2>5. LocksInv'
      <3> SUFFICES ASSUME NEW q \in Requests, pc'[q] \in Referring
                   PROVE  lock'[q] \in LockIds /\ pool'[Key(q)] = lock'[q]
        BY <1>2 DEF LocksInv
      <3>1. CASE q = r
        BY <1>2, <2>1, <2>2, <3>1 DEF TypeOK
      <3>2. CASE q # r
        <4>1. pc[q] \in Referring /\ lock'[q] = lock[q]
          BY <1>1, <2>2, <3>2 DEF TypeOK
        <4>2. pool'[Key(q)] = pool[Key(q)]
          BY <1>2, <2>1, <2>4, <4>1 DEF TypeOK
        <4> QED  BY <4>1, <4>2 DEF LocksInv
      <3> QED  BY <3>1, <3>2
    <2>6. ASSUME NEW k \in Processes \X Sessions
          PROVE  refs'[k] = Cardinality(Referrers(k)')
      <3>1. CASE k = Key(r)
        BY <1>3, <2>1, <3>1 DEF TypeOK
      <3>2. CASE k # Key(r) /\ k \in gone
        <4>1. refs'[k] = 0
          BY <2>1, <3>2 DEF TypeOK
        <4> QED  BY <1>3, <2>3, <3>2, <4>1 DEF RefsInv
      <3>3. CASE k # Key(r) /\ k \notin gone
        <4>1. refs'[k] = refs[k]
          BY <2>1, <3>3 DEF TypeOK
        <4> QED  BY <1>3, <3>3, <4>1 DEF RefsInv
      <3> QED  BY <3>1, <3>2, <3>3
    <2> QED  BY <2>5, <2>6 DEF RefsInv
  <1> QED  BY <1>4, <1>5

\* Giving the reference back, with the eviction it may allow, keeps the pool.
LEMMA UnrefStep ==
  ASSUME TypeInv, TypeInv', PoolInv, NEW r \in Requests, Unref(r)
  PROVE  PoolInv'
  <1> USE SessionLocksAssumption DEF TypeInv, PoolInv
  <1>1. /\ pc[r] = "unref" /\ pc'[r] = "done"
        /\ \A q \in Requests : q # r => pc'[q] = pc[q]
        /\ "unref" \in Referring /\ "done" \notin Referring
    BY DEF Unref, TypeOK, Referring, InsideLock
  <1>2. /\ Key(r) \in Processes \X Sessions
        /\ \A q \in Requests : Key(q)' = Key(q)
    BY DEF Key
  <1>3. /\ Cardinality(Referrers(Key(r))') = refs[Key(r)] - 1
        /\ refs[Key(r)] > 0
        /\ \A k : k # Key(r) => Referrers(k)' = Referrers(k)
    BY <1>1, OneFewer
  <1>4. /\ refs' = [refs EXCEPT ![Key(r)] = refs[Key(r)] - 1]
        /\ lock' = [lock EXCEPT ![r] = NoLock]
        /\ pool' = pool
    BY <1>3 DEF Unref
  <1>5. LocksInv'
    <2> SUFFICES ASSUME NEW q \in Requests, pc'[q] \in Referring
                 PROVE  lock'[q] \in LockIds /\ pool'[Key(q)] = lock'[q]
      BY <1>2 DEF LocksInv
    <2>1. q # r /\ pc[q] \in Referring
      BY <1>1
    <2> QED  BY <1>4, <2>1 DEF LocksInv, TypeOK
  <1>6. ASSUME NEW k \in Processes \X Sessions
        PROVE  refs'[k] = Cardinality(Referrers(k)')
    <2>1. CASE k = Key(r)
      <3>1. refs'[k] = refs[Key(r)] - 1
        BY <1>4, <2>1 DEF TypeOK
      <3> QED  BY <1>3, <2>1, <3>1
    <2>2. CASE k # Key(r)
      <3>1. refs'[k] = refs[k]
        BY <1>4, <2>2 DEF TypeOK
      <3> QED  BY <1>3, <2>2, <3>1 DEF RefsInv
    <2> QED  BY <2>1, <2>2
  <1> QED  BY <1>5, <1>6 DEF RefsInv

\* Every step keeps the pool: who refers to a lock finds it there.
LEMMA PoolStep ==
  ASSUME TypeInv, TypeInv', PoolInv, [Next]_vars
  PROVE  PoolInv'
  <1> USE SessionLocksAssumption DEF TypeInv
  <1>1. ASSUME NEW r \in Requests,
               \/ TakeLock(r) \/ TakeNamed(r) \/ NamedTimeout(r)
               \/ ShowWaiting(r) \/ TakeSlot(r) \/ Finish(r) \/ Release(r)
               \/ Cancel(r)
        PROVE  PoolInv'
    <2>1. UNCHANGED <<lock, pool, refs>>
      BY <1>1 DEF TakeLock, TakeNamed, NamedTimeout, ShowWaiting, TakeSlot,
                  Finish, Release, Cancel
    <2>2. pc[r] \in Referring
      BY <1>1 DEF TakeLock, TakeNamed, NamedTimeout, ShowWaiting, TakeSlot,
                  Finish, Release, Cancel, Referring, InsideLock
    <2>3. /\ pc'[r] \in Referring
          /\ \A q \in Requests : q # r => pc'[q] = pc[q]
      BY <1>1 DEF TakeLock, TakeNamed, NamedTimeout, ShowWaiting, TakeSlot,
                  Finish, Release, Cancel, Go, AfterNamed, TypeOK,
                  Referring, InsideLock
    <2> QED  BY <2>1, <2>2, <2>3, PoolStays
  <1>2. ASSUME NEW r \in Requests, Acquire(r)
        PROVE  PoolInv'
    BY <1>2, AcquireStep
  <1>3. ASSUME NEW r \in Requests, Unref(r)
        PROVE  PoolInv'
    BY <1>3, UnrefStep
  <1>4. ASSUME NEW k \in Processes \X Sessions, Cleanup(k)
        PROVE  PoolInv'
    <2>1. pc' = pc /\ lock' = lock /\ refs' = refs
      BY <1>4 DEF Cleanup
    <2>2. CASE pool' = pool
      BY <2>1, <2>2, PoolStays
    <2>3. CASE pool' # pool
      <3>1. refs[k] = 0 /\ pool' = [pool EXCEPT ![k] = NoLock]
        BY <1>4, <2>3 DEF Cleanup
      <3>2. \A q \in Requests : Key(q)' = Key(q) /\ Referrers(Key(q))' = Referrers(Key(q))
        BY <2>1 DEF Key, Referrers
      <3>3. \A q \in Requests : pc[q] \in Referring => Key(q) # k
        BY <3>1, NobodyRefers DEF PoolInv
      <3>4. \A q \in Requests : Key(q) # k => pool'[Key(q)] = pool[Key(q)]
        BY <3>1 DEF TypeOK
      <3>5. LocksInv'
        BY <2>1, <3>2, <3>3, <3>4 DEF PoolInv, LocksInv
      <3>6. RefsInv'
        <4>1. \A o : Referrers(o)' = Referrers(o)
          BY <2>1 DEF Referrers, Key
        <4> QED  BY <2>1, <4>1 DEF PoolInv, RefsInv
      <3> QED  BY <3>5, <3>6 DEF PoolInv
    <2> QED  BY <2>2, <2>3
  <1>5. ASSUME NEW s \in Sessions, LoseConnection(s)
        PROVE  PoolInv'
    BY <1>5, PoolStays DEF LoseConnection
  <1>6. ASSUME NEW p \in Processes, Crash(p)
        PROVE  PoolInv'
    <2>1. /\ pc' = [q \in Requests |->
                     IF ProcessOf[q] = p /\ pc[q] # "off" THEN "done"
                     ELSE pc[q]]
          /\ lock' = [q \in Requests |->
                        IF ProcessOf[q] = p THEN NoLock ELSE lock[q]]
          /\ pool' = [k \in Processes \X Sessions |->
                        IF k[1] = p THEN NoLock ELSE pool[k]]
          /\ refs' = [k \in Processes \X Sessions |->
                        IF k[1] = p THEN 0 ELSE refs[k]]
      BY <1>6 DEF Crash, TypeOK
    <2>2. "off" \notin Referring /\ "done" \notin Referring
      BY DEF Referring, InsideLock
    <2>3. \A q \in Requests : /\ Key(q)' = Key(q)
                              /\ Key(q)[1] = ProcessOf[q]
                              /\ Key(q) \in Processes \X Sessions
      BY DEF Key
    <2>4. \A q \in Requests : /\ ProcessOf[q] = p => pc'[q] \notin Referring
                              /\ ProcessOf[q] # p => pc'[q] = pc[q]
      BY <2>1, <2>2
    <2>5. LocksInv'
      BY <2>1, <2>3, <2>4 DEF PoolInv, LocksInv
    <2>6. ASSUME NEW k \in Processes \X Sessions
          PROVE  refs'[k] = Cardinality(Referrers(k)')
      <3>1. CASE k[1] = p
        <4>1. Referrers(k)' = {}
          BY <2>3, <2>4, <3>1 DEF Referrers
        <4> QED  BY <2>1, <3>1, <4>1, FS_EmptySet
      <3>2. CASE k[1] # p
        <4>1. Referrers(k)' = Referrers(k)
          BY <2>3, <2>4, <3>2 DEF Referrers
        <4> QED  BY <2>1, <3>2, <4>1 DEF PoolInv, RefsInv
      <3> QED  BY <3>1, <3>2
    <2> QED  BY <2>5, <2>6 DEF PoolInv, RefsInv
  <1>7. CASE UNCHANGED vars
    BY <1>7, PoolStays DEF vars
  <1> QED  BY <1>1, <1>2, <1>3, <1>4, <1>5, <1>6, <1>7 DEF Next, Step
-----------------------------------------------------------------------------
(* Holders of the session's lock and of the named lock                     *)

\* A step that takes nobody into the locks and frees nobody's lock but those
\* of requests that leave.
LEMMA HoldStays ==
  ASSUME TypeInv, PoolInv, HoldInv, lost \subseteq lost',
         \A q \in Requests : pc'[q] \in InsideLock =>
           /\ pc[q] \in InsideLock /\ lock'[q] = lock[q]
           /\ holder'[lock[q]] = holder[lock[q]],
         \A q \in Requests :
           pc'[q] \in InsideNamed /\ Mysql /\ SessionOf[q] \notin lost' =>
             pc[q] \in InsideNamed
             /\ (named[SessionOf[q]] = q => named'[SessionOf[q]] = q)
  PROVE  HoldInv'
  BY DEF HoldInv, HoldersInv, NamedInv

\* Letting go of one's locks is nothing to the others.
LEMMA LetGoOthers ==
  ASSUME TypeInv, PoolInv, NEW r \in Requests, LetGo(r)
  PROVE  /\ \A q \in Requests : q # r /\ pc[q] \in InsideLock /\ holder[lock[q]] = q
              => holder'[lock[q]] = q
         /\ \A q \in Requests : q # r /\ named[SessionOf[q]] = q
              => named'[SessionOf[q]] = q
  <1>1. \A q \in Requests : pc[q] \in InsideLock => lock[q] \in LockIds
    BY DEF PoolInv, LocksInv, Referring
  <1> QED  BY <1>1, SessionLocksAssumption DEF LetGo

\* Every step keeps the locks with their holders.
LEMMA HoldStep ==
  ASSUME TypeInv, PoolInv, HoldInv, [Next]_vars
  PROVE  HoldInv'
  <1> USE SessionLocksAssumption DEF TypeInv
  <1>n. NoRequest \notin Requests /\ InsideNamed \subseteq InsideLock
        /\ InsideLock \subseteq Referring
    BY DEF InsideNamed, InsideLock, Referring
  <1>l. \A q \in Requests : pc[q] \in InsideLock => lock[q] \in LockIds
    BY <1>n DEF PoolInv, LocksInv
  <1>1. ASSUME NEW r \in Requests,
               \/ Acquire(r) \/ ShowWaiting(r) \/ TakeSlot(r) \/ Finish(r)
               \/ Unref(r)
        PROVE  HoldInv'
    <2>1. /\ UNCHANGED <<holder, named, lost>>
          /\ \A q \in Requests : q # r => pc'[q] = pc[q] /\ lock'[q] = lock[q]
      BY <1>1 DEF Acquire, ShowWaiting, TakeSlot, Finish, Unref, Go, TypeOK
    <2>2. /\ pc'[r] \in InsideLock => pc[r] \in InsideLock /\ lock'[r] = lock[r]
          /\ pc'[r] \in InsideNamed => pc[r] \in InsideNamed
      BY <1>1 DEF Acquire, ShowWaiting, TakeSlot, Finish, Unref, Go, TypeOK,
                  InsideLock, InsideNamed
    <2> QED  BY <2>1, <2>2, HoldStays
  <1>2. ASSUME NEW r \in Requests, TakeLock(r)
        PROVE  HoldInv'
    <2>1. /\ UNCHANGED <<lock, named, lost>>
          /\ holder[lock[r]] = NoRequest /\ pc[r] = "queued"
          /\ holder' = [holder EXCEPT ![lock[r]] = r]
          /\ pc'[r] = "named"
          /\ \A q \in Requests : q # r => pc'[q] = pc[q]
      BY <1>2 DEF TakeLock, Go, TypeOK
    <2>2. lock[r] \in LockIds
      BY <2>1 DEF PoolInv, LocksInv, Referring
    <2>3. HoldersInv'
      <3> SUFFICES ASSUME NEW q \in Requests, pc'[q] \in InsideLock
                   PROVE  holder'[lock[q]] = q
        BY <2>1 DEF HoldersInv
      <3>1. CASE q = r
        BY <2>1, <2>2, <3>1 DEF TypeOK
      <3>2. CASE q # r
        <4>1. pc[q] \in InsideLock /\ holder[lock[q]] = q
          BY <2>1, <3>2 DEF HoldInv, HoldersInv
        <4>2. lock[q] # lock[r] /\ lock[q] \in LockIds
          BY <1>l, <1>n, <2>1, <4>1
        <4> QED  BY <2>1, <2>2, <4>1, <4>2 DEF TypeOK
      <3> QED  BY <3>1, <3>2
    <2>4. NamedInv'
      BY <2>1 DEF HoldInv, NamedInv, InsideNamed
    <2> QED  BY <2>3, <2>4 DEF HoldInv
  <1>3. ASSUME NEW r \in Requests, TakeNamed(r)
        PROVE  HoldInv'
    <2>1. /\ UNCHANGED <<lock, holder, lost>>
          /\ pc[r] = "named" /\ pc'[r] \in InsideNamed
          /\ \A q \in Requests : q # r => pc'[q] = pc[q]
      BY <1>3 DEF TakeNamed, AfterNamed, Go, TypeOK, InsideNamed
    <2>2. HoldersInv'
      BY <2>1 DEF HoldInv, HoldersInv, InsideLock
    <2>3. NamedInv'
      <3> SUFFICES ASSUME NEW q \in Requests, pc'[q] \in InsideNamed, Mysql,
                          SessionOf[q] \notin lost
                   PROVE  named'[SessionOf[q]] = q
        BY <2>1 DEF NamedInv
      <3>1. /\ named[SessionOf[r]] = NoRequest
            /\ named' = [named EXCEPT ![SessionOf[r]] = r]
        BY <1>3 DEF TakeNamed
      <3>2. CASE q = r
        BY <3>1, <3>2 DEF TypeOK
      <3>3. CASE q # r
        <4>1. named[SessionOf[q]] = q
          BY <2>1, <3>3 DEF HoldInv, NamedInv
        <4> QED  BY <1>n, <3>1, <4>1 DEF TypeOK
      <3> QED  BY <3>2, <3>3
    <2> QED  BY <2>2, <2>3 DEF HoldInv
  <1>4. ASSUME NEW r \in Requests, NamedTimeout(r) \/ Release(r) \/ Cancel(r)
        PROVE  HoldInv'
    <2>1. /\ LetGo(r) /\ UNCHANGED <<lock, lost>>
          /\ pc'[r] = "unref"
          /\ \A q \in Requests : q # r => pc'[q] = pc[q]
      BY <1>4 DEF NamedTimeout, Release, Cancel, Go, TypeOK
    <2>2. pc'[r] \notin InsideLock
      BY <2>1 DEF InsideLock
    <2>3. HoldersInv' /\ NamedInv'
      <3>1. HoldersInv'
        BY <2>1, <2>2, LetGoOthers DEF HoldInv, HoldersInv
      <3>2. NamedInv'
        BY <1>n, <2>1, <2>2, LetGoOthers DEF HoldInv, NamedInv
      <3> QED  BY <3>1, <3>2
    <2> QED  BY <2>3 DEF HoldInv
  <1>5. ASSUME NEW k \in Processes \X Sessions, Cleanup(k)
        PROVE  HoldInv'
    BY <1>5 DEF Cleanup, HoldInv, HoldersInv, NamedInv
  <1>6. ASSUME NEW s \in Sessions, LoseConnection(s)
        PROVE  HoldInv'
    <2>1. /\ UNCHANGED <<pc, lock, holder>>
          /\ named' = [named EXCEPT ![s] = NoRequest] /\ lost' = lost \cup {s}
      BY <1>6 DEF LoseConnection
    <2> QED  BY <2>1 DEF HoldInv, HoldersInv, NamedInv, TypeOK
  <1>7. ASSUME NEW p \in Processes, Crash(p)
        PROVE  HoldInv'
    <2>1. \A q \in Requests :
            /\ ProcessOf[q] = p => pc'[q] \notin InsideLock
            /\ ProcessOf[q] # p => pc'[q] = pc[q] /\ lock'[q] = lock[q]
      BY <1>7 DEF Crash, InsideLock
    <2>2. \A q \in Requests : ProcessOf[q] # p =>
            /\ lock[q] \in LockIds /\ holder[lock[q]] = q => holder'[lock[q]] = q
            /\ named[SessionOf[q]] = q => named'[SessionOf[q]] = q
      BY <1>7 DEF Crash
    <2>3. lost' = lost
      BY <1>7 DEF Crash
    <2>4. HoldersInv'
      BY <1>l, <2>1, <2>2 DEF HoldInv, HoldersInv
    <2>5. NamedInv'
      BY <1>n, <2>1, <2>2, <2>3 DEF HoldInv, NamedInv
    <2> QED  BY <2>4, <2>5 DEF HoldInv
  <1>8. CASE UNCHANGED vars
    BY <1>8 DEF vars, HoldInv, HoldersInv, NamedInv
  <1> QED  BY <1>1, <1>2, <1>3, <1>4, <1>5, <1>6, <1>7, <1>8 DEF Next, Step

-----------------------------------------------------------------------------
(* Theorems                                                                *)

\* The inductive invariant holds at the start.
LEMMA Initially == Init => IInv
  <1> SUFFICES ASSUME Init  PROVE IInv
    OBVIOUS
  <1> USE SessionLocksAssumption DEF Init
  <1>1. TypeOK /\ UsageInv
    BY DEF TypeOK, UsageInv, Phases
  <1>2. SlotsInv
    <2>1. \A p \in Processes : Working(p) = {}
      BY DEF Working
    <2>2. Cardinality({}) = 0
      BY FS_EmptySet
    <2>3. Capacity + 0 = Capacity
      OBVIOUS
    <2> QED  BY <2>1, <2>2, <2>3 DEF SlotsInv
  <1>3. LocksInv /\ HoldInv
    BY DEF LocksInv, HoldInv, HoldersInv, NamedInv, Referring, InsideLock,
           InsideNamed
  <1>4. RefsInv
    <2>1. \A k : Referrers(k) = {}
      BY DEF Referrers, Referring, InsideLock
    <2> QED  BY <2>1, FS_EmptySet DEF RefsInv
  <1> QED  BY <1>1, <1>2, <1>3, <1>4 DEF IInv, TypeInv, PoolInv, ShownIsWaiting

\* The layers together are inductive: every reachable state satisfies them.
THEOREM Invariance == Spec => []IInv
  <1>1. IInv /\ [Next]_vars => IInv'
    BY TypeInvStep, ShownStep, PoolStep, HoldStep DEF IInv
  <1> QED  BY Initially, <1>1, PTL DEF Spec

\* Every variable keeps its type; the semaphore stays within its capacity
\* (SessionQueryEngine._query_semaphore).
THEOREM TypeCorrect == Spec => []TypeOK
  <1>1. IInv => TypeOK
    BY DEF IInv, TypeInv
  <1> QED  BY Invariance, <1>1, PTL

\* Two requests at work refer to one pool entry only if they are the same.
LEMMA OneHolder ==
  ASSUME IInv, NEW q \in Requests, NEW r \in Requests,
         pc[q] \in InsideLock, pc[r] \in InsideLock, Key(q) = Key(r)
  PROVE  q = r
  <1>1. pc[q] \in Referring /\ pc[r] \in Referring
    BY DEF Referring
  <1>2. lock[q] = lock[r]
    BY <1>1 DEF IInv, PoolInv, LocksInv
  <1> QED  BY <1>2 DEF IInv, HoldInv, HoldersInv

\* Within a process a session has one run at a time whatever the pool evicts;
\* on MySQL also across processes, unless the named lock was lost with its
\* connection (submit_query's nested locks).
THEOREM RunsExclude == Spec => []OneRunPerSession
  <1>1. IInv => OneRunPerSession
    <2> SUFFICES ASSUME IInv, NEW q \in AtWork, NEW r \in AtWork, q # r,
                        SessionOf[q] = SessionOf[r]
                 PROVE  /\ ProcessOf[q] # ProcessOf[r]
                        /\ Mysql => SessionOf[r] \in lost
      BY DEF OneRunPerSession
    <2>1. /\ q \in Requests /\ pc[q] \in InsideNamed /\ pc[q] \in InsideLock
          /\ r \in Requests /\ pc[r] \in InsideNamed /\ pc[r] \in InsideLock
      BY DEF AtWork, InsideNamed, InsideLock
    <2>2. ProcessOf[q] # ProcessOf[r]
      BY <2>1, OneHolder DEF Key
    <2>3. Mysql => SessionOf[r] \in lost
      BY <2>1 DEF IInv, HoldInv, NamedInv
    <2> QED  BY <2>2, <2>3
  <1> QED  BY Invariance, <1>1, PTL

\* No way out of the wait for a slot leaves the session's mark behind
\* (waiting_for_slot).
THEOREM MarksAreTrue == Spec => []ShownIsWaiting
  <1>1. IInv => ShownIsWaiting
    BY DEF IInv
  <1> QED  BY Invariance, <1>1, PTL

\* The locks implement SerialRuns: a request starts work only while nobody of
\* its session is at work in its process, and only ends take requests away.
THEOREM Refinement == Spec => ImplementsSerialRuns
  <1>1. Init => Serial!Init
    BY DEF Init, Serial!Init, AtWork, InsideNamed
  <1>2. IInv /\ [Next]_vars => [Serial!Next]_AtWork
    <2> SUFFICES ASSUME IInv, [Next]_vars
                 PROVE  Serial!Next \/ AtWork' = AtWork
      OBVIOUS
    <2> USE DEF IInv, TypeInv
    <2>f. AtWork' \subseteq AtWork => Serial!Next \/ AtWork' = AtWork
      BY DEF Serial!Next, Serial!Leave
    <2>o. ASSUME \A r \in Requests : pc'[r] \in InsideNamed => pc[r] \in InsideNamed
          PROVE  Serial!Next \/ AtWork' = AtWork
      BY <2>f, <2>o DEF AtWork
    <2>1. ASSUME NEW r \in Requests, TakeNamed(r)
          PROVE  Serial!Next
      <3>1. /\ pc[r] = "named" /\ pc'[r] \in InsideNamed
            /\ \A q \in Requests : q # r => pc'[q] = pc[q]
        BY <2>1 DEF TakeNamed, AfterNamed, Go, TypeOK, InsideNamed
      <3>2. AtWork' = AtWork \cup {r}
        BY <3>1 DEF AtWork
      <3>3. \A q \in AtWork : Key(q) # Key(r)
        <4> TAKE q \in AtWork
        <4>1. q \in Requests /\ pc[q] \in InsideLock /\ q # r
          BY <3>1 DEF AtWork, InsideNamed, InsideLock
        <4>2. pc[r] \in InsideLock
          BY <3>1 DEF InsideLock
        <4> QED  BY <4>1, <4>2, OneHolder
      <3>4. \A q \in AtWork : q \in Requests
        BY DEF AtWork
      <3>5. Serial!Enter(r)
        BY <3>2, <3>3, <3>4 DEF Serial!Enter
      <3> QED  BY <3>5 DEF Serial!Next
    <2>2. ASSUME NEW r \in Requests,
                 \/ Acquire(r) \/ TakeLock(r) \/ NamedTimeout(r)
                 \/ ShowWaiting(r) \/ TakeSlot(r) \/ Finish(r) \/ Release(r)
                 \/ Unref(r) \/ Cancel(r)
          PROVE  Serial!Next \/ AtWork' = AtWork
      BY <2>2, <2>o DEF Acquire, TakeLock, NamedTimeout, ShowWaiting, TakeSlot,
                        Finish, Release, Unref, Cancel, Go, TypeOK, InsideNamed
    <2>3. ASSUME NEW k \in Processes \X Sessions, Cleanup(k)
          PROVE  Serial!Next \/ AtWork' = AtWork
      BY <2>3, <2>o DEF Cleanup
    <2>4. ASSUME NEW s \in Sessions, LoseConnection(s)
          PROVE  Serial!Next \/ AtWork' = AtWork
      BY <2>4, <2>o DEF LoseConnection
    <2>5. ASSUME NEW p \in Processes, Crash(p)
          PROVE  Serial!Next \/ AtWork' = AtWork
      BY <2>5, <2>o DEF Crash, InsideNamed
    <2>6. CASE UNCHANGED vars
      BY <2>6, <2>o DEF vars
    <2> QED  BY <2>1, <2>2, <2>3, <2>4, <2>5, <2>6 DEF Next, Step
  <1> QED  BY Invariance, <1>1, <1>2, PTL
           DEF Spec, ImplementsSerialRuns, Serial!Spec
=============================================================================
