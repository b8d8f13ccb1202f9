---------------------------- MODULE ServicesProofs ----------------------------
(***************************************************************************)
(* Theorems about the services of MCServices, for every value of the       *)
(* constants: for each service an inductive invariant of its own, kept by  *)
(* its steps, and at the end what follows for the whole.                   *)
(***************************************************************************)
EXTENDS MCServices, FiniteSetTheorems, SequenceTheorems, TLAPS

-----------------------------------------------------------------------------
(* Permission requests (PermissionRequests.tla)                            *)

AskingPhases == Requests!UnderWay \cup {"off", "broken", "done"}

\* A call that never was under way together with another is alone while it is.
AloneInv == \A c \in Calls \ overlapped :
              asking[c] \in Requests!UnderWay => Requests!Active = {c}

\* ... and has the slot until its finally clause, unless its future is settled.
SlotIsItsOwn ==
  \A c \in Calls \ overlapped :
    asking[c] \in {"asked", "showing", "waiting"} => slot = c \/ future[c] # "pending"

\* A future is settled when its call wakes up.
AwakeSettled ==
  \A c \in Calls : asking[c] \in {"ending", "clearing", "done"} => future[c] # "pending"

\* What is in the slot belongs to a call before its finally clause, or broke.
SlotInv ==
  slot # NoCall =>
    asking[slot] \in {"asked", "showing", "waiting", "ending"} \/ slot \in stranded
       \/ future[slot] # "pending"

\* While no call has broken off, what is kept belongs to calls under way.
LeftInv ==
  stranded = {} =>
    /\ slot # NoCall => asking[slot] \in {"asked", "showing", "waiting", "ending"}
    /\ Requests!Active = {} => persisted = NoCall /\ waiting = FALSE

RequestsInv == /\ Requests!TypeOK /\ AloneInv /\ SlotIsItsOwn
               /\ AwakeSettled /\ SlotInv /\ LeftInv

\* The invariant holds when no call has asked yet.
LEMMA RequestsStart == Requests!Init => RequestsInv
  <1> SUFFICES ASSUME Requests!Init  PROVE RequestsInv
    OBVIOUS
  <1> USE ServicesAssumption DEF Requests!Init, Requests!UnderWay
  <1>1. Requests!TypeOK
    <2>1. waiting \in BOOLEAN /\ canceller \in BOOLEAN
      BY Zenon
    <2> QED  BY <2>1 DEF Requests!TypeOK
  <1>2. AloneInv /\ SlotIsItsOwn /\ AwakeSettled /\ SlotInv /\ LeftInv
    BY DEF AloneInv, SlotIsItsOwn, AwakeSettled, SlotInv, LeftInv
  <1> QED  BY <1>1, <1>2 DEF RequestsInv

\* Every step of a request keeps the types.
LEMMA RequestsTypes ==
  ASSUME Requests!TypeOK, Requests!Next
  PROVE  Requests!TypeOK'
  <1> USE ServicesAssumption DEF Requests!TypeOK, Requests!UnderWay
  <1>1. ASSUME NEW c \in Calls, Requests!Ask(c)
        PROVE  Requests!TypeOK'
    BY <1>1 DEF Requests!Ask, Requests!Moves, Requests!Active
  <1>2. ASSUME NEW c \in Calls,
               Requests!Persist(c) \/ Requests!Show(c) \/ Requests!Pop(c) \/ Requests!Wakes(c)
        PROVE  Requests!TypeOK'
    BY <1>2 DEF Requests!Persist, Requests!Show, Requests!Pop, Requests!Wakes, Requests!Moves
  <1>3. ASSUME NEW c \in Calls, Requests!BreaksEarly(c)
        PROVE  Requests!TypeOK'
    BY <1>3 DEF Requests!BreaksEarly, Requests!Break
  <1>4. ASSUME NEW c \in Calls, Requests!Clear(c)
        PROVE  Requests!TypeOK'
    <2>1. /\ asking' \in [Calls -> Requests!UnderWay \cup {"off", "broken", "done"}]
          /\ future' \in [Calls -> {"pending", "set", "cancelled"}]
          /\ slot' \in Calls \cup {NoCall} /\ persisted' \in Calls \cup {NoCall}
          /\ overlapped' \subseteq Calls
      BY <1>4 DEF Requests!Clear, Requests!Moves
    <2>2. breaks' \in 0..MaxBreaks /\ stranded' \subseteq Calls
      BY <1>4 DEF Requests!Clear, Requests!Break
    <2>3. waiting' \in BOOLEAN /\ canceller' \in BOOLEAN
      BY <1>4, Zenon DEF Requests!Clear
    <2> QED  BY <2>1, <2>2, <2>3
  <1>5. CASE Requests!Resolve \/ Requests!CancelPending \/ Requests!CancelWrites
    BY <1>5 DEF Requests!Resolve, Requests!CancelPending, Requests!CancelWrites
  <1> QED  BY <1>1, <1>2, <1>3, <1>4, <1>5 DEF Requests!Next

\* A call that asks while another is under way makes both overlapped; else it
\* is alone and in the slot.
LEMMA AskKeeps ==
  ASSUME RequestsInv, NEW c \in Calls, Requests!Ask(c)
  PROVE  AloneInv' /\ SlotIsItsOwn' /\ AwakeSettled' /\ SlotInv' /\ LeftInv'
  <1> USE ServicesAssumption
      DEF RequestsInv, Requests!TypeOK, Requests!UnderWay, Requests!Active, Requests!Ask, Requests!Moves
  <1>1. /\ \A d \in Calls : asking'[d] = IF d = c THEN "asked" ELSE asking[d]
        /\ slot' = c /\ future' = future /\ stranded' = stranded
        /\ overlapped \subseteq overlapped'
    OBVIOUS
  <1>2. AloneInv'
    BY <1>1 DEF AloneInv
  <1>3. SlotIsItsOwn'
    BY <1>1 DEF SlotIsItsOwn
  <1>4. AwakeSettled'
    BY <1>1 DEF AwakeSettled
  <1>5. SlotInv' /\ LeftInv'
    BY <1>1 DEF SlotInv, LeftInv
  <1> QED  BY <1>2, <1>3, <1>4, <1>5

\* A call that goes on keeps the invariant.
LEMMA CallKeeps ==
  ASSUME RequestsInv, NEW c \in Calls,
         \/ Requests!Persist(c) \/ Requests!Show(c) \/ Requests!BreaksEarly(c)
         \/ Requests!Wakes(c) \/ Requests!Pop(c) \/ Requests!Clear(c)
  PROVE  AloneInv' /\ SlotIsItsOwn' /\ AwakeSettled' /\ SlotInv' /\ LeftInv'
  <1> USE ServicesAssumption DEF RequestsInv, Requests!TypeOK, Requests!UnderWay, Requests!Active
  <1>1. /\ asking[c] \in Requests!UnderWay /\ overlapped' = overlapped
        /\ \A d \in Calls : d # c => asking'[d] = asking[d] /\ future'[d] = future[d]
        /\ stranded \subseteq stranded'
        /\ future'[c] # "pending" \/ future'[c] = future[c]
    BY DEF Requests!Persist, Requests!Show, Requests!BreaksEarly, Requests!Wakes,
           Requests!Pop, Requests!Clear, Requests!Moves, Requests!Break
  <1>2. \/ asking[c] = "asked" /\ asking'[c] = "showing" /\ slot' = slot /\ future' = future
        \/ asking[c] = "showing" /\ asking'[c] = "waiting" /\ slot' = slot /\ future' = future
        \/ asking'[c] = "broken" /\ slot' = slot /\ future' = future /\ c \in stranded'
        \/ asking[c] = "waiting" /\ asking'[c] = "ending" /\ slot' = slot /\ future'[c] # "pending"
        \/ asking[c] = "ending" /\ asking'[c] = "clearing" /\ slot' = NoCall /\ future' = future
        \/ asking[c] = "clearing" /\ asking'[c] = "done" /\ slot' = slot /\ future' = future
    BY DEF Requests!Persist, Requests!Show, Requests!BreaksEarly, Requests!Wakes,
           Requests!Pop, Requests!Clear, Requests!Moves, Requests!Break
  <1>3. AloneInv'
    BY <1>1, <1>2 DEF AloneInv
  <1>4. SlotIsItsOwn'
    BY <1>1, <1>2 DEF SlotIsItsOwn, AloneInv
  <1>5. AwakeSettled'
    BY <1>1, <1>2 DEF AwakeSettled
  <1>6. SlotInv'
    BY <1>1, <1>2 DEF SlotInv, AwakeSettled
  <1>7. LeftInv'
    <2>1. stranded' = {} /\ slot' # NoCall => asking'[slot'] \in {"asked", "showing", "waiting", "ending"}
      BY <1>1, <1>2 DEF LeftInv
    <2>2. stranded' = {} /\ Requests!Active' = {} => asking'[c] = "done" /\ Requests!Clear(c)
      BY <1>2, Zenon DEF Requests!Persist, Requests!Show, Requests!BreaksEarly, Requests!Wakes,
           Requests!Pop, Requests!Moves, Requests!Break
    <2>3. stranded' = {} /\ Requests!Clear(c) => persisted' = NoCall /\ waiting' = FALSE
      BY Zenon DEF Requests!Clear, Requests!Break
    <2> QED  BY <2>1, <2>2, <2>3, Zenon DEF LeftInv
  <1> QED  BY <1>3, <1>4, <1>5, <1>6, <1>7

\* So do an answer and the cancel of a query.
LEMMA AnswerKeeps ==
  ASSUME RequestsInv, Requests!Resolve \/ Requests!CancelPending \/ Requests!CancelWrites
  PROVE  AloneInv' /\ SlotIsItsOwn' /\ AwakeSettled' /\ SlotInv' /\ LeftInv'
  <1> USE ServicesAssumption DEF RequestsInv, Requests!TypeOK
  <1>1. /\ UNCHANGED <<asking, waiting, overlapped, stranded>>
        /\ persisted' \in {persisted, NoCall}
        /\ \/ slot' = NoCall /\ slot # NoCall
           \/ slot' = slot
        /\ \A d \in Calls : future'[d] = future[d] \/ future'[d] # "pending"
        /\ slot' # slot => future'[slot] # "pending"
    BY DEF Requests!Resolve, Requests!CancelPending, Requests!CancelWrites
  <1>2. AloneInv'
    BY <1>1 DEF AloneInv, Requests!Active
  <1>3. SlotIsItsOwn'
    BY <1>1 DEF SlotIsItsOwn
  <1>4. AwakeSettled'
    BY <1>1 DEF AwakeSettled
  <1>5. SlotInv'
    BY <1>1 DEF SlotInv
  <1>6. LeftInv'
    BY <1>1, Zenon DEF LeftInv, Requests!Active
  <1> QED  BY <1>2, <1>3, <1>4, <1>5, <1>6

\* Every step of a request keeps the invariant.
LEMMA RequestsStep == RequestsInv /\ [Requests!Next]_requestVars => RequestsInv'
  <1> SUFFICES ASSUME RequestsInv, [Requests!Next]_requestVars  PROVE RequestsInv'
    OBVIOUS
  <1>1. CASE Requests!Next
    <2>1. Requests!TypeOK'
      BY <1>1, RequestsTypes DEF RequestsInv
    <2> QED  BY <1>1, <2>1, AskKeeps, CallKeeps, AnswerKeeps DEF RequestsInv, Requests!Next
  <1>2. CASE UNCHANGED requestVars
    <2>1. /\ asking' = asking /\ future' = future /\ slot' = slot /\ persisted' = persisted
          /\ waiting' = waiting /\ canceller' = canceller /\ breaks' = breaks
          /\ overlapped' = overlapped /\ stranded' = stranded
      BY <1>2 DEF requestVars
    <2> QED  BY <2>1, Zenon
         DEF RequestsInv, Requests!TypeOK, AloneInv, SlotIsItsOwn, AwakeSettled, SlotInv, LeftInv,
             Requests!Active
  <1> QED  BY <1>1, <1>2

\* What the invariant says of the answers and of what is left.
LEMMA RequestsHold ==
  ASSUME RequestsInv
  PROVE  Requests!AnswerReachesTheCall /\ Requests!NothingIsLeft
  <1>1. Requests!AnswerReachesTheCall
    BY ServicesAssumption
    DEF RequestsInv, SlotIsItsOwn, SlotInv, Requests!AnswerReachesTheCall, Requests!UnderWay
  <1>2. Requests!NothingIsLeft
    BY ServicesAssumption, Zenon
    DEF RequestsInv, LeftInv, Requests!NothingIsLeft, Requests!TypeOK, Requests!Active, Requests!UnderWay
  <1> QED  BY <1>1, <1>2

-----------------------------------------------------------------------------
(* The upkeep of a session's row (SessionUpkeep.tla)                       *)

SessionRow == [there : BOOLEAN, status : {"idle", "error"} \cup Upkeep!Busy, answered : SUBSET Queries]
Operation == [kind : {"none", "query", "compact", "clear", "rename", "check", "cancel", "delete"},
              pc : {"off", "waiting", "asked", "read", "forgotten", "rewound", "failing", "working",
                    "done"},
              copy : SessionRow]

WellMade(o, x) ==
  LET under == x.pc \notin {"off", "waiting", "asked", "done"} IN
  /\ under => (x.kind = "query" <=> o \in Queries)
  /\ under => x.kind # "none"
  /\ x.pc = "waiting" => o \in Queries
  /\ x.pc = "asked" => o \notin Queries
  /\ x.pc = "failing" => x.kind = "query" /\ x.copy.status \in {"idle", "error"}
  /\ x.pc = "forgotten" => \/ x.kind = "delete"
                           \/ x.kind = "clear" /\ x.copy.status \in {"idle", "error"}
  /\ x.pc = "working" => x.kind \in {"query", "compact"}

\* What an operation is, and that a query has the lock from its first read on.
OperationsInv ==
  /\ op \in [Upkeep!Ops -> Operation]
  /\ \A o \in Upkeep!Ops : WellMade(o, op[o])
  /\ \A o \in Queries : Upkeep!Under(o) => turn = o

\* As long as nothing was overlapped: a copy the row has not left behind is the
\* row, the operation at work is the only one and the row shows which it is; a
\* row that shows work without any was left by work that ended unsaved.
WorkInv ==
  /\ \A o \in Upkeep!Ops \ behind : Upkeep!Under(o) => op[o].copy = session
  /\ \A o \in Upkeep!AtWork :
       /\ session.there
       /\ session.status = IF o \in Queries THEN "running" ELSE "compacting"
       /\ o \in Queries => activity = TRUE
  /\ \A o, p \in Upkeep!AtWork : o = p
  /\ session.there /\ session.status \in Upkeep!Busy => Upkeep!AtWork # {} \/ unsaved = TRUE

UpkeepInv ==
  /\ Upkeep!TypeOK /\ OperationsInv
  /\ overlaps = FALSE => WorkInv

\* The upkeep's invariant holds when nothing has been asked for.
LEMMA UpkeepStart == Upkeep!Init => UpkeepInv
  <1> SUFFICES ASSUME Upkeep!Init  PROVE UpkeepInv
    OBVIOUS
  <1> USE ServicesAssumption DEF Upkeep!Init, Upkeep!Busy, Upkeep!Fresh, Upkeep!Off
  <1>1. Upkeep!Fresh \in SessionRow
    BY DEF SessionRow
  <1>2. Upkeep!TypeOK
    <2>1. {activity, cancelled, overlaps, unsaved} \subseteq BOOLEAN
      BY Zenon
    <2> QED  BY <1>1, <2>1 DEF Upkeep!TypeOK, SessionRow
  <1>3. OperationsInv
    BY <1>1 DEF OperationsInv, Operation, WellMade, Upkeep!Ops, Upkeep!Under
  <1>4. WorkInv
    BY DEF WorkInv, Upkeep!Under, Upkeep!AtWork
  <1> QED  BY <1>2, <1>3, <1>4 DEF UpkeepInv

\* What steps do to the operations: one changes, as said, or all end.
LEMMA OperationMoves ==
  ASSUME OperationsInv, NEW o \in Upkeep!Ops, NEW x \in Operation, op' = [op EXCEPT ![o] = x]
  PROVE  /\ op' \in [Upkeep!Ops -> Operation]
         /\ op'[o] = x
         /\ \A p \in Upkeep!Ops : p # o => op'[p] = op[p]
  BY DEF OperationsInv

\* Each step of an operation, as the record it leaves.
LEMMA Leaves ==
  ASSUME Upkeep!TypeOK, OperationsInv, NEW o \in Upkeep!Ops
  PROVE  /\ Upkeep!Ends(o) => op' = [op EXCEPT ![o] = Upkeep!Done]
         /\ Upkeep!Done \in Operation /\ Upkeep!Done.pc = "done" /\ Upkeep!Done.kind = "none"
         /\ \A pc \in {"waiting", "forgotten", "failing"} :
              Upkeep!Moves(o, pc) =>
                \E x \in Operation : op' = [op EXCEPT ![o] = x] /\ x.pc = pc
                                       /\ x.kind = op[o].kind /\ x.copy = op[o].copy
         /\ session \in SessionRow /\ Upkeep!Fresh \in SessionRow
         /\ op[o] \in Operation /\ op[o].copy \in SessionRow
  <1> USE DEF OperationsInv
  <1>1. Upkeep!Fresh \in SessionRow /\ session \in SessionRow
    BY DEF Upkeep!Fresh, SessionRow, Upkeep!Busy, Upkeep!TypeOK
  <1>2. op[o] \in Operation /\ op[o].copy \in SessionRow
    BY DEF Operation
  <1>3. Upkeep!Done \in Operation /\ Upkeep!Done.pc = "done" /\ Upkeep!Done.kind = "none"
    BY <1>1 DEF Upkeep!Done, Upkeep!Off, Operation
  <1>4. ASSUME NEW pc \in {"waiting", "forgotten", "failing"}, Upkeep!Moves(o, pc)
        PROVE  \E x \in Operation : op' = [op EXCEPT ![o] = x] /\ x.pc = pc
                                      /\ x.kind = op[o].kind /\ x.copy = op[o].copy
    <2> DEFINE x == [op[o] EXCEPT !.pc = pc]
    <2>1. x \in Operation /\ x.pc = pc /\ x.kind = op[o].kind /\ x.copy = op[o].copy
      BY <1>2 DEF Operation
    <2>2. op' = [op EXCEPT ![o] = x]
      BY <1>4 DEF Upkeep!Moves
    <2> QED  BY <2>1, <2>2
  <1> QED  BY <1>1, <1>2, <1>3, <1>4 DEF Upkeep!Ends

\* An operation's step to a well-made one, which has the lock if it is a query.
LEMMA OneMoves ==
  ASSUME OperationsInv, NEW o \in Upkeep!Ops, NEW x \in Operation, op' = [op EXCEPT ![o] = x],
         WellMade(o, x),
         \A p \in Queries : p # o /\ Upkeep!Under(p) => turn' = p,
         o \in Queries /\ x.pc \notin {"off", "waiting", "asked", "done"} => turn' = o
  PROVE  OperationsInv'
  <1>1. /\ op' \in [Upkeep!Ops -> Operation]
        /\ op'[o] = x
        /\ \A p \in Upkeep!Ops : p # o => op'[p] = op[p]
    BY OperationMoves
  <1>2. ASSUME NEW p \in Upkeep!Ops  PROVE WellMade(p, op[p])'
    BY <1>1, <1>2 DEF OperationsInv, WellMade
  <1>3. ASSUME NEW p \in Queries, Upkeep!Under(p)'  PROVE turn' = p
    BY <1>1, <1>3 DEF Upkeep!Under, Upkeep!Ops
  <1> QED  BY <1>1, <1>2, <1>3 DEF OperationsInv

\* What a cancel's save leaves of it.
LEMMA CancelMoves ==
  \A o \in Upkeep!Ops :
    Upkeep!TypeOK /\ OperationsInv /\ Upkeep!CancelSaves(o) =>
      \E x \in Operation, copy \in SessionRow :
        /\ op' = [op EXCEPT ![o] = x]
        /\ \/ x = Upkeep!Done
           \/ x.pc = "rewound" /\ x.kind = "cancel" /\ x.copy = copy
        /\ copy.status = "idle" /\ copy.there = op[o].copy.there
        /\ Upkeep!Saves(o, copy, FALSE, Upkeep!AtWork # {})
  <1> SUFFICES ASSUME NEW o \in Upkeep!Ops, Upkeep!TypeOK, OperationsInv, Upkeep!CancelSaves(o)
               PROVE  \E x \in Operation, copy \in SessionRow :
                        /\ op' = [op EXCEPT ![o] = x]
                        /\ \/ x = Upkeep!Done
                           \/ x.pc = "rewound" /\ x.kind = "cancel" /\ x.copy = copy
                        /\ copy.status = "idle" /\ copy.there = op[o].copy.there
                        /\ Upkeep!Saves(o, copy, FALSE, Upkeep!AtWork # {})
    OBVIOUS
  <1>1. PICK kept \in SUBSET op[o].copy.answered, pc \in {"done", "rewound"} :
          /\ Upkeep!Saves(o, [op[o].copy EXCEPT !.status = "idle", !.answered = kept], FALSE,
                          Upkeep!AtWork # {})
          /\ op' = [op EXCEPT ![o] = IF pc = "done" THEN Upkeep!Done
               ELSE [kind |-> "cancel", pc |-> pc,
                     copy |-> [op[o].copy EXCEPT !.status = "idle", !.answered = kept]]]
    BY DEF Upkeep!CancelSaves
  <1> DEFINE copy == [op[o].copy EXCEPT !.status = "idle", !.answered = kept]
             x == IF pc = "done" THEN Upkeep!Done ELSE [kind |-> "cancel", pc |-> pc, copy |-> copy]
  <1>2. op[o].copy \in SessionRow
    BY Leaves
  <1>3. copy \in SessionRow /\ copy.status = "idle" /\ copy.there = op[o].copy.there
    BY <1>2 DEF SessionRow
  <1>4. Upkeep!Saves(o, copy, FALSE, Upkeep!AtWork # {}) /\ op' = [op EXCEPT ![o] = x]
    BY <1>1
  <1> HIDE DEF copy
  <1>5. x \in Operation /\ (x = Upkeep!Done \/ (x.pc = "rewound" /\ x.kind = "cancel" /\ x.copy = copy))
    BY <1>3, Leaves DEF Operation
  <1> HIDE DEF x
  <1> QED  BY <1>3, <1>4, <1>5

\* Every step keeps what is said of the operations.
LEMMA OperationsStep ==
  ASSUME Upkeep!TypeOK, OperationsInv, Upkeep!Next
  PROVE  OperationsInv'
  <1> USE ServicesAssumption
  <1>1. ASSUME NEW o \in Upkeep!Ops, Upkeep!Submit(o)
        PROVE  OperationsInv'
    <2>1. PICK x \in Operation : op' = [op EXCEPT ![o] = x] /\ x.pc = "waiting"
      BY <1>1, Leaves DEF Upkeep!Submit
    <2>2. WellMade(o, x) /\ turn' = turn
      BY <1>1, <2>1 DEF WellMade, Upkeep!Submit
    <2> QED  BY <2>1, <2>2, OneMoves DEF OperationsInv
  <1>2. ASSUME NEW o \in Upkeep!Ops,
               Upkeep!ReadQuery(o) \/ Upkeep!ReadService(o) \/ Upkeep!ReadCancel(o)
        PROVE  OperationsInv'
    <2>1. PICK kind \in {"query", "rename", "compact", "clear", "check", "cancel", "delete"} :
            /\ op' = [op EXCEPT ![o] = [kind |-> kind, pc |-> "read", copy |-> session]]
            /\ kind = "query" <=> o \in Queries
            /\ o \in Queries => turn = NoQuery /\ turn' = o
            /\ o \notin Queries => turn' = turn
      BY <1>2 DEF Upkeep!ReadQuery, Upkeep!ReadService, Upkeep!ReadCancel, Upkeep!Reads,
                  OperationsInv, WellMade
    <2> DEFINE x == [kind |-> kind, pc |-> "read", copy |-> session]
    <2>2. x \in Operation /\ x.pc = "read" /\ x.kind = kind
      BY Leaves DEF Operation
    <2>3. WellMade(o, x)
      BY <2>1 DEF WellMade
    <2>4. \A p \in Queries : p # o /\ Upkeep!Under(p) => turn' = p
      BY <2>1 DEF OperationsInv
    <2> HIDE DEF x
    <2> QED  BY <2>1, <2>2, <2>3, <2>4, OneMoves DEF x
  <1>3. ASSUME NEW o \in Upkeep!Ops,
               \/ Upkeep!Refused(o) \/ Upkeep!Rename(o) \/ Upkeep!Clear(o) \/ Upkeep!Check(o)
               \/ Upkeep!CheckPasses(o) \/ Upkeep!Remove(o) \/ Upkeep!StartCompactFails(o)
               \/ Upkeep!CancelSavesAgain(o) \/ Upkeep!EndQuery(o) \/ Upkeep!EndCompact(o)
        PROVE  OperationsInv'
    <2>1. op' = [op EXCEPT ![o] = Upkeep!Done]
      BY <1>3, Leaves DEF Upkeep!Refused, Upkeep!Rename, Upkeep!Clear, Upkeep!Check,
         Upkeep!CheckPasses, Upkeep!Remove, Upkeep!StartCompactFails, Upkeep!CancelSavesAgain,
         Upkeep!EndQuery, Upkeep!EndCompact
    <2>2. \A p \in Queries : p # o /\ Upkeep!Under(p) => turn' = p
      <3>1. CASE turn' = turn
        BY <3>1 DEF OperationsInv
      <3>2. CASE Upkeep!Refused(o)
        BY <3>2 DEF OperationsInv, Upkeep!Refused
      <3>3. CASE Upkeep!EndQuery(o)
        <4>1. Upkeep!Under(o) /\ o \in Queries
          BY <3>3 DEF Upkeep!EndQuery, Upkeep!Under, OperationsInv, WellMade
        <4> QED  BY <4>1 DEF OperationsInv
      <3> QED  BY <1>3, <3>1, <3>2, <3>3
           DEF Upkeep!Rename, Upkeep!Clear, Upkeep!Check, Upkeep!CheckPasses, Upkeep!Remove,
               Upkeep!StartCompactFails, Upkeep!CancelSavesAgain, Upkeep!EndCompact, Upkeep!marks
    <2>3. WellMade(o, Upkeep!Done)
      BY Leaves DEF WellMade
    <2> QED  BY <2>1, <2>2, <2>3, Leaves, OneMoves
  <1>4. ASSUME NEW o \in Upkeep!Ops, Upkeep!Forget(o) \/ Upkeep!StartQueryFails(o)
        PROVE  OperationsInv'
    <2>1. PICK x \in Operation :
            /\ op' = [op EXCEPT ![o] = x] /\ x.pc \in {"forgotten", "failing"}
            /\ x.kind = op[o].kind /\ x.copy = op[o].copy
            /\ x.pc = "forgotten" <=> Upkeep!Forget(o)
      <3>1. CASE Upkeep!Forget(o)
        BY <3>1, Leaves DEF Upkeep!Forget
      <3>2. CASE Upkeep!StartQueryFails(o) /\ ~Upkeep!Forget(o)
        BY <3>2, Leaves DEF Upkeep!StartQueryFails
      <3> QED  BY <1>4, <3>1, <3>2
    <2>2. op[o].pc = "read" /\ turn' = turn
      BY <1>4 DEF Upkeep!Forget, Upkeep!StartQueryFails, Upkeep!Begins
    <2>3. WellMade(o, x)
      BY <1>4, <2>1, <2>2
      DEF Upkeep!Forget, Upkeep!StartQueryFails, Upkeep!Begins, Upkeep!MayBegin, Upkeep!Permitted,
          OperationsInv, WellMade
    <2> QED  BY <2>1, <2>2, <2>3, OneMoves DEF OperationsInv, Upkeep!Under
  <1>5. ASSUME NEW o \in Upkeep!Ops, Upkeep!StartQuery(o) \/ Upkeep!StartCompact(o)
        PROVE  OperationsInv'
    <2>1. PICK status \in Upkeep!Busy :
             op' = [op EXCEPT ![o].pc = "working", ![o].copy.status = status]
      BY <1>5 DEF Upkeep!StartQuery, Upkeep!StartCompact, Upkeep!Work, Upkeep!Busy
    <2> DEFINE x == [op[o] EXCEPT !.pc = "working", !.copy.status = status]
    <2>2. op' = [op EXCEPT ![o] = x]
      BY <2>1
    <2>3. x \in Operation /\ x.pc = "working" /\ x.kind = op[o].kind
      <3>1. op[o] \in Operation
        BY DEF OperationsInv
      <3>2. [op[o].copy EXCEPT !.status = status] \in SessionRow
        BY <3>1 DEF Operation, SessionRow, Upkeep!Busy
      <3>3. x = [op[o] EXCEPT !.pc = "working", !.copy = [op[o].copy EXCEPT !.status = status]]
        BY <3>1 DEF Operation
      <3> QED  BY <3>1, <3>2, <3>3 DEF Operation
    <2>4. op[o].pc = "read" /\ op[o].kind \in {"query", "compact"} /\ turn' = turn
      BY <1>5 DEF Upkeep!StartQuery, Upkeep!StartCompact, Upkeep!Begins
    <2>5. WellMade(o, x)
      BY <2>3, <2>4 DEF OperationsInv, WellMade
    <2> HIDE DEF x
    <2> QED  BY <2>2, <2>3, <2>4, <2>5, OneMoves DEF OperationsInv, Upkeep!Under
  <1>6. ASSUME NEW o \in Upkeep!Ops, Upkeep!AskCancel(o)
        PROVE  OperationsInv'
    <2> DEFINE x == [kind |-> "cancel", pc |-> "asked", copy |-> Upkeep!Fresh]
    <2>1. op' = [op EXCEPT ![o] = x] /\ turn' = turn /\ o \notin Queries
      BY <1>6 DEF Upkeep!AskCancel
    <2>2. x \in Operation
      BY Leaves DEF Operation
    <2>3. WellMade(o, x)
      BY <2>1 DEF WellMade
    <2> QED  BY <2>1, <2>2, <2>3, OneMoves DEF OperationsInv
  <1>7. ASSUME NEW o \in Upkeep!Ops, Upkeep!CancelSaves(o)
        PROVE  OperationsInv'
    <2>1. PICK x \in Operation : /\ op' = [op EXCEPT ![o] = x]
                                 /\ x = Upkeep!Done \/ (x.pc = "rewound" /\ x.kind = "cancel")
      BY <1>7, CancelMoves
    <2>2. /\ op[o].pc = "read" /\ op[o].kind = "cancel" /\ turn' = turn
      BY <1>7 DEF Upkeep!CancelSaves, Upkeep!Begins, Upkeep!marks
    <2>3. o \notin Queries
      BY <2>2 DEF OperationsInv, WellMade
    <2>4. WellMade(o, x)
      BY <2>1, <2>3, Leaves DEF WellMade
    <2> QED  BY <2>1, <2>2, <2>3, <2>4, OneMoves DEF OperationsInv
  <1>8. ASSUME NEW o \in Upkeep!Ops, Upkeep!PeriodicSave(o)
        PROVE  OperationsInv'
    BY <1>8 DEF Upkeep!PeriodicSave, OperationsInv, WellMade, Upkeep!Under, Upkeep!marks
  <1>9. CASE Upkeep!Crash
    <2>1. \A o \in Upkeep!Ops : op'[o] = IF op[o].pc = "off" THEN op[o] ELSE Upkeep!Done
      BY <1>9 DEF Upkeep!Crash
    <2>2. Upkeep!Done \in Operation /\ Upkeep!Done.pc = "done"
      BY Leaves, <1>9 DEF Upkeep!Done, Upkeep!Off, Upkeep!Fresh, Operation, SessionRow, Upkeep!Busy
    <2>3. op' \in [Upkeep!Ops -> Operation]
      BY <1>9, <2>2 DEF Upkeep!Crash, OperationsInv
    <2>4. \A o \in Upkeep!Ops : op'[o].pc \in {"off", "done"}
      BY <2>1, <2>2
    <2> QED  BY <2>3, <2>4 DEF OperationsInv, WellMade, Upkeep!Under, Upkeep!Ops
  <1> QED  BY <1>1, <1>2, <1>3, <1>4, <1>5, <1>6, <1>7, <1>8, <1>9 DEF Upkeep!Next

\* Every step keeps the types.
LEMMA UpkeepTypes ==
  ASSUME Upkeep!TypeOK, OperationsInv, Upkeep!Next
  PROVE  Upkeep!TypeOK'
  <1> USE ServicesAssumption
  <1>1. DOMAIN op' = Upkeep!Ops
    BY OperationsStep DEF OperationsInv
  <1>2. turn' \in Queries \cup {NoQuery} /\ crashes' \in 0..MaxCrashes
    <2>1. turn \in Queries \cup {NoQuery} /\ crashes \in 0..MaxCrashes
      BY DEF Upkeep!TypeOK
    <2>2. ASSUME NEW o \in Upkeep!Ops, Upkeep!ReadQuery(o)  PROVE o \in Queries
      BY <2>2 DEF Upkeep!ReadQuery, OperationsInv, WellMade
    <2>3. Upkeep!Faults => crashes' \in 0..MaxCrashes
      BY <2>1 DEF Upkeep!Faults
    <2>4. ASSUME NEW o \in Upkeep!Ops
          PROVE  /\ Upkeep!StartCompactFails(o) \/ Upkeep!StartQueryFails(o) => turn' = turn /\ Upkeep!Faults
                 /\ Upkeep!EndCompact(o) => turn' = turn /\ (crashes' = crashes \/ Upkeep!Faults)
                 /\ Upkeep!EndQuery(o) => turn' = NoQuery /\ (crashes' = crashes \/ Upkeep!Faults)
                 /\ Upkeep!Crash => turn' = NoQuery /\ Upkeep!Faults
      BY Zenon DEF Upkeep!StartCompactFails, Upkeep!StartQueryFails, Upkeep!EndQuery,
         Upkeep!EndCompact, Upkeep!Crash
    <2>5. ASSUME NEW o \in Upkeep!Ops,
                 \/ Upkeep!Rename(o) \/ Upkeep!Clear(o) \/ Upkeep!Check(o) \/ Upkeep!CheckPasses(o)
                 \/ Upkeep!Submit(o) \/ Upkeep!Forget(o) \/ Upkeep!Remove(o) \/ Upkeep!AskCancel(o)
                 \/ Upkeep!CancelSaves(o) \/ Upkeep!CancelSavesAgain(o) \/ Upkeep!PeriodicSave(o)
                 \/ Upkeep!StartQuery(o) \/ Upkeep!StartCompact(o)
          PROVE  crashes' = crashes /\ turn' = turn
      BY <2>5 DEF Upkeep!Submit, Upkeep!Rename, Upkeep!Clear, Upkeep!Check, Upkeep!CheckPasses,
         Upkeep!Forget, Upkeep!Remove, Upkeep!StartQuery, Upkeep!StartCompact, Upkeep!AskCancel,
         Upkeep!CancelSaves, Upkeep!CancelSavesAgain, Upkeep!PeriodicSave, Upkeep!marks
    <2>6. ASSUME NEW o \in Upkeep!Ops,
                 Upkeep!ReadQuery(o) \/ Upkeep!ReadService(o) \/ Upkeep!ReadCancel(o) \/ Upkeep!Refused(o)
          PROVE  crashes' = crashes /\ turn' \in {turn, NoQuery} \cup Queries
      BY <2>2, <2>6 DEF Upkeep!ReadQuery, Upkeep!ReadService, Upkeep!ReadCancel, Upkeep!Reads, Upkeep!Refused
    <2>7. CASE Upkeep!Crash
      BY <2>3, <2>7, Zenon DEF Upkeep!Crash
    <2> QED  BY <2>1, <2>3, <2>4, <2>5, <2>6, <2>7 DEF Upkeep!Next
  <1>3. activity' \in BOOLEAN /\ cancelled' \in BOOLEAN
    BY ZenonT(60) DEF Upkeep!TypeOK, Upkeep!Next, Upkeep!Submit, Upkeep!ReadQuery, Upkeep!ReadService,
       Upkeep!AskCancel, Upkeep!ReadCancel, Upkeep!CancelSaves, Upkeep!CancelSavesAgain, Upkeep!marks,
       Upkeep!Reads, Upkeep!Refused, Upkeep!Rename, Upkeep!Clear, Upkeep!Check, Upkeep!CheckPasses,
       Upkeep!Forget, Upkeep!Remove, Upkeep!StartQuery, Upkeep!StartCompact, Upkeep!StartCompactFails,
       Upkeep!StartQueryFails, Upkeep!PeriodicSave, Upkeep!EndQuery, Upkeep!EndCompact, Upkeep!Crash,
       Upkeep!Work
  <1>4. overlaps' \in BOOLEAN /\ unsaved' \in BOOLEAN
    BY ZenonT(60) DEF Upkeep!TypeOK, Upkeep!Next, Upkeep!Submit, Upkeep!ReadQuery, Upkeep!ReadService,
       Upkeep!AskCancel, Upkeep!ReadCancel, Upkeep!CancelSaves, Upkeep!CancelSavesAgain,
       Upkeep!Reads, Upkeep!Refused, Upkeep!Rename, Upkeep!Clear, Upkeep!Check, Upkeep!CheckPasses,
       Upkeep!Forget, Upkeep!Remove, Upkeep!StartQuery, Upkeep!StartCompact, Upkeep!StartCompactFails,
       Upkeep!StartQueryFails, Upkeep!PeriodicSave, Upkeep!EndQuery, Upkeep!EndCompact, Upkeep!Crash,
       Upkeep!Work, Upkeep!Saves, Upkeep!LeavesRow
  <1>5. session' \in SessionRow
    <2>1. ASSUME NEW o \in Upkeep!Ops
          PROVE  /\ op[o].copy \in SessionRow
                 /\ [op[o].copy EXCEPT !.status = "error"] \in SessionRow
                 /\ [op[o].copy EXCEPT !.status = "idle"] \in SessionRow
                 /\ [op[o].copy EXCEPT !.status = "running"] \in SessionRow
                 /\ [op[o].copy EXCEPT !.status = "compacting"] \in SessionRow
                 /\ o \in Queries => [op[o].copy EXCEPT !.status = "idle", !.answered = @ \cup {o}] \in SessionRow
                 /\ \A kept \in SUBSET op[o].copy.answered :
                      [op[o].copy EXCEPT !.status = "idle", !.answered = kept] \in SessionRow
      <3> DEFINE c == op[o].copy
      <3>1. c \in SessionRow
        BY Leaves
      <3> HIDE DEF c
      <3>2. /\ [c EXCEPT !.status = "error"] \in SessionRow
            /\ [c EXCEPT !.status = "idle"] \in SessionRow
        BY <3>1 DEF SessionRow
      <3>3. /\ [c EXCEPT !.status = "running"] \in SessionRow
            /\ [c EXCEPT !.status = "compacting"] \in SessionRow
        BY <3>1 DEF SessionRow, Upkeep!Busy
      <3>4. o \in Queries => [c EXCEPT !.status = "idle", !.answered = @ \cup {o}] \in SessionRow
        BY <3>1 DEF SessionRow
      <3>5. \A kept \in SUBSET c.answered : [c EXCEPT !.status = "idle", !.answered = kept] \in SessionRow
        BY <3>1 DEF SessionRow
      <3> QED  BY <3>1, <3>2, <3>3, <3>4, <3>5 DEF c
    <2>2. session \in SessionRow
      BY DEF Upkeep!TypeOK, SessionRow
    <2>3. Upkeep!Fresh \in SessionRow /\ [Upkeep!Fresh EXCEPT !.there = FALSE] \in SessionRow
      BY DEF Upkeep!Fresh, SessionRow, Upkeep!Busy
    <2>4. [session EXCEPT !.status = "error"] \in SessionRow
      BY <2>2 DEF SessionRow
    <2>5. ASSUME NEW o \in Upkeep!Ops, Upkeep!EndQuery(o)
          PROVE  Upkeep!Endings(o) \subseteq SessionRow
      <3>1. o \in Queries
        BY <2>5 DEF Upkeep!EndQuery, OperationsInv, WellMade, Upkeep!Under
      <3> QED  BY <2>1, <3>1 DEF Upkeep!Endings
    <2>6. ASSUME NEW o \in Upkeep!Ops, NEW copy \in SessionRow, NEW rereads, NEW meets,
                 Upkeep!Saves(o, copy, rereads, meets)
          PROVE  session' \in SessionRow
      BY <2>2, <2>6 DEF Upkeep!Saves
    <2>7. ASSUME NEW o \in Upkeep!Ops, Upkeep!EndQuery(o)  PROVE session' \in SessionRow
      <3>1. CASE Upkeep!LeavesRow
        BY <2>2, <3>1 DEF Upkeep!LeavesRow
      <3>2. ASSUME NEW ended \in Upkeep!Endings(o), Upkeep!Saves(o, ended, TRUE, FALSE)
            PROVE  session' \in SessionRow
        BY <2>5, <2>6, <2>7, <3>2
      <3> QED  BY <2>7, <3>1, <3>2 DEF Upkeep!EndQuery
    <2>8. ASSUME NEW o \in Upkeep!Ops,
                 \/ Upkeep!Rename(o) \/ Upkeep!Clear(o) \/ Upkeep!Check(o)
                 \/ Upkeep!CancelSavesAgain(o) \/ Upkeep!PeriodicSave(o)
          PROVE  session' \in SessionRow
      BY <2>1, <2>3, <2>6, <2>8
      DEF Upkeep!Rename, Upkeep!Clear, Upkeep!Check, Upkeep!CancelSavesAgain, Upkeep!PeriodicSave
    <2>9. ASSUME NEW o \in Upkeep!Ops, Upkeep!StartQuery(o) \/ Upkeep!StartCompact(o)
          PROVE  session' \in SessionRow
      BY <2>1, <2>6, <2>9 DEF Upkeep!StartQuery, Upkeep!StartCompact, Upkeep!Work
    <2>10. ASSUME NEW o \in Upkeep!Ops, Upkeep!CancelSaves(o)
           PROVE  session' \in SessionRow
      <3>1. PICK kept \in SUBSET op[o].copy.answered :
              Upkeep!Saves(o, [op[o].copy EXCEPT !.status = "idle", !.answered = kept], FALSE,
                           Upkeep!AtWork # {})
        BY <2>10 DEF Upkeep!CancelSaves
      <3> QED  BY <2>1, <2>6, <3>1
    <2>11. ASSUME NEW o \in Upkeep!Ops, Upkeep!EndCompact(o)
           PROVE  session' \in SessionRow
      <3>1. CASE Upkeep!LeavesRow
        BY <2>2, <3>1 DEF Upkeep!LeavesRow
      <3>2. CASE Upkeep!Saves(o, [op[o].copy EXCEPT !.status = "idle"], TRUE, FALSE)
        BY <2>1, <2>6, <3>2
      <3> QED  BY <2>11, <3>1, <3>2 DEF Upkeep!EndCompact
    <2>12. CASE Upkeep!Crash
      BY <2>2, <2>4, <2>12 DEF Upkeep!Crash
    <2>13. ASSUME NEW o \in Upkeep!Ops,
                 \/ Upkeep!Submit(o) \/ Upkeep!ReadQuery(o) \/ Upkeep!ReadService(o)
                 \/ Upkeep!AskCancel(o) \/ Upkeep!ReadCancel(o) \/ Upkeep!StartQueryFails(o)
                 \/ Upkeep!Refused(o) \/ Upkeep!CheckPasses(o) \/ Upkeep!Forget(o)
                 \/ Upkeep!Remove(o) \/ Upkeep!StartCompactFails(o)
          PROVE  session' \in SessionRow
      BY <2>2, <2>3, <2>13 DEF Upkeep!Submit, Upkeep!ReadQuery, Upkeep!ReadService, Upkeep!Reads,
         Upkeep!AskCancel, Upkeep!ReadCancel, Upkeep!StartQueryFails,
         Upkeep!Refused, Upkeep!CheckPasses, Upkeep!Forget, Upkeep!Remove, Upkeep!StartCompactFails
    <2> QED  BY <2>7, <2>8, <2>9, <2>10, <2>11, <2>12, <2>13 DEF Upkeep!Next
  <1> QED  BY <1>1, <1>2, <1>3, <1>4, <1>5, Zenon DEF Upkeep!TypeOK, SessionRow

\* An operation that may begin, on a copy that is the row, finds nobody at work.
LEMMA NobodyAtWork ==
  ASSUME OperationsInv, WorkInv, NEW o \in Upkeep!Ops, o \notin behind,
         Upkeep!Under(o), op[o].copy.there, op[o].copy.status \notin Upkeep!Busy
  PROVE  op[o].copy = session /\ Upkeep!AtWork = {}
  BY DEF WorkInv, Upkeep!Busy

\* A step that neither begins nor ends work, and leaves the row, or what it is
\* at work about.
LEMMA WorkGoesOn ==
  ASSUME OperationsInv, WorkInv, NEW o \in Upkeep!Ops, NEW x \in Operation,
         op' = [op EXCEPT ![o] = x], x.pc # "working", op[o].pc # "working",
         session' = session, behind \subseteq behind', unsaved' = unsaved,
         x.pc \notin {"off", "waiting", "asked", "done"} =>
            x.copy = session \/ (Upkeep!Under(o) /\ x.copy = op[o].copy),
         activity' = activity \/ activity' = TRUE \/ Upkeep!AtWork \cap Queries = {}
  PROVE  WorkInv'
  <1>1. /\ op'[o] = x /\ \A p \in Upkeep!Ops : p # o => op'[p] = op[p]
    BY OperationMoves
  <1>2. Upkeep!AtWork' = Upkeep!AtWork
    BY <1>1 DEF Upkeep!AtWork
  <1>3. ASSUME NEW p \in Upkeep!Ops \ behind', Upkeep!Under(p)'
        PROVE  op'[p].copy = session'
    BY <1>1, <1>3 DEF WorkInv, Upkeep!Under
  <1>4. ASSUME NEW p \in Upkeep!AtWork, p \in Queries  PROVE activity' = TRUE
    BY <1>4 DEF WorkInv
  <1> QED  BY <1>2, <1>3, <1>4 DEF WorkInv

\* The row is written when nobody is at work, or by the one that is: it then
\* tells who is.
LEMMA RowIsWritten ==
  ASSUME OperationsInv, NEW o \in Upkeep!Ops, NEW x \in Operation,
         op' = [op EXCEPT ![o] = x],
         \A p \in Upkeep!Ops : p # o => op[p].pc # "working",
         behind' = {p \in Upkeep!Ops \ {o} : Upkeep!Under(p)},
         \/ /\ x.pc = "done" \/ (x.pc = "rewound" /\ x.copy = session')
            /\ session'.there => session'.status \notin Upkeep!Busy
         \/ /\ x.pc = "working" /\ x.copy = session' /\ session'.there
            /\ session'.status = IF o \in Queries THEN "running" ELSE "compacting"
            /\ activity' = TRUE
  PROVE  WorkInv'
  <1>1. /\ op'[o] = x /\ \A p \in Upkeep!Ops : p # o => op'[p] = op[p]
    BY OperationMoves
  <1>2. Upkeep!AtWork' = IF x.pc = "working" THEN {o} ELSE {}
    BY <1>1 DEF Upkeep!AtWork
  <1>3. ASSUME NEW p \in Upkeep!Ops \ behind', Upkeep!Under(p)'
        PROVE  op'[p].copy = session'
    BY <1>1, <1>3 DEF Upkeep!Under
  <1> QED  BY <1>2, <1>3 DEF WorkInv

\* A save of the row as it is says nothing new.
LEMMA RowIsSavedAgain ==
  ASSUME OperationsInv, WorkInv, NEW o \in Upkeep!Ops, op[o].copy = session, o \notin behind,
         session' = session, behind' = {p \in Upkeep!Ops \ {o} : Upkeep!Under(p)},
         unsaved' = (unsaved /\ session.status \in Upkeep!Busy), activity' = activity,
         op' = op \/ (op' = [op EXCEPT ![o] = Upkeep!Done] /\ op[o].pc # "working"),
         Upkeep!Done.pc = "done"
  PROVE  WorkInv'
  <1>1. \A p \in Upkeep!Ops : p # o => op'[p] = op[p]
    BY DEF OperationsInv
  <1>2. op'[o] = op[o] \/ (op'[o].pc = "done" /\ op[o].pc # "working")
    BY DEF OperationsInv
  <1>3. Upkeep!AtWork' = Upkeep!AtWork
    BY <1>1, <1>2 DEF Upkeep!AtWork
  <1>4. ASSUME NEW p \in Upkeep!Ops \ behind', Upkeep!Under(p)'
        PROVE  op'[p].copy = session'
    BY <1>1, <1>2, <1>4 DEF Upkeep!Under
  <1>5. session.status \in Upkeep!Busy /\ unsaved = TRUE => unsaved' = TRUE
    BY Zenon
  <1> QED  BY <1>3, <1>4, <1>5 DEF WorkInv

\* Work that ends without its save leaves a row that tells of it unsaved.
LEMMA RowIsLeft ==
  ASSUME OperationsInv, WorkInv, NEW o \in Upkeep!Ops, Upkeep!Under(o),
         op' = [op EXCEPT ![o] = Upkeep!Done], Upkeep!Done \in Operation, Upkeep!Done.pc = "done",
         Upkeep!LeavesRow, o \in Upkeep!AtWork \/ o \in Queries
  PROVE  WorkInv'
  <1>1. /\ op'[o] = Upkeep!Done /\ \A p \in Upkeep!Ops : p # o => op'[p] = op[p]
    BY OperationMoves
  <1>2. Upkeep!AtWork' = Upkeep!AtWork \ {o}
    BY <1>1 DEF Upkeep!AtWork
  <1>3. session' = session /\ behind' = behind
    BY DEF Upkeep!LeavesRow
  <1>4. session.status \in Upkeep!Busy => unsaved' = TRUE
    BY Zenon DEF Upkeep!LeavesRow
  <1>5. ASSUME NEW p \in Upkeep!Ops \ behind', Upkeep!Under(p)'
        PROVE  op'[p].copy = session'
    BY <1>1, <1>3, <1>5 DEF WorkInv, Upkeep!Under
  <1>6. ASSUME NEW p \in Upkeep!AtWork'  PROVE p \notin Queries
    <2>1. p \in Upkeep!AtWork /\ p # o /\ p \in Upkeep!Ops
      BY <1>2, <1>6 DEF Upkeep!AtWork
    <2>2. CASE o \in Upkeep!AtWork
      BY <2>1, <2>2 DEF WorkInv
    <2>3. CASE o \in Queries
      BY <2>1, <2>3 DEF OperationsInv, Upkeep!Under, Upkeep!AtWork
    <2> QED  BY <2>2, <2>3
  <1> QED  BY <1>2, <1>3, <1>4, <1>5, <1>6 DEF WorkInv

\* Every step keeps what is said of the work, or overlaps it.
LEMMA WorkStep ==
  ASSUME Upkeep!TypeOK, OperationsInv, WorkInv, Upkeep!Next, overlaps' = FALSE
  PROVE  WorkInv'
  <1> USE ServicesAssumption
  <1>b. overlaps \in BOOLEAN /\ activity \in BOOLEAN /\ unsaved \in BOOLEAN
    BY DEF Upkeep!TypeOK
  <1>s. ASSUME NEW o \in Upkeep!Ops, NEW copy, NEW rereads, NEW meets,
               Upkeep!Saves(o, copy, rereads, meets)
        PROVE  /\ o \notin behind /\ ~meets
               /\ behind' = {p \in Upkeep!Ops \ {o} : Upkeep!Under(p)}
               /\ session' = IF session.there \/ rereads THEN copy ELSE session
               /\ unsaved' = (unsaved /\ copy.status \in Upkeep!Busy)
    BY <1>s, <1>b, Zenon DEF Upkeep!Saves
  <1>1. ASSUME NEW o \in Upkeep!Ops, Upkeep!Submit(o)
        PROVE  WorkInv'
    <2>1. PICK x \in Operation : op' = [op EXCEPT ![o] = x] /\ x.pc = "waiting"
      BY <1>1, Leaves DEF Upkeep!Submit
    <2>2. /\ op[o].pc = "off" /\ session' = session /\ behind' = behind /\ unsaved' = unsaved
          /\ activity' = TRUE
      BY <1>1 DEF Upkeep!Submit
    <2> QED  BY <2>1, <2>2, WorkGoesOn
  <1>2. ASSUME NEW o \in Upkeep!Ops,
               Upkeep!ReadQuery(o) \/ Upkeep!ReadService(o) \/ Upkeep!ReadCancel(o)
        PROVE  WorkInv'
    <2>1. PICK kind \in {"query", "rename", "compact", "clear", "check", "cancel", "delete"} :
            /\ op' = [op EXCEPT ![o] = [kind |-> kind, pc |-> "read", copy |-> session]]
            /\ op[o].pc \in {"off", "waiting", "asked"}
            /\ session' = session /\ behind' = behind /\ activity' = activity /\ unsaved' = unsaved
      BY <1>2 DEF Upkeep!ReadQuery, Upkeep!ReadService, Upkeep!ReadCancel, Upkeep!Reads
    <2> DEFINE x == [kind |-> kind, pc |-> "read", copy |-> session]
    <2>2. x \in Operation /\ x.pc = "read" /\ x.copy = session
      BY Leaves DEF Operation
    <2> HIDE DEF x
    <2> QED  BY <2>1, <2>2, WorkGoesOn DEF x
  <1>3. ASSUME NEW o \in Upkeep!Ops,
               Upkeep!Refused(o) \/ Upkeep!CheckPasses(o) \/ Upkeep!StartCompactFails(o)
        PROVE  WorkInv'
    <2>1. /\ op' = [op EXCEPT ![o] = Upkeep!Done] /\ op[o].pc = "read"
          /\ session' = session /\ behind' = behind /\ unsaved' = unsaved
      BY <1>3, Leaves DEF Upkeep!Refused, Upkeep!CheckPasses, Upkeep!StartCompactFails, Upkeep!Begins
    <2>2. activity' = activity \/ activity' = TRUE \/ Upkeep!AtWork \cap Queries = {}
      <3>1. CASE Upkeep!CheckPasses(o) \/ Upkeep!StartCompactFails(o)
        BY <3>1 DEF Upkeep!CheckPasses, Upkeep!StartCompactFails, Upkeep!marks
      <3>2. CASE Upkeep!Refused(o) /\ turn # o
        BY <3>2, <1>b, Zenon DEF Upkeep!Refused
      <3>3. CASE Upkeep!Refused(o) /\ turn = o
        <4>1. \A p \in Upkeep!AtWork \cap Queries : turn = p
          BY DEF OperationsInv, Upkeep!Under, Upkeep!AtWork
        <4> QED  BY <2>1, <3>3, <4>1 DEF Upkeep!AtWork
      <3> QED  BY <1>3, <3>1, <3>2, <3>3
    <2> QED  BY <2>1, <2>2, Leaves, WorkGoesOn
  <1>4. ASSUME NEW o \in Upkeep!Ops, Upkeep!Forget(o)
        PROVE  WorkInv'
    <2>1. PICK x \in Operation : op' = [op EXCEPT ![o] = x] /\ x.pc = "forgotten" /\ x.copy = op[o].copy
      BY <1>4, Leaves DEF Upkeep!Forget
    <2>2. op[o].pc = "read" /\ session' = session /\ behind' = behind /\ unsaved' = unsaved
      BY <1>4 DEF Upkeep!Forget, Upkeep!Begins
    <2>3. Upkeep!AtWork = {}
      BY <1>4, <1>b, Zenon DEF Upkeep!Forget
    <2> QED  BY <2>1, <2>2, <2>3, WorkGoesOn DEF Upkeep!Under
  <1>5. ASSUME NEW o \in Upkeep!Ops, Upkeep!StartQueryFails(o)
        PROVE  WorkInv'
    <2>1. PICK x \in Operation : op' = [op EXCEPT ![o] = x] /\ x.pc = "failing" /\ x.copy = op[o].copy
      BY <1>5, Leaves DEF Upkeep!StartQueryFails
    <2>2. /\ op[o].pc = "read" /\ session' = session /\ behind' = behind /\ unsaved' = unsaved
          /\ activity' = TRUE
      BY <1>5 DEF Upkeep!StartQueryFails, Upkeep!Begins
    <2> QED  BY <2>1, <2>2, WorkGoesOn DEF Upkeep!Under
  <1>6. ASSUME NEW o \in Upkeep!Ops, Upkeep!AskCancel(o)
        PROVE  WorkInv'
    <2> DEFINE x == [kind |-> "cancel", pc |-> "asked", copy |-> Upkeep!Fresh]
    <2>1. /\ op' = [op EXCEPT ![o] = x] /\ op[o].pc = "off"
          /\ session' = session /\ behind' = behind /\ unsaved' = unsaved /\ activity' = activity
      BY <1>6 DEF Upkeep!AskCancel
    <2>3. x \in Operation /\ x.pc = "asked"
      BY Leaves DEF Operation
    <2> HIDE DEF x
    <2> QED  BY <2>1, <2>3, WorkGoesOn
  <1>7. ASSUME NEW o \in Upkeep!Ops,
               Upkeep!Rename(o) \/ Upkeep!CancelSavesAgain(o) \/ Upkeep!PeriodicSave(o)
        PROVE  WorkInv'
    <2>1. /\ Upkeep!Under(o) /\ activity' = activity
          /\ op' = op \/ (op' = [op EXCEPT ![o] = Upkeep!Done] /\ op[o].pc # "working")
          /\ Upkeep!Saves(o, op[o].copy, FALSE, FALSE)
      BY <1>7, Leaves
      DEF Upkeep!Rename, Upkeep!CancelSavesAgain, Upkeep!PeriodicSave, Upkeep!Begins, Upkeep!Under,
          Upkeep!marks
    <2>2. /\ o \notin behind
          /\ behind' = {p \in Upkeep!Ops \ {o} : Upkeep!Under(p)}
          /\ session' = IF session.there \/ FALSE THEN op[o].copy ELSE session
          /\ unsaved' = (unsaved /\ op[o].copy.status \in Upkeep!Busy)
      BY <2>1, <1>s
    <2>3. op[o].copy = session
      BY <2>1, <2>2 DEF WorkInv
    <2>4. session' = session /\ unsaved' = (unsaved /\ session.status \in Upkeep!Busy)
      BY <2>2, <2>3
    <2>5. Upkeep!Done.pc = "done"
      BY Leaves
    <2> QED  BY <2>1, <2>2, <2>3, <2>4, <2>5, RowIsSavedAgain
  <1>8. ASSUME NEW o \in Upkeep!Ops, Upkeep!Clear(o)
        PROVE  WorkInv'
    <2>1. /\ op' = [op EXCEPT ![o] = Upkeep!Done] /\ op[o].pc # "working" /\ Upkeep!Under(o)
          /\ op[o].copy.status \notin Upkeep!Busy
      BY <1>8, Leaves
      DEF Upkeep!Clear, Upkeep!Begins, Upkeep!MayBegin, Upkeep!Permitted, Upkeep!Under, Upkeep!Busy,
          OperationsInv, WellMade
    <2>2. /\ o \notin behind
          /\ behind' = {p \in Upkeep!Ops \ {o} : Upkeep!Under(p)}
          /\ session' = IF session.there \/ FALSE THEN Upkeep!Fresh ELSE session
      BY <1>8, <1>s DEF Upkeep!Clear
    <2>3. op[o].copy = session
      BY <2>1, <2>2 DEF WorkInv
    <2>4. Upkeep!AtWork = {}
      BY <2>1, <2>3 DEF WorkInv, Upkeep!Busy
    <2>5. session'.there => session'.status \notin Upkeep!Busy
      BY <2>2 DEF Upkeep!Fresh, Upkeep!Busy
    <2> QED  BY <2>1, <2>2, <2>4, <2>5, Leaves, RowIsWritten DEF Upkeep!AtWork
  <1>9. ASSUME NEW o \in Upkeep!Ops, Upkeep!Check(o)
        PROVE  WorkInv'
    <2> DEFINE row1 == [op[o].copy EXCEPT !.status = "error"]
    <2>1. /\ Upkeep!Under(o) /\ op[o].pc = "read"
          /\ op[o].copy.there /\ op[o].copy.status = "running"
          /\ op' = [op EXCEPT ![o] = Upkeep!Done]
      BY <1>9, Leaves DEF Upkeep!Check, Upkeep!Begins, Upkeep!MayBegin, Upkeep!Permitted, Upkeep!Under
    <2>2. Upkeep!Saves(o, row1, FALSE, FALSE)
      BY <1>9, Zenon DEF Upkeep!Check
    <2>3. /\ o \notin behind
          /\ behind' = {p \in Upkeep!Ops \ {o} : Upkeep!Under(p)}
          /\ session' = IF session.there \/ FALSE THEN row1 ELSE session
      BY <2>2, <1>s
    <2>4. activity = FALSE
      BY <1>9, <1>b, Zenon DEF Upkeep!Check
    <2>5. session.there /\ session.status = "running"
      BY <2>1, <2>3 DEF WorkInv
    <2>6. Upkeep!AtWork = {}
      BY <2>4, <2>5 DEF WorkInv
    <2>7. row1.status = "error"
      BY Leaves DEF SessionRow
    <2>8. session'.status \notin Upkeep!Busy
      BY <2>3, <2>5, <2>7 DEF Upkeep!Busy
    <2> HIDE DEF row1
    <2> QED  BY <2>1, <2>3, <2>6, <2>8, Leaves, RowIsWritten DEF Upkeep!AtWork
  <1>10. ASSUME NEW o \in Upkeep!Ops, Upkeep!Remove(o)
        PROVE  WorkInv'
    <2>1. /\ op' = [op EXCEPT ![o] = Upkeep!Done]
          /\ behind' = {p \in Upkeep!Ops \ {o} : Upkeep!Under(p)}
          /\ session' = [Upkeep!Fresh EXCEPT !.there = FALSE]
      BY <1>10, Leaves DEF Upkeep!Remove
    <2>2. \A p \in Upkeep!Ops \ {o} : ~Upkeep!Under(p)
      BY <1>10, <1>b, Zenon DEF Upkeep!Remove
    <2>3. session'.there = FALSE
      BY <2>1 DEF Upkeep!Fresh
    <2> QED  BY <2>1, <2>2, <2>3, Leaves, RowIsWritten DEF Upkeep!Under
  <1>11. ASSUME NEW o \in Upkeep!Ops, Upkeep!StartQuery(o) \/ Upkeep!StartCompact(o)
        PROVE  WorkInv'
    <2> DEFINE status == IF o \in Queries THEN "running" ELSE "compacting"
               row1 == [op[o].copy EXCEPT !.status = status]
               x == [op[o] EXCEPT !.pc = "working", !.copy = row1]
    <2>1. /\ Upkeep!Under(o) /\ op[o].pc = "read"
          /\ op[o].copy.there /\ op[o].copy.status \notin Upkeep!Busy
          /\ Upkeep!Work(o, status)
      BY <1>11
      DEF Upkeep!StartQuery, Upkeep!StartCompact, Upkeep!Begins, Upkeep!MayBegin, Upkeep!Permitted,
          Upkeep!Under, Upkeep!Busy, OperationsInv, WellMade
    <2>2. /\ o \notin behind
          /\ behind' = {p \in Upkeep!Ops \ {o} : Upkeep!Under(p)}
          /\ session' = IF session.there \/ FALSE THEN row1 ELSE session
      BY <2>1, <1>s DEF Upkeep!Work
    <2>3. op[o].copy = session /\ Upkeep!AtWork = {}
      BY <2>1, <2>2, NobodyAtWork
    <2>4. op[o] \in Operation /\ op[o].copy \in SessionRow
      BY Leaves
    <2>5. row1 \in SessionRow /\ row1.status = status /\ row1.there
      BY <2>1, <2>4 DEF SessionRow, Upkeep!Busy
    <2>6. x \in Operation /\ x.pc = "working" /\ x.copy = row1
      BY <2>4, <2>5 DEF Operation
    <2>7. op' = [op EXCEPT ![o] = x]
      BY <2>1, <2>4 DEF Upkeep!Work, Operation
    <2>8. activity' = TRUE /\ session' = row1
      BY <2>1, <2>2, <2>3 DEF Upkeep!Work
    <2> HIDE DEF x, row1
    <2> QED  BY <2>2, <2>3, <2>5, <2>6, <2>7, <2>8, RowIsWritten DEF Upkeep!AtWork
  <1>12. ASSUME NEW o \in Upkeep!Ops, Upkeep!CancelSaves(o)
        PROVE  WorkInv'
    <2>1. PICK x \in Operation, copy \in SessionRow :
            /\ op' = [op EXCEPT ![o] = x]
            /\ \/ x = Upkeep!Done
               \/ x.pc = "rewound" /\ x.kind = "cancel" /\ x.copy = copy
            /\ copy.status = "idle" /\ copy.there = op[o].copy.there
            /\ Upkeep!Saves(o, copy, FALSE, Upkeep!AtWork # {})
      BY <1>12, CancelMoves
    <2>2. Upkeep!Under(o) /\ op[o].copy.there
      BY <1>12 DEF Upkeep!CancelSaves, Upkeep!Begins, Upkeep!MayBegin, Upkeep!Under
    <2>3. /\ o \notin behind /\ Upkeep!AtWork = {}
          /\ behind' = {p \in Upkeep!Ops \ {o} : Upkeep!Under(p)}
          /\ session' = IF session.there \/ FALSE THEN copy ELSE session
      BY <2>1, <1>s
    <2>4. session.there
      BY <2>2, <2>3 DEF WorkInv
    <2>5. session' = copy /\ session'.status \notin Upkeep!Busy
      BY <2>1, <2>3, <2>4 DEF Upkeep!Busy
    <2>6. x.pc = "done" \/ (x.pc = "rewound" /\ x.copy = session')
      BY <2>1, <2>5, Leaves
    <2>7. \A p \in Upkeep!Ops : op[p].pc # "working"
      BY <2>3 DEF Upkeep!AtWork
    <2> QED  BY ONLY <2>1, <2>3, <2>5, <2>6, <2>7, OperationsInv, RowIsWritten
  <1>13. ASSUME NEW o \in Upkeep!Ops, NEW ended \in SessionRow,
                Upkeep!EndQuery(o) \/ Upkeep!EndCompact(o),
                Upkeep!Saves(o, ended, TRUE, FALSE), ended.status \in {"idle", "error"}
         PROVE  WorkInv'
    <2>1. /\ op' = [op EXCEPT ![o] = Upkeep!Done] /\ op[o].pc \in {"working", "failing"}
      BY <1>13, Leaves DEF Upkeep!EndQuery, Upkeep!EndCompact
    <2>2. /\ o \notin behind
          /\ behind' = {p \in Upkeep!Ops \ {o} : Upkeep!Under(p)}
          /\ session' = IF session.there \/ TRUE THEN ended ELSE session
      BY <1>13, <1>s
    <2>3. \A p \in Upkeep!Ops : p # o => op[p].pc # "working"
      <3>1. CASE op[o].pc = "working"
        BY <3>1 DEF WorkInv, Upkeep!AtWork
      <3>2. CASE op[o].pc = "failing"
        <4>1. op[o].copy.status \notin Upkeep!Busy /\ op[o].copy = session
          BY <3>2, <2>2 DEF OperationsInv, WellMade, Upkeep!Busy, WorkInv, Upkeep!Under
        <4> QED  BY <4>1 DEF WorkInv, Upkeep!AtWork, Upkeep!Busy
      <3> QED  BY <2>1, <3>1, <3>2
    <2>4. session'.status \notin Upkeep!Busy
      BY <1>13, <2>2 DEF Upkeep!Busy
    <2> QED  BY <2>1, <2>2, <2>3, <2>4, Leaves, RowIsWritten
  <1>14. ASSUME NEW o \in Upkeep!Ops, Upkeep!EndQuery(o) \/ Upkeep!EndCompact(o), Upkeep!LeavesRow
         PROVE  WorkInv'
    <2>1. /\ op' = [op EXCEPT ![o] = Upkeep!Done] /\ Upkeep!Under(o)
      BY <1>14, Leaves DEF Upkeep!EndQuery, Upkeep!EndCompact, Upkeep!Under
    <2>2. o \in Upkeep!AtWork \/ o \in Queries
      BY <1>14 DEF Upkeep!EndQuery, Upkeep!EndCompact, Upkeep!AtWork, OperationsInv, WellMade
    <2> QED  BY <1>14, <2>1, <2>2, Leaves, RowIsLeft
  <1>15. ASSUME NEW o \in Upkeep!Ops, Upkeep!EndCompact(o)
         PROVE  WorkInv'
    <2> DEFINE ended == [op[o].copy EXCEPT !.status = "idle"]
    <2>1. ended \in SessionRow /\ ended.status = "idle"
      BY Leaves DEF SessionRow
    <2>2. Upkeep!Saves(o, ended, TRUE, FALSE) \/ Upkeep!LeavesRow
      BY <1>15, Zenon DEF Upkeep!EndCompact
    <2> HIDE DEF ended
    <2> QED  BY <1>13, <1>14, <1>15, <2>1, <2>2
  <1>16. ASSUME NEW o \in Upkeep!Ops, Upkeep!EndQuery(o)
         PROVE  WorkInv'
    <2>1. \A ended \in Upkeep!Endings(o) : ended \in SessionRow /\ ended.status \in {"idle", "error"}
      <3> DEFINE c == op[o].copy
      <3>1. c \in SessionRow /\ o \in Queries
        BY <1>16, Leaves DEF Upkeep!EndQuery, OperationsInv, WellMade
      <3>2. \A ended \in Upkeep!Endings(o) :
              \/ ended = [c EXCEPT !.status = "error"]
              \/ ended = [c EXCEPT !.status = "idle", !.answered = @ \cup {o}]
        BY Zenon DEF Upkeep!Endings
      <3> HIDE DEF c
      <3>3. [c EXCEPT !.status = "error"] \in SessionRow /\ [c EXCEPT !.status = "error"].status = "error"
        BY <3>1 DEF SessionRow
      <3>4. /\ [c EXCEPT !.status = "idle", !.answered = @ \cup {o}] \in SessionRow
            /\ [c EXCEPT !.status = "idle", !.answered = @ \cup {o}].status = "idle"
        BY <3>1 DEF SessionRow
      <3> QED  BY <3>2, <3>3, <3>4
    <2>2. Upkeep!LeavesRow \/ \E ended \in Upkeep!Endings(o) : Upkeep!Saves(o, ended, TRUE, FALSE)
      BY <1>16, Zenon DEF Upkeep!EndQuery
    <2> QED  BY <1>13, <1>14, <1>16, <2>1, <2>2
  <1>17. CASE Upkeep!Crash
    <2>1. \A p \in Upkeep!Ops : ~Upkeep!Under(p)' /\ p \notin Upkeep!AtWork'
      BY <1>17 DEF Upkeep!Crash, Upkeep!Under, Upkeep!AtWork, Upkeep!Done, Upkeep!Off
    <2>2. unsaved' = (session.status = "compacting")
      BY <1>17, Zenon DEF Upkeep!Crash
    <2>3. session'.status \in Upkeep!Busy => session.status = "compacting"
      BY <1>17 DEF Upkeep!Crash, Upkeep!Busy, Upkeep!TypeOK
    <2>4. session'.status \in Upkeep!Busy => unsaved' = TRUE
      BY <2>2, <2>3, Zenon
    <2> QED  BY <2>1, <2>4 DEF WorkInv, Upkeep!AtWork
  <1> QED
    BY <1>1, <1>2, <1>3, <1>4, <1>5, <1>6, <1>7, <1>8, <1>9, <1>10, <1>11, <1>12, <1>15, <1>16, <1>17
    DEF Upkeep!Next

\* Every step of the upkeep keeps its invariant.
LEMMA UpkeepMoves ==
  ASSUME UpkeepInv, Upkeep!Next
  PROVE  UpkeepInv'
  <1>1. Upkeep!TypeOK' /\ OperationsInv'
    BY OperationsStep, UpkeepTypes DEF UpkeepInv
  <1>2. ASSUME overlaps' = FALSE
        PROVE  overlaps = FALSE
    <2>1. overlaps \in BOOLEAN
      BY DEF UpkeepInv, Upkeep!TypeOK
    <2> QED  BY <1>2, <2>1, ZenonT(60)
         DEF Upkeep!Next, Upkeep!Submit, Upkeep!ReadQuery, Upkeep!ReadService, Upkeep!AskCancel,
         Upkeep!ReadCancel, Upkeep!CancelSaves, Upkeep!CancelSavesAgain, Upkeep!StartQueryFails,
         Upkeep!PeriodicSave, Upkeep!LeavesRow,
         Upkeep!Reads, Upkeep!Refused, Upkeep!Rename, Upkeep!Clear, Upkeep!Check, Upkeep!CheckPasses,
         Upkeep!Forget, Upkeep!Remove, Upkeep!StartQuery, Upkeep!StartCompact, Upkeep!StartCompactFails,
         Upkeep!EndQuery, Upkeep!EndCompact, Upkeep!Crash, Upkeep!Work, Upkeep!Saves
  <1> QED  BY <1>1, <1>2, WorkStep DEF UpkeepInv

\* ... and so does a step of something else.
LEMMA UpkeepStep == UpkeepInv /\ [Upkeep!Next]_upkeepVars => UpkeepInv'
  <1> SUFFICES ASSUME UpkeepInv, UNCHANGED upkeepVars  PROVE UpkeepInv'
    BY UpkeepMoves
  <1>1. /\ session' = session /\ op' = op /\ turn' = turn /\ activity' = activity
        /\ cancelled' = cancelled /\ crashes' = crashes /\ behind' = behind
        /\ overlaps' = overlaps /\ unsaved' = unsaved
    BY DEF upkeepVars
  <1>2. Upkeep!TypeOK'
    BY <1>1, Zenon DEF UpkeepInv, Upkeep!TypeOK
  <1>3. OperationsInv'
    BY <1>1 DEF UpkeepInv, OperationsInv, WellMade, Upkeep!Under
  <1>4. WorkInv => WorkInv'
    BY <1>1 DEF WorkInv, Upkeep!Under, Upkeep!AtWork
  <1>5. overlaps' = FALSE => overlaps = FALSE
    BY <1>1
  <1> QED  BY <1>2, <1>3, <1>4, <1>5 DEF UpkeepInv

\* The instance's cardinality is the cardinality.
LEMMA UpkeepCardinality == \A S : Upkeep!Cardinality(S) = Cardinality(S)
  BY DEF Upkeep!Cardinality, Cardinality

\* What the invariant says of the row's status.
LEMMA UpkeepHolds == UpkeepInv => Upkeep!StatusTellsTheWork
  <1> SUFFICES ASSUME UpkeepInv  PROVE Upkeep!StatusTellsTheWork
    OBVIOUS
  <1>1. ~overlaps => WorkInv
    <2>1. ~overlaps => overlaps = FALSE
      BY Zenon DEF UpkeepInv, Upkeep!TypeOK
    <2> QED  BY <2>1 DEF UpkeepInv
  <1>2. WorkInv => Upkeep!Cardinality(Upkeep!AtWork) <= 1
    <2>1. CASE Upkeep!AtWork = {}
      BY <2>1, FS_EmptySet, UpkeepCardinality
    <2>2. ASSUME WorkInv, NEW o \in Upkeep!AtWork  PROVE Upkeep!Cardinality(Upkeep!AtWork) <= 1
      <3>1. Upkeep!AtWork = {o}
        BY <2>2 DEF WorkInv
      <3> QED  BY <3>1, FS_Singleton, UpkeepCardinality
    <2> QED  BY <2>1, <2>2
  <1>3. WorkInv => (Upkeep!AtWork # {} => session.there /\ session.status \in Upkeep!Busy)
    BY DEF WorkInv, Upkeep!Busy
  <1>4. ASSUME WorkInv, Upkeep!AtWork \cap Queries # {}  PROVE activity = TRUE
    BY <1>4 DEF WorkInv
  <1>5. WorkInv => (Upkeep!AtWork \cap Queries # {} => activity)
    <2>1. WorkInv => (Upkeep!AtWork \cap Queries # {} => activity = TRUE)
      BY <1>4
    <2> QED  BY <2>1, Zenon
  <1>6. WorkInv => (session.there /\ session.status \in Upkeep!Busy => Upkeep!AtWork # {} \/ unsaved)
    BY Zenon DEF WorkInv
  <1> HIDE DEF WorkInv
  <1> QED  BY <1>1, <1>2, <1>3, <1>5, <1>6, Zenon DEF Upkeep!StatusTellsTheWork

-----------------------------------------------------------------------------
(* WeChat's poll loops (WeixinPoll.tla)                                    *)

AtLock(c) == caller[c].does \in {"starts", "stops"}

\* One call has the lock, and what it found registered is what it ends.
ListenLockInv ==
  /\ \A c, d \in Callers : AtLock(c) /\ AtLock(d) => c = d
  /\ \A c \in Callers : /\ caller[c].does = "starts" => task = caller[c].old
                        /\ caller[c].does = "stops" => task = NoLoop

\* What a loop has behind it is in the inbox.
CursorInv ==
  \A l \in Loops :
    /\ loop[l].cursor <= sent /\ 1..loop[l].cursor \subseteq accepted
    /\ loop[l].phase = "batch" => /\ 1..loop[l].at \subseteq accepted
                                  /\ loop[l].at <= loop[l].upto /\ loop[l].upto <= sent

WeixinInv == /\ Weixin!TypeOK /\ ListenLockInv /\ CursorInv
             /\ Weixin!OneLoop /\ Weixin!NothingIsSkipped

\* The poll loops' invariant holds before the first call.
LEMMA WeixinStart == Weixin!Init => WeixinInv
  <1> SUFFICES ASSUME Weixin!Init  PROVE WeixinInv
    OBVIOUS
  <1> USE ServicesAssumption DEF Weixin!Init, Weixin!NotYet
  <1>1. Weixin!TypeOK
    BY DEF Weixin!TypeOK
  <1>2. ListenLockInv /\ CursorInv /\ Weixin!OneLoop /\ Weixin!NothingIsSkipped
    BY DEF ListenLockInv, AtLock, CursorInv, Weixin!OneLoop, Weixin!NothingIsSkipped, Weixin!Live
  <1> QED  BY <1>1, <1>2 DEF WeixinInv

LoopRow == [phase : {"off", "notify", "poll", "batch", "backoff", "ended"},
            cursor : 0..MaxMessages, at : 0..MaxMessages,
            upto : 0..MaxMessages, cancelled : BOOLEAN]

\* A step of a loop, as the record it leaves.
LEMMA LoopMoves ==
  ASSUME Weixin!TypeOK, NEW l \in Loops, NEW x \in LoopRow, loop' = [loop EXCEPT ![l] = x]
  PROVE  /\ loop' \in [Loops -> LoopRow] /\ loop'[l] = x
         /\ \A k \in Loops : k # l => loop'[k] = loop[k]
  BY DEF Weixin!TypeOK, LoopRow
\* A live loop's own step keeps the calls' side of the invariant.
LEMMA LoopKeepsLocks ==
  ASSUME WeixinInv, NEW l \in Weixin!Live, NEW x \in LoopRow, loop' = [loop EXCEPT ![l] = x],
         UNCHANGED <<caller, task>>
  PROVE  /\ ListenLockInv' /\ Weixin!OneLoop'
         /\ \A k \in Loops : k # l => loop'[k] = loop[k]
         /\ loop'[l] = x
         /\ l \in Loops /\ loop' \in [Loops -> LoopRow]
  <1>0. l \in Loops
    BY DEF Weixin!Live
  <1>1. /\ \A k \in Loops : k # l => loop'[k] = loop[k]
        /\ loop'[l] = x /\ loop' \in [Loops -> LoopRow]
    BY <1>0, LoopMoves DEF WeixinInv
  <1>2. ListenLockInv'
    BY DEF WeixinInv, ListenLockInv, AtLock
  <1>3. Weixin!Live' \subseteq Weixin!Live
    BY <1>0, <1>1 DEF Weixin!Live
  <1>4. Weixin!OneLoop'
    <2> SUFFICES ASSUME NEW k \in Weixin!Live'
                 PROVE  /\ Weixin!Live' = {k}
                        /\ k = task \/ \E c \in Callers : AtLock(c) /\ caller[c].old = k
      BY DEF Weixin!OneLoop, AtLock
    <2>1. k \in Weixin!Live
      BY <1>3
    <2>2. /\ Weixin!Live = {k}
          /\ k = task \/ \E c \in Callers : AtLock(c) /\ caller[c].old = k
      BY <2>1 DEF WeixinInv, Weixin!OneLoop, AtLock
    <2> QED  BY <2>2, <1>3
  <1> QED  BY <1>0, <1>1, <1>2, <1>4

\* What a step of one loop leaves true of all the loops' cursors, if it is true
\* of that loop.
LEMMA CursorKept ==
  ASSUME CursorInv, NEW l \in Loops, NEW x \in LoopRow, Weixin!TypeOK,
         \A k \in Loops : k # l => loop'[k] = loop[k],
         loop'[l] = x, sent' = sent, accepted \subseteq accepted',
         x.cursor <= sent, 1..x.cursor \subseteq accepted',
         x.phase = "batch" => /\ 1..x.at \subseteq accepted'
                              /\ x.at <= x.upto /\ x.upto <= sent
  PROVE  CursorInv'
  BY DEF CursorInv

\* Every step of a loop keeps it.
LEMMA WeixinLoopStep ==
  ASSUME WeixinInv, NEW l \in Loops,
         \/ Weixin!Goes(l) \/ Weixin!Poll(l) \/ Weixin!PollFails(l)
         \/ Weixin!HandOver(l) \/ Weixin!BatchDone(l) \/ Weixin!Ends(l)
  PROVE  WeixinInv'
  <1> DEFINE old == loop[l]
  <1>0. /\ loop \in [Loops -> LoopRow] /\ old \in LoopRow
        /\ sent \in 0..MaxMessages /\ confirmed \in 0..sent /\ accepted \subseteq 1..sent
        /\ task \in Loops \cup {NoLoop} /\ MaxMessages \in Nat
    BY ServicesAssumption DEF WeixinInv, Weixin!TypeOK, LoopRow
  <1>c. /\ old.cursor <= sent /\ 1..old.cursor \subseteq accepted
        /\ old.phase = "batch" => /\ 1..old.at \subseteq accepted
                                  /\ old.at <= old.upto /\ old.upto <= sent
    BY DEF WeixinInv, CursorInv
  <1>n. 1..confirmed \subseteq accepted
    BY DEF WeixinInv, Weixin!NothingIsSkipped
  <1>f. /\ old.cursor \in 0..MaxMessages /\ old.at \in 0..MaxMessages
        /\ old.upto \in 0..MaxMessages
    BY <1>0 DEF LoopRow
  <1>k. ASSUME UNCHANGED <<caller, task, sent>>, NEW x \in LoopRow,
               loop' = [loop EXCEPT ![l] = x], l \in Weixin!Live,
               accepted \subseteq accepted', accepted' \subseteq 1..sent,
               confirmed' \in 0..sent, 1..confirmed' \subseteq accepted',
               x.cursor <= sent, 1..x.cursor \subseteq accepted',
               x.phase = "batch" => /\ 1..x.at \subseteq accepted'
                                    /\ x.at <= x.upto /\ x.upto <= sent
        PROVE  WeixinInv'
    <2>1. /\ ListenLockInv' /\ Weixin!OneLoop'
          /\ \A k \in Loops : k # l => loop'[k] = loop[k]
          /\ loop'[l] = x
          /\ loop' \in [Loops -> LoopRow]
      BY <1>k, LoopKeepsLocks
    <2>2. CursorInv'
      BY <1>k, <2>1, CursorKept DEF WeixinInv
    <2>3. Weixin!TypeOK'
      BY <1>0, <1>k, <2>1 DEF WeixinInv, Weixin!TypeOK, LoopRow
    <2>4. Weixin!NothingIsSkipped'
      BY <1>k DEF Weixin!NothingIsSkipped
    <2> QED  BY <2>1, <2>2, <2>3, <2>4 DEF WeixinInv
  <1>l. old.phase \notin {"off", "ended"} => l \in Weixin!Live
    BY DEF Weixin!Live
  <1>1. CASE Weixin!Goes(l)
    <2> DEFINE x == [old EXCEPT !.phase = "poll"]
    <2>1. x \in LoopRow /\ x.cursor = old.cursor /\ x.phase = "poll"
      BY <1>0 DEF LoopRow
    <2>2. /\ loop' = [loop EXCEPT ![l] = x] /\ l \in Weixin!Live
          /\ UNCHANGED <<caller, task, sent, confirmed, accepted>>
      BY <1>1, <1>l DEF Weixin!Goes, Weixin!In
    <2> HIDE DEF x
    <2> QED  BY <2>1, <2>2, <1>0, <1>c, <1>n, <1>k
  <1>2. CASE Weixin!PollFails(l)
    <2> DEFINE x == [old EXCEPT !.phase = "backoff"]
    <2>1. x \in LoopRow /\ x.cursor = old.cursor /\ x.phase = "backoff"
      BY <1>0 DEF LoopRow
    <2>2. /\ loop' = [loop EXCEPT ![l] = x] /\ l \in Weixin!Live
          /\ UNCHANGED <<caller, task, sent, confirmed, accepted>>
      BY <1>2, <1>l DEF Weixin!PollFails, Weixin!In
    <2> HIDE DEF x
    <2> QED  BY <2>1, <2>2, <1>0, <1>c, <1>n, <1>k
  <1>3. CASE Weixin!BatchDone(l)
    <2> DEFINE x == [old EXCEPT !.phase = "poll", !.cursor = old.upto]
    <2>1. x \in LoopRow /\ x.cursor = old.upto /\ x.phase = "poll"
      BY <1>0 DEF LoopRow
    <2>2. /\ loop' = [loop EXCEPT ![l] = x] /\ l \in Weixin!Live
          /\ UNCHANGED <<caller, task, sent, confirmed, accepted>>
          /\ old.phase = "batch" /\ old.at = old.upto
      BY <1>3, <1>l DEF Weixin!BatchDone, Weixin!In
    <2> HIDE DEF x
    <2> QED  BY <2>1, <2>2, <1>0, <1>c, <1>n, <1>k
  <1>4. CASE Weixin!Poll(l)
    <2> DEFINE from == IF old.cursor = 0 THEN confirmed ELSE old.cursor
    <2>1. /\ from \in 0..sent /\ 1..from \subseteq accepted
          /\ confirmed' = from
      <3>1. confirmed' = from
        BY <1>4 DEF Weixin!Poll
      <3> HIDE DEF old
      <3> QED  BY <3>1, <1>0, <1>f, <1>c, <1>n
    <2>2. PICK upto \in from..sent :
            loop' = [loop EXCEPT ![l].phase = "batch", ![l].at = from, ![l].upto = upto]
      BY <1>4 DEF Weixin!Poll
    <2> DEFINE x == [old EXCEPT !.phase = "batch", !.at = from, !.upto = upto]
    <2>a. from \in 0..MaxMessages /\ upto \in 0..MaxMessages /\ from <= upto /\ upto <= sent
      BY <2>1, <1>0
    <2> HIDE DEF from
    <2>3. x \in LoopRow /\ x.cursor = old.cursor /\ x.phase = "batch" /\ x.at = from /\ x.upto = upto
      BY <1>0, <2>a DEF LoopRow
    <2>4. /\ loop' = [loop EXCEPT ![l] = x] /\ l \in Weixin!Live
          /\ UNCHANGED <<caller, task, sent, accepted>>
      BY <1>4, <1>l, <2>2 DEF Weixin!Poll, Weixin!In
    <2> HIDE DEF x
    <2> QED  BY <2>1, <2>a, <2>3, <2>4, <1>0, <1>c, <1>k
  <1>5. CASE Weixin!HandOver(l)
    <2> DEFINE m == old.at + 1
    <2>1. /\ l \in Weixin!Live /\ UNCHANGED <<caller, task, sent, confirmed>>
          /\ old.phase = "batch" /\ old.at < old.upto
          /\ \/ accepted' = accepted \cup {m} /\ loop' = [loop EXCEPT ![l].at = m]
             \/ /\ accepted' \in {accepted, accepted \cup {m}}
                /\ loop' = [loop EXCEPT ![l].phase = "backoff"]
      BY <1>5, <1>l DEF Weixin!HandOver, Weixin!In
    <2>2. m \in 1..sent /\ m <= old.upto /\ 1..m = (1..old.at) \cup {m} /\ m \in 0..MaxMessages
      <3> HIDE DEF old
      <3>1. m \in 1..sent /\ m <= old.upto /\ m \in 0..MaxMessages
        BY <1>0, <1>f, <1>c, <2>1
      <3>2. 1..m = (1..old.at) \cup {m}
        BY <1>f
      <3> QED  BY <3>1, <3>2
    <2>3. accepted \subseteq accepted' /\ accepted' \subseteq 1..sent
      BY <2>1, <2>2, <1>0
    <2>4. CASE accepted' = accepted \cup {m} /\ loop' = [loop EXCEPT ![l].at = m]
      <3> DEFINE x == [old EXCEPT !.at = m]
      <3>1. x \in LoopRow /\ x.cursor = old.cursor /\ x.at = m /\ x.upto = old.upto
        BY <1>0, <2>2 DEF LoopRow
      <3>2. loop' = [loop EXCEPT ![l] = x]
        BY <2>4
      <3>3. 1..x.at \subseteq accepted' /\ x.at <= x.upto
        BY <3>1, <2>2, <2>4, <1>c, <2>1
      <3> HIDE DEF x, m
      <3> QED  BY <3>1, <3>2, <3>3, <2>1, <2>3, <1>0, <1>c, <1>n, <1>k
    <2>5. CASE loop' = [loop EXCEPT ![l].phase = "backoff"]
      <3> DEFINE x == [old EXCEPT !.phase = "backoff"]
      <3>1. x \in LoopRow /\ x.cursor = old.cursor /\ x.phase = "backoff"
        BY <1>0 DEF LoopRow
      <3>2. loop' = [loop EXCEPT ![l] = x]
        BY <2>5
      <3> HIDE DEF x, m
      <3> QED  BY <3>1, <3>2, <2>1, <2>3, <1>0, <1>c, <1>n, <1>k
    <2> QED  BY <2>1, <2>4, <2>5
  <1>6. CASE Weixin!Ends(l)
    <2> DEFINE x == [old EXCEPT !.phase = "ended"]
    <2>1. x \in LoopRow /\ x.cursor = old.cursor /\ x.phase = "ended"
      BY <1>0 DEF LoopRow
    <2>2. /\ loop' = [loop EXCEPT ![l] = x] /\ l \in Weixin!Live
          /\ UNCHANGED <<caller, task, sent, confirmed>>
      BY <1>6 DEF Weixin!Ends
    <2>3. accepted \subseteq accepted' /\ accepted' \subseteq 1..sent
      BY <1>6, <1>0, <1>c DEF Weixin!Ends, LoopRow
    <2> HIDE DEF x
    <2> QED  BY <2>1, <2>2, <2>3, <1>0, <1>c, <1>n, <1>k
  <1> QED  BY <1>1, <1>2, <1>3, <1>4, <1>5, <1>6

\* Every step of a call keeps it.
LEMMA WeixinCallStep ==
  ASSUME WeixinInv, NEW c \in Callers,
         Weixin!Start(c) \/ Weixin!Stop(c) \/ Weixin!Install(c) \/ Weixin!Stopped(c)
  PROVE  WeixinInv'
  <1>0. /\ loop \in [Loops -> LoopRow]
        /\ caller \in [Callers -> [does : {"off", "starts", "stops", "done"},
                                   old : Loops \cup {NoLoop}]]
        /\ task \in Loops \cup {NoLoop}
    BY DEF WeixinInv, Weixin!TypeOK, LoopRow
  <1>u. UNCHANGED <<sent, confirmed, accepted>>
    BY DEF Weixin!Start, Weixin!Stop, Weixin!Install, Weixin!Stopped
  <1>n. Weixin!NothingIsSkipped'
    BY <1>u DEF WeixinInv, Weixin!NothingIsSkipped
  <1>1. CASE Weixin!Start(c) \/ Weixin!Stop(c)
    <2>1. PICK does \in {"starts", "stops"} :
            /\ Weixin!CancelTask(c, does)
            /\ task' = IF does = "starts" THEN task ELSE NoLoop
      BY <1>1 DEF Weixin!Start, Weixin!Stop
    <2>2. /\ caller' = [caller EXCEPT ![c] = [does |-> does, old |-> task]]
          /\ \A d \in Callers : ~AtLock(d)
      BY <2>1, <1>0 DEF Weixin!CancelTask, Weixin!LockFree, AtLock
    <2>3. /\ caller' \in [Callers -> [does : {"off", "starts", "stops", "done"},
                                      old : Loops \cup {NoLoop}]]
          /\ caller'[c].does = does /\ caller'[c].old = task
          /\ \A d \in Callers : d # c => caller'[d] = caller[d]
      BY <2>2, <1>0
    <2>4. /\ loop' \in [Loops -> LoopRow]
          /\ \A l \in Loops : /\ loop'[l].phase = loop[l].phase
                              /\ loop'[l].cursor = loop[l].cursor
                              /\ loop'[l].at = loop[l].at /\ loop'[l].upto = loop[l].upto
      <3>1. CASE task \in Weixin!Live
        <4> DEFINE x == [loop[task] EXCEPT !.cancelled = TRUE]
        <4>1. task \in Loops
          BY <3>1 DEF Weixin!Live
        <4>2. loop' = [loop EXCEPT ![task] = x]
          BY <2>1, <3>1 DEF Weixin!CancelTask
        <4>3. /\ x \in LoopRow /\ x.phase = loop[task].phase /\ x.cursor = loop[task].cursor
              /\ x.at = loop[task].at /\ x.upto = loop[task].upto
          BY <1>0, <4>1 DEF LoopRow
        <4> HIDE DEF x
        <4> QED  BY <4>1, <4>2, <4>3, LoopMoves DEF WeixinInv
      <3>2. CASE task \notin Weixin!Live
        BY <2>1, <3>2, <1>0 DEF Weixin!CancelTask
      <3> QED  BY <3>1, <3>2
    <2>5. Weixin!Live' = Weixin!Live
      BY <2>4 DEF Weixin!Live
    <2>6. Weixin!TypeOK'
      BY <1>0, <1>u, <2>1, <2>3, <2>4 DEF WeixinInv, Weixin!TypeOK, LoopRow
    <2>7. ListenLockInv'
      BY <2>1, <2>2, <2>3 DEF ListenLockInv, AtLock
    <2>8. CursorInv'
      BY <2>4, <1>u DEF WeixinInv, CursorInv
    <2>9. Weixin!OneLoop'
      <3> SUFFICES ASSUME NEW l \in Weixin!Live
                   PROVE  Weixin!Live = {l} /\ AtLock(c)' /\ caller'[c].old = l
        BY <2>5 DEF Weixin!OneLoop, AtLock
      <3>1. Weixin!Live = {l} /\ l = task
        BY <2>2 DEF WeixinInv, Weixin!OneLoop, AtLock
      <3> QED  BY <3>1, <2>1, <2>3 DEF AtLock
    <2> QED  BY <1>n, <2>6, <2>7, <2>8, <2>9 DEF WeixinInv
  <1>2. ASSUME AtLock(c), caller[c].old \notin Weixin!Live  PROVE Weixin!Live = {}
    <2> SUFFICES ASSUME NEW l \in Weixin!Live  PROVE FALSE
      OBVIOUS
    <2>1. l = task \/ \E d \in Callers : AtLock(d) /\ caller[d].old = l
      BY DEF WeixinInv, Weixin!OneLoop, AtLock
    <2>2. l # NoLoop
      BY ServicesAssumption DEF Weixin!Live
    <2>3. l = task => l = caller[c].old
      BY <1>2, <2>2 DEF WeixinInv, ListenLockInv, AtLock
    <2>4. \A d \in Callers : AtLock(d) => d = c
      BY <1>2 DEF WeixinInv, ListenLockInv
    <2> QED  BY <2>1, <2>3, <2>4, <1>2
  <1>d. ASSUME AtLock(c), caller' = [caller EXCEPT ![c].does = "done"]
        PROVE  /\ caller' \in [Callers -> [does : {"off", "starts", "stops", "done"},
                                           old : Loops \cup {NoLoop}]]
               /\ ListenLockInv'
    <2>1. /\ caller' \in [Callers -> [does : {"off", "starts", "stops", "done"},
                                      old : Loops \cup {NoLoop}]]
          /\ caller'[c].does = "done"
          /\ \A d \in Callers : d # c => caller'[d] = caller[d]
      BY <1>d, <1>0
    <2>2. \A d \in Callers : ~AtLock(d)'
      BY <1>d, <2>1 DEF WeixinInv, ListenLockInv, AtLock
    <2> QED  BY <2>1, <2>2 DEF ListenLockInv, AtLock
  <1>3. CASE Weixin!Install(c)
    <2>1. /\ AtLock(c) /\ Weixin!Live = {} /\ caller' = [caller EXCEPT ![c].does = "done"]
      BY <1>3, <1>2 DEF Weixin!Install, AtLock
    <2>2. PICK l \in Loops : /\ loop[l] = Weixin!NotYet
                             /\ loop' = [loop EXCEPT ![l].phase = "notify"]
                             /\ task' = l
      BY <1>3 DEF Weixin!Install
    <2> DEFINE x == [loop[l] EXCEPT !.phase = "notify"]
    <2>3. x \in LoopRow /\ x.phase = "notify" /\ x.cursor = loop[l].cursor
      BY <1>0 DEF LoopRow
    <2>4. loop' = [loop EXCEPT ![l] = x]
      BY <2>2
    <2> HIDE DEF x
    <2>5. /\ loop' \in [Loops -> LoopRow] /\ loop'[l] = x
          /\ \A k \in Loops : k # l => loop'[k] = loop[k]
      BY <2>3, <2>4, LoopMoves DEF WeixinInv
    <2>6. Weixin!Live' = {l}
      BY <2>1, <2>3, <2>5 DEF Weixin!Live
    <2>7. Weixin!OneLoop'
      BY <2>2, <2>6 DEF Weixin!OneLoop
    <2>8. CursorInv'
      BY <1>u, <2>3, <2>5 DEF WeixinInv, CursorInv
    <2>9. Weixin!TypeOK'
      BY <1>u, <1>d, <2>1, <2>2, <2>5 DEF WeixinInv, Weixin!TypeOK, LoopRow
    <2> QED  BY <1>n, <1>d, <2>1, <2>7, <2>8, <2>9 DEF WeixinInv
  <1>4. CASE Weixin!Stopped(c)
    <2>1. /\ AtLock(c) /\ Weixin!Live = {} /\ caller' = [caller EXCEPT ![c].does = "done"]
          /\ UNCHANGED <<loop, task>>
      BY <1>4, <1>2 DEF Weixin!Stopped, AtLock
    <2>2. Weixin!OneLoop'
      BY <2>1 DEF Weixin!OneLoop, Weixin!Live
    <2>3. CursorInv'
      BY <1>u, <2>1 DEF WeixinInv, CursorInv
    <2>4. Weixin!TypeOK'
      BY <1>u, <1>d, <2>1 DEF WeixinInv, Weixin!TypeOK
    <2> QED  BY <1>n, <1>d, <2>1, <2>2, <2>3, <2>4 DEF WeixinInv
  <1> QED  BY <1>1, <1>3, <1>4

\* So does every step, a message's arrival and the process's end included.
LEMMA WeixinStep == WeixinInv /\ [Weixin!Next]_pollVars => WeixinInv'
  <1> SUFFICES ASSUME WeixinInv, [Weixin!Next]_pollVars  PROVE WeixinInv'
    OBVIOUS
  <1>1. CASE UNCHANGED pollVars
    BY <1>1 DEF pollVars, WeixinInv, Weixin!TypeOK, ListenLockInv, AtLock, CursorInv,
                Weixin!OneLoop, Weixin!Live, Weixin!NothingIsSkipped
  <1>2. CASE Weixin!Send
    <2>1. /\ UNCHANGED <<caller, loop, task, confirmed, accepted>>
          /\ sent \in 0..MaxMessages /\ sent' = sent + 1 /\ sent' \in 0..MaxMessages
      BY <1>2, ServicesAssumption DEF Weixin!Send, WeixinInv, Weixin!TypeOK
    <2>2. Weixin!TypeOK'
      BY <2>1 DEF WeixinInv, Weixin!TypeOK
    <2>3. CursorInv'
      <3> SUFFICES ASSUME NEW l \in Loops
                   PROVE  /\ loop[l].cursor <= sent' /\ 1..loop[l].cursor \subseteq accepted
                          /\ loop[l].phase = "batch" =>
                               /\ 1..loop[l].at \subseteq accepted
                               /\ loop[l].at <= loop[l].upto /\ loop[l].upto <= sent'
        BY <2>1 DEF CursorInv
      <3>1. loop[l].cursor \in 0..MaxMessages /\ loop[l].upto \in 0..MaxMessages
        BY DEF WeixinInv, Weixin!TypeOK
      <3> QED  BY <2>1, <3>1, ServicesAssumption DEF WeixinInv, CursorInv
    <2> QED  BY <2>1, <2>2, <2>3 DEF WeixinInv, ListenLockInv, AtLock,
                Weixin!OneLoop, Weixin!Live, Weixin!NothingIsSkipped
  <1>3. CASE Weixin!Restart
    <2>1. /\ UNCHANGED <<sent, confirmed, accepted>> /\ task' = NoLoop
          /\ loop' = [l \in Loops |-> IF l \in Weixin!Live
                                        THEN [loop[l] EXCEPT !.phase = "ended"] ELSE loop[l]]
          /\ caller' = [c \in Callers |-> IF caller[c].does = "off" THEN caller[c]
                                            ELSE [does |-> "done", old |-> NoLoop]]
      BY <1>3 DEF Weixin!Restart
    <2>2. /\ loop \in [Loops -> LoopRow]
          /\ caller \in [Callers -> [does : {"off", "starts", "stops", "done"},
                                     old : Loops \cup {NoLoop}]]
      BY DEF WeixinInv, Weixin!TypeOK, LoopRow
    <2>3. /\ loop' \in [Loops -> LoopRow]
          /\ \A l \in Loops : /\ loop'[l].phase \in {"off", "ended"}
                              /\ loop'[l].cursor = loop[l].cursor
      BY <2>1, <2>2 DEF LoopRow, Weixin!Live
    <2>4. /\ caller' \in [Callers -> [does : {"off", "starts", "stops", "done"},
                                      old : Loops \cup {NoLoop}]]
          /\ \A c \in Callers : ~AtLock(c)'
      BY <2>1, <2>2 DEF AtLock
    <2>5. Weixin!TypeOK'
      BY <2>1, <2>3, <2>4 DEF WeixinInv, Weixin!TypeOK, LoopRow
    <2>6. Weixin!Live' = {}
      BY <2>3 DEF Weixin!Live
    <2>7. Weixin!OneLoop'
      BY <2>6 DEF Weixin!OneLoop
    <2>8. ListenLockInv'
      BY <2>4 DEF ListenLockInv, AtLock
    <2>9. CursorInv' /\ Weixin!NothingIsSkipped'
      BY <2>1, <2>3 DEF WeixinInv, CursorInv, Weixin!NothingIsSkipped
    <2> QED  BY <2>5, <2>7, <2>8, <2>9 DEF WeixinInv
  <1>4. CASE \E c \in Callers : \/ Weixin!Start(c) \/ Weixin!Stop(c)
                               \/ Weixin!Install(c) \/ Weixin!Stopped(c)
    BY <1>4, WeixinCallStep
  <1>5. CASE \E l \in Loops : \/ Weixin!Goes(l) \/ Weixin!Poll(l) \/ Weixin!PollFails(l)
                             \/ Weixin!HandOver(l) \/ Weixin!BatchDone(l) \/ Weixin!Ends(l)
    BY <1>5, WeixinLoopStep
  <1> QED  BY <1>1, <1>2, <1>3, <1>4, <1>5 DEF Weixin!Next

-----------------------------------------------------------------------------
(* QQ's connections (QqGateway.tla)                                        *)

QqStops == {"closing", "passing", "awaiting"}
QqBusy(c) == qq_call[c] \in QqStops \cup {"stopped"}

\* One call has the lock, nothing is registered while it has it, and it stops a
\* connection.
QqLockInv ==
  /\ \A c, d \in Qq!Parties : QqBusy(c) /\ QqBusy(d) => c = d
  /\ \A c \in Qq!Parties : QqBusy(c) => qq_registered = NoConnection
  /\ \A c \in Qq!Parties : qq_call[c] \in QqStops => qq_victim[c] \in Connections

\* A socket is open and a heartbeat beats only where the task is at one.
QqSockets ==
  \A k \in Connections : /\ conn[k].socket = "open" => conn[k].task \in {"hello", "listening"}
                         /\ conn[k].heartbeat => conn[k].task = "listening"

QqInv == Qq!TypeOK /\ QqLockInv /\ QqSockets /\ Qq!StoppedIsOver

\* The QQ connections' invariant holds before the first call.
LEMMA QqStart == Qq!Init => QqInv
  <1> SUFFICES ASSUME Qq!Init  PROVE QqInv
    OBVIOUS
  <1> USE ServicesAssumption DEF Qq!Init, Qq!NotYet
  <1>1. Qq!TypeOK
    BY DEF Qq!TypeOK
  <1>2. QqLockInv
    BY DEF QqLockInv, QqBusy, QqStops
  <1>3. QqSockets /\ Qq!StoppedIsOver
    BY DEF QqSockets, Qq!StoppedIsOver, Qq!Over
  <1> QED  BY <1>1, <1>2, <1>3 DEF QqInv

ConnRow == [running : BOOLEAN, socket : {"none", "open"}, heartbeat : BOOLEAN, cancelled : BOOLEAN,
            task : {"none", "looping", "gateway", "hello", "listening", "backoff", "ended"}]

\* A step of a connection that is not over, as the record it leaves.
LEMMA ConnMoves ==
  ASSUME QqInv, NEW k \in Connections, ~Qq!Over(k), NEW x \in ConnRow,
         conn' = [conn EXCEPT ![k] = x], UNCHANGED <<qq_call, qq_victim, qq_registered>>,
         reconnects' \in 0..MaxReconnects,
         x.socket = "open" => x.task \in {"hello", "listening"},
         x.heartbeat = TRUE => x.task = "listening"
  PROVE  QqInv'
  <1>1. /\ conn' \in [Connections -> ConnRow] /\ conn'[k] = x
        /\ \A j \in Connections : j # k => conn'[j] = conn[j]
    BY DEF QqInv, Qq!TypeOK, ConnRow
  <1>2. Qq!TypeOK'
    BY <1>1 DEF QqInv, Qq!TypeOK, ConnRow
  <1>3. QqLockInv'
    BY DEF QqInv, QqLockInv, QqBusy
  <1>4. QqSockets'
    <2> SUFFICES ASSUME NEW j \in Connections
                 PROVE  /\ conn'[j].socket = "open" => conn'[j].task \in {"hello", "listening"}
                        /\ conn'[j].heartbeat => conn'[j].task = "listening"
      BY DEF QqSockets
    <2>1. CASE j = k
      BY <2>1, <1>1 DEF ConnRow
    <2>2. CASE j # k
      BY <2>2, <1>1 DEF QqInv, QqSockets
    <2> QED  BY <2>1, <2>2
  <1>5. Qq!StoppedIsOver'
    <2> SUFFICES ASSUME NEW j \in Connections, j # qq_registered, ~Qq!BeingStopped(j)
                 PROVE  Qq!Over(j)' /\ ~conn'[j].heartbeat /\ conn'[j].socket = "none"
      BY DEF Qq!StoppedIsOver, Qq!BeingStopped
    <2>1. Qq!Over(j) /\ ~conn[j].heartbeat /\ conn[j].socket = "none"
      BY DEF QqInv, Qq!StoppedIsOver
    <2>2. j # k
      BY <2>1
    <2> QED  BY <1>1, <2>1, <2>2 DEF Qq!Over
  <1> QED  BY <1>2, <1>3, <1>4, <1>5 DEF QqInv

\* Every step of a connection keeps it.
LEMMA QqConnStep ==
  ASSUME QqInv, NEW k \in Connections,
         \/ Qq!Loop(k) \/ Qq!Connect(k) \/ Qq!Ready(k) \/ Qq!HeartbeatEnds(k)
         \/ Qq!Leave(k) \/ Qq!Fails(k) \/ Qq!BackedOff(k) \/ Qq!Ends(k)
  PROVE  QqInv'
  <1> DEFINE old == conn[k]
  <1>0. /\ old \in ConnRow /\ conn \in [Connections -> ConnRow]
        /\ reconnects \in 0..MaxReconnects /\ MaxReconnects \in Nat
    BY ServicesAssumption DEF QqInv, Qq!TypeOK, ConnRow
  <1>s. /\ old.socket = "open" => old.task \in {"hello", "listening"}
        /\ old.heartbeat = TRUE => old.task = "listening"
    BY DEF QqInv, QqSockets
  <1>u. /\ UNCHANGED <<qq_call, qq_victim, qq_registered>>
        /\ \/ reconnects' = reconnects
           \/ reconnects' = reconnects + 1 /\ reconnects < MaxReconnects
    <2>1. CASE Qq!Leave(k) \/ Qq!Fails(k)
      BY <2>1 DEF Qq!Leave, Qq!Fails
    <2>2. CASE Qq!Loop(k) \/ Qq!BackedOff(k) \/ Qq!Connect(k) \/ Qq!Ready(k)
      BY <2>2 DEF Qq!Loop, Qq!Connect, Qq!Ready, Qq!BackedOff
    <2>3. CASE Qq!HeartbeatEnds(k) \/ Qq!Ends(k)
      BY <2>3 DEF Qq!HeartbeatEnds, Qq!Ends
    <2> QED  BY <2>1, <2>2, <2>3
  <1>r. reconnects' \in 0..MaxReconnects
    BY <1>u, <1>0
  <1>o. old.task \notin {"none", "ended"} => ~Qq!Over(k)
    BY DEF Qq!Over
  <1>k. ASSUME NEW x \in ConnRow, conn' = [conn EXCEPT ![k] = x], ~Qq!Over(k),
               x.socket = "open" => x.task \in {"hello", "listening"},
               x.heartbeat = TRUE => x.task = "listening"
        PROVE  QqInv'
    BY <1>k, <1>u, <1>r, ConnMoves
  <1>1. CASE Qq!Loop(k)
    <2>0. /\ old.task = "looping"
          /\ \/ conn' = [conn EXCEPT ![k].task = "gateway"]
             \/ conn' = [conn EXCEPT ![k].task = "ended"]
             \/ conn' = [conn EXCEPT ![k].running = FALSE, ![k].task = "ended"]
      BY <1>1 DEF Qq!Loop, Qq!At, Qq!Becomes
    <2>1. old.socket = "none" /\ old.heartbeat = FALSE
      BY <2>0, <1>0, <1>s DEF ConnRow
    <2>2. ASSUME NEW x \in {[old EXCEPT !.task = "gateway"], [old EXCEPT !.task = "ended"],
                            [old EXCEPT !.running = FALSE, !.task = "ended"]},
                 conn' = [conn EXCEPT ![k] = x]
          PROVE  QqInv'
      <3>1. x \in ConnRow /\ x.socket = "none" /\ x.heartbeat = FALSE
        BY <1>0, <2>1 DEF ConnRow
      <3> QED  BY <3>1, <2>0, <2>2, <1>o, <1>k
    <2> QED  BY <2>0, <2>2
  <1>2. CASE Qq!Connect(k)
    <2> DEFINE x == [old EXCEPT !.task = "hello", !.socket = "open"]
    <2>0. old.task = "gateway" /\ conn' = [conn EXCEPT ![k] = x]
      BY <1>2 DEF Qq!Connect, Qq!At
    <2>1. x \in ConnRow /\ x.task = "hello" /\ x.heartbeat = FALSE
      BY <2>0, <1>0, <1>s DEF ConnRow
    <2> QED  BY <2>0, <2>1, <1>o, <1>k
  <1>3. CASE Qq!Ready(k)
    <2> DEFINE x == [old EXCEPT !.task = "listening", !.heartbeat = TRUE]
    <2>0. old.task = "hello" /\ conn' = [conn EXCEPT ![k] = x]
      BY <1>3 DEF Qq!Ready, Qq!At
    <2>1. x \in ConnRow /\ x.task = "listening"
      BY <2>0, <1>0 DEF ConnRow
    <2> QED  BY <2>0, <2>1, <1>o, <1>k
  <1>4. CASE Qq!HeartbeatEnds(k)
    <2> DEFINE x == [old EXCEPT !.heartbeat = FALSE]
    <2>0. old.heartbeat /\ conn' = [conn EXCEPT ![k] = x]
      BY <1>4 DEF Qq!HeartbeatEnds
    <2>a. old.task = "listening"
      BY <2>0 DEF QqInv, QqSockets
    <2>1. x \in ConnRow /\ x.task = "listening"
      BY <2>a, <1>0 DEF ConnRow
    <2> QED  BY <2>a, <2>0, <2>1, <1>o, <1>k
  <1>5. CASE Qq!Leave(k)
    <2> DEFINE x == [old EXCEPT !.task = "looping", !.socket = "none", !.heartbeat = FALSE]
    <2>0. old.task = "listening" /\ conn' = [conn EXCEPT ![k] = x]
      BY <1>5 DEF Qq!Leave, Qq!At
    <2>1. x \in ConnRow /\ x.socket = "none" /\ x.heartbeat = FALSE
      BY <1>0 DEF ConnRow
    <2> QED  BY <2>0, <2>1, <1>o, <1>k
  <1>6. CASE Qq!Fails(k)
    <2> DEFINE x == [old EXCEPT !.task = IF old.running THEN "backoff" ELSE "ended",
                                !.socket = "none", !.heartbeat = FALSE]
    <2>0. old.task \in {"gateway", "hello", "listening"} /\ conn' = [conn EXCEPT ![k] = x]
      BY <1>6 DEF Qq!Fails, Qq!At
    <2>1. x \in ConnRow /\ x.socket = "none" /\ x.heartbeat = FALSE
      BY <1>0 DEF ConnRow
    <2> QED  BY <2>0, <2>1, <1>o, <1>k
  <1>7. CASE Qq!BackedOff(k)
    <2> DEFINE x == [old EXCEPT !.task = "looping"]
    <2>0. old.task = "backoff" /\ conn' = [conn EXCEPT ![k] = x]
      BY <1>7 DEF Qq!BackedOff, Qq!At, Qq!Becomes
    <2>1. x \in ConnRow /\ x.socket = "none" /\ x.heartbeat = FALSE
      BY <2>0, <1>0, <1>s DEF ConnRow
    <2> QED  BY <2>0, <2>1, <1>o, <1>k
  <1>8. CASE Qq!Ends(k)
    <2> DEFINE beat == IF old.task = "listening" THEN FALSE ELSE old.heartbeat
               x == [old EXCEPT !.task = "ended", !.socket = "none", !.heartbeat = beat]
    <2>0. ~Qq!Over(k) /\ conn' = [conn EXCEPT ![k] = x]
      BY <1>8 DEF Qq!Ends
    <2>1. beat = FALSE
      BY <1>0, <1>s DEF ConnRow
    <2>2. x \in ConnRow /\ x.socket = "none" /\ x.heartbeat = FALSE
      BY <2>1, <1>0 DEF ConnRow
    <2> QED  BY <2>0, <2>2, <1>k
  <1> QED  BY <1>1, <1>2, <1>3, <1>4, <1>5, <1>6, <1>7, <1>8

\* Every step of a call keeps it.
LEMMA QqCallStep ==
  ASSUME QqInv, NEW c \in Qq!Parties,
         \/ Qq!Begin(c) \/ Qq!Closed(c) \/ Qq!Awaited(c) \/ Qq!Started(c) \/ Qq!Stopped(c)
  PROVE  QqInv'
  <1>0. /\ qq_call \in [Qq!Parties -> QqStops \cup {"off", "stopped", "done"}]
        /\ qq_victim \in [Qq!Parties -> Connections \cup {NoConnection}]
        /\ qq_registered \in Connections \cup {NoConnection}
        /\ conn \in [Connections -> ConnRow]
        /\ NoConnection \notin Connections
    BY ServicesAssumption DEF QqInv, Qq!TypeOK, ConnRow, QqStops
  <1>r. reconnects' = reconnects
    BY DEF Qq!Begin, Qq!Closed, Qq!Awaited, Qq!Started, Qq!Stopped
  <1>t. ASSUME qq_call' \in [Qq!Parties -> QqStops \cup {"off", "stopped", "done"}],
               qq_victim' \in [Qq!Parties -> Connections \cup {NoConnection}],
               qq_registered' \in Connections \cup {NoConnection},
               conn' \in [Connections -> ConnRow]
        PROVE  Qq!TypeOK'
    BY <1>t, <1>r DEF QqInv, Qq!TypeOK, ConnRow, QqStops
  \* What moves when only the call's state does.
  <1>m. ASSUME NEW to \in QqStops \cup {"off", "stopped", "done"},
               qq_call' = [qq_call EXCEPT ![c] = to]
        PROVE  /\ qq_call' \in [Qq!Parties -> QqStops \cup {"off", "stopped", "done"}]
               /\ qq_call'[c] = to
               /\ \A d \in Qq!Parties : d # c => qq_call'[d] = qq_call[d]
    BY <1>m, <1>0
  <1>1. CASE Qq!Begin(c)
    <2>1. /\ qq_call[c] = "off" /\ \A d \in Qq!Parties : ~QqBusy(d)
          /\ qq_registered' = NoConnection
      BY <1>1, <1>0 DEF Qq!Begin, Qq!LockFree, QqBusy, QqStops
    <2>2. /\ qq_victim' \in [Qq!Parties -> Connections \cup {NoConnection}]
          /\ qq_victim'[c] = qq_registered
          /\ \A d \in Qq!Parties : d # c => qq_victim'[d] = qq_victim[d]
      BY <1>1, <1>0 DEF Qq!Begin
    <2>3. PICK to \in {"closing", "passing", "stopped"} :
            /\ qq_call' = [qq_call EXCEPT ![c] = to]
            /\ to = "stopped" <=> qq_registered = NoConnection
      BY <1>1 DEF Qq!Begin
    <2>4. /\ qq_call' \in [Qq!Parties -> QqStops \cup {"off", "stopped", "done"}]
          /\ qq_call'[c] = to
          /\ \A d \in Qq!Parties : d # c => qq_call'[d] = qq_call[d]
      BY <2>3, <1>m DEF QqStops
    <2>5. /\ conn' \in [Connections -> ConnRow]
          /\ \A k \in Connections : /\ conn'[k].task = conn[k].task
                                    /\ conn'[k].socket = conn[k].socket
                                    /\ conn'[k].heartbeat => conn[k].heartbeat
          /\ \A k \in Connections : k # qq_registered => conn'[k] = conn[k]
      <3>1. CASE qq_registered = NoConnection
        BY <3>1, <1>1, <1>0 DEF Qq!Begin
      <3>2. CASE qq_registered \in Connections
        <4> DEFINE x == [conn[qq_registered] EXCEPT !.running = FALSE, !.heartbeat = FALSE]
        <4>1. conn' = [conn EXCEPT ![qq_registered] = x]
          BY <3>2, <1>1, <1>0 DEF Qq!Begin
        <4>2. /\ x \in ConnRow /\ x.task = conn[qq_registered].task
              /\ x.socket = conn[qq_registered].socket /\ x.heartbeat = FALSE
          BY <3>2, <1>0 DEF ConnRow
        <4> HIDE DEF x
        <4> QED  BY <4>1, <4>2, <3>2, <1>0
      <3> QED  BY <3>1, <3>2, <1>0
    <2>6. Qq!TypeOK'
      BY <2>1, <2>2, <2>4, <2>5, <1>t
    <2>7. QqLockInv'
      <3>1. \A d \in Qq!Parties : QqBusy(d)' => d = c
        BY <2>1, <2>4 DEF QqBusy
      <3>2. \A d \in Qq!Parties : qq_call'[d] \in QqStops => qq_victim'[d] \in Connections
        BY <3>1, <2>2, <2>3, <2>4, <1>0 DEF QqBusy, QqStops
      <3> QED  BY <3>1, <3>2, <2>1 DEF QqLockInv
    <2>8. QqSockets'
      BY <2>5 DEF QqInv, QqSockets
    <2>9. Qq!StoppedIsOver'
      <3> SUFFICES ASSUME NEW k \in Connections, ~Qq!BeingStopped(k)'
                   PROVE  Qq!Over(k)' /\ ~conn'[k].heartbeat /\ conn'[k].socket = "none"
        BY DEF Qq!StoppedIsOver
      <3>1. k # qq_registered
        BY <2>2, <2>3, <2>4, <1>0 DEF Qq!BeingStopped
      <3>2. ~Qq!BeingStopped(k)
        BY <2>1 DEF Qq!BeingStopped, QqBusy, QqStops
      <3>3. Qq!Over(k) /\ ~conn[k].heartbeat /\ conn[k].socket = "none"
        BY <3>1, <3>2 DEF QqInv, Qq!StoppedIsOver
      <3> QED  BY <3>1, <3>3, <2>5 DEF Qq!Over
    <2> QED  BY <2>6, <2>7, <2>8, <2>9 DEF QqInv
  \* The call stays busy, or ends, with its victim's being stopped.
  <1>b. ASSUME QqBusy(c)
        PROVE  /\ qq_registered = NoConnection
               /\ \A d \in Qq!Parties : d # c => ~QqBusy(d)
    BY <1>b DEF QqInv, QqLockInv
  <1>2. CASE Qq!Closed(c)
    <2>1. /\ qq_call[c] \in {"closing", "passing"}
          /\ qq_call' = [qq_call EXCEPT ![c] = "awaiting"]
          /\ UNCHANGED <<qq_victim, qq_registered>>
      BY <1>2 DEF Qq!Closed
    <2>2. /\ qq_call' \in [Qq!Parties -> QqStops \cup {"off", "stopped", "done"}]
          /\ qq_call'[c] = "awaiting"
          /\ \A d \in Qq!Parties : d # c => qq_call'[d] = qq_call[d]
      BY <2>1, <1>m DEF QqStops
    <2>3. QqBusy(c) /\ qq_victim[c] \in Connections
      BY <2>1 DEF QqBusy, QqStops, QqInv, QqLockInv
    <2> DEFINE v == qq_victim[c]
               socket == IF qq_call[c] = "closing" THEN "none" ELSE conn[v].socket
               x == [conn[v] EXCEPT !.socket = socket, !.cancelled = ~Qq!Over(v)]
    <2>4. conn' = [conn EXCEPT ![v] = x]
      BY <1>2 DEF Qq!Closed
    <2>5. /\ x \in ConnRow /\ x.task = conn[v].task /\ x.heartbeat = conn[v].heartbeat
          /\ x.socket = socket
      <3>1. conn[v] \in ConnRow
        BY <1>0, <2>3
      <3>2. socket \in {"none", "open"}
        BY <3>1 DEF ConnRow
      <3>3. (~Qq!Over(v)) \in BOOLEAN
        OBVIOUS
      <3> HIDE DEF v, socket
      <3> QED  BY <3>1, <3>2, <3>3 DEF ConnRow
    <2>6. /\ conn' \in [Connections -> ConnRow]
          /\ \A k \in Connections : /\ conn'[k].task = conn[k].task
                                    /\ conn'[k].socket \in {"none", conn[k].socket}
                                    /\ conn'[k].heartbeat = conn[k].heartbeat
      <3> HIDE DEF x
      <3>1. conn' \in [Connections -> ConnRow]
        BY <2>4, <2>5, <1>0
      <3>2. conn'[v] = x /\ \A k \in Connections : k # v => conn'[k] = conn[k]
        BY <2>3, <2>4, <1>0
      <3> QED  BY <3>1, <3>2, <2>5
    <2>7. Qq!TypeOK'
      BY <2>1, <2>2, <2>6, <1>0, <1>t
    <2>8. QqLockInv'
      BY <2>1, <2>2, <2>3, <1>b DEF QqInv, QqLockInv, QqBusy
    <2>9. QqSockets'
      BY <2>6 DEF QqInv, QqSockets
    <2>10. Qq!StoppedIsOver'
      <3> SUFFICES ASSUME NEW k \in Connections, k # qq_registered, ~Qq!BeingStopped(k)'
                   PROVE  Qq!Over(k)' /\ ~conn'[k].heartbeat /\ conn'[k].socket = "none"
        BY <2>1 DEF Qq!StoppedIsOver
      <3>1. ~Qq!BeingStopped(k)
        BY <2>1, <2>2 DEF Qq!BeingStopped
      <3>2. Qq!Over(k) /\ ~conn[k].heartbeat /\ conn[k].socket = "none"
        BY <3>1 DEF QqInv, Qq!StoppedIsOver
      <3> QED  BY <3>2, <2>6 DEF Qq!Over
    <2> QED  BY <2>7, <2>8, <2>9, <2>10 DEF QqInv
  <1>3. CASE Qq!Awaited(c) \/ Qq!Stopped(c)
    <2>1. PICK to \in {"stopped", "done"} :
            /\ qq_call' = [qq_call EXCEPT ![c] = to]
            /\ UNCHANGED <<qq_victim, qq_registered, conn>>
            /\ QqBusy(c)
            /\ qq_call[c] = "awaiting" => Qq!Over(qq_victim[c])
            /\ qq_call[c] \in {"awaiting", "stopped"}
      BY <1>3 DEF Qq!Awaited, Qq!Stopped, QqBusy, QqStops
    <2>2. /\ qq_call' \in [Qq!Parties -> QqStops \cup {"off", "stopped", "done"}]
          /\ qq_call'[c] = to
          /\ \A d \in Qq!Parties : d # c => qq_call'[d] = qq_call[d]
      BY <2>1, <1>m DEF QqStops
    <2>3. Qq!TypeOK'
      BY <2>1, <2>2, <1>0, <1>t
    <2>4. QqLockInv'
      BY <2>1, <2>2, <1>b DEF QqInv, QqLockInv, QqBusy, QqStops
    <2>5. QqSockets'
      BY <2>1 DEF QqInv, QqSockets
    <2>6. Qq!StoppedIsOver'
      <3> SUFFICES ASSUME NEW k \in Connections, ~Qq!BeingStopped(k)'
                   PROVE  Qq!Over(k) /\ ~conn[k].heartbeat /\ conn[k].socket = "none"
        BY <2>1 DEF Qq!StoppedIsOver, Qq!Over
      <3>1. CASE Qq!BeingStopped(k)
        <4>1. qq_victim[c] = k /\ qq_call[c] = "awaiting"
          BY <3>1, <2>1, <2>2 DEF Qq!BeingStopped, QqStops
        <4>2. Qq!Over(k)
          BY <4>1, <2>1
        <4> QED  BY <4>2, <1>0 DEF QqInv, QqSockets, Qq!Over, ConnRow
      <3>2. CASE ~Qq!BeingStopped(k)
        BY <3>2, <2>1, <1>b, <1>0 DEF QqInv, Qq!StoppedIsOver
      <3> QED  BY <3>1, <3>2
    <2> QED  BY <2>3, <2>4, <2>5, <2>6 DEF QqInv
  <1>4. CASE Qq!Started(c)
    <2>1. /\ qq_call[c] = "stopped" /\ QqBusy(c)
          /\ qq_call' = [qq_call EXCEPT ![c] = "done"] /\ UNCHANGED qq_victim
      BY <1>4 DEF Qq!Started, QqBusy
    <2>2. /\ qq_call' \in [Qq!Parties -> QqStops \cup {"off", "stopped", "done"}]
          /\ qq_call'[c] = "done"
          /\ \A d \in Qq!Parties : d # c => qq_call'[d] = qq_call[d]
      BY <2>1, <1>m
    <2>3. PICK k \in Connections :
            /\ conn[k] = Qq!NotYet
            /\ conn' = [conn EXCEPT ![k].running = TRUE, ![k].task = "looping"]
            /\ qq_registered' = k
      BY <1>4 DEF Qq!Started
    <2> DEFINE x == [conn[k] EXCEPT !.running = TRUE, !.task = "looping"]
    <2>4. x \in ConnRow /\ x.socket = "none" /\ x.heartbeat = FALSE
      BY <2>3, <1>0 DEF ConnRow, Qq!NotYet
    <2>5. conn' = [conn EXCEPT ![k] = x]
      BY <2>3
    <2> HIDE DEF x
    <2>6. /\ conn' \in [Connections -> ConnRow] /\ conn'[k] = x
          /\ \A j \in Connections : j # k => conn'[j] = conn[j]
      BY <2>4, <2>5, <1>0
    <2>7. Qq!TypeOK'
      BY <2>1, <2>2, <2>3, <2>6, <1>0, <1>t
    <2>8. \A d \in Qq!Parties : ~QqBusy(d)'
      BY <2>1, <2>2, <1>b DEF QqBusy, QqStops
    <2>9. QqLockInv'
      BY <2>8 DEF QqLockInv, QqBusy
    <2>10. QqSockets'
      <3> SUFFICES ASSUME NEW j \in Connections
                   PROVE  /\ conn'[j].socket = "open" => conn'[j].task \in {"hello", "listening"}
                          /\ conn'[j].heartbeat => conn'[j].task = "listening"
        BY DEF QqSockets
      <3>1. CASE j = k
        BY <3>1, <2>4, <2>6
      <3>2. CASE j # k
        BY <3>2, <2>6 DEF QqInv, QqSockets
      <3> QED  BY <3>1, <3>2
    <2>11. Qq!StoppedIsOver'
      <3> SUFFICES ASSUME NEW j \in Connections, j # k
                   PROVE  Qq!Over(j)' /\ ~conn'[j].heartbeat /\ conn'[j].socket = "none"
        BY <2>3 DEF Qq!StoppedIsOver
      <3>1. ~Qq!BeingStopped(j)
        BY <2>1, <1>b DEF Qq!BeingStopped, QqBusy, QqStops
      <3>2. Qq!Over(j) /\ ~conn[j].heartbeat /\ conn[j].socket = "none"
        BY <3>1, <2>1, <1>b, <1>0 DEF QqInv, Qq!StoppedIsOver
      <3> QED  BY <3>2, <2>6 DEF Qq!Over
    <2> QED  BY <2>7, <2>9, <2>10, <2>11 DEF QqInv
  <1> QED  BY <1>1, <1>2, <1>3, <1>4

\* So does every step.
LEMMA QqStep == QqInv /\ [Qq!Next]_qqVars => QqInv'
  <1> SUFFICES ASSUME QqInv, [Qq!Next]_qqVars  PROVE QqInv'
    OBVIOUS
  <1>1. CASE UNCHANGED qqVars
    BY <1>1 DEF qqVars, QqInv, Qq!TypeOK, QqLockInv, QqBusy, QqSockets,
                Qq!StoppedIsOver, Qq!BeingStopped, Qq!Over
  <1>2. CASE Qq!Next
    BY <1>2, QqCallStep, QqConnStep DEF Qq!Next
  <1> QED  BY <1>1, <1>2

-----------------------------------------------------------------------------
(* Lark's threads (LarkConnections.tla)                                    *)

Up == Lark!Running \cup {"ready"}
Through == {"clearing", "starting", "done"}

\* Each starting call has a connection of its own, whose thread it has not
\* started before it is done, and no other thread is there.
LarkOwners ==
  /\ \A c, d \in Lark!Parties : mine[c] = mine[d] /\ mine[c] # Nothing => c = d
  /\ \A c \in Lark!Parties :
       /\ lark_call[c] = "off" => mine[c] = Nothing
       /\ lark_call[c] # "off" /\ c \in LarkStarters => mine[c] \in LarkConns
       /\ lark_call[c] = "starting" => c \in LarkStarters
       /\ lark_call[c] # "done" /\ mine[c] # Nothing => thread[mine[c]] = "none"
       /\ lark_call[c] \in {"stopping", "disconnecting", "clearing"} =>
            lark_victim[c] \in LarkConns
  /\ \A k \in LarkConns : (\A c \in Lark!Parties : mine[c] # k) => thread[k] = "none"

\* A client at work is published, or its loop is told to stop. A connection
\* whose stop has looked for the client has its flag set and makes none, and one
\* whose stop has done all it does is told to stop, if it is at work.
Published(k) == thread[k] \in Up /\ k \notin slipped => k \in client \/ k \in halting
Flagged(k) == k \notin slipped => k \in stop /\ thread[k] # "making"
Told(k) ==
  k \notin slipped => /\ k \in stop \/ thread[k] = "ended"
                      /\ thread[k] # "making"
                      /\ thread[k] \in Up => k \in halting

LarkStops ==
  /\ \A k \in LarkConns : Published(k)
  /\ \A c \in Lark!Parties, k \in LarkConns :
       lark_victim[c] = k => /\ lark_call[c] = "disconnecting" => Flagged(k)
                             /\ lark_call[c] \in Through => Told(k)

LarkInv == Lark!TypeOK /\ LarkOwners /\ LarkStops

\* The Lark threads' invariant holds before the first call.
LEMMA LarkStart == Lark!Init => LarkInv
  <1> SUFFICES ASSUME Lark!Init  PROVE LarkInv
    OBVIOUS
  <1> USE ServicesAssumption DEF Lark!Init
  <1>1. Lark!TypeOK
    BY DEF Lark!TypeOK, Lark!Phases
  <1>2. LarkOwners
    BY DEF LarkOwners
  <1>3. LarkStops
    BY DEF LarkStops, Published, Up, Lark!Running, Through
  <1> QED  BY <1>1, <1>2, <1>3 DEF LarkInv

\* A step of one thread that has been started leaves the rest as it was.
LEMMA ThreadMoves ==
  ASSUME LarkInv, NEW k \in LarkConns, thread[k] # "none",
         NEW to \in Lark!Phases, thread' = [thread EXCEPT ![k] = to],
         UNCHANGED <<lark_call, lark_victim, mine, lark_registered, stop>>,
         client' \subseteq LarkConns, halting' \subseteq LarkConns, slipped' \subseteq LarkConns,
         errors' \in 0..MaxErrors,
         \A j \in LarkConns : j # k => /\ j \in client' <=> j \in client
                                       /\ j \in halting' <=> j \in halting
                                       /\ j \in slipped' <=> j \in slipped,
         Published(k)', Flagged(k) => Flagged(k)', Told(k) => Told(k)'
  PROVE  LarkInv'
  <1>1. /\ thread' \in [LarkConns -> Lark!Phases] /\ thread'[k] = to
        /\ \A j \in LarkConns : j # k => thread'[j] = thread[j]
    BY DEF LarkInv, Lark!TypeOK
  <1>2. Lark!TypeOK'
    BY <1>1 DEF LarkInv, Lark!TypeOK
  <1>3. LarkOwners'
    <2>1. \A c \in Lark!Parties : mine[c] \in LarkConns \cup {Nothing}
      BY DEF LarkInv, Lark!TypeOK
    <2> QED  BY <1>1, <2>1 DEF LarkInv, LarkOwners
  <1>4. \A j \in LarkConns : Published(j)' /\ (Flagged(j) => Flagged(j)') /\ (Told(j) => Told(j)')
    <2> SUFFICES ASSUME NEW j \in LarkConns, j # k
                 PROVE  Published(j)' /\ (Flagged(j) => Flagged(j)') /\ (Told(j) => Told(j)')
      OBVIOUS
    <2>1. Published(j)
      BY DEF LarkInv, LarkStops
    <2> QED  BY <1>1, <2>1 DEF Published, Flagged, Told
  <1>5. LarkStops'
    BY <1>4 DEF LarkInv, LarkStops
  <1> QED  BY <1>2, <1>3, <1>5 DEF LarkInv

\* Every step of a thread keeps it.
LEMMA LarkThreadStep ==
  ASSUME LarkInv, NEW k \in LarkConns,
         \/ Lark!Check(k) \/ Lark!Publish(k) \/ Lark!Proceed(k) \/ Lark!Halt(k)
         \/ Lark!ConnectFails(k) \/ Lark!GivesUp(k) \/ Lark!Leave(k) \/ Lark!Delayed(k)
  PROVE  LarkInv'
  <1>0. /\ client \subseteq LarkConns /\ halting \subseteq LarkConns /\ slipped \subseteq LarkConns
        /\ thread \in [LarkConns -> Lark!Phases] /\ errors \in 0..MaxErrors /\ MaxErrors \in Nat
        /\ Published(k)
    BY ServicesAssumption DEF LarkInv, Lark!TypeOK, LarkStops
  <1> DEFINE Moves(to) == /\ to \in Lark!Phases /\ thread[k] # "none"
                          /\ thread' = [thread EXCEPT ![k] = to]
                          /\ UNCHANGED <<lark_call, lark_victim, mine, lark_registered, stop>>
  <1>p. /\ Lark!Phases = Up \cup {"none", "check", "making", "leaving", "delay", "ended"}
        /\ Up = {"connecting", "reconnecting", "serving", "orphaned", "ready"}
    BY DEF Lark!Phases, Up, Lark!Running
  <1>m. ASSUME NEW to, Moves(to)  PROVE thread'[k] = to
    BY <1>m, <1>0
  <1>1. CASE Lark!Check(k)
    <2> DEFINE to == IF k \in stop THEN "ended" ELSE "making"
    <2>1. Moves(to) /\ thread[k] = "check" /\ UNCHANGED <<client, halting, slipped, errors>>
      BY <1>1, <1>p DEF Lark!Check, Lark!Goes
    <2>2. thread'[k] = to
      BY <2>1, <1>m
    <2>3. Published(k)' /\ (Flagged(k) => Flagged(k)') /\ (Told(k) => Told(k)')
      BY <2>1, <2>2, <1>p DEF Published, Flagged, Told
    <2> QED  BY <2>1, <2>3, <1>0, ThreadMoves
  <1>2. CASE Lark!Publish(k)
    <2>1. /\ Moves("ready") /\ thread[k] = "making" /\ client' = client \cup {k}
          /\ UNCHANGED <<halting, slipped, errors>>
      BY <1>2, <1>p DEF Lark!Publish, Lark!Goes
    <2>2. thread'[k] = "ready"
      BY <2>1, <1>m
    <2>3. Published(k)' /\ (Flagged(k) => Flagged(k)') /\ (Told(k) => Told(k)')
      BY <2>1, <2>2, <1>p DEF Published, Flagged, Told
    <2> QED  BY <2>1, <2>3, <1>0, ThreadMoves
  <1>3. CASE Lark!Proceed(k)
    <2>1. PICK to \in {"connecting", "serving"} :
            /\ Moves(to) /\ thread[k] \in {"ready", "connecting", "reconnecting"}
            /\ k \notin halting
            /\ UNCHANGED <<client, halting, slipped, errors>>
      BY <1>3, <1>p DEF Lark!Proceed, Lark!Goes
    <2>2. thread'[k] = to
      BY <2>1, <1>m
    <2>3. Published(k)' /\ (Flagged(k) => Flagged(k)') /\ (Told(k) => Told(k)')
      BY <2>1, <2>2, <1>p, <1>0 DEF Published, Flagged, Told
    <2> QED  BY <2>1, <2>3, <1>0, ThreadMoves
  <1>4. CASE Lark!Halt(k)
    <2>1. PICK to \in {"reconnecting", "leaving"} :
            /\ Moves(to) /\ thread[k] \in Up
            /\ halting' = halting \ {k} /\ UNCHANGED <<client, errors>>
            /\ to = "reconnecting" => thread[k] \in {"ready", "connecting"}
      BY <1>4, <1>p DEF Lark!Halt, Lark!Goes
    <2>2. thread'[k] = to
      BY <2>1, <1>m
    <2>3. /\ slipped' \in {slipped, slipped \cup {k}}
          /\ to = "reconnecting" => k \in slipped'
      BY <1>4, <2>1 DEF Lark!Halt
    <2>4. Published(k)' /\ (Flagged(k) => Flagged(k)') /\ (Told(k) => Told(k)')
      BY <2>1, <2>2, <2>3, <1>p DEF Published, Flagged, Told
    <2>5. /\ slipped' \subseteq LarkConns
          /\ \A j \in LarkConns : j # k => (j \in slipped' <=> j \in slipped)
      BY <2>3, <1>0
    <2> QED  BY <2>1, <2>4, <2>5, <1>0, <1>p, ThreadMoves
  <1>5. CASE Lark!ConnectFails(k) \/ Lark!GivesUp(k)
    <2>1. PICK to \in {"reconnecting", "leaving", "orphaned"} :
            /\ Moves(to) /\ thread[k] \in {"connecting", "reconnecting", "serving"}
            /\ k \notin halting
            /\ UNCHANGED <<client, halting, slipped>>
      BY <1>5, <1>p DEF Lark!ConnectFails, Lark!GivesUp, Lark!Error, Lark!Goes
    <2>e. errors' \in 0..MaxErrors
      BY <1>5, <1>0 DEF Lark!ConnectFails, Lark!GivesUp, Lark!Error
    <2>2. thread'[k] = to
      BY <2>1, <1>m
    <2>3. Published(k)' /\ (Flagged(k) => Flagged(k)') /\ (Told(k) => Told(k)')
      BY <2>1, <2>2, <1>p, <1>0 DEF Published, Flagged, Told
    <2> QED  BY <2>1, <2>e, <2>3, <1>0, ThreadMoves
  <1>6. CASE Lark!Leave(k)
    <2> DEFINE to == IF k \in stop THEN "ended" ELSE "delay"
    <2>1. /\ Moves(to) /\ thread[k] = "leaving"
          /\ client' = client \ {k} /\ halting' = halting \ {k} /\ UNCHANGED <<slipped, errors>>
      BY <1>6, <1>p DEF Lark!Leave, Lark!Goes
    <2>2. thread'[k] = to
      BY <2>1, <1>m
    <2>3. Published(k)' /\ (Flagged(k) => Flagged(k)') /\ (Told(k) => Told(k)')
      BY <2>1, <2>2, <1>p DEF Published, Flagged, Told
    <2> QED  BY <2>1, <2>3, <1>0, ThreadMoves
  <1>7. CASE Lark!Delayed(k)
    <2>1. Moves("check") /\ thread[k] = "delay" /\ UNCHANGED <<client, halting, slipped, errors>>
      BY <1>7, <1>p DEF Lark!Delayed, Lark!Goes
    <2>2. thread'[k] = "check"
      BY <2>1, <1>m
    <2>3. Published(k)' /\ (Flagged(k) => Flagged(k)') /\ (Told(k) => Told(k)')
      BY <2>1, <2>2, <1>p DEF Published, Flagged, Told
    <2> QED  BY <2>1, <2>3, <1>0, ThreadMoves
  <1> QED  BY <1>1, <1>2, <1>3, <1>4, <1>5, <1>6, <1>7

\* Every step of a call keeps it.
LEMMA LarkCallStep ==
  ASSUME LarkInv, NEW c \in Lark!Parties,
         \/ Lark!StartListening(c) \/ Lark!StopListening(c) \/ Lark!SetFlag(c)
         \/ Lark!Disconnected(c) \/ Lark!Clear(c) \/ Lark!StartThread(c)
  PROVE  LarkInv'
  <1> DEFINE States == {"off", "stopping", "disconnecting", "clearing", "starting", "done"}
  <1>0. /\ lark_call \in [Lark!Parties -> States]
        /\ lark_victim \in [Lark!Parties -> LarkConns \cup {Nothing}]
        /\ mine \in [Lark!Parties -> LarkConns \cup {Nothing}]
        /\ lark_registered \in LarkConns \cup {Nothing}
        /\ client \subseteq LarkConns /\ halting \subseteq LarkConns
        /\ slipped \subseteq LarkConns /\ stop \subseteq LarkConns
        /\ thread \in [LarkConns -> Lark!Phases] /\ errors \in 0..MaxErrors
        /\ Nothing \notin LarkConns
    BY ServicesAssumption DEF LarkInv, Lark!TypeOK
  <1>p. Lark!Phases = Up \cup {"none", "check", "making", "leaving", "delay", "ended"}
    BY DEF Lark!Phases, Up, Lark!Running
  <1>k. \A k \in LarkConns : Published(k)
    BY DEF LarkInv, LarkStops
  <1>m. ASSUME NEW to \in States, Lark!CallGoes(c, to)
        PROVE  /\ lark_call' \in [Lark!Parties -> States] /\ lark_call'[c] = to
               /\ \A d \in Lark!Parties : d # c => lark_call'[d] = lark_call[d]
    BY <1>m, <1>0 DEF Lark!CallGoes
  \* A call past its beginning goes on, and only flags, clients and what loops
  \* are told change.
  <1>g. ASSUME NEW from \in States, NEW to \in States, lark_call[c] = from, Lark!CallGoes(c, to),
               from # "off", to # "off", from # "done",
               UNCHANGED <<lark_victim, mine, lark_registered, thread, errors>>,
               stop \subseteq stop', stop' \subseteq LarkConns, client' \subseteq client,
               halting \subseteq halting', halting' \subseteq LarkConns,
               slipped \subseteq slipped', slipped' \subseteq LarkConns,
               to \in {"stopping", "disconnecting", "clearing"} => lark_victim[c] \in LarkConns,
               to = "starting" => c \in LarkStarters,
               \A k \in LarkConns : Published(k)',
               NEW v \in LarkConns, lark_victim[c] = v,
               to = "disconnecting" => Flagged(v)', to \in Through => Told(v)'
        PROVE  LarkInv'
    <2>1. /\ lark_call' \in [Lark!Parties -> States] /\ lark_call'[c] = to
          /\ \A d \in Lark!Parties : d # c => lark_call'[d] = lark_call[d]
      BY <1>m, <1>g
    <2>2. Lark!TypeOK'
      BY <1>g, <1>0, <2>1 DEF LarkInv, Lark!TypeOK
    <2>3. LarkOwners'
      BY <1>g, <1>0, <2>1 DEF LarkInv, LarkOwners
    <2>4. \A k \in LarkConns : (Flagged(k) => Flagged(k)') /\ (Told(k) => Told(k)')
      BY <1>g DEF Flagged, Told
    <2>5. LarkStops'
      <3> SUFFICES ASSUME NEW d \in Lark!Parties, NEW k \in LarkConns, lark_victim[d] = k
                   PROVE  /\ lark_call'[d] = "disconnecting" => Flagged(k)'
                          /\ lark_call'[d] \in Through => Told(k)'
        BY <1>g DEF LarkStops
      <3>1. CASE d = c
        BY <3>1, <2>1, <1>g
      <3>2. CASE d # c
        BY <3>2, <2>1, <2>4 DEF LarkInv, LarkStops
      <3> QED  BY <3>1, <3>2
    <2> QED  BY <2>2, <2>3, <2>5 DEF LarkInv
  <1>1. CASE Lark!StartListening(c)
    <2>1. /\ c \in LarkStarters /\ lark_call[c] = "off" /\ mine[c] = Nothing
          /\ lark_victim' = [lark_victim EXCEPT ![c] = lark_registered]
          /\ UNCHANGED <<stop, client, thread, halting, errors>>
      BY <1>1 DEF Lark!StartListening, LarkInv, LarkOwners
    <2>2. PICK k \in LarkConns : /\ k \notin {mine[d] : d \in Lark!Parties}
                                 /\ mine' = [mine EXCEPT ![c] = k]
                                 /\ lark_registered' = k
      BY <1>1 DEF Lark!StartListening
    <2>3. PICK to \in {"stopping", "starting"} :
            /\ Lark!CallGoes(c, to)
            /\ to = "stopping" => lark_registered # Nothing
            /\ to = "starting" /\ lark_registered # Nothing => ~Lark!Alive(lark_registered)
      BY <1>1 DEF Lark!StartListening
    <2>4. /\ slipped \subseteq slipped' /\ slipped' \subseteq LarkConns
          /\ lark_registered # Nothing /\ thread[lark_registered] = "none" =>
               lark_registered \in slipped'
      BY <1>1, <1>0 DEF Lark!StartListening
    <2>5. /\ lark_call' \in [Lark!Parties -> States] /\ lark_call'[c] = to
          /\ \A d \in Lark!Parties : d # c => lark_call'[d] = lark_call[d]
      BY <2>3, <1>m
    <2>6. /\ mine' \in [Lark!Parties -> LarkConns \cup {Nothing}] /\ mine'[c] = k
          /\ \A d \in Lark!Parties : d # c => mine'[d] = mine[d] /\ mine[d] # k
          /\ lark_victim' \in [Lark!Parties -> LarkConns \cup {Nothing}]
          /\ lark_victim'[c] = lark_registered
          /\ \A d \in Lark!Parties : d # c => lark_victim'[d] = lark_victim[d]
      BY <2>1, <2>2, <1>0
    <2>7. Lark!TypeOK'
      BY <1>0, <2>1, <2>2, <2>4, <2>5, <2>6 DEF LarkInv, Lark!TypeOK
    <2>8. thread[k] = "none"
      BY <2>2 DEF LarkInv, LarkOwners
    <2>9. LarkOwners'
      <3>1. \A d, e \in Lark!Parties : mine'[d] = mine'[e] /\ mine'[d] # Nothing => d = e
        BY <2>6 DEF LarkInv, LarkOwners
      <3>2. ASSUME NEW d \in Lark!Parties
            PROVE  /\ lark_call'[d] = "off" => mine'[d] = Nothing
                   /\ lark_call'[d] # "off" /\ d \in LarkStarters => mine'[d] \in LarkConns
                   /\ lark_call'[d] = "starting" => d \in LarkStarters
                   /\ lark_call'[d] # "done" /\ mine'[d] # Nothing => thread'[mine'[d]] = "none"
                   /\ lark_call'[d] \in {"stopping", "disconnecting", "clearing"} =>
                        lark_victim'[d] \in LarkConns
        <4>1. CASE d = c
          BY <4>1, <2>1, <2>3, <2>5, <2>6, <2>8, <1>0
        <4>2. CASE d # c
          BY <4>2, <2>1, <2>5, <2>6 DEF LarkInv, LarkOwners
        <4> QED  BY <4>1, <4>2
      <3>3. \A j \in LarkConns : (\A d \in Lark!Parties : mine'[d] # j) => thread'[j] = "none"
        <4> SUFFICES ASSUME NEW j \in LarkConns, \A d \in Lark!Parties : mine'[d] # j
                     PROVE  thread[j] = "none"
          BY <2>1
        <4>1. \A d \in Lark!Parties : mine[d] # j
          BY <2>1, <2>6, <1>0
        <4> QED  BY <4>1 DEF LarkInv, LarkOwners
      <3> QED  BY <3>1, <3>2, <3>3 DEF LarkOwners
    <2>10. LarkStops'
      <3>1. \A j \in LarkConns :
              Published(j)' /\ (Flagged(j) => Flagged(j)') /\ (Told(j) => Told(j)')
        BY <1>k, <2>1, <2>4 DEF Published, Flagged, Told
      <3>2. ASSUME to = "starting", NEW j \in LarkConns, lark_registered = j  PROVE Told(j)'
        BY <3>2, <2>1, <2>3, <2>4, <1>0 DEF Told, Lark!Alive, Up, Lark!Running
      <3>3. ASSUME NEW d \in Lark!Parties, NEW j \in LarkConns, lark_victim'[d] = j
            PROVE  /\ lark_call'[d] = "disconnecting" => Flagged(j)'
                   /\ lark_call'[d] \in Through => Told(j)'
        <4>1. CASE d = c
          <5>1. lark_call'[d] = to /\ lark_registered = j
            BY <4>1, <2>5, <2>6, <3>3
          <5> QED  BY <5>1, <3>2, <2>3 DEF Through
        <4>2. CASE d # c
          <5>1. lark_call'[d] = lark_call[d] /\ lark_victim[d] = j
            BY <4>2, <2>5, <2>6, <3>3
          <5> QED  BY <5>1, <3>1, <3>3 DEF LarkInv, LarkStops
        <4> QED  BY <4>1, <4>2
      <3> QED  BY <3>1, <3>3 DEF LarkStops
    <2> QED  BY <2>7, <2>9, <2>10 DEF LarkInv
  <1>2. CASE Lark!StopListening(c)
    <2>1. /\ c \in LarkStoppers /\ lark_call[c] = "off" /\ lark_registered \in LarkConns
          /\ lark_victim' = [lark_victim EXCEPT ![c] = lark_registered]
          /\ lark_registered' = Nothing
          /\ Lark!CallGoes(c, "stopping")
          /\ UNCHANGED <<mine, stop, client, thread, halting, errors, slipped>>
      BY <1>2, <1>0 DEF Lark!StopListening
    <2>2. /\ lark_call' \in [Lark!Parties -> States] /\ lark_call'[c] = "stopping"
          /\ \A d \in Lark!Parties : d # c => lark_call'[d] = lark_call[d]
      BY <2>1, <1>m
    <2>3. /\ lark_victim' \in [Lark!Parties -> LarkConns \cup {Nothing}]
          /\ lark_victim'[c] = lark_registered
          /\ \A d \in Lark!Parties : d # c => lark_victim'[d] = lark_victim[d]
      BY <2>1, <1>0
    <2>4. Lark!TypeOK'
      BY <1>0, <2>1, <2>2, <2>3 DEF LarkInv, Lark!TypeOK
    <2>5. c \notin LarkStarters
      BY <2>1, ServicesAssumption
    <2>6. LarkOwners'
      BY <1>0, <2>1, <2>2, <2>3, <2>5 DEF LarkInv, LarkOwners
    <2>7. LarkStops'
      <3>1. \A j \in LarkConns :
              Published(j)' /\ (Flagged(j) => Flagged(j)') /\ (Told(j) => Told(j)')
        BY <1>k, <2>1 DEF Published, Flagged, Told
      <3> QED  BY <3>1, <2>2, <2>3 DEF LarkInv, LarkStops, Through
    <2> QED  BY <2>4, <2>6, <2>7 DEF LarkInv
  <1>3. CASE Lark!SetFlag(c)
    <2> DEFINE v == lark_victim[c]
    <2>1. /\ lark_call[c] = "stopping" /\ v \in LarkConns
          /\ stop' = stop \cup {v}
          /\ UNCHANGED <<lark_victim, mine, lark_registered, client, thread, halting, errors>>
      BY <1>3 DEF Lark!SetFlag, LarkInv, LarkOwners
    <2>2. PICK to \in {"disconnecting", "clearing"} :
            /\ Lark!CallGoes(c, to)
            /\ to = "clearing" => v \notin client \/ ~Lark!LoopOpen(v)
      BY <1>3 DEF Lark!SetFlag
    <2>3. /\ slipped \subseteq slipped' /\ slipped' \subseteq LarkConns
          /\ thread[v] = "making" => v \in slipped'
      BY <1>3, <2>1, <1>0 DEF Lark!SetFlag
    <2>4. \A j \in LarkConns : Published(j)'
      BY <1>k, <2>1, <2>3 DEF Published
    <2>5. Flagged(v)'
      BY <2>1, <2>3 DEF Flagged
    <2>6. to = "clearing" => Told(v)'
      <3> SUFFICES ASSUME to = "clearing", v \notin slipped'  PROVE Told(v)'
        BY <2>1 DEF Told
      <3>1. thread[v] \in Up => v \in halting
        BY <1>k, <2>1, <2>2, <2>3 DEF Published, Lark!LoopOpen, Up
      <3> QED  BY <3>1, <2>1, <2>3 DEF Told
    <2> HIDE DEF v
    <2>7. /\ stop \subseteq stop' /\ stop' \subseteq LarkConns
          /\ client' \subseteq client /\ halting \subseteq halting' /\ halting' \subseteq LarkConns
      BY <2>1, <1>0
    <2> QED  BY <2>1, <2>2, <2>3, <2>4, <2>5, <2>6, <2>7, <1>g DEF v, Through
  <1>4. CASE Lark!Disconnected(c)
    <2> DEFINE v == lark_victim[c]
    <2>1. /\ lark_call[c] = "disconnecting" /\ v \in LarkConns /\ Lark!CallGoes(c, "clearing")
          /\ halting' = IF Lark!LoopOpen(v) THEN halting \cup {v} ELSE halting
          /\ UNCHANGED <<lark_victim, mine, lark_registered, stop, client, thread, errors, slipped>>
      BY <1>4 DEF Lark!Disconnected, LarkInv, LarkOwners
    <2>2. halting \subseteq halting' /\ halting' \subseteq LarkConns
      BY <2>1, <1>0
    <2>3. \A j \in LarkConns : Published(j)'
      BY <1>k, <2>1, <2>2 DEF Published
    <2>4. Flagged(v)
      BY <2>1 DEF LarkInv, LarkStops
    <2>5. Told(v)'
      BY <2>1, <2>4 DEF Flagged, Told, Lark!LoopOpen, Up
    <2> HIDE DEF v
    <2> QED  BY <2>1, <2>2, <2>3, <2>5, <1>0, <1>g DEF v, Through
  <1>5. CASE Lark!Clear(c)
    <2> DEFINE v == lark_victim[c]
               to == IF c \in LarkStarters THEN "starting" ELSE "done"
    <2>1. /\ lark_call[c] = "clearing" /\ v \in LarkConns /\ Lark!CallGoes(c, to)
          /\ client' = client \ {v}
          /\ UNCHANGED <<lark_victim, mine, lark_registered, stop, thread, halting, errors, slipped>>
      BY <1>5 DEF Lark!Clear, LarkInv, LarkOwners
    <2>2. Told(v)
      BY <2>1 DEF LarkInv, LarkStops, Through
    <2>3. Told(v)'
      BY <2>1, <2>2 DEF Told
    <2>4. \A j \in LarkConns : Published(j)'
      BY <1>k, <2>1, <2>2 DEF Published, Told
    <2>5. to \in {"starting", "done"} /\ (to = "starting" => c \in LarkStarters)
      OBVIOUS
    <2> HIDE DEF v, to
    <2> QED  BY <2>1, <2>3, <2>4, <2>5, <1>0, <1>g DEF v, Through
  <1>6. CASE Lark!StartThread(c)
    <2> DEFINE k == mine[c]
    <2>1. /\ lark_call[c] = "starting" /\ Lark!CallGoes(c, "done")
          /\ thread' = [thread EXCEPT ![k] = "check"]
          /\ UNCHANGED <<lark_victim, mine, lark_registered, stop, client, halting, errors, slipped>>
      BY <1>6 DEF Lark!StartThread
    <2>2. k \in LarkConns /\ thread[k] = "none"
      BY <2>1, <1>0 DEF LarkInv, LarkOwners
    <2>3. /\ lark_call' \in [Lark!Parties -> States] /\ lark_call'[c] = "done"
          /\ \A d \in Lark!Parties : d # c => lark_call'[d] = lark_call[d]
      BY <2>1, <1>m
    <2>4. /\ thread' \in [LarkConns -> Lark!Phases] /\ thread'[k] = "check"
          /\ \A j \in LarkConns : j # k => thread'[j] = thread[j]
      BY <2>1, <2>2, <1>0, <1>p
    <2>5. Lark!TypeOK'
      BY <1>0, <2>1, <2>3, <2>4 DEF LarkInv, Lark!TypeOK
    <2>6. LarkOwners'
      <3>1. \A d \in Lark!Parties : d # c /\ mine[d] # Nothing => mine[d] # k
        BY <2>2, <1>0 DEF LarkInv, LarkOwners
      <3> QED  BY <3>1, <1>0, <2>1, <2>2, <2>3, <2>4 DEF LarkInv, LarkOwners
    <2>7. \A j \in LarkConns :
            Published(j)' /\ (Flagged(j) => Flagged(j)') /\ (Told(j) => Told(j)')
      <3> SUFFICES ASSUME NEW j \in LarkConns
                   PROVE  Published(j)' /\ (Flagged(j) => Flagged(j)') /\ (Told(j) => Told(j)')
        OBVIOUS
      <3>1. CASE j = k
        BY <3>1, <2>1, <2>2, <2>4 DEF Published, Flagged, Told, Up, Lark!Running
      <3>2. CASE j # k
        BY <3>2, <1>k, <2>1, <2>4 DEF Published, Flagged, Told
      <3> QED  BY <3>1, <3>2
    <2>8. LarkStops'
      <3> SUFFICES ASSUME NEW d \in Lark!Parties, NEW j \in LarkConns, lark_victim[d] = j
                   PROVE  /\ lark_call'[d] = "disconnecting" => Flagged(j)'
                          /\ lark_call'[d] \in Through => Told(j)'
        BY <2>1, <2>7 DEF LarkStops
      <3>1. /\ lark_call'[d] = "disconnecting" => lark_call[d] = "disconnecting"
            /\ lark_call'[d] \in Through => lark_call[d] \in Through
        BY <2>1, <2>3 DEF Through
      <3> QED  BY <3>1, <2>7 DEF LarkInv, LarkStops
    <2> QED  BY <2>5, <2>6, <2>8 DEF LarkInv
  <1> QED  BY <1>1, <1>2, <1>3, <1>4, <1>5, <1>6

\* So does every step.
LEMMA LarkStep == LarkInv /\ [Lark!Next]_larkVars => LarkInv'
  <1> SUFFICES ASSUME LarkInv, [Lark!Next]_larkVars  PROVE LarkInv'
    OBVIOUS
  <1>1. CASE UNCHANGED larkVars
    BY <1>1 DEF larkVars, LarkInv, Lark!TypeOK, LarkOwners, LarkStops, Published, Flagged, Told
  <1>2. CASE Lark!Next
    BY <1>2, LarkCallStep, LarkThreadStep DEF Lark!Next
  <1> QED  BY <1>1, <1>2

\* What was dismissed and met no bad moment has been told to stop.
LEMMA LarkHolds == LarkInv => Lark!OtherStopsEndTheThread
  <1> SUFFICES ASSUME LarkInv, NEW k \in Lark!Dismissed \ slipped,
                      thread[k] \in Lark!Running \cup {"ready"}
               PROVE  k \in halting
    BY DEF Lark!OtherStopsEndTheThread
  <1>1. k \in LarkConns /\ \E c \in Lark!Parties :
                              lark_victim[c] = k /\ lark_call[c] \in {"starting", "done"}
    BY DEF Lark!Dismissed
  <1>2. Told(k)
    BY <1>1 DEF LarkInv, LarkStops, Through
  <1> QED  BY <1>2 DEF Told, Up

-----------------------------------------------------------------------------
(* Scheduled tasks (Scheduler.tla)                                         *)

CopyRow == [task : Tasks, enabled : BOOLEAN]
JobRow == [task : Tasks \cup {"none"},
           phase : Sched!Final \cup Sched!Actors \cup {"running", "succeeded", "failed", "saved"}]

SchedTypes ==
  /\ row \in [Tasks -> [there : BOOLEAN, enabled : BOOLEAN, due : BOOLEAN]]
  /\ actor \in [Sched!Actors -> {"idle", "next", "executing", "mark"}]
  /\ todo \in [Sched!Actors -> Seq(CopyRow)]
  /\ marks \in [Sched!Actors -> SUBSET CopyRow]
  /\ job \in [Runs -> JobRow]
  /\ came \in [Tasks -> Nat] /\ asked \in [Tasks -> Nat] /\ repeats \in Nat

\* A tick has each task once, still to do or marked; "run now" has one.
InTodo(t) == \E i \in DOMAIN todo["tick"] : todo["tick"][i].task = t
InMarks(a, t) == \E m \in marks[a] : m.task = t

SchedOrder ==
  /\ \A i, j \in DOMAIN todo["tick"] : todo["tick"][i].task = todo["tick"][j].task => i = j
  /\ \A t \in Tasks : InTodo(t) => ~InMarks("tick", t)
  /\ Len(todo["now"]) <= 1
  /\ \A a \in Sched!Actors : /\ actor[a] \in {"executing", "mark"} => todo[a] # <<>>
                             /\ actor[a] = "idle" => marks[a] = {}

\* The tick has started the task and will mark it; else, what is due or still to
\* do is to be executed once. What was asked for is to be executed once.
Claimed(t) ==
  \/ actor["tick"] \in {"executing", "mark"} /\ todo["tick"][1].task = t
  \/ InMarks("tick", t)
Awaits(t) == ~Claimed(t) /\ (row[t].due = TRUE \/ InTodo(t))
AskedFor(t) == actor["now"] = "next" /\ todo["now"] # <<>> /\ todo["now"][1].task = t

RunsOf(t) == {r \in Runs : job[r].task = t}
Owed(t) == (IF Awaits(t) THEN 1 ELSE 0) + (IF AskedFor(t) THEN 1 ELSE 0)
Credit(t) == came[t] + asked[t] + repeats

\* Executions there have been and those that are owed.
CountInv ==
  \A t \in Tasks : /\ IsFiniteSet(RunsOf(t))
                   /\ Cardinality(RunsOf(t)) + Owed(t) <= Credit(t)

SchedInv == SchedTypes /\ SchedOrder /\ CountInv /\ Sched!ExecutionsReleaseTheirs

\* At the beginning nothing is due, executed or owed.
LEMMA SchedStart == Sched!Init => SchedInv
  <1> SUFFICES ASSUME Sched!Init  PROVE SchedInv
    OBVIOUS
  <1> USE ServicesAssumption
  <1>1. SchedTypes
    BY DEF Sched!Init, SchedTypes, JobRow, Sched!NoJob, Sched!Final, Sched!Actors
  <1>2. SchedOrder
    BY DEF Sched!Init, SchedOrder, InTodo, InMarks, Sched!Actors
  <1>3. CountInv
    <2> SUFFICES ASSUME NEW t \in Tasks
                 PROVE  /\ IsFiniteSet(RunsOf(t))
                        /\ Cardinality(RunsOf(t)) + Owed(t) <= Credit(t)
      BY DEF CountInv
    <2>1. RunsOf(t) = {}
      BY DEF Sched!Init, RunsOf, Sched!NoJob
    <2>2. ~Awaits(t) /\ ~AskedFor(t)
      BY DEF Sched!Init, Awaits, AskedFor, InTodo, Sched!Actors
    <2>3. Credit(t) = 0
      BY DEF Sched!Init, Credit
    <2> QED  BY <2>1, <2>2, <2>3, FS_EmptySet DEF Owed
  <1>4. Sched!ExecutionsReleaseTheirs
    BY DEF Sched!Init, Sched!ExecutionsReleaseTheirs
  <1> QED  BY <1>1, <1>2, <1>3, <1>4 DEF SchedInv

\* A step that starts no execution and owes none that it does not pay for.
LEMMA CountKept ==
  ASSUME CountInv, SchedTypes, SchedTypes', NEW t \in Tasks, RunsOf(t)' = RunsOf(t),
         \/ /\ Awaits(t)' => Awaits(t)
            /\ AskedFor(t)' => AskedFor(t)
            /\ Credit(t)' >= Credit(t)
         \/ /\ Awaits(t)' => Awaits(t)
            /\ Credit(t)' = Credit(t) + 1
            /\ ~AskedFor(t)
         \/ /\ AskedFor(t)' => AskedFor(t)
            /\ Credit(t)' = Credit(t) + 1
  PROVE  /\ IsFiniteSet(RunsOf(t)')
         /\ Cardinality(RunsOf(t)') + Owed(t)' <= Credit(t)'
  <1>1. IsFiniteSet(RunsOf(t)) /\ Cardinality(RunsOf(t)) + Owed(t) <= Credit(t)
    BY DEF CountInv
  <1>2. Cardinality(RunsOf(t)) \in Nat
    BY <1>1, FS_CardinalityType
  <1>3. Credit(t) \in Nat /\ Credit(t)' \in Nat
    BY DEF Credit, SchedTypes
  <1>4. Owed(t) = (IF Awaits(t) THEN 1 ELSE 0) + (IF AskedFor(t) THEN 1 ELSE 0)
    BY DEF Owed
  <1>5. Owed(t)' = (IF Awaits(t)' THEN 1 ELSE 0) + (IF AskedFor(t)' THEN 1 ELSE 0)
    BY DEF Owed
  <1>6. Cardinality(RunsOf(t)') = Cardinality(RunsOf(t)) /\ IsFiniteSet(RunsOf(t)')
    BY <1>1
  <1> HIDE DEF Owed
  <1> QED  BY <1>1, <1>2, <1>3, <1>4, <1>5, <1>6


RowType == [there : BOOLEAN, enabled : BOOLEAN, due : BOOLEAN]

\* Time and users: rows change, and nothing is executed.
LEMMA RowsStep ==
  ASSUME SchedInv, NEW t \in Tasks,
         Sched!ComesDue(t) \/ Sched!Update(t) \/ Sched!Delete(t)
  PROVE  SchedInv'
  <1>0. /\ row \in [Tasks -> RowType] /\ came \in [Tasks -> Nat]
        /\ UNCHANGED <<actor, todo, marks, job, asked, repeats, open, bound>>
    BY DEF SchedInv, SchedTypes, Sched!ComesDue, Sched!Update, Sched!Delete, RowType
  <1>1. /\ row' \in [Tasks -> RowType] /\ came' \in [Tasks -> Nat]
        /\ \A u \in Tasks : \/ /\ row'[u].due = TRUE => row[u].due = TRUE
                               /\ came'[u] = came[u]
                            \/ came'[u] = came[u] + 1
    <2>1. CASE Sched!ComesDue(t)
      <3> DEFINE x == [row[t] EXCEPT !.due = TRUE]
      <3>1. x \in RowType
        BY <1>0 DEF RowType
      <3>2. row' = [row EXCEPT ![t] = x] /\ came' = [came EXCEPT ![t] = @ + 1]
        BY <2>1 DEF Sched!ComesDue
      <3> HIDE DEF x
      <3> QED  BY <3>1, <3>2, <1>0
    <2>2. CASE Sched!Update(t) \/ Sched!Delete(t)
      <3>1. PICK x \in RowType : row' = [row EXCEPT ![t] = x] /\ x.due = FALSE
        <4>1. CASE Sched!Update(t)
          <5>1. PICK on \in BOOLEAN :
                  row' = [row EXCEPT ![t] = [there |-> TRUE, enabled |-> on, due |-> FALSE]]
            BY <4>1 DEF Sched!Update
          <5>2. [there |-> TRUE, enabled |-> on, due |-> FALSE] \in RowType
            BY DEF RowType
          <5> QED  BY <5>1, <5>2
        <4>2. CASE Sched!Delete(t)
          <5>1. Sched!NoRow \in RowType /\ Sched!NoRow.due = FALSE
            BY DEF RowType, Sched!NoRow
          <5>2. row' = [row EXCEPT ![t] = Sched!NoRow]
            BY <4>2 DEF Sched!Delete
          <5> QED  BY <5>1, <5>2
        <4> QED  BY <2>2, <4>1, <4>2
      <3>2. came' = came
        BY <2>2 DEF Sched!Update, Sched!Delete
      <3> QED  BY <3>1, <3>2, <1>0
    <2> QED  BY <2>1, <2>2
  <1>2. SchedTypes'
    BY <1>0, <1>1 DEF SchedInv, SchedTypes, RowType
  <1>3. SchedOrder'
    BY <1>0 DEF SchedInv, SchedOrder, InTodo, InMarks
  <1>4. CountInv'
    <2> SUFFICES ASSUME NEW u \in Tasks
                 PROVE  /\ IsFiniteSet(RunsOf(u)')
                        /\ Cardinality(RunsOf(u)') + Owed(u)' <= Credit(u)'
      BY DEF CountInv
    <2>1. RunsOf(u)' = RunsOf(u) /\ (AskedFor(u)' => AskedFor(u))
      BY <1>0 DEF RunsOf, AskedFor
    <2>2. CASE (row'[u].due = TRUE => row[u].due = TRUE) /\ came'[u] = came[u]
      <3>1. Awaits(u)' => Awaits(u)
        BY <1>0, <2>2 DEF Awaits, Claimed, InTodo, InMarks
      <3>2. Credit(u)' >= Credit(u)
        BY <1>0, <2>2 DEF Credit, SchedInv, SchedTypes
      <3> QED  BY <2>1, <3>1, <3>2, <1>2, CountKept DEF SchedInv
    <2>3. CASE came'[u] = came[u] + 1
      <3>1. Credit(u)' = Credit(u) + 1
        BY <1>0, <2>3 DEF Credit, SchedInv, SchedTypes
      <3> QED  BY <2>1, <3>1, <1>2, CountKept DEF SchedInv
    <2> QED  BY <1>1, <2>2, <2>3
  <1>5. Sched!ExecutionsReleaseTheirs'
    BY <1>0 DEF SchedInv, Sched!ExecutionsReleaseTheirs
  <1> QED  BY <1>2, <1>3, <1>4, <1>5 DEF SchedInv

\* The cardinality Scheduler counts with.
LEMMA SchedCardinality == \A S : Sched!Cardinality(S) = Cardinality(S)
  BY DEF Sched!Cardinality, Cardinality

\* A tick reads what is due.
LEMMA TickStep ==
  ASSUME SchedInv, Sched!Tick
  PROVE  SchedInv'
  <1> DEFINE n == Sched!Cardinality(Sched!Due)
  <1>1. PICK order \in [1..n -> Sched!Due] :
          /\ \A i, j \in DOMAIN order : i # j => order[i] # order[j]
          /\ todo' = [todo EXCEPT !["tick"] = [i \in DOMAIN order |-> Sched!Copy(order[i])]]
    BY DEF Sched!Tick
  <1>2. n \in Nat
    <2>1. Sched!Due \subseteq Tasks
      BY DEF Sched!Due
    <2> QED  BY <2>1, ServicesAssumption, FS_Subset, FS_CardinalityType, SchedCardinality
  <1>3. DOMAIN order = 1..n
    OBVIOUS
  <1> HIDE DEF n
  <1> DEFINE new == [i \in 1..n |-> Sched!Copy(order[i])]
  <1>0. /\ actor["tick"] = "idle" /\ actor' = [actor EXCEPT !["tick"] = "next"]
        /\ UNCHANGED <<row, marks, saved, job, bound, open, left, came, asked, repeats>>
        /\ row \in [Tasks -> RowType]
        /\ actor \in [Sched!Actors -> {"idle", "next", "executing", "mark"}]
        /\ todo \in [Sched!Actors -> Seq(CopyRow)]
        /\ "tick" \in Sched!Actors /\ "now" \in Sched!Actors /\ Sched!Actors = {"tick", "now"}
    BY DEF Sched!Tick, SchedInv, SchedTypes, RowType, Sched!Actors
  <1>4. \A t \in Sched!Due : /\ Sched!Copy(t) \in CopyRow /\ Sched!Copy(t).task = t
                             /\ t \in Tasks /\ row[t].due = TRUE
    BY <1>0 DEF Sched!Due, Sched!Copy, CopyRow, RowType
  <1>5. /\ new \in Seq(CopyRow) /\ DOMAIN new = 1..n
        /\ \A i \in 1..n : new[i].task = order[i] /\ order[i] \in Sched!Due
    BY <1>2, <1>4
  <1>6. todo' = [todo EXCEPT !["tick"] = new]
    BY <1>1, <1>3
  <1> HIDE DEF new
  <1>7. /\ todo' \in [Sched!Actors -> Seq(CopyRow)]
        /\ todo'["tick"] = new /\ todo'["now"] = todo["now"]
        /\ actor' \in [Sched!Actors -> {"idle", "next", "executing", "mark"}]
        /\ actor'["tick"] = "next" /\ actor'["now"] = actor["now"]
    BY <1>0, <1>5, <1>6
  <1>8. SchedTypes'
    BY <1>0, <1>7 DEF SchedInv, SchedTypes
  <1>9. marks["tick"] = {}
    BY <1>0 DEF SchedInv, SchedOrder
  <1>10. SchedOrder'
    <2>1. \A i, j \in DOMAIN todo'["tick"] : todo'["tick"][i].task = todo'["tick"][j].task => i = j
      BY <1>1, <1>3, <1>5, <1>7
    <2>2. \A t \in Tasks : InTodo(t)' => ~InMarks("tick", t)'
      BY <1>0, <1>9 DEF InMarks
    <2>3. \A a \in Sched!Actors : /\ actor'[a] \in {"executing", "mark"} => todo'[a] # <<>>
                                  /\ actor'[a] = "idle" => marks'[a] = {}
      BY <1>0, <1>7 DEF SchedInv, SchedOrder
    <2>4. Len(todo'["now"]) <= 1
      BY <1>7 DEF SchedInv, SchedOrder
    <2> QED  BY <2>1, <2>2, <2>3, <2>4 DEF SchedOrder
  <1>11. CountInv'
    <2> SUFFICES ASSUME NEW u \in Tasks
                 PROVE  /\ IsFiniteSet(RunsOf(u)')
                        /\ Cardinality(RunsOf(u)') + Owed(u)' <= Credit(u)'
      BY DEF CountInv
    <2>1. /\ RunsOf(u)' = RunsOf(u) /\ (AskedFor(u)' => AskedFor(u))
          /\ Credit(u)' = Credit(u)
      BY <1>0, <1>7 DEF RunsOf, AskedFor, Credit
    <2>2. ~Claimed(u)
      BY <1>0, <1>9 DEF Claimed, InMarks
    <2>3. InTodo(u)' => row[u].due = TRUE
      BY <1>4, <1>5, <1>7 DEF InTodo
    <2>4. Awaits(u)' => Awaits(u)
      BY <1>0, <2>2, <2>3 DEF Awaits
    <2>5. Credit(u)' >= Credit(u)
      BY <2>1 DEF SchedInv, SchedTypes, Credit
    <2> QED  BY <2>1, <2>4, <2>5, <1>8, CountKept DEF SchedInv
  <1>12. Sched!ExecutionsReleaseTheirs'
    BY <1>0 DEF SchedInv, Sched!ExecutionsReleaseTheirs
  <1> QED  BY <1>8, <1>10, <1>11, <1>12 DEF SchedInv

\* A user asks for an execution.
LEMMA RunNowStep ==
  ASSUME SchedInv, NEW t \in Tasks, Sched!RunNow(t)
  PROVE  SchedInv'
  <1>0. /\ actor["now"] = "idle"
        /\ todo' = [todo EXCEPT !["now"] = <<Sched!Copy(t)>>]
        /\ actor' = [actor EXCEPT !["now"] = "next"]
        /\ asked' = [asked EXCEPT ![t] = @ + 1]
        /\ UNCHANGED <<row, marks, saved, job, bound, open, came, repeats>>
        /\ row \in [Tasks -> RowType] /\ asked \in [Tasks -> Nat]
        /\ actor \in [Sched!Actors -> {"idle", "next", "executing", "mark"}]
        /\ todo \in [Sched!Actors -> Seq(CopyRow)]
        /\ "tick" \in Sched!Actors /\ "now" \in Sched!Actors /\ Sched!Actors = {"tick", "now"}
    BY DEF Sched!RunNow, SchedInv, SchedTypes, RowType, Sched!Actors
  <1>1. Sched!Copy(t) \in CopyRow /\ Sched!Copy(t).task = t
    BY <1>0 DEF Sched!Copy, CopyRow, RowType
  <1>2. /\ todo' \in [Sched!Actors -> Seq(CopyRow)]
        /\ todo'["now"] = <<Sched!Copy(t)>> /\ todo'["tick"] = todo["tick"]
        /\ actor' \in [Sched!Actors -> {"idle", "next", "executing", "mark"}]
        /\ actor'["now"] = "next" /\ actor'["tick"] = actor["tick"]
        /\ asked' \in [Tasks -> Nat]
        /\ asked'[t] = asked[t] + 1 /\ \A u \in Tasks : u # t => asked'[u] = asked[u]
    BY <1>0, <1>1
  <1>3. SchedTypes'
    BY <1>0, <1>2 DEF SchedInv, SchedTypes
  <1>4. SchedOrder'
    <2>1. Len(todo'["now"]) <= 1
      BY <1>2
    <2> QED  BY <1>0, <1>2, <2>1 DEF SchedInv, SchedOrder, InTodo, InMarks
  <1>5. CountInv'
    <2> SUFFICES ASSUME NEW u \in Tasks
                 PROVE  /\ IsFiniteSet(RunsOf(u)')
                        /\ Cardinality(RunsOf(u)') + Owed(u)' <= Credit(u)'
      BY DEF CountInv
    <2>1. /\ RunsOf(u)' = RunsOf(u) /\ (Awaits(u)' => Awaits(u)) /\ ~AskedFor(u)
      BY <1>0, <1>2 DEF RunsOf, Awaits, Claimed, InTodo, InMarks, AskedFor
    <2>2. CASE u = t
      <3>1. Credit(u)' = Credit(u) + 1
        BY <1>0, <1>2, <2>2 DEF Credit, SchedInv, SchedTypes
      <3> QED  BY <2>1, <3>1, <1>3, CountKept DEF SchedInv
    <2>3. CASE u # t
      <3>1. Credit(u)' >= Credit(u)
        BY <1>0, <1>2, <2>3 DEF Credit, SchedInv, SchedTypes
      <3>2. ~AskedFor(u)'
        BY <1>1, <1>2, <2>3 DEF AskedFor
      <3> QED  BY <2>1, <3>1, <3>2, <1>3, CountKept DEF SchedInv
    <2> QED  BY <2>2, <2>3
  <1>6. Sched!ExecutionsReleaseTheirs'
    BY <1>0 DEF SchedInv, Sched!ExecutionsReleaseTheirs
  <1> QED  BY <1>3, <1>4, <1>5, <1>6 DEF SchedInv


\* A commit: what is due afterwards was due and is in none of the marks.
LEMMA CommitWrites ==
  ASSUME SchedInv, NEW a \in Sched!Actors, Sched!Commit(a)
  PROVE  /\ row' \in [Tasks -> RowType]
         /\ \A t \in Tasks : row'[t].due = TRUE => row[t].due = TRUE /\ ~InMarks(a, t)
         /\ marks' \in [Sched!Actors -> SUBSET CopyRow] /\ marks'[a] = {}
         /\ \A b \in Sched!Actors : b # a => marks'[b] = marks[b]
  <1>0. /\ row \in [Tasks -> RowType] /\ marks \in [Sched!Actors -> SUBSET CopyRow]
        /\ row' = Sched!Marked(row, marks[a]) /\ marks' = [marks EXCEPT ![a] = {}]
    BY DEF SchedInv, SchedTypes, RowType, Sched!Commit
  <1> DEFINE copies == marks[a]
             copy(t) == CHOOSE m \in copies : m.task = t
             new(t) == [there |-> TRUE, enabled |-> copy(t).enabled, due |-> FALSE]
  <1>1. copies \subseteq CopyRow
    BY <1>0
  <1>2. row' = [t \in Tasks |-> IF \E m \in copies : m.task = t THEN new(t) ELSE row[t]]
    BY <1>0 DEF Sched!Marked
  <1> HIDE DEF copies
  <1>3. ASSUME NEW t \in Tasks, \E m \in copies : m.task = t
        PROVE  new(t) \in RowType /\ new(t).due = FALSE
    <2>1. copy(t) \in CopyRow
      BY <1>1, <1>3
    <2> HIDE DEF copy
    <2> QED  BY <2>1 DEF CopyRow, RowType
  <1> HIDE DEF new
  <1>4. ASSUME NEW t \in Tasks  PROVE row'[t] \in RowType
    <2>1. row'[t] = IF \E m \in copies : m.task = t THEN new(t) ELSE row[t]
      BY <1>2
    <2>2. row[t] \in RowType
      BY <1>0
    <2> QED  BY <2>1, <2>2, <1>3
  <1>5. row' \in [Tasks -> RowType]
    BY <1>2, <1>4
  <1>6. \A t \in Tasks : row'[t].due = TRUE => row[t].due = TRUE /\ ~\E m \in copies : m.task = t
    BY <1>2, <1>3
  <1> QED  BY <1>0, <1>5, <1>6 DEF InMarks, copies

\* The end of a tick's or "run now"'s transaction.
LEMMA DoneStep ==
  ASSUME SchedInv, NEW a \in Sched!Actors, Sched!Done(a)
  PROVE  SchedInv'
  <1>0. /\ actor[a] = "next" /\ todo[a] = <<>>
        /\ actor' = [actor EXCEPT ![a] = "idle"]
        /\ UNCHANGED <<todo, saved, job, bound, open, left, came, asked, repeats>>
        /\ actor \in [Sched!Actors -> {"idle", "next", "executing", "mark"}]
        /\ "tick" \in Sched!Actors /\ "now" \in Sched!Actors /\ Sched!Actors = {"tick", "now"}
    BY DEF Sched!Done, SchedInv, SchedTypes, Sched!Actors
  <1>1. /\ row' \in [Tasks -> RowType]
        /\ \A t \in Tasks : row'[t].due = TRUE => row[t].due = TRUE /\ ~InMarks(a, t)
        /\ marks' \in [Sched!Actors -> SUBSET CopyRow] /\ marks'[a] = {}
        /\ \A b \in Sched!Actors : b # a => marks'[b] = marks[b]
    BY CommitWrites DEF Sched!Done
  <1>2. /\ actor' \in [Sched!Actors -> {"idle", "next", "executing", "mark"}]
        /\ actor'[a] = "idle" /\ \A b \in Sched!Actors : b # a => actor'[b] = actor[b]
    BY <1>0
  <1>3. SchedTypes'
    BY <1>0, <1>1, <1>2 DEF SchedInv, SchedTypes, RowType
  <1>4. SchedOrder'
    <2>1. \A t \in Tasks : InTodo(t)' => ~InMarks("tick", t)'
      BY <1>0, <1>1 DEF SchedInv, SchedOrder, InTodo, InMarks
    <2> QED  BY <1>0, <1>1, <1>2, <2>1 DEF SchedInv, SchedOrder
  <1>5. CountInv'
    <2> SUFFICES ASSUME NEW u \in Tasks
                 PROVE  /\ IsFiniteSet(RunsOf(u)')
                        /\ Cardinality(RunsOf(u)') + Owed(u)' <= Credit(u)'
      BY DEF CountInv
    <2>1. RunsOf(u)' = RunsOf(u) /\ Credit(u)' >= Credit(u)
      BY <1>0 DEF RunsOf, Credit, SchedInv, SchedTypes
    <2>2. AskedFor(u)' => AskedFor(u)
      BY <1>0, <1>2 DEF AskedFor
    <2>3. Awaits(u)' => Awaits(u)
      <3>1. CASE a = "tick"
        BY <3>1, <1>0, <1>1, <1>2 DEF Awaits, Claimed, InTodo, InMarks
      <3>2. CASE a = "now"
        BY <3>2, <1>0, <1>1, <1>2 DEF Awaits, Claimed, InTodo, InMarks
      <3> QED  BY <1>0, <3>1, <3>2
    <2> QED  BY <2>1, <2>2, <2>3, <1>3, CountKept DEF SchedInv
  <1>6. Sched!ExecutionsReleaseTheirs'
    BY <1>0 DEF SchedInv, Sched!ExecutionsReleaseTheirs
  <1> QED  BY <1>3, <1>4, <1>5, <1>6 DEF SchedInv

\* An execution begins.
LEMMA StartStep ==
  ASSUME SchedInv, NEW a \in Sched!Actors, Sched!Start(a)
  PROVE  SchedInv'
  <1> DEFINE t == todo[a][1].task
             x == [task |-> t, phase |-> a]
  <1>0. /\ actor[a] = "next" /\ todo[a] # <<>>
        /\ actor' = [actor EXCEPT ![a] = "executing"]
        /\ UNCHANGED <<todo, bound, left, came, asked, repeats>>
        /\ actor \in [Sched!Actors -> {"idle", "next", "executing", "mark"}]
        /\ todo \in [Sched!Actors -> Seq(CopyRow)]
        /\ job \in [Runs -> JobRow]
        /\ "tick" \in Sched!Actors /\ "now" \in Sched!Actors /\ Sched!Actors = {"tick", "now"}
    BY DEF Sched!Start, SchedInv, SchedTypes, Sched!Actors
  <1>1. /\ row' \in [Tasks -> RowType]
        /\ \A u \in Tasks : row'[u].due = TRUE => row[u].due = TRUE /\ ~InMarks(a, u)
        /\ marks' \in [Sched!Actors -> SUBSET CopyRow] /\ marks'[a] = {}
        /\ \A b \in Sched!Actors : b # a => marks'[b] = marks[b]
    BY CommitWrites DEF Sched!Start
  <1>2. /\ actor' \in [Sched!Actors -> {"idle", "next", "executing", "mark"}]
        /\ actor'[a] = "executing" /\ \A b \in Sched!Actors : b # a => actor'[b] = actor[b]
    BY <1>0
  <1>t. /\ t \in Tasks /\ Head(todo[a]) = todo[a][1] /\ 1 \in DOMAIN todo[a]
    <2>1. todo[a] \in Seq(CopyRow)
      BY <1>0
    <2>2. todo[a][1] \in CopyRow /\ 1 \in DOMAIN todo[a]
      BY <2>1, <1>0
    <2> QED  BY <2>1, <2>2, <1>0 DEF CopyRow
  <1>3. PICK r \in Sched!Fresh :
          /\ job' = [job EXCEPT ![r] = [task |-> Head(todo[a]).task, phase |-> a]]
          /\ open' = open \cup {r}
    BY DEF Sched!Start
  <1>4. r \in Runs /\ job[r].task = "none"
    <2> DEFINE free == {q \in Runs : job[q] = Sched!NoJob}
    <2>1. r \in free
      <3>1. free # {} /\ r = CHOOSE q \in free : TRUE
        BY DEF Sched!Fresh
      <3> HIDE DEF free
      <3> QED  BY <3>1
    <2> QED  BY <2>1 DEF Sched!NoJob
  <1>5. job' = [job EXCEPT ![r] = x]
    BY <1>3, <1>t
  <1>6. x \in JobRow /\ x.task = t /\ x.phase = a
    BY <1>t DEF JobRow
  <1> HIDE DEF x, t
  <1>7. /\ job' \in [Runs -> JobRow] /\ job'[r] = x
        /\ \A q \in Runs : q # r => job'[q] = job[q]
    BY <1>0, <1>4, <1>5, <1>6
  <1>8. SchedTypes'
    BY <1>0, <1>1, <1>2, <1>7 DEF SchedInv, SchedTypes, RowType
  <1>9. SchedOrder'
    <2>1. \A u \in Tasks : InTodo(u)' => ~InMarks("tick", u)'
      BY <1>0, <1>1 DEF SchedInv, SchedOrder, InTodo, InMarks
    <2>2. \A b \in Sched!Actors : /\ actor'[b] \in {"executing", "mark"} => todo'[b] # <<>>
                                  /\ actor'[b] = "idle" => marks'[b] = {}
      BY <1>0, <1>1, <1>2 DEF SchedInv, SchedOrder
    <2> QED  BY <1>0, <2>1, <2>2 DEF SchedInv, SchedOrder
  <1>w. \A u \in Tasks : Awaits(u)' => Awaits(u)
    <2> SUFFICES ASSUME NEW u \in Tasks, Awaits(u)'  PROVE Awaits(u)
      OBVIOUS
    <2>1. CASE a = "tick"
      <3>1. u # t /\ ~InMarks("tick", u)' /\ (row'[u].due = TRUE \/ InTodo(u)')
        BY <2>1, <1>0, <1>2 DEF Awaits, Claimed, t
      <3>2. InTodo(u)' = InTodo(u)
        BY <1>0 DEF InTodo
      <3>3. ~InMarks("tick", u)
        BY <3>1, <3>2, <2>1, <1>1 DEF SchedInv, SchedOrder
      <3> QED  BY <3>1, <3>2, <3>3, <2>1, <1>0, <1>1 DEF Awaits, Claimed
    <2>2. CASE a = "now"
      BY <2>2, <1>0, <1>1, <1>2 DEF Awaits, Claimed, InTodo, InMarks
    <2> QED  BY <1>0, <2>1, <2>2
  <1>a. \A u \in Tasks : AskedFor(u)' => AskedFor(u)
    BY <1>0, <1>2 DEF AskedFor
  <1>10. CountInv'
    <2> SUFFICES ASSUME NEW u \in Tasks
                 PROVE  /\ IsFiniteSet(RunsOf(u)')
                        /\ Cardinality(RunsOf(u)') + Owed(u)' <= Credit(u)'
      BY DEF CountInv
    <2>1. Credit(u)' = Credit(u) /\ Credit(u)' >= Credit(u)
      BY <1>0 DEF Credit, SchedInv, SchedTypes
    <2>2. CASE u # t
      <3>1. RunsOf(u)' = RunsOf(u)
        BY <2>2, <1>4, <1>6, <1>7, ServicesAssumption DEF RunsOf
      <3> QED  BY <3>1, <2>1, <1>w, <1>a, <1>8, CountKept DEF SchedInv
    <2>3. CASE u = t
      <3>1. RunsOf(u)' = RunsOf(u) \cup {r} /\ r \notin RunsOf(u)
        BY <2>3, <1>4, <1>6, <1>7, ServicesAssumption DEF RunsOf
      <3>2. IsFiniteSet(RunsOf(u)) /\ Cardinality(RunsOf(u)) + Owed(u) <= Credit(u)
        BY DEF SchedInv, CountInv
      <3>3. /\ IsFiniteSet(RunsOf(u)')
            /\ Cardinality(RunsOf(u)') = Cardinality(RunsOf(u)) + 1
        BY <3>1, <3>2, FS_AddElement
      <3>4. Cardinality(RunsOf(u)) \in Nat /\ Credit(u) \in Nat
        BY <3>2, FS_CardinalityType DEF Credit, SchedInv, SchedTypes
      <3>5. Owed(u)' + 1 <= Owed(u)
        <4>1. CASE a = "tick"
          <5>1. ~Awaits(u)'
            BY <4>1, <2>3, <1>0, <1>2 DEF Awaits, Claimed, t
          <5>2. Awaits(u)
            <6>1. InTodo(u)
              BY <4>1, <2>3, <1>t DEF InTodo, t
            <6> QED  BY <6>1, <4>1, <1>0 DEF Awaits, Claimed, SchedInv, SchedOrder
          <5> QED  BY <5>1, <5>2, <1>a DEF Owed
        <4>2. CASE a = "now"
          <5>1. AskedFor(u) /\ ~AskedFor(u)'
            BY <4>2, <2>3, <1>0, <1>2 DEF AskedFor, t
          <5> QED  BY <5>1, <1>w DEF Owed
        <4> QED  BY <1>0, <4>1, <4>2
      <3>6. Owed(u) \in Nat /\ Owed(u)' \in Nat
        BY DEF Owed
      <3> QED  BY <3>2, <3>3, <3>4, <3>5, <3>6, <2>1
    <2> QED  BY <2>2, <2>3
  <1>11. Sched!ExecutionsReleaseTheirs'
    <2> SUFFICES ASSUME NEW q \in Runs
                 PROVE  /\ job'[q].phase \in Sched!Final \ {"leaked"} => q \notin open'
                        /\ job'[q].phase = "over" /\ job'[q].task \in AutoUnbind => q \notin bound'
      BY DEF Sched!ExecutionsReleaseTheirs
    <2>1. CASE q = r
      BY <2>1, <1>0, <1>6, <1>7 DEF Sched!Final
    <2>2. CASE q # r
      BY <2>2, <1>0, <1>3, <1>7 DEF SchedInv, Sched!ExecutionsReleaseTheirs
    <2> QED  BY <2>1, <2>2
  <1> QED  BY <1>8, <1>9, <1>10, <1>11 DEF SchedInv


JobPhases == Sched!Final \cup Sched!Actors \cup {"running", "succeeded", "failed", "saved"}

\* An execution's phase, and with it nothing else of the executions, changes.
LEMMA PhaseMoves ==
  ASSUME SchedInv, NEW r \in Runs, NEW p \in JobPhases, Sched!Phase(r, p)
  PROVE  /\ job' \in [Runs -> JobRow] /\ job'[r].phase = p /\ job'[r].task = job[r].task
         /\ \A q \in Runs : q # r => job'[q] = job[q]
         /\ \A t \in Tasks : RunsOf(t)' = RunsOf(t)
  <1> DEFINE x == [job[r] EXCEPT !.phase = p]
  <1>0. job \in [Runs -> JobRow] /\ job' = [job EXCEPT ![r] = x]
    BY DEF SchedInv, SchedTypes, Sched!Phase
  <1>1. x \in JobRow /\ x.phase = p /\ x.task = job[r].task
    BY <1>0 DEF JobRow, JobPhases
  <1> HIDE DEF x
  <1>2. /\ job' \in [Runs -> JobRow] /\ job'[r] = x
        /\ \A q \in Runs : q # r => job'[q] = job[q]
    BY <1>0, <1>1
  <1>3. \A t \in Tasks : RunsOf(t)' = RunsOf(t)
    BY <1>1, <1>2 DEF RunsOf
  <1> QED  BY <1>1, <1>2, <1>3

\* The query of an execution, and what follows it.
LEMMA QueryStep ==
  ASSUME SchedInv, NEW r \in Runs, Sched!QueryEnds(r) \/ Sched!SaveRun(r) \/ Sched!CleanUp(r)
  PROVE  SchedInv'
  <1>0. UNCHANGED <<row, actor, todo, marks, came, asked, repeats>>
    BY DEF Sched!QueryEnds, Sched!SaveRun, Sched!CleanUp
  <1>1. PICK p \in {"succeeded", "failed", "saved", "kept", "over"} :
          /\ Sched!Phase(r, p)
          /\ \/ p \notin {"kept", "over"} /\ UNCHANGED <<bound, open>>
             \/ p = "kept" /\ open' = open \ {r} /\ UNCHANGED bound
             \/ /\ p = "over" /\ open' = open \ {r}
                /\ bound' = IF job[r].task \in AutoUnbind THEN bound \ {r} ELSE bound
    BY DEF Sched!QueryEnds, Sched!SaveRun, Sched!CleanUp
  <1>2. /\ job' \in [Runs -> JobRow] /\ job'[r].phase = p /\ job'[r].task = job[r].task
        /\ \A q \in Runs : q # r => job'[q] = job[q]
        /\ \A t \in Tasks : RunsOf(t)' = RunsOf(t)
    <2>1. p \in JobPhases
      BY DEF JobPhases, Sched!Final
    <2> QED  BY <1>1, <2>1, PhaseMoves
  <1>3. SchedTypes'
    BY <1>0, <1>2 DEF SchedInv, SchedTypes
  <1>4. SchedOrder'
    BY <1>0 DEF SchedInv, SchedOrder, InTodo, InMarks
  <1>5. CountInv'
    <2> SUFFICES ASSUME NEW u \in Tasks
                 PROVE  /\ IsFiniteSet(RunsOf(u)')
                        /\ Cardinality(RunsOf(u)') + Owed(u)' <= Credit(u)'
      BY DEF CountInv
    <2>1. Credit(u)' >= Credit(u)
      BY <1>0 DEF Credit, SchedInv, SchedTypes
    <2>2. (Awaits(u)' => Awaits(u)) /\ (AskedFor(u)' => AskedFor(u))
      BY <1>0 DEF Awaits, Claimed, InTodo, InMarks, AskedFor
    <2> QED  BY <2>1, <2>2, <1>2, <1>3, CountKept DEF SchedInv
  <1>6. Sched!ExecutionsReleaseTheirs'
    <2> SUFFICES ASSUME NEW q \in Runs
                 PROVE  /\ job'[q].phase \in Sched!Final \ {"leaked"} => q \notin open'
                        /\ job'[q].phase = "over" /\ job'[q].task \in AutoUnbind => q \notin bound'
      BY DEF Sched!ExecutionsReleaseTheirs
    <2>1. CASE q = r
      BY <2>1, <1>1, <1>2 DEF Sched!Final
    <2>2. CASE q # r
      BY <2>2, <1>1, <1>2 DEF SchedInv, Sched!ExecutionsReleaseTheirs
    <2> QED  BY <2>1, <2>2
  <1> QED  BY <1>3, <1>4, <1>5, <1>6 DEF SchedInv

\* An execution's query is left to the background, or something failed first.
LEMMA LaunchStep ==
  ASSUME SchedInv, NEW a \in Sched!Actors, Sched!Launch(a) \/ Sched!LaunchFails(a)
  PROVE  SchedInv'
  <1>0. /\ actor[a] = "executing" /\ actor' = [actor EXCEPT ![a] = "mark"]
        /\ UNCHANGED <<row, todo, marks, came, asked, repeats>>
        /\ actor \in [Sched!Actors -> {"idle", "next", "executing", "mark"}]
        /\ "tick" \in Sched!Actors /\ "now" \in Sched!Actors /\ Sched!Actors = {"tick", "now"}
    BY DEF Sched!Launch, Sched!LaunchFails, SchedInv, SchedTypes, Sched!Actors
  <1>1. PICK r \in Runs, p \in {"running", "refused"} :
          /\ Sched!Phase(r, p)
          /\ open' = IF p = "refused" THEN open \ {r} ELSE open
          /\ bound' \in {bound, bound \cup {r}}
    <2>1. CASE Sched!Launch(a)
      BY <2>1 DEF Sched!Launch
    <2>2. CASE Sched!LaunchFails(a)
      BY <2>2 DEF Sched!LaunchFails
    <2> QED  BY <2>1, <2>2
  <1>2. /\ job' \in [Runs -> JobRow] /\ job'[r].phase = p /\ job'[r].task = job[r].task
        /\ \A q \in Runs : q # r => job'[q] = job[q]
        /\ \A t \in Tasks : RunsOf(t)' = RunsOf(t)
    <2>1. p \in JobPhases
      BY DEF JobPhases, Sched!Final
    <2> QED  BY <1>1, <2>1, PhaseMoves
  <1>3. /\ actor' \in [Sched!Actors -> {"idle", "next", "executing", "mark"}]
        /\ actor'[a] = "mark" /\ \A b \in Sched!Actors : b # a => actor'[b] = actor[b]
    BY <1>0
  <1>4. SchedTypes'
    BY <1>0, <1>2, <1>3 DEF SchedInv, SchedTypes
  <1>5. SchedOrder'
    BY <1>0, <1>3 DEF SchedInv, SchedOrder, InTodo, InMarks
  <1>6. CountInv'
    <2> SUFFICES ASSUME NEW u \in Tasks
                 PROVE  /\ IsFiniteSet(RunsOf(u)')
                        /\ Cardinality(RunsOf(u)') + Owed(u)' <= Credit(u)'
      BY DEF CountInv
    <2>1. Credit(u)' >= Credit(u)
      BY <1>0 DEF Credit, SchedInv, SchedTypes
    <2>2. (Awaits(u)' => Awaits(u)) /\ (AskedFor(u)' => AskedFor(u))
      BY <1>0, <1>3 DEF Awaits, Claimed, InTodo, InMarks, AskedFor
    <2> QED  BY <2>1, <2>2, <1>2, <1>4, CountKept DEF SchedInv
  <1>7. Sched!ExecutionsReleaseTheirs'
    <2> SUFFICES ASSUME NEW q \in Runs
                 PROVE  /\ job'[q].phase \in Sched!Final \ {"leaked"} => q \notin open'
                        /\ job'[q].phase = "over" /\ job'[q].task \in AutoUnbind => q \notin bound'
      BY DEF Sched!ExecutionsReleaseTheirs
    <2>1. CASE q = r
      BY <2>1, <1>1, <1>2 DEF Sched!Final
    <2>2. CASE q # r
      BY <2>2, <1>1, <1>2 DEF SchedInv, Sched!ExecutionsReleaseTheirs
    <2> QED  BY <2>1, <2>2
  <1> QED  BY <1>4, <1>5, <1>6, <1>7 DEF SchedInv

\* The copy read at the beginning is marked and saved.
LEMMA MarkStep ==
  ASSUME SchedInv, NEW a \in Sched!Actors, Sched!Mark(a)
  PROVE  SchedInv'
  <1> DEFINE old == todo[a]
  <1>0. /\ actor[a] = "mark" /\ actor' = [actor EXCEPT ![a] = "next"]
        /\ todo' = [todo EXCEPT ![a] = Tail(old)]
        /\ marks' = [marks EXCEPT ![a] = @ \cup {Head(old)}]
        /\ UNCHANGED <<row, saved, job, bound, open, left, came, asked, repeats>>
        /\ actor \in [Sched!Actors -> {"idle", "next", "executing", "mark"}]
        /\ todo \in [Sched!Actors -> Seq(CopyRow)] /\ marks \in [Sched!Actors -> SUBSET CopyRow]
        /\ "tick" \in Sched!Actors /\ "now" \in Sched!Actors /\ Sched!Actors = {"tick", "now"}
    BY DEF Sched!Mark, SchedInv, SchedTypes, Sched!Actors
  <1>1. old \in Seq(CopyRow) /\ old # <<>>
    BY <1>0 DEF SchedInv, SchedOrder
  <1> HIDE DEF old
  <1>2. /\ Head(old) = old[1] /\ old[1] \in CopyRow /\ Len(old) \in Nat /\ Len(old) >= 1
        /\ Tail(old) \in Seq(CopyRow) /\ Len(Tail(old)) = Len(old) - 1
        /\ DOMAIN old = 1..Len(old) /\ DOMAIN Tail(old) = 1..(Len(old) - 1)
        /\ \A i \in 1..(Len(old) - 1) : Tail(old)[i] = old[i + 1]
    BY <1>1
  <1>3. /\ actor' \in [Sched!Actors -> {"idle", "next", "executing", "mark"}]
        /\ actor'[a] = "next" /\ \A b \in Sched!Actors : b # a => actor'[b] = actor[b]
        /\ todo' \in [Sched!Actors -> Seq(CopyRow)]
        /\ todo'[a] = Tail(old) /\ \A b \in Sched!Actors : b # a => todo'[b] = todo[b]
        /\ marks' \in [Sched!Actors -> SUBSET CopyRow]
        /\ marks'[a] = marks[a] \cup {old[1]}
        /\ \A b \in Sched!Actors : b # a => marks'[b] = marks[b]
    BY <1>0, <1>2
  <1>4. SchedTypes'
    BY <1>0, <1>3 DEF SchedInv, SchedTypes
  <1>5. SchedOrder'
    <2>1. CASE a = "tick"
      <3>1. /\ todo["tick"] = old
            /\ \A i, j \in 1..Len(old) : old[i].task = old[j].task => i = j
        BY <2>1, <1>2 DEF old, SchedInv, SchedOrder
      <3>2. \A i, j \in DOMAIN todo'["tick"] : todo'["tick"][i].task = todo'["tick"][j].task => i = j
        <4>0. todo'["tick"] = Tail(old) /\ DOMAIN Tail(old) = 1..(Len(old) - 1)
          BY <2>1, <1>2, <1>3
        <4> DEFINE rest == Tail(old)
        <4> HIDE DEF rest
        <4> SUFFICES ASSUME NEW i \in 1..(Len(old) - 1), NEW j \in 1..(Len(old) - 1),
                            rest[i].task = rest[j].task
                     PROVE  i = j
          BY <4>0 DEF rest
        <4>3. rest[i] = old[i + 1] /\ rest[j] = old[j + 1]
          BY <1>2 DEF rest
        <4>1. i + 1 \in 1..Len(old) /\ j + 1 \in 1..Len(old)
          BY <1>2
        <4>2. i + 1 = j + 1
          BY <4>1, <4>3, <3>1
        <4> QED  BY <4>2
      <3>3. ASSUME NEW t \in Tasks, InTodo(t)'  PROVE ~InMarks("tick", t)'
        <4>1. PICK i \in 1..(Len(old) - 1) : old[i + 1].task = t
          BY <3>3, <2>1, <1>2, <1>3 DEF InTodo
        <4>2. i + 1 \in 1..Len(old) /\ i + 1 # 1 /\ 1 \in 1..Len(old)
          BY <1>2
        <4>3. old[1].task # t
          BY <4>1, <4>2, <3>1
        <4>4. InTodo(t)
          BY <4>1, <4>2, <3>1, <1>2 DEF InTodo
        <4>5. ~InMarks("tick", t)
          BY <4>4 DEF SchedInv, SchedOrder
        <4> QED  BY <4>3, <4>5, <2>1, <1>3 DEF InMarks
      <3>4. todo'["now"] = todo["now"]
        BY <2>1, <1>0, <1>3
      <3> QED  BY <3>2, <3>3, <3>4, <1>3, <2>1 DEF SchedInv, SchedOrder
    <2>2. CASE a = "now"
      <3>1. todo'["tick"] = todo["tick"] /\ marks'["tick"] = marks["tick"]
        BY <2>2, <1>0, <1>3
      <3>2. Len(todo'["now"]) <= 1
        BY <2>2, <1>2, <1>3 DEF old, SchedInv, SchedOrder
      <3>3. \A t \in Tasks : InTodo(t)' => ~InMarks("tick", t)'
        BY <3>1 DEF SchedInv, SchedOrder, InTodo, InMarks
      <3>4. \A b \in Sched!Actors : /\ actor'[b] \in {"executing", "mark"} => todo'[b] # <<>>
                                    /\ actor'[b] = "idle" => marks'[b] = {}
        BY <1>3 DEF SchedInv, SchedOrder
      <3> QED  BY <3>1, <3>2, <3>3, <3>4 DEF SchedInv, SchedOrder
    <2> QED  BY <1>0, <2>1, <2>2
  <1>6. CountInv'
    <2> SUFFICES ASSUME NEW u \in Tasks
                 PROVE  /\ IsFiniteSet(RunsOf(u)')
                        /\ Cardinality(RunsOf(u)') + Owed(u)' <= Credit(u)'
      BY DEF CountInv
    <2>1. RunsOf(u)' = RunsOf(u) /\ Credit(u)' >= Credit(u)
      BY <1>0 DEF RunsOf, Credit, SchedInv, SchedTypes
    <2>2. CASE a = "tick"
      <3>1. AskedFor(u)' => AskedFor(u)
        BY <2>2, <1>0, <1>3 DEF AskedFor
      <3>2. Awaits(u)' => Awaits(u)
        <4> SUFFICES ASSUME Awaits(u)'  PROVE Awaits(u)
          OBVIOUS
        <4>1. u # old[1].task /\ ~InMarks("tick", u)
          BY <2>2, <1>3 DEF Awaits, Claimed, InMarks
        <4>2. ~Claimed(u)
          BY <4>1, <2>2, <1>0 DEF Claimed, old
        <4>3. InTodo(u)' => InTodo(u)
          <5> SUFFICES ASSUME NEW i \in 1..(Len(old) - 1), old[i + 1].task = u  PROVE InTodo(u)
            BY <2>2, <1>2, <1>3 DEF InTodo
          <5>1. i + 1 \in 1..Len(old)
            BY <1>2
          <5> QED  BY <5>1, <2>2, <1>2 DEF InTodo, old
        <4> QED  BY <4>2, <4>3, <1>0 DEF Awaits
      <3> QED  BY <2>1, <3>1, <3>2, <1>4, CountKept DEF SchedInv
    <2>3. CASE a = "now"
      <3>1. Awaits(u)' => Awaits(u)
        BY <2>3, <1>0, <1>3 DEF Awaits, Claimed, InTodo, InMarks
      <3>2. ~AskedFor(u)'
        <4>1. Len(old) <= 1
          BY <2>3 DEF old, SchedInv, SchedOrder
        <4>2. Tail(old) = <<>>
          BY <4>1, <1>1, <1>2
        <4> QED  BY <4>2, <2>3, <1>3 DEF AskedFor
      <3> QED  BY <2>1, <3>1, <3>2, <1>4, CountKept DEF SchedInv
    <2> QED  BY <1>0, <2>2, <2>3
  <1>7. Sched!ExecutionsReleaseTheirs'
    BY <1>0 DEF SchedInv, Sched!ExecutionsReleaseTheirs
  <1> QED  BY <1>4, <1>5, <1>6, <1>7 DEF SchedInv

\* A transaction is rolled back: what it had claimed is owed again.
LEMMA RollBackStep ==
  ASSUME SchedInv, NEW a \in Sched!Actors, Sched!RollBack(a)
  PROVE  SchedInv'
  <1>0. /\ todo' = [todo EXCEPT ![a] = <<>>] /\ marks' = [marks EXCEPT ![a] = {}]
        /\ actor' = [actor EXCEPT ![a] = "idle"] /\ repeats' = repeats + 1
        /\ UNCHANGED <<row, saved, open, came, asked>>
        /\ actor \in [Sched!Actors -> {"idle", "next", "executing", "mark"}]
        /\ todo \in [Sched!Actors -> Seq(CopyRow)] /\ marks \in [Sched!Actors -> SUBSET CopyRow]
        /\ "tick" \in Sched!Actors /\ "now" \in Sched!Actors /\ Sched!Actors = {"tick", "now"}
        /\ repeats \in Nat
    BY DEF Sched!RollBack, SchedInv, SchedTypes, Sched!Actors
  <1>1. /\ job' \in [Runs -> JobRow]
        /\ \A t \in Tasks : RunsOf(t)' = RunsOf(t)
        /\ Sched!ExecutionsReleaseTheirs'
    <2>1. CASE UNCHANGED <<job, bound>>
      BY <2>1, <1>0 DEF SchedInv, SchedTypes, RunsOf, Sched!ExecutionsReleaseTheirs
    <2>2. ASSUME NEW r \in Runs, Sched!Phase(r, "leaked"), bound' \in {bound, bound \cup {r}}
          PROVE  /\ job' \in [Runs -> JobRow]
                 /\ \A t \in Tasks : RunsOf(t)' = RunsOf(t)
                 /\ Sched!ExecutionsReleaseTheirs'
      <3>1. /\ job' \in [Runs -> JobRow] /\ job'[r].phase = "leaked"
            /\ \A q \in Runs : q # r => job'[q] = job[q]
            /\ \A t \in Tasks : RunsOf(t)' = RunsOf(t)
        <4>1. "leaked" \in JobPhases
          BY DEF JobPhases, Sched!Final
        <4> QED  BY <4>1, <2>2, PhaseMoves
      <3>2. Sched!ExecutionsReleaseTheirs'
        <4> SUFFICES ASSUME NEW q \in Runs
                     PROVE  /\ job'[q].phase \in Sched!Final \ {"leaked"} => q \notin open'
                            /\ job'[q].phase = "over" /\ job'[q].task \in AutoUnbind => q \notin bound'
          BY DEF Sched!ExecutionsReleaseTheirs
        <4>1. CASE q = r
          BY <4>1, <3>1
        <4>2. CASE q # r
          BY <4>2, <2>2, <3>1, <1>0 DEF SchedInv, Sched!ExecutionsReleaseTheirs
        <4> QED  BY <4>1, <4>2
      <3> QED  BY <3>1, <3>2
    <2>3. \/ UNCHANGED <<job, bound>>
          \/ \E r \in Runs : Sched!Phase(r, "leaked") /\ bound' \in {bound, bound \cup {r}}
      BY DEF Sched!RollBack
    <2> QED  BY <2>1, <2>2, <2>3
  <1>2. /\ actor' \in [Sched!Actors -> {"idle", "next", "executing", "mark"}]
        /\ actor'[a] = "idle" /\ \A b \in Sched!Actors : b # a => actor'[b] = actor[b]
        /\ todo' \in [Sched!Actors -> Seq(CopyRow)]
        /\ todo'[a] = <<>> /\ \A b \in Sched!Actors : b # a => todo'[b] = todo[b]
        /\ marks' \in [Sched!Actors -> SUBSET CopyRow]
        /\ marks'[a] = {} /\ \A b \in Sched!Actors : b # a => marks'[b] = marks[b]
    BY <1>0
  <1>3. SchedTypes'
    BY <1>0, <1>1, <1>2 DEF SchedInv, SchedTypes
  <1>4. SchedOrder'
    <2>1. CASE a = "tick"
      BY <2>1, <1>0, <1>2 DEF SchedInv, SchedOrder, InTodo, InMarks
    <2>2. CASE a = "now"
      BY <2>2, <1>0, <1>2 DEF SchedInv, SchedOrder, InTodo, InMarks
    <2> QED  BY <1>0, <2>1, <2>2
  <1>5. CountInv'
    <2> SUFFICES ASSUME NEW u \in Tasks
                 PROVE  /\ IsFiniteSet(RunsOf(u)')
                        /\ Cardinality(RunsOf(u)') + Owed(u)' <= Credit(u)'
      BY DEF CountInv
    <2>1. RunsOf(u)' = RunsOf(u) /\ Credit(u)' = Credit(u) + 1
      BY <1>0, <1>1 DEF Credit, SchedInv, SchedTypes
    <2>2. AskedFor(u)' => AskedFor(u)
      BY <1>0, <1>2 DEF AskedFor
    <2> QED  BY <2>1, <2>2, <1>3, CountKept DEF SchedInv
  <1> QED  BY <1>1, <1>3, <1>4, <1>5 DEF SchedInv

\* The process dies.
LEMMA CrashStep ==
  ASSUME SchedInv, Sched!Crash
  PROVE  SchedInv'
  <1>0. /\ actor' = [a \in Sched!Actors |-> "idle"] /\ todo' = [a \in Sched!Actors |-> <<>>]
        /\ marks' = [a \in Sched!Actors |-> {}] /\ open' = {} /\ repeats' = repeats + 1
        /\ job' = [r \in Runs |-> IF job[r].phase \in Sched!Final THEN job[r]
                                    ELSE [job[r] EXCEPT !.phase = "lost"]]
        /\ UNCHANGED <<row, saved, bound, came, asked>>
        /\ "tick" \in Sched!Actors /\ "now" \in Sched!Actors
        /\ job \in [Runs -> JobRow]
    BY DEF Sched!Crash, SchedInv, SchedTypes, Sched!Actors
  <1>1. /\ job' \in [Runs -> JobRow]
        /\ \A r \in Runs : /\ job'[r].task = job[r].task
                           /\ job'[r].phase = "over" => job[r].phase = "over"
    <2>1. ASSUME NEW r \in Runs
          PROVE  /\ [job[r] EXCEPT !.phase = "lost"] \in JobRow
                 /\ [job[r] EXCEPT !.phase = "lost"].task = job[r].task
                 /\ [job[r] EXCEPT !.phase = "lost"].phase = "lost"
      BY <1>0 DEF JobRow, Sched!Final
    <2> QED  BY <1>0, <2>1
  <1>2. SchedTypes'
    BY <1>0, <1>1 DEF SchedInv, SchedTypes
  <1>3. SchedOrder'
    BY <1>0 DEF SchedInv, SchedOrder, InTodo, InMarks
  <1>4. CountInv'
    <2> SUFFICES ASSUME NEW u \in Tasks
                 PROVE  /\ IsFiniteSet(RunsOf(u)')
                        /\ Cardinality(RunsOf(u)') + Owed(u)' <= Credit(u)'
      BY DEF CountInv
    <2>1. RunsOf(u)' = RunsOf(u)
      BY <1>1 DEF RunsOf
    <2>2. Credit(u)' = Credit(u) + 1
      BY <1>0 DEF Credit, SchedInv, SchedTypes
    <2>3. ~AskedFor(u)'
      BY <1>0 DEF AskedFor
    <2> QED  BY <2>1, <2>2, <2>3, <1>2, CountKept DEF SchedInv
  <1>5. Sched!ExecutionsReleaseTheirs'
    BY <1>0, <1>1 DEF SchedInv, Sched!ExecutionsReleaseTheirs
  <1> QED  BY <1>2, <1>3, <1>4, <1>5 DEF SchedInv

\* Every step keeps the scheduler's invariant.
LEMMA SchedStep == SchedInv /\ [Sched!Next]_schedVars => SchedInv'
  <1> SUFFICES ASSUME SchedInv, [Sched!Next]_schedVars  PROVE SchedInv'
    OBVIOUS
  <1>1. CASE UNCHANGED schedVars
    BY <1>1 DEF schedVars, SchedInv, SchedTypes, SchedOrder, CountInv, InTodo, InMarks, Claimed,
                Awaits, AskedFor, RunsOf, Owed, Credit, Sched!ExecutionsReleaseTheirs
  <1>2. CASE Sched!Next
    BY <1>2, RowsStep, TickStep, RunNowStep, StartStep, LaunchStep, MarkStep, DoneStep,
       RollBackStep, QueryStep, CrashStep DEF Sched!Next
  <1> QED  BY <1>1, <1>2

\* What the count says of the executions.
LEMMA SchedHolds == SchedInv => Sched!OncePerDue
  <1> SUFFICES ASSUME SchedInv, NEW t \in Tasks
               PROVE  Sched!Cardinality(RunsOf(t)) <= came[t] + asked[t] + repeats
    BY DEF Sched!OncePerDue, RunsOf
  <1>1. IsFiniteSet(RunsOf(t)) /\ Cardinality(RunsOf(t)) + Owed(t) <= Credit(t)
    BY DEF SchedInv, CountInv
  <1>2. Cardinality(RunsOf(t)) \in Nat /\ Owed(t) \in Nat /\ Credit(t) \in Nat
    BY <1>1, FS_CardinalityType DEF Owed, Credit, SchedInv, SchedTypes
  <1> QED  BY <1>1, <1>2, SchedCardinality DEF Credit

-----------------------------------------------------------------------------
(* When a task is due again (CronTime.tla). Times are in half minutes: an  *)
(* hour has 120, a day 2880, a week 20160.                                 *)

\* Beginnings of hours and days.
LEMMA Beginnings ==
  \A t \in Nat :
    /\ t \div 120 \in Nat /\ t - (t % 120) = 120 * (t \div 120)
    /\ 120 * (t \div 120) <= t /\ t < 120 * (t \div 120) + 120
    /\ t \div 2880 \in Nat /\ t - (t % 2880) = 2880 * (t \div 2880)
    /\ 2880 * (t \div 2880) <= t /\ t < 2880 * (t \div 2880) + 2880
  OBVIOUS

\* The first time after now at a minute of the hour, of the day, of the week.
FirstOfTheHour(now, m, x) ==
  /\ x \in Nat /\ now < x /\ x <= now + 120
  /\ x % 2 = 0 /\ (x % 120) \div 2 = m
  /\ \A t \in now + 1 .. x - 1 : ~(t % 2 = 0 /\ (t % 120) \div 2 = m)
FirstOfTheDay(now, m, h, x) ==
  /\ x \in Nat /\ now < x /\ x <= now + 2880
  /\ x % 2 = 0 /\ (x % 120) \div 2 = m /\ (x % 2880) \div 120 = h
  /\ \A t \in now + 1 .. x - 1 :
       ~(t % 2 = 0 /\ (t % 120) \div 2 = m /\ (t % 2880) \div 120 = h)
FirstOfTheWeek(now, m, h, d, x) ==
  /\ x \in Nat /\ now < x /\ x <= now + 20160
  /\ x % 2 = 0 /\ (x % 120) \div 2 = m /\ (x % 2880) \div 120 = h
  /\ (x \div 2880) % 7 = d
  /\ \A t \in now + 1 .. x - 1 :
       ~(/\ t % 2 = 0 /\ (t % 120) \div 2 = m /\ (t % 2880) \div 120 = h
         /\ (t \div 2880) % 7 = d)

HourlyTime(now, m) == (now - (now % 120)) + m * 2
DailyTime(now, m, h) == (now - (now % 2880)) + h * 120 + m * 2
WeeklyTime(now, m, h, d) ==
  (now - (now % 2880)) + h * 120 + m * 2 + ((d - ((now \div 2880) % 7)) % 7) * 2880

\* The first time after now at a minute of the hour.
LEMMA InTheHour ==
  ASSUME NEW now \in Nat, NEW m \in Nat, m <= 59,
         NEW x, x = Cron!LaterOr(HourlyTime(now, m), now, 120)
  PROVE  FirstOfTheHour(now, m, x)
  <1> DEFINE c == HourlyTime(now, m)
  <1>x. x = IF c <= now THEN c + 120 ELSE c
    BY DEF Cron!LaterOr
  <1> DEFINE hours == now \div 120
  <1>a. hours \in Nat /\ now - (now % 120) = 120 * hours /\ 120 * hours <= now /\ now < 120 * hours + 120
    BY Beginnings
  <1>b. c = 120 * hours + m * 2
    BY <1>a DEF HourlyTime
  <1> HIDE DEF hours, c
  <1>c. x = 120 * hours + m * 2 \/ x = 120 * (hours + 1) + m * 2
    BY <1>x, <1>a, <1>b
  <1>d. x % 120 = 2 * m /\ x % 2 = 0
    BY <1>a, <1>c
  <1>1. /\ x \in Nat /\ now < x /\ x <= now + 120 /\ x % 120 = 2 * m /\ x % 2 = 0
    BY <1>x, <1>a, <1>b, <1>d
  <1>2. ASSUME NEW t \in now + 1 .. x - 1, t % 2 = 0, (t % 120) \div 2 = m  PROVE FALSE
    <2>1. t % 120 = 2 * m
      BY <1>2
    <2>2. t \in Int /\ x - 120 < t /\ t < x
      BY <1>1, <1>2
    <2> QED  BY <1>1, <2>1, <2>2
  <1> QED  BY <1>1, <1>2 DEF FirstOfTheHour

\* ... of the day,
LEMMA InTheDay ==
  ASSUME NEW now \in Nat, NEW m \in Nat, m <= 59, NEW h \in Nat, h <= 23,
         NEW x, x = Cron!LaterOr(DailyTime(now, m, h), now, 2880)
  PROVE  FirstOfTheDay(now, m, h, x)
  <1> DEFINE c == DailyTime(now, m, h)
  <1>x. x = IF c <= now THEN c + 2880 ELSE c
    BY DEF Cron!LaterOr
  <1> DEFINE days == now \div 2880
  <1>a. /\ days \in Nat /\ now - (now % 2880) = 2880 * days
        /\ 2880 * days <= now /\ now < 2880 * days + 2880
    BY Beginnings
  <1>b. c = 2880 * days + h * 120 + m * 2
    BY <1>a DEF DailyTime
  <1> HIDE DEF days, c
  <1>c. x = 2880 * days + h * 120 + m * 2 \/ x = 2880 * (days + 1) + h * 120 + m * 2
    BY <1>x, <1>a, <1>b
  <1>d. x % 2880 = 120 * h + 2 * m
    BY <1>a, <1>c
  <1>1. /\ x \in Nat /\ now < x /\ x <= now + 2880 /\ x % 2880 = 120 * h + 2 * m
    BY <1>x, <1>a, <1>b, <1>d
  <1>2. x % 2 = 0 /\ x % 120 = 2 * m /\ (x % 2880) \div 120 = h
    BY <1>1
  <1>3. ASSUME NEW t \in now + 1 .. x - 1, t % 2 = 0, (t % 120) \div 2 = m,
               (t % 2880) \div 120 = h
        PROVE  FALSE
    <2>1. t % 2880 = 120 * h + 2 * m
      BY <1>3
    <2>2. t \in Int /\ x - 2880 < t /\ t < x
      BY <1>1, <1>3
    <2> QED  BY <1>1, <2>1, <2>2
  <1> QED  BY <1>1, <1>2, <1>3 DEF FirstOfTheDay

\* ... and of the week.
LEMMA InTheWeek ==
  ASSUME NEW now \in Nat, NEW m \in Nat, m <= 59, NEW h \in Nat, h <= 23, NEW d \in Nat, d <= 6,
         NEW x, x = Cron!LaterOr(WeeklyTime(now, m, h, d), now, 20160)
  PROVE  FirstOfTheWeek(now, m, h, d, x)
  <1> DEFINE c == WeeklyTime(now, m, h, d)
  <1>x. x = IF c <= now THEN c + 20160 ELSE c
    BY DEF Cron!LaterOr
  <1> DEFINE today == now \div 2880
             ahead == (d - (today % 7)) % 7
  <1>1. /\ today \in Nat /\ now - (now % 2880) = today * 2880
        /\ now < today * 2880 + 2880 /\ today * 2880 <= now
    BY Beginnings
  <1>2. ahead \in Nat /\ ahead <= 6 /\ (today + ahead) % 7 = d
    BY <1>1
  <1>3. c = (today + ahead) * 2880 + h * 120 + m * 2
    BY <1>1, <1>2 DEF WeeklyTime
  <1> HIDE DEF today, ahead, c
  <1>4. c \in Nat /\ c \div 2880 = today + ahead /\ c % 2880 = h * 120 + m * 2
    BY <1>1, <1>2, <1>3
  <1>5. x \in Nat /\ now < x /\ x <= now + 20160
    BY <1>x, <1>1, <1>2, <1>3
  <1>6. x % 2880 = h * 120 + m * 2 /\ (x \div 2880) % 7 = d
    BY <1>x, <1>2, <1>4
  <1>7. x % 2 = 0 /\ x % 120 = 2 * m /\ (x % 2880) \div 120 = h
    BY <1>5, <1>6
  <1>8. x % 20160 = 2880 * d + 120 * h + 2 * m
    BY <1>5, <1>6
  <1>9. ASSUME NEW t \in now + 1 .. x - 1, t % 2 = 0, (t % 120) \div 2 = m,
               (t % 2880) \div 120 = h, (t \div 2880) % 7 = d
        PROVE  FALSE
    <2>1. t % 2880 = 120 * h + 2 * m
      BY <1>9
    <2>2. t % 20160 = 2880 * d + 120 * h + 2 * m
      BY <1>9, <2>1
    <2>3. t \in Int /\ x - 20160 < t /\ t < x
      BY <1>5, <1>9
    <2> QED  BY <1>5, <1>8, <2>2, <2>3
  <1> QED  BY <1>5, <1>6, <1>7, <1>9 DEF FirstOfTheWeek


\* An expression whose numbers are a minute's, an hour's, a day's, or a step of
\* at most a week.
Sound(e) ==
  /\ e.minute.is = "at" => e.minute.n \in Nat /\ e.minute.n <= 59
  /\ e.minute.is = "every" => e.minute.n \in Nat /\ e.minute.n <= 10080
  /\ e.hour.is = "at" => e.hour.n \in Nat /\ e.hour.n <= 23
  /\ e.hour.is = "any" => e.hour = Cron!Any
  /\ e.dow.is = "at" => e.dow.n \in Nat /\ e.dow.n <= 6
  /\ e.dow.is = "any" => e.dow = Cron!Any

\* The instance's expressions are such ones.
LEMMA ExpressionsAreSound == \A e \in CronExpressions : Sound(e)
  <1> SUFFICES ASSUME NEW e \in CronExpressions  PROVE Sound(e)
    OBVIOUS
  <1>1. /\ e.minute \in Open \cup {Field("every", n) : n \in {0, 45}} \cup {Field("at", n) : n \in {0, 30, 59}}
        /\ e.hour \in Open \cup {Field("every", 2)} \cup {Field("at", n) : n \in {0, 9, 23}}
        /\ e.dow \in Open \cup {Field("at", n) : n \in {0, 3, 6}}
    BY DEF CronExpressions
  <1>2. /\ e.minute.is = "at" => e.minute.n \in {0, 30, 59}
        /\ e.minute.is = "every" => e.minute.n \in {0, 45}
    <2>1. CASE e.minute \in Open
      BY <2>1 DEF Open, Field
    <2>2. CASE e.minute \in {Field("every", n) : n \in {0, 45}}
      <3> PICK n \in {0, 45} : e.minute = Field("every", n)
        BY <2>2
      <3> QED  BY DEF Field
    <2>3. CASE e.minute \in {Field("at", n) : n \in {0, 30, 59}}
      <3> PICK n \in {0, 30, 59} : e.minute = Field("at", n)
        BY <2>3
      <3> QED  BY DEF Field
    <2> QED  BY <1>1, <2>1, <2>2, <2>3
  <1>3. \A n \in {0, 30, 59, 45} : n \in Nat /\ (n # 45 => n <= 59) /\ n <= 10080
    OBVIOUS
  <1>4. (e.hour.is = "at" => e.hour.n \in Nat /\ e.hour.n <= 23) /\ (e.hour.is = "any" => e.hour = Cron!Any)
    BY <1>1 DEF Open, Field, Cron!Any
  <1>5. (e.dow.is = "at" => e.dow.n \in Nat /\ e.dow.n <= 6) /\ (e.dow.is = "any" => e.dow = Cron!Any)
    BY <1>1 DEF Open, Field, Cron!Any
  <1>6. (e.minute.is = "at" => e.minute.n \in Nat /\ e.minute.n <= 59) /\ (e.minute.is = "every" => e.minute.n \in Nat /\ e.minute.n <= 10080)
    BY <1>2, <1>3
  <1> QED  BY <1>4, <1>5, <1>6 DEF Sound

\* _next_time: of whatever expression and from whenever, the next time is in the
\* future and at most a week away, and of an expression that names times it is
\* the first one.
LEMMA NextTimeIsNext ==
  ASSUME NEW e, Sound(e), NEW now \in Nat
  PROVE  /\ Cron!NextTime(e, now) \in Nat
         /\ now < Cron!NextTime(e, now) /\ Cron!NextTime(e, now) <= now + 20160
         /\ Cron!NamesTimes(e) =>
              /\ Cron!Names(e, Cron!NextTime(e, now))
              /\ \A t \in now + 1 .. Cron!NextTime(e, now) - 1 : ~Cron!Names(e, t)
  <1> DEFINE x == Cron!NextTime(e, now)
             m == e.minute.n
             h == e.hour.n
             d == e.dow.n
  <1>u. Cron!Minute = 2 /\ Cron!Hour = 120 /\ Cron!Day = 2880 /\ Cron!Week = 20160
    BY DEF Cron!Minute, Cron!Hour, Cron!Day, Cron!Week
  <1>n. \A t \in Nat : Cron!Names(e, t) <=>
          /\ t % 2 = 0 /\ (t % 120) \div 2 = m
          /\ e.hour.is = "at" => (t % 2880) \div 120 = h
          /\ e.dow.is = "at" => (t \div 2880) % 7 = d
    <2> SUFFICES ASSUME NEW t \in Nat
        PROVE  Cron!Names(e, t) <=>
                 /\ t % 2 = 0 /\ (t % 120) \div 2 = m
                 /\ e.hour.is = "at" => (t % 2880) \div 120 = h
                 /\ e.dow.is = "at" => (t \div 2880) % 7 = d
      OBVIOUS
    <2>1. t % Cron!Minute = t % 2
      BY <1>u
    <2>2. (t % Cron!Hour) \div Cron!Minute = (t % 120) \div 2
      BY <1>u
    <2>3. (t % Cron!Day) \div Cron!Hour = (t % 2880) \div 120
      BY <1>u
    <2>4. Cron!Weekday(t) = (t \div 2880) % 7
      BY <1>u DEF Cron!Weekday
    <2> QED  BY <2>1, <2>2, <2>3, <2>4 DEF Cron!Names
  <1>m. Cron!NamesTimes(e) => e.minute.is = "at" /\ e.hour.is \in {"at", "any"}
                              /\ e.dow.is \in {"any", "at"}
                              /\ (e.hour.is = "any" => e.dow.is = "any")
    <2>1. e.hour.is = "any" => e.hour = Cron!Any
      BY DEF Sound
    <2>2. Cron!Any.is = "any"
      BY DEF Cron!Any
    <2>3. ASSUME e.hour = Cron!Any => e.dow = Cron!Any, e.hour.is = "any"
          PROVE  e.dow.is = "any"
      BY <2>1, <2>2, <2>3, Zenon
    <2> QED  BY <2>3, Zenon DEF Cron!NamesTimes
  <1>1. CASE e.minute.is = "every"
    <2>1. x = now + (IF m > 1 THEN m ELSE 1) * 2
      BY <1>1, <1>u DEF Cron!NextTime
    <2>2. m \in Nat /\ m <= 10080
      BY <1>1 DEF Sound
    <2> HIDE DEF x, m
    <2>3. CASE m > 1
      <3>1. x = now + m * 2
        BY <2>1, <2>3
      <3>2. x \in Nat /\ now < x /\ x <= now + 20160
        BY <2>2, <2>3, <3>1
      <3> QED  BY <3>2, <1>1, <1>m DEF x
    <2>4. CASE ~(m > 1)
      <3>1. x = now + 2
        BY <2>1, <2>4
      <3>2. x \in Nat /\ now < x /\ x <= now + 20160
        BY <3>1
      <3> QED  BY <3>2, <1>1, <1>m DEF x
    <2> QED  BY <2>3, <2>4
  <1>2. CASE e.minute.is = "any"
    <2>1. x = now + 2
      BY <1>2, <1>u DEF Cron!NextTime
    <2> HIDE DEF x
    <2>2. x \in Nat /\ now < x /\ x <= now + 20160
      BY <2>1
    <2> QED  BY <2>2, <1>2, <1>m DEF x
  <1>3. CASE e.minute.is = "at" /\ e.hour.is \in {"every", "any"}
    <2>1. x = Cron!LaterOr(HourlyTime(now, m), now, 120)
      <3>1. x = Cron!Hourly(e, now)
        BY <1>3 DEF Cron!NextTime
      <3> HIDE DEF x
      <3> QED  BY <3>1, <1>u DEF Cron!Hourly, Cron!HourOf, HourlyTime
    <2>2. m \in Nat /\ m <= 59
      BY <1>3 DEF Sound
    <2> HIDE DEF x, m
    <2>3. FirstOfTheHour(now, m, x)
      BY <2>1, <2>2, InTheHour
    <2>4. x \in Nat /\ now < x /\ x <= now + 120
      BY <2>3 DEF FirstOfTheHour
    <2>5. Cron!NamesTimes(e) => Cron!Names(e, x) /\ \A t \in now + 1 .. x - 1 : ~Cron!Names(e, t)
      BY <2>3, <2>4, <1>3, <1>m, <1>n DEF FirstOfTheHour
    <2> QED  BY <2>4, <2>5 DEF x
  <1>4. CASE e.minute.is = "at" /\ e.hour.is = "at" /\ e.dow.is = "any"
    <2>1. x = Cron!LaterOr(DailyTime(now, m, h), now, 2880)
      <3>1. e.dow = Cron!Any
        BY <1>4 DEF Sound
      <3>2. x = Cron!OnADay(e, now)
        BY <1>4 DEF Cron!NextTime
      <3> HIDE DEF x
      <3> QED  BY <3>1, <3>2, <1>u DEF Cron!OnADay, Cron!DayOf, DailyTime
    <2>2. m \in Nat /\ m <= 59 /\ h \in Nat /\ h <= 23
      BY <1>4 DEF Sound
    <2> HIDE DEF x, m, h
    <2>3. FirstOfTheDay(now, m, h, x)
      BY <2>1, <2>2, InTheDay
    <2>4. x \in Nat /\ now < x /\ x <= now + 2880
      BY <2>3 DEF FirstOfTheDay
    <2>5. Cron!NamesTimes(e) => Cron!Names(e, x) /\ \A t \in now + 1 .. x - 1 : ~Cron!Names(e, t)
      BY <2>3, <2>4, <1>4, <1>m, <1>n DEF FirstOfTheDay
    <2> QED  BY <2>4, <2>5 DEF x
  <1>5. CASE e.minute.is = "at" /\ e.hour.is = "at" /\ e.dow.is = "at"
    <2>1. x = Cron!LaterOr(WeeklyTime(now, m, h, d), now, 20160)
      <3>1. e.dow # Cron!Any
        BY <1>5 DEF Cron!Any
      <3>2. x = Cron!OnADay(e, now)
        BY <1>5 DEF Cron!NextTime
      <3> HIDE DEF x
      <3> QED  BY <3>1, <3>2, <1>u DEF Cron!OnADay, Cron!DayOf, Cron!Weekday, WeeklyTime
    <2>2. m \in Nat /\ m <= 59 /\ h \in Nat /\ h <= 23 /\ d \in Nat /\ d <= 6
      BY <1>5 DEF Sound
    <2> HIDE DEF x, m, h, d
    <2>3. FirstOfTheWeek(now, m, h, d, x)
      BY <2>1, <2>2, InTheWeek
    <2>4. x \in Nat /\ now < x /\ x <= now + 20160
      BY <2>3 DEF FirstOfTheWeek
    <2>5. Cron!NamesTimes(e) => Cron!Names(e, x) /\ \A t \in now + 1 .. x - 1 : ~Cron!Names(e, t)
      <3>1. Cron!Names(e, x)
        <4>1. /\ x % 2 = 0 /\ (x % 120) \div 2 = m /\ (x % 2880) \div 120 = h
              /\ (x \div 2880) % 7 = d
          BY <2>3 DEF FirstOfTheWeek
        <4> QED  BY <2>4, <4>1, <1>n, SMTT(30)
      <3>2. ASSUME NEW t \in now + 1 .. x - 1  PROVE ~Cron!Names(e, t)
        <4>1. t \in Nat
          BY <2>4, <3>2
        <4>2. Cron!Names(e, t) => /\ t % 2 = 0 /\ (t % 120) \div 2 = m
                                 /\ (t % 2880) \div 120 = h /\ (t \div 2880) % 7 = d
          BY <4>1, <1>5, <1>n
        <4> QED  BY <2>3, <4>2, <3>2 DEF FirstOfTheWeek
      <3> QED  BY <3>1, <3>2
    <2> QED  BY <2>4, <2>5 DEF x
  <1>6. CASE ~ \/ e.minute.is \in {"every", "any"}
               \/ e.minute.is = "at" /\ e.hour.is \in {"every", "any"}
               \/ e.minute.is = "at" /\ e.hour.is = "at" /\ e.dow.is \in {"any", "at"}
    <2>1. x = now + 60
      <3>1. /\ e.minute.is # "every" /\ e.minute.is # "any"
            /\ ~(e.minute.is = "at" /\ e.hour.is \in {"every", "any"})
            /\ ~(e.minute.is = "at" /\ e.hour.is = "at" /\ e.dow.is \in {"any", "at"})
        BY <1>6
      <3>2. x = now + 30 * Cron!Minute
        BY <3>1, Zenon DEF Cron!NextTime
      <3> QED  BY <3>2, <1>u
    <2> HIDE DEF x
    <2>2. x \in Nat /\ now < x /\ x <= now + 20160
      BY <2>1
    <2>3. ~Cron!NamesTimes(e)
      BY <1>6, <1>m
    <2> QED  BY <2>2, <2>3 DEF x
  <1> QED  BY <1>1, <1>2, <1>3, <1>4, <1>5, <1>6

\* A task's next time is computed from the time it was created or executed at.
CronInv ==
  expr \in CronExpressions /\ since \in Nat /\ next = Cron!NextTime(expr, since)

\* So it is when a task is created,
LEMMA CronStart == Cron!Init => CronInv
  <1> SUFFICES ASSUME Cron!Init  PROVE CronInv
    OBVIOUS
  <1>1. \A t \in CronStarts : t \in Nat
    BY DEF CronStarts
  <1> QED  BY <1>1 DEF Cron!Init, CronInv

\* ... and after an execution, however late.
LEMMA CronStep == CronInv /\ [Cron!Next]_cronVars => CronInv'
  <1> SUFFICES ASSUME CronInv, [Cron!Next]_cronVars  PROVE CronInv'
    OBVIOUS
  <1>1. CASE UNCHANGED cronVars
    BY <1>1 DEF cronVars, CronInv
  <1>2. CASE Cron!Trigger
    <2>1. next \in Nat
      BY ExpressionsAreSound, NextTimeIsNext DEF CronInv
    <2>2. PICK late \in {0, 1, 3} : since' = next + late
      BY <1>2 DEF Cron!Trigger
    <2>3. since' \in Nat
      BY <2>1, <2>2
    <2> QED  BY <1>2, <2>3 DEF Cron!Trigger, CronInv
  <1> QED  BY <1>1, <1>2 DEF Cron!Next

\* What follows for the next time.
LEMMA CronHolds == CronInv => Cron!NextIsTheNext
  <1>1. Cron!Week = 20160
    BY DEF Cron!Week, Cron!Day, Cron!Hour, Cron!Minute
  <1> QED  BY <1>1, ExpressionsAreSound, NextTimeIsNext DEF CronInv, Cron!NextIsTheNext

-----------------------------------------------------------------------------
(* Channels, bindings and listeners (ImChannels.tla)                       *)

BindingRows == [id : BindRequests, session : ImSessions, channel : Channels]
AnyRow == BindingRows \cup {Binds!NoRow}
Writings ==
  [gone : SUBSET BindingRows, put : SUBSET BindingRows,
   instances : SUBSET [channel : Channels, to : Binds!InitStates]]
Steps ==
  {"off", "silence", "remove", "drop", "ask", "save", "listen", "commit", "announce", "done"}
Requestings ==
  [op : {"none", "bind", "complete", "unbind", "delete"}, pc : Steps,
   session : ImSessions \cup {Nobody}, channel : Channels \cup {Nobody},
   own : AnyRow, old : AnyRow, writes : Writings]

ChannelTypes ==
  /\ bindings \subseteq BindingRows /\ listener \in [Channels -> ImSessions \cup {Nobody}]
  /\ request \in [Binds!Requests -> Requestings] /\ announced \subseteq BindingRows

\* A row is of the call that created it, which is over or about to commit it.
Known(b) ==
  /\ request[b.id].op = "bind"
  /\ b.session = request[b.id].session /\ b.channel = request[b.id].channel

Committed(b) == Known(b) /\ request[b.id].pc = "done"

RowsKnown ==
  /\ \A b \in bindings : Committed(b)
  /\ \A b \in announced : Committed(b)
  /\ \A r \in Binds!Requests :
       /\ request[r].old # Binds!NoRow => Committed(request[r].old)
       /\ request[r].own # Binds!NoRow => \/ Committed(request[r].own)
                                          \/ request[r].own.id = r /\ Known(request[r].own)

\* Before it silences the old channel a call has written nothing; then the old
\* row is to go, then its own to be put.
Removed(q) == q.pc \in {"ask", "save", "listen", "commit", "drop"} /\ q.old # Binds!NoRow
Put(q) == q.op \in {"bind", "complete"} /\ q.pc \in {"listen", "commit"}

CallIs(r, q) ==
  /\ q.writes.gone = IF Removed(q) THEN {q.old} ELSE {}
  /\ q.writes.put = IF Put(q) THEN {q.own} ELSE {}
  /\ q.pc \in {"silence", "remove"} => q.old # Binds!NoRow
  /\ q.pc \in {"ask", "save", "listen"} => q.op \in {"bind", "complete"}
  /\ q.pc = "drop" => q.op = "delete"
  /\ q.pc = "off" => q.op = "none"
  /\ q.op = "bind" => r \in BindRequests
  /\ q.op \in {"bind", "complete"} => q.session \in ImSessions
  /\ q.op \in {"bind", "complete", "delete"} => q.channel \in Channels
  /\ q.op = "complete" => q.old = Binds!NoRow /\ q.own # Binds!NoRow
  /\ q.pc \in {"save", "listen"} \/ Put(q) => q.own # Binds!NoRow
  /\ q.pc \in {"silence", "remove"} => q.op \in {"bind", "unbind", "delete"}
  /\ q.old # Binds!NoRow =>
       /\ q.session = q.old.session
       /\ q.op = "bind" => q.old.channel # q.channel
       /\ q.op \in {"unbind", "delete"} => q.old.channel = q.channel
  /\ q.own # Binds!NoRow => q.own.session = q.session /\ q.own.channel = q.channel

CallsInv == \A r \in Binds!Requests : CallIs(r, request[r])

\* No two rows have a channel or a session in common, committed or not.
Apart(b, d) == b.session # d.session /\ b.channel # d.channel

RowsApart == \A b, d \in bindings : b # d => Apart(b, d)
Fits(r) ==
  /\ request[r].own.id # r => request[r].own \in bindings
  /\ \A d \in bindings : \/ d = request[r].own \/ Apart(request[r].own, d)
                         \/ Removed(request[r]) /\ d = request[r].old
  /\ \A p \in Binds!Requests \ {r} : Put(request[p]) => Apart(request[r].own, request[p].own)
PutsApart == \A r \in Binds!Requests : Put(request[r]) => Fits(r)

\* A row is touched by one call at a time.
TouchesInv ==
  \A p, r \in Binds!Requests : p # r /\ Removed(request[p]) =>
    /\ Removed(request[r]) => request[p].old # request[r].old
    /\ Put(request[r]) => request[p].old # request[r].own

\* Calls of one session met.
MetInv ==
  \A p, r \in Binds!Active :
    p # r /\ request[p].session = request[r].session /\ request[p].session # Nobody =>
      Binds!About(request[p]) \subseteq disturbed

\* The old row is there until the call commits.
OldInv ==
  \A r \in Binds!Active :
    /\ request[r].old # Binds!NoRow
    /\ request[r].pc # "announce"
    /\ request[r].old.channel \notin disturbed
    => request[r].old \in bindings

\* Who listens to a channel, while calls about it are under way.
Silenced(r, c) ==
  /\ request[r].pc \in {"remove", "ask", "save", "listen", "commit", "drop"}
  /\ request[r].old # Binds!NoRow /\ request[r].old.channel = c
Listened(r, c) ==
  request[r].pc = "commit" /\ request[r].op \in {"bind", "complete"} /\ request[r].channel = c

ListenerOf(c) ==
  /\ \A r \in Binds!Requests : Silenced(r, c) => listener[c] = Nobody
  /\ \A r \in Binds!Requests : Listened(r, c) => listener[c] = request[r].session
  /\ (\A r \in Binds!Requests : ~ Silenced(r, c) /\ ~ Listened(r, c)) =>
       /\ \A b \in bindings : b.channel = c => listener[c] = b.session
       /\ (\A b \in bindings : b.channel # c) => listener[c] = Nobody

ListenersInv == \A c \in Channels : c \notin disturbed => ListenerOf(c)

\* What was announced is gone, and what is to be.
AnnouncedInv ==
  /\ \A b \in announced : b \notin bindings
  /\ \A r \in Binds!Requests :
       request[r].pc = "announce" /\ request[r].old # Binds!NoRow => request[r].old \notin bindings

ChannelInv ==
  /\ ChannelTypes /\ RowsKnown /\ CallsInv /\ RowsApart /\ PutsApart /\ TouchesInv
  /\ MetInv /\ OldInv /\ ListenersInv /\ AnnouncedInv

\* What a row consists of; no row is none of them.
LEMMA RowFields ==
  /\ Binds!NoRow \notin BindingRows
  /\ Binds!NoRow.id = Nobody /\ Binds!NoRow.session = Nobody /\ Binds!NoRow.channel = Nobody
  /\ \A b \in BindingRows :
       /\ b.id \in BindRequests /\ b.session \in ImSessions /\ b.channel \in Channels
       /\ b.session # Nobody /\ b.channel # Nobody /\ b # Binds!NoRow
  <1>1. /\ Binds!NoRow.id = Nobody /\ Binds!NoRow.session = Nobody
        /\ Binds!NoRow.channel = Nobody
    BY DEF Binds!NoRow, Binds!Row
  <1>2. \A b \in BindingRows :
          b.id \in BindRequests /\ b.session \in ImSessions /\ b.channel \in Channels
    BY DEF BindingRows
  <1>3. Binds!NoRow \notin BindingRows
    BY <1>1, <1>2, ServicesAssumption
  <1> QED  BY <1>1, <1>2, <1>3, ServicesAssumption

\* Rows with the same contents are the same.
LEMMA RowsEqual ==
  \A b, d \in BindingRows :
    b.id = d.id /\ b.session = d.session /\ b.channel = d.channel => b = d
  BY DEF BindingRows

\* A row that is known is the only one with its id.
LEMMA SameRow ==
  ASSUME NEW b \in BindingRows, NEW d \in BindingRows, Known(b), Known(d), b.id = d.id
  PROVE  b = d
  BY RowsEqual DEF Known

\* What a request consists of.
LEMMA RequestFields ==
  \A q \in Requestings :
    /\ q.op \in {"none", "bind", "complete", "unbind", "delete"} /\ q.pc \in Steps
    /\ q.session \in ImSessions \cup {Nobody} /\ q.channel \in Channels \cup {Nobody}
    /\ q.own \in AnyRow /\ q.old \in AnyRow /\ q.writes \in Writings
  BY DEF Requestings

\* What a commit will do.
LEMMA WriteFields ==
  \A w \in Writings :
    /\ w.gone \in SUBSET BindingRows /\ w.put \in SUBSET BindingRows
    /\ w.instances \in SUBSET [channel : Channels, to : Binds!InitStates]
  BY DEF Writings

\* One call moves.
OnlyCall(r) ==
  /\ request' \in [Binds!Requests -> Requestings]
  /\ \A p \in Binds!Requests \ {r} : request'[p] = request[p]
  /\ request[r].pc # "done"

\* A row that was committed stays so: its call is over.
LEMMA CommittedStays ==
  ASSUME NEW r \in Binds!Requests, OnlyCall(r), NEW b \in BindingRows, Committed(b)
  PROVE  Committed(b)' /\ b.id # r
  <1>1. b.id \in Binds!Requests /\ b.id # r
    BY RowFields DEF Binds!Requests, OnlyCall, Committed
  <1> QED  BY <1>1 DEF OnlyCall, Committed, Known

\* At the beginning there is no row and no call.
LEMMA ChannelStart == Binds!Init => ChannelInv
  <1> SUFFICES ASSUME Binds!Init  PROVE ChannelInv
    OBVIOUS
  <1>1. Binds!NoRequest \in Requestings
    BY DEF Binds!NoRequest, Requestings, Steps, AnyRow, Writings, Binds!NoWrites
  <1>2. /\ \A r \in Binds!Requests : request[r] = Binds!NoRequest
        /\ request \in [Binds!Requests -> Requestings]
        /\ bindings = {} /\ announced = {} /\ disturbed = {}
        /\ listener = [c \in Channels |-> Nobody]
    BY <1>1 DEF Binds!Init
  <1>3. /\ Binds!NoRequest.op = "none" /\ Binds!NoRequest.pc = "off"
        /\ Binds!NoRequest.own = Binds!NoRow /\ Binds!NoRequest.old = Binds!NoRow
        /\ Binds!NoRequest.writes.gone = {} /\ Binds!NoRequest.writes.put = {}
    BY DEF Binds!NoRequest, Binds!NoWrites
  <1>4. ChannelTypes /\ RowsKnown
    BY <1>2, <1>3 DEF ChannelTypes, RowsKnown
  <1>5. CallsInv
    BY <1>2, <1>3 DEF CallsInv, CallIs, Removed, Put
  <1>6. RowsApart /\ PutsApart /\ TouchesInv
    BY <1>2, <1>3 DEF RowsApart, PutsApart, TouchesInv, Removed, Put
  <1>7. MetInv /\ OldInv /\ AnnouncedInv
    BY <1>2, <1>3 DEF MetInv, OldInv, AnnouncedInv, Binds!Active
  <1>8. ListenersInv
    BY <1>2, <1>3 DEF ListenersInv, ListenerOf, Silenced, Listened
  <1> QED  BY <1>4, <1>5, <1>6, <1>7, <1>8 DEF ChannelInv

\* How a call goes on without a commit.
OnlyAhead(r) ==
  /\ OnlyCall(r) /\ request[r].pc # "off"
  /\ request'[r].op = request[r].op /\ request'[r].session = request[r].session
  /\ request'[r].channel = request[r].channel /\ request'[r].old = request[r].old
  /\ \/ request'[r].own = request[r].own
     \/ /\ request[r].own = Binds!NoRow /\ request[r].op = "bind"
        /\ request'[r].own \in BindingRows /\ request'[r].own.id = r
  /\ request'[r].pc # "announce"
  /\ request[r].pc = "announce" => request'[r].pc = "done"

NewlyPut(r) ==
  Put(request'[r]) =>
    /\ request'[r].own = request[r].own
    /\ Removed(request[r]) => Removed(request'[r])
    /\ \/ Put(request[r])
       \/ /\ Fits(r)
          /\ \A p \in Binds!Requests \ {r} :
               /\ Put(request[p]) => Apart(request[p].own, request[r].own)
               /\ Removed(request[p]) => request[p].old # request[r].own

NewlyRemoved(r) ==
  Removed(request'[r]) =>
    \/ Removed(request[r])
    \/ \A p \in Binds!Requests \ {r} :
         /\ Removed(request[p]) => request[p].old # request[r].old
         /\ Put(request[p]) => request[r].old # request[p].own

\* A call that goes on without a commit keeps what is not about listeners.
LEMMA AheadStep ==
  ASSUME ChannelInv, NEW r \in Binds!Requests, OnlyAhead(r), CallIs(r, request'[r]),
         NewlyPut(r), NewlyRemoved(r), bindings' = bindings, disturbed \subseteq disturbed',
         listener' \in [Channels -> ImSessions \cup {Nobody}],
         \/ announced' = announced
         \/ /\ request[r].pc = "announce"
            /\ announced' = announced \cup ({request[r].old} \ {Binds!NoRow})
  PROVE  /\ ChannelTypes' /\ RowsKnown' /\ CallsInv' /\ RowsApart' /\ PutsApart' /\ TouchesInv'
         /\ MetInv' /\ OldInv' /\ AnnouncedInv'
  <1> USE DEF ChannelInv
  <1>0. /\ OnlyCall(r) /\ request \in [Binds!Requests -> Requestings]
        /\ request' \in [Binds!Requests -> Requestings] /\ CallIs(r, request[r])
        /\ \A p \in Binds!Requests \ {r} : request'[p] = request[p]
        /\ request[r] \in Requestings /\ request'[r] \in Requestings
    BY DEF OnlyAhead, OnlyCall, ChannelTypes, CallsInv
  <1>1. /\ request[r].own \in AnyRow /\ request'[r].own \in AnyRow /\ request[r].old \in AnyRow
        /\ request[r].old # Binds!NoRow => request[r].old \in BindingRows
        /\ request[r].own # Binds!NoRow => request[r].own \in BindingRows
    BY <1>0, RequestFields DEF AnyRow
  <1>2. ChannelTypes'
    BY <1>0, <1>1 DEF ChannelTypes
  <1>3. RowsKnown'
    <2>1. \A b \in BindingRows : Committed(b) => Committed(b)'
      BY <1>0, CommittedStays
    <2>2. (\A b \in bindings : Committed(b))'
      BY <2>1 DEF RowsKnown, ChannelTypes
    <2>3. (\A b \in announced : Committed(b))'
      BY <2>1, <1>1 DEF RowsKnown, ChannelTypes
    <2>4. ASSUME NEW p \in Binds!Requests \ {r}
          PROVE  /\ (request[p].old # Binds!NoRow => Committed(request[p].old))'
                 /\ (\/ request[p].own = Binds!NoRow
                     \/ Committed(request[p].own)
                     \/ request[p].own.id = p /\ Known(request[p].own))'
      <3>1. request'[p] = request[p] /\ request[p] \in Requestings
        BY <1>0
      <3>2. /\ request[p].old # Binds!NoRow => request[p].old \in BindingRows
            /\ request[p].own # Binds!NoRow => request[p].own \in BindingRows
        BY <3>1, RequestFields DEF AnyRow
      <3>3. (request[p].old # Binds!NoRow => Committed(request[p].old))'
        <4>1. request[p].old # Binds!NoRow => Committed(request[p].old)
          BY DEF RowsKnown
        <4> QED  BY <2>1, <3>1, <3>2, <4>1 DEF Committed, Known
      <3>4. (\/ request[p].own = Binds!NoRow
             \/ Committed(request[p].own)
             \/ request[p].own.id = p /\ Known(request[p].own))'
        <4>1. \/ request[p].own = Binds!NoRow
              \/ Committed(request[p].own)
              \/ request[p].own.id = p /\ Known(request[p].own)
          BY DEF RowsKnown
        <4> QED  BY <2>1, <3>1, <3>2, <4>1 DEF Committed, Known
      <3> QED  BY <3>3, <3>4
    <2>5. (request[r].old # Binds!NoRow => Committed(request[r].old))'
      <3>1. request[r].old # Binds!NoRow => Committed(request[r].old)
        BY DEF RowsKnown
      <3> QED  BY <2>1, <1>1, <3>1 DEF Committed, Known, OnlyAhead
    <2>6. (\/ request[r].own = Binds!NoRow
           \/ Committed(request[r].own)
           \/ request[r].own.id = r /\ Known(request[r].own))'
      <3>1. CASE request'[r].own = request[r].own
        <4>1. \/ request[r].own = Binds!NoRow
              \/ Committed(request[r].own)
              \/ request[r].own.id = r /\ Known(request[r].own)
          BY DEF RowsKnown
        <4> QED  BY <2>1, <3>1, <1>1, <4>1 DEF OnlyAhead, Committed, Known
      <3>2. CASE request'[r].own # request[r].own
        <4>1. /\ request'[r].own \in BindingRows /\ request'[r].own.id = r
              /\ request'[r].op = "bind" /\ request'[r].own # Binds!NoRow
          BY <3>2, RowFields DEF OnlyAhead
        <4> QED  BY <4>1 DEF Known, CallIs
      <3> QED  BY <3>1, <3>2
    <2> QED  BY <2>2, <2>3, <2>4, <2>5, <2>6 DEF RowsKnown
  <1>4. CallsInv'
    BY <1>0 DEF CallsInv
  <1>5. RowsApart'
    BY DEF RowsApart
  <1>6. PutsApart'
    <2>1. ASSUME NEW p \in Binds!Requests \ {r}, Put(request'[p])  PROVE Fits(p)'
      <3>1. request'[p] = request[p] /\ Fits(p)
        BY <1>0, <2>1 DEF PutsApart
      <3>2. Put(request'[r]) => Apart(request[p].own, request'[r].own)
        BY <2>1, <3>1 DEF NewlyPut, Fits
      <3>3. \A x \in Binds!Requests \ {p} :
              Put(request'[x]) => Apart(request'[p].own, request'[x].own)
        BY <1>0, <3>1, <3>2 DEF Fits
      <3> QED  BY <3>1, <3>3 DEF Fits
    <2>2. ASSUME Put(request'[r])  PROVE Fits(r)'
      <3>1. request'[r].own = request[r].own /\ Fits(r)
        BY <2>2 DEF NewlyPut, PutsApart
      <3>2. Removed(request[r]) => Removed(request'[r]) /\ request'[r].old = request[r].old
        BY <2>2 DEF NewlyPut, OnlyAhead
      <3> QED  BY <1>0, <3>1, <3>2 DEF Fits
    <2> QED  BY <2>1, <2>2 DEF PutsApart
  <1>7. TouchesInv'
    <2>1. ASSUME NEW p \in Binds!Requests, NEW x \in Binds!Requests, p # x, Removed(request'[p])
          PROVE  /\ Removed(request'[x]) => request'[p].old # request'[x].old
                 /\ Put(request'[x]) => request'[p].old # request'[x].own
      <3>1. CASE p # r /\ x # r
        BY <1>0, <2>1, <3>1 DEF TouchesInv
      <3>2. CASE p = r
        <4>1. /\ request'[x] = request[x] /\ request'[r].old = request[r].old
              /\ x \in Binds!Requests \ {r}
          BY <1>0, <2>1, <3>2 DEF OnlyAhead
        <4> QED  BY <2>1, <3>2, <4>1 DEF NewlyRemoved, TouchesInv
      <3>3. CASE x = r
        <4>1. /\ request'[p] = request[p] /\ request'[r].old = request[r].old
              /\ p \in Binds!Requests \ {r}
          BY <1>0, <2>1, <3>3 DEF OnlyAhead
        <4>2. Removed(request'[r]) => request[p].old # request[r].old
          BY <2>1, <3>3, <4>1 DEF NewlyRemoved, TouchesInv
        <4>3. Put(request'[r]) => request[p].old # request'[r].own
          BY <2>1, <3>3, <4>1 DEF NewlyPut, TouchesInv
        <4> QED  BY <3>3, <4>1, <4>2, <4>3
      <3> QED  BY <3>1, <3>2, <3>3
    <2> QED  BY <2>1 DEF TouchesInv
  <1>8. r \in Binds!Active /\ Binds!Active' \subseteq Binds!Active
    BY <1>0 DEF Binds!Active, OnlyAhead, OnlyCall
  <1>9. MetInv'
    <2>1. /\ Binds!About(request'[r]) \subseteq Binds!About(request[r])
          /\ request'[r].session = request[r].session
      <3>1. /\ request'[r].own = request[r].own \/ request'[r].own.channel = request[r].channel
            /\ request'[r].channel = request[r].channel /\ request'[r].old = request[r].old
            /\ request'[r].session = request[r].session
        BY <1>1, RowFields DEF OnlyAhead, CallIs
      <3> QED  BY <3>1 DEF Binds!About
    <2>2. \A p \in Binds!Requests : /\ Binds!About(request'[p]) \subseteq Binds!About(request[p])
                                    /\ request'[p].session = request[p].session
      BY <1>0, <2>1
    <2>3. \A p \in Binds!Active : p \in Binds!Requests
      BY DEF Binds!Active
    <2> QED  BY <1>8, <2>2, <2>3 DEF MetInv
  <1>10. OldInv'
    <2>1. \A p \in Binds!Active' : request'[p].old = request[p].old /\ p \in Binds!Active
      BY <1>0, <1>8 DEF OnlyAhead, Binds!Active
    <2>2. \A p \in Binds!Active' : request'[p].pc # "announce" => request[p].pc # "announce"
      BY <1>0, <1>8 DEF OnlyAhead, Binds!Active
    <2> QED  BY <2>1, <2>2 DEF OldInv
  <1>11. AnnouncedInv'
    <2>1. \A p \in Binds!Requests : request'[p].pc = "announce" =>
            request[p].pc = "announce" /\ request'[p].old = request[p].old
      BY <1>0 DEF OnlyAhead
    <2> QED  BY <2>1 DEF AnnouncedInv
  <1> QED  BY <1>2, <1>3, <1>4, <1>5, <1>6, <1>7, <1>9, <1>10, <1>11

\* Nor does it disturb a listener if it silences and starts none.
LEMMA ListenersStay ==
  ASSUME ListenersInv, NEW r \in Binds!Requests, OnlyCall(r), disturbed \subseteq disturbed',
         bindings' = bindings, listener' = listener,
         \/ request'[r].session = request[r].session
         \/ \A c \in Channels : ~ Listened(r, c)',
         \A c \in Channels \ disturbed' : /\ Silenced(r, c)' <=> Silenced(r, c)
                                          /\ Listened(r, c)' <=> Listened(r, c)
  PROVE  ListenersInv'
  <1> SUFFICES ASSUME NEW c \in Channels, c \notin disturbed'  PROVE ListenerOf(c)'
    BY DEF ListenersInv
  <1>1. ListenerOf(c)
    BY DEF ListenersInv
  <1>2. \A p \in Binds!Requests : /\ Silenced(p, c)' <=> Silenced(p, c)
                                  /\ Listened(p, c)' <=> Listened(p, c)
                                  /\ Listened(p, c)' => request'[p].session = request[p].session
    BY DEF OnlyCall, Silenced, Listened
  <1> QED  BY <1>1, <1>2 DEF ListenerOf

\* What a call is, from the invariant.
LEMMA CallFacts ==
  ASSUME ChannelInv, NEW r \in Binds!Requests
  PROVE  /\ request[r] \in Requestings /\ CallIs(r, request[r]) /\ request[r].writes \in Writings
         /\ request[r].pc \in Steps /\ request[r].own \in AnyRow /\ request[r].old \in AnyRow
         /\ request[r].old # Binds!NoRow => request[r].old \in BindingRows
         /\ request[r].own # Binds!NoRow => request[r].own \in BindingRows
         /\ request[r].op \in {"none", "bind", "complete", "unbind", "delete"}
         /\ request[r].session \in ImSessions \cup {Nobody}
         /\ request[r].channel \in Channels \cup {Nobody}
  <1>1. request[r] \in Requestings /\ CallIs(r, request[r])
    BY DEF ChannelInv, ChannelTypes, CallsInv
  <1> QED  BY <1>1, RequestFields DEF AnyRow

\* A call that is in a step goes to another one.
LEMMA GoesOn ==
  ASSUME ChannelInv, NEW r \in Binds!Requests, NEW pc \in Steps, Binds!Goes(r, pc),
         request[r].pc # "done"
  PROVE  /\ OnlyCall(r) /\ request'[r].pc = pc
         /\ request'[r].op = request[r].op /\ request'[r].session = request[r].session
         /\ request'[r].channel = request[r].channel /\ request'[r].own = request[r].own
         /\ request'[r].old = request[r].old /\ request'[r].writes = request[r].writes
  <1>1. request \in [Binds!Requests -> Requestings] /\ request' = [request EXCEPT ![r].pc = pc]
    BY DEF ChannelInv, ChannelTypes, Binds!Goes
  <1>2. request[r] \in Requestings /\ request'[r] = [request[r] EXCEPT !.pc = pc]
    BY <1>1
  <1>3. request'[r] \in Requestings
    BY <1>2 DEF Requestings
  <1>4. \A p \in Binds!Requests \ {r} : request'[p] = request[p]
    BY <1>1
  <1>5. request' \in [Binds!Requests -> Requestings]
    BY <1>1, <1>3, <1>4
  <1>6. /\ request'[r].pc = pc
        /\ request'[r].op = request[r].op /\ request'[r].session = request[r].session
        /\ request'[r].channel = request[r].channel /\ request'[r].own = request[r].own
        /\ request'[r].old = request[r].old /\ request'[r].writes = request[r].writes
    BY <1>2 DEF Requestings
  <1> QED  BY <1>4, <1>5, <1>6 DEF OnlyCall

\* Two calls about one row are of one session, and have disturbed its channel.
LEMMA TwoMeet ==
  ASSUME ChannelInv, NEW p \in Binds!Active, NEW r \in Binds!Active, p # r,
         NEW b \in BindingRows, request[p].old = b \/ request[p].own = b,
         request[r].old = b \/ request[r].own = b
  PROVE  b.channel \in disturbed
  <1>1. p \in Binds!Requests /\ r \in Binds!Requests
    BY DEF Binds!Active
  <1>2. request[p].session = b.session /\ request[r].session = b.session
    BY <1>1, CallFacts, RowFields DEF CallIs
  <1>3. b.channel \in Binds!About(request[p])
    BY RowFields DEF Binds!About
  <1> QED  BY <1>2, <1>3, RowFields DEF ChannelInv, MetInv

\* A call silences the listener of the channel it will leave.
LEMMA SilenceStep ==
  ASSUME ChannelInv, NEW r \in Binds!Requests, Binds!Silence(r)
  PROVE  ChannelInv'
  <1>1. /\ request[r].pc = "silence" /\ Binds!Goes(r, "remove")
        /\ listener' = [listener EXCEPT ![request[r].old.channel] = Nobody]
        /\ bindings' = bindings /\ announced' = announced /\ disturbed' = disturbed
    BY DEF Binds!Silence
  <1>2. /\ OnlyCall(r) /\ request'[r].pc = "remove"
        /\ request'[r].op = request[r].op /\ request'[r].session = request[r].session
        /\ request'[r].channel = request[r].channel /\ request'[r].own = request[r].own
        /\ request'[r].old = request[r].old /\ request'[r].writes = request[r].writes
    BY <1>1, GoesOn DEF Steps
  <1>3. CallIs(r, request[r])
    BY CallFacts
  <1>4. CallIs(r, request'[r])
    BY <1>1, <1>2, <1>3 DEF CallIs, Removed, Put
  <1>5. request[r].old \in BindingRows /\ request[r].old.channel \in Channels
    BY <1>1, <1>3, CallFacts, RowFields DEF CallIs
  <1>6. listener \in [Channels -> ImSessions \cup {Nobody}]
    BY DEF ChannelInv, ChannelTypes
  <1>7. OnlyAhead(r) /\ NewlyPut(r) /\ NewlyRemoved(r)
    BY <1>1, <1>2 DEF OnlyAhead, NewlyPut, NewlyRemoved, Put, Removed
  <1>8. ListenersInv'
    <2> SUFFICES ASSUME NEW c \in Channels, c \notin disturbed  PROVE ListenerOf(c)'
      BY <1>1 DEF ListenersInv
    <2>1. ListenerOf(c)
      BY DEF ChannelInv, ListenersInv
    <2>3. ~ Listened(r, c) /\ ~ Listened(r, c)' /\ ~ Silenced(r, c)
      BY <1>1, <1>2 DEF Listened, Silenced
    <2>4. CASE request[r].old.channel # c
      <3>1. listener'[c] = listener[c] /\ ~ Silenced(r, c)'
        BY <1>1, <1>2, <1>6, <2>4 DEF Silenced
      <3>2. \A p \in Binds!Requests : request'[p].session = request[p].session
        BY <1>2 DEF OnlyCall
      <3>3. \A p \in Binds!Requests : /\ Silenced(p, c)' <=> Silenced(p, c)
                                      /\ Listened(p, c)' <=> Listened(p, c)
        <4> SUFFICES ASSUME NEW p \in Binds!Requests
                     PROVE  /\ Silenced(p, c)' <=> Silenced(p, c)
                            /\ Listened(p, c)' <=> Listened(p, c)
          OBVIOUS
        <4>1. CASE p = r
          BY <2>3, <3>1, <4>1 DEF Silenced, Listened
        <4>2. CASE p # r
          BY <1>2, <4>2 DEF OnlyCall, Silenced, Listened
        <4> QED  BY <4>1, <4>2
      <3> QED  BY <1>1, <2>1, <3>1, <3>2, <3>3 DEF ListenerOf
    <2>5. CASE request[r].old.channel = c
      <3>1. listener'[c] = Nobody /\ Silenced(r, c)'
        BY <1>1, <1>2, <1>5, <1>6, <2>5, RowFields DEF Silenced
      <3>2. ASSUME NEW p \in Binds!Requests, Listened(p, c)  PROVE FALSE
        <4>1. /\ p # r /\ Put(request[p]) /\ p \in Binds!Active /\ r \in Binds!Active
              /\ request[r].pc # "announce"
          BY <1>1, <2>3, <3>2 DEF Listened, Put, Binds!Active
        <4>2. request[r].old \in bindings
          BY <1>1, <1>5, <2>5, <4>1, RowFields DEF ChannelInv, OldInv
        <4>3. request[p].own \in BindingRows /\ request[p].own.channel = c
          BY <3>2, <4>1, CallFacts DEF CallIs, Listened
        <4>4. request[p].own = request[r].old \/ request[p].old = request[r].old
          BY <2>5, <4>1, <4>2, <4>3 DEF ChannelInv, PutsApart, Fits, Apart
        <4> QED  BY <1>5, <2>5, <4>1, <4>4, TwoMeet
      <3>3. \A p \in Binds!Requests : ~ Listened(p, c)'
        <4> SUFFICES ASSUME NEW p \in Binds!Requests, p # r  PROVE ~ Listened(p, c)'
          BY <2>3 DEF Listened
        <4>1. request'[p] = request[p] /\ ~ Listened(p, c)
          BY <1>2, <3>2 DEF OnlyCall
        <4> QED  BY <4>1 DEF Listened
      <3> QED  BY <3>1, <3>3 DEF ListenerOf
    <2> QED  BY <2>4, <2>5
  <1>9. listener' \in [Channels -> ImSessions \cup {Nobody}]
    BY <1>1, <1>6
  <1> QED  BY <1>1, <1>4, <1>7, <1>8, <1>9, AheadStep DEF ChannelInv

\* Its step and its writes change.
Rewrites(r, pc, w) == request' = [request EXCEPT ![r].pc = pc, ![r].writes = w]

\* A call that goes on with other writes.
LEMMA WritesOn ==
  ASSUME ChannelInv, NEW r \in Binds!Requests, NEW pc \in Steps, NEW w \in Writings,
         request[r].pc # "done", Rewrites(r, pc, w)
  PROVE  /\ OnlyCall(r) /\ request'[r].pc = pc
         /\ request'[r].op = request[r].op /\ request'[r].session = request[r].session
         /\ request'[r].channel = request[r].channel /\ request'[r].own = request[r].own
         /\ request'[r].old = request[r].old /\ request'[r].writes = w
  <1>1. request \in [Binds!Requests -> Requestings]
    BY DEF ChannelInv, ChannelTypes
  <1>2. request[r] \in Requestings
    BY <1>1
  <1>3. request'[r] = [request[r] EXCEPT !.pc = pc, !.writes = w]
    BY <1>1 DEF Rewrites
  <1>4. \A p \in Binds!Requests \ {r} : request'[p] = request[p]
    BY <1>1 DEF Rewrites
  <1>5. /\ request'[r] \in Requestings /\ request'[r].pc = pc /\ request'[r].writes = w
        /\ request'[r].op = request[r].op /\ request'[r].session = request[r].session
        /\ request'[r].channel = request[r].channel /\ request'[r].own = request[r].own
        /\ request'[r].old = request[r].old
    BY ONLY <1>2, <1>3, pc \in Steps, w \in Writings DEF Requestings
  <1>6. request' \in [Binds!Requests -> Requestings]
    BY <1>1, <1>4, <1>5 DEF Rewrites
  <1> QED  BY <1>4, <1>5, <1>6 DEF OnlyCall

\* Who is in a lock's way.
LEMMA Unlocked ==
  ASSUME ChannelInv, NEW r \in Binds!Requests, NEW b \in BindingRows, ~ Binds!Locked(r, b.id),
         NEW p \in Binds!Requests \ {r}
  PROVE  /\ Removed(request[p]) => request[p].old # b
         /\ Put(request[p]) => request[p].own # b
  <1>1. CallIs(p, request[p])
    BY CallFacts
  <1>2. CASE p \in Binds!Active
    <2>1. b.id \notin Binds!Touched(request[p].writes)
      BY <1>2 DEF Binds!Locked
    <2>2. b \notin request[p].writes.gone /\ b \notin request[p].writes.put
      BY <2>1 DEF Binds!Touched
    <2> QED  BY <1>1, <2>2 DEF CallIs
  <1>3. CASE p \notin Binds!Active
    BY <1>3 DEF Binds!Active, Removed, Put
  <1> QED  BY <1>2, <1>3

\* It deletes the old row, or finds it gone.
LEMMA RemoveStep ==
  ASSUME ChannelInv, NEW r \in Binds!Requests, Binds!Remove(r)
  PROVE  ChannelInv'
  <1> DEFINE to == IF request[r].op = "bind" THEN "ask"
                   ELSE IF request[r].op = "delete" THEN "drop" ELSE "commit"
  <1>1. /\ request[r].pc = "remove" /\ ~ Binds!Locked(r, request[r].old.id)
        /\ request' = [request EXCEPT ![r].pc = to, ![r].writes.gone = {request[r].old}]
        /\ listener' = listener
        /\ bindings' = bindings /\ announced' = announced /\ disturbed' = disturbed
    BY DEF Binds!Remove
  <1>2. request \in [Binds!Requests -> Requestings]
        /\ listener \in [Channels -> ImSessions \cup {Nobody}]
    BY DEF ChannelInv, ChannelTypes
  <1>3. /\ request[r] \in Requestings /\ CallIs(r, request[r]) /\ request[r].writes \in Writings
        /\ request[r].old # Binds!NoRow
        /\ request[r].old \in BindingRows
        /\ request[r].op \in {"bind", "unbind", "delete"}
    BY <1>1, CallFacts DEF CallIs
  <1>4. to \in Steps /\ to \in {"ask", "drop", "commit"}
        /\ (request[r].op = "bind" <=> to = "ask") /\ (request[r].op = "delete" <=> to = "drop")
    BY <1>3 DEF Steps
  <1> HIDE DEF to
  <1> DEFINE new == [request[r].writes EXCEPT !.gone = {request[r].old}]
  <1>5. new \in Writings /\ new.gone = {request[r].old} /\ new.put = request[r].writes.put
    BY <1>3 DEF Writings
  <1>6. Rewrites(r, to, new)
    BY <1>1, <1>2, <1>3 DEF Rewrites
  <1> HIDE DEF new
  <1>7. /\ OnlyCall(r) /\ request'[r].pc = to
        /\ request'[r].op = request[r].op /\ request'[r].session = request[r].session
        /\ request'[r].channel = request[r].channel /\ request'[r].own = request[r].own
        /\ request'[r].old = request[r].old /\ request'[r].writes = new
    BY <1>1, <1>4, <1>5, <1>6, WritesOn
  <1>9. CallIs(r, request'[r])
    BY <1>1, <1>3, <1>4, <1>5, <1>7 DEF CallIs, Removed, Put
  <1>10. OnlyAhead(r) /\ NewlyPut(r)
    BY <1>1, <1>3, <1>4, <1>7 DEF OnlyAhead, NewlyPut, Put
  <1>11. NewlyRemoved(r)
    BY <1>1, <1>3, Unlocked DEF NewlyRemoved
  <1>12. ListenersInv'
    <2>1. \A c \in Channels : /\ Silenced(r, c)' <=> Silenced(r, c)
                              /\ Listened(r, c)' <=> Listened(r, c)
      BY <1>1, <1>3, <1>4, <1>7 DEF Silenced, Listened
    <2> QED  BY <1>1, <1>7, <2>1, ListenersStay DEF ChannelInv
  <1> QED  BY <1>1, <1>2, <1>9, <1>10, <1>11, <1>12, AheadStep DEF ChannelInv

\* A deletion goes on with the instance.
LEMMA DropStep ==
  ASSUME ChannelInv, NEW r \in Binds!Requests, Binds!Drop(r)
  PROVE  ChannelInv'
  <1> DEFINE change == {[channel |-> request[r].channel, to |-> "none"]}
  <1>1. /\ request[r].pc = "drop"
        /\ request' = [request EXCEPT ![r].pc = "commit", ![r].writes.instances = change]
        /\ listener' = listener
        /\ bindings' = bindings /\ announced' = announced /\ disturbed' = disturbed
    BY DEF Binds!Drop
  <1>2. request \in [Binds!Requests -> Requestings]
        /\ listener \in [Channels -> ImSessions \cup {Nobody}]
    BY DEF ChannelInv, ChannelTypes
  <1>3. /\ request[r] \in Requestings /\ CallIs(r, request[r]) /\ request[r].writes \in Writings
        /\ request[r].op = "delete"
    BY <1>1, CallFacts DEF CallIs
  <1>4. request[r].channel \in Channels
    BY <1>3 DEF CallIs
  <1>5. change \in SUBSET [channel : Channels, to : Binds!InitStates]
    BY <1>4 DEF Binds!InitStates
  <1> HIDE DEF change
  <1> DEFINE new == [request[r].writes EXCEPT !.instances = change]
  <1>6. /\ new \in Writings
        /\ new.gone = request[r].writes.gone /\ new.put = request[r].writes.put
    BY <1>3, <1>5 DEF Writings
  <1>7. Rewrites(r, "commit", new)
    BY <1>1, <1>2, <1>3 DEF Rewrites
  <1> HIDE DEF new
  <1>8. "commit" \in Steps
    BY DEF Steps
  <1>9. /\ OnlyCall(r) /\ request'[r].pc = "commit"
        /\ request'[r].op = request[r].op /\ request'[r].session = request[r].session
        /\ request'[r].channel = request[r].channel /\ request'[r].own = request[r].own
        /\ request'[r].old = request[r].old /\ request'[r].writes = new
    BY <1>1, <1>6, <1>7, <1>8, WritesOn
  <1>10. CallIs(r, request'[r])
    BY <1>1, <1>3, <1>6, <1>9 DEF CallIs, Removed, Put
  <1>11. OnlyAhead(r) /\ NewlyPut(r) /\ NewlyRemoved(r)
    BY <1>1, <1>3, <1>9 DEF OnlyAhead, NewlyPut, NewlyRemoved, Put, Removed
  <1>12. ListenersInv'
    <2>1. \A c \in Channels : /\ Silenced(r, c)' <=> Silenced(r, c)
                              /\ Listened(r, c)' <=> Listened(r, c)
      BY <1>1, <1>3, <1>9 DEF Silenced, Listened
    <2> QED  BY <1>1, <1>9, <2>1, ListenersStay DEF ChannelInv
  <1> QED  BY <1>1, <1>2, <1>10, <1>11, <1>12, AheadStep DEF ChannelInv

\* The adapter binds: the row of the call is the one it read, or a new one.
LEMMA AskStep ==
  ASSUME ChannelInv, NEW r \in Binds!Requests, Binds!Ask(r)
  PROVE  ChannelInv'
  <1> DEFINE new == Binds!Row(IF request[r].own = Binds!NoRow THEN r ELSE request[r].own.id,
                              request[r].session, request[r].channel)
  <1>1. /\ request[r].pc = "ask"
        /\ request' = [request EXCEPT ![r].pc = "save", ![r].own = new]
        /\ listener' = listener
        /\ bindings' = bindings /\ announced' = announced /\ disturbed' = disturbed
    BY DEF Binds!Ask
  <1>2. request \in [Binds!Requests -> Requestings]
        /\ listener \in [Channels -> ImSessions \cup {Nobody}]
    BY DEF ChannelInv, ChannelTypes
  <1>3. /\ request[r] \in Requestings /\ CallIs(r, request[r])
        /\ request[r].op \in {"bind", "complete"}
        /\ request[r].session \in ImSessions /\ request[r].channel \in Channels
        /\ request[r].own # Binds!NoRow => request[r].own \in BindingRows
    BY <1>1, CallFacts DEF CallIs
  <1>4. /\ new \in BindingRows
        /\ new.session = request[r].session /\ new.channel = request[r].channel
        /\ request[r].own # Binds!NoRow => new = request[r].own
        /\ request[r].own = Binds!NoRow => new.id = r /\ request[r].op = "bind"
    <2>1. new.session = request[r].session /\ new.channel = request[r].channel
      BY DEF Binds!Row
    <2>2. CASE request[r].own = Binds!NoRow
      <3>1. request[r].op = "bind" /\ r \in BindRequests /\ new.id = r
        BY <1>3, <2>2 DEF CallIs, Binds!Row
      <3>2. new = Binds!Row(r, request[r].session, request[r].channel)
        BY <2>2
      <3>3. new \in BindingRows
        BY ONLY <1>3, <3>1, <3>2 DEF Binds!Row, BindingRows
      <3> QED  BY <2>1, <2>2, <3>1, <3>3
    <2>3. CASE request[r].own # Binds!NoRow
      <3>1. new = Binds!Row(request[r].own.id, request[r].session, request[r].channel)
        BY <2>3
      <3>2. request[r].own.id \in BindRequests /\ new.id = request[r].own.id
        BY <1>3, <2>3, <3>1, RowFields DEF Binds!Row
      <3>3. new \in BindingRows
        BY ONLY <1>3, <3>1, <3>2 DEF Binds!Row, BindingRows
      <3>4. request[r].own.session = request[r].session /\ request[r].own.channel = request[r].channel
        BY <1>3, <2>3 DEF CallIs
      <3>5. new = request[r].own
        BY <1>3, <2>1, <2>3, <3>2, <3>3, <3>4, RowsEqual
      <3> QED  BY <2>1, <2>3, <3>3, <3>5
    <2> QED  BY <2>2, <2>3
  <1>5. request'[r] = [request[r] EXCEPT !.pc = "save", !.own = new]
    BY <1>1, <1>2
  <1>6. \A p \in Binds!Requests \ {r} : request'[p] = request[p]
    BY <1>1, <1>2
  <1> HIDE DEF new
  <1>7. "save" \in Steps /\ new \in AnyRow
    BY <1>4 DEF Steps, AnyRow
  <1>8. /\ request'[r] \in Requestings /\ request'[r].pc = "save" /\ request'[r].own = new
        /\ request'[r].op = request[r].op /\ request'[r].session = request[r].session
        /\ request'[r].channel = request[r].channel
        /\ request'[r].old = request[r].old /\ request'[r].writes = request[r].writes
    BY ONLY <1>3, <1>5, <1>7 DEF Requestings
  <1>9. OnlyCall(r)
    <2>1. request' \in [Binds!Requests -> Requestings]
      BY <1>1, <1>2, <1>6, <1>8
    <2> QED  BY <1>1, <1>6, <2>1 DEF OnlyCall
  <1>10. CallIs(r, request'[r])
    BY <1>1, <1>3, <1>4, <1>8, RowFields DEF CallIs, Removed, Put
  <1>11. OnlyAhead(r)
    BY <1>1, <1>4, <1>8, <1>9 DEF OnlyAhead
  <1>12. NewlyPut(r) /\ NewlyRemoved(r)
    BY <1>1, <1>8 DEF NewlyPut, NewlyRemoved, Put, Removed
  <1>13. ListenersInv'
    <2>1. \A c \in Channels : /\ Silenced(r, c)' <=> Silenced(r, c)
                              /\ Listened(r, c)' <=> Listened(r, c)
      BY <1>1, <1>8 DEF Silenced, Listened
    <2> QED  BY <1>1, <1>8, <1>9, <2>1, ListenersStay DEF ChannelInv
  <1> QED  BY <1>1, <1>2, <1>10, <1>11, <1>12, <1>13, AheadStep DEF ChannelInv

\* The row is saved, if its channel and its session are free.
LEMMA SaveStep ==
  ASSUME ChannelInv, NEW r \in Binds!Requests, Binds!Save(r)
  PROVE  ChannelInv'
  <1> DEFINE q == request[r]
  <1>1. /\ request[r].pc = "save" /\ ~ Binds!Waits(r, q) /\ Binds!Saves(r, q)
        /\ request' = [request EXCEPT ![r].writes.put = {request[r].own}, ![r].pc = "listen"]
        /\ listener' = listener
        /\ bindings' = bindings /\ announced' = announced /\ disturbed' = disturbed
    BY DEF Binds!Save
  <1>2. request \in [Binds!Requests -> Requestings]
        /\ listener \in [Channels -> ImSessions \cup {Nobody}]
    BY DEF ChannelInv, ChannelTypes
  <1>3. /\ request[r] \in Requestings /\ CallIs(r, request[r]) /\ request[r].writes \in Writings
        /\ request[r].op \in {"bind", "complete"}
        /\ request[r].own # Binds!NoRow /\ request[r].own \in BindingRows
        /\ request[r].own.session = request[r].session
        /\ request[r].own.channel = request[r].channel
    BY <1>1, CallFacts DEF CallIs
  <1> DEFINE new == [request[r].writes EXCEPT !.put = {request[r].own}]
  <1>4. new \in Writings /\ new.put = {request[r].own} /\ new.gone = request[r].writes.gone
    BY <1>3 DEF Writings
  <1>5. Rewrites(r, "listen", new)
    BY <1>1, <1>2, <1>3 DEF Rewrites
  <1> HIDE DEF new
  <1>6. "listen" \in Steps
    BY DEF Steps
  <1>7. /\ OnlyCall(r) /\ request'[r].pc = "listen"
        /\ request'[r].op = request[r].op /\ request'[r].session = request[r].session
        /\ request'[r].channel = request[r].channel /\ request'[r].own = request[r].own
        /\ request'[r].old = request[r].old /\ request'[r].writes = new
    BY <1>1, <1>4, <1>5, <1>6, WritesOn
  <1>8. CallIs(r, request'[r])
    BY <1>1, <1>3, <1>4, <1>7 DEF CallIs, Removed, Put
  <1>9. OnlyAhead(r) /\ NewlyRemoved(r)
    BY <1>1, <1>7 DEF OnlyAhead, NewlyRemoved, Removed
  <1>10. ASSUME NEW p \in Binds!Requests \ {r}
         PROVE  /\ Put(request[p]) => Apart(request[p].own, request[r].own)
                /\ Removed(request[p]) => request[p].old # request[r].own
    <2>1. Removed(request[p]) => request[p].old # request[r].own
      BY <1>1, <1>3, Unlocked DEF Binds!Waits
    <2>2. ASSUME Put(request[p])  PROVE Apart(request[p].own, request[r].own)
      <3>1. p \in Binds!Active \ {r} /\ CallIs(p, request[p])
        BY <2>2, CallFacts DEF Binds!Active, Put
      <3>2. request[p].own \in request[p].writes.put
        BY <2>2, <3>1 DEF CallIs
      <3>3. request[p].own.channel # request[r].channel /\ request[p].own.session # request[r].session
        BY <1>1, <3>1, <3>2 DEF Binds!Waits
      <3> QED  BY <1>3, <3>3 DEF Apart
    <2> QED  BY <2>1, <2>2
  <1>11. Fits(r)
    <2>1. \A p \in Binds!Requests \ {r} : Put(request[p]) => Apart(request[r].own, request[p].own)
      BY <1>10 DEF Apart
    <2>2. CASE request[r].own.id = r
      <3>1. Binds!Free(r, q)
        BY <1>1, <2>2 DEF Binds!Saves
      <3>2. ASSUME NEW d \in bindings
            PROVE  \/ Apart(request[r].own, d)
                   \/ Removed(request[r]) /\ d = request[r].old
        <4>1. \/ d \in request[r].writes.gone
              \/ d.channel # request[r].channel /\ d.session # request[r].session
          BY <3>1 DEF Binds!Free
        <4> QED  BY <1>3, <4>1 DEF Apart, CallIs
      <3> QED  BY <2>1, <2>2, <3>2 DEF Fits
    <2>3. CASE request[r].own.id # r
      <3>1. PICK b \in bindings : b.id = request[r].own.id
        BY <1>1, <2>3 DEF Binds!Saves, Binds!Updates
      <3>2. Known(b) /\ Known(request[r].own) /\ b \in BindingRows
        BY <1>3, <2>3 DEF ChannelInv, RowsKnown, Committed, ChannelTypes
      <3>3. b = request[r].own
        BY <1>3, <3>1, <3>2, SameRow
      <3>4. \A d \in bindings : d = request[r].own \/ Apart(request[r].own, d)
        BY <3>3 DEF ChannelInv, RowsApart
      <3> QED  BY <2>1, <3>3, <3>4 DEF Fits
    <2> QED  BY <2>2, <2>3
  <1>12. NewlyPut(r)
    BY <1>1, <1>7, <1>10, <1>11 DEF NewlyPut, Removed
  <1>13. ListenersInv'
    <2>1. \A c \in Channels : /\ Silenced(r, c)' <=> Silenced(r, c)
                              /\ Listened(r, c)' <=> Listened(r, c)
      BY <1>1, <1>7 DEF Silenced, Listened
    <2> QED  BY <1>1, <1>7, <2>1, ListenersStay DEF ChannelInv
  <1> QED  BY <1>1, <1>2, <1>8, <1>9, <1>12, <1>13, AheadStep DEF ChannelInv

\* The adapter listens for the session, or fails to.
LEMMA ListenStep ==
  ASSUME ChannelInv, NEW r \in Binds!Requests, Binds!Listen(r)
  PROVE  ChannelInv'
  <1>1. /\ request[r].pc = "listen" /\ Binds!Goes(r, "commit")
        /\ \/ /\ listener' = [listener EXCEPT ![request[r].channel] = request[r].session]
              /\ disturbed' = disturbed
           \/ /\ listener' = listener
              /\ disturbed' = disturbed \cup Binds!About(request[r])
        /\ bindings' = bindings /\ announced' = announced
    BY DEF Binds!Listen
  <1>2. /\ OnlyCall(r) /\ request'[r].pc = "commit"
        /\ request'[r].op = request[r].op /\ request'[r].session = request[r].session
        /\ request'[r].channel = request[r].channel /\ request'[r].own = request[r].own
        /\ request'[r].old = request[r].old /\ request'[r].writes = request[r].writes
    BY <1>1, GoesOn DEF Steps
  <1>3. /\ CallIs(r, request[r]) /\ request[r].op \in {"bind", "complete"}
        /\ request[r].session \in ImSessions /\ request[r].channel \in Channels
        /\ request[r].own \in BindingRows
        /\ request[r].own.session = request[r].session
        /\ request[r].own.channel = request[r].channel
    BY <1>1, CallFacts DEF CallIs
  <1>4. listener \in [Channels -> ImSessions \cup {Nobody}]
    BY DEF ChannelInv, ChannelTypes
  <1>5. listener' \in [Channels -> ImSessions \cup {Nobody}]
    BY <1>1, <1>3, <1>4
  <1>6. disturbed \subseteq disturbed'
    BY <1>1
  <1>7. CallIs(r, request'[r])
    BY <1>1, <1>2, <1>3 DEF CallIs, Removed, Put
  <1>8. OnlyAhead(r) /\ NewlyPut(r) /\ NewlyRemoved(r)
    BY <1>1, <1>2, <1>3 DEF OnlyAhead, NewlyPut, NewlyRemoved, Put, Removed
  <1>9. ListenersInv'
    <2> SUFFICES ASSUME NEW c \in Channels, c \notin disturbed'  PROVE ListenerOf(c)'
      BY DEF ListenersInv
    <2>1. ListenerOf(c) /\ c \notin disturbed
      BY <1>6 DEF ChannelInv, ListenersInv
    <2>2. ~ Listened(r, c) /\ (Silenced(r, c)' <=> Silenced(r, c))
      BY <1>1, <1>2 DEF Listened, Silenced
    <2>3. \A p \in Binds!Requests : request'[p].session = request[p].session
      BY <1>2 DEF OnlyCall
    <2>4. CASE request[r].channel # c
      <3>1. listener'[c] = listener[c] /\ ~ Listened(r, c)'
        BY <1>1, <1>2, <1>4, <2>4 DEF Listened
      <3>2. \A p \in Binds!Requests : /\ Silenced(p, c)' <=> Silenced(p, c)
                                      /\ Listened(p, c)' <=> Listened(p, c)
        <4> SUFFICES ASSUME NEW p \in Binds!Requests
                     PROVE  /\ Silenced(p, c)' <=> Silenced(p, c)
                            /\ Listened(p, c)' <=> Listened(p, c)
          OBVIOUS
        <4>1. CASE p = r
          BY <2>2, <3>1, <4>1
        <4>2. CASE p # r
          BY <1>2, <4>2 DEF OnlyCall, Silenced, Listened
        <4> QED  BY <4>1, <4>2
      <3> QED  BY <1>1, <2>1, <2>3, <3>1, <3>2 DEF ListenerOf
    <2>5. CASE request[r].channel = c
      <3>1. listener'[c] = request[r].session /\ Listened(r, c)'
        <4>1. c \in Binds!About(request[r])
          BY <1>3, <2>5 DEF Binds!About
        <4>2. listener' = [listener EXCEPT ![c] = request[r].session]
          BY <1>1, <2>5, <4>1
        <4> QED  BY <1>2, <1>3, <1>4, <2>5, <4>2 DEF Listened
      <3>2. Put(request[r]) /\ r \in Binds!Active
        BY <1>1, <1>3 DEF Put, Binds!Active
      <3>3. Fits(r)
        BY <3>2 DEF ChannelInv, PutsApart
      <3>4. ~ Silenced(r, c)
        BY <1>3, <2>5 DEF CallIs, Silenced
      <3>5. ASSUME NEW p \in Binds!Requests \ {r}  PROVE ~ Silenced(p, c)'
        <4> SUFFICES ASSUME Silenced(p, c)'  PROVE FALSE
          OBVIOUS
        <4>1. request'[p] = request[p]
          BY <1>2 DEF OnlyCall
        <4>2. /\ p \in Binds!Active /\ request[p].pc # "announce"
              /\ request[p].old \in BindingRows /\ request[p].old.channel = c
          BY <4>1, CallFacts DEF Silenced, Binds!Active
        <4>3. request[p].old \in bindings
          BY <2>1, <4>2, RowFields DEF ChannelInv, OldInv
        <4>4. request[p].old = request[r].own \/ request[p].old = request[r].old
          BY <1>3, <2>5, <3>3, <4>2, <4>3 DEF Fits, Apart
        <4> QED  BY <2>1, <3>2, <4>2, <4>4, TwoMeet
      <3>6. ASSUME NEW p \in Binds!Requests \ {r}  PROVE ~ Listened(p, c)'
        <4> SUFFICES ASSUME Listened(p, c)'  PROVE FALSE
          OBVIOUS
        <4>1. request'[p] = request[p]
          BY <1>2 DEF OnlyCall
        <4>2. Put(request[p]) /\ request[p].own.channel = c
          BY <4>1, CallFacts DEF Listened, Put, CallIs
        <4> QED  BY <1>3, <2>5, <3>3, <4>2 DEF Fits, Apart
      <3>7. \A p \in Binds!Requests : ~ Silenced(p, c)'
        BY <2>2, <3>4, <3>5
      <3>8. \A p \in Binds!Requests : Listened(p, c)' => p = r
        BY <3>6
      <3> QED  BY <1>2, <3>1, <3>7, <3>8 DEF ListenerOf
    <2> QED  BY <2>4, <2>5
  <1> QED  BY <1>1, <1>5, <1>6, <1>7, <1>8, <1>9, AheadStep DEF ChannelInv

\* The end of a binding is told.
LEMMA AnnounceStep ==
  ASSUME ChannelInv, NEW r \in Binds!Requests, Binds!Announce(r)
  PROVE  ChannelInv'
  <1>1. /\ request[r].pc = "announce" /\ Binds!Goes(r, "done")
        /\ announced' = announced \cup ({request[r].old} \ {Binds!NoRow})
        /\ listener' = listener /\ bindings' = bindings /\ disturbed' = disturbed
    BY DEF Binds!Announce
  <1>2. /\ OnlyCall(r) /\ request'[r].pc = "done"
        /\ request'[r].op = request[r].op /\ request'[r].session = request[r].session
        /\ request'[r].channel = request[r].channel /\ request'[r].own = request[r].own
        /\ request'[r].old = request[r].old /\ request'[r].writes = request[r].writes
    BY <1>1, GoesOn DEF Steps
  <1>3. CallIs(r, request[r])
    BY CallFacts
  <1>4. CallIs(r, request'[r])
    BY <1>1, <1>2, <1>3 DEF CallIs, Removed, Put
  <1>5. OnlyAhead(r) /\ NewlyPut(r) /\ NewlyRemoved(r)
    BY <1>1, <1>2 DEF OnlyAhead, NewlyPut, NewlyRemoved, Put, Removed
  <1>6. ListenersInv'
    <2>1. \A c \in Channels : /\ Silenced(r, c)' <=> Silenced(r, c)
                              /\ Listened(r, c)' <=> Listened(r, c)
      BY <1>1, <1>2 DEF Silenced, Listened
    <2> QED  BY <1>1, <1>2, <2>1, ListenersStay DEF ChannelInv
  <1>7. listener' \in [Channels -> ImSessions \cup {Nobody}]
    BY <1>1 DEF ChannelInv, ChannelTypes
  <1> QED  BY <1>1, <1>4, <1>5, <1>6, <1>7, AheadStep DEF ChannelInv

\* No writes are writes.
LEMMA NothingWritten ==
  /\ Binds!NoWrites \in Writings /\ Binds!NoWrites.gone = {} /\ Binds!NoWrites.put = {}
  BY DEF Binds!NoWrites, Writings

\* A call fails. What it silenced or started counts as disturbed.
LEMMA FailStep ==
  ASSUME ChannelInv, NEW r \in Binds!Requests, Binds!Fail(r)
  PROVE  ChannelInv'
  <1>1. /\ request[r].pc \in {"ask", "save", "remove", "drop", "commit"}
        /\ request' = [request EXCEPT ![r].writes = Binds!NoWrites, ![r].pc = "done"]
        /\ disturbed' = IF request[r].old # Binds!NoRow \/ request[r].pc = "commit"
                        THEN disturbed \cup Binds!About(request[r]) ELSE disturbed
        /\ listener' = listener /\ bindings' = bindings /\ announced' = announced
    BY DEF Binds!Fail
  <1>2. request \in [Binds!Requests -> Requestings]
        /\ listener \in [Channels -> ImSessions \cup {Nobody}]
    BY DEF ChannelInv, ChannelTypes
  <1>3. /\ request[r] \in Requestings /\ CallIs(r, request[r])
        /\ request[r].old # Binds!NoRow => request[r].old.channel \in Channels
    BY CallFacts, RowFields
  <1>4. Rewrites(r, "done", Binds!NoWrites)
    BY <1>1, <1>2, <1>3 DEF Rewrites
  <1>5. "done" \in Steps
    BY DEF Steps
  <1>6. /\ OnlyCall(r) /\ request'[r].pc = "done"
        /\ request'[r].op = request[r].op /\ request'[r].session = request[r].session
        /\ request'[r].channel = request[r].channel /\ request'[r].own = request[r].own
        /\ request'[r].old = request[r].old /\ request'[r].writes = Binds!NoWrites
    BY <1>1, <1>4, <1>5, WritesOn, NothingWritten
  <1>7. CallIs(r, request'[r])
    BY <1>1, <1>3, <1>6, NothingWritten DEF CallIs, Removed, Put
  <1>8. OnlyAhead(r) /\ NewlyPut(r) /\ NewlyRemoved(r)
    BY <1>1, <1>6 DEF OnlyAhead, NewlyPut, NewlyRemoved, Put, Removed
  <1>9. disturbed \subseteq disturbed'
    BY <1>1
  <1>10. ListenersInv'
    <2>1. ASSUME NEW c \in Channels \ disturbed'
          PROVE  /\ Silenced(r, c)' <=> Silenced(r, c)
                 /\ Listened(r, c)' <=> Listened(r, c)
      <3>1. ~ Silenced(r, c) /\ ~ Listened(r, c)
        BY <1>1, <1>3 DEF Silenced, Listened, Binds!About
      <3>2. ~ Silenced(r, c)' /\ ~ Listened(r, c)'
        BY <1>6 DEF Silenced, Listened
      <3> QED  BY <3>1, <3>2
    <2> QED  BY <1>1, <1>6, <1>9, <2>1, ListenersStay DEF ChannelInv
  <1> QED  BY <1>1, <1>2, <1>7, <1>8, <1>9, <1>10, AheadStep DEF ChannelInv

\* A call begins with what it reads.
LEMMA BeginsStep ==
  ASSUME ChannelInv, NEW r \in Binds!Requests, NEW q \in Requestings, Binds!Begins(r, q),
         CallIs(r, q), q.pc \in {"ask", "silence", "drop"}, q.pc # "silence" => q.old = Binds!NoRow,
         q.old # Binds!NoRow => q.old \in bindings, q.own # Binds!NoRow => q.own \in bindings
  PROVE  ChannelInv'
  <1> USE DEF ChannelInv
  <1>1. /\ request[r] = Binds!NoRequest /\ request' = [request EXCEPT ![r] = q]
        /\ disturbed' = Binds!Disturbing(q)
        /\ listener' = listener /\ bindings' = bindings /\ announced' = announced
    BY DEF Binds!Begins
  <1>2. request[r].pc = "off"
    BY <1>1 DEF Binds!NoRequest
  <1>3. /\ OnlyCall(r) /\ request'[r] = q /\ request' \in [Binds!Requests -> Requestings]
        /\ \A p \in Binds!Requests \ {r} : request'[p] = request[p]
    BY <1>1, <1>2 DEF ChannelTypes, OnlyCall
  <1>4. ~ Removed(q) /\ ~ Put(q)
    BY DEF Removed, Put
  <1>5. ChannelTypes'
    BY <1>1, <1>3 DEF ChannelTypes
  <1>6. \A b \in BindingRows : Committed(b) => Committed(b)'
    BY <1>3, CommittedStays
  <1>7. \A p \in Binds!Requests : /\ request[p].old # Binds!NoRow => request[p].old \in BindingRows
                                  /\ request[p].own # Binds!NoRow => request[p].own \in BindingRows
    BY CallFacts
  <1>8. RowsKnown'
    <2>1. (\A b \in bindings : Committed(b))'
      BY <1>1, <1>6 DEF RowsKnown, ChannelTypes
    <2>2. (\A b \in announced : Committed(b))'
      BY <1>1, <1>6 DEF RowsKnown, ChannelTypes
    <2>3. ASSUME NEW p \in Binds!Requests
          PROVE  /\ (request[p].old # Binds!NoRow => Committed(request[p].old))'
                 /\ (\/ request[p].own = Binds!NoRow
                     \/ Committed(request[p].own)
                     \/ request[p].own.id = p /\ Known(request[p].own))'
      <3>1. CASE p = r
        <4>1. /\ request'[p].old # Binds!NoRow => request'[p].old \in bindings'
              /\ request'[p].own # Binds!NoRow => request'[p].own \in bindings'
          BY <1>1, <1>3, <3>1
        <4> QED  BY <2>1, <4>1
      <3>2. CASE p # r
        <4>1. /\ request[p].old # Binds!NoRow => Committed(request[p].old)
              /\ \/ request[p].own = Binds!NoRow
                 \/ Committed(request[p].own)
                 \/ request[p].own.id = p /\ Known(request[p].own)
          BY DEF RowsKnown
        <4>2. request'[p] = request[p]
          BY <1>3, <3>2
        <4> QED  BY <1>6, <1>7, <4>1, <4>2 DEF Committed, Known
      <3> QED  BY <3>1, <3>2
    <2> QED  BY <2>1, <2>2, <2>3 DEF RowsKnown
  <1>9. CallsInv'
    BY <1>3 DEF CallsInv
  <1>10. RowsApart'
    BY <1>1 DEF RowsApart
  <1>11. PutsApart'
    <2>1. ASSUME NEW p \in Binds!Requests, Put(request'[p])  PROVE Fits(p)'
      <3>1. p # r /\ request'[p] = request[p] /\ Fits(p)
        BY <1>3, <1>4, <2>1 DEF PutsApart
      <3>2. \A x \in Binds!Requests \ {p} :
              Put(request'[x]) => Apart(request'[p].own, request'[x].own)
        BY <1>3, <1>4, <3>1 DEF Fits
      <3> QED  BY <1>1, <3>1, <3>2 DEF Fits
    <2> QED  BY <2>1 DEF PutsApart
  <1>12. TouchesInv'
    BY <1>3, <1>4 DEF TouchesInv
  <1>13. disturbed \subseteq disturbed'
    BY <1>1 DEF Binds!Disturbing
  <1>14. \A p \in Binds!Active' : p # r => p \in Binds!Active /\ request'[p] = request[p]
    BY <1>3 DEF Binds!Active
  <1>15. MetInv'
    <2>1. ASSUME NEW p \in Binds!Active, request[p].session = q.session, q.session # Nobody
          PROVE  Binds!About(q) \subseteq disturbed' /\ Binds!About(request[p]) \subseteq disturbed'
      <3>1. p \in Binds!Meets(q)
        BY <2>1 DEF Binds!Meets
      <3> QED  BY <1>1, <3>1 DEF Binds!Disturbing
    <2>2. ASSUME NEW p \in Binds!Active', NEW x \in Binds!Active', p # x,
                 request'[p].session = request'[x].session, request'[p].session # Nobody
          PROVE  Binds!About(request'[p]) \subseteq disturbed'
      <3>1. CASE p = r
        BY <1>3, <1>14, <2>1, <2>2, <3>1
      <3>2. CASE x = r
        BY <1>3, <1>14, <2>1, <2>2, <3>2
      <3>3. CASE p # r /\ x # r
        BY <1>13, <1>14, <2>2, <3>3 DEF MetInv
      <3> QED  BY <3>1, <3>2, <3>3
    <2> QED  BY <2>2 DEF MetInv
  <1>16. OldInv'
    BY <1>1, <1>3, <1>13, <1>14 DEF OldInv
  <1>17. ListenersInv'
    <2>1. \A c \in Channels : /\ ~ Silenced(r, c) /\ ~ Silenced(r, c)'
                              /\ ~ Listened(r, c) /\ ~ Listened(r, c)'
      BY <1>2, <1>3 DEF Silenced, Listened
    <2> QED  BY <1>1, <1>3, <1>13, <2>1, ListenersStay
  <1>18. AnnouncedInv'
    BY <1>1, <1>3 DEF AnnouncedInv
  <1> QED  BY <1>5, <1>8, <1>9, <1>10, <1>11, <1>12, <1>15, <1>16, <1>17, <1>18

\* The row of a session or a channel, if there is one.
LEMMA RowOf ==
  ASSUME NEW rows, rows \subseteq bindings
  PROVE  \/ rows = {} /\ Binds!Only(rows) = Binds!NoRow
         \/ Binds!Only(rows) \in rows
  BY DEF Binds!Only

\* The row a session has, and the one a channel has.
LEMMA RowsFound ==
  ASSUME ChannelInv, NEW s \in ImSessions, NEW c \in Channels
  PROVE  /\ \/ Binds!OfSession(s) = Binds!NoRow
            \/ /\ Binds!OfSession(s) \in bindings /\ Binds!OfSession(s) \in BindingRows
               /\ Binds!OfSession(s).session = s
         /\ \/ Binds!OfChannel(c) = Binds!NoRow /\ \A b \in bindings : b.channel # c
            \/ /\ Binds!OfChannel(c) \in bindings /\ Binds!OfChannel(c) \in BindingRows
               /\ Binds!OfChannel(c).channel = c
  <1> DEFINE ss == {b \in bindings : b.session = s}
             cc == {b \in bindings : b.channel = c}
  <1>1. ss \subseteq bindings /\ cc \subseteq bindings /\ bindings \subseteq BindingRows
    BY DEF ChannelInv, ChannelTypes
  <1>2. \/ ss = {} /\ Binds!Only(ss) = Binds!NoRow
        \/ Binds!Only(ss) \in ss
    BY <1>1, RowOf
  <1>3. \/ cc = {} /\ Binds!Only(cc) = Binds!NoRow
        \/ Binds!Only(cc) \in cc
    BY <1>1, RowOf
  <1>4. Binds!OfSession(s) = Binds!Only(ss) /\ Binds!OfChannel(c) = Binds!Only(cc)
    BY DEF Binds!OfSession, Binds!OfChannel
  <1> QED  BY <1>1, <1>2, <1>3, <1>4

\* No request is a request.
LEMMA NoRequestIsOne == Binds!NoRequest \in Requestings
  BY NothingWritten DEF Binds!NoRequest, Requestings, Steps, AnyRow

\* A session is bound to a channel.
LEMMA BindStep ==
  ASSUME ChannelInv, NEW r \in BindRequests, NEW s \in ImSessions, NEW c \in Channels,
         Binds!Bind(r, s, c)
  PROVE  ChannelInv'
  <1> DEFINE there == Binds!OfChannel(c)
             former == IF Binds!OfSession(s).channel = c THEN Binds!NoRow ELSE Binds!OfSession(s)
             first == IF Binds!OfSession(s).channel \in {c, Nobody} THEN "ask" ELSE "silence"
             renewed == IF instance[c] = "error" THEN {[channel |-> c, to |-> "ready"]} ELSE {}
             written == [Binds!NoWrites EXCEPT !.instances = renewed]
             q == [op |-> "bind", pc |-> first, session |-> s, channel |-> c, own |-> there,
                   old |-> former, writes |-> written]
  <1>1. r \in Binds!Requests
    BY DEF Binds!Requests
  <1>2. /\ there = Binds!NoRow \/ there.session = s
        /\ Binds!Begins(r, q)
    BY DEF Binds!Bind
  <1>3. /\ \/ there = Binds!NoRow
           \/ there \in bindings /\ there \in BindingRows /\ there.channel = c
        /\ \/ Binds!OfSession(s) = Binds!NoRow
           \/ /\ Binds!OfSession(s) \in bindings /\ Binds!OfSession(s) \in BindingRows
              /\ Binds!OfSession(s).session = s
    BY RowsFound
  <1>4. /\ \/ former = Binds!NoRow
           \/ former \in bindings /\ former \in BindingRows
        /\ former # Binds!NoRow => former.session = s /\ former.channel # c
        /\ first \in {"ask", "silence"} /\ first \in Steps
        /\ (first = "ask" <=> former = Binds!NoRow)
    <2>1. CASE Binds!OfSession(s) = Binds!NoRow
      BY <2>1, RowFields DEF Steps
    <2>2. CASE Binds!OfSession(s) # Binds!NoRow
      BY <1>3, <2>2, RowFields DEF Steps
    <2> QED  BY <2>1, <2>2
  <1>5. renewed \in SUBSET [channel : Channels, to : Binds!InitStates]
    BY DEF Binds!InitStates
  <1> HIDE DEF there, former, first, renewed
  <1>6. written \in Writings /\ written.gone = {} /\ written.put = {}
    BY <1>5 DEF Writings, Binds!NoWrites
  <1> HIDE DEF written
  <1>7. q \in Requestings
    BY <1>3, <1>4, <1>6 DEF Requestings, AnyRow
  <1>8. /\ q.op = "bind" /\ q.pc = first /\ q.session = s /\ q.channel = c /\ q.own = there
        /\ q.old = former /\ q.writes = written
    OBVIOUS
  <1> HIDE DEF q
  <1>9. CallIs(r, q)
    BY <1>2, <1>3, <1>4, <1>6, <1>8 DEF CallIs, Removed, Put
  <1> QED  BY <1>1, <1>2, <1>3, <1>4, <1>7, <1>8, <1>9, BeginsStep

\* A binding of a session is completed.
LEMMA CompleteStep ==
  ASSUME ChannelInv, NEW r \in OtherRequests, NEW s \in ImSessions, NEW c \in Channels,
         Binds!Complete(r, s, c)
  PROVE  ChannelInv'
  <1> DEFINE there == Binds!OfSession(s)
             q == [Binds!NoRequest EXCEPT !.op = "complete", !.pc = "ask", !.session = s,
                                          !.channel = c, !.own = there]
  <1>1. r \in Binds!Requests
    BY DEF Binds!Requests
  <1>2. there.channel = c /\ Binds!Begins(r, q)
    BY DEF Binds!Complete
  <1>3. there \in bindings /\ there \in BindingRows /\ there.session = s
    BY <1>2, RowsFound, RowFields, ServicesAssumption
  <1> HIDE DEF there
  <1>4. q = [Binds!NoRequest EXCEPT !.op = "complete", !.pc = "ask", !.session = s,
                                    !.channel = c, !.own = there]
    OBVIOUS
  <1> HIDE DEF q
  <1>5. /\ q.op = "complete" /\ q.pc = "ask" /\ q.session = s /\ q.channel = c /\ q.own = there
        /\ q.old = Binds!NoRow /\ q.writes = Binds!NoWrites
    BY ONLY <1>4 DEF Binds!NoRequest
  <1>6. q \in Requestings
    <2>1. there \in AnyRow 
      BY <1>3 DEF AnyRow
    <2> QED  BY ONLY <1>4, <2>1, NoRequestIsOne, s \in ImSessions, c \in Channels DEF Requestings, Steps
  <1>7. CallIs(r, q)
    BY <1>2, <1>3, <1>5, NothingWritten, RowFields DEF CallIs, Removed, Put
  <1> QED  BY <1>1, <1>2, <1>3, <1>5, <1>6, <1>7, BeginsStep

\* A session is unbound.
LEMMA UnbindStep ==
  ASSUME ChannelInv, NEW r \in OtherRequests, NEW s \in ImSessions, Binds!Unbind(r, s)
  PROVE  ChannelInv'
  <1> DEFINE there == Binds!OfSession(s)
             q == [Binds!NoRequest EXCEPT !.op = "unbind", !.pc = "silence", !.session = s,
                                          !.channel = there.channel, !.old = there]
  <1>1. r \in Binds!Requests
    BY DEF Binds!Requests
  <1>2. there # Binds!NoRow /\ Binds!Begins(r, q)
    BY DEF Binds!Unbind
  <1>3. there \in bindings /\ there \in BindingRows /\ there.session = s
    <2> DEFINE ss == {b \in bindings : b.session = s}
    <2>1. ss \subseteq bindings /\ bindings \subseteq BindingRows /\ there = Binds!Only(ss)
      BY DEF ChannelInv, ChannelTypes, Binds!OfSession
    <2>2. \/ ss = {} /\ Binds!Only(ss) = Binds!NoRow
          \/ Binds!Only(ss) \in ss
      BY <2>1, RowOf
    <2> QED  BY <1>2, <2>1, <2>2
  <1> HIDE DEF there
  <1>4. q = [Binds!NoRequest EXCEPT !.op = "unbind", !.pc = "silence", !.session = s,
                                    !.channel = there.channel, !.old = there]
    OBVIOUS
  <1> HIDE DEF q
  <1>5. /\ q.op = "unbind" /\ q.pc = "silence" /\ q.session = s /\ q.channel = there.channel
        /\ q.own = Binds!NoRow /\ q.old = there /\ q.writes = Binds!NoWrites
    BY ONLY <1>4 DEF Binds!NoRequest
  <1>6. q \in Requestings
    <2>1. there \in AnyRow /\ there.channel \in Channels
      BY <1>3, RowFields DEF AnyRow
    <2> QED  BY ONLY <1>4, <2>1, NoRequestIsOne, s \in ImSessions DEF Requestings, Steps
  <1>7. CallIs(r, q)
    BY <1>2, <1>3, <1>5, NothingWritten, RowFields DEF CallIs, Removed, Put
  <1> QED  BY <1>1, <1>2, <1>3, <1>5, <1>6, <1>7, BeginsStep

\* A channel is deleted, and its binding with it.
LEMMA DeleteStep ==
  ASSUME ChannelInv, NEW r \in OtherRequests, NEW c \in Channels, Binds!Delete(r, c)
  PROVE  ChannelInv'
  <1> DEFINE there == Binds!OfChannel(c)
             first == IF there = Binds!NoRow THEN "drop" ELSE "silence"
             q == [Binds!NoRequest EXCEPT !.op = "delete", !.pc = first, !.session = there.session,
                                          !.channel = c, !.old = there]
  <1>1. r \in Binds!Requests
    BY DEF Binds!Requests
  <1>2. Binds!Begins(r, q)
    BY DEF Binds!Delete
  <1>3. \/ there = Binds!NoRow
        \/ there \in bindings /\ there \in BindingRows /\ there.channel = c
    <2> DEFINE cc == {b \in bindings : b.channel = c}
    <2>1. cc \subseteq bindings /\ bindings \subseteq BindingRows /\ there = Binds!Only(cc)
      BY DEF ChannelInv, ChannelTypes, Binds!OfChannel
    <2>2. \/ cc = {} /\ Binds!Only(cc) = Binds!NoRow
          \/ Binds!Only(cc) \in cc
      BY <2>1, RowOf
    <2> QED  BY <2>1, <2>2
  <1>4. first \in {"drop", "silence"} /\ (first = "drop" <=> there = Binds!NoRow) /\ first \in Steps
    BY DEF Steps
  <1>5. there.session \in ImSessions \cup {Nobody}
    BY <1>3, RowFields
  <1> HIDE DEF there, first
  <1>6. q = [Binds!NoRequest EXCEPT !.op = "delete", !.pc = first, !.session = there.session,
                                    !.channel = c, !.old = there]
    OBVIOUS
  <1> HIDE DEF q
  <1>7. /\ q.op = "delete" /\ q.pc = first /\ q.session = there.session /\ q.channel = c
        /\ q.own = Binds!NoRow /\ q.old = there /\ q.writes = Binds!NoWrites
    BY ONLY <1>6 DEF Binds!NoRequest
  <1>8. q \in Requestings
    <2>1. there \in AnyRow /\ first \in Steps
      BY <1>3, <1>4 DEF AnyRow
    <2> QED  BY ONLY <1>5, <1>6, <2>1, NoRequestIsOne, c \in Channels DEF Requestings
  <1>9. CallIs(r, q)
    BY <1>3, <1>4, <1>7, NothingWritten, RowFields DEF CallIs, Removed, Put
  <1> QED  BY <1>1, <1>2, <1>3, <1>4, <1>7, <1>8, <1>9, BeginsStep

\* The process ends: no call is left, and those listen that are bound.
LEMMA RestartStep ==
  ASSUME ChannelInv, Binds!Restart
  PROVE  ChannelInv'
  <1> USE DEF ChannelInv
  <1>1. /\ request' = [r \in Binds!Requests |->
                        IF r \in Binds!Active
                        THEN [request[r] EXCEPT !.writes = Binds!NoWrites, !.pc = "done"]
                        ELSE request[r]]
        /\ listener' = [c \in Channels |-> Binds!OfChannel(c).session]
        /\ disturbed' = {} /\ bindings' = bindings /\ announced' = announced
    BY DEF Binds!Restart
  <1>2. ASSUME NEW r \in Binds!Requests
        PROVE  /\ request'[r] \in Requestings
               /\ request'[r].op = request[r].op /\ request'[r].session = request[r].session
               /\ request'[r].channel = request[r].channel /\ request'[r].own = request[r].own
               /\ request'[r].old = request[r].old
               /\ request'[r].pc \in {"off", "done"}
               /\ request[r].pc = "done" => request'[r].pc = "done"
               /\ CallIs(r, request'[r])
    <2>1. request[r] \in Requestings /\ CallIs(r, request[r]) /\ "done" \in Steps
      BY CallFacts DEF Steps
    <2>2. CASE r \in Binds!Active
      <3>1. request'[r] = [request[r] EXCEPT !.pc = "done", !.writes = Binds!NoWrites]
        BY <1>1, <2>2
      <3>2. /\ request'[r] \in Requestings /\ request'[r].pc = "done"
            /\ request'[r].op = request[r].op /\ request'[r].session = request[r].session
            /\ request'[r].channel = request[r].channel /\ request'[r].own = request[r].own
            /\ request'[r].old = request[r].old /\ request'[r].writes = Binds!NoWrites
        BY ONLY <2>1, <3>1, NothingWritten DEF Requestings
      <3>3. CallIs(r, request'[r])
        BY <2>1, <3>2, NothingWritten DEF CallIs, Removed, Put
      <3> QED  BY <3>2, <3>3
    <2>3. CASE r \notin Binds!Active
      <3>1. request'[r] = request[r] /\ request[r].pc \in {"off", "done"}
        BY <1>1, <2>3 DEF Binds!Active
      <3> QED  BY <2>1, <3>1
    <2> QED  BY <2>2, <2>3
  <1>3. \A c \in Channels : /\ listener'[c] = Binds!OfChannel(c).session
                            /\ \/ Binds!OfChannel(c) = Binds!NoRow /\ \A b \in bindings : b.channel # c
                               \/ /\ Binds!OfChannel(c) \in bindings
                                  /\ Binds!OfChannel(c) \in BindingRows
                                  /\ Binds!OfChannel(c).channel = c
    <2> TAKE c \in Channels
    <2> DEFINE cc == {b \in bindings : b.channel = c}
    <2>1. cc \subseteq bindings /\ bindings \subseteq BindingRows /\ Binds!OfChannel(c) = Binds!Only(cc)
      BY DEF ChannelTypes, Binds!OfChannel
    <2>2. \/ cc = {} /\ Binds!Only(cc) = Binds!NoRow
          \/ Binds!Only(cc) \in cc
      BY <2>1, RowOf
    <2> QED  BY <1>1, <2>1, <2>2
  <1>4. ChannelTypes'
    <2>1. request' \in [Binds!Requests -> Requestings]
      BY <1>1, <1>2
    <2>2. listener' \in [Channels -> ImSessions \cup {Nobody}]
      BY <1>1, <1>3, RowFields
    <2> QED  BY <1>1, <2>1, <2>2 DEF ChannelTypes
  <1>5. \A b \in BindingRows : Committed(b) => Committed(b)'
    BY <1>2 DEF Committed, Known, BindingRows, Binds!Requests
  <1>6. RowsKnown'
    <2>1. (\A b \in bindings : Committed(b))' /\ (\A b \in announced : Committed(b))'
      BY <1>1, <1>5 DEF RowsKnown, ChannelTypes
    <2>2. ASSUME NEW p \in Binds!Requests
          PROVE  /\ (request[p].old # Binds!NoRow => Committed(request[p].old))'
                 /\ (\/ request[p].own = Binds!NoRow
                     \/ Committed(request[p].own)
                     \/ request[p].own.id = p /\ Known(request[p].own))'
      <3>1. /\ request[p].old # Binds!NoRow => Committed(request[p].old)
            /\ \/ request[p].own = Binds!NoRow
               \/ Committed(request[p].own)
               \/ request[p].own.id = p /\ Known(request[p].own)
        BY DEF RowsKnown
      <3>2. /\ request[p].old # Binds!NoRow => request[p].old \in BindingRows
            /\ request[p].own # Binds!NoRow => request[p].own \in BindingRows
        BY CallFacts
      <3> QED  BY <1>2, <1>5, <3>1, <3>2 DEF Committed, Known
    <2> QED  BY <2>1, <2>2 DEF RowsKnown
  <1>7. CallsInv' /\ RowsApart'
    BY <1>1, <1>2 DEF CallsInv, RowsApart
  <1>8. PutsApart' /\ TouchesInv'
    BY <1>2 DEF PutsApart, TouchesInv, Put, Removed
  <1>9. Binds!Active' = {}
    BY <1>2 DEF Binds!Active
  <1>10. MetInv' /\ OldInv'
    BY <1>9 DEF MetInv, OldInv
  <1>11. ListenersInv'
    <2> SUFFICES ASSUME NEW c \in Channels  PROVE ListenerOf(c)'
      BY DEF ListenersInv
    <2>1. \A p \in Binds!Requests : ~ Silenced(p, c)' /\ ~ Listened(p, c)'
      BY <1>2 DEF Silenced, Listened
    <2>2. CASE Binds!OfChannel(c) = Binds!NoRow
      <3>1. listener'[c] = Nobody /\ \A b \in bindings : b.channel # c
        BY <1>3, <2>2, RowFields
      <3> QED  BY <1>1, <2>1, <3>1 DEF ListenerOf
    <2>3. CASE Binds!OfChannel(c) # Binds!NoRow
      <3>1. /\ Binds!OfChannel(c) \in bindings /\ Binds!OfChannel(c).channel = c
            /\ listener'[c] = Binds!OfChannel(c).session
        BY <1>3, <2>3
      <3>2. \A b \in bindings : b.channel = c => b = Binds!OfChannel(c)
        BY <3>1 DEF RowsApart, Apart
      <3> QED  BY <1>1, <2>1, <3>1, <3>2 DEF ListenerOf
    <2> QED  BY <2>2, <2>3
  <1>12. AnnouncedInv'
    BY <1>1, <1>2 DEF AnnouncedInv
  <1> QED  BY <1>4, <1>6, <1>7, <1>8, <1>10, <1>11, <1>12


\* The transaction of a call: what it writes is there now.
LEMMA CommitStep ==
  ASSUME ChannelInv, NEW r \in Binds!Requests, Binds!Commit(r)
  PROVE  ChannelInv'
  <1> USE DEF ChannelInv
  <1> DEFINE q == request[r]
             gone == IF q.old # Binds!NoRow THEN {q.old} ELSE {}
             put == IF q.op \in {"bind", "complete"} THEN {q.own} ELSE {}
             to == IF q.op \in {"unbind", "delete"} THEN "announce" ELSE "done"
  <1>1. /\ q.pc = "commit"
        /\ bindings' = {b \in bindings : b.id \notin Binds!Touched(q.writes)} \cup q.writes.put
        /\ Rewrites(r, to, Binds!NoWrites)
        /\ listener' = listener /\ announced' = announced /\ disturbed' = disturbed
    <2>1. request' = [request EXCEPT ![r].writes = Binds!NoWrites, ![r].pc = to]
      BY DEF Binds!Commit
    <2>2. request \in [Binds!Requests -> Requestings]
      BY DEF ChannelTypes
    <2>3. Rewrites(r, to, Binds!NoWrites)
      BY <2>1, <2>2 DEF Rewrites, Requestings
    <2> QED  BY <2>3 DEF Binds!Commit
  <1>2. to \in Steps
    BY DEF Steps
  <1>3. /\ OnlyCall(r) /\ request'[r].pc = to
        /\ request'[r].op = q.op /\ request'[r].session = q.session
        /\ request'[r].channel = q.channel /\ request'[r].own = q.own
        /\ request'[r].old = q.old /\ request'[r].writes = Binds!NoWrites
    BY <1>1, <1>2, WritesOn, NothingWritten
  <1>4. /\ CallIs(r, q)
        /\ q.old # Binds!NoRow => q.old \in BindingRows
        /\ q.own # Binds!NoRow => q.own \in BindingRows
        /\ q.op \in {"none", "bind", "complete", "unbind", "delete"}
    BY CallFacts
  <1>5. /\ Removed(q) <=> q.old # Binds!NoRow
        /\ Put(q) <=> q.op \in {"bind", "complete"}
    BY <1>1 DEF Removed, Put
  <1>6. q.writes.gone = gone /\ q.writes.put = put
    BY <1>4, <1>5 DEF CallIs
  <1>7. /\ gone \subseteq BindingRows /\ put \subseteq BindingRows
        /\ \A b \in gone : b = q.old /\ q.old # Binds!NoRow
        /\ \A b \in put : b = q.own /\ Put(q) /\ b.session = q.session /\ b.channel = q.channel
    BY <1>4, <1>5 DEF CallIs
  <1>8. /\ bindings \subseteq BindingRows /\ announced \subseteq BindingRows
        /\ \A b \in bindings : Committed(b)
        /\ \A b \in announced : Committed(b)
    BY DEF ChannelTypes, RowsKnown
  <1>9. \A b \in gone : Committed(b)
    BY <1>7 DEF RowsKnown
  <1>10. \A b \in put : \/ Committed(b)
                        \/ b.id = r /\ Known(b)
    <2>1. \/ q.own = Binds!NoRow
          \/ Committed(q.own)
          \/ q.own.id = r /\ Known(q.own)
      BY DEF RowsKnown
    <2> QED  BY <1>7, <2>1, RowFields
  <1>11. \A b \in BindingRows : Committed(b) => b.id # r /\ Known(b)
    BY <1>1 DEF Committed
  <1>12. bindings' = (bindings \ gone) \cup put
    <2>1. \A i : i \in Binds!Touched(q.writes) <=> \E b \in gone \cup put : b.id = i
      BY <1>6 DEF Binds!Touched
    <2>2. ASSUME NEW b \in bindings, b.id \in Binds!Touched(q.writes)  PROVE b \in gone \cup put
      <3>1. PICK d \in gone \cup put : d.id = b.id
        BY <2>1, <2>2
      <3>2. d \in BindingRows /\ b \in BindingRows /\ Committed(b) /\ b.id # r /\ Known(b)
        BY <1>7, <1>8, <1>11
      <3>3. Known(d)
        BY <1>7, <1>8, <1>9, <1>10, <1>11, <3>2
      <3> QED  BY <3>1, <3>2, <3>3, SameRow
    <2>3. ASSUME NEW b \in bindings, b \in gone \cup put  PROVE b.id \in Binds!Touched(q.writes)
      BY <2>1, <2>3
    <2> QED  BY <1>1, <1>6, <2>2, <2>3
  <1> HIDE DEF gone, put, to
  <1>13. \A p \in Binds!Requests \ {r} : request'[p] = request[p]
    BY <1>3 DEF OnlyCall
  <1>14. to \in {"announce", "done"} /\ (Put(q) => to = "done")
         /\ (to = "announce" => ~ Put(q))
    BY <1>4, <1>5 DEF to
  <1>15. ~ Removed(request'[r]) /\ ~ Put(request'[r])
    BY <1>3, <1>14 DEF Removed, Put
  <1>16. \A b \in BindingRows : Committed(b) => Committed(b)'
    BY <1>3, CommittedStays
  <1>17. ChannelTypes'
    <2>1. bindings' \subseteq BindingRows
      BY <1>7, <1>8, <1>12
    <2> QED  BY <1>1, <1>3, <2>1 DEF ChannelTypes, OnlyCall
  <1>18. RowsKnown'
    <2>1. \A b \in put : Committed(b)'
      <3>1. ASSUME NEW b \in put, b.id = r, Known(b)  PROVE Committed(b)'
        <4>1. request'[r].pc = "done" /\ q.op = "bind"
          BY <1>3, <1>7, <1>14, <3>1 DEF Known
        <4> QED  BY <1>3, <3>1, <4>1 DEF Committed, Known
      <3> QED  BY <1>7, <1>10, <1>16, <3>1
    <2>2. (\A b \in bindings : Committed(b))'
      BY <1>8, <1>12, <1>16, <2>1
    <2>3. (\A b \in announced : Committed(b))'
      BY <1>1, <1>8, <1>16
    <2>4. ASSUME NEW p \in Binds!Requests
          PROVE  /\ (request[p].old # Binds!NoRow => Committed(request[p].old))'
                 /\ (\/ request[p].own = Binds!NoRow
                     \/ Committed(request[p].own)
                     \/ request[p].own.id = p /\ Known(request[p].own))'
      <3>1. request'[p].old = request[p].old /\ request'[p].own = request[p].own
        BY <1>3, <1>13
      <3>2. /\ request[p].old # Binds!NoRow => request[p].old \in BindingRows
            /\ request[p].own # Binds!NoRow => request[p].own \in BindingRows
        BY CallFacts
      <3>3. request[p].old # Binds!NoRow => Committed(request[p].old)
        BY DEF RowsKnown
      <3>4. \/ request[p].own = Binds!NoRow
            \/ Committed(request[p].own)
            \/ request[p].own.id = p /\ Known(request[p].own)
        BY DEF RowsKnown
      <3>5. request'[p].op = request[p].op /\ request'[p].session = request[p].session
            /\ request'[p].channel = request[p].channel
        BY <1>3, <1>13
      <3>6. (request[p].old # Binds!NoRow => Committed(request[p].old))'
        BY <1>16, <3>1, <3>2, <3>3 DEF Committed, Known
      <3>7. (\/ request[p].own = Binds!NoRow
             \/ Committed(request[p].own)
             \/ request[p].own.id = p /\ Known(request[p].own))'
        BY <1>16, <3>1, <3>2, <3>4, <3>5 DEF Committed, Known
      <3> QED  BY <3>6, <3>7
    <2> QED  BY <2>2, <2>3, <2>4 DEF RowsKnown
  <1>19. CallsInv'
    <2>1. CallIs(r, request'[r])
      BY <1>3, <1>4, <1>14, <1>15, NothingWritten DEF CallIs
    <2> QED  BY <1>13, <2>1 DEF CallsInv
  <1>20. \A d \in bindings \ gone : \A b \in put : b = d \/ Apart(b, d)
    <2>1. Put(q) => Fits(r)
      BY DEF PutsApart
    <2>2. \A d \in bindings \ gone : ~ (Removed(q) /\ d = q.old)
      BY <1>5 DEF gone
    <2> QED  BY <1>7, <2>1, <2>2 DEF Fits
  <1>21. RowsApart'
    <2>1. ASSUME NEW b \in bindings', NEW d \in bindings', b # d  PROVE Apart(b, d)
      <3>1. CASE b \in bindings \ gone /\ d \in bindings \ gone
        BY <2>1, <3>1 DEF RowsApart
      <3>2. CASE b \in put /\ d \in put
        BY <1>7, <2>1, <3>2
      <3>3. CASE b \in put /\ d \in bindings \ gone
        BY <1>20, <2>1, <3>3
      <3>4. CASE d \in put /\ b \in bindings \ gone
        BY <1>20, <2>1, <3>4 DEF Apart
      <3> QED  BY <1>12, <3>1, <3>2, <3>3, <3>4
    <2> QED  BY <2>1 DEF RowsApart, Apart
  <1>22. PutsApart'
    <2>1. ASSUME NEW p \in Binds!Requests, Put(request'[p])  PROVE Fits(p)'
      <3>1. p # r /\ request'[p] = request[p] /\ Fits(p)
        BY <1>13, <1>15, <2>1 DEF PutsApart
      <3>2. request[p].own.id # p => request[p].own \in bindings'
        <4>1. request[p].own \notin gone
          <5>1. Removed(q) => q.old # request[p].own
            BY <2>1, <3>1 DEF TouchesInv
          <5> QED  BY <1>5, <1>7, <5>1
        <4> QED  BY <1>12, <3>1, <4>1 DEF Fits
      <3>3. \A d \in bindings' : \/ d = request[p].own \/ Apart(request[p].own, d)
                                 \/ Removed(request[p]) /\ d = request[p].old
        <4>1. \A d \in put : Apart(request[p].own, d)
          BY <1>7, <3>1 DEF Fits
        <4> QED  BY <1>12, <3>1, <4>1 DEF Fits
      <3>4. \A x \in Binds!Requests \ {p} :
              Put(request'[x]) => Apart(request[p].own, request'[x].own)
        BY <1>13, <1>15, <3>1 DEF Fits
      <3> QED  BY <3>1, <3>2, <3>3, <3>4 DEF Fits, Apart
    <2> QED  BY <2>1 DEF PutsApart
  <1>23. TouchesInv'
    <2>1. ASSUME NEW p \in Binds!Requests, NEW x \in Binds!Requests, p # x, Removed(request'[p])
          PROVE  /\ Removed(request'[x]) => request'[p].old # request'[x].old
                 /\ Put(request'[x]) => request'[p].old # request'[x].own
      <3>1. p # r /\ request'[p] = request[p]
        BY <1>13, <1>15, <2>1
      <3>2. CASE x = r
        BY <1>15, <3>2
      <3>3. CASE x # r
        BY <1>13, <2>1, <3>1, <3>3 DEF TouchesInv
      <3> QED  BY <3>2, <3>3
    <2> QED  BY <2>1 DEF TouchesInv
  <1>24. r \in Binds!Active /\ Binds!Active' \subseteq Binds!Active
    BY <1>1, <1>13 DEF Binds!Active
  <1>25. MetInv'
    <2>1. \A p \in Binds!Requests : /\ Binds!About(request'[p]) = Binds!About(request[p])
                                    /\ request'[p].session = request[p].session
      BY <1>3, <1>13 DEF Binds!About
    <2>2. \A p \in Binds!Active : p \in Binds!Requests
      BY DEF Binds!Active
    <2> QED  BY <1>1, <1>24, <2>1, <2>2 DEF MetInv
  <1>26. OldInv'
    <2>1. ASSUME NEW p \in Binds!Active', request'[p].old # Binds!NoRow,
                 request'[p].pc # "announce", request'[p].old.channel \notin disturbed
          PROVE  request'[p].old \in bindings'
      <3>1. p \in Binds!Requests /\ p # r
        BY <1>3, <1>14, <2>1 DEF Binds!Active
      <3>2. p \in Binds!Active /\ request'[p] = request[p] /\ request[p].old \in BindingRows
        BY <1>13, <1>24, <2>1, <3>1, CallFacts
      <3>3. request[p].old \in bindings
        BY <2>1, <3>2 DEF OldInv
      <3>4. request[p].old \notin gone
        <4>1. SUFFICES ASSUME request[p].old = q.old  PROVE FALSE
          BY <1>7
        <4> QED  BY <1>24, <2>1, <3>1, <3>2, <4>1, TwoMeet
      <3> QED  BY <1>12, <3>2, <3>3, <3>4
    <2> QED  BY <1>1, <2>1 DEF OldInv
  <1>27. ListenersInv'
    <2> SUFFICES ASSUME NEW c \in Channels, c \notin disturbed  PROVE ListenerOf(c)'
      BY <1>1 DEF ListenersInv
    <2>1. ListenerOf(c)
      BY DEF ListenersInv
    <2>2. ~ Silenced(r, c)' /\ ~ Listened(r, c)'
      BY <1>3, <1>14 DEF Silenced, Listened
    <2>3. \A p \in Binds!Requests \ {r} :
            /\ Silenced(p, c)' <=> Silenced(p, c)
            /\ Listened(p, c)' <=> Listened(p, c)
            /\ request'[p].session = request[p].session
      BY <1>13 DEF Silenced, Listened
    <2>4. /\ Silenced(r, c) <=> q.old # Binds!NoRow /\ q.old.channel = c
          /\ Listened(r, c) <=> Put(q) /\ q.channel = c
      BY <1>1 DEF Silenced, Listened, Put
    <2>5. ASSUME \A p \in Binds!Requests : ~ Silenced(p, c)' /\ ~ Listened(p, c)'
          PROVE  /\ \A b \in bindings' : b.channel = c => listener[c] = b.session
                 /\ (\A b \in bindings' : b.channel # c) => listener[c] = Nobody
      <3>1. CASE Listened(r, c)
        <4>1. q.own \in put /\ q.own.channel = c /\ q.own.session = q.session
              /\ listener[c] = q.session
          BY <1>4, <1>5, <2>1, <2>4, <3>1 DEF put, ListenerOf, CallIs
        <4>2. \A b \in bindings' : b.channel = c => b = q.own
          BY <1>12, <1>21, <4>1 DEF RowsApart, Apart
        <4> QED  BY <1>12, <4>1, <4>2
      <3>2. CASE Silenced(r, c) /\ ~ Listened(r, c)
        <4>1. listener[c] = Nobody
          BY <2>1, <3>2 DEF ListenerOf
        <4>2. q.old \in bindings /\ q.old.channel = c /\ q.old \in gone
          BY <1>1, <1>24, <2>4, <3>2 DEF OldInv, gone
        <4>3. \A b \in bindings \ gone : b.channel # c
          BY <4>2 DEF RowsApart, Apart
        <4>4. \A b \in put : b.channel # c
          BY <1>7, <2>4, <3>2
        <4> QED  BY <1>12, <4>1, <4>3, <4>4
      <3>3. CASE ~ Silenced(r, c) /\ ~ Listened(r, c)
        <4>1. \A p \in Binds!Requests : ~ Silenced(p, c) /\ ~ Listened(p, c)
          BY <2>3, <2>5, <3>3
        <4>2. /\ \A b \in bindings : b.channel = c => listener[c] = b.session
              /\ (\A b \in bindings : b.channel # c) => listener[c] = Nobody
          BY <2>1, <4>1 DEF ListenerOf
        <4>3. \A b \in put : b.channel # c
          BY <1>7, <2>4, <3>3
        <4>4. \A b \in gone : b.channel # c
          BY <1>7, <2>4, <3>3
        <4> QED  BY <1>12, <4>2, <4>3, <4>4
      <3> QED  BY <3>1, <3>2, <3>3
    <2>6. \A p \in Binds!Requests : /\ Silenced(p, c)' => listener[c] = Nobody
                                    /\ Listened(p, c)' => listener[c] = request'[p].session
      BY <2>1, <2>2, <2>3 DEF ListenerOf
    <2> QED  BY <1>1, <2>5, <2>6 DEF ListenerOf
  <1>28. AnnouncedInv'
    <2>1. \A b \in BindingRows : Committed(b) /\ b \notin bindings => b \notin put
      <3>1. ASSUME NEW b \in BindingRows, Committed(b), b \in put  PROVE b \in bindings
        <4>1. Fits(r) /\ b = q.own /\ b.id # r
          BY <1>7, <1>11, <3>1 DEF PutsApart
        <4> QED  BY <4>1 DEF Fits
      <3> QED  BY <3>1
    <2>2. \A b \in announced' : b \notin bindings'
      BY <1>1, <1>8, <1>12, <2>1 DEF AnnouncedInv
    <2>3. ASSUME NEW p \in Binds!Requests, request'[p].pc = "announce",
                 request'[p].old # Binds!NoRow
          PROVE  request'[p].old \notin bindings'
      <3>1. CASE p = r
        <4>1. put = {} /\ q.old \in gone
          BY <1>3, <1>5, <1>14, <2>3, <3>1 DEF put, gone
        <4> QED  BY <1>3, <1>12, <3>1, <4>1
      <3>2. CASE p # r
        <4>1. request'[p] = request[p] /\ request[p].old \in BindingRows
          BY <1>13, <2>3, <3>2, CallFacts
        <4>2. request[p].old \notin bindings /\ Committed(request[p].old)
          BY <2>3, <4>1 DEF AnnouncedInv, RowsKnown
        <4> QED  BY <1>12, <2>1, <4>1, <4>2
      <3> QED  BY <3>1, <3>2
    <2> QED  BY <2>2, <2>3 DEF AnnouncedInv
  <1> QED  BY <1>17, <1>18, <1>19, <1>21, <1>22, <1>23, <1>25, <1>26, <1>27, <1>28

\* An instance changes: no binding, no listener and no call does.
LEMMA NothingChanges ==
  ASSUME ChannelInv,
         UNCHANGED <<bindings, listener, request, announced, disturbed>>
  PROVE  ChannelInv'
  <1>1. ChannelTypes' /\ RowsKnown' /\ CallsInv' /\ RowsApart' /\ PutsApart' /\ TouchesInv'
    BY DEF ChannelInv, ChannelTypes, RowsKnown, Committed, Known, CallsInv, RowsApart, PutsApart,
           Fits, TouchesInv
  <1>2. MetInv' /\ OldInv' /\ AnnouncedInv'
    BY DEF ChannelInv, MetInv, OldInv, AnnouncedInv, Binds!Active
  <1>3. ListenersInv'
    BY DEF ChannelInv, ListenersInv, ListenerOf, Silenced, Listened
  <1> QED  BY <1>1, <1>2, <1>3 DEF ChannelInv

\* Every step keeps it.
LEMMA ChannelStep ==
  ASSUME ChannelInv, [Binds!Next]_channelVars
  PROVE  ChannelInv'
  <1>1. ASSUME NEW c \in Channels,
               \/ Binds!CreateInstance(c) \/ Binds!Initialize(c) \/ Binds!Reset(c)
               \/ Binds!CredentialsExpire(c)
        PROVE  ChannelInv'
    BY <1>1, NothingChanges
    DEF Binds!CreateInstance, Binds!Initialize, Binds!Reset, Binds!CredentialsExpire,
        Binds!SetInstance
  <1>2. ASSUME NEW c \in Channels, NEW s \in ImSessions, NEW r \in BindRequests, Binds!Bind(r, s, c)
        PROVE  ChannelInv'
    BY <1>2, BindStep
  <1>3. ASSUME NEW c \in Channels, NEW s \in ImSessions, NEW r \in OtherRequests,
               Binds!Complete(r, s, c)
        PROVE  ChannelInv'
    BY <1>3, CompleteStep
  <1>4. ASSUME NEW c \in Channels, NEW r \in OtherRequests, Binds!Delete(r, c)
        PROVE  ChannelInv'
    BY <1>4, DeleteStep
  <1>5. ASSUME NEW r \in OtherRequests, NEW s \in ImSessions, Binds!Unbind(r, s)
        PROVE  ChannelInv'
    BY <1>5, UnbindStep
  <1>6. ASSUME NEW r \in Binds!Requests,
               \/ Binds!Silence(r) \/ Binds!Remove(r) \/ Binds!Drop(r) \/ Binds!Ask(r)
               \/ Binds!Save(r) \/ Binds!Listen(r) \/ Binds!Commit(r) \/ Binds!Announce(r)
               \/ Binds!Fail(r)
        PROVE  ChannelInv'
    BY <1>6, SilenceStep, RemoveStep, DropStep, AskStep, SaveStep, ListenStep, CommitStep,
       AnnounceStep, FailStep
  <1>7. CASE Binds!Restart
    BY <1>7, RestartStep
  <1>8. CASE UNCHANGED channelVars
    BY <1>8, NothingChanges DEF channelVars
  <1> QED  BY <1>1, <1>2, <1>3, <1>4, <1>5, <1>6, <1>7, <1>8 DEF Binds!Next

\* Once the calls about a channel are over its listener is that of its binding.
LEMMA ChannelHolds ==
  ASSUME ChannelInv
  PROVE  Binds!ListenersFollowBindings /\ Binds!AnnouncedIsGone
  <1>1. ASSUME NEW c \in Channels, Binds!Settled(c)
        PROVE  listener[c] = Binds!OfChannel(c).session
    <2>1. c \notin disturbed /\ \A r \in Binds!Active : c \notin Binds!About(request[r])
      BY <1>1 DEF Binds!Settled
    <2>2. ASSUME NEW r \in Binds!Requests, Silenced(r, c) \/ Listened(r, c)  PROVE FALSE
      <3>1. r \in Binds!Active
        BY <2>2 DEF Silenced, Listened, Binds!Active
      <3>2. c \in Binds!About(request[r])
        BY <2>2 DEF Silenced, Listened, Binds!About
      <3> QED  BY <2>1, <3>1, <3>2
    <2>3. /\ \A b \in bindings : b.channel = c => listener[c] = b.session
          /\ (\A b \in bindings : b.channel # c) => listener[c] = Nobody
      BY <2>1, <2>2 DEF ChannelInv, ListenersInv, ListenerOf
    <2> DEFINE cc == {b \in bindings : b.channel = c}
    <2>4. cc \subseteq bindings /\ Binds!OfChannel(c) = Binds!Only(cc)
      BY DEF Binds!OfChannel
    <2>5. \/ cc = {} /\ Binds!Only(cc) = Binds!NoRow
          \/ Binds!Only(cc) \in cc
      BY <2>4, RowOf
    <2> QED  BY <2>3, <2>4, <2>5, RowFields
  <1>2. ASSUME NEW b \in announced, NEW d \in bindings, d.id = b.id  PROVE FALSE
    <2>1. b \in BindingRows /\ d \in BindingRows /\ Known(b) /\ Known(d) /\ b \notin bindings
      BY DEF ChannelInv, ChannelTypes, RowsKnown, Committed, AnnouncedInv
    <2> QED  BY <1>2, <2>1, SameRow
  <1> QED  BY <1>1, <1>2 DEF Binds!ListenersFollowBindings, Binds!AnnouncedIsGone

-----------------------------------------------------------------------------
(* The whole                                                               *)

\* Whichever service moves keeps its invariant.
IInv ==
  /\ focus = "requests" => RequestsInv
  /\ focus = "upkeep" => UpkeepInv
  /\ focus = "weixin" => WeixinInv
  /\ focus = "qq" => QqInv
  /\ focus = "lark" => LarkInv
  /\ focus = "scheduler" => SchedInv
  /\ focus = "cron" => CronInv
  /\ focus = "channels" => ChannelInv

\* The invariant holds at the beginning, whichever service moves.
LEMMA InitEstablishes == Init => IInv
  <1> SUFFICES ASSUME Init  PROVE IInv
    OBVIOUS
  <1>1. focus = "requests" => RequestsInv
    BY RequestsStart DEF Init
  <1>2. focus = "upkeep" => UpkeepInv
    BY UpkeepStart DEF Init
  <1>3. focus = "weixin" => WeixinInv
    BY WeixinStart DEF Init
  <1>4. focus = "qq" => QqInv
    BY QqStart DEF Init
  <1>5. focus = "lark" => LarkInv
    BY LarkStart DEF Init
  <1>6. focus = "scheduler" => SchedInv
    BY SchedStart DEF Init
  <1>7. focus = "cron" => CronInv
    BY CronStart DEF Init
  <1>8. focus = "channels" => ChannelInv
    BY ChannelStart DEF Init
  <1> QED  BY <1>1, <1>2, <1>3, <1>4, <1>5, <1>6, <1>7, <1>8 DEF IInv

\* Every step keeps it: it is one of the moving service, or changes nothing.
LEMMA NextPreserves == IInv /\ [Next]_vars => IInv'
  <1> SUFFICES ASSUME IInv, [Next]_vars  PROVE IInv'
    OBVIOUS
  <1>0. focus' = focus
    BY DEF Next, vars
  <1>1. focus = "requests" => [Requests!Next]_requestVars
    BY DEF Next, vars
  <1>2. focus = "upkeep" => [Upkeep!Next]_upkeepVars
    BY DEF Next, vars
  <1>3. focus = "weixin" => [Weixin!Next]_pollVars
    BY DEF Next, vars
  <1>4. focus = "qq" => [Qq!Next]_qqVars
    BY DEF Next, vars
  <1>5. focus = "lark" => [Lark!Next]_larkVars
    BY DEF Next, vars
  <1>6. focus = "scheduler" => [Sched!Next]_schedVars
    BY DEF Next, vars
  <1>7. focus = "cron" => [Cron!Next]_cronVars
    BY DEF Next, vars
  <1>8. focus = "channels" => [Binds!Next]_channelVars
    BY DEF Next, vars
  <1> QED  BY <1>0, <1>1, <1>2, <1>3, <1>4, <1>5, <1>6, <1>7, <1>8, RequestsStep, UpkeepStep,
              WeixinStep, QqStep, LarkStep, SchedStep, CronStep, ChannelStep DEF IInv

\* The inductive invariant of the services.
LEMMA Invariance == Spec => []IInv
  BY InitEstablishes, NextPreserves, PTL DEF Spec

\* The user's answers reach the tools that ask, and nothing of a request is left
\* when it is over (can_use_tool, resolve_user_response).
THEOREM RequestsAnswered == Spec => []RequestsAreAnswered
  <1>1. IInv => RequestsAreAnswered
    BY RequestsHold DEF IInv, RequestsAreAnswered
  <1> QED  BY <1>1, Invariance, PTL

\* The row's status tells which operation is at work (SessionApplicationService).
THEOREM StatusTold == Spec => []StatusTellsTheWork
  <1>1. IInv => StatusTellsTheWork
    BY UpkeepHolds DEF IInv, StatusTellsTheWork
  <1> QED  BY <1>1, Invariance, PTL

\* One poll loop to WeChat at a time, which confirms nothing that is not in the
\* inbox; a connection to QQ that was stopped is over; one to Lark ends, unless
\* it was met at a moment the stop is not made for.
THEOREM ConnectionsKept == Spec => []ConnectionsAreKept
  <1>1. QqInv => Qq!HeartbeatListens
    BY DEF QqInv, QqSockets, Qq!HeartbeatListens
  <1>2. IInv => ConnectionsAreKept
    BY <1>1, LarkHolds DEF IInv, ConnectionsAreKept, WeixinInv, QqInv
  <1> QED  BY <1>2, Invariance, PTL

\* A task is executed no more often than it came due and was asked for, and than
\* marks were lost with their transactions (run_due_tasks), each execution gives
\* its own session back (_run_task_query), and the next time of a task is the
\* first its expression names (_next_time).
THEOREM SchedulesKept == Spec => []SchedulesAreKept
  <1>1. SchedInv => Sched!OncePerDue /\ Sched!ExecutionsReleaseTheirs
    BY SchedHolds DEF SchedInv
  <1>2. IInv => SchedulesAreKept
    BY <1>1, CronHolds DEF IInv, SchedulesAreKept
  <1> QED  BY <1>2, Invariance, PTL

\* A channel is listened to for the session it is bound to, and a binding whose
\* end was announced is gone for good, but for the named exceptions
\* (ImChannelApplicationService).
THEOREM BindingsKept == Spec => []BindingsAgree
  <1>1. IInv => BindingsAgree
    BY ChannelHolds DEF IInv, BindingsAgree
  <1> QED  BY <1>1, Invariance, PTL
=============================================================================
