---------------------------- MODULE RecordsProofs ----------------------------
(***************************************************************************)
(* Theorems about MCRecords, for every value of the constants: for each of *)
(* these parts an inductive invariant of its own, kept by its steps, and   *)
(* at the end what follows for the whole.                                  *)
(***************************************************************************)
EXTENDS MCRecords, Sequences, FiniteSets, WellFoundedInduction, SequenceTheorems, TLAPS

-----------------------------------------------------------------------------
(* Terminals (Terminals.tla)                                               *)

\* Endpoints that have a descriptor open, and those that look after a shell.
Holding == {"made", "open", "writing", "closing"}
Watching == Holding \cup {"terminating", "killing"}

TermTypes ==
  /\ endpoint \in [Terminals -> Watching \cup {"off", "over"}]
  /\ relay \in [Terminals -> {"none", "reading", "over"}]
  /\ client \in [Terminals -> {"there", "gone"}]
  /\ pty \in [Terminals -> [fd : Fds \cup {NoFd}, pid : Pids \cup {NoPid}]]
  /\ pty_listed \in SUBSET Terminals
  /\ fd \in [Fds -> Terminals \cup {NoTerminal}]
  /\ proc \in [Pids -> [of : Terminals \cup {NoTerminal}, state : {"free", "running", "ended"}]]
  /\ leaked \in SUBSET Terminals /\ undead \in SUBSET Terminals /\ early \in SUBSET Terminals

\* The numbers of a terminal are given when it is made, and a free process is
\* nobody's.
Numbers ==
  /\ \A t \in Terminals : endpoint[t] # "off" => pty[t].fd \in Fds /\ pty[t].pid \in Pids
  /\ \A p \in Pids : proc[p].state = "free" => proc[p].of = NoTerminal
  /\ \A t \in early \cup leaked \cup undead : endpoint[t] # "off"

\* The relay reads while its endpoint is open, which has its descriptor. Nobody
\* else has one, unless it was never told of its terminal.
DescriptorsInv ==
  /\ \A t \in Terminals : relay[t] = "reading" => endpoint[t] \in {"open", "writing"}
  /\ \A t \in Terminals : endpoint[t] \in Holding => fd[pty[t].fd] = t
  /\ \A t \in Terminals, f \in Fds :
       fd[f] = t => f = pty[t].fd /\ (endpoint[t] \in Holding \/ t \in leaked)
  /\ \A t \in pty_listed : endpoint[t] \in Holding \/ t \in leaked

\* A terminal whose number no relay reaped has its shell until it is over; a
\* shell has the number of its terminal, which looks after it, is undead or
\* was leaked.
Reused == {pty[e].pid : e \in early}
ShellsInv ==
  /\ \A t \in Terminals : pty[t].pid \notin Reused /\ endpoint[t] \in Watching => proc[pty[t].pid].of = t
  /\ \A t \in Terminals, p \in Pids :
       proc[p].of = t =>
         p = pty[t].pid /\ (endpoint[t] \in Watching \/ t \in leaked \cup undead)

TermInv == TermTypes /\ Numbers /\ DescriptorsInv /\ ShellsInv

\* At the beginning there are no terminals.
LEMMA TermStart == Terms!Init => TermInv
  <1> SUFFICES ASSUME Terms!Init  PROVE TermInv
    OBVIOUS
  <1> USE RecordsAssumption
  <1>1. TermTypes
    BY DEF Terms!Init, TermTypes, Terms!NoPty, Terms!Free
  <1>2. Numbers
    BY DEF Terms!Init, Numbers, Terms!Free
  <1>3. DescriptorsInv
    BY DEF Terms!Init, DescriptorsInv, Holding
  <1>4. ShellsInv
    BY DEF Terms!Init, ShellsInv, Watching, Holding, Terms!Free
  <1> QED  BY <1>1, <1>2, <1>3, <1>4 DEF TermInv

\* create_pty gives free numbers.
LEMMA CreateStep ==
  ASSUME TermInv, NEW t \in Terminals, Terms!Create(t)  PROVE TermInv'
  <1> USE RecordsAssumption DEF TermInv
  <1>0. PICK f \in Fds, p \in Pids :
          /\ fd[f] = NoTerminal /\ proc[p] = Terms!Free
          /\ pty' = [pty EXCEPT ![t] = [fd |-> f, pid |-> p]]
          /\ fd' = [fd EXCEPT ![f] = t]
          /\ proc' = [proc EXCEPT ![p] = [of |-> t, state |-> "running"]]
    BY DEF Terms!Create
  <1>a. /\ endpoint[t] = "off" /\ endpoint' = [endpoint EXCEPT ![t] = "made"]
        /\ pty_listed' = pty_listed \cup {t}
        /\ UNCHANGED <<relay, client, leaked, undead, early>>
    BY DEF Terms!Create
  <1>1. TermTypes'
    BY <1>0, <1>a DEF TermTypes, Watching, Holding
  <1>2. Numbers'
    BY <1>0, <1>a DEF TermTypes, Numbers
  <1>3. DescriptorsInv'
    <2>1. \A u \in Terminals : /\ endpoint'[u] = IF u = t THEN "made" ELSE endpoint[u]
                               /\ pty'[u].fd = IF u = t THEN f ELSE pty[u].fd
      BY <1>0, <1>a DEF TermTypes
    <2>2. \A g \in Fds : fd'[g] = IF g = f THEN t ELSE fd[g]
      BY <1>0 DEF TermTypes
    <2>3. \A u \in Terminals : endpoint[u] \in Holding /\ u # t => pty[u].fd \in Fds /\ pty[u].fd # f
      BY <1>0, <1>a DEF Numbers, DescriptorsInv, Holding
    <2>4. \A u \in Terminals : relay'[u] = "reading" => endpoint'[u] \in {"open", "writing"}
      BY <1>a, <2>1 DEF DescriptorsInv
    <2>5. \A u \in Terminals : endpoint'[u] \in Holding => fd'[pty'[u].fd] = u
      BY <2>1, <2>2, <2>3 DEF DescriptorsInv, Holding
    <2>6. \A u \in Terminals, g \in Fds :
            fd'[g] = u => g = pty'[u].fd /\ (endpoint'[u] \in Holding \/ u \in leaked')
      BY <1>0, <1>a, <2>1, <2>2 DEF DescriptorsInv, Holding, Numbers
    <2>7. \A u \in pty_listed' : endpoint'[u] \in Holding \/ u \in leaked'
      BY <1>a, <2>1 DEF DescriptorsInv, Holding, TermTypes
    <2> QED  BY <2>4, <2>5, <2>6, <2>7 DEF DescriptorsInv
  <1>4. ShellsInv'
    <2>1. Reused' = Reused
      BY <1>0, <1>a DEF Reused, Numbers, TermTypes
    <2>a. \A u \in Terminals : /\ endpoint'[u] = IF u = t THEN "made" ELSE endpoint[u]
                               /\ pty'[u].pid = IF u = t THEN p ELSE pty[u].pid
      BY <1>0, <1>a DEF TermTypes
    <2>b. \A r \in Pids : proc'[r].of = IF r = p THEN t ELSE proc[r].of
      BY <1>0 DEF TermTypes
    <2>c. \A u \in Terminals :
            u # t /\ pty[u].pid \notin Reused /\ endpoint[u] \in Watching => pty[u].pid # p
      BY <1>0 DEF ShellsInv, Terms!Free
    <2>2. \A u \in Terminals :
            u # t /\ pty'[u].pid \notin Reused' /\ endpoint'[u] \in Watching =>
              proc'[pty'[u].pid].of = u
      BY <2>1, <2>a, <2>b, <2>c DEF ShellsInv, Numbers, Watching, Holding
    <2>3. \A u \in Terminals, r \in Pids :
            proc'[r].of = u =>
              r = pty'[u].pid /\ (endpoint'[u] \in Watching \/ u \in leaked' \cup undead')
      BY <1>0, <1>a DEF ShellsInv, TermTypes, Numbers, Terms!Free, Watching, Holding
    <2> QED  BY <2>2, <2>3, <1>0, <1>a DEF ShellsInv, TermTypes
  <1> QED  BY <1>1, <1>2, <1>3, <1>4

\* Typing, leaving and the end of the relay move an endpoint that holds its
\* terminal, or none.
LEMMA HoldingStep ==
  ASSUME TermInv,
         \E t \in Terminals : Terms!Type(t) \/ Terms!Typed(t) \/ Terms!Leave(t) \/ Terms!EndRelay(t)
  PROVE  TermInv'
  <1> USE DEF TermInv
  <1>1. /\ endpoint' \in [Terminals -> Watching \cup {"off", "over"}]
        /\ \A u \in Terminals :
             \/ endpoint'[u] = endpoint[u] /\ (relay'[u] = "reading" => relay[u] = "reading")
             \/ /\ endpoint[u] \in Holding /\ endpoint'[u] \in Holding
                /\ relay'[u] = "reading" => endpoint'[u] \in {"open", "writing"}
        /\ relay' \in [Terminals -> {"none", "reading", "over"}]
        /\ client' \in [Terminals -> {"there", "gone"}]
    <2>1. PICK t \in Terminals : Terms!Type(t) \/ Terms!Typed(t) \/ Terms!Leave(t) \/ Terms!EndRelay(t)
      OBVIOUS
    <2>2. CASE Terms!Type(t)
      BY <2>2 DEF Terms!Type, TermTypes, Watching, Holding
    <2>3. CASE Terms!Typed(t)
      BY <2>3 DEF Terms!Typed, TermTypes, Watching, Holding
    <2>4. CASE Terms!Leave(t)
      BY <2>4 DEF Terms!Leave, TermTypes, Watching, Holding
    <2>5. CASE Terms!EndRelay(t)
      BY <2>5 DEF Terms!EndRelay, TermTypes, Watching, Holding
    <2> QED  BY <2>1, <2>2, <2>3, <2>4, <2>5
  <1>2. UNCHANGED <<pty, pty_listed, fd, proc, leaked, undead, early>>
    BY DEF Terms!Type, Terms!Typed, Terms!Leave, Terms!EndRelay
  <1>3. TermTypes'
    BY <1>1, <1>2 DEF TermTypes
  <1>4. Numbers'
    BY SMTT(40), <1>1, <1>2 DEF Numbers, Holding, TermTypes
  <1>5. DescriptorsInv'
    BY <1>1, <1>2 DEF DescriptorsInv, Holding, TermTypes
  <1>6. Reused' = Reused
    BY <1>2 DEF Reused
  <1>7. ShellsInv'
    BY <1>1, <1>2, <1>6 DEF ShellsInv, Watching, Holding
  <1> QED  BY <1>3, <1>4, <1>5, <1>7

\* A terminal that cannot be announced is leaked.
LEMMA AnnounceStep ==
  ASSUME TermInv, NEW t \in Terminals, Terms!Announce(t)  PROVE TermInv'
  <1> USE DEF TermInv
  <1>1. /\ endpoint[t] = "made" /\ UNCHANGED <<client, pty, pty_listed, fd, proc, undead, early>>
        /\ \/ /\ endpoint' = [endpoint EXCEPT ![t] = "open"]
              /\ relay' = [relay EXCEPT ![t] = "reading"] /\ leaked' = leaked
           \/ /\ endpoint' = [endpoint EXCEPT ![t] = "over"]
              /\ leaked' = leaked \cup {t} /\ relay' = relay
    BY DEF Terms!Announce
  <1>2. TermTypes'
    BY <1>1 DEF TermTypes, Watching, Holding
  <1>3. Numbers'
    BY <1>1 DEF TermTypes, Numbers
  <1>4. DescriptorsInv'
    BY SMTT(40), <1>1 DEF TermTypes, DescriptorsInv, Holding
  <1>5. Reused' = Reused
    BY <1>1 DEF Reused
  <1>6. ShellsInv'
    BY <1>1, <1>5 DEF TermTypes, ShellsInv, Watching, Holding
  <1> QED  BY <1>2, <1>3, <1>4, <1>6

\* What reaping a terminal's number changes.
LEMMA Reaping ==
  ASSUME TermInv, NEW t \in Terminals, endpoint[t] # "off"
  PROVE  /\ Terms!Reaped(t) \in [Pids -> [of : Terminals \cup {NoTerminal},
                                          state : {"free", "running", "ended"}]]
         /\ \A r \in Pids :
              \/ Terms!Reaped(t)[r] = proc[r] /\ (r = pty[t].pid => proc[r].state # "ended")
              \/ /\ r = pty[t].pid /\ proc[r].state = "ended"
                 /\ Terms!Reaped(t)[r].of = NoTerminal /\ Terms!Reaped(t)[r].state = "free"
  <1> DEFINE p == pty[t].pid
  <1>1. p \in Pids
    BY DEF TermInv, Numbers
  <1>2. CASE proc[p].state = "ended"
    <2>1. Terms!Reaped(t) = [proc EXCEPT ![p] = Terms!Free]
      BY <1>2 DEF Terms!Reaped
    <2> QED  BY <1>1, <1>2, <2>1 DEF TermInv, TermTypes, Terms!Free
  <1>3. CASE proc[p].state # "ended"
    <2>1. Terms!Reaped(t) = proc
      BY <1>3 DEF Terms!Reaped
    <2> QED  BY <1>3, <2>1 DEF TermInv, TermTypes
  <1> QED  BY <1>2, <1>3

\* A relay that reaps its shell makes the number early.
LEMMA RelayEndsStep ==
  ASSUME TermInv, NEW t \in Terminals, Terms!RelayEnds(t)  PROVE TermInv'
  <1> USE RecordsAssumption DEF TermInv
  <1>1. /\ relay[t] = "reading" /\ relay' = [relay EXCEPT ![t] = "over"]
        /\ client' = [client EXCEPT ![t] = "gone"]
        /\ UNCHANGED <<endpoint, pty, pty_listed, fd, leaked, undead>>
        /\ \/ proc' = Terms!Reaped(t) /\ early' = early \cup {t}
           \/ UNCHANGED <<proc, early>>
    BY DEF Terms!RelayEnds
  <1>2. endpoint[t] \in Holding
    BY <1>1 DEF DescriptorsInv, Holding
  <1>3. /\ proc' \in [Pids -> [of : Terminals \cup {NoTerminal}, state : {"free", "running", "ended"}]]
        /\ \A r \in Pids : \/ proc'[r] = proc[r]
                           \/ /\ r = pty[t].pid /\ t \in early'
                              /\ proc'[r].of = NoTerminal /\ proc'[r].state = "free"
    <2>1. CASE proc' = Terms!Reaped(t) /\ early' = early \cup {t}
      BY <2>1, <1>2, Reaping DEF Holding
    <2>2. CASE UNCHANGED <<proc, early>>
      BY <2>2 DEF TermTypes
    <2> QED  BY <1>1, <2>1, <2>2
  <1>4. TermTypes'
    BY <1>1, <1>3 DEF TermTypes
  <1>5. Numbers'
    <2>1. \A u \in early' \cup leaked' \cup undead' : endpoint'[u] # "off"
      BY <1>1, <1>2 DEF Numbers, Holding
    <2>2. \A r \in Pids : proc'[r].state = "free" => proc'[r].of = NoTerminal
      BY <1>3 DEF Numbers
    <2> QED  BY <2>1, <2>2, <1>1 DEF Numbers
  <1>6. DescriptorsInv'
    BY <1>1 DEF DescriptorsInv, TermTypes
  <1>7. ShellsInv'
    <2>1. Reused \subseteq Reused' /\ (t \in early' => pty[t].pid \in Reused')
      BY <1>1 DEF Reused
    <2>2. ASSUME NEW u \in Terminals, pty[u].pid \notin Reused', endpoint[u] \in Watching
          PROVE  proc'[pty[u].pid].of = u
      <3>1. proc[pty[u].pid].of = u /\ pty[u].pid \in Pids
        BY <2>1, <2>2 DEF ShellsInv, Numbers, Watching, Holding
      <3> QED  BY <3>1, <2>1, <2>2, <1>3
    <2>3. \A u \in Terminals, r \in Pids : proc'[r].of = u => proc[r].of = u
      BY <1>3
    <2> QED  BY <2>2, <2>3, <1>1 DEF ShellsInv
  <1> QED  BY <1>4, <1>5, <1>6, <1>7

\* close_pty gives the descriptor back; what it reaps is the terminal's own, if
\* its number was not reaped before.
LEMMA CloseStep ==
  ASSUME TermInv, NEW t \in Terminals, Terms!Close(t)  PROVE TermInv'
  <1> USE RecordsAssumption DEF TermInv
  <1> DEFINE f == pty[t].fd
             p == pty[t].pid
  <1>1. /\ endpoint[t] = "closing" /\ pty_listed' = pty_listed \ {t}
        /\ fd' = [fd EXCEPT ![f] = NoTerminal] /\ proc' = Terms!Reaped(t)
        /\ endpoint' = [endpoint EXCEPT ![t] = IF Terms!Alive(t) THEN "terminating" ELSE "over"]
        /\ UNCHANGED <<relay, client, pty, leaked, undead, early>>
    BY DEF Terms!Close
  <1>2. f \in Fds /\ p \in Pids /\ fd[f] = t
    BY <1>1 DEF Numbers, DescriptorsInv, Holding
  <1>3. /\ proc' \in [Pids -> [of : Terminals \cup {NoTerminal}, state : {"free", "running", "ended"}]]
        /\ \A r \in Pids : \/ proc'[r] = proc[r] /\ (r = p => proc[r].state # "ended")
                           \/ /\ r = p /\ proc[r].state = "ended"
                              /\ proc'[r].of = NoTerminal /\ proc'[r].state = "free"
    BY <1>1, Reaping
  <1>a. \A u \in Terminals : u # t => endpoint'[u] = endpoint[u]
    BY <1>1 DEF TermTypes
  <1>b. endpoint'[t] \in {"terminating", "over"} /\ (endpoint'[t] = "over" => proc[p].state # "running")
    BY <1>1 DEF TermTypes, Terms!Alive
  <1>4. TermTypes'
    BY <1>1, <1>3 DEF TermTypes, Watching, Holding
  <1>5. Numbers'
    <2>1. \A u \in early' \cup leaked' \cup undead' : endpoint'[u] # "off"
      BY <1>1, <1>a, <1>b DEF Numbers, TermTypes
    <2>2. \A r \in Pids : proc'[r].state = "free" => proc'[r].of = NoTerminal
      BY <1>3 DEF Numbers
    <2>3. \A u \in Terminals : endpoint'[u] # "off" => endpoint[u] # "off"
      BY <1>1, <1>a
    <2> QED  BY <2>1, <2>2, <2>3, <1>1 DEF Numbers
  <1>6. DescriptorsInv'
    <2>1. \A g \in Fds : fd'[g] = IF g = f THEN NoTerminal ELSE fd[g]
      BY <1>1, <1>2 DEF TermTypes
    <2>2. relay[t] # "reading"
      BY <1>1 DEF DescriptorsInv
    <2>3. \A u \in Terminals : relay'[u] = "reading" => endpoint'[u] \in {"open", "writing"}
      BY <1>1, <1>a, <2>2 DEF DescriptorsInv
    <2>4. \A u \in Terminals : endpoint'[u] \in Holding => fd'[pty'[u].fd] = u
      BY <1>1, <1>2, <1>a, <1>b, <2>1 DEF DescriptorsInv, Holding, Numbers
    <2>5. \A u \in Terminals, g \in Fds :
            fd'[g] = u => g = pty'[u].fd /\ (endpoint'[u] \in Holding \/ u \in leaked')
      BY <1>1, <1>2, <1>a, <2>1 DEF DescriptorsInv
    <2>6. \A u \in pty_listed' : endpoint'[u] \in Holding \/ u \in leaked'
      BY <1>1, <1>a DEF DescriptorsInv, TermTypes
    <2> QED  BY <2>3, <2>4, <2>5, <2>6 DEF DescriptorsInv
  <1>7. ShellsInv'
    <2>1. Reused' = Reused
      BY <1>1 DEF Reused
    <2>2. ASSUME NEW u \in Terminals, pty[u].pid \notin Reused, endpoint'[u] \in Watching
          PROVE  proc'[pty[u].pid].of = u
      <3>1. endpoint[u] \in Watching
        BY <2>2, <1>1, <1>a DEF Watching, Holding
      <3>2. proc[pty[u].pid].of = u /\ pty[u].pid \in Pids
        BY <2>2, <3>1 DEF ShellsInv, Numbers, Watching, Holding
      <3>3. CASE u = t
        BY <3>2, <3>3, <1>b, <1>3, <2>2, <1>1 DEF Watching, Holding, Terms!Alive, TermTypes
      <3>4. CASE u # t
        <4>1. endpoint[t] \in Watching
          BY <1>1 DEF Watching, Holding
        <4>2. pty[u].pid # p
          BY <3>2, <3>4, <4>1, <2>2 DEF ShellsInv
        <4> QED  BY <3>2, <4>2, <1>3
      <3> QED  BY <3>3, <3>4
    <2>3. ASSUME NEW u \in Terminals, NEW r \in Pids, proc'[r].of = u
          PROVE  r = pty[u].pid /\ (endpoint'[u] \in Watching \/ u \in leaked \cup undead)
      <3>1. proc'[r] = proc[r] /\ proc[r].of = u /\ (r = p => proc[r].state # "ended")
        BY <1>3, <2>3
      <3>2. r = pty[u].pid /\ (endpoint[u] \in Watching \/ u \in leaked \cup undead)
        BY <3>1 DEF ShellsInv
      <3>3. CASE u = t
        <4>1. proc[p].state = "running"
          BY <3>1, <3>2, <3>3 DEF Numbers, TermTypes
        <4>2. endpoint'[t] = "terminating"
          BY <4>1, <1>b
        <4> QED  BY <3>2, <3>3, <4>2 DEF Watching
      <3>4. CASE u # t
        BY <3>2, <3>4, <1>a
      <3> QED  BY <3>3, <3>4
    <2> QED  BY <2>1, <2>2, <2>3, <1>1 DEF ShellsInv
  <1> QED  BY <1>4, <1>5, <1>6, <1>7

\* The endpoint waits for its shell, and gives up after SIGKILL.
LEMMA AwaitStep ==
  ASSUME TermInv, NEW t \in Terminals, Terms!Await(t)  PROVE TermInv'
  <1> USE RecordsAssumption DEF TermInv
  <1> DEFINE p == pty[t].pid
  <1>1. /\ endpoint[t] \in {"terminating", "killing"}
        /\ UNCHANGED <<relay, client, pty, pty_listed, fd, leaked, early>>
    BY DEF Terms!Await
  <1>2. p \in Pids /\ endpoint[t] \in Watching \ Holding /\ relay[t] # "reading"
    BY <1>1 DEF Numbers, Watching, Holding, DescriptorsInv
  <1>3. /\ endpoint' \in [Terminals -> Watching \cup {"off", "over"}]
        /\ \A u \in Terminals : u # t => endpoint'[u] = endpoint[u]
        /\ endpoint'[t] \in {"killing", "over"}
    BY <1>1 DEF Terms!Await, TermTypes, Watching, Holding
  <1>4. /\ undead' \in SUBSET Terminals
        /\ undead \subseteq undead' /\ undead' \subseteq undead \cup {t}
        /\ \/ UNCHANGED proc /\ (endpoint'[t] = "over" => t \in undead')
           \/ proc' = Terms!Reaped(t) /\ endpoint'[t] = "over" /\ proc[p].state # "running"
    <2>1. CASE Terms!Alive(t)
      BY <2>1, <1>1 DEF Terms!Await, TermTypes
    <2>2. CASE ~Terms!Alive(t)
      BY <2>2, <1>1 DEF Terms!Await, TermTypes, Terms!Alive
    <2> QED  BY <2>1, <2>2
  <1>5. /\ proc' \in [Pids -> [of : Terminals \cup {NoTerminal}, state : {"free", "running", "ended"}]]
        /\ \A r \in Pids : \/ proc'[r] = proc[r]
                              /\ (r = p /\ endpoint'[t] = "over" =>
                                    proc[r].state = "free" \/ t \in undead')
                           \/ /\ r = p /\ endpoint'[t] = "over"
                              /\ proc'[r].of = NoTerminal /\ proc'[r].state = "free"
    <2>1. CASE UNCHANGED proc /\ (endpoint'[t] = "over" => t \in undead')
      BY <2>1 DEF TermTypes
    <2>2. CASE proc' = Terms!Reaped(t) /\ endpoint'[t] = "over" /\ proc[p].state # "running"
      <3>1. \A r \in Pids :
              \/ proc'[r] = proc[r] /\ (r = p => proc[r].state # "ended")
              \/ /\ r = p /\ proc[r].state = "ended"
                 /\ proc'[r].of = NoTerminal /\ proc'[r].state = "free"
        BY <2>2, <1>1, Reaping
      <3>2. proc' \in [Pids -> [of : Terminals \cup {NoTerminal}, state : {"free", "running", "ended"}]]
        BY <2>2, <1>1, Reaping
      <3> QED  BY <3>1, <3>2, <2>2 DEF TermTypes
    <2> QED  BY <1>4, <2>1, <2>2
  <1>6. TermTypes'
    BY <1>1, <1>3, <1>4, <1>5 DEF TermTypes
  <1>7. Numbers'
    <2>1. \A u \in early' \cup leaked' \cup undead' : endpoint'[u] # "off"
      BY <1>1, <1>3, <1>4 DEF Numbers, TermTypes
    <2>2. \A r \in Pids : proc'[r].state = "free" => proc'[r].of = NoTerminal
      BY <1>5 DEF Numbers
    <2>3. \A u \in Terminals : endpoint'[u] # "off" => endpoint[u] # "off"
      BY <1>1, <1>3
    <2> QED  BY <2>1, <2>2, <2>3, <1>1 DEF Numbers
  <1>8. DescriptorsInv'
    <2>1. \A u \in Terminals : endpoint'[u] \in Holding <=> endpoint[u] \in Holding
      BY <1>2, <1>3 DEF Holding
    <2>2. \A u \in Terminals : relay'[u] = "reading" => endpoint'[u] \in {"open", "writing"}
      BY <1>1, <1>2, <1>3 DEF DescriptorsInv
    <2> QED  BY <2>1, <2>2, <1>1 DEF DescriptorsInv, TermTypes
  <1>9. ShellsInv'
    <2>1. Reused' = Reused
      BY <1>1 DEF Reused
    <2>2. ASSUME NEW u \in Terminals, pty[u].pid \notin Reused, endpoint'[u] \in Watching
          PROVE  proc'[pty[u].pid].of = u
      <3>1. endpoint[u] \in Watching
        BY <2>2, <1>2, <1>3
      <3>2. proc[pty[u].pid].of = u /\ pty[u].pid \in Pids
        BY <2>2, <3>1 DEF ShellsInv, Numbers, Watching, Holding
      <3>3. CASE u = t
        <4>1. endpoint'[t] # "over"
          BY <2>2, <3>3 DEF Watching, Holding
        <4> QED  BY <3>2, <4>1, <1>5
      <3>4. CASE u # t
        <4>1. pty[u].pid # p
          BY <3>2, <3>4, <1>2, <2>2 DEF ShellsInv
        <4> QED  BY <3>2, <4>1, <1>5
      <3> QED  BY <3>3, <3>4
    <2>3. ASSUME NEW u \in Terminals, NEW r \in Pids, proc'[r].of = u
          PROVE  r = pty[u].pid /\ (endpoint'[u] \in Watching \/ u \in leaked \cup undead')
      <3>1. /\ proc'[r] = proc[r] /\ proc[r].of = u
            /\ r = p /\ endpoint'[t] = "over" => proc[r].state = "free" \/ t \in undead'
        BY <1>5, <2>3
      <3>2. r = pty[u].pid /\ (endpoint[u] \in Watching \/ u \in leaked \cup undead)
        BY <3>1 DEF ShellsInv
      <3>3. CASE u = t
        <4>1. proc[r].state # "free"
          BY <3>1 DEF Numbers
        <4>2. endpoint'[t] = "killing" \/ t \in undead'
          BY <4>1, <3>1, <3>2, <3>3, <1>3
        <4> QED  BY <3>2, <3>3, <4>2 DEF Watching
      <3>4. CASE u # t
        BY <3>2, <3>4, <1>3, <1>4
      <3> QED  BY <3>3, <3>4
    <2> QED  BY <2>1, <2>2, <2>3, <1>1 DEF ShellsInv
  <1> QED  BY <1>6, <1>7, <1>8, <1>9

\* A shell that ends is still its terminal's.
LEMMA ShellEndsStep ==
  ASSUME TermInv, NEW p \in Pids, Terms!ShellEnds(p)  PROVE TermInv'
  <1> USE DEF TermInv
  <1>1. /\ UNCHANGED <<endpoint, relay, client, pty, pty_listed, fd, leaked, undead, early>>
        /\ proc[p].state = "running" /\ proc' = [proc EXCEPT ![p].state = "ended"]
    BY DEF Terms!ShellEnds
  <1>2. /\ proc' \in [Pids -> [of : Terminals \cup {NoTerminal}, state : {"free", "running", "ended"}]]
        /\ \A r \in Pids : /\ proc'[r].of = proc[r].of
                           /\ proc'[r].state = "free" => proc[r].state = "free"
    BY <1>1 DEF TermTypes
  <1>3. TermTypes' /\ Numbers' /\ DescriptorsInv'
    BY <1>1, <1>2 DEF TermTypes, Numbers, DescriptorsInv
  <1>4. Reused' = Reused
    BY <1>1 DEF Reused
  <1>5. ShellsInv'
    <2>1. \A u \in Terminals : endpoint[u] \in Watching => pty[u].pid \in Pids
      BY DEF Numbers, Watching, Holding
    <2> QED  BY <1>1, <1>2, <1>4, <2>1 DEF ShellsInv
  <1> QED  BY <1>3, <1>5

\* Every step of the terminals keeps their invariant.
LEMMA TermStep == TermInv /\ [Terms!Next]_termVars => TermInv'
  <1> SUFFICES ASSUME TermInv, [Terms!Next]_termVars  PROVE TermInv'
    OBVIOUS
  <1>1. CASE UNCHANGED termVars
    BY <1>1 DEF termVars, TermInv, TermTypes, Numbers, DescriptorsInv, ShellsInv, Reused
  <1>2. CASE \E t \in Terminals :
               \/ Terms!Create(t) \/ Terms!Announce(t) \/ Terms!RelayEnds(t)
               \/ Terms!Type(t) \/ Terms!Typed(t) \/ Terms!Leave(t) \/ Terms!EndRelay(t)
               \/ Terms!Close(t) \/ Terms!Await(t)
    BY <1>2, CreateStep, HoldingStep, AnnounceStep, RelayEndsStep, CloseStep, AwaitStep
  <1>3. CASE \E p \in Pids : Terms!ShellEnds(p)
    BY <1>3, ShellEndsStep
  <1> QED  BY <1>1, <1>2, <1>3 DEF Terms!Next

\* What the invariant says of descriptors, signals and what is left.
LEMMA TermHolds ==
  TermInv => /\ Terms!DescriptorsAreTheirOwn /\ Terms!SignalsHitTheirShell
             /\ Terms!NothingIsLeftOver
  <1> SUFFICES ASSUME TermInv
      PROVE  /\ Terms!DescriptorsAreTheirOwn /\ Terms!SignalsHitTheirShell
             /\ Terms!NothingIsLeftOver
    OBVIOUS
  <1> USE DEF TermInv
  <1>1. Terms!DescriptorsAreTheirOwn
    BY DEF DescriptorsInv, Terms!DescriptorsAreTheirOwn, Holding
  <1>2. Terms!SignalsHitTheirShell
    BY DEF ShellsInv, Reused, Terms!SignalsHitTheirShell, Watching
  <1>3. Terms!NothingIsLeftOver
    <2> SUFFICES ASSUME NEW t \in Terminals \ leaked, endpoint[t] = "over"
        PROVE  /\ t \notin pty_listed /\ \A f \in Fds : fd[f] # t
               /\ t \notin undead => \A p \in Pids : proc[p].of # t
      BY DEF Terms!NothingIsLeftOver
    <2>1. endpoint[t] \notin Watching
      BY DEF Watching, Holding
    <2> QED  BY <2>1 DEF DescriptorsInv, ShellsInv, Watching
  <1> QED  BY <1>1, <1>2, <1>3

-----------------------------------------------------------------------------
(* CLAUDE.md and its revisions (ClaudeMdRevisions.tla)                     *)

RevisionStates == {"none", "draft", "proposed", "approved", "applied", "superseded",
                   "conflicted", "rejected"}
RevisionRow == [state : RevisionStates, content : Texts, base : Texts, no : 0 .. MaxVersion]
RevisionTable == [Revisions -> RevisionRow]
ProjectRow == [active : Revisions \cup {NoRevision}, hash : Texts]
Stages == {"idle", "looking", "writing", "ready"}
MdRequest == [at : Stages, was : RevisionTable, will : RevisionTable, sets : SUBSET ProjectRow,
              target : Revisions \cup {NoRevision}, late : BOOLEAN]

MdTypes ==
  /\ file \in Texts /\ rev \in RevisionTable /\ project \in ProjectRow
  /\ req \in [ClaudeMdRequests -> MdRequest]

\* A table and a project's columns that belong together.
Agree(rows, columns) ==
  /\ Memory!Applied(rows) = {columns.active} \ {NoRevision}
  /\ columns.active # NoRevision => columns.hash = rows[columns.active].content

\* What the project's columns become when a request saves these.
After(columns, sets) == IF sets = {} THEN columns ELSE CHOOSE p \in sets : TRUE

\* A request that writes the file, between its write and its commit.
Writers == {q \in ClaudeMdRequests : req[q].at = "ready" /\ req[q].target # NoRevision}

\* Requests under way that no other has overtaken.
Prompt == {q \in ClaudeMdRequests : req[q].at # "idle" /\ ~req[q].late}

\* A request that no other has overtaken knows the rows, and one with a target
\* leaves that applied alone.
RequestsKnow ==
  /\ \A q \in Prompt : req[q].was = rev
  /\ \A q \in ClaudeMdRequests :
       /\ req[q].at \in {"looking", "writing"} => req[q].target # NoRevision
       /\ req[q].target # NoRevision => Memory!Applied(req[q].will) = {req[q].target}

\* Unless something went astray, rows and project belong together, now and after
\* the commit of a request that writes no file.
RowsAgree ==
  ~astray =>
    /\ Agree(rev, project)
    /\ \A q \in Prompt : req[q].target = NoRevision => Agree(req[q].will, After(project, req[q].sets))

\* The columns point to the text.
Holds(text, columns) == columns.active # NoRevision => text = columns.hash

\* The file is the active revision's while nobody is to commit what it wrote and
\* nothing drifted; so it is after the commit of who is to.
FileAgrees ==
  ~drift =>
    /\ ~astray /\ Writers = {} =>
         /\ Holds(file, project)
         /\ \A q \in Prompt : req[q].target = NoRevision => Holds(file, After(project, req[q].sets))
    /\ \A q \in Writers \cap Prompt :
         Writers = {q} => file = req[q].will[req[q].target].content

MemInv == MdTypes /\ RequestsKnow /\ RowsAgree /\ FileAgrees

-----------------------------------------------------------------------------
\* A set of numbers that is not empty has a least element.
LEMMA LeastNumber ==
  ASSUME NEW S \in SUBSET Nat, S # {}
  PROVE  \E n \in S : \A m \in S : n <= m
  <1> DEFINE Less == {ss \in Nat \X Nat : ss[1] < ss[2]}
  <1>1. OpToRel(<, Nat) = Less
    BY Zenon DEF OpToRel
  <1>2. IsWellFoundedOn(Less, Nat)
    BY <1>1, NatLessThanWellFounded, Zenon
  <1>3. \A n, m \in Nat : <<m, n>> \notin Less => n <= m
    OBVIOUS
  <1> HIDE DEF Less
  <1>4. \E n \in S : \A m \in S : <<m, n>> \notin Less
    BY <1>2, WFMin, Zenon
  <1> QED  BY <1>3, <1>4

\* The columns of a single save.
LEMMA AfterOne == /\ After(project, {}) = project
                  /\ \A p : After(project, {p}) = p
  BY DEF After

\* A request that is not under way.
LEMMA IdleRequest == /\ Memory!Idle \in MdRequest /\ Memory!Idle.at = "idle"
                     /\ Memory!Idle.target = NoRevision
  <1> USE RecordsAssumption
  <1>1. Memory!NoRow \in RevisionRow
    BY DEF RevisionRow, Memory!NoRow, RevisionStates
  <1>2. Memory!NoRows \in RevisionTable
    BY <1>1 DEF RevisionTable, Memory!NoRows
  <1> QED  BY <1>2 DEF MdRequest, Memory!Idle, Stages

\* At the beginning there are no revisions.
LEMMA MemStart == Memory!Init => MemInv
  <1> SUFFICES ASSUME Memory!Init  PROVE MemInv
    OBVIOUS
  <1> USE RecordsAssumption
  <1>1. Memory!NoRow \in RevisionRow /\ Memory!NoRow.state = "none"
    BY DEF RevisionRow, Memory!NoRow, RevisionStates
  <1>2. Memory!NoRows \in RevisionTable /\ \A r \in Revisions : Memory!NoRows[r] = Memory!NoRow
    BY <1>1 DEF RevisionTable, Memory!NoRows
  <1>3. Memory!Idle \in MdRequest
    BY <1>2 DEF MdRequest, Memory!Idle, Stages
  <1>4. MdTypes
    BY <1>2, <1>3 DEF Memory!Init, MdTypes, ProjectRow, Memory!Unset
  <1>5. Writers = {} /\ Prompt = {}
    BY DEF Memory!Init, Writers, Prompt, Memory!Idle
  <1>6. Memory!Applied(rev) = {}
    BY <1>1, <1>2 DEF Memory!Init, Memory!Applied
  <1>7. RequestsKnow
    BY <1>5 DEF Memory!Init, RequestsKnow, Memory!Idle
  <1>8. RowsAgree /\ FileAgrees
    BY <1>5, <1>6 DEF Memory!Init, RowsAgree, FileAgrees, Agree, Holds, Memory!Unset
  <1> QED  BY <1>4, <1>7, <1>8 DEF MemInv

\* A request that begins leaves what it should.
LEMMA BeginStep ==
  ASSUME MemInv, NEW q \in ClaudeMdRequests, NEW at \in Stages \ {"idle", "writing"},
         NEW target \in Revisions \cup {NoRevision}, NEW rows \in RevisionTable,
         NEW sets \in SUBSET ProjectRow, Memory!Begin(q, at, target, rows, sets),
         target = NoRevision =>
           /\ at = "ready"
           /\ ~astray => /\ Agree(rows, After(project, sets))
                         /\ After(project, sets) = project \/ Holds(file, After(project, sets)),
         target # NoRevision => at = "looking" /\ Memory!Applied(rows) = {target}
  PROVE  MemInv'
  <1> USE DEF MemInv
  <1> DEFINE w == [at |-> at, was |-> rev, will |-> rows, sets |-> sets, target |-> target,
                   late |-> FALSE]
  <1>1. /\ UNCHANGED <<file, rev, project, drift, astray>>
        /\ req' = [req EXCEPT ![q] = w] /\ req[q].at = "idle"
    BY DEF Memory!Begin, Memory!MayBegin
  <1>2. /\ w.at = at /\ w.was = rev /\ w.will = rows /\ w.sets = sets /\ w.target = target
        /\ w.late = FALSE /\ w \in MdRequest
    BY DEF MdTypes, MdRequest
  <1> HIDE DEF w
  <1>3. \A p \in ClaudeMdRequests : req'[p] = IF p = q THEN w ELSE req[p]
    BY <1>1 DEF MdTypes
  <1>4. MdTypes'
    BY <1>1, <1>2, <1>3 DEF MdTypes
  <1>5. Writers' = Writers
    BY <1>1, <1>2, <1>3 DEF Writers
  <1>6. Prompt' = Prompt \cup {q} /\ q \notin Prompt /\ q \notin Writers
    BY <1>1, <1>2, <1>3 DEF Prompt, Writers, Stages
  <1>7. \A ss : After(project, ss)' = After(project, ss)
    BY <1>1 DEF After
  <1>8. RequestsKnow'
    <2>1. \A p \in Prompt' : req'[p].was = rev'
      BY <1>1, <1>2, <1>3, <1>6 DEF RequestsKnow, Prompt
    <2>2. ASSUME NEW p \in ClaudeMdRequests
          PROVE  /\ req'[p].at \in {"looking", "writing"} => req'[p].target # NoRevision
                 /\ req'[p].target # NoRevision => Memory!Applied(req'[p].will) = {req'[p].target}
      <3>1. CASE p = q
        <4>1. req'[p] = w
          BY <1>3, <3>1
        <4>2. w.target # NoRevision => Memory!Applied(w.will) = {w.target}
          BY <1>2
        <4> QED  BY <1>2, <4>1, <4>2
      <3>2. CASE p # q
        <4>1. req'[p] = req[p]
          BY <1>3, <3>2
        <4> QED  BY <4>1 DEF RequestsKnow
      <3> QED  BY <3>1, <3>2
    <2> QED  BY <2>1, <2>2 DEF RequestsKnow, Memory!Applied
  <1>9. RowsAgree'
    <2>1. ASSUME ~astray, NEW p \in Prompt', req'[p].target = NoRevision
          PROVE  Agree(req'[p].will, After(project', req'[p].sets))
      <3>1. CASE p = q
        BY <1>1, <1>2, <1>3, <2>1, <3>1
      <3>2. CASE p # q
        BY <1>1, <1>3, <1>6, <2>1, <3>2 DEF RowsAgree, Prompt
      <3> QED  BY <3>1, <3>2
    <2>2. ~astray => Agree(rev, project)
      BY DEF RowsAgree
    <2> QED  BY <1>1, <2>1, <2>2 DEF RowsAgree
  <1>10. FileAgrees'
    <2>1. ASSUME ~drift, ~astray, Writers = {}, NEW p \in Prompt', req'[p].target = NoRevision
          PROVE  Holds(file, After(project', req'[p].sets))
      <3>1. CASE p = q
        <4>1. After(project, sets) = project \/ Holds(file, After(project, sets))
          BY <1>2, <1>3, <2>1, <3>1
        <4> QED  BY <1>1, <1>2, <1>3, <2>1, <3>1, <4>1 DEF FileAgrees
      <3>2. CASE p # q
        BY <1>1, <1>3, <1>6, <2>1, <3>2 DEF FileAgrees, Prompt
      <3> QED  BY <3>1, <3>2
    <2>2. ~drift /\ ~astray /\ Writers = {} => Holds(file, project)
      BY DEF FileAgrees
    <2>3. ASSUME ~drift, NEW p \in Writers \cap Prompt', Writers = {p}
          PROVE  file = req'[p].will[req'[p].target].content
      BY <1>3, <1>6, <2>3 DEF FileAgrees, Writers
    <2> QED  BY <1>1, <1>5, <2>1, <2>2, <2>3 DEF FileAgrees
  <1> QED  BY <1>4, <1>8, <1>9, <1>10

\* A row that is not applied, before or after, does not bear on the columns.
LEMMA Unapplied ==
  ASSUME NEW rows \in RevisionTable, NEW r \in Revisions, NEW w \in RevisionRow,
         rows[r].state # "applied", w.state # "applied"
  PROVE  /\ [rows EXCEPT ![r] = w] \in RevisionTable
         /\ \A columns : Agree(rows, columns) => Agree([rows EXCEPT ![r] = w], columns)
  <1> DEFINE next == [rows EXCEPT ![r] = w]
  <1>1. next \in RevisionTable /\ \A s \in Revisions : next[s] = IF s = r THEN w ELSE rows[s]
    BY DEF RevisionTable
  <1> HIDE DEF next
  <1>2. Memory!Applied(next) = Memory!Applied(rows)
    BY <1>1 DEF Memory!Applied
  <1>3. ASSUME NEW columns, Agree(rows, columns)  PROVE Agree(next, columns)
    <2>1. columns.active # NoRevision =>
            columns.active \in Memory!Applied(rows) /\ next[columns.active] = rows[columns.active]
      BY <1>1, <1>3 DEF Agree, Memory!Applied
    <2> QED  BY <1>2, <1>3, <2>1 DEF Agree
  <1> QED  BY <1>1, <1>3 DEF next

\* NextNo is defined: it is one more than the greatest number, or 1.
LEMMA NextNumber ==
  ASSUME NEW rows \in RevisionTable  PROVE Memory!NextNo(rows) \in 1 .. MaxVersion + 1
  <1> USE RecordsAssumption
  <1> DEFINE Bounds == {n \in Nat : \A r \in Revisions : rows[r].no <= n}
             Greatest(n) == /\ n = 0 \/ \E r \in Revisions : rows[r].no = n
                            /\ \A r \in Revisions : rows[r].no <= n
  <1>1. \A r \in Revisions : rows[r].no \in 0 .. MaxVersion
    BY DEF RevisionTable, RevisionRow
  <1>2. Bounds \in SUBSET Nat /\ MaxVersion \in Bounds
    BY <1>1
  <1>3. PICK n \in Bounds : \A m \in Bounds : n <= m
    BY <1>2, LeastNumber
  <1>4. n \in 0 .. MaxVersion
    BY <1>2, <1>3
  <1>5. Greatest(n)
    <2>1. CASE n = 0
      BY <1>3, <2>1
    <2>2. CASE n # 0
      <3>1. n - 1 \in Nat /\ n - 1 \notin Bounds
        BY <1>3, <1>4, <2>2
      <3>2. PICK r \in Revisions : ~(rows[r].no <= n - 1)
        BY <3>1
      <3> QED  BY <1>1, <1>3, <1>4, <3>2
    <2> QED  BY <2>1, <2>2
  <1>6. (CHOOSE k \in 0 .. MaxVersion : Greatest(k)) \in 0 .. MaxVersion
    <2> HIDE DEF Greatest
    <2> QED  BY <1>4, <1>5
  <1> QED  BY <1>6 DEF Memory!NextNo

\* What EnsureInitial shows of a table belongs together with what it saves.
LEMMA SeenFits ==
  ASSUME MemInv, NEW i \in Revisions, Memory!Fresh(i)
  PROVE  LET seen == Memory!EnsureInitial(i)
         IN  /\ seen.rows \in RevisionTable /\ seen.sets \in SUBSET ProjectRow
             /\ seen.sets = {} \/ seen.sets = Memory!Points(i, file)
             /\ ~astray => Agree(seen.rows, After(project, seen.sets))
             /\ \A d \in Revisions \ {i} :
                  rev[d] = Memory!NoRow => seen.rows[d].state # "applied"
  <1> USE RecordsAssumption DEF MemInv
  <1> DEFINE active == Memory!ActiveIn(rev)
             blank == {r \in active : /\ rev[r].no = 1 /\ rev[r].state = "applied"
                                      /\ rev[r].content = Empty /\ file # Empty}
             written == [r \in Revisions |-> CASE r = i -> Memory!Initial
                                            [] r \in blank -> Memory!NoRow
                                            [] OTHER -> rev[r]]
             seen == Memory!EnsureInitial(i)
  <1>0. /\ rev \in RevisionTable /\ file \in Texts /\ project \in ProjectRow
        /\ rev[i] = Memory!NoRow
    BY DEF MdTypes, Memory!Fresh
  <1>1. /\ Memory!Initial \in RevisionRow /\ Memory!Initial.state = "applied"
        /\ Memory!Initial.content = file
    BY <1>0 DEF Memory!Initial, RevisionRow, RevisionStates
  <1>2. Memory!NoRow \in RevisionRow /\ Memory!NoRow.state = "none"
    BY DEF RevisionRow, Memory!NoRow, RevisionStates
  <1>3. /\ \/ active # {} /\ blank = {} /\ seen.rows = rev /\ seen.sets = {}
           \/ (active = {} \/ blank # {}) /\ seen.rows = written /\ seen.sets = Memory!Points(i, file)
    BY DEF Memory!EnsureInitial, Memory!View
  <1>4. ~astray => Memory!Applied(rev) = {project.active} \ {NoRevision} /\ Agree(rev, project)
    BY DEF RowsAgree, Agree
  <1>5. ~astray => active = {project.active} \ {NoRevision}
    <2> SUFFICES ASSUME ~astray  PROVE active = {project.active} \ {NoRevision}
      OBVIOUS
    <2>1. CASE project.active = NoRevision
      BY <1>4, <2>1 DEF Memory!ActiveIn
    <2>2. CASE project.active # NoRevision
      <3>1. rev[project.active].state = "applied"
        BY <1>4, <2>2 DEF Memory!Applied
      <3> QED  BY <1>2, <2>2, <3>1 DEF Memory!ActiveIn
    <2> QED  BY <2>1, <2>2
  <1>6. /\ written \in RevisionTable
        /\ \A r \in Revisions : written[r] = IF r = i THEN Memory!Initial
                                          ELSE IF r \in blank THEN Memory!NoRow ELSE rev[r]
    BY <1>0, <1>1, <1>2 DEF RevisionTable
  <1>7. ~astray /\ (active = {} \/ blank # {}) => Memory!Applied(written) = {i}
    <2> SUFFICES ASSUME ~astray, active = {} \/ blank # {}  PROVE Memory!Applied(written) = {i}
      OBVIOUS
    <2>1. \A r \in Revisions : rev[r].state = "applied" => r \in blank
      BY <1>4, <1>5 DEF Memory!Applied
    <2> HIDE DEF written, blank, active
    <2> QED  BY <1>1, <1>2, <1>6, <2>1 DEF Memory!Applied
  <1>8. Memory!Points(i, file) = {[active |-> i, hash |-> file]}
    BY DEF Memory!Points
  <1> HIDE DEF written, blank, active, seen
  <1>9. seen.rows \in RevisionTable /\ seen.sets \in SUBSET ProjectRow
    BY <1>0, <1>3, <1>6, <1>8 DEF ProjectRow
  <1>10. ~astray => Agree(seen.rows, After(project, seen.sets))
    <2>1. CASE seen.rows = rev /\ seen.sets = {}
      BY <1>4, <2>1, AfterOne
    <2>2. CASE (active = {} \/ blank # {}) /\ seen.rows = written /\ seen.sets = Memory!Points(i, file)
      <3>1. After(project, seen.sets) = [active |-> i, hash |-> file]
        BY <1>8, <2>2, AfterOne
      <3> QED  BY <1>1, <1>6, <1>7, <2>2, <3>1 DEF Agree
    <2> QED  BY <1>3, <2>1, <2>2
  <1>11. \A d \in Revisions \ {i} : rev[d] = Memory!NoRow => seen.rows[d].state # "applied"
    BY <1>2, <1>3, <1>6
  <1> QED  BY <1>3, <1>9, <1>10, <1>11 DEF seen

\* A project's columns as EnsureInitial saves them hold what the file does.
LEMMA PointsHold ==
  ASSUME NEW i, NEW sets, sets = {} \/ sets = Memory!Points(i, file)
  PROVE  After(project, sets) = project \/ Holds(file, After(project, sets))
  <1>1. CASE sets = {}
    BY <1>1, AfterOne
  <1>2. CASE sets = {[active |-> i, hash |-> file]}
    <2>1. After(project, sets) = [active |-> i, hash |-> file]
      BY <1>2, AfterOne
    <2> QED  BY <2>1 DEF Holds
  <1> QED  BY <1>1, <1>2 DEF Memory!Points

\* read_current.
LEMMA ReadStep ==
  ASSUME MemInv, NEW q \in ClaudeMdRequests, NEW i \in Revisions, Memory!ReadCurrent(q, i)
  PROVE  MemInv'
  <1> DEFINE seen == Memory!EnsureInitial(i)
  <1>1. Memory!Fresh(i) /\ Memory!Begin(q, "ready", NoRevision, seen.rows, seen.sets)
    BY DEF Memory!ReadCurrent
  <1>2. /\ seen.rows \in RevisionTable /\ seen.sets \in SUBSET ProjectRow
        /\ seen.sets = {} \/ seen.sets = Memory!Points(i, file)
        /\ ~astray => Agree(seen.rows, After(project, seen.sets))
    BY <1>1, SeenFits
  <1>3. After(project, seen.sets) = project \/ Holds(file, After(project, seen.sets))
    BY <1>2, PointsHold
  <1> HIDE DEF seen
  <1> QED  BY <1>1, <1>2, <1>3, BeginStep DEF Stages

\* A draft with the next number is a row.
LEMMA DraftRow ==
  ASSUME MemInv, NEW rows \in RevisionTable, NEW text \in Texts,
         Memory!NextNo(rows) <= MaxVersion
  PROVE  /\ Memory!Draft(rows, text) \in RevisionRow
         /\ Memory!Draft(rows, text).state = "draft" /\ Memory!Draft(rows, text).content = text
  <1>1. Memory!NextNo(rows) \in 0 .. MaxVersion
    BY NextNumber, RecordsAssumption
  <1>2. file \in Texts
    BY DEF MemInv, MdTypes
  <1> QED  BY <1>1, <1>2 DEF Memory!Draft, RevisionRow, RevisionStates

\* create_draft.
LEMMA DraftStep ==
  ASSUME MemInv, NEW q \in ClaudeMdRequests, NEW i \in Revisions, NEW d \in Revisions,
         NEW text \in Texts, Memory!CreateDraft(q, i, d, text)
  PROVE  MemInv'
  <1> DEFINE seen == Memory!EnsureInitial(i)
             w == Memory!Draft(seen.rows, text)
  <1>1. /\ Memory!Fresh(i) /\ rev[d] = Memory!NoRow /\ i # d
        /\ Memory!NextNo(seen.rows) <= MaxVersion
        /\ Memory!Begin(q, "ready", NoRevision, [seen.rows EXCEPT ![d] = w], seen.sets)
    BY DEF Memory!CreateDraft, Memory!Fresh
  <1>2. /\ seen.rows \in RevisionTable /\ seen.sets \in SUBSET ProjectRow
        /\ seen.sets = {} \/ seen.sets = Memory!Points(i, file)
        /\ ~astray => Agree(seen.rows, After(project, seen.sets))
        /\ seen.rows[d].state # "applied"
    BY <1>1, SeenFits
  <1>3. After(project, seen.sets) = project \/ Holds(file, After(project, seen.sets))
    BY <1>2, PointsHold
  <1>4. w \in RevisionRow /\ w.state = "draft"
    BY <1>1, <1>2, DraftRow
  <1> HIDE DEF seen, w
  <1>5. /\ [seen.rows EXCEPT ![d] = w] \in RevisionTable
        /\ ~astray => Agree([seen.rows EXCEPT ![d] = w], After(project, seen.sets))
    BY <1>2, <1>4, Unapplied
  <1> QED  BY <1>1, <1>2, <1>3, <1>5, BeginStep DEF Stages

\* A request that changes a row neither applied before nor after, and saves
\* no columns.
LEMMA RowStep ==
  ASSUME MemInv, NEW q \in ClaudeMdRequests, NEW r \in Revisions, NEW w \in RevisionRow,
         rev[r].state # "applied", w.state # "applied",
         Memory!Begin(q, "ready", NoRevision, [rev EXCEPT ![r] = w], {})
  PROVE  MemInv'
  <1>1. rev \in RevisionTable
    BY DEF MemInv, MdTypes
  <1>2. ~astray => Agree(rev, project)
    BY DEF MemInv, RowsAgree
  <1>3. /\ [rev EXCEPT ![r] = w] \in RevisionTable
        /\ ~astray => Agree([rev EXCEPT ![r] = w], After(project, {}))
    BY <1>1, <1>2, Unapplied, AfterOne
  <1> QED  BY <1>3, AfterOne, BeginStep DEF Stages

\* propose, approve, reject, and an update of a draft.
LEMMA ChangeStep ==
  ASSUME MemInv, NEW q \in ClaudeMdRequests, NEW r \in Revisions,
         \/ \E state \in {"proposed", "approved", "rejected"} : Memory!Move(q, r, state)
         \/ \E text \in Texts : Memory!UpdateRevision(q, r, text)
  PROVE  MemInv'
  <1>1. rev[r] \in RevisionRow
    BY DEF MemInv, MdTypes, RevisionTable
  <1>2. ASSUME NEW state \in {"proposed", "approved", "rejected"}, Memory!Move(q, r, state)
        PROVE  MemInv'
    <2> DEFINE w == [rev[r] EXCEPT !.state = state]
    <2>1. w \in RevisionRow /\ w.state # "applied"
      BY <1>1 DEF RevisionRow, RevisionStates
    <2>2. /\ state \in Memory!Allowed[rev[r].state]
          /\ Memory!Begin(q, "ready", NoRevision, [rev EXCEPT ![r] = w], {})
      BY <1>2 DEF Memory!Move
    <2>3. rev[r].state # "applied"
      <3> SUFFICES ASSUME rev[r].state = "applied"  PROVE FALSE
        OBVIOUS
      <3>1. Memory!Allowed[rev[r].state] = {"superseded"}
        BY DEF Memory!Allowed
      <3> QED  BY <2>2, <3>1
    <2> HIDE DEF w
    <2> QED  BY <2>1, <2>2, <2>3, RowStep
  <1>3. ASSUME NEW text \in Texts, Memory!UpdateRevision(q, r, text)  PROVE MemInv'
    <2> DEFINE w == [[rev[r] EXCEPT !.state = "draft"] EXCEPT !.content = text]
    <2>1. w \in RevisionRow /\ w.state # "applied"
      BY <1>1 DEF RevisionRow, RevisionStates
    <2>2. [rev EXCEPT ![r].state = "draft", ![r].content = text] = [rev EXCEPT ![r] = w]
      BY <1>1 DEF MemInv, MdTypes, RevisionTable
    <2>3. /\ rev[r].state # "applied"
          /\ Memory!Begin(q, "ready", NoRevision, [rev EXCEPT ![r] = w], {})
      BY <1>3, <2>2 DEF Memory!UpdateRevision
    <2> HIDE DEF w
    <2> QED  BY <2>1, <2>3, RowStep
  <1> QED  BY <1>2, <1>3

\* delete_revision: of the active one, nothing applied is left to take its place.
LEMMA DeleteStep ==
  ASSUME MemInv, NEW q \in ClaudeMdRequests, NEW r \in Revisions, Memory!DeleteRevision(q, r)
  PROVE  MemInv'
  <1> USE RecordsAssumption DEF MemInv
  <1> DEFINE left == [rev EXCEPT ![r] = Memory!NoRow]
             next == {s \in Memory!Applied(left) :
                        \A t \in Memory!Applied(left) : left[t].no <= left[s].no}
  <1>1. PICK sets \in IF project.active # r THEN {{}}
                      ELSE IF next = {} THEN {{Memory!Unset}}
                      ELSE {Memory!Points(s, left[s].content) : s \in next} :
          Memory!Begin(q, "ready", NoRevision, left, sets)
    BY DEF Memory!DeleteRevision
  <1>2. /\ Memory!NoRow \in RevisionRow /\ Memory!NoRow.state = "none"
        /\ Memory!Unset \in ProjectRow /\ Memory!Unset.active = NoRevision
    BY DEF RevisionRow, Memory!NoRow, RevisionStates, ProjectRow, Memory!Unset
  <1>3. rev \in RevisionTable /\ file \in Texts
    BY DEF MdTypes
  <1>4. /\ left \in RevisionTable
        /\ \A s \in Revisions : left[s] = IF s = r THEN Memory!NoRow ELSE rev[s]
    BY <1>2, <1>3 DEF RevisionTable
  <1> HIDE DEF left
  <1>5. ~astray => Agree(rev, project)
    BY DEF RowsAgree
  <1>6. Memory!Applied(left) = Memory!Applied(rev) \ {r}
    BY <1>2, <1>4 DEF Memory!Applied
  <1>7. CASE project.active # r
    <2>1. sets = {} /\ After(project, sets) = project
      BY <1>1, <1>7, AfterOne
    <2>2. ~astray => Agree(left, project)
      <3> SUFFICES ASSUME ~astray  PROVE Agree(left, project)
        OBVIOUS
      <3>1. Memory!Applied(rev) = {project.active} \ {NoRevision}
        BY <1>5 DEF Agree
      <3>2. r \notin Memory!Applied(rev)
        BY <1>7, <3>1
      <3>3. project.active # NoRevision => left[project.active] = rev[project.active]
        BY <1>4, <1>7, <3>1 DEF Memory!Applied
      <3> QED  BY <1>5, <1>6, <3>1, <3>2, <3>3 DEF Agree
    <2> QED  BY <1>1, <1>4, <2>1, <2>2, BeginStep DEF Stages
  <1>8. CASE project.active = r
    <2>1. sets \in SUBSET ProjectRow
      <3>1. \A s \in next : Memory!Points(s, left[s].content) \in SUBSET ProjectRow
        BY <1>4 DEF Memory!Points, ProjectRow, RevisionTable, RevisionRow, Memory!Applied
      <3> QED  BY <1>1, <1>2, <1>8, <3>1
    <2>2. ~astray => Agree(left, After(project, sets)) /\ Holds(file, After(project, sets))
      <3> SUFFICES ASSUME ~astray
          PROVE  Agree(left, After(project, sets)) /\ Holds(file, After(project, sets))
        OBVIOUS
      <3>1. Memory!Applied(left) = {}
        BY <1>5, <1>6, <1>8 DEF Agree
      <3>2. sets = {Memory!Unset}
        BY <1>1, <1>8, <3>1
      <3>3. After(project, sets) = Memory!Unset
        BY <3>2, AfterOne
      <3> QED  BY <1>2, <3>1, <3>3 DEF Agree, Holds
    <2> QED  BY <1>1, <1>4, <2>1, <2>2, BeginStep DEF Stages
  <1> QED  BY <1>7, <1>8

\* What ApplyIn leaves applied.
LEMMA AppliedAlone ==
  ASSUME NEW rows \in RevisionTable, NEW r \in Revisions
  PROVE  /\ Memory!ApplyIn(rows, r) \in RevisionTable
         /\ Memory!Applied(Memory!ApplyIn(rows, r)) = {r}
         /\ Memory!ApplyIn(rows, r)[r].content = rows[r].content
  <1> DEFINE on == [rows[r] EXCEPT !.state = "applied"]
             off(s) == [rows[s] EXCEPT !.state = "superseded"]
             next == Memory!ApplyIn(rows, r)
  <1>1. /\ on \in RevisionRow /\ on.state = "applied" /\ on.content = rows[r].content
        /\ \A s \in Revisions : /\ rows[s] \in RevisionRow /\ off(s) \in RevisionRow
                                /\ off(s).state = "superseded"
    BY DEF RevisionTable, RevisionRow, RevisionStates
  <1>2. next = [s \in Revisions |-> IF s = r THEN on
                                    ELSE IF rows[s].state = "applied" THEN off(s) ELSE rows[s]]
    BY DEF Memory!ApplyIn
  <1> HIDE DEF on, off, next
  <1>3. next \in RevisionTable /\ next[r] = on
    BY <1>1, <1>2 DEF RevisionTable
  <1>4. Memory!Applied(next) = {r}
    <2>1. \A s \in Revisions \ {r} : next[s].state # "applied"
      BY <1>1, <1>2
    <2> QED  BY <1>1, <1>3, <2>1 DEF Memory!Applied
  <1> QED  BY <1>1, <1>3, <1>4 DEF next

\* apply.
LEMMA ApplyStep ==
  ASSUME MemInv, NEW q \in ClaudeMdRequests, NEW r \in Revisions, Memory!Apply(q, r)
  PROVE  MemInv'
  <1> USE RecordsAssumption
  <1>1. rev \in RevisionTable /\ rev[r].content \in Texts
    BY DEF MemInv, MdTypes, RevisionTable, RevisionRow
  <1>2. Memory!Begin(q, "looking", r, Memory!ApplyIn(rev, r), Memory!Points(r, rev[r].content))
    BY DEF Memory!Apply
  <1>3. Memory!Points(r, rev[r].content) \in SUBSET ProjectRow
    BY <1>1 DEF Memory!Points, ProjectRow
  <1> QED  BY <1>1, <1>2, <1>3, AppliedAlone, BeginStep DEF Stages

\* load_agent, update_agent and unload_agent.
LEMMA ApplyAgentStep ==
  ASSUME MemInv, NEW q \in ClaudeMdRequests, NEW i \in Revisions, NEW d \in Revisions,
         NEW text \in Texts, NEW load \in BOOLEAN, Memory!ApplyAgent(q, i, d, text, load)
  PROVE  MemInv'
  <1> USE RecordsAssumption
  <1> DEFINE seen == Memory!EnsureInitial(i)
             w == Memory!Draft(seen.rows, text)
             written == [seen.rows EXCEPT ![d] = w]
             sets == IF load THEN {project} ELSE Memory!Points(d, text)
  <1>1. /\ Memory!Fresh(i) /\ rev[d] = Memory!NoRow /\ i # d
        /\ Memory!NextNo(seen.rows) <= MaxVersion
        /\ Memory!Begin(q, "looking", d, Memory!ApplyIn(written, d), sets)
    BY DEF Memory!ApplyAgent, Memory!Fresh
  <1>2. seen.rows \in RevisionTable
    BY <1>1, SeenFits
  <1>3. w \in RevisionRow
    BY <1>1, <1>2, DraftRow
  <1>4. sets \in SUBSET ProjectRow
    BY DEF MemInv, MdTypes, Memory!Points, ProjectRow
  <1> HIDE DEF seen, w, sets
  <1>5. written \in RevisionTable
    BY <1>2, <1>3 DEF RevisionTable
  <1> HIDE DEF written
  <1> QED  BY <1>1, <1>4, <1>5, AppliedAlone, BeginStep DEF Stages

\* A merged row is a row; with what the request read it is as the request leaves it.
LEMMA MergedRow ==
  ASSUME NEW now \in RevisionRow, NEW was \in RevisionRow, NEW will \in RevisionRow
  PROVE  /\ Memory!Merged(now, was, will) \in RevisionRow
         /\ now = was => Memory!Merged(now, was, will) = will
  <1> DEFINE by == [column \in DOMAIN now |->
                      IF was[column] # will[column] THEN will[column] ELSE now[column]]
  <1>1. DOMAIN now = {"state", "content", "base", "no"}
    BY DEF RevisionRow
  <1>2. by = [state |-> IF was.state # will.state THEN will.state ELSE now.state,
              content |-> IF was.content # will.content THEN will.content ELSE now.content,
              base |-> IF was.base # will.base THEN will.base ELSE now.base,
              no |-> IF was.no # will.no THEN will.no ELSE now.no]
    BY <1>1
  <1> HIDE DEF by
  <1>3. by \in RevisionRow
    BY <1>2 DEF RevisionRow
  <1>4. now = was => by = will
    BY <1>2 DEF RevisionRow
  <1> QED  BY <1>3, <1>4 DEF Memory!Merged, by

\* A request looks at the file: it goes on, marks its revision, or ends.
LEMMA LookStep ==
  ASSUME MemInv, NEW q \in ClaudeMdRequests, Memory!Look(q)  PROVE MemInv'
  <1> USE RecordsAssumption DEF MemInv
  <1> DEFINE r == req[q].target
             marked == [req[q].was EXCEPT ![r].state = "conflicted"]
             next == IF file = req[q].will[r].base THEN [req[q] EXCEPT !.at = "writing"]
                     ELSE IF req[q].was[r].state = "approved"
                     THEN [req[q] EXCEPT !.at = "ready", !.sets = {}, !.target = NoRevision,
                                         !.will = marked]
                     ELSE Memory!Idle
  <1>1. /\ UNCHANGED <<file, rev, project, drift, astray>>
        /\ req[q].at = "looking" /\ req' = [req EXCEPT ![q] = next]
    BY DEF Memory!Look, Memory!Ended, MdTypes
  <1>2. req[q] \in MdRequest /\ r \in Revisions
    BY <1>1 DEF MdTypes, RequestsKnow, MdRequest
  <1>3. marked \in RevisionTable
    BY <1>2 DEF MdRequest, RevisionTable, RevisionRow, RevisionStates
  <1>4. Memory!Idle \in MdRequest /\ Memory!Idle.at = "idle" /\ Memory!Idle.target = NoRevision
    BY IdleRequest
  <1> HIDE DEF marked
  <1>5. /\ next \in MdRequest
        /\ \/ /\ next.at = "writing" /\ next.target = r /\ next.late = req[q].late
              /\ next.was = req[q].was /\ next.will = req[q].will
           \/ /\ next.at = "ready" /\ next.target = NoRevision /\ next.late = req[q].late
              /\ next.sets = {} /\ next.was = req[q].was /\ next.will = marked
              /\ req[q].was[r].state = "approved"
           \/ next = Memory!Idle
    BY <1>2, <1>3, <1>4 DEF MdRequest, Stages
  <1> HIDE DEF next
  <1>6. MdTypes'
    BY <1>1, <1>5 DEF MdTypes
  <1>7. \A p \in ClaudeMdRequests : req'[p] = IF p = q THEN next ELSE req[p]
    BY <1>1 DEF MdTypes
  <1>8. Writers' = Writers /\ q \notin Writers
    BY <1>1, <1>4, <1>5, <1>7 DEF Writers
  <1>9. Prompt' \in SUBSET Prompt
    BY <1>1, <1>4, <1>5, <1>7 DEF Prompt
  <1>10. RequestsKnow'
    <2>1. \A p \in Prompt' : req'[p].was = rev'
      BY <1>1, <1>4, <1>5, <1>7, <1>9 DEF RequestsKnow, Prompt
    <2>2. ASSUME NEW p \in ClaudeMdRequests
          PROVE  /\ req'[p].at \in {"looking", "writing"} => req'[p].target # NoRevision
                 /\ req'[p].target # NoRevision => Memory!Applied(req'[p].will) = {req'[p].target}
      <3>1. CASE p = q /\ next.at = "writing"
        BY <1>2, <1>4, <1>5, <1>7, <3>1 DEF RequestsKnow
      <3>2. CASE p = q /\ next.at # "writing"
        BY <1>4, <1>5, <1>7, <3>2
      <3>3. CASE p # q
        <4>1. req'[p] = req[p]
          BY <1>7, <3>3
        <4> QED  BY <4>1 DEF RequestsKnow
      <3> QED  BY <3>1, <3>2, <3>3
    <2> QED  BY <2>1, <2>2 DEF RequestsKnow, Memory!Applied
  <1>11. ASSUME NEW p \in Prompt', req'[p].target = NoRevision
         PROVE  /\ p # q => p \in Prompt /\ req'[p] = req[p]
                /\ p = q => /\ req'[p].sets = {}
                            /\ ~astray => Agree(req'[p].will, project)
    <2>1. p # q => p \in Prompt /\ req'[p] = req[p]
      BY <1>7, <1>9 DEF Prompt
    <2>2. ASSUME p = q
          PROVE  req'[p].sets = {} /\ (~astray => Agree(req'[p].will, project))
      <3>1. /\ p \in Prompt /\ req'[p] = next /\ next.sets = {} /\ next.will = marked
            /\ req[q].was[r].state = "approved"
        BY <1>2, <1>4, <1>5, <1>7, <1>9, <1>11, <2>2 DEF Prompt
      <3>2. req[q].was = rev /\ rev \in RevisionTable
        BY <2>2, <3>1 DEF RequestsKnow, MdTypes
      <3> DEFINE w == [rev[r] EXCEPT !.state = "conflicted"]
      <3>3. w \in RevisionRow /\ w.state = "conflicted"
        BY <1>2, <3>2 DEF RevisionTable, RevisionRow, RevisionStates
      <3>4. marked = [rev EXCEPT ![r] = w]
        BY <3>2 DEF marked
      <3> HIDE DEF w
      <3>5. ~astray => Agree(rev, project)
        BY DEF RowsAgree
      <3>6. ~astray => Agree([rev EXCEPT ![r] = w], project)
        BY <1>2, <3>1, <3>2, <3>3, <3>5, Unapplied
      <3> QED  BY <3>1, <3>4, <3>6
    <2> QED  BY <2>1, <2>2
  <1>12. RowsAgree'
    <2>1. ASSUME ~astray, NEW p \in Prompt', req'[p].target = NoRevision
          PROVE  Agree(req'[p].will, After(project', req'[p].sets))
      <3>1. CASE p = q
        BY <1>1, <1>11, <2>1, <3>1, AfterOne
      <3>2. CASE p # q
        BY <1>1, <1>11, <2>1, <3>2 DEF RowsAgree
      <3> QED  BY <3>1, <3>2
    <2>2. ~astray => Agree(rev, project)
      BY DEF RowsAgree
    <2> QED  BY <1>1, <2>1, <2>2 DEF RowsAgree
  <1>13. FileAgrees'
    <2>1. ASSUME ~drift, ~astray, Writers = {}, NEW p \in Prompt', req'[p].target = NoRevision
          PROVE  Holds(file, After(project', req'[p].sets))
      <3>1. CASE p = q
        BY <1>1, <1>11, <2>1, <3>1, AfterOne DEF FileAgrees
      <3>2. CASE p # q
        BY <1>1, <1>11, <2>1, <3>2 DEF FileAgrees
      <3> QED  BY <3>1, <3>2
    <2>2. ~drift /\ ~astray /\ Writers = {} => Holds(file, project)
      BY DEF FileAgrees
    <2>3. ASSUME ~drift, NEW p \in Writers \cap Prompt', Writers = {p}
          PROVE  file = req'[p].will[req'[p].target].content
      BY <1>7, <1>8, <1>9, <2>3 DEF FileAgrees, Writers
    <2> QED  BY <1>1, <1>8, <2>1, <2>2, <2>3 DEF FileAgrees
  <1> QED  BY <1>6, <1>10, <1>12, <1>13

\* A request writes the file.
LEMMA WriteStep ==
  ASSUME MemInv, NEW q \in ClaudeMdRequests, Memory!WriteFile(q)  PROVE MemInv'
  <1> USE RecordsAssumption DEF MemInv
  <1> DEFINE w == [req[q] EXCEPT !.at = "ready"]
  <1>1. /\ UNCHANGED <<rev, project, astray>> /\ drift' = FALSE
        /\ req[q].at = "writing" /\ req' = [req EXCEPT ![q] = w]
        /\ file' = req[q].will[req[q].target].content
    BY DEF Memory!WriteFile, MdTypes
  <1>2. /\ req[q] \in MdRequest /\ req[q].target \in Revisions
        /\ w \in MdRequest /\ w.at = "ready" /\ w.was = req[q].was /\ w.will = req[q].will
        /\ w.sets = req[q].sets /\ w.target = req[q].target /\ w.late = req[q].late
    BY <1>1 DEF MdTypes, MdRequest, RequestsKnow, Stages
  <1>3. file' \in Texts
    BY <1>1, <1>2 DEF MdRequest, RevisionTable, RevisionRow
  <1> HIDE DEF w
  <1>4. MdTypes'
    BY <1>1, <1>2, <1>3 DEF MdTypes
  <1>5. \A p \in ClaudeMdRequests : req'[p] = IF p = q THEN w ELSE req[p]
    BY <1>1 DEF MdTypes
  <1>6. Prompt' = Prompt
    BY <1>1, <1>2, <1>5 DEF Prompt
  <1>7. q \in Writers'
    BY <1>2, <1>5 DEF Writers
  <1>8. \A p \in ClaudeMdRequests :
          /\ req'[p].was = req[p].was /\ req'[p].will = req[p].will
          /\ req'[p].sets = req[p].sets /\ req'[p].target = req[p].target
          /\ req'[p].at \in {"looking", "writing"} => req[p].at \in {"looking", "writing"}
    BY <1>2, <1>5
  <1>9. RequestsKnow'
    BY <1>1, <1>6, <1>8 DEF RequestsKnow, Prompt, Memory!Applied
  <1>10. RowsAgree'
    <2>1. ASSUME ~astray, NEW p \in Prompt', req'[p].target = NoRevision
          PROVE  Agree(req'[p].will, After(project', req'[p].sets))
      <3>1. /\ req'[p].will = req[p].will /\ req'[p].sets = req[p].sets
            /\ p \in Prompt /\ req[p].target = NoRevision
        BY <1>6, <1>8, <2>1 DEF Prompt
      <3> QED  BY <1>1, <2>1, <3>1 DEF RowsAgree
    <2>2. ~astray => Agree(rev, project)
      BY DEF RowsAgree
    <2> QED  BY <1>1, <2>1, <2>2 DEF RowsAgree
  <1>11. FileAgrees'
    <2>1. ASSUME NEW p \in Writers', Writers' = {p}
          PROVE  file' = req'[p].will[req'[p].target].content
      BY <1>1, <1>2, <1>5, <1>7, <2>1
    <2> QED  BY <1>7, <2>1 DEF FileAgrees
  <1> QED  BY <1>4, <1>9, <1>10, <1>11

\* The file is edited.
LEMMA EditStep ==
  ASSUME MemInv, NEW text \in Texts, Memory!EditFile(text)  PROVE MemInv'
  <1>1. /\ file' = text /\ drift' = TRUE /\ UNCHANGED <<rev, project, req, astray>>
    BY DEF Memory!EditFile
  <1>2. MdTypes' /\ Prompt' = Prompt
    BY <1>1 DEF MemInv, MdTypes, Prompt
  <1>3. RequestsKnow' /\ FileAgrees'
    BY <1>1, <1>2 DEF MemInv, RequestsKnow, Memory!Applied, FileAgrees
  <1>4. RowsAgree'
    <2>1. ASSUME ~astray, NEW p \in Prompt', req'[p].target = NoRevision
          PROVE  Agree(req'[p].will, After(project', req'[p].sets))
      BY <1>1, <1>2, <2>1 DEF MemInv, RowsAgree
    <2>2. ~astray => Agree(rev, project)
      BY DEF MemInv, RowsAgree
    <2> QED  BY <1>1, <2>1, <2>2 DEF RowsAgree
  <1> QED  BY <1>2, <1>3, <1>4 DEF MemInv

\* A transaction fails: what it wrote is left in the file.
LEMMA FailStep ==
  ASSUME MemInv, NEW q \in ClaudeMdRequests, Memory!Fail(q)  PROVE MemInv'
  <1> USE RecordsAssumption DEF MemInv
  <1>1. /\ UNCHANGED <<file, rev, project, astray>>
        /\ req' = [req EXCEPT ![q] = Memory!Idle]
        /\ drift' = (drift \/ (req[q].at = "ready" /\ req[q].target # NoRevision))
    BY DEF Memory!Fail, Memory!Ended
  <1>2. Memory!Idle \in MdRequest /\ Memory!Idle.at = "idle" /\ Memory!Idle.target = NoRevision
    BY IdleRequest
  <1>3. MdTypes'
    BY <1>1, <1>2 DEF MdTypes
  <1>4. \A p \in ClaudeMdRequests : req'[p] = IF p = q THEN Memory!Idle ELSE req[p]
    BY <1>1 DEF MdTypes
  <1>5. Prompt' = Prompt \ {q} /\ Writers' = Writers \ {q}
    BY <1>2, <1>4 DEF Prompt, Writers
  <1>6. q \in Writers => drift'
    BY <1>1 DEF Writers
  <1>7. RequestsKnow'
    <2>1. \A p \in Prompt' : req'[p].was = rev'
      BY <1>1, <1>4, <1>5 DEF RequestsKnow, Prompt
    <2>2. ASSUME NEW p \in ClaudeMdRequests
          PROVE  /\ req'[p].at \in {"looking", "writing"} => req'[p].target # NoRevision
                 /\ req'[p].target # NoRevision => Memory!Applied(req'[p].will) = {req'[p].target}
      <3>1. CASE p = q
        BY <1>2, <1>4, <3>1
      <3>2. CASE p # q
        <4>1. req'[p] = req[p]
          BY <1>4, <3>2
        <4> QED  BY <4>1 DEF RequestsKnow
      <3> QED  BY <3>1, <3>2
    <2> QED  BY <2>1, <2>2 DEF RequestsKnow, Memory!Applied
  <1>8. \A p \in Prompt' : p \in Prompt /\ req'[p] = req[p]
    BY <1>4, <1>5 DEF Prompt
  <1>9. RowsAgree'
    <2>1. ASSUME ~astray, NEW p \in Prompt', req'[p].target = NoRevision
          PROVE  Agree(req'[p].will, After(project', req'[p].sets))
      BY <1>1, <1>8, <2>1 DEF RowsAgree
    <2>2. ~astray => Agree(rev, project)
      BY DEF RowsAgree
    <2> QED  BY <1>1, <2>1, <2>2 DEF RowsAgree
  <1>10. FileAgrees'
    <2> SUFFICES ASSUME ~drift'  PROVE FileAgrees'
      BY DEF FileAgrees
    <2>1. Writers' = Writers /\ ~drift
      BY <1>1, <1>5, <1>6
    <2>2. ASSUME ~astray, Writers = {}, NEW p \in Prompt', req'[p].target = NoRevision
          PROVE  Holds(file, After(project', req'[p].sets))
      BY <1>1, <1>8, <2>1, <2>2 DEF FileAgrees
    <2>3. ~astray /\ Writers = {} => Holds(file, project)
      BY <2>1 DEF FileAgrees
    <2>4. ASSUME NEW p \in Writers \cap Prompt', Writers = {p}
          PROVE  file = req'[p].will[req'[p].target].content
      BY <1>8, <2>1, <2>4 DEF FileAgrees
    <2> QED  BY <1>1, <2>1, <2>2, <2>3, <2>4 DEF FileAgrees
  <1> QED  BY <1>3, <1>7, <1>9, <1>10

\* A request commits: alone with the file it wrote it puts everything right,
\* one that writes no file keeps it right, any other leaves it astray.
LEMMA CommitStep ==
  ASSUME MemInv, NEW q \in ClaudeMdRequests, Memory!Commit(q)  PROVE MemInv'
  <1> USE RecordsAssumption DEF MemInv
  <1> DEFINE repairs == /\ req[q].target # NoRevision /\ Memory!Alone(q) /\ ~ req[q].late
                        /\ req[q].sets = Memory!Points(req[q].target,
                                                       req[q].will[req[q].target].content)
             merged(r) == Memory!Merged(rev[r], req[q].was[r], req[q].will[r])
  <1>1. /\ UNCHANGED <<file, drift>> /\ req[q].at = "ready"
        /\ rev' = [r \in Revisions |-> IF r \in Memory!Changed(q) THEN merged(r) ELSE rev[r]]
        /\ project' = After(project, req[q].sets)
        /\ req' = [p \in ClaudeMdRequests |-> IF p = q THEN Memory!Idle
                     ELSE [req[p] EXCEPT !.late = req[p].at # "idle"]]
        /\ astray' = (~ repairs /\ (astray \/ req[q].late \/ req[q].target # NoRevision))
    BY DEF Memory!Commit, After
  <1>2. req[q] \in MdRequest /\ rev \in RevisionTable /\ project \in ProjectRow
    BY DEF MdTypes
  <1>3. \A r \in Revisions :
          /\ merged(r) \in RevisionRow
          /\ rev[r] = req[q].was[r] => merged(r) = req[q].will[r]
    BY <1>2, MergedRow DEF MdRequest, RevisionTable
  <1> HIDE DEF merged
  <1>4. rev' \in RevisionTable
    BY <1>1, <1>2, <1>3 DEF RevisionTable
  <1>5. q \in Prompt => rev' = req[q].will
    <2> SUFFICES ASSUME q \in Prompt  PROVE rev' = req[q].will
      OBVIOUS
    <2>1. req[q].was = rev /\ req[q].will \in RevisionTable
      BY <1>2 DEF RequestsKnow, MdRequest
    <2>2. \A r \in Revisions : rev'[r] = req[q].will[r]
      BY <1>1, <1>3, <2>1 DEF Memory!Changed
    <2> QED  BY <1>4, <2>1, <2>2 DEF RevisionTable
  <1>6. project' \in ProjectRow
    <2>1. \A S : S # {} => (CHOOSE p \in S : TRUE) \in S
      OBVIOUS
    <2> QED  BY <1>1, <1>2, <2>1 DEF After, MdRequest
  <1>7. \A p \in ClaudeMdRequests \ {q} :
          /\ req'[p] \in MdRequest /\ req'[p].at = req[p].at /\ req'[p].target = req[p].target
          /\ req'[p].will = req[p].will /\ req'[p].late = (req[p].at # "idle")
    BY <1>1 DEF MdTypes, MdRequest
  <1>8. req'[q] = Memory!Idle
    BY <1>1
  <1>9. MdTypes'
    <2>1. req' \in [ClaudeMdRequests -> MdRequest]
      BY <1>1, <1>7, <1>8, IdleRequest
    <2> QED  BY <1>1, <1>4, <1>6, <2>1 DEF MdTypes
  <1>10. Prompt' = {}
    BY <1>7, <1>8, IdleRequest DEF Prompt
  <1>11. RequestsKnow'
    <2>1. ASSUME NEW p \in ClaudeMdRequests
          PROVE  /\ req'[p].at \in {"looking", "writing"} => req'[p].target # NoRevision
                 /\ req'[p].target # NoRevision => Memory!Applied(req'[p].will) = {req'[p].target}
      <3>1. CASE p = q
        BY <1>8, <3>1, IdleRequest
      <3>2. CASE p # q
        <4>1. req'[p].at = req[p].at /\ req'[p].target = req[p].target /\ req'[p].will = req[p].will
          BY <1>7, <3>2
        <4> QED  BY <4>1 DEF RequestsKnow
      <3> QED  BY <3>1, <3>2
    <2> QED  BY <1>10, <2>1 DEF RequestsKnow, Memory!Applied
  <1>12. CASE repairs
    <2>1. q \in Prompt /\ q \in Writers
      BY <1>1, <1>12 DEF Prompt, Writers
    <2>2. Writers = {q}
      BY <1>12, <2>1 DEF Memory!Alone, Writers
    <2>3. project' = [active |-> req[q].target, hash |-> req[q].will[req[q].target].content]
      BY <1>1, <1>12, AfterOne DEF Memory!Points
    <2>4. Memory!Applied(rev') = {req[q].target} /\ req[q].target # NoRevision
      BY <1>5, <1>12, <2>1 DEF RequestsKnow
    <2>5. Agree(rev', project')
      BY <1>5, <2>1, <2>3, <2>4 DEF Agree
    <2>6. ~drift => Holds(file, project')
      BY <2>1, <2>2, <2>3 DEF FileAgrees, Holds
    <2>7. RowsAgree' /\ FileAgrees'
      BY <1>1, <1>10, <2>5, <2>6 DEF RowsAgree, FileAgrees, Agree, Holds, Memory!Applied
    <2> QED  BY <1>9, <1>11, <2>7
  <1>13. CASE ~repairs /\ (astray \/ req[q].late \/ req[q].target # NoRevision)
    <2>1. astray'
      BY <1>1, <1>13
    <2> QED  BY <1>9, <1>10, <1>11, <2>1 DEF RowsAgree, FileAgrees
  <1>14. CASE ~(astray \/ req[q].late \/ req[q].target # NoRevision)
    <2>1. q \in Prompt
      BY <1>1, <1>14 DEF Prompt
    <2>2. Agree(rev', project')
      BY <1>1, <1>5, <1>14, <2>1 DEF RowsAgree
    <2>3. Writers' = Writers
      BY <1>7, <1>8, <1>14, IdleRequest DEF Writers
    <2>4. ~drift /\ Writers = {} => Holds(file, project')
      BY <1>1, <1>14, <2>1 DEF FileAgrees
    <2>5. RowsAgree' /\ FileAgrees'
      BY <1>1, <1>10, <2>2, <2>3, <2>4 DEF RowsAgree, FileAgrees, Agree, Holds, Memory!Applied
    <2> QED  BY <1>9, <1>11, <2>5
  <1> QED  BY <1>12, <1>13, <1>14

\* Every step of the revisions keeps their invariant.
LEMMA MemStep == MemInv /\ [Memory!Next]_mdVars => MemInv'
  <1> SUFFICES ASSUME MemInv, [Memory!Next]_mdVars  PROVE MemInv'
    OBVIOUS
  <1>1. CASE UNCHANGED mdVars
    <2>1. UNCHANGED <<file, rev, project, req, drift, astray>>
      BY <1>1 DEF mdVars
    <2>2. MdTypes' /\ Prompt' = Prompt /\ Writers' = Writers
      BY <2>1 DEF MemInv, MdTypes, Prompt, Writers
    <2>3. RequestsKnow'
      BY <2>1, <2>2 DEF MemInv, RequestsKnow, Memory!Applied
    <2>4. RowsAgree'
      <3>1. ASSUME ~astray, NEW p \in Prompt', req'[p].target = NoRevision
            PROVE  Agree(req'[p].will, After(project', req'[p].sets))
        BY <2>1, <2>2, <3>1 DEF MemInv, RowsAgree
      <3>2. ~astray => Agree(rev, project)
        BY DEF MemInv, RowsAgree
      <3> QED  BY <2>1, <3>1, <3>2 DEF RowsAgree
    <2>5. FileAgrees'
      BY <2>1, <2>2 DEF MemInv, FileAgrees, Holds, After
    <2> QED  BY <2>2, <2>3, <2>4, <2>5 DEF MemInv
  <1>2. ASSUME NEW q \in ClaudeMdRequests,
               \/ Memory!Look(q) \/ Memory!WriteFile(q) \/ Memory!Commit(q) \/ Memory!Fail(q)
        PROVE  MemInv'
    BY <1>2, LookStep, WriteStep, CommitStep, FailStep
  <1>3. ASSUME NEW q \in ClaudeMdRequests, NEW i \in Revisions,
               \/ Memory!ReadCurrent(q, i) \/ Memory!Apply(q, i) \/ Memory!DeleteRevision(q, i)
               \/ \E state \in {"proposed", "approved", "rejected"} : Memory!Move(q, i, state)
               \/ \E text \in Texts : Memory!UpdateRevision(q, i, text)
        PROVE  MemInv'
    BY <1>3, ReadStep, ApplyStep, DeleteStep, ChangeStep
  <1>4. ASSUME NEW q \in ClaudeMdRequests, NEW i \in Revisions, NEW d \in Revisions,
               NEW text \in Texts,
               \/ Memory!CreateDraft(q, i, d, text)
               \/ \E load \in BOOLEAN : Memory!ApplyAgent(q, i, d, text, load)
        PROVE  MemInv'
    BY <1>4, DraftStep, ApplyAgentStep
  <1>5. ASSUME NEW text \in Texts, Memory!EditFile(text)  PROVE MemInv'
    BY <1>5, EditStep
  <1> QED  BY <1>1, <1>2, <1>3, <1>4, <1>5 DEF Memory!Next

\* What the invariant says when no request is under way.
LEMMA MemHolds == MemInv => Memory!ActiveIsTheFile
  <1> SUFFICES ASSUME MemInv, \A q \in ClaudeMdRequests : req[q].at = "idle", ~astray
      PROVE  /\ Memory!Applied(rev) = {project.active} \ {NoRevision}
             /\ project.active # NoRevision =>
                  /\ project.hash = rev[project.active].content
                  /\ ~ drift => file = project.hash
    BY DEF Memory!ActiveIsTheFile
  <1>1. Writers = {}
    BY DEF Writers
  <1> QED  BY <1>1 DEF MemInv, RowsAgree, FileAgrees, Agree, Holds

-----------------------------------------------------------------------------
(* Branches (SessionBranches.tla)                                          *)

UnderWay == {"merging", "checked", "removing", "saving"}
Somewhere == Tree!Places \cup {NoBranch}
BranchRow == [group : SUBSET Branches, no : Nat, source : Somewhere, root : Somewhere,
              base : Somewhere, worktree : BOOLEAN]
Convergence == [at : UnderWay \cup {"off", "over"}, target : Branches \cup {NoBranch},
                list : SUBSET Branches, todo : SUBSET Branches, group : SUBSET Branches,
                root : Somewhere, base : Somewhere, into : Somewhere, met : BOOLEAN,
                late : BOOLEAN]

BranchTypes ==
  /\ session \in [Branches -> {"none", "there", "deleted"}]
  /\ dir \in [Tree!Places -> Tree!Places] /\ checked \in [Tree!Places -> Somewhere]
  /\ row \in [Branches -> BranchRow]
  /\ tree \in [Tree!Places -> {"none", "clean", "dirty"}]
  /\ converge \in [Converges -> Convergence]
  /\ vb \in [Branches -> {"no", "working", "deleted"}]
  /\ groups \in Nat

\* A convergence keeps one of the branches it lists, none of those it removes, or
\* nothing, and then it moves nobody.
\* It lists branches that were made, and those whose rows it leaves are known.
ListsInv ==
  \A v \in Converges :
    IF converge[v].at \in UnderWay
    THEN /\ \/ converge[v].target \in converge[v].list \ converge[v].todo
            \/ converge[v].target = NoBranch /\ converge[v].at \in {"removing", "saving"}
         /\ converge[v].target = NoBranch => converge[v].into = NoBranch
         /\ converge[v].todo \subseteq converge[v].list
         /\ converge[v].at \in {"merging", "checked"} =>
              converge[v].todo = converge[v].list \ {converge[v].target}
         /\ \A b \in converge[v].list : session[b] # "none"
         /\ converge[v].list \ converge[v].group \subseteq swept
         /\ converge[v].at = "checked" => converge[v].into # NoBranch
    ELSE converge[v].list = {} /\ converge[v].target = NoBranch

\* Nothing is there of a branch that was not made. A branch has its own
\* worktree, or works in the root's directory; its worktree is there until the
\* convergence that keeps it moves it. A branch is of its group.
DirectoriesInv ==
  /\ tree[Root] # "none"
  /\ \A b \in Branches : session[b] = "none" => tree[b] = "none" /\ row[b] = Tree!NoRow
  /\ \A b \in Branches \ (guests \cup cut) : session[b] = "there" =>
       /\ dir[b] \in {Root, b}
       /\ dir[b] = b /\ tree[b] = "none" =>
            \E v \in Converges : converge[v].at = "saving" /\ converge[v].target = b
       /\ dir[b] = b /\ b \in Tree!Rows => row[b].worktree
  /\ \A b \in Tree!Rows : /\ b \in row[b].group
                          /\ ~row[b].worktree => tree[b] = "none"

\* A convergence that moves nobody keeps a branch without a worktree.
MovesInv ==
  \A v \in Converges :
    converge[v].at \in {"removing", "saving"} /\ converge[v].into = NoBranch
      /\ converge[v].target # NoBranch =>
      /\ tree[converge[v].target] = "none"
      /\ converge[v].target \notin guests \cup cut /\ session[converge[v].target] = "there" =>
           dir[converge[v].target] # converge[v].target

\* Convergences that list the same branch have met; what one keeps is there
\* unless another or a deletion came to it, and merged unless it got commits.
KeptInv ==
  /\ \A v, w \in Converges :
       v # w /\ converge[v].list \cap converge[w].list # {} => converge[v].met
  /\ \A v \in Converges :
       converge[v].at \in UnderWay /\ converge[v].target # NoBranch /\ ~converge[v].met =>
         session[converge[v].target] = "there"
  /\ \A v \in Converges :
       converge[v].at \in {"removing", "saving"} /\ converge[v].into # NoBranch
         /\ ~converge[v].late => converge[v].target \notin ahead

\* A row is of a session that is there, was deleted on its own or by a
\* convergence that is under way, or has been given up.
RowsInv ==
  \A b \in Tree!Rows :
    \/ session[b] = "there" \/ b \in alone \cup swept \/ vb[b] = "deleted"
    \/ \E v \in Converges : /\ converge[v].at \in {"removing", "saving"}
                            /\ b \in converge[v].list \ {converge[v].target}

BranchInv == BranchTypes /\ ListsInv /\ DirectoriesInv /\ MovesInv /\ KeptInv /\ RowsInv

\* At the beginning there are no branches.
LEMMA BranchStart == Tree!Init => BranchInv
  <1> SUFFICES ASSUME Tree!Init  PROVE BranchInv
    OBVIOUS
  <1> USE RecordsAssumption
  <1>1. /\ Root \in Tree!Places /\ Branches \subseteq Tree!Places /\ Tree!NoRow \in BranchRow
        /\ Tree!Off \in Convergence /\ Tree!Off.at = "off" /\ Tree!Off.list = {}
        /\ Tree!Off.target = NoBranch
    BY DEF Tree!Places, Tree!NoRow, BranchRow, Somewhere, Tree!Off, Convergence
  <1>2. BranchTypes
    BY <1>1 DEF Tree!Init, BranchTypes, Somewhere
  <1>3. Tree!Rows = {}
    BY DEF Tree!Init, Tree!Rows
  <1>4. \A v \in Converges : converge[v] = Tree!Off
    BY DEF Tree!Init
  <1>5. ListsInv
    BY <1>1, <1>4 DEF ListsInv, UnderWay
  <1>6. DirectoriesInv
    BY <1>1, <1>3 DEF Tree!Init, DirectoriesInv
  <1>7. MovesInv /\ KeptInv /\ RowsInv
    BY <1>1, <1>3, <1>4 DEF MovesInv, KeptInv, RowsInv, UnderWay
  <1> QED  BY <1>2, <1>5, <1>6, <1>7 DEF BranchInv

\* The types of what is read of a branch, a place or a convergence.
LEMMA BranchFields ==
  ASSUME BranchTypes
  PROVE  /\ \A p \in Tree!Places : dir[p] \in Tree!Places /\ checked[p] \in Somewhere
         /\ \A b \in Branches : b \in Tree!Places /\ row[b] \in BranchRow
         /\ Root \in Tree!Places /\ NoBranch \in Somewhere
         /\ \A v \in Converges : converge[v] \in Convergence
         /\ Tree!Rows \subseteq Branches
         /\ \A b \in Branches : b \in Tree!Rows <=> row[b] # Tree!NoRow
  BY DEF BranchTypes, Tree!Places, Somewhere, Tree!Rows

\* A group is made of branches that were not there.
LEMMA MakeStep ==
  ASSUME BranchInv, NEW src \in Tree!Places, NEW bs \in SUBSET Branches, NEW worktree \in BOOLEAN,
         \A b \in bs : session[b] = "none", Tree!MakeGroup(src, bs, worktree),
         vb' \in [Branches -> {"no", "working", "deleted"}],
         \A b \in Branches : vb[b] = "deleted" => vb'[b] = "deleted" \/ b \in bs
  PROVE  BranchInv'
  <1> USE RecordsAssumption DEF BranchInv
  <1> DEFINE new_row == [group |-> bs, no |-> groups + 1, source |-> src, root |-> Tree!RootOf(src),
                         base |-> IF worktree THEN checked[dir[src]] ELSE NoBranch,
                         worktree |-> worktree]
  <1>1. /\ session' = [b \in Branches |-> IF b \in bs THEN "there" ELSE session[b]]
        /\ dir' = [b \in Tree!Places |-> IF b \in bs THEN (IF worktree THEN b ELSE dir[src]) ELSE dir[b]]
        /\ row' = [b \in Branches |-> IF b \in bs THEN new_row ELSE row[b]]
        /\ tree' = [p \in Tree!Places |-> IF worktree /\ p \in bs THEN "clean" ELSE tree[p]]
        /\ guests' = IF ~ worktree /\ dir[src] # Root THEN guests \cup bs ELSE guests
        /\ groups' = groups + 1
        /\ UNCHANGED <<checked, ahead, converge, alone, swept, cut>>
    BY DEF Tree!MakeGroup
  <1>2. new_row.worktree = worktree /\ new_row.group = bs
    OBVIOUS
  <1> HIDE DEF new_row
  <1>3. \A b \in Branches :
          /\ session'[b] = IF b \in bs THEN "there" ELSE session[b]
          /\ dir'[b] = IF b \in bs THEN (IF worktree THEN b ELSE dir[src]) ELSE dir[b]
          /\ row'[b] = IF b \in bs THEN new_row ELSE row[b]
          /\ tree'[b] = IF worktree /\ b \in bs THEN "clean" ELSE tree[b]
    BY <1>1, BranchFields
  <1>4. /\ Tree!Rows' \subseteq Branches
        /\ \A b \in Branches : b \in Tree!Rows' <=> row'[b] # Tree!NoRow
    BY DEF Tree!Rows
  <1>5. /\ \A b \in Branches : session[b] # "none" => b \notin bs /\ session'[b] = session[b]
        /\ guests \subseteq guests'
    BY <1>1, <1>3
  <1>6. DirectoriesInv'
    <2>1. tree'[Root] # "none"
      <3>1. Root \in Tree!Places /\ Root \notin bs
        BY DEF Tree!Places
      <3> QED  BY <1>1, <3>1 DEF DirectoriesInv
    <2>2. ASSUME NEW b \in Branches, session'[b] = "none"
          PROVE  tree'[b] = "none" /\ row'[b] = Tree!NoRow
      BY <1>3, <2>2 DEF DirectoriesInv
    <2>3. ASSUME NEW b \in Branches \ (guests' \cup cut'), session'[b] = "there"
          PROVE  /\ dir'[b] \in {Root, b}
                 /\ dir'[b] = b /\ tree'[b] = "none" =>
                      \E v \in Converges : converge'[v].at = "saving" /\ converge'[v].target = b
                 /\ dir'[b] = b /\ b \in Tree!Rows' => row'[b].worktree
      <3>1. CASE b \in bs /\ worktree
        BY <1>2, <1>3, <3>1
      <3>2. CASE b \in bs /\ ~worktree
        <4>1. dir[src] = Root
          BY <1>1, <2>3, <3>2
        <4> QED  BY <1>3, <3>2, <4>1
      <3>3. CASE b \notin bs
        <4>1. b \in Branches \ (guests \cup cut) /\ session[b] = "there"
          BY <1>1, <1>3, <1>5, <2>3, <3>3
        <4>2. dir'[b] = dir[b] /\ tree'[b] = tree[b] /\ row'[b] = row[b]
          BY <1>3, <3>3
        <4>3. b \in Tree!Rows' => b \in Tree!Rows
          BY <1>4, <4>2, BranchFields
        <4> QED  BY <1>1, <4>1, <4>2, <4>3 DEF DirectoriesInv
      <3> QED  BY <3>1, <3>2, <3>3
    <2>4. ASSUME NEW b \in Tree!Rows'
          PROVE  b \in row'[b].group /\ (~row'[b].worktree => tree'[b] = "none")
      <3>1. CASE b \in bs
        BY <1>2, <1>3, <1>4, <2>4, <3>1 DEF DirectoriesInv
      <3>2. CASE b \notin bs
        BY <1>3, <1>4, <2>4, <3>2, BranchFields DEF DirectoriesInv
      <3> QED  BY <3>1, <3>2
    <2> QED  BY <2>1, <2>2, <2>3, <2>4 DEF DirectoriesInv
  <1>7. ListsInv'
    <2>1. \A b \in Branches : session[b] # "none" => session'[b] # "none"
      BY <1>5
    <2>2. \A v \in Converges : converge[v].list \subseteq Branches
      BY BranchFields DEF Convergence
    <2> QED  BY <1>1, <2>1, <2>2 DEF ListsInv
  <1>8. ASSUME NEW v \in Converges, converge[v].at \in UnderWay, converge[v].target # NoBranch
        PROVE  /\ converge[v].target \in Branches
               /\ session'[converge[v].target] = session[converge[v].target]
               /\ tree'[converge[v].target] = tree[converge[v].target]
               /\ dir'[converge[v].target] = dir[converge[v].target]
    <2>1. converge[v].target \in Branches /\ session[converge[v].target] # "none"
      BY <1>8, BranchFields DEF ListsInv, Convergence
    <2> QED  BY <1>3, <1>5, <2>1
  <1>9. MovesInv'
    <2>1. \A v \in Converges : converge[v].at \in {"removing", "saving"} => converge[v].at \in UnderWay
      BY DEF UnderWay
    <2> QED  BY <1>1, <1>5, <1>8, <2>1 DEF MovesInv
  <1>10. KeptInv'
    BY <1>1, <1>8 DEF KeptInv
  <1>11. RowsInv'
    <2> SUFFICES ASSUME NEW b \in Tree!Rows'
        PROVE  \/ session'[b] = "there" \/ b \in alone \cup swept \/ vb'[b] = "deleted"
               \/ \E v \in Converges : /\ converge[v].at \in {"removing", "saving"}
                                       /\ b \in converge[v].list \ {converge[v].target}
      BY <1>1 DEF RowsInv
    <2>1. CASE b \in bs
      BY <1>3, <1>4, <2>1
    <2>2. CASE b \notin bs
      <3>1. b \in Tree!Rows /\ session'[b] = session[b]
        BY <1>3, <1>4, <2>2, BranchFields
      <3> QED  BY <1>4, <2>2, <3>1 DEF RowsInv
    <2> QED  BY <2>1, <2>2
  <1>12. BranchTypes'
    <2>1. new_row \in BranchRow
      <3>1. src \in Somewhere /\ groups + 1 \in Nat
        BY DEF Somewhere, BranchTypes
      <3>2. Tree!RootOf(src) \in Somewhere
        BY <3>1, BranchFields DEF Tree!RootOf, BranchRow
      <3>3. (IF worktree THEN checked[dir[src]] ELSE NoBranch) \in Somewhere
        <4>1. dir[src] \in Tree!Places => checked[dir[src]] \in Somewhere
          BY BranchFields
        <4> QED  BY <4>1, BranchFields
      <3> QED  BY <3>1, <3>2, <3>3 DEF BranchRow, new_row
    <2>2. row' \in [Branches -> BranchRow] /\ session' \in [Branches -> {"none", "there", "deleted"}]
      BY <1>1, <2>1 DEF BranchTypes
    <2>3. dir' \in [Tree!Places -> Tree!Places]
      BY <1>1, BranchFields DEF BranchTypes
    <2> QED  BY <1>1, <2>2, <2>3 DEF BranchTypes
  <1> QED  BY <1>6, <1>7, <1>9, <1>10, <1>11, <1>12

\* A convergence that is as it was, but for its marks, which stay.
Marked(c, d) ==
  /\ d.at = c.at /\ d.target = c.target /\ d.list = c.list /\ d.todo = c.todo
  /\ d.group = c.group /\ d.root = c.root /\ d.base = c.base /\ d.into = c.into
  /\ c.met => d.met
  /\ c.late => d.late

\* Meeting and Behind set the marks they are to set, and nothing else.
LEMMA Marks ==
  ASSUME BranchTypes
  PROVE  /\ \A b : /\ Tree!Meeting(b) \in [Converges -> Convergence]
                   /\ \A v \in Converges : /\ Marked(converge[v], Tree!Meeting(b)[v])
                                           /\ b \in converge[v].list => Tree!Meeting(b)[v].met
                                           /\ Tree!Meeting(b)[v].late = converge[v].late
         /\ \A bs : /\ Tree!Behind(bs) \in [Converges -> Convergence]
                    /\ \A v \in Converges : /\ Marked(converge[v], Tree!Behind(bs)[v])
                                            /\ converge[v].target \in bs => Tree!Behind(bs)[v].late
                                            /\ Tree!Behind(bs)[v].met = converge[v].met
  <1>1. \A v \in Converges :
          /\ [converge[v] EXCEPT !.met = TRUE] \in Convergence
          /\ Marked(converge[v], converge[v])
          /\ Marked(converge[v], [converge[v] EXCEPT !.met = TRUE])
          /\ [converge[v] EXCEPT !.met = TRUE].met
          /\ [converge[v] EXCEPT !.met = TRUE].late = converge[v].late
    BY BranchFields DEF Convergence, Marked
  <1>2. \A v \in Converges :
          /\ [converge[v] EXCEPT !.late = TRUE] \in Convergence
          /\ Marked(converge[v], [converge[v] EXCEPT !.late = TRUE])
          /\ [converge[v] EXCEPT !.late = TRUE].late
          /\ [converge[v] EXCEPT !.late = TRUE].met = converge[v].met
    BY BranchFields DEF Convergence, Marked
  <1>3. ASSUME NEW b
        PROVE  /\ Tree!Meeting(b) \in [Converges -> Convergence]
               /\ \A v \in Converges : /\ Marked(converge[v], Tree!Meeting(b)[v])
                                       /\ b \in converge[v].list => Tree!Meeting(b)[v].met
                                       /\ Tree!Meeting(b)[v].late = converge[v].late
    BY <1>1, BranchFields DEF Tree!Meeting
  <1>4. ASSUME NEW bs
        PROVE  /\ Tree!Behind(bs) \in [Converges -> Convergence]
               /\ \A v \in Converges : /\ Marked(converge[v], Tree!Behind(bs)[v])
                                       /\ converge[v].target \in bs => Tree!Behind(bs)[v].late
                                       /\ Tree!Behind(bs)[v].met = converge[v].met
    BY <1>1, <1>2, BranchFields DEF Tree!Behind
  <1> QED  BY <1>3, <1>4

\* A session that is there is deleted: a branch of a VB job, or one alone.
LEMMA DeletedStep ==
  ASSUME BranchInv, NEW b \in Branches, session[b] = "there",
         session' = [session EXCEPT ![b] = "deleted"], converge' = Tree!Meeting(b),
         UNCHANGED <<dir, row, tree, checked, ahead, groups, guests, swept, cut>>,
         vb' \in [Branches -> {"no", "working", "deleted"}],
         \A c \in Branches : vb[c] = "deleted" => vb'[c] = "deleted",
         alone \subseteq alone', b \in alone' \/ vb'[b] = "deleted"
  PROVE  BranchInv'
  <1> USE DEF BranchInv
  <1>1. \A c \in Branches : session'[c] = IF c = b THEN "deleted" ELSE session[c]
    BY DEF BranchTypes
  <1>2. /\ converge' \in [Converges -> Convergence]
        /\ \A v \in Converges : /\ Marked(converge[v], converge'[v])
                                /\ b \in converge[v].list => converge'[v].met
    BY Marks
  <1>3. BranchTypes'
    BY <1>2 DEF BranchTypes
  <1>4. Tree!Rows' = Tree!Rows /\ Tree!Rows \subseteq Branches
    BY BranchFields DEF Tree!Rows
  <1>5. ListsInv'
    <2>1. \A v \in Converges : converge[v].list \subseteq Branches
      BY BranchFields DEF Convergence
    <2> QED  BY <1>1, <1>2, <2>1 DEF ListsInv, Marked
  <1>6. DirectoriesInv'
    <2>1. ASSUME NEW c \in Branches \ (guests \cup cut), session'[c] = "there"
          PROVE  /\ dir[c] \in {Root, c}
                 /\ dir[c] = c /\ tree[c] = "none" =>
                      \E v \in Converges : converge'[v].at = "saving" /\ converge'[v].target = c
                 /\ dir[c] = c /\ c \in Tree!Rows => row[c].worktree
      BY <1>1, <1>2, <2>1 DEF DirectoriesInv, Marked
    <2> QED  BY <1>1, <1>4, <2>1 DEF DirectoriesInv
  <1>7. \A v \in Converges : converge[v].target # NoBranch => converge[v].target \in Branches
    BY BranchFields DEF Convergence
  <1>8. MovesInv'
    <2>1. \A v \in Converges : converge[v].target # NoBranch =>
            (session'[converge[v].target] = "there" => session[converge[v].target] = "there")
      BY <1>1, <1>7
    <2> QED  BY <1>2, <2>1 DEF MovesInv, Marked
  <1>9. KeptInv'
    <2>1. ASSUME NEW v \in Converges, converge[v].at \in UnderWay, ~converge'[v].met,
                 converge[v].target # NoBranch
          PROVE  session'[converge[v].target] = "there"
      BY <1>1, <1>2, <1>7, <2>1 DEF KeptInv, ListsInv, Marked
    <2> QED  BY <1>2, <2>1 DEF KeptInv, Marked
  <1>10. RowsInv'
    <2> SUFFICES ASSUME NEW c \in Tree!Rows
        PROVE  \/ session'[c] = "there" \/ c \in alone' \cup swept \/ vb'[c] = "deleted"
               \/ \E v \in Converges : /\ converge'[v].at \in {"removing", "saving"}
                                       /\ c \in converge'[v].list \ {converge'[v].target}
      BY <1>4 DEF RowsInv
    <2> QED  BY <1>1, <1>2, <1>4 DEF RowsInv, Marked
  <1> QED  BY <1>3, <1>5, <1>6, <1>8, <1>9, <1>10

\* The rows of a deleted branch go, or a job ends.
LEMMA CleanupStep ==
  ASSUME BranchInv, NEW b \in Branches, Tree!CleanupVb(b)  PROVE BranchInv'
  <1> USE DEF BranchInv
  <1>0. UNCHANGED <<dir, tree, checked, ahead, groups, guests, alone, swept, cut>>
    BY DEF Tree!CleanupVb
  <1>1. CASE /\ vb[b] = "working" /\ session[b] = "there"
             /\ session' = [session EXCEPT ![b] = "deleted"]
             /\ converge' = Tree!Meeting(b)
             /\ vb' = [vb EXCEPT ![b] = "deleted"]
             /\ UNCHANGED row
    <2>1. /\ vb' \in [Branches -> {"no", "working", "deleted"}] /\ vb'[b] = "deleted"
          /\ \A c \in Branches : vb[c] = "deleted" => vb'[c] = "deleted"
      BY <1>1 DEF BranchTypes
    <2> QED  BY <1>0, <1>1, <2>1, DeletedStep
  <1>2. CASE /\ vb[b] = "working" /\ session[b] = "deleted"
             /\ vb' = [vb EXCEPT ![b] = "no"]
             /\ UNCHANGED <<session, converge, row>>
    <2>1. /\ vb' \in [Branches -> {"no", "working", "deleted"}]
          /\ \A c \in Branches : vb[c] = "deleted" => vb'[c] = "deleted"
      BY <1>2 DEF BranchTypes
    <2>2. Tree!Rows' = Tree!Rows /\ Tree!Rows \subseteq Branches
      BY <1>2, BranchFields DEF Tree!Rows
    <2>3. BranchTypes' /\ ListsInv' /\ DirectoriesInv' /\ MovesInv'
      BY <1>0, <1>2, <2>1, <2>2 DEF BranchTypes, ListsInv, DirectoriesInv, MovesInv
    <2>4. KeptInv' /\ RowsInv'
      BY <1>0, <1>2, <2>1, <2>2 DEF KeptInv, RowsInv
    <2> QED  BY <2>3, <2>4
  <1>3. CASE /\ vb[b] = "deleted"
             /\ row' = [c \in Branches |-> IF b \in row[c].group THEN Tree!NoRow ELSE row[c]]
             /\ vb' = [vb EXCEPT ![b] = "no"]
             /\ UNCHANGED <<session, converge>>
    <2>1. /\ vb' \in [Branches -> {"no", "working", "deleted"}]
          /\ \A c \in Branches : vb[c] = "deleted" => vb'[c] = "deleted" \/ c = b
      BY <1>3 DEF BranchTypes
    <2>2. /\ Tree!NoRow \in BranchRow
          /\ \A c \in Branches : row'[c] = Tree!NoRow \/ row'[c] = row[c]
      BY <1>3 DEF BranchRow, Tree!NoRow, Somewhere
    <2>3. Tree!Rows' \subseteq Tree!Rows /\ \A c \in Tree!Rows' : row'[c] = row[c]
      BY <2>2 DEF Tree!Rows
    <2>4. b \notin Tree!Rows'
      <3>1. b \in Tree!Rows => b \in row[b].group
        BY DEF DirectoriesInv
      <3>2. b \in row[b].group => row'[b] = Tree!NoRow
        BY <1>3
      <3> QED  BY <2>3, <3>1, <3>2 DEF Tree!Rows
    <2>5. BranchTypes'
      BY <1>0, <1>3, <2>1, <2>2 DEF BranchTypes
    <2>6. ListsInv' /\ MovesInv' /\ KeptInv'
      BY <1>0, <1>3 DEF ListsInv, MovesInv, KeptInv
    <2>7. DirectoriesInv'
      BY <1>0, <1>3, <2>2, <2>3 DEF DirectoriesInv
    <2>8. RowsInv'
      BY <1>0, <1>3, <2>1, <2>3, <2>4 DEF RowsInv
    <2> QED  BY <2>5, <2>6, <2>7, <2>8
  <1> QED  BY <1>1, <1>2, <1>3 DEF Tree!CleanupVb

\* A branch deleted alone.
LEMMA DeleteAloneStep ==
  ASSUME BranchInv, NEW b \in Branches, Tree!DeleteAlone(b)  PROVE BranchInv'
  <1>1. /\ session[b] = "there" /\ session' = [session EXCEPT ![b] = "deleted"]
        /\ converge' = Tree!Meeting(b) /\ alone' = alone \cup {b}
        /\ UNCHANGED <<dir, row, tree, checked, ahead, vb, groups, guests, swept, cut>>
    BY DEF Tree!DeleteAlone
  <1>2. vb' \in [Branches -> {"no", "working", "deleted"}]
    BY <1>1 DEF BranchInv, BranchTypes
  <1> QED  BY <1>1, <1>2, DeletedStep

\* Work in a directory: trees get dirty and clean, and branches get commits,
\* which the convergences that keep them are told.
LEMMA WorkStep ==
  ASSUME BranchInv, tree' \in [Tree!Places -> {"none", "clean", "dirty"}],
         \A p \in Tree!Places : tree'[p] = "none" <=> tree[p] = "none",
         converge' \in [Converges -> Convergence],
         \A v \in Converges :
           /\ Marked(converge[v], converge'[v])
           /\ converge[v].target \in ahead' => converge[v].target \in ahead \/ converge'[v].late,
         UNCHANGED <<session, dir, row, checked, vb, groups, guests, alone, swept, cut>>
  PROVE  BranchInv'
  <1> USE DEF BranchInv
  <1>1. BranchTypes'
    BY DEF BranchTypes
  <1>2. Tree!Rows' = Tree!Rows /\ Tree!Rows \subseteq Branches
    BY BranchFields DEF Tree!Rows
  <1>3. ListsInv' /\ RowsInv'
    BY <1>2 DEF ListsInv, RowsInv, Marked
  <1>4. DirectoriesInv'
    <2>1. ASSUME NEW b \in Branches \ (guests \cup cut), session[b] = "there"
          PROVE  /\ dir[b] \in {Root, b}
                 /\ dir[b] = b /\ tree'[b] = "none" =>
                      \E v \in Converges : converge'[v].at = "saving" /\ converge'[v].target = b
                 /\ dir[b] = b /\ b \in Tree!Rows => row[b].worktree
      BY <2>1, BranchFields DEF DirectoriesInv, Marked
    <2>2. tree'[Root] # "none" /\ \A b \in Branches : tree'[b] = "none" <=> tree[b] = "none"
      BY BranchFields DEF DirectoriesInv
    <2> QED  BY <1>2, <2>1, <2>2 DEF DirectoriesInv
  <1>5. MovesInv'
    <2>1. \A v \in Converges : converge[v].target # NoBranch => converge[v].target \in Tree!Places
      BY BranchFields DEF Convergence
    <2> QED  BY <2>1 DEF MovesInv, Marked
  <1>6. KeptInv'
    BY DEF KeptInv, Marked
  <1> QED  BY <1>1, <1>3, <1>4, <1>5, <1>6

\* The agents change files and commit.
LEMMA AgentsStep ==
  ASSUME BranchInv, NEW p \in Tree!Places, Tree!Edit(p) \/ Tree!CommitWork(p)  PROVE BranchInv'
  <1> USE DEF BranchInv
  <1>1. CASE Tree!Edit(p)
    <2>1. /\ tree[p] = "clean" /\ tree' = [tree EXCEPT ![p] = "dirty"]
          /\ UNCHANGED <<session, dir, row, checked, ahead, converge, vb, groups, guests, alone, swept, cut>>
      BY <1>1 DEF Tree!Edit
    <2>2. /\ tree' \in [Tree!Places -> {"none", "clean", "dirty"}]
          /\ \A r \in Tree!Places : tree'[r] = "none" <=> tree[r] = "none"
      BY <2>1 DEF BranchTypes
    <2>3. /\ converge' \in [Converges -> Convergence]
          /\ \A v \in Converges : Marked(converge[v], converge'[v])
      BY <2>1 DEF BranchTypes, Marked
    <2> QED  BY <2>1, <2>2, <2>3, WorkStep
  <1>2. CASE Tree!CommitWork(p)
    <2>1. /\ tree[p] = "dirty" /\ tree' = [tree EXCEPT ![p] = "clean"]
          /\ ahead' = ahead \cup {checked[p]} /\ converge' = Tree!Behind({checked[p]})
          /\ UNCHANGED <<session, dir, row, checked, vb, groups, guests, alone, swept, cut>>
      BY <1>2 DEF Tree!CommitWork
    <2>2. /\ tree' \in [Tree!Places -> {"none", "clean", "dirty"}]
          /\ \A r \in Tree!Places : tree'[r] = "none" <=> tree[r] = "none"
      BY <2>1 DEF BranchTypes
    <2>3. /\ converge' \in [Converges -> Convergence]
          /\ \A v \in Converges : /\ Marked(converge[v], converge'[v])
                                  /\ converge[v].target \in {checked[p]} => converge'[v].late
      BY <2>1, Marks
    <2> QED  BY <2>1, <2>2, <2>3, WorkStep
  <1> QED  BY <1>1, <1>2

\* A convergence begins with a list; others that list one of its branches have met it.
LEMMA StartStep ==
  ASSUME BranchInv, NEW v \in Converges, NEW current \in Tree!Places,
         NEW target \in Branches \cup {NoBranch}, Tree!StartConverge(v, current, target)
  PROVE  BranchInv'
  <1> USE RecordsAssumption DEF BranchInv
  <1> DEFINE list == Tree!ListOf(current)
             kept_row == IF target \in list THEN row[target] ELSE Tree!NoRow
             kept == IF target \in list THEN target ELSE NoBranch
             begun_v == [at |-> IF kept_row.worktree THEN "merging" ELSE "removing",
                         target |-> kept, list |-> list, todo |-> list \ {target},
                         group |-> Tree!Newest(list), root |-> kept_row.root,
                         base |-> kept_row.base, into |-> NoBranch, late |-> FALSE,
                         met |-> Tree!MeetsList(list) # {}
                                   \/ (target \in list /\ session[target] = "deleted")]
  <1>1. /\ converge[v].at = "off"
        /\ converge' = [w \in Converges |->
              IF w # v THEN [converge[w] EXCEPT !.met = @ \/ w \in Tree!MeetsList(list)]
              ELSE begun_v]
        /\ swept' = swept \cup (list \ Tree!Newest(list))
        /\ UNCHANGED <<session, dir, row, tree, checked, ahead, vb, groups, guests, alone, cut>>
    BY DEF Tree!StartConverge
  <1>2. list \subseteq Tree!Rows /\ Tree!Rows \subseteq Branches
    BY BranchFields DEF Tree!ListOf
  <1>3. Tree!Newest(list) \subseteq list
    BY DEF Tree!Newest
  <1>4. \A w \in Converges : w \in Tree!MeetsList(list) <=> converge[w].list \cap list # {}
    BY DEF Tree!MeetsList
  <1> HIDE DEF list
  <1>5. /\ kept_row \in BranchRow /\ list \subseteq Branches /\ NoBranch \notin list
        /\ target \in list => kept_row = row[target] /\ target \in Tree!Rows /\ target \in Branches
        /\ target \notin list => kept_row.worktree = FALSE
    <2>1. Tree!NoRow \in BranchRow /\ Tree!NoRow.worktree = FALSE
      BY DEF Tree!NoRow, BranchRow, Somewhere
    <2> QED  BY <1>2, <2>1, BranchFields
  <1>0. /\ kept \in Branches \cup {NoBranch} /\ list \ {target} = list \ {kept}
        /\ kept \in list \/ kept = NoBranch
        /\ kept # NoBranch => kept = target /\ target \in list
    BY <1>5
  <1> HIDE DEF kept_row, kept
  <1>6. /\ begun_v \in Convergence
        /\ begun_v.at = (IF kept_row.worktree THEN "merging" ELSE "removing")
        /\ begun_v.target = kept /\ begun_v.list = list /\ begun_v.todo = list \ {kept}
        /\ begun_v.group = Tree!Newest(list) /\ begun_v.into = NoBranch
        /\ begun_v.met = (Tree!MeetsList(list) # {}
                            \/ (target \in list /\ session[target] = "deleted"))
    BY <1>0, <1>2, <1>3, <1>5 DEF Convergence, BranchRow, UnderWay, Somewhere
  <1> HIDE DEF begun_v
  <1>7. \A w \in Converges \ {v} :
          /\ converge'[w] \in Convergence /\ Marked(converge[w], converge'[w])
          /\ converge'[w].late = converge[w].late
          /\ w \in Tree!MeetsList(list) => converge'[w].met
    <2> TAKE w \in Converges \ {v}
    <2>1. /\ converge'[w] = [converge[w] EXCEPT !.met = @ \/ w \in Tree!MeetsList(list)]
          /\ converge[w] \in Convergence
      BY <1>1, BranchFields
    <2>2. /\ converge'[w] \in Convergence /\ converge'[w].late = converge[w].late
          /\ converge[w].met \/ w \in Tree!MeetsList(list) => converge'[w].met
      BY <2>1 DEF Convergence
    <2>3. /\ converge'[w].at = converge[w].at /\ converge'[w].target = converge[w].target
          /\ converge'[w].list = converge[w].list /\ converge'[w].todo = converge[w].todo
          /\ converge'[w].group = converge[w].group /\ converge'[w].root = converge[w].root
          /\ converge'[w].base = converge[w].base /\ converge'[w].into = converge[w].into
      BY <2>1 DEF Convergence
    <2> QED  BY <2>2, <2>3 DEF Marked
  <1>8. converge'[v] = begun_v
    BY <1>1
  <1>9. converge' \in [Converges -> Convergence]
    BY <1>1, <1>6, <1>7, <1>8
  <1>10. BranchTypes'
    BY <1>1, <1>9 DEF BranchTypes
  <1>11. Tree!Rows' = Tree!Rows
    BY <1>1 DEF Tree!Rows
  <1>12. \A b \in Tree!Rows : b \in Branches /\ session[b] # "none"
    BY <1>2, BranchFields DEF DirectoriesInv
  <1>13. converge[v].list = {} /\ converge[v].target = NoBranch /\ converge[v].at \notin UnderWay
    BY <1>1 DEF ListsInv, UnderWay
  <1>14. begun_v.at \in UnderWay /\ begun_v.at \in {"merging", "removing"}
    BY <1>6 DEF UnderWay
  <1>15. ListsInv'
    <2> SUFFICES ASSUME NEW w \in Converges
        PROVE  IF converge'[w].at \in UnderWay
               THEN /\ \/ converge'[w].target \in converge'[w].list \ converge'[w].todo
                       \/ /\ converge'[w].target = NoBranch
                          /\ converge'[w].at \in {"removing", "saving"}
                    /\ converge'[w].target = NoBranch => converge'[w].into = NoBranch
                    /\ converge'[w].todo \subseteq converge'[w].list
                    /\ converge'[w].at \in {"merging", "checked"} =>
                         converge'[w].todo = converge'[w].list \ {converge'[w].target}
                    /\ \A b \in converge'[w].list : session[b] # "none"
                    /\ converge'[w].list \ converge'[w].group \subseteq swept'
                    /\ converge'[w].at = "checked" => converge'[w].into # NoBranch
               ELSE converge'[w].list = {} /\ converge'[w].target = NoBranch
      BY <1>1 DEF ListsInv
    <2>1. CASE w = v
      <3>1. kept = NoBranch => begun_v.at = "removing"
        BY <1>0, <1>5, <1>6
      <3> QED  BY <1>0, <1>1, <1>2, <1>6, <1>8, <1>12, <1>14, <2>1, <3>1
    <2>2. CASE w # v
      BY <1>1, <1>7, <2>2 DEF ListsInv, Marked
    <2> QED  BY <2>1, <2>2
  <1>16. DirectoriesInv'
    <2>1. ASSUME NEW b \in Branches \ (guests \cup cut), session[b] = "there", dir[b] = b, tree[b] = "none"
          PROVE  \E w \in Converges : converge'[w].at = "saving" /\ converge'[w].target = b
      <3>1. PICK w \in Converges : converge[w].at = "saving" /\ converge[w].target = b
        BY <2>1 DEF DirectoriesInv
      <3>2. w # v
        BY <1>13, <3>1 DEF UnderWay
      <3> QED  BY <1>7, <3>1, <3>2 DEF Marked
    <2>2. ASSUME NEW b \in Branches \ (guests \cup cut), session[b] = "there"
          PROVE  /\ dir[b] \in {Root, b}
                 /\ dir[b] = b /\ tree[b] = "none" =>
                      \E w \in Converges : converge'[w].at = "saving" /\ converge'[w].target = b
                 /\ dir[b] = b /\ b \in Tree!Rows => row[b].worktree
      <3>1. dir[b] \in {Root, b} /\ (dir[b] = b /\ b \in Tree!Rows => row[b].worktree)
        BY <2>2 DEF DirectoriesInv
      <3> QED  BY <2>1, <2>2, <3>1
    <2>3. /\ tree[Root] # "none"
          /\ \A b \in Branches : session[b] = "none" => tree[b] = "none" /\ row[b] = Tree!NoRow
          /\ \A b \in Tree!Rows : b \in row[b].group /\ (~row[b].worktree => tree[b] = "none")
      BY DEF DirectoriesInv
    <2> QED  BY <1>1, <1>11, <2>2, <2>3 DEF DirectoriesInv
  <1>17. MovesInv'
    <2> SUFFICES ASSUME NEW w \in Converges, converge'[w].at \in {"removing", "saving"},
                        converge'[w].into = NoBranch, converge'[w].target # NoBranch
        PROVE  /\ tree[converge'[w].target] = "none"
               /\ converge'[w].target \notin guests \cup cut /\ session[converge'[w].target] = "there" =>
                    dir[converge'[w].target] # converge'[w].target
      BY <1>1 DEF MovesInv
    <2>1. CASE w = v
      <3>1. kept = target /\ target \in Tree!Rows /\ target \in Branches /\ kept_row = row[target]
        BY <1>0, <1>5, <1>6, <1>8, <2>1
      <3>2. ~row[target].worktree
        BY <1>6, <1>8, <2>1, <3>1
      <3>3. converge'[w].target = target
        BY <1>6, <1>8, <2>1, <3>1
      <3> QED  BY <3>1, <3>2, <3>3 DEF DirectoriesInv
    <2>2. CASE w # v
      BY <1>7, <2>2 DEF MovesInv, Marked
    <2> QED  BY <2>1, <2>2
  <1>18. KeptInv'
    <2>1. ASSUME NEW w \in Converges, NEW x \in Converges, w # x,
                 converge'[w].list \cap converge'[x].list # {}
          PROVE  converge'[w].met
      <3>1. CASE w = v
        <4>1. converge[x].list \cap list # {}
          BY <1>6, <1>7, <1>8, <2>1, <3>1 DEF Marked
        <4>2. Tree!MeetsList(list) # {}
          BY <1>4, <4>1
        <4> QED  BY <1>6, <1>8, <3>1, <4>2
      <3>2. CASE x = v
        <4>1. converge[w].list \cap list # {}
          BY <1>6, <1>7, <1>8, <2>1, <3>2 DEF Marked
        <4> QED  BY <1>4, <1>7, <2>1, <3>2, <4>1
      <3>3. CASE w # v /\ x # v
        BY <1>7, <2>1, <3>3 DEF KeptInv, Marked
      <3> QED  BY <3>1, <3>2, <3>3
    <2>2. ASSUME NEW w \in Converges, converge'[w].at \in UnderWay, ~converge'[w].met,
                 converge'[w].target # NoBranch
          PROVE  session[converge'[w].target] = "there"
      <3>1. CASE w = v
        <4>1. kept = target /\ target \in list /\ target \in Tree!Rows
          BY <1>0, <1>5, <1>6, <1>8, <2>2, <3>1
        <4>2. session[target] \in {"none", "there", "deleted"} /\ session[target] # "none"
          BY <1>12, <4>1 DEF BranchTypes
        <4> QED  BY <1>6, <1>8, <2>2, <3>1, <4>1, <4>2
      <3>2. CASE w # v
        BY <1>7, <2>2, <3>2 DEF KeptInv, Marked
      <3> QED  BY <3>1, <3>2
    <2>3. ASSUME NEW w \in Converges, converge'[w].at \in {"removing", "saving"},
                 converge'[w].into # NoBranch, ~converge'[w].late
          PROVE  converge'[w].target \notin ahead
      <3>1. w # v
        BY <1>6, <1>8, <2>3
      <3> QED  BY <1>7, <2>3, <3>1 DEF KeptInv, Marked
    <2> QED  BY <1>1, <2>1, <2>2, <2>3 DEF KeptInv
  <1>19. RowsInv'
    <2> SUFFICES ASSUME NEW b \in Tree!Rows
        PROVE  \/ session[b] = "there" \/ b \in alone \cup swept' \/ vb[b] = "deleted"
               \/ \E w \in Converges : /\ converge'[w].at \in {"removing", "saving"}
                                       /\ b \in converge'[w].list \ {converge'[w].target}
      BY <1>1, <1>11 DEF RowsInv
    <2>1. ASSUME NEW w \in Converges, converge[w].at \in {"removing", "saving"},
                 b \in converge[w].list \ {converge[w].target}
          PROVE  \E x \in Converges : /\ converge'[x].at \in {"removing", "saving"}
                                      /\ b \in converge'[x].list \ {converge'[x].target}
      <3>1. w # v
        BY <1>13, <2>1 DEF UnderWay
      <3> QED  BY <1>7, <2>1, <3>1 DEF Marked
    <2> QED  BY <1>1, <2>1 DEF RowsInv
  <1> QED  BY <1>10, <1>15, <1>16, <1>17, <1>18, <1>19

\* A convergence that fails: what it was to delete is given up. A worktree that
\* went with it was of a session that is not there, or is remembered.
LEMMA FailureStep ==
  ASSUME BranchInv, NEW v \in Converges, converge[v].at \in UnderWay, Tree!Fails(v),
         tree' \in [Tree!Places -> {"none", "clean", "dirty"}],
         tree'[Root] # "none",
         \A b \in Branches : /\ tree[b] = "none" => tree'[b] = "none"
                             /\ tree'[b] = "none" =>
                                  tree[b] = "none" \/ session[b] # "there" \/ b \in cut',
         cut \subseteq cut',
         converge[v].at = "saving" /\ converge[v].into # NoBranch
           /\ tree[converge[v].target] = "none" => converge[v].target \in cut',
         UNCHANGED <<session, dir, row, checked, ahead, vb, groups, guests, alone>>
  PROVE  BranchInv'
  <1> USE RecordsAssumption DEF BranchInv
  <1>1. /\ converge' = [converge EXCEPT ![v] = [Tree!Off EXCEPT !.at = "over"]]
        /\ swept \subseteq swept'
        /\ converge[v].at \in {"removing", "saving"} =>
             converge[v].list \ {converge[v].target} \subseteq swept'
    BY DEF Tree!Fails, UnderWay
  <1>2. /\ [Tree!Off EXCEPT !.at = "over"] \in Convergence
        /\ [Tree!Off EXCEPT !.at = "over"].at = "over"
        /\ [Tree!Off EXCEPT !.at = "over"].list = {}
        /\ [Tree!Off EXCEPT !.at = "over"].target = NoBranch
    BY DEF Tree!Off, Convergence, Somewhere
  <1>3. /\ converge' \in [Converges -> Convergence]
        /\ converge'[v].at = "over" /\ converge'[v].list = {} /\ converge'[v].target = NoBranch
        /\ \A w \in Converges \ {v} : converge'[w] = converge[w]
    BY <1>1, <1>2 DEF BranchTypes
  <1>4. Tree!Rows' = Tree!Rows /\ Tree!Rows \subseteq Branches
    BY BranchFields DEF Tree!Rows
  <1>5. BranchTypes'
    BY <1>3 DEF BranchTypes
  <1>6. ListsInv'
    BY <1>1, <1>3 DEF ListsInv, UnderWay
  <1>7. DirectoriesInv'
    <2>1. ASSUME NEW b \in Branches \ (guests \cup cut'), session[b] = "there", dir[b] = b,
                 tree'[b] = "none"
          PROVE  \E w \in Converges : converge'[w].at = "saving" /\ converge'[w].target = b
      <3>1. b \in Branches \ (guests \cup cut) /\ tree[b] = "none" /\ b # NoBranch
        BY <2>1
      <3>2. PICK w \in Converges : converge[w].at = "saving" /\ converge[w].target = b
        BY <2>1, <3>1 DEF DirectoriesInv
      <3>3. w # v
        BY <2>1, <3>1, <3>2 DEF MovesInv
      <3> QED  BY <1>3, <3>2, <3>3
    <2>2. Branches \ (guests \cup cut') \subseteq Branches \ (guests \cup cut)
      OBVIOUS
    <2> QED  BY <1>4, <2>1, <2>2 DEF DirectoriesInv
  <1>8. MovesInv'
    <2>1. \A w \in Converges : converge[w].target # NoBranch => converge[w].target \in Branches
      BY BranchFields DEF Convergence
    <2> QED  BY <1>3, <2>1 DEF MovesInv
  <1>9. KeptInv'
    BY <1>3 DEF KeptInv, UnderWay
  <1>10. RowsInv'
    <2> SUFFICES ASSUME NEW b \in Tree!Rows
        PROVE  \/ session[b] = "there" \/ b \in alone \cup swept' \/ vb[b] = "deleted"
               \/ \E w \in Converges : /\ converge'[w].at \in {"removing", "saving"}
                                       /\ b \in converge'[w].list \ {converge'[w].target}
      BY <1>4 DEF RowsInv
    <2>1. ASSUME NEW w \in Converges, converge[w].at \in {"removing", "saving"},
                 b \in converge[w].list \ {converge[w].target}
          PROVE  \/ b \in swept'
                 \/ \E x \in Converges : /\ converge'[x].at \in {"removing", "saving"}
                                         /\ b \in converge'[x].list \ {converge'[x].target}
      BY <1>1, <1>3, <2>1
    <2> QED  BY <1>1, <2>1 DEF RowsInv
  <1> QED  BY <1>5, <1>6, <1>7, <1>8, <1>9, <1>10

\* A convergence that is cut off: the branch it was about to move is remembered
\* if its worktree is gone.
LEMMA CutOffStep ==
  ASSUME BranchInv, NEW v \in Converges, Tree!CutOff(v)  PROVE BranchInv'
  <1>1. /\ converge[v].at \in UnderWay /\ Tree!Fails(v)
        /\ UNCHANGED <<session, dir, row, tree, checked, ahead, vb, groups, guests, alone>>
        /\ cut \subseteq cut'
        /\ converge[v].at = "saving" /\ converge[v].into # NoBranch
             /\ tree[converge[v].target] = "none" => converge[v].target \in cut'
    BY DEF Tree!CutOff, UnderWay
  <1>2. tree \in [Tree!Places -> {"none", "clean", "dirty"}] /\ tree[Root] # "none"
    BY DEF BranchInv, BranchTypes, DirectoriesInv
  <1> QED  BY <1>1, <1>2, FailureStep

\* The base branch is checked out where its group was made from.
LEMMA CheckOutStep ==
  ASSUME BranchInv, NEW v \in Converges, Tree!CheckOut(v)  PROVE BranchInv'
  <1> USE RecordsAssumption DEF BranchInv
  <1>1. /\ converge[v].at = "merging"
        /\ UNCHANGED <<session, dir, row, tree, ahead, vb, groups, guests, alone, cut>>
    BY DEF Tree!CheckOut
  <1>2. CASE Tree!CanCheckOut(v)
    <2>1. /\ checked' = [checked EXCEPT ![Tree!BaseDir(v)] = converge[v].base]
          /\ converge' = [converge EXCEPT ![v].at = "checked", ![v].into = Tree!BaseDir(v)]
          /\ UNCHANGED swept
      BY <1>2 DEF Tree!CheckOut
    <2>2. Tree!BaseDir(v) \in Tree!Places
      <3>1. converge[v].root \in Tree!Places
        BY <1>2 DEF Tree!CanCheckOut, Tree!Exists, Tree!Places
      <3> QED  BY <3>1, BranchFields DEF Tree!BaseDir
    <2>3. Tree!BaseDir(v) # NoBranch
      BY <2>2 DEF Tree!Places
    <2>4. /\ converge' \in [Converges -> Convergence]
          /\ converge'[v].at = "checked" /\ converge'[v].into = Tree!BaseDir(v)
          /\ converge'[v].target = converge[v].target /\ converge'[v].list = converge[v].list
          /\ converge'[v].todo = converge[v].todo /\ converge'[v].group = converge[v].group
          /\ converge'[v].met = converge[v].met
          /\ \A w \in Converges \ {v} : converge'[w] = converge[w]
      <3>1. Tree!BaseDir(v) \in Somewhere /\ converge[v] \in Convergence
        BY <2>2, BranchFields DEF Somewhere
      <3>2. converge' = [converge EXCEPT ![v] = [converge[v] EXCEPT !.at = "checked",
                                                                    !.into = Tree!BaseDir(v)]]
        BY <2>1, <3>1 DEF BranchTypes, Convergence
      <3>3. [converge[v] EXCEPT !.at = "checked", !.into = Tree!BaseDir(v)] \in Convergence
        BY <3>1 DEF Convergence, UnderWay
      <3>4. /\ converge' \in [Converges -> Convergence]
            /\ converge'[v] = [converge[v] EXCEPT !.at = "checked", !.into = Tree!BaseDir(v)]
            /\ \A w \in Converges \ {v} : converge'[w] = converge[w]
        BY <3>2, <3>3 DEF BranchTypes
      <3> QED  BY <3>1, <3>4 DEF Convergence
    <2>5. checked' \in [Tree!Places -> Somewhere]
      BY <2>1, BranchFields DEF BranchTypes, Convergence
    <2>6. BranchTypes'
      BY <1>1, <2>4, <2>5 DEF BranchTypes
    <2>7. Tree!Rows' = Tree!Rows
      BY <1>1 DEF Tree!Rows
    <2>8. ListsInv'
      <3>1. converge[v].target # NoBranch /\ converge[v].target \in converge[v].list \ converge[v].todo
        BY <1>1, BranchFields DEF ListsInv, UnderWay, Convergence
      <3> QED  BY <1>1, <2>1, <2>3, <2>4, <3>1 DEF ListsInv, UnderWay
    <2>9. \A w \in Converges : converge[w].at \in {"removing", "saving"} =>
            w # v /\ converge'[w] = converge[w]
      BY <1>1, <2>4
    <2>10. DirectoriesInv'
      BY <1>1, <2>7, <2>9 DEF DirectoriesInv
    <2>11. MovesInv'
      BY <1>1, <2>4 DEF MovesInv
    <2>12. KeptInv'
      BY <1>1, <2>4 DEF KeptInv, UnderWay
    <2>13. RowsInv'
      BY <1>1, <2>1, <2>7, <2>9 DEF RowsInv
    <2> QED  BY <2>6, <2>8, <2>10, <2>11, <2>12, <2>13
  <1>3. CASE ~Tree!CanCheckOut(v)
    <2>1. Tree!Fails(v) /\ UNCHANGED checked
      BY <1>3 DEF Tree!CheckOut
    <2>2. tree \in [Tree!Places -> {"none", "clean", "dirty"}] /\ tree[Root] # "none"
      BY DEF BranchTypes, DirectoriesInv
    <2>3. converge[v].at \in UnderWay /\ converge[v].at # "saving"
      BY <1>1 DEF UnderWay
    <2> QED  BY <1>1, <2>1, <2>2, <2>3, FailureStep
  <1> QED  BY <1>2, <1>3

\* The merge: what the kept branch had committed is now in its base.
LEMMA MergeStep ==
  ASSUME BranchInv, NEW v \in Converges, Tree!Merge(v)  PROVE BranchInv'
  <1> USE RecordsAssumption DEF BranchInv
  <1> DEFINE kept == converge[v].target
             place == converge[v].into
  <1>1. /\ converge[v].at = "checked"
        /\ UNCHANGED <<session, dir, row, checked, vb, groups, guests, alone, cut>>
    BY DEF Tree!Merge
  <1>2. place \in Tree!Places /\ kept \in Branches /\ place # NoBranch
    <2>1. place # NoBranch /\ converge[v].target \in converge[v].list
      BY <1>1 DEF ListsInv, UnderWay
    <2>2. converge[v] \in Convergence
      BY BranchFields
    <2> QED  BY <2>1, <2>2 DEF Convergence, Somewhere
  <1>3. CASE /\ tree[place] = "clean"
             /\ ahead' = (ahead \ {kept}) \cup (IF kept \in ahead THEN {checked[place]} ELSE {})
             /\ converge' = [IF kept \in ahead THEN Tree!Behind({checked[place]}) ELSE converge
                                EXCEPT ![v].at = "removing"]
             /\ UNCHANGED <<tree, swept>>
    <2> DEFINE marked == IF kept \in ahead THEN Tree!Behind({checked[place]}) ELSE converge
    <2>1. /\ marked \in [Converges -> Convergence]
          /\ \A w \in Converges :
               /\ Marked(converge[w], marked[w]) /\ marked[w].met = converge[w].met
               /\ kept \in ahead /\ converge[w].target = checked[place] => marked[w].late
      <3>1. CASE kept \in ahead
        BY <3>1, Marks
      <3>2. CASE kept \notin ahead
        BY <3>2 DEF BranchTypes, Marked
      <3> QED  BY <3>1, <3>2
    <2>2. converge' = [marked EXCEPT ![v].at = "removing"]
      BY <1>3
    <2>0. /\ ahead' = (ahead \ {kept}) \cup (IF kept \in ahead THEN {checked[place]} ELSE {})
          /\ UNCHANGED <<tree, swept>>
      BY <1>3
    <2> HIDE DEF marked
    <2>3. /\ converge' \in [Converges -> Convergence]
          /\ converge'[v].at = "removing" /\ converge'[v].target = marked[v].target
          /\ converge'[v].list = marked[v].list /\ converge'[v].todo = marked[v].todo
          /\ converge'[v].group = marked[v].group /\ converge'[v].into = marked[v].into
          /\ converge'[v].met = marked[v].met /\ converge'[v].late = marked[v].late
          /\ \A w \in Converges \ {v} : converge'[w] = marked[w]
      BY <2>1, <2>2 DEF Convergence, UnderWay
    <2>4. /\ converge'[v].target = kept /\ converge'[v].list = converge[v].list
          /\ converge'[v].todo = converge[v].todo /\ converge'[v].group = converge[v].group
          /\ converge'[v].into = place /\ converge'[v].met = converge[v].met
          /\ kept \in ahead /\ kept = checked[place] => converge'[v].late
      BY <2>1, <2>3 DEF Marked
    <2>5. \A w \in Converges \ {v} :
            /\ Marked(converge[w], converge'[w]) /\ converge'[w].met = converge[w].met
            /\ kept \in ahead /\ converge[w].target = checked[place] => converge'[w].late
      BY <2>1, <2>3
    <2>6. BranchTypes'
      BY <1>1, <2>0, <2>3 DEF BranchTypes
    <2>7. Tree!Rows' = Tree!Rows
      BY <1>1 DEF Tree!Rows
    <2>8. ListsInv'
      BY <1>1, <2>0, <2>3, <2>4, <2>5 DEF ListsInv, UnderWay, Marked
    <2>9. \A w \in Converges : converge[w].at \in {"removing", "saving"} =>
            /\ w # v /\ converge'[w].at = converge[w].at /\ converge'[w].list = converge[w].list
            /\ converge'[w].target = converge[w].target
      BY <1>1, <2>5 DEF Marked
    <2>10. DirectoriesInv'
      BY <1>1, <2>0, <2>7, <2>9 DEF DirectoriesInv
    <2>11. MovesInv'
      BY <1>1, <1>2, <2>0, <2>4, <2>5 DEF MovesInv, Marked
    <2>12. KeptInv'
      <3>1. \A w \in Converges : /\ converge'[w].list = converge[w].list
                                 /\ converge'[w].target = converge[w].target
                                 /\ converge'[w].met = converge[w].met
                                 /\ converge'[w].at \in UnderWay => converge[w].at \in UnderWay
        BY <1>1, <2>4, <2>5 DEF Marked, UnderWay
      <3>2. ASSUME NEW w \in Converges, converge'[w].at \in {"removing", "saving"},
                   converge'[w].into # NoBranch, ~converge'[w].late
            PROVE  converge'[w].target \notin ahead'
        <4>1. CASE w = v
          BY <2>0, <2>4, <3>2, <4>1
        <4>2. CASE w # v
          <5>1. converge[w].target \notin ahead
            BY <2>5, <3>2, <4>2 DEF KeptInv, Marked
          <5> QED  BY <2>0, <2>5, <3>1, <3>2, <4>2, <5>1
        <4> QED  BY <4>1, <4>2
      <3> QED  BY <1>1, <3>1, <3>2 DEF KeptInv
    <2>13. RowsInv'
      BY <1>1, <2>0, <2>7, <2>9 DEF RowsInv
    <2> QED  BY <2>6, <2>8, <2>10, <2>11, <2>12, <2>13
  <1>4. CASE /\ tree[place] = "clean" /\ kept \in ahead
             /\ tree' = [tree EXCEPT ![place] = "dirty"]
             /\ Tree!Fails(v) /\ UNCHANGED ahead
    <2>1. /\ tree' \in [Tree!Places -> {"none", "clean", "dirty"}]
          /\ \A p \in Tree!Places : tree'[p] = "none" <=> tree[p] = "none"
      BY <1>4 DEF BranchTypes
    <2>2. tree'[Root] # "none" /\ \A b \in Branches : tree'[b] = "none" <=> tree[b] = "none"
      BY <2>1, BranchFields DEF DirectoriesInv
    <2>3. converge[v].at \in UnderWay /\ converge[v].at # "saving"
      BY <1>1 DEF UnderWay
    <2> QED  BY <1>1, <1>4, <2>1, <2>2, <2>3, FailureStep
  <1>5. CASE tree[place] # "clean" /\ Tree!Fails(v) /\ UNCHANGED <<tree, ahead>>
    <2>1. tree \in [Tree!Places -> {"none", "clean", "dirty"}] /\ tree[Root] # "none"
      BY DEF BranchTypes, DirectoriesInv
    <2>2. converge[v].at \in UnderWay /\ converge[v].at # "saving"
      BY <1>1 DEF UnderWay
    <2> QED  BY <1>1, <1>5, <2>1, <2>2, FailureStep
  <1> QED  BY <1>3, <1>4, <1>5 DEF Tree!Merge

\* A clean worktree goes, one with changes stays, and all the others stay.
LEMMA TreeGoes ==
  ASSUME BranchInv, NEW b \in Branches, tree' = Tree!WithoutTree(b)
  PROVE  /\ tree' \in [Tree!Places -> {"none", "clean", "dirty"}]
         /\ tree'[Root] # "none"
         /\ \A c \in Branches : /\ tree[c] = "none" => tree'[c] = "none"
                                /\ c # b => tree'[c] = tree[c]
  <1>1. b \in Tree!Places /\ b # Root /\ Root \in Tree!Places
    BY RecordsAssumption DEF Tree!Places
  <1> QED  BY <1>1, BranchFields DEF BranchInv, BranchTypes, DirectoriesInv, Tree!WithoutTree

\* One of the others goes, with its worktree.
LEMMA RemoveOtherStep ==
  ASSUME BranchInv, NEW v \in Converges, NEW b \in Branches, Tree!RemoveOther(v, b)
  PROVE  BranchInv'
  <1> USE RecordsAssumption DEF BranchInv
  <1>1. /\ converge[v].at = "removing" /\ b \in converge[v].todo /\ tree' = Tree!WithoutTree(b)
        /\ UNCHANGED <<dir, row, checked, ahead, vb, groups, guests, alone>>
    BY DEF Tree!RemoveOther
  <1>2. b \in converge[v].list \ {converge[v].target}
    BY <1>1 DEF ListsInv, UnderWay
  <1>3. CASE /\ session[b] = "there"
             /\ session' = [session EXCEPT ![b] = "deleted"]
             /\ converge' = [converge EXCEPT ![v].todo = @ \ {b}]
             /\ UNCHANGED <<swept, cut>>
    <2>1. /\ session' \in [Branches -> {"none", "there", "deleted"}]
          /\ \A c \in Branches : session'[c] = IF c = b THEN "deleted" ELSE session[c]
      BY <1>3 DEF BranchTypes
    <2>2. /\ converge' \in [Converges -> Convergence]
          /\ converge'[v].todo = converge[v].todo \ {b}
          /\ \A w \in Converges : /\ w # v => converge'[w].todo = converge[w].todo
                                  /\ converge'[w].at = converge[w].at
                                  /\ converge'[w].target = converge[w].target
                                  /\ converge'[w].list = converge[w].list
                                  /\ converge'[w].group = converge[w].group
                                  /\ converge'[w].into = converge[w].into
                                  /\ converge'[w].met = converge[w].met
                                  /\ converge'[w].late = converge[w].late
      <3>1. converge[v] \in Convergence
        BY BranchFields
      <3>2. [converge[v] EXCEPT !.todo = converge[v].todo \ {b}] \in Convergence
        BY <3>1 DEF Convergence
      <3>3. converge' = [converge EXCEPT ![v] = [converge[v] EXCEPT !.todo = converge[v].todo \ {b}]]
        BY <1>3 DEF BranchTypes
      <3>4. /\ converge' \in [Converges -> Convergence]
            /\ converge'[v] = [converge[v] EXCEPT !.todo = converge[v].todo \ {b}]
            /\ \A w \in Converges \ {v} : converge'[w] = converge[w]
        BY <3>2, <3>3 DEF BranchTypes
      <3> QED  BY <3>1, <3>4 DEF Convergence
    <2>3. /\ tree' \in [Tree!Places -> {"none", "clean", "dirty"}]
          /\ tree'[Root] # "none"
          /\ \A c \in Branches : /\ tree[c] = "none" => tree'[c] = "none"
                                 /\ c # b => tree'[c] = tree[c]
      BY <1>1, TreeGoes
    <2>4. Tree!Rows' = Tree!Rows /\ Tree!Rows \subseteq Branches
      BY <1>1, BranchFields DEF Tree!Rows
    <2>5. \A w \in Converges : /\ converge[w].list \subseteq Branches
                               /\ converge[w].target # NoBranch => converge[w].target \in Branches
      BY BranchFields DEF Convergence
    <2>6. BranchTypes'
      BY <1>1, <2>1, <2>2, <2>3 DEF BranchTypes
    <2>7. ListsInv'
      <3>1. \A c \in Branches : session[c] # "none" => session'[c] # "none"
        BY <2>1
      <3>2. \A w \in Converges : converge'[w].todo \subseteq converge[w].todo
        BY <2>2
      <3>3. converge[v].at \notin {"merging", "checked"}
        BY <1>1
      <3> QED  BY <1>3, <2>2, <2>5, <3>1, <3>2, <3>3 DEF ListsInv
    <2>8. DirectoriesInv'
      <3>1. ASSUME NEW c \in Branches \ (guests \cup cut), session'[c] = "there"
            PROVE  /\ dir[c] \in {Root, c}
                   /\ dir[c] = c /\ tree'[c] = "none" =>
                        \E w \in Converges : converge'[w].at = "saving" /\ converge'[w].target = c
                   /\ dir[c] = c /\ c \in Tree!Rows => row[c].worktree
        <4>1. c # b /\ session[c] = "there"
          BY <2>1, <3>1
        <4>2. tree'[c] = tree[c]
          BY <2>3, <4>1
        <4> QED  BY <2>2, <3>1, <4>1, <4>2 DEF DirectoriesInv
      <3>2. ASSUME NEW c \in Branches, session'[c] = "none"
            PROVE  tree'[c] = "none" /\ row[c] = Tree!NoRow
        BY <2>1, <2>3, <3>2 DEF DirectoriesInv
      <3>3. \A c \in Tree!Rows : c \in row[c].group /\ (~row[c].worktree => tree'[c] = "none")
        BY <2>3, <2>4 DEF DirectoriesInv
      <3> QED  BY <1>1, <1>3, <2>3, <2>4, <3>1, <3>2, <3>3 DEF DirectoriesInv
    <2>9. MovesInv'
      <3>1. \A w \in Converges : converge[w].target # NoBranch => converge[w].target \in Branches
        BY <2>5
      <3>2. \A c \in Branches : session'[c] = "there" => session[c] = "there"
        BY <2>1
      <3> QED  BY <1>1, <1>3, <2>2, <2>3, <3>1, <3>2 DEF MovesInv
    <2>10. KeptInv'
      <3>1. ASSUME NEW w \in Converges, converge[w].at \in UnderWay, ~converge[w].met,
                   converge[w].target # NoBranch
            PROVE  session'[converge[w].target] = "there"
        <4>1. converge[w].target # b
          <5>1. w # v => converge[w].list \cap converge[v].list = {}
            BY <3>1 DEF KeptInv
          <5>2. converge[w].target \in converge[w].list
            BY <3>1 DEF ListsInv
          <5> QED  BY <1>2, <5>1, <5>2
        <4> QED  BY <2>1, <2>5, <3>1, <4>1 DEF KeptInv
      <3> QED  BY <1>1, <2>2, <3>1 DEF KeptInv
    <2>11. RowsInv'
      <3> SUFFICES ASSUME NEW c \in Tree!Rows
          PROVE  \/ session'[c] = "there" \/ c \in alone \cup swept \/ vb[c] = "deleted"
                 \/ \E w \in Converges : /\ converge'[w].at \in {"removing", "saving"}
                                         /\ c \in converge'[w].list \ {converge'[w].target}
        BY <1>1, <1>3, <2>4 DEF RowsInv
      <3>1. CASE c = b
        BY <1>1, <1>2, <2>2, <3>1
      <3>2. CASE c # b
        BY <2>1, <2>2, <2>4, <3>2 DEF RowsInv
      <3> QED  BY <3>1, <3>2
    <2> QED  BY <2>6, <2>7, <2>8, <2>9, <2>10, <2>11
  <1>4. CASE \/ session[b] = "deleted" /\ Tree!Fails(v) /\ UNCHANGED <<session, cut>>
             \/ /\ Tree!Fails(v) /\ UNCHANGED session
                /\ cut' = IF tree[b] = "clean" THEN cut \cup {b} ELSE cut
    <2>1. /\ tree' \in [Tree!Places -> {"none", "clean", "dirty"}]
          /\ tree'[Root] # "none"
          /\ \A c \in Branches : /\ tree[c] = "none" => tree'[c] = "none"
                                 /\ c # b => tree'[c] = tree[c]
      BY <1>1, TreeGoes
    <2>2. UNCHANGED <<session, dir, row, checked, ahead, vb, groups, guests, alone>>
      BY <1>1, <1>4
    <2>3. Tree!Fails(v) /\ cut \subseteq cut'
      BY <1>4
    <2>4. tree'[b] = "none" => tree[b] = "none" \/ session[b] # "there" \/ b \in cut'
      <3>1. tree[b] # "clean" => tree'[b] = tree[b]
        BY <1>1 DEF Tree!WithoutTree
      <3> QED  BY <1>4, <3>1
    <2>5. \A c \in Branches : /\ tree[c] = "none" => tree'[c] = "none"
                              /\ tree'[c] = "none" =>
                                   tree[c] = "none" \/ session[c] # "there" \/ c \in cut'
      BY <2>1, <2>4
    <2>6. converge[v].at \in UnderWay /\ converge[v].at # "saving"
      BY <1>1 DEF UnderWay
    <2> QED  BY <2>1, <2>2, <2>3, <2>5, <2>6, FailureStep
  <1> QED  BY <1>3, <1>4 DEF Tree!RemoveOther

\* The kept worktree goes last, when its session is about to be moved.
LEMMA RemoveKeptTreeStep ==
  ASSUME BranchInv, NEW v \in Converges, Tree!RemoveKeptTree(v)  PROVE BranchInv'
  <1> USE RecordsAssumption DEF BranchInv
  <1> DEFINE kept == converge[v].target
  <1>1. /\ converge[v].at = "removing" /\ converge[v].todo = {}
        /\ tree' = IF kept = NoBranch THEN tree ELSE Tree!WithoutTree(kept)
        /\ converge' = [converge EXCEPT ![v].at = "saving"]
        /\ UNCHANGED <<session, dir, row, checked, ahead, vb, groups, guests, alone, swept, cut>>
    BY DEF Tree!RemoveKeptTree
  <1>2. kept \in Branches \cup {NoBranch} /\ converge[v].at \in UnderWay
    BY <1>1, BranchFields DEF Convergence, UnderWay
  <1>3. /\ tree' \in [Tree!Places -> {"none", "clean", "dirty"}]
        /\ tree'[Root] # "none"
        /\ \A c \in Branches : /\ tree[c] = "none" => tree'[c] = "none"
                               /\ c # kept => tree'[c] = tree[c]
    <2>1. CASE kept = NoBranch
      BY <1>1, <2>1 DEF BranchTypes, DirectoriesInv
    <2>2. CASE kept # NoBranch
      BY <1>1, <1>2, <2>2, TreeGoes
    <2> QED  BY <2>1, <2>2
  <1>4. /\ converge' \in [Converges -> Convergence]
        /\ converge'[v].at = "saving"
        /\ \A w \in Converges : /\ w # v => converge'[w].at = converge[w].at
                                /\ converge'[w].target = converge[w].target
                                /\ converge'[w].list = converge[w].list
                                /\ converge'[w].todo = converge[w].todo
                                /\ converge'[w].group = converge[w].group
                                /\ converge'[w].into = converge[w].into
                                /\ converge'[w].met = converge[w].met
                                /\ converge'[w].late = converge[w].late
    <2>1. converge[v] \in Convergence
      BY BranchFields
    <2>2. [converge[v] EXCEPT !.at = "saving"] \in Convergence
      BY <2>1 DEF Convergence, UnderWay
    <2>3. converge' = [converge EXCEPT ![v] = [converge[v] EXCEPT !.at = "saving"]]
      BY <1>1 DEF BranchTypes
    <2>4. /\ converge' \in [Converges -> Convergence]
          /\ converge'[v] = [converge[v] EXCEPT !.at = "saving"]
          /\ \A w \in Converges \ {v} : converge'[w] = converge[w]
      BY <2>2, <2>3 DEF BranchTypes
    <2> QED  BY <2>1, <2>4 DEF Convergence
  <1>5. Tree!Rows' = Tree!Rows /\ Tree!Rows \subseteq Branches
    BY <1>1, BranchFields DEF Tree!Rows
  <1>6. \A w \in Converges : /\ converge'[w].at \in UnderWay <=> converge[w].at \in UnderWay
                             /\ converge'[w].at \in {"removing", "saving"} <=>
                                  converge[w].at \in {"removing", "saving"}
                             /\ converge[w].at = "saving" => converge'[w].at = "saving"
    BY <1>1, <1>2, <1>4 DEF UnderWay
  <1>7. BranchTypes'
    BY <1>1, <1>3, <1>4 DEF BranchTypes
  <1>8. ListsInv'
    <2>1. converge'[v].at \notin {"merging", "checked"}
      BY <1>4
    <2> QED  BY <1>1, <1>4, <1>6, <2>1 DEF ListsInv
  <1>9. DirectoriesInv'
    <2>1. ASSUME NEW c \in Branches \ (guests \cup cut), session[c] = "there"
          PROVE  /\ dir[c] \in {Root, c}
                 /\ dir[c] = c /\ tree'[c] = "none" =>
                      \E w \in Converges : converge'[w].at = "saving" /\ converge'[w].target = c
                 /\ dir[c] = c /\ c \in Tree!Rows => row[c].worktree
      <3>1. CASE c = kept
        BY <1>4, <2>1, <3>1 DEF DirectoriesInv
      <3>2. CASE c # kept
        <4>1. tree'[c] = tree[c]
          BY <1>3, <3>2
        <4> QED  BY <1>4, <1>6, <2>1, <4>1 DEF DirectoriesInv
      <3> QED  BY <3>1, <3>2
    <2>2. \A c \in Branches : session[c] = "none" => tree'[c] = "none" /\ row[c] = Tree!NoRow
      BY <1>3 DEF DirectoriesInv
    <2>3. \A c \in Tree!Rows : c \in row[c].group /\ (~row[c].worktree => tree'[c] = "none")
      BY <1>3, <1>5 DEF DirectoriesInv
    <2> QED  BY <1>1, <1>3, <1>5, <2>1, <2>2, <2>3 DEF DirectoriesInv
  <1>10. MovesInv'
    <2>1. \A w \in Converges : converge[w].target # NoBranch => converge[w].target \in Branches
      BY BranchFields DEF Convergence
    <2> QED  BY <1>1, <1>3, <1>4, <1>6, <2>1 DEF MovesInv
  <1>11. KeptInv'
    BY <1>1, <1>4, <1>6 DEF KeptInv
  <1>12. RowsInv'
    BY <1>1, <1>4, <1>5, <1>6 DEF RowsInv
  <1> QED  BY <1>7, <1>8, <1>9, <1>10, <1>11, <1>12

\* The kept session is moved, and the rows of one group go.
LEMMA SaveConvergeStep ==
  ASSUME BranchInv, NEW v \in Converges, Tree!SaveConverge(v)  PROVE BranchInv'
  <1> USE RecordsAssumption DEF BranchInv
  <1> DEFINE kept == converge[v].target
             place == converge[v].into
             over == [Tree!Off EXCEPT !.at = "over"]
  <1>1. /\ converge[v].at = "saving"
        /\ row' = [b \in Branches |-> IF b \in converge[v].group THEN Tree!NoRow ELSE row[b]]
        /\ dir' = IF place = NoBranch THEN dir ELSE [dir EXCEPT ![kept] = place]
        /\ guests' = IF place \in {NoBranch, Root} THEN guests ELSE guests \cup {kept}
        /\ converge' = [converge EXCEPT ![v] = over]
        /\ UNCHANGED <<session, tree, checked, ahead, vb, groups, alone, swept, cut>>
    BY DEF Tree!SaveConverge
  <1>2. /\ over \in Convergence /\ over.at = "over" /\ over.list = {} /\ over.target = NoBranch
    BY DEF Tree!Off, Convergence, Somewhere
  <1> HIDE DEF over
  <1>3. /\ converge' \in [Converges -> Convergence]
        /\ converge'[v].at = "over" /\ converge'[v].list = {} /\ converge'[v].target = NoBranch
        /\ \A w \in Converges \ {v} : converge'[w] = converge[w]
    BY <1>1, <1>2 DEF BranchTypes
  <1>4. /\ kept # NoBranch => kept \in Branches /\ kept # Root /\ kept \in Tree!Places
        /\ place # NoBranch => place \in Tree!Places /\ kept # NoBranch
        /\ converge[v].at \in UnderWay
    BY <1>1, BranchFields DEF ListsInv, Convergence, UnderWay, Somewhere
  <1>5. /\ dir' \in [Tree!Places -> Tree!Places]
        /\ \A b \in Branches : dir'[b] = IF b = kept /\ place # NoBranch THEN place ELSE dir[b]
        /\ guests \subseteq guests'
    BY <1>1, <1>4, BranchFields DEF BranchTypes
  <1>6. Tree!NoRow \in BranchRow
    BY DEF BranchRow, Tree!NoRow, Somewhere
  <1>7. /\ row' \in [Branches -> BranchRow]
        /\ \A b \in Branches : row'[b] = IF b \in converge[v].group THEN Tree!NoRow ELSE row[b]
    BY <1>1, <1>6 DEF BranchTypes
  <1>8. /\ Tree!Rows' \subseteq Tree!Rows /\ Tree!Rows' \subseteq Branches
        /\ \A b \in Tree!Rows' : row'[b] = row[b] /\ b \notin converge[v].group
    BY <1>7 DEF Tree!Rows
  <1>9. BranchTypes'
    BY <1>1, <1>3, <1>5, <1>7 DEF BranchTypes
  <1>10. ListsInv'
    BY <1>1, <1>3 DEF ListsInv, UnderWay
  \* The kept session no longer works in a worktree of its own.
  <1>11. kept # NoBranch /\ kept \notin guests' \cup cut /\ session[kept] = "there" =>
            dir'[kept] = Root
    <2>1. CASE place = NoBranch
      <3>1. kept # NoBranch /\ kept \notin guests \cup cut /\ session[kept] = "there" =>
              dir[kept] # kept /\ dir[kept] \in {Root, kept}
        BY <1>1, <1>4, <2>1 DEF MovesInv, DirectoriesInv
      <3> QED  BY <1>4, <1>5, <2>1, <3>1
    <2>2. CASE place = Root
      BY <1>4, <1>5, <2>2
    <2>3. CASE place \notin {NoBranch, Root}
      BY <1>1, <2>3
    <2> QED  BY <2>1, <2>2, <2>3
  <1>12. DirectoriesInv'
    <2>1. ASSUME NEW b \in Branches \ (guests' \cup cut'), session[b] = "there"
          PROVE  /\ dir'[b] \in {Root, b}
                 /\ dir'[b] = b /\ tree[b] = "none" =>
                      \E w \in Converges : converge'[w].at = "saving" /\ converge'[w].target = b
                 /\ dir'[b] = b /\ b \in Tree!Rows' => row'[b].worktree
      <3>1. CASE b = kept
        BY <1>1, <1>4, <1>11, <2>1, <3>1
      <3>2. CASE b # kept
        <4>1. dir'[b] = dir[b] /\ b \in Branches \ (guests \cup cut)
          BY <1>1, <1>5, <2>1, <3>2
        <4>2. \A w \in Converges : converge[w].target = b => w # v
          BY <3>2
        <4> QED  BY <1>3, <1>8, <2>1, <4>1, <4>2 DEF DirectoriesInv
      <3> QED  BY <3>1, <3>2
    <2>2. \A b \in Branches : session[b] = "none" => tree[b] = "none" /\ row'[b] = Tree!NoRow
      BY <1>7 DEF DirectoriesInv
    <2>3. \A b \in Tree!Rows' : b \in row'[b].group /\ (~row'[b].worktree => tree[b] = "none")
      BY <1>8 DEF DirectoriesInv
    <2> QED  BY <1>1, <2>1, <2>2, <2>3 DEF DirectoriesInv
  <1>13. MovesInv'
    <2> SUFFICES ASSUME NEW w \in Converges, converge'[w].at \in {"removing", "saving"},
                        converge'[w].into = NoBranch, converge'[w].target # NoBranch
        PROVE  /\ tree[converge'[w].target] = "none"
               /\ converge'[w].target \notin guests' \cup cut /\ session[converge'[w].target] = "there" =>
                    dir'[converge'[w].target] # converge'[w].target
      BY <1>1 DEF MovesInv
    <2>1. w # v /\ converge'[w] = converge[w]
      BY <1>3
    <2>2. converge[w].target \in Branches
      BY <2>1, BranchFields DEF Convergence
    <2>3. CASE converge[w].target = kept
      BY <1>4, <1>11, <2>1, <2>3 DEF MovesInv
    <2>4. CASE converge[w].target # kept
      BY <1>5, <2>1, <2>2, <2>4 DEF MovesInv
    <2> QED  BY <2>3, <2>4
  <1>14. KeptInv'
    BY <1>1, <1>3 DEF KeptInv, UnderWay
  <1>15. RowsInv'
    <2> SUFFICES ASSUME NEW b \in Tree!Rows'
        PROVE  \/ session[b] = "there" \/ b \in alone \cup swept \/ vb[b] = "deleted"
               \/ \E w \in Converges : /\ converge'[w].at \in {"removing", "saving"}
                                       /\ b \in converge'[w].list \ {converge'[w].target}
      BY <1>1 DEF RowsInv
    <2>1. b \in converge[v].list => b \in swept
      BY <1>4, <1>8 DEF ListsInv
    <2> QED  BY <1>3, <1>8, <2>1 DEF RowsInv
  <1> QED  BY <1>9, <1>10, <1>12, <1>13, <1>14, <1>15

\* Every step of the branches keeps the invariant.
LEMMA BranchStep == BranchInv /\ [Tree!Next]_branchVars => BranchInv'
  <1> SUFFICES ASSUME BranchInv, [Tree!Next]_branchVars  PROVE BranchInv'
    OBVIOUS
  <1>1. ASSUME NEW src \in Tree!Places, NEW bs \in SUBSET Branches, NEW w \in BOOLEAN,
               Tree!CreateBranch(src, bs, w)
        PROVE  BranchInv'
    <2>1. /\ \A b \in bs : session[b] = "none"
          /\ Tree!MakeGroup(src, bs, w) /\ UNCHANGED vb
      BY <1>1 DEF Tree!CreateBranch
    <2>2. vb' \in [Branches -> {"no", "working", "deleted"}]
      BY <2>1 DEF BranchInv, BranchTypes
    <2> QED  BY <2>1, <2>2, MakeStep
  <1>2. ASSUME NEW src \in Tree!Places, NEW b \in Branches, Tree!ApplyVb(src, b)  PROVE BranchInv'
    <2>1. /\ \A c \in {b} : session[c] = "none"
          /\ Tree!MakeGroup(src, {b}, FALSE) /\ vb' = [vb EXCEPT ![b] = "working"]
      BY <1>2 DEF Tree!ApplyVb
    <2>2. /\ vb' \in [Branches -> {"no", "working", "deleted"}]
          /\ \A c \in Branches : vb[c] = "deleted" => vb'[c] = "deleted" \/ c \in {b}
      BY <2>1 DEF BranchInv, BranchTypes
    <2> QED  BY <2>1, <2>2, MakeStep
  <1>3. CASE UNCHANGED branchVars
    <2> USE <1>3 DEF branchVars, BranchInv
    <2>1. Tree!Rows' = Tree!Rows
      BY DEF Tree!Rows
    <2>2. BranchTypes' /\ ListsInv' /\ MovesInv' /\ KeptInv'
      BY DEF BranchTypes, ListsInv, MovesInv, KeptInv
    <2>3. DirectoriesInv' /\ RowsInv'
      BY <2>1 DEF DirectoriesInv, RowsInv
    <2> QED  BY <2>2, <2>3
  <1> QED
    BY <1>1, <1>2, <1>3, CleanupStep, DeleteAloneStep, AgentsStep, StartStep, CutOffStep, CheckOutStep,
       MergeStep, RemoveOtherStep, RemoveKeptTreeStep, SaveConvergeStep DEF Tree!Next

\* What the invariant is for.
LEMMA BranchHolds ==
  BranchInv => Tree!SessionsHaveTheirDirectory /\ Tree!KeptIsKept /\ Tree!RowsHaveSessions
  <1> SUFFICES ASSUME BranchInv
      PROVE  Tree!SessionsHaveTheirDirectory /\ Tree!KeptIsKept /\ Tree!RowsHaveSessions
    OBVIOUS
  <1> USE DEF BranchInv
  <1>1. Tree!SessionsHaveTheirDirectory
    BY DEF DirectoriesInv, Tree!SessionsHaveTheirDirectory
  <1>2. Tree!KeptIsKept
    BY DEF KeptInv, UnderWay, Tree!KeptIsKept
  <1>3. Tree!RowsHaveSessions
    BY DEF RowsInv, Tree!RowsHaveSessions
  <1> QED  BY <1>1, <1>2, <1>3

-----------------------------------------------------------------------------
(* Telemetry of the agent (Telemetry.tla)                                  *)

ExportedItems == [kind : {"span", "event"}, run : Nat, trace : Nat]
Batches == [first : Nat, last : Nat]
TableRows == [item : Nat, run : Nat]
OtlpRequests ==
  [batch : Nat, at : {"idle", "flush", "write", "resolve", "store", "answer"}, found : Seq(Nat),
   seen : SUBSET Seq(Nat)]

TeleTypes ==
  /\ begun \in Nat /\ failures \in Nat /\ unwritten \subseteq Nat /\ envelopes \subseteq Nat
  /\ carried \in [Tele!Flushers -> SUBSET Nat]
  /\ exported \in Seq(ExportedItems) /\ batch \in Seq(Batches)
  /\ recv \in [Receivers -> OtlpRequests] /\ table \subseteq TableRows

\* A run that was begun is to be written, is being written or has its row.
RunsInv ==
  /\ unwritten \subseteq 1 .. begun /\ envelopes \subseteq 1 .. begun
  /\ \A f \in Tele!Flushers : carried[f] \subseteq 1 .. begun
  /\ \A r \in 1 .. begun : r \in unwritten \/ r \in envelopes
                           \/ \E f \in Tele!Flushers : r \in carried[f]
  /\ \A i \in DOMAIN exported : exported[i].run \in 1 .. begun

\* Batches are one behind the other.
BatchesInv ==
  /\ \A b \in DOMAIN batch : /\ 1 <= batch[b].first /\ batch[b].first <= batch[b].last
                             /\ batch[b].last <= Len(exported)
  /\ \A b, c \in DOMAIN batch : b < c => batch[b].last < batch[c].first

\* The run under which the trace of an item of a batch was seen first.
RunFor(b, i) == exported[Tele!First(b, i)].run

\* What a request has found, item by item, and what it knows to be written.
OtlpRequestIs(q) ==
  /\ recv[q].at # "idle" => recv[q].batch \in DOMAIN batch
  /\ recv[q].at \in {"idle", "flush", "write"} => recv[q].found = <<>>
  /\ recv[q].found # <<>> => Tele!ItemAt(q, Len(recv[q].found)) <= batch[recv[q].batch].last
  /\ recv[q].at \in {"store", "answer"} =>
       Tele!ItemAt(q, Len(recv[q].found)) = batch[recv[q].batch].last
  /\ carried[q] # {} => recv[q].at = "write"
  /\ recv[q].at \in {"write", "resolve"} /\ failures = 0 =>
       \A i \in Tele!Items(recv[q].batch) : exported[i].run \notin unwritten
  /\ \A n \in DOMAIN recv[q].found :
       Tele!ItemAt(q, n) \notin blind =>
         recv[q].found[n] = RunFor(recv[q].batch, Tele!ItemAt(q, n))

OtlpRequestsInv == \A q \in Receivers : OtlpRequestIs(q)

\* A row is of an item of a batch, and under its run.
RowIs(e) ==
  /\ \E b \in DOMAIN batch : e.item \in Tele!Items(b)
  /\ \A b \in DOMAIN batch :
       e.item \in Tele!Items(b) /\ e.item \notin blind => e.run = RunFor(b, e.item)

TableInv == \A e \in table : RowIs(e)

\* What was answered is in the table.
InTable(b) == \A i \in Tele!Items(b) : \E e \in table : e.item = i

AnsweredInv ==
  /\ \A q \in Receivers : recv[q].at = "answer" => InTable(recv[q].batch)
  /\ acked \subseteq DOMAIN batch /\ \A b \in acked : InTable(b)

TeleInv ==
  /\ TeleTypes /\ RunsInv /\ BatchesInv /\ OtlpRequestsInv /\ TableInv /\ AnsweredInv
  /\ unexcused = {}

\* A bounded set of numbers that is not empty has a greatest element.
LEMMA HasGreatest ==
  ASSUME NEW n \in Nat, NEW S \in SUBSET (0 .. n), S # {}
  PROVE  \E m \in S : \A k \in S : k <= m
  <1> DEFINE T == {n - m : m \in S}
  <1>1. T \in SUBSET Nat /\ T # {}
    <2>1. \A m \in S : m \in Nat /\ m <= n
      OBVIOUS
    <2>2. \A m \in S : n - m \in Nat
      BY <2>1
    <2>3. PICK m : m \in S
      OBVIOUS
    <2>4. n - m \in T
      BY <2>3
    <2> QED  BY <2>2, <2>4
  <1> HIDE DEF T
  <1>2. PICK k \in T : \A m \in T : k <= m
    BY <1>1, LeastNumber
  <1>3. PICK x \in S : k = n - x
    BY <1>2 DEF T
  <1>4. \A y \in S : x >= y
    BY <1>2, <1>3 DEF T
  <1> QED  BY <1>4

\* It is the one that Max names.
LEMMA GreatestNumber ==
  ASSUME NEW n \in Nat, NEW S \in SUBSET (0 .. n), S # {}
  PROVE  Tele!Max(S) \in S /\ \A m \in S : m <= Tele!Max(S)
  <1>1. \E m \in S : \A k \in S : k <= m
    BY HasGreatest
  <1>2. \E m \in S : \A k \in S : m >= k
    <2>1. \A k \in S : k \in Nat
      OBVIOUS
    <2> QED  BY <1>1, <2>1
  <1>3. Tele!Max(S) \in S /\ \A k \in S : Tele!Max(S) >= k
    BY <1>2, Zenon DEF Tele!Max
  <1>4. \A k \in S : k \in Nat
    OBVIOUS
  <1> QED  BY <1>3, <1>4

\* The least element of a set of numbers is one of them.
LEMMA SmallestNumber ==
  ASSUME NEW S \in SUBSET Nat, S # {}
  PROVE  Tele!Min(S) \in S /\ \A m \in S : Tele!Min(S) <= m
  BY LeastNumber DEF Tele!Min

\* The first item of a trace in its batch.
LEMMA FirstFacts ==
  ASSUME TeleTypes, BatchesInv, NEW b \in DOMAIN batch, NEW i \in Tele!Items(b)
  PROVE  /\ i \in DOMAIN exported /\ i \in Nat
         /\ Tele!First(b, i) \in Tele!Items(b) /\ Tele!First(b, i) <= i
         /\ Tele!First(b, Tele!First(b, i)) = Tele!First(b, i)
  <1>1. /\ batch[b] \in Batches /\ exported \in Seq(ExportedItems)
        /\ 1 <= batch[b].first /\ batch[b].last <= Len(exported)
    BY DEF TeleTypes, BatchesInv
  <1>2. /\ batch[b].first \in Nat /\ batch[b].last \in Nat /\ i \in Nat
        /\ batch[b].first <= i /\ i <= batch[b].last
    BY <1>1 DEF Batches, Tele!Items
  <1> DEFINE S(j) == {k \in batch[b].first .. j : exported[k].trace = exported[j].trace}
             f == Tele!First(b, i)
             g == Tele!First(b, f)
  <1>3. f = Tele!Min(S(i)) /\ g = Tele!Min(S(f))
    BY DEF Tele!First
  <1>4. S(i) \in SUBSET Nat /\ i \in S(i)
    BY <1>2
  <1>5. f \in S(i) /\ \A k \in S(i) : f <= k
    BY <1>3, <1>4, SmallestNumber
  <1>6. f \in Nat /\ batch[b].first <= f /\ f <= i /\ exported[f].trace = exported[i].trace
    BY <1>2, <1>5
  <1>7. S(f) \in SUBSET Nat /\ f \in S(f)
    BY <1>2, <1>6
  <1>8. g \in S(f) /\ \A k \in S(f) : g <= k
    BY <1>3, <1>7, SmallestNumber
  <1>9. g \in S(i) /\ g \in Nat /\ g <= f
    BY <1>2, <1>6, <1>8
  <1>10. f <= g
    BY <1>5, <1>9
  <1>11. f = g
    BY <1>6, <1>9, <1>10
  <1>12. i \in DOMAIN exported
    BY <1>1, <1>2
  <1>13. f \in Tele!Items(b)
    BY <1>2, <1>6 DEF Tele!Items
  <1> QED  BY <1>2, <1>6, <1>11, <1>12, <1>13

\* What was exported and what was sent stays what it is.
Grown ==
  /\ \A b \in DOMAIN batch : b \in DOMAIN batch' /\ batch'[b] = batch[b]
  /\ \A i \in DOMAIN exported : i \in DOMAIN exported' /\ exported'[i] = exported[i]
  /\ blind \subseteq blind'

\* Then so do the items of a batch and their runs.
LEMMA BatchStays ==
  ASSUME TeleTypes, BatchesInv, Grown, NEW b \in DOMAIN batch
  PROVE  /\ Tele!Items(b)' = Tele!Items(b)
         /\ \A i \in Tele!Items(b) : /\ exported'[i] = exported[i]
                                     /\ RunFor(b, i)' = RunFor(b, i)
  <1>1. batch'[b] = batch[b]
    BY DEF Grown
  <1>2. Tele!Items(b)' = Tele!Items(b)
    BY <1>1 DEF Tele!Items
  <1>3. ASSUME NEW i \in Tele!Items(b)
        PROVE  exported'[i] = exported[i] /\ RunFor(b, i)' = RunFor(b, i)
    <2>1. /\ batch[b] \in Batches /\ exported \in Seq(ExportedItems)
          /\ 1 <= batch[b].first /\ batch[b].last <= Len(exported)
      BY DEF TeleTypes, BatchesInv
    <2>2. i \in Nat /\ i <= batch[b].last /\ batch[b].first \in Nat /\ batch[b].last \in Nat
      BY <2>1 DEF Batches, Tele!Items
    <2>3. \A j \in batch[b].first .. i : j \in DOMAIN exported /\ exported'[j] = exported[j]
      BY <2>1, <2>2 DEF Grown
    <2>4. i \in batch[b].first .. i
      BY <2>2 DEF Tele!Items
    <2>5. {j \in batch[b].first .. i : exported'[j].trace = exported'[i].trace}
            = {j \in batch[b].first .. i : exported[j].trace = exported[i].trace}
      BY <2>3, <2>4
    <2>6. Tele!First(b, i)' = Tele!First(b, i)
      BY <1>1, <2>5 DEF Tele!First
    <2>7. Tele!First(b, i) \in DOMAIN exported
      <3>1. Tele!First(b, i) \in Tele!Items(b)
        BY FirstFacts
      <3> QED  BY <3>1, FirstFacts
    <2>8. exported'[Tele!First(b, i)] = exported[Tele!First(b, i)]
      BY <2>7 DEF Grown
    <2> QED  BY <2>3, <2>4, <2>6, <2>8 DEF RunFor
  <1> QED  BY <1>2, <1>3

\* No item is in two batches.
LEMMA OneBatch ==
  ASSUME TeleTypes, BatchesInv, NEW b \in DOMAIN batch, NEW c \in DOMAIN batch,
         NEW i \in Tele!Items(b), i \in Tele!Items(c)
  PROVE  b = c
  <1>1. batch[b] \in Batches /\ batch[c] \in Batches /\ b \in Nat /\ c \in Nat
    BY DEF TeleTypes
  <1>2. batch[b].last < batch[c].first => FALSE
    BY <1>1 DEF Batches, Tele!Items
  <1>3. batch[c].last < batch[b].first => FALSE
    BY <1>1 DEF Batches, Tele!Items
  <1> QED  BY <1>1, <1>2, <1>3 DEF BatchesInv

\* A request that does not move finds what it found.
LEMMA RequestStays ==
  ASSUME TeleInv, Grown, NEW q \in Receivers, recv'[q] = recv[q],
         carried'[q] = carried[q] \/ carried'[q] = {},
         failures' = 0 => failures = 0,
         failures' = 0 => \A i \in DOMAIN exported :
                            exported[i].run \in unwritten' => exported[i].run \in unwritten
  PROVE  OtlpRequestIs(q)'
  <1>1. OtlpRequestIs(q) /\ TeleTypes /\ BatchesInv /\ recv[q] \in OtlpRequests
    BY DEF TeleInv, OtlpRequestsInv, TeleTypes
  <1>2. /\ recv[q].found \in Seq(Nat)
        /\ recv[q].at \in {"idle", "flush", "write", "resolve", "store", "answer"}
    BY <1>1 DEF OtlpRequests
  <1>3. CASE recv[q].at = "idle"
    <2>1. recv[q].found = <<>> /\ DOMAIN recv[q].found = {} /\ carried'[q] = {}
      BY <1>1, <1>3 DEF OtlpRequestIs
    <2> QED  BY <1>3, <2>1 DEF OtlpRequestIs
  <1>4. CASE recv[q].at # "idle"
    <2>1. PICK b \in DOMAIN batch : b = recv[q].batch
      BY <1>1, <1>4 DEF OtlpRequestIs
    <2>2. /\ Tele!Items(b)' = Tele!Items(b) /\ batch'[b] = batch[b] /\ b \in DOMAIN batch'
          /\ \A i \in Tele!Items(b) : exported'[i] = exported[i] /\ i \in DOMAIN exported
                                      /\ RunFor(b, i)' = RunFor(b, i)
      BY <1>1, <2>1, BatchStays, FirstFacts DEF Grown
    <2>3. \A n \in Nat : Tele!ItemAt(q, n)' = Tele!ItemAt(q, n)
      BY <2>1, <2>2 DEF Tele!ItemAt
    <2>4. Len(recv[q].found) \in Nat /\ DOMAIN recv[q].found = 1 .. Len(recv[q].found)
      BY <1>2
    <2>5. \A n \in DOMAIN recv[q].found : Tele!ItemAt(q, n) \in Tele!Items(b)
      <3>1. batch[b] \in Batches
        BY <1>1, <2>1 DEF TeleTypes
      <3>2. batch[b].first \in Nat /\ batch[b].last \in Nat
        BY <3>1 DEF Batches
      <3>3. recv[q].found # <<>> => batch[b].first + Len(recv[q].found) - 1 <= batch[b].last
        BY <1>1, <2>1 DEF OtlpRequestIs, Tele!ItemAt
      <3>4. \A n \in DOMAIN recv[q].found : recv[q].found # <<>> /\ n \in Nat /\ 1 <= n
                                           /\ n <= Len(recv[q].found)
        BY <2>4
      <3>5. \A n \in DOMAIN recv[q].found : Tele!ItemAt(q, n) = batch[b].first + n - 1
        BY <2>1 DEF Tele!ItemAt
      <3> QED  BY <2>1, <2>4, <3>2, <3>3, <3>4, <3>5 DEF Tele!Items
    <2>6. (recv[q].at # "idle" => recv[q].batch \in DOMAIN batch)'
      BY <2>1, <2>2
    <2>7. (/\ recv[q].at \in {"idle", "flush", "write"} => recv[q].found = <<>>
           /\ recv[q].found # <<>> => Tele!ItemAt(q, Len(recv[q].found)) <= batch[recv[q].batch].last
           /\ recv[q].at \in {"store", "answer"} =>
                Tele!ItemAt(q, Len(recv[q].found)) = batch[recv[q].batch].last
           /\ carried[q] # {} => recv[q].at = "write")'
      BY <1>1, <2>1, <2>2, <2>3, <2>4 DEF OtlpRequestIs
    <2>8. (recv[q].at \in {"write", "resolve"} /\ failures = 0 =>
             \A i \in Tele!Items(recv[q].batch) : exported[i].run \notin unwritten)'
      BY <1>1, <2>1, <2>2 DEF OtlpRequestIs
    <2>9. ASSUME NEW n \in DOMAIN recv'[q].found, Tele!ItemAt(q, n)' \notin blind'
          PROVE  recv'[q].found[n] = RunFor(recv[q].batch, Tele!ItemAt(q, n))'
      <3>1. n \in DOMAIN recv[q].found /\ Tele!ItemAt(q, n) \notin blind
        BY <2>3, <2>4, <2>9 DEF Grown
      <3>2. recv[q].found[n] = RunFor(b, Tele!ItemAt(q, n)) /\ Tele!ItemAt(q, n) \in Tele!Items(b)
        BY <1>1, <2>1, <2>5, <3>1 DEF OtlpRequestIs
      <3>3. PICK k \in Tele!Items(b) : k = Tele!ItemAt(q, n) /\ k = Tele!ItemAt(q, n)'
        BY <2>3, <2>4, <3>1, <3>2
      <3>4. RunFor(b, k)' = RunFor(b, k)
        BY <2>2
      <3>5. RunFor(recv[q].batch, Tele!ItemAt(q, n))' = RunFor(b, k)'
        BY <2>1, <3>3 DEF RunFor, Tele!First
      <3> QED  BY <3>2, <3>3, <3>4, <3>5
    <2> QED  BY <2>6, <2>7, <2>8, <2>9 DEF OtlpRequestIs
  <1> QED  BY <1>3, <1>4

\* The table stays as it is.
LEMMA TableStays ==
  ASSUME TeleInv, Grown, TeleTypes', BatchesInv', table' = table
  PROVE  TableInv'
  <1>1. TeleTypes /\ BatchesInv /\ table \subseteq TableRows
    BY DEF TeleInv, TeleTypes
  <1>2. ASSUME NEW e \in table  PROVE RowIs(e)'
    <2>1. PICK b \in DOMAIN batch : e.item \in Tele!Items(b)
      BY DEF TeleInv, TableInv, RowIs
    <2>2. e.item \notin blind => e.run = RunFor(b, e.item)
      BY <2>1 DEF TeleInv, TableInv, RowIs
    <2>3. /\ b \in DOMAIN batch' /\ e.item \in Tele!Items(b)'
          /\ RunFor(b, e.item)' = RunFor(b, e.item)
      BY <1>1, <2>1, BatchStays DEF Grown
    <2>4. ASSUME NEW c \in DOMAIN batch', e.item \in Tele!Items(c)'  PROVE c = b
      <3>1. batch'[b] \in Batches /\ batch'[c] \in Batches /\ b \in Nat /\ c \in Nat
        BY <2>3 DEF TeleTypes
      <3>2. batch'[b].last < batch'[c].first => FALSE
        BY <2>3, <2>4, <3>1 DEF Batches, Tele!Items
      <3>3. batch'[c].last < batch'[b].first => FALSE
        BY <2>3, <2>4, <3>1 DEF Batches, Tele!Items
      <3> QED  BY <2>3, <3>1, <3>2, <3>3 DEF BatchesInv
    <2>5. e.item \notin blind' => e.run = RunFor(b, e.item)'
      BY <2>2, <2>3 DEF Grown
    <2>6. \A c \in DOMAIN batch' :
            e.item \in Tele!Items(c)' /\ e.item \notin blind' => e.run = RunFor(c, e.item)'
      BY <2>4, <2>5
    <2> QED  BY <2>3, <2>6 DEF RowIs
  <1> QED  BY <1>2 DEF TableInv

\* What was answered stays in the table, if only rows of the same items take
\* the place of others.
LEMMA AnswersStay ==
  ASSUME TeleInv, Grown, acked' = acked,
         \A i : (\E e \in table : e.item = i) => \E e \in table' : e.item = i,
         NEW q \in Receivers,
         \A p \in Receivers \ {q} : recv'[p] = recv[p],
         recv'[q].at = "answer" => \/ recv[q].at = "answer" /\ recv'[q].batch = recv[q].batch
                                   \/ InTable(recv[q].batch)'
  PROVE  AnsweredInv'
  <1>1. TeleTypes /\ BatchesInv
    BY DEF TeleInv
  <1>2. ASSUME NEW b \in DOMAIN batch, InTable(b)  PROVE InTable(b)' /\ b \in DOMAIN batch'
    BY <1>1, <1>2, BatchStays DEF InTable, Grown
  <1>3. ASSUME NEW p \in Receivers, recv'[p].at = "answer"  PROVE InTable(recv[p].batch)'
    <2> SUFFICES ASSUME recv[p].at = "answer" /\ recv'[p].batch = recv[p].batch
                 PROVE  InTable(recv[p].batch)'
      BY <1>3
    <2>1. recv[p].at = "answer" /\ recv'[p].batch = recv[p].batch
      OBVIOUS
    <2>2. recv[p].batch \in DOMAIN batch /\ InTable(recv[p].batch)
      BY <2>1 DEF TeleInv, AnsweredInv, OtlpRequestsInv, OtlpRequestIs
    <2>3. PICK b \in DOMAIN batch : b = recv[p].batch
      BY <2>2
    <2>4. InTable(b)'
      BY <1>2, <2>2, <2>3
    <2> QED  BY <2>1, <2>3, <2>4 DEF InTable, Tele!Items
  <1>4. \A b \in acked : b \in DOMAIN batch /\ InTable(b)
    BY DEF TeleInv, AnsweredInv
  <1> QED  BY <1>2, <1>3, <1>4 DEF AnsweredInv

\* At the beginning nothing was exported.
LEMMA TeleStart == Tele!Init => TeleInv
  <1> SUFFICES ASSUME Tele!Init  PROVE TeleInv
    OBVIOUS
  <1>1. /\ begun = 0 /\ unwritten = {} /\ envelopes = {} /\ failures = 0 /\ exported = <<>>
        /\ batch = <<>> /\ table = {} /\ acked = {} /\ unexcused = {} /\ blind = {}
        /\ carried = [f \in Tele!Flushers |-> {}] /\ recv = [q \in Receivers |-> Tele!NoRequest]
    BY DEF Tele!Init
  <1>2. /\ Tele!NoRequest \in OtlpRequests /\ Tele!NoRequest.at = "idle"
        /\ Tele!NoRequest.found = <<>>
    BY DEF Tele!NoRequest, OtlpRequests
  <1>3. TeleTypes
    BY <1>1, <1>2 DEF TeleTypes
  <1>4. RunsInv /\ BatchesInv /\ TableInv /\ AnsweredInv
    BY <1>1, <1>2 DEF RunsInv, BatchesInv, TableInv, AnsweredInv
  <1>5. OtlpRequestsInv
    <2>1. \A q \in Receivers : carried[q] = {} /\ recv[q] = Tele!NoRequest
      BY <1>1 DEF Tele!Flushers
    <2> QED  BY <1>2, <2>1 DEF OtlpRequestsInv, OtlpRequestIs
  <1> QED  BY <1>1, <1>3, <1>4, <1>5 DEF TeleInv

\* A request goes to its next step.
LEMMA MovedTo ==
  ASSUME TeleTypes, NEW q \in Receivers,
         NEW at \in {"idle", "flush", "write", "resolve", "store", "answer"},
         recv' = Tele!Moved(q, at)
  PROVE  /\ recv' \in [Receivers -> OtlpRequests]
         /\ \A p \in Receivers \ {q} : recv'[p] = recv[p]
         /\ recv'[q].at = at /\ recv'[q].batch = recv[q].batch
         /\ recv'[q].found = recv[q].found
  <1>1. recv \in [Receivers -> OtlpRequests] /\ recv' = [recv EXCEPT ![q].at = at]
    BY DEF TeleTypes, Tele!Moved
  <1>2. recv[q] \in OtlpRequests /\ recv'[q] = [recv[q] EXCEPT !.at = at]
    BY <1>1
  <1>3. /\ recv'[q] \in OtlpRequests /\ recv'[q].at = at /\ recv'[q].batch = recv[q].batch
        /\ recv'[q].found = recv[q].found
    BY ONLY <1>2, at \in {"idle", "flush", "write", "resolve", "store", "answer"}
    DEF OtlpRequests
  <1> QED  BY <1>1, <1>3

\* A run begins.
LEMMA BeginRunStep ==
  ASSUME TeleInv, Tele!BeginRun
  PROVE  TeleInv'
  <1>1. /\ begun' = begun + 1 /\ unwritten' = unwritten \cup {begun + 1}
        /\ UNCHANGED <<carried, envelopes, exported, batch, recv, table, acked, blind, unexcused,
                       failures>>
    BY DEF Tele!BeginRun
  <1>2. TeleTypes' /\ RunsInv'
    BY <1>1 DEF TeleInv, TeleTypes, RunsInv
  <1>3. BatchesInv' /\ unexcused' = {}
    BY <1>1 DEF TeleInv, BatchesInv
  <1>4. Grown
    BY <1>1 DEF Grown
  <1>5. OtlpRequestsInv'
    <2>1. \A i \in DOMAIN exported : exported[i].run # begun + 1
      BY DEF TeleInv, TeleTypes, RunsInv
    <2> QED  BY <1>1, <1>4, <2>1, RequestStays DEF OtlpRequestsInv
  <1>6. TableInv'
    BY <1>1, <1>2, <1>3, <1>4, TableStays
  <1>7. AnsweredInv'
    BY <1>1 DEF TeleInv, AnsweredInv, InTable, Tele!Items
  <1> QED  BY <1>2, <1>3, <1>5, <1>6, <1>7 DEF TeleInv

\* Something happens in the agent.
LEMMA HappenStep ==
  ASSUME TeleInv, NEW sort \in {"span", "event"}, NEW trace, Tele!Happen(sort, trace)
  PROVE  TeleInv'
  <1>1. /\ exported' = Append(exported, [kind |-> sort, run |-> begun, trace |-> trace])
        /\ trace \in 1 .. begun
        /\ UNCHANGED <<begun, unwritten, carried, envelopes, batch, recv, table, acked, blind,
                       unexcused, failures>>
    BY DEF Tele!Happen
  <1>2. /\ exported \in Seq(ExportedItems) /\ begun \in Nat
        /\ \A i \in DOMAIN exported : exported[i].run \in 1 .. begun
    BY DEF TeleInv, TeleTypes, RunsInv
  <1>3. [kind |-> sort, run |-> begun, trace |-> trace] \in ExportedItems
    BY <1>1, <1>2 DEF ExportedItems
  <1>4. /\ exported' \in Seq(ExportedItems) /\ Len(exported') = Len(exported) + 1
        /\ \A i \in DOMAIN exported : i \in DOMAIN exported' /\ exported'[i] = exported[i]
        /\ \A i \in DOMAIN exported' : exported'[i].run \in 1 .. begun
    BY <1>1, <1>2, <1>3
  <1>5. TeleTypes' /\ RunsInv'
    BY <1>1, <1>4 DEF TeleInv, TeleTypes, RunsInv
  <1>6. BatchesInv' /\ unexcused' = {}
    <2>1. \A b \in DOMAIN batch : batch[b].last \in Nat
      <3>1. \A b \in DOMAIN batch : batch[b] \in Batches
        BY DEF TeleInv, TeleTypes
      <3> QED  BY <3>1 DEF Batches
    <2> QED  BY <1>1, <1>2, <1>4, <2>1 DEF TeleInv, BatchesInv
  <1>7. Grown
    BY <1>1, <1>4 DEF Grown
  <1>8. OtlpRequestsInv'
    BY <1>1, <1>7, RequestStays DEF OtlpRequestsInv
  <1>9. TableInv'
    BY <1>1, <1>5, <1>6, <1>7, TableStays
  <1>10. AnsweredInv'
    BY <1>1 DEF TeleInv, AnsweredInv, InTable, Tele!Items
  <1> QED  BY <1>5, <1>6, <1>8, <1>9, <1>10 DEF TeleInv

\* A batch is sent.
LEMMA ExportStep ==
  ASSUME TeleInv, Tele!Export
  PROVE  TeleInv'
  <1> DEFINE sent == IF batch = <<>> THEN 0 ELSE batch[Len(batch)].last
             mail == [first |-> sent + 1, last |-> Len(exported)]
  <1>1. /\ sent < Len(exported) /\ batch' = Append(batch, mail)
        /\ UNCHANGED <<begun, unwritten, carried, envelopes, exported, recv, table, acked, blind,
                       unexcused, failures>>
    BY DEF Tele!Export
  <1>2. batch \in Seq(Batches) /\ exported \in Seq(ExportedItems) /\ Len(exported) \in Nat
    BY DEF TeleInv, TeleTypes
  <1>3. sent \in Nat /\ \A b \in DOMAIN batch : batch[b].last <= sent
    <2>1. CASE batch = <<>>
      BY <2>1
    <2>2. CASE batch # <<>>
      <3>1. Len(batch) \in DOMAIN batch /\ Len(batch) \in Nat
        BY <1>2, <2>2
      <3>2. \A b \in DOMAIN batch : batch[b] \in Batches /\ b \in Nat /\ b <= Len(batch)
        BY <1>2
      <3>3. \A b \in DOMAIN batch : /\ batch[b].last \in Nat /\ batch[b].first \in Nat
                                    /\ batch[b].first <= batch[b].last
        BY <3>2 DEF Batches, TeleInv, BatchesInv
      <3>4. \A b \in DOMAIN batch : b < Len(batch) => batch[b].last < batch[Len(batch)].first
        BY <3>1 DEF TeleInv, BatchesInv
      <3> QED  BY <2>2, <3>1, <3>2, <3>3, <3>4
    <2> QED  BY <2>1, <2>2
  <1> HIDE DEF sent
  <1>4. mail \in Batches /\ mail.first = sent + 1 /\ mail.last = Len(exported)
    BY <1>2, <1>3 DEF Batches
  <1> HIDE DEF mail
  <1>5. /\ batch' \in Seq(Batches) /\ Len(batch') = Len(batch) + 1
        /\ \A b \in DOMAIN batch : b \in DOMAIN batch' /\ batch'[b] = batch[b]
        /\ batch'[Len(batch) + 1] = mail
        /\ \A b \in DOMAIN batch' : b \in DOMAIN batch \/ b = Len(batch) + 1
        /\ Len(batch) \in Nat /\ \A b \in DOMAIN batch : b \in Nat /\ b <= Len(batch)
    BY <1>1, <1>2, <1>4
  <1>6. TeleTypes' /\ RunsInv'
    BY <1>1, <1>5 DEF TeleInv, TeleTypes, RunsInv
  <1>7. BatchesInv'
    <2>1. \A b \in DOMAIN batch' : /\ 1 <= batch'[b].first /\ batch'[b].first <= batch'[b].last
                                   /\ batch'[b].last <= Len(exported)
      BY <1>1, <1>2, <1>3, <1>4, <1>5 DEF TeleInv, BatchesInv
    <2>2. ASSUME NEW b \in DOMAIN batch', NEW c \in DOMAIN batch', b < c
          PROVE  batch'[b].last < batch'[c].first
      <3>1. b \in DOMAIN batch
        BY <1>5, <2>2
      <3>2. batch[b] \in Batches
        BY <1>2, <3>1
      <3>3. batch[b].last \in Nat /\ batch[b].last <= sent
        BY <1>3, <3>1, <3>2 DEF Batches
      <3>4. CASE c \in DOMAIN batch
        BY <1>5, <2>2, <3>1, <3>4 DEF TeleInv, BatchesInv
      <3>5. CASE c = Len(batch) + 1
        BY <1>3, <1>4, <1>5, <3>1, <3>3, <3>5
      <3> QED  BY <1>5, <3>4, <3>5
    <2> QED  BY <1>1, <2>1, <2>2 DEF BatchesInv
  <1>8. Grown
    BY <1>1, <1>5 DEF Grown
  <1>9. OtlpRequestsInv'
    BY <1>1, <1>8, RequestStays DEF OtlpRequestsInv
  <1>10. TableInv'
    BY <1>1, <1>6, <1>7, <1>8, TableStays
  <1>11. AnsweredInv'
    <2>1. TeleTypes /\ BatchesInv
      BY DEF TeleInv
    <2>2. \A b \in DOMAIN batch : Tele!Items(b)' = Tele!Items(b)
      BY <1>8, <2>1, BatchStays
    <2>3. \A b \in DOMAIN batch : InTable(b) => InTable(b)'
      BY <1>1, <2>2 DEF InTable
    <2>4. \A q \in Receivers : recv[q].at = "answer" => recv[q].batch \in DOMAIN batch
      BY DEF TeleInv, OtlpRequestsInv, OtlpRequestIs
    <2>5. \A q \in Receivers : recv'[q].at = "answer" => InTable(recv[q].batch)'
      <3> SUFFICES ASSUME NEW q \in Receivers, recv[q].at = "answer"
                   PROVE  InTable(recv[q].batch)'
        BY <1>1
      <3>1. PICK b \in DOMAIN batch : b = recv[q].batch /\ InTable(recv[q].batch)
        BY <2>4 DEF TeleInv, AnsweredInv
      <3>2. InTable(b)'
        BY <2>3, <3>1
      <3> QED  BY <1>1, <3>1, <3>2 DEF InTable, Tele!Items
    <2> QED  BY <1>1, <1>5, <2>3, <2>5 DEF TeleInv, AnsweredInv
  <1> QED  BY <1>1, <1>6, <1>7, <1>9, <1>10, <1>11 DEF TeleInv

\* The agent sends a batch, or sends it again.
LEMMA DeliverStep ==
  ASSUME TeleInv, NEW q \in Receivers, NEW b, Tele!Deliver(q, b)
  PROVE  TeleInv'
  <1> DEFINE next == [recv[q] EXCEPT !.batch = b, !.at = "flush"]
  <1>1. /\ recv[q] = Tele!NoRequest /\ b \in DOMAIN batch
        /\ recv' = [recv EXCEPT ![q] = next]
        /\ UNCHANGED <<begun, unwritten, carried, envelopes, exported, batch, table, acked, blind,
                       unexcused, failures>>
    BY DEF Tele!Deliver
  <1>2. /\ recv \in [Receivers -> OtlpRequests] /\ recv[q] \in OtlpRequests
        /\ recv[q].found = <<>> /\ recv[q].at = "idle" /\ b \in Nat
    <2>1. recv \in [Receivers -> OtlpRequests] /\ batch \in Seq(Batches)
      BY DEF TeleInv, TeleTypes
    <2>2. recv[q].found = <<>> /\ recv[q].at = "idle"
      BY <1>1 DEF Tele!NoRequest
    <2>3. b \in Nat
      BY <1>1, <2>1
    <2> QED  BY <2>1, <2>2, <2>3
  <1>3. /\ next \in OtlpRequests /\ next.batch = b /\ next.at = "flush"
        /\ next.found = <<>>
    BY ONLY <1>2 DEF OtlpRequests
  <1> HIDE DEF next
  <1>4. /\ recv' \in [Receivers -> OtlpRequests] /\ recv'[q] = next
        /\ \A p \in Receivers \ {q} : recv'[p] = recv[p]
    BY <1>1, <1>2, <1>3
  <1>5. TeleTypes' /\ RunsInv' /\ BatchesInv' /\ unexcused' = {}
    BY <1>1, <1>4 DEF TeleInv, TeleTypes, RunsInv, BatchesInv
  <1>6. Grown
    BY <1>1 DEF Grown
  <1>7. OtlpRequestsInv'
    <2>1. \A p \in Receivers \ {q} : OtlpRequestIs(p)'
      BY <1>1, <1>4, <1>6, RequestStays
    <2>2. carried[q] = {}
      BY <1>2 DEF TeleInv, OtlpRequestsInv, OtlpRequestIs
    <2>3. OtlpRequestIs(q)'
      BY <1>1, <1>3, <1>4, <2>2 DEF OtlpRequestIs
    <2> QED  BY <2>1, <2>3 DEF OtlpRequestsInv
  <1>8. TableInv'
    BY <1>1, <1>5, <1>6, TableStays
  <1>9. AnsweredInv'
    BY <1>1, <1>3, <1>4, <1>6, AnswersStay
  <1> QED  BY <1>5, <1>7, <1>8, <1>9 DEF TeleInv

\* A receiver has the collector write.
LEMMA FlushStep ==
  ASSUME TeleInv, NEW q \in Receivers, Tele!Flush(q)
  PROVE  TeleInv'
  <1>1. /\ recv[q].at = "flush" /\ Tele!Flushed(q)
        /\ UNCHANGED <<begun, envelopes, exported, batch, table, acked, blind, unexcused,
                       failures>>
    BY DEF Tele!Flush
  <1>2. PICK at \in {"write", "resolve"} :
          /\ recv' = Tele!Moved(q, at)
          /\ at = "resolve" => unwritten = {} /\ unwritten' = {} /\ carried' = carried
          /\ at = "write" => unwritten' = {} /\ carried' = [carried EXCEPT ![q] = unwritten]
    BY <1>1 DEF Tele!Flushed
  <1>3. q \in Tele!Flushers /\ carried \in [Tele!Flushers -> SUBSET Nat] /\ TeleTypes
    BY DEF TeleInv, TeleTypes, Tele!Flushers
  <1>4. /\ recv' \in [Receivers -> OtlpRequests]
        /\ \A p \in Receivers \ {q} : recv'[p] = recv[p]
        /\ recv'[q].at = at /\ recv'[q].batch = recv[q].batch
        /\ recv'[q].found = recv[q].found
    BY <1>2, <1>3, MovedTo
  <1>5. carried[q] = {} /\ OtlpRequestIs(q)
    BY <1>1 DEF TeleInv, OtlpRequestsInv, OtlpRequestIs
  <1>6. /\ unwritten' = {} /\ carried' \in [Tele!Flushers -> SUBSET Nat]
        /\ \A f \in Tele!Flushers : f # q => carried'[f] = carried[f]
        /\ carried'[q] = unwritten
        /\ at = "resolve" => carried'[q] = {}
    BY <1>2, <1>3, <1>5 DEF TeleInv, TeleTypes
  <1>7. TeleTypes' /\ BatchesInv' /\ unexcused' = {}
    BY <1>1, <1>4, <1>6 DEF TeleInv, TeleTypes, BatchesInv
  <1>8. RunsInv'
    <2>1. ASSUME NEW r \in 1 .. begun
          PROVE  r \in envelopes \/ \E f \in Tele!Flushers : r \in carried'[f]
      BY <1>3, <1>5, <1>6 DEF TeleInv, RunsInv
    <2>2. \A f \in Tele!Flushers : carried'[f] \subseteq 1 .. begun
      BY <1>6 DEF TeleInv, RunsInv
    <2> QED  BY <1>1, <1>6, <2>1, <2>2 DEF TeleInv, RunsInv
  <1>9. Grown
    BY <1>1 DEF Grown
  <1>10. OtlpRequestsInv'
    <2>1. ASSUME NEW p \in Receivers \ {q}  PROVE OtlpRequestIs(p)'
      <3>1. carried'[p] = carried[p]
        BY <1>6 DEF Tele!Flushers
      <3> QED  BY <1>1, <1>4, <1>6, <1>9, <3>1, RequestStays
    <2>2. OtlpRequestIs(q)'
      BY <1>1, <1>4, <1>5, <1>6 DEF OtlpRequestIs, Tele!Items
    <2> QED  BY <2>1, <2>2 DEF OtlpRequestsInv
  <1>11. TableInv'
    BY <1>1, <1>7, <1>9, TableStays
  <1>12. AnsweredInv'
    BY <1>1, <1>4, <1>9, AnswersStay
  <1> QED  BY <1>7, <1>8, <1>10, <1>11, <1>12 DEF TeleInv

\* The collector's own loop takes what is to be written.
LEMMA LoopFlushStep ==
  ASSUME TeleInv, Tele!LoopFlush
  PROVE  TeleInv'
  <1>1. /\ carried[FlushLoop] = {} /\ unwritten' = {}
        /\ carried' = [carried EXCEPT ![FlushLoop] = unwritten]
        /\ UNCHANGED <<begun, envelopes, exported, batch, recv, table, acked, blind, unexcused,
                       failures>>
    BY DEF Tele!LoopFlush
  <1>2. /\ FlushLoop \in Tele!Flushers /\ carried \in [Tele!Flushers -> SUBSET Nat]
        /\ unwritten \subseteq Nat /\ FlushLoop \notin Receivers
    BY RecordsAssumption DEF TeleInv, TeleTypes, Tele!Flushers
  <1>3. /\ carried' \in [Tele!Flushers -> SUBSET Nat] /\ carried'[FlushLoop] = unwritten
        /\ \A f \in Tele!Flushers : f # FlushLoop => carried'[f] = carried[f]
        /\ \A q \in Receivers : carried'[q] = carried[q]
    BY <1>1, <1>2 DEF Tele!Flushers
  <1>4. TeleTypes' /\ BatchesInv' /\ unexcused' = {}
    BY <1>1, <1>3 DEF TeleInv, TeleTypes, BatchesInv
  <1>5. RunsInv'
    <2>1. ASSUME NEW r \in 1 .. begun
          PROVE  r \in envelopes \/ \E f \in Tele!Flushers : r \in carried'[f]
      BY <1>1, <1>2, <1>3 DEF TeleInv, RunsInv
    <2>2. \A f \in Tele!Flushers : carried'[f] \subseteq 1 .. begun
      BY <1>3 DEF TeleInv, RunsInv
    <2> QED  BY <1>1, <2>1, <2>2 DEF TeleInv, RunsInv
  <1>6. Grown
    BY <1>1 DEF Grown
  <1>7. OtlpRequestsInv'
    BY <1>1, <1>3, <1>6, RequestStays DEF OtlpRequestsInv
  <1>8. TableInv'
    BY <1>1, <1>4, <1>6, TableStays
  <1>9. AnsweredInv'
    BY <1>1 DEF TeleInv, AnsweredInv, InTable, Tele!Items
  <1> QED  BY <1>4, <1>5, <1>7, <1>8, <1>9 DEF TeleInv

\* What was taken is written, or the write fails.
LEMMA RunsWriteStep ==
  ASSUME TeleInv, NEW f \in Tele!Flushers, Tele!Write(f) \/ Tele!WriteFails(f)
  PROVE  TeleInv'
  <1>1. /\ carried[f] # {} /\ carried' = [carried EXCEPT ![f] = {}] /\ Tele!Back(f)
        /\ UNCHANGED <<begun, exported, batch, table, acked, blind, unexcused>>
        /\ \/ /\ envelopes' = envelopes \cup carried[f] /\ unwritten' = unwritten
              /\ failures' = failures
           \/ /\ unwritten' = unwritten \cup carried[f] /\ envelopes' = envelopes
              /\ failures' = failures + 1
    BY DEF Tele!Write, Tele!WriteFails
  <1>2. /\ carried \in [Tele!Flushers -> SUBSET Nat] /\ failures \in Nat /\ TeleTypes
        /\ recv \in [Receivers -> OtlpRequests]
    BY DEF TeleInv, TeleTypes
  <1>3. /\ carried' \in [Tele!Flushers -> SUBSET Nat] /\ carried'[f] = {}
        /\ \A g \in Tele!Flushers : g # f => carried'[g] = carried[g]
    BY <1>1, <1>2
  <1>4. /\ recv' \in [Receivers -> OtlpRequests]
        /\ \A p \in Receivers \ {f} : recv'[p] = recv[p]
        /\ f \in Receivers => /\ recv'[f].at = "resolve" /\ recv'[f].batch = recv[f].batch
                              /\ recv'[f].found = recv[f].found
    <2>1. CASE f \in Receivers
      <3>1. recv' = Tele!Moved(f, "resolve")
        BY <1>1, <2>1 DEF Tele!Back
      <3> QED  BY <1>2, <2>1, <3>1, MovedTo
    <2>2. CASE f \notin Receivers
      BY <1>1, <1>2, <2>2 DEF Tele!Back
    <2> QED  BY <2>1, <2>2
  <1>5. TeleTypes' /\ BatchesInv' /\ unexcused' = {}
    <2>1. carried[f] \subseteq Nat /\ unwritten \subseteq Nat /\ envelopes \subseteq Nat
      BY <1>2 DEF TeleTypes
    <2>2. unwritten' \subseteq Nat /\ envelopes' \subseteq Nat
      BY <1>1, <2>1
    <2>3. failures' \in Nat
      BY <1>1, <1>2
    <2>4. TeleTypes'
      BY <1>1, <1>2, <1>3, <1>4, <2>2, <2>3 DEF TeleTypes
    <2> QED  BY <1>1, <2>4 DEF TeleInv, BatchesInv
  <1>6. RunsInv'
    <2>1. ASSUME NEW r \in 1 .. begun
          PROVE  r \in unwritten' \/ r \in envelopes' \/ \E g \in Tele!Flushers : r \in carried'[g]
      BY <1>1, <1>3 DEF TeleInv, RunsInv
    <2>2. /\ \A g \in Tele!Flushers : carried'[g] \subseteq 1 .. begun
          /\ unwritten' \subseteq 1 .. begun /\ envelopes' \subseteq 1 .. begun
      BY <1>1, <1>3 DEF TeleInv, RunsInv
    <2> QED  BY <1>1, <2>1, <2>2 DEF TeleInv, RunsInv
  <1>7. Grown
    BY <1>1 DEF Grown
  <1>8. OtlpRequestsInv'
    <2>1. ASSUME NEW p \in Receivers, p # f  PROVE OtlpRequestIs(p)'
      <3>1. carried'[p] = carried[p] /\ recv'[p] = recv[p]
        BY <1>3, <1>4, <2>1 DEF Tele!Flushers
      <3>2. failures' = 0 => failures = 0 /\ unwritten' = unwritten
        BY <1>1, <1>2
      <3> QED  BY <1>7, <3>1, <3>2, RequestStays
    <2>2. ASSUME f \in Receivers  PROVE OtlpRequestIs(f)'
      <3>1. OtlpRequestIs(f) /\ recv[f].at = "write" /\ recv[f].found = <<>>
        BY <1>1, <2>2 DEF TeleInv, OtlpRequestsInv, OtlpRequestIs
      <3>2. failures' = 0 => failures = 0 /\ unwritten' = unwritten
        BY <1>1, <1>2
      <3> QED  BY <1>1, <1>3, <1>4, <2>2, <3>1, <3>2 DEF OtlpRequestIs, Tele!Items
    <2> QED  BY <2>1, <2>2 DEF OtlpRequestsInv
  <1>9. TableInv'
    BY <1>1, <1>5, <1>7, TableStays
  <1>10. AnsweredInv'
    <2>1. CASE f \in Receivers
      BY <1>1, <1>4, <1>7, <2>1, AnswersStay
    <2>2. CASE f \notin Receivers
      <3>1. \A p \in Receivers : recv'[p] = recv[p]
        BY <1>4, <2>2
      <3> QED  BY <1>1, <3>1 DEF TeleInv, AnsweredInv, InTable, Tele!Items
    <2> QED  BY <2>1, <2>2
  <1> QED  BY <1>5, <1>6, <1>8, <1>9, <1>10 DEF TeleInv

\* A run is found for the next item of the batch.
LEMMA ResolveStep ==
  ASSUME TeleInv, NEW q \in Receivers, Tele!Resolve(q)
  PROVE  TeleInv'
  <1>1. /\ TeleTypes /\ BatchesInv /\ RunsInv /\ OtlpRequestIs(q) /\ recv[q] \in OtlpRequests
        /\ recv[q].at = "resolve"
    BY DEF TeleInv, OtlpRequestsInv, TeleTypes, Tele!Resolve
  <1>2. PICK b \in DOMAIN batch : b = recv[q].batch
    BY <1>1 DEF OtlpRequestIs
  <1>3. PICK found \in Seq(Nat) : found = recv[q].found
    BY <1>1 DEF OtlpRequests
  <1>4. PICK i : i = batch[b].first + (Len(found) + 1) - 1
    OBVIOUS
  <1>5. PICK first : first = Tele!First(b, i)
    OBVIOUS
  <1> DEFINE t == exported[i].run
             pos == first - batch[b].first + 1
             run == IF first = i THEN Tele!RunAt(t) ELSE found[pos]
             unseen == exported[first].run \notin envelopes
  <1>6. /\ i \in Tele!Items(b)
        /\ recv' = [recv EXCEPT ![q].found = Append(found, run)]
        /\ blind' = IF (first = i /\ unseen) \/ (first # i /\ first \in blind)
                    THEN blind \cup {i} ELSE blind
        /\ unexcused' =
             IF first = i /\ unseen /\ failures = 0 /\ \A f \in Tele!Flushers : t \notin carried[f]
             THEN unexcused \cup {i} ELSE unexcused
        /\ UNCHANGED <<begun, unwritten, carried, envelopes, exported, batch, table, acked,
                       failures>>
    BY <1>2, <1>3, <1>4, <1>5 DEF Tele!Resolve, Tele!ItemAt
  <1>7. /\ i \in DOMAIN exported /\ i \in Nat /\ first \in Tele!Items(b) /\ first <= i
        /\ Tele!First(b, first) = first
    BY <1>1, <1>5, <1>6, FirstFacts
  <1>8. /\ batch[b].first \in Nat /\ batch[b].last \in Nat /\ first \in Nat
        /\ batch[b].first <= first /\ i <= batch[b].last
    <2>1. batch[b] \in Batches
      BY <1>1 DEF TeleTypes
    <2>2. batch[b].first \in Nat /\ batch[b].last \in Nat
      BY <2>1 DEF Batches
    <2> QED  BY <1>6, <1>7, <2>2 DEF Tele!Items
  <1>9. \A n \in Nat : Tele!ItemAt(q, n) = batch[b].first + n - 1
    BY <1>2 DEF Tele!ItemAt
  <1>10. t \in 1 .. begun /\ begun \in Nat /\ envelopes \subseteq 1 .. begun
    BY <1>1, <1>7 DEF RunsInv, TeleTypes
  <1>11. Tele!RunAt(t) \in Nat /\ (t \in envelopes => Tele!RunAt(t) = t)
    <2> DEFINE eligible == {r \in envelopes : r <= t}
    <2>1. eligible \in SUBSET (0 .. begun) /\ envelopes \in SUBSET (0 .. begun)
      <3>1. \A r \in envelopes : r \in 0 .. begun
        BY <1>10
      <3> QED  BY <3>1
    <2>2. eligible # {} => Tele!Max(eligible) \in eligible
                           /\ \A r \in eligible : r <= Tele!Max(eligible)
      BY <1>10, <2>1, GreatestNumber
    <2>3. envelopes # {} => Tele!Max(envelopes) \in envelopes
      BY <1>10, <2>1, GreatestNumber
    <2>4. Tele!Unscoped = 0
      BY DEF Tele!Unscoped
    <2>5. Tele!RunAt(t) = CASE eligible # {} -> Tele!Max(eligible)
                            [] eligible = {} /\ envelopes # {} -> Tele!Max(envelopes)
                            [] OTHER -> Tele!Unscoped
      BY DEF Tele!RunAt
    <2>6. CASE eligible # {}
      <3>1. Tele!RunAt(t) = Tele!Max(eligible)
        BY <2>5, <2>6
      <3>2. PICK m : m = Tele!Max(eligible)
        OBVIOUS
      <3>3. m \in eligible /\ \A r \in eligible : r <= m
        BY <2>2, <2>6, <3>2
      <3>4. m \in envelopes /\ m <= t /\ (t \in envelopes /\ t <= t => t <= m)
        BY <3>3
      <3>5. t \in Nat /\ m \in Nat
        BY <1>10, <3>4
      <3> QED  BY <3>1, <3>2, <3>4, <3>5
    <2>7. CASE eligible = {}
      <3>1. t \notin envelopes
        BY <1>10, <2>7
      <3>2. CASE envelopes # {}
        BY <1>10, <2>3, <2>5, <2>7, <3>1, <3>2
      <3>3. CASE envelopes = {}
        BY <2>4, <2>5, <2>7, <3>3
      <3> QED  BY <3>1, <3>2, <3>3
    <2> QED  BY <2>6, <2>7
  <1>12. first # i => pos \in 1 .. Len(found) /\ pos \in DOMAIN found
                      /\ Tele!ItemAt(q, pos) = first
    <2> SUFFICES ASSUME first # i
                 PROVE  pos \in 1 .. Len(found) /\ pos \in DOMAIN found
                        /\ Tele!ItemAt(q, pos) = first
      OBVIOUS
    <2>1. Len(found) \in Nat /\ DOMAIN found = 1 .. Len(found)
      BY <1>3
    <2>2. i = batch[b].first + Len(found) /\ first < i
      BY <1>4, <1>7, <1>8, <2>1
    <2>3. pos \in Nat /\ 1 <= pos /\ pos <= Len(found)
      BY <1>7, <1>8, <2>1, <2>2
    <2>4. Tele!ItemAt(q, pos) = batch[b].first + pos - 1
      BY <1>9, <2>3
    <2> QED  BY <1>8, <2>1, <2>3, <2>4
  <1>13. run \in Nat
    BY <1>3, <1>11, <1>12
  <1>14. first = i /\ ~unseen => run = RunFor(b, i)
    BY <1>5, <1>11 DEF RunFor
  <1>15. first # i /\ first \notin blind => run = RunFor(b, i)
    <2> SUFFICES ASSUME first # i, first \notin blind  PROVE run = RunFor(b, i)
      OBVIOUS
    <2>1. found[pos] = RunFor(b, Tele!ItemAt(q, pos))
      BY <1>1, <1>2, <1>3, <1>12 DEF OtlpRequestIs
    <2> QED  BY <1>5, <1>7, <1>12, <2>1 DEF RunFor
  <1> HIDE DEF run
  <1>16. /\ i \in blind' \/ run = RunFor(b, i)
         /\ blind \subseteq blind'
    BY <1>6, <1>14, <1>15
  <1>17. unexcused' = {}
    <2>1. unexcused = {}
      BY DEF TeleInv
    <2>2. ~(first = i /\ unseen /\ failures = 0 /\ \A f \in Tele!Flushers : t \notin carried[f])
      <3> SUFFICES ASSUME first = i, unseen, failures = 0,
                          \A f \in Tele!Flushers : t \notin carried[f]
                   PROVE  FALSE
        OBVIOUS
      <3>1. t \notin envelopes
        OBVIOUS
      <3>2. t \notin unwritten
        BY <1>1, <1>2, <1>6 DEF OtlpRequestIs
      <3> QED  BY <1>1, <1>10, <3>1, <3>2 DEF RunsInv
    <2> QED  BY <1>6, <2>1, <2>2
  <1>18. /\ recv \in [Receivers -> OtlpRequests] /\ recv' \in [Receivers -> OtlpRequests]
         /\ recv'[q].found = Append(found, run) /\ recv'[q].at = "resolve" /\ recv'[q].batch = b
         /\ \A p \in Receivers \ {q} : recv'[p] = recv[p]
    <2> DEFINE next == [recv[q] EXCEPT !.found = Append(found, run)]
    <2>1. recv \in [Receivers -> OtlpRequests] /\ recv' = [recv EXCEPT ![q] = next]
      BY <1>1, <1>6 DEF TeleTypes
    <2>2. Append(found, run) \in Seq(Nat)
      BY <1>3, <1>13
    <2>3. next \in OtlpRequests /\ next.found = Append(found, run) /\ next.at = recv[q].at
          /\ next.batch = recv[q].batch
      BY ONLY <1>1, <2>2 DEF OtlpRequests
    <2> HIDE DEF next
    <2> QED  BY <1>1, <1>2, <2>1, <2>3
  <1>19. TeleTypes' /\ RunsInv' /\ BatchesInv'
    BY <1>1, <1>6, <1>18 DEF TeleTypes, RunsInv, BatchesInv
  <1>20. Grown
    BY <1>6, <1>16 DEF Grown
  <1>21. OtlpRequestIs(q)'
    <2>1. /\ Len(found) \in Nat /\ DOMAIN found = 1 .. Len(found)
          /\ Len(Append(found, run)) = Len(found) + 1
          /\ DOMAIN Append(found, run) = 1 .. (Len(found) + 1)
          /\ \A n \in DOMAIN found : Append(found, run)[n] = found[n]
          /\ Append(found, run)[Len(found) + 1] = run
      BY <1>3, <1>13
    <2>2. \A n \in Nat : Tele!ItemAt(q, n)' = batch[b].first + n - 1
      BY <1>6, <1>18 DEF Tele!ItemAt
    <2>3. Tele!ItemAt(q, Len(recv[q].found))' = i
      BY <1>4, <1>8, <1>18, <2>1, <2>2
    <2>4. carried[q] = {}
      BY <1>1 DEF OtlpRequestIs
    <2>5. (failures = 0 => \A j \in Tele!Items(b) : exported[j].run \notin unwritten)'
      BY <1>1, <1>2, <1>6 DEF OtlpRequestIs, Tele!Items
    <2>6. ASSUME NEW n \in DOMAIN recv'[q].found, Tele!ItemAt(q, n)' \notin blind'
          PROVE  recv'[q].found[n] = RunFor(recv[q].batch, Tele!ItemAt(q, n))'
      <3>1. n \in 1 .. (Len(found) + 1) /\ n \in Nat
        BY <1>18, <2>1, <2>6
      <3>2. PICK j : j = Tele!ItemAt(q, n) /\ j = Tele!ItemAt(q, n)'
        BY <1>9, <2>2, <3>1
      <3>3. RunFor(recv[q].batch, Tele!ItemAt(q, n))' = RunFor(b, j)
        BY <1>6, <1>18, <3>2 DEF RunFor, Tele!First
      <3>4. CASE n \in DOMAIN found
        <4>1. Tele!ItemAt(q, n) \notin blind
          BY <1>16, <2>6, <3>2
        <4>2. found[n] = RunFor(b, j)
          BY <1>1, <1>2, <1>3, <3>2, <3>4, <4>1 DEF OtlpRequestIs
        <4> QED  BY <1>18, <2>1, <3>3, <3>4, <4>2
      <3>5. CASE n = Len(found) + 1
        <4>1. j = i
          BY <1>4, <2>1, <2>2, <3>2, <3>5
        <4>2. run = RunFor(b, i)
          BY <1>16, <2>6, <3>2, <4>1
        <4> QED  BY <1>18, <2>1, <3>3, <3>5, <4>1, <4>2
      <3> QED  BY <2>1, <3>1, <3>4, <3>5
    <2>7. (recv[q].at # "idle" => recv[q].batch \in DOMAIN batch)'
      BY <1>6, <1>18
    <2>8. (recv[q].found # <<>> =>
             Tele!ItemAt(q, Len(recv[q].found)) <= batch[recv[q].batch].last)'
      BY <1>6, <1>8, <1>18, <2>3
    <2> QED  BY <1>6, <1>18, <2>4, <2>5, <2>6, <2>7, <2>8 DEF OtlpRequestIs
  <1>22. OtlpRequestsInv'
    BY <1>6, <1>18, <1>20, <1>21, RequestStays DEF OtlpRequestsInv
  <1>23. TableInv'
    BY <1>6, <1>19, <1>20, TableStays
  <1>24. AnsweredInv'
    BY <1>6, <1>18, <1>20, AnswersStay
  <1> QED  BY <1>17, <1>19, <1>22, <1>23, <1>24 DEF TeleInv

\* A request that is over carries nothing.
LEMMA RequestEnds ==
  ASSUME TeleInv, NEW q \in Receivers, recv[q].at \in {"store", "answer"},
         recv' = [recv EXCEPT ![q] = Tele!NoRequest], carried' = carried
  PROVE  /\ recv' \in [Receivers -> OtlpRequests] /\ OtlpRequestIs(q)'
         /\ recv'[q].at = "idle" /\ \A p \in Receivers \ {q} : recv'[p] = recv[p]
  <1>1. recv \in [Receivers -> OtlpRequests] /\ OtlpRequestIs(q)
    BY DEF TeleInv, TeleTypes, OtlpRequestsInv
  <1>2. /\ Tele!NoRequest \in OtlpRequests /\ Tele!NoRequest.at = "idle"
        /\ Tele!NoRequest.found = <<>>
    BY DEF Tele!NoRequest, OtlpRequests
  <1>3. /\ recv' \in [Receivers -> OtlpRequests] /\ recv'[q] = Tele!NoRequest
        /\ \A p \in Receivers \ {q} : recv'[p] = recv[p]
    BY <1>1, <1>2
  <1>4. carried'[q] = {}
    BY <1>1 DEF OtlpRequestIs
  <1>5. OtlpRequestIs(q)'
    BY <1>2, <1>3, <1>4 DEF OtlpRequestIs
  <1> QED  BY <1>2, <1>3, <1>5

\* A request that goes on with what it has found.
LEMMA RequestMoves ==
  ASSUME TeleInv, NEW q \in Receivers, recv[q].at \in {"resolve", "store"},
         recv'[q].at \in {"store", "answer"}, recv'[q].batch = recv[q].batch,
         recv'[q].found = recv[q].found,
         Tele!ItemAt(q, Len(recv[q].found)) = batch[recv[q].batch].last,
         UNCHANGED <<exported, batch, carried, blind>>
  PROVE  OtlpRequestIs(q)'
  <1>1. OtlpRequestIs(q) /\ recv[q] \in OtlpRequests
    BY DEF TeleInv, OtlpRequestsInv, TeleTypes
  <1>2. PICK b \in DOMAIN batch : b = recv[q].batch
    BY <1>1 DEF OtlpRequestIs
  <1>3. PICK found \in Seq(Nat) : found = recv[q].found
    BY <1>1 DEF OtlpRequests
  <1>4. DOMAIN found = 1 .. Len(found) /\ Len(found) \in Nat
    BY <1>3
  <1>5. \A n \in Nat : Tele!ItemAt(q, n)' = Tele!ItemAt(q, n)
    BY DEF Tele!ItemAt
  <1>6. \A j : RunFor(b, j)' = RunFor(b, j)
    BY DEF RunFor, Tele!First
  <1>7. Tele!ItemAt(q, Len(recv[q].found))' = batch[b].last
    BY <1>2, <1>3, <1>4, <1>5
  <1>8. batch[b].last \in Nat
    <2>1. batch[b] \in Batches
      BY <1>2 DEF TeleInv, TeleTypes
    <2> QED  BY <2>1 DEF Batches
  <1>9. carried[q] = {}
    BY <1>1 DEF OtlpRequestIs
  <1>10. ASSUME NEW n \in DOMAIN recv'[q].found, Tele!ItemAt(q, n)' \notin blind'
         PROVE  recv'[q].found[n] = RunFor(recv[q].batch, Tele!ItemAt(q, n))'
    <2>1. n \in DOMAIN found /\ n \in Nat
      BY <1>3, <1>4, <1>10
    <2>2. PICK j : j = Tele!ItemAt(q, n) /\ j = Tele!ItemAt(q, n)'
      BY <1>5, <2>1
    <2>3. found[n] = RunFor(b, j)
      BY <1>1, <1>2, <1>3, <1>10, <2>1, <2>2 DEF OtlpRequestIs
    <2>4. RunFor(recv[q].batch, Tele!ItemAt(q, n))' = RunFor(b, j)
      BY <1>2, <2>2 DEF RunFor, Tele!First
    <2> QED  BY <1>3, <2>3, <2>4
  <1>11. (/\ recv[q].at # "idle" => recv[q].batch \in DOMAIN batch
          /\ recv[q].at \in {"idle", "flush", "write"} => recv[q].found = <<>>
          /\ recv[q].found # <<>> => Tele!ItemAt(q, Len(recv[q].found)) <= batch[recv[q].batch].last
          /\ recv[q].at \in {"store", "answer"} =>
               Tele!ItemAt(q, Len(recv[q].found)) = batch[recv[q].batch].last
          /\ carried[q] # {} => recv[q].at = "write"
          /\ recv[q].at \in {"write", "resolve"} /\ failures = 0 =>
               \A i \in Tele!Items(recv[q].batch) : exported[i].run \notin unwritten)'
    BY <1>2, <1>7, <1>8, <1>9
  <1> QED  BY <1>10, <1>11 DEF OtlpRequestIs

\* The rows that are there are looked up.
LEMMA LookUpStep ==
  ASSUME TeleInv, NEW q \in Receivers, Tele!LookUp(q)
  PROVE  TeleInv'
  <1> DEFINE next == [recv[q] EXCEPT !.at = "store", !.seen = Tele!Keys \cap Tele!KeysOf(q)]
  <1>1. /\ recv[q].at = "resolve" /\ recv' = [recv EXCEPT ![q] = next]
        /\ Tele!ItemAt(q, Len(recv[q].found)) = batch[recv[q].batch].last
        /\ UNCHANGED <<begun, unwritten, carried, envelopes, exported, batch, table, acked, blind,
                       unexcused, failures>>
    BY DEF Tele!LookUp
  <1>2. TeleTypes /\ recv \in [Receivers -> OtlpRequests] /\ recv[q] \in OtlpRequests
    BY DEF TeleInv, TeleTypes
  <1>3. Tele!Keys \cap Tele!KeysOf(q) \in SUBSET Seq(Nat)
    <2>1. \A e \in table : e.item \in Nat /\ e.run \in Nat
      BY <1>2 DEF TeleTypes, TableRows
    <2>2. \A e \in table : Tele!Key(e.item, e.run) \in Seq(Nat)
      BY <2>1 DEF Tele!Key
    <2> QED  BY <2>2 DEF Tele!Keys
  <1>4. /\ next \in OtlpRequests /\ next.at = "store" /\ next.batch = recv[q].batch
        /\ next.found = recv[q].found
    BY ONLY <1>2, <1>3 DEF OtlpRequests
  <1> HIDE DEF next
  <1>5. /\ recv' \in [Receivers -> OtlpRequests] /\ recv'[q] = next
        /\ \A p \in Receivers \ {q} : recv'[p] = recv[p]
    BY <1>1, <1>2, <1>4
  <1>6. TeleTypes' /\ RunsInv' /\ BatchesInv' /\ unexcused' = {}
    BY <1>1, <1>5 DEF TeleInv, TeleTypes, RunsInv, BatchesInv
  <1>7. Grown
    BY <1>1 DEF Grown
  <1>8. OtlpRequestIs(q)'
    BY <1>1, <1>4, <1>5, RequestMoves
  <1>9. OtlpRequestsInv'
    BY <1>1, <1>5, <1>7, <1>8, RequestStays DEF OtlpRequestsInv
  <1>10. TableInv'
    BY <1>1, <1>6, <1>7, TableStays
  <1>11. AnsweredInv'
    BY <1>1, <1>4, <1>5, <1>7, AnswersStay
  <1> QED  BY <1>6, <1>9, <1>10, <1>11 DEF TeleInv

\* The rows of a request are one for each item of its batch, under its run.
LEMMA RowsForFacts ==
  ASSUME TeleInv, NEW q \in Receivers, recv[q].at = "store",
         NEW b \in DOMAIN batch, b = recv[q].batch
  PROVE  /\ Tele!RowsFor(q) \subseteq TableRows
         /\ \A e \in Tele!RowsFor(q) : e.item \in Tele!Items(b) /\ RowIs(e)
         /\ \A i \in Tele!Items(b) : \E e \in Tele!RowsFor(q) : e.item = i
  <1>1. /\ OtlpRequestIs(q) /\ recv[q] \in OtlpRequests /\ TeleTypes /\ BatchesInv
        /\ batch[b] \in Batches
    BY DEF TeleInv, OtlpRequestsInv, TeleTypes
  <1>2. PICK found \in Seq(Nat) : found = recv[q].found
    BY <1>1 DEF OtlpRequests
  <1>3. DOMAIN found = 1 .. Len(found) /\ Len(found) \in Nat /\ \A n \in DOMAIN found : found[n] \in Nat
    BY <1>2
  <1>4. batch[b].first \in Nat /\ batch[b].last \in Nat
    BY <1>1 DEF Batches
  <1>5. \A n \in Nat : Tele!ItemAt(q, n) = batch[b].first + n - 1
    BY DEF Tele!ItemAt
  <1>6. batch[b].first + Len(found) - 1 = batch[b].last
    BY <1>1, <1>2, <1>3, <1>5 DEF OtlpRequestIs
  <1>7. Tele!RowsFor(q) = {[item |-> Tele!ItemAt(q, n), run |-> found[n]] : n \in DOMAIN found}
    BY <1>2 DEF Tele!RowsFor
  <1>8. \A n \in DOMAIN found : Tele!ItemAt(q, n) \in Tele!Items(b) /\ Tele!ItemAt(q, n) \in Nat
    <2> SUFFICES ASSUME NEW n \in DOMAIN found
                 PROVE  Tele!ItemAt(q, n) \in Tele!Items(b) /\ Tele!ItemAt(q, n) \in Nat
      OBVIOUS
    <2>1. n \in Nat /\ 1 <= n /\ n <= Len(found)
      BY <1>3
    <2>2. PICK j : j = batch[b].first + n - 1
      OBVIOUS
    <2>3. j \in Nat /\ batch[b].first <= j /\ j <= batch[b].last
      BY <1>3, <1>4, <1>6, <2>1, <2>2
    <2>4. Tele!ItemAt(q, n) = j
      BY <1>5, <2>1, <2>2
    <2> QED  BY <1>4, <2>3, <2>4 DEF Tele!Items
  <1>9. ASSUME NEW e \in Tele!RowsFor(q)
        PROVE  e \in TableRows /\ e.item \in Tele!Items(b) /\ RowIs(e)
    <2>1. PICK n \in DOMAIN found : e = [item |-> Tele!ItemAt(q, n), run |-> found[n]]
      BY <1>7
    <2>2. e.item = Tele!ItemAt(q, n) /\ e.run = found[n] /\ e \in TableRows
      BY <1>3, <1>8, <2>1 DEF TableRows
    <2>3. e.item \in Tele!Items(b)
      BY <1>8, <2>2
    <2>4. e.item \notin blind => e.run = RunFor(b, e.item)
      BY <1>1, <1>2, <2>2 DEF OtlpRequestIs
    <2>5. \A c \in DOMAIN batch : e.item \in Tele!Items(c) => c = b
      BY <1>1, <2>3, OneBatch
    <2> QED  BY <2>2, <2>3, <2>4, <2>5 DEF RowIs
  <1>10. ASSUME NEW i \in Tele!Items(b)  PROVE \E e \in Tele!RowsFor(q) : e.item = i
    <2>1. i \in Nat /\ batch[b].first <= i /\ i <= batch[b].last
      BY <1>4 DEF Tele!Items
    <2>2. PICK n \in DOMAIN found : n = i - batch[b].first + 1
      BY <1>3, <1>4, <1>6, <2>1
    <2>3. n \in Nat /\ Tele!ItemAt(q, n) = i
      <3>1. n \in Nat
        BY <1>3
      <3>2. Tele!ItemAt(q, n) = batch[b].first + n - 1
        BY <1>5, <3>1
      <3>3. ASSUME NEW z \in Nat, n = i - z + 1  PROVE z + n - 1 = i
        BY <2>1, <3>1, <3>3
      <3> QED  BY <1>4, <2>2, <3>1, <3>2, <3>3
    <2>4. [item |-> Tele!ItemAt(q, n), run |-> found[n]] \in Tele!RowsFor(q)
      BY <1>7
    <2> QED  BY <2>3, <2>4
  <1> QED  BY <1>9, <1>10

\* The rows are stored.
LEMMA StoreStep ==
  ASSUME TeleInv, NEW q \in Receivers, Tele!Store(q)
  PROVE  TeleInv'
  <1>1. /\ recv[q].at = "store" /\ table' = Tele!Stored(q) /\ recv' = Tele!Moved(q, "answer")
        /\ UNCHANGED <<begun, unwritten, carried, envelopes, exported, batch, acked, blind,
                       unexcused, failures>>
    BY DEF Tele!Store
  <1>2. TeleTypes /\ BatchesInv /\ OtlpRequestIs(q)
    BY DEF TeleInv, OtlpRequestsInv
  <1>3. PICK b \in DOMAIN batch : b = recv[q].batch
    BY <1>1, <1>2 DEF OtlpRequestIs
  <1>4. /\ Tele!RowsFor(q) \subseteq TableRows
        /\ \A e \in Tele!RowsFor(q) : e.item \in Tele!Items(b) /\ RowIs(e)
        /\ \A i \in Tele!Items(b) : \E e \in Tele!RowsFor(q) : e.item = i
    BY <1>1, <1>3, RowsForFacts
  <1>5. /\ \A e \in table' : e \in table \/ e \in Tele!RowsFor(q)
        /\ Tele!RowsFor(q) \subseteq table'
        /\ \A e \in table : e \in table' \/ \E f \in Tele!RowsFor(q) : f.item = e.item
    BY <1>1 DEF Tele!Stored
  <1>6. /\ recv' \in [Receivers -> OtlpRequests]
        /\ \A p \in Receivers \ {q} : recv'[p] = recv[p]
        /\ recv'[q].at = "answer" /\ recv'[q].batch = recv[q].batch
        /\ recv'[q].found = recv[q].found
    BY <1>1, <1>2, MovedTo DEF TeleTypes
  <1>7. TeleTypes' /\ RunsInv' /\ BatchesInv' /\ unexcused' = {}
    <2>1. table' \subseteq TableRows
      BY <1>2, <1>4, <1>5 DEF TeleTypes
    <2> QED  BY <1>1, <1>6, <2>1 DEF TeleInv, TeleTypes, RunsInv, BatchesInv
  <1>8. Grown
    BY <1>1 DEF Grown
  <1>9. OtlpRequestIs(q)'
    <2>1. Tele!ItemAt(q, Len(recv[q].found)) = batch[recv[q].batch].last
      BY <1>1, <1>2 DEF OtlpRequestIs
    <2> QED  BY <1>1, <1>6, <2>1, RequestMoves
  <1>10. OtlpRequestsInv'
    BY <1>1, <1>6, <1>8, <1>9, RequestStays DEF OtlpRequestsInv
  <1>11. TableInv'
    <2>1. \A e \in table' : RowIs(e)
      BY <1>4, <1>5 DEF TeleInv, TableInv
    <2>2. \A e : RowIs(e) => RowIs(e)'
      BY <1>1 DEF RowIs, RunFor, Tele!First, Tele!Items
    <2> QED  BY <2>1, <2>2 DEF TableInv
  <1>12. AnsweredInv'
    <2>1. InTable(recv[q].batch)'
      BY <1>1, <1>3, <1>4, <1>5, <1>6 DEF InTable, Tele!Items
    <2>2. \A i : (\E e \in table : e.item = i) => \E e \in table' : e.item = i
      BY <1>5
    <2> QED  BY <1>1, <1>6, <1>8, <2>1, <2>2, AnswersStay
  <1> QED  BY <1>7, <1>10, <1>11, <1>12 DEF TeleInv

\* The rows were stored in between.
LEMMA StoreFailsStep ==
  ASSUME TeleInv, NEW q \in Receivers, Tele!StoreFails(q)
  PROVE  TeleInv'
  <1>1. /\ recv[q].at = "store" /\ recv' = [recv EXCEPT ![q] = Tele!NoRequest]
        /\ UNCHANGED <<begun, unwritten, carried, envelopes, exported, batch, table, acked, blind,
                       unexcused, failures>>
    BY DEF Tele!StoreFails
  <1>2. /\ recv' \in [Receivers -> OtlpRequests] /\ OtlpRequestIs(q)'
        /\ recv'[q].at = "idle" /\ \A p \in Receivers \ {q} : recv'[p] = recv[p]
    BY <1>1, RequestEnds
  <1>3. TeleTypes' /\ RunsInv' /\ BatchesInv' /\ unexcused' = {}
    BY <1>1, <1>2 DEF TeleInv, TeleTypes, RunsInv, BatchesInv
  <1>4. Grown
    BY <1>1 DEF Grown
  <1>5. OtlpRequestsInv'
    BY <1>1, <1>2, <1>4, RequestStays DEF OtlpRequestsInv
  <1>6. TableInv'
    BY <1>1, <1>3, <1>4, TableStays
  <1>7. AnsweredInv'
    BY <1>1, <1>2, <1>4, AnswersStay
  <1> QED  BY <1>3, <1>5, <1>6, <1>7 DEF TeleInv

\* The agent hears that a batch was received, or does not.
LEMMA AnswerStep ==
  ASSUME TeleInv, NEW q \in Receivers, NEW heard \in BOOLEAN, Tele!Answer(q, heard)
  PROVE  TeleInv'
  <1>1. /\ recv[q].at = "answer" /\ recv' = [recv EXCEPT ![q] = Tele!NoRequest]
        /\ acked' = IF heard THEN acked \cup {recv[q].batch} ELSE acked
        /\ UNCHANGED <<begun, unwritten, carried, envelopes, exported, batch, table, blind,
                       unexcused, failures>>
    BY DEF Tele!Answer
  <1>2. /\ recv' \in [Receivers -> OtlpRequests] /\ OtlpRequestIs(q)'
        /\ recv'[q].at = "idle" /\ \A p \in Receivers \ {q} : recv'[p] = recv[p]
    BY <1>1, RequestEnds
  <1>3. TeleTypes' /\ RunsInv' /\ BatchesInv' /\ unexcused' = {}
    BY <1>1, <1>2 DEF TeleInv, TeleTypes, RunsInv, BatchesInv
  <1>4. Grown
    BY <1>1 DEF Grown
  <1>5. OtlpRequestsInv'
    BY <1>1, <1>2, <1>4, RequestStays DEF OtlpRequestsInv
  <1>6. TableInv'
    BY <1>1, <1>3, <1>4, TableStays
  <1>7. AnsweredInv'
    <2>1. /\ recv[q].batch \in DOMAIN batch /\ InTable(recv[q].batch)
          /\ acked \subseteq DOMAIN batch /\ \A b \in acked : InTable(b)
      BY <1>1 DEF TeleInv, AnsweredInv, OtlpRequestsInv, OtlpRequestIs
    <2>2. acked' \subseteq DOMAIN batch' /\ \A b \in acked' : InTable(b)
      BY <1>1, <2>1
    <2>3. \A b : InTable(b) => InTable(b)'
      BY <1>1 DEF InTable, Tele!Items
    <2>4. ASSUME NEW p \in Receivers, recv'[p].at = "answer"  PROVE InTable(recv[p].batch)'
      <3>1. p # q /\ recv'[p] = recv[p]
        BY <1>2, <2>4
      <3>2. InTable(recv[p].batch)
        BY <2>4, <3>1 DEF TeleInv, AnsweredInv
      <3> QED  BY <1>1, <3>1, <3>2 DEF InTable, Tele!Items
    <2> QED  BY <2>2, <2>3, <2>4 DEF AnsweredInv
  <1> QED  BY <1>3, <1>5, <1>6, <1>7 DEF TeleInv

\* Nothing happens in the telemetry.
LEMMA TeleStutter ==
  ASSUME TeleInv, UNCHANGED teleVars
  PROVE  TeleInv'
  <1>1. UNCHANGED <<begun, unwritten, carried, envelopes, exported, batch, recv, table, acked,
                    blind, unexcused, failures>>
    BY DEF teleVars
  <1>2. TeleTypes' /\ RunsInv' /\ BatchesInv' /\ unexcused' = {}
    BY <1>1 DEF TeleInv, TeleTypes, RunsInv, BatchesInv
  <1>3. Grown
    BY <1>1 DEF Grown
  <1>4. OtlpRequestsInv'
    BY <1>1, <1>3, RequestStays DEF OtlpRequestsInv
  <1>5. TableInv'
    BY <1>1, <1>2, <1>3, TableStays
  <1>6. AnsweredInv'
    BY <1>1 DEF TeleInv, AnsweredInv, InTable, Tele!Items
  <1> QED  BY <1>2, <1>4, <1>5, <1>6 DEF TeleInv

\* Every step keeps the invariant of the telemetry.
LEMMA TeleStep ==
  ASSUME TeleInv, [Tele!Next]_teleVars
  PROVE  TeleInv'
  <1>1. CASE Tele!BeginRun
    BY <1>1, BeginRunStep
  <1>2. CASE Tele!Export
    BY <1>2, ExportStep
  <1>3. CASE Tele!LoopFlush
    BY <1>3, LoopFlushStep
  <1>4. ASSUME NEW sort \in {"span", "event"}, NEW trace \in 1 .. MaxBegun,
               Tele!Happen(sort, trace)
        PROVE  TeleInv'
    BY <1>4, HappenStep
  <1>5. ASSUME NEW f \in Tele!Flushers, Tele!Write(f) \/ Tele!WriteFails(f)  PROVE TeleInv'
    BY <1>5, RunsWriteStep
  <1>6. ASSUME NEW q \in Receivers, NEW b \in 1 .. MaxBatches, Tele!Deliver(q, b)
        PROVE  TeleInv'
    BY <1>6, DeliverStep
  <1>7. ASSUME NEW q \in Receivers, Tele!Flush(q) \/ Tele!Resolve(q) \/ Tele!LookUp(q)
        PROVE  TeleInv'
    BY <1>7, FlushStep, ResolveStep, LookUpStep
  <1>8. ASSUME NEW q \in Receivers, Tele!Store(q) \/ Tele!StoreFails(q)
        PROVE  TeleInv'
    BY <1>8, StoreStep, StoreFailsStep
  <1>9. ASSUME NEW q \in Receivers, NEW heard \in BOOLEAN, Tele!Answer(q, heard)
        PROVE  TeleInv'
    BY <1>9, AnswerStep
  <1>10. CASE UNCHANGED teleVars
    BY <1>10, TeleStutter
  <1> QED  BY <1>1, <1>2, <1>3, <1>4, <1>5, <1>6, <1>7, <1>8, <1>9, <1>10 DEF Tele!Next

\* What the agent knows to be received is there, once and under its run.
LEMMA TeleHolds == TeleInv => Tele!TelemetryIsKept
  <1> SUFFICES ASSUME TeleInv  PROVE Tele!TelemetryIsKept
    OBVIOUS
  <1>1. ASSUME NEW b \in acked, NEW i \in Tele!Items(b)  PROVE Tele!RowsOf(i) # {}
    BY DEF TeleInv, AnsweredInv, InTable, Tele!RowsOf
  <1>2. ASSUME NEW e \in table, e.item \notin blind
        PROVE  /\ Tele!RowsOf(e.item) = {e}
               /\ e.run = exported[Tele!Leading(e.item)].run
    <2>1. PICK c : c = CHOOSE b \in DOMAIN batch : e.item \in Tele!Items(b)
      OBVIOUS
    <2>2. c \in DOMAIN batch /\ e.item \in Tele!Items(c)
      BY <2>1 DEF TeleInv, TableInv, RowIs
    <2>3. Tele!Leading(e.item) = Tele!First(c, e.item)
      BY <2>1 DEF Tele!Leading
    <2>4. \A d \in table : d.item = e.item => d.run = RunFor(c, e.item)
      BY <1>2, <2>2 DEF TeleInv, TableInv, RowIs
    <2>5. \A d \in table : d.item = e.item => d = e
      <3>1. \A d \in table : d \in TableRows
        BY DEF TeleInv, TeleTypes
      <3> QED  BY <2>4, <3>1 DEF TableRows
    <2> QED  BY <2>3, <2>4, <2>5 DEF Tele!RowsOf, RunFor
  <1>3. unexcused = {}
    BY DEF TeleInv
  <1> QED  BY <1>1, <1>2, <1>3 DEF Tele!TelemetryIsKept

-----------------------------------------------------------------------------
(* The browsers (Viewers.tla)                                              *)

Casts == [busy : BOOLEAN, dead : SUBSET Viewers]

ViewTypes ==
  /\ log \in Seq(Nat) /\ stored \in Seq(Nat) /\ back \in Seq(Nat) /\ made \in Nat
  /\ turn \in {"idle", "running"} /\ flag \in BOOLEAN /\ cancel \in {"off", "asked", "saved"}
  /\ cast \in [Views!Sources -> Casts] /\ listed \in SUBSET Viewers
  /\ handler \in [Viewers -> {"off", "registered", "loaded", "open"}]
  /\ snap \in [Viewers -> Seq(Nat)] /\ shows \in [Viewers -> Seq(Nat)]
  /\ overdue \in BOOLEAN /\ unsaved \in BOOLEAN

\* A conversation of messages up to m, in the order they were made.
UpTo(ms, m) ==
  \A i \in DOMAIN ms : ms[i] <= m /\ (2 <= i => ms[i - 1] < ms[i])

\* Whoever has a conversation has it in order.
OrderInv ==
  /\ UpTo(log, made) /\ UpTo(stored, made) /\ UpTo(back, made)
  /\ \A v \in Viewers : UpTo(shows[v], made) /\ UpTo(snap[v], made)

\* A browser that has got all it was sent shows the conversation, but between
\* the cut of a cancel and its broadcast.
Follows(v) ==
  /\ ~ overdue /\ ~ unsaved /\ v \notin late /\ Views!Watches(v) /\ cancel = "off"
  /\ \A c \in Views!Sources : v \notin cast[c].dead
  => shows[v] = log

\* A broadcast that is over drops nobody; a run that is cancelled has a cancel
\* that waits for it.
ViewInv ==
  /\ ViewTypes /\ OrderInv
  /\ \A c \in Views!Sources : ~ cast[c].busy => cast[c].dead = {}
  /\ ~ overdue /\ flag /\ turn = "running" => cancel = "asked"
  /\ \A v \in Viewers : Follows(v)

\* A conversation in order may be longer one day.
LEMMA UpToMore ==
  ASSUME NEW m \in Nat, NEW n \in Nat, m <= n, NEW ms \in Seq(Nat), UpTo(ms, m)
  PROVE  UpTo(ms, n)
  <1> SUFFICES ASSUME NEW i \in DOMAIN ms  PROVE ms[i] <= n /\ (2 <= i => ms[i - 1] < ms[i])
    BY DEF UpTo
  <1>1. ms[i] \in Nat /\ ms[i] <= m /\ (2 <= i => ms[i - 1] < ms[i])
    BY DEF UpTo
  <1> QED  BY <1>1

\* A new message goes behind the others.
LEMMA UpToAppend ==
  ASSUME NEW m \in Nat, NEW ms \in Seq(Nat), UpTo(ms, m)
  PROVE  /\ Append(ms, m + 1) \in Seq(Nat) /\ UpTo(Append(ms, m + 1), m + 1)
         /\ ms \o <<m + 1>> = Append(ms, m + 1)
  <1>1. /\ Append(ms, m + 1) \in Seq(Nat) /\ Len(ms) \in Nat /\ DOMAIN ms = 1 .. Len(ms)
        /\ DOMAIN Append(ms, m + 1) = 1 .. (Len(ms) + 1)
        /\ \A i \in DOMAIN ms : Append(ms, m + 1)[i] = ms[i] /\ ms[i] \in Nat
        /\ Append(ms, m + 1)[Len(ms) + 1] = m + 1
    OBVIOUS
  <1>2. ASSUME NEW i \in DOMAIN Append(ms, m + 1)
        PROVE  /\ Append(ms, m + 1)[i] <= m + 1
               /\ 2 <= i => Append(ms, m + 1)[i - 1] < Append(ms, m + 1)[i]
    <2>1. CASE i \in DOMAIN ms
      <3>1. ms[i] \in Nat /\ ms[i] <= m /\ (2 <= i => ms[i - 1] < ms[i])
        BY <2>1 DEF UpTo
      <3>2. 2 <= i => i - 1 \in DOMAIN ms
        BY <1>1, <2>1
      <3> QED  BY <1>1, <2>1, <3>1, <3>2
    <2>2. CASE i = Len(ms) + 1
      <3>1. 2 <= i => i - 1 \in DOMAIN ms
        BY <1>1, <2>2
      <3>2. ASSUME 2 <= i  PROVE Append(ms, m + 1)[i - 1] < m + 1
        <4>1. PICK j \in DOMAIN ms : j = i - 1
          BY <3>1, <3>2
        <4>2. Append(ms, m + 1)[j] = ms[j] /\ ms[j] \in Nat /\ ms[j] <= m
          BY <1>1 DEF UpTo
        <4>3. Append(ms, m + 1)[j] < m + 1
          BY <4>2
        <4> QED  BY <4>1, <4>3
      <3>3. Append(ms, m + 1)[i] = m + 1
        BY <1>1, <2>2
      <3> QED  BY <3>2, <3>3
    <2> QED  BY <1>1, <1>2, <2>1, <2>2
  <1>3. UpTo(Append(ms, m + 1), m + 1)
    BY <1>2 DEF UpTo
  <1>4. ms \o <<m + 1>> = Append(ms, m + 1)
    OBVIOUS
  <1> QED  BY <1>1, <1>3, <1>4

\* What is left of a conversation that was cut is in order.
LEMMA UpToCut ==
  ASSUME NEW m \in Nat, NEW ms \in Seq(Nat), UpTo(ms, m), NEW k \in Nat, k <= Len(ms)
  PROVE  SubSeq(ms, 1, k) \in Seq(Nat) /\ UpTo(SubSeq(ms, 1, k), m)
  <1>1. /\ SubSeq(ms, 1, k) \in Seq(Nat) /\ Len(ms) \in Nat /\ DOMAIN ms = 1 .. Len(ms)
        /\ DOMAIN SubSeq(ms, 1, k) = 1 .. k
        /\ \A i \in 1 .. k : SubSeq(ms, 1, k)[i] = ms[i]
    OBVIOUS
  <1>2. ASSUME NEW i \in 1 .. k
        PROVE  /\ SubSeq(ms, 1, k)[i] <= m
               /\ 2 <= i => SubSeq(ms, 1, k)[i - 1] < SubSeq(ms, 1, k)[i]
    <2>1. i \in DOMAIN ms /\ (2 <= i => i - 1 \in 1 .. k)
      BY <1>1
    <2>2. ms[i] <= m /\ (2 <= i => ms[i - 1] < ms[i])
      BY <2>1 DEF UpTo
    <2> QED  BY <1>1, <2>1, <2>2
  <1> QED  BY <1>1, <1>2 DEF UpTo

\* A browser adds what it has not seen to what it shows.
LEMMA ShownNew ==
  ASSUME NEW m \in Nat, NEW ms \in Seq(Nat), UpTo(ms, m), NEW kind \in {"prompt", "message"}
  PROVE  Views!Shown(ms, Views!Event(kind, <<m + 1>>)) = Append(ms, m + 1)
  <1> DEFINE event == Views!Event(kind, <<m + 1>>)
  <1>1. event.kind = kind /\ event.items = <<m + 1>>
    BY DEF Views!Event
  <1>2. {i \in DOMAIN ms : ms[i] = m + 1} = {}
    <2>1. \A i \in DOMAIN ms : ms[i] \in Nat /\ ms[i] <= m
      BY DEF UpTo
    <2> QED  BY <2>1
  <1>3. Views!Without(ms, m + 1) = ms
    BY <1>2 DEF Views!Without
  <1>4. event.items[1] = m + 1
    BY <1>1
  <1>5. Views!Shown(ms, event) = ms \o <<m + 1>>
    BY <1>1, <1>3, <1>4 DEF Views!Shown
  <1> QED  BY <1>5, UpToAppend

\* What a browser shows after a snapshot or a rewind.
LEMMA ShownWhole ==
  ASSUME NEW ms, NEW whole, NEW kind \in {"connected", "rewind"}
  PROVE  Views!Shown(ms, Views!Event(kind, whole)) = whole
  BY DEF Views!Shown, Views!Event

\* What a broadcast does.
LEMMA BroadcastFacts ==
  ASSUME ViewInv, NEW c \in Views!Sources, NEW kind, NEW items,
         Views!Broadcast(c, Views!Event(kind, items))
  PROVE  \E slow \in SUBSET listed :
           /\ shows' = [v \in Viewers |->
                IF v \in listed \ slow THEN Views!Shown(shows[v], Views!Event(kind, items))
                ELSE shows[v]]
           /\ cast' \in [Views!Sources -> Casts]
           /\ cast'[c].dead = slow
           /\ \A d \in Views!Sources \ {c} : cast'[d] = cast[d]
           /\ \A d \in Views!Sources : ~ cast'[d].busy => cast'[d].dead = {}
           /\ late' = IF kind = "rewind" THEN late \ (listed \ slow) ELSE late
  <1> DEFINE event == Views!Event(kind, items)
  <1>1. event.kind = kind
    BY DEF Views!Event
  <1>2. PICK slow \in SUBSET listed :
          /\ shows' = [v \in Viewers |->
               IF v \in listed \ slow THEN Views!Shown(shows[v], event) ELSE shows[v]]
          /\ cast' = [cast EXCEPT ![c] = [busy |-> listed # {}, dead |-> slow]]
          /\ late' = IF event.kind = "rewind" THEN late \ (listed \ slow) ELSE late
    BY DEF Views!Broadcast
  <1> HIDE DEF event
  <1>3. cast \in [Views!Sources -> Casts] /\ listed \in SUBSET Viewers
        /\ \A d \in Views!Sources : ~ cast[d].busy => cast[d].dead = {}
    BY DEF ViewInv, ViewTypes
  <1>4. PICK held \in BOOLEAN : held = (listed # {})
    OBVIOUS
  <1>5. [busy |-> held, dead |-> slow] \in Casts
    BY <1>3 DEF Casts
  <1>6. cast' = [cast EXCEPT ![c] = [busy |-> held, dead |-> slow]]
    BY <1>2, <1>4
  <1>7. /\ cast' \in [Views!Sources -> Casts] /\ cast'[c] = [busy |-> held, dead |-> slow]
        /\ \A d \in Views!Sources \ {c} : cast'[d] = cast[d]
    BY <1>3, <1>5, <1>6
  <1>8. ~ held => slow = {}
    BY <1>4
  <1> QED  BY <1>1, <1>2, <1>3, <1>7, <1>8 DEF event

\* A message is made, and sent to the browsers.
LEMMA MessageStep ==
  ASSUME ViewInv, NEW kind \in {"prompt", "message"}, ~ cast["run"].busy,
         log' = Append(log, made + 1), made' = made + 1,
         Views!Broadcast("run", Views!Event(kind, <<made + 1>>)),
         stored' = stored \/ stored' = log', turn' = "running",
         flag' = FALSE \/ (flag' = flag /\ turn = "running"),
         UNCHANGED <<cancel, back, listed, handler, snap, overdue, unsaved>>
  PROVE  ViewInv'
  <1>1. ViewTypes /\ OrderInv /\ \A v \in Viewers : Follows(v)
    BY DEF ViewInv
  <1>2. "run" \in Views!Sources /\ Views!Sources = {"run", "cancel"}
    BY DEF Views!Sources
  <1>3. PICK slow \in SUBSET listed :
          /\ shows' = [v \in Viewers |->
                IF v \in listed \ slow THEN Views!Shown(shows[v], Views!Event(kind, <<made + 1>>))
                ELSE shows[v]]
          /\ cast' \in [Views!Sources -> Casts]
          /\ cast'["run"].dead = slow
          /\ \A d \in Views!Sources \ {"run"} : cast'[d] = cast[d]
          /\ \A d \in Views!Sources : ~ cast'[d].busy => cast'[d].dead = {}
          /\ late' = late
    BY <1>2, BroadcastFacts
  <1>4. /\ made \in Nat /\ log \in Seq(Nat) /\ UpTo(log, made)
        /\ \A v \in Viewers : /\ shows[v] \in Seq(Nat) /\ UpTo(shows[v], made)
                              /\ snap[v] \in Seq(Nat) /\ UpTo(snap[v], made)
        /\ stored \in Seq(Nat) /\ UpTo(stored, made) /\ back \in Seq(Nat) /\ UpTo(back, made)
    BY <1>1 DEF ViewTypes, OrderInv
  <1>5. log' \in Seq(Nat) /\ UpTo(log, made)' /\ made' \in Nat
    BY <1>4, UpToAppend DEF UpTo
  <1>6. \A v \in Viewers : shows'[v] = IF v \in listed \ slow THEN Append(shows[v], made + 1)
                                       ELSE shows[v]
    BY <1>3, <1>4, ShownNew
  <1>7. \A v \in Viewers : shows'[v] \in Seq(Nat) /\ UpTo(shows'[v], made + 1)
    <2> SUFFICES ASSUME NEW v \in Viewers
                 PROVE  shows'[v] \in Seq(Nat) /\ UpTo(shows'[v], made + 1)
      OBVIOUS
    <2>1. PICK ms \in Seq(Nat) : ms = shows[v] /\ UpTo(ms, made)
      BY <1>4
    <2>2. UpTo(ms, made + 1)
      BY <1>4, <2>1, UpToMore
    <2>3. Append(ms, made + 1) \in Seq(Nat) /\ UpTo(Append(ms, made + 1), made + 1)
      BY <1>4, <2>1, UpToAppend
    <2> QED  BY <1>6, <2>1, <2>2, <2>3
  <1>8. shows' \in [Viewers -> Seq(Nat)]
    BY <1>3, <1>7
  <1>9. OrderInv'
    <2>1. UpTo(log', made + 1)
      BY <1>4, UpToAppend
    <2>2. UpTo(stored', made + 1)
      <3>1. UpTo(stored, made + 1)
        BY <1>4, UpToMore
      <3> QED  BY <2>1, <3>1
    <2>3. UpTo(back, made + 1) /\ \A v \in Viewers : UpTo(snap[v], made + 1)
      BY <1>4, UpToMore
    <2> QED  BY <1>7, <2>1, <2>2, <2>3 DEF OrderInv, UpTo
  <1>10. ViewTypes'
    BY <1>1, <1>3, <1>5, <1>8 DEF ViewTypes
  <1>11. ASSUME NEW v \in Viewers  PROVE Follows(v)'
    <2> SUFFICES ASSUME ~ overdue, ~ unsaved, v \notin late, Views!Watches(v)', cancel = "off",
                        \A c \in Views!Sources : v \notin cast'[c].dead
                 PROVE  shows'[v] = log'
      BY <1>3 DEF Follows
    <2>1. Views!Watches(v) /\ v \in listed \ slow
      BY <1>2, <1>3 DEF Views!Watches
    <2>2. cast["run"].dead = {}
      BY <1>2 DEF ViewInv
    <2>3. \A c \in Views!Sources : v \notin cast[c].dead
      BY <1>2, <1>3, <2>2
    <2>4. shows[v] = log
      BY <1>1, <2>1, <2>3 DEF Follows
    <2> QED  BY <1>6, <2>1, <2>4
  <1>12. ~ overdue' /\ flag' /\ turn' = "running" => cancel' = "asked"
    BY DEF ViewInv
  <1> QED  BY <1>3, <1>9, <1>10, <1>11, <1>12 DEF ViewInv

\* A run begins or goes on.
LEMMA RunStep == ViewInv /\ (Views!Prompt \/ Views!Message) => ViewInv'
  <1>1. ASSUME ViewInv, Views!Prompt  PROVE ViewInv'
    <2>1. /\ ~ cast["run"].busy /\ log' = Append(log, made + 1) /\ made' = made + 1
          /\ Views!Broadcast("run", Views!Event("prompt", <<made + 1>>))
          /\ stored' = log' /\ turn' = "running" /\ flag' = FALSE
          /\ UNCHANGED <<cancel, back, listed, handler, snap, overdue, unsaved>>
      BY <1>1 DEF Views!Prompt, Views!Added
    <2> QED  BY <1>1, <2>1, MessageStep
  <1>2. ASSUME ViewInv, Views!Message  PROVE ViewInv'
    <2>1. /\ ~ cast["run"].busy /\ log' = Append(log, made + 1) /\ made' = made + 1
          /\ Views!Broadcast("run", Views!Event("message", <<made + 1>>))
          /\ stored' = stored /\ turn = "running" /\ turn' = turn /\ flag' = flag
          /\ UNCHANGED <<cancel, back, listed, handler, snap, overdue, unsaved>>
      BY <1>2 DEF Views!Message, Views!Added
    <2> QED  BY <1>2, <2>1, MessageStep
  <1> QED  BY <1>1, <1>2

\* The conversation is saved, a run ends.
LEMMA SaveStep == ViewInv /\ (Views!Save \/ Views!Finish) => ViewInv'
  <1> SUFFICES ASSUME ViewInv, Views!Save \/ Views!Finish  PROVE ViewInv'
    OBVIOUS
  <1>1. /\ UNCHANGED <<made, cancel, back, cast, listed, handler, snap, shows, late, overdue>>
        /\ turn' \in {"idle", "running"} /\ flag' \in BOOLEAN /\ unsaved' \in BOOLEAN
        /\ log' \in {log, stored} /\ stored' \in {log, stored}
        /\ (turn' = turn /\ flag' = flag) \/ turn' = "idle"
        /\ \/ log' = log /\ unsaved' = unsaved
           \/ flag /\ turn = "running"
           \/ unsaved'
    BY DEF ViewInv, ViewTypes, Views!Save, Views!Finish
  <1>2. ViewTypes /\ OrderInv /\ \A v \in Viewers : Follows(v)
    BY DEF ViewInv
  <1>3. ViewTypes'
    BY <1>1, <1>2 DEF ViewTypes
  <1>4. OrderInv'
    <2>1. UpTo(log', made) /\ UpTo(stored', made)
      BY <1>1, <1>2 DEF OrderInv
    <2> QED  BY <1>1, <1>2, <2>1 DEF OrderInv, UpTo
  <1>5. ASSUME NEW v \in Viewers  PROVE Follows(v)'
    <2> SUFFICES ASSUME ~ overdue, ~ unsaved', v \notin late, Views!Watches(v), cancel = "off",
                        \A c \in Views!Sources : v \notin cast[c].dead
                 PROVE  shows[v] = log'
      BY <1>1 DEF Follows, Views!Watches
    <2>1. ~ (flag /\ turn = "running")
      BY DEF ViewInv
    <2>2. log' = log /\ unsaved' = unsaved
      BY <1>1, <2>1
    <2> QED  BY <1>2, <2>2 DEF Follows
  <1>6. /\ \A c \in Views!Sources : ~ cast'[c].busy => cast'[c].dead = {}
        /\ ~ overdue' /\ flag' /\ turn' = "running" => cancel' = "asked"
    BY <1>1 DEF ViewInv
  <1> QED  BY <1>3, <1>4, <1>5, <1>6 DEF ViewInv

\* Where a conversation is cut.
LEMMA RewoundIsCut ==
  ASSUME ViewTypes
  PROVE  \E k \in Nat : k <= Len(stored) /\ Views!Rewound = SubSeq(stored, 1, k)
  <1> DEFINE prompts == {i \in DOMAIN stored : stored[i] \in asks}
             newest == CHOOSE i \in prompts : \A j \in prompts : j <= i
  <1>1. Len(stored) \in Nat /\ DOMAIN stored = 1 .. Len(stored) /\ stored \in Seq(Nat)
    BY DEF ViewTypes
  <1>2. Views!Rewound = IF prompts = {} THEN stored ELSE SubSeq(stored, 1, newest - 1)
    BY DEF Views!Rewound
  <1>3. CASE prompts = {}
    <2>1. stored = SubSeq(stored, 1, Len(stored))
      BY <1>1
    <2>2. Views!Rewound = SubSeq(stored, 1, Len(stored))
      BY <1>2, <1>3, <2>1
    <2>3. PICK k \in Nat : k = Len(stored)
      BY <1>1
    <2>4. k <= Len(stored) /\ Views!Rewound = SubSeq(stored, 1, k)
      BY <2>2, <2>3
    <2> QED  BY <2>4
  <1>4. CASE prompts # {}
    <2>1. prompts \in SUBSET (0 .. Len(stored))
      BY <1>1
    <2>2. \E i \in prompts : \A j \in prompts : j <= i
      BY <1>1, <1>4, <2>1, HasGreatest
    <2>3. newest \in prompts
      BY <2>2
    <2>4. PICK n \in DOMAIN stored : n = newest
      BY <2>3
    <2>5. n - 1 \in Nat /\ n - 1 <= Len(stored)
      BY <1>1, <2>4
    <2>6. Views!Rewound = SubSeq(stored, 1, n - 1)
      BY <1>2, <1>4, <2>4
    <2> QED  BY <2>5, <2>6
  <1> QED  BY <1>3, <1>4

\* A cancel or a rewind cuts the conversation.
LEMMA CutStep ==
  ASSUME ViewInv,
         Views!Rewind \/ (\E i \in DOMAIN stored : Views!RewindTo(i)) \/ Views!SaveAgain
  PROVE  ViewInv'
  <1>1. ViewTypes /\ OrderInv
    BY DEF ViewInv
  <1>2. made \in Nat /\ stored \in Seq(Nat) /\ UpTo(stored, made) /\ log \in Seq(Nat)
        /\ UpTo(log, made) /\ back \in Seq(Nat) /\ UpTo(back, made)
    BY <1>1 DEF ViewTypes, OrderInv
  <1>3. \E ms \in Seq(Nat) :
          /\ UpTo(ms, made) /\ cancel' = "saved" /\ stored' = ms /\ back' = ms
          /\ log' \in {log, ms}
          /\ UNCHANGED <<made, turn, flag, cast, listed, handler, snap, shows, late, unsaved>>
          /\ overdue' \in BOOLEAN
          /\ overdue' \/ turn # "running"
    <2>1. CASE Views!Rewind
      <3>1. PICK k \in Nat : k <= Len(stored) /\ Views!Rewound = SubSeq(stored, 1, k)
        BY <1>1, RewoundIsCut
      <3>2. PICK ms \in Seq(Nat) : ms = Views!Rewound /\ UpTo(ms, made)
        BY <1>2, <3>1, UpToCut
      <3>3. /\ cancel' = "saved" /\ stored' = ms /\ back' = ms /\ log' \in {log, ms}
            /\ UNCHANGED <<made, turn, flag, cast, listed, handler, snap, shows, late, unsaved>>
            /\ overdue' = (overdue \/ turn = "running")
        BY <2>1, <3>2 DEF Views!Rewind, Views!CutTo
      <3> QED  BY <1>1, <3>2, <3>3 DEF ViewTypes
    <2>2. ASSUME NEW i \in DOMAIN stored, Views!RewindTo(i)
          PROVE  \E ms \in Seq(Nat) :
                   /\ UpTo(ms, made) /\ cancel' = "saved" /\ stored' = ms /\ back' = ms
                   /\ log' \in {log, ms}
                   /\ UNCHANGED <<made, turn, flag, cast, listed, handler, snap, shows, late,
                                  unsaved>>
                   /\ overdue' \in BOOLEAN
                   /\ overdue' \/ turn # "running"
      <3>1. i - 1 \in Nat /\ i - 1 <= Len(stored)
        BY <1>2
      <3>2. PICK ms \in Seq(Nat) : ms = SubSeq(stored, 1, i - 1) /\ UpTo(ms, made)
        BY <1>2, <3>1, UpToCut
      <3>3. /\ cancel' = "saved" /\ stored' = ms /\ back' = ms /\ log' \in {log, ms}
            /\ UNCHANGED <<made, turn, flag, cast, listed, handler, snap, shows, late, unsaved>>
            /\ overdue' = overdue /\ turn = "idle"
        BY <2>2, <3>2 DEF Views!RewindTo, Views!CutTo
      <3> QED  BY <1>1, <3>2, <3>3 DEF ViewTypes
    <2>3. CASE Views!SaveAgain
      <3>1. /\ cancel' = "saved" /\ stored' = back /\ back' = back /\ log' \in {log, back}
            /\ UNCHANGED <<made, turn, flag, cast, listed, handler, snap, shows, late, unsaved>>
            /\ overdue' = TRUE
        BY <2>3 DEF Views!SaveAgain
      <3> QED  BY <1>2, <3>1
    <2> QED  BY <2>1, <2>2, <2>3
  <1>4. PICK ms \in Seq(Nat) :
          /\ UpTo(ms, made) /\ cancel' = "saved" /\ stored' = ms /\ back' = ms
          /\ log' \in {log, ms}
          /\ UNCHANGED <<made, turn, flag, cast, listed, handler, snap, shows, late, unsaved>>
          /\ overdue' \in BOOLEAN
          /\ overdue' \/ turn # "running"
    BY <1>3
  <1>5. ViewTypes'
    BY <1>1, <1>4 DEF ViewTypes
  <1>6. OrderInv'
    <2>1. UpTo(log', made) /\ UpTo(stored', made) /\ UpTo(back', made)
      BY <1>2, <1>4
    <2> QED  BY <1>1, <1>4, <2>1 DEF OrderInv, UpTo
  <1>7. \A v \in Viewers : Follows(v)'
    BY <1>4 DEF Follows
  <1>8. /\ \A c \in Views!Sources : ~ cast'[c].busy => cast'[c].dead = {}
        /\ ~ overdue' /\ flag' /\ turn' = "running" => cancel' = "asked"
    BY <1>4 DEF ViewInv
  <1> QED  BY <1>5, <1>6, <1>7, <1>8 DEF ViewInv

\* A cancel is asked for, or a broadcast is over.
LEMMA CancelStep ==
  ASSUME ViewInv, Views!AskCancel \/ \E c \in Views!Sources : Views!Sent(c)
  PROVE  ViewInv'
  <1>1. ViewTypes /\ OrderInv /\ \A v \in Viewers : Follows(v)
    BY DEF ViewInv
  <1>2. CASE Views!AskCancel
    <2>1. /\ cancel' = "asked" /\ flag' = TRUE
          /\ UNCHANGED <<log, stored, made, turn, back, cast, listed, handler, snap, shows, late,
                         overdue, unsaved>>
      BY <1>2 DEF Views!AskCancel
    <2>2. ViewTypes' /\ OrderInv'
      BY <1>1, <2>1 DEF ViewTypes, OrderInv, UpTo
    <2>3. \A v \in Viewers : Follows(v)'
      BY <2>1 DEF Follows
    <2> QED  BY <2>1, <2>2, <2>3 DEF ViewInv
  <1>3. ASSUME NEW c \in Views!Sources, Views!Sent(c)  PROVE ViewInv'
    <2>1. /\ listed' = listed \ cast[c].dead /\ cast' = [cast EXCEPT ![c] = Views!Quiet]
          /\ UNCHANGED <<log, stored, made, turn, flag, cancel, back, handler, snap, shows, late,
                         overdue, unsaved>>
      BY <1>3 DEF Views!Sent
    <2>2. Views!Quiet \in Casts /\ Views!Quiet.dead = {}
      BY DEF Views!Quiet, Casts
    <2>3. /\ cast' \in [Views!Sources -> Casts] /\ cast'[c].dead = {}
          /\ \A d \in Views!Sources \ {c} : cast'[d] = cast[d]
      BY <1>1, <2>1, <2>2 DEF ViewTypes
    <2>4. ViewTypes' /\ OrderInv'
      BY <1>1, <2>1, <2>3 DEF ViewTypes, OrderInv, UpTo
    <2>5. ASSUME NEW v \in Viewers  PROVE Follows(v)'
      <3> SUFFICES ASSUME ~ overdue, ~ unsaved, v \notin late, Views!Watches(v)', cancel = "off",
                          \A d \in Views!Sources : v \notin cast'[d].dead
                   PROVE  shows[v] = log
        BY <2>1 DEF Follows
      <3>1. Views!Watches(v) /\ v \notin cast[c].dead
        BY <2>1 DEF Views!Watches
      <3>2. \A d \in Views!Sources : v \notin cast[d].dead
        BY <2>3, <3>1
      <3> QED  BY <1>1, <3>1, <3>2 DEF Follows
    <2>6. \A d \in Views!Sources : ~ cast'[d].busy => cast'[d].dead = {}
      BY <2>3 DEF ViewInv
    <2>7. ~ overdue' /\ flag' /\ turn' = "running" => cancel' = "asked"
      BY <2>1 DEF ViewInv
    <2> QED  BY <2>4, <2>5, <2>6, <2>7 DEF ViewInv
  <1> QED  BY <1>2, <1>3

\* The cut conversation is sent to the browsers.
LEMMA ShowRewoundStep == ViewInv /\ Views!ShowRewound => ViewInv'
  <1> SUFFICES ASSUME ViewInv, Views!ShowRewound  PROVE ViewInv'
    OBVIOUS
  <1>1. ViewTypes /\ OrderInv
    BY DEF ViewInv
  <1>2. /\ ~ cast["cancel"].busy /\ overdue' = (overdue \/ back # log) /\ cancel' = "off"
        /\ cancel = "saved" /\ back' = <<>>
        /\ Views!Broadcast("cancel", Views!Event("rewind", back))
        /\ UNCHANGED <<log, stored, made, turn, flag, listed, handler, snap, unsaved>>
    BY DEF Views!ShowRewound
  <1>3. "cancel" \in Views!Sources /\ Views!Sources = {"run", "cancel"}
    BY DEF Views!Sources
  <1>4. PICK slow \in SUBSET listed :
          /\ shows' = [v \in Viewers |->
               IF v \in listed \ slow THEN Views!Shown(shows[v], Views!Event("rewind", back))
               ELSE shows[v]]
          /\ cast' \in [Views!Sources -> Casts]
          /\ cast'["cancel"].dead = slow
          /\ \A d \in Views!Sources : ~ cast'[d].busy => cast'[d].dead = {}
    BY <1>2, <1>3, BroadcastFacts
  <1>5. \A v \in Viewers : shows'[v] = IF v \in listed \ slow THEN back ELSE shows[v]
    BY <1>4, ShownWhole
  <1>6. \A v \in Viewers : shows'[v] \in Seq(Nat) /\ UpTo(shows'[v], made)
    BY <1>1, <1>5 DEF ViewTypes, OrderInv
  <1>7. ViewTypes'
    <2>1. shows' \in [Viewers -> Seq(Nat)]
      BY <1>4, <1>6
    <2>2. overdue' \in BOOLEAN /\ <<>> \in Seq(Nat)
      BY <1>2
    <2> QED  BY <1>1, <1>2, <1>4, <2>1, <2>2 DEF ViewTypes
  <1>8. OrderInv'
    BY <1>1, <1>2, <1>6 DEF OrderInv, UpTo
  <1>9. ASSUME NEW v \in Viewers  PROVE Follows(v)'
    <2> SUFFICES ASSUME ~ overdue', Views!Watches(v)',
                        \A d \in Views!Sources : v \notin cast'[d].dead
                 PROVE  shows'[v] = log
      BY <1>2 DEF Follows
    <2>1. v \in listed \ slow
      BY <1>2, <1>3, <1>4 DEF Views!Watches
    <2> QED  BY <1>2, <1>5, <2>1
  <1>10. ~ overdue' /\ flag' /\ turn' = "running" => cancel' = "asked"
    BY <1>2 DEF ViewInv
  <1> QED  BY <1>4, <1>7, <1>8, <1>9, <1>10 DEF ViewInv

\* A browser connects, and is sent its snapshot; or its connection is lost.
LEMMA BrowserStep ==
  ASSUME ViewInv, NEW w \in Viewers,
         Views!Register(w) \/ Views!Load(w) \/ Views!Connected(w) \/ Views!Lose(w)
  PROVE  ViewInv'
  <1>1. ViewTypes /\ OrderInv /\ \A v \in Viewers : Follows(v)
    BY DEF ViewInv
  <1>2. /\ handler \in [Viewers -> {"off", "registered", "loaded", "open"}]
        /\ snap \in [Viewers -> Seq(Nat)] /\ shows \in [Viewers -> Seq(Nat)]
        /\ cast \in [Views!Sources -> Casts] /\ stored \in Seq(Nat) /\ listed \in SUBSET Viewers
    BY <1>1 DEF ViewTypes
  <1>3. Views!Shown(shows[w], Views!Event("connected", snap[w])) = snap[w]
    BY ShownWhole
  <1>4. <<>> \in Seq(Nat) /\ UpTo(<<>>, made)
    BY DEF UpTo
  <1>5. /\ handler' \in [Viewers -> {"off", "registered", "loaded", "open"}]
        /\ snap' \in [Viewers -> Seq(Nat)] /\ shows' \in [Viewers -> Seq(Nat)]
        /\ listed' \in SUBSET Viewers
        /\ snap'[w] \in {<<>>, stored, snap[w]} /\ shows'[w] \in {<<>>, snap[w], shows[w]}
        /\ handler'[w] = "open" => /\ shows'[w] = snap[w] /\ (w \notin late' => snap[w] = log)
        /\ \A v \in Viewers \ {w} : /\ handler'[v] = handler[v] /\ snap'[v] = snap[v]
                                    /\ shows'[v] = shows[v] /\ (v \in listed' <=> v \in listed)
                                    /\ v \notin late' => v \notin late
        /\ UNCHANGED <<log, stored, made, turn, flag, cancel, back, overdue, unsaved>>
    <2>1. CASE Views!Register(w)
      BY <1>2, <2>1 DEF Views!Register
    <2>2. CASE Views!Load(w)
      BY <1>2, <2>2 DEF Views!Load
    <2>3. CASE Views!Connected(w)
      <3>1. /\ handler' = [handler EXCEPT ![w] = "open"]
            /\ shows' = [shows EXCEPT ![w] = snap[w]]
            /\ late' = IF snap[w] = log THEN late \ {w} ELSE late \cup {w}
            /\ snap' = [snap EXCEPT ![w] = <<>>]
            /\ UNCHANGED <<log, stored, made, turn, flag, cancel, back, listed, overdue, unsaved>>
        BY <1>3, <2>3 DEF Views!Connected
      <3> QED  BY <1>2, <1>4, <3>1
    <2>4. CASE Views!Lose(w)
      <3>1. /\ handler' = [handler EXCEPT ![w] = "off"] /\ listed' = listed \ {w}
            /\ snap' = [snap EXCEPT ![w] = <<>>] /\ shows' = [shows EXCEPT ![w] = <<>>]
            /\ late' = late \ {w}
            /\ UNCHANGED <<log, stored, made, turn, flag, cancel, back, overdue, unsaved>>
        BY <2>4 DEF Views!Lose
      <3> QED  BY <1>2, <1>4, <3>1
    <2> QED  BY <2>1, <2>2, <2>3, <2>4
  <1>6. /\ cast' \in [Views!Sources -> Casts]
        /\ \A c \in Views!Sources : ~ cast'[c].busy => cast'[c].dead = {}
        /\ \A c \in Views!Sources, v \in Viewers \ {w} : v \in cast[c].dead => v \in cast'[c].dead
    <2>1. CASE cast' = cast
      BY <1>2, <2>1 DEF ViewInv
    <2>2. CASE Views!Lose(w)
      <3>1. cast' = [c \in Views!Sources |-> [cast[c] EXCEPT !.dead = cast[c].dead \ {w}]]
        BY <2>2 DEF Views!Lose
      <3>2. ASSUME NEW c \in Views!Sources
            PROVE  /\ cast'[c] \in Casts /\ cast'[c].dead = cast[c].dead \ {w}
                   /\ cast'[c].busy = cast[c].busy
        <4>1. cast[c] \in Casts /\ cast'[c] = [cast[c] EXCEPT !.dead = cast[c].dead \ {w}]
          BY <1>2, <3>1
        <4> QED  BY ONLY <4>1 DEF Casts
      <3>3. cast' \in [Views!Sources -> Casts]
        BY <3>1, <3>2
      <3> QED  BY <3>2, <3>3 DEF ViewInv
    <2> QED  BY <2>1, <2>2 DEF Views!Register, Views!Load, Views!Connected
  <1>7. ViewTypes'
    BY <1>1, <1>5, <1>6 DEF ViewTypes
  <1>8. OrderInv'
    <2>1. UpTo(shows'[w], made) /\ UpTo(snap'[w], made)
      BY <1>1, <1>4, <1>5 DEF OrderInv
    <2>2. \A v \in Viewers : UpTo(shows'[v], made) /\ UpTo(snap'[v], made)
      BY <1>1, <1>5, <2>1 DEF OrderInv
    <2> QED  BY <1>1, <1>5, <2>2 DEF OrderInv, UpTo
  <1>9. ASSUME NEW v \in Viewers  PROVE Follows(v)'
    <2> SUFFICES ASSUME ~ overdue, ~ unsaved, v \notin late', Views!Watches(v)', cancel = "off",
                        \A c \in Views!Sources : v \notin cast'[c].dead
                 PROVE  shows'[v] = log
      BY <1>5 DEF Follows
    <2>1. CASE v = w
      BY <1>5, <2>1 DEF Views!Watches
    <2>2. CASE v # w
      <3>1. Views!Watches(v) /\ v \notin late /\ \A c \in Views!Sources : v \notin cast[c].dead
        BY <1>5, <1>6, <2>2 DEF Views!Watches
      <3>2. shows[v] = log
        BY <1>1, <3>1 DEF Follows
      <3>3. shows'[v] = shows[v] /\ log' = log
        BY <1>5, <2>2
      <3> QED  BY <3>2, <3>3
    <2> QED  BY <2>1, <2>2
  <1>10. ~ overdue' /\ flag' /\ turn' = "running" => cancel' = "asked"
    BY <1>5 DEF ViewInv
  <1> QED  BY <1>6, <1>7, <1>8, <1>9, <1>10 DEF ViewInv

\* At the beginning there is no conversation.
LEMMA ViewStart == Views!Init => ViewInv
  <1> SUFFICES ASSUME Views!Init  PROVE ViewInv
    OBVIOUS
  <1>1. /\ log = <<>> /\ stored = <<>> /\ made = 0 /\ turn = "idle" /\ flag = FALSE
        /\ cancel = "off" /\ back = <<>> /\ cast = [c \in Views!Sources |-> Views!Quiet]
        /\ listed = {} /\ handler = [v \in Viewers |-> "off"]
        /\ snap = [v \in Viewers |-> <<>>] /\ shows = [v \in Viewers |-> <<>>]
        /\ overdue = FALSE /\ unsaved = FALSE
    BY DEF Views!Init
  <1>2. Views!Quiet \in Casts /\ Views!Quiet.dead = {}
    BY DEF Views!Quiet, Casts
  <1>3. <<>> \in Seq(Nat) /\ UpTo(<<>>, 0)
    BY DEF UpTo
  <1>4. ViewTypes
    BY <1>1, <1>2, <1>3 DEF ViewTypes
  <1>5. OrderInv
    BY <1>1, <1>3 DEF OrderInv
  <1>6. \A v \in Viewers : Follows(v)
    BY <1>1 DEF Follows
  <1> QED  BY <1>1, <1>2, <1>4, <1>5, <1>6 DEF ViewInv

\* Every step keeps the invariant of the browsers.
LEMMA ViewStep ==
  ASSUME ViewInv, [Views!Next]_viewVars
  PROVE  ViewInv'
  <1>1. CASE Views!Prompt \/ Views!Message
    BY <1>1, RunStep
  <1>2. CASE Views!Save \/ Views!Finish
    BY <1>2, SaveStep
  <1>3. CASE Views!Rewind \/ (\E i \in DOMAIN stored : Views!RewindTo(i)) \/ Views!SaveAgain
    BY <1>3, CutStep
  <1>4. CASE Views!AskCancel \/ \E c \in Views!Sources : Views!Sent(c)
    BY <1>4, CancelStep
  <1>5. CASE Views!ShowRewound
    BY <1>5, ShowRewoundStep
  <1>6. CASE \E v \in Viewers : Views!Register(v) \/ Views!Load(v) \/ Views!Connected(v)
                                \/ Views!Lose(v)
    BY <1>6, BrowserStep
  <1>7. CASE UNCHANGED viewVars
    <2>1. UNCHANGED <<log, stored, made, turn, flag, cancel, back, cast, listed, handler, snap,
                      shows, late, overdue, unsaved>>
      BY <1>7 DEF viewVars
    <2>2. ViewTypes' /\ OrderInv'
      BY <2>1 DEF ViewInv, ViewTypes, OrderInv, UpTo
    <2>3. \A v \in Viewers : Follows(v)'
      BY <2>1 DEF ViewInv, Follows, Views!Watches
    <2> QED  BY <2>1, <2>2, <2>3 DEF ViewInv
  <1> QED  BY <1>1, <1>2, <1>3, <1>4, <1>5, <1>6, <1>7 DEF Views!Next

\* Browsers show the conversation, in order.
LEMMA ViewHolds == ViewInv => Views!ViewersSeeTheConversation /\ Views!ShownInOrder
  <1> SUFFICES ASSUME ViewInv  PROVE Views!ViewersSeeTheConversation /\ Views!ShownInOrder
    OBVIOUS
  <1>1. Views!ViewersSeeTheConversation
    BY DEF ViewInv, Follows, Views!ViewersSeeTheConversation
  <1>2. ASSUME NEW v \in Viewers, NEW i \in 2 .. Len(shows[v])
        PROVE  shows[v][i - 1] < shows[v][i]
    <2>1. shows[v] \in Seq(Nat) /\ UpTo(shows[v], made)
      BY DEF ViewInv, ViewTypes, OrderInv
    <2>2. i \in DOMAIN shows[v] /\ 2 <= i
      BY <2>1
    <2> QED  BY <2>1, <2>2 DEF UpTo
  <1> QED  BY <1>1, <1>2 DEF Views!ShownInOrder

-----------------------------------------------------------------------------
(* Run envelopes (TraceCollector.tla)                                      *)

RunMarks == {"running", "ended"}
Held == [at : {"idle", "writing"}, new : SUBSET TracedRuns, updated : SUBSET TracedRuns,
         as : [TracedRuns -> RunMarks \cup {"none"}], events : [TracedRuns -> Seq(RunMarks)]]

TraceTypes ==
  /\ span \in [TracedRuns -> RunMarks \cup {"none", "discarded", "gone"}]
  /\ new \in SUBSET TracedRuns /\ updated \in SUBSET TracedRuns
  /\ pending \in [TracedRuns -> Seq(RunMarks)]
  /\ flush \in [Traces!Flushers -> Held]
  /\ life \in {"up", "stopping", "down", "recovered"}
  /\ owner \in [TracedRuns -> {"present", "discarded", "removed"}]
  /\ span_row \in [TracedRuns -> RunMarks \cup {"none", "abandoned"}]
  /\ ledger \in [TracedRuns -> Seq(RunMarks)]
  /\ outcome \in [TracedRuns -> RunMarks \cup {"none"}]
  /\ twice \in SUBSET TracedRuns /\ met \in SUBSET TracedRuns /\ lost \in SUBSET TracedRuns

\* A flush at rest holds nothing; what it writes spans for, it took as new or
\* updated.
HandsInv ==
  \A f \in Traces!Flushers :
    /\ flush[f].at = "idle" => flush[f] = Traces!AtRest
    /\ \A r \in TracedRuns : flush[f].as[r] # "none" <=> r \in flush[f].new \cup flush[f].updated

\* What is for a session that is gone, or of a span that is, met a deletion.
PoisonInv ==
  \A r \in TracedRuns :
    /\ r \in Traces!Dirty \cup Traces!Known \/ \E f \in Traces!Flushers : r \in Traces!Carried(f)
    /\ owner[r] # "present" \/ r \notin Traces!Known
    => r \in met

\* A process that stops has no run and no request left, and its last flush takes
\* all there is; one that is down has no memory.
LifeInv ==
  /\ life = "stopping" =>
       /\ \A r \in TracedRuns : span[r] # "running"
       /\ \A f \in OtelRequests \ {FlushLoop} : flush[f].at = "idle"
       /\ flush[FlushLoop].at = "writing" => Traces!Dirty = {}
  /\ life \in {"down", "recovered"} =>
       /\ Traces!Dirty = {}
       /\ \A f \in Traces!Flushers : flush[f] = Traces!AtRest
  /\ life = "recovered" => \A r \in TracedRuns : span_row[r] # "running"

\* The events of a run, as its outcome has them.
Expected(r) == CASE outcome[r] = "none" -> <<>>
                 [] outcome[r] = "running" -> <<"running">>
                 [] OTHER -> <<"running", "ended">>

\* Wherever the changes of a run are, together they tell what became of it: one
\* flush at most carries it, between what is written and what is pending.
Told(r) ==
  /\ life \in {"up", "stopping"} => span[r] = outcome[r]
  /\ life \in {"down", "recovered"} => outcome[r] # "running"
  /\ \A f, g \in Traces!Flushers : r \in Traces!Carried(f) /\ r \in Traces!Carried(g) => f = g
  /\ (\A f \in Traces!Flushers : r \notin Traces!Carried(f)) =>
       /\ ledger[r] \o pending[r] = Expected(r)
       /\ span_row[r] = outcome[r] \/ r \in new \cup updated
  /\ \A f \in Traces!Flushers : r \in Traces!Carried(f) =>
       /\ ledger[r] \o (flush[f].events[r] \o pending[r]) = Expected(r)
       /\ flush[f].as[r] # "none" => flush[f].as[r] = outcome[r] \/ r \in new \cup updated
       /\ flush[f].as[r] = "none" => span_row[r] = outcome[r] \/ r \in new \cup updated

ToldInv == \A r \in TracedRuns \ (twice \cup lost) : owner[r] = "present" => Told(r)

TraceInv == TraceTypes /\ HandsInv /\ PoisonInv /\ LifeInv /\ ToldInv

\* Runs are their sessions, here.
LEMMA OwnSession ==
  ASSUME NEW r \in TracedRuns
  PROVE  SessionOf[r] = r /\ Traces!RunsOf(r) = {r}
  BY DEF SessionOf, Traces!RunsOf

\* A flush at rest carries nothing.
LEMMA RestFacts ==
  /\ Traces!AtRest \in Held /\ Traces!AtRest.at = "idle"
  /\ \A r \in TracedRuns : /\ Traces!AtRest.as[r] = "none" /\ Traces!AtRest.events[r] = <<>>
                           /\ r \notin Traces!AtRest.new /\ r \notin Traces!AtRest.updated
  <1>1. Traces!None \in [TracedRuns -> Seq(RunMarks)]
    BY DEF Traces!None
  <1> QED  BY <1>1 DEF Traces!AtRest, Held, Traces!NoSpans, Traces!None

\* What a run has to do with what memory and the flushes hold.
LEMMA CarriedFacts ==
  /\ \A r \in TracedRuns : r \in Traces!Dirty <=> r \in new \cup updated \/ pending[r] # <<>>
  /\ \A r \in TracedRuns, f \in Traces!Flushers :
       r \in Traces!Carried(f) <=>
         r \in flush[f].new \cup flush[f].updated \/ flush[f].events[r] # <<>>
  BY DEF Traces!Dirty, Traces!Carried

\* The same after a step.
LEMMA CarriedNext ==
  /\ \A r \in TracedRuns : r \in Traces!Dirty' <=> r \in new' \cup updated' \/ pending'[r] # <<>>
  /\ \A r \in TracedRuns, f \in Traces!Flushers :
       r \in Traces!Carried(f)' <=>
         r \in flush'[f].new \cup flush'[f].updated \/ flush'[f].events[r] # <<>>
  BY DEF Traces!Dirty, Traces!Carried

\* At the beginning nothing has run.
LEMMA TraceStart == Traces!Init => TraceInv
  <1> SUFFICES ASSUME Traces!Init  PROVE TraceInv
    OBVIOUS
  <1> USE RestFacts
  <1>0. /\ span = Traces!NoSpans /\ new = {} /\ updated = {} /\ pending = Traces!None
        /\ flush = [f \in Traces!Flushers |-> Traces!AtRest] /\ life = "up"
        /\ owner = [s \in TracedRuns |-> "present"]
        /\ span_row = Traces!NoSpans /\ ledger = Traces!None
        /\ outcome = Traces!NoSpans /\ twice = {} /\ met = {} /\ lost = {}
    BY DEF Traces!Init
  <1>1. Traces!None \in [TracedRuns -> Seq(RunMarks)] /\ \A r \in TracedRuns : Traces!None[r] = <<>>
    BY DEF Traces!None
  <1>2. \A r \in TracedRuns : Traces!NoSpans[r] = "none"
    BY DEF Traces!NoSpans
  <1>3. TraceTypes
    BY <1>0, <1>1 DEF TraceTypes, RunMarks, Traces!NoSpans
  <1>4. HandsInv
    BY <1>0 DEF HandsInv
  <1>5. \A r \in TracedRuns : /\ r \notin Traces!Dirty /\ r \notin Traces!Known
                              /\ \A f \in Traces!Flushers : r \notin Traces!Carried(f)
    BY <1>0, <1>1, <1>2, CarriedFacts DEF Traces!Known
  <1>6. PoisonInv /\ LifeInv
    BY <1>0, <1>5 DEF PoisonInv, LifeInv
  <1>7. ASSUME NEW r \in TracedRuns  PROVE Told(r)
    <2>1. Expected(r) = <<>> /\ ledger[r] = <<>> /\ pending[r] = <<>>
      BY <1>0, <1>1, <1>2 DEF Expected
    <2>2. ledger[r] \o pending[r] = Expected(r)
      BY <2>1
    <2> QED  BY <2>2, <1>0, <1>2, <1>5 DEF Told
  <1> QED  BY <1>3, <1>4, <1>6, <1>7 DEF TraceInv, ToldInv

\* What is appended to the last of some sequences is appended to the whole.
LEMMA AppendBehind ==
  /\ \A a, b \in Seq(RunMarks), x \in RunMarks : a \o Append(b, x) = Append(a \o b, x)
  /\ \A a, b \in Seq(RunMarks) : a \o b \in Seq(RunMarks)
  <1>1. ASSUME NEW a \in Seq(RunMarks), NEW b \in Seq(RunMarks), NEW x \in RunMarks
        PROVE  a \o Append(b, x) = Append(a \o b, x)
    <2>1. <<x>> \in Seq(RunMarks) /\ a \o b \in Seq(RunMarks)
      BY ConcatProperties
    <2>2. a \o (b \o <<x>>) = (a \o b) \o <<x>>
      BY <2>1, ConcatAssociative
    <2>3. Append(b, x) = b \o <<x>> /\ Append(a \o b, x) = (a \o b) \o <<x>>
      BY <2>1, AppendIsConcat
    <2> QED  BY <2>2, <2>3
  <1>2. ASSUME NEW a \in Seq(RunMarks), NEW b \in Seq(RunMarks)  PROVE a \o b \in Seq(RunMarks)
    BY ConcatProperties
  <1> QED  BY <1>1, <1>2

\* The changes of a run are told after a step that tells one more of it.
LEMMA ToldMore ==
  ASSUME TraceTypes, NEW r \in TracedRuns, Told(r), life = "up",
         flush' = flush, life' = life, ledger' = ledger, span_row' = span_row,
         NEW x \in RunMarks, pending'[r] = Append(pending[r], x), r \in new' \cup updated',
         span'[r] = x, outcome'[r] = x,
         outcome[r] = IF x = "running" THEN "none" ELSE "running"
  PROVE  Told(r)'
  <1>1. /\ ledger[r] \in Seq(RunMarks) /\ pending[r] \in Seq(RunMarks)
        /\ \A f \in Traces!Flushers : flush[f].events[r] \in Seq(RunMarks)
    BY DEF TraceTypes, Held
  <1>2. Expected(r)' = Append(Expected(r), x)
    <2>1. CASE x = "running"
      BY <2>1 DEF Expected
    <2>2. CASE x = "ended"
      BY <2>2 DEF Expected
    <2> QED  BY <2>1, <2>2 DEF RunMarks
  <1>3. \A f \in Traces!Flushers : Traces!Carried(f)' = Traces!Carried(f)
    BY DEF Traces!Carried
  <1>4. (\A f \in Traces!Flushers : r \notin Traces!Carried(f)) =>
          ledger'[r] \o pending'[r] = Expected(r)'
    <2>1. ledger[r] \o Append(pending[r], x) = Append(ledger[r] \o pending[r], x)
      BY <1>1, AppendBehind
    <2> QED  BY <2>1, <1>2 DEF Told
  <1>5. ASSUME NEW f \in Traces!Flushers, r \in Traces!Carried(f)
        PROVE  ledger'[r] \o (flush'[f].events[r] \o pending'[r]) = Expected(r)'
    <2>1. flush[f].events[r] \in Seq(RunMarks)
      BY <1>1
    <2>2. ledger[r] \o (flush[f].events[r] \o Append(pending[r], x))
            = Append(ledger[r] \o (flush[f].events[r] \o pending[r]), x)
      <3>1. flush[f].events[r] \o Append(pending[r], x) = Append(flush[f].events[r] \o pending[r], x)
        BY <1>1, <2>1, AppendBehind
      <3>2. flush[f].events[r] \o pending[r] \in Seq(RunMarks)
        BY <1>1, <2>1, AppendBehind
      <3>3. \A e \in Seq(RunMarks) : ledger[r] \o Append(e, x) = Append(ledger[r] \o e, x)
        BY <1>1, AppendBehind
      <3> QED  BY <3>1, <3>2, <3>3
    <2> QED  BY <1>5, <2>2, <1>2 DEF Told
  <1> QED  BY <1>3, <1>4, <1>5 DEF Told

\* They stay told when nothing of it changes.
LEMMA ToldStays ==
  ASSUME NEW r \in TracedRuns, Told(r),
         life' = life \/ (life = "up" /\ life' = "stopping"),
         \A f \in Traces!Flushers :
           /\ r \in Traces!Carried(f)' <=> r \in Traces!Carried(f)
           /\ flush'[f].as[r] = flush[f].as[r] /\ flush'[f].events[r] = flush[f].events[r],
         ledger'[r] = ledger[r], span_row'[r] = span_row[r], pending'[r] = pending[r],
         r \in new' \cup updated' <=> r \in new \cup updated,
         span'[r] = span[r], outcome'[r] = outcome[r]
  PROVE  Told(r)'
  <1>2. Expected(r)' = Expected(r)
    BY DEF Expected
  <1>3. /\ life' \in {"up", "stopping"} => life \in {"up", "stopping"}
        /\ life' \in {"down", "recovered"} => life \in {"down", "recovered"}
    OBVIOUS
  <1> QED  BY <1>2, <1>3 DEF Told

\* ensure_run_span.
LEMMA TraceBeginStep ==
  ASSUME TraceInv, NEW r \in TracedRuns, Traces!Begin(r)
  PROVE  TraceInv'
  <1> USE DEF TraceInv
  <1>0. /\ life = "up" /\ span[r] \in {"none", "discarded"} /\ owner[r] # "removed"
        /\ span' = [span EXCEPT ![r] = "running"]
        /\ outcome' = [outcome EXCEPT ![r] = "running"]
        /\ new' = new \cup {r}
        /\ pending' = [pending EXCEPT ![r] = Append(@, "running")]
        /\ met' = IF owner[r] = "discarded" THEN met \cup {r} ELSE met
        /\ UNCHANGED <<updated, flush, life, owner, span_row, ledger, twice, lost>>
    BY OwnSession DEF Traces!Begin
  <1>1. TraceTypes'
    <2>1. Append(pending[r], "running") \in Seq(RunMarks)
      BY DEF TraceTypes, RunMarks
    <2> QED  BY <1>0, <2>1 DEF TraceTypes, RunMarks
  <1>2. HandsInv' /\ LifeInv'
    BY <1>0 DEF HandsInv, LifeInv
  <1>3. \A x \in TracedRuns \ {r} :
          /\ span'[x] = span[x] /\ outcome'[x] = outcome[x] /\ pending'[x] = pending[x]
          /\ x \in new' <=> x \in new
          /\ x \in met' <=> x \in met
    BY <1>0 DEF TraceTypes
  <1>4. span'[r] = "running" /\ outcome'[r] = "running" /\ pending'[r] = Append(pending[r], "running")
    BY <1>0 DEF TraceTypes
  <1>5. PoisonInv'
    <2> SUFFICES ASSUME NEW x \in TracedRuns,
                        x \in Traces!Dirty' \cup Traces!Known'
                          \/ \E f \in Traces!Flushers : x \in Traces!Carried(f)',
                        owner'[x] # "present" \/ x \notin Traces!Known'
                 PROVE  x \in met'
      BY DEF PoisonInv
    <2>1. CASE x = r
      BY <2>1, <1>0, <1>4 DEF Traces!Known, TraceTypes
    <2>2. CASE x # r
      BY <2>2, <1>0, <1>3, CarriedFacts, CarriedNext DEF Traces!Known, PoisonInv
    <2> QED  BY <2>1, <2>2
  <1>6. ASSUME NEW x \in TracedRuns \ (twice' \cup lost'), owner'[x] = "present"  PROVE Told(x)'
    <2>1. Told(x)
      BY <1>0, <1>6 DEF ToldInv
    <2>2. CASE x = r
      <3>1. outcome[r] = "none"
        BY <2>1, <2>2, <1>0 DEF Told, TraceTypes, RunMarks
      <3> QED  BY <2>1, <2>2, <3>1, <1>0, <1>4, ToldMore DEF RunMarks
    <2>3. CASE x # r
      BY <2>1, <2>3, <1>0, <1>3, ToldStays DEF Traces!Carried
    <2> QED  BY <2>2, <2>3
  <1> QED  BY <1>1, <1>2, <1>5, <1>6 DEF ToldInv

\* finish_run, and abandon_all_running of a session.
LEMMA TraceEndStep ==
  ASSUME TraceInv, NEW rs \in SUBSET TracedRuns, \A r \in rs : span[r] = "running", rs # {},
         life \in {"up", "stopping"}, Traces!End(rs),
         UNCHANGED <<new, flush, life, owner, span_row, ledger, writeFaults, twice, met, lost>>
  PROVE  TraceInv'
  <1> USE DEF TraceInv
  <1>0. /\ span' = [r \in TracedRuns |-> IF r \in rs THEN "ended" ELSE span[r]]
        /\ outcome' = [r \in TracedRuns |-> IF r \in rs THEN "ended" ELSE outcome[r]]
        /\ updated' = updated \cup rs
        /\ pending' = [r \in TracedRuns |-> IF r \in rs THEN Append(pending[r], "ended") ELSE pending[r]]
    BY DEF Traces!End
  <1>1. TraceTypes'
    <2>1. \A r \in TracedRuns : Append(pending[r], "ended") \in Seq(RunMarks)
      BY DEF TraceTypes, RunMarks
    <2> QED  BY <1>0, <2>1 DEF TraceTypes, RunMarks
  <1>2. life = "up"
    BY DEF LifeInv
  <1>3. HandsInv' /\ LifeInv'
    BY <1>2 DEF HandsInv, LifeInv
  <1>4. PoisonInv'
    <2> SUFFICES ASSUME NEW x \in TracedRuns,
                        x \in Traces!Dirty' \cup Traces!Known'
                          \/ \E f \in Traces!Flushers : x \in Traces!Carried(f)',
                        owner'[x] # "present" \/ x \notin Traces!Known'
                 PROVE  x \in met'
      BY DEF PoisonInv
    <2>1. x \in Traces!Known' <=> x \in Traces!Known
      BY <1>0 DEF Traces!Known
    <2>2. CASE x \in rs
      BY <2>1, <2>2 DEF Traces!Known, PoisonInv
    <2>3. CASE x \notin rs
      BY <2>1, <2>3, <1>0, CarriedFacts, CarriedNext DEF PoisonInv
    <2> QED  BY <2>2, <2>3
  <1>6. ASSUME NEW x \in TracedRuns \ (twice' \cup lost'), owner'[x] = "present"  PROVE Told(x)'
    <2>1. Told(x)
      BY <1>6 DEF ToldInv
    <2>2. CASE x \in rs
      <3>1. outcome[x] = "running"
        BY <2>1, <2>2, <1>2 DEF Told
      <3>2. /\ span'[x] = "ended" /\ outcome'[x] = "ended" /\ x \in updated'
            /\ pending'[x] = Append(pending[x], "ended")
        BY <2>2, <1>0
      <3> QED  BY <2>1, <3>1, <3>2, <1>2, ToldMore DEF RunMarks
    <2>3. CASE x \notin rs
      BY <2>1, <2>3, <1>0, ToldStays DEF Traces!Carried
    <2> QED  BY <2>2, <2>3
  <1> QED  BY <1>1, <1>3, <1>4, <1>6 DEF ToldInv

\* What nobody carries any more is in the tables as it is.
LEMMA Settled ==
  ASSUME TraceTypes, NEW r \in TracedRuns, Told(r), r \notin Traces!Dirty,
         \A f \in Traces!Flushers : r \notin Traces!Carried(f)
  PROVE  span_row[r] = outcome[r] /\ ledger[r] = Expected(r)
  <1>1. ledger[r] \o pending[r] = Expected(r) /\ (span_row[r] = outcome[r] \/ r \in new \cup updated)
    BY DEF Told
  <1>2. pending[r] = <<>> /\ r \notin new \cup updated
    BY CarriedFacts
  <1>3. ledger[r] \in Seq(RunMarks)
    BY DEF TraceTypes
  <1> QED  BY <1>1, <1>2, <1>3, ConcatEmptySeq

\* The process ends with the tables as they are to be.
LEMMA WipedStep ==
  ASSUME TraceInv, Traces!Wiped, UNCHANGED <<owner, outcome, twice, met>>,
         span_row' \in [TracedRuns -> RunMarks \cup {"none", "abandoned"}],
         ledger' \in [TracedRuns -> Seq(RunMarks)],
         lost \subseteq lost', lost' \in SUBSET TracedRuns,
         \A r \in TracedRuns \ (twice \cup lost') : owner[r] = "present" =>
            outcome[r] # "running" /\ span_row'[r] = outcome[r] /\ ledger'[r] = Expected(r)
  PROVE  TraceInv'
  <1> USE RestFacts DEF TraceInv
  <1>0. /\ life' = "down" /\ new' = {} /\ updated' = {} /\ pending' = Traces!None
        /\ span' = [r \in TracedRuns |-> IF span[r] = "none" THEN "none" ELSE "gone"]
        /\ flush' = [f \in Traces!Flushers |-> Traces!AtRest]
    BY DEF Traces!Wiped, Traces!Emptied
  <1>1. Traces!None \in [TracedRuns -> Seq(RunMarks)] /\ \A r \in TracedRuns : Traces!None[r] = <<>>
    BY DEF Traces!None
  <1>2. TraceTypes'
    BY <1>0, <1>1 DEF TraceTypes
  <1>3. HandsInv'
    BY <1>0 DEF HandsInv
  <1>4. \A r \in TracedRuns : /\ r \notin Traces!Dirty' /\ r \notin Traces!Known'
                              /\ \A f \in Traces!Flushers : r \notin Traces!Carried(f)'
    BY <1>0, <1>1, CarriedNext DEF Traces!Known
  <1>5. PoisonInv' /\ LifeInv'
    <2>1. Traces!Dirty' = {}
      BY <1>0, <1>1 DEF Traces!Dirty
    <2> QED  BY <2>1, <1>0, <1>4 DEF PoisonInv, LifeInv
  <1>6. ASSUME NEW r \in TracedRuns \ (twice' \cup lost'), owner'[r] = "present"  PROVE Told(r)'
    <2>1. Expected(r)' = Expected(r)
      BY DEF Expected
    <2>2. outcome'[r] # "running" /\ span_row'[r] = outcome'[r] /\ ledger'[r] = Expected(r)'
      BY <1>6, <2>1
    <2>3. ledger'[r] \o pending'[r] = ledger'[r]
      BY <1>0, <1>1, ConcatEmptySeq
    <2> QED  BY <1>0, <1>4, <2>2, <2>3 DEF Told
  <1> QED  BY <1>2, <1>3, <1>5, <1>6 DEF ToldInv

\* The batch that a flush takes.
LEMMA TraceTakeStep ==
  ASSUME TraceInv, NEW f \in Traces!Flushers, Traces!Take(f)
  PROVE  TraceInv'
  <1> USE RestFacts DEF TraceInv
  <1> DEFINE b == Traces!Batch
  <1>0. /\ life = "up" \/ (life = "stopping" /\ f = FlushLoop)
        /\ flush[f].at = "idle" /\ new \cup updated \subseteq Traces!Known
        /\ flush' = [flush EXCEPT ![f] = b]
        /\ new' = {} /\ updated' = {} /\ pending' = Traces!None
        /\ twice' = twice \cup (Traces!Dirty \cap UNION {Traces!Carried(g) : g \in Traces!Flushers \ {f}})
        /\ UNCHANGED <<span, life, owner, span_row, ledger, outcome, met, lost>>
    BY DEF Traces!Take, Traces!Flushes, Traces!Emptied
  <1>1. Traces!None \in [TracedRuns -> Seq(RunMarks)] /\ \A r \in TracedRuns : Traces!None[r] = <<>>
    BY DEF Traces!None
  <1>2. /\ b.at = "writing" /\ b.new = new /\ b.updated = updated \ new /\ b.events = pending
        /\ b.as = [r \in TracedRuns |-> IF r \in new \cup updated THEN span[r] ELSE "none"]
    BY DEF Traces!Batch
  <1>3. \A r \in new \cup updated : span[r] \in RunMarks
    BY <1>0 DEF Traces!Known, RunMarks
  <1>4. b \in Held
    BY <1>2, <1>3 DEF Held, TraceTypes, Traces!Batch
  <1>5. \A g \in Traces!Flushers : flush'[g] = IF g = f THEN b ELSE flush[g]
    BY <1>0 DEF TraceTypes
  <1> HIDE DEF b
  <1>6. TraceTypes'
    <2>1. flush' \in [Traces!Flushers -> Held]
      BY <1>0, <1>4 DEF TraceTypes
    <2>2. twice' \in SUBSET TracedRuns
      BY <1>0 DEF TraceTypes, Traces!Dirty
    <2> QED  BY <2>1, <2>2, <1>0, <1>1 DEF TraceTypes
  <1>7. HandsInv'
    BY <1>2, <1>3, <1>5 DEF HandsInv, RunMarks
  <1>8. Traces!Dirty' = {}
    BY <1>0, <1>1 DEF Traces!Dirty
  <1>9. \A r \in TracedRuns :
          /\ r \notin Traces!Carried(f)
          /\ r \in Traces!Carried(f)' <=> r \in Traces!Dirty
          /\ \A g \in Traces!Flushers \ {f} : r \in Traces!Carried(g)' <=> r \in Traces!Carried(g)
    BY <1>0, <1>2, <1>5, CarriedFacts, CarriedNext DEF HandsInv
  <1>10. PoisonInv'
    <2>1. Traces!Known' = Traces!Known
      BY <1>0 DEF Traces!Known
    <2> QED  BY <2>1, <1>0, <1>8, <1>9 DEF PoisonInv
  <1>11. LifeInv'
    BY <1>0, <1>5, <1>8 DEF LifeInv, Traces!Flushers
  <1>12. ASSUME NEW r \in TracedRuns \ (twice' \cup lost'), owner'[r] = "present"  PROVE Told(r)'
    <2>1. Told(r)
      BY <1>0, <1>12 DEF ToldInv
    <2>2. Expected(r)' = Expected(r)
      BY <1>0 DEF Expected
    <2>3. CASE r \in Traces!Dirty
      <3>1. \A g \in Traces!Flushers : r \notin Traces!Carried(g)
        BY <1>0, <1>9, <1>12, <2>3
      <3>2. \A g \in Traces!Flushers : r \in Traces!Carried(g)' <=> g = f
        BY <1>9, <2>3, <3>1
      <3>3. ledger'[r] \o (flush'[f].events[r] \o pending'[r]) = Expected(r)'
        <4>1. pending[r] \o pending'[r] = pending[r]
          BY <1>0, <1>1, ConcatEmptySeq DEF TraceTypes
        <4>2. ledger[r] \o pending[r] = Expected(r)
          BY <2>1, <3>1 DEF Told
        <4> QED  BY <4>1, <4>2, <1>0, <1>2, <1>5, <2>2
      <3>4. flush'[f].as[r] # "none" => flush'[f].as[r] = outcome'[r]
        BY <1>0, <1>2, <1>5, <2>1 DEF Told
      <3>5. flush'[f].as[r] = "none" => span_row'[r] = outcome'[r]
        <4>1. span_row[r] = outcome[r] \/ r \in new \cup updated
          BY <2>1, <3>1 DEF Told
        <4>2. r \in new \cup updated => flush'[f].as[r] = span[r]
          BY <1>2, <1>5
        <4> QED  BY <4>1, <4>2, <1>0, <1>3 DEF RunMarks
      <3> QED  BY <1>0, <2>1, <3>2, <3>3, <3>4, <3>5 DEF Told
    <2>4. CASE r \notin Traces!Dirty
      <3>1. pending[r] = <<>> /\ r \notin new /\ r \notin updated
        BY <2>4, CarriedFacts
      <3>2. pending'[r] = pending[r] /\ ~ (r \in new' \cup updated')
        BY <3>1, <1>0, <1>1
      <3>3. \A g \in Traces!Flushers :
              /\ r \in Traces!Carried(g)' <=> r \in Traces!Carried(g)
              /\ flush'[g].as[r] = flush[g].as[r] /\ flush'[g].events[r] = flush[g].events[r]
        BY <2>4, <3>1, <1>0, <1>2, <1>5, <1>9 DEF HandsInv
      <3> QED  BY <2>1, <3>1, <3>2, <3>3, <1>0, ToldStays
    <2> QED  BY <2>3, <2>4
  <1> QED  BY <1>6, <1>7, <1>10, <1>11, <1>12 DEF ToldInv

\* A take that fails drops what is dirty.
LEMMA TakeFailsStep ==
  ASSUME TraceInv, NEW f \in Traces!Flushers, Traces!TakeFails(f)
  PROVE  TraceInv'
  <1> USE RestFacts DEF TraceInv
  <1>0. /\ life = "up" \/ (life = "stopping" /\ f = FlushLoop)
        /\ flush[f].at = "idle" /\ lost' = lost \cup Traces!Dirty
        /\ UNCHANGED <<owner, span_row, ledger, writeFaults, outcome, twice, met>>
    BY DEF Traces!TakeFails, Traces!Flushes
  <1>1. lost' \in SUBSET TracedRuns
    BY <1>0 DEF TraceTypes, Traces!Dirty
  <1>2. CASE life = "stopping"
    <2>1. Traces!Wiped
      BY <1>2 DEF Traces!TakeFails
    <2>2. ASSUME NEW r \in TracedRuns \ (twice \cup lost'), owner[r] = "present"
          PROVE  outcome[r] # "running" /\ span_row'[r] = outcome[r] /\ ledger'[r] = Expected(r)
      <3>1. Told(r) /\ r \notin Traces!Dirty
        BY <1>0, <2>2 DEF ToldInv
      <3>2. \A g \in Traces!Flushers : flush[g].at = "idle"
        BY <1>0, <1>2 DEF LifeInv, Traces!Flushers
      <3>3. \A g \in Traces!Flushers : r \notin Traces!Carried(g)
        BY <3>2, CarriedFacts DEF HandsInv
      <3>4. span[r] = outcome[r] /\ span[r] # "running"
        BY <3>1, <1>2 DEF Told, LifeInv
      <3> QED  BY <3>1, <3>3, <3>4, <1>0, Settled
    <2> QED  BY <1>0, <1>1, <2>1, <2>2, WipedStep DEF TraceTypes
  <1>3. CASE life # "stopping"
    <2>1. /\ new' = {} /\ updated' = {} /\ pending' = Traces!None
          /\ UNCHANGED <<span, flush, life>>
      BY <1>3 DEF Traces!TakeFails, Traces!Emptied
    <2>2. Traces!None \in [TracedRuns -> Seq(RunMarks)] /\ \A r \in TracedRuns : Traces!None[r] = <<>>
      BY DEF Traces!None
    <2>3. TraceTypes'
      BY <1>0, <1>1, <2>1, <2>2 DEF TraceTypes
    <2>4. HandsInv'
      BY <2>1 DEF HandsInv
    <2>5. Traces!Dirty' = {}
      BY <2>1, <2>2 DEF Traces!Dirty
    <2>6. Traces!Known' = Traces!Known
          /\ \A g \in Traces!Flushers : Traces!Carried(g)' = Traces!Carried(g)
      BY <2>1 DEF Traces!Known, Traces!Carried
    <2>7. PoisonInv' /\ LifeInv'
      BY <1>0, <1>3, <2>1, <2>5, <2>6 DEF PoisonInv, LifeInv
    <2>8. ASSUME NEW r \in TracedRuns \ (twice' \cup lost'), owner'[r] = "present"  PROVE Told(r)'
      <3>1. Told(r) /\ r \notin Traces!Dirty
        BY <1>0, <2>8 DEF ToldInv
      <3>2. pending[r] = <<>> /\ r \notin new /\ r \notin updated
        BY <3>1, CarriedFacts
      <3> QED  BY <1>0, <2>1, <2>2, <2>6, <3>1, <3>2, ToldStays
    <2> QED  BY <2>3, <2>4, <2>7, <2>8 DEF ToldInv
  <1> QED  BY <1>2, <1>3

\* A run that a flush writes is in the tables with what the flush has of it.
LEMMA PutFacts ==
  ASSUME TraceInv, NEW f \in Traces!Flushers, Traces!Put(flush[f]), NEW r \in TracedRuns
  PROVE  /\ r \notin Traces!Carried(f) => span_row'[r] = span_row[r] /\ ledger'[r] = ledger[r]
         /\ r \in Traces!Carried(f) =>
              /\ span_row'[r] = IF flush[f].as[r] = "none" THEN span_row[r] ELSE flush[f].as[r]
              /\ ledger'[r] = ledger[r] \o flush[f].events[r]
  <1> USE DEF TraceInv
  <1>1. /\ span_row'[r] = IF flush[f].as[r] = "none" THEN span_row[r] ELSE flush[f].as[r]
        /\ ledger'[r] = ledger[r] \o flush[f].events[r]
    BY DEF Traces!Put
  <1>2. ASSUME r \notin Traces!Carried(f)
        PROVE  flush[f].as[r] = "none" /\ flush[f].events[r] = <<>>
    BY <1>2, CarriedFacts DEF HandsInv
  <1>3. ledger[r] \o <<>> = ledger[r]
    BY ConcatEmptySeq DEF TraceTypes
  <1> QED  BY <1>1, <1>2, <1>3

\* The tables keep their types when a flush writes.
LEMMA PutTypes ==
  ASSUME TraceTypes, NEW f \in Traces!Flushers, Traces!Put(flush[f])
  PROVE  /\ span_row' \in [TracedRuns -> RunMarks \cup {"none", "abandoned"}]
         /\ ledger' \in [TracedRuns -> Seq(RunMarks)]
  <1>1. \A r \in TracedRuns : ledger[r] \o flush[f].events[r] \in Seq(RunMarks)
    BY AppendBehind DEF TraceTypes, Held
  <1>2. \A r \in TracedRuns : flush[f].as[r] \in RunMarks \cup {"none"}
    BY DEF TraceTypes, Held
  <1>3. /\ span_row' = [r \in TracedRuns |->
              IF flush[f].as[r] # "none" THEN flush[f].as[r] ELSE span_row[r]]
        /\ ledger' = [r \in TracedRuns |-> ledger[r] \o flush[f].events[r]]
    BY DEF Traces!Put
  <1> QED  BY <1>1, <1>2, <1>3 DEF TraceTypes

\* What is behind two sequences is behind the second of them.
LEMMA BehindBoth ==
  \A a, b, c \in Seq(RunMarks) : (a \o b) \o c = a \o (b \o c)
  <1> SUFFICES ASSUME NEW a \in Seq(RunMarks), NEW b \in Seq(RunMarks), NEW c \in Seq(RunMarks)
               PROVE  (a \o b) \o c = a \o (b \o c)
    OBVIOUS
  <1> QED  BY ConcatAssociative

\* A flush that is written.
LEMMA TraceWrittenStep ==
  ASSUME TraceInv, NEW f \in Traces!Flushers, Traces!Written(f)
  PROVE  TraceInv'
  <1> USE RestFacts DEF TraceInv
  <1>0. /\ flush[f].at = "writing" /\ Traces!Put(flush[f])
        /\ UNCHANGED <<owner, writeFaults, outcome, twice, met, lost>>
    BY DEF Traces!Written
  <1>1. life \in {"up", "stopping"}
    BY <1>0 DEF LifeInv, TraceTypes
  <1>2. /\ span_row' \in [TracedRuns -> RunMarks \cup {"none", "abandoned"}]
        /\ ledger' \in [TracedRuns -> Seq(RunMarks)]
    BY <1>0, PutTypes
  <1>3. \A r \in TracedRuns :
          /\ ledger[r] \in Seq(RunMarks) /\ pending[r] \in Seq(RunMarks)
          /\ flush[f].events[r] \in Seq(RunMarks)
          /\ Expected(r)' = Expected(r)
    BY <1>0 DEF TraceTypes, Held, Expected
  <1>4. ASSUME NEW r \in TracedRuns \ (twice \cup lost), owner[r] = "present",
               r \in Traces!Carried(f)
        PROVE  /\ ledger'[r] \o pending[r] = Expected(r)
               /\ span_row'[r] = outcome[r] \/ r \in new \cup updated
    <2>1. Told(r)
      BY <1>4 DEF ToldInv
    <2>2. /\ ledger[r] \o (flush[f].events[r] \o pending[r]) = Expected(r)
          /\ flush[f].as[r] # "none" => flush[f].as[r] = outcome[r] \/ r \in new \cup updated
          /\ flush[f].as[r] = "none" => span_row[r] = outcome[r] \/ r \in new \cup updated
      BY <2>1, <1>4 DEF Told
    <2>3. /\ span_row'[r] = IF flush[f].as[r] = "none" THEN span_row[r] ELSE flush[f].as[r]
          /\ ledger'[r] = ledger[r] \o flush[f].events[r]
      BY <1>0, <1>4, PutFacts
    <2>4. (ledger[r] \o flush[f].events[r]) \o pending[r]
            = ledger[r] \o (flush[f].events[r] \o pending[r])
      <3>1. /\ ledger[r] \in Seq(RunMarks) /\ pending[r] \in Seq(RunMarks)
            /\ flush[f].events[r] \in Seq(RunMarks)
        BY <1>3
      <3> QED  BY ONLY <3>1, BehindBoth
    <2> QED  BY <2>2, <2>3, <2>4
  <1>5. CASE life = "stopping"
    <2>1. Traces!Wiped
      BY <1>5 DEF Traces!Written
    <2>2. f = FlushLoop /\ Traces!Dirty = {}
      BY <1>0, <1>5 DEF LifeInv, Traces!Flushers
    <2>3. ASSUME NEW r \in TracedRuns \ (twice \cup lost'), owner[r] = "present"
          PROVE  outcome[r] # "running" /\ span_row'[r] = outcome[r] /\ ledger'[r] = Expected(r)
      <3>1. Told(r) /\ r \notin lost
        BY <1>0, <2>3 DEF ToldInv
      <3>2. span[r] = outcome[r] /\ span[r] # "running"
        BY <3>1, <1>5 DEF Told, LifeInv
      <3>3. pending[r] = <<>> /\ ~ (r \in new \cup updated)
        BY <2>2, CarriedFacts
      <3>4. CASE r \in Traces!Carried(f)
        <4>1. ledger'[r] \o pending[r] = Expected(r) /\ span_row'[r] = outcome[r]
          BY <1>4, <2>3, <3>1, <3>3, <3>4
        <4>2. ledger'[r] \o <<>> = ledger'[r]
          BY <1>2, ConcatEmptySeq
        <4> QED  BY <3>2, <3>3, <4>1, <4>2
      <3>5. CASE r \notin Traces!Carried(f)
        <4>1. \A g \in Traces!Flushers : r \notin Traces!Carried(g)
          BY <3>5, <1>5, <2>2, CarriedFacts DEF HandsInv, LifeInv, Traces!Flushers
        <4>2. span_row[r] = outcome[r] /\ ledger[r] = Expected(r)
          BY <3>1, <4>1, <2>2, Settled
        <4>3. span_row'[r] = span_row[r] /\ ledger'[r] = ledger[r]
          BY <3>5, <1>0, PutFacts
        <4> QED  BY <3>2, <4>2, <4>3
      <3> QED  BY <3>4, <3>5
    <2>4. lost \subseteq lost' /\ lost' \in SUBSET TracedRuns
      BY <1>0 DEF TraceTypes
    <2> QED  BY <1>0, <1>2, <2>1, <2>3, <2>4, WipedStep
  <1>6. CASE life = "up"
    <2>1. /\ flush' = [flush EXCEPT ![f] = Traces!AtRest]
          /\ UNCHANGED <<span, new, updated, pending, life>>
      BY <1>6 DEF Traces!Written
    <2>2. \A g \in Traces!Flushers : flush'[g] = IF g = f THEN Traces!AtRest ELSE flush[g]
      BY <2>1 DEF TraceTypes
    <2>3. TraceTypes'
      BY <1>0, <1>2, <2>1 DEF TraceTypes
    <2>4. HandsInv'
      BY <2>2 DEF HandsInv
    <2>5. Traces!Dirty' = Traces!Dirty /\ Traces!Known' = Traces!Known
      BY <2>1 DEF Traces!Dirty, Traces!Known
    <2>6. \A r \in TracedRuns :
            /\ r \notin Traces!Carried(f)'
            /\ \A g \in Traces!Flushers \ {f} : r \in Traces!Carried(g)' <=> r \in Traces!Carried(g)
      BY <2>2, CarriedFacts, CarriedNext
    <2>7. PoisonInv' /\ LifeInv'
      BY <1>0, <1>6, <2>1, <2>5, <2>6 DEF PoisonInv, LifeInv
    <2>8. ASSUME NEW r \in TracedRuns \ (twice' \cup lost'), owner'[r] = "present"  PROVE Told(r)'
      <3>1. Told(r) /\ r \notin twice /\ r \notin lost /\ owner[r] = "present"
        BY <1>0, <2>8 DEF ToldInv
      <3>2. CASE r \in Traces!Carried(f)
        <4>1. \A g \in Traces!Flushers : r \notin Traces!Carried(g)'
          BY <3>1, <3>2, <2>6 DEF Told
        <4>2. /\ ledger'[r] \o pending'[r] = Expected(r)'
              /\ span_row'[r] = outcome'[r] \/ r \in new' \cup updated'
          BY <1>0, <1>3, <1>4, <2>1, <3>1, <3>2
        <4> QED  BY <1>0, <2>1, <1>6, <3>1, <4>1, <4>2 DEF Told
      <3>3. CASE r \notin Traces!Carried(f)
        <4>1. span_row'[r] = span_row[r] /\ ledger'[r] = ledger[r]
          BY <3>3, <1>0, PutFacts
        <4>2. flush[f].as[r] = "none" /\ flush[f].events[r] = <<>>
          BY <3>3, CarriedFacts DEF HandsInv
        <4>3. \A g \in Traces!Flushers :
                /\ r \in Traces!Carried(g)' <=> r \in Traces!Carried(g)
                /\ flush'[g].as[r] = flush[g].as[r] /\ flush'[g].events[r] = flush[g].events[r]
          BY <3>3, <4>2, <2>2, <2>6
        <4> QED  BY <3>1, <4>1, <4>3, <1>0, <2>1, ToldStays
      <3> QED  BY <3>2, <3>3
    <2> QED  BY <2>3, <2>4, <2>7, <2>8 DEF ToldInv
  <1> QED  BY <1>1, <1>5, <1>6

\* A flush that fails: what it took is put back.
LEMMA TraceFailedStep ==
  ASSUME TraceInv, NEW f \in Traces!Flushers, Traces!Failed(f)
  PROVE  TraceInv'
  <1> USE RestFacts DEF TraceInv
  <1>0. /\ flush[f].at = "writing"
        /\ UNCHANGED <<owner, span_row, ledger, outcome, twice, met>>
    BY DEF Traces!Failed
  <1>1. life \in {"up", "stopping"}
    BY <1>0 DEF LifeInv, TraceTypes
  <1>2. \A r \in TracedRuns : Expected(r)' = Expected(r)
    BY <1>0 DEF Expected
  <1>3. CASE life = "stopping"
    <2>1. Traces!Wiped /\ lost' = lost \cup Traces!Dirty \cup Traces!Carried(f)
      BY <1>3 DEF Traces!Failed
    <2>2. lost \subseteq lost' /\ lost' \in SUBSET TracedRuns
      BY <2>1 DEF TraceTypes, Held, Traces!Dirty, Traces!Carried
    <2>3. ASSUME NEW r \in TracedRuns \ (twice \cup lost'), owner[r] = "present"
          PROVE  outcome[r] # "running" /\ span_row'[r] = outcome[r] /\ ledger'[r] = Expected(r)
      <3>1. Told(r) /\ r \notin Traces!Dirty
        BY <2>1, <2>3 DEF ToldInv
      <3>2. \A g \in Traces!Flushers : r \notin Traces!Carried(g)
        BY <1>0, <1>3, <2>1, <2>3, CarriedFacts DEF HandsInv, LifeInv, Traces!Flushers
      <3>3. span[r] = outcome[r] /\ span[r] # "running"
        BY <3>1, <1>3 DEF Told, LifeInv
      <3> QED  BY <3>1, <3>2, <3>3, <1>0, Settled
    <2>4. /\ span_row' \in [TracedRuns -> RunMarks \cup {"none", "abandoned"}]
          /\ ledger' \in [TracedRuns -> Seq(RunMarks)]
      BY <1>0 DEF TraceTypes
    <2> QED  BY <1>0, <2>1, <2>2, <2>3, <2>4, WipedStep
  <1>4. CASE life = "up"
    <2>1. /\ flush' = [flush EXCEPT ![f] = Traces!AtRest]
          /\ new' = new \cup flush[f].new /\ updated' = updated \cup flush[f].updated
          /\ pending' = [r \in TracedRuns |-> flush[f].events[r] \o pending[r]]
          /\ UNCHANGED <<span, life, lost>>
      BY <1>4 DEF Traces!Failed, Traces!PutBack
    <2>2. \A g \in Traces!Flushers : flush'[g] = IF g = f THEN Traces!AtRest ELSE flush[g]
      BY <2>1 DEF TraceTypes
    <2>3. \A r \in TracedRuns :
            /\ ledger[r] \in Seq(RunMarks) /\ pending[r] \in Seq(RunMarks)
            /\ flush[f].events[r] \in Seq(RunMarks) /\ pending'[r] = flush[f].events[r] \o pending[r]
      BY <2>1 DEF TraceTypes, Held
    <2>4. TraceTypes'
      <3>1. \A r \in TracedRuns : flush[f].events[r] \o pending[r] \in Seq(RunMarks)
        BY <2>3, AppendBehind
      <3>2. pending' \in [TracedRuns -> Seq(RunMarks)]
        BY <2>1, <3>1
      <3>3. new' \in SUBSET TracedRuns /\ updated' \in SUBSET TracedRuns
        BY <2>1 DEF TraceTypes, Held
      <3>4. flush' \in [Traces!Flushers -> Held]
        BY <2>1 DEF TraceTypes
      <3> QED  BY <3>2, <3>3, <3>4, <1>0, <2>1 DEF TraceTypes
    <2>5. HandsInv'
      BY <2>2 DEF HandsInv
    <2>6. \A r \in TracedRuns :
            /\ r \notin Traces!Carried(f)'
            /\ \A g \in Traces!Flushers \ {f} : r \in Traces!Carried(g)' <=> r \in Traces!Carried(g)
      BY <2>2, CarriedFacts, CarriedNext
    <2>7. \A r \in TracedRuns :
            /\ flush[f].events[r] = <<>> => pending'[r] = pending[r]
            /\ r \in Traces!Dirty' => r \in Traces!Dirty \/ r \in Traces!Carried(f)
      <3> TAKE r \in TracedRuns
      <3>1. <<>> \o pending[r] = pending[r]
        BY <2>3, ConcatEmptySeq
      <3> QED  BY <3>1, <2>1, <2>3, CarriedFacts, CarriedNext
    <2>8. PoisonInv' /\ LifeInv'
      <3>1. Traces!Known' = Traces!Known
        BY <2>1 DEF Traces!Known
      <3>2. PoisonInv'
        BY <1>0, <2>6, <2>7, <3>1 DEF PoisonInv
      <3> QED  BY <3>2, <1>4, <2>1 DEF LifeInv
    <2>9. ASSUME NEW r \in TracedRuns \ (twice' \cup lost'), owner'[r] = "present"  PROVE Told(r)'
      <3>1. Told(r)
        BY <1>0, <2>1, <2>9 DEF ToldInv
      <3>2. CASE r \in Traces!Carried(f)
        <4>1. \A g \in Traces!Flushers : r \notin Traces!Carried(g)'
          BY <3>1, <3>2, <2>6 DEF Told
        <4>2. ledger'[r] \o pending'[r] = Expected(r)'
          BY <1>0, <1>2, <2>3, <3>1, <3>2 DEF Told
        <4>3. span_row'[r] = outcome'[r] \/ r \in new' \cup updated'
          BY <1>0, <2>1, <3>1, <3>2 DEF Told, HandsInv
        <4> QED  BY <1>0, <2>1, <1>4, <3>1, <4>1, <4>2, <4>3 DEF Told
      <3>3. CASE r \notin Traces!Carried(f)
        <4>1. /\ flush[f].as[r] = "none" /\ flush[f].events[r] = <<>>
              /\ r \notin flush[f].new /\ r \notin flush[f].updated
          BY <3>3, CarriedFacts DEF HandsInv
        <4>2. pending'[r] = pending[r] /\ (r \in new' \cup updated' <=> r \in new \cup updated)
          BY <2>1, <2>7, <4>1
        <4>3. \A g \in Traces!Flushers :
                /\ r \in Traces!Carried(g)' <=> r \in Traces!Carried(g)
                /\ flush'[g].as[r] = flush[g].as[r] /\ flush'[g].events[r] = flush[g].events[r]
          BY <3>3, <4>1, <2>2, <2>6
        <4> QED  BY <3>1, <4>2, <4>3, <1>0, <2>1, ToldStays
      <3> QED  BY <3>2, <3>3
    <2> QED  BY <2>4, <2>5, <2>8, <2>9 DEF ToldInv
  <1> QED  BY <1>1, <1>3, <1>4

\* discard_session.
LEMMA TraceDiscardStep ==
  ASSUME TraceInv, NEW s \in TracedRuns, Traces!Discard(s)
  PROVE  TraceInv'
  <1> USE DEF TraceInv
  <1>0. /\ life = "up" /\ owner[s] = "present"
        /\ owner' = [owner EXCEPT ![s] = "discarded"]
        /\ span' = [r \in TracedRuns |->
              IF r \in {s} \cap Traces!Known THEN "discarded" ELSE span[r]]
        /\ new' = new \ ({s} \cap Traces!Known) /\ updated' = updated \ ({s} \cap Traces!Known)
        /\ pending' = [r \in TracedRuns |-> IF r \in {s} THEN <<>> ELSE pending[r]]
        /\ met' = met \cup ({s} \cap UNION {Traces!Carried(f) : f \in Traces!Flushers})
        /\ UNCHANGED <<flush, life, span_row, ledger, outcome, twice, lost>>
    BY OwnSession DEF Traces!Discard
  <1>1. \A r \in TracedRuns \ {s} :
          /\ owner'[r] = owner[r] /\ span'[r] = span[r] /\ pending'[r] = pending[r]
          /\ r \in new' <=> r \in new
          /\ r \in updated' <=> r \in updated
          /\ r \in Traces!Known' <=> r \in Traces!Known
    BY <1>0 DEF TraceTypes, Traces!Known
  <1>2. owner'[s] = "discarded" /\ s \notin Traces!Known' /\ pending'[s] = <<>>
    BY <1>0 DEF TraceTypes, Traces!Known
  <1>3. TraceTypes'
    <2>1. <<>> \in Seq(RunMarks)
      OBVIOUS
    <2> QED  BY <1>0, <2>1 DEF TraceTypes
  <1>4. HandsInv' /\ LifeInv'
    BY <1>0 DEF HandsInv, LifeInv
  <1>5. \A f \in Traces!Flushers : Traces!Carried(f)' = Traces!Carried(f)
    BY <1>0 DEF Traces!Carried
  <1>6. PoisonInv'
    <2> SUFFICES ASSUME NEW x \in TracedRuns,
                        x \in Traces!Dirty' \cup Traces!Known'
                          \/ \E f \in Traces!Flushers : x \in Traces!Carried(f)',
                        owner'[x] # "present" \/ x \notin Traces!Known'
                 PROVE  x \in met'
      BY DEF PoisonInv
    <2>1. CASE x = s
      <3>1. CASE x \in Traces!Dirty'
        <4>1. x \in new \cup updated /\ x \notin Traces!Known
          BY <2>1, <3>1, <1>0, <1>2, CarriedNext
        <4>2. x \in Traces!Dirty
          BY <4>1, CarriedFacts
        <4> QED  BY <4>1, <4>2, <1>0 DEF PoisonInv
      <3>2. CASE \E f \in Traces!Flushers : x \in Traces!Carried(f)'
        BY <2>1, <3>2, <1>0, <1>5
      <3> QED  BY <2>1, <3>1, <3>2, <1>2
    <2>2. CASE x # s
      BY <2>2, <1>0, <1>1, <1>5, CarriedFacts, CarriedNext DEF PoisonInv
    <2> QED  BY <2>1, <2>2
  <1>7. ASSUME NEW r \in TracedRuns \ (twice' \cup lost'), owner'[r] = "present"  PROVE Told(r)'
    <2>1. r # s
      BY <1>2, <1>7
    <2>2. Told(r)
      BY <1>0, <1>1, <1>7, <2>1 DEF ToldInv
    <2> QED  BY <1>0, <1>1, <1>5, <2>1, <2>2, ToldStays
  <1> QED  BY <1>3, <1>4, <1>6, <1>7 DEF ToldInv

\* The session's row goes.
LEMMA TraceRemoveStep ==
  ASSUME TraceInv, NEW s \in TracedRuns, Traces!Remove(s)
  PROVE  TraceInv'
  <1> USE DEF TraceInv
  <1>0. /\ life = "up" /\ owner[s] = "discarded"
        /\ owner' = [owner EXCEPT ![s] = "removed"]
        /\ span_row' = [r \in TracedRuns |-> IF r \in {s} THEN "none" ELSE span_row[r]]
        /\ ledger' = [r \in TracedRuns |-> IF r \in {s} THEN <<>> ELSE ledger[r]]
        /\ UNCHANGED <<span, new, updated, pending, flush, life, outcome, twice, met, lost>>
    BY OwnSession DEF Traces!Remove
  <1>1. TraceTypes'
    <2>1. <<>> \in Seq(RunMarks)
      OBVIOUS
    <2> QED  BY <1>0, <2>1 DEF TraceTypes
  <1>2. HandsInv' /\ LifeInv'
    BY <1>0 DEF HandsInv, LifeInv
  <1>3. /\ Traces!Dirty' = Traces!Dirty /\ Traces!Known' = Traces!Known
        /\ \A f \in Traces!Flushers : Traces!Carried(f)' = Traces!Carried(f)
    BY <1>0 DEF Traces!Carried, Traces!Dirty, Traces!Known
  <1>4. \A r \in TracedRuns : owner'[r] # "present" <=> owner[r] # "present"
    BY <1>0 DEF TraceTypes
  <1>5. PoisonInv'
    BY <1>0, <1>3, <1>4 DEF PoisonInv
  <1>6. ASSUME NEW r \in TracedRuns \ (twice' \cup lost'), owner'[r] = "present"  PROVE Told(r)'
    <2>1. r # s /\ Told(r)
      BY <1>0, <1>4, <1>6 DEF ToldInv
    <2> QED  BY <1>0, <1>3, <2>1, ToldStays
  <1> QED  BY <1>1, <1>2, <1>5, <1>6 DEF ToldInv

\* stop: what still runs is abandoned, and what the loop was writing is lost.
LEMMA TraceStopStep == TraceInv /\ Traces!Stop => TraceInv'
  <1> SUFFICES ASSUME TraceInv, Traces!Stop  PROVE TraceInv'
    OBVIOUS
  <1> USE RestFacts DEF TraceInv
  <1> DEFINE rs == Traces!RunningIn(TracedRuns)
             L == FlushLoop
  <1>0. /\ life = "up" /\ \A f \in OtelRequests : flush[f].at = "idle"
        /\ life' = "stopping" /\ lost' = lost \cup Traces!Carried(L)
        /\ flush' = [flush EXCEPT ![L] = Traces!AtRest]
        /\ UNCHANGED <<new, owner, twice, met>>
        /\ Traces!End(rs)
        /\ UNCHANGED <<span_row, ledger>> \/ Traces!Put(flush[L])
    BY DEF Traces!Stop
  <1>1. rs \in SUBSET TracedRuns /\ \A r \in TracedRuns : r \in rs <=> span[r] = "running"
    BY DEF Traces!RunningIn
  <1> HIDE DEF rs
  <1>2. /\ span' = [r \in TracedRuns |-> IF r \in rs THEN "ended" ELSE span[r]]
        /\ outcome' = [r \in TracedRuns |-> IF r \in rs THEN "ended" ELSE outcome[r]]
        /\ updated' = updated \cup rs
        /\ pending' = [r \in TracedRuns |-> IF r \in rs THEN Append(pending[r], "ended") ELSE pending[r]]
    BY <1>0 DEF Traces!End
  <1>3. L \in Traces!Flushers
    BY DEF Traces!Flushers
  <1>4. \A g \in Traces!Flushers :
          /\ flush'[g] = IF g = L THEN Traces!AtRest ELSE flush[g]
          /\ flush'[g] = Traces!AtRest
    BY <1>0 DEF TraceTypes, Traces!Flushers, HandsInv
  <1>5. \A r \in TracedRuns, g \in Traces!Flushers :
          /\ r \notin Traces!Carried(g)'
          /\ r \in Traces!Carried(g) => g = L
    BY <1>0, <1>4, CarriedFacts, CarriedNext DEF Traces!Flushers, HandsInv
  <1>6. TraceTypes'
    <2>1. \A r \in TracedRuns : Append(pending[r], "ended") \in Seq(RunMarks)
      BY DEF TraceTypes, RunMarks
    <2>2. /\ span_row' \in [TracedRuns -> RunMarks \cup {"none", "abandoned"}]
          /\ ledger' \in [TracedRuns -> Seq(RunMarks)]
      BY <1>0, <1>3, PutTypes DEF TraceTypes
    <2>3. lost' \in SUBSET TracedRuns
      BY <1>0, <1>3 DEF TraceTypes, Held, Traces!Carried
    <2> QED  BY <1>0, <1>1, <1>2, <2>1, <2>2, <2>3 DEF TraceTypes, RunMarks
  <1>7. HandsInv'
    BY <1>4 DEF HandsInv
  <1>8. LifeInv'
    BY <1>0, <1>1, <1>2, <1>3, <1>4 DEF LifeInv, Traces!Flushers
  <1>9. PoisonInv'
    <2> SUFFICES ASSUME NEW x \in TracedRuns,
                        x \in Traces!Dirty' \cup Traces!Known',
                        owner'[x] # "present" \/ x \notin Traces!Known'
                 PROVE  x \in met'
      BY <1>5 DEF PoisonInv
    <2>1. x \in Traces!Known' <=> x \in Traces!Known
      BY <1>1, <1>2 DEF Traces!Known
    <2>2. CASE x \in rs
      BY <1>0, <1>1, <2>1, <2>2 DEF Traces!Known, PoisonInv
    <2>3. CASE x \notin rs
      BY <1>0, <2>1, <2>3, <1>2, CarriedFacts, CarriedNext DEF PoisonInv
    <2> QED  BY <2>2, <2>3
  <1>10. ASSUME NEW r \in TracedRuns \ (twice' \cup lost'), owner'[r] = "present"  PROVE Told(r)'
    <2>1. Told(r) /\ r \notin Traces!Carried(L)
      BY <1>0, <1>10 DEF ToldInv
    <2>2. \A g \in Traces!Flushers : r \notin Traces!Carried(g) /\ r \notin Traces!Carried(g)'
      BY <1>5, <2>1
    <2>3. span_row'[r] = span_row[r] /\ ledger'[r] = ledger[r]
      BY <1>0, <1>3, <2>1, PutFacts
    <2>4. ledger[r] \o pending[r] = Expected(r) /\ (span_row[r] = outcome[r] \/ r \in new \cup updated)
      BY <2>1, <2>2 DEF Told
    <2>5. CASE r \in rs
      <3>1. outcome[r] = "running"
        BY <1>0, <1>1, <2>1, <2>5 DEF Told
      <3>2. /\ span'[r] = "ended" /\ outcome'[r] = "ended" /\ r \in updated'
            /\ pending'[r] = Append(pending[r], "ended")
        BY <1>2, <2>5
      <3>3. Expected(r)' = Append(Expected(r), "ended")
        BY <3>1, <3>2 DEF Expected
      <3>4. /\ ledger[r] \in Seq(RunMarks) /\ pending[r] \in Seq(RunMarks) /\ "ended" \in RunMarks
        BY DEF TraceTypes, RunMarks
      <3>5. ledger[r] \o Append(pending[r], "ended") = Append(ledger[r] \o pending[r], "ended")
        BY ONLY <3>4, AppendBehind
      <3>6. ledger'[r] \o pending'[r] = Expected(r)'
        BY <2>3, <2>4, <3>2, <3>3, <3>5
      <3> QED  BY <1>0, <2>2, <3>2, <3>6 DEF Told
    <2>6. CASE r \notin rs
      <3>1. /\ span'[r] = span[r] /\ outcome'[r] = outcome[r] /\ pending'[r] = pending[r]
            /\ r \in updated => r \in updated'
        BY <1>2, <2>6
      <3>2. Expected(r)' = Expected(r)
        BY <3>1 DEF Expected
      <3>3. span[r] = outcome[r]
        BY <1>0, <2>1 DEF Told
      <3> QED  BY <1>0, <2>2, <2>3, <2>4, <3>1, <3>2, <3>3 DEF Told
    <2> QED  BY <2>5, <2>6
  <1> QED  BY <1>6, <1>7, <1>8, <1>9, <1>10 DEF ToldInv

\* The process ends, with nothing left to write or by a crash.
LEMMA TraceEndsStep ==
  ASSUME TraceInv, Traces!Stopped \/ Traces!Crash
  PROVE  TraceInv'
  <1> USE RestFacts DEF TraceInv
  <1> DEFINE U == UNION {Traces!Carried(f) : f \in Traces!Flushers}
             D == Traces!Dirty
             R == Traces!RunningIn(TracedRuns)
  <1>a. Traces!Wiped /\ UNCHANGED <<owner, span_row, ledger, outcome, twice, met>>
    BY DEF Traces!Stopped, Traces!Crash
  <1>b. Traces!Crash => life = "up" /\ lost' = lost \cup D \cup U \cup R
    BY DEF Traces!Crash
  <1>c. Traces!Stopped => lost' = lost
    BY DEF Traces!Stopped
  <1>d. /\ \A f \in Traces!Flushers : Traces!Carried(f) \in SUBSET TracedRuns
        /\ D \in SUBSET TracedRuns /\ R \in SUBSET TracedRuns /\ lost \in SUBSET TracedRuns
        /\ \A r \in TracedRuns : r \in R <=> span[r] = "running"
    BY DEF TraceTypes, Held, Traces!Carried, Traces!Dirty, Traces!RunningIn
  <1>e. U \in SUBSET TracedRuns /\ \A g \in Traces!Flushers : Traces!Carried(g) \subseteq U
    BY <1>d
  <1> HIDE DEF U, R
  <1>0. lost \subseteq lost' /\ lost' \in SUBSET TracedRuns
    BY <1>b, <1>c, <1>d, <1>e
  <1>1. ASSUME NEW r \in TracedRuns \ (twice \cup lost'), owner[r] = "present"
        PROVE  outcome[r] # "running" /\ span_row'[r] = outcome[r] /\ ledger'[r] = Expected(r)
    <2>1. Told(r) /\ r \notin lost'
      BY <1>0, <1>1 DEF ToldInv
    <2>2. /\ r \notin Traces!Dirty /\ life \in {"up", "stopping"} /\ span[r] # "running"
          /\ \A g \in Traces!Flushers : r \notin Traces!Carried(g)
      <3>1. CASE Traces!Stopped
        <4>1. \A g \in Traces!Flushers : flush[g].at = "idle"
          BY <3>1 DEF Traces!Stopped, LifeInv, Traces!Flushers
        <4>2. \A g \in Traces!Flushers : r \notin Traces!Carried(g)
          BY <4>1, CarriedFacts DEF HandsInv
        <4> QED  BY <3>1, <4>2 DEF Traces!Stopped, LifeInv
      <3>2. CASE Traces!Crash
        <4>1. r \notin D /\ r \notin U /\ r \notin R
          BY <1>b, <2>1, <3>2
        <4> QED  BY <4>1, <1>b, <1>d, <1>e, <3>2
      <3> QED  BY <3>1, <3>2
    <2>3. span[r] = outcome[r]
      BY <2>1, <2>2 DEF Told
    <2> QED  BY <1>a, <2>1, <2>2, <2>3, Settled
  <1>2. /\ span_row' \in [TracedRuns -> RunMarks \cup {"none", "abandoned"}]
        /\ ledger' \in [TracedRuns -> Seq(RunMarks)]
    BY <1>a DEF TraceTypes
  <1> QED  BY <1>a, <1>0, <1>1, <1>2, WipedStep

\* The next start abandons the rows that run.
LEMMA TraceRecoverStep == TraceInv /\ Traces!Recover => TraceInv'
  <1> SUFFICES ASSUME TraceInv, Traces!Recover  PROVE TraceInv'
    OBVIOUS
  <1> USE DEF TraceInv
  <1>0. /\ life = "down" /\ life' = "recovered"
        /\ span_row' = [r \in TracedRuns |->
              IF span_row[r] = "running" THEN "abandoned" ELSE span_row[r]]
        /\ UNCHANGED <<span, new, updated, pending, flush, owner, ledger, outcome, twice, met, lost>>
    BY DEF Traces!Recover
  <1>1. TraceTypes' /\ HandsInv'
    BY <1>0 DEF TraceTypes, HandsInv
  <1>2. /\ Traces!Dirty' = Traces!Dirty /\ Traces!Known' = Traces!Known
        /\ \A f \in Traces!Flushers : Traces!Carried(f)' = Traces!Carried(f)
    BY <1>0 DEF Traces!Carried, Traces!Dirty, Traces!Known
  <1>3. PoisonInv' /\ LifeInv'
    BY <1>0, <1>2 DEF PoisonInv, LifeInv
  <1>4. ASSUME NEW r \in TracedRuns \ (twice' \cup lost'), owner'[r] = "present"  PROVE Told(r)'
    <2>1. Told(r) /\ outcome[r] # "running"
      BY <1>0, <1>4 DEF ToldInv, Told
    <2>2. r \notin Traces!Dirty /\ \A g \in Traces!Flushers : r \notin Traces!Carried(g)
      BY <1>0, CarriedFacts, RestFacts DEF LifeInv
    <2>3. span_row'[r] = outcome'[r]
      BY <1>0, <2>1, <2>2, Settled
    <2>4. Expected(r)' = Expected(r)
      BY <1>0 DEF Expected
    <2>5. ledger[r] \o pending[r] = Expected(r)
      BY <2>1, <2>2 DEF Told
    <2> QED  BY <1>0, <1>2, <2>1, <2>2, <2>3, <2>4, <2>5 DEF Told
  <1> QED  BY <1>1, <1>3, <1>4 DEF ToldInv

\* Every step keeps the invariant of the run envelopes.
LEMMA TraceStep ==
  ASSUME TraceInv, [Traces!Next]_traceVars
  PROVE  TraceInv'
  <1>1. CASE \E r \in TracedRuns : Traces!Begin(r)
    BY <1>1, TraceBeginStep
  <1>2. ASSUME NEW r \in TracedRuns, Traces!Finish(r)  PROVE TraceInv'
    <2>1. /\ \A x \in {r} : span[x] = "running"
          /\ life \in {"up", "stopping"} /\ Traces!End({r})
          /\ UNCHANGED <<new, flush, life, owner, span_row, ledger, writeFaults, twice, met, lost>>
      BY <1>2 DEF Traces!Finish
    <2>2. {r} \in SUBSET TracedRuns /\ {r} # {}
      OBVIOUS
    <2> QED  BY <2>1, <2>2, TraceEndStep
  <1>3. ASSUME NEW s \in TracedRuns, Traces!AbandonSession(s)  PROVE TraceInv'
    <2> DEFINE rs == Traces!RunningIn(Traces!RunsOf(s))
    <2>1. /\ rs # {} /\ life \in {"up", "stopping"} /\ Traces!End(rs)
          /\ UNCHANGED <<new, flush, life, owner, span_row, ledger, writeFaults, twice, met, lost>>
      BY <1>3 DEF Traces!AbandonSession
    <2>2. rs \in SUBSET TracedRuns /\ \A x \in rs : span[x] = "running"
      BY DEF Traces!RunningIn, Traces!RunsOf
    <2> HIDE DEF rs
    <2> QED  BY <2>1, <2>2, TraceEndStep
  <1>4. CASE \E s \in TracedRuns : Traces!Discard(s) \/ Traces!Remove(s)
    BY <1>4, TraceDiscardStep, TraceRemoveStep
  <1>5. CASE \E f \in Traces!Flushers : Traces!Take(f) \/ Traces!TakeFails(f)
                                        \/ Traces!Written(f) \/ Traces!Failed(f)
    BY <1>5, TraceTakeStep, TakeFailsStep, TraceWrittenStep, TraceFailedStep
  <1>6. CASE Traces!Stop \/ Traces!Stopped \/ Traces!Crash \/ Traces!Recover
    BY <1>6, TraceStopStep, TraceEndsStep, TraceRecoverStep
  <1>7. CASE UNCHANGED traceVars
    <2>1. UNCHANGED <<span, new, updated, pending, flush, life, owner, span_row, ledger,
                      outcome, twice, met, lost>>
      BY <1>7 DEF traceVars
    <2>2. TraceTypes' /\ HandsInv'
      BY <2>1 DEF TraceInv, TraceTypes, HandsInv
    <2>3. /\ Traces!Dirty' = Traces!Dirty /\ Traces!Known' = Traces!Known
          /\ \A f \in Traces!Flushers : Traces!Carried(f)' = Traces!Carried(f)
      BY <2>1 DEF Traces!Carried, Traces!Dirty, Traces!Known
    <2>4. PoisonInv' /\ LifeInv'
      BY <2>1, <2>3 DEF TraceInv, PoisonInv, LifeInv
    <2>5. \A r \in TracedRuns : Told(r) => Told(r)'
      BY <2>1, <2>3, ToldStays
    <2> QED  BY <2>1, <2>2, <2>4, <2>5 DEF TraceInv, ToldInv
  <1> QED  BY <1>1, <1>2, <1>3, <1>4, <1>5, <1>6, <1>7 DEF Traces!Next

\* The tables tell the runs, and only deletions leave what cannot be written.
LEMMA TraceHolds ==
  TraceInv => Traces!TablesTellTheRuns /\ Traces!NoRunIsLeftRunning /\ Traces!PoisonComesFromDeletions
  <1> SUFFICES ASSUME TraceInv
               PROVE  /\ Traces!TablesTellTheRuns /\ Traces!NoRunIsLeftRunning
                      /\ Traces!PoisonComesFromDeletions
    OBVIOUS
  <1> USE DEF TraceInv
  <1>1. ASSUME NEW r \in TracedRuns \ (twice \cup lost), Traces!Owned(r), r \notin Traces!Dirty,
               \A f \in Traces!Flushers : r \notin Traces!Carried(f)
        PROVE  span_row[r] = outcome[r] /\ ledger[r] = Expected(r)
    <2>1. Told(r)
      BY <1>1, OwnSession DEF ToldInv, Traces!Owned
    <2> QED  BY <1>1, <2>1, Settled
  <1>2. Traces!TablesTellTheRuns
    BY <1>1 DEF Traces!TablesTellTheRuns, Expected
  <1>3. Traces!NoRunIsLeftRunning
    BY DEF LifeInv, Traces!NoRunIsLeftRunning
  <1>4. Traces!PoisonComesFromDeletions
    <2>1. \A r \in Traces!Dirty : r \in TracedRuns /\ SessionOf[r] = r
      BY OwnSession DEF TraceTypes, Traces!Dirty
    <2> QED  BY <2>1 DEF PoisonInv, Traces!PoisonComesFromDeletions
  <1> QED  BY <1>2, <1>3, <1>4

-----------------------------------------------------------------------------
(* The whole                                                               *)

\* Whichever part moves keeps its invariant.
IInv ==
  /\ focus = "terminals" => TermInv
  /\ focus = "memory" => MemInv
  /\ focus = "branches" => BranchInv
  /\ focus = "telemetry" => TeleInv
  /\ focus = "viewers" => ViewInv
  /\ focus = "traces" => TraceInv

\* The invariant holds at the beginning, whichever part moves.
LEMMA InitEstablishes == Init => IInv
  <1> SUFFICES ASSUME Init  PROVE IInv
    OBVIOUS
  <1>1. focus = "terminals" => TermInv
    BY TermStart DEF Init
  <1>2. focus = "memory" => MemInv
    BY MemStart DEF Init
  <1>3. focus = "branches" => BranchInv
    BY BranchStart DEF Init
  <1>4. focus = "telemetry" => TeleInv
    BY TeleStart DEF Init
  <1>5. focus = "viewers" => ViewInv
    BY ViewStart DEF Init
  <1>6. focus = "traces" => TraceInv
    BY TraceStart DEF Init
  <1> QED  BY <1>1, <1>2, <1>3, <1>4, <1>5, <1>6 DEF IInv

\* Every step keeps it: it is one of the moving part, or changes nothing.
LEMMA NextPreserves == IInv /\ [Next]_vars => IInv'
  <1> SUFFICES ASSUME IInv, [Next]_vars  PROVE IInv'
    OBVIOUS
  <1>0. focus' = focus
    BY DEF Next, vars
  <1>1. focus = "terminals" => [Terms!Next]_termVars
    BY DEF Next, vars
  <1>2. focus = "memory" => [Memory!Next]_mdVars
    BY DEF Next, vars
  <1>3. focus = "branches" => [Tree!Next]_branchVars
    BY DEF Next, vars
  <1>4. focus = "telemetry" => [Tele!Next]_teleVars
    BY DEF Next, vars
  <1>5. focus = "viewers" => [Views!Next]_viewVars
    BY DEF Next, vars
  <1>6. focus = "traces" => [Traces!Next]_traceVars
    BY DEF Next, vars
  <1> QED  BY <1>0, <1>1, <1>2, <1>3, <1>4, <1>5, <1>6,
              TermStep, MemStep, BranchStep, TeleStep, ViewStep, TraceStep DEF IInv

\* The inductive invariant of the parts.
LEMMA Invariance == Spec => []IInv
  BY InitEstablishes, NextPreserves, PTL DEF Spec

\* A terminal reads and signals what is its own, and nothing of one that is over
\* is left (TerminalExecutor, TerminalManager).
THEOREM TerminalsKept == Spec => []TerminalsKeepToTheirOwn
  <1>1. IInv => TerminalsKeepToTheirOwn
    BY TermHolds DEF IInv, TerminalsKeepToTheirOwn
  <1> QED  BY <1>1, Invariance, PTL

\* The project's active revision is the one that is applied, and CLAUDE.md holds
\* it (ClaudeMdRevisionApplicationService).
THEOREM RevisionsKept == Spec => []ActiveIsTheFile
  <1>1. IInv => ActiveIsTheFile
    BY MemHolds DEF IInv, ActiveIsTheFile
  <1> QED  BY <1>1, Invariance, PTL

\* A session has its directory, what a convergence keeps is there and merged, and
\* the rows are of sessions that are there (SessionBranchApplicationService).
THEOREM BranchesKept == Spec => []BranchesAreKept
  <1>1. IInv => BranchesAreKept
    BY BranchHolds DEF IInv, BranchesAreKept
  <1> QED  BY <1>1, Invariance, PTL

\* What the agent knows to be received is in the tables, once, under the run in
\* which its trace was seen first or a run that had no row was looked for
\* (ingest_traces, ingest_logs, ingest_metrics, TraceCollector.flush).
THEOREM TelemetryKept == Spec => []TelemetryIsKept
  <1>1. IInv => TelemetryIsKept
    BY TeleHolds DEF IInv, TelemetryIsKept
  <1> QED  BY <1>1, Invariance, PTL

\* A browser that has got all it was sent shows the conversation, and none shows
\* a message twice or out of order (ConnectionManager, session_ws, useSession.js).
THEOREM ViewersShow == Spec => []ViewersSeeTheConversation
  <1>1. IInv => ViewersSeeTheConversation
    BY ViewHolds DEF IInv, ViewersSeeTheConversation
  <1> QED  BY <1>1, Invariance, PTL

\* What all is written of a run is in the tables as it was, no restart leaves a
\* run running, and only a deletion leaves what cannot be written (TraceCollector).
THEOREM RunsAreTold == Spec => []TablesTellTheRuns
  <1>1. IInv => TablesTellTheRuns
    BY TraceHolds DEF IInv, TablesTellTheRuns
  <1> QED  BY <1>1, Invariance, PTL
=============================================================================
