---------------------------- MODULE MarketEntries ----------------------------
(***************************************************************************)
(* A market's entries, MCP servers or skills                               *)
(* (mcp_market_application_service.py, skill_market_application_service.py *)
(* over their repositories, which are alike). A request is one             *)
(* transaction: it reads the table as it was at its first read, looks for  *)
(* a duplicate there, and writes; the table has a unique key on the name   *)
(* and none on the upstream reference. An import fetches the server from   *)
(* the catalog between the look and the write, and takes a name of its own *)
(* when the one it would have is taken.                                    *)
(***************************************************************************)
EXTENDS Naturals, FiniteSets

CONSTANTS
    Entries,       \* ids
    Refs,          \* upstream servers, all of one name
    NoRef,
    MarketRequests,
    MaxSuffix,     \* _MAX_NAME_SUFFIX: name n is the upstream's with suffix n, 1 without
    MaxMarketCalls \* requests made (bound)

VARIABLES
    entry,        \* the committed table
    market,       \* each request: what it read, what it writes
    marketCalls,
    \* History, read by no guard:
    shaken        \* a row lost its name while an import was under way

marketVars == <<entry, market, marketCalls, shaken>>

NoEntry == [name |-> 0, ref |-> NoRef, active |-> FALSE]
\* One name that no import takes.
Names == 1 .. MaxSuffix + 1

Resting == [at |-> "idle", id |-> NoRef, ref |-> NoRef, was |-> NoEntry, will |-> NoEntry,
            taken |-> {}]

Init ==
    /\ entry = [i \in Entries |-> NoEntry]
    /\ market = [q \in MarketRequests |-> Resting]
    /\ marketCalls = 0 /\ shaken = FALSE

There(i) == entry[i] # NoEntry
NamesBut(i) == {entry[j].name : j \in {k \in Entries \ {i} : There(k)}}

\* A uuid no row and no request has.
Fresh(i) == ~There(i) /\ \A q \in MarketRequests : market[q].id # i

Begin(q, at, i, ref, will) ==
    /\ market[q].at = "idle" /\ marketCalls < MaxMarketCalls
    /\ marketCalls' = marketCalls + 1
    /\ market' = [market EXCEPT ![q] = [at |-> at, id |-> i, ref |-> ref, was |-> entry[i],
                                        will |-> will, taken |-> NamesBut(i)]]
    /\ UNCHANGED <<entry, shaken>>

CreateEntry(q, i, name) ==
    /\ Fresh(i) /\ name \notin NamesBut(i)
    /\ Begin(q, "writing", i, NoRef, [name |-> name, ref |-> NoRef, active |-> TRUE])

UpdateEntry(q, i, name, active) ==
    /\ There(i) /\ name \notin NamesBut(i)
    /\ Begin(q, "writing", i, NoRef, [entry[i] EXCEPT !.name = name, !.active = active])

DeleteEntry(q, i) ==
    /\ There(i)
    /\ Begin(q, "writing", i, NoRef, NoEntry)

\* Mutant: nothing is looked for.
NeverImported(ref) == TRUE

\* find_by_source_ref.
NotImported(ref) == \A i \in Entries : entry[i].ref # ref

ImportEntry(q, i, ref) ==
    /\ Fresh(i) /\ NotImported(ref)
    /\ Begin(q, "fetching", i, ref, NoEntry)

----------------------------------------------------------------------------
Ended(q) == [market EXCEPT ![q] = Resting]

\* The catalog answers: _allocate_name, from what the request has read.
Fetched(q) ==
    LET free == {n \in 1 .. MaxSuffix : n \notin market[q].taken}
    IN  /\ market[q].at = "fetching" /\ free # {}
        /\ \E n \in free :
            /\ \A k \in free : n <= k
            /\ market' = [market EXCEPT
                  ![q] = [@ EXCEPT !.at = "writing",
                                   !.will = [name |-> n, ref |-> market[q].ref, active |-> TRUE]]]
        /\ UNCHANGED <<entry, marketCalls, shaken>>

\* Unavailable, not there any more, or too many entries of that name.
NotFetched(q) ==
    /\ market[q].at = "fetching"
    /\ market' = Ended(q)
    /\ UNCHANGED <<entry, marketCalls, shaken>>

\* Mutant: the key is looked up among the committed rows only.
NobodyInTheWay(q) == TRUE

\* The name a request writes, if any.
Writes(r) == {r.will.name} \ {r.was.name, 0}

\* Another transaction has written the row, or a name that this one writes.
NotInTheWay(q) ==
    \A p \in MarketRequests \ {q} :
        market[p].at = "written" =>
            /\ market[p].id # market[q].id
            /\ Writes(market[q]) \cap {market[p].was.name, market[p].will.name} = {}

\* flush. The key refuses a name that is there by now, and an update finds no
\* row where it was deleted.
Write(q) ==
    LET r == market[q]
        refused == \/ Writes(r) \cap NamesBut(r.id) # {}
                   \/ r.was # NoEntry /\ r.will # NoEntry /\ ~There(r.id)
    IN  /\ r.at = "writing" /\ NotInTheWay(q)
        /\ market' = IF refused THEN Ended(q) ELSE [market EXCEPT ![q].at = "written"]
        /\ UNCHANGED <<entry, marketCalls, shaken>>

\* The columns that it changed.
Merged(now, was, will) ==
    IF was = NoEntry \/ will = NoEntry THEN will
    ELSE [column \in DOMAIN now |->
            IF was[column] # will[column] THEN will[column] ELSE now[column]]

Importing(q) == market[q].ref # NoRef

Commit(q) ==
    LET r == market[q]
        row == Merged(entry[r.id], r.was, r.will)
    IN  /\ r.at = "written"
        /\ entry' = [entry EXCEPT ![r.id] = row]
        /\ market' = Ended(q)
        /\ shaken' = (shaken \/ ( /\ There(r.id) /\ row.name # entry[r.id].name
                                  /\ \E p \in MarketRequests : Importing(p)))
        /\ UNCHANGED marketCalls

Next ==
    \E q \in MarketRequests :
        \/ \E i \in Entries, n \in Names : CreateEntry(q, i, n)
        \/ \E i \in Entries, n \in Names, active \in BOOLEAN : UpdateEntry(q, i, n, active)
        \/ \E i \in Entries : DeleteEntry(q, i)
        \/ \E i \in Entries, ref \in Refs : ImportEntry(q, i, ref)
        \/ Fetched(q) \/ NotFetched(q) \/ Write(q) \/ Commit(q)

Spec == Init /\ [][Next]_marketVars

----------------------------------------------------------------------------
\* Two entries have two names (an agent's assets are files of that name,
\* agent_asset_installer_impl.py), and one upstream server is imported once
\* though the table has no key for it: the second import of two that overlap
\* runs into the name of the first, unless a row has lost its name meanwhile.
ListedOnce ==
    \A i, j \in Entries :
        There(i) /\ There(j) /\ i # j =>
            /\ entry[i].name # entry[j].name
            /\ ~shaken => entry[i].ref = NoRef \/ entry[i].ref # entry[j].ref
=============================================================================
