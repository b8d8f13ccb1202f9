---------------------------- MODULE ProjectAgents ----------------------------
(***************************************************************************)
(* The agent of a project (agent_application_service.py): its prompt in    *)
(* CLAUDE.md, the plugins and the market's assets it brings                *)
(* (claude_plugin_manager.py, agent_asset_installer_impl.py), and the row  *)
(* that names it. A request is a long chain of steps, each a call of the   *)
(* claude command or a write of a file, of which most failures are only    *)
(* logged; the row is written in a transaction that commits at its end.    *)
(* Writing the prompt writes a column of the project's row too, so that    *)
(* from then on the row is locked. Plugins are also installed and upgraded *)
(* by hand (plugin_application_service.py), and the templates agents are   *)
(* made from are edited and deleted (agent_template_application_service).  *)
(* Others write CLAUDE.md too: users who apply a revision of it            *)
(* (ClaudeMdRevisions), and the plugin's section, which is put into what   *)
(* was read a moment before (PluginInits).                                 *)
(***************************************************************************)
EXTENDS Naturals, Sequences, FiniteSets

CONSTANTS
    Agents, NoAgent,
    Plugins, Assets,    \* disjoint sets of numbers, in the order they are listed
    AgentRequests,
    MaxReleases,        \* releases of the marketplace (bound)
    Templates,          \* what an agent may bring: sets of items
    MaxMishaps,         \* calls that fail, and changes of templates (bound)
    MaxAgentCalls       \* requests made (bound)

VARIABLES
    template,   \* agent -> the items it brings; or that it is deleted
    release, cache,  \* the marketplace's release, and the copy on this machine
    place,      \* item -> the release in the project, 0 if it is not there
    prompt,     \* the agent whose prompt CLAUDE.md holds; or another's text
    loaded,     \* the agent the committed row names
    areq,       \* the requests
    refreshing, \* _background_update_marketplace under way
    agentMishaps, agentCalls,
    \* History, read by no guard:
    excused,    \* items some failure, overlap, edit or hand has touched
    torn,       \* prompt and row may differ: a request failed or overlapped
    promised,   \* plugin -> the release its last upgrade was to bring
    rewritten   \* others wrote CLAUDE.md since a request here last did

agentVars == <<template, release, cache, place, prompt, loaded, areq, refreshing,
               agentMishaps, agentCalls, excused, torn, promised, rewritten>>

Items == Plugins \cup Assets
\* What a template's row is when it is deleted.
Deleted == {0}
Exists(g) == template[g] # Deleted
\* The text of another, whatever it is.
Another == "another"

\* left: the items the step under way has still to see to; bare: the one in
\* hand is uninstalled and to be installed.
Resting == [is |-> "idle", agent |-> NoAgent, was |-> NoAgent, todo |-> <<>>, left |-> {},
            bare |-> FALSE, wrote |-> FALSE, since |-> 0]

Init ==
    /\ template \in [Agents -> Templates]
    /\ release = 1 /\ cache = 1
    /\ place = [i \in Items |-> 0]
    /\ prompt = NoAgent /\ loaded = NoAgent
    /\ areq = [q \in AgentRequests |-> Resting]
    /\ refreshing = FALSE
    /\ agentMishaps = 0 /\ agentCalls = 0
    /\ excused = {} /\ torn = FALSE /\ promised = [p \in Plugins |-> 0]
    /\ rewritten = FALSE

\* What _resolve_agent_meta finds.
Brings(g) == IF g # NoAgent /\ Exists(g) THEN template[g] ELSE {}

Busy(q) == areq[q].is # "idle"
Concerns(r) == Brings(r.agent) \cup Brings(r.was)
Underway == {q \in AgentRequests : Busy(q)}
Idle == Underway = {}

----------------------------------------------------------------------------
\* Requests.

Begin(q, is, g, was, todo, hands) ==
    LET others == UNION {Concerns(areq[p]) \cup areq[p].left : p \in Underway}
    IN  /\ ~Busy(q) /\ agentCalls < MaxAgentCalls
        /\ agentCalls' = agentCalls + 1
        /\ areq' = [areq EXCEPT ![q] = [is |-> is, agent |-> g, was |-> was, todo |-> todo,
                                        left |-> {}, bare |-> FALSE, wrote |-> FALSE,
                                        since |-> release]]
        /\ excused' = excused \cup hands \cup
              (IF Idle THEN {} ELSE others \cup Brings(g) \cup Brings(was) \cup hands)
        /\ torn' = (torn \/ ~Idle)
        /\ UNCHANGED <<template, release, cache, place, prompt, loaded, refreshing, agentMishaps,
                       promised, rewritten>>

Do(what, g) == <<[do |-> what, agent |-> g]>>

\* Mutant: of the agent before only the plugins go.
ReplaceOf(g) == IF loaded \in {NoAgent, g} THEN <<>> ELSE Do("uninstall", loaded)

\* Another agent's plugins and assets go first.
Replace(g) ==
    IF loaded \in {NoAgent, g} THEN <<>> ELSE Do("uninstall", loaded) \o Do("remove", loaded)

LoadAgent(q, g) ==
    /\ Exists(g)
    /\ Begin(q, "load", g, loaded,
             Replace(g) \o Do("write", g) \o Do("lock", g) \o Do("install", g)
             \o Do("apply", g), {})

UpdateAgent(q) ==
    /\ loaded # NoAgent /\ Exists(loaded)
    /\ Begin(q, "update", loaded, loaded,
             Do("write", loaded) \o Do("lock", loaded) \o Do("uninstall", loaded)
             \o Do("install", loaded) \o Do("remove", loaded) \o Do("apply", loaded), {})

UnloadAgent(q) ==
    /\ loaded # NoAgent
    /\ Begin(q, "load", NoAgent, loaded,
             Do("uninstall", loaded) \o Do("remove", loaded) \o Do("lock", NoAgent)
             \o Do("write", NoAgent), {})

\* By hand: install_plugin, uninstall_plugin, upgrade_plugin, upgrade_all_plugins.
There == {p \in Plugins : place[p] # 0}
ByHand(q, p) ==
    \/ Begin(q, "hand", NoAgent, NoAgent, Do("put", p), {p})
    \/ Begin(q, "hand", NoAgent, NoAgent, Do("take", p), {p})
UpgradePlugin(q, p) ==
    /\ p \in There
    /\ Begin(q, "upgrade", NoAgent, NoAgent, Do("refresh", NoAgent) \o Do("renew", p), {})
UpgradeAll(q) ==
    /\ There # {}
    /\ Begin(q, "all", NoAgent, NoAgent, Do("refresh", NoAgent) \o Do("renewAll", There), {})

----------------------------------------------------------------------------
\* Their steps.

Least(set) == CHOOSE i \in set : \A j \in set : i <= j
Next1(q) == Head(areq[q].todo)
At(q, do) == Busy(q) /\ areq[q].left = {} /\ areq[q].todo # <<>> /\ Next1(q).do = do
Rest(q) == Tail(areq[q].todo)
Doing(q, do) == Busy(q) /\ areq[q].left # {} /\ Next1(q).do = do
Item(q) == Least(areq[q].left)

\* The item in hand is done; after the last, the step is.
Past(r) ==
    LET left == r.left \ {Least(r.left)}
    IN  [r EXCEPT !.left = left, !.bare = FALSE, !.todo = IF left = {} THEN Tail(@) ELSE @]

\* A step that has items to see to: which, it looks up as it begins.
ItemsOf(step) ==
    CASE step.do \in {"uninstall", "install"} -> Brings(step.agent) \cap Plugins
      [] step.do \in {"remove", "apply"} -> Brings(step.agent) \cap Assets
      [] step.do \in {"put", "take", "renew"} -> {step.agent}
      [] step.do = "renewAll" -> step.agent
      [] OTHER -> {}
Itemized == {"uninstall", "install", "remove", "apply", "put", "take", "renew", "renewAll"}

Turn(q) ==
    /\ \E do \in Itemized : At(q, do)
    /\ LET items == ItemsOf(Next1(q)) IN
        /\ areq' = IF items = {} THEN [areq EXCEPT ![q].todo = Tail(@)]
                   ELSE [areq EXCEPT ![q].left = items]
        /\ refreshing' = (refreshing \/ (Next1(q).do = "install" /\ items # {}))
    /\ UNCHANGED <<template, release, cache, place, prompt, loaded, agentMishaps, agentCalls,
                   excused, torn, promised, rewritten>>

\* A call of the command, or a write, for the item in hand: it succeeds, or
\* fails, which excuses what becomes of the item.
Call(q, do, changed, next, failed) ==
    /\ Doing(q, do)
    /\ \/ /\ place' = [place EXCEPT ![Item(q)] = changed]
          /\ areq' = [areq EXCEPT ![q] = next]
          /\ UNCHANGED <<agentMishaps, excused>>
       \/ /\ agentMishaps < MaxMishaps /\ agentMishaps' = agentMishaps + 1
          /\ areq' = [areq EXCEPT ![q] = failed]
          /\ excused' = excused \cup {Item(q)}
          /\ UNCHANGED place
    /\ UNCHANGED <<template, release, cache, prompt, loaded, refreshing, agentCalls, torn,
                   promised, rewritten>>

Bared(r) == [r EXCEPT !.bare = TRUE]

\* _uninstall_agent_plugins, _uninstall_agent_assets: a failure is logged.
Uninstall(q) ==
    \E do \in {"uninstall", "remove", "take"} : Call(q, do, 0, Past(areq[q]), Past(areq[q]))

\* _install_agent_assets, install_plugin by hand.
Apply(q) == Call(q, "apply", 1, Past(areq[q]), Past(areq[q]))
Newest(i) == IF place[i] = 0 THEN cache ELSE place[i]
Put(q) == Call(q, "put", Newest(Item(q)), Past(areq[q]), Past(areq[q]))

\* _install_agent_plugins: uninstalled first, whether or not that succeeds.
Reinstall(q) ==
    /\ ~areq[q].bare
    /\ Call(q, "install", 0, Bared(areq[q]), Bared(areq[q]))
Install(q) ==
    /\ areq[q].bare
    /\ Call(q, "install", Newest(Item(q)), Past(areq[q]), Past(areq[q]))

\* _reinstall_plugin: a failure ends it. upgrade_all_plugins goes on.
Renewing(q) == \E do \in {"renew", "renewAll"} : Doing(q, do)
Remove(q) ==
    /\ Renewing(q) /\ ~areq[q].bare
    /\ Call(q, Next1(q).do, 0, Bared(areq[q]), Past(areq[q]))
Renew(q) ==
    LET p == Item(q) IN
    /\ Renewing(q) /\ areq[q].bare
    /\ \/ /\ place' = [place EXCEPT ![p] = Newest(p)]
          /\ promised' = [promised EXCEPT ![p] = areq[q].since]
          /\ UNCHANGED <<agentMishaps, excused>>
       \/ /\ agentMishaps < MaxMishaps /\ agentMishaps' = agentMishaps + 1
          /\ excused' = excused \cup {p}
          /\ UNCHANGED <<place, promised>>
    /\ areq' = [areq EXCEPT ![q] = Past(@)]
    /\ UNCHANGED <<template, release, cache, prompt, loaded, refreshing, agentCalls, torn,
                   rewritten>>

\* Mutant: what is to be upgraded is installed anew from the copy that is there.
GoOn(q) == Rest(q)

\* Without a fresh copy nothing is upgraded.
GiveUp(q) == <<>>

\* update_marketplace before an upgrade.
Refresh(q) ==
    /\ At(q, "refresh")
    /\ \/ /\ cache' = release /\ areq' = [areq EXCEPT ![q].todo = Tail(@)]
          /\ UNCHANGED agentMishaps
       \/ /\ agentMishaps < MaxMishaps /\ agentMishaps' = agentMishaps + 1
          /\ areq' = [areq EXCEPT ![q].todo = GiveUp(q)]
          /\ UNCHANGED cache
    /\ UNCHANGED <<template, release, place, prompt, loaded, refreshing, agentCalls, excused,
                   torn, promised, rewritten>>

\* _background_update_marketplace; a failure is logged.
BackgroundUpdate ==
    /\ refreshing /\ refreshing' = FALSE /\ cache' \in {cache, release}
    /\ UNCHANGED <<template, release, place, prompt, loaded, areq, agentMishaps, agentCalls,
                   excused, torn, promised, rewritten>>

\* _apply_claude_md_revision writes the file, and then the project's row,
\* which no other transaction may have written.
WritePrompt(q) ==
    /\ At(q, "write")
    /\ prompt' = Next1(q).agent /\ rewritten' = FALSE
    /\ areq' = [areq EXCEPT ![q].todo = Tail(@)]
    /\ UNCHANGED <<template, release, cache, place, loaded, refreshing, agentMishaps,
                   agentCalls, excused, torn, promised>>

\* Others write it, another text or one of before. What they do to it again,
\* before it is written here, makes no difference (bound).
OverwriteFile ==
    /\ ~rewritten /\ prompt' = Another /\ rewritten' = TRUE
    /\ UNCHANGED <<template, release, cache, place, loaded, areq, refreshing, agentMishaps,
                   agentCalls, excused, torn, promised>>

LockRow(q) ==
    /\ At(q, "lock") /\ \A p \in AgentRequests : ~areq[p].wrote
    /\ areq' = [areq EXCEPT ![q].todo = Tail(@), ![q].wrote = TRUE]
    /\ UNCHANGED <<template, release, cache, place, prompt, loaded, refreshing, agentMishaps,
                   agentCalls, excused, torn, promised, rewritten>>

\* The file changed while it was applied, the wait for the row took too long,
\* or the transaction failed: what is done outside the database stays done.
Fail(q) ==
    /\ Busy(q) /\ areq[q].left = {} /\ agentMishaps < MaxMishaps
    /\ At(q, "write") \/ At(q, "lock") \/ (areq[q].todo = <<>> /\ areq[q].wrote)
    /\ agentMishaps' = agentMishaps + 1
    /\ areq' = [areq EXCEPT ![q] = Resting]
    /\ excused' = excused \cup Concerns(areq[q])
    /\ torn' = TRUE
    /\ UNCHANGED <<template, release, cache, place, prompt, loaded, refreshing, agentCalls,
                   promised, rewritten>>

\* load_agent and unload_agent save the row; the request commits.
Commit(q) ==
    /\ Busy(q) /\ areq[q].todo = <<>>
    /\ loaded' = IF areq[q].is = "load" THEN areq[q].agent ELSE loaded
    /\ areq' = [areq EXCEPT ![q] = Resting]
    /\ UNCHANGED <<template, release, cache, place, prompt, refreshing, agentMishaps, agentCalls,
                   excused, torn, promised, rewritten>>

----------------------------------------------------------------------------
\* The marketplace publishes; templates and market entries are edited, templates
\* deleted. An agent that is loaded, or about to be, keeps what it brought.
Publish ==
    /\ release < MaxReleases /\ release' = release + 1
    /\ UNCHANGED <<template, cache, place, prompt, loaded, areq, refreshing, agentMishaps,
                   agentCalls, excused, torn, promised, rewritten>>

EditTemplate(g, items) ==
    /\ Exists(g) /\ items # template[g] /\ agentMishaps < MaxMishaps
    /\ template' = [template EXCEPT ![g] = items]
    /\ agentMishaps' = agentMishaps + 1
    /\ excused' = IF loaded = g \/ \E q \in Underway : g \in {areq[q].agent, areq[q].was}
                  THEN excused \cup ((template[g] \cup items) \cap Items) ELSE excused
    /\ UNCHANGED <<release, cache, place, prompt, loaded, areq, refreshing, agentCalls, torn,
                   promised, rewritten>>

Next ==
    \/ \E q \in AgentRequests :
        \/ \E g \in Agents : LoadAgent(q, g)
        \/ UpdateAgent(q) \/ UnloadAgent(q)
        \/ \E p \in Plugins : ByHand(q, p) \/ UpgradePlugin(q, p)
        \/ UpgradeAll(q)
        \/ Turn(q) \/ Uninstall(q) \/ Apply(q) \/ Put(q) \/ Reinstall(q) \/ Install(q)
        \/ Remove(q) \/ Renew(q) \/ Refresh(q) \/ WritePrompt(q) \/ LockRow(q)
        \/ Fail(q) \/ Commit(q)
    \/ BackgroundUpdate \/ OverwriteFile \/ Publish
    \/ \E g \in Agents, items \in Templates \cup {Deleted} : EditTemplate(g, items)

Spec == Init /\ [][Next]_agentVars

----------------------------------------------------------------------------
\* Between requests the project is what its row says: CLAUDE.md holds that
\* agent's prompt, and of the agents' items those are there that it brings,
\* nothing of one loaded before. Excepted are the items and requests history
\* names, and the prompt where others have written the file since (load_agent,
\* update_agent, unload_agent).
ProjectIsItsAgent ==
    Idle =>
        /\ torn \/ rewritten \/ prompt = loaded
        /\ \A i \in Items \ excused : place[i] # 0 <=> i \in Brings(loaded)

\* A plugin is never older than the release its last upgrade was to bring
\* (upgrade_plugin, upgrade_all_plugins).
UpgradesAreKept == \A p \in There : place[p] >= promised[p]

\* What the comment at agent_application_service.py:260 says of loading ("ensure
\* latest version is installed after marketplace update"): the update runs in
\* the background, so that a load may install the copy from before. Fails.
LoadsBringTheLatest ==
    \A q \in AgentRequests :
        Busy(q) /\ areq[q].is = "load" /\ areq[q].todo = <<>> =>
            \A p \in (Brings(areq[q].agent) \cap Plugins) \ excused : place[p] >= areq[q].since
=============================================================================
