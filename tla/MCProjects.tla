----------------------------- MODULE MCProjects -----------------------------
(***************************************************************************)
(* What a project and the markets are made of: the entries of a market, a  *)
(* project's agent and its plugin, each a module of its own with variables *)
(* of its own: focus says which of them moves in a behaviour, the others   *)
(* stay as they began. Agent and plugin write the same CLAUDE.md, as do    *)
(* its revisions: what the others write is an action of each.              *)
(***************************************************************************)
EXTENDS Naturals, TLC

CONSTANTS
    Parts,
    Entries, Refs, NoRef, MarketRequests, MaxSuffix, MaxMarketCalls,
    Agents, NoAgent, Plugins, Assets, AgentRequests, MaxReleases, Templates, MaxMishaps,
    MaxAgentCalls,
    InitSessions, NoSession, PluginRequests, MaxInits, MaxPluginCalls, MaxPluginFaults

VARIABLES
    focus,   \* what moves, one of Parts
    entry, market, marketCalls, shaken,
    template, release, cache, place, prompt, loaded, areq, refreshing, agentMishaps, agentCalls,
    excused, torn, promised, rewritten,
    plugin, section, preq, run, mode, pluginCalls, pluginFaults, completed, slipped, crossed,
    shared, overwritten

marketVars == <<entry, market, marketCalls, shaken>>
agentVars == <<template, release, cache, place, prompt, loaded, areq, refreshing, agentMishaps,
               agentCalls, excused, torn, promised, rewritten>>
pluginVars == <<plugin, section, preq, run, mode, pluginCalls, pluginFaults, completed, slipped,
                crossed, shared, overwritten>>

Market == INSTANCE MarketEntries
Agent == INSTANCE ProjectAgents
Plugin == INSTANCE PluginInits

vars == <<focus, marketVars, agentVars, pluginVars>>

\* What does not move is 0, which keeps the states small.
Init ==
    /\ focus \in Parts
    /\ IF focus = "markets" THEN Market!Init ELSE
            entry = 0 /\ market = 0 /\ marketCalls = 0 /\ shaken = 0
    /\ IF focus = "agents" THEN Agent!Init ELSE
            /\ template = 0 /\ release = 0 /\ cache = 0 /\ place = 0 /\ prompt = 0
            /\ loaded = 0 /\ areq = 0 /\ refreshing = 0 /\ agentMishaps = 0
            /\ agentCalls = 0 /\ excused = 0 /\ torn = 0 /\ promised = 0 /\ rewritten = 0
    /\ IF focus = "plugins" THEN Plugin!Init ELSE
            /\ plugin = 0 /\ section = 0 /\ preq = 0 /\ run = 0 /\ mode = 0
            /\ pluginCalls = 0 /\ pluginFaults = 0 /\ completed = 0 /\ slipped = 0
            /\ crossed = 0 /\ shared = 0 /\ overwritten = 0

Next ==
    \/ focus = "markets" /\ Market!Next /\ UNCHANGED <<focus, agentVars, pluginVars>>
    \/ focus = "agents" /\ Agent!Next /\ UNCHANGED <<focus, marketVars, pluginVars>>
    \/ focus = "plugins" /\ Plugin!Next /\ UNCHANGED <<focus, marketVars, agentVars>>

Spec == Init /\ [][Next]_vars

\* As in MCServices: what is interchangeable takes the same values everywhere.
Symmetry == Permutations(Entries) \cup Permutations(MarketRequests) \cup Permutations(Agents)

----------------------------------------------------------------------------
\* A market lists a name and an upstream server once (McpMarketApplicationService,
\* SkillMarketApplicationService). A project is what its row says: its agent's
\* prompt and items, the releases its upgrades brought (AgentApplicationService,
\* PluginApplicationService); CLAUDE.md, the plugin's status and the sessions'
\* modes tell what became of its initialization (PluginInitApplicationService).
ProjectsAreKept ==
    /\ focus = "markets" => Market!ListedOnce
    /\ focus = "agents" => Agent!ProjectIsItsAgent /\ Agent!UpgradesAreKept
    /\ focus = "plugins" =>
           Plugin!SectionTellsTheStatus /\ Plugin!FailuresAreTold /\ Plugin!ModesComeBack
=============================================================================
