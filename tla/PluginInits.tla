---------------------------- MODULE PluginInits ----------------------------
(***************************************************************************)
(* A project's plugin, Lark's, and its initialization by a session         *)
(* (plugin_init_application_service.py). The request checks what the       *)
(* plugin needs, writes a section of CLAUDE.md, marks the plugin           *)
(* initializing and starts a query of the session named, all before its    *)
(* transaction commits. The query runs on its own, with the session's      *)
(* permissions bypassed meanwhile; its agent, or a user, reports the end   *)
(* in a request of its own, and only a query that could not be run marks   *)
(* the plugin failed. CLAUDE.md is not the plugin's alone: whoever applies *)
(* a revision of it (ClaudeMdRevisions) or an agent's prompt               *)
(* (ProjectAgents) overwrites the whole file.                              *)
(***************************************************************************)
EXTENDS Naturals, FiniteSets

CONSTANTS
    InitSessions, NoSession,
    PluginRequests,
    MaxInits,         \* initializations begun (bound)
    MaxPluginCalls,   \* requests made (bound)
    MaxPluginFaults   \* commits that fail, crashes (bound)

VARIABLES
    plugin,    \* the committed row's entry: its status, and the init it is of
    section,   \* CLAUDE.md has the plugin's section
    preq,      \* requests: where they are, the entry they have saved
    run,       \* init -> its query
    mode,      \* _session_permission_modes
    pluginCalls, pluginFaults,
    \* History, read by no guard:
    completed, \* inits reported complete
    slipped,   \* requests overlapped, or one had written CLAUDE.md and failed
    crossed,   \* inits whose row was replaced, or not there yet, while their query ran
    shared,    \* sessions whose queries overlapped or whose mode a user set
    overwritten \* others overwrote CLAUDE.md since the section was written or removed

pluginVars == <<plugin, section, preq, run, mode, pluginCalls, pluginFaults, completed, slipped,
                crossed, shared, overwritten>>

Inits == 1 .. MaxInits
Blank == [status |-> "none", of |-> 0]
Rest == [at |-> "idle", is |-> "none", session |-> NoSession, saved |-> Blank]
Unrun == [at |-> "none", session |-> NoSession, was |-> Blank]

Init ==
    /\ plugin = Blank /\ section = FALSE
    /\ preq = [q \in PluginRequests |-> Rest]
    /\ run = [k \in Inits |-> Unrun]
    /\ mode = [s \in InitSessions |-> "default"]
    /\ pluginCalls = 0 /\ pluginFaults = 0
    /\ completed = {} /\ slipped = FALSE /\ crossed = {} /\ shared = {}
    /\ overwritten = FALSE

Underway == {q \in PluginRequests : preq[q].at # "idle"}
Started == {k \in Inits : run[k].at # "none"}
Starting == {q \in PluginRequests : preq[q].is = "init" /\ preq[q].at # "saved"}
Live(k) == run[k].at \in {"started", "asking", "failing", "marking"}

----------------------------------------------------------------------------
\* Requests. Each reads the row as it begins.

Begin(q, is, at, s, saved) ==
    /\ preq[q].at = "idle" /\ pluginCalls < MaxPluginCalls
    /\ pluginCalls' = pluginCalls + 1
    /\ preq' = [preq EXCEPT ![q] = [at |-> at, is |-> is, session |-> s, saved |-> saved]]
    /\ slipped' = (slipped \/ Underway # {})
    /\ UNCHANGED <<plugin, section, run, mode, pluginFaults, completed, crossed, shared,
                   overwritten>>

\* Refused while one is in progress.
MayBegin == plugin.status # "initializing"

InitPlugin(q, s) ==
    /\ MayBegin /\ Cardinality(Started) + Cardinality(Starting) < MaxInits
    /\ Begin(q, "init", "checking", s, Blank)

ResetPlugin(q) == Begin(q, "reset", "saving", NoSession, Blank)

CompletePluginInit(q) ==
    /\ plugin.status = "initializing"
    /\ Begin(q, "complete", "saving", NoSession, [plugin EXCEPT !.status = "ready"])

Go(q, at) == preq' = [preq EXCEPT ![q].at = at]

\* _check_prerequisites: a command fails, or all are there.
Check(q) ==
    /\ preq[q].at = "checking"
    /\ Go(q, "writing") \/ preq' = [preq EXCEPT ![q] = Rest]
    /\ UNCHANGED <<plugin, section, run, mode, pluginCalls, pluginFaults, completed, slipped,
                   crossed, shared, overwritten>>

\* Mutant: a section stays for ever.
Kept(is) == TRUE

\* _write_claude_md_section, or _remove_claude_md_section.
Written(is) == is = "init"

WriteSection(q) ==
    /\ preq[q].at = "writing"
    /\ section' = Written(preq[q].is) /\ overwritten' = FALSE
    /\ Go(q, IF preq[q].is = "init" THEN "saving" ELSE "saved")
    /\ UNCHANGED <<plugin, run, mode, pluginCalls, pluginFaults, completed, slipped, crossed,
                   shared>>

\* Whoever has written the row and not committed.
Holds(q) == preq[q].at = "saved" \/ (preq[q].is = "reset" /\ preq[q].at = "writing")
RowFree == \A q \in PluginRequests : ~Holds(q)

\* The save, which waits for the row. An init then starts its query, a reset
\* goes on to CLAUDE.md.
Save(q) ==
    LET r == preq[q]
        k == 1 + Cardinality(Started)
    IN  /\ r.at = "saving" /\ RowFree
        /\ IF r.is = "init"
           THEN /\ preq' = [preq EXCEPT ![q].at = "saved",
                                        ![q].saved = [status |-> "initializing", of |-> k]]
                /\ run' = [run EXCEPT ![k] = [at |-> "started", session |-> r.session,
                                                 was |-> Blank]]
           ELSE Go(q, IF r.is = "reset" THEN "writing" ELSE "saved") /\ UNCHANGED run
        /\ UNCHANGED <<plugin, section, mode, pluginCalls, pluginFaults, completed, slipped,
                       crossed, shared, overwritten>>

Commit(q) ==
    LET r == preq[q] IN
    /\ r.at = "saved"
    /\ \/ /\ plugin' = r.saved /\ UNCHANGED <<pluginFaults, slipped>>
       \/ /\ pluginFaults < MaxPluginFaults /\ pluginFaults' = pluginFaults + 1
          /\ slipped' = TRUE /\ UNCHANGED plugin
    /\ preq' = [preq EXCEPT ![q] = Rest]
    /\ crossed' = crossed \cup {k \in Inits : Live(k) /\ plugin' # plugin
                                              /\ plugin'.status # "ready" /\ plugin'.of # k}
    /\ completed' = IF plugin' = plugin \/ plugin'.status # "ready" THEN completed
                    ELSE completed \cup {plugin'.of}
    /\ UNCHANGED <<section, run, mode, pluginCalls, shared, overwritten>>

\* Others overwrite CLAUDE.md, with the section or without it. What they do to
\* it again, before it is written here, makes no difference (bound).
OverwriteFile ==
    /\ ~overwritten /\ section' = ~section /\ overwritten' = TRUE
    /\ UNCHANGED <<plugin, preq, run, mode, pluginCalls, pluginFaults, completed, slipped, crossed,
                   shared>>

----------------------------------------------------------------------------
\* _send_plugin_init_prompt.

\* The permission mode is set, and the query run: for as long as the session
\* is locked by another it waits.
Prompt(k) ==
    LET s == run[k].session IN
    /\ run[k].at = "started"
    /\ run' = [run EXCEPT ![k].at = "asking"]
    /\ mode' = [mode EXCEPT ![s] = "bypassPermissions"]
    /\ shared' = shared \cup {t \in {s} : \E j \in Inits \ {k} : Live(j) /\ run[j].session = t}
    /\ UNCHANGED <<plugin, section, preq, pluginCalls, pluginFaults, completed, slipped, crossed,
                   overwritten>>

\* Mutant: the mode is set back where the query has run.
OnlyAfterSuccess(k, failed) ==
    IF failed THEN mode ELSE [mode EXCEPT ![run[k].session] = "default"]

SetBack(k, failed) == [mode EXCEPT ![run[k].session] = "default"]

\* The query has run, however it went, or could not be; so could the service
\* not be had at all.
Asked(k) ==
    /\ run[k].at \in {"started", "asking"}
    /\ \/ /\ run[k].at = "asking" /\ run' = [run EXCEPT ![k].at = "asked"]
          /\ mode' = SetBack(k, FALSE)
       \/ /\ run' = [run EXCEPT ![k].at = "failing"]
          /\ mode' = IF run[k].at = "asking" THEN SetBack(k, TRUE) ELSE mode
    /\ crossed' = IF plugin.of = k THEN crossed ELSE crossed \cup {k}
    /\ UNCHANGED <<plugin, section, preq, pluginCalls, pluginFaults, completed, slipped, shared,
                   overwritten>>

\* Mutant: it takes it that the plugin is being initialized.
FailedOf(entry) == [entry EXCEPT !.status = "error"]

\* What _auto_fail_plugin_init makes of the entry it reads.
AutoFailed(entry) ==
    IF entry.status = "initializing" THEN [entry EXCEPT !.status = "error"] ELSE entry

\* _auto_fail_plugin_init, in a transaction of its own: it reads the row, and
\* writes it when it is free. A failure is logged.
AutoFailReads(k) ==
    /\ run[k].at = "failing"
    /\ run' = [run EXCEPT ![k].at = IF AutoFailed(plugin) = plugin THEN "failed" ELSE "marking",
                          ![k].was = plugin]
    /\ UNCHANGED <<plugin, section, preq, mode, pluginCalls, pluginFaults, completed, slipped,
                   crossed, shared, overwritten>>

AutoFailWrites(k) ==
    /\ run[k].at = "marking"
    /\ \/ /\ RowFree /\ plugin' = AutoFailed(run[k].was)
          /\ slipped' = (slipped \/ plugin # run[k].was \/ Underway # {})
          /\ crossed' = IF plugin'.of = k THEN crossed ELSE crossed \cup {plugin'.of}
          /\ UNCHANGED pluginFaults
       \/ /\ pluginFaults < MaxPluginFaults /\ pluginFaults' = pluginFaults + 1
          /\ crossed' = crossed \cup {k} /\ UNCHANGED <<plugin, slipped>>
    /\ run' = [run EXCEPT ![k].at = "failed"]
    /\ UNCHANGED <<section, preq, mode, pluginCalls, completed, shared, overwritten>>

----------------------------------------------------------------------------
\* A user sets the mode of the session; the server is started again, which
\* forgets modes, requests and queries.
SetPermissionMode(s) ==
    /\ mode[s] # "acceptEdits" /\ s \notin shared
    /\ mode' = [mode EXCEPT ![s] = "acceptEdits"] /\ shared' = shared \cup {s}
    /\ UNCHANGED <<plugin, section, preq, run, pluginCalls, pluginFaults, completed, slipped,
                   crossed, overwritten>>

Crash ==
    /\ pluginFaults < MaxPluginFaults /\ pluginFaults' = pluginFaults + 1
    /\ preq' = [q \in PluginRequests |-> Rest]
    /\ run' = [k \in Inits |-> IF Live(k) THEN [run[k] EXCEPT !.at = "lost"] ELSE run[k]]
    /\ mode' = [s \in InitSessions |-> "default"]
    /\ slipped' = (slipped \/ Underway # {})
    /\ UNCHANGED <<plugin, section, pluginCalls, completed, crossed, shared, overwritten>>

Next ==
    \/ \E q \in PluginRequests :
        \/ \E s \in InitSessions : InitPlugin(q, s)
        \/ ResetPlugin(q) \/ CompletePluginInit(q)
        \/ Check(q) \/ WriteSection(q) \/ Save(q) \/ Commit(q)
    \/ \E k \in Inits : Prompt(k) \/ Asked(k) \/ AutoFailReads(k) \/ AutoFailWrites(k)
    \/ \E s \in InitSessions : SetPermissionMode(s)
    \/ OverwriteFile \/ Crash

Spec == Init /\ [][Next]_pluginVars

----------------------------------------------------------------------------
\* Between requests CLAUDE.md has the section exactly while the plugin has a
\* status (init_plugin, reset_plugin), unless requests overlapped or failed, or
\* others have overwritten the file since: nobody writes the section again then,
\* and the status stays as it is.
SectionTellsTheStatus ==
    Underway = {} => slipped \/ overwritten \/ (section <=> plugin.status # "none")

\* An initialization is failed because its query could not be run and nobody
\* has reported it complete, and where it could not be the plugin is not left
\* initializing, unless the row was another's, or not there yet, while it ran
\* (_auto_fail_plugin_init).
FailuresAreTold ==
    /\ plugin.status = "error" => plugin.of # 0
    /\ plugin.status = "error" /\ plugin.of # 0 =>
           \/ run[plugin.of].at = "failed" /\ (plugin.of \in completed => slipped)
           \/ plugin.of \in crossed
    /\ \A k \in Inits \ crossed :
           run[k].at = "failed" /\ plugin.of = k => plugin.status # "initializing"

\* A query has the permissions bypassed while it runs, and nobody after it
\* (the finally of _send_plugin_init_prompt), in a session of one at a time.
ModesComeBack ==
    \A s \in InitSessions \ shared :
        mode[s] = "bypassPermissions" <=>
            \E k \in Inits : run[k].at = "asking" /\ run[k].session = s
=============================================================================
