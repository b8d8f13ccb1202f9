-------------------------- MODULE ClaudeMdRevisions --------------------------
(***************************************************************************)
(* A project's CLAUDE.md and its revisions                                 *)
(* (claude_md_revision_application_service.py). Each request is one        *)
(* transaction: it reads the rows as they are when it begins, and commits  *)
(* the columns it changed. apply writes the file before its transaction    *)
(* commits, after a look whether the file is still the one the revision    *)
(* was made from. Agents are loaded through a revision of their own, made  *)
(* and applied in one transaction (agent_application_service.py). The file *)
(* may be edited on disk at any time: by hand, by the agent, or by a       *)
(* plugin's section that is written or removed (PluginInits).              *)
(***************************************************************************)
EXTENDS Naturals, FiniteSets

CONSTANTS
    Revisions,
    ClaudeMdRequests,
    Texts,         \* contents, each with a hash of its own,
    Empty,         \* one of them the content of a file that is not there
    NoRevision,
    MaxVersion,    \* version numbers (bound)
    MaxMdCalls,    \* requests made (bound)
    MaxMdEdits,    \* edits on disk (bound)
    MaxMdFaults    \* transactions that fail (bound)

VARIABLES
    file,     \* what CLAUDE.md holds
    rev,      \* claude_md_revisions
    project,  \* active_claude_md_revision_id and claude_md_file_hash
    req,      \* each request: was, the rows it read; will, as it leaves them
    mdCalls, mdEdits, mdFaults,  \* bounds
    \* History, read by no guard:
    drift,    \* the file was edited, or written by a request that then failed
    astray    \* a request committed though another had since it began, or
              \* load_agent saved the project as it was before

mdVars == <<file, rev, project, req, mdCalls, mdEdits, mdFaults, drift, astray>>

NoRow == [state |-> "none", content |-> Empty, base |-> Empty, no |-> 0]
NoRows == [r \in Revisions |-> NoRow]
Unset == [active |-> NoRevision, hash |-> Empty]
Idle == [at |-> "idle", was |-> NoRows, will |-> NoRows, sets |-> {}, target |-> NoRevision,
         late |-> FALSE]

\* The project is there, nobody has looked at its file.
Init ==
    /\ file \in Texts
    /\ rev = NoRows /\ project = Unset
    /\ req = [q \in ClaudeMdRequests |-> Idle]
    /\ mdCalls = 0 /\ mdEdits = 0 /\ mdFaults = 0 /\ drift = FALSE /\ astray = FALSE

Rows(rows) == {r \in Revisions : rows[r] # NoRow}
Applied(rows) == {r \in Revisions : rows[r].state = "applied"}
NextNo(rows) == 1 + CHOOSE n \in 0 .. MaxVersion :
    /\ n = 0 \/ \E r \in Revisions : rows[r].no = n
    /\ \A r \in Revisions : rows[r].no <= n

\* A uuid that no row, project or request has.
Fresh(i) ==
    /\ rev[i] = NoRow /\ project.active # i
    /\ \A q \in ClaudeMdRequests : req[q].was[i] = NoRow /\ req[q].will[i] = NoRow

----------------------------------------------------------------------------
\* A request begins: what it has read, what it will leave, and the project's
\* columns if it saves them.

View(rows, sets) == [rows |-> rows, sets |-> sets]
Points(i, text) == {[active |-> i, hash |-> text]}

\* The active revision: the project's, or the newest that is applied.
ActiveIn(rows) ==
    IF project.active # NoRevision /\ rows[project.active] # NoRow THEN {project.active}
    ELSE {r \in Applied(rows) : \A s \in Applied(rows) : rows[s].no <= rows[r].no}

\* create_initial.
Initial == [state |-> "applied", content |-> file, base |-> file, no |-> 1]

\* _ensure_initial_revision: an initial revision where none is active, or in
\* place of an initial one without content.
EnsureInitial(i) ==
    LET active == ActiveIn(rev)
        blank == {r \in active : /\ rev[r].no = 1 /\ rev[r].state = "applied"
                                 /\ rev[r].content = Empty /\ file # Empty}
    IN  IF active # {} /\ blank = {} THEN View(rev, {})
        ELSE View([r \in Revisions |-> CASE r = i -> Initial
                                         [] r \in blank -> NoRow
                                         [] OTHER -> rev[r]],
                  Points(i, file))

Draft(rows, text) ==
    [state |-> "draft", content |-> text, base |-> file, no |-> NextNo(rows)]

MayBegin(q) == req[q].at = "idle" /\ mdCalls < MaxMdCalls

Begin(q, at, target, rows, sets) ==
    /\ MayBegin(q)
    /\ mdCalls' = mdCalls + 1
    /\ req' = [req EXCEPT ![q] = [at |-> at, was |-> rev, will |-> rows, sets |-> sets,
                                  target |-> target, late |-> FALSE]]
    /\ UNCHANGED <<file, rev, project, mdEdits, mdFaults, drift, astray>>

\* read_current, list_versions.
ReadCurrent(q, i) ==
    LET seen == EnsureInitial(i) IN
    /\ Fresh(i) /\ seen.rows # rev
    /\ Begin(q, "ready", NoRevision, seen.rows, seen.sets)

\* create_draft.
CreateDraft(q, i, d, text) ==
    LET seen == EnsureInitial(i) IN
    /\ Fresh(i) /\ Fresh(d) /\ i # d /\ NextNo(seen.rows) <= MaxVersion
    /\ Begin(q, "ready", NoRevision,
             [seen.rows EXCEPT ![d] = Draft(seen.rows, text)], seen.sets)

\* _ALLOWED_TRANSITIONS.
Allowed ==
    [none |-> {},
     draft |-> {"proposed", "applied", "rejected"},
     proposed |-> {"approved", "rejected"},
     approved |-> {"applied", "rejected", "conflicted"},
     applied |-> {"superseded"},
     superseded |-> {},
     conflicted |-> {"draft", "rejected"},
     rejected |-> {}]

\* propose, approve, reject.
Move(q, r, state) ==
    /\ state \in Allowed[rev[r].state] \cap {"proposed", "approved", "rejected"}
    /\ Begin(q, "ready", NoRevision, [rev EXCEPT ![r].state = state], {})

\* update_revision: a conflicted one is a draft again.
UpdateRevision(q, r, text) ==
    /\ rev[r].state \in {"draft", "conflicted"}
    /\ Begin(q, "ready", NoRevision, [rev EXCEPT ![r].state = "draft", ![r].content = text], {})

\* delete_revision: of the active one, the newest that is applied takes its place.
DeleteRevision(q, r) ==
    LET left == [rev EXCEPT ![r] = NoRow]
        next == {s \in Applied(left) : \A t \in Applied(left) : left[t].no <= left[s].no}
    IN  /\ rev[r] # NoRow
        /\ \E sets \in IF project.active # r THEN {{}}
                       ELSE IF next = {} THEN {{Unset}}
                       ELSE {Points(s, left[s].content) : s \in next} :
               Begin(q, "ready", NoRevision, left, sets)

\* Mutant: those applied before stay so.
ApplyBesides(rows, r) == [rows EXCEPT ![r].state = "applied"]

\* What apply leaves: the revision applied, those applied before superseded.
ApplyIn(rows, r) ==
    [s \in Revisions |->
        IF s = r THEN [rows[r] EXCEPT !.state = "applied"]
        ELSE IF rows[s].state = "applied" THEN [rows[s] EXCEPT !.state = "superseded"]
        ELSE rows[s]]

\* apply, with the base and the hash the revision was made with.
Apply(q, r) ==
    /\ rev[r].state \in {"draft", "approved"}
    /\ Begin(q, "looking", r, ApplyIn(rev, r), Points(r, rev[r].content))

\* load_agent, update_agent and unload_agent: a revision is created, proposed,
\* approved and applied. load_agent then saves the project it read at first.
ApplyAgent(q, i, d, text, load) ==
    LET seen == EnsureInitial(i)
        made == [seen.rows EXCEPT ![d] = Draft(seen.rows, text)]
    IN  /\ Fresh(i) /\ Fresh(d) /\ i # d /\ NextNo(seen.rows) <= MaxVersion
        /\ Begin(q, "looking", d, ApplyIn(made, d),
                 IF load THEN {project} ELSE Points(d, text))

----------------------------------------------------------------------------
\* It goes on.

Ended(q) == [req EXCEPT ![q] = Idle]

\* The file is compared with the one the revision was made from. Only an
\* approved revision becomes conflicted; the transition of a draft is refused,
\* and an agent's revision is given up with its transaction.
Look(q) ==
    LET r == req[q].target
        was == req[q].was[r]
    IN  /\ req[q].at = "looking"
        /\ req' = IF file = req[q].will[r].base THEN [req EXCEPT ![q].at = "writing"]
                  ELSE IF was.state = "approved"
                  THEN [req EXCEPT ![q] =
                          [@ EXCEPT !.at = "ready", !.sets = {}, !.target = NoRevision,
                                    !.will = [req[q].was EXCEPT ![r].state = "conflicted"]]]
                  ELSE Ended(q)
        /\ UNCHANGED <<file, rev, project, mdCalls, mdEdits, mdFaults, drift, astray>>

WriteFile(q) ==
    /\ req[q].at = "writing"
    /\ file' = req[q].will[req[q].target].content
    /\ req' = [req EXCEPT ![q].at = "ready"]
    /\ drift' = FALSE
    /\ UNCHANGED <<rev, project, mdCalls, mdEdits, mdFaults, astray>>

Changed(q) == {r \in Revisions : req[q].was[r] # req[q].will[r]}

\* The columns that a request changed in a row.
Merged(now, was, will) ==
    IF will = NoRow \/ was = NoRow THEN will
    ELSE [column \in DOMAIN now |->
            IF was[column] # will[column] THEN will[column] ELSE now[column]]

\* An update finds its row gone (StaleDataError).
Stale(q) == \E r \in Changed(q) :
    req[q].was[r] # NoRow /\ req[q].will[r] # NoRow /\ rev[r] = NoRow

Alone(q) == \A p \in ClaudeMdRequests \ {q} : req[p].at = "idle"

\* A request that writes the file, nobody meanwhile, puts everything right.
Commit(q) ==
    LET repairs == /\ req[q].target # NoRevision /\ Alone(q) /\ ~ req[q].late
                   /\ req[q].sets = Points(req[q].target, req[q].will[req[q].target].content)
    IN  /\ req[q].at = "ready" /\ ~ Stale(q)
        /\ rev' = [r \in Revisions |-> IF r \in Changed(q)
                     THEN Merged(rev[r], req[q].was[r], req[q].will[r]) ELSE rev[r]]
        /\ project' = IF req[q].sets = {} THEN project ELSE CHOOSE p \in req[q].sets : TRUE
        /\ req' = [p \in ClaudeMdRequests |-> IF p = q THEN Idle
                     ELSE [req[p] EXCEPT !.late = req[p].at # "idle"]]
        /\ astray' = (~ repairs /\ (astray \/ req[q].late \/ req[q].target # NoRevision))
        /\ UNCHANGED <<file, mdCalls, mdEdits, mdFaults, drift>>

\* The transaction fails and is rolled back; the file is not.
Fail(q) ==
    /\ req[q].at # "idle"
    /\ \/ req[q].at = "ready" /\ Stale(q) /\ UNCHANGED mdFaults
       \/ mdFaults < MaxMdFaults /\ mdFaults' = mdFaults + 1
    /\ req' = Ended(q)
    /\ drift' = (drift \/ (req[q].at = "ready" /\ req[q].target # NoRevision))
    /\ UNCHANGED <<file, rev, project, mdCalls, mdEdits, astray>>

EditFile(text) ==
    /\ mdEdits < MaxMdEdits /\ text # file
    /\ file' = text
    /\ mdEdits' = mdEdits + 1 /\ drift' = TRUE
    /\ UNCHANGED <<rev, project, req, mdCalls, mdFaults, astray>>

Next ==
    \/ \E q \in ClaudeMdRequests :
          \/ Look(q) \/ WriteFile(q) \/ Commit(q) \/ Fail(q)
          \/ MayBegin(q) /\ \E i \in Revisions :
                \/ ReadCurrent(q, i) \/ Apply(q, i) \/ DeleteRevision(q, i)
                \/ \E state \in {"proposed", "approved", "rejected"} : Move(q, i, state)
                \/ \E text \in Texts : UpdateRevision(q, i, text)
                \/ \E d \in Revisions, text \in Texts :
                      \/ CreateDraft(q, i, d, text)
                      \/ \E load \in BOOLEAN : ApplyAgent(q, i, d, text, load)
    \/ \E text \in Texts : EditFile(text)

Spec == Init /\ [][Next]_mdVars

----------------------------------------------------------------------------
TypeOK ==
    /\ file \in Texts
    /\ project \in [active : Revisions \cup {NoRevision}, hash : Texts]
    /\ \A r \in Revisions : rev[r].state \in DOMAIN Allowed /\ rev[r].no \in 0 .. MaxVersion
    /\ \A q \in ClaudeMdRequests : req[q].at \in {"idle", "looking", "writing", "ready"}

\* The project's active revision is the one that is applied, and CLAUDE.md holds
\* its content, unless it was edited or an apply failed after its write (drift).
\* Requests that overlap may leave two revisions applied, or none, and load_agent
\* points the project to the revision before (astray). An apply that meets no
\* other puts all of it right.
ActiveIsTheFile ==
    (\A q \in ClaudeMdRequests : req[q].at = "idle") /\ ~ astray =>
        /\ Applied(rev) = {project.active} \ {NoRevision}
        /\ project.active # NoRevision =>
              /\ project.hash = rev[project.active].content
              /\ ~ drift => file = project.hash
=============================================================================
