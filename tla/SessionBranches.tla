-------------------------- MODULE SessionBranches --------------------------
(***************************************************************************)
(* Parallel branches of a session (session_branch_application_service.py): *)
(* a group of sessions made from one, each in a worktree of its own or in  *)
(* its source's directory, and convergence, which keeps one: it merges the *)
(* kept branch into the branch the group was made from, deletes the other  *)
(* sessions, each in a transaction of its own, and removes the worktrees;  *)
(* then one commit gives the kept session its new directory and removes    *)
(* the group's rows. Any step may fail or be the last one: what the other  *)
(* sessions' transactions and git did stays done, the kept session's move  *)
(* is rolled back. A VB job edits files in a branch that lasts as long as  *)
(* the job.                                                                *)
(***************************************************************************)
EXTENDS Naturals, FiniteSets

CONSTANTS
    Branches,     \* sessions that can be made
    Root,         \* the session, the directory and the branch they come from
    Converges,    \* calls of converge_branches
    NoBranch,
    MaxGroups,    \* groups made (bound)
    MaxIncidents  \* changes of a working tree, VB jobs, deletions and failures (bound)

VARIABLES
    session,      \* each branch's session: "none", "there", "deleted"
    dir,          \* project_dir: the session whose directory it works in
    row,          \* session_branches
    tree,         \* each directory: "none", "clean", "dirty"
    checked,      \* the git branch checked out there
    ahead,        \* git branches with commits their base does not have
    converge,     \* each call; met: another convergence or a deletion touched its
                  \* list; late: its branch got commits (both history)
    vb,           \* each VB job's branch: "no", "working", "deleted"
    groups, incidents,  \* bounds
    \* History, read by no guard:
    guests,       \* sessions made in the worktree of another one, or moved there by
                  \* a convergence
    alone,        \* sessions deleted on their own
    swept,        \* sessions that a convergence was to delete which failed on the
                  \* way, or whose rows it leaves: those of groups not the newest
    cut           \* sessions left as they were by a convergence that failed after it
                  \* had removed their worktree

branchVars == <<session, dir, row, tree, checked, ahead, converge, vb, groups, incidents,
                guests, alone, swept, cut>>

Places == Branches \cup {Root}
NoRow == [group |-> {}, no |-> 0, source |-> NoBranch, root |-> NoBranch, base |-> NoBranch,
          worktree |-> FALSE]
Off == [at |-> "off", target |-> NoBranch, list |-> {}, todo |-> {}, group |-> {},
        root |-> NoBranch, base |-> NoBranch, into |-> NoBranch, met |-> FALSE, late |-> FALSE]
Exists(s) == s \in {Root} \cup {b \in Branches : session[b] = "there"}
Rows == {b \in Branches : row[b] # NoRow}

Init ==
    /\ session = [b \in Branches |-> "none"] /\ dir = [b \in Places |-> Root]
    /\ row = [b \in Branches |-> NoRow]
    /\ tree = [p \in Places |-> IF p = Root THEN "clean" ELSE "none"]
    /\ checked = [p \in Places |-> p] /\ ahead = {}
    /\ converge = [v \in Converges |-> Off] /\ vb = [b \in Branches |-> "no"]
    /\ groups = 0 /\ incidents = 0
    /\ guests = {} /\ alone = {} /\ swept = {} /\ cut = {}

----------------------------------------------------------------------------
\* Groups.

\* _root_session_id.
RootOf(s) == IF s \in Rows THEN row[s].root ELSE s

\* create_branch: worktrees come from what the source has checked out; where
\* git makes none, the branch works in the source's directory.
MakeGroup(src, bs, worktree) ==
    /\ session' = [b \in Branches |-> IF b \in bs THEN "there" ELSE session[b]]
    /\ dir' = [b \in Places |-> IF b \in bs THEN (IF worktree THEN b ELSE dir[src]) ELSE dir[b]]
    /\ row' = [b \in Branches |-> IF b \in bs
                 THEN [group |-> bs, no |-> groups + 1, source |-> src, root |-> RootOf(src),
                       base |-> IF worktree THEN checked[dir[src]] ELSE NoBranch,
                       worktree |-> worktree]
                 ELSE row[b]]
    /\ tree' = [p \in Places |-> IF worktree /\ p \in bs THEN "clean" ELSE tree[p]]
    /\ guests' = IF ~ worktree /\ dir[src] # Root THEN guests \cup bs ELSE guests
    /\ groups' = groups + 1
    /\ UNCHANGED <<checked, ahead, converge, alone, swept, cut>>

CreateBranch(src, bs, worktree) ==
    /\ groups < MaxGroups
    /\ Exists(src) /\ bs # {} /\ \A b \in bs : session[b] = "none"
    /\ worktree => tree[dir[src]] # "none"
    /\ MakeGroup(src, bs, worktree)
    /\ UNCHANGED <<vb, incidents>>

\* apply_vb_reviews: the job works in the source's directory.
ApplyVb(src, b) ==
    /\ groups < MaxGroups /\ incidents < MaxIncidents
    /\ Exists(src) /\ session[b] = "none"
    /\ MakeGroup(src, {b}, FALSE)
    /\ vb' = [vb EXCEPT ![b] = "working"]
    /\ incidents' = incidents + 1

\* The convergences under way, with those that list b marked.
Meeting(b) == [v \in Converges |->
    IF b \in converge[v].list THEN [converge[v] EXCEPT !.met = TRUE] ELSE converge[v]]

\* _cleanup_vb_branch: a session that is gone leaves the rows.
CleanupVb(b) ==
    /\ \/ /\ vb[b] = "working" /\ session[b] = "there"
          /\ session' = [session EXCEPT ![b] = "deleted"]
          /\ converge' = Meeting(b)
          /\ vb' = [vb EXCEPT ![b] = "deleted"]
          /\ UNCHANGED row
       \/ /\ vb[b] = "working" /\ session[b] = "deleted"
          /\ vb' = [vb EXCEPT ![b] = "no"]
          /\ UNCHANGED <<session, converge, row>>
       \/ /\ vb[b] = "deleted"
          /\ row' = [c \in Branches |-> IF b \in row[c].group THEN NoRow ELSE row[c]]
          /\ vb' = [vb EXCEPT ![b] = "no"]
          /\ UNCHANGED <<session, converge>>
    /\ UNCHANGED <<dir, tree, checked, ahead, groups, incidents, guests, alone, swept, cut>>

\* The user deletes a branch like any other session.
DeleteAlone(b) ==
    /\ session[b] = "there" /\ incidents < MaxIncidents
    /\ incidents' = incidents + 1
    /\ session' = [session EXCEPT ![b] = "deleted"]
    /\ converge' = Meeting(b)
    /\ alone' = alone \cup {b}
    /\ UNCHANGED <<dir, row, tree, checked, ahead, vb, groups, guests, swept, cut>>

\* The agents change files and commit.
Edit(p) ==
    /\ incidents < MaxIncidents /\ tree[p] = "clean"
    /\ tree' = [tree EXCEPT ![p] = "dirty"]
    /\ incidents' = incidents + 1
    /\ UNCHANGED <<session, dir, row, checked, ahead, converge, vb, groups, guests, alone, swept,
                   cut>>

\* The convergences under way, with those that keep one of these branches marked.
Behind(bs) == [v \in Converges |->
    IF converge[v].target \in bs THEN [converge[v] EXCEPT !.late = TRUE] ELSE converge[v]]

CommitWork(p) ==
    /\ tree[p] = "dirty"
    /\ tree' = [tree EXCEPT ![p] = "clean"]
    /\ ahead' = ahead \cup {checked[p]}
    /\ converge' = Behind({checked[p]})
    /\ UNCHANGED <<session, dir, row, checked, vb, groups, incidents, guests, alone, swept, cut>>

----------------------------------------------------------------------------
\* converge_branches.

\* list_branches: a branch's own group, or all the branches of a source's root.
ListOf(s) ==
    IF s \in Rows THEN row[s].group \cap Rows
    ELSE LET mine == {b \in Rows : row[b].source = s}
             roots == {row[b].root : b \in {c \in mine : \A d \in mine : row[d].no <= row[c].no}}
         IN  {b \in Rows : row[b].root \in roots}

\* The group that is listed first, the newest, is the one whose rows will go.
Newest(list) == {b \in list : \A c \in list : row[c].no <= row[b].no}
MeetsList(list) == {w \in Converges : converge[w].list \cap list # {}}

\* The target is whatever the request names: where it is not listed, nothing is
\* merged and nothing kept.
StartConverge(v, current, target) ==
    LET list == ListOf(current)
        kept == IF target \in list THEN row[target] ELSE NoRow IN
    /\ converge[v].at = "off" /\ list # {}
    /\ converge' = [w \in Converges |->
          IF w # v THEN [converge[w] EXCEPT !.met = @ \/ w \in MeetsList(list)]
          ELSE [at |-> IF kept.worktree THEN "merging" ELSE "removing",
                target |-> IF target \in list THEN target ELSE NoBranch,
                list |-> list, todo |-> list \ {target},
                group |-> Newest(list), root |-> kept.root, base |-> kept.base,
                into |-> NoBranch, late |-> FALSE,
                met |-> MeetsList(list) # {} \/ (target \in list /\ session[target] = "deleted")]]
    /\ swept' = swept \cup (list \ Newest(list))
    /\ UNCHANGED <<session, dir, row, tree, checked, ahead, vb, groups, incidents, guests, alone, cut>>

\* An error ends the call; its transaction is rolled back.
Fails(v) ==
    /\ converge' = [converge EXCEPT ![v] = [Off EXCEPT !.at = "over"]]
    /\ swept' = IF converge[v].at = "merging" \/ converge[v].at = "checked" THEN swept
                ELSE swept \cup (converge[v].list \ {converge[v].target})

\* A git call, a statement or the commit fails, or the process ends: the move
\* of the kept session is not committed, and its worktree may be gone.
CutOff(v) ==
    LET c == converge[v] IN
    /\ c.at \in {"merging", "checked", "removing", "saving"} /\ incidents < MaxIncidents
    /\ incidents' = incidents + 1
    /\ Fails(v)
    /\ cut' = IF c.at = "saving" /\ c.into # NoBranch /\ tree[c.target] = "none"
              THEN cut \cup {c.target} ELSE cut
    /\ UNCHANGED <<session, dir, row, tree, checked, ahead, vb, groups, guests, alone>>

BaseDir(v) == dir[converge[v].root]

\* _merge_worktree_target: the kept worktree must be clean, and git checks out a
\* branch in one directory only.
CanCheckOut(v) ==
    LET c == converge[v] IN
    /\ Exists(c.target) /\ tree[dir[c.target]] = "clean"
    /\ Exists(c.root) /\ tree[BaseDir(v)] # "none"
    /\ \A p \in Places \ {BaseDir(v)} : tree[p] # "none" => checked[p] # c.base

CheckOut(v) ==
    /\ converge[v].at = "merging"
    /\ IF CanCheckOut(v)
       THEN /\ checked' = [checked EXCEPT ![BaseDir(v)] = converge[v].base]
            /\ converge' = [converge EXCEPT ![v].at = "checked", ![v].into = BaseDir(v)]
            /\ UNCHANGED swept
       ELSE Fails(v) /\ UNCHANGED checked
    /\ UNCHANGED <<session, dir, row, tree, ahead, vb, groups, incidents, guests, alone, cut>>

\* A conflict leaves the base directory in the middle of the merge.
Merge(v) ==
    LET t == converge[v].target
        p == converge[v].into IN
    /\ converge[v].at = "checked"
    /\ \/ /\ tree[p] = "clean"
          /\ ahead' = (ahead \ {t}) \cup (IF t \in ahead THEN {checked[p]} ELSE {})
          /\ converge' = [IF t \in ahead THEN Behind({checked[p]}) ELSE converge
                             EXCEPT ![v].at = "removing"]
          /\ UNCHANGED <<tree, swept>>
       \/ /\ tree[p] = "clean" /\ t \in ahead
          /\ tree' = [tree EXCEPT ![p] = "dirty"]
          /\ Fails(v) /\ UNCHANGED ahead
       \/ tree[p] # "clean" /\ Fails(v) /\ UNCHANGED <<tree, ahead>>
    /\ UNCHANGED <<session, dir, row, checked, vb, groups, incidents, guests, alone, cut>>

\* _remove_worktree: git keeps one that has changes.
WithoutTree(b) == IF tree[b] = "clean" THEN [tree EXCEPT ![b] = "none"] ELSE tree

\* One of the others: its worktree, then its session, which must be there; the
\* deletion may fail.
RemoveOther(v, b) ==
    /\ converge[v].at = "removing" /\ b \in converge[v].todo
    /\ tree' = WithoutTree(b)
    /\ \/ /\ session[b] = "there"
          /\ session' = [session EXCEPT ![b] = "deleted"]
          /\ converge' = [converge EXCEPT ![v].todo = @ \ {b}]
          /\ UNCHANGED <<swept, incidents, cut>>
       \/ session[b] = "deleted" /\ Fails(v) /\ UNCHANGED <<session, incidents, cut>>
       \/ /\ incidents < MaxIncidents
          /\ incidents' = incidents + 1
          /\ Fails(v)
          /\ cut' = IF tree[b] = "clean" THEN cut \cup {b} ELSE cut
          /\ UNCHANGED session
    /\ UNCHANGED <<dir, row, checked, ahead, vb, groups, guests, alone>>

RemoveKeptTree(v) ==
    LET c == converge[v] IN
    /\ c.at = "removing" /\ c.todo = {}
    /\ tree' = IF c.target = NoBranch THEN tree ELSE WithoutTree(c.target)
    /\ converge' = [converge EXCEPT ![v].at = "saving"]
    /\ UNCHANGED <<session, dir, row, checked, ahead, vb, groups, incidents, guests, alone, swept,
                   cut>>

\* Mutant: the kept session is left in its worktree.
SaveConvergeInPlace(v) ==
    LET c == converge[v] IN
    /\ c.at = "saving"
    /\ row' = [b \in Branches |-> IF b \in c.group THEN NoRow ELSE row[b]]
    /\ converge' = [converge EXCEPT ![v] = [Off EXCEPT !.at = "over"]]
    /\ UNCHANGED <<session, dir, tree, checked, ahead, vb, groups, incidents, guests, alone, swept,
                   cut>>

\* The rows of one group go, and the kept session works where it was merged.
SaveConverge(v) ==
    LET c == converge[v] IN
    /\ c.at = "saving"
    /\ row' = [b \in Branches |-> IF b \in c.group THEN NoRow ELSE row[b]]
    /\ dir' = IF c.into = NoBranch THEN dir ELSE [dir EXCEPT ![c.target] = c.into]
    /\ guests' = IF c.into \in {NoBranch, Root} THEN guests ELSE guests \cup {c.target}
    /\ converge' = [converge EXCEPT ![v] = [Off EXCEPT !.at = "over"]]
    /\ UNCHANGED <<session, tree, checked, ahead, vb, groups, incidents, alone, swept, cut>>

Next ==
    \/ /\ groups < MaxGroups
       /\ \/ \E src \in Places, bs \in SUBSET Branches, w \in BOOLEAN : CreateBranch(src, bs, w)
          \/ \E src \in Places, b \in Branches : ApplyVb(src, b)
    \/ \E b \in Branches : CleanupVb(b) \/ DeleteAlone(b)
    \/ \E p \in Places : Edit(p) \/ CommitWork(p)
    \/ \E v \in Converges :
          \/ /\ converge[v].at = "off"
             /\ \E s \in Places, t \in Branches \cup {NoBranch} : StartConverge(v, s, t)
          \/ CutOff(v) \/ CheckOut(v) \/ Merge(v) \/ RemoveKeptTree(v) \/ SaveConverge(v)
          \/ \E b \in Branches : RemoveOther(v, b)

Spec == Init /\ [][Next]_branchVars
----------------------------------------------------------------------------
TypeOK ==
    /\ session \in [Branches -> {"none", "there", "deleted"}]
    /\ dir \in [Places -> Places] /\ checked \in [Places -> Places]
    /\ tree \in [Places -> {"none", "clean", "dirty"}]
    /\ ahead \subseteq Places
    /\ \A v \in Converges : converge[v].at \in
           {"off", "merging", "checked", "removing", "saving", "over"}

\* A session has the directory it works in. Exceptions are one that was made in
\* the worktree of another, or moved there because its group was made from such
\* a one: that one's worktree goes with it; one that a convergence left behind
\* which failed once its worktree was removed; and the one about to be moved.
SessionsHaveTheirDirectory ==
    \A b \in Branches \ (guests \cup cut) :
        session[b] = "there"
        /\ (\A v \in Converges : ~ (converge[v].at = "saving" /\ converge[v].target = b)) =>
            tree[dir[b]] # "none"

\* A convergence that ends keeps the session it was to keep, and what that
\* session had committed is in the branch its group was made from; unless
\* another convergence or a deletion touched the group meanwhile.
KeptIsKept ==
    \A v \in Converges :
        converge[v].at = "saving" /\ converge[v].target # NoBranch /\ ~ converge[v].met =>
            /\ session[converge[v].target] = "there"
            /\ converge[v].into # NoBranch /\ ~ converge[v].late =>
                   converge[v].target \notin ahead

\* A row of session_branches is of a session that is there. Exceptions are one
\* that was deleted like any other session, and the sessions of a convergence
\* that failed half-way or deleted more groups than the one whose rows it removes.
RowsHaveSessions ==
    (\A v \in Converges : converge[v].at \in {"off", "over"}) =>
        \A b \in Rows : session[b] = "there" \/ b \in alone \cup swept \/ vb[b] = "deleted"
=============================================================================
