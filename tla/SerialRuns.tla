----------------------------- MODULE SerialRuns -----------------------------
(***************************************************************************)
(* What the callers of a session's lock are promised: of all requests for  *)
(* one unit (a session within a process) one is at work at a time.         *)
(* SessionLocks implements this specification.                             *)
(***************************************************************************)
CONSTANTS
    Requests,   \* calls of submit_query and refresh_context_usage
    Units,      \* what requests exclude one another in
    UnitOf      \* [Requests -> Units]

VARIABLE
    working     \* the requests at work

\* Nobody of the request's unit is at work.
Enter(r) ==
    /\ \A q \in working : UnitOf[q] # UnitOf[r]
    /\ working' = working \cup {r}

\* Requests end one by one, or all of a crashed process at once.
Leave ==
    /\ working # {}
    /\ \E rest \in SUBSET working : rest # working /\ working' = rest

Init == working = {}
Next == (\E r \in Requests : Enter(r)) \/ Leave
Spec == Init /\ [][Next]_working
=============================================================================
