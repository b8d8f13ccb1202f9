--------------------------- MODULE MCSessionLocks ---------------------------
(* Small instances of SessionLocks for TLC.                                *)
EXTENDS SessionLocks, TLC

CONSTANTS r1, r2, r3, r4, s1, s2, p1, p2

\* Two queries and a usage refresh of one session, one of them in a second
\* process, and a query of another session.
SessionsOfFour == (r1 :> s1) @@ (r2 :> s1) @@ (r3 :> s2) @@ (r4 :> s1)
ProcessesOfFour == (r1 :> p1) @@ (r2 :> p1) @@ (r3 :> p1) @@ (r4 :> p2)
=============================================================================
