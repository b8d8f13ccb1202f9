------------------------------ MODULE MCImInbox ------------------------------
(* Small instances of ImInbox for TLC.                                     *)
EXTENDS ImInbox, TLC

CONSTANT s1

\* All messages arrive for one session.
OneSession == [b \in Bindings |-> s1]

\* Workers and messages are interchangeable (safety runs only).
Symmetry == Permutations(Workers) \cup Permutations(Messages)
=============================================================================
