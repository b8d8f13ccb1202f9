----------------------------- MODULE MCImOutbox -----------------------------
(* Small instances of ImOutbox for TLC.                                    *)
EXTENDS ImOutbox, TLC

CONSTANT s1

\* All replies belong to one session.
OneSession == [b \in Bindings |-> s1]

\* Workers and keys are interchangeable (safety runs only).
Symmetry == Permutations(Workers) \cup Permutations(Keys)
=============================================================================
