--------------------------- MODULE MCGlobalJournal ---------------------------
(* Small instances of GlobalJournal for TLC. *)
EXTENDS GlobalJournal, TLC

CONSTANTS u1, u2, v1, v2

\* Contents are compared only with each other.
Symmetry == Permutations({u1, u2}) \cup Permutations({v1, v2})
=============================================================================
