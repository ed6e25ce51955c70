---------------------------- MODULE MCCoreRuntime ----------------------------
(* Small instances of CoreRuntime for TLC. *)
EXTENDS CoreRuntime, TLC

CONSTANTS c1, c2, u0, u1, x

\* At most three mishaps in a behaviour, of the four kinds.
FewMishaps == crashes + faults + bounces + edits <= 3

\* Nothing depends on which configuration is which.
Interchangeable == Permutations(Configs)
=============================================================================
