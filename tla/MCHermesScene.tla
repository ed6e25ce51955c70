---------------------------- MODULE MCHermesScene ----------------------------
(* Instance of HermesScene for TLC. *)
EXTENDS HermesScene
============================================================================
