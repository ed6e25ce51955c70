----------------------------- MODULE CASOutcome -----------------------------
(***************************************************************************)
(* What a compare-and-swap of a system file comes to when nobody else      *)
(* touches the file, as a function of what its two names hold at the start *)
(* and of the expected states.  ArtifactCAS is checked against it; the     *)
(* modules whose steps contain whole calls are built from it.              *)
(***************************************************************************)
CONSTANT Absent

\* How a call ends over target f and quarantine q: the two names and the result.
\* want = Absent removes.
Final(f, q, expected, want) ==
  IF q # Absent /\ q \notin expected
  THEN IF f = Absent THEN <<q, Absent, "changed">> ELSE <<f, q, "changed">>
  ELSE IF q # Absent /\ f = Absent THEN <<want, Absent, "ok">>
  ELSE IF q # Absent /\ (want = Absent \/ f \notin expected \cup {want})
  THEN <<f, Absent, "changed">>
  ELSE IF f = want THEN <<f, Absent, "ok">>
  ELSE IF f \notin expected THEN <<f, Absent, "changed">> ELSE <<want, Absent, "ok">>

\* Replacing a target that holds f while no claim is there.
Replacing(f, want) == {<<f, Absent>>, <<Absent, f>>, <<want, f>>, <<want, Absent>>}

\* What the names may hold when a call fails or is killed.
Passing(f, q, expected, want) ==
  {<<f, q>>} \cup
  (IF q # Absent /\ q \notin expected
   THEN IF f = Absent THEN {<<q, Absent>>} ELSE {}
   ELSE IF q # Absent /\ f = Absent THEN {<<want, q>>, <<q, Absent>>, <<want, Absent>>}
   ELSE IF q # Absent /\ (want = Absent \/ f \notin expected \/ f = want) THEN {<<f, Absent>>}
   ELSE IF f = want \/ f \notin expected THEN {}
   ELSE IF f = Absent THEN {<<want, Absent>>}
   ELSE Replacing(f, want))
=============================================================================
