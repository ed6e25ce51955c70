------------------------------ MODULE MCDevScene ------------------------------
(* Small instances of DevScene for TLC. *)
EXTENDS DevScene

\* A value of the user's own in one of the two tools.
MCStarts == {<<<<own>>, <<>>>>, <<<<>>, <<own>>>>}

\* Of a kill, a failing call and an edit, any two happen in one behaviour.
MaxEvents == 2

Used == (MaxKills - left.kills) + (MaxFaults - left.faults) + (MaxEdits - left.edits)

FewEvents == Used <= MaxEvents
===============================================================================
