---------------------------- MODULE MCArtifactCAS ----------------------------
(* Small instances of ArtifactCAS for TLC. *)
EXTENDS ArtifactCAS

CONSTANTS old, new, other

\* An apply over the original, its compensation, the creation of a missing file, the
\* removal of what was written, and a compensation that allows a missing file.
MCCalls == {[op |-> "write",  expected |-> {old},         desired |-> new],
            [op |-> "write",  expected |-> {old, new},    desired |-> old],
            [op |-> "write",  expected |-> {Absent},      desired |-> new],
            [op |-> "remove", expected |-> {Absent, new}, desired |-> new],
            [op |-> "write",  expected |-> {Absent, old, new}, desired |-> old]}
=============================================================================
