------------------------------- MODULE Releases -------------------------------
(***************************************************************************)
(* What both ends of the delivery of a program version see: the releases   *)
(* on GitHub.  A release is immutable in its assets and its commit, but    *)
(* its notes can be edited and any release can be made Latest again, which *)
(* is why publisher and updater read a release twice.                      *)
(*                                                                         *)
(* Abstractions.  A tag is a number, in the order of version_key and       *)
(* compareUpdateVersions.  The assets of a tag are determined by the tag;  *)
(* what a release says of itself is its tag and the edition of its notes.  *)
(***************************************************************************)
EXTENDS Integers, FiniteSets, Sequences

CONSTANTS
  NTags, \* releases there can be
  Upstream, Commands, Faults, Kills \* bounds on what happens

ASSUME ReleasesAssumption ==
  /\ NTags \in Nat \ {0}
  /\ {Upstream, Commands, Faults, Kills} \subseteq Nat

VARIABLES
  published, \* the tags that have a release
  ghLatest,  \* the one GitHub calls Latest
  notes,     \* the edition of each tag's notes
  left       \* what is left of each bound

githubVars == <<published, ghLatest, notes>>

Tags == 1..NTags
None == 0

Budgets == [upstream |-> Upstream, commands |-> Commands, faults |-> Faults, kills |-> Kills]

Infos == [tag : Tags, notes : 0..Upstream]

\* What a caller reads of tag t.
Info(t) == [tag |-> t, notes |-> notes[t]]

Spend(what) == left[what] > 0 /\ left' = [left EXCEPT ![what] = @ - 1]

\* Tag t exists and is the one GitHub calls Latest.
IsLatest(t) == t \in published /\ ghLatest = t

\* The first release has been published.
ReleasesInit ==
  /\ published = {1}
  /\ ghLatest = 1
  /\ notes = [t \in Tags |-> 0]
  /\ left = Budgets

\* A release appears; the maintainer may leave Latest where it is.
Publish(t) ==
  /\ t \in Tags \ published
  /\ published' = published \cup {t}
  /\ ghLatest' \in {t, ghLatest}
  /\ UNCHANGED <<notes, left>>

\* Another release is made Latest, an older one too.
Relabel(t) ==
  /\ t \in published \ {ghLatest}
  /\ Spend("upstream")
  /\ ghLatest' = t
  /\ UNCHANGED <<published, notes>>

EditNotes(t) ==
  /\ t \in published
  /\ Spend("upstream")
  /\ notes' = [notes EXCEPT ![t] = @ + 1]
  /\ UNCHANGED <<published, ghLatest>>

ReleasesNext == \E t \in Tags : Publish(t) \/ Relabel(t) \/ EditNotes(t)
===============================================================================
