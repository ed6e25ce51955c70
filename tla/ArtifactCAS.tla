----------------------------- MODULE ArtifactCAS -----------------------------
(***************************************************************************)
(* The compare-and-swap on a system file that every other part rests on:   *)
(* writeBoundedArtifactCAS and removeGlobalProxyArtifactCAS.  A rename      *)
(* moves the file to a quarantine name next to it, its content is checked   *)
(* there, and the new file is published by a rename that refuses to         *)
(* replace.  One manager runs at a time; an administrator writes, replaces  *)
(* and deletes the file between any two system calls, system calls fail,    *)
(* and the process may be killed between any two of them, leaving a claim   *)
(* in the quarantine to the next call.                                      *)
(***************************************************************************)
EXTENDS Naturals, CASOutcome

CONSTANTS
  Contents,    \* what a file can hold (bytes, mode and owner together)
  Calls,       \* the calls made: operation, expected states and desired content
  MaxAttempts, \* maxGlobalProxyCASAttempts
  MaxCalls,    \* bound: calls
  MaxKills,    \* bound: processes killed
  MaxFailures, \* bound: system calls that fail
  MaxChanges   \* bound: edits by others

FileStates == Contents \cup {Absent}
CallType == [op : {"write", "remove"}, expected : SUBSET FileStates, desired : Contents]
Places == {"idle", "read_claim", "read_both", "read_final", "create", "claim",
           "publish", "restore", "retire_ok", "retire_again", "retire_changed",
           "ok", "changed", "failed", "exhausted"}
Found == [target : FileStates, aside : FileStates, changes : 0..MaxChanges]
Returned == {"ok", "changed", "failed", "exhausted"}

ASSUME AbsentAssumption == Absent \notin Contents
ASSUME CallAssumption == Calls \subseteq CallType
ASSUME AttemptAssumption ==
  /\ MaxAttempts \in Nat \ {0} /\ MaxCalls \in Nat
  /\ MaxKills \in Nat /\ MaxFailures \in Nat /\ MaxChanges \in Nat

VARIABLES
  target,   \* the file under its own name
  aside,    \* the quarantine name
  at, call, \* where the call is, and its arguments
  attempt,  \* the attempt it is in
  mine,     \* claimedInCall
  held,     \* history: the states of the target since the call began
  left,     \* history: what the call found in its two names, and the edits before it
  calls, kills, failures, changes

names   == <<target, aside, held>>
history == <<call, left, calls, kills, changes>>
casVars == <<target, aside, at, call, attempt, mine, held, left, calls, kills, failures, changes>>

-----------------------------------------------------------------------------
Proceed(l) == at' = l /\ UNCHANGED <<attempt, mine, failures>>
Again == at' = "read_claim" /\ attempt' = attempt + 1 /\ UNCHANGED failures
\* What the target is to become.
Wanted == IF call.op = "write" THEN call.desired ELSE Absent
SetFile(c) == target' = c /\ held' = held \cup {c}

\* A system call fails and the call returns its error.
FailCall ==
  /\ failures < MaxFailures /\ failures' = failures + 1
  /\ at' = "failed" /\ UNCHANGED <<attempt, mine>>

BeginCall(c) ==
  /\ at \in {"idle"} \cup Returned /\ calls < MaxCalls /\ calls' = calls + 1
  /\ call' = c /\ attempt' = 1 /\ mine' = FALSE /\ at' = "read_claim"
  /\ held' = {target} /\ left' = [target |-> target, aside |-> aside, changes |-> changes]
  /\ UNCHANGED <<target, aside, kills, failures, changes>>

\* Each attempt looks at the quarantine name first.
ReadClaim ==
  /\ at = "read_claim"
  /\ Proceed(IF attempt > MaxAttempts THEN "exhausted"
             ELSE IF aside # Absent THEN "read_both" ELSE "read_final")
  /\ UNCHANGED <<names, history>>

\* Mutant: what the claim holds is not compared with the expected states.
ClaimTrusted == IF target = Absent THEN IF call.op = "remove" THEN "retire_ok" ELSE "publish"
                ELSE "retire_changed"

\* Mutant: an unexpected claim stays aside though the name is free.
ClaimAbandoned ==
  IF aside \notin call.expected THEN "changed"
  ELSE IF target # Absent THEN "retire_changed"
  ELSE IF call.op = "remove" THEN "retire_ok" ELSE "publish"

\* Mutant: a leftover claim over an expected target ends the call instead of being
\* retired for another attempt.
LeftoverRefused ==
  IF aside \notin call.expected
  THEN IF target = Absent THEN "restore" ELSE "changed"
  ELSE IF call.op = "remove"
       THEN IF target = Absent THEN "retire_ok" ELSE "retire_changed"
       ELSE IF target = Absent THEN "publish"
            ELSE IF ~mine /\ target = call.desired THEN "retire_ok" ELSE "retire_changed"

\* Mutant: a leftover claim counts as this call's work whatever the target holds.
LeftoverTaken ==
  IF aside \notin call.expected
  THEN IF target = Absent THEN "restore" ELSE "changed"
  ELSE IF target = Absent /\ call.op = "write" THEN "publish" ELSE "retire_ok"

\* A claim is there: of this call, or of one that was killed.
AfterClaim ==
  IF aside \notin call.expected
  THEN IF target = Absent THEN "restore" ELSE "changed"
  ELSE IF call.op = "remove"
       THEN IF target = Absent THEN "retire_ok" ELSE "retire_changed"
       ELSE IF target = Absent THEN "publish"
            ELSE IF ~mine /\ target = call.desired THEN "retire_ok"
            ELSE IF ~mine /\ target \in call.expected THEN "retire_again"
            ELSE "retire_changed"

ReadBoth ==
  /\ at = "read_both" /\ Proceed(AfterClaim)
  /\ UNCHANGED <<names, history>>

\* No claim is there: the target alone decides.
ReadFinal ==
  /\ at = "read_final"
  /\ Proceed(IF target = Wanted THEN "ok"
             ELSE IF target \notin call.expected THEN "changed"
             ELSE IF target = Absent THEN "create" ELSE "claim")
  /\ UNCHANGED <<names, history>>

\* Renames that refuse to replace.  Losing the race means another attempt.
Create ==
  /\ at = "create"
  /\ \/ target = Absent /\ SetFile(call.desired) /\ Proceed("ok") /\ UNCHANGED aside
     \/ target # Absent /\ Again /\ UNCHANGED <<names, mine>>
     \/ FailCall /\ UNCHANGED names
     \/ target = Absent /\ SetFile(call.desired) /\ FailCall /\ UNCHANGED aside
  /\ UNCHANGED history

Claim ==
  /\ at = "claim"
  /\ \/ /\ target # Absent /\ aside = Absent
        /\ aside' = target /\ SetFile(Absent)
        /\ \/ Again /\ mine' = TRUE
           \/ FailCall
     \/ (target = Absent \/ aside # Absent) /\ Again /\ UNCHANGED <<names, mine>>
     \/ FailCall /\ UNCHANGED names
  /\ UNCHANGED history

\* A failed publication puts the claim back where the name is still free.
Publish ==
  /\ at = "publish"
  /\ \/ target = Absent /\ SetFile(call.desired) /\ Proceed("retire_ok") /\ UNCHANGED aside
     \/ target # Absent /\ Proceed("retire_changed") /\ UNCHANGED names
     \/ /\ FailCall
        /\ \/ target = Absent /\ SetFile(aside) /\ aside' = Absent
           \/ target = Absent /\ SetFile(call.desired) /\ UNCHANGED aside
           \/ UNCHANGED names
  /\ UNCHANGED history

GiveBack ==
  /\ at = "restore"
  /\ \/ target = Absent /\ SetFile(aside) /\ aside' = Absent /\ Proceed("changed")
     \/ target # Absent /\ Proceed("changed") /\ UNCHANGED names
     \/ FailCall /\ UNCHANGED names
     \/ target = Absent /\ SetFile(aside) /\ aside' = Absent /\ FailCall
  /\ UNCHANGED history

Retire ==
  /\ at \in {"retire_ok", "retire_again", "retire_changed"}
  /\ \/ /\ aside' = Absent /\ UNCHANGED <<target, held>>
        /\ \/ at = "retire_ok" /\ Proceed("ok")
           \/ at = "retire_again" /\ Again /\ UNCHANGED mine
           \/ at = "retire_changed" /\ Proceed("changed")
           \/ FailCall
     \/ FailCall /\ UNCHANGED names
  /\ UNCHANGED history

\* Reading a name fails.
ReadFails ==
  /\ at \in {"read_claim", "read_both", "read_final"} /\ FailCall
  /\ UNCHANGED <<names, history>>

KillCall ==
  /\ at \notin {"idle"} \cup Returned /\ kills < MaxKills /\ kills' = kills + 1
  /\ at' = "idle" /\ UNCHANGED <<names, call, attempt, mine, left, calls, failures, changes>>

\* Somebody else replaces, creates or deletes the target; nobody touches a claim.
Rewrite(c) ==
  /\ changes < MaxChanges /\ changes' = changes + 1
  /\ target # c /\ SetFile(c)
  /\ UNCHANGED <<aside, at, call, attempt, mine, left, calls, kills, failures>>

Step == \/ ReadClaim \/ ReadBoth \/ ReadFinal \/ Create \/ Claim \/ Publish \/ GiveBack
        \/ Retire \/ ReadFails
CASNext == \/ \E c \in Calls : BeginCall(c)
           \/ Step \/ KillCall
           \/ \E c \in FileStates : Rewrite(c)

CASInit ==
  /\ target \in FileStates /\ aside = Absent /\ at = "idle"
  /\ call \in Calls /\ attempt = 0 /\ mine = FALSE
  /\ held = {target} /\ left = [target |-> target, aside |-> aside, changes |-> 0]
  /\ calls = 0 /\ kills = 0 /\ failures = 0 /\ changes = 0

CASSpec == CASInit /\ [][CASNext]_casVars

-----------------------------------------------------------------------------
\* The types of the state.
CASTypeOK ==
  /\ target \in FileStates /\ aside \in FileStates
  /\ at \in Places /\ call \in Calls /\ mine \in BOOLEAN
  /\ attempt \in 0..(MaxAttempts + 1)
  /\ held \subseteq FileStates /\ left \in Found
  /\ calls \in 0..MaxCalls /\ kills \in 0..MaxKills
  /\ failures \in 0..MaxFailures /\ changes \in 0..MaxChanges

\* No call loses a content it was not told to expect: it is still the target or the
\* claim after every step, however edits, failures and kills fall between the calls.
ForeignKept ==
  [][changes' = changes =>
       {target, aside} \ (call.expected \cup {Absent}) \subseteq {target', aside'}]_casVars

\* A call that reports success has made its effect visible while it ran (a written
\* target held the desired content, a removed one was gone) and left no claim behind.
SuccessIsReal ==
  at = "ok" =>
    /\ aside = Absent
    /\ Wanted \in held

\* A call that returns, attempts to spare and without a failed system call, never does
\* so over a missing target whose content is aside, whoever had put it aside.
NothingStranded ==
  [][at \notin Returned /\ at' \in {"ok", "changed"} /\ failures' = 0
       => target' # Absent \/ aside' = Absent]_casVars

\* A call nobody interferes with does what CASOutcome says of its two names, whatever
\* earlier calls have left there: it ends that way, or, when a system call fails or the
\* process is killed, leaves one of the states on the way.
Alone == changes = left.changes /\ at # "idle"
AsSpecified ==
  /\ Alone => <<target, aside>> \in Passing(left.target, left.aside, call.expected, Wanted)
  /\ Alone /\ at \in Returned \ {"failed"} =>
       <<target, aside, at>> = Final(left.target, left.aside, call.expected, Wanted)
=============================================================================
