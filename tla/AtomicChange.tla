---------------------------- MODULE AtomicChange ----------------------------
(***************************************************************************)
(* What the runtime transaction promises to whoever starts it: a change of *)
(* the saved state and of everything that serves it happens completely or  *)
(* not at all.  While a change is open the served side may be anything;    *)
(* the saved value takes at most one step, from the old to the new value,  *)
(* never back; and a change closes only when the system serves exactly the *)
(* value that is saved.                                                    *)
(***************************************************************************)
CONSTANTS Values,    \* what a store asks the system to serve
          Closed,    \* no change is open
          Between    \* the system serves no single value

VARIABLES value,     \* the saved value
          serving,   \* what the system serves, or Between
          change     \* the open change, or Closed

vars == <<value, serving, change>>
Change == [new : Values, done : BOOLEAN]

Init == value \in Values /\ serving = value /\ change = Closed

Open == /\ change = Closed
        /\ \E v \in Values : change' = [new |-> v, done |-> FALSE]
        /\ UNCHANGED <<value, serving>>

Rearrange == /\ change # Closed
             /\ serving' \in Values \cup {Between}
             /\ UNCHANGED <<value, change>>

Commit == /\ change # Closed /\ ~change.done
          /\ value' = change.new /\ change' = [change EXCEPT !.done = TRUE]
          /\ UNCHANGED serving

Close == /\ change # Closed /\ serving = value
         /\ change' = Closed
         /\ UNCHANGED <<value, serving>>

Next == Open \/ Rearrange \/ Commit \/ Close
Spec == Init /\ [][Next]_vars
=============================================================================
