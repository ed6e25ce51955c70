------------------------------ MODULE MCDelivery ------------------------------
(* A small instance of Delivery; processes of a kind are interchangeable. *)
EXTENDS Delivery, TLC

CONSTANTS r1, r2, p1, p2

Symmetry == Permutations({r1, r2}) \cup Permutations({p1, p2})

\* Commands, faults, kills and changes on GitHub, MaxEvents of them in all.
MaxEvents == 4

Used(what) == Budgets[what] - left[what]

FewEvents == Used("upstream") + Used("commands") + Used("faults") + Used("kills") < MaxEvents + 1
===============================================================================
