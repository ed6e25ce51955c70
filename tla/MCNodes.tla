-------------------------------- MODULE MCNodes --------------------------------
(* A small instance of Nodes: one connection that can be written in two ways *)
(* and one that cannot.  Spellings and processes are interchangeable; the    *)
(* order of saved subscriptions is fixed.                                    *)
EXTENDS Nodes, TLC

CONSTANTS c1, c2, w1, w2, s1, s2, p1, p2, global

MCUrls == {[config |-> c1, spelling |-> w1], [config |-> c1, spelling |-> w2],
           [config |-> c2, spelling |-> None]}

Symmetry == Permutations({w1, w2}) \cup Permutations({p1, p2})
===============================================================================
