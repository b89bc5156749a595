------------------------------- MODULE MCHome -------------------------------
(***************************************************************************)
(* Home with one root that is forged in most behaviours, on a genuine      *)
(* first leaf or on none of the tree's, and genuine in those that dispatch *)
(* its two messages.  Trees of depth 2 are full with three messages.       *)
(***************************************************************************)
EXTENDS HomeTree, TLC

CONSTANTS d1, d2, b1, forged, u1, u2, m1, m2

First == [destination |-> d1, nonce |-> 0, body |-> b1]
Second == [destination |-> d1, nonce |-> 1, body |-> forged]

MCForgedRoots == {<<First, Second>>}

MCSymmetry == Permutations(Updaters) \cup Permutations(Managers)
=============================================================================
