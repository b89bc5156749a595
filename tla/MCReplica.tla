------------------------------ MODULE MCReplica ------------------------------
(***************************************************************************)
(* Replica with two messages for this domain, one for another, and roots   *)
(* that share a message, so that it can be proven against either.          *)
(***************************************************************************)
EXTENDS Replica, TLC

CONSTANTS here, there, b1, u1, u2

First == [destination |-> here, nonce |-> 0, body |-> b1]
Second == [destination |-> here, nonce |-> 1, body |-> b1]
Elsewhere == [destination |-> there, nonce |-> 0, body |-> b1]

MCRoots == {Zero, <<First>>, <<First, Second, Elsewhere>>}

MCSymmetry == Permutations(Updaters)
=============================================================================
