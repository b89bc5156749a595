------------------------------ MODULE MCChannel ------------------------------
(***************************************************************************)
(* OptimisticChannel with every root of at most MaxRootLength leaves whose *)
(* nonces count up per destination: the roots Home can reach, and, as soon *)
(* as something has been dispatched, as many that it cannot.               *)
(***************************************************************************)
EXTENDS OptimisticChannel, SequencesExt

CONSTANTS here, there, b1, b2, u1, m1, MaxRootLength

Numbered(root) ==
  \A i \in DOMAIN root :
    root[i].nonce =
      Cardinality({j \in 1 .. i - 1 : root[j].destination = root[i].destination})

MCRoots == {r \in SeqOf(Leaf, MaxRootLength) : Numbered(r)}

(* For the runs in which the updater signs what it likes: the first root    *)
(* of Home with either message, and one that builds on the one with b1.    *)
FewRoots ==
  LET a == formatMessage(0, here, b1)
      b == formatMessage(0, here, b2)
  IN {Zero, <<a>>, <<b>>, <<a, formatMessage(1, here, b1)>>}

NoPairs == {}
AllPairs == Roots \X Roots
ProperPairs == {p \in AllPairs : p[1] # p[2]}
=============================================================================
