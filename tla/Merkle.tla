------------------------------- MODULE Merkle -------------------------------
(***************************************************************************)
(* The Merkle tree of the contracts as it computes (libs/Merkle.sol): the  *)
(* incremental one, which keeps one hash per level.                        *)
(*                                                                         *)
(* A hash is a term, as keccak256 is taken as injective: << >> is          *)
(* bytes32(0), <<m>> the hash of m, and <<l, r>> that of two hashes.  So   *)
(* the hash of nothing but zeros is not zero, as in the code.              *)
(***************************************************************************)
EXTENDS Integers, Sequences

CONSTANT TREE_DEPTH   \* 32 in the code

ASSUME DepthAssumption == TREE_DEPTH \in Nat \ {0}

twoTo[i \in Nat] == IF i = 0 THEN 1 ELSE 2 * twoTo[i - 1]

MAX_LEAVES == twoTo[TREE_DEPTH] - 1

Levels == 0 .. TREE_DEPTH - 1

hash_concat(l, r) == <<l, r>>

ZERO_HASHES[i \in Nat] ==
  IF i = 0 THEN << >> ELSE hash_concat(ZERO_HASHES[i - 1], ZERO_HASHES[i - 1])

bit(index, i) == (index \div twoTo[i]) % 2

(***************************************************************************)
(* The contract's tree                                                     *)
(***************************************************************************)

emptyTree == [branch |-> [i \in Levels |-> << >>], count |-> 0]

(* The loop of insert ends before the assertion that it does. *)
insertReturns(t) == \E i \in Levels : bit(t.count + 1, i) = 1

(* The new node takes the place of the first level whose bit is set, after *)
(* the branches of the levels below it have been hashed into it.           *)
insert(t, item) ==
  LET size == t.count + 1
      level == CHOOSE i \in Levels : bit(size, i) = 1 /\ \A j \in 0 .. i - 1 : bit(size, j) = 0
      node[i \in 0 .. level] == IF i = 0 THEN item ELSE hash_concat(t.branch[i - 1], node[i - 1])
  IN  [branch |-> [t.branch EXCEPT ![level] = node[level]], count |-> size]

rootWithCtx(t) ==
  LET current[i \in 0 .. TREE_DEPTH] ==
        IF i = 0 THEN << >>
        ELSE IF bit(t.count, i - 1) = 1 THEN hash_concat(t.branch[i - 1], current[i - 1])
        ELSE hash_concat(current[i - 1], ZERO_HASHES[i - 1])
  IN  current[TREE_DEPTH]

(* A branch lists the siblings from the leaf upwards. *)
branchRoot(item, branch, index) ==
  LET current[i \in 0 .. TREE_DEPTH] ==
        IF i = 0 THEN item
        ELSE IF bit(index, i - 1) = 1 THEN hash_concat(branch[i], current[i - 1])
        ELSE hash_concat(current[i - 1], branch[i])
  IN  current[TREE_DEPTH]

(* The tree with all the leaves inserted, one after the other. *)
insertAll(leaves) ==
  LET tree[n \in 0 .. Len(leaves)] ==
        IF n = 0 THEN emptyTree ELSE insert(tree[n - 1], leaves[n])
  IN  tree[Len(leaves)]

(***************************************************************************)
(* What they compute                                                       *)
(***************************************************************************)

(* The nodes of the tree of 2^TREE_DEPTH leaves that has the given ones    *)
(* first and zero in all other places, by level and number.                *)
nodes(leaves) ==
  LET node[level \in 0 .. TREE_DEPTH] ==
        IF level = 0 THEN [k \in Nat |-> IF k < Len(leaves) THEN leaves[k + 1] ELSE << >>]
        ELSE [k \in Nat |-> hash_concat(node[level - 1][2 * k], node[level - 1][2 * k + 1])]
  IN  node

reference(leaves) == nodes(leaves)[TREE_DEPTH][0]
=============================================================================
