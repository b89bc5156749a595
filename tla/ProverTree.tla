----------------------------- MODULE ProverTree -----------------------------
(***************************************************************************)
(* The Merkle tree the processor makes proofs with (accumulator/merkle.rs):*)
(* a whole tree, with the hash of each node kept in it.                    *)
(***************************************************************************)
EXTENDS Merkle

ZeroTree(depth) == [is |-> "Zero", depth |-> depth]

LeafTree(item) == [is |-> "Leaf", hash |-> item]

rootHash(t) == IF t.is = "Zero" THEN ZERO_HASHES[t.depth] ELSE t.hash

NodeTree(left, right) ==
  [is |-> "Node", hash |-> hash_concat(rootHash(left), rootHash(right)),
   left |-> left, right |-> right]

(* Mutated: the hash of a node that has changed is not computed again. *)
staleNode(t, left, right) == [t EXCEPT !.left = left, !.right = right]

changedNode(t, left, right) == NodeTree(left, right)

(* The subtrees that create makes of the leaves, by depth and number; one  *)
(* that no leaf falls into is left whole.                                  *)
subtrees(leaves) ==
  LET subtree[depth \in Nat] ==
        IF depth = 0
        THEN [k \in Nat |-> IF k < Len(leaves) THEN LeafTree(leaves[k + 1]) ELSE ZeroTree(0)]
        ELSE [k \in Nat |->
                IF k * twoTo[depth] < Len(leaves)
                THEN NodeTree(subtree[depth - 1][2 * k], subtree[depth - 1][2 * k + 1])
                ELSE ZeroTree(depth)]
  IN  subtree

create(leaves, depth) == subtrees(leaves)[depth][0]

failed(error) == [is |-> error]

isTree(result) == result.is \in {"Zero", "Leaf", "Node"}

sides(t) == <<t.left.is, t.right.is>>

(* The subtree push_leaf calls itself for, if it does. *)
calledFor(t) ==
  IF t.is = "Node" /\ sides(t) = <<"Node", "Node">> THEN t.right
  ELSE IF t.is = "Node" /\ sides(t) = <<"Node", "Zero">> THEN t.left
  ELSE t

(* What one call makes of its subtree, given what the call for the subtree *)
(* below it has made: the tree with one leaf more, or the error that there *)
(* is no room.  A left subtree tells by that error that the leaf goes to   *)
(* the right.                                                              *)
pushed_leaf(t, item, depth, below) ==
  LET single == create(<<item>>, depth - 1) IN
  CASE depth = 0 -> failed("DepthTooSmall")
    [] depth > 0 /\ t.is = "Leaf" -> failed("LeafReached")
    [] depth > 0 /\ t.is = "Zero" -> create(<<item>>, depth)
    [] depth > 0 /\ t.is = "Node" ->
         CASE sides(t) = <<"Leaf", "Leaf">> -> failed("MerkleTreeFull")
           [] sides(t) = <<"Node", "Node">> ->
                IF isTree(below) THEN changedNode(t, t.left, below) ELSE below
           [] sides(t) = <<"Zero", "Zero">> -> changedNode(t, single, t.right)
           [] sides(t) = <<"Leaf", "Zero">> -> changedNode(t, t.left, single)
           [] sides(t) = <<"Node", "Zero">> ->
                IF isTree(below) THEN changedNode(t, below, t.right)
                ELSE IF below.is = "MerkleTreeFull" THEN changedNode(t, t.left, single)
                ELSE below
           [] OTHER -> failed("Invalid")

(* The calls, each for a subtree of one level less, and what they make, by *)
(* the depth they are given.                                               *)
push_leaf(t, item, depth) ==
  LET called[calls \in 0 .. depth] == IF calls = 0 THEN t ELSE calledFor(called[calls - 1])
      result[d \in 0 .. depth] == pushed_leaf(called[depth - d], item, d, result[d - 1])
  IN  result[depth]

left_and_right_branches(t) ==
  IF t.is = "Zero" THEN <<ZeroTree(t.depth - 1), ZeroTree(t.depth - 1)>> ELSE <<t.left, t.right>>

(* current_node after so many turns of the loop of generate_proof. *)
current_nodes(t, index, depth) ==
  LET current[turns \in 0 .. depth] ==
        IF turns = 0 THEN t
        ELSE left_and_right_branches(current[turns - 1])[1 + bit(index, depth - turns)]
  IN  current

(* Mutated: the siblings are left in the order of the descent. *)
generate_proofTopDown(t, index, depth) ==
  [turn \in 1 .. depth |->
     rootHash(left_and_right_branches(current_nodes(t, index, depth)[turn - 1])
                [2 - bit(index, depth - turn)])]

(* The siblings on the way down to the index, from the leaf upwards. *)
generate_proof(t, index, depth) ==
  [level \in 1 .. depth |->
     rootHash(left_and_right_branches(current_nodes(t, index, depth)[depth - level])
                [2 - bit(index, level - 1)])]

(***************************************************************************)
(* What both trees compute                                                 *)
(***************************************************************************)

(* For every number of leaves there is room for, the incremental root, the *)
(* root after pushing leaf by leaf, and the root of each generated proof   *)
(* are that of the tree written out; pushing gives the very tree that      *)
(* `create` gives of all leaves at once; and a full tree says that it is.  *)
TreesAgree ==
  LET capacity == twoTo[TREE_DEPTH]
      items == [i \in 1 .. capacity |-> <<i>>]
      first(n) == SubSeq(items, 1, n)
      pushed[n \in 0 .. capacity] ==
        IF n = 0 THEN ZeroTree(TREE_DEPTH) ELSE push_leaf(pushed[n - 1], items[n], TREE_DEPTH)
  IN  /\ \A n \in 0 .. MAX_LEAVES :
           rootWithCtx(insertAll(first(n))) = reference(first(n))
      /\ \A n \in 0 .. capacity :
           /\ pushed[n] = create(first(n), TREE_DEPTH)
           /\ rootHash(pushed[n]) = reference(first(n))
           /\ \A i \in 0 .. n - 1 :
                branchRoot(items[i + 1], generate_proof(pushed[n], i, TREE_DEPTH), i)
                  = rootHash(pushed[n])
      /\ push_leaf(pushed[capacity], <<0>>, TREE_DEPTH) = failed("MerkleTreeFull")
=============================================================================
