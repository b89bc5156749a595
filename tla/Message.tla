------------------------------- MODULE Message -------------------------------
(***************************************************************************)
(* The data Home and Replica share: formatted messages and Merkle roots    *)
(* (libs/Message.sol, libs/Merkle.sol).                                    *)
(*                                                                         *)
(* A message is what formatMessage packs: the destination domain, the      *)
(* nonce on that destination and a body that stands for the sender, the    *)
(* recipient and the payload.  keccak256 is taken as injective, so a       *)
(* message stands for its own hash, the leaf.  The Merkle root of a tree   *)
(* is, for the same reason, the sequence of the leaves it commits to, and  *)
(* the path of a leaf is its index in that sequence.                       *)
(***************************************************************************)
EXTENDS Integers, Sequences

CONSTANTS
  Domains,       \* destination domains (uint32)
  Bodies,        \* message contents
  NonceModulus   \* 2^32 in the code: nonces are uint32

ASSUME NonceModulusAssumption == NonceModulus \in Nat \ {0}

Leaf == [destination : Domains, nonce : 0 .. NonceModulus - 1, body : Bodies]

Root == Seq(Leaf)

(* bytes32(0).  No tree has that root: Home enqueues a root only after an  *)
(* insertion, so the empty sequence is free to stand for it.               *)
Zero == << >>

(* Message.formatMessage with keccak256, on the fields the model keeps.    *)
formatMessage(nonce, destination, body) ==
  [destination |-> destination, nonce |-> nonce, body |-> body]

(* MerkleLib.branchRoot reaches `root` from `leaf` at `index` (counted     *)
(* from 0) exactly if this leaf stands there; any other branch yields a    *)
(* value that is the root of nothing.                                      *)
IsBranch(leaf, index, root) ==
  /\ index + 1 \in DOMAIN root
  /\ root[index + 1] = leaf

(* The root after each of the first n insertions into a tree.              *)
RootAt(leaves, n) == SubSeq(leaves, 1, n)

RootsOf(leaves) == {RootAt(leaves, n) : n \in 1 .. Len(leaves)}

IsPrefixRoot(root, leaves) == 
  /\ Len(root) <= Len(leaves)
  /\ root = RootAt(leaves, Len(root))
=============================================================================
