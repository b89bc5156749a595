------------------------------ MODULE HomeTree ------------------------------
(***************************************************************************)
(* Home with its tree as it is stored, one hash per level, and a processor *)
(* that builds the tree once more from the leaves it has indexed           *)
(* (processor/src/prover.rs, prover_sync.rs) to prove them to Replicas.    *)
(*                                                                         *)
(* Everywhere else a root stands for the sequence of its leaves, and a     *)
(* branch for an index into it.  What is checked here says that it may.    *)
(***************************************************************************)
EXTENDS Home, ProverTree

ASSUME FullTreeAssumption == MaxLeaves = MAX_LEAVES

VARIABLES
  stored,   \* MerkleTreeManager.tree of Home
  roots,    \* history: the root that Home computed after each leaf
  prover,   \* the prover's tree and its count
  latestCommitted   \* DB: PROVER_LATEST_COMMITTED, zero if there is none

homeTreeVars == <<vars, stored, roots>>
treeVars == <<homeTreeVars, prover, latestCommitted>>

leafHash(i) == <<tree[i]>>

(***************************************************************************)
(* The contract                                                            *)
(***************************************************************************)

(* A transaction of Home; dispatch inserts the leaf into what is stored    *)
(* and enqueues the root of that.                                          *)
HomeStep ==
  /\ Next
  /\ \/ tree' = tree /\ UNCHANGED <<stored, roots>>
     \/ /\ tree' # tree
        /\ insertReturns(stored)
        /\ stored' = insert(stored, <<tree'[Len(tree')]>>)
        /\ roots' = Append(roots, rootWithCtx(stored'))
  /\ UNCHANGED <<prover, latestCommitted>>

(***************************************************************************)
(* The prover                                                              *)
(***************************************************************************)

noLeaves == [count |-> 0, tree |-> ZeroTree(TREE_DEPTH)]

ingest(p, leaf) ==
  [count |-> p.count + 1, tree |-> push_leaf(p.tree, leaf, TREE_DEPTH)]

(* Leaves are taken until the prover has the root, or there are none.      *)
(* update_prover_tree does this from where it is, from_disk from nothing.  *)
ingestUntil(p, newRoot) ==
  LET grown[k \in 0 .. Len(tree) - p.count] ==
        IF k = 0 THEN p ELSE ingest(grown[k - 1], leafHash(p.count + k))
      last == CHOOSE k \in DOMAIN grown :
                /\ k = Len(tree) - p.count \/ rootHash(grown[k].tree) = newRoot
                /\ \A j \in 0 .. k - 1 : rootHash(grown[j].tree) # newRoot
  IN  grown[last]

(* Where the last update has taken the prover; zero is the initial root. *)
local_root == IF prover.count = 0 THEN << >> ELSE rootHash(prover.tree)

(* Home has committed an update past the prover's root, to n leaves. *)
UpdateProverTree ==
  /\ local_root = latestCommitted
  /\ \E n \in prover.count + 1 .. Len(committedRoot) :
       prover' = ingestUntil(prover, roots[n])
  /\ UNCHANGED <<homeTreeVars, latestCommitted>>

(* Its proofs stored, the update is done. *)
StoreLatestCommitted ==
  /\ local_root # latestCommitted
  /\ latestCommitted' = local_root
  /\ UNCHANGED <<homeTreeVars, prover>>

(* The process ends anywhere and starts again with what is stored. *)
Restart ==
  /\ prover' = IF latestCommitted = << >> THEN noLeaves
               ELSE ingestUntil(noLeaves, latestCommitted)
  /\ UNCHANGED <<homeTreeVars, latestCommitted>>

prove(p, index) == generate_proof(p.tree, index, TREE_DEPTH)

TreeInit ==
  /\ Init
  /\ stored = emptyTree /\ roots = << >>
  /\ prover = noLeaves /\ latestCommitted = << >>

TreeNext == HomeStep \/ UpdateProverTree \/ StoreLatestCommitted \/ Restart

TreeSpec == TreeInit /\ [][TreeNext]_treeVars

(***************************************************************************)
(* Properties                                                              *)
(***************************************************************************)

(* The proofs that the processor makes with its own tree, built from what  *)
(* it has indexed, restarts included, are those the contract's branchRoot  *)
(* takes to the root Home had with as many leaves: each for its leaf at    *)
(* its index, and for no other leaf, index or root.                        *)
ProofsProve ==
  \A i \in 0 .. prover.count - 1 :
    LET proof == prove(prover, i) IN
    \A j \in 0 .. MAX_LEAVES, l \in DOMAIN tree :
      LET root == branchRoot(leafHash(l), proof, j) IN
      \A n \in DOMAIN roots : root = roots[n] <=> n = prover.count /\ j = i /\ l = i + 1

(* TreesAgree is about the algorithms and no state, so it is enough to     *)
(* look before the first message.                                          *)
AlgorithmsAgree == tree = << >> => TreesAgree
=============================================================================
