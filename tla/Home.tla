-------------------------------- MODULE Home --------------------------------
(***************************************************************************)
(* Home.sol with its NomadBase.sol half, the Queue.sol and Merkle.sol      *)
(* managers it inherits, and the UpdaterManager.sol contracts it calls and *)
(* is called by.  One action is one transaction: a call that reverts       *)
(* changes nothing and is not a step.                                      *)
(***************************************************************************)
EXTENDS QueueLib

CONSTANTS
  Updaters,      \* addresses that may hold the updater role
  Managers,      \* UpdaterManager contracts
  MaxLeaves,     \* MAX_LEAVES, 2^32 - 1 in the code
  ForgedRoots    \* roots someone may sign that need not be roots of the tree

ASSUME MaxLeavesAssumption == MaxLeaves \in Nat /\ MaxLeaves <= NonceModulus
ASSUME ForgedRootsAssumption == ForgedRoots \subseteq Root

VARIABLES
  state,           \* NomadBase.state
  updater,         \* NomadBase.updater
  committedRoot,   \* NomadBase.committedRoot
  nonces,          \* next nonce per destination
  tree,            \* the leaves inserted so far
  queue,           \* QueueManager.queue
  updaterManager,  \* the manager this Home obeys and reports fraud to
  managerHome,     \* UpdaterManager.home of each manager
  managerUpdater   \* UpdaterManager._updater of each manager

rootVars == <<committedRoot, nonces, tree, queue>>
managerVars == <<updaterManager, managerHome, managerUpdater>>
vars == <<state, updater, rootVars, managerVars>>

Slots == 0 .. MaxLeaves

(* Where a manager's `home` may point: nowhere yet, to this contract, or   *)
(* to some other one.                                                      *)
HomeAddresses == {"unset", "this", "other"}

(***************************************************************************)
(* Initialization                                                          *)
(***************************************************************************)

InitRoots ==
  /\ state = "Active"
  /\ committedRoot = Zero
  /\ nonces = [d \in Domains |-> 0]
  /\ tree = << >>
  /\ queue = initialize(Slots)

(* Home.initialize: the manager names the updater.  The managers learn of  *)
(* the Home they serve only later, by setHome.                             *)
Init ==
  /\ InitRoots
  /\ updaterManager \in Managers
  /\ managerHome = [m \in Managers |-> "unset"]
  /\ managerUpdater \in [Managers -> Updaters]
  /\ updater = managerUpdater[updaterManager]

(***************************************************************************)
(* Failing                                                                 *)
(***************************************************************************)

(* Mutated: the modifier is forgotten. *)
evenIfFailed == TRUE

notFailed == state # "Failed"

(* Home._fail: slashUpdater is onlyHome, so the report reverts as a whole  *)
(* unless the manager serves this Home.                                    *)
fail ==
  /\ managerHome[updaterManager] = "this"
  /\ state' = "Failed"
  /\ UNCHANGED <<updater, rootVars, managerVars>>

(* NomadBase.doubleUpdate *)
doubleUpdate(oldRoot, newRoot, newRoot2, signer) ==
  /\ notFailed
  /\ signer = updater
  /\ newRoot # newRoot2
  /\ fail

(* Home.improperUpdate; on a proper update it returns false and changes    *)
(* nothing.                                                                *)
isCurrentUpdate(oldRoot, signer) == signer = updater /\ oldRoot = committedRoot

improperUpdate(oldRoot, newRoot, signer) ==
  /\ notFailed
  /\ isCurrentUpdate(oldRoot, signer)
  /\ ~contains(queue, newRoot)
  /\ fail

(***************************************************************************)
(* Messages and roots                                                      *)
(***************************************************************************)

(* MerkleLib.insert reverts on a full tree. *)
canInsert == Len(tree) < MaxLeaves

(* Mutated: the nonce wraps one too early. *)
nextNonceShort(n) == (n + 1) % (NonceModulus - 1)

nextNonce(n) == (n + 1) % NonceModulus

dispatch(destination, body) ==
  LET leaf == formatMessage(nonces[destination], destination, body) IN
  /\ notFailed
  /\ canInsert
  /\ nonces' = [nonces EXCEPT ![destination] = nextNonce(@)]
  /\ tree' = Append(tree, leaf)
  /\ queue' = enqueue(queue, tree')
  /\ UNCHANGED <<state, updater, committedRoot, managerVars>>

(* The part of update past the fraud check. *)
commit(oldRoot, newRoot, signer) ==
  /\ notFailed
  /\ isCurrentUpdate(oldRoot, signer)
  /\ contains(queue, newRoot)
  /\ queue' = dequeueUntil(queue, newRoot)
  /\ committedRoot' = newRoot
  /\ UNCHANGED <<state, updater, nonces, tree, managerVars>>

update(oldRoot, newRoot, signer) ==
  \/ improperUpdate(oldRoot, newRoot, signer)
  \/ commit(oldRoot, newRoot, signer)

(* The pair suggestUpdate returns; (0, 0) says there is nothing to sign.   *)
suggestUpdate ==
  IF length(queue) # 0 THEN <<committedRoot, lastItem(queue)>> ELSE <<Zero, Zero>>

(***************************************************************************)
(* Configuration                                                           *)
(***************************************************************************)

(* Home.setUpdaterManager, by the owner; `updater` stays. *)
setUpdaterManager(m) ==
  /\ updaterManager' = m
  /\ UNCHANGED <<state, updater, rootVars, managerHome, managerUpdater>>

(* UpdaterManager.setHome, by the manager's owner. *)
setHome(m, h) ==
  /\ managerHome' = [managerHome EXCEPT ![m] = h]
  /\ UNCHANGED <<state, updater, rootVars, updaterManager, managerUpdater>>

(* UpdaterManager.setUpdater with the call to Home.setUpdater it makes:    *)
(* the call reverts if there is no Home to call, or if this Home obeys     *)
(* another manager.                                                        *)
setUpdater(m, u) ==
  /\ \/ managerHome[m] = "other" /\ UNCHANGED updater
     \/ managerHome[m] = "this" /\ updaterManager = m /\ updater' = u
  /\ managerUpdater' = [managerUpdater EXCEPT ![m] = u]
  /\ UNCHANGED <<state, rootVars, updaterManager, managerHome>>

(***************************************************************************)
(* The transactions                                                        *)
(***************************************************************************)

(* The roots a transaction may name. *)
NamedRoots == {Zero} \cup RootsOf(tree) \cup ForgedRoots

Dispatch == \E d \in Domains, b \in Bodies : dispatch(d, b)

Update == \E old, new \in NamedRoots, s \in Updaters : update(old, new, s)

ReportImproperUpdate ==
  \E old, new \in NamedRoots, s \in Updaters : improperUpdate(old, new, s)

ReportDoubleUpdate ==
  \E old, new, new2 \in NamedRoots, s \in Updaters : doubleUpdate(old, new, new2, s)

Configure ==
  \/ \E m \in Managers : setUpdaterManager(m)
  \/ \E m \in Managers, h \in HomeAddresses \ {"unset"} : setHome(m, h)
  \/ \E m \in Managers, u \in Updaters : setUpdater(m, u)

Next ==
  Dispatch \/ Update \/ ReportImproperUpdate \/ ReportDoubleUpdate \/ Configure

Spec == Init /\ [][Next]_vars

(***************************************************************************)
(* Properties                                                              *)
(***************************************************************************)

(* Every variable holds a value of its Solidity type. *)
TypeOK ==
  /\ state \in {"Active", "Failed"}
  /\ updater \in Updaters
  /\ committedRoot \in Root
  /\ nonces \in [Domains -> 0 .. NonceModulus - 1]
  /\ tree \in Seq(Leaf)
  /\ queue \in [first : Nat, last : Nat, queue : [Slots -> Root]]
  /\ updaterManager \in Managers
  /\ managerHome \in [Managers -> HomeAddresses]
  /\ managerUpdater \in [Managers -> Updaters]

(* The committed root is a root the tree had. *)
CommittedIsPrefix == IsPrefixRoot(committedRoot, tree)

(* dispatch and update keep the queue equal to the roots the tree had      *)
(* after the committed one, each in the slot numbered by its leaf count,   *)
(* with every other slot cleared.  So the dequeue loop of update always    *)
(* finds its root, `contains` accepts exactly the roots an honest updater  *)
(* can sign, and the last item is the current root.                        *)
QueueHoldsPendingRoots ==
  /\ CommittedIsPrefix
  /\ queue.first = Len(committedRoot) + 1
  /\ queue.last = Len(tree)
  /\ \A i \in Slots :
       queue.queue[i] = IF i \in queue.first .. queue.last THEN RootAt(tree, i) ELSE Zero

(* No two messages of a Home have the same destination and nonce, so no    *)
(* two have the same hash: each can be processed on its own by a Replica,  *)
(* which keys messages by hash.  The uint32 nonce wraps, the tree is full  *)
(* before it does.                                                         *)
DistinctNonces ==
  \A i, j \in DOMAIN tree :
    /\ tree[i].destination = tree[j].destination
    /\ tree[i].nonce = tree[j].nonce
    => i = j

(* A root that update would accept now stays acceptable as long as the     *)
(* committed root does not move: a suggestion that an updater reads, signs *)
(* and submits later may be stale, never improper.                         *)
SuggestionNeverTurnsImproper ==
  [][committedRoot' = committedRoot =>
       \A r \in RootsOf(tree) : contains(queue, r) => contains(queue', r)]_vars

(* Home does to its log of messages only what MessageLog allows. *)
Log == INSTANCE MessageLog WITH
  Messages <- Leaf,
  log <- tree,
  committed <- Len(committedRoot),
  halted <- state = "Failed"

ImplementsMessageLog == Log!Spec
=============================================================================
