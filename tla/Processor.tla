------------------------------ MODULE Processor ------------------------------
(***************************************************************************)
(* The processor agent (rust/agents/processor) between a Home and one      *)
(* Replica: two contract syncs, for messages and updates; the prover sync, *)
(* which builds a tree and stores a proof per leaf; and the task that      *)
(* takes the messages to the Replica, strictly by nonce.  Any of them that *)
(* ends takes the process with it, which its supervisor starts again.      *)
(*                                                                         *)
(* All reads of the chains are behind a timelag, so the history of Home is *)
(* only ever extended and a root stands for its number of leaves.          *)
(***************************************************************************)
EXTENDS Integers, Sequences, FiniteSets

CONSTANTS
  fromHeight, chunkSize, HeightModulus, None,   \* see ContractSync
  Traffic,     \* bound: what may be dispatched, sequences of Kinds
  MaxHeight,   \* bound on blocks, the last of which is empty
  MaxFaults    \* bound on incomplete answers of the node, crashes, and others' transactions

\* A message for the Replica's domain, one of a sender who is not allowed
\* (or denied), and one for another domain.
Kinds == {"here", "filtered", "elsewhere"}

ASSUME TrafficAssumption == \A t \in Traffic : t \in Seq(Kinds)
ASSUME NoneAssumption == None \notin Nat

\* Heights of blocks fit into their u32.
ASSUME HeightAssumption ==
  /\ fromHeight \in Nat /\ MaxHeight \in Nat /\ fromHeight <= MaxHeight
  /\ HeightModulus \in Nat /\ MaxHeight + 1 < HeightModulus
  /\ chunkSize \in Nat

VARIABLES
  traffic,      \* the messages that are going to be dispatched
  height,       \* the block number the agent reads
  messageBlock, updateBlock,   \* Home's events: the block of each
  roots,        \* number of leaves under the new root of each update
  accepted,     \* Replica: number of updates whose root is acceptable
  status,       \* Replica: status of each leaf
  messagesDb, messagesTask, updatesDb, updatesTask,
  proofs,       \* DB: leaf index to the root it is proven under
  latestCommitted,  \* DB: PROVER_LATEST_COMMITTED
  currentNonce, \* DB: CURRENT_NONCE
  prover,       \* number of leaves in the prover's tree
  replicaTask,  \* next: next_message_nonce, at: what comes next, seen: status read
  faults

homeVars == <<traffic, height, messageBlock, updateBlock, roots>>
replicaVars == <<accepted, status>>
messagesVars == <<messagesDb, messagesTask>>
updatesVars == <<updatesDb, updatesTask>>
proverVars == <<proofs, latestCommitted, prover>>
taskVars == <<currentNonce, replicaTask>>
vars == <<homeVars, replicaVars, messagesVars, updatesVars, proverVars, taskVars, faults>>

M == INSTANCE ContractSync WITH db <- messagesDb, task <- messagesTask
U == INSTANCE ContractSync WITH db <- updatesDb, task <- updatesTask

Leaves == 0..(Len(messageBlock) - 1)
kind(leaf) == traffic[leaf + 1]

\* The nonce of a leaf among those of its destination.
isHere(leaf) == kind(leaf) # "elsewhere"
nonceOf(leaf) == Cardinality({l \in 0..(leaf - 1) : isHere(l)})

Init ==
  /\ traffic \in Traffic
  /\ height = fromHeight
  /\ messageBlock = <<>> /\ updateBlock = <<>> /\ roots = <<>>
  /\ accepted = 0 /\ status = <<>>
  /\ M!Init /\ U!Init
  /\ proofs = <<>> /\ latestCommitted = 0 /\ prover = 0
  /\ currentNonce = None
  /\ replicaTask = [next |-> 0, at |-> "message", seen |-> "None"]
  /\ faults = 0

(***************************************************************************)
(* Chains                                                                  *)
(***************************************************************************)

\* A block with some more messages, and perhaps an update, to all leaves
\* with or without those.
Mine ==
  /\ height < MaxHeight
  /\ height' = height + 1
  /\ \E more \in 0..(Len(traffic) - Len(messageBlock)) :
       /\ more > 0 => height' < MaxHeight /\ more <= 2
       /\ messageBlock' = messageBlock \o [i \in 1..more |-> height']
       /\ status' = status \o [i \in 1..more |-> "None"]
  /\ \/ UNCHANGED <<updateBlock, roots>>
     \/ \E size \in {Len(messageBlock), Len(messageBlock')} :
          /\ height' < MaxHeight
          /\ size > IF roots = <<>> THEN 0 ELSE roots[Len(roots)]
          /\ roots' = Append(roots, size)
          /\ updateBlock' = Append(updateBlock, height')
  /\ UNCHANGED <<traffic, accepted, messagesVars, updatesVars, proverVars, taskVars, faults>>

\* The relayer has submitted the next update, and its window is over.
Accept ==
  /\ accepted < Len(roots)
  /\ accepted' = accepted + 1
  /\ UNCHANGED <<homeVars, status, messagesVars, updatesVars, proverVars, taskVars, faults>>

acceptable(root) == \E j \in 1..accepted : roots[j] = root
provable(leaf) == \E j \in 1..accepted : roots[j] > leaf

\* Anybody else proves or processes a message.
OthersProcess(leaf) ==
  /\ faults < MaxFaults /\ faults' = faults + 1
  /\ isHere(leaf) /\ provable(leaf)
  /\ \/ status[leaf + 1] = "None" /\ status' = [status EXCEPT ![leaf + 1] = "Proven"]
     \/ status[leaf + 1] # "Processed" /\ status' = [status EXCEPT ![leaf + 1] = "Processed"]
  /\ UNCHANGED <<homeVars, accepted, messagesVars, updatesVars, proverVars, taskVars>>

(***************************************************************************)
(* Contract syncs                                                          *)
(***************************************************************************)

\* The node may leave an event out, but not the first one: see the README.
mayOmit(sync) ==
  {{}} \cup IF faults < MaxFaults /\ sync.latest # None
            THEN {{e} : e \in 0..(Len(messageBlock) - 1)} ELSE {}

SyncMessages ==
  /\ UNCHANGED <<homeVars, replicaVars, updatesVars, proverVars, taskVars>>
  /\ \E omitted \in mayOmit(messagesDb) :
       /\ M!Poll(height, messageBlock, omitted)
       /\ faults' = faults + Cardinality(omitted)

SyncUpdates ==
  /\ UNCHANGED <<homeVars, replicaVars, messagesVars, proverVars, taskVars>>
  /\ \E omitted \in mayOmit(updatesDb) :
       /\ U!Poll(height, updateBlock, omitted)
       /\ faults' = faults + Cardinality(omitted)

(***************************************************************************)
(* Prover sync                                                             *)
(***************************************************************************)

\* Mutated: a leaf's proof is taken when it is ingested.
storeProofsOnIngest(p, leaves, size) ==
  [l \in DOMAIN p \cup leaves |-> IF l \in DOMAIN p THEN p[l] ELSE l + 1]

\* Proofs for leaves that have none, under the root of the tree.
storeProofs(p, leaves, size) ==
  [l \in DOMAIN p \cup leaves |-> IF l \in DOMAIN p THEN p[l] ELSE size]

\* Updates are found by their previous root, leaves by their index.
knownUpdates == {e + 1 : e \in U!known(updatesDb)}
knownLeaves == M!known(messagesDb)

\* The updates the index has on the prover's root.
updatesOn(root) == {j \in knownUpdates : root = IF j = 1 THEN 0 ELSE roots[j - 1]}

newLeaves(j) == prover..(roots[j] - 1)

ProverSync ==
  \E j \in updatesOn(prover) :
    /\ newLeaves(j) \subseteq knownLeaves
    /\ prover' = roots[j]
    /\ proofs' = storeProofs(proofs, newLeaves(j), roots[j])
    /\ latestCommitted' = roots[j]
    /\ UNCHANGED <<homeVars, replicaVars, messagesVars, updatesVars, taskVars, faults>>

(***************************************************************************)
(* The task of the Replica                                                 *)
(***************************************************************************)

\* By its new root an update is found only once it is stored in full.
update_by_new_root(root) == {e \in updatesDb.stored : roots[e + 1] = root}

\* No update leads on from the prover's root, and none to it.
invalidLocalRoot ==
  prover # 0 /\ updatesOn(prover) = {} /\ update_by_new_root(prover) = {}

\* The leaf the index has for the nonce, with its message.
found == {l \in messagesDb.stored : isHere(l) /\ nonceOf(l) = replicaTask.next}

at(place) == [replicaTask EXCEPT !.at = place]
advanced == [next |-> replicaTask.next + 1, at |-> "message", seen |-> "None"]

\* Mutated: a message whose proof is not known yet is skipped.
canSkipUnproven(l) == kind(l) = "filtered" \/ l \notin DOMAIN proofs

canSkip(l) == kind(l) = "filtered"
canProve(l) == kind(l) = "here" /\ l \in DOMAIN proofs /\ acceptable(proofs[l])

\* The message is known: skip it, or read its status once its proof is
\* known and the root of the proof is acceptable.
Look ==
  /\ replicaTask.at = "message"
  /\ \E l \in found :
       \/ canSkip(l) /\ replicaTask' = at("advance")
       \/ canProve(l) /\ replicaTask' = [at("process") EXCEPT !.seen = status[l + 1]]
  /\ UNCHANGED <<homeVars, replicaVars, messagesVars, updatesVars, proverVars, currentNonce, faults>>

\* prove_and_process wants a message that is not proven, process one that is.
reverts(l) == replicaTask.seen # status[l + 1]

Process ==
  /\ replicaTask.at = "process"
  /\ \E l \in found :
       /\ replicaTask.seen # "Processed" => ~reverts(l)
       /\ status' = [status EXCEPT ![l + 1] = "Processed"]
  /\ replicaTask' = at("advance")
  /\ UNCHANGED <<homeVars, accepted, messagesVars, updatesVars, proverVars, currentNonce, faults>>

Advance ==
  /\ replicaTask.at = "advance"
  /\ currentNonce' = replicaTask.next
  /\ replicaTask' = advanced
  /\ UNCHANGED <<homeVars, replicaVars, messagesVars, updatesVars, proverVars, faults>>

(***************************************************************************)
(* The process ends and is started again                                   *)
(***************************************************************************)

\* ProverSync::from_disk
reloaded(stored) ==
  CHOOSE n \in 0..latestCommitted :
    /\ 0..(n - 1) \subseteq stored
    /\ n = latestCommitted \/ n \notin stored

StartTasks ==
  /\ replicaTask' = [next |-> IF currentNonce = None THEN 0 ELSE currentNonce + 1,
                     at |-> "message", seen |-> "None"]
  /\ prover' = reloaded(knownLeaves)
  /\ UNCHANGED <<homeVars, replicaVars, latestCommitted, currentNonce>>

StartAll ==
  StartTasks /\ M!Restart /\ U!Restart /\ proofs' = storeProofs(proofs, 0..(prover' - 1), prover')

\* Nobody else's transaction was expected: ProcessTransactionReverted.
ProcessReverts ==
  /\ replicaTask.at = "process" /\ replicaTask.seen # "Processed"
  /\ \E l \in found : reverts(l)
  /\ StartAll /\ UNCHANGED faults

\* The update is known for 60 seconds, while the sync of messages, caught
\* up, sleeps for 100 and the Replica's task has nothing to do.
LeafNotFound ==
  /\ \E j \in updatesOn(prover) : ~(newLeaves(j) \subseteq knownLeaves)
  /\ M!caughtUp(height)
  /\ replicaTask.at = "message" /\ ~\E l \in found : canSkip(l) \/ canProve(l)
  /\ StartAll /\ UNCHANGED faults

\* The prover sync ends, and the process with it, at every start at which it
\* comes ahead of the sync of updates.
InvalidLocalRoot == invalidLocalRoot /\ StartAll /\ UNCHANGED faults

\* A crash, at rest or between two writes of one of the tasks.  from_disk
\* has no proofs to add then: they were stored before latestCommitted was.
Crash ==
  /\ faults < MaxFaults /\ faults' = faults + 1
  /\ StartTasks
  /\ \/ M!Restart /\ U!Restart /\ UNCHANGED proofs
     \/ M!Crash(height, messageBlock) /\ U!Restart /\ UNCHANGED proofs
     \/ U!Crash(height, updateBlock) /\ M!Restart /\ UNCHANGED proofs
     \/ /\ \E j \in updatesOn(prover) :
             /\ newLeaves(j) \subseteq knownLeaves
             /\ \E last \in newLeaves(j) : proofs' = storeProofs(proofs, prover..last, roots[j])
        /\ M!Restart /\ U!Restart

Next ==
  \/ Mine \/ Accept
  \/ \E leaf \in Leaves : OthersProcess(leaf)
  \/ SyncMessages \/ SyncUpdates \/ ProverSync
  \/ Look \/ Process \/ Advance
  \/ ProcessReverts \/ LeafNotFound \/ InvalidLocalRoot \/ Crash

\* Blocks are mined, the relayer works, and no task of the process stops for
\* ever; but a process that ends at every start may do so before a sync has
\* had the node's answer.
Fairness ==
  /\ WF_vars(Mine) /\ WF_vars(Accept)
  /\ WF_vars(~invalidLocalRoot /\ SyncMessages) /\ WF_vars(~invalidLocalRoot /\ SyncUpdates)
  /\ WF_vars(ProverSync)
  /\ WF_vars(Look \/ Process \/ Advance \/ ProcessReverts)

Spec == Init /\ [][Next]_vars /\ Fairness

(***************************************************************************)
(* Properties                                                              *)
(***************************************************************************)

dbOf(sync, events) ==
  /\ sync.stored \subseteq events /\ sync.half \subseteq events
  /\ sync.latest \in {None} \cup events
  /\ sync.blockEnd \in {None} \cup 0..height

\* Databases and tasks hold what exists on the chains: events by their
\* index, proofs of leaves, a nonce no higher than there are messages.
TypeOK ==
  /\ dbOf(messagesDb, Leaves) /\ dbOf(updatesDb, 0..(Len(roots) - 1))
  /\ DOMAIN proofs \subseteq Leaves
  /\ Len(status) = Len(messageBlock)
  /\ \A i \in DOMAIN status : status[i] \in {"None", "Proven", "Processed"}
  /\ replicaTask.next \in 0..Len(messageBlock)
  /\ replicaTask.at \in {"message", "process", "advance"}

noneLost(sync, blockOf) ==
  \A e \in 0..(Len(blockOf) - 1) :
    sync.blockEnd # None /\ blockOf[e + 1] <= sync.blockEnd =>
      e \in sync.stored \/ sync.latest = None \/ e > sync.latest

\* Whatever a sync has passed it has stored, or it knows that there may be
\* a gap: no crash between the writes of contract_sync and no incomplete
\* answer makes it believe in a block it has not read.
NoEventIsLost == noneLost(messagesDb, messageBlock) /\ noneLost(updatesDb, updateBlock)

\* The prover's tree always has a root that Home has committed, and so
\* has every proof: else the processor waits for ever for it to become
\* acceptable, or the prover for an update from a root that never was.  If
\* the prover finds no update to its root, a crash has half stored it.
ProofsAreOfCommittedRoots ==
  /\ prover = 0 \/ \E j \in DOMAIN roots : roots[j] = prover
  /\ \A l \in DOMAIN proofs : \E j \in DOMAIN roots : roots[j] = proofs[l] /\ l < proofs[l]
  /\ invalidLocalRoot => \E e \in updatesDb.half : roots[e + 1] = prover

\* The prover ends with InvalidLocalRoot only if its root "was never signed
\* by updater and submitted to Home", as the comment of the error says.  It
\* does not hold: see MCProcessorTornUpdate.cfg.
InvalidIfNeverCommitted == invalidLocalRoot => \A j \in DOMAIN roots : roots[j] # prover

processed(l) == l \in Leaves /\ status[l + 1] = "Processed"

\* No nonce is passed over: up to the stored one every message of the
\* Replica's domain is processed, unless its sender is filtered, whatever
\* ended the process in between.
NoMessageIsSkipped ==
  currentNonce # None =>
    \A l \in Leaves :
      kind(l) = "here" /\ nonceOf(l) <= currentNonce => processed(l)

\* A gap is found when a later event shows it, and only within a chunk.
closeTogether(blockOf) == \A i \in 2..Len(blockOf) : blockOf[i] - blockOf[i - 1] <= chunkSize

\* Every message under an update is processed in the end, if both have a
\* successor by which an incomplete answer of the node is noticed, unless
\* the agent keeps ending because the update to the prover's root was half
\* stored when it crashed.
MessagesGetProcessed ==
  []<>(closeTogether(messageBlock) /\ closeTogether(updateBlock) =>
         invalidLocalRoot \/ \A l \in 0..(Len(messageBlock) - 2) :
           kind(l) = "here" /\ (\E j \in 1..(Len(roots) - 1) : roots[j] > l) => processed(l))
=============================================================================
