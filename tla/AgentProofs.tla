--------------------------- MODULE AgentProofs ---------------------------
(***************************************************************************)
(* What is proved of the agents that do work of their own.                 *)
(*                                                                         *)
(* The updater neither contradicts itself nor fails its Home, for any      *)
(* traffic, any number of crashes, and a chain that is reorganized any     *)
(* number of times.  What Home is at its head and what it was when it was  *)
(* confirmed both satisfy the invariant of HomeProofs.                     *)
(*                                                                         *)
(* The processor passes over no message and keeps no proof under a root    *)
(* Home has not committed, for any traffic, any number of faults, and      *)
(* however the chain's blocks are cut into ranges.                         *)
(***************************************************************************)
EXTENDS Updater, Processor, FiniteSetTheorems, SequenceTheorems, WellFoundedInduction, TLAPS

(***************************************************************************)
(* The updater                                                             *)
(***************************************************************************)

HP == INSTANCE HomeProofs WITH ForgedRoots <- {}

CP == INSTANCE HomeProofs WITH
  ForgedRoots <- {},
  committedRoot <- confirmed.committedRoot, nonces <- confirmed.nonces,
  tree <- confirmed.tree, queue <- confirmed.queue

(* The assumptions of Home hold of both instances. *)
LEMMA HomeAssumptions ==
  /\ HP!NonceModulusAssumption /\ HP!MaxLeavesAssumption /\ HP!ForgedRootsAssumption
  /\ CP!NonceModulusAssumption /\ CP!MaxLeavesAssumption /\ CP!ForgedRootsAssumption
BY NonceModulusAssumption, LeavesAssumption
   DEF HP!NonceModulusAssumption, HP!MaxLeavesAssumption, HP!ForgedRootsAssumption,
       CP!NonceModulusAssumption, CP!MaxLeavesAssumption, CP!ForgedRootsAssumption

(***************************************************************************)
(* The invariant                                                           *)
(***************************************************************************)

(* A pair Home may be sent: two roots of the confirmed tree, in order.     *)
isSound(u) ==
  /\ u \in Pairs
  /\ IsPrefixRoot(u[2], confirmed.tree)
  /\ Len(u[1]) < Len(u[2])

SignedAreSound == \A u \in produced : isSound(u)

(* What is about to be stored is sound, and the first from its root.       *)
AboutToStore ==
  /\ DOMAIN producer = {"at", "root", "suggested"}
  /\ producer.at = "store" =>
       isSound(producer.suggested) /\ ~hasProduced(producer.suggested[1])

ChainInv == HP!IndInv /\ CP!IndInv /\ IsPrefixRoot(confirmed.tree, tree)

AgentInv == SignedAreSound /\ AboutToStore /\ NeverDoubleSigns

UpdaterInv == ChainInv /\ AgentInv /\ NeverFailsHome

(* What the invariants of the two Homes say of their roots. *)
LEMMA HeadRoots ==
  ASSUME HP!IndInv
  PROVE  /\ tree \in Root /\ committedRoot \in Root
         /\ Len(committedRoot) <= Len(tree) /\ Len(tree) <= MaxLeaves
         /\ queue.first = Len(committedRoot) + 1 /\ queue.last = Len(tree)
         /\ \A i \in queue.first .. queue.last : queue.queue[i] = RootAt(tree, i)
<1>1. /\ tree \in Root /\ committedRoot \in Root
      /\ Len(committedRoot) <= Len(tree) /\ Len(tree) <= MaxLeaves
      /\ queue.first = Len(committedRoot) + 1 /\ queue.last = Len(tree)
  BY DEF HP!IndInv, HP!TypeOK, HP!Root, HP!Leaf, Root, Leaf, HP!QueueHoldsPendingRoots,
         HP!CommittedIsPrefix, HP!IsPrefixRoot
<1>2. \A i \in queue.first .. queue.last : i \in HP!Slots
  BY <1>1, LeavesAssumption DEF HP!Slots, Root
<1>3. \A i \in queue.first .. queue.last : queue.queue[i] = RootAt(tree, i)
  BY <1>2 DEF HP!IndInv, HP!QueueHoldsPendingRoots, HP!RootAt, RootAt
<1>. QED  BY <1>1, <1>3

(* The same of the confirmed Home. *)
LEMMA ConfirmedRoots ==
  ASSUME CP!IndInv
  PROVE  /\ confirmed.tree \in Root /\ confirmed.committedRoot \in Root
         /\ Len(confirmed.committedRoot) <= Len(confirmed.tree)
         /\ Len(confirmed.tree) <= MaxLeaves
         /\ confirmed.queue.first = Len(confirmed.committedRoot) + 1
         /\ confirmed.queue.last = Len(confirmed.tree)
         /\ \A i \in confirmed.queue.first .. confirmed.queue.last :
              confirmed.queue.queue[i] = RootAt(confirmed.tree, i)
<1>1. /\ confirmed.tree \in Root /\ confirmed.committedRoot \in Root
      /\ Len(confirmed.committedRoot) <= Len(confirmed.tree)
      /\ Len(confirmed.tree) <= MaxLeaves
      /\ confirmed.queue.first = Len(confirmed.committedRoot) + 1
      /\ confirmed.queue.last = Len(confirmed.tree)
  BY DEF CP!IndInv, CP!TypeOK, CP!Root, CP!Leaf, Root, Leaf, CP!QueueHoldsPendingRoots,
         CP!CommittedIsPrefix, CP!IsPrefixRoot
<1>2. \A i \in confirmed.queue.first .. confirmed.queue.last : i \in CP!Slots
  BY <1>1, LeavesAssumption DEF CP!Slots, Root
<1>3. \A i \in confirmed.queue.first .. confirmed.queue.last :
        confirmed.queue.queue[i] = RootAt(confirmed.tree, i)
  BY <1>2 DEF CP!IndInv, CP!QueueHoldsPendingRoots, CP!RootAt, RootAt
<1>. QED  BY <1>1, <1>3

(* A tree's own root is one of its roots. *)
LEMMA OwnPrefix ==
  ASSUME NEW t \in Root
  PROVE  RootAt(t, Len(t)) = t /\ IsPrefixRoot(t, t)
BY DEF IsPrefixRoot, RootAt, Root

(* The confirmed Home's last item is its whole tree. *)
LEMMA SuggestionIsSound ==
  ASSUME ChainInv, NEW s \in produce_update
  PROVE  isSound(s)
<1>1. /\ H!length(confirmed.queue) # 0
      /\ s = <<confirmed.committedRoot, H!lastItem(confirmed.queue)>>
  BY DEF produce_update
<1>2. confirmed.queue.last \in confirmed.queue.first .. confirmed.queue.last
  BY <1>1, ConfirmedRoots DEF ChainInv, H!length, Root
<1>3. s[2] = RootAt(confirmed.tree, Len(confirmed.tree))
  BY <1>1, <1>2, ConfirmedRoots DEF ChainInv, H!lastItem
<1>4. s[2] = confirmed.tree
  BY <1>3, ConfirmedRoots, OwnPrefix DEF ChainInv
<1>5. s \in Pairs
  BY <1>1, <1>4, ConfirmedRoots DEF ChainInv, Pairs
<1>6. IsPrefixRoot(s[2], confirmed.tree)
  BY <1>4, ConfirmedRoots, OwnPrefix DEF ChainInv
<1>7. Len(s[1]) < Len(s[2])
  BY <1>1, <1>2, <1>4, ConfirmedRoots DEF ChainInv, Root
<1>. QED  BY <1>5, <1>6, <1>7 DEF isSound

(* A root of the confirmed tree is a root of the tree. *)
LEMMA PrefixOfPrefix ==
  ASSUME NEW r \in Root, NEW s \in Root, NEW t \in Root,
         IsPrefixRoot(r, s), IsPrefixRoot(s, t)
  PROVE  IsPrefixRoot(r, t)
BY DEF IsPrefixRoot, RootAt, Root

(* A sound pair that is current is one Home takes. *)
LEMMA SoundIsProper ==
  ASSUME ChainInv, NEW u, isSound(u), u[1] = committedRoot
  PROVE  H!contains(queue, u[2])
<1>1. u[2] \in Root /\ confirmed.tree \in Root /\ tree \in Root
  BY HeadRoots, ConfirmedRoots DEF ChainInv, isSound, Pairs
<1>2. IsPrefixRoot(u[2], tree)
  BY <1>1, PrefixOfPrefix DEF ChainInv, isSound
<1>3. Len(u[2]) \in queue.first .. queue.last
  BY <1>1, <1>2, HeadRoots DEF ChainInv, isSound, IsPrefixRoot, Root
<1>. QED  BY <1>2, <1>3, HeadRoots DEF ChainInv, H!contains, IsPrefixRoot

(***************************************************************************)
(* The chain                                                               *)
(***************************************************************************)

(* What leaves Home alone keeps its invariant. *)
LEMMA HomeStands ==
  HP!IndInv /\ UNCHANGED headVars => HP!IndInv'
<1>1. UNCHANGED headVars => UNCHANGED HP!vars
  BY DEF headVars, HP!vars, HP!rootVars, HP!managerVars
<1>. QED  BY <1>1, HomeAssumptions, HP!NextIndInv

(* A confirmed Home stands while its officers do. *)
LEMMA ConfirmedStands ==
  CP!IndInv /\ UNCHANGED <<confirmed, state, updater, updaterManager, managerHome, managerUpdater>>
    => CP!IndInv'
<1>1. UNCHANGED <<confirmed, state, updater, updaterManager, managerHome, managerUpdater>>
        => UNCHANGED CP!vars
  BY DEF CP!vars, CP!rootVars, CP!managerVars
<1>. QED  BY <1>1, HomeAssumptions, CP!NextIndInv

(* Steps of the agent leave the chain alone. *)
LEMMA ChainStands ==
  ChainInv /\ UNCHANGED <<headVars, confirmed>> => ChainInv'
BY HomeStands, ConfirmedStands DEF ChainInv, headVars

(* dispatch appends: what was confirmed stays a root of the tree. *)
LEMMA DispatchKeepsChain ==
  ASSUME ChainInv, Dispatch
  PROVE  ChainInv' /\ UNCHANGED <<state, confirmed>>
<1>1. PICK d \in Domains, b \in Bodies : H!dispatch(d, b)
  BY DEF Dispatch, H!Dispatch
<1>2. HP!dispatch(d, b)
  BY <1>1 DEF HP!dispatch, H!dispatch, HP!notFailed, H!notFailed, HP!canInsert, H!canInsert,
              HP!formatMessage, H!formatMessage, HP!nextNonce, H!nextNonce,
              HP!enqueue, H!enqueue, HP!managerVars, H!managerVars
<1>3. HP!IndInv'
  BY <1>2, HomeAssumptions, HP!DispatchIndInv DEF ChainInv
<1>4. /\ UNCHANGED <<confirmed, state, updater, updaterManager, managerHome, managerUpdater>>
      /\ \E e : tree' = Append(tree, e)
  BY <1>1 DEF H!dispatch, H!managerVars, Dispatch
<1>5. CP!IndInv'
  BY <1>4, ConfirmedStands DEF ChainInv
<1>6. tree' \in Root /\ tree \in Root /\ confirmed.tree \in Root
  BY <1>3, HeadRoots, ConfirmedRoots DEF ChainInv, HP!IndInv, HP!TypeOK, HP!Leaf, Leaf, Root
<1>7. IsPrefixRoot(confirmed.tree, tree)'
  BY <1>4, <1>6 DEF ChainInv, IsPrefixRoot, RootAt, Root
<1>. QED  BY <1>3, <1>4, <1>5, <1>7 DEF ChainInv

(* What is confirmed is the Home at the head, with its invariant. *)
LEMMA ConfirmKeepsChain ==
  ASSUME ChainInv, Confirm
  PROVE  ChainInv' /\ confirmed'.tree = tree
<1>1. HP!IndInv'
  BY HomeStands DEF ChainInv, Confirm
<1>2. /\ confirmed'.committedRoot = committedRoot /\ confirmed'.nonces = nonces
      /\ confirmed'.tree = tree /\ confirmed'.queue = queue
      /\ UNCHANGED headVars
  BY DEF Confirm, Head1
<1>3. CP!IndInv'
  BY <1>2
     DEF ChainInv, headVars,
         HP!IndInv, HP!TypeOK, HP!Root, HP!Leaf, HP!Slots, HP!HomeAddresses,
         HP!QueueHoldsPendingRoots, HP!CommittedIsPrefix, HP!IsPrefixRoot, HP!RootAt,
         HP!NoncesAhead, HP!DistinctNonces, HP!Zero,
         CP!IndInv, CP!TypeOK, CP!Root, CP!Leaf, CP!Slots, CP!HomeAddresses,
         CP!QueueHoldsPendingRoots, CP!CommittedIsPrefix, CP!IsPrefixRoot, CP!RootAt,
         CP!NoncesAhead, CP!DistinctNonces, CP!Zero
<1>4. IsPrefixRoot(tree, tree)
  BY HeadRoots, OwnPrefix DEF ChainInv
<1>. QED  BY <1>1, <1>2, <1>3, <1>4 DEF ChainInv, headVars

(* A reorganization takes the head back to what satisfies the invariant. *)
LEMMA ReorgKeepsChain ==
  ASSUME ChainInv, Reorg
  PROVE  ChainInv' /\ UNCHANGED <<state, confirmed>>
<1>1. /\ committedRoot' = confirmed.committedRoot /\ nonces' = confirmed.nonces
      /\ tree' = confirmed.tree /\ queue' = confirmed.queue
      /\ UNCHANGED <<confirmed, state, updater, updaterManager, managerHome, managerUpdater>>
  BY DEF Reorg
<1>2. CP!IndInv'
  BY <1>1, ConfirmedStands DEF ChainInv
<1>3. HP!IndInv'
  BY <1>1
     DEF ChainInv, headVars,
         HP!IndInv, HP!TypeOK, HP!Root, HP!Leaf, HP!Slots, HP!HomeAddresses,
         HP!QueueHoldsPendingRoots, HP!CommittedIsPrefix, HP!IsPrefixRoot, HP!RootAt,
         HP!NoncesAhead, HP!DistinctNonces, HP!Zero,
         CP!IndInv, CP!TypeOK, CP!Root, CP!Leaf, CP!Slots, CP!HomeAddresses,
         CP!QueueHoldsPendingRoots, CP!CommittedIsPrefix, CP!IsPrefixRoot, CP!RootAt,
         CP!NoncesAhead, CP!DistinctNonces, CP!Zero
<1>4. IsPrefixRoot(confirmed.tree, confirmed.tree)
  BY ConfirmedRoots, OwnPrefix DEF ChainInv
<1>. QED  BY <1>1, <1>2, <1>3, <1>4 DEF ChainInv

(* A submitted pair that is current is committed, never improper. *)
LEMMA SubmitKeepsChain ==
  ASSUME ChainInv, SignedAreSound, SubmitSucceeds
  PROVE  ChainInv' /\ UNCHANGED <<state, confirmed>>
<1>1. PICK u \in produced : H!update(u[1], u[2], updater)
  BY DEF SubmitSucceeds, nextToSubmit
<1>2. u[1] = committedRoot
  BY <1>1 DEF H!update, H!improperUpdate, H!commit, H!isCurrentUpdate
<1>3. H!commit(u[1], u[2], updater)
  BY <1>1, <1>2, SoundIsProper DEF SignedAreSound, H!update, H!improperUpdate
<1>4. HP!commit(u[1], u[2], updater)
  BY <1>3 DEF HP!commit, H!commit, HP!notFailed, H!notFailed,
              HP!isCurrentUpdate, H!isCurrentUpdate, HP!contains, H!contains,
              HP!dequeueUntil, H!dequeueUntil, HP!FirstIndexOf, H!FirstIndexOf,
              HP!Zero, H!Zero, HP!managerVars, H!managerVars
<1>5. HP!IndInv'
  BY <1>4, HomeAssumptions, HP!CommitIndInv DEF ChainInv
<1>6. UNCHANGED <<confirmed, tree, state, updater, updaterManager, managerHome, managerUpdater>>
  BY <1>3 DEF H!commit, H!managerVars, SubmitSucceeds
<1>7. CP!IndInv'
  BY <1>6, ConfirmedStands DEF ChainInv
<1>. QED  BY <1>5, <1>6, <1>7 DEF ChainInv

(***************************************************************************)
(* The agent                                                               *)
(***************************************************************************)

(* The confirmed Home is the same, or the one at the head. *)
mayConfirm == confirmed' = confirmed \/ confirmed'.tree = tree

(* The producer does not get to the point of storing. *)
noSuggestion ==
  \/ producer' = producer
  \/ DOMAIN producer' = {"at", "root", "suggested"} /\ producer'.at # "store"

(* Nothing new is signed or about to be: what there is stays sound, as the *)
(* confirmed tree only grows.                                              *)
LEMMA AgentStands ==
  ASSUME ChainInv, ChainInv', AgentInv,
         mayConfirm, produced' = produced, noSuggestion
  PROVE  AgentInv'
<1>1. ASSUME NEW u, isSound(u) PROVE isSound(u)'
  <2>1. u[2] \in Root /\ confirmed.tree \in Root /\ confirmed'.tree \in Root
    BY <1>1, ConfirmedRoots DEF isSound, Pairs, ChainInv, CP!IndInv, CP!TypeOK, CP!Root, CP!Leaf,
                                Root, Leaf
  <2>2. IsPrefixRoot(u[2], confirmed.tree)
    BY <1>1 DEF isSound
  <2>3. CASE confirmed' = confirmed
    BY <1>1, <2>3 DEF isSound
  <2>4. CASE confirmed'.tree = tree
    <3>1. IsPrefixRoot(u[2], tree)
      BY <2>1, <2>2, <2>4, PrefixOfPrefix DEF ChainInv
    <3>. QED  BY <1>1, <2>4, <3>1 DEF isSound
  <2>. QED  BY <2>3, <2>4 DEF mayConfirm
<1>2. SignedAreSound'
  BY <1>1 DEF AgentInv, SignedAreSound
<1>3. ASSUME producer' = producer PROVE AboutToStore'
  BY <1>1, <1>3 DEF AgentInv, AboutToStore, hasProduced
<1>4. ASSUME DOMAIN producer' = {"at", "root", "suggested"} /\ producer'.at # "store"
      PROVE  AboutToStore'
  BY <1>4 DEF AboutToStore
<1>5. NeverDoubleSigns'
  <2>1. NeverDoubleSigns /\ produced' = produced
    BY DEF AgentInv
  <2>. QED  BY ONLY <2>1 DEF NeverDoubleSigns
<1>. QED  BY <1>2, <1>3, <1>4, <1>5 DEF noSuggestion, AgentInv

(* The producer goes on with a suggestion only if its root is new. *)
LEMMA SuggestKeepsAgent ==
  ASSUME ChainInv, AgentInv, Suggest
  PROVE  AgentInv'
<1>1. produced' = produced /\ confirmed' = confirmed
  BY DEF Suggest, producerOnly
<1>2. SignedAreSound' /\ NeverDoubleSigns'
  BY <1>1 DEF AgentInv, SignedAreSound, NeverDoubleSigns, isSound
<1>3. ASSUME producer' = Asleep
      PROVE  AboutToStore'
  BY <1>3 DEF AboutToStore, Asleep
<1>4. ASSUME \E s \in produce_update :
               mayProduce(s) /\ producer' = [producer EXCEPT !.at = "store", !.suggested = s]
      PROVE  AboutToStore'
  <2>1. PICK s \in produce_update :
          mayProduce(s) /\ producer' = [producer EXCEPT !.at = "store", !.suggested = s]
    BY <1>4
  <2>2. producer'.suggested = s /\ DOMAIN producer' = {"at", "root", "suggested"}
    BY <2>1 DEF AgentInv, AboutToStore
  <2>3. isSound(s) /\ ~hasProduced(s[1])
    BY <2>1, SuggestionIsSound DEF mayProduce
  <2>. QED  BY <1>1, <2>2, <2>3 DEF AboutToStore, isSound, hasProduced
<1>5. AboutToStore'
  BY <1>3, <1>4 DEF Suggest
<1>. QED  BY <1>2, <1>5 DEF AgentInv

(* So what it stores contradicts nothing it has signed. *)
LEMMA StoreKeepsAgent ==
  ASSUME AgentInv, Store
  PROVE  AgentInv'
<1>1. /\ isSound(producer.suggested) /\ ~hasProduced(producer.suggested[1])
      /\ produced' = produced \cup {producer.suggested}
      /\ producer' = Asleep /\ confirmed' = confirmed
  BY DEF AgentInv, AboutToStore, Store, producerOnly
<1>2. SignedAreSound'
  BY <1>1 DEF AgentInv, SignedAreSound, isSound
<1>3. NeverDoubleSigns'
  BY <1>1 DEF AgentInv, NeverDoubleSigns, hasProduced
<1>4. AboutToStore'
  BY <1>1 DEF AboutToStore, Asleep
<1>. QED  BY <1>2, <1>3, <1>4 DEF AgentInv

(***************************************************************************)
(* The theorems                                                            *)
(***************************************************************************)

(* The initial states: an empty Home, confirmed, and an agent that has signed nothing. *)
LEMMA InitUpdaterInv == UpdaterInit => UpdaterInv
<1> SUFFICES ASSUME UpdaterInit PROVE UpdaterInv
  OBVIOUS
<1>1. HP!IndInv
  BY LeavesAssumption, NonceModulusAssumption
     DEF UpdaterInit, H!InitRoots, H!Zero, H!initialize, H!Slots, HP!IndInv, HP!TypeOK, HP!Root,
         HP!Slots, HP!HomeAddresses, HP!QueueHoldsPendingRoots, HP!CommittedIsPrefix,
         HP!IsPrefixRoot, HP!RootAt, HP!NoncesAhead, HP!DistinctNonces, HP!Zero
<1>2. /\ confirmed.committedRoot = committedRoot /\ confirmed.nonces = nonces
      /\ confirmed.tree = tree /\ confirmed.queue = queue
  BY DEF UpdaterInit, Head1
<1>3. CP!IndInv
  BY <1>1, <1>2
     DEF HP!IndInv, HP!TypeOK, HP!Root, HP!Leaf, HP!Slots, HP!HomeAddresses,
         HP!QueueHoldsPendingRoots, HP!CommittedIsPrefix, HP!IsPrefixRoot, HP!RootAt,
         HP!NoncesAhead, HP!DistinctNonces, HP!Zero,
         CP!IndInv, CP!TypeOK, CP!Root, CP!Leaf, CP!Slots, CP!HomeAddresses,
         CP!QueueHoldsPendingRoots, CP!CommittedIsPrefix, CP!IsPrefixRoot, CP!RootAt,
         CP!NoncesAhead, CP!DistinctNonces, CP!Zero
<1>4. ChainInv
  BY <1>1, <1>2, <1>3, HeadRoots, OwnPrefix DEF ChainInv
<1>5. AgentInv
  BY DEF UpdaterInit, AgentInv, SignedAreSound, AboutToStore, NeverDoubleSigns, Asleep
<1>6. NeverFailsHome
  BY DEF UpdaterInit, H!InitRoots, NeverFailsHome
<1>. QED  BY <1>4, <1>5, <1>6 DEF UpdaterInv

(* Each step keeps the chain sound, the agent sound, and Home going. *)
LEMMA NextUpdaterInv == UpdaterInv /\ [UpdaterNext]_updaterVars => UpdaterInv'
<1> SUFFICES ASSUME UpdaterInv, [UpdaterNext]_updaterVars PROVE ChainInv' /\ AgentInv' /\ state' = state
  BY DEF UpdaterInv, NeverFailsHome
<1>a. ChainInv /\ AgentInv /\ SignedAreSound
  BY DEF UpdaterInv, AgentInv
<1>1. CASE Dispatch
  <2>1. ChainInv' /\ UNCHANGED <<state, confirmed, produced, producer>>
    BY <1>1, <1>a, DispatchKeepsChain DEF Dispatch, agentVars
  <2>4. AgentInv'
    BY <1>a, <2>1, AgentStands DEF mayConfirm, noSuggestion
  <2>. QED  BY <2>1, <2>4
<1>2. CASE Confirm
  <2>1. /\ ChainInv' /\ confirmed'.tree = tree
        /\ UNCHANGED <<state, produced, producer>>
    BY <1>2, <1>a, ConfirmKeepsChain DEF Confirm, headVars, agentVars
  <2>4. AgentInv'
    BY <1>a, <2>1, AgentStands DEF mayConfirm, noSuggestion
  <2>. QED  BY <2>1, <2>4
<1>3. CASE Reorg
  <2>1. ChainInv' /\ UNCHANGED <<state, confirmed, produced, producer>>
    BY <1>3, <1>a, ReorgKeepsChain DEF Reorg, agentVars
  <2>4. AgentInv'
    BY <1>a, <2>1, AgentStands DEF mayConfirm, noSuggestion
  <2>. QED  BY <2>1, <2>4
<1>4. CASE Suggest
  <2>1. UNCHANGED <<headVars, confirmed>>
    BY <1>4 DEF Suggest, producerOnly
  <2>. QED  BY <1>4, <1>a, <2>1, ChainStands, SuggestKeepsAgent DEF headVars
<1>5. CASE Store
  <2>1. UNCHANGED <<headVars, confirmed>>
    BY <1>5 DEF Store, producerOnly
  <2>. QED  BY <1>5, <1>a, <2>1, ChainStands, StoreKeepsAgent DEF headVars
<1>6. CASE SubmitSucceeds
  <2>1. ChainInv' /\ UNCHANGED <<state, confirmed, produced>>
    BY <1>6, <1>a, SubmitKeepsChain DEF SubmitSucceeds
  <2>2. noSuggestion
    BY <1>6 DEF SubmitSucceeds, exit, continueFrom, Asleep, noSuggestion
  <2>4. AgentInv'
    BY <1>a, <2>1, <2>2, AgentStands DEF mayConfirm
  <2>. QED  BY <2>1, <2>4
<1>7. CASE Index \/ find_latest_root \/ Start \/ SubmitReverts \/ UpdaterCrash \/ UNCHANGED updaterVars
  <2>1. UNCHANGED <<headVars, confirmed, produced>>
    BY <1>7 DEF Index, find_latest_root, producerOnly, Start, SubmitReverts, UpdaterCrash, updaterVars
  <2>2. noSuggestion
    <3>1. CASE find_latest_root
      BY <1>a, <3>1 DEF find_latest_root, noSuggestion, AgentInv, AboutToStore
    <3>2. CASE Index \/ UNCHANGED updaterVars
      BY <3>2 DEF Index, updaterVars, noSuggestion
    <3>3. CASE Start \/ SubmitReverts \/ UpdaterCrash
      BY <3>3 DEF Start, SubmitReverts, UpdaterCrash, exit, continueFrom, Asleep, noSuggestion
    <3>. QED  BY <1>7, <3>1, <3>2, <3>3
  <2>3. ChainInv' /\ UNCHANGED state
    BY <1>a, <2>1, ChainStands DEF headVars
  <2>4. AgentInv'
    BY <1>a, <2>1, <2>2, <2>3, AgentStands DEF mayConfirm
  <2>. QED  BY <2>3, <2>4
<1>. QED  BY <1>1, <1>2, <1>3, <1>4, <1>5, <1>6, <1>7 DEF UpdaterNext

(* The invariant of the specification. *)
LEMMA SpecUpdaterInv == UpdaterSpec => []UpdaterInv
BY InitUpdaterInv, NextUpdaterInv, PTL DEF UpdaterSpec

(* The updater never gives out two updates from one root, whatever Home    *)
(* suggests after each dispatch and whatever a crash makes it forget.      *)
THEOREM UpdaterNeverDoubleSigns == UpdaterSpec => []NeverDoubleSigns
BY SpecUpdaterInv, PTL DEF UpdaterInv, AgentInv

(* No update it has signed fails its Home, submitted late, again, or on    *)
(* the other side of a reorganization.                                     *)
THEOREM UpdaterNeverFailsHome == UpdaterSpec => []NeverFailsHome
BY SpecUpdaterInv, PTL DEF UpdaterInv

(***************************************************************************)
(* The processor                                                           *)
(***************************************************************************)

USE HeightAssumption, TrafficAssumption

(***************************************************************************)
(* The invariant                                                           *)
(***************************************************************************)

Statuses == {"None", "Proven", "Processed"}
Places == {"message", "process", "advance"}

ChainTypes ==
  /\ traffic \in Traffic
  /\ height \in Nat
  /\ messageBlock \in Seq(Nat)
  /\ roots \in Seq(Nat) /\ updateBlock \in Seq(Nat) /\ Len(updateBlock) = Len(roots)
  /\ status \in Seq(Statuses) /\ Len(status) = Len(messageBlock)

(* A database has only events that there are. *)
holds(sync, events) ==
  /\ DOMAIN sync = {"stored", "half", "latest", "blockEnd"}
  /\ sync.stored \subseteq events /\ sync.half \subseteq events

StoredExist == holds(messagesDb, Leaves) /\ holds(updatesDb, 0..(Len(roots) - 1))

isRoot(n) == n = 0 \/ \E e \in U!known(updatesDb) : roots[e + 1] = n

(* What the tree has come from the database, so a restart builds the same  *)
(* tree again; and so has the update to its root, if only a half of it.    *)
TreeIsStored ==
  /\ prover \in Nat /\ prover = latestCommitted
  /\ isRoot(prover)
  /\ 0..(prover - 1) \subseteq knownLeaves

ProofsFit ==
  \A l \in DOMAIN proofs : \E j \in DOMAIN roots : roots[j] = proofs[l] /\ l < proofs[l]

hasNonce(l, n) == l \in Leaves /\ isHere(l) /\ nonceOf(l) = n

(* Before the next nonce everything is done; it is the nonce after that of *)
(* some message, and a stored nonce is an earlier one.                     *)
DoneBeforeNext ==
  /\ replicaTask \in [next : Nat, at : Places, seen : Statuses]
  /\ currentNonce # None => /\ currentNonce \in Nat /\ currentNonce < replicaTask.next
                            /\ \E l \in Leaves : hasNonce(l, currentNonce)
  /\ replicaTask.next > 0 => \E l \in Leaves : hasNonce(l, replicaTask.next - 1)
  /\ \A l \in Leaves : kind(l) = "here" /\ nonceOf(l) < replicaTask.next => processed(l)
  /\ replicaTask.at = "advance" =>
       \E l \in Leaves : hasNonce(l, replicaTask.next) /\ (kind(l) = "here" => processed(l))

IInv == ChainTypes /\ StoredExist /\ TreeIsStored /\ ProofsFit /\ DoneBeforeNext

(***************************************************************************)
(* Nonces                                                                  *)
(***************************************************************************)

hereBefore(leaf) == {l \in 0..(leaf - 1) : isHere(l)}

(* A nonce counts finitely many messages. *)
LEMMA NonceType ==
  ASSUME NEW l \in Nat
  PROVE  IsFiniteSet(hereBefore(l)) /\ nonceOf(l) = Cardinality(hereBefore(l)) /\ nonceOf(l) \in Nat
  <1>1. IsFiniteSet(0..(l - 1))
    BY FS_Interval
  <1>2. hereBefore(l) \subseteq 0..(l - 1)
    BY DEF hereBefore
  <1>3. IsFiniteSet(hereBefore(l))
    BY <1>1, <1>2, FS_Subset
  <1>4. nonceOf(l) = Cardinality(hereBefore(l))
    BY DEF nonceOf, hereBefore
  <1> QED
    BY <1>3, <1>4, FS_CardinalityType

(* A message has a smaller nonce than a later one for the same domain.     *)
LEMMA NonceGrows ==
  ASSUME NEW l \in Nat, NEW m \in Nat, l < m, isHere(l)
  PROVE  nonceOf(l) < nonceOf(m)
  <1>1. hereBefore(l) \cup {l} \subseteq hereBefore(m) /\ l \notin hereBefore(l)
    BY DEF hereBefore
  <1>2. Cardinality(hereBefore(l) \cup {l}) = Cardinality(hereBefore(l)) + 1
    BY <1>1, NonceType, FS_AddElement
  <1>3. Cardinality(hereBefore(l) \cup {l}) <= Cardinality(hereBefore(m))
    BY <1>1, NonceType, FS_Subset
  <1> QED
    BY <1>2, <1>3, NonceType

(* So a nonce is that of one message. *)
LEMMA NonceIsUnique ==
  ASSUME NEW l \in Nat, NEW m \in Nat, isHere(l), isHere(m), nonceOf(l) = nonceOf(m)
  PROVE  l = m
  <1>1. CASE l < m
    BY <1>1, NonceGrows, NonceType
  <1>2. CASE m < l
    BY <1>2, NonceGrows, NonceType
  <1> QED
    BY <1>1, <1>2

(* Nonces depend on the traffic alone. *)
LEMMA NoncesStay ==
  ASSUME UNCHANGED traffic
  PROVE  \A l : kind(l)' = kind(l) /\ isHere(l)' = isHere(l) /\ nonceOf(l)' = nonceOf(l)
  BY DEF kind, isHere, nonceOf

(***************************************************************************)
(* Databases                                                               *)
(***************************************************************************)

(* What a crash leaves between two writes: at most some of the events more *)
(* than before, in full or in part, and nothing less.                      *)
Cut(d, newDb, events) ==
  /\ DOMAIN newDb = DOMAIN d /\ newDb.blockEnd = d.blockEnd
  /\ d.stored \subseteq newDb.stored /\ newDb.stored \subseteq d.stored \cup events
  /\ newDb.half \subseteq d.half \cup events
  /\ d.stored \cup d.half \subseteq newDb.stored \cup newDb.half

(* Of the messages, whichever the write. *)
LEMMA MUnfinished ==
  ASSUME NEW events, DOMAIN messagesDb = {"stored", "half", "latest", "blockEnd"},
         NEW tip, messagesDb' \in M!unfinished(events, tip)
  PROVE  Cut(messagesDb, messagesDb', events)
  <1> DEFINE before(e) == M!store(messagesDb, {f \in events : f < e})
             after(e) == M!store(messagesDb, {f \in events : f <= e})
  <1>1. PICK e \in events :
          messagesDb' \in {M!latestOnly(e, events), M!halfStored(e, events), M!upTo(e, events)}
    BY DEF M!unfinished
  <1>2. ASSUME NEW some \in SUBSET events
        PROVE  /\ DOMAIN M!store(messagesDb, some) = DOMAIN messagesDb
               /\ M!store(messagesDb, some).stored = messagesDb.stored \cup some
               /\ messagesDb.half \ some \subseteq M!store(messagesDb, some).half
               /\ M!store(messagesDb, some).half \subseteq messagesDb.half
               /\ M!store(messagesDb, some).blockEnd = messagesDb.blockEnd
    BY DEF M!store
  <1>3. CASE messagesDb' = M!upTo(e, events)
    BY <1>2, <1>3 DEF M!upTo, Cut
  <1>4. CASE messagesDb' = M!latestOnly(e, events)
    <2>1. messagesDb' = [before(e) EXCEPT !.latest = after(e).latest]
      BY <1>4 DEF M!latestOnly, M!upTo
    <2> HIDE DEF after
    <2> QED
      BY <1>2, <2>1 DEF Cut
  <1>5. CASE messagesDb' = M!halfStored(e, events)
    <2> DEFINE most == [before(e) EXCEPT !.latest = after(e).latest]
    <2>1. messagesDb' = [most EXCEPT !.half = @ \cup ({e} \ messagesDb.stored)]
      BY <1>5 DEF M!halfStored, M!latestOnly, M!upTo
    <2> HIDE DEF after
    <2>2. /\ DOMAIN most = DOMAIN messagesDb /\ most.stored = before(e).stored
          /\ most.half = before(e).half /\ most.blockEnd = messagesDb.blockEnd
      BY <1>2
    <2> HIDE DEF most
    <2>3. /\ DOMAIN messagesDb' = DOMAIN messagesDb /\ messagesDb'.stored = before(e).stored
          /\ messagesDb'.half = before(e).half \cup ({e} \ messagesDb.stored)
          /\ messagesDb'.blockEnd = messagesDb.blockEnd
      BY <2>1, <2>2
    <2> QED
      BY <1>1, <1>2, <2>3 DEF Cut
  <1> QED
    BY <1>1, <1>3, <1>4, <1>5

(* Whatever a poll stores are messages that there are, and none is lost. *)
LEMMA MPolls ==
  ASSUME NEW blockOf, holds(messagesDb, 0..(Len(blockOf) - 1)), NEW tip, NEW omitted,
         M!Poll(tip, blockOf, omitted)
  PROVE  holds(messagesDb', 0..(Len(blockOf) - 1)) /\ M!known(messagesDb) \subseteq M!known(messagesDb')
  <1> DEFINE events == M!fetch_sorted(blockOf, tip, omitted)
  <1>1. events \subseteq 0..(Len(blockOf) - 1)
    BY DEF M!fetch_sorted
  <1>2. \/ UNCHANGED messagesDb
        \/ messagesDb' = M!store_latest_block_end(M!store(messagesDb, events), tip, events)
    BY DEF M!Poll
  <1>3. CASE UNCHANGED messagesDb
    BY <1>3 DEF holds, M!known
  <1>4. CASE messagesDb' = M!store_latest_block_end(M!store(messagesDb, events), tip, events)
    <2>1. /\ DOMAIN M!store(messagesDb, events) = DOMAIN messagesDb
          /\ M!store(messagesDb, events).stored = messagesDb.stored \cup events
          /\ messagesDb.half \ events \subseteq M!store(messagesDb, events).half
          /\ M!store(messagesDb, events).half \subseteq messagesDb.half
      BY DEF holds, M!store
    <2>2. /\ DOMAIN messagesDb' = DOMAIN messagesDb /\ messagesDb'.stored = messagesDb.stored \cup events
          /\ messagesDb.half \ events \subseteq messagesDb'.half /\ messagesDb'.half \subseteq messagesDb.half
      BY <1>4, <2>1 DEF holds, M!store_latest_block_end
    <2> QED
      BY <1>1, <2>2 DEF holds, M!known
  <1> QED
    BY <1>2, <1>3, <1>4

(* A crash within the message sync loses no known leaf. *)
LEMMA MCrashes ==
  ASSUME NEW blockOf, holds(messagesDb, 0..(Len(blockOf) - 1)), NEW tip, M!Crash(tip, blockOf)
  PROVE  holds(messagesDb', 0..(Len(blockOf) - 1)) /\ M!known(messagesDb) \subseteq M!known(messagesDb')
  <1> DEFINE events == M!fetch_sorted(blockOf, tip, {})
  <1>1. events \subseteq 0..(Len(blockOf) - 1)
    BY DEF M!fetch_sorted
  <1>2. messagesDb' \in M!unfinished(events, tip)
    BY DEF M!Crash
  <1>3. Cut(messagesDb, messagesDb', events)
    BY <1>2, MUnfinished DEF holds
  <1> QED
    BY <1>1, <1>3 DEF holds, M!known, Cut

(* Of the updates, whichever the write. *)
LEMMA UUnfinished ==
  ASSUME NEW events, DOMAIN updatesDb = {"stored", "half", "latest", "blockEnd"},
         NEW tip, updatesDb' \in U!unfinished(events, tip)
  PROVE  Cut(updatesDb, updatesDb', events)
  <1> DEFINE before(e) == U!store(updatesDb, {f \in events : f < e})
             after(e) == U!store(updatesDb, {f \in events : f <= e})
  <1>1. PICK e \in events :
          updatesDb' \in {U!latestOnly(e, events), U!halfStored(e, events), U!upTo(e, events)}
    BY DEF U!unfinished
  <1>2. ASSUME NEW some \in SUBSET events
        PROVE  /\ DOMAIN U!store(updatesDb, some) = DOMAIN updatesDb
               /\ U!store(updatesDb, some).stored = updatesDb.stored \cup some
               /\ updatesDb.half \ some \subseteq U!store(updatesDb, some).half
               /\ U!store(updatesDb, some).half \subseteq updatesDb.half
               /\ U!store(updatesDb, some).blockEnd = updatesDb.blockEnd
    BY DEF U!store
  <1>3. CASE updatesDb' = U!upTo(e, events)
    BY <1>2, <1>3 DEF U!upTo, Cut
  <1>4. CASE updatesDb' = U!latestOnly(e, events)
    <2>1. updatesDb' = [before(e) EXCEPT !.latest = after(e).latest]
      BY <1>4 DEF U!latestOnly, U!upTo
    <2> HIDE DEF after
    <2> QED
      BY <1>2, <2>1 DEF Cut
  <1>5. CASE updatesDb' = U!halfStored(e, events)
    <2> DEFINE most == [before(e) EXCEPT !.latest = after(e).latest]
    <2>1. updatesDb' = [most EXCEPT !.half = @ \cup ({e} \ updatesDb.stored)]
      BY <1>5 DEF U!halfStored, U!latestOnly, U!upTo
    <2> HIDE DEF after
    <2>2. /\ DOMAIN most = DOMAIN updatesDb /\ most.stored = before(e).stored
          /\ most.half = before(e).half /\ most.blockEnd = updatesDb.blockEnd
      BY <1>2
    <2> HIDE DEF most
    <2>3. /\ DOMAIN updatesDb' = DOMAIN updatesDb /\ updatesDb'.stored = before(e).stored
          /\ updatesDb'.half = before(e).half \cup ({e} \ updatesDb.stored)
          /\ updatesDb'.blockEnd = updatesDb.blockEnd
      BY <2>1, <2>2
    <2> QED
      BY <1>1, <1>2, <2>3 DEF Cut
  <1> QED
    BY <1>1, <1>3, <1>4, <1>5

(* The same of the sync of updates: what it stores is from the chain. *)
LEMMA UPolls ==
  ASSUME NEW blockOf, holds(updatesDb, 0..(Len(blockOf) - 1)), NEW tip, NEW omitted,
         U!Poll(tip, blockOf, omitted)
  PROVE  holds(updatesDb', 0..(Len(blockOf) - 1)) /\ U!known(updatesDb) \subseteq U!known(updatesDb')
  <1> DEFINE events == U!fetch_sorted(blockOf, tip, omitted)
  <1>1. events \subseteq 0..(Len(blockOf) - 1)
    BY DEF U!fetch_sorted
  <1>2. \/ UNCHANGED updatesDb
        \/ updatesDb' = U!store_latest_block_end(U!store(updatesDb, events), tip, events)
    BY DEF U!Poll
  <1>3. CASE UNCHANGED updatesDb
    BY <1>3 DEF holds, U!known
  <1>4. CASE updatesDb' = U!store_latest_block_end(U!store(updatesDb, events), tip, events)
    <2>1. /\ DOMAIN U!store(updatesDb, events) = DOMAIN updatesDb
          /\ U!store(updatesDb, events).stored = updatesDb.stored \cup events
          /\ updatesDb.half \ events \subseteq U!store(updatesDb, events).half
          /\ U!store(updatesDb, events).half \subseteq updatesDb.half
      BY DEF holds, U!store
    <2>2. /\ DOMAIN updatesDb' = DOMAIN updatesDb /\ updatesDb'.stored = updatesDb.stored \cup events
          /\ updatesDb.half \ events \subseteq updatesDb'.half /\ updatesDb'.half \subseteq updatesDb.half
      BY <1>4, <2>1 DEF holds, U!store_latest_block_end
    <2> QED
      BY <1>1, <2>2 DEF holds, U!known
  <1> QED
    BY <1>2, <1>3, <1>4

(* A crash within the sync of updates keeps what is known. *)
LEMMA UCrashes ==
  ASSUME NEW blockOf, holds(updatesDb, 0..(Len(blockOf) - 1)), NEW tip, U!Crash(tip, blockOf)
  PROVE  holds(updatesDb', 0..(Len(blockOf) - 1)) /\ U!known(updatesDb) \subseteq U!known(updatesDb')
  <1> DEFINE events == U!fetch_sorted(blockOf, tip, {})
  <1>1. events \subseteq 0..(Len(blockOf) - 1)
    BY DEF U!fetch_sorted
  <1>2. updatesDb' \in U!unfinished(events, tip)
    BY DEF U!Crash
  <1>3. Cut(updatesDb, updatesDb', events)
    BY <1>2, UUnfinished DEF holds
  <1> QED
    BY <1>1, <1>3 DEF holds, U!known, Cut

(***************************************************************************)
(* The tree                                                                *)
(***************************************************************************)

(* from_disk reads as many leaves as latestCommitted says: all are stored. *)
LEMMA ReloadedIsTree ==
  ASSUME TreeIsStored
  PROVE  reloaded(knownLeaves) = prover
  <1> DEFINE complete(n) == /\ 0..(n - 1) \subseteq knownLeaves
                            /\ n = latestCommitted \/ n \notin knownLeaves
  <1>1. latestCommitted \in 0..latestCommitted /\ complete(latestCommitted)
    BY DEF TreeIsStored
  <1>2. ASSUME NEW n \in 0..latestCommitted, complete(n)
        PROVE  n = latestCommitted
    <2> SUFFICES ASSUME n # latestCommitted PROVE FALSE
      OBVIOUS
    <2>1. n \in 0..(latestCommitted - 1)
      BY DEF TreeIsStored
    <2> QED
      BY <1>2, <2>1 DEF TreeIsStored
  <1> HIDE DEF complete
  <1>3. (CHOOSE n \in 0..latestCommitted : complete(n)) = latestCommitted
    BY <1>1, <1>2
  <1> QED
    BY <1>3 DEF reloaded, TreeIsStored, complete

(* Proofs under a root that there is are added to those there are.         *)
LEMMA StoredProofsFit ==
  ASSUME ProofsFit, NEW leaves, NEW size, \A l \in leaves : l < size,
         leaves # {} => \E j \in DOMAIN roots : roots[j] = size,
         proofs' = storeProofs(proofs, leaves, size), UNCHANGED roots
  PROVE  ProofsFit'
  <1> SUFFICES ASSUME NEW l \in DOMAIN proofs'
               PROVE  \E j \in DOMAIN roots : roots[j] = proofs'[l] /\ l < proofs'[l]
    BY DEF ProofsFit
  <1>1. proofs'[l] = IF l \in DOMAIN proofs THEN proofs[l] ELSE size
    BY DEF storeProofs
  <1>2. l \in DOMAIN proofs \/ l \in leaves
    BY DEF storeProofs
  <1> QED
    BY <1>1, <1>2 DEF ProofsFit

Grow == knownLeaves \subseteq knownLeaves' /\ U!known(updatesDb) \subseteq U!known(updatesDb')

(* Most steps leave both databases alone. *)
LEMMA DbsStay ==
  ASSUME UNCHANGED <<messagesDb, updatesDb>>
  PROVE  Grow
  BY DEF Grow, knownLeaves, M!known, U!known

(* Roots, known leaves and known updates only become more.                 *)
LEMMA TreeKept ==
  ASSUME StoredExist, roots \in Seq(Nat), TreeIsStored, ProofsFit, Grow,
         \A j \in DOMAIN roots : j \in DOMAIN roots' /\ roots'[j] = roots[j],
         UNCHANGED <<prover, latestCommitted, proofs>>
  PROVE  TreeIsStored' /\ ProofsFit'
  <1>1. \A e \in U!known(updatesDb) : e + 1 \in DOMAIN roots
    BY DEF StoredExist, holds, U!known
  <1>2. isRoot(prover)'
    BY <1>1 DEF TreeIsStored, isRoot, Grow
  <1> QED
    BY <1>2 DEF TreeIsStored, ProofsFit, Grow

(***************************************************************************)
(* The task of the Replica                                                 *)
(***************************************************************************)

(* No message comes between those there are, and none is un-processed.     *)
LEMMA DoneKept ==
  ASSUME DoneBeforeNext, UNCHANGED <<traffic, messageBlock, replicaTask, currentNonce>>,
         \A l \in Leaves : processed(l) => processed(l)'
  PROVE  DoneBeforeNext'
  <1>1. Leaves' = Leaves
    BY DEF Leaves
  <1>2. \A l, n : hasNonce(l, n)' = hasNonce(l, n)
    BY <1>1, NoncesStay DEF hasNonce
  <1> QED
    BY <1>1, <1>2, NoncesStay DEF DoneBeforeNext

(* A restart takes the task back at most to the nonce after the stored one. *)
LEMMA RestartKeeps ==
  ASSUME ChainTypes, TreeIsStored, DoneBeforeNext, StartTasks
  PROVE  DoneBeforeNext' /\ prover' = prover
  <1>1. UNCHANGED <<traffic, messageBlock, status, currentNonce>>
    BY DEF StartTasks, homeVars, replicaVars
  <1>2. Leaves' = Leaves /\ \A l : processed(l)' = processed(l)
    BY <1>1 DEF Leaves, processed
  <1>3. \A l, n : hasNonce(l, n)' = hasNonce(l, n)
    BY <1>1, <1>2, NoncesStay DEF hasNonce
  <1>4. \A l \in Leaves : nonceOf(l) \in Nat
    BY NonceType DEF Leaves
  <1> DEFINE n == IF currentNonce = None THEN 0 ELSE currentNonce + 1
  <1>5. replicaTask' = [next |-> n, at |-> "message", seen |-> "None"]
        /\ replicaTask'.next = IF currentNonce = None THEN 0 ELSE currentNonce + 1
    BY DEF StartTasks
  <1>6. n \in Nat /\ replicaTask'.next <= replicaTask.next
    BY <1>5 DEF DoneBeforeNext
  <1>7. replicaTask' \in [next : Nat, at : Places, seen : Statuses]
    BY <1>5, <1>6 DEF Places, Statuses
  <1>8. replicaTask'.next > 0 => \E l \in Leaves : hasNonce(l, replicaTask'.next - 1)
    BY <1>5 DEF DoneBeforeNext
  <1>9. ASSUME NEW l \in Leaves, kind(l) = "here", nonceOf(l) < replicaTask'.next
        PROVE  processed(l)
    <2>1. replicaTask'.next \in Nat /\ replicaTask.next \in Nat /\ nonceOf(l) \in Nat
      BY <1>4, <1>5, <1>6 DEF DoneBeforeNext
    <2>2. nonceOf(l) < replicaTask.next
      BY <1>6, <1>9, <2>1
    <2> QED
      BY <1>9, <2>2 DEF DoneBeforeNext
  <1>10. currentNonce # None => /\ currentNonce \in Nat /\ currentNonce < replicaTask'.next
                                /\ \E l \in Leaves : hasNonce(l, currentNonce)
    BY <1>5 DEF DoneBeforeNext
  <1>11. replicaTask'.at # "advance"
    BY <1>5
  <1>12. prover' = prover
    BY ReloadedIsTree DEF StartTasks
  <1> QED
    BY <1>1, <1>2, <1>3, <1>7, <1>8, <1>9, <1>10, <1>11, <1>12, NoncesStay DEF DoneBeforeNext
(***************************************************************************)
(* The steps                                                               *)
(***************************************************************************)

(* A block adds messages behind those there are, whose nonces are higher.  *)
LEMMA MineStep == IInv /\ Mine => IInv'
  <1> SUFFICES ASSUME IInv, Mine PROVE IInv'
    OBVIOUS
  <1>1. /\ traffic' = traffic /\ height' = height + 1
        /\ UNCHANGED <<messagesDb, updatesDb, proofs, latestCommitted, prover, currentNonce,
                       replicaTask>>
    BY DEF Mine, messagesVars, updatesVars, proverVars, taskVars
  <1>2. PICK more \in 0..(Len(traffic) - Len(messageBlock)) :
          /\ messageBlock' = messageBlock \o [i \in 1..more |-> height']
          /\ status' = status \o [i \in 1..more |-> "None"]
    BY DEF Mine
  <1>3. more \in Nat /\ height' \in Nat
    BY <1>1, <1>2 DEF IInv, ChainTypes
  <1>4. /\ messageBlock' \in Seq(Nat) /\ Len(messageBlock') = Len(messageBlock) + more
        /\ status' \in Seq(Statuses)
        /\ Len(status') = Len(status) + more
        /\ \A i \in DOMAIN status : status'[i] = status[i]
    <2>1. [i \in 1..more |-> height'] \in Seq(Nat) /\ Len([i \in 1..more |-> height']) = more
      BY <1>3
    <2>2. [i \in 1..more |-> "None"] \in Seq(Statuses) /\ Len([i \in 1..more |-> "None"]) = more
      BY <1>3 DEF Statuses
    <2>3. messageBlock \in Seq(Nat) /\ status \in Seq(Statuses)
      BY DEF IInv, ChainTypes
    <2>4. messageBlock' \in Seq(Nat) /\ Len(messageBlock') = Len(messageBlock) + more
      BY <1>2, <2>1, <2>3
    <2> QED
      BY <1>2, <2>2, <2>3, <2>4
  <1>5. /\ roots' \in Seq(Nat) /\ updateBlock' \in Seq(Nat) /\ Len(updateBlock') = Len(roots')
        /\ Len(roots) <= Len(roots')
        /\ \A j \in DOMAIN roots : j \in DOMAIN roots' /\ roots'[j] = roots[j]
    <2>1. CASE UNCHANGED <<updateBlock, roots>>
      BY <2>1 DEF IInv, ChainTypes
    <2>2. CASE \E size \in {Len(messageBlock), Len(messageBlock')} :
                 roots' = Append(roots, size) /\ updateBlock' = Append(updateBlock, height')
      <3>1. PICK size \in Nat :
              roots' = Append(roots, size) /\ updateBlock' = Append(updateBlock, height')
        BY <1>4, <2>2 DEF IInv, ChainTypes
      <3> QED
        BY <1>3, <3>1 DEF IInv, ChainTypes
    <2> QED
      BY <2>1, <2>2 DEF Mine
  <1>6. ChainTypes'
    BY <1>1, <1>3, <1>4, <1>5 DEF IInv, ChainTypes
  <1>7. Leaves \subseteq Leaves' /\ \A m \in Leaves' \ Leaves, l \in Leaves : l < m
    <2>1. /\ Len(messageBlock) \in Nat /\ Len(messageBlock') \in Nat
          /\ Len(messageBlock) <= Len(messageBlock')
      BY <1>4 DEF IInv, ChainTypes
    <2> QED
      BY <2>1 DEF Leaves
  <1>8. StoredExist'
    BY <1>1, <1>5, <1>7 DEF IInv, ChainTypes, StoredExist, holds
  <1>9. TreeIsStored' /\ ProofsFit'
    BY <1>1, <1>5, TreeKept, DbsStay DEF IInv, ChainTypes
  <1>10. DoneBeforeNext'
    <2>1. \A l : kind(l)' = kind(l) /\ isHere(l)' = isHere(l) /\ nonceOf(l)' = nonceOf(l)
      BY <1>1, NoncesStay
    <2>2. \A l, n : hasNonce(l, n) => hasNonce(l, n)'
      BY <1>7, <2>1 DEF hasNonce
    <2>3. ASSUME NEW l \in Leaves, processed(l)
          PROVE  processed(l)'
      <3>1. l + 1 \in DOMAIN status
        BY DEF Leaves, IInv, ChainTypes
      <3> QED
        BY <1>4, <1>7, <2>3, <3>1 DEF processed
    <2>4. ASSUME NEW m \in Leaves' \ Leaves
          PROVE  ~(nonceOf(m) < replicaTask.next)
      <3>1. m \in Nat
        BY <1>6 DEF Leaves, ChainTypes
      <3>. nonceOf(m) \in Nat
        BY <3>1, NonceType
      <3>2. CASE replicaTask.next = 0
        BY <3>1, <3>2
      <3>3. CASE replicaTask.next > 0
        <4>1. PICK l \in Leaves : hasNonce(l, replicaTask.next - 1)
          BY <3>3 DEF IInv, DoneBeforeNext
        <4>2. l \in Nat /\ isHere(l) /\ nonceOf(l) = replicaTask.next - 1 /\ l < m
          BY <1>7, <4>1 DEF hasNonce, Leaves
        <4> QED
          BY <3>1, <4>2, NonceGrows DEF IInv, DoneBeforeNext
      <3> QED
        BY <3>2, <3>3 DEF IInv, DoneBeforeNext
    <2>5. \A l \in Leaves' : kind(l)' = "here" /\ nonceOf(l)' < replicaTask.next => processed(l)'
      BY <2>1, <2>3, <2>4 DEF IInv, DoneBeforeNext
    <2> QED
      BY <1>1, <1>7, <2>1, <2>2, <2>3, <2>5 DEF IInv, DoneBeforeNext
  <1> QED
    BY <1>6, <1>8, <1>9, <1>10 DEF IInv
(* Transactions of the relayer and of others, polls and crashes of the     *)
(* syncs: databases grow, and a processed message stays processed.         *)
LEMMA QuietKeeps ==
  ASSUME IInv, UNCHANGED <<homeVars, updatesDb, messagesDb>>,
         UNCHANGED <<proverVars, taskVars>>,
         ChainTypes', \A l \in Leaves : processed(l) => processed(l)'
  PROVE  IInv'
  <1>1. UNCHANGED <<traffic, messageBlock, roots, prover, latestCommitted, proofs, replicaTask,
                    currentNonce>>
    BY DEF homeVars, proverVars, taskVars
  <1>2. StoredExist'
    BY <1>1 DEF IInv, StoredExist, holds, Leaves
  <1>3. TreeIsStored' /\ ProofsFit'
    BY <1>1, TreeKept, DbsStay DEF IInv, ChainTypes
  <1>4. DoneBeforeNext'
    BY <1>1, DoneKept DEF IInv
  <1> QED
    BY <1>2, <1>3, <1>4 DEF IInv

(* The relayer moves the Replica only: databases and tree stand. *)
LEMMA AcceptStep == IInv /\ Accept => IInv'
  <1> SUFFICES ASSUME IInv, Accept PROVE IInv'
    OBVIOUS
  <1>1. UNCHANGED <<homeVars, status, messagesDb, updatesDb, proverVars, taskVars>>
    BY DEF Accept, messagesVars, updatesVars
  <1>2. ChainTypes'
    BY <1>1 DEF IInv, ChainTypes, homeVars
  <1>3. \A l \in Leaves : processed(l) => processed(l)'
    BY <1>1 DEF processed, Leaves, homeVars
  <1> QED
    BY <1>1, <1>2, <1>3, QuietKeeps

(* A transaction sets the status of one message.                           *)
LEMMA StatusSet ==
  ASSUME status \in Seq(Statuses), Len(status) = Len(messageBlock),
         NEW l \in Leaves, NEW s \in Statuses
  PROVE  LET after == [status EXCEPT ![l + 1] = s]
         IN after \in Seq(Statuses) /\ Len(after) = Len(status)
  <1>1. l + 1 \in 1..Len(status)
    BY DEF Leaves
  <1> QED
    BY <1>1, ExceptSeq

(* A stranger who processes a message makes one more done. *)
LEMMA OthersProcessStep ==
  ASSUME IInv, NEW leaf \in Leaves, OthersProcess(leaf)
  PROVE  IInv'
  <1>1. UNCHANGED <<homeVars, messagesDb, updatesDb, proverVars, taskVars>>
    BY DEF OthersProcess, messagesVars, updatesVars
  <1>2. PICK s \in Statuses :
          /\ status' = [status EXCEPT ![leaf + 1] = s]
          /\ status[leaf + 1] = "Processed" => s = "Processed"
    BY DEF OthersProcess, Statuses
  <1>3. ChainTypes'
    <2>1. status \in Seq(Statuses)
      BY DEF IInv, ChainTypes
    <2>2. status' \in Seq(Statuses) /\ Len(status') = Len(status)
      BY <1>2, <2>1, StatusSet DEF IInv, ChainTypes
    <2> QED
      BY <1>1, <2>2 DEF IInv, ChainTypes, homeVars
  <1>4. ASSUME NEW l \in Leaves, processed(l) PROVE processed(l)'
    <2>1. l + 1 \in DOMAIN status
      BY DEF Leaves, IInv, ChainTypes
    <2> QED
      BY <1>1, <1>2, <1>4, <2>1 DEF processed, Leaves, homeVars
  <1> QED
    BY <1>1, <1>3, <1>4, QuietKeeps

(* A database that only grew, whatever else the sync did.                  *)
LEMMA SyncKeeps ==
  ASSUME IInv, StoredExist', Grow,
         UNCHANGED <<homeVars, status, proverVars, taskVars>>
  PROVE  IInv'
  <1>1. UNCHANGED <<traffic, height, messageBlock, updateBlock, roots, status, prover,
                    latestCommitted, proofs, replicaTask, currentNonce>>
    BY DEF homeVars, proverVars, taskVars
  <1>2. ChainTypes'
    BY <1>1 DEF IInv, ChainTypes
  <1>3. TreeIsStored' /\ ProofsFit'
    BY <1>1, TreeKept DEF IInv, ChainTypes
  <1>4. \A l \in Leaves : processed(l) => processed(l)'
    BY <1>1 DEF processed, Leaves
  <1>5. DoneBeforeNext'
    BY <1>1, <1>4, DoneKept DEF IInv
  <1> QED
    BY <1>2, <1>3, <1>5 DEF IInv

(* The message sync only adds to the database. *)
LEMMA SyncMessagesStep == IInv /\ SyncMessages => IInv'
  <1> SUFFICES ASSUME IInv, SyncMessages PROVE IInv'
    OBVIOUS
  <1>1. UNCHANGED <<homeVars, status, updatesDb, proverVars, taskVars>>
    BY DEF SyncMessages, replicaVars, updatesVars
  <1>2. PICK omitted : M!Poll(height, messageBlock, omitted)
    BY DEF SyncMessages
  <1>3. holds(messagesDb', Leaves) /\ M!known(messagesDb) \subseteq M!known(messagesDb')
    BY <1>2, MPolls DEF IInv, StoredExist, Leaves
  <1>4. StoredExist'
    BY <1>1, <1>3 DEF IInv, StoredExist, holds, Leaves, homeVars
  <1>5. Grow
    BY <1>1, <1>3 DEF Grow, knownLeaves, U!known
  <1> QED
    BY <1>1, <1>4, <1>5, SyncKeeps

(* The update sync only adds to the database. *)
LEMMA SyncUpdatesStep == IInv /\ SyncUpdates => IInv'
  <1> SUFFICES ASSUME IInv, SyncUpdates PROVE IInv'
    OBVIOUS
  <1>1. UNCHANGED <<homeVars, status, messagesDb, proverVars, taskVars>>
    BY DEF SyncUpdates, replicaVars, messagesVars
  <1>2. PICK omitted : U!Poll(height, updateBlock, omitted)
    BY DEF SyncUpdates
  <1>3. Len(updateBlock) = Len(roots)
    BY DEF IInv, ChainTypes
  <1>4. holds(updatesDb, 0..(Len(updateBlock) - 1))
    BY <1>3 DEF IInv, StoredExist
  <1>5. holds(updatesDb', 0..(Len(roots) - 1)) /\ U!known(updatesDb) \subseteq U!known(updatesDb')
    BY <1>2, <1>3, <1>4, UPolls
  <1>6. StoredExist'
    BY <1>1, <1>5 DEF IInv, StoredExist, holds, Leaves, homeVars
  <1>7. Grow
    BY <1>1, <1>5 DEF Grow, knownLeaves, M!known
  <1> QED
    BY <1>1, <1>6, <1>7, SyncKeeps
(* The tree grows by the leaves of the next update, all of them known.     *)
LEMMA UpdateOfTree ==
  ASSUME IInv, NEW j \in updatesOn(prover)
  PROVE  j \in DOMAIN roots /\ roots[j] \in Nat /\ isRoot(roots[j])
  <1>1. U!known(updatesDb) \subseteq 0..(Len(roots) - 1) /\ roots \in Seq(Nat)
    BY DEF IInv, StoredExist, holds, ChainTypes, U!known
  <1>2. PICK e \in U!known(updatesDb) : j = e + 1
    BY DEF updatesOn, knownUpdates
  <1> QED
    BY <1>1, <1>2 DEF isRoot

(* The prover sync brings the tree to the next stored root. *)
LEMMA ProverSyncStep == IInv /\ ProverSync => IInv'
  <1> SUFFICES ASSUME IInv, ProverSync PROVE IInv'
    OBVIOUS
  <1>1. PICK j \in updatesOn(prover) :
          /\ newLeaves(j) \subseteq knownLeaves
          /\ prover' = roots[j] /\ latestCommitted' = roots[j]
          /\ proofs' = storeProofs(proofs, newLeaves(j), roots[j])
    BY DEF ProverSync
  <1>2. UNCHANGED <<traffic, height, messageBlock, updateBlock, roots, status, messagesDb,
                    updatesDb, replicaTask, currentNonce>>
    BY DEF ProverSync, homeVars, replicaVars, messagesVars, updatesVars, taskVars
  <1>3. j \in DOMAIN roots /\ roots[j] \in Nat /\ isRoot(roots[j])
    BY UpdateOfTree
  <1>4. ChainTypes' /\ StoredExist'
    BY <1>2 DEF IInv, ChainTypes, StoredExist, holds, Leaves
  <1>5. TreeIsStored'
    <2>1. prover \in Nat /\ 0..(prover - 1) \subseteq knownLeaves
      BY DEF IInv, TreeIsStored
    <2>2. 0..(roots[j] - 1) \subseteq 0..(prover - 1) \cup newLeaves(j)
      BY <1>3, <2>1 DEF newLeaves
    <2>3. knownLeaves' = knownLeaves /\ U!known(updatesDb') = U!known(updatesDb)
      BY <1>2 DEF knownLeaves, M!known, U!known
    <2>4. isRoot(prover)'
      BY <1>1, <1>2, <1>3, <2>3 DEF isRoot
    <2> QED
      BY <1>1, <1>3, <2>1, <2>2, <2>3, <2>4 DEF TreeIsStored
  <1>6. ProofsFit'
    <2>1. \A l \in newLeaves(j) : l < roots[j]
      BY <1>3 DEF newLeaves, IInv, TreeIsStored
    <2> QED
      BY <1>1, <1>2, <1>3, <2>1, StoredProofsFit DEF IInv
  <1>7. DoneBeforeNext'
    <2>1. \A l \in Leaves : processed(l) => processed(l)'
      BY <1>2 DEF processed, Leaves
    <2> QED
      BY <1>2, <2>1, DoneKept DEF IInv
  <1> QED
    BY <1>4, <1>5, <1>6, <1>7 DEF IInv

(* What the index has for the next nonce is the message of that nonce.     *)
LEMMA FoundIsNext ==
  ASSUME IInv, NEW l \in found
  PROVE  hasNonce(l, replicaTask.next)
  BY DEF found, hasNonce, IInv, StoredExist, holds

(* The task takes up the next message, or passes one that is processed. *)
LEMMA LookStep == IInv /\ Look => IInv'
  <1> SUFFICES ASSUME IInv, Look PROVE IInv'
    OBVIOUS
  <1>1. UNCHANGED <<traffic, height, messageBlock, updateBlock, roots, status, messagesDb,
                    updatesDb, prover, latestCommitted, proofs, currentNonce>>
    BY DEF Look, homeVars, replicaVars, messagesVars, updatesVars, proverVars
  <1>2. PICK l \in found :
          \/ canSkip(l) /\ replicaTask' = at("advance")
          \/ canProve(l) /\ replicaTask' = [at("process") EXCEPT !.seen = status[l + 1]]
    BY DEF Look
  <1>3. hasNonce(l, replicaTask.next) /\ l \in Leaves
    BY FoundIsNext DEF hasNonce
  <1>4. ChainTypes' /\ StoredExist' /\ TreeIsStored' /\ ProofsFit'
    <2>1. ChainTypes' /\ StoredExist'
      BY <1>1 DEF IInv, ChainTypes, StoredExist, holds, Leaves
    <2> QED
      BY <1>1, <2>1, TreeKept, DbsStay DEF IInv, ChainTypes
  <1>5. replicaTask \in [next : Nat, at : Places, seen : Statuses]
    BY DEF IInv, DoneBeforeNext
  <1>6. status[l + 1] \in Statuses
    BY <1>3 DEF Leaves, IInv, ChainTypes
  <1>7. /\ replicaTask' \in [next : Nat, at : Places, seen : Statuses]
        /\ replicaTask'.next = replicaTask.next
        /\ replicaTask'.at = "advance" => kind(l) # "here"
    BY <1>2, <1>5, <1>6 DEF at, Places, canSkip
  <1>8. Leaves' = Leaves /\ \A k : processed(k)' = processed(k)
    BY <1>1 DEF Leaves, processed
  <1>9. \A k, n : hasNonce(k, n)' = hasNonce(k, n)
    BY <1>1, <1>8, NoncesStay DEF hasNonce
  <1>10. DoneBeforeNext'
    BY <1>1, <1>3, <1>7, <1>8, <1>9, NoncesStay DEF IInv, DoneBeforeNext
  <1> QED
    BY <1>4, <1>10 DEF IInv

(* The transaction of the task processes the message it looked at. *)
LEMMA ProcessStep == IInv /\ Process => IInv'
  <1> SUFFICES ASSUME IInv, Process PROVE IInv'
    OBVIOUS
  <1>1. /\ UNCHANGED <<traffic, height, messageBlock, updateBlock, roots, messagesDb, updatesDb,
                       prover, latestCommitted, proofs, currentNonce>>
        /\ replicaTask' = at("advance")
    BY DEF Process, homeVars, messagesVars, updatesVars, proverVars
  <1>2. PICK l \in found : status' = [status EXCEPT ![l + 1] = "Processed"]
    BY DEF Process
  <1>3. hasNonce(l, replicaTask.next) /\ l \in Leaves
    BY FoundIsNext DEF hasNonce
  <1>4. status \in Seq(Statuses) /\ Len(status) = Len(messageBlock)
    BY DEF IInv, ChainTypes
  <1>5. status' \in Seq(Statuses) /\ Len(status') = Len(status)
    BY <1>2, <1>3, <1>4, StatusSet DEF Statuses
  <1>6. ChainTypes' /\ StoredExist' /\ TreeIsStored' /\ ProofsFit'
    <2>1. ChainTypes' /\ StoredExist'
      BY <1>1, <1>5 DEF IInv, ChainTypes, StoredExist, holds, Leaves
    <2> QED
      BY <1>1, <2>1, TreeKept, DbsStay DEF IInv, ChainTypes
  <1>7. Leaves' = Leaves
    BY <1>1 DEF Leaves
  <1>8. \A k \in Leaves : k + 1 \in DOMAIN status
    BY <1>4 DEF Leaves
  <1>9. processed(l)' /\ \A k \in Leaves : processed(k) => processed(k)'
    BY <1>2, <1>3, <1>7, <1>8 DEF processed
  <1>10. \A k, n : hasNonce(k, n)' = hasNonce(k, n)
    BY <1>1, <1>7, NoncesStay DEF hasNonce
  <1>11. /\ replicaTask' \in [next : Nat, at : Places, seen : Statuses]
         /\ replicaTask'.next = replicaTask.next
    BY <1>1 DEF at, Places, IInv, DoneBeforeNext
  <1>12. DoneBeforeNext'
    BY <1>1, <1>3, <1>7, <1>9, <1>10, <1>11, NoncesStay DEF IInv, DoneBeforeNext
  <1> QED
    BY <1>6, <1>12 DEF IInv
(* The message that was done is the only one of its nonce.                 *)
LEMMA AdvanceStep == IInv /\ Advance => IInv'
  <1> SUFFICES ASSUME IInv, Advance PROVE IInv'
    OBVIOUS
  <1>1. /\ UNCHANGED <<traffic, height, messageBlock, updateBlock, roots, status, messagesDb,
                       updatesDb, prover, latestCommitted, proofs>>
        /\ replicaTask.at = "advance"
        /\ currentNonce' = replicaTask.next
        /\ replicaTask' = [next |-> replicaTask.next + 1, at |-> "message", seen |-> "None"]
    BY DEF Advance, advanced, homeVars, replicaVars, messagesVars, updatesVars, proverVars
  <1>2. ChainTypes' /\ StoredExist' /\ TreeIsStored' /\ ProofsFit'
    <2>1. ChainTypes' /\ StoredExist'
      BY <1>1 DEF IInv, ChainTypes, StoredExist, holds, Leaves
    <2> QED
      BY <1>1, <2>1, TreeKept, DbsStay DEF IInv, ChainTypes
  <1>3. replicaTask.next \in Nat
    BY DEF IInv, DoneBeforeNext
  <1>4. PICK l \in Leaves :
          hasNonce(l, replicaTask.next) /\ (kind(l) = "here" => processed(l))
    BY <1>1 DEF IInv, DoneBeforeNext
  <1>5. Leaves' = Leaves /\ \A k : processed(k)' = processed(k)
    BY <1>1 DEF Leaves, processed
  <1>6. \A k, n : hasNonce(k, n)' = hasNonce(k, n)
    BY <1>1, <1>5, NoncesStay DEF hasNonce
  <1>7. ASSUME NEW k \in Leaves, kind(k) = "here", nonceOf(k) < replicaTask.next + 1
        PROVE  processed(k)
    <2>1. k \in Nat /\ l \in Nat /\ isHere(k) /\ isHere(l) /\ nonceOf(l) = replicaTask.next
      BY <1>4, <1>7 DEF Leaves, hasNonce, isHere
    <2>2. nonceOf(k) \in Nat
      BY <2>1, NonceType
    <2>3. CASE nonceOf(k) = replicaTask.next
      BY <1>4, <1>7, <2>1, <2>3, NonceIsUnique
    <2>4. CASE nonceOf(k) < replicaTask.next
      BY <1>7, <2>4 DEF IInv, DoneBeforeNext
    <2> QED
      BY <1>3, <1>7, <2>2, <2>3, <2>4
  <1>8. /\ replicaTask' \in [next : Nat, at : Places, seen : Statuses]
        /\ replicaTask'.next = replicaTask.next + 1 /\ replicaTask'.at # "advance"
    BY <1>1, <1>3 DEF Places, Statuses
  <1>9. currentNonce' \in Nat /\ currentNonce' < replicaTask'.next
        /\ hasNonce(l, currentNonce') /\ hasNonce(l, replicaTask'.next - 1)
    BY <1>1, <1>3, <1>4, <1>8
  <1>10. \A k \in Leaves' : kind(k)' = "here" /\ nonceOf(k)' < replicaTask'.next => processed(k)'
    BY <1>1, <1>5, <1>7, <1>8, NoncesStay
  <1>11. DoneBeforeNext'
    BY <1>4, <1>5, <1>6, <1>8, <1>9, <1>10 DEF DoneBeforeNext
  <1> QED
    BY <1>2, <1>11 DEF IInv

(* A root of the database is one of Home. *)
LEMMA RootOfHome ==
  ASSUME IInv, NEW n, n # 0, isRoot(n)
  PROVE  \E j \in DOMAIN roots : roots[j] = n
  <1>1. PICK e \in U!known(updatesDb) : roots[e + 1] = n
    BY DEF isRoot
  <1>2. e + 1 \in DOMAIN roots
    BY DEF IInv, ChainTypes, StoredExist, holds, U!known
  <1> QED
    BY <1>1, <1>2

(* However it ends, the process starts again with what it has stored.      *)
LEMMA StartKeeps ==
  ASSUME IInv, StartTasks, StoredExist', Grow, ProofsFit'
  PROVE  IInv'
  <1>1. UNCHANGED <<traffic, height, messageBlock, updateBlock, roots, status, latestCommitted>>
    BY DEF StartTasks, homeVars, replicaVars
  <1>2. ChainTypes'
    BY <1>1 DEF IInv, ChainTypes
  <1>3. DoneBeforeNext' /\ prover' = prover
    BY RestartKeeps DEF IInv
  <1>4. \A e \in U!known(updatesDb) : roots'[e + 1] = roots[e + 1]
    BY <1>1
  <1>5. isRoot(prover)'
    BY <1>3, <1>4 DEF IInv, TreeIsStored, isRoot, Grow
  <1>6. TreeIsStored'
    BY <1>1, <1>3, <1>5 DEF IInv, TreeIsStored, Grow
  <1> QED
    BY <1>2, <1>3, <1>6 DEF IInv

(* The first start, and each after an end of the process. *)
LEMMA StartAllKeeps == IInv /\ StartAll => IInv'
  <1> SUFFICES ASSUME IInv, StartAll PROVE IInv'
    OBVIOUS
  <1>1. UNCHANGED <<messagesDb, updatesDb, roots, messageBlock>>
    BY DEF StartAll, StartTasks, M!Restart, U!Restart, homeVars
  <1>2. prover' = prover
    BY RestartKeeps DEF StartAll, IInv
  <1>3. StoredExist'
    BY <1>1 DEF IInv, StoredExist, holds, Leaves
  <1>4. \A l \in 0..(prover - 1) : l < prover
    BY DEF IInv, TreeIsStored
  <1>5. 0..(prover - 1) # {} => \E j \in DOMAIN roots : roots[j] = prover
    BY RootOfHome DEF IInv, TreeIsStored
  <1>6. ProofsFit'
    BY <1>1, <1>2, <1>4, <1>5, StoredProofsFit DEF StartAll, IInv
  <1> QED
    BY <1>1, <1>3, <1>6, StartKeeps, DbsStay DEF StartAll

(* A crash anywhere leaves what is stored, and the process starts again. *)
LEMMA CrashStep == IInv /\ Crash => IInv'
  <1> SUFFICES ASSUME IInv, Crash PROVE IInv'
    OBVIOUS
  <1>1. StartTasks /\ UNCHANGED <<roots, messageBlock, updateBlock>>
    BY DEF Crash, StartTasks, homeVars
  <1>2. Len(updateBlock) = Len(roots)
    BY DEF IInv, ChainTypes
  <1>3. holds(messagesDb, 0..(Len(messageBlock) - 1)) /\ holds(updatesDb, 0..(Len(updateBlock) - 1))
    BY <1>2 DEF IInv, StoredExist, Leaves
  <1>4. /\ holds(messagesDb', 0..(Len(messageBlock) - 1))
        /\ M!known(messagesDb) \subseteq M!known(messagesDb')
    <2>1. CASE UNCHANGED messagesDb
      BY <1>3, <2>1 DEF holds, M!known
    <2>2. CASE M!Crash(height, messageBlock)
      BY <1>3, <2>2, MCrashes
    <2> QED
      BY <2>1, <2>2 DEF Crash, M!Restart
  <1>5. /\ holds(updatesDb', 0..(Len(updateBlock) - 1))
        /\ U!known(updatesDb) \subseteq U!known(updatesDb')
    <2>1. CASE UNCHANGED updatesDb
      BY <1>3, <2>1 DEF holds, U!known
    <2>2. CASE U!Crash(height, updateBlock)
      BY <1>3, <2>2, UCrashes
    <2> QED
      BY <2>1, <2>2 DEF Crash, U!Restart
  <1>6. StoredExist'
    BY <1>1, <1>2, <1>4, <1>5 DEF StoredExist, Leaves, holds
  <1>7. ProofsFit'
    <2>1. CASE UNCHANGED proofs
      BY <1>1, <2>1 DEF IInv, ProofsFit
    <2>2. CASE \E j \in updatesOn(prover) :
                 \E last \in newLeaves(j) : proofs' = storeProofs(proofs, prover..last, roots[j])
      <3>1. PICK j \in updatesOn(prover) :
              \E last \in newLeaves(j) : proofs' = storeProofs(proofs, prover..last, roots[j])
        BY <2>2
      <3>2. j \in DOMAIN roots /\ roots[j] \in Nat
        BY UpdateOfTree
      <3>3. PICK last \in newLeaves(j) : proofs' = storeProofs(proofs, prover..last, roots[j])
        BY <3>1
      <3>4. \A l \in prover..last : l < roots[j]
        BY <3>2 DEF newLeaves, IInv, TreeIsStored
      <3> QED
        BY <1>1, <3>2, <3>3, <3>4, StoredProofsFit DEF IInv
    <2> QED
      BY <2>1, <2>2 DEF Crash
  <1>8. Grow
    BY <1>4, <1>5 DEF Grow, knownLeaves
  <1> QED
    BY <1>1, <1>6, <1>7, <1>8, StartKeeps

(***************************************************************************)
(* The theorems                                                            *)
(***************************************************************************)

(* Nothing is stored, so nothing is skipped. *)
LEMMA InitIsDone == Init => IInv
  <1> SUFFICES ASSUME Init PROVE IInv
    OBVIOUS
  <1>1. ChainTypes
    BY DEF Init, ChainTypes
  <1>2. Leaves = {}
    BY DEF Init, Leaves
  <1>3. StoredExist
    BY DEF Init, M!Init, U!Init, M!EmptyDb, U!EmptyDb, StoredExist, holds
  <1>4. TreeIsStored /\ ProofsFit
    BY DEF Init, TreeIsStored, isRoot, ProofsFit
  <1>5. DoneBeforeNext
    BY <1>2 DEF Init, DoneBeforeNext, Places, Statuses
  <1> QED
    BY <1>1, <1>3, <1>4, <1>5 DEF IInv

(* Each step keeps what lies behind the next nonce processed. *)
LEMMA StepsKeepDone == IInv /\ [Next]_vars => IInv'
  <1> SUFFICES ASSUME IInv, [Next]_vars PROVE IInv'
    OBVIOUS
  <1>1. CASE Mine
    BY <1>1, MineStep
  <1>2. CASE Accept
    BY <1>2, AcceptStep
  <1>3. CASE \E leaf \in Leaves : OthersProcess(leaf)
    BY <1>3, OthersProcessStep
  <1>4. CASE SyncMessages
    BY <1>4, SyncMessagesStep
  <1>5. CASE SyncUpdates
    BY <1>5, SyncUpdatesStep
  <1>6. CASE ProverSync
    BY <1>6, ProverSyncStep
  <1>7. CASE Look \/ Process \/ Advance
    BY <1>7, LookStep, ProcessStep, AdvanceStep
  <1>8. CASE ProcessReverts \/ LeafNotFound \/ InvalidLocalRoot
    BY <1>8, StartAllKeeps DEF ProcessReverts, LeafNotFound, InvalidLocalRoot
  <1>9. CASE Crash
    BY <1>9, CrashStep
  <1>10. CASE UNCHANGED vars
    <2>1. UNCHANGED <<traffic, height, messageBlock, updateBlock, roots, status, messagesDb,
                      updatesDb, prover, latestCommitted, proofs, replicaTask, currentNonce>>
      BY <1>10 DEF vars, homeVars, replicaVars, messagesVars, updatesVars, proverVars, taskVars
    <2>2. StoredExist'
      BY <2>1 DEF IInv, StoredExist, holds, Leaves
    <2> QED
      BY <1>10, <2>1, <2>2, SyncKeeps, DbsStay DEF vars
  <1> QED
    BY <1>1, <1>2, <1>3, <1>4, <1>5, <1>6, <1>7, <1>8, <1>9, <1>10 DEF Next

(* The invariant of the specification. *)
LEMMA AlwaysDone == Spec => []IInv
  BY InitIsDone, StepsKeepDone, PTL DEF Spec

(* processor.rs passes over no message: up to the nonce it has stored all  *)
(* are processed, however often and wherever the process ended.            *)
THEOREM ProcessorNoMessageIsSkipped == Spec => []NoMessageIsSkipped
  <1>1. IInv => NoMessageIsSkipped
    <2> SUFFICES ASSUME IInv, currentNonce # None, NEW l \in Leaves,
                        kind(l) = "here", nonceOf(l) <= currentNonce
                 PROVE  processed(l)
      BY DEF NoMessageIsSkipped
    <2>1. nonceOf(l) \in Nat
      BY NonceType DEF Leaves
    <2>2. currentNonce \in Nat /\ replicaTask.next \in Nat /\ currentNonce < replicaTask.next
      BY DEF IInv, DoneBeforeNext
    <2>3. nonceOf(l) < replicaTask.next
      BY <2>1, <2>2
    <2> QED
      BY <2>3 DEF IInv, DoneBeforeNext
  <1> QED
    BY <1>1, AlwaysDone, PTL

(* prover_sync.rs keeps its tree, and with it every proof, at a root that  *)
(* Home has committed; it does not find the update to it only where a      *)
(* crash has left a half of that.                                          *)
THEOREM ProcessorProofsAreOfCommittedRoots == Spec => []ProofsAreOfCommittedRoots
  <1>1. IInv => ProofsAreOfCommittedRoots
    <2> SUFFICES ASSUME IInv PROVE ProofsAreOfCommittedRoots
      OBVIOUS
    <2>1. prover = 0 \/ \E j \in DOMAIN roots : roots[j] = prover
      BY RootOfHome DEF IInv, TreeIsStored
    <2>2. ASSUME invalidLocalRoot PROVE \E e \in updatesDb.half : roots[e + 1] = prover
      <3>1. PICK e \in U!known(updatesDb) : roots[e + 1] = prover
        BY <2>2 DEF invalidLocalRoot, IInv, TreeIsStored, isRoot
      <3>2. e \notin updatesDb.stored
        BY <2>2, <3>1 DEF invalidLocalRoot, update_by_new_root
      <3> QED
        BY <3>1, <3>2 DEF U!known
    <2> QED
      BY <2>1, <2>2 DEF IInv, ProofsFit, ProofsAreOfCommittedRoots
  <1> QED
    BY <1>1, AlwaysDone, PTL

(***************************************************************************)
(* No event is lost                                                        *)
(***************************************************************************)

isTask(t) ==
  /\ DOMAIN t = {"from", "finding_missing", "missing_start", "missing_end", "exponential"}
  /\ t.from \in Nat

Bounded(d, t, tip) ==
  /\ isTask(t) /\ t.from <= tip + 1
  /\ d.blockEnd # None => d.blockEnd \in 0..tip

Events(blockOf) == 0..(Len(blockOf) - 1)

(* What is not stored is still to be read, and beyond what was read.       *)
Ahead(d, t, blockOf) ==
  \A e \in Events(blockOf) : e \notin d.stored =>
    blockOf[e + 1] >= t.from /\ (d.blockEnd # None => blockOf[e + 1] > d.blockEnd)

Fresh(d) == d.latest = None /\ d.stored = {}
Gapless(d) == d.latest \in Nat /\ 0..d.latest \subseteq d.stored

(* The events of a contract, in the order of their blocks.                 *)
InOrder(blockOf, tip) ==
  /\ \A i \in DOMAIN blockOf : blockOf[i] \in Nat /\ fromHeight < blockOf[i] /\ blockOf[i] <= tip
  /\ \A i, j \in DOMAIN blockOf : i <= j => blockOf[i] <= blockOf[j]

Heights ==
  /\ height \in Nat /\ fromHeight <= height /\ height <= MaxHeight
  /\ InOrder(messageBlock, height) /\ InOrder(updateBlock, height)

read(t, blockOf, end, omitted) ==
  {e \in Events(blockOf) : blockOf[e + 1] \in t.from..end /\ e \notin omitted}

(* A poll goes back, or stores what it reads, and sometimes that it has.   *)
Polled(d, t, newDb, newTask, tip, blockOf, omitted) ==
  \/ newDb = d /\ isTask(newTask) /\ newTask.from <= t.from
  \/ \E end \in t.from..tip :
       /\ isTask(newTask) /\ newTask.from = end + 1
       /\ newDb.stored = d.stored \cup read(t, blockOf, end, omitted)
       /\ newDb.blockEnd \in {d.blockEnd, end}
       /\ newDb.latest = IF read(t, blockOf, end, omitted) = {} THEN d.latest
                         ELSE M!update_latest(d.latest, read(t, blockOf, end, omitted))

Restarted(d, newDb, newTask) ==
  /\ d.stored \subseteq newDb.stored /\ newDb.blockEnd = d.blockEnd
  /\ newTask = M!Started(newDb)

(* Going back stays above block 0: the subtraction in u32 does not wrap.   *)
GoesBack ==
  /\ messagesTask' = M!goBack(M!atLoopHead, height) => messagesTask'.from \in 0..messagesTask.from
  /\ updatesTask' = U!goBack(U!atLoopHead, height) => updatesTask'.from \in 0..updatesTask.from

(* A height that fits is its own residue. *)
LEMMA HeightFits ==
  ASSUME NEW n \in Nat, n <= MaxHeight + 1
  PROVE  n % HeightModulus = n
  BY HeightAssumption

(* A poll of the messages, in these terms. *)
LEMMA MReads ==
  ASSUME NEW blockOf, holds(messagesDb, Events(blockOf)), Bounded(messagesDb, messagesTask, height),
         height \in Nat, height <= MaxHeight,
         NEW omitted, M!Poll(height, blockOf, omitted), GoesBack
  PROVE  Polled(messagesDb, messagesTask, messagesDb', messagesTask', height, blockOf, omitted)
  <1> DEFINE t == messagesTask
             head == M!atLoopHead
             end == M!rangeEnd(height)
             events == M!fetch_sorted(blockOf, height, omitted)
  <1>1. /\ DOMAIN head = DOMAIN t
        /\ head.from = t.from
    BY DEF M!atLoopHead, M!passedMissing, M!gaveUpFinding, Bounded, isTask
  <1>2. t.from \in Nat /\ ~(height <= t.from)
    BY DEF Bounded, isTask, M!Poll, M!caughtUp
  <1>3. end \in t.from..height
    BY <1>2, HeightAssumption DEF M!rangeEnd
  <1>4. events = read(t, blockOf, end, omitted)
    BY DEF M!fetch_sorted, read, Events
  <1>5. \/ messagesTask' = M!goBack(head, height) /\ messagesDb' = messagesDb
        \/ /\ messagesTask' = [head EXCEPT !.from = M!u32(end + 1)]
           /\ messagesDb' = M!store_latest_block_end(M!store(messagesDb, events), height, events)
    BY DEF M!Poll
  <1>6. CASE messagesTask' = M!goBack(head, height) /\ messagesDb' = messagesDb
    <2>1. messagesTask'.from \in 0..t.from
      BY <1>6 DEF GoesBack
    <2>2. isTask(messagesTask') /\ messagesTask'.from <= t.from
      BY <1>1, <1>2, <1>6, <2>1 DEF M!goBack, isTask, Bounded
    <2> QED
      BY <1>6, <2>2 DEF Polled
  <1>7. CASE /\ messagesTask' = [head EXCEPT !.from = M!u32(end + 1)]
             /\ messagesDb' = M!store_latest_block_end(M!store(messagesDb, events), height, events)
    <2>1. M!u32(end + 1) = end + 1 /\ end + 1 \in Nat
      <3>1. end + 1 \in Nat /\ end + 1 <= MaxHeight + 1
        BY <1>2, <1>3, HeightAssumption
      <3> QED
        BY <3>1, HeightFits DEF M!u32
    <2>2. isTask(messagesTask') /\ messagesTask'.from = end + 1
      BY <1>1, <1>7, <2>1 DEF isTask, Bounded
    <2> DEFINE after == M!store(messagesDb, events)
    <2>3. /\ DOMAIN after = DOMAIN messagesDb
          /\ after.stored = messagesDb.stored \cup events
          /\ after.blockEnd = messagesDb.blockEnd
          /\ after.latest = IF events = {} THEN messagesDb.latest
                            ELSE M!update_latest(messagesDb.latest, events)
      BY DEF M!store, holds
    <2>4. \/ messagesDb' = after
          \/ messagesDb' = [after EXCEPT !.blockEnd = end]
      BY <1>7 DEF M!store_latest_block_end
    <2>5. /\ messagesDb'.stored = after.stored /\ messagesDb'.latest = after.latest
          /\ messagesDb'.blockEnd \in {messagesDb.blockEnd, end}
      BY <2>3, <2>4 DEF holds
    <2> QED
      BY <1>3, <1>4, <2>2, <2>3, <2>5 DEF Polled
  <1> QED
    BY <1>5, <1>6, <1>7

(* A restart, and a crash in the message sync, in these terms. *)
LEMMA MRestarts ==
  ASSUME NEW blockOf, holds(messagesDb, Events(blockOf)),
         M!Restart \/ M!Crash(height, blockOf)
  PROVE  Restarted(messagesDb, messagesDb', messagesTask')
  <1>1. CASE M!Restart
    BY <1>1 DEF M!Restart, Restarted, M!Started
  <1>2. CASE M!Crash(height, blockOf)
    <2> DEFINE events == M!fetch_sorted(blockOf, height, {})
    <2>1. messagesDb' \in M!unfinished(events, height)
      BY <1>2 DEF M!Crash
    <2>2. Cut(messagesDb, messagesDb', events)
      BY <2>1, MUnfinished DEF holds
    <2>3. messagesDb.stored \subseteq messagesDb'.stored /\ messagesDb'.blockEnd = messagesDb.blockEnd
      BY <2>2 DEF Cut
    <2> QED
      BY <1>2, <2>3 DEF M!Crash, Restarted
  <1> QED
    BY <1>1, <1>2
(* Both count events in one way. *)
LEMMA SameLatest ==
  ASSUME NEW last, NEW events
  PROVE  U!update_latest(last, events) = M!update_latest(last, events)
  <1>1. U!firstOf(events) = M!firstOf(events)
    BY Zenon DEF U!firstOf, M!firstOf
  <1> QED
    BY <1>1, Zenon DEF U!update_latest, M!update_latest

(* The same of the updates: both syncs run the same code. *)
LEMMA UReads ==
  ASSUME NEW blockOf, holds(updatesDb, Events(blockOf)), Bounded(updatesDb, updatesTask, height),
         height \in Nat, height <= MaxHeight,
         NEW omitted, U!Poll(height, blockOf, omitted), GoesBack
  PROVE  Polled(updatesDb, updatesTask, updatesDb', updatesTask', height, blockOf, omitted)
  <1> DEFINE t == updatesTask
             head == U!atLoopHead
             end == U!rangeEnd(height)
             events == U!fetch_sorted(blockOf, height, omitted)
  <1>1. /\ DOMAIN head = DOMAIN t
        /\ head.from = t.from
    BY DEF U!atLoopHead, U!passedMissing, U!gaveUpFinding, Bounded, isTask
  <1>2. t.from \in Nat /\ ~(height <= t.from)
    BY DEF Bounded, isTask, U!Poll, U!caughtUp
  <1>3. end \in t.from..height
    BY <1>2, HeightAssumption DEF U!rangeEnd
  <1>4. events = read(t, blockOf, end, omitted)
    BY DEF U!fetch_sorted, read, Events
  <1>5. \/ updatesTask' = U!goBack(head, height) /\ updatesDb' = updatesDb
        \/ /\ updatesTask' = [head EXCEPT !.from = U!u32(end + 1)]
           /\ updatesDb' = U!store_latest_block_end(U!store(updatesDb, events), height, events)
    BY DEF U!Poll
  <1>6. CASE updatesTask' = U!goBack(head, height) /\ updatesDb' = updatesDb
    <2>1. updatesTask'.from \in 0..t.from
      BY <1>6 DEF GoesBack
    <2>2. isTask(updatesTask') /\ updatesTask'.from <= t.from
      BY <1>1, <1>2, <1>6, <2>1 DEF U!goBack, isTask, Bounded
    <2> QED
      BY <1>6, <2>2 DEF Polled
  <1>7. CASE /\ updatesTask' = [head EXCEPT !.from = U!u32(end + 1)]
             /\ updatesDb' = U!store_latest_block_end(U!store(updatesDb, events), height, events)
    <2>1. U!u32(end + 1) = end + 1 /\ end + 1 \in Nat
      <3>1. end + 1 \in Nat /\ end + 1 <= MaxHeight + 1
        BY <1>2, <1>3, HeightAssumption
      <3> QED
        BY <3>1, HeightFits DEF U!u32
    <2>2. isTask(updatesTask') /\ updatesTask'.from = end + 1
      BY <1>1, <1>7, <2>1 DEF isTask, Bounded
    <2> DEFINE after == U!store(updatesDb, events)
    <2>3. /\ DOMAIN after = DOMAIN updatesDb
          /\ after.stored = updatesDb.stored \cup events
          /\ after.blockEnd = updatesDb.blockEnd
          /\ after.latest = IF events = {} THEN updatesDb.latest
                            ELSE U!update_latest(updatesDb.latest, events)
      BY DEF U!store, holds
    <2>4. \/ updatesDb' = after
          \/ updatesDb' = [after EXCEPT !.blockEnd = end]
      BY <1>7 DEF U!store_latest_block_end
    <2>5. /\ updatesDb'.stored = after.stored /\ updatesDb'.latest = after.latest
          /\ updatesDb'.blockEnd \in {updatesDb.blockEnd, end}
      BY <2>3, <2>4 DEF holds
    <2> QED
      BY <1>3, <1>4, <2>2, <2>3, <2>5, SameLatest DEF Polled
  <1> QED
    BY <1>5, <1>6, <1>7

(* And of their restarts. *)
LEMMA URestarts ==
  ASSUME NEW blockOf, holds(updatesDb, Events(blockOf)),
         U!Restart \/ U!Crash(height, blockOf)
  PROVE  Restarted(updatesDb, updatesDb', updatesTask')
  <1>1. CASE U!Restart
    BY <1>1 DEF U!Restart, Restarted, U!Started, M!Started
  <1>2. CASE U!Crash(height, blockOf)
    <2> DEFINE events == U!fetch_sorted(blockOf, height, {})
    <2>1. updatesDb' \in U!unfinished(events, height)
      BY <1>2 DEF U!Crash
    <2>2. Cut(updatesDb, updatesDb', events)
      BY <2>1, UUnfinished DEF holds
    <2>3. updatesDb.stored \subseteq updatesDb'.stored /\ updatesDb'.blockEnd = updatesDb.blockEnd
      BY <2>2 DEF Cut
    <2> QED
      BY <1>2, <2>3 DEF U!Crash, Restarted, U!Started, M!Started
  <1> QED
    BY <1>1, <1>2

(* A restart begins behind the last range that was read to its end.        *)
LEMMA RestartAhead ==
  ASSUME NEW d, NEW newDb, NEW newTask, NEW t, NEW blockOf \in Seq(Nat),
         Bounded(d, t, height), Restarted(d, newDb, newTask),
         height \in Nat, fromHeight <= height, InOrder(blockOf, height)
  PROVE  Bounded(newDb, newTask, height) /\ (Ahead(d, t, blockOf) => Ahead(newDb, newTask, blockOf))
  <1>1. /\ DOMAIN newTask = {"from", "finding_missing", "missing_start", "missing_end", "exponential"}
        /\ newTask.from = IF d.blockEnd = None THEN fromHeight ELSE d.blockEnd + 1
    BY DEF Restarted, M!Started
  <1>2. newTask.from \in Nat /\ newTask.from <= height + 1
    BY <1>1, HeightAssumption DEF Bounded
  <1>3. Bounded(newDb, newTask, height)
    BY <1>1, <1>2 DEF Bounded, isTask, Restarted
  <1>4. ASSUME Ahead(d, t, blockOf), NEW e \in Events(blockOf), e \notin newDb.stored
        PROVE  blockOf[e + 1] >= newTask.from /\ (newDb.blockEnd # None => blockOf[e + 1] > newDb.blockEnd)
    <2>1. e + 1 \in DOMAIN blockOf /\ blockOf[e + 1] \in Nat
      BY DEF Events
    <2>2. blockOf[e + 1] > fromHeight
      BY <2>1 DEF InOrder
    <2>3. d.blockEnd # None => blockOf[e + 1] > d.blockEnd /\ d.blockEnd \in Nat
      BY <1>4 DEF Ahead, Restarted, Bounded
    <2>4. newDb.blockEnd = d.blockEnd
      BY DEF Restarted
    <2>5. CASE d.blockEnd = None
      BY <1>1, <2>1, <2>2, <2>4, <2>5, HeightAssumption
    <2>6. CASE d.blockEnd # None
      BY <1>1, <2>1, <2>3, <2>4, <2>6
    <2> QED
      BY <2>5, <2>6
  <1> QED
    BY <1>3, <1>4 DEF Ahead

(* A poll stays within the chain. *)
LEMMA PollBounded ==
  ASSUME NEW d, NEW newDb, NEW newTask, NEW t, NEW blockOf, NEW omitted, height \in Nat,
         Bounded(d, t, height), Polled(d, t, newDb, newTask, height, blockOf, omitted)
  PROVE  Bounded(newDb, newTask, height)
  <1>1. CASE newDb = d /\ isTask(newTask) /\ newTask.from <= t.from
    BY <1>1 DEF Bounded, isTask
  <1>2. CASE \E end \in t.from..height :
               isTask(newTask) /\ newTask.from = end + 1 /\ newDb.blockEnd \in {d.blockEnd, end}
    BY <1>2 DEF Bounded, isTask
  <1> QED
    BY <1>1, <1>2 DEF Polled

(* After a complete answer, only what is behind the range is not stored.   *)
LEMMA CompleteAnswerAhead ==
  ASSUME NEW d, NEW newDb, NEW newTask, NEW t, NEW blockOf \in Seq(Nat), height \in Nat,
         Bounded(d, t, height), Polled(d, t, newDb, newTask, height, blockOf, {}), Ahead(d, t, blockOf)
  PROVE  Ahead(newDb, newTask, blockOf)
  <1> SUFFICES ASSUME NEW e \in Events(blockOf), e \notin newDb.stored
               PROVE  /\ blockOf[e + 1] >= newTask.from
                      /\ newDb.blockEnd # None => blockOf[e + 1] > newDb.blockEnd
    BY DEF Ahead
  <1>1. blockOf[e + 1] \in Nat /\ t.from \in Nat
    BY DEF Events, Bounded, isTask
  <1>2. CASE newDb = d /\ isTask(newTask) /\ newTask.from <= t.from
    BY <1>1, <1>2 DEF Ahead, isTask
  <1>3. ASSUME NEW end \in t.from..height, newTask.from = end + 1,
               newDb.stored = d.stored \cup read(t, blockOf, end, {}),
               newDb.blockEnd \in {d.blockEnd, end}
        PROVE  /\ blockOf[e + 1] >= newTask.from
               /\ newDb.blockEnd # None => blockOf[e + 1] > newDb.blockEnd
    <2>1. e \notin d.stored /\ e \notin read(t, blockOf, end, {})
      BY <1>3
    <2>2. blockOf[e + 1] >= t.from /\ (d.blockEnd # None => blockOf[e + 1] > d.blockEnd)
      BY <2>1 DEF Ahead
    <2>3. ~(blockOf[e + 1] \in t.from..end)
      BY <2>1 DEF read
    <2>4. blockOf[e + 1] > end /\ end \in Nat
      BY <1>1, <1>3, <2>2, <2>3
    <2> QED
      BY <1>1, <1>3, <2>2, <2>4
  <1> QED
    BY <1>2, <1>3 DEF Polled

(* New events are in a block that no sync has passed. *)
LEMMA NewEventsAhead ==
  ASSUME NEW d, NEW t, NEW blockOf \in Seq(Nat), NEW more \in Seq(Nat),
         height \in Nat,
         \A i \in DOMAIN more : more[i] = height + 1, Bounded(d, t, height)
  PROVE  Bounded(d, t, height + 1) /\ (Ahead(d, t, blockOf) => Ahead(d, t, blockOf \o more))
  <1>1. Bounded(d, t, height + 1)
    BY DEF Bounded, isTask
  <1>2. ASSUME Ahead(d, t, blockOf), NEW e \in Events(blockOf \o more), e \notin d.stored
        PROVE  /\ (blockOf \o more)[e + 1] >= t.from
               /\ d.blockEnd # None => (blockOf \o more)[e + 1] > d.blockEnd
    <2>1. CASE e \in Events(blockOf)
      <3>1. (blockOf \o more)[e + 1] = blockOf[e + 1]
        BY <2>1 DEF Events
      <3> QED
        BY <1>2, <2>1, <3>1 DEF Ahead
    <2>2. CASE e \notin Events(blockOf)
      <3>1. /\ e + 1 - Len(blockOf) \in DOMAIN more
            /\ (blockOf \o more)[e + 1] = more[e + 1 - Len(blockOf)]
        BY <2>2 DEF Events
      <3>2. (blockOf \o more)[e + 1] = height + 1
        BY <3>1
      <3> QED
        BY <3>2 DEF Bounded, isTask
    <2> QED
      BY <2>1, <2>2
  <1> QED
    BY <1>1, <1>2 DEF Ahead

(* A set of numbers that goes on from each of them to the next, but not    *)
(* for ever, has a last one.                                               *)
LEMMA LastOfRun ==
  ASSUME NEW a \in Nat, NEW events \in SUBSET Nat, NEW bound \in Nat, \A e \in events : e < bound
  PROVE  \E x \in events \cup {a} :
           /\ a..x \subseteq events \cup {a} /\ a <= x /\ x + 1 \notin events
  <1> DEFINE Ends == {n \in Nat : a <= n /\ n + 1 \notin events}
  <1>1. Ends # {}
    <2>1. CASE a < bound
      <3>1. bound \in Ends
        BY <2>1
      <3> QED
        BY <3>1
    <2>2. CASE ~(a < bound)
      <3>1. a \in Ends
        BY <2>2
      <3> QED
        BY <3>1
    <2> QED
      BY <2>1, <2>2
  <1>2. PICK m \in Ends : \A k \in Ends : ~(<<k, m>> \in OpToRel(<, Nat))
    BY <1>1, NatLessThanWellFounded, WFMin
  <1> m \in Nat /\ a <= m /\ m + 1 \notin events
    OBVIOUS
  <1>3. \A k \in Ends : m <= k
    <2>1. \A x, y \in Nat : x < y => <<x, y>> \in OpToRel(<, Nat)
      BY Zenon DEF OpToRel
    <2>2. \A k \in Ends : ~(k < m)
      BY <1>2, <2>1
    <2> QED
      BY <2>2
  <1>4. ASSUME NEW y \in a..m, y # a PROVE y \in events
    <2>1. y - 1 \in Nat /\ a <= y - 1 /\ y - 1 < m /\ (y - 1) + 1 = y
      BY <1>4
    <2>2. y - 1 \notin Ends
      <3> SUFFICES ASSUME y - 1 \in Ends PROVE FALSE
        OBVIOUS
      <3>1. m <= y - 1
        BY <1>3
      <3> QED
        BY <2>1, <3>1
    <2> QED
      BY <2>1, <2>2
  <1>5. a..m \subseteq events \cup {a}
    <2> SUFFICES ASSUME NEW y \in a..m, y # a PROVE y \in events
      OBVIOUS
    <2> QED
      BY <1>4
  <1>6. m \in events \cup {a}
    BY <1>5
  <1> QED
    BY <1>5, <1>6

(* The latest event moves on only over events of the range.                *)
LEMMA LatestMovesOn ==
  ASSUME NEW last \in Nat, NEW events \in SUBSET Nat, NEW bound \in Nat, \A e \in events : e < bound
  PROVE  LET next == M!update_latest(last, events)
         IN  next \in Nat /\ last..next \subseteq events \cup {last}
  <1>1. last # None
    BY NoneAssumption
  <1> DEFINE isNext(e) == last..e \subseteq events \cup {last} /\ last <= e /\ e + 1 \notin events
  <1>2. \E e \in events \cup {last} : isNext(e)
    BY LastOfRun
  <1>3. M!update_latest(last, events) = CHOOSE e \in events \cup {last} : isNext(e)
    BY <1>1, Zenon DEF M!update_latest
  <1> HIDE DEF isNext
  <1>4. /\ M!update_latest(last, events) \in events \cup {last}
        /\ isNext(M!update_latest(last, events))
    BY <1>2, <1>3
  <1> QED
    BY <1>4 DEF isNext

(* Nor does an incomplete answer make a gap below it.                      *)
LEMMA PollGapless ==
  ASSUME NEW d, NEW newDb, NEW newTask, NEW t, NEW blockOf \in Seq(Nat), NEW omitted,
         Polled(d, t, newDb, newTask, height, blockOf, omitted), Gapless(d)
  PROVE  Gapless(newDb)
  <1>1. ASSUME NEW events \in SUBSET Events(blockOf), newDb.stored = d.stored \cup events,
               newDb.latest = IF events = {} THEN d.latest ELSE M!update_latest(d.latest, events)
        PROVE  Gapless(newDb)
    <2>1. CASE events = {}
      BY <1>1, <2>1 DEF Gapless
    <2>2. CASE events # {}
      <3>1. events \in SUBSET Nat /\ Len(blockOf) \in Nat /\ \A e \in events : e < Len(blockOf)
        BY DEF Events
      <3>2. newDb.latest \in Nat /\ d.latest..newDb.latest \subseteq events \cup {d.latest}
        <4>1. d.latest \in Nat
          BY DEF Gapless
        <4>2. newDb.latest = M!update_latest(d.latest, events)
          BY <1>1, <2>2
        <4>3. /\ M!update_latest(d.latest, events) \in Nat
              /\ d.latest..M!update_latest(d.latest, events) \subseteq events \cup {d.latest}
          BY <2>2, <3>1, <4>1, LatestMovesOn
        <4> QED
          BY <4>2, <4>3
      <3>3. ASSUME NEW e \in 0..newDb.latest PROVE e \in newDb.stored
        <4>1. CASE e <= d.latest
          BY <1>1, <4>1 DEF Gapless
        <4>2. CASE d.latest < e
          BY <1>1, <3>2, <4>2 DEF Gapless
        <4> QED
          BY <3>2, <4>1, <4>2 DEF Gapless
      <3> QED
        BY <3>2, <3>3 DEF Gapless
    <2> QED
      BY <2>1, <2>2
  <1>2. CASE newDb = d
    BY <1>2
  <1>3. CASE \E end \in t.from..height :
               /\ newDb.stored = d.stored \cup read(t, blockOf, end, omitted)
               /\ newDb.latest = IF read(t, blockOf, end, omitted) = {} THEN d.latest
                                 ELSE M!update_latest(d.latest, read(t, blockOf, end, omitted))
    <2>1. PICK end \in t.from..height :
               /\ newDb.stored = d.stored \cup read(t, blockOf, end, omitted)
               /\ newDb.latest = IF read(t, blockOf, end, omitted) = {} THEN d.latest
                                 ELSE M!update_latest(d.latest, read(t, blockOf, end, omitted))
      BY <1>3
    <2>2. read(t, blockOf, end, omitted) \in SUBSET Events(blockOf)
      BY DEF read
    <2> QED
      BY <1>1, <2>1, <2>2
  <1> QED
    BY <1>2, <1>3 DEF Polled

(* If nothing is stored yet, the first answer begins with event 0.         *)
LEMMA FirstAnswer ==
  ASSUME NEW d, NEW newDb, NEW newTask, NEW t, NEW blockOf \in Seq(Nat), InOrder(blockOf, height),
         height \in Nat, Bounded(d, t, height), Ahead(d, t, blockOf),
         Polled(d, t, newDb, newTask, height, blockOf, {}), Fresh(d)
  PROVE  Fresh(newDb) \/ Gapless(newDb)
  <1>1. ASSUME NEW end \in t.from..height,
               newDb.stored = d.stored \cup read(t, blockOf, end, {}),
               newDb.latest = IF read(t, blockOf, end, {}) = {} THEN d.latest
                              ELSE M!update_latest(d.latest, read(t, blockOf, end, {})),
               read(t, blockOf, end, {}) # {}
        PROVE  Gapless(newDb)
    <2> DEFINE events == read(t, blockOf, end, {})
    <2>1. events \in SUBSET Nat /\ Len(blockOf) \in Nat /\ \A e \in events : e < Len(blockOf)
      BY DEF read, Events
    <2>2. 0 \in events
      <3>1. PICK e \in events : TRUE
        BY <1>1
      <3>2. e \in Events(blockOf) /\ blockOf[e + 1] \in t.from..end
        BY DEF read
      <3>3. /\ 0 \in Events(blockOf) /\ 1 \in DOMAIN blockOf /\ e + 1 \in DOMAIN blockOf
            /\ blockOf[1] \in Nat /\ blockOf[1] <= blockOf[e + 1]
        BY <3>2 DEF Events, InOrder
      <3>4. blockOf[0 + 1] >= t.from
        BY <3>3 DEF Ahead, Fresh
      <3> QED
        BY <3>2, <3>3, <3>4 DEF read, Bounded, isTask
    <2> DEFINE isFirst(e) == \A f \in events : e <= f
    <2>3. isFirst(0) /\ \A e \in events : isFirst(e) => e = 0
      BY <2>1, <2>2
    <2> HIDE DEF events
    <2>4. M!firstOf(events) = CHOOSE e \in events : isFirst(e)
      BY Zenon DEF M!firstOf
    <2> HIDE DEF isFirst
    <2>5. M!firstOf(events) = 0
      BY <2>2, <2>3, <2>4
    <2>6. M!update_latest(None, events) = M!update_latest(0, events)
      BY <2>5, NoneAssumption DEF M!update_latest
    <2>7. newDb.latest = M!update_latest(0, events) /\ newDb.stored = events
      BY <1>1, <2>6 DEF Fresh, events
    <2>8. /\ M!update_latest(0, events) \in Nat
          /\ 0..M!update_latest(0, events) \subseteq events \cup {0}
      BY <2>1, LatestMovesOn
    <2> QED
      BY <2>2, <2>7, <2>8 DEF Gapless
  <1>2. CASE newDb = d
    BY <1>2
  <1>3. ASSUME NEW end \in t.from..height,
               newDb.stored = d.stored \cup read(t, blockOf, end, {}),
               newDb.latest = IF read(t, blockOf, end, {}) = {} THEN d.latest
                              ELSE M!update_latest(d.latest, read(t, blockOf, end, {})),
               read(t, blockOf, end, {}) = {}
        PROVE  Fresh(newDb)
    BY <1>3 DEF Fresh
  <1> QED
    BY <1>1, <1>2, <1>3 DEF Polled

Longer(blockOf, after) ==
  \E more \in Seq(Nat) : after = blockOf \o more /\ \A i \in DOMAIN more : more[i] = height + 1

(* A block's events come after all others. *)
LEMMA MineAppends ==
  ASSUME IInv, Mine
  PROVE  height' = height + 1 /\ Longer(messageBlock, messageBlock') /\ Longer(updateBlock, updateBlock')
  <1>1. height' = height + 1
    BY DEF Mine
  <1>2. messageBlock \in Seq(Nat) /\ updateBlock \in Seq(Nat) /\ height \in Nat
    BY DEF IInv, ChainTypes
  <1>3. Longer(messageBlock, messageBlock')
    <2>1. PICK more \in 0..(Len(traffic) - Len(messageBlock)) :
            messageBlock' = messageBlock \o [i \in 1..more |-> height']
      BY DEF Mine
    <2> DEFINE new == [i \in 1..more |-> height']
    <2>2. new \in Seq(Nat) /\ \A i \in DOMAIN new : new[i] = height + 1
      BY <1>1, <1>2
    <2> QED
      BY <2>1, <2>2 DEF Longer
  <1>4. Longer(updateBlock, updateBlock')
    <2>1. CASE UNCHANGED updateBlock
      <3>1. << >> \in Seq(Nat) /\ updateBlock' = updateBlock \o << >>
        BY <1>2, <2>1
      <3>2. \A i \in DOMAIN << >> : FALSE
        OBVIOUS
      <3> QED
        BY <3>1, <3>2 DEF Longer
    <2>2. CASE updateBlock' = Append(updateBlock, height')
      <3> DEFINE new == <<height'>>
      <3>1. new \in Seq(Nat) /\ \A i \in DOMAIN new : new[i] = height + 1
        BY <1>1, <1>2
      <3>2. updateBlock' = updateBlock \o new
        BY <1>1, <1>2, <2>2
      <3> QED
        BY <3>1, <3>2 DEF Longer
    <2> QED
      BY <2>1, <2>2 DEF Mine
  <1> QED
    BY <1>1, <1>3, <1>4

(* The chain's events stay in order.                                       *)
LEMMA HeightsKept == ASSUME IInv, Heights, [Next]_vars PROVE Heights'
  <1>1. CASE UNCHANGED <<height, messageBlock, updateBlock>>
    BY <1>1 DEF Heights, InOrder
  <1>2. CASE Mine
    <2>1. height' = height + 1 /\ height < MaxHeight
      BY <1>2 DEF Mine
    <2>2. messageBlock \in Seq(Nat) /\ updateBlock \in Seq(Nat) /\ height \in Nat
      BY DEF IInv, ChainTypes
    <2>3. ASSUME NEW blockOf \in Seq(Nat), NEW more \in Seq(Nat), InOrder(blockOf, height),
                 \A i \in DOMAIN more : more[i] = height + 1
          PROVE  InOrder(blockOf \o more, height + 1)
      <3> DEFINE all == blockOf \o more
      <3>1. all \in Seq(Nat) /\ Len(all) = Len(blockOf) + Len(more)
        OBVIOUS
      <3>2. ASSUME NEW i \in DOMAIN all
            PROVE  IF i <= Len(blockOf) THEN i \in DOMAIN blockOf /\ all[i] = blockOf[i]
                   ELSE all[i] = height + 1
        <4>1. CASE i <= Len(blockOf)
          BY <4>1
        <4>2. CASE ~(i <= Len(blockOf))
          <5>1. i - Len(blockOf) \in DOMAIN more /\ all[i] = more[i - Len(blockOf)]
            BY <4>2
          <5> QED
            BY <2>1, <2>3, <4>2, <5>1
        <4> QED
          BY <4>1, <4>2
      <3>3. \A i \in DOMAIN all : i \in Nat
        BY <3>1
      <3> HIDE DEF all
      <3>4. \A i \in DOMAIN all : all[i] \in Nat /\ fromHeight < all[i] /\ all[i] <= height + 1
        <4> SUFFICES ASSUME NEW i \in DOMAIN all
                     PROVE  all[i] \in Nat /\ fromHeight < all[i] /\ all[i] <= height + 1
          OBVIOUS
        <4>1. CASE i <= Len(blockOf)
          BY <2>2, <2>3, <3>2, <4>1 DEF InOrder
        <4>2. CASE ~(i <= Len(blockOf))
          BY <2>2, <3>2, <4>2, HeightAssumption DEF Heights
        <4> QED
          BY <4>1, <4>2
      <3>5. ASSUME NEW i \in DOMAIN all, NEW j \in DOMAIN all, i <= j PROVE all[i] <= all[j]
        <4>1. CASE j <= Len(blockOf)
          <5>1. i <= Len(blockOf)
            BY <3>3, <3>5, <4>1
          <5> QED
            BY <2>3, <3>2, <3>5, <4>1, <5>1 DEF InOrder
        <4>2. CASE ~(j <= Len(blockOf))
          BY <3>2, <3>4, <4>2
        <4> QED
          BY <4>1, <4>2
      <3> QED
        BY <2>1, <3>4, <3>5 DEF InOrder, all
    <2>4. InOrder(messageBlock', height') /\ InOrder(updateBlock', height')
      <3>1. InOrder(messageBlock, height) /\ InOrder(updateBlock, height)
        BY DEF Heights
      <3> QED
        BY <1>2, <2>1, <2>2, <2>3, <3>1, MineAppends DEF Longer
    <2> QED
      BY <2>1, <2>4, HeightAssumption DEF Heights, InOrder
  <1> QED
    BY <1>1, <1>2
       DEF Next, vars, homeVars, Accept, OthersProcess, SyncMessages, SyncUpdates, ProverSync, Look,
           Process, Advance, ProcessReverts, LeafNotFound, InvalidLocalRoot, Crash, StartAll, StartTasks

(* What a step does to the two syncs, and the faults it is counted as.     *)
Quiet == UNCHANGED <<height, messageBlock, updateBlock, messagesVars, updatesVars>>

MinesOn ==
  /\ height' = height + 1 /\ UNCHANGED <<messagesVars, updatesVars, faults>>
  /\ Longer(messageBlock, messageBlock') /\ Longer(updateBlock, updateBlock')

ReadsMessages(omitted) ==
  /\ Polled(messagesDb, messagesTask, messagesDb', messagesTask', height, messageBlock, omitted)
  /\ UNCHANGED <<height, messageBlock, updateBlock, updatesVars>>

ReadsUpdates(omitted) ==
  /\ Polled(updatesDb, updatesTask, updatesDb', updatesTask', height, updateBlock, omitted)
  /\ UNCHANGED <<height, messageBlock, updateBlock, messagesVars>>

StartsAgain ==
  /\ Restarted(messagesDb, messagesDb', messagesTask')
  /\ Restarted(updatesDb, updatesDb', updatesTask')
  /\ UNCHANGED <<height, messageBlock, updateBlock>>

SyncStep ==
  \/ Quiet /\ faults' \in {faults, faults + 1}
  \/ MinesOn
  \/ SyncMessages /\ \E omitted \in mayOmit(messagesDb) :
       ReadsMessages(omitted) /\ faults' = faults + Cardinality(omitted)
  \/ SyncUpdates /\ \E omitted \in mayOmit(updatesDb) :
       ReadsUpdates(omitted) /\ faults' = faults + Cardinality(omitted)
  \/ StartsAgain /\ UNCHANGED <<messagesDb, updatesDb, faults>>
  \/ Crash /\ StartsAgain /\ faults < MaxFaults /\ faults' = faults + 1

BothBounded == Bounded(messagesDb, messagesTask, height) /\ Bounded(updatesDb, updatesTask, height)

(* Every step is one of these. *)
LEMMA StepsOfSyncs ==
  ASSUME IInv, Heights, BothBounded, [Next]_vars, [GoesBack]_vars
  PROVE  SyncStep
  <1>1. holds(messagesDb, Events(messageBlock)) /\ holds(updatesDb, Events(updateBlock))
    BY DEF IInv, ChainTypes, StoredExist, Leaves, Events
  <1>2. height \in Nat /\ height <= MaxHeight
    BY DEF Heights
  <1>3. CASE UNCHANGED vars
    BY <1>3 DEF SyncStep, Quiet, vars, homeVars
  <1>4. CASE Mine
    BY <1>4, MineAppends DEF SyncStep, MinesOn, Mine
  <1>5. CASE Accept \/ ProverSync \/ Look \/ Process \/ Advance
    BY <1>5 DEF SyncStep, Quiet, homeVars, Accept, ProverSync, Look, Process, Advance
  <1>6. CASE \E leaf \in Leaves : OthersProcess(leaf)
    BY <1>6 DEF SyncStep, Quiet, homeVars, OthersProcess
  <1>7. ASSUME SyncMessages, GoesBack PROVE SyncStep
    <2>1. PICK omitted \in mayOmit(messagesDb) :
            M!Poll(height, messageBlock, omitted) /\ faults' = faults + Cardinality(omitted)
      BY <1>7 DEF SyncMessages
    <2>2. Polled(messagesDb, messagesTask, messagesDb', messagesTask', height, messageBlock, omitted)
      BY <1>1, <1>2, <1>7, <2>1, MReads DEF BothBounded
    <2>3. ReadsMessages(omitted)
      BY <1>7, <2>2 DEF ReadsMessages, SyncMessages, homeVars
    <2> QED
      BY <1>7, <2>1, <2>3 DEF SyncStep
  <1>8. ASSUME SyncUpdates, GoesBack PROVE SyncStep
    <2>1. PICK omitted \in mayOmit(updatesDb) :
            U!Poll(height, updateBlock, omitted) /\ faults' = faults + Cardinality(omitted)
      BY <1>8 DEF SyncUpdates
    <2>2. Polled(updatesDb, updatesTask, updatesDb', updatesTask', height, updateBlock, omitted)
      BY <1>1, <1>2, <1>8, <2>1, UReads DEF BothBounded
    <2>3. ReadsUpdates(omitted)
      BY <1>8, <2>2 DEF ReadsUpdates, SyncUpdates, homeVars
    <2> QED
      BY <1>8, <2>1, <2>3 DEF SyncStep
  <1>9. CASE ProcessReverts \/ LeafNotFound \/ InvalidLocalRoot
    <2>1. M!Restart /\ U!Restart /\ UNCHANGED <<height, messageBlock, updateBlock, faults>>
      BY <1>9 DEF ProcessReverts, LeafNotFound, InvalidLocalRoot, StartAll, StartTasks, homeVars
    <2>2. StartsAgain
      BY <1>1, <2>1, MRestarts, URestarts DEF StartsAgain
    <2> QED
      BY <2>1, <2>2 DEF SyncStep, M!Restart, U!Restart
  <1>10. CASE Crash
    <2>1. /\ M!Restart \/ M!Crash(height, messageBlock)
          /\ U!Restart \/ U!Crash(height, updateBlock)
          /\ UNCHANGED <<height, messageBlock, updateBlock>>
          /\ faults < MaxFaults /\ faults' = faults + 1
      BY <1>10 DEF Crash, StartTasks, homeVars
    <2>2. StartsAgain
      BY <1>1, <2>1, MRestarts, URestarts DEF StartsAgain
    <2> QED
      BY <1>10, <2>1, <2>2 DEF SyncStep
  <1>11. CASE UNCHANGED vars \/ (Next /\ GoesBack)
    BY <1>3, <1>4, <1>5, <1>6, <1>7, <1>8, <1>9, <1>10, <1>11 DEF Next
  <1> QED
    BY <1>11

(***************************************************************************)
(* Complete answers and any number of crashes                              *)
(***************************************************************************)

(* The node answers with all events of the range.                          *)
AnswersAreComplete ==
  /\ SyncMessages => M!Poll(height, messageBlock, {})
  /\ SyncUpdates => U!Poll(height, updateBlock, {})

BothAhead ==
  Ahead(messagesDb, messagesTask, messageBlock) /\ Ahead(updatesDb, updatesTask, updateBlock)

(* The beginning, for either invariant. *)
LEMMA InitSyncs ==
  ASSUME Init
  PROVE  /\ Heights /\ BothBounded /\ BothAhead /\ faults = 0
         /\ Fresh(messagesDb) /\ Fresh(updatesDb)
  <1>1. height = fromHeight /\ messageBlock = << >> /\ updateBlock = << >> /\ faults = 0
    BY DEF Init
  <1>2. messagesDb = M!EmptyDb /\ messagesTask = M!Started(messagesDb)
    BY DEF Init, M!Init
  <1>3. updatesDb = U!EmptyDb /\ updatesTask = U!Started(updatesDb)
    BY DEF Init, U!Init
  <1>4. Heights
    BY <1>1, HeightAssumption DEF Heights, InOrder
  <1>5. BothBounded
    BY <1>1, <1>2, <1>3, HeightAssumption
       DEF BothBounded, Bounded, isTask, M!EmptyDb, M!Started, U!EmptyDb, U!Started
  <1>6. BothAhead
    BY <1>1 DEF BothAhead, Ahead, Events
  <1> QED
    BY <1>1, <1>2, <1>3, <1>4, <1>5, <1>6 DEF Fresh, M!EmptyDb, U!EmptyDb

(* Every step keeps the syncs within the chain. *)
LEMMA BoundedKept ==
  ASSUME IInv, Heights, BothBounded, SyncStep
  PROVE  BothBounded'
  <1> USE DEF BothBounded
  <1>1. /\ messageBlock \in Seq(Nat) /\ updateBlock \in Seq(Nat) /\ height \in Nat /\ fromHeight <= height
        /\ InOrder(messageBlock, height) /\ InOrder(updateBlock, height)
    BY DEF IInv, ChainTypes, Heights
  <1>2. CASE Quiet
    BY <1>2 DEF Quiet, messagesVars, updatesVars, Bounded, isTask
  <1>3. CASE MinesOn
    <2>1. \A d, t : Bounded(d, t, height) => Bounded(d, t, height + 1)
      BY <1>1 DEF Bounded, isTask
    <2>2. Bounded(messagesDb, messagesTask, height + 1) /\ Bounded(updatesDb, updatesTask, height + 1)
      BY <2>1
    <2> QED
      BY <1>3, <2>2 DEF MinesOn, messagesVars, updatesVars
  <1>4. ASSUME NEW omitted, ReadsMessages(omitted) PROVE BothBounded'
    <2>1. Bounded(messagesDb', messagesTask', height)
      BY <1>1, <1>4, PollBounded DEF ReadsMessages
    <2> QED
      BY <1>4, <2>1 DEF ReadsMessages, updatesVars
  <1>5. ASSUME NEW omitted, ReadsUpdates(omitted) PROVE BothBounded'
    <2>1. Bounded(updatesDb', updatesTask', height)
      BY <1>1, <1>5, PollBounded DEF ReadsUpdates
    <2> QED
      BY <1>5, <2>1 DEF ReadsUpdates, messagesVars
  <1>6. CASE StartsAgain
    <2>1. Bounded(messagesDb', messagesTask', height) /\ Bounded(updatesDb', updatesTask', height)
      BY <1>1, <1>6, RestartAhead DEF StartsAgain
    <2> QED
      BY <1>6, <2>1 DEF StartsAgain
  <1> QED
    BY <1>2, <1>3, <1>4, <1>5, <1>6 DEF SyncStep

(* Nothing is passed over by mining, a complete answer, or a restart.      *)
LEMMA AheadKept ==
  ASSUME IInv, Heights, BothBounded, BothAhead,
         Quiet \/ MinesOn \/ ReadsMessages({}) \/ ReadsUpdates({}) \/ StartsAgain
  PROVE  BothAhead'
  <1> USE DEF BothBounded, BothAhead
  <1>1. /\ messageBlock \in Seq(Nat) /\ updateBlock \in Seq(Nat) /\ height \in Nat /\ fromHeight <= height
        /\ InOrder(messageBlock, height) /\ InOrder(updateBlock, height)
    BY DEF IInv, ChainTypes, Heights
  <1>2. CASE Quiet
    BY <1>2 DEF Quiet, messagesVars, updatesVars
  <1>3. CASE MinesOn
    <2>1. Ahead(messagesDb, messagesTask, messageBlock')
      <3>1. PICK more \in Seq(Nat) :
              messageBlock' = messageBlock \o more /\ \A i \in DOMAIN more : more[i] = height + 1
        BY <1>3 DEF MinesOn, Longer
      <3>2. Ahead(messagesDb, messagesTask, messageBlock \o more)
        BY <1>1, <3>1, NewEventsAhead
      <3> QED
        BY <3>1, <3>2
    <2>2. Ahead(updatesDb, updatesTask, updateBlock')
      <3>1. PICK more \in Seq(Nat) :
              updateBlock' = updateBlock \o more /\ \A i \in DOMAIN more : more[i] = height + 1
        BY <1>3 DEF MinesOn, Longer
      <3>2. Ahead(updatesDb, updatesTask, updateBlock \o more)
        BY <1>1, <3>1, NewEventsAhead
      <3> QED
        BY <3>1, <3>2
    <2> QED
      BY <1>3, <2>1, <2>2 DEF MinesOn, messagesVars, updatesVars
  <1>4. CASE ReadsMessages({})
    <2>1. Ahead(messagesDb', messagesTask', messageBlock)
      BY <1>1, <1>4, CompleteAnswerAhead DEF ReadsMessages
    <2> QED
      BY <1>4, <2>1 DEF ReadsMessages, updatesVars
  <1>5. CASE ReadsUpdates({})
    <2>1. Ahead(updatesDb', updatesTask', updateBlock)
      BY <1>1, <1>5, CompleteAnswerAhead DEF ReadsUpdates
    <2> QED
      BY <1>5, <2>1 DEF ReadsUpdates, messagesVars
  <1>6. CASE StartsAgain
    <2>1. Ahead(messagesDb', messagesTask', messageBlock) /\ Ahead(updatesDb', updatesTask', updateBlock)
      BY <1>1, <1>6, RestartAhead DEF StartsAgain
    <2> QED
      BY <1>6, <2>1 DEF StartsAgain
  <1> QED
    BY <1>2, <1>3, <1>4, <1>5, <1>6

CompleteInv == IInv /\ Heights /\ BothBounded /\ BothAhead

(* With complete answers, what is not stored is ahead of either sync.      *)
LEMMA CompleteKept ==
  ASSUME CompleteInv, [Next]_vars, [GoesBack /\ AnswersAreComplete]_vars
  PROVE  CompleteInv'
  <1> USE DEF CompleteInv
  <1>1. IInv' /\ Heights'
    BY StepsKeepDone, HeightsKept
  <1>2. CASE UNCHANGED vars
    <2>1. Quiet
      BY <1>2 DEF Quiet, vars, homeVars
    <2>2. BothBounded' /\ BothAhead'
      BY <2>1, AheadKept DEF Quiet, BothBounded, Bounded, isTask, messagesVars, updatesVars
    <2> QED
      BY <1>1, <2>2
  <1>3. CASE AnswersAreComplete /\ GoesBack
    <2>1. SyncStep
      BY <1>3, StepsOfSyncs
    <2>2. SyncMessages => ReadsMessages({})
      <3> SUFFICES ASSUME SyncMessages PROVE ReadsMessages({})
        OBVIOUS
      <3>1. holds(messagesDb, Events(messageBlock)) /\ height \in Nat /\ height <= MaxHeight
        BY DEF IInv, StoredExist, Leaves, Events, Heights
      <3>2. Polled(messagesDb, messagesTask, messagesDb', messagesTask', height, messageBlock, {})
        BY <1>3, <3>1, MReads DEF AnswersAreComplete, BothBounded
      <3> QED
        BY <3>2 DEF ReadsMessages, SyncMessages, homeVars
    <2>3. SyncUpdates => ReadsUpdates({})
      <3> SUFFICES ASSUME SyncUpdates PROVE ReadsUpdates({})
        OBVIOUS
      <3>1. holds(updatesDb, Events(updateBlock)) /\ height \in Nat /\ height <= MaxHeight
        BY DEF IInv, ChainTypes, StoredExist, Events, Heights
      <3>2. Polled(updatesDb, updatesTask, updatesDb', updatesTask', height, updateBlock, {})
        BY <1>3, <3>1, UReads DEF AnswersAreComplete, BothBounded
      <3> QED
        BY <3>2 DEF ReadsUpdates, SyncUpdates, homeVars
    <2>4. BothBounded'
      BY <2>1, BoundedKept
    <2>5. BothAhead'
      BY <2>1, <2>2, <2>3, AheadKept DEF SyncStep
    <2> QED
      BY <1>1, <2>4, <2>5
  <1> QED
    BY <1>2, <1>3

(* What is not stored is not behind the end that is. *)
LEMMA AheadLosesNothing ==
  ASSUME NEW d, NEW t, NEW blockOf \in Seq(Nat), Bounded(d, t, height), height \in Nat,
         Ahead(d, t, blockOf)
  PROVE  noneLost(d, blockOf)
  <1> SUFFICES ASSUME NEW e \in Events(blockOf), d.blockEnd # None, blockOf[e + 1] <= d.blockEnd
               PROVE  e \in d.stored
    BY DEF noneLost, Events
  <1>1. blockOf[e + 1] \in Nat /\ d.blockEnd \in Nat
    BY DEF Events, Bounded
  <1> QED
    BY <1>1 DEF Ahead

(* And what is stored without a gap is not lost. *)
LEMMA GaplessLosesNothing ==
  ASSUME NEW d, NEW blockOf \in Seq(Nat), Gapless(d)
  PROVE  noneLost(d, blockOf)
  <1> SUFFICES ASSUME NEW e \in 0..(Len(blockOf) - 1) PROVE e \in d.stored \/ e > d.latest
    BY DEF noneLost
  <1> QED
    BY DEF Gapless

(* However often the process crashes, between whichever writes, a sync     *)
(* loses no event if the nodes it asks leave none out, and if it does not  *)
(* go back below block 0.                                                  *)
THEOREM ProcessorLosesNothingByCrashes ==
  Spec /\ [][GoesBack /\ AnswersAreComplete]_vars => []NoEventIsLost
  <1>1. Init => CompleteInv
    BY InitIsDone, InitSyncs DEF CompleteInv
  <1>2. CompleteInv /\ [Next]_vars /\ [GoesBack /\ AnswersAreComplete]_vars => CompleteInv'
    BY CompleteKept
  <1>3. CompleteInv => NoEventIsLost
    <2> SUFFICES ASSUME CompleteInv PROVE NoEventIsLost
      OBVIOUS
    <2>1. messageBlock \in Seq(Nat) /\ updateBlock \in Seq(Nat) /\ height \in Nat
      BY DEF CompleteInv, IInv, ChainTypes
    <2>2. noneLost(messagesDb, messageBlock) /\ noneLost(updatesDb, updateBlock)
      BY <2>1, AheadLosesNothing DEF CompleteInv, BothBounded, BothAhead
    <2> QED
      BY <2>2 DEF NoEventIsLost
  <1> QED
    BY <1>1, <1>2, <1>3, PTL DEF Spec

(***************************************************************************)
(* One fault of any kind                                                   *)
(***************************************************************************)

(* Before the fault a sync has everything up to its place; after an        *)
(* omission it has everything up to its latest event, after a crash        *)
(* everything else is ahead of it.                                         *)
Intact(d, t, blockOf) == Ahead(d, t, blockOf) /\ (Fresh(d) \/ Gapless(d))
AfterFault(d, t, blockOf) == Ahead(d, t, blockOf) \/ Gapless(d)

BothIntact ==
  /\ Intact(messagesDb, messagesTask, messageBlock)
  /\ Intact(updatesDb, updatesTask, updateBlock)
BothAfterFault ==
  /\ AfterFault(messagesDb, messagesTask, messageBlock)
  /\ AfterFault(updatesDb, updatesTask, updateBlock)

OneFaultInv ==
  /\ IInv /\ Heights /\ BothBounded
  /\ faults \in Nat /\ (faults = 0 => BothIntact) /\ BothAfterFault

(* A complete answer does no harm. *)
LEMMA CompleteAnswerKeeps ==
  ASSUME NEW d, NEW newDb, NEW newTask, NEW t, NEW blockOf \in Seq(Nat), height \in Nat,
         InOrder(blockOf, height), Bounded(d, t, height),
         Polled(d, t, newDb, newTask, height, blockOf, {})
  PROVE  /\ Intact(d, t, blockOf) => Intact(newDb, newTask, blockOf)
         /\ AfterFault(d, t, blockOf) => AfterFault(newDb, newTask, blockOf)
  <1>1. Ahead(d, t, blockOf) => Ahead(newDb, newTask, blockOf)
    BY CompleteAnswerAhead
  <1>2. Gapless(d) => Gapless(newDb)
    BY PollGapless
  <1>3. Ahead(d, t, blockOf) /\ Fresh(d) => Fresh(newDb) \/ Gapless(newDb)
    BY FirstAnswer
  <1> QED
    BY <1>1, <1>2, <1>3 DEF Intact, AfterFault

(* Nor does a new block. *)
LEMMA NewBlockKeeps ==
  ASSUME NEW d, NEW t, NEW blockOf \in Seq(Nat), NEW after, Longer(blockOf, after),
         height \in Nat, Bounded(d, t, height)
  PROVE  /\ Intact(d, t, blockOf) => Intact(d, t, after)
         /\ AfterFault(d, t, blockOf) => AfterFault(d, t, after)
  <1>1. PICK more \in Seq(Nat) :
          after = blockOf \o more /\ \A i \in DOMAIN more : more[i] = height + 1
    BY DEF Longer
  <1>2. Ahead(d, t, blockOf) => Ahead(d, t, blockOf \o more)
    BY <1>1, NewEventsAhead
  <1> QED
    BY <1>1, <1>2 DEF Intact, AfterFault

(* The one fault of an omission is after the first answer with an event,   *)
(* so it leaves no gap.                                                    *)
LEMMA OmissionIsLast ==
  ASSUME NEW sync, NEW omitted \in mayOmit(sync), omitted # {}, MaxFaults \in 0..1, faults \in Nat
  PROVE  faults = 0 /\ sync.latest # None /\ Cardinality(omitted) = 1
  <1>1. faults < MaxFaults /\ sync.latest # None
    BY DEF mayOmit
  <1>2. PICK e : omitted = {e}
    BY DEF mayOmit
  <1>3. Cardinality(omitted) = 1
    BY <1>2, FS_Singleton
  <1>4. faults = 0
    BY <1>1
  <1> QED
    BY <1>1, <1>3, <1>4

(* Each step, before and after the fault. *)
LEMMA OneFaultKept ==
  ASSUME MaxFaults \in 0..1, OneFaultInv, [Next]_vars, [GoesBack]_vars
  PROVE  OneFaultInv'
  <1> USE DEF OneFaultInv
  <1>1. IInv' /\ Heights'
    BY StepsKeepDone, HeightsKept
  <1>2. SyncStep
    BY StepsOfSyncs
  <1>3. BothBounded'
    BY <1>2, BoundedKept
  <1>4. /\ messageBlock \in Seq(Nat) /\ updateBlock \in Seq(Nat) /\ height \in Nat /\ fromHeight <= height
        /\ InOrder(messageBlock, height) /\ InOrder(updateBlock, height)
        /\ Bounded(messagesDb, messagesTask, height) /\ Bounded(updatesDb, updatesTask, height)
    BY DEF IInv, ChainTypes, Heights, BothBounded
  <1> DEFINE Kept == faults' \in Nat /\ (faults' = 0 => BothIntact') /\ BothAfterFault'
  <1>5. ASSUME Quiet, faults' \in {faults, faults + 1} PROVE Kept
    <2>1. UNCHANGED <<messageBlock, updateBlock, messagesDb, messagesTask, updatesDb, updatesTask>>
      BY <1>5 DEF Quiet, messagesVars, updatesVars
    <2>2. (BothIntact => BothIntact') /\ (BothAfterFault => BothAfterFault')
      BY <2>1 DEF BothIntact, BothAfterFault, Intact, AfterFault
    <2>3. faults' \in Nat /\ (faults' = 0 => faults = 0)
      BY <1>5
    <2> QED
      BY <2>2, <2>3
  <1>6. ASSUME MinesOn PROVE Kept
    <2>1. UNCHANGED <<messagesDb, messagesTask, updatesDb, updatesTask, faults>>
      BY <1>6 DEF MinesOn, messagesVars, updatesVars
    <2>2. /\ Intact(messagesDb, messagesTask, messageBlock) =>
               Intact(messagesDb, messagesTask, messageBlock')
          /\ AfterFault(messagesDb, messagesTask, messageBlock) =>
               AfterFault(messagesDb, messagesTask, messageBlock')
      BY <1>4, <1>6, NewBlockKeeps DEF MinesOn
    <2>3. /\ Intact(updatesDb, updatesTask, updateBlock) =>
               Intact(updatesDb, updatesTask, updateBlock')
          /\ AfterFault(updatesDb, updatesTask, updateBlock) =>
               AfterFault(updatesDb, updatesTask, updateBlock')
      BY <1>4, <1>6, NewBlockKeeps DEF MinesOn
    <2>4. (BothIntact => BothIntact') /\ (BothAfterFault => BothAfterFault')
      BY <2>1, <2>2, <2>3 DEF BothIntact, BothAfterFault
    <2> QED
      BY <2>1, <2>4
  <1>7. ASSUME NEW omitted \in mayOmit(messagesDb), ReadsMessages(omitted),
               faults' = faults + Cardinality(omitted)
        PROVE  Kept
    <2>1. UNCHANGED <<messageBlock, updateBlock, updatesDb, updatesTask>>
      BY <1>7 DEF ReadsMessages, updatesVars
    <2>2. CASE omitted = {}
      <3>1. faults' = faults
        BY <1>7, <2>2, FS_EmptySet
      <3>2. /\ Intact(messagesDb, messagesTask, messageBlock) =>
                 Intact(messagesDb', messagesTask', messageBlock)
            /\ AfterFault(messagesDb, messagesTask, messageBlock) =>
                 AfterFault(messagesDb', messagesTask', messageBlock)
        BY <1>4, <1>7, <2>2, CompleteAnswerKeeps DEF ReadsMessages
      <3> QED
        BY <2>1, <3>1, <3>2 DEF BothIntact, BothAfterFault
    <2>3. CASE omitted # {}
      <3>1. faults = 0 /\ messagesDb.latest # None /\ faults' = 1
        BY <1>7, <2>3, OmissionIsLast
      <3>2. Gapless(messagesDb)
        BY <3>1 DEF BothIntact, Intact, Fresh
      <3>3. Gapless(messagesDb')
        BY <1>4, <1>7, <3>2, PollGapless DEF ReadsMessages
      <3> QED
        BY <2>1, <3>1, <3>3 DEF BothAfterFault, AfterFault
    <2> QED
      BY <2>2, <2>3
  <1>8. ASSUME NEW omitted \in mayOmit(updatesDb), ReadsUpdates(omitted),
               faults' = faults + Cardinality(omitted)
        PROVE  Kept
    <2>1. UNCHANGED <<messageBlock, updateBlock, messagesDb, messagesTask>>
      BY <1>8 DEF ReadsUpdates, messagesVars
    <2>2. CASE omitted = {}
      <3>1. faults' = faults
        BY <1>8, <2>2, FS_EmptySet
      <3>2. /\ Intact(updatesDb, updatesTask, updateBlock) =>
                 Intact(updatesDb', updatesTask', updateBlock)
            /\ AfterFault(updatesDb, updatesTask, updateBlock) =>
                 AfterFault(updatesDb', updatesTask', updateBlock)
        BY <1>4, <1>8, <2>2, CompleteAnswerKeeps DEF ReadsUpdates
      <3> QED
        BY <2>1, <3>1, <3>2 DEF BothIntact, BothAfterFault
    <2>3. CASE omitted # {}
      <3>1. faults = 0 /\ updatesDb.latest # None /\ faults' = 1
        BY <1>8, <2>3, OmissionIsLast
      <3>2. Gapless(updatesDb)
        BY <3>1 DEF BothIntact, Intact, Fresh
      <3>3. Gapless(updatesDb')
        BY <1>4, <1>8, <3>2, PollGapless DEF ReadsUpdates
      <3> QED
        BY <2>1, <3>1, <3>3 DEF BothAfterFault, AfterFault
    <2> QED
      BY <2>2, <2>3
  <1>9. ASSUME StartsAgain,
               \/ UNCHANGED <<messagesDb, updatesDb, faults>>
               \/ faults < MaxFaults /\ faults' = faults + 1
        PROVE  Kept
    <2>1. /\ Ahead(messagesDb, messagesTask, messageBlock) =>
               Ahead(messagesDb', messagesTask', messageBlock)
          /\ Ahead(updatesDb, updatesTask, updateBlock) =>
               Ahead(updatesDb', updatesTask', updateBlock)
          /\ UNCHANGED <<messageBlock, updateBlock>>
      BY <1>4, <1>9, RestartAhead DEF StartsAgain
    <2>2. CASE UNCHANGED <<messagesDb, updatesDb, faults>>
      <3>1. (BothIntact => BothIntact') /\ (BothAfterFault => BothAfterFault')
        BY <2>1, <2>2 DEF BothIntact, BothAfterFault, Intact, AfterFault
      <3> QED
        BY <2>2, <3>1
    <2>3. CASE faults < MaxFaults /\ faults' = faults + 1
      <3>1. faults = 0 /\ faults' = 1
        BY <2>3
      <3>2. BothIntact => BothAfterFault'
        BY <2>1 DEF BothIntact, BothAfterFault, Intact, AfterFault
      <3> QED
        BY <3>1, <3>2
    <2> QED
      BY <1>9, <2>2, <2>3
  <1> HIDE DEF Kept
  <1>10. Kept
    BY <1>2, <1>5, <1>6, <1>7, <1>8, <1>9 DEF SyncStep
  <1> QED
    BY <1>1, <1>3, <1>10 DEF Kept

(* One fault, be it a crash between two writes, an incomplete answer or a  *)
(* transaction of somebody else, costs no event, as long as a sync does    *)
(* not go back below block 0.                                              *)
THEOREM ProcessorNoEventIsLost ==
  ASSUME MaxFaults \in 0..1
  PROVE  Spec /\ [][GoesBack]_vars => []NoEventIsLost
  <1>1. Init => OneFaultInv
    BY InitIsDone, InitSyncs
       DEF OneFaultInv, BothIntact, BothAfterFault, Intact, AfterFault, BothAhead
  <1>2. OneFaultInv /\ [Next]_vars /\ [GoesBack]_vars => OneFaultInv'
    BY OneFaultKept
  <1>3. OneFaultInv => NoEventIsLost
    <2> SUFFICES ASSUME OneFaultInv PROVE NoEventIsLost
      OBVIOUS
    <2>1. messageBlock \in Seq(Nat) /\ updateBlock \in Seq(Nat) /\ height \in Nat
      BY DEF OneFaultInv, IInv, ChainTypes
    <2>2. noneLost(messagesDb, messageBlock)
      BY <2>1, AheadLosesNothing, GaplessLosesNothing
         DEF OneFaultInv, BothBounded, BothAfterFault, AfterFault
    <2>3. noneLost(updatesDb, updateBlock)
      BY <2>1, AheadLosesNothing, GaplessLosesNothing
         DEF OneFaultInv, BothBounded, BothAfterFault, AfterFault
    <2> QED
      BY <2>2, <2>3 DEF NoEventIsLost
  <1> QED
    BY <1>1, <1>2, <1>3, PTL DEF Spec

(***************************************************************************)
(* Incomplete answers and no crash in a poll                               *)
(***************************************************************************)

(* A process that crashes does so between two polls. *)
CrashesAtRest == Crash => UNCHANGED <<messagesDb, updatesDb>>

WithoutGap(d, t, blockOf) == Gapless(d) \/ (Fresh(d) /\ Ahead(d, t, blockOf))

BothWithoutGap ==
  /\ WithoutGap(messagesDb, messagesTask, messageBlock)
  /\ WithoutGap(updatesDb, updatesTask, updateBlock)

GaplessInv == IInv /\ Heights /\ BothBounded /\ BothWithoutGap

(* An answer before the first event is complete; after it no answer makes a *)
(* gap.                                                                     *)
LEMMA AnyAnswerLeavesNoGap ==
  ASSUME NEW d, NEW newDb, NEW newTask, NEW t, NEW blockOf \in Seq(Nat), height \in Nat,
         InOrder(blockOf, height), Bounded(d, t, height), NEW omitted \in mayOmit(d),
         Polled(d, t, newDb, newTask, height, blockOf, omitted), WithoutGap(d, t, blockOf)
  PROVE  WithoutGap(newDb, newTask, blockOf)
  <1>1. CASE Gapless(d)
    BY <1>1, PollGapless DEF WithoutGap
  <1>2. CASE Fresh(d) /\ Ahead(d, t, blockOf)
    <2>1. omitted = {}
      BY <1>2 DEF mayOmit, Fresh
    <2>2. Ahead(newDb, newTask, blockOf)
      BY <1>2, <2>1, CompleteAnswerAhead
    <2>3. Fresh(newDb) \/ Gapless(newDb)
      BY <1>2, <2>1, FirstAnswer
    <2> QED
      BY <2>2, <2>3 DEF WithoutGap
  <1> QED
    BY <1>1, <1>2 DEF WithoutGap

(* Each step, if the process ends between polls only. *)
LEMMA GaplessKept ==
  ASSUME GaplessInv, [Next]_vars, [GoesBack /\ CrashesAtRest]_vars
  PROVE  GaplessInv'
  <1> USE DEF GaplessInv
  <1>1. IInv' /\ Heights'
    BY StepsKeepDone, HeightsKept
  <1>2. SyncStep
    BY StepsOfSyncs
  <1>3. BothBounded'
    BY <1>2, BoundedKept
  <1>4. /\ messageBlock \in Seq(Nat) /\ updateBlock \in Seq(Nat) /\ height \in Nat /\ fromHeight <= height
        /\ InOrder(messageBlock, height) /\ InOrder(updateBlock, height)
        /\ Bounded(messagesDb, messagesTask, height) /\ Bounded(updatesDb, updatesTask, height)
    BY DEF IInv, ChainTypes, Heights, BothBounded
  <1>5. ASSUME Quiet PROVE BothWithoutGap'
    BY <1>5 DEF Quiet, messagesVars, updatesVars, BothWithoutGap
  <1>6. ASSUME MinesOn PROVE BothWithoutGap'
    <2>1. UNCHANGED <<messagesDb, messagesTask, updatesDb, updatesTask>>
      BY <1>6 DEF MinesOn, messagesVars, updatesVars
    <2>2. PICK more \in Seq(Nat) :
            messageBlock' = messageBlock \o more /\ \A i \in DOMAIN more : more[i] = height + 1
      BY <1>6 DEF MinesOn, Longer
    <2>3. Ahead(messagesDb, messagesTask, messageBlock) =>
            Ahead(messagesDb, messagesTask, messageBlock')
      BY <1>4, <2>2, NewEventsAhead
    <2>4. PICK newer \in Seq(Nat) :
            updateBlock' = updateBlock \o newer /\ \A i \in DOMAIN newer : newer[i] = height + 1
      BY <1>6 DEF MinesOn, Longer
    <2>5. Ahead(updatesDb, updatesTask, updateBlock) =>
            Ahead(updatesDb, updatesTask, updateBlock')
      BY <1>4, <2>4, NewEventsAhead
    <2> QED
      BY <2>1, <2>3, <2>5 DEF BothWithoutGap, WithoutGap
  <1>7. ASSUME NEW omitted \in mayOmit(messagesDb), ReadsMessages(omitted)
        PROVE  BothWithoutGap'
    <2>1. WithoutGap(messagesDb', messagesTask', messageBlock)
      BY <1>4, <1>7, AnyAnswerLeavesNoGap DEF ReadsMessages, BothWithoutGap
    <2> QED
      BY <1>7, <2>1 DEF ReadsMessages, updatesVars, BothWithoutGap
  <1>8. ASSUME NEW omitted \in mayOmit(updatesDb), ReadsUpdates(omitted)
        PROVE  BothWithoutGap'
    <2>1. WithoutGap(updatesDb', updatesTask', updateBlock)
      BY <1>4, <1>8, AnyAnswerLeavesNoGap DEF ReadsUpdates, BothWithoutGap
    <2> QED
      BY <1>8, <2>1 DEF ReadsUpdates, messagesVars, BothWithoutGap
  <1>9. ASSUME StartsAgain, UNCHANGED <<messagesDb, updatesDb>> PROVE BothWithoutGap'
    <2>1. /\ Ahead(messagesDb, messagesTask, messageBlock) =>
               Ahead(messagesDb', messagesTask', messageBlock)
          /\ Ahead(updatesDb, updatesTask, updateBlock) =>
               Ahead(updatesDb', updatesTask', updateBlock)
          /\ UNCHANGED <<messageBlock, updateBlock>>
      BY <1>4, <1>9, RestartAhead DEF StartsAgain
    <2> QED
      BY <1>9, <2>1 DEF BothWithoutGap, WithoutGap
  <1>10. CASE UNCHANGED vars
    BY <1>1, <1>3, <1>5, <1>10 DEF Quiet, vars, homeVars
  <1>11. CASE Crash /\ CrashesAtRest
    <2>1. holds(messagesDb, Events(messageBlock)) /\ holds(updatesDb, Events(updateBlock))
      BY DEF IInv, ChainTypes, StoredExist, Leaves, Events
    <2>2. /\ M!Restart \/ M!Crash(height, messageBlock)
          /\ U!Restart \/ U!Crash(height, updateBlock)
          /\ UNCHANGED <<height, messageBlock, updateBlock>>
      BY <1>11 DEF Crash, StartTasks, homeVars
    <2>3. StartsAgain
      BY <2>1, <2>2, MRestarts, URestarts DEF StartsAgain
    <2> QED
      BY <1>1, <1>3, <1>9, <1>11, <2>3 DEF CrashesAtRest
  <1>12. CASE ~Crash
    <2>1. \/ Quiet \/ MinesOn
          \/ \E omitted \in mayOmit(messagesDb) : ReadsMessages(omitted)
          \/ \E omitted \in mayOmit(updatesDb) : ReadsUpdates(omitted)
          \/ StartsAgain /\ UNCHANGED <<messagesDb, updatesDb>>
      BY <1>2, <1>12 DEF SyncStep
    <2> QED
      BY <1>1, <1>3, <1>5, <1>6, <1>7, <1>8, <1>9, <2>1
  <1> QED
    BY <1>10, <1>11, <1>12

(* Nor does a sync lose an event by incomplete answers, however many, if   *)
(* the process never ends between two writes of a poll.  So it takes both. *)
THEOREM ProcessorLosesNothingByOmissions ==
  Spec /\ [][GoesBack /\ CrashesAtRest]_vars => []NoEventIsLost
  <1>1. Init => GaplessInv
    BY InitIsDone, InitSyncs DEF GaplessInv, BothWithoutGap, WithoutGap, BothAhead
  <1>2. GaplessInv /\ [Next]_vars /\ [GoesBack /\ CrashesAtRest]_vars => GaplessInv'
    BY GaplessKept
  <1>3. GaplessInv => NoEventIsLost
    <2> SUFFICES ASSUME GaplessInv PROVE NoEventIsLost
      OBVIOUS
    <2>1. messageBlock \in Seq(Nat) /\ updateBlock \in Seq(Nat) /\ height \in Nat
      BY DEF GaplessInv, IInv, ChainTypes
    <2>2. noneLost(messagesDb, messageBlock)
      BY <2>1, AheadLosesNothing, GaplessLosesNothing
         DEF GaplessInv, BothBounded, BothWithoutGap, WithoutGap
    <2>3. noneLost(updatesDb, updateBlock)
      BY <2>1, AheadLosesNothing, GaplessLosesNothing
         DEF GaplessInv, BothBounded, BothWithoutGap, WithoutGap
    <2> QED
      BY <2>2, <2>3 DEF NoEventIsLost
  <1> QED
    BY <1>1, <1>2, <1>3, PTL DEF Spec
=============================================================================
