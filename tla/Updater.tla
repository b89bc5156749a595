------------------------------- MODULE Updater -------------------------------
(***************************************************************************)
(* The updater agent (rust/agents/updater) at its Home.  UpdateProducer    *)
(* signs what Home suggests and stores it, UpdateSubmitter sends what is   *)
(* stored, the indexer records the updates Home has made.  All three read  *)
(* the chain with a timelag: they see `confirmed`, a past state of Home    *)
(* that a reorganization of the chain never undoes.  The process may end   *)
(* at any step and is started again with the same database.                *)
(***************************************************************************)
EXTENDS Message

CONSTANTS
  MaxLeaves, Updaters, Managers,   \* see Home
  MaxReorgs,    \* bound on reorganizations
  MaxCrashes    \* bound on crashes

ASSUME LeavesAssumption == MaxLeaves \in Nat /\ MaxLeaves <= NonceModulus

VARIABLES
  state, updater, committedRoot, nonces, tree, queue,    \* Home, at the head
  updaterManager, managerHome, managerUpdater,
  confirmed,      \* Home as read with the timelag
  produced,       \* DB: UPDATER_PRODUCED_UPDATE, as pairs <<old, new>>
  latestRoot,     \* DB: LATEST_ROOT, Zero if there is none
  producer,       \* at: the producer's next step; root, suggested: its locals
  cursor,         \* the submitter's committed_root, {} while it starts
  reorgs, crashes

headVars ==
  <<state, updater, committedRoot, nonces, tree, queue, updaterManager, managerHome,
    managerUpdater>>
updaterVars ==
  <<headVars, confirmed, produced, latestRoot, producer, cursor, reorgs, crashes>>

H == INSTANCE Home WITH ForgedRoots <- {}

Head1 == [committedRoot |-> committedRoot, nonces |-> nonces, tree |-> tree, queue |-> queue]

Asleep == [at |-> "sleep", root |-> Zero, suggested |-> <<Zero, Zero>>]

UpdaterInit ==
  /\ H!InitRoots
  /\ updaterManager \in Managers
  /\ managerHome = [m \in Managers |-> "this"]
  /\ managerUpdater \in [Managers -> Updaters]
  /\ updater = managerUpdater[updaterManager]
  /\ confirmed = Head1
  /\ produced = {} /\ latestRoot = Zero
  /\ producer = Asleep /\ cursor = {}
  /\ reorgs = 0 /\ crashes = 0

(***************************************************************************)
(* Chain                                                                   *)
(***************************************************************************)

agentVars == <<produced, latestRoot, producer, cursor, crashes>>

Dispatch == H!Dispatch /\ UNCHANGED <<confirmed, agentVars, reorgs>>

Confirm ==
  /\ confirmed' = Head1
  /\ UNCHANGED <<headVars, agentVars, reorgs>>

(* The blocks since the confirmed one are replaced. *)
Reorg ==
  /\ reorgs < MaxReorgs
  /\ reorgs' = reorgs + 1
  /\ committedRoot' = confirmed.committedRoot /\ nonces' = confirmed.nonces
  /\ tree' = confirmed.tree /\ queue' = confirmed.queue
  /\ UNCHANGED <<state, updater, updaterManager, managerHome, managerUpdater>>
  /\ UNCHANGED <<confirmed, agentVars>>

(***************************************************************************)
(* Indexer                                                                 *)
(***************************************************************************)

(* store_latest_update, for the next confirmed update.  Every update of    *)
(* Home was produced here, and the confirmed ones lead to its root.        *)
Index ==
  \E u \in produced :
    /\ u[1] = latestRoot
    /\ Len(u[2]) <= Len(confirmed.committedRoot)
    /\ latestRoot' = u[2]
    /\ UNCHANGED <<headVars, confirmed, produced, producer, cursor, reorgs, crashes>>

(***************************************************************************)
(* UpdateProducer                                                          *)
(***************************************************************************)

producerOnly == UNCHANGED <<headVars, confirmed, latestRoot, cursor, reorgs, crashes>>

find_latest_root ==
  /\ producer.at = "sleep"
  /\ producer' = [producer EXCEPT !.at = "suggest", !.root = latestRoot]
  /\ producerOnly /\ UNCHANGED produced

(* Mutated: read at the head of the chain. *)
produce_updateAtHead ==
  IF H!length(queue) # 0 THEN {<<committedRoot, H!lastItem(queue)>>} ELSE {}

(* home.produce_update, read with the timelag. *)
produce_update ==
  LET q == confirmed.queue IN
  IF H!length(q) # 0 THEN {<<confirmed.committedRoot, H!lastItem(q)>>} ELSE {}

(* Mutated: the database is not asked. *)
hasForgotten(root) == FALSE

hasProduced(root) == \E u \in produced : u[1] = root

mayProduce(s) == s[1] = producer.root /\ ~hasProduced(s[1])

Suggest ==
  /\ producer.at = "suggest"
  /\ \/ \E s \in produce_update :
          /\ mayProduce(s)
          /\ producer' = [producer EXCEPT !.at = "store", !.suggested = s]
     \/ /\ \A s \in produce_update : ~mayProduce(s)
        /\ producer' = Asleep
  /\ producerOnly /\ UNCHANGED produced

(* store_produced_update, once the suggestion is signed. *)
Store ==
  /\ producer.at = "store"
  /\ producer' = Asleep
  /\ produced' = produced \cup {producer.suggested}
  /\ producerOnly

(***************************************************************************)
(* UpdateSubmitter                                                         *)
(***************************************************************************)

Start ==
  /\ cursor = {}
  /\ cursor' = {confirmed.committedRoot}
  /\ UNCHANGED <<headVars, confirmed, produced, latestRoot, producer, reorgs, crashes>>

(* The process ends, with all its tasks, and is started again.             *)
exit == producer' = Asleep /\ cursor' = {}

continueFrom(root) == cursor' = {root} /\ UNCHANGED producer

(* Mutated: looked up by the new root. *)
nextByNewRoot == {u \in produced : u[2] \in cursor}

nextToSubmit == {u \in produced : u[1] \in cursor}

(* home.update is mined; its receipt may be lost, which is an error.       *)
SubmitSucceeds ==
  \E u \in nextToSubmit :
    /\ H!update(u[1], u[2], updater)
    /\ \/ continueFrom(u[2]) /\ UNCHANGED crashes
       \/ crashes < MaxCrashes /\ exit /\ crashes' = crashes + 1
    /\ UNCHANGED <<confirmed, produced, latestRoot, reorgs>>

(* home.update reverts, which is an error if it shows before the           *)
(* transaction is sent, and goes unnoticed if it is mined.                 *)
SubmitReverts ==
  \E u \in nextToSubmit :
    /\ ~H!isCurrentUpdate(u[1], updater)
    /\ exit \/ continueFrom(u[2])
    /\ UNCHANGED <<headVars, confirmed, produced, latestRoot, reorgs, crashes>>

UpdaterCrash ==
  /\ crashes < MaxCrashes
  /\ crashes' = crashes + 1
  /\ exit
  /\ UNCHANGED <<headVars, confirmed, produced, latestRoot, reorgs>>

UpdaterNext ==
  \/ Dispatch \/ Confirm \/ Reorg
  \/ Index
  \/ find_latest_root \/ Suggest \/ Store
  \/ Start \/ SubmitSucceeds \/ SubmitReverts
  \/ UpdaterCrash

(* The tasks loop for ever and the chain moves on. *)
UpdaterFairness ==
  /\ WF_updaterVars(Confirm) /\ WF_updaterVars(Index)
  /\ WF_updaterVars(find_latest_root) /\ WF_updaterVars(Suggest) /\ WF_updaterVars(Store)
  /\ WF_updaterVars(Start) /\ WF_updaterVars(SubmitSucceeds) /\ WF_updaterVars(SubmitReverts)

UpdaterSpec == UpdaterInit /\ [][UpdaterNext]_updaterVars /\ UpdaterFairness

(***************************************************************************)
(* Properties                                                              *)
(***************************************************************************)

Pairs == Root \X Root

(* Types of Home and of the agent's state. *)
UpdaterTypeOK ==
  /\ H!TypeOK
  /\ produced \subseteq Pairs
  /\ latestRoot \in Root
  /\ producer \in [at : {"sleep", "suggest", "store"}, root : Root, suggested : Pairs]
  /\ cursor \subseteq Root

(* The updater never gives out signatures on two updates from one root,    *)
(* which anyone could report as fraud, though it forgets at a crash what   *)
(* it was about and Home suggests another root after each dispatch.        *)
NeverDoubleSigns ==
  \A u, v \in produced : u[1] = v[1] => u = v

(* What the updater has signed never fails its Home: submitted late,       *)
(* again, or on the other side of a reorganization, it is at worst stale.  *)
NeverFailsHome == state = "Active"

(* As long as the chain is not reorganized, all that is dispatched is      *)
(* committed in the end, over and over, whatever crashes and reverts.      *)
AllCommitted == H!length(queue) = 0

UpdatesGetCommitted == [](reorgs = 0) => []<>AllCommitted
=============================================================================
