-------------------------- MODULE OptimisticChannel --------------------------
(***************************************************************************)
(* One direction of the bridge: a Home, a Replica of it on another chain,  *)
(* the enrolment of that Replica with the applications, and the agents     *)
(* that move signatures between the two chains.  The contracts are the     *)
(* modules Home and Replica with a fixed updater; an agent is an actor     *)
(* that sends transactions built from the Update events it has seen.       *)
(*                                                                         *)
(* Forgeries chooses the actor behind the updater's key: the updater       *)
(* agent, which signs what Home suggests, once per committed root, if it   *)
(* is empty, and otherwise someone who signs any of these pairs of roots.  *)
(***************************************************************************)
EXTENDS Message, FiniteSets

CONSTANTS
  MaxLeaves, TimeModulus, MaxTime, localDomain,
  Roots,              \* the roots that may be signed
  Updaters,           \* addresses that may hold the updater role
  Managers,           \* UpdaterManager contracts
  Forgeries,          \* pairs of roots a dishonest updater signs, see above
  MaxSigned,          \* bound on how many of them
  OptimisticSeconds,  \* the Replica's optimisticSeconds, not reconfigured
  WatcherDelay,       \* within how many ticks the watcher has reacted
  ChannelCapacity,    \* see Watcher
  MaxRestarts         \* bound on restarts of the watcher

ASSUME ChannelAssumption ==
  /\ MaxLeaves \in Nat /\ MaxLeaves <= NonceModulus
  /\ Roots \subseteq Root
  /\ localDomain \in Domains
  /\ MaxTime \in Nat \ {0} /\ TimeModulus \in Nat

ASSUME WatcherAssumption ==
  /\ OptimisticSeconds \in Nat /\ WatcherDelay \in Nat
  /\ WatcherDelay < OptimisticSeconds
  /\ MaxTime + OptimisticSeconds < TimeModulus
  /\ ChannelCapacity \in Nat \ {0}
  /\ Forgeries \subseteq Roots \X Roots

VARIABLES
  updater,                                              \* on both chains
  homeState, homeCommitted, nonces, tree, queue,        \* Home
  updaterManager, managerHome, managerUpdater,
  replicaState, replicaCommitted, confirmAt, messages,  \* Replica
  entered, calls, handled, optimisticSeconds, now,
  enrolled,        \* XAppConnectionManager: the Replica may call applications
  signed,          \* the pairs the updater has signed
  homeUpdates,     \* Update events of Home, as an agent's NomadDB indexes them
  replicaUpdates,  \* Update events of the Replica, likewise
  homeCursor, replicaCursor, homeHistory, replicaHistory,   \* Watcher
  inbox, watcherDB, double, failure, todo,
  restarts         \* how often the watcher has restarted

homeVars ==
  <<updater, homeState, homeCommitted, nonces, tree, queue,
    updaterManager, managerHome, managerUpdater>>
replicaVars ==
  <<updater, replicaState, replicaCommitted, confirmAt, messages, entered, calls, handled,
    optimisticSeconds, now>>
eventVars == <<homeUpdates, replicaUpdates>>
agentVars ==
  <<homeCursor, replicaCursor, homeHistory, replicaHistory, inbox, watcherDB, double,
    failure, todo, restarts>>
vars == <<homeVars, replicaVars, enrolled, signed, eventVars, agentVars>>

H == INSTANCE Home WITH
  ForgedRoots <- Roots, state <- homeState, committedRoot <- homeCommitted

R == INSTANCE Replica WITH
  OptimisticTimeouts <- {OptimisticSeconds},
  state <- replicaState, committedRoot <- replicaCommitted

W == INSTANCE Watcher

(* After the deployment: the UpdaterManager serves Home, the Replica has    *)
(* been given the root Home had committed, and is enrolled.                *)
Init ==
  /\ H!InitRoots /\ R!Init
  /\ updaterManager \in Managers
  /\ managerHome = [m \in Managers |-> "this"]
  /\ managerUpdater = [m \in Managers |-> updater]
  /\ replicaCommitted = homeCommitted
  /\ enrolled = TRUE
  /\ signed = {} /\ homeUpdates = W!NoUpdates /\ replicaUpdates = W!NoUpdates
  /\ W!Init(homeCommitted, replicaCommitted) /\ restarts = 0

HonestUpdater == Forgeries = {}

(***************************************************************************)
(* Users and the updater                                                   *)
(***************************************************************************)

Dispatch == H!Dispatch /\ UNCHANGED <<replicaVars, enrolled, signed, eventVars, agentVars>>

(* The updater agent signs the suggestion for a committed root it has      *)
(* signed nothing on yet.                                                  *)
SignSuggestion ==
  LET p == H!suggestUpdate IN
  /\ HonestUpdater
  /\ p # <<Zero, Zero>>
  /\ \A q \in signed : q[1] # p[1]
  /\ signed' = signed \cup {p}
  /\ UNCHANGED <<homeVars, replicaVars, enrolled, eventVars, agentVars>>

(* The pairs that carry a signature, or can be given one. *)
Signatures ==
  signed \cup (IF Cardinality(signed) < MaxSigned THEN Forgeries ELSE {})

(* A transaction to Home.update: it commits, with an Update event, or it   *)
(* fails the Home.                                                         *)
UpdateHome(p) ==
  /\ H!update(p[1], p[2], updater)
  /\ homeUpdates' = IF homeState' = "Failed" THEN homeUpdates
                                             ELSE W!store_update(homeUpdates, p)
  /\ signed' = signed \cup {p}
  /\ UNCHANGED <<replicaVars, enrolled, replicaUpdates>>

UpdateReplica(p) ==
  /\ R!update(p[1], p[2], updater)
  /\ replicaUpdates' = W!store_update(replicaUpdates, p)
  /\ signed' = signed \cup {p}
  /\ UNCHANGED <<homeVars, enrolled, homeUpdates>>

SubmitUpdate == (\E p \in Signatures : UpdateHome(p)) /\ UNCHANGED agentVars

(* A dishonest updater need not wait for Home. *)
BypassHome ==
  /\ ~HonestUpdater
  /\ \E p \in Signatures : UpdateReplica(p)
  /\ UNCHANGED agentVars

(***************************************************************************)
(* Relayer, processor, clock                                               *)
(***************************************************************************)

(* UpdatePoller: it reads the Replica's committed root, then the update of *)
(* Home on it, then submits that; by then the Replica may have moved on.   *)
Relay == (\E p \in homeUpdates.update : UpdateReplica(p)) /\ UNCHANGED agentVars

(* Applications accept calls from an enrolled Replica only (onlyReplica):  *)
(* handle reverts otherwise.                                               *)
OnlyReplica == calls' # calls => enrolled

Deliver ==
  /\ \/ R!Prove
     \/ (R!ProveAndProcess \/ R!Process) /\ OnlyReplica
  /\ UNCHANGED <<homeVars, enrolled, signed, eventVars, agentVars>>

HandleReturns ==
  R!handleReturns /\ UNCHANGED <<homeVars, enrolled, signed, eventVars, agentVars>>

(***************************************************************************)
(* Watcher                                                                 *)
(***************************************************************************)

contractVars == <<homeVars, replicaVars, enrolled, signed, eventVars, restarts>>

WatcherReads ==
  /\ \/ W!pollHome(homeUpdates) \/ W!syncHomeHistory(homeUpdates)
     \/ W!pollReplica(replicaUpdates) \/ W!syncReplicaHistory(replicaUpdates)
  /\ UNCHANGED contractVars

(* The handler submits an update to Home if it is current; the call        *)
(* reverts on a failed Home.                                               *)
WatcherHandles ==
  /\ inbox # << >>
  /\ W!handle(Head(inbox))
  /\ IF Head(inbox)[1] = homeCommitted /\ homeState # "Failed"
       THEN UpdateHome(Head(inbox))
       ELSE UNCHANGED <<homeVars, replicaVars, enrolled, signed, eventVars>>
  /\ UNCHANGED restarts

WatcherSeesHomeFail ==
  /\ homeState = "Failed"
  /\ W!homeFailed
  /\ UNCHANGED contractVars

(* The transactions on a failure; doubleUpdate reverts on a contract that  *)
(* has already failed, unenrollReplica if there is nothing to unenrol.     *)
WatcherReportsToHome ==
  /\ W!sent("home")
  /\ IF homeState = "Failed" THEN UNCHANGED homeVars
       ELSE H!doubleUpdate(double[1][1], double[1][2], double[2][2], updater)
  /\ UNCHANGED <<replicaVars, enrolled, signed, eventVars, restarts>>

WatcherReportsToReplica ==
  /\ W!sent("replica")
  /\ IF replicaState = "Failed" THEN UNCHANGED replicaVars
       ELSE R!doubleUpdate(double[1][1], double[1][2], double[2][2], updater)
  /\ UNCHANGED <<homeVars, enrolled, signed, eventVars, restarts>>

WatcherUnenrolls ==
  /\ W!sent("unenroll")
  /\ enrolled' = FALSE
  /\ UNCHANGED <<homeVars, replicaVars, signed, eventVars, restarts>>

WatcherActsOnFailure ==
  WatcherReportsToHome \/ WatcherReportsToReplica \/ WatcherUnenrolls

WatcherRestarts ==
  /\ restarts < MaxRestarts
  /\ restarts' = restarts + 1
  /\ UNCHANGED <<homeVars, replicaVars, enrolled, signed, eventVars>>
  /\ W!Restart(homeCommitted, replicaCommitted)

(***************************************************************************)
(* Time                                                                    *)
(***************************************************************************)

Genuine(root) == root = Zero \/ root \in RootsOf(tree)

(* A root that no Home transaction produced and whose timer has run for    *)
(* WatcherDelay.                                                           *)
Overdue(root) ==
  /\ ~Genuine(root)
  /\ confirmAt[root] # 0
  /\ now >= confirmAt[root] - OptimisticSeconds + WatcherDelay

(* The assumption of optimistic security: some watcher gets the Replica    *)
(* unenrolled within WatcherDelay of a fraudulent update reaching it.      *)
WatcherInTime == enrolled => \A r \in Roots : ~Overdue(r)

(* Time matters only while some timer is running. *)
Tick ==
  /\ WatcherInTime
  /\ \E r \in Roots : confirmAt[r] > now
  /\ R!Tick
  /\ UNCHANGED <<homeVars, enrolled, signed, eventVars, agentVars>>

Next ==
  \/ Dispatch \/ SignSuggestion \/ SubmitUpdate \/ BypassHome
  \/ Relay \/ Deliver \/ HandleReturns
  \/ WatcherReads \/ WatcherHandles \/ WatcherSeesHomeFail \/ WatcherActsOnFailure
  \/ WatcherRestarts
  \/ Tick

(* The agents poll for ever and resubmit, a call returns, and the clock    *)
(* runs; nobody has to dispatch, and a dishonest updater has to do nothing.*)
Fairness ==
  /\ WF_vars(SignSuggestion)
  /\ WF_vars(HonestUpdater /\ SubmitUpdate)
  /\ WF_vars(Relay)
  /\ WF_vars(Deliver)
  /\ WF_vars(HandleReturns)
  /\ WF_vars(Tick)
  /\ WF_vars(W!pollHome(homeUpdates) /\ UNCHANGED contractVars)
  /\ WF_vars(W!pollReplica(replicaUpdates) /\ UNCHANGED contractVars)
  /\ WF_vars(W!syncHomeHistory(homeUpdates) /\ UNCHANGED contractVars)
  /\ WF_vars(W!syncReplicaHistory(replicaUpdates) /\ UNCHANGED contractVars)
  /\ WF_vars(WatcherHandles)
  /\ WF_vars(WatcherSeesHomeFail)
  /\ WF_vars(WatcherReportsToHome)
  /\ WF_vars(WatcherReportsToReplica)
  /\ WF_vars(WatcherUnenrolls)

Spec == Init /\ [][Next]_vars /\ Fairness

(***************************************************************************)
(* Properties, whoever holds the updater's key                             *)
(***************************************************************************)

(* Types of both contracts and of the agents' knowledge. *)
TypeOK ==
  /\ H!TypeOK /\ R!TypeOK
  /\ enrolled \in BOOLEAN
  /\ signed \subseteq Roots \X Roots
  /\ {homeUpdates, replicaUpdates} \subseteq
       [update : SUBSET (Roots \X Roots), prevRoot : SUBSET (Roots \X Roots)]

InTree(leaf) == \E i \in DOMAIN tree : tree[i] = leaf

(* No application handles a message that was not dispatched on Home: the   *)
(* optimistic window leaves the watcher the time to unenrol the Replica    *)
(* before a forged root becomes acceptable.                                *)
ForgedNeverHandled ==
  \A l \in Leaf : handled[l] > 0 \/ R!CallsTo(l) # {} => InTree(l)

(* A forged root that reaches the Replica leads to a failed Home, or the   *)
(* messages in it are dispatched after all: what the Replica has published *)
(* always suffices to prove the fraud on Home, though Home may not yet     *)
(* have seen the roots it builds on.                                       *)
ForgedOnReplica == \E r \in Roots : ~Genuine(r) /\ confirmAt[r] # 0

FraudFailsHome == ForgedOnReplica ~> (homeState = "Failed" \/ ~ForgedOnReplica)

(* The two contracts and the agents together implement a channel.          *)
Channel == INSTANCE MessageChannel WITH
  Messages <- Leaf,
  sent <- {tree[i] : i \in DOMAIN tree},
  received <- handled

ImplementsMessageChannel == Channel!Spec

(***************************************************************************)
(* Properties, if the updater is honest                                    *)
(***************************************************************************)

(* Neither contract ever fails and no root loses its acceptance: nothing   *)
(* an honest updater signs, however late it is submitted, relayed or       *)
(* reported, passes for fraud or restarts a timer that has run out.        *)
HonestUpdaterIsSafe ==
  [][/\ homeState' = "Active" /\ replicaState' = "Active" /\ enrolled'
     /\ \A r \in Roots : R!acceptableRoot(r) => R!acceptableRoot(r)']_vars

(* Whatever has been dispatched for this domain is processed in the end,   *)
(* with the guard released, over and over as more is dispatched.           *)
AllProcessed ==
  /\ entered = 1
  /\ \A l \in Leaf :
       InTree(l) /\ l.destination = localDomain => messages[l] = "Processed"

MessagesGetProcessed == []<>AllProcessed
=============================================================================
