-------------------------------- MODULE Deploy --------------------------------
(***************************************************************************)
(* nomad-deploy at work: the scripts of DeployScripts run against the      *)
(* chains. The deployer's transactions on one chain are mined in the order *)
(* of their nonces, those that nobody waits for at any later time, and a   *)
(* script may die at any step. The governance messages its transactions    *)
(* send may be handled while it runs, and between any two transactions     *)
(* others may call what a custom token lets anyone call.                   *)
(***************************************************************************)
EXTENDS DeployScripts, FiniteSets, FiniteSetsExt, TLC

CONSTANTS
  Chains,
  Scripts,               \* a script is a sequence of phases
  NoAccount, Self,       \* of GovernanceRouter
  Routers, NoRouter, routerAt

Accounts == {"deployer", "governor"}

ASSUME DeployAssumption ==
  /\ Chains \subseteq Nat \ {0} /\ Hub \in Chains
  /\ IsFiniteSet(Watchers) /\ NoAccount \notin Accounts
  /\ NoRouter \notin Routers /\ routerAt \in [Chains -> Routers]

VARIABLES
  script,    \* the phases that have not begun
  todo,      \* task => the steps it has left
  status,    \* "running", "done", "failed" in a check, or "aborted"
  batchFile, \* the spokes whose batch is in a file for the governor
  replicas,  \* deploy.contracts.replicas: what the script knows of
  recorded,  \* chains whose fromBlock is recorded
  configs,   \* chain => replicas in the configuration of its agents
  mempool,   \* chain => transactions sent and not mined
  reverted,  \* transactions mined that reverted
  owner,     \* chain => contract => owner, of the contracts that exist
  executed,  \* chain => what transactions have done: <<operation, contract, domain>>
  beaconOf,  \* chain => domain => beacon of its Replica, named for the first
  governor, governorDomain, routers, domains, nonceTo, inFlight, spent

scriptVars == <<script, todo, status, replicas, recorded, configs>>
governanceVars == <<governor, governorDomain, routers, domains, nonceTo, inFlight>>
deployVars == <<scriptVars, batchFile, mempool, reverted, owner, executed, beaconOf,
          governanceVars, spent>>

G == INSTANCE GovernanceRouter WITH
  Domains <- Chains, Managers <- {"recoveryManager"}, FirstGovernor <- Hub,
  firstManager <- [l \in Chains |-> "recoveryManager"],
  firstDomains <- [l \in Chains |-> <<>>], SetDomains <- {}, Budgets <- {},
  nonces <- nonceTo,
  recovery <- [l \in Chains |-> "none"],
  recoveryManager <- [l \in Chains |-> "recoveryManager"],
  inboundCallBatches <- [l \in Chains |-> <<>>], budget <- 0

DeployInit ==
  /\ \E s \in Scripts : script = Tail(s) /\ todo = Head(s)
  /\ status = "running"
  /\ batchFile = {}
  /\ replicas = [l \in Chains |-> {}]
  /\ recorded = {}
  /\ configs = [l \in Chains |-> {}]
  /\ mempool = [l \in Chains |-> <<>>]
  /\ reverted = {}
  /\ owner = [l \in Chains |-> <<>>]
  /\ executed = [l \in Chains |-> {}]
  /\ beaconOf = [l \in Chains |-> [d \in Chains |-> None]]
  /\ governor = [l \in Chains |-> NoAccount]
  /\ governorDomain = [l \in Chains |-> l]
  /\ routers = [l \in Chains |-> [d \in Chains |-> NoRouter]]
  /\ domains = [l \in Chains |-> <<>>]
  /\ nonceTo = [l \in Chains |-> [d \in Chains |-> 0]]
  /\ inFlight = {}
  /\ spent = [l \in Chains |-> FALSE]

exists(l, name) == <<name, None>> \in DOMAIN owner[l]
owns(who, l, name, r) == <<name, r>> \in DOMAIN owner[l] /\ owner[l][<<name, r>>] = who
did(l, op, name, r) == <<op, name, r>> \in executed[l]

(***************************************************************************)
(* The script                                                              *)
(***************************************************************************)

running(t) == status = "running" /\ todo[t] # <<>>
at(t, kind) == running(t) /\ Head(todo[t]).kind = kind
calling(t, op) == at(t, "call") /\ Head(todo[t]).op = op

instead(t, steps) == todo' = [todo EXCEPT ![t] = steps \o Tail(@)]
next(t) == instead(t, <<>>)

Send(t) ==
  /\ at(t, "send")
  /\ LET tx == Head(todo[t]) IN mempool' = [mempool EXCEPT ![tx.on] = Append(@, tx)]
  /\ next(t)
  /\ UNCHANGED <<script, status, replicas, recorded, configs, batchFile, reverted, owner,
                 executed, beaconOf, governanceVars, spent>>

Wait(t) ==
  /\ at(t, "wait")
  /\ LET tx == [Head(todo[t]) EXCEPT !.kind = "send"] IN
     /\ tx \notin ToSet(mempool[tx.on])
     /\ tx \notin reverted
  /\ next(t)
  /\ UNCHANGED <<script, status, replicas, recorded, configs, batchFile, mempool, reverted,
                 owner, executed, beaconOf, governanceVars, spent>>

(* The read of committedRoot yields only once the remote Home is there.    *)
(* Whether this is the first Replica of the chain is decided now.          *)
DeployUnenrolledReplica(t) ==
  LET l == Head(todo[t]).on
      r == Head(todo[t]).remote
      known == replicas[l]
      onBeacon(steps, b) == [i \in DOMAIN steps |-> [steps[i] EXCEPT !.beacon = b]]
  IN /\ calling(t, "deployUnenrolledReplica")
     /\ exists(r, "Home")
     /\ instead(t, (IF known = {} THEN onBeacon(deployProxy(l, "Replica", r), r)
                    ELSE onBeacon(duplicate(l, "Replica", r), beaconOf[l][Min(known)]))
                     \o call("assignReplica", l, r))
     /\ UNCHANGED <<script, status, replicas, recorded, configs, batchFile, mempool, reverted,
                    owner, executed, beaconOf, governanceVars, spent>>

(* The governor is read from the Hub now. *)
TransferGovernorship(t) ==
  LET non == Head(todo[t]).on IN
  /\ calling(t, "transferGovernorship")
  /\ instead(t, sendAndWait("transferGovernor", non, governor[Hub], Hub))
  /\ UNCHANGED <<script, status, replicas, recorded, configs, batchFile, mempool, reverted,
                 owner, executed, beaconOf, governanceVars, spent>>

(* Steps that concern the script alone. *)
Note(t) ==
  LET l == Head(todo[t]).on
      r == Head(todo[t]).remote
  IN /\ \/ /\ calling(t, "recordFromBlock")
           /\ recorded' = recorded \cup {l}
           /\ UNCHANGED <<replicas, configs>>
        \/ /\ calling(t, "assignReplica")
           /\ replicas' = [replicas EXCEPT ![l] = @ \cup {r}]
           /\ UNCHANGED <<recorded, configs>>
        \/ /\ calling(t, "writeOutput")
           /\ configs' = [configs EXCEPT ![l] = {}]
           /\ UNCHANGED <<recorded, replicas>>
        \/ /\ calling(t, "writeReplica")
           /\ configs' = [configs EXCEPT ![l] = IF l \in replicas[r] THEN @ \cup {r} ELSE @]
           /\ UNCHANGED <<recorded, replicas>>
     /\ next(t)
     /\ UNCHANGED <<script, status, batchFile, mempool, reverted, owner, executed, beaconOf,
                    governanceVars, spent>>

connected(spoke) ==
  /\ did(Hub, "enrollRemoteRouter", "BridgeRouter", spoke)
  /\ did(Hub, "ownerEnrollReplica", "XAppConnectionManager", spoke)
  /\ routers[Hub][spoke] = routerAt[spoke]

(* What the checks compare. That a remote router is not empty is compared  *)
(* with an address of another length, and what a watcher may do in a       *)
(* callback nobody waits for: neither can fail a script.                   *)
holds(check) ==
  LET l == check.on
      r == check.remote
      governs(name) == owns("GovernanceRouter", l, name, None)
  IN CASE check.op = "checkReplica" ->
            /\ r \in replicas[l]
            /\ did(l, "ownerEnrollReplica", "XAppConnectionManager", r)
            /\ \A d \in replicas[l] : beaconOf[l][d] = beaconOf[l][r]
       [] check.op = "checkCoreDeploy" ->
            /\ governor[l] = NoAccount <=> l # Hub
            /\ governorDomain[l] = Hub
            /\ did(l, "setHome", "XAppConnectionManager", None)
            /\ governs("UpdaterManager") /\ governs("XAppConnectionManager")
            /\ governs("UpgradeBeaconController") /\ governs("Home")
       [] check.op = "checkBridgeDeployValues" ->
            /\ exists(l, "BridgeToken")
            /\ exists(l, "EthHelper") <=> l \in Weth
            /\ governs("BridgeRouter")
       [] check.op = "checkHubAndSpokeBridgeConnections" ->
            /\ did(Hub, "enrollRemoteRouter", "BridgeRouter", r)
            /\ did(r, "enrollRemoteRouter", "BridgeRouter", Hub)
            /\ \A d \in Chains \ {r, Hub} : ~did(r, "enrollRemoteRouter", "BridgeRouter", d)
       [] check.op = "checkHubAndSpokeConnections" -> connected(r)
       [] OTHER -> TRUE

Checks == {"checkReplica", "checkCoreDeploy", "checkBridgeDeployValues",
           "checkHubAndSpokeBridgeConnections", "checkHubAndSpokeConnections"}

Check(t) ==
  /\ running(t) /\ Head(todo[t]).op \in Checks
  /\ status' = IF holds(Head(todo[t])) THEN status ELSE "failed"
  /\ next(t)
  /\ UNCHANGED <<script, replicas, recorded, configs, batchFile, mempool, reverted, owner,
                 executed, beaconOf, governanceVars, spent>>

(* In a dev environment the batch is executed, in others written to the one *)
(* file there is.                                                          *)
EnrollSpoke(t) ==
  LET spoke == Head(todo[t]).remote IN
  /\ \/ /\ calling(t, "enrollSpokeInDev")
        /\ instead(t, sendAndWait("batch", Hub, "GovernanceRouter", spoke))
        /\ UNCHANGED batchFile
     \/ /\ calling(t, "enrollSpoke")
        /\ next(t)
        /\ batchFile' = {spoke}
  /\ UNCHANGED <<script, status, replicas, recorded, configs, mempool, reverted, owner,
                 executed, beaconOf, governanceVars, spent>>

(* The Waiter polls until the checks pass; its timeout is an Abort. *)
CheckWithWaiter(t) ==
  /\ calling(t, "checkHubToSpokeConnectionWithWaiter")
  /\ connected(Head(todo[t]).remote)
  /\ next(t)
  /\ UNCHANGED <<script, status, replicas, recorded, configs, batchFile, mempool, reverted,
                 owner, executed, beaconOf, governanceVars, spent>>

(* Promise.all returns when the last of its tasks has. *)
NextPhase ==
  /\ status = "running"
  /\ \A t \in DOMAIN todo : todo[t] = <<>>
  /\ IF script = <<>> THEN status' = "done" /\ UNCHANGED <<script, todo>>
     ELSE script' = Tail(script) /\ todo' = Head(script) /\ UNCHANGED status
  /\ UNCHANGED <<replicas, recorded, configs, batchFile, mempool, reverted, owner, executed,
                 beaconOf, governanceVars, spent>>

(* An RPC call fails, a transaction that is waited for reverts, or the     *)
(* process is stopped.                                                     *)
Abort ==
  /\ status = "running"
  /\ status' = "aborted"
  /\ UNCHANGED <<script, todo, replicas, recorded, configs, batchFile, mempool, reverted,
                 owner, executed, beaconOf, governanceVars, spent>>

(***************************************************************************)
(* The chains                                                              *)
(***************************************************************************)

(* The calls of the batch that enrolls a spoke on the Hub. *)
batchCalls(spoke) ==
  {<<"setWatcherPermission", w, spoke>> : w \in Watchers}
    \cup {<<"ownerEnrollReplica", "XAppConnectionManager", spoke>>,
          <<"setRouterLocal", "GovernanceRouter", spoke>>,
          <<"enrollRemoteRouter", "BridgeRouter", spoke>>}

(* A custom token is deployed without the call that initializes it. *)
uninitialized(l) == owns(NoAccount, l, "CustomToken", None)

othersGaveDetails(l) == did(l, "setDetailsByOthers", "CustomToken", None)

(* Details can be given once, until the first transfer commits to others. *)
hasDetails(l) == did(l, "setDetails", "CustomToken", None) \/ othersGaveDetails(l)

(* Does a transaction of the deployer succeed? *)
succeeds(tx) ==
  LET l == tx.on
      owned(name) == owns("deployer", l, name, None)
  IN CASE tx.op = "Beacon" ->
            did(l, "Implementation", IF tx.name = "CustomToken" THEN "BridgeToken" ELSE tx.name,
                IF tx.name = "Replica" THEN tx.beacon ELSE None)
       [] tx.op = "Proxy" ->
            /\ did(l, "Beacon", tx.name, IF tx.name = "Replica" THEN tx.beacon ELSE None)
            /\ tx.name = "Home" => exists(l, "UpdaterManager")
            /\ tx.name = "GovernanceRouter" => did(l, "setHome", "XAppConnectionManager", None)
       [] tx.op = "setHome" -> owned(tx.name) /\ exists(l, "Home")
       [] tx.op \in {"ownerEnrollReplica", "setWatcherPermission"} -> owned("XAppConnectionManager")
       [] tx.op = "enrollRemoteRouter" -> owned("BridgeRouter")
       [] tx.op = "enrollCustom" -> owned("TokenRegistry")
       [] tx.op = "initialize" -> uninitialized(l)
       [] tx.op = "setDetails" -> exists(l, "CustomToken") /\ ~hasDetails(l)
       [] tx.op = "transferOwnership" -> owns("deployer", l, tx.name, tx.remote)
       [] tx.op = "setRouterLocal" -> governor[l] = "deployer"
       [] tx.op = "transferGovernor" ->
            governor[l] = "deployer" /\ (tx.remote # l => G!_mustHaveRouter(l, tx.remote))
       [] tx.op = "batch" ->
            governor[l] # NoAccount /\ owns("GovernanceRouter", l, "BridgeRouter", None)
              /\ owns("GovernanceRouter", l, "XAppConnectionManager", None)
       [] OTHER -> TRUE

heir(name) ==
  IF name \in {"TokenRegistry", "CustomToken"} THEN "BridgeRouter" ELSE "GovernanceRouter"

firstOwner(name) == IF name = "CustomToken" THEN NoAccount ELSE "deployer"

ownerAfter(tx) ==
  LET contract == <<tx.name, tx.remote>>
      before == owner[tx.on]
  IN CASE tx.op \in {"deploy", "Proxy"} ->
            [c \in {contract} \cup DOMAIN before |->
               IF c = contract THEN firstOwner(tx.name) ELSE before[c]]
       [] tx.op = "initialize" -> [before EXCEPT ![contract] = "deployer"]
       [] tx.op = "transferOwnership" -> [before EXCEPT ![contract] = heir(tx.name)]
       [] OTHER -> before

(* Mutated: a chain enrolls its own router in the place of the remote one. *)
ownRouter(tx) == routerAt[tx.on]

remoteRouter(tx) == routerAt[tx.remote]

(* GovernanceRouter.initialize, setRouterLocal and transferGovernor. *)
governs(tx) ==
  LET l == tx.on IN
  CASE tx.op = "Proxy" /\ tx.name = "GovernanceRouter" ->
         /\ governor' = [governor EXCEPT ![l] = "deployer"]
         /\ governorDomain' = [governorDomain EXCEPT ![l] = l]
         /\ UNCHANGED <<routers, domains, nonceTo, inFlight>>
    [] tx.op \in {"setRouterLocal", "batch"} ->
         /\ G!_setRouter(l, tx.remote, remoteRouter(tx))
         /\ UNCHANGED <<governor, governorDomain, nonceTo, inFlight>>
    [] tx.op = "transferGovernor" ->
         /\ G!_transferGovernor(l, tx.remote, tx.name)
         /\ G!dispatch(l, G!transferDestinations(l, tx.remote), routers[l],
                       [type |-> "transferGovernor", domain |-> tx.remote, governor |-> tx.name])
         /\ UNCHANGED <<routers, domains>>
    [] OTHER -> UNCHANGED governanceVars

Execute(tx) ==
  LET l == tx.on IN
  /\ executed' = [executed EXCEPT ![l] = @ \cup
       IF tx.op = "batch" THEN batchCalls(tx.remote)
       ELSE {<<tx.op, tx.name, tx.remote>>}]
  /\ owner' = [owner EXCEPT ![l] = ownerAfter(tx)]
  /\ beaconOf' = IF tx.op = "Proxy" /\ tx.name = "Replica"
                 THEN [beaconOf EXCEPT ![l][tx.remote] = tx.beacon] ELSE beaconOf
  /\ governs(tx)

Mine(l) ==
  /\ mempool[l] # <<>>
  /\ mempool' = [mempool EXCEPT ![l] = Tail(@)]
  /\ LET tx == Head(mempool[l]) IN
     IF succeeds(tx) THEN Execute(tx) /\ UNCHANGED reverted
     ELSE reverted' = reverted \cup {tx} /\ UNCHANGED <<owner, executed, beaconOf, governanceVars>>
  /\ UNCHANGED <<scriptVars, batchFile, spent>>

GovernorExecutesBatch(spoke) ==
  LET tx == step("send", "batch", Hub, "GovernanceRouter", spoke) IN
  /\ spoke \in batchFile
  /\ succeeds(tx)
  /\ Execute(tx)
  /\ batchFile' = batchFile \ {spoke}
  /\ UNCHANGED <<scriptVars, mempool, reverted, spent>>

(* Whoever calls initialize first owns the token, and whoever calls         *)
(* setDetails first names it.                                              *)
Others(l) ==
  /\ \/ /\ uninitialized(l)
        /\ owner' = [owner EXCEPT ![l][<<"CustomToken", None>>] = "another"]
        /\ UNCHANGED executed
     \/ /\ exists(l, "CustomToken") /\ ~hasDetails(l)
        /\ executed' = [executed EXCEPT ![l] = @ \cup
                          {<<"setDetailsByOthers", "CustomToken", None>>}]
        /\ UNCHANGED owner
  /\ UNCHANGED <<scriptVars, batchFile, mempool, reverted, beaconOf, governanceVars, spent>>

Handle ==
  /\ \E m \in inFlight : G!handle(m)
  /\ UNCHANGED <<scriptVars, batchFile, mempool, reverted, owner, executed, beaconOf>>

Step(t) ==
  \/ Send(t) \/ Wait(t) \/ DeployUnenrolledReplica(t) \/ TransferGovernorship(t)
  \/ Note(t) \/ Check(t) \/ EnrollSpoke(t) \/ CheckWithWaiter(t)

DeployNext ==
  \/ \E t \in DOMAIN todo : Step(t)
  \/ NextPhase
  \/ Abort
  \/ \E l \in Chains : Mine(l) \/ Others(l)
  \/ \E spoke \in batchFile : GovernorExecutesBatch(spoke)
  \/ Handle

DeploySpec == DeployInit /\ [][DeployNext]_deployVars

(***************************************************************************)
(* Properties                                                              *)
(***************************************************************************)

(* Every variable holds a value of its type. *)
DeployTypeOK ==
  /\ status \in {"running", "done", "failed", "aborted"}
  /\ batchFile \subseteq Chains /\ recorded \subseteq Chains
  /\ replicas \in [Chains -> SUBSET Chains] /\ configs \in [Chains -> SUBSET Chains]
  /\ DOMAIN owner = Chains /\ DOMAIN executed = Chains /\ DOMAIN mempool = Chains
  /\ beaconOf \in [Chains -> [Chains -> Chains \cup {None}]]
  /\ governor \in [Chains -> Accounts \cup {NoAccount}]
  /\ governorDomain \in [Chains -> Chains]

(* Others were first to initialize a custom token or to give its details.  *)
preempted(tx) ==
  /\ tx.name = "CustomToken"
  /\ IF tx.op = "setDetails" THEN othersGaveDetails(tx.on)
                             ELSE owns("another", tx.on, "CustomToken", None)

(* No check fails, and no transaction reverts but those on a custom token  *)
(* that others got to first, in whatever order the chains mine what nobody *)
(* waits for: every right a step needs is still the deployer's when its    *)
(* transaction is mined, and what it needs is there.                       *)
RevertsOnlyIfPreempted ==
  status # "failed" /\ \A tx \in reverted : preempted(tx)


(* All Replicas of a chain share one implementation and beacon. *)
OneBeacon ==
  \A l, d, e \in Chains : beaconOf[l][d] # None /\ beaconOf[l][e] # None =>
    beaconOf[l][d] = beaconOf[l][e]

Deployed == {l \in Chains : exists(l, "GovernanceRouter")}

(* The governor's messages can get to l: its router obeys the Hub's, whose *)
(* Replica is enrolled there and watched.                                  *)
GovernedFromHub(l) ==
  /\ governorDomain[l] = Hub /\ governor[Hub] # NoAccount
  /\ routers[l][Hub] = routerAt[Hub]
  /\ did(l, "ownerEnrollReplica", "XAppConnectionManager", Hub)
  /\ \A w \in Watchers : did(l, "setWatcherPermission", w, Hub)

(* Wherever a script dies, every chain with a router has a governor of its *)
(* own or one the Hub can speak for: no contract is given to nobody.       *)
NeverOrphaned ==
  \A l \in Deployed : governor[l] # NoAccount \/ GovernedFromHub(l)

Ownable == {"UpdaterManager", "XAppConnectionManager", "UpgradeBeaconController", "Home",
            "Replica", "BridgeRouter", "TokenRegistry", "CustomController", "CustomToken"}

Linked(l, r) ==
  /\ did(l, "ownerEnrollReplica", "XAppConnectionManager", r)
  /\ \A w \in Watchers : did(l, "setWatcherPermission", w, r)
  /\ routers[l][r] = routerAt[r]
  /\ exists(l, "BridgeRouter") => did(l, "enrollRemoteRouter", "BridgeRouter", r)

finished == status = "done" /\ batchFile = {} /\ \A l \in Chains : mempool[l] = <<>>

(* When a script is done and its last transactions are mined, the deployer *)
(* owns nothing, custom tokens and late Replicas included, the governor    *)
(* governs, and the Hub and each spoke know each other in every contract   *)
(* that must.                                                              *)
DoneIsComplete ==
  finished =>
    /\ governor[Hub] = "governor"
    /\ \A l \in Deployed : \A c \in DOMAIN owner[l] :
         c[1] \in Ownable => owner[l][c] # "deployer"
    /\ \A l \in Deployed \ {Hub} : Linked(l, Hub) /\ Linked(Hub, l)
    /\ \A l, r \in Deployed : <<"Replica", r>> \in DOMAIN owner[l] => Linked(l, r)

(* The deployment hands GovernanceRouter the state it starts from, once    *)
(* the messages of its own transferGovernor calls have been refused.       *)
StartsGovernance == finished /\ inFlight = {} => G!GovernedFrom(Hub, Deployed)

(* The agents of a chain are configured for every chain that has a Replica *)
(* of it.                                                                  *)
AgentsKnowReplicas ==
  finished => \A l \in Deployed :
    configs[l] = {r \in Deployed : <<"Replica", l>> \in DOMAIN owner[r]}

(* The block the agents index from is taken before there is a Home. *)
IndexedFromTheStart ==
  \A l \in Chains : exists(l, "Home") /\ recorded # {} => l \in recorded
=============================================================================
