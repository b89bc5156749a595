---------------------------- MODULE DeployScripts ----------------------------
(***************************************************************************)
(* nomad-deploy: what the deploy scripts do, as data. A step sends one     *)
(* transaction, waits for one, or is a call that reads chains or checks    *)
(* them. A function of the scripts is the sequence of its steps; a phase   *)
(* gives each of the tasks that run under one Promise.all its steps, and a *)
(* script is a sequence of phases.                                         *)
(***************************************************************************)
EXTENDS Integers, Sequences, SequencesExt

CONSTANTS
  Hub,       \* the chain with the governor
  Watchers,  \* config.watchers
  Weth,      \* the chains whose config has a WETH address
  Customs    \* the chains whose config has a custom token

None == 0

step(kind, op, l, name, r) ==
  [kind |-> kind, op |-> op, on |-> l, name |-> name, remote |-> r, beacon |-> None]
send(op, l, name, r) == <<step("send", op, l, name, r)>>
wait(op, l, name, r) == <<step("wait", op, l, name, r)>>
sendAndWait(op, l, name, r) == send(op, l, name, r) \o wait(op, l, name, r)
call(op, l, r) == <<step("call", op, l, "", r)>>

(* The steps f[x] for each x of a sequence, one after the other. *)
inTurn(xs, f(_)) == FlattenSeq([i \in DOMAIN xs |-> f(xs[i])])

others(ds, l) == inTurn(ds, LAMBDA d : IF d = l THEN <<>> ELSE <<d>>)

(***************************************************************************)
(* proxyUtils                                                              *)
(***************************************************************************)

(* Implementation and beacon are not waited for: the proxy comes after     *)
(* them in the order of the deployer's nonces.                             *)
deployProxy(l, name, r) ==
  send("Implementation", l, name, r) \o send("Beacon", l, name, r)
    \o sendAndWait("Proxy", l, name, r)

duplicate(l, name, r) == sendAndWait("Proxy", l, name, r)

(***************************************************************************)
(* core                                                                    *)
(***************************************************************************)

deployUpgradeBeaconController(l) == sendAndWait("deploy", l, "UpgradeBeaconController", None)
deployUpdaterManager(l) == sendAndWait("deploy", l, "UpdaterManager", None)
deployXAppConnectionManager(l) == sendAndWait("deploy", l, "XAppConnectionManager", None)
deployHome(l) == deployProxy(l, "Home", None)
deployGovernanceRouter(l) == deployProxy(l, "GovernanceRouter", None)

(* Mutated: the XAppConnectionManager learns its Home after the router. *)
deployNomadHomeLate(l) ==
  deployUpgradeBeaconController(l) \o deployUpdaterManager(l)
    \o deployXAppConnectionManager(l) \o deployHome(l)
    \o send("setHome", l, "UpdaterManager", None)
    \o deployGovernanceRouter(l)
    \o send("setHome", l, "XAppConnectionManager", None)

deployNomad(l) ==
  deployUpgradeBeaconController(l) \o deployUpdaterManager(l)
    \o deployXAppConnectionManager(l) \o deployHome(l)
    \o send("setHome", l, "XAppConnectionManager", None)
    \o send("setHome", l, "UpdaterManager", None)
    \o deployGovernanceRouter(l)

(* Home is waited for, and by the order of the nonces all the others. *)
relinquish(l, remotes) ==
  send("transferOwnership", l, "UpdaterManager", None)
    \o send("transferOwnership", l, "XAppConnectionManager", None)
    \o send("transferOwnership", l, "UpgradeBeaconController", None)
    \o inTurn(remotes, LAMBDA r : send("transferOwnership", l, "Replica", r))
    \o sendAndWait("transferOwnership", l, "Home", None)

deployUnenrolledReplica(l, r) == call("deployUnenrolledReplica", l, r)

enrollReplica(l, r) == sendAndWait("ownerEnrollReplica", l, "XAppConnectionManager", r)

enrollWatchers(l, r) ==
  LET ws == SetToSeq(Watchers) IN
  inTurn(ws, LAMBDA w : send("setWatcherPermission", l, w, r))
    \o inTurn(ws, LAMBDA w : wait("setWatcherPermission", l, w, r))

enrollGovernanceRouter(l, r) == sendAndWait("setRouterLocal", l, "GovernanceRouter", r)

enrollRemote(l, r) ==
  deployUnenrolledReplica(l, r) \o enrollReplica(l, r) \o enrollWatchers(l, r)
    \o enrollGovernanceRouter(l, r)

transferGovernorship(l) == call("transferGovernorship", l, Hub)

(* The governor is configured on the Hub: see the TODO on other domains. *)
appointGovernor == sendAndWait("transferGovernor", Hub, "governor", Hub)

checkCoreDeploy(l, remotes) ==
  inTurn(remotes, LAMBDA r : call("checkReplica", l, r)) \o call("checkCoreDeploy", l, None)

writeOutput(l, remotes) ==
  call("writeOutput", l, None) \o inTurn(remotes, LAMBDA r : call("writeReplica", l, r))

(* A phase of tasks that run in parallel, one on each chain of ds, and one *)
(* with a single task.                                                     *)
all(ds, f(_)) == <<[l \in ToSet(ds) |-> f(l)]>>
alone(steps) == <<[l \in {Hub} |-> steps]>>

recordFromBlocks(ds) == all(ds, LAMBDA l : call("recordFromBlock", l, None))

(* Mutated: the block is recorded when the contracts are there. *)
deployThenRecord(ds) == all(ds, deployNomad) \o recordFromBlocks(ds)

recordThenDeploy(ds) == recordFromBlocks(ds) \o all(ds, deployNomad)

deployTwoChains(gov, non) ==
  LET ds == <<gov, non>>
      other(l) == IF l = gov THEN non ELSE gov
  IN all(ds, deployNomad)
       \o all(ds, LAMBDA l : deployUnenrolledReplica(l, other(l)))
       \o all(ds, LAMBDA l : enrollReplica(l, other(l)))
       \o all(ds, LAMBDA l : enrollWatchers(l, other(l)))
       \o all(ds, LAMBDA l : enrollGovernanceRouter(l, other(l)))
       \o alone(appointGovernor \o transferGovernorship(non))
       \o all(ds, LAMBDA l : relinquish(l, <<other(l)>>))
       \o alone(inTurn(ds, LAMBDA l : checkCoreDeploy(l, <<other(l)>>)))
       \o alone(inTurn(ds, LAMBDA l : writeOutput(l, <<other(l)>>)))

deployComplete(ds) ==
  LET remotes(l) == others(ds, l)
      connect(l) == inTurn(remotes(l), LAMBDA r : enrollRemote(l, r))
  IN recordThenDeploy(ds)
       \o alone(inTurn(ds, connect))
       \o alone(appointGovernor)
       \o all(others(ds, Hub), transferGovernorship)
       \o all(ds, LAMBDA l : relinquish(l, remotes(l)))
       \o alone(inTurn(ds, LAMBDA l : checkCoreDeploy(l, remotes(l))))
       \o alone(inTurn(ds, LAMBDA l : writeOutput(l, remotes(l))))

(* Mutated: the Hub connects its spokes in parallel. *)
connectSpokesInParallel(spokes) ==
  all(spokes, LAMBDA s : enrollRemote(Hub, s)) \o alone(appointGovernor)

connectSpokes(spokes) ==
  alone(inTurn(spokes, LAMBDA s : enrollRemote(Hub, s))) \o alone(appointGovernor)

deployHubAndSpoke(spokes) ==
  LET ds == <<Hub>> \o spokes
      remotes(l) == IF l = Hub THEN spokes ELSE <<Hub>>
  IN recordThenDeploy(ds)
       \o all(spokes, LAMBDA s : enrollRemote(s, Hub))
       \o connectSpokes(spokes)
       \o all(spokes, transferGovernorship)
       \o all(ds, LAMBDA l : relinquish(l, remotes(l)))
       \o alone(inTurn(spokes \o <<Hub>>, LAMBDA l : checkCoreDeploy(l, remotes(l))))
       \o alone(inTurn(ds, LAMBDA l : writeOutput(l, remotes(l))))

(* Mutated: governorship goes to the Hub before its messages can arrive. *)
connectNewChainLate(new) ==
  enrollGovernanceRouter(new, Hub) \o transferGovernorship(new)
    \o deployUnenrolledReplica(new, Hub) \o enrollReplica(new, Hub) \o enrollWatchers(new, Hub)

connectNewChain(new) == enrollRemote(new, Hub) \o transferGovernorship(new)

(* Mutated: the Replica on the Hub stays with the deployer. *)
newReplicaOnHubKept(new) == deployUnenrolledReplica(Hub, new)

newReplicaOnHub(new) ==
  deployUnenrolledReplica(Hub, new) \o send("transferOwnership", Hub, "Replica", new)

(* Mutated: the configuration of the Hub forgets the spokes it had. *)
writeNewSpokeOnly(new, oldSpokes) == writeOutput(new, <<Hub>>) \o writeOutput(Hub, <<new>>)

writeHubAndSpokeOutput(new, oldSpokes) ==
  writeOutput(new, <<Hub>>) \o writeOutput(Hub, <<new>> \o oldSpokes)

deployNewChain(new, oldSpokes) ==
  recordFromBlocks(<<new>>)
    \o alone(deployNomad(new) \o connectNewChain(new) \o relinquish(new, <<Hub>>)
               \o checkCoreDeploy(new, <<Hub>>) \o newReplicaOnHub(new)
               \o writeHubAndSpokeOutput(new, oldSpokes))

(***************************************************************************)
(* bridge                                                                  *)
(***************************************************************************)

deployTokenUpgradeBeacon(l) == deployProxy(l, "BridgeToken", None)
deployTokenRegistry(l) == deployProxy(l, "TokenRegistry", None)
deployBridgeRouter(l) == deployProxy(l, "BridgeRouter", None)

deployEthHelper(l) == IF l \in Weth THEN sendAndWait("deploy", l, "EthHelper", None) ELSE <<>>


(* Nobody waits for initialize, whose failure the script does not notice.  *)
deployCustoms(l) ==
  IF l \in Customs
  THEN sendAndWait("deploy", l, "CustomController", None)
         \o sendAndWait("transferOwnership", l, "CustomController", None)
         \o sendAndWait("Beacon", l, "CustomToken", None)
         \o sendAndWait("Proxy", l, "CustomToken", None)
         \o send("initialize", l, "CustomToken", None)
         \o sendAndWait("setDetails", l, "CustomToken", None)
         \o sendAndWait("transferOwnership", l, "CustomToken", None)
         \o sendAndWait("enrollCustom", l, "TokenRegistry", None)
  ELSE <<>>

deployBridge(l) ==
  deployTokenUpgradeBeacon(l) \o deployTokenRegistry(l) \o deployBridgeRouter(l)
    \o deployEthHelper(l)

enrollBridgeRouter(l, r) == sendAndWait("enrollRemoteRouter", l, "BridgeRouter", r)

enrollAllBridgeRouters(l, ds) == inTurn(others(ds, l), LAMBDA r : enrollBridgeRouter(l, r))

transferOwnershipOfBridge(l) ==
  sendAndWait("transferOwnership", l, "TokenRegistry", None)
    \o sendAndWait("transferOwnership", l, "BridgeRouter", None)

checkBridgeDeployValues(l) == call("checkBridgeDeployValues", l, None)

deployBridgesComplete(ds) ==
  all(ds, LAMBDA l : deployBridge(l) \o deployCustoms(l))
    \o all(ds, LAMBDA l : enrollAllBridgeRouters(l, ds))
    \o all(ds, transferOwnershipOfBridge)
    \o all(ds, checkBridgeDeployValues)

deployBridgesHubAndSpoke(spokes) ==
  LET ds == <<Hub>> \o spokes IN
  all(ds, deployBridge)
    \o alone(enrollAllBridgeRouters(Hub, spokes))
    \o all(spokes, LAMBDA s : enrollBridgeRouter(s, Hub))
    \o all(ds, transferOwnershipOfBridge)
    \o all(ds, checkBridgeDeployValues)
    \o alone(inTurn(spokes, LAMBDA s : call("checkHubAndSpokeBridgeConnections", Hub, s)))

deployNewChainBridge(new) ==
  alone(deployBridge(new) \o enrollBridgeRouter(new, Hub)
          \o transferOwnershipOfBridge(new) \o checkBridgeDeployValues(new))

(***************************************************************************)
(* incremental                                                             *)
(***************************************************************************)

(* One batch of calls, executed by the governor of the Hub at once in a    *)
(* dev environment and later, from the file it is written to, in others.   *)
enrollSpoke(new) == alone(call("enrollSpoke", Hub, new))

checkHubToSpokeConnectionWithWaiter(new) ==
  alone(call("checkHubToSpokeConnectionWithWaiter", Hub, new))

(***************************************************************************)
(* local-environment, a dev environment                                    *)
(***************************************************************************)

enrollSpokeInDev(new) == alone(call("enrollSpokeInDev", Hub, new))

deployHubNSpoke(spokes) == deployHubAndSpoke(spokes) \o deployBridgesHubAndSpoke(spokes)

deployAdditionalNetwork(new, oldSpokes) ==
  deployNewChain(new, oldSpokes) \o deployNewChainBridge(new)
    \o enrollSpokeInDev(new)
    \o alone(checkCoreDeploy(new, <<Hub>>)
               \o call("checkHubAndSpokeBridgeConnections", Hub, new)
               \o call("checkHubAndSpokeConnections", Hub, new))
=============================================================================
