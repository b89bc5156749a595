--------------------------- MODULE GovernanceRouter ---------------------------
(***************************************************************************)
(* GovernanceRouter.sol on every chain, and the messages between them. One *)
(* chain has the governor; its router commands the others with batches of  *)
(* calls and hands governorship on with TransferGovernor messages. A       *)
(* Replica hands messages over in any order, each once: a message whose    *)
(* handle reverts is spent. A batch is one call, and a call to a contract  *)
(* other than the router is "other".                                       *)
(***************************************************************************)
EXTENDS Integers, Sequences, FiniteSets

CONSTANTS
  Domains,
  Accounts,           \* that may become governor
  Managers,           \* that may become recovery manager
  NoAccount, Self,    \* address(0), and the router as msg.sender
  Routers, NoRouter,  \* addresses of routers, and bytes32(0)
  routerAt,           \* the GovernanceRouter of a domain
  FirstGovernor,      \* domain of the governor after the deployment
  firstManager,       \* recoveryManager of each chain after the deployment
  firstDomains,       \* GovernanceRouter.domains after the deployment
  SetDomains,         \* bound: domains whose router is ever set
  Budgets             \* bound: how many of each Command a behaviour has

NoDomain == 0

(* The entries of a list of domains, deleted ones excepted. *)
Entries(list) == {list[i] : i \in DOMAIN list} \ {NoDomain}

NoneTwice(list) ==
  \A i, j \in DOMAIN list : list[i] = list[j] /\ list[i] # NoDomain => i = j

ASSUME DomainsAssumption == Domains \subseteq Nat \ {0} /\ FirstGovernor \in Domains
ASSUME AccountsAssumption ==
  /\ NoAccount \notin Accounts \cup Managers /\ Self \notin Accounts \cup Managers
  /\ Self # NoAccount
  /\ firstManager \in [Domains -> Managers]
ASSUME RoutersAssumption == NoRouter \notin Routers /\ routerAt \in [Domains -> Routers]
ASSUME FirstDomainsAssumption ==
  /\ firstDomains \in [Domains -> Seq(Domains)]
  /\ \A l \in Domains : NoneTwice(firstDomains[l]) /\ l \notin Entries(firstDomains[l])
  /\ \A l \in Domains \ {FirstGovernor} : FirstGovernor \in Entries(firstDomains[l])
Commands == {"transfer", "setRouter", "batch", "manager"}
ASSUME BoundsAssumption == SetDomains \subseteq Domains /\ Budgets \subseteq [Commands -> Nat]

VARIABLES
  governor, governorDomain, routers, domains,
  recovery,           \* recoveryActiveAt: zero, in the future, or reached
  recoveryManager,
  inboundCallBatches,
  nonces,             \* Home.nonces, per origin and destination
  inFlight,           \* messages dispatched that no Replica has processed
  spent,              \* domain => did the handle of a message to it revert?
  budget              \* commands left to the governors and recovery managers

governorVars == <<governor, governorDomain>>
routerVars == <<routers, domains>>
recoveryVars == <<recovery, recoveryManager>>
messageVars == <<nonces, inFlight>>
vars == <<governorVars, routerVars, recoveryVars, inboundCallBatches, messageVars, spent, budget>>

Calls ==
  [type : {"setRouterLocal"}, domain : SetDomains, router : Routers \cup {NoRouter}]
    \cup {[type |-> "other"]}

Transfers == [type : {"transferGovernor"}, domain : Domains, governor : Accounts]

Messages ==
  [origin : Domains, destination : Domains, nonce : Nat, recipient : Routers,
   body : Calls \cup Transfers]

Init ==
  /\ governor \in [Domains -> Accounts \cup {NoAccount}]
  /\ \A l \in Domains : governor[l] = NoAccount <=> l # FirstGovernor
  /\ governorDomain = [l \in Domains |-> FirstGovernor]
  /\ domains = firstDomains
  /\ routers = [l \in Domains |-> [d \in Domains |->
                  IF d \in Entries(firstDomains[l]) THEN routerAt[d] ELSE NoRouter]]
  /\ recovery = [l \in Domains |-> "none"]
  /\ recoveryManager = firstManager
  /\ inboundCallBatches = [l \in Domains |-> [c \in Calls |-> "Unknown"]]
  /\ nonces = [l \in Domains |-> [d \in Domains |-> 0]]
  /\ inFlight = {}
  /\ spent = [l \in Domains |-> FALSE]
  /\ budget \in Budgets

command(k) == budget[k] > 0 /\ budget' = [budget EXCEPT ![k] = @ - 1]

inRecovery(l) == recovery[l] = "active"

onlyGovernor(l, s) == s \in {governor[l], Self}

onlyGovernorOrRecoveryManager(l, s) ==
  IF inRecovery(l) THEN s \in {recoveryManager[l], Self} ELSE onlyGovernor(l, s)

(***************************************************************************)
(* Internal functions                                                      *)
(***************************************************************************)

(* Mutated: an address of zero is a router like any other. *)
anyAddress(l, d) == d \in Domains

_mustHaveRouter(l, d) == routers[l][d] # NoRouter

(* The governor of l after governorship went to g on d. *)
newGovernor(l, d, g) == IF d = l THEN g ELSE NoAccount

_transferGovernor(l, d, g) ==
  /\ d # l => _mustHaveRouter(l, d)
  /\ governorDomain' = [governorDomain EXCEPT ![l] = d]
  /\ governor' = [governor EXCEPT ![l] = newGovernor(l, d, g)]

(* delete domains[i] leaves a zero in the place of the domain. *)
_removeDomain(list, d) == [i \in DOMAIN list |-> IF list[i] = d THEN NoDomain ELSE list[i]]

(* Mutated: a domain is added also when its router is only changed. *)
domainsAddedAgain(l, d, r) ==
  IF r = NoRouter THEN _removeDomain(domains[l], d) ELSE Append(domains[l], d)

domainsAfter(l, d, r) ==
  IF r = NoRouter THEN _removeDomain(domains[l], d)
  ELSE IF routers[l][d] = NoRouter THEN Append(domains[l], d) ELSE domains[l]

_setRouter(l, d, r) ==
  /\ d # l
  /\ routers' = [routers EXCEPT ![l][d] = r]
  /\ domains' = [domains EXCEPT ![l] = domainsAfter(l, d, r)]

(* Home.dispatch of one message to each of the domains ds, at their router *)
(* in rs.                                                                  *)
dispatch(l, ds, rs, body) ==
  /\ nonces' = [nonces EXCEPT ![l] = [d \in Domains |-> IF d \in ds THEN @[d] + 1 ELSE @[d]]]
  /\ inFlight' = inFlight \cup {[origin |-> l, destination |-> d, nonce |-> nonces[l][d],
                                 recipient |-> rs[d], body |-> body] : d \in ds}

(* _callLocal, for a call to this router by itself or to another contract. *)
_callLocal(l, c) ==
  \/ c.type = "other" /\ UNCHANGED routerVars
  \/ c.type = "setRouterLocal" /\ _setRouter(l, c.domain, c.router)

(***************************************************************************)
(* External functions of the governor and the recovery manager, called by  *)
(* s on chain l                                                            *)
(***************************************************************************)

(* The domains that _sendToAllRemoteRouters reaches. *)
remoteDomains(l) == Entries(domains[l])

(* Mutated: only the chain of the new governor is told. *)
newDomainOnly(l, d) == IF d = l THEN {} ELSE {d}

transferDestinations(l, d) == IF d = l THEN {} ELSE remoteDomains(l)

transferGovernor(l, s, d, g) ==
  /\ command("transfer")
  /\ onlyGovernor(l, s) /\ ~inRecovery(l)
  /\ _transferGovernor(l, d, g)
  /\ dispatch(l, transferDestinations(l, d), routers[l],
              [type |-> "transferGovernor", domain |-> d, governor |-> g])
  /\ UNCHANGED <<routerVars, recoveryVars, inboundCallBatches, spent>>

setRouterLocal(l, s, d, r) ==
  /\ command("setRouter")
  /\ onlyGovernorOrRecoveryManager(l, s)
  /\ _setRouter(l, d, r)
  /\ UNCHANGED <<governorVars, recoveryVars, inboundCallBatches, messageVars, spent>>

setRouterGlobal(l, s, d, r) ==
  /\ command("setRouter")
  /\ onlyGovernor(l, s) /\ ~inRecovery(l)
  /\ _setRouter(l, d, r)
  /\ dispatch(l, remoteDomains(l), routers[l],
              [type |-> "setRouterLocal", domain |-> d, router |-> r])
  /\ UNCHANGED <<governorVars, recoveryVars, inboundCallBatches, spent>>

(* A local call, then a batch for each domain of ds: the routers are those *)
(* the local call leaves.                                                  *)
executeGovernanceActions(l, s, c, ds, b) ==
  /\ command("batch")
  /\ onlyGovernorOrRecoveryManager(l, s)
  /\ ds # {} => ~inRecovery(l) /\ onlyGovernor(l, s)
  /\ _callLocal(l, c)
  /\ \A d \in ds : routers'[l][d] # NoRouter
  /\ dispatch(l, ds, routers'[l], b)
  /\ UNCHANGED <<governorVars, recoveryVars, inboundCallBatches, spent>>

transferRecoveryManager(l, s, m) ==
  /\ command("manager")
  /\ s = recoveryManager[l]
  /\ recoveryManager' = [recoveryManager EXCEPT ![l] = m]
  /\ UNCHANGED <<governorVars, routerVars, recovery, inboundCallBatches, messageVars, spent>>

initiateRecoveryTimelock(l, s) ==
  /\ command("manager")
  /\ s = recoveryManager[l]
  /\ recovery[l] = "none"
  /\ recovery' = [recovery EXCEPT ![l] = "timelock"]
  /\ UNCHANGED <<governorVars, routerVars, recoveryManager, inboundCallBatches, messageVars, spent>>

(* recoveryTimelock seconds later. *)
TimelockExpires(l) ==
  /\ recovery[l] = "timelock"
  /\ recovery' = [recovery EXCEPT ![l] = "active"]
  /\ UNCHANGED <<governorVars, routerVars, recoveryManager, inboundCallBatches, messageVars, spent, budget>>

exitRecovery(l, s) ==
  /\ s = recoveryManager[l]
  /\ recovery[l] # "none"
  /\ recovery' = [recovery EXCEPT ![l] = "none"]
  /\ UNCHANGED <<governorVars, routerVars, recoveryManager, inboundCallBatches, messageVars, spent, budget>>

(***************************************************************************)
(* Messages, and the batches they leave for anyone to execute              *)
(***************************************************************************)

onlyGovernorRouter(l, m) ==
  m.origin = governorDomain[l] /\ routers[l][m.origin] = routerAt[m.origin]

(* A message for an address that is not the router of l does nothing here. *)
handleReverts(l, m) ==
  \/ m.recipient # routerAt[l]
  \/ ~onlyGovernorRouter(l, m)
  \/ m.body.type = "transferGovernor" /\ m.body.domain # l /\ ~_mustHaveRouter(l, m.body.domain)

_handleBatch(l, c) ==
  /\ inboundCallBatches' = [inboundCallBatches EXCEPT ![l][c] = "Pending"]
  /\ UNCHANGED governorVars

_handleTransferGovernor(l, b) ==
  _transferGovernor(l, b.domain, b.governor) /\ UNCHANGED inboundCallBatches

(* Replica.process marks the message as processed before it calls handle. *)
handle(m) ==
  LET l == m.destination IN
  /\ inFlight' = inFlight \ {m}
  /\ \/ /\ ~handleReverts(l, m)
        /\ IF m.body.type = "transferGovernor" THEN _handleTransferGovernor(l, m.body)
                                               ELSE _handleBatch(l, m.body)
        /\ UNCHANGED spent
     \/ /\ handleReverts(l, m)
        /\ spent' = [spent EXCEPT ![l] = TRUE]
        /\ UNCHANGED <<governorVars, inboundCallBatches>>
  /\ UNCHANGED <<routerVars, recoveryVars, nonces, budget>>

executeCallBatch(l, c) ==
  /\ inboundCallBatches[l][c] = "Pending"
  /\ inboundCallBatches' = [inboundCallBatches EXCEPT ![l][c] = "Complete"]
  /\ _callLocal(l, c)
  /\ UNCHANGED <<governorVars, recoveryVars, messageVars, spent, budget>>

Govern(l, s) ==
  \/ \E d \in Domains, g \in Accounts : transferGovernor(l, s, d, g)
  \/ \E d \in SetDomains, r \in Routers \cup {NoRouter} :
       setRouterLocal(l, s, d, r) \/ setRouterGlobal(l, s, d, r)
  \/ \E c, b \in Calls, ds \in SUBSET Domains : executeGovernanceActions(l, s, c, ds, b)

Recover(l, s) ==
  \/ \E m \in Managers : transferRecoveryManager(l, s, m)
  \/ initiateRecoveryTimelock(l, s)
  \/ TimelockExpires(l)
  \/ exitRecovery(l, s)

Next ==
  \/ \E l \in Domains, s \in Accounts \cup Managers : Govern(l, s)
  \/ \E l \in Domains, s \in Managers : Recover(l, s)
  \/ \E m \in inFlight : handle(m)
  \/ \E l \in Domains, c \in Calls : executeCallBatch(l, c)

Fairness == WF_vars(\E m \in inFlight : handle(m))
Spec == Init /\ [][Next]_vars /\ Fairness

(***************************************************************************)
(* Properties                                                              *)
(***************************************************************************)

(* Every variable holds a value of its type. *)
TypeOK ==
  /\ governor \in [Domains -> Accounts \cup {NoAccount}]
  /\ governorDomain \in [Domains -> Domains]
  /\ routers \in [Domains -> [Domains -> Routers \cup {NoRouter}]]
  /\ domains \in [Domains -> Seq(Domains \cup {NoDomain})]
  /\ recovery \in [Domains -> {"none", "timelock", "active"}]
  /\ recoveryManager \in [Domains -> Managers]
  /\ inboundCallBatches \in [Domains -> [Calls -> {"Unknown", "Pending", "Complete"}]]
  /\ nonces \in [Domains -> [Domains -> Nat]]
  /\ inFlight \subseteq Messages
  /\ spent \in [Domains -> BOOLEAN]
  /\ budget \in [Commands -> Nat]

(* The list that broadcasts walk and the mapping they read agree after any *)
(* sequence of additions, changes and removals: every router is told once. *)
DomainsMatchRouters ==
  \A l \in Domains :
    /\ NoneTwice(domains[l])
    /\ Entries(domains[l]) = {d \in Domains : routers[l][d] # NoRouter}

(* The state a deployment of the chains ds leaves: one of them governs. *)
GovernedFrom(first, ds) ==
  \A l \in ds :
    /\ governor[l] = NoAccount <=> l # first
    /\ governorDomain[l] = first
    /\ l # first => routers[l][first] = routerAt[first]
    /\ NoneTwice(domains[l]) /\ l \notin Entries(domains[l])

Governing == {l \in Domains : governor[l] # NoAccount}

(* The messages that make the router they are for the governor's. *)
Appointments ==
  {m \in inFlight : m.body.type = "transferGovernor" /\ m.body.domain = m.destination}

(* There is one governor, or one message that appoints the next, however   *)
(* transfers, recoveries and late messages interleave: governorship is     *)
(* never held twice, and it is lost only where a handle reverted.          *)
OneMandate ==
  LET mandates == Cardinality(Governing) + Cardinality(Appointments) IN
  mandates = 1 \/ (mandates = 0 /\ \E l \in Domains : spent[l])

(* No TransferGovernor message is on its way to l, and none was refused.   *)
UpToDate(l) ==
  /\ ~spent[l]
  /\ \A m \in inFlight : m.destination = l => m.body.type # "transferGovernor"

(* Whichever chain a chain may ever know of knows that chain from the      *)
(* start: the deployment enrols two chains with each other or not at all,  *)
(* a mesh as well as a hub and its spokes.                                 *)
EnrolmentIsMutual ==
  \A k \in Domains \ SetDomains : \A l \in Domains \ {k} :
    l \in SetDomains \cup Entries(firstDomains[k]) => k \in Entries(firstDomains[l])

(* In whatever order a chain handles the messages of successive governors, *)
(* it ends with the governor's domain of every other chain that refused    *)
(* none of them, if nobody un-enrols the two.                              *)
UpToDateChainsAgree ==
  \A k, l \in Domains \ SetDomains :
    UpToDate(k) /\ UpToDate(l) => governorDomain[k] = governorDomain[l]
=============================================================================
