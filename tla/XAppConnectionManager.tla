------------------------ MODULE XAppConnectionManager ------------------------
(***************************************************************************)
(* XAppConnectionManager.sol: which Replicas of one chain may call its     *)
(* applications, and the watchers' signatures that take one of them off.   *)
(* The updaters of the remote Homes and of the Replicas live in contracts  *)
(* of their own and are rotated on each chain separately.                  *)
(***************************************************************************)
EXTENDS Integers

CONSTANTS
  Replicas,      \* addresses of Replica contracts
  NoReplica,     \* address(0)
  RemoteDomains, \* domains of the remote Homes
  remoteDomain,  \* Replica.remoteDomain, per Replica
  Updaters, Watchers,
  CarefulOwner   \* the owner un-enrols the Replica of a domain before it
                 \* enrols another for it, and enrols it for its own domain

ASSUME RemoteDomainsAssumption ==
  /\ RemoteDomains \subseteq Nat \ {0}
  /\ remoteDomain \in [Replicas -> RemoteDomains]
  /\ NoReplica \notin Replicas

NotEnrolled == 0

VARIABLES
  replicaToDomain,     \* Replica => domain of its Home, 0 if not enrolled
  domainToReplica,     \* domain => Replica
  watcherPermissions,  \* the pairs <<watcher, domain>> that are permitted
  homeUpdater,         \* Home.updater, per domain
  replicaUpdater,      \* Replica.updater, per Replica
  notifications        \* the SignedFailureNotifications of the watchers

mapVars == <<replicaToDomain, domainToReplica>>
updaterVars == <<homeUpdater, replicaUpdater>>
xAppVars == <<mapVars, watcherPermissions, updaterVars, notifications>>

XAppInit ==
  /\ replicaToDomain = [r \in Replicas |-> NotEnrolled]
  /\ domainToReplica = [d \in {NotEnrolled} \cup RemoteDomains |-> NoReplica]
  /\ watcherPermissions = {}
  /\ homeUpdater \in [RemoteDomains -> Updaters]
  /\ replicaUpdater = [r \in Replicas |-> homeUpdater[remoteDomain[r]]]
  /\ notifications = {}

isReplica(r) == replicaToDomain[r] # NotEnrolled

(***************************************************************************)
(* Owner                                                                   *)
(***************************************************************************)

(* Mutated: only one of the two mappings is cleared. *)
domainsKept(r) == domainToReplica
replicasKept(r) == replicaToDomain

(* The mappings after _unenrollReplica. *)
domainsWithout(r) == [domainToReplica EXCEPT ![replicaToDomain[r]] = NoReplica]
replicasWithout(r) == [replicaToDomain EXCEPT ![r] = NotEnrolled]

_unenrollReplica(r) ==
  /\ domainToReplica' = domainsWithout(r)
  /\ replicaToDomain' = replicasWithout(r)

isCareful(r, d) == d = remoteDomain[r] /\ domainToReplica[d] \in {NoReplica, r}

ownerEnrollReplica(r, d) ==
  /\ CarefulOwner => isCareful(r, d)
  /\ domainToReplica' = [domainsWithout(r) EXCEPT ![d] = r]
  /\ replicaToDomain' = [replicasWithout(r) EXCEPT ![r] = d]
  /\ UNCHANGED <<watcherPermissions, updaterVars, notifications>>

ownerUnenrollReplica(r) ==
  _unenrollReplica(r) /\ UNCHANGED <<watcherPermissions, updaterVars, notifications>>

setWatcherPermission(w, d, access) ==
  /\ watcherPermissions' = IF access THEN watcherPermissions \cup {<<w, d>>}
                                     ELSE watcherPermissions \ {<<w, d>>}
  /\ UNCHANGED <<mapVars, updaterVars, notifications>>

(***************************************************************************)
(* Watchers                                                                *)
(***************************************************************************)

(* create_signed_failure: about a Home, naming the updater it has now.     *)
create_signed_failure(w, d) ==
  /\ notifications' =
       notifications \cup {[watcher |-> w, home_domain |-> d, updater |-> homeUpdater[d]]}
  /\ UNCHANGED <<mapVars, watcherPermissions, updaterVars>>

(* _recoverWatcherFromSig yields the signer of n if the digest built from  *)
(* the Replica is the one that was signed.                                 *)
digestMatches(r, n) == remoteDomain[r] = n.home_domain

unenrollReplica(n) ==
  LET r == domainToReplica[n.home_domain] IN
  /\ r # NoReplica
  /\ replicaUpdater[r] = n.updater
  /\ digestMatches(r, n)
  /\ <<n.watcher, n.home_domain>> \in watcherPermissions
  /\ _unenrollReplica(r)
  /\ UNCHANGED <<watcherPermissions, updaterVars, notifications>>

(***************************************************************************)
(* Rotation of an updater, on either chain                                 *)
(***************************************************************************)

RotateOnHome(d, u) ==
  /\ homeUpdater' = [homeUpdater EXCEPT ![d] = u]
  /\ UNCHANGED <<mapVars, watcherPermissions, replicaUpdater, notifications>>

RotateOnReplica(r, u) ==
  /\ replicaUpdater' = [replicaUpdater EXCEPT ![r] = u]
  /\ UNCHANGED <<mapVars, watcherPermissions, homeUpdater, notifications>>

Owner ==
  \/ \E r \in Replicas, d \in RemoteDomains : ownerEnrollReplica(r, d)
  \/ \E r \in Replicas : ownerUnenrollReplica(r)
  \/ \E w \in Watchers, d \in RemoteDomains, a \in BOOLEAN : setWatcherPermission(w, d, a)

Notify == \E w \in Watchers, d \in RemoteDomains : create_signed_failure(w, d)

Unenroll == \E n \in notifications : unenrollReplica(n)

Rotate ==
  \/ \E d \in RemoteDomains, u \in Updaters : RotateOnHome(d, u)
  \/ \E r \in Replicas, u \in Updaters : RotateOnReplica(r, u)

XAppNext == Owner \/ Notify \/ Unenroll \/ Rotate

Notifications == [watcher : Watchers, home_domain : RemoteDomains, updater : Updaters]

(* A watcher that is restarted by its supervisor on a failed Home submits  *)
(* its notification again.                                                 *)
XAppFairness ==
  \A n \in Notifications : WF_xAppVars(n \in notifications /\ unenrollReplica(n))

XAppSpec == XAppInit /\ [][XAppNext]_xAppVars /\ XAppFairness

(***************************************************************************)
(* Properties                                                              *)
(***************************************************************************)

(* Every variable holds a value of its Solidity type. *)
MappingsTypeOK ==
  /\ replicaToDomain \in [Replicas -> {NotEnrolled} \cup RemoteDomains]
  /\ domainToReplica \in [{NotEnrolled} \cup RemoteDomains -> Replicas \cup {NoReplica}]
  /\ watcherPermissions \subseteq Watchers \X RemoteDomains
  /\ homeUpdater \in [RemoteDomains -> Updaters]
  /\ replicaUpdater \in [Replicas -> Updaters]
  /\ notifications \subseteq Notifications

(* The two mappings are inverse to each other, so that a Replica that may  *)
(* call applications is one that a watcher's signature on its domain can   *)
(* take off, however enrolments, removals and signatures interleave.       *)
TwoWayMapping ==
  /\ \A r \in Replicas : isReplica(r) => domainToReplica[replicaToDomain[r]] = r
  /\ \A d \in RemoteDomains :
       domainToReplica[d] # NoReplica => replicaToDomain[domainToReplica[d]] = d

(* A permitted watcher's notification that names the updater in charge     *)
(* takes every Replica of that Home off, unless the owner takes the        *)
(* permission away or the updater is rotated first.                        *)
Accused(r, n) ==
  /\ n \in notifications
  /\ <<n.watcher, n.home_domain>> \in watcherPermissions
  /\ replicaToDomain[r] = n.home_domain
  /\ replicaUpdater[r] = n.updater

AccusedAreUnenrolled ==
  \A r \in Replicas, n \in Notifications : Accused(r, n) ~> ~Accused(r, n)
=============================================================================
