SPECIFICATION XAppSpec

CONSTANTS
  ra = ra
  rb = rb
  rc = rc
  u1 = u1
  u2 = u2
  w1 = w1
  NoReplica = NoReplica
  Replicas = {ra, rb, rc}
  RemoteDomains = {1, 2}
  remoteDomain <- MCRemoteDomain
  Updaters = {u1, u2}
  Watchers = {w1}
  CarefulOwner = TRUE

INVARIANTS
  TwoWayMapping

PROPERTIES
  AccusedAreUnenrolled
