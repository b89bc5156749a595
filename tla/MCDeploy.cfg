SPECIFICATION DeploySpec

CONSTANTS
  ra = ra
  rb = rb
  rc = rc
  NoAccount = NoAccount
  Self = Self
  NoRouter = NoRouter
  Hub = 1
  Chains = {1, 2, 3}
  Watchers = {"w1", "w2"}
  Weth = {1}
  Customs = {1}
  Routers = {ra, rb, rc}
  routerAt <- MCRouterAt
  Scripts <- MCScripts

CHECK_DEADLOCK FALSE

INVARIANTS
  RevertsOnlyIfPreempted
  
  OneBeacon
  NeverOrphaned
  DoneIsComplete
  StartsGovernance
  AgentsKnowReplicas
  IndexedFromTheStart
