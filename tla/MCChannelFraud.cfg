SPECIFICATION Spec

CONSTANTS
  here = here
  there = there
  MaxRootLength = 2
  b1 = b1
  b2 = b2
  u1 = u1
  m1 = m1
  Domains = {here}
  Bodies = {b1, b2}
  NonceModulus = 2
  MaxLeaves = 1
  localDomain = here
  Roots <- FewRoots
  Updaters = {u1}
  Managers = {m1}
  Forgeries <- AllPairs
  MaxSigned = 2
  OptimisticSeconds = 2
  WatcherDelay = 1
  ChannelCapacity = 2
  MaxRestarts = 0
  MaxTime = 3
  TimeModulus = 8

INVARIANTS
  ForgedNeverHandled

PROPERTIES
  FraudFailsHome

CHECK_DEADLOCK FALSE
