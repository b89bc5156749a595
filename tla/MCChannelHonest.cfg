SPECIFICATION Spec

CONSTANTS
  here = here
  there = there
  MaxRootLength = 2
  b1 = b1
  b2 = b2
  u1 = u1
  m1 = m1
  Domains = {here, there}
  Bodies = {b1}
  NonceModulus = 2
  MaxLeaves = 2
  localDomain = here
  Roots <- MCRoots
  Updaters = {u1}
  Managers = {m1}
  Forgeries <- NoPairs
  MaxSigned = 0
  OptimisticSeconds = 1
  WatcherDelay = 0
  ChannelCapacity = 2
  MaxRestarts = 1
  MaxTime = 3
  TimeModulus = 16

PROPERTIES
  ImplementsMessageChannel
  HonestUpdaterIsSafe
  MessagesGetProcessed

CHECK_DEADLOCK FALSE
