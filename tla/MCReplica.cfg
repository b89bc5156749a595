SPECIFICATION Spec

CONSTANTS
  here = here
  there = there
  b1 = b1
  u1 = u1
  u2 = u2
  Domains = {here, there}
  Bodies = {b1}
  NonceModulus = 2
  Updaters = {u1, u2}
  Roots <- MCRoots
  localDomain = here
  OptimisticTimeouts = {1, 3}
  TimeModulus = 4
  MaxTime = 2

SYMMETRY MCSymmetry

INVARIANTS
  HandledOnce
  OneHandleAtATime

PROPERTIES
  StatusOnlyAdvances
