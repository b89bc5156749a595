SPECIFICATION UpdaterSpec

CONSTANTS
  here = here
  b1 = b1
  b2 = b2
  u1 = u1
  m1 = m1
  Domains = {here}
  Bodies = {b1, b2}
  NonceModulus = 3
  MaxLeaves = 3
  Updaters = {u1}
  Managers = {m1}
  MaxReorgs = 2
  MaxCrashes = 1

INVARIANTS
  NeverDoubleSigns
  NeverFailsHome

PROPERTIES
  UpdatesGetCommitted
