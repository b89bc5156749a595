SPECIFICATION TreeSpec

CONSTANTS
  d1 = d1
  d2 = d2
  b1 = b1
  forged = forged
  u1 = u1
  u2 = u2
  m1 = m1
  m2 = m2
  Domains = {d1, d2}
  Bodies = {b1, forged}
  Updaters = {u1, u2}
  Managers = {m1, m2}
  NonceModulus = 3
  MaxLeaves = 3
  TREE_DEPTH = 2
  ForgedRoots <- MCForgedRoots

SYMMETRY MCSymmetry

INVARIANTS
  QueueHoldsPendingRoots
  DistinctNonces
  ProofsProve
  AlgorithmsAgree

PROPERTIES
  SuggestionNeverTurnsImproper
  ImplementsMessageLog
