SPECIFICATION Spec

CONSTANTS
  g = g
  h = h
  m = m
  n = n
  ra = ra
  rx = rx
  NoAccount = NoAccount
  Self = Self
  NoRouter = NoRouter
  Domains = {1, 2, 3}
  Accounts = {g}
  Managers = {m, n}
  firstManager <- MCFirstManager
  Routers = {ra}
  routerAt <- MCRouterAt
  FirstGovernor = 1
  firstDomains <- MCFirstDomains
  SetDomains = {3}
  Budgets <- MCBudgets

CHECK_DEADLOCK FALSE

INVARIANTS
  DomainsMatchRouters
  OneMandate
  UpToDateChainsAgree
