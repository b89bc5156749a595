SPECIFICATION Spec

CONSTANTS
  eth = eth
  custom = custom
  user = user
  provider = provider
  Domains = {1, 2}
  Tokens = {eth}
  Customs = {custom}
  chainOf <- MCChainOf
  NoToken = NoToken
  NoContract = NoContract
  Accounts = {user, provider}
  NoAccount = NoAccount
  Router = Router
  Amounts = {1, 2}
  Wealth <- MCWealth
  GasReserve <- MCGasReserve
  MaxTransfers = 2
  MaxOwnerActs = 2

INVARIANTS
  FullyBacked
  RepresentationsPointBack

PROPERTIES
  FillersAreRepaid

CHECK_DEADLOCK FALSE
