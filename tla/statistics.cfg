CONSTANTS
  Resolvers = {dohA, dohB}
  Domains <- MCDomains
  Key <- MCKey
  MaxQueries = 3
  Admin = dohA
  PageSize = 1
  MaxPage = 1
SPECIFICATION FairSpec
INVARIANTS TotalsAreSums KeyNamesDomain PagesFull
PROPERTIES CountsOnce LockFreed
