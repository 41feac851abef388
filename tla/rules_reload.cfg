CONSTANTS
  dohA = dohA
  dohB = dohB
  d1 = d1
  d2 = d2
  d3 = d3
  Resolvers = {dohA, dohB}
  Writer = dohA
  Domains = {d1}
  Parent <- MCParent
  NoDomain = noDomain
  Restarting = {dohA}
SPECIFICATION FairSpec
INVARIANTS TypeOK NoChangeMissed
PROPERTY Converges
