CONSTANTS
  dohA = dohA
  dohB = dohB
  d1 = d1
  d2 = d2
  d3 = d3
  Resolvers = {dohA}
  Writer = dohA
  Domains = {d1, d2, d3}
  Parent <- MCParent
  NoDomain = noDomain
  Restarting = {}
SPECIFICATION Spec
INVARIANT DecisionsFollowRules
PROPERTY OnlyRequestsRemoveRules
