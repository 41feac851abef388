CONSTANTS
  alice = alice
  unknown = unknown
  Clients = {alice, unknown}
  Unknown = unknown
  Queries = {q1, q2}
  Names = {n1, n2, n3}
  Malformed = malformed
  Blockable = {n1}
  Rate = 0
  Burst = 1
  ManyClients = 1
  StaleAfter = 2
  MaxEntries = 2
  MaxTtl = 2
  Second = 1
  Ttls = {0, 1, 3}
  MaxMessages = 0
  MaxTime = 3
SPECIFICATION Spec
INVARIANTS TypeOK FreshAnswers
PROPERTIES EvictsLeastRecent RulesFirst
