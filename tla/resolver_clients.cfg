CONSTANTS
  alice = alice
  unknown = unknown
  Clients = {alice, unknown}
  Unknown = unknown
  Queries = {q1, q2}
  Names = {n1}
  Malformed = malformed
  Blockable = {}
  Rate = 1
  Burst = 2
  ManyClients = 1
  StaleAfter = 2
  MaxEntries = 0
  MaxTtl = 1
  Second = 1
  Ttls = {1}
  MaxMessages = 3
  MaxTime = 3
SPECIFICATION FairSpec
INVARIANTS WithinRate InOrder
PROPERTY Settles
