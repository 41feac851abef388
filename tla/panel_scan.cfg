CONSTANTS
  Users = {alice}
  Elsewhere = elsewhere
  Nowhere = nowhere
  Failed = failed
  Renders = {x1, x2}
SPECIFICATION FairSpec
INVARIANTS OneScan LatestPageWins
PROPERTY ScanShown
