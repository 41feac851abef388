CONSTANTS
  Hosts = {h1}
  Ports = {p1}
  AnyPort = any
  Names = {alice, bob, carol}
  MaxSlot = 2
  Keys = {k1, k2, k3}
  NoKey = noKey
  Endpoints = {e1}
  Requests = {r1, r2}
  Parallel = {"disable", "rotate"}
  MaxStops = 1
SPECIFICATION Spec
SYMMETRY Symmetry
INVARIANTS TypeOK AddressesDistinct KernelMatchesFiles OnlyUsersConnect OwnAccessOnly NewUsersInternetOnly
