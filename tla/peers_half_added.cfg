CONSTANTS
  Hosts = {h1}
  Ports = {p1}
  AnyPort = any
  Names = {alice}
  MaxSlot = 1
  Keys = {k1, k2, k3}
  NoKey = noKey
  Endpoints = {e1}
  Requests = {r1}
  Parallel = {}
  MaxStops = 1
SPECIFICATION Spec
INVARIANT FullAccessGranted
