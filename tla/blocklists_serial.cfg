CONSTANTS
  Sources = {s1, s2}
  Domains = {d1, d2}
  Requests = {r1}
  MaxStamp = 3
  Overlap = FALSE
  Crashes = FALSE
  WriteFaults = FALSE
SPECIFICATION ReaderSpec
SYMMETRY Symmetry
INVARIANTS RegistryDescribesCaches ReaderCurrent
PROPERTIES TouchesOwnSource ImplementsStore
