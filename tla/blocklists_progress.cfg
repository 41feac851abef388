CONSTANTS
  Sources = {s1, s2}
  Domains = {d1, d2}
  Requests = {r1}
  MaxStamp = 2
  Overlap = TRUE
  Crashes = TRUE
  WriteFaults = TRUE
SPECIFICATION FairSpec
PROPERTIES StaysCached StaysPublished RequestsSettle ServedCatchesUp
