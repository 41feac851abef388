CONSTANTS
  Sources = {s1, s2}
  Domains = {d1}
  Requests = {r1, r2}
  MaxStamp = 2
  Overlap = TRUE
  Crashes = TRUE
  WriteFaults = FALSE
SPECIFICATION IntentSpec
SYMMETRY Symmetry
INVARIANTS TypeOK AttributionCurrent ServedWhenQuiet ChangesLast
