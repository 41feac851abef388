CONSTANTS
  Sources = {a1, a2}
  MaxFailures = 2
  Window = 2
  MaxTime = 5
SPECIFICATION Spec
SYMMETRY Symmetry
INVARIANTS GuessesBounded LockoutEnds
