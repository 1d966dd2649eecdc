\* Four processes, so that a fresh one is left when three others are still
\* named by files.
SPECIFICATION Spec
CONSTANTS
  Daemons = {d1, d2, d3, d4}
  Nobody = Nobody
SYMMETRY Symmetry
INVARIANTS
  TypeOK
  OneServes
  ServingIsFound
PROPERTIES
  FailsOnlyForAnother
