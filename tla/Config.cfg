\* Four commands that start at about the same time.
SPECIFICATION Spec
CONSTANTS
  Commands = {c1, c2, c3, c4}
  Nobody = Nobody
SYMMETRY Symmetry
INVARIANTS
  TypeOK
  OneCreator
  FailsOnlyForAnother
PROPERTIES
  KeepsSettings
CHECK_DEADLOCK FALSE
