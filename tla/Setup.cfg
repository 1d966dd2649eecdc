\* Three setups, two builds of the bundle, a binary and a file of the machine.
SPECIFICATION Spec
CONSTANTS
  Setups = {s1, s2, s3}
  Bundles = {b1, b2}
  Binaries = {hyperkit}
  Machine = {kernel}
  None = None
SYMMETRY Symmetry
INVARIANTS
  TypeOK
  OverlapIsWhole
PROPERTIES
  DoneIsWhole
  KeepsWhole
