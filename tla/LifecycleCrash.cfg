\* One user of an installed machine, who interrupts mct run.
SPECIFICATION InstalledSpec
CONSTANTS
  Procs = {p1}
  Keys = {k1}
  NoKey = NoKey
  Commands = {"run"}
  MayFail = TRUE
  Swallowed = {}
INVARIANTS
  ConfigSurvives
