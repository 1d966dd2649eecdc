\* Two users of an installed machine: every command, no failures.
SPECIFICATION FairInstalledSpec
CONSTANTS
  Procs = {p1, p2}
  Keys = {k1}
  NoKey = NoKey
  Commands = {"run", "stop", "remove", "ssh"}
  MayFail = FALSE
  Swallowed = {}
PROPERTIES
  RecordKept
  StaysProvisioned
  EveryCommandEnds
