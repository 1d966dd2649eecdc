\* One user, every command, any command interrupted at any step.
SPECIFICATION Spec
CONSTANTS
  Procs = {p1}
  Keys = {k1, k2}
  NoKey = NoKey
  Commands = {"run", "stop", "remove", "ssh"}
  MayFail = TRUE
  Swallowed = {}
SYMMETRY Symmetry
INVARIANTS
  TypeOK
  SshKeyMatches
  RunningOnWholeDisk
  RunningMachineExists
PROPERTIES
  NoReIgnition
  DataKept
  ImplementsMachine
