\* The IPv4 and the IPv6 proxy of one port.
SPECIFICATION Spec
CONSTANTS
  Procs = {p4, p6}
  IPv4 = {p4}
  MayKill = FALSE
INVARIANTS
  RunningIsExposed
