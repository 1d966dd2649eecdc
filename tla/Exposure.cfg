\* Three IPv4 proxies of one port, one taking over from another, and a daemon
\* that comes and goes.
SPECIFICATION FairSpec
CONSTANTS
  Procs = {p1, p2, p3}
  IPv4 = {p1, p2, p3}
  MayKill = TRUE
INVARIANTS
  TypeOK
  RunningIsExposed
  OneExposer
PROPERTIES
  SignalEnds
