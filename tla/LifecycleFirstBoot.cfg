\* One user, commands that are interrupted.
SPECIFICATION Spec
CONSTANTS
  Procs = {p1}
  Keys = {k1}
  NoKey = NoKey
  Commands = {"run", "stop"}
  MayFail = TRUE
  Swallowed = {}
PROPERTIES
  FirstBootIgnites
