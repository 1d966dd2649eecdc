\* Both protocols; ends that may reset the connection, close it, or not even
\* read, a backend that may refuse, and a Run that may return, at any time.
SPECIFICATION FairSpec
CONSTANTS
  Protocols <- Both
  MaxSend = 2
  Buffer = 1
  MayRefuse = TRUE
  MayAbort = TRUE
  MayQuit = TRUE
INVARIANTS
  EndHasCause
  NothingLeftBehind
PROPERTIES
  EndsAfterPeers
  EndsAfterQuit
\* The connection ends.
CHECK_DEADLOCK FALSE
