\* Two ends that behave: each sends up to two chunks, and one chunk fits a buffer.
SPECIFICATION ReadingSpec
CONSTANTS
  Protocols <- TCPOnly
  MaxSend = 2
  Buffer = 1
  MayRefuse = FALSE
  MayAbort = FALSE
  MayQuit = FALSE
INVARIANTS
  TypeOK
PROPERTIES
  ImplementsStream
  AllDelivered
\* The connection ends.
CHECK_DEADLOCK FALSE
