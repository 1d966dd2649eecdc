\* Two clients, three connections, so that two sessions can be open while a
\* third connection is being closed.
SPECIFICATION FairSpec
CONSTANTS
  Clients <- Neighbours
  Conns = {c1, c2, c3}
  NoConn = NoConn
INVARIANTS
  TypeOK
  TableTracksLoops
  LiveSessionOpen
  RepliesReachSender
  NoLeakedConn
PROPERTIES
  
  ImplementsSessions
\* After Close the proxy stops.
CHECK_DEADLOCK FALSE
