----------------------------- MODULE UDPSessions -----------------------------
(***************************************************************************)
(* What the UDP proxy promises its clients: a table that binds a client's  *)
(* address to a backend connection of its own, for as long as the session  *)
(* lasts.  A connection serves one client, and a client is never moved     *)
(* from one connection to another in the middle of a session.              *)
(***************************************************************************)
CONSTANTS
  Clients,   \* the source addresses that datagrams come from
  Conns,     \* the connections that may be dialled to the backend
  NoConn     \* no connection

VARIABLE table   \* the connection bound to each client

Bound == {table[k] : k \in Clients} \ {NoConn}

Init == table = [k \in Clients |-> NoConn]

Bind(k, c) ==
  /\ table[k] = NoConn
  /\ c \notin Bound
  /\ table' = [table EXCEPT ![k] = c]

Release(k) ==
  /\ table[k] # NoConn
  /\ table' = [table EXCEPT ![k] = NoConn]

Next == \E k \in Clients : Release(k) \/ \E c \in Conns : Bind(k, c)

Spec == Init /\ [][Next]_table

=============================================================================
