------------------------------ MODULE UDPProxy ------------------------------
(***************************************************************************)
(* The UDP half of mct-docker-proxy (udp_proxy.go): the goroutine in Run,  *)
(* which reads the frontend socket, one replyLoop goroutine for every      *)
(* backend connection it dials, and a goroutine that calls Close.  They    *)
(* share connTrackTable, under connTrackLock; a critical section is one    *)
(* action.  A datagram is modelled by the client it belongs to.            *)
(***************************************************************************)
EXTENDS Naturals, Sequences

CONSTANTS
  Clients,   \* the source addresses that datagrams come from
  Conns,     \* the connections that may be dialled to the backend
  NoConn     \* no connection

\* A net.UDPAddr without a zone, whose IP has n bytes.
Addr(n) == [ip : [1 .. n -> 0 .. 255], port : Nat]

\* The frontend socket is an IPv4 or an IPv6 one, never both: the addresses
\* that ReadFromUDP returns all have 4 bytes, or all have 16.
ASSUME UDPAssumption ==
  /\ NoConn \notin Conns /\ Clients # {}
  /\ \E n \in {4, 16} : Clients \subseteq Addr(n)

VARIABLES
  listening,  \* the frontend socket is open
  table,      \* connTrackTable: the connection under each key
  open,       \* the backend connections that are open
  owner,      \* the clientAddr each connection's replyLoop was started with
  loop,       \* where each connection's replyLoop is
  run,        \* where Run is
  from,       \* the client whose datagram Run is forwarding
  conn,       \* the connection Run writes it to
  closer      \* where the call of Close is

sessions == <<table, open, owner, loop>>
runVars == <<run, from, conn>>
vars == <<sessions, runVars, listening, closer>>

\* newConnTrackKey: the address as two 64-bit words, of which an IPv4 address
\* takes the last four bytes.  A word in big-endian order is its eight bytes.
Word(b, i) == <<b[i], b[i+1], b[i+2], b[i+3], b[i+4], b[i+5], b[i+6], b[i+7]>>
IPHigh(a) == IF Len(a.ip) = 4 THEN <<0, 0, 0, 0, 0, 0, 0, 0>> ELSE Word(a.ip, 1)
IPLowOfNetwork(a) == IPHigh(a)
IPLow(a) ==
  IF Len(a.ip) = 4
  THEN <<0, 0, 0, 0, a.ip[1], a.ip[2], a.ip[3], a.ip[4]>>
  ELSE Word(a.ip, 9)

Key(a) == [IPHigh |-> IPHigh(a), IPLow |-> IPLow(a), Port |-> a.port]
Tracked == {Key(k) : k \in Clients}

LoopStep == {"none", "reading", "writing", "exiting", "closing"}

TypeOK ==
  /\ listening \in BOOLEAN
  /\ table \in [Tracked -> Conns \cup {NoConn}]
  /\ open \subseteq Conns
  /\ owner \in [Conns -> Clients]
  /\ loop \in [Conns -> LoopStep]
  /\ run \in {"reading", "tracking", "writing", "stopped"}
  /\ from \in Clients
  /\ conn \in Conns \cup {NoConn}
  /\ run = "writing" => conn # NoConn
  /\ closer \in {"idle", "closing", "closed"}

Init ==
  /\ listening = TRUE
  /\ table = [k \in Tracked |-> NoConn]
  /\ open = {}
  /\ \E k \in Clients : owner = [c \in Conns |-> k] /\ from = k
  /\ loop = [c \in Conns |-> "none"]
  /\ run = "reading" /\ conn = NoConn
  /\ closer = "idle"

(***************************************************************************)
(* Run.                                                                    *)
(***************************************************************************)
RunRead(k) ==
  /\ run = "reading" /\ listening
  /\ run' = "tracking" /\ from' = k
  /\ UNCHANGED <<sessions, listening, conn, closer>>

\* Any error of ReadFromUDP ends Run, and a closed listener is one.
RunStop ==
  /\ run = "reading"
  /\ run' = "stopped"
  /\ UNCHANGED <<sessions, listening, from, conn, closer>>

\* The write loop is not entered for a datagram of length zero.
Forward(c) ==
  \/ run' = "writing" /\ conn' = c
  \/ run' = "reading" /\ UNCHANGED conn

MissUnchecked == TRUE
Miss == table[Key(from)] = NoConn

RunHit ==
  /\ run = "tracking" /\ ~Miss
  /\ Forward(table[Key(from)])
  /\ UNCHANGED <<sessions, listening, from, closer>>

\* A miss: dial, enter the connection and start its replyLoop, under the
\* lock.  A connection whose replyLoop has returned may be dialled anew.
RunDial(c) ==
  /\ run = "tracking" /\ Miss
  /\ loop[c] = "none"
  /\ open' = open \cup {c}
  /\ table' = [table EXCEPT ![Key(from)] = c]
  /\ owner' = [owner EXCEPT ![c] = from]
  /\ loop' = [loop EXCEPT ![c] = "reading"]
  /\ Forward(c)
  /\ UNCHANGED <<listening, from, closer>>

NextDatagramGoesOn == Forward(NoConn)
NextDatagram == run' = "reading" /\ UNCHANGED conn

RunDialFails ==
  /\ run = "tracking" /\ Miss
  /\ NextDatagram
  /\ UNCHANGED <<sessions, listening, from, closer>>

\* The lock is released before the write, so that the connection may have
\* been closed: an error is only printed, and the datagram is lost.
RunWrite ==
  /\ run = "writing"
  /\ run' = "reading" /\ conn' = NoConn
  /\ UNCHANGED <<sessions, listening, from, closer>>

(***************************************************************************)
(* replyLoop of the connection c.                                          *)
(***************************************************************************)
LoopGoto(c, step) == loop' = [loop EXCEPT ![c] = step]

LoopRead(c) ==
  /\ loop[c] = "reading" /\ c \in open
  /\ LoopGoto(c, "writing")
  /\ UNCHANGED <<listening, table, open, owner, closer, runVars>>

\* The read deadline passes without a reply, or Close closed the connection.
LoopReadFails(c) ==
  /\ loop[c] = "reading"
  /\ LoopGoto(c, "exiting")
  /\ UNCHANGED <<listening, table, open, owner, closer, runVars>>

WriteEnds(c) == (listening /\ LoopGoto(c, "reading")) \/ LoopGoto(c, "exiting")

LoopWrite(c) ==
  /\ loop[c] = "writing" /\ WriteEnds(c)
  /\ UNCHANGED <<listening, table, open, owner, closer, runVars>>

\* The deferred function: the entry first, under the lock, ...
DeletedKeyOfLatest(c) == Key(from)
DeletedKey(c) == Key(owner[c])

LoopDeleteAfterClose(c) ==
  /\ loop[c] = "exiting" /\ LoopGoto(c, "closing")
  /\ open' = open \ {c}
  /\ UNCHANGED <<listening, table, owner, closer, runVars>>

LoopDelete(c) ==
  /\ loop[c] = "exiting" /\ LoopGoto(c, "closing")
  /\ table' = [table EXCEPT ![DeletedKey(c)] = NoConn]
  /\ UNCHANGED <<listening, open, owner, closer, runVars>>

\* ... then the connection.
ClosedNone(c) == {}
Closed(c) == {c}

LoopClose(c) ==
  /\ loop[c] = "closing" /\ LoopGoto(c, "none")
  /\ open' = open \ Closed(c)
  /\ UNCHANGED <<listening, table, owner, closer, runVars>>

(***************************************************************************)
(* Close.                                                                  *)
(***************************************************************************)
CloseListener ==
  /\ closer = "idle"
  /\ listening' = FALSE
  /\ closer' = "closing"
  /\ UNCHANGED <<sessions, runVars>>

CloseConns ==
  /\ closer = "closing"
  /\ open' = open \ {table[k] : k \in Tracked}
  /\ closer' = "closed"
  /\ UNCHANGED <<listening, table, owner, loop, runVars>>

(***************************************************************************)
(* The specification.                                                      *)
(***************************************************************************)
Run ==
  \/ \E k \in Clients : RunRead(k)
  \/ RunStop
  \/ RunHit
  \/ \E c \in Conns : RunDial(c)
  \/ RunDialFails
  \/ RunWrite

ReplyLoop(c) ==
  \/ LoopRead(c) \/ LoopReadFails(c) \/ LoopWrite(c)
  \/ LoopDelete(c) \/ LoopClose(c)

Next ==
  \/ Run
  \/ \E c \in Conns : ReplyLoop(c)
  \/ CloseListener
  \/ CloseConns

Spec == Init /\ [][Next]_vars

\* Every goroutine that can go on does; nobody has to call Close.
Fairness ==
  /\ WF_vars(Run)
  /\ \A c \in Conns : WF_vars(ReplyLoop(c))
  /\ WF_vars(CloseConns)

FairSpec == Spec /\ Fairness

(***************************************************************************)
(* Properties.                                                             *)
(***************************************************************************)
Serving(c) == loop[c] \in {"reading", "writing", "exiting"}

\* The table and the goroutines agree: an entry names a connection whose
\* replyLoop will remove it, and every replyLoop that has not yet removed an
\* entry has exactly its own.  So the delete of replyLoop, which looks at
\* the key only, never takes the entry of a later session.
TableTracksLoops ==
  \A k \in Clients, c \in Conns :
    table[Key(k)] = c <=> Serving(c) /\ owner[c] = k

\* A datagram goes out over a connection whose replies go back to the client
\* it came from: no two clients share a key.
RepliesReachSender ==
  run = "writing" => owner[conn] = from

\* Until Close has closed them, the connections in the table are open: Run
\* never finds one that a finished replyLoop has closed.
LiveSessionOpen ==
  closer # "closed" => \A k \in Tracked : table[k] # NoConn => table[k] \in open

\* A connection that no replyLoop holds is closed.
NoLeakedConn ==
  \A c \in open : loop[c] # "none"


\* The proxy implements the promise of UDPSessions, which knows no keys.
Sessions == INSTANCE UDPSessions
              WITH Clients <- Clients, Conns <- Conns, NoConn <- NoConn,
                   table <- [k \in Clients |-> table[Key(k)]]
ImplementsSessions == Sessions!Spec

=============================================================================
