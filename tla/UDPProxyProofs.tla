--------------------------- MODULE UDPProxyProofs ---------------------------
(***************************************************************************)
(* What is proved of UDPProxy, for every set of clients and connections.   *)
(***************************************************************************)
EXTENDS UDPProxy, TLAPS

\* No part of the invariant is inductive without the others: a connection
\* may be closed because no entry names it, which TableTracksLoops says, and
\* may be dialled because no entry names it either.
UDPInv ==
  /\ TypeOK
  /\ TableTracksLoops
  /\ LiveSessionOpen
  /\ NoLeakedConn
  /\ RepliesReachSender

USE DEF runVars, sessions

\* Within a family of addresses, a key stands for one address.
LEMMA KeysDistinct ==
  ASSUME NEW n \in {4, 16}, NEW a \in Addr(n), NEW b \in Addr(n), Key(a) = Key(b)
  PROVE  a = b
<1>1. a.ip \in [1 .. n -> 0 .. 255] /\ b.ip \in [1 .. n -> 0 .. 255]
  BY DEF Addr
<1>2. Len(a.ip) = n /\ Len(b.ip) = n
  BY <1>1
<1>3. a.port = b.port
  BY DEF Key
<1>4. CASE n = 4
  <2>1. a.ip[1] = b.ip[1] /\ a.ip[2] = b.ip[2] /\ a.ip[3] = b.ip[3] /\ a.ip[4] = b.ip[4]
    BY <1>2, <1>4 DEF Key, IPLow
  <2>2. \A i \in 1 .. n : a.ip[i] = b.ip[i]
    BY <1>4, <2>1
  <2>3. a.ip = b.ip
    BY <1>1, <2>2
  <2> QED BY <1>3, <2>3 DEF Addr
<1>5. CASE n = 16
  <2>1. /\ a.ip[1] = b.ip[1] /\ a.ip[2] = b.ip[2] /\ a.ip[3] = b.ip[3] /\ a.ip[4] = b.ip[4]
        /\ a.ip[5] = b.ip[5] /\ a.ip[6] = b.ip[6] /\ a.ip[7] = b.ip[7] /\ a.ip[8] = b.ip[8]
    BY <1>2, <1>5 DEF Key, IPHigh, Word
  <2>2. /\ a.ip[9] = b.ip[9] /\ a.ip[10] = b.ip[10] /\ a.ip[11] = b.ip[11]
        /\ a.ip[12] = b.ip[12] /\ a.ip[13] = b.ip[13] /\ a.ip[14] = b.ip[14]
        /\ a.ip[15] = b.ip[15] /\ a.ip[16] = b.ip[16]
    BY <1>2, <1>5 DEF Key, IPLow, Word
  <2>3. \A i \in 1 .. n : a.ip[i] = b.ip[i]
    BY <1>5, <2>1, <2>2
  <2>4. a.ip = b.ip
    BY <1>1, <2>3
  <2> QED BY <1>3, <2>4 DEF Addr
<1> QED BY <1>4, <1>5

LEMMA OneKeyEach ==
  /\ \A k, l \in Clients : Key(k) = Key(l) => k = l
  /\ \A k \in Clients : Key(k) \in Tracked
  BY UDPAssumption, KeysDistinct DEF Tracked

LEMMA UDPInit == Init => UDPInv
<1> SUFFICES ASSUME Init PROVE UDPInv
  OBVIOUS
<1>1. PICK k \in Clients : owner = [c \in Conns |-> k] /\ from = k
  BY DEF Init
<1>2. TypeOK
  BY <1>1 DEF Init, TypeOK, LoopStep
<1>3. TableTracksLoops
  BY UDPAssumption, OneKeyEach DEF Init, TableTracksLoops, Serving
<1>4. LiveSessionOpen /\ NoLeakedConn /\ RepliesReachSender
  BY DEF Init, LiveSessionOpen, NoLeakedConn, RepliesReachSender
<1> QED BY <1>2, <1>3, <1>4 DEF UDPInv

LEMMA UDPTypeNext ==
  ASSUME TypeOK, [Next]_vars
  PROVE  TypeOK'
<1> USE OneKeyEach DEF TypeOK, LoopStep, LoopGoto
<1>1. CASE Run
  BY <1>1, UDPAssumption
  DEF Run, RunRead, RunStop, RunHit, RunDial, RunDialFails, RunWrite, Forward, Miss, NextDatagram
<1>2. ASSUME NEW c \in Conns, ReplyLoop(c) PROVE TypeOK'
  BY <1>2
  DEF ReplyLoop, LoopRead, LoopReadFails, LoopWrite, WriteEnds, LoopDelete, LoopClose, Closed
<1>3. CASE CloseListener \/ CloseConns
  BY <1>3 DEF CloseListener, CloseConns
<1>4. CASE UNCHANGED vars
  BY <1>4 DEF vars
<1> QED BY <1>1, <1>2, <1>3, <1>4 DEF Next

LEMMA UDPNext ==
  ASSUME UDPInv, [Next]_vars
  PROVE  UDPInv'
<1>0. TypeOK /\ TypeOK'
  BY UDPTypeNext DEF UDPInv
<1> USE UDPAssumption, OneKeyEach DEF UDPInv, TypeOK, LoopStep, LoopGoto
<1>1. ASSUME NEW d \in Conns, RunDial(d) PROVE UDPInv'
  <2>1. \A k \in Clients : table[Key(k)] # d
    BY <1>1 DEF RunDial, TableTracksLoops, Serving
  <2>2. TableTracksLoops'
    BY <1>0, <1>1, <2>1 DEF RunDial, Miss, TableTracksLoops, Serving
  <2>3. LiveSessionOpen' /\ NoLeakedConn'
    BY <1>0, <1>1, <2>1 DEF RunDial, LiveSessionOpen, NoLeakedConn
  <2>4. RepliesReachSender'
    BY <1>0, <1>1 DEF RunDial, Forward, RepliesReachSender
  <2> QED BY <1>0, <2>2, <2>3, <2>4
<1>2. CASE (\E k \in Clients : RunRead(k)) \/ RunStop \/ RunHit \/ RunDialFails \/ RunWrite
  <2>1. TableTracksLoops' /\ LiveSessionOpen' /\ NoLeakedConn'
    BY <1>0, <1>2
    DEF RunRead, RunStop, RunHit, RunDialFails, RunWrite, TableTracksLoops, Serving, LiveSessionOpen, NoLeakedConn
  <2>2. RepliesReachSender'
    BY <1>0, <1>2
    DEF RunRead, RunStop, RunHit, RunDialFails, RunWrite, Forward, Miss, NextDatagram, TableTracksLoops, RepliesReachSender
  <2> QED BY <1>0, <2>1, <2>2
<1>3. ASSUME NEW d \in Conns, LoopRead(d) \/ LoopReadFails(d) \/ LoopWrite(d) PROVE UDPInv'
  <2>1. TableTracksLoops'
    BY <1>0, <1>3 DEF LoopRead, LoopReadFails, LoopWrite, WriteEnds, TableTracksLoops, Serving
  <2>2. LiveSessionOpen' /\ NoLeakedConn' /\ RepliesReachSender'
    BY <1>0, <1>3
    DEF LoopRead, LoopReadFails, LoopWrite, WriteEnds, LiveSessionOpen, NoLeakedConn, RepliesReachSender
  <2> QED BY <1>0, <2>1, <2>2
<1>4. ASSUME NEW d \in Conns, LoopDelete(d) PROVE UDPInv'
  <2>1. table[Key(owner[d])] = d
    BY <1>4 DEF LoopDelete, TableTracksLoops, Serving
  <2>2. TableTracksLoops'
    BY <1>0, <1>4, <2>1 DEF LoopDelete, DeletedKey, TableTracksLoops, Serving
  <2>3. LiveSessionOpen' /\ NoLeakedConn' /\ RepliesReachSender'
    BY <1>0, <1>4 DEF LoopDelete, DeletedKey, LiveSessionOpen, NoLeakedConn, RepliesReachSender
  <2> QED BY <1>0, <2>2, <2>3
<1>5. ASSUME NEW d \in Conns, LoopClose(d) PROVE UDPInv'
  <2>1. \A k \in Tracked : table[k] # d
    BY <1>5 DEF LoopClose, TableTracksLoops, Serving, Tracked
  <2>2. TableTracksLoops'
    BY <1>0, <1>5 DEF LoopClose, TableTracksLoops, Serving
  <2>3. LiveSessionOpen' /\ NoLeakedConn' /\ RepliesReachSender'
    BY <1>0, <1>5, <2>1 DEF LoopClose, Closed, LiveSessionOpen, NoLeakedConn, RepliesReachSender
  <2> QED BY <1>0, <2>2, <2>3
<1>6. CASE CloseListener \/ CloseConns
  BY <1>0, <1>6
  DEF CloseListener, CloseConns, TableTracksLoops, Serving, LiveSessionOpen, NoLeakedConn, RepliesReachSender
<1>7. CASE UNCHANGED vars
  BY <1>7 DEF vars, TableTracksLoops, Serving, LiveSessionOpen, NoLeakedConn, RepliesReachSender
<1> QED BY <1>1, <1>2, <1>3, <1>4, <1>5, <1>6, <1>7 DEF Next, Run, ReplyLoop

LEMMA UDPInvariance == Spec => []UDPInv
  BY UDPInit, UDPNext, PTL DEF Spec

\* Well-typed: Run never writes to the connection of a dial that failed.
THEOREM TypeCorrect == Spec => []TypeOK
<1>1. UDPInv => TypeOK
  BY DEF UDPInv
<1> QED BY <1>1, UDPInvariance, PTL

\* Table and goroutines agree, in every reachable state.
THEOREM SessionsTracked == Spec => []TableTracksLoops
<1>1. UDPInv => TableTracksLoops
  BY DEF UDPInv
<1> QED BY <1>1, UDPInvariance, PTL

\* No entry names a closed connection before Close.
THEOREM SessionsOpen == Spec => []LiveSessionOpen
<1>1. UDPInv => LiveSessionOpen
  BY DEF UDPInv
<1> QED BY <1>1, UDPInvariance, PTL

\* No connection stays open that no goroutine will close.
THEOREM NoLeak == Spec => []NoLeakedConn
<1>1. UDPInv => NoLeakedConn
  BY DEF UDPInv
<1> QED BY <1>1, UDPInvariance, PTL

\* No client gets the replies to another's datagrams.
THEOREM RepliesTracked == Spec => []RepliesReachSender
<1>1. UDPInv => RepliesReachSender
  BY DEF UDPInv
<1> QED BY <1>1, UDPInvariance, PTL

(***************************************************************************)
(* The refinement: RunDial is Bind, LoopDelete is Release, and every other *)
(* step leaves the table alone.                                            *)
(***************************************************************************)
Bindings == [k \in Clients |-> table[Key(k)]]

LEMMA RefineInit == Init => Sessions!Init
  BY OneKeyEach DEF Init, Sessions!Init

LEMMA RefineNext ==
  ASSUME UDPInv, [Next]_vars
  PROVE  [Sessions!Next]_Bindings
<1> USE UDPAssumption, OneKeyEach DEF UDPInv, TypeOK, Bindings
<1>1. ASSUME NEW c \in Conns, RunDial(c) PROVE Sessions!Next
  <2>1. c \notin Sessions!Bound
    BY <1>1 DEF RunDial, TableTracksLoops, Serving, Sessions!Bound
  <2>2. Bindings' = [Bindings EXCEPT ![from] = c]
    BY <1>1 DEF RunDial
  <2>3. Sessions!Bind(from, c)
    BY <1>1, <2>1, <2>2 DEF RunDial, Miss, Sessions!Bind
  <2> QED BY <2>3 DEF Sessions!Next
<1>2. ASSUME NEW c \in Conns, LoopDelete(c) PROVE Sessions!Next
  <2>1. table[Key(owner[c])] = c
    BY <1>2 DEF LoopDelete, TableTracksLoops, Serving
  <2>2. Bindings' = [Bindings EXCEPT ![owner[c]] = NoConn]
    BY <1>2 DEF LoopDelete, DeletedKey
  <2>3. Sessions!Release(owner[c])
    BY <1>2, <2>1, <2>2 DEF Sessions!Release
  <2> QED BY <2>3 DEF Sessions!Next
<1>3. CASE UNCHANGED table
  BY <1>3
<1> QED
  BY <1>1, <1>2, <1>3
  DEF Next, vars, Run, RunRead, RunStop, RunHit, RunDialFails, RunWrite, ReplyLoop,
      LoopRead, LoopReadFails, LoopWrite, LoopClose, CloseListener, CloseConns

\* The proxy implements UDPSessions: keys serve as well as addresses.
THEOREM Refinement == Spec => ImplementsSessions
<1>1. UDPInv /\ [Next]_vars => [Sessions!Next]_Bindings
  BY RefineNext
<1> QED BY <1>1, RefineInit, UDPInvariance, PTL DEF Spec, ImplementsSessions, Sessions!Spec, Bindings

(***************************************************************************)
(* The proxy winds down.                                                   *)
(***************************************************************************)
\* The steps that Run, and the replyLoop of a session, take at most once the
\* listener is closed.
RunLeft(r) ==
  CASE r = "stopped" -> 0 [] r = "reading" -> 1 [] r = "writing" -> 2 [] r = "tracking" -> 3
LoopLeft(l) ==
  CASE l = "none" -> 0 [] l = "closing" -> 1 [] l = "exiting" -> 2 [] l = "writing" -> 3
    [] l = "reading" -> 4

\* Run has read a datagram and may yet dial a session for it.
MayDial(c) == run = "tracking" /\ run' # "tracking" /\ loop[c] = "none" /\ loop'[c] = "reading"

\* Once Close has closed the listener it stays closed; each step of Run and of
\* a replyLoop brings it nearer to its return, and Run dials one session more
\* at most, for the datagram that it had read before.
WindsDown ==
  [][~listening =>
       /\ ~listening'
       /\ Run => RunLeft(run') < RunLeft(run)
       /\ ~Run => run' = run
       /\ \A c \in Conns :
            /\ ReplyLoop(c) => LoopLeft(loop'[c]) < LoopLeft(loop[c])
            /\ ~ReplyLoop(c) => loop'[c] = loop[c] \/ MayDial(c)]_vars

\* After Close, for any number of clients: at most three steps of Run, one
\* late session, and four steps of each replyLoop.
THEOREM CloseWindsDown == Spec => WindsDown
<1>1. ASSUME TypeOK, [Next]_vars, ~listening
      PROVE  /\ ~listening'
             /\ Run => RunLeft(run') < RunLeft(run)
             /\ ~Run => run' = run
  <2>1. ~listening'
    BY <1>1
    DEF Next, Run, RunRead, RunStop, RunHit, RunDial, RunDialFails, RunWrite, ReplyLoop,
        LoopRead, LoopReadFails, LoopWrite, LoopDelete, LoopClose, CloseListener, CloseConns, vars
  <2>2. Run => RunLeft(run') < RunLeft(run)
    BY <1>1
    DEF Run, RunRead, RunStop, RunHit, RunDial, RunDialFails, RunWrite, Forward, NextDatagram,
        RunLeft
  <2>3. ~Run => run' = run
    BY <1>1
    DEF Next, ReplyLoop, LoopRead, LoopReadFails, LoopWrite, LoopDelete, LoopClose,
        CloseListener, CloseConns, vars
  <2> QED BY <2>1, <2>2, <2>3
<1>2. ASSUME TypeOK, [Next]_vars, ~listening, NEW c \in Conns
      PROVE  /\ ReplyLoop(c) => LoopLeft(loop'[c]) < LoopLeft(loop[c])
             /\ ~ReplyLoop(c) => loop'[c] = loop[c] \/ MayDial(c)
  <2>1. ReplyLoop(c) => LoopLeft(loop'[c]) < LoopLeft(loop[c])
    BY <1>2
    DEF ReplyLoop, LoopRead, LoopReadFails, LoopWrite, WriteEnds, LoopDelete, LoopClose,
        LoopGoto, LoopLeft, TypeOK
  <2>2. ASSUME NEW d \in Conns, d # c, ReplyLoop(d) PROVE loop'[c] = loop[c]
    BY <1>2, <2>2
    DEF ReplyLoop, LoopRead, LoopReadFails, LoopWrite, WriteEnds, LoopDelete, LoopClose,
        LoopGoto, TypeOK
  <2>3. ASSUME NEW d \in Conns, RunDial(d) PROVE loop'[c] = loop[c] \/ MayDial(c)
    BY <1>2, <2>3 DEF RunDial, Forward, MayDial, TypeOK
  <2>4. ASSUME (\E k \in Clients : RunRead(k)) \/ RunStop \/ RunHit \/ RunDialFails \/ RunWrite
        PROVE  loop' = loop
    BY <2>4 DEF RunRead, RunStop, RunHit, RunDialFails, RunWrite
  <2>5. ASSUME CloseListener \/ CloseConns \/ UNCHANGED vars PROVE loop' = loop
    BY <2>5 DEF CloseListener, CloseConns, vars
  <2> QED BY <1>2, <2>1, <2>2, <2>3, <2>4, <2>5 DEF Next, Run
<1>3. ASSUME TypeOK, [Next]_vars
      PROVE  [~listening =>
               /\ ~listening'
               /\ Run => RunLeft(run') < RunLeft(run)
               /\ ~Run => run' = run
               /\ \A c \in Conns :
                    /\ ReplyLoop(c) => LoopLeft(loop'[c]) < LoopLeft(loop[c])
                    /\ ~ReplyLoop(c) => loop'[c] = loop[c] \/ MayDial(c)]_vars
  BY <1>1, <1>2, <1>3
<1> QED BY <1>3, TypeCorrect, PTL DEF Spec, WindsDown

=============================================================================
