-------------------------- MODULE StreamRelayProofs --------------------------
(***************************************************************************)
(* What is proved of StreamRelay: for both protocols, any ends and any     *)
(* number of chunks, that an end of stream has a cause and that no broker  *)
(* and no socket is left behind; and that the TCP relay of ends that       *)
(* behave implements DuplexStream.                                         *)
(***************************************************************************)
EXTENDS StreamRelay, TLAPS

USE RelayAssumption DEF To

LEMMA EndsAre ==
  /\ Dirs = {"client", "backend"} /\ Ends = Dirs
  /\ \A d \in Dirs : From(d) \in Dirs /\ From(d) # d /\ From(From(d)) = d
  BY DEF Dirs, Ends, From

(***************************************************************************)
(* Types.                                                                  *)
(***************************************************************************)
LEMMA TypeInit == Init => TypeOK
<1> SUFFICES ASSUME Init PROVE TypeOK
  OBVIOUS
<1>1. 0 \in 0 .. MaxSend
  BY DEF RelayAssumption
<1>2. sent \in [Dirs -> 0 .. MaxSend] /\ got \in [Dirs -> Nat]
  BY <1>1 DEF Init
<1>3. read \in [Dirs -> Nat] /\ wrote \in [Dirs -> Nat]
  BY DEF Init
<1>4. fin \in [Dirs -> BOOLEAN] /\ eof \in [Dirs -> BOOLEAN] /\ finOut \in [Dirs -> BOOLEAN]
  BY DEF Init
<1>5. \A d \in Dirs : got[d] <= wrote[d] /\ wrote[d] <= read[d] /\ read[d] <= sent[d]
  BY DEF Init
<1> QED BY <1>2, <1>3, <1>4, <1>5 DEF Init, TypeOK

LEMMA SocketType ==
  ASSUME TypeOK, NEW e \in Ends, CloseSocket(e)
  PROVE  finOut' \in [Dirs -> BOOLEAN] /\ aborted' \subseteq Ends /\ closed' \subseteq Ends
  BY EndsAre DEF TypeOK, CloseSocket, EndStream, Alive

LEMMA TypeNext == TypeOK /\ [Next]_vars => TypeOK'
<1> SUFFICES ASSUME TypeOK, [Next]_vars PROVE TypeOK'
  OBVIOUS
<1> USE EndsAre DEF TypeOK, peers, copies, sockets, loop
<1>1. ASSUME NEW d \in Dirs, Peer(d) PROVE TypeOK'
  <2>1. CASE Send(d)
    BY <2>1 DEF Send
  <2>2. CASE Deliver(d)
    BY <2>2 DEF Deliver
  <2>3. CASE Finish(d) \/ SeeEnd(d) \/ Abort(d)
    BY <2>3 DEF Finish, SeeEnd, Abort
  <2> QED BY <1>1, <2>1, <2>2, <2>3 DEF Peer
<1>2. ASSUME NEW d \in Dirs, CopyRead(d) \/ CopyWrite(d) PROVE TypeOK'
  <2>1. CASE CopyRead(d)
    BY <2>1 DEF CopyRead
  <2>2. CASE CopyWrite(d)
    BY <2>2 DEF CopyWrite, CanWrite, Holds
  <2> QED BY <1>2, <2>1, <2>2
<1>3. ASSUME NEW d \in Dirs, CopyEnds(d) \/ CloseFrom(d) \/ CloseTo(d) PROVE TypeOK'
  <2>1. finOut' \in [Dirs -> BOOLEAN] /\ aborted' \subseteq Ends /\ closed' \subseteq Ends
    BY <1>3, SocketType DEF CopyEnds, CloseFrom, CloseTo, EndStream, Alive
  <2> QED BY <1>3, <2>1 DEF CopyEnds, CloseFrom, CloseTo
<1>4. CASE ClientLoop
  <2>1. finOut' \in [Dirs -> BOOLEAN] /\ aborted' \subseteq Ends /\ closed' \subseteq Ends
    BY <1>4, SocketType
    DEF ClientLoop, Dial, DialFails, Select, CloseClient, CloseBackend, Return
  <2> QED
    BY <1>4, <2>1
    DEF ClientLoop, Dial, DialFails, Select, CloseClient, CloseBackend, Return, Goto
<1>5. CASE Quit
  BY <1>5 DEF Quit
<1>6. CASE UNCHANGED vars
  BY <1>6 DEF vars
<1> QED BY <1>1, <1>2, <1>3, <1>4, <1>5, <1>6 DEF Next, Broker

\* What is counted stays in order and in bounds, whatever the ends do.
THEOREM TypeCorrect == Spec => []TypeOK
  BY TypeInit, TypeNext, PTL DEF Spec

(***************************************************************************)
(* The cause of an end of stream.  Where the proxy ends a direction there  *)
(* is one, or the receiver has reset its connection and will not see it.   *)
(***************************************************************************)
Cause(d) ==
  \/ fin[d] /\ wrote[d] = sent[d]
  \/ From(d) \in aborted \/ Refused(d) \/ quit
  \/ protocol = "sctp" /\ (\E e \in Dirs : fin[e])

CauseOrReset(d) == Cause(d) \/ To(d) \in aborted
Ended(d) == broker[d] \notin {"none", "copying"}

LoopOK ==
  /\ main = "dialing" => closed = {} /\ \A d \in Dirs : broker[d] = "none"
  /\ main \notin {"dialing", "returned"} => \A d \in Dirs : broker[d] # "none"
  /\ main \in {"closeClient", "closeBackend", "waiting"} => quit \/ Finished
  /\ main = "returned" => Finished \/ \A d \in Dirs : broker[d] = "none"

\* Why a socket has been closed.
ClosedOK ==
  closed # {} =>
    \/ quit \/ Finished
    \/ main = "returned" /\ \A d \in Dirs : broker[d] = "none"
    \/ protocol = "sctp" /\ \E d \in Dirs : Ended(d)

CauseOK(d) ==
  /\ Ended(d) \/ finOut[d] => CauseOrReset(d)
  /\ finOut[d] => ~Alive(To(d)) \/ broker[d] = "done"
  /\ eof[d] => finOut[d] /\ got[d] = wrote[d] /\ Cause(d)

CauseInv == TypeOK /\ LoopOK /\ ClosedOK /\ \A d \in Dirs : CauseOK(d)

LEMMA CauseInit == Init => CauseInv
  BY TypeInit, EndsAre
  DEF CauseInv, Init, LoopOK, ClosedOK, CauseOK, Ended, Finished

\* A cause never goes away.
LEMMA CauseStays ==
  ASSUME CauseInv, [Next]_vars, NEW d \in Dirs
  PROVE  Cause(d) => Cause(d)'
<1> SUFFICES ASSUME Cause(d) PROVE Cause(d)'
  OBVIOUS
<1> USE EndsAre DEF peers, copies, sockets, loop
<1>1. aborted \subseteq aborted' /\ (quit => quit') /\ protocol' = protocol
  BY DEF Next, Peer, Send, Finish, Deliver, SeeEnd, Abort, Broker, CopyRead, CopyWrite,
         CopyEnds, CloseFrom, CloseTo, CloseSocket, EndStream, ClientLoop, Dial, DialFails,
         Select, CloseClient, CloseBackend, Return, Goto, Quit, vars
<1>2. \A e \in Dirs : fin[e] => fin'[e] /\ sent'[e] = sent[e]
  BY DEF Next, Peer, Send, Finish, Deliver, SeeEnd, Abort, Broker, CopyRead, CopyWrite,
         CopyEnds, CloseFrom, CloseTo, ClientLoop, Dial, DialFails,
         Select, CloseClient, CloseBackend, Return, Quit, vars, CauseInv, TypeOK
<1>3. wrote[d] = sent[d] /\ fin[d] => wrote'[d] = wrote[d]
  BY DEF Next, Peer, Send, Finish, Deliver, SeeEnd, Abort, Broker, CopyRead, CopyWrite,
         CanWrite, Holds, CopyEnds, CloseFrom, CloseTo, ClientLoop, Dial, DialFails,
         Select, CloseClient, CloseBackend, Return, Quit, vars, CauseInv, TypeOK
<1>4. Refused(d) => Refused(d)'
  BY DEF Refused, Next, Peer, Send, Finish, Deliver, SeeEnd, Abort, Broker, CopyRead, CopyWrite,
         Copying, CopyEnds, CloseFrom, CloseTo, ClientLoop, Dial, DialFails,
         Select, CloseClient, CloseBackend, Return, Quit, vars, CauseInv, TypeOK
<1> QED BY <1>1, <1>2, <1>3, <1>4 DEF Cause

LEMMA ResetStays == [Next]_vars => aborted \subseteq aborted' /\ closed \subseteq closed'
  BY DEF Next, Peer, Send, Finish, Deliver, SeeEnd, Abort, Broker, CopyRead, CopyWrite,
         CopyEnds, CloseFrom, CloseTo, CloseSocket, EndStream, ClientLoop, Dial, DialFails,
         Select, CloseClient, CloseBackend, Return, Quit, vars, peers, copies, sockets, loop

\* What closing the socket of an end may disturb.
LEMMA SocketCause ==
  ASSUME CauseInv, [Next]_vars, NEW e \in Ends, CloseSocket(e), CauseOrReset(e)',
         UNCHANGED <<eof, got, wrote>>, NEW d \in Dirs, Ended(d)' => CauseOrReset(d)',
         broker[d] = "done" => broker'[d] = "done"
  PROVE  CauseOK(d)'
<1> USE EndsAre DEF CauseInv, CauseOK, CauseOrReset
<1>1. finOut'[d] => CauseOrReset(d)'
  BY CauseStays, ResetStays DEF CloseSocket, EndStream, TypeOK
<1>2. finOut'[d] => ~Alive(To(d))' \/ broker'[d] = "done"
  BY ResetStays DEF CloseSocket, EndStream, TypeOK, Alive
<1>3. eof'[d] => finOut'[d] /\ got'[d] = wrote'[d] /\ Cause(d)'
  BY CauseStays DEF CloseSocket, EndStream, TypeOK
<1> QED BY <1>1, <1>2, <1>3

LEMMA CauseBroker ==
  ASSUME CauseInv, NEW d \in Dirs, Broker(d)
  PROVE  CauseInv'
<1> USE EndsAre DEF peers, copies, sockets, loop
<1>0. [Next]_vars /\ TypeOK'
  BY TypeNext DEF Next, CauseInv
<1>1. CASE CopyRead(d) \/ CopyWrite(d)
  <2>1. \A c \in Dirs : (CauseOrReset(c) => CauseOrReset(c)') /\ (Cause(c) => Cause(c)')
    BY <1>0, CauseStays, ResetStays DEF CauseOrReset
  <2>2. \A c \in Dirs : eof[c] => c # d \/ ~CopyWrite(d)
    BY DEF CauseInv, CauseOK, CopyWrite, CanWrite, Copying
  <2>3. \A c \in Dirs : CauseOK(c)'
    BY <1>1, <2>1, <2>2 DEF CauseInv, CauseOK, CopyRead, CopyWrite, Ended, Alive, TypeOK
  <2> QED BY <1>0, <1>1, <2>3 DEF CauseInv, CopyRead, CopyWrite, LoopOK, ClosedOK, Finished, Ended
<1>2. CASE CopyEnds(d)
  <2>1. CauseOrReset(d)'
    <3>1. CASE \A e \in Ends : e \notin closed
      BY <1>2, <3>1
      DEF CopyEnds, ReadEnds, WriteFails, Holds, Alive, CauseInv, TypeOK, CauseOrReset, Cause
    <3>2. CASE closed # {}
      <4>1. quit \/ (protocol = "sctp" /\ Ended(From(d)))
        BY <1>2, <3>2 DEF CauseInv, ClosedOK, CopyEnds, Copying, Finished, Ended
      <4>2. quit \/ (protocol = "sctp" /\ CauseOrReset(From(d)) /\ ~Refused(From(d)))
        BY <4>1 DEF CauseInv, CauseOK, Ended, Refused
      <4> QED BY <1>2, <4>2 DEF CopyEnds, CauseOrReset, Cause
    <3> QED BY <3>1, <3>2
  <2>2. \A c \in Dirs : CauseOK(c)'
    BY <1>0, <1>2, <2>1, CauseStays, ResetStays
    DEF CauseInv, CauseOK, CauseOrReset, CopyEnds, Copying, Ended, Alive, TypeOK
  <2> QED
    BY <1>0, <1>2, <2>2
    DEF CauseInv, CopyEnds, Copying, LoopOK, ClosedOK, Finished, Ended, TypeOK
<1>3. CASE CloseFrom(d) \/ CloseTo(d)
  <2>1. Ended(d) /\ Ended(d)' /\ broker[d] # "done" /\ main \notin {"dialing", "returned"}
    BY <1>3 DEF CauseInv, TypeOK, LoopOK, CloseFrom, CloseTo, Ended, Finished
  <2>2. \A c \in Dirs : c # d => broker'[c] = broker[c]
    BY <1>3 DEF CauseInv, TypeOK, CloseFrom, CloseTo
  <2>3. LoopOK'
    BY <1>3, <2>1, <2>2 DEF CauseInv, LoopOK, Finished, CloseFrom, CloseTo, TypeOK
  <2>4. UNCHANGED <<protocol, eof, got, wrote, fin, sent, main, quit>>
    BY <1>3 DEF CloseFrom, CloseTo
  <2>5. \A c \in Dirs : Ended(c)' => CauseOrReset(c)'
    BY <1>0, <2>1, <2>2, CauseStays, ResetStays DEF CauseInv, CauseOK, CauseOrReset, Ended
  <2>6. ClosedOK'
    BY <1>3, <2>1, <2>2, <2>4
    DEF CauseInv, ClosedOK, CloseFrom, CloseTo, CloseSocket, Finished, Ended, TypeOK
  <2>7. \A c \in Dirs : broker[c] = "done" => broker'[c] = "done"
    BY <2>1, <2>2
  <2>8. CASE protocol = "sctp"
    <3>1. CauseOrReset(d)' /\ ~Refused(d)'
      BY <2>1, <2>4, <2>5 DEF Refused
    <3>2. CauseOrReset(From(d))'
      BY <2>4, <2>8, <3>1 DEF CauseOrReset, Cause
    <3>3. \A c \in Dirs : CauseOK(c)'
      BY <1>0, <1>3, <2>4, <2>5, <2>7, <2>8, <3>1, <3>2, SocketCause DEF CloseFrom, CloseTo
    <3> QED BY <1>0, <2>3, <2>6, <3>3 DEF CauseInv
  <2>9. CASE protocol = "tcp"
    <3>1. \A c \in Dirs : finOut'[c] => finOut[c] \/ (c = d /\ broker'[d] = "done")
      BY <1>3, <2>9 DEF CauseInv, TypeOK, CloseFrom, CloseTo, EndStream
    <3>2. \A c \in Dirs : finOut[c] => finOut'[c]
      BY <1>3, <2>9 DEF CauseInv, TypeOK, CloseFrom, CloseTo, EndStream
    <3>3. UNCHANGED <<aborted, closed>>
      BY <1>3, <2>9 DEF CloseFrom, CloseTo, EndStream
    <3>4. \A c \in Dirs : CauseOK(c)'
      BY <1>0, <2>1, <2>4, <2>5, <2>7, <3>1, <3>2, <3>3, CauseStays
      DEF CauseInv, CauseOK, CauseOrReset, Alive, Ended
    <3> QED BY <1>0, <2>3, <2>6, <3>4 DEF CauseInv
  <2> QED BY <2>8, <2>9 DEF CauseInv, TypeOK, RelayAssumption
<1> QED BY <1>1, <1>2, <1>3 DEF Broker

LEMMA CausePeer ==
  ASSUME CauseInv, NEW d \in Dirs, Peer(d)
  PROVE  CauseInv'
<1> USE EndsAre DEF peers, copies, sockets, loop
<1>1. [Next]_vars /\ TypeOK'
  BY TypeNext DEF Next, CauseInv
<1>2. \A c \in Dirs : Cause(c) => Cause(c)'
  BY <1>1, CauseStays
<1>3. \A c \in Dirs : eof[c] => c # d \/ ~Deliver(d)
  BY DEF CauseInv, CauseOK, Deliver, TypeOK
<1>4. \A c \in Dirs : CauseOK(c)'
  BY <1>2, <1>3
  DEF CauseInv, CauseOK, CauseOrReset, Ended, Alive, TypeOK,
      Peer, Send, Finish, Deliver, SeeEnd, Abort
<1> QED
  BY <1>1, <1>4
  DEF CauseInv, LoopOK, ClosedOK, Finished, Ended, Peer, Send, Finish, Deliver, SeeEnd, Abort

LEMMA CauseLoop ==
  ASSUME CauseInv, ClientLoop
  PROVE  CauseInv'
<1> USE EndsAre DEF peers, copies, sockets, loop
<1>1. [Next]_vars /\ TypeOK'
  BY TypeNext DEF Next, CauseInv
<1>2. \A c \in Dirs : Cause(c) => Cause(c)'
  BY <1>1, CauseStays
<1>3. CASE Dial \/ Select \/ Return
  <2>1. \A c \in Dirs : CauseOK(c)'
    BY <1>2, <1>3
    DEF CauseInv, CauseOK, CauseOrReset, Ended, Alive, LoopOK, Dial, Select, Return
  <2> QED
    BY <1>1, <1>3, <2>1
    DEF CauseInv, LoopOK, ClosedOK, Finished, Ended, Dial, Select, Return, Goto
<1>4. CASE DialFails
  <2>1. \A c \in Dirs : broker'[c] = "none" /\ Refused(c)'
    BY <1>4 DEF CauseInv, LoopOK, DialFails, Goto, Refused
  <2>2. \A c \in Dirs : CauseOrReset(c)'
    BY <2>1 DEF CauseOrReset, Cause
  <2>3. UNCHANGED <<broker, eof, got, wrote>> /\ CloseSocket("client")
    BY <1>4 DEF DialFails
  <2>4. \A c \in Dirs : CauseOK(c)'
    BY <1>1, <2>2, <2>3, SocketCause
  <2> QED
    BY <1>1, <1>4, <2>1, <2>4 DEF CauseInv, LoopOK, ClosedOK, DialFails, Goto
<1>5. CASE CloseClient \/ CloseBackend
  <2>1. UNCHANGED <<broker, eof, got, wrote, quit, protocol, fin, sent>> /\ (quit \/ Finished)
    BY <1>5 DEF CauseInv, LoopOK, CloseClient, CloseBackend, Goto
  <2>2. \A c \in Dirs : CauseOrReset(c)'
    <3>1. CASE quit
      BY <2>1, <3>1 DEF CauseOrReset, Cause
    <3>2. CASE Finished
      BY <1>1, <1>2, <3>2, ResetStays DEF CauseInv, CauseOK, CauseOrReset, Finished, Ended
    <3> QED BY <2>1, <3>1, <3>2
  <2>3. PICK e \in Ends : CloseSocket(e)
    BY <1>5 DEF CloseClient, CloseBackend
  <2>4. \A c \in Dirs : CauseOK(c)'
    BY <1>1, <2>1, <2>2, <2>3, SocketCause
  <2>5. LoopOK' /\ ClosedOK'
    BY <1>5, <2>1
    DEF CauseInv, LoopOK, ClosedOK, Finished, Ended, CloseClient, CloseBackend, Goto
  <2> QED BY <1>1, <2>4, <2>5 DEF CauseInv
<1> QED BY <1>3, <1>4, <1>5 DEF ClientLoop

LEMMA CauseNext == CauseInv /\ [Next]_vars => CauseInv'
<1> SUFFICES ASSUME CauseInv, [Next]_vars PROVE CauseInv'
  OBVIOUS
<1>1. CASE Quit
  BY <1>1, TypeNext
  DEF CauseInv, LoopOK, ClosedOK, CauseOK, CauseOrReset, Cause, Finished, Ended, Alive,
      Quit, peers, copies, sockets
<1>2. CASE UNCHANGED vars
  BY <1>2
  DEF CauseInv, LoopOK, ClosedOK, CauseOK, CauseOrReset, Cause, Refused, Finished, Ended, Alive,
      TypeOK, vars, peers, copies, sockets, loop
<1> QED BY <1>1, <1>2, CauseBroker, CausePeer, CauseLoop DEF Next

\* An end of stream is never seen without a cause, with either protocol and
\* whatever the ends and Run do.
THEOREM Caused == Spec => []EndHasCause
<1>1. CauseInv => EndHasCause
  BY DEF CauseInv, CauseOK, Cause, EndHasCause
<1> QED BY <1>1, CauseInit, CauseNext, PTL DEF Spec

(***************************************************************************)
(* What clientLoop leaves behind.                                          *)
(***************************************************************************)
CleanOK ==
  /\ main = "closeBackend" => "client" \in closed
  /\ main = "waiting" => closed = Ends
  /\ main = "returned" =>
       \/ Finished /\ closed = Ends
       \/ (\A d \in Dirs : broker[d] = "none") /\ closed = {"client"}

\* Sockets are never opened again, and a broker that has ended does not run.
LEMMA CleanOthers ==
  ASSUME CauseInv, CleanOK, [Next]_vars, UNCHANGED main
  PROVE  CleanOK'
<1> USE EndsAre DEF CauseInv, TypeOK, LoopOK, CleanOK, Finished, peers, copies, sockets, loop
<1>1. closed \subseteq closed' /\ closed' \subseteq Ends
  BY ResetStays, TypeNext
<1>2. CASE main # "returned"
  BY <1>1, <1>2
<1>3. ASSUME NEW d \in Dirs, Broker(d) PROVE main # "returned"
  BY <1>3 DEF Broker, CopyRead, CopyWrite, CopyEnds, CloseFrom, CloseTo, Copying
<1>4. CASE main = "returned"
  <2>1. UNCHANGED <<broker, closed>>
    BY <1>3, <1>4
    DEF Next, Peer, Send, Finish, Deliver, SeeEnd, Abort, Quit, vars, ClientLoop, Dial,
        DialFails, Select, CloseClient, CloseBackend, Return
  <2> QED BY <1>4, <2>1
<1> QED BY <1>2, <1>4

LEMMA BothClosed ==
  ASSUME NEW S \in SUBSET Ends, "client" \in S
  PROVE  S \cup {"backend"} = Ends
  BY DEF Ends

LEMMA CleanLoop ==
  ASSUME CauseInv, CleanOK, ClientLoop
  PROVE  CleanOK'
<1> USE EndsAre DEF CauseInv, TypeOK, LoopOK, CleanOK, Goto, sockets
<1>0. ASSUME NEW e \in Ends, CloseSocket(e) PROVE closed' = closed \cup {e}
  BY <1>0 DEF CloseSocket
<1>1. CASE Dial \/ Select
  BY <1>1 DEF Dial, Select
<1>2. CASE DialFails
  BY <1>0, <1>2 DEF DialFails, Finished
<1>3. CASE CloseClient
  BY <1>0, <1>3 DEF CloseClient
<1>4. CASE CloseBackend
  <2>1. main' = "waiting" /\ "client" \in closed /\ closed \subseteq Ends
    BY <1>4 DEF CloseBackend
  <2>2. CloseSocket("backend")
    BY <1>4 DEF CloseBackend
  <2>3. closed' = closed \cup {"backend"}
    BY <1>0, <2>2
  <2>4. closed' = Ends
    BY <2>1, <2>3, BothClosed
  <2> QED BY <2>1, <2>4
<1>5. CASE Return
  BY <1>5 DEF Return, Finished
<1> QED BY <1>1, <1>2, <1>3, <1>4, <1>5 DEF ClientLoop

LEMMA CleanNext == CauseInv /\ CleanOK /\ [Next]_vars => CleanOK'
<1>1. [Next]_vars => ClientLoop \/ UNCHANGED main
  BY DEF Next, Broker, CopyRead, CopyWrite, CopyEnds, CloseFrom, CloseTo, Peer, Send, Finish,
         Deliver, SeeEnd, Abort, Quit, vars, loop
<1> QED BY <1>1, CleanLoop, CleanOthers

\* Whatever the two ends and Run do, clientLoop comes to wait only for brokers
\* that can end without them, and leaves no broker and no socket behind.
THEOREM LeavesNothing == Spec => []NothingLeftBehind
<1>1. Init => CauseInv /\ CleanOK
  BY CauseInit DEF Init, CleanOK
<1>2. CauseInv /\ CleanOK => NothingLeftBehind
  BY EndsAre
  DEF CleanOK, NothingLeftBehind, Refused, ReadEnds, WriteFails, Holds, Alive
<1> QED BY <1>1, <1>2, CauseNext, CleanNext, PTL DEF Spec

(***************************************************************************)
(* The refinement.  A direction of a TCP connection whose ends behave is   *)
(* closed only when everything its sender sent, and its end, has been      *)
(* copied; and sockets are closed only when both directions are.           *)
(***************************************************************************)
GoodEnds == Protocols = {"tcp"} /\ ~MayRefuse /\ ~MayAbort /\ ~MayQuit

StreamInv(d) ==
  /\ Ended(d) => fin[d] /\ wrote[d] = sent[d]
  /\ finOut[d] => fin[d] /\ wrote[d] = sent[d]
  /\ eof[d] => finOut[d] /\ got[d] = wrote[d]

QuietInv ==
  /\ aborted = {} /\ ~quit
  /\ main \in {"dialing", "selecting"} => closed = {}
  /\ main \notin {"dialing", "selecting"} => Finished

RelayInv == TypeOK /\ QuietInv /\ \A d \in Dirs : StreamInv(d)

USE DEF GoodEnds, peers, copies, sockets, loop

LEMMA RelayInit == Init => RelayInv
  BY TypeInit DEF Init, RelayInv, QuietInv, StreamInv, Ended, Finished

\* One lemma for each part of the system.
LEMMA PeerStep ==
  ASSUME GoodEnds, RelayInv, TypeOK', NEW d \in Dirs, Peer(d)
  PROVE  RelayInv'
<1> USE EndsAre DEF RelayInv, TypeOK, QuietInv, StreamInv, Ended, Finished
<1>1. CASE Send(d)
  BY <1>1 DEF Send
<1>2. CASE Finish(d)
  BY <1>2 DEF Finish
<1>3. CASE Deliver(d)
  BY <1>3 DEF Deliver
<1>4. CASE SeeEnd(d)
  BY <1>4 DEF SeeEnd
<1> QED BY <1>1, <1>2, <1>3, <1>4 DEF Peer, Abort

LEMMA BrokerStep ==
  ASSUME GoodEnds, RelayInv, TypeOK', NEW d \in Dirs, Broker(d)
  PROVE  RelayInv'
<1> USE EndsAre DEF RelayInv, TypeOK, QuietInv, StreamInv, Ended, Finished
<1>1. CASE CopyRead(d)
  BY <1>1 DEF CopyRead, Copying, Holds
<1>2. CASE CopyWrite(d)
  BY <1>2 DEF CopyWrite, CanWrite, Copying, Holds
<1>3. CASE CopyEnds(d)
  <2>1. closed = {}
    BY <1>3 DEF CopyEnds, Copying
  <2>2. fin[d] /\ wrote[d] = sent[d]
    BY <1>3, <2>1 DEF CopyEnds, ReadEnds, WriteFails, Holds, Alive
  <2> QED BY <1>3, <2>2 DEF CopyEnds, Copying
<1>4. CASE CloseFrom(d)
  BY <1>4 DEF CloseFrom
<1>5. CASE CloseTo(d)
  BY <1>5 DEF CloseTo, EndStream
<1> QED BY <1>1, <1>2, <1>3, <1>4, <1>5 DEF Broker

LEMMA LoopStep ==
  ASSUME GoodEnds, RelayInv, TypeOK', ClientLoop
  PROVE  RelayInv'
<1> USE EndsAre DEF RelayInv, QuietInv, StreamInv, Ended, Finished, Goto
<1>1. CASE Dial
  BY <1>1 DEF Dial
<1>2. CASE Select
  BY <1>2 DEF Select
<1>3. CASE CloseClient \/ CloseBackend
  <2>1. \A d \in Dirs : broker[d] = "done" /\ read[d] = sent[d]
    BY <1>3 DEF CloseClient, CloseBackend, TypeOK
  <2>2. \A e \in Ends : ~Unread(e)
    BY <2>1 DEF Unread, TypeOK
  <2>3. UNCHANGED aborted
    BY <1>3, <2>2 DEF CloseClient, CloseBackend, CloseSocket, EndStream
  <2>4. \A d \in Dirs : (finOut[d] => finOut'[d]) /\ (finOut'[d] => finOut[d] \/ broker[d] = "done")
    BY <1>3, <2>1, <2>2 DEF CloseClient, CloseBackend, CloseSocket, EndStream, TypeOK
  <2> QED BY <1>3, <2>1, <2>3, <2>4 DEF CloseClient, CloseBackend
<1>4. CASE Return
  BY <1>4 DEF Return
<1> QED BY <1>1, <1>2, <1>3, <1>4 DEF ClientLoop, DialFails

LEMMA RelayNext ==
  ASSUME GoodEnds
  PROVE  RelayInv /\ [Next]_vars => RelayInv'
<1>1. ASSUME RelayInv, UNCHANGED vars PROVE RelayInv'
  BY <1>1 DEF vars, RelayInv, TypeOK, QuietInv, StreamInv, Ended, Finished
<1> QED BY <1>1, TypeNext, PeerStep, BrokerStep, LoopStep DEF Next, Quit, RelayInv

\* The peers' steps are the steps of the streams, and the proxy's own steps
\* change nothing that the ends can see.
LEMMA StreamInit == Init => Stream!Init
  BY DEF Init, Stream!Init

LEMMA StreamNext ==
  ASSUME GoodEnds
  PROVE  RelayInv /\ [Next]_vars => [Stream!Next]_(Stream!vars)
<1> SUFFICES ASSUME RelayInv, [Next]_vars PROVE [Stream!Next]_(Stream!vars)
  OBVIOUS
<1> USE DEF Stream!vars
<1>1. ASSUME NEW d \in Dirs, Peer(d) PROVE Stream!Next
  <2>1. CASE Send(d)
    BY <2>1 DEF Send, Stream!Send, Stream!Next
  <2>2. CASE Finish(d)
    BY <2>2 DEF Finish, Stream!Finish, Stream!Next
  <2>3. CASE Deliver(d)
    <3>1. got[d] < sent[d] /\ ~eof[d]
      BY <2>3 DEF Deliver, RelayInv, TypeOK, StreamInv
    <3> QED BY <2>3, <3>1 DEF Deliver, Stream!Deliver, Stream!Next
  <2>4. CASE SeeEnd(d)
    <3>1. fin[d] /\ got[d] = sent[d]
      BY <2>4 DEF SeeEnd, RelayInv, StreamInv
    <3> QED BY <2>4, <3>1 DEF SeeEnd, Stream!End, Stream!Next
  <2> QED BY <1>1, <2>1, <2>2, <2>3, <2>4 DEF Peer, Abort
<1>2. ASSUME NEW d \in Dirs, Broker(d) PROVE UNCHANGED Stream!vars
  BY <1>2 DEF Broker, CopyRead, CopyWrite, CopyEnds, CloseFrom, CloseTo
<1>3. CASE ClientLoop \/ Quit
  BY <1>3 DEF ClientLoop, Dial, DialFails, Select, CloseClient, CloseBackend, Return, Quit
<1>4. CASE UNCHANGED vars
  BY <1>4 DEF vars
<1> QED BY <1>1, <1>2, <1>3, <1>4 DEF Next

\* No chunk is lost or invented, and an end of stream is seen only where the
\* sender put it.
THEOREM RelayImplementsStream ==
  ASSUME GoodEnds
  PROVE  Spec => ImplementsStream
<1>1. Spec => []RelayInv
  BY RelayInit, RelayNext, PTL DEF Spec
<1> QED BY <1>1, StreamInit, StreamNext, PTL DEF Spec, ImplementsStream, Stream!Spec

(***************************************************************************)
(* The connection winds down.                                              *)
(***************************************************************************)
\* The steps that a broker takes at most once both sockets are closed.
BrokerLeft(b) ==
  CASE b = "copying" -> 3 [] b = "closeFrom" -> 2 [] b = "closeTo" -> 1
    [] b \in {"done", "none"} -> 0

\* Once clientLoop waits, no byte is copied any more, the sockets stay closed,
\* and each step of a broker brings it nearer to its end.
WindsDown ==
  [][main = "waiting" =>
       /\ UNCHANGED <<copies, closed>>
       /\ \A d \in Dirs : /\ Broker(d) => BrokerLeft(broker'[d]) < BrokerLeft(broker[d])
                          /\ ~Broker(d) => broker'[d] = broker[d]]_vars

\* For both protocols, and whatever the ends do: six steps of the brokers after
\* clientLoop has closed the sockets, there is nothing left to wait for.
THEOREM WaitIsBounded == Spec => WindsDown
<1>1. ASSUME CauseInv, CleanOK, [Next]_vars, main = "waiting"
      PROVE  /\ UNCHANGED <<copies, closed>>
             /\ \A d \in Dirs : /\ Broker(d) => BrokerLeft(broker'[d]) < BrokerLeft(broker[d])
                                /\ ~Broker(d) => broker'[d] = broker[d]
  <2>0. TypeOK /\ closed = Ends /\ \A d \in Dirs : broker[d] # "none"
    BY <1>1 DEF CauseInv, CleanOK, LoopOK
  <2>1. ASSUME NEW d \in Dirs PROVE ~CopyRead(d) /\ ~CopyWrite(d)
    BY <2>0, EndsAre DEF CopyRead, CopyWrite, CanWrite, Alive
  <2>2. UNCHANGED <<copies, closed>>
    BY <1>1, <2>0, <2>1, EndsAre
    DEF Next, Broker, CopyEnds, CloseFrom, CloseTo, CloseSocket, EndStream, Peer, Send, Finish,
        Deliver, SeeEnd, Abort, ClientLoop, Dial, DialFails, Select, CloseClient, CloseBackend,
        Return, Quit, vars
  <2>3. ASSUME NEW d \in Dirs, Broker(d)
        PROVE  /\ BrokerLeft(broker'[d]) < BrokerLeft(broker[d])
               /\ \A c \in Dirs \ {d} : broker'[c] = broker[c]
    BY <2>0, <2>1, <2>3
    DEF Broker, CopyEnds, CloseFrom, CloseTo, Copying, BrokerLeft, TypeOK
  <2>4. (\A d \in Dirs : ~Broker(d)) => UNCHANGED broker
    BY <1>1
    DEF Next, Peer, Send, Finish, Deliver, SeeEnd, Abort, ClientLoop, Dial, DialFails, Select,
        CloseClient, CloseBackend, Return, Quit, vars
  <2>5. ASSUME NEW d \in Dirs, ~Broker(d) PROVE broker'[d] = broker[d]
    BY <2>3, <2>4, <2>5
  <2> QED BY <2>2, <2>3, <2>5
<1>2. Init => CauseInv /\ CleanOK
  BY CauseInit DEF Init, CleanOK
<1>3. CauseInv /\ CleanOK /\ [Next]_vars =>
        [main = "waiting" =>
           /\ UNCHANGED <<copies, closed>>
           /\ \A d \in Dirs : /\ Broker(d) => BrokerLeft(broker'[d]) < BrokerLeft(broker[d])
                              /\ ~Broker(d) => broker'[d] = broker[d]]_vars
  BY <1>1
<1> QED BY <1>2, <1>3, CauseNext, CleanNext, PTL DEF Spec, WindsDown

=============================================================================
