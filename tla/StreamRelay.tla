----------------------------- MODULE StreamRelay -----------------------------
(***************************************************************************)
(* One connection of the TCP or of the SCTP proxy: clientLoop, its two     *)
(* broker goroutines, and the client and the backend at the other ends of  *)
(* its two sockets.  Bytes keep their order on a connection, so that a     *)
(* direction is described by how many chunks have come how far.            *)
(***************************************************************************)
EXTENDS Naturals

CONSTANTS
  Protocols,  \* the proxies whose connections are modelled
  MaxSend,    \* the largest number of chunks an end sends
  Buffer,     \* how many chunks fit between the proxy and a receiver
  MayRefuse,  \* whether dialling the backend may fail
  MayAbort,   \* whether an end may reset its connection
  MayQuit     \* whether Run may return while the connection is open

ASSUME RelayAssumption ==
  /\ Protocols \subseteq {"tcp", "sctp"}
  /\ MaxSend \in Nat /\ Buffer \in Nat \ {0}
  /\ MayRefuse \in BOOLEAN /\ MayAbort \in BOOLEAN /\ MayQuit \in BOOLEAN

Ends == {"client", "backend"}
\* A direction is named after its receiver.
Dirs == Ends
To(d) == d
From(d) == IF d = "client" THEN "backend" ELSE "client"

VARIABLES
  protocol,      \* the proxy that accepted the connection
  sent, fin,     \* chunks sent by the sender, and whether it closed its side
  got, eof,      \* chunks got by the receiver, and whether it saw the end
  read, wrote,   \* chunks the broker has read, and written
  finOut,        \* the proxy has ended the direction towards the receiver
  broker,        \* where the broker of the direction is
  aborted,       \* the sockets whose connection has been reset
  closed,        \* the sockets the proxy has closed
  main,          \* where clientLoop is
  quit           \* Run has closed the quit channel

peers == <<sent, fin, got, eof>>
copies == <<read, wrote>>
sockets == <<finOut, aborted, closed>>
loop == <<protocol, main, quit>>
vars == <<peers, copies, sockets, broker, loop>>

TypeOK ==
  /\ protocol \in Protocols
  /\ sent \in [Dirs -> 0 .. MaxSend] /\ fin \in [Dirs -> BOOLEAN]
  /\ got \in [Dirs -> Nat] /\ eof \in [Dirs -> BOOLEAN]
  /\ read \in [Dirs -> Nat] /\ wrote \in [Dirs -> Nat]
  /\ finOut \in [Dirs -> BOOLEAN]
  /\ broker \in [Dirs -> {"none", "copying", "closeFrom", "closeTo", "done"}]
  /\ aborted \subseteq Ends /\ closed \subseteq Ends
  /\ main \in {"dialing", "selecting", "closeClient", "closeBackend", "waiting", "returned"}
  /\ quit \in BOOLEAN
  /\ \A d \in Dirs : got[d] <= wrote[d] /\ wrote[d] <= read[d] /\ read[d] <= sent[d]

Init ==
  /\ protocol \in Protocols
  /\ sent = [d \in Dirs |-> 0] /\ fin = [d \in Dirs |-> FALSE]
  /\ got = [d \in Dirs |-> 0] /\ eof = [d \in Dirs |-> FALSE]
  /\ read = [d \in Dirs |-> 0] /\ wrote = [d \in Dirs |-> 0]
  /\ finOut = [d \in Dirs |-> FALSE]
  /\ broker = [d \in Dirs |-> "none"]
  /\ aborted = {} /\ closed = {}
  /\ main = "dialing" /\ quit = FALSE

Alive(e) == e \notin closed /\ e \notin aborted

(***************************************************************************)
(* The two ends, which are not part of the proxy.  The backend takes part  *)
(* once it has been dialled.                                               *)
(***************************************************************************)
Connected(e) == Alive(e) /\ (e = "backend" => main # "dialing")

Send(d) ==
  /\ Connected(From(d)) /\ ~fin[d] /\ sent[d] < MaxSend
  /\ sent' = [sent EXCEPT ![d] = @ + 1]
  /\ UNCHANGED <<fin, got, eof, copies, sockets, broker, loop>>

Finish(d) ==
  /\ Connected(From(d)) /\ ~fin[d]
  /\ fin' = [fin EXCEPT ![d] = TRUE]
  /\ UNCHANGED <<sent, got, eof, copies, sockets, broker, loop>>

\* What was written before a socket was closed still arrives.
Deliver(d) ==
  /\ To(d) \notin aborted /\ got[d] < wrote[d]
  /\ got' = [got EXCEPT ![d] = @ + 1]
  /\ UNCHANGED <<sent, fin, eof, copies, sockets, broker, loop>>

SeeEnd(d) ==
  /\ To(d) \notin aborted /\ finOut[d] /\ got[d] = wrote[d] /\ ~eof[d]
  /\ eof' = [eof EXCEPT ![d] = TRUE]
  /\ UNCHANGED <<sent, fin, got, copies, sockets, broker, loop>>

Abort(e) ==
  /\ MayAbort /\ Connected(e)
  /\ aborted' = aborted \cup {e}
  /\ UNCHANGED <<peers, copies, finOut, closed, broker, loop>>

(***************************************************************************)
(* Closing a socket ends the direction towards its end or, when the socket *)
(* still holds data that the proxy has not read, resets the connection.    *)
(* To close it again is an error, which nobody looks at.                   *)
(***************************************************************************)
Unread(e) == \E d \in Dirs : From(d) = e /\ read[d] < sent[d]

EndStream(e) ==
  finOut' = [finOut EXCEPT ![e] = @ \/ Alive(e)] /\ UNCHANGED aborted

CloseSocket(e) ==
  /\ closed' = closed \cup {e}
  /\ \/ e \in closed /\ UNCHANGED <<finOut, aborted>>
     \/ e \notin closed /\ ~Unread(e) /\ EndStream(e)
     \/ e \notin closed /\ Unread(e) /\ aborted' = aborted \cup {e} /\ UNCHANGED finOut

(***************************************************************************)
(* broker: io.Copy until the stream ends or a call fails.  TCP's broker    *)
(* then closes one side of each socket (CloseRead, CloseWrite), SCTP's     *)
(* closes both sockets.                                                    *)
(***************************************************************************)
Copying(d) == broker[d] = "copying"
Holds(d) == read[d] > wrote[d]

CopyRead(d) ==
  /\ Copying(d) /\ ~Holds(d)
  /\ Alive(From(d)) /\ read[d] < sent[d]
  /\ read' = [read EXCEPT ![d] = @ + 1]
  /\ UNCHANGED <<peers, wrote, sockets, broker, loop>>

CanWriteWholeBuffer(d) == Alive(To(d)) /\ wrote[d] < got[d] + Buffer
CanWrite(d) == Holds(d) /\ Alive(To(d)) /\ wrote[d] < got[d] + Buffer

CopyWrite(d) ==
  /\ Copying(d) /\ CanWrite(d)
  /\ wrote' = [wrote EXCEPT ![d] = @ + 1]
  /\ UNCHANGED <<peers, read, sockets, broker, loop>>

ReadEndsAtFin(d) == ~Holds(d) /\ fin[d]
ReadEnds(d) ==
  ~Holds(d) /\ (~Alive(From(d)) \/ (fin[d] /\ read[d] = sent[d]))

\* An SCTP end that closes its side can no longer be written to.
WriteNeverFails(d) == FALSE
WriteFails(d) ==
  Holds(d) /\ (~Alive(To(d)) \/ (protocol = "sctp" /\ fin[From(d)]))

CopyEnds(d) ==
  /\ Copying(d) /\ (ReadEnds(d) \/ WriteFails(d))
  /\ broker' = [broker EXCEPT ![d] = "closeFrom"]
  /\ UNCHANGED <<peers, copies, sockets, loop>>

CloseFrom(d) ==
  /\ broker[d] = "closeFrom"
  /\ broker' = [broker EXCEPT ![d] = "closeTo"]
  /\ \/ protocol = "tcp" /\ UNCHANGED sockets
     \/ protocol = "sctp" /\ CloseSocket(From(d))
  /\ UNCHANGED <<peers, copies, loop>>

CloseTo(d) ==
  /\ broker[d] = "closeTo"
  /\ broker' = [broker EXCEPT ![d] = "done"]
  /\ \/ protocol = "tcp" /\ EndStream(To(d)) /\ UNCHANGED closed
     \/ protocol = "sctp" /\ CloseSocket(To(d))
  /\ UNCHANGED <<peers, copies, loop>>

(***************************************************************************)
(* clientLoop.                                                             *)
(***************************************************************************)
Goto(label) == main' = label /\ UNCHANGED <<protocol, quit>>

FinishedFirst == \E d \in Dirs : broker[d] = "done"
Finished == \A d \in Dirs : broker[d] = "done"

Dial ==
  /\ main = "dialing" /\ Goto("selecting")
  /\ broker' = [d \in Dirs |-> "copying"]
  /\ UNCHANGED <<peers, copies, sockets>>

DialFails ==
  /\ MayRefuse
  /\ main = "dialing" /\ Goto("returned")
  /\ CloseSocket("client")
  /\ UNCHANGED <<peers, copies, broker>>

Select ==
  /\ main = "selecting" /\ (quit \/ Finished) /\ Goto("closeClient")
  /\ UNCHANGED <<peers, copies, sockets, broker>>

CloseClient ==
  /\ main = "closeClient" /\ Goto("closeBackend")
  /\ CloseSocket("client")
  /\ UNCHANGED <<peers, copies, broker>>

CloseBackendForgotten ==
  /\ main = "closeBackend" /\ Goto("waiting")
  /\ UNCHANGED <<peers, copies, sockets, broker>>

CloseBackend ==
  /\ main = "closeBackend" /\ Goto("waiting")
  /\ CloseSocket("backend")
  /\ UNCHANGED <<peers, copies, broker>>

Return ==
  /\ main = "waiting" /\ Finished /\ Goto("returned")
  /\ UNCHANGED <<peers, copies, sockets, broker>>

\* Run returns, and its deferred close(quit) runs.
Quit ==
  /\ MayQuit /\ ~quit
  /\ quit' = TRUE
  /\ UNCHANGED <<peers, copies, sockets, broker, protocol, main>>

(***************************************************************************)
(* The specification.                                                      *)
(***************************************************************************)
Broker(d) ==
  CopyRead(d) \/ CopyWrite(d) \/ CopyEnds(d) \/ CloseFrom(d) \/ CloseTo(d)

ClientLoop ==
  Dial \/ DialFails \/ Select \/ CloseClient \/ CloseBackend \/ Return

Peer(d) == Send(d) \/ Finish(d) \/ Deliver(d) \/ SeeEnd(d) \/ Abort(d)

Next ==
  \/ \E d \in Dirs : Broker(d) \/ Peer(d)
  \/ ClientLoop
  \/ Quit

Spec == Init /\ [][Next]_vars

\* The goroutines run on.  Nothing is assumed of the two ends ...
FairSpec ==
  /\ Spec
  /\ WF_vars(ClientLoop)
  /\ \A d \in Dirs : WF_vars(Broker(d))

\* ... except, where a property says so, that they read what they are sent.
PeersRead == \A d \in Dirs : WF_vars(Deliver(d) \/ SeeEnd(d))

ReadingSpec == FairSpec /\ PeersRead

(***************************************************************************)
(* Properties.                                                             *)
(***************************************************************************)
\* The TCP relay of two ends that behave implements two independent streams:
\* no chunk is lost or made up, and an end sees the end of the stream only
\* after the last chunk, and only if the other end has closed its side.
Stream == INSTANCE DuplexStream
            WITH Dirs <- Dirs, MaxSend <- MaxSend,
                 sent <- sent, fin <- fin, got <- got, eof <- eof
ImplementsStream == Stream!Spec

\* The backend was never reached: clientLoop has closed the client's socket.
Refused(d) == broker[d] = "none" /\ main = "returned"

\* An end sees its stream end only for a reason: the other end sent all and
\* closed, or reset the connection; the backend was not reached; Run has
\* returned; or, with SCTP alone, either end closed its side.
EndHasCause ==
  \A d \in Dirs : eof[d] =>
    \/ fin[d] /\ got[d] = sent[d]
    \/ From(d) \in aborted \/ Refused(d) \/ quit
    \/ protocol = "sctp" /\ (\E e \in Dirs : fin[e])

\* clientLoop waits for its brokers only when nothing holds them up any more:
\* one that still copies has come to the end of its stream, or to a write that
\* fails, although neither end may read, send or close.  It returns with both
\* brokers gone and both sockets closed, or without ever having had a backend.
NothingLeftBehind ==
  /\ main = "waiting" => \A d \in Dirs : Copying(d) => ReadEnds(d) \/ WriteFails(d)
  /\ main = "returned" =>
       \/ Finished /\ closed = Ends
       \/ (\A d \in Dirs : Refused(d)) /\ closed = {"client"}

Open == main \in {"selecting", "closeClient", "closeBackend", "waiting"}

\* Half-close: what an end sends arrives in full even after the other
\* direction has ended.
AllDelivered ==
  \A d \in Dirs : \A n \in 1 .. MaxSend :
    Open /\ sent[d] = n ~> got[d] >= n

Gone(d) == fin[d] \/ From(d) \in aborted
Over == main = "returned" /\ closed = Ends

\* When each end has closed its side or reset the connection - with SCTP,
\* when one of them has - and those that remain read, clientLoop returns
\* with both sockets closed.
EndsAfterPeers ==
  PeersRead =>
    /\ Open /\ (\A d \in Dirs : Gone(d)) ~> Over
    /\ Open /\ protocol = "sctp" /\ (\E d \in Dirs : Gone(d)) ~> Over

\* When Run returns, clientLoop returns, though neither end reads or closes.
EndsAfterQuit == Open /\ quit ~> Over

=============================================================================
