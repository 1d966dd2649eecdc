---------------------------- MODULE DaemonProofs ----------------------------
(***************************************************************************)
(* What is proved of Daemon, for any number of daemon processes.           *)
(***************************************************************************)
EXTENDS Daemon, TLAPS

\* Whatever happens to the pid file: only the owner of the ssh port goes on to
\* http.sock, and a lock has one holder.
PortInv ==
  \A d \in Daemons :
    /\ pc[d] \in {"httpRemove", "httpListen", "gateway", "serving"} => port = d
    /\ pc[d] \in {"gateway", "serving"} /\ ~removed => http = d

Exclusive ==
  \A d, e \in Daemons :
    pc[d] \in Holding /\ pc[e] \in Holding /\ opened[d] = opened[e] => d = e

\* All daemons have the same file open, the one in the directory; so one of
\* them at most is past the lock, and what it has bound stays its own.
Orderly(d) ==
  /\ pc[d] \in FileOpen => opened[d] = linked
  /\ pc[d] = "unlinking" => \A e \in Daemons \ {d} : pc[e] \in {"none", "exiting"}
  /\ pc[d] \in Holding \ {"locked"} => pid = d
  /\ pc[d] \in {"network", "httpRemove", "httpListen", "gateway", "serving"} => tap = d
  /\ pc[d] = "vsockListen" => tap = Nobody
  /\ pc[d] = "httpListen" => http = Nobody

LockInv == ~removed /\ ~crossed => \A d \in Daemons : Orderly(d)

DaemonInv == TypeOK /\ PortInv /\ Exclusive /\ LockInv

LEMMA DaemonInit == Init => DaemonInv
  BY DaemonAssumption
  DEF Init, DaemonInv, TypeOK, PortInv, Exclusive, LockInv, Orderly, Owner, FileOpen, Holding, Starting

\* A start, which may find the pid file unlocked and still there.
LEMMA StartStep ==
  ASSUME DaemonInv, NEW d \in Daemons, Start(d)
  PROVE  DaemonInv'
<1> USE DaemonAssumption
    DEF DaemonInv, TypeOK, Owner, FileOpen, Holding, Starting, Goto, history
<1>1. CASE OpenPidFile(d)
  <2>1. TypeOK'
    BY <1>1 DEF OpenPidFile, Unnamed, SocketsLeft
  <2>2. PortInv'
    BY <1>1 DEF OpenPidFile, Unnamed, SocketsLeft, PortInv, Alive
  <2>3. Exclusive'
    BY <1>1 DEF OpenPidFile, Unnamed, Exclusive
  <2>4. LockInv'
    <3>1. CASE \E e \in Daemons : Alive(e)
      <4> SUFFICES ASSUME ~removed', ~crossed', NEW e \in Daemons PROVE Orderly(e)'
        BY DEF LockInv
      <4>1. ~removed /\ ~crossed /\ \A f \in Daemons : pc[f] # "unlinking" /\ Orderly(f)
        BY <1>1, <3>1 DEF OpenPidFile, LockInv
      <4>2. CASE e = d
        BY <1>1, <4>2 DEF OpenPidFile, Unnamed, Orderly
      <4>3. CASE e # d
        <5>1. pc[e] \in FileOpen => linked # Nobody
          BY <4>1 DEF Orderly
        <5> QED BY <1>1, <4>1, <4>3, <5>1 DEF OpenPidFile, Unnamed, SocketsLeft, Orderly
      <4> QED BY <4>2, <4>3
    <3>2. CASE \A e \in Daemons : pc[e] = "none"
      BY <1>1, <3>2 DEF OpenPidFile, Unnamed, LockInv, Orderly
    <3> QED BY <3>1, <3>2 DEF Alive
  <2> QED BY <2>1, <2>2, <2>3, <2>4
<1>2. CASE LockPidFile(d)
  BY <1>2 DEF LockPidFile, Locked, pidFile, PortInv, Exclusive, LockInv, Orderly
<1>3. CASE LockFails(d)
  BY <1>3 DEF LockFails, Ends, Closes, PortInv, Exclusive, LockInv, Orderly
<1>4. CASE WritePid(d)
  <2>1. TypeOK' /\ PortInv' /\ Exclusive'
    BY <1>4 DEF WritePid, Proceeds, Follows, PortInv, Exclusive
  <2>2. LockInv'
    BY <1>4 DEF WritePid, Proceeds, Follows, LockInv, Orderly, Exclusive
  <2> QED BY <2>1, <2>2
<1> QED BY <1>1, <1>2, <1>3, <1>4 DEF Start

\* A daemon's own steps.
LEMMA RunStep ==
  ASSUME DaemonInv, NEW d \in Daemons, Run(d)
  PROVE  DaemonInv'
<1> USE DaemonAssumption
    DEF DaemonInv, TypeOK, Owner, FileOpen, Holding, Starting, Goto, Proceeds, Follows,
        history, pidFile, PortInv, Exclusive, LockInv, Orderly
<1>1. CASE VsockRemove(d)
  BY <1>1 DEF VsockRemove
<1>2. CASE VsockListen(d)
  BY <1>2 DEF VsockListen
<1>3. CASE Network(d)
  BY <1>3 DEF Network
<1>4. CASE HttpRemove(d)
  BY <1>4 DEF HttpRemove
<1>5. CASE HttpListen(d)
  BY <1>5 DEF HttpListen
<1>6. CASE Gateway(d) \/ Return(d)
  BY <1>6 DEF Gateway, Return
<1>7. CASE Unlock(d)
  <2>1. TypeOK' /\ PortInv' /\ Exclusive'
    BY <1>7 DEF Unlock
  <2>2. ASSUME ~removed', ~crossed', NEW e \in Daemons PROVE Orderly(e)'
    <3>1. /\ ~removed /\ ~crossed /\ pc[d] = "releasing"
          /\ \A f \in Daemons : pc[f] # "opened" /\ Orderly(f)
      BY <1>7, <2>2 DEF Unlock
    <3>2. ASSUME NEW f \in Daemons \ {d} PROVE pc[f] \in {"none", "exiting"}
      <4>1. pc[f] \notin Holding
        BY <3>1 DEF Exclusive
      <4>2. pc[f] # "unlinking"
        BY <3>1
      <4> QED BY <3>1, <4>1, <4>2
    <3>3. pc' = [pc EXCEPT ![d] = "unlinking"] /\ UNCHANGED <<opened, linked, pid, tap, http>>
      BY <1>7 DEF Unlock
    <3>4. CASE e = d
      BY <1>7, <3>1, <3>2, <3>3, <3>4 DEF Unlock
    <3>5. CASE e # d
      BY <3>2, <3>3, <3>5
    <3> QED BY <3>4, <3>5
  <2> QED BY <2>1, <2>2
<1>8. CASE Unlink(d)
  BY <1>8 DEF Unlink, Closes
<1>9. CASE Exit(d)
  BY <1>9 DEF Exit, Ends, Closes
<1> QED BY <1>1, <1>2, <1>3, <1>4, <1>5, <1>6, <1>7, <1>8, <1>9 DEF Run

LEMMA DaemonNext ==
  ASSUME DaemonInv, [Next]_vars
  PROVE  DaemonInv'
<1> USE DaemonAssumption
    DEF DaemonInv, TypeOK, Owner, FileOpen, Holding, Starting, Goto, history, pidFile,
        PortInv, Exclusive, LockInv, Orderly
<1>1. ASSUME NEW d \in Daemons, Start(d) PROVE DaemonInv'
  BY <1>1, StartStep
<1>2. ASSUME NEW d \in Daemons, Run(d) PROVE DaemonInv'
  BY <1>2, RunStep
<1>3. ASSUME NEW d \in Daemons, Crash(d) PROVE DaemonInv'
  BY <1>3 DEF Crash, Ends, Closes
<1>4. CASE StopKills
  BY <1>4 DEF StopKills, Ends, Closes
<1>5. CASE StopReads \/ UNCHANGED vars
  BY <1>5 DEF StopReads, vars
<1>6. CASE RemoveFile
  BY <1>6 DEF RemoveFile
<1> QED BY <1>1, <1>2, <1>3, <1>4, <1>5, <1>6 DEF Next

LEMMA DaemonInvariance == Spec => []DaemonInv
  BY DaemonInit, DaemonNext, PTL DEF Spec

\* The Mac's ssh port is held only by a process that is alive and has made
\* its network, and a process has a pid file open exactly while it uses it.
THEOREM TypeCorrect == Spec => []TypeOK
<1>1. DaemonInv => TypeOK
  BY DEF DaemonInv
<1> QED BY <1>1, DaemonInvariance, PTL

\* At most one daemon serves, and the API's clients and ssh find it, even if
\* two have started because the release of the pid file takes two calls.
THEOREM AtMostOne == Spec => []OneServes
<1>1. DaemonInv => OneServes
  BY DEF DaemonInv, PortInv, OneServes
<1> QED BY <1>1, DaemonInvariance, PTL

\* Unless stop -r removes something or a start crosses a release, a daemon that
\* serves is the one that the machine, the API's clients, ssh and mct daemon
\* stop find.
THEOREM Found == Spec => []ServingIsFound
<1>1. DaemonInv => ServingIsFound
  BY DEF DaemonInv, PortInv, LockInv, Orderly, ServingIsFound, Holding, Starting
<1> QED BY <1>1, DaemonInvariance, PTL

\* Unless they do, a start fails only because another daemon is still alive.
THEOREM NoStaleObstacle == Spec => FailsOnlyForAnother
<1>1. DaemonInv /\ [Next]_vars =>
        [\A d \in Daemons :
           ~removed /\ ~crossed /\ pc[d] \in Starting /\ pc'[d] = "releasing" =>
             \E e \in Daemons \ {d} : Alive(e)]_vars
  <2> SUFFICES ASSUME DaemonInv, Next, NEW d \in Daemons,
                      ~removed, ~crossed, pc[d] \in Starting, pc'[d] = "releasing"
               PROVE  \E e \in Daemons \ {d} : Alive(e)
    OBVIOUS
  <2>1. VsockListen(d) \/ Network(d) \/ HttpListen(d)
    <3> USE DEF DaemonInv, TypeOK, FileOpen, Holding, Starting, Goto
    <3>1. ASSUME NEW e \in Daemons, Start(e) PROVE FALSE
      BY <3>1 DEF Start, OpenPidFile, Unnamed, LockPidFile, LockFails, WritePid, Ends, Proceeds, Follows
    <3>2. ASSUME NEW e \in Daemons, Crash(e) PROVE FALSE
      BY <3>2 DEF Crash, Ends
    <3>3. ~StopReads /\ ~StopKills /\ ~RemoveFile
      BY DEF StopReads, StopKills, RemoveFile, Ends
    <3>4. PICK e \in Daemons : Run(e)
      BY <3>1, <3>2, <3>3 DEF Next
    <3>5. e = d
      BY <3>4 DEF Run, VsockRemove, VsockListen, Network, HttpRemove, HttpListen, Gateway, Return,
         Unlock, Unlink, Exit, Ends, Proceeds
    <3> QED BY <3>4, <3>5
      DEF Run, VsockRemove, HttpRemove, Gateway, Return, Unlock, Unlink, Exit, Ends, Proceeds, Follows
  <2>2. ~VsockListen(d) /\ ~HttpListen(d)
    BY DEF DaemonInv, TypeOK, FileOpen, Holding, Starting, LockInv, Orderly, VsockListen, HttpListen,
       Goto, Proceeds, Follows
  <2>3. port \in Daemons \ {d} /\ Alive(port)
    BY <2>1, <2>2 DEF DaemonInv, TypeOK, FileOpen, Holding, Starting, Owner, Network, Goto, Proceeds,
       Follows, Alive
  <2> QED BY <2>3
<1> QED BY <1>1, DaemonInvariance, PTL DEF Spec, FailsOnlyForAnother

=============================================================================
