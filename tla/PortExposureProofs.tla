------------------------- MODULE PortExposureProofs -------------------------
(***************************************************************************)
(* What is proved of PortExposure: for any number of IPv4 proxies of one   *)
(* port that follow one another in any order, and that may be killed; and  *)
(* next to IPv6 proxies, for as long as none of those unexposes the port.  *)
(***************************************************************************)
EXTENDS PortExposure, TLAPS

ExposureInv == TypeOK /\ RunningIsExposed /\ OneExposer

\* No IPv6 proxy runs the deferred call that Run makes for every proxy.
OnlyIPv4Unexposes == \A p \in Procs \ IPv4 : ~Unexpose(p)

LEMMA ExposureInit == Init => ExposureInv
  BY DEF Init, ExposureInv, TypeOK, RunningIsExposed, OneExposer, Exposer

LEMMA ExposureType ==
  ASSUME TypeOK, [Next]_vars
  PROVE  TypeOK'
<1> USE DEF TypeOK, Up, ExposeFails, Goto, Exits
<1>1. ASSUME NEW p \in Procs, Spawn(p) \/ Serve(p) \/ AcceptFails(p) \/ Unexpose(p)
      PROVE  TypeOK'
  BY <1>1 DEF Spawn, Serve, AcceptFails, Unexpose
<1>2. ASSUME NEW p \in Procs, Signal(p) \/ HandlerCloses(p) \/ HandlerExits(p) \/ Kill(p)
      PROVE  TypeOK'
  BY <1>2 DEF Signal, HandlerCloses, HandlerExits, HandlerEnds, Kill
<1>3. ASSUME NEW p \in Procs, Listen(p)
      PROVE  TypeOK'
  BY <1>3 DEF Listen, Listening, ListenError
<1>4. ASSUME NEW p \in Procs, Expose(p)
      PROVE  TypeOK'
  BY <1>4 DEF Expose, ExposeError
<1>5. CASE DaemonStops \/ DaemonStarts \/ UNCHANGED vars
  BY <1>5 DEF DaemonStops, DaemonStarts, vars
<1> QED BY <1>1, <1>2, <1>3, <1>4, <1>5 DEF Next

\* A process becomes an exposer only while the port is not exposed, hence
\* while there is no other; and only the exposer itself takes it back.
LEMMA ExposureNext ==
  ASSUME OnlyIPv4Unexposes, ExposureInv, [Next]_vars
  PROVE  ExposureInv'
<1>0. TypeOK /\ TypeOK'
  BY ExposureType DEF ExposureInv
<1> USE DEF ExposureInv, TypeOK, RunningIsExposed, OneExposer, Exposer, Up, ExposeFails, Goto, Exits
<1>1. ASSUME NEW p \in Procs, Expose(p) PROVE ExposureInv'
  BY <1>0, <1>1 DEF Expose, ExposeError
<1>2. ASSUME NEW p \in Procs, Unexpose(p) PROVE ExposureInv'
  <2>1. Exposer(p)
    BY <1>2 DEF Unexpose, OnlyIPv4Unexposes
  <2>2. daemon = "first" => \A q \in Procs : ~Exposer(q)'
    BY <1>0, <1>2, <2>1 DEF Unexpose
  <2>3. daemon' = daemon
    BY <1>2 DEF Unexpose
  <2> QED BY <1>0, <2>2, <2>3
<1>3. ASSUME NEW p \in Procs, Spawn(p) \/ Listen(p) \/ Serve(p) \/ AcceptFails(p)
      PROVE  ExposureInv'
  BY <1>0, <1>3 DEF Spawn, Listen, Listening, ListenError, Serve, AcceptFails
<1>4. ASSUME NEW p \in Procs, Signal(p) \/ HandlerCloses(p) \/ HandlerExits(p) \/ Kill(p)
      PROVE  ExposureInv'
  BY <1>0, <1>4 DEF Signal, HandlerCloses, HandlerExits, HandlerEnds, Kill
<1>5. CASE DaemonStops \/ DaemonStarts \/ UNCHANGED vars
  BY <1>0, <1>5 DEF DaemonStops, DaemonStarts, vars
<1> QED BY <1>1, <1>2, <1>3, <1>4, <1>5 DEF Next

\* For IPv6 proxies too: one that serves has its listener, and a signal
\* handler never outlives the goroutine that listens.
THEOREM TypeCorrect == Spec => []TypeOK
<1>1. TypeOK /\ [Next]_vars => TypeOK'
  BY ExposureType
<1>2. Init => TypeOK
  BY ExposureInit DEF ExposureInv
<1> QED BY <1>1, <1>2, PTL DEF Spec

\* Until the daemon ends, an IPv4 proxy that serves its port is reachable from
\* the Mac, and one proxy at a time at most has the exposure to take back,
\* unless the Accept of an IPv6 proxy of the port fails: the defect that the
\* model shows has no other cause and no other effect.
THEOREM OnlyIPv6Disturbs ==
  Spec /\ [][OnlyIPv4Unexposes]_vars => [](RunningIsExposed /\ OneExposer)
<1>1. ExposureInv /\ [Next]_vars /\ [OnlyIPv4Unexposes]_vars => ExposureInv'
  <2>1. ExposureInv /\ UNCHANGED vars => ExposureInv'
    BY DEF ExposureInv, TypeOK, RunningIsExposed, OneExposer, Exposer, vars
  <2> QED BY <2>1, ExposureNext
<1>2. ExposureInv => RunningIsExposed /\ OneExposer
  BY DEF ExposureInv
<1> QED BY <1>1, <1>2, ExposureInit, PTL DEF Spec

LEMMA IPv4Alone ==
  ASSUME IPv4 = Procs
  PROVE  Spec => [](RunningIsExposed /\ OneExposer)
<1>1. [Next]_vars => [OnlyIPv4Unexposes]_vars
  BY DEF OnlyIPv4Unexposes
<1> QED BY <1>1, OnlyIPv6Disturbs, PTL DEF Spec

\* So an IPv4 proxy among IPv4 proxies is reachable, whatever the others do ...
THEOREM Reachable ==
  ASSUME IPv4 = Procs
  PROVE  Spec => []RunningIsExposed
  BY IPv4Alone, PTL

\* ... and no two of them have the exposure to take back.
THEOREM SingleExposer ==
  ASSUME IPv4 = Procs
  PROVE  Spec => []OneExposer
  BY IPv4Alone, PTL

=============================================================================
