---------------------------- MODULE PortExposure ----------------------------
(***************************************************************************)
(* How a published TCP port is exposed on the Mac and taken back: the      *)
(* processes of mct-docker-proxy for one port (main.go, tcp_proxy.go,      *)
(* mct_expose.go), which dockerd starts and stops in the machine, and the  *)
(* forwarder of gvisor-tap-vsock in the mct daemon, which they ask over    *)
(* HTTP.  The forwarder is external: it refuses to expose what is exposed, *)
(* and it forgets everything when the daemon stops.                        *)
(***************************************************************************)
CONSTANTS
  Procs,     \* the docker-proxy processes of the port
  IPv4,      \* those whose host address is an IPv4 address
  MayKill    \* whether a process may die without its signal handler

ASSUME ExposureAssumption ==
  IPv4 \subseteq Procs /\ MayKill \in BOOLEAN

VARIABLES
  exposed,   \* the forwarder listens on the port
  daemon,    \* the mct daemon: the first one, none, or a later one
  bound,     \* the processes whose listener is open
  pc,        \* where the main goroutine of each process is
  handler    \* where the signal handler of each process is

vars == <<exposed, daemon, bound, pc, handler>>

TypeOK ==
  /\ exposed \in BOOLEAN
  /\ daemon \in {"first", "down", "later"}
  /\ bound \subseteq Procs
  /\ pc \in [Procs -> {"absent", "listening", "exposing", "starting",
                       "accepting", "unexposing"}]
  /\ handler \in [Procs -> {"none", "closing", "exiting"}]
  /\ \A p \in Procs : pc[p] \in {"exposing", "starting"} => p \in bound
  /\ \A p \in Procs : handler[p] # "none" => pc[p] \in {"accepting", "unexposing"}

Init ==
  /\ exposed = FALSE /\ daemon = "first"
  /\ bound = {}
  /\ pc = [p \in Procs |-> "absent"]
  /\ handler = [p \in Procs |-> "none"]

Up == daemon # "down"

\* postRequest returns an error if the daemon cannot be reached, or if it
\* answers that the port is exposed.
ExposeFailsIfDown == ~Up
ExposeFails == ~Up \/ exposed

Goto(p, label) == pc' = [pc EXCEPT ![p] = label] /\ UNCHANGED handler

\* The process ends, and the kernel closes its listener.
Exits(p) ==
  /\ pc' = [pc EXCEPT ![p] = "absent"]
  /\ handler' = [handler EXCEPT ![p] = "none"]
  /\ bound' = bound \ {p}

(***************************************************************************)
(* NewTCPProxy: listen, then expose an IPv4 port.                          *)
(***************************************************************************)
Spawn(p) ==
  /\ pc[p] = "absent"
  /\ Goto(p, "listening")
  /\ UNCHANGED <<exposed, daemon, bound>>

SameVersion(p, q) == p \in IPv4 <=> q \in IPv4
InUse(p) == \E q \in bound : SameVersion(p, q)
Listening(p) == Goto(p, IF p \in IPv4 THEN "exposing" ELSE "starting")

ListenErrorIgnored(p) == Listening(p) /\ UNCHANGED bound
ListenError(p) == Exits(p)

Listen(p) ==
  /\ pc[p] = "listening"
  /\ \/ ~InUse(p) /\ bound' = bound \cup {p} /\ Listening(p)
     \/ InUse(p) /\ ListenError(p)
  /\ UNCHANGED <<exposed, daemon>>

\* When the port is not exposed, main exits.
ExposeErrorRollsBack(p) == Exits(p) /\ exposed' = FALSE
ExposeError(p) == Exits(p) /\ UNCHANGED exposed

Expose(p) ==
  /\ pc[p] = "exposing"
  /\ \/ ~ExposeFails /\ exposed' = TRUE /\ Goto(p, "starting") /\ UNCHANGED bound
     \/ ExposeFails /\ ExposeError(p)
  /\ UNCHANGED daemon

(***************************************************************************)
(* main starts the signal handler, reports success and calls Run.          *)
(***************************************************************************)
Serve(p) ==
  /\ pc[p] = "starting"
  /\ Goto(p, "accepting")
  /\ UNCHANGED <<exposed, daemon, bound>>

\* Accept fails when the listener is closed, or when descriptors run out;
\* Run then returns, whatever the error was.
AcceptFails(p) ==
  /\ pc[p] = "accepting"
  /\ Goto(p, "unexposing")
  /\ UNCHANGED <<exposed, daemon, bound>>

\* Run's deferred call, made for every proxy; its error is only printed, and
\* a daemon that is down exposes nothing.  Then main returns: the process
\* ends.
Unexpose(p) ==
  /\ pc[p] = "unexposing"
  /\ exposed' = FALSE
  /\ Exits(p)
  /\ UNCHANGED daemon

(***************************************************************************)
(* handleStopSignals: close the listener, then os.Exit, in a race with Run.*)
(***************************************************************************)
Signal(p) ==
  /\ pc[p] \in {"accepting", "unexposing"} /\ handler[p] = "none"
  /\ handler' = [handler EXCEPT ![p] = "closing"]
  /\ UNCHANGED <<exposed, daemon, bound, pc>>

HandlerCloses(p) ==
  /\ handler[p] = "closing"
  /\ handler' = [handler EXCEPT ![p] = "exiting"]
  /\ bound' = bound \ {p}
  /\ UNCHANGED <<exposed, daemon, pc>>

HandlerReturns(p) == handler' = [handler EXCEPT ![p] = "none"] /\ UNCHANGED <<pc, bound>>
HandlerEnds(p) == Exits(p)

HandlerExits(p) ==
  /\ handler[p] = "exiting"
  /\ HandlerEnds(p)
  /\ UNCHANGED <<exposed, daemon>>

\* SIGKILL, a crash, or a signal before the handler is installed.
Kill(p) ==
  /\ MayKill
  /\ pc[p] # "absent"
  /\ Exits(p)
  /\ UNCHANGED <<exposed, daemon>>

(***************************************************************************)
(* The mct daemon.                                                         *)
(***************************************************************************)
DaemonStops ==
  /\ Up
  /\ daemon' = "down" /\ exposed' = FALSE
  /\ UNCHANGED <<bound, pc, handler>>

DaemonStarts ==
  /\ ~Up
  /\ daemon' = "later"
  /\ UNCHANGED <<exposed, bound, pc, handler>>

Next ==
  \/ \E p \in Procs :
       \/ Spawn(p) \/ Listen(p) \/ Expose(p) \/ Serve(p) \/ AcceptFails(p)
       \/ Unexpose(p) \/ Signal(p) \/ HandlerCloses(p) \/ HandlerExits(p)
       \/ Kill(p)
  \/ DaemonStops
  \/ DaemonStarts

Spec == Init /\ [][Next]_vars

\* The signal handler runs on.  Nothing is assumed of the two requests: they
\* have no timeout, and the daemon may never answer.
FairSpec ==
  Spec /\ \A p \in Procs : WF_vars(HandlerCloses(p)) /\ WF_vars(HandlerExits(p))

(***************************************************************************)
(* Properties.                                                             *)
(***************************************************************************)
\* p has exposed the port and has yet to take it back.
Exposer(p) == p \in IPv4 /\ pc[p] \in {"starting", "accepting", "unexposing"}

\* A proxy that serves an IPv4 port is reachable from the Mac: no other
\* process, started before or after it, takes its exposure away.  Only the
\* end of the daemon does, for good: no proxy exposes its port a second time.
RunningIsExposed ==
  daemon = "first" => \A p \in Procs : Exposer(p) => exposed

\* Two processes never both believe that the exposure is theirs, though an
\* old one may still be stopping while a new one starts.
OneExposer ==
  daemon = "first" =>
    \A p, q \in Procs : Exposer(p) /\ Exposer(q) => p = q

\* A process that got SIGTERM ends, even if the daemon never answers.
SignalEnds ==
  \A p \in Procs : handler[p] # "none" ~> pc[p] = "absent"

=============================================================================
