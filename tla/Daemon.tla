------------------------------- MODULE Daemon -------------------------------
(***************************************************************************)
(* mct daemon start and mct daemon stop (daemon.go): how a daemon comes to *)
(* serve the machine's directory, and what is left there when it ends.     *)
(* The directory holds the pid file, which a daemon keeps locked, and the  *)
(* Unix sockets of the virtual network and of its API.  Files and sockets  *)
(* outlive the process that made them: each variable for a file names that *)
(* process, dead or alive.  go-daemon, which opens, locks, unlocks and     *)
(* unlinks the pid file in four separate calls, and gvisor-tap-vsock,      *)
(* which listens on the Mac's ssh port, are external.                      *)
(***************************************************************************)
CONSTANTS
  Daemons,   \* the processes that mct daemon start may fork
  Nobody     \* no process

ASSUME DaemonAssumption == Nobody \notin Daemons

VARIABLES
  pc,        \* where each daemon is, "none" before its start and after its end
  opened,    \* the pid file that each daemon has open, named by its creator
  linked,    \* the file that is in the directory as daemon.pid
  pid,       \* whose pid it contains
  tap,       \* who has bound tap.sock
  http,      \* who has bound http.sock
  port,      \* who listens on the ssh port of the Mac
  target,    \* the process that mct daemon stop is about to kill
  \* What has happened since there was last no daemon at all:
  removed,   \* mct stop -r has removed files from the directory
  crossed    \* a start had the pid file open, but not yet locked, while another
             \* daemon had given up the lock and not yet unlinked the file

history == <<removed, crossed>>
pidFile == <<opened, linked, pid, crossed>>
vars == <<pc, opened, linked, pid, tap, http, port, target, history>>

Owner == Daemons \cup {Nobody}

Starting == {"vsockRemove", "vsockListen", "network", "httpRemove", "httpListen", "gateway"}

\* The steps at which a daemon holds the lock on the file that it has open.
Holding == Starting \cup {"locked", "serving", "releasing"}
FileOpen == Holding \cup {"opened", "unlinking"}

TypeOK ==
  /\ pc \in [Daemons -> FileOpen \cup {"none", "exiting"}]
  /\ opened \in [Daemons -> Owner]
  /\ \A d \in Daemons : pc[d] \in FileOpen <=> opened[d] # Nobody
  /\ {linked, pid, tap, http, port, target} \subseteq Owner
  /\ linked = Nobody => pid = Nobody
  /\ removed \in BOOLEAN /\ crossed \in BOOLEAN
  /\ port # Nobody => pc[port] \notin
       {"none", "opened", "locked", "vsockRemove", "vsockListen", "network"}

Init ==
  /\ pc = [d \in Daemons |-> "none"]
  /\ opened = [d \in Daemons |-> Nobody]
  /\ linked = Nobody /\ pid = Nobody
  /\ tap = Nobody /\ http = Nobody /\ port = Nobody
  /\ target = Nobody
  /\ removed = FALSE /\ crossed = FALSE

Alive(d) == d # Nobody /\ pc[d] # "none"

Goto(d, label) == pc' = [pc EXCEPT ![d] = label]

\* The order in which runDaemon brings up what it serves.
FollowsNetworkFirst(label) ==
  CASE label = "locked"      -> "network"
    [] label = "network"     -> "vsockRemove"
    [] label = "vsockRemove" -> "vsockListen"
    [] label = "vsockListen" -> "httpRemove"
    [] label = "httpRemove"  -> "httpListen"
    [] label = "httpListen"  -> "gateway"
    [] label = "gateway"     -> "serving"

FollowsNetworkLast(label) ==
  CASE label = "locked"      -> "vsockRemove"
    [] label = "vsockRemove" -> "vsockListen"
    [] label = "vsockListen" -> "httpRemove"
    [] label = "httpRemove"  -> "httpListen"
    [] label = "httpListen"  -> "network"
    [] label = "network"     -> "gateway"
    [] label = "gateway"     -> "serving"

Follows(label) ==
  CASE label = "locked"      -> "vsockRemove"
    [] label = "vsockRemove" -> "vsockListen"
    [] label = "vsockListen" -> "network"
    [] label = "network"     -> "httpRemove"
    [] label = "httpRemove"  -> "httpListen"
    [] label = "httpListen"  -> "gateway"
    [] label = "gateway"     -> "serving"

Proceeds(d) == Goto(d, Follows(pc[d]))

Closes(d) == opened' = [opened EXCEPT ![d] = Nobody]

\* The end of a process frees its ports and locks, but leaves its files.
Ends(d) ==
  /\ Goto(d, "none")
  /\ Closes(d)
  /\ port' = IF port = d THEN Nobody ELSE port

(***************************************************************************)
(* mct daemon start: Reborn, in the command and in the child that it       *)
(* forks, which inherits the open file and its lock.                       *)
(***************************************************************************)
Unnamed(d) ==
  pc[d] = "none" /\ d \notin {linked, pid, tap, http, target} \cup {opened[e] : e \in Daemons}

\* Reborn comes first: a start that is refused the lock has touched no socket.
SocketsLeftButTap == tap' = Nobody /\ UNCHANGED http
SocketsLeft == UNCHANGED <<tap, http>>

\* Whatever file is there is opened; if there is none, an empty one is made.
OpenPidFile(d) ==
  /\ Unnamed(d)
  /\ linked' = IF linked = Nobody THEN d ELSE linked
  /\ opened' = [opened EXCEPT ![d] = linked']
  /\ removed' = (removed /\ \E e \in Daemons : Alive(e))
  /\ crossed' = \E e \in Daemons : pc[e] = "unlinking" \/ (crossed /\ Alive(e))
  /\ Goto(d, "opened")
  /\ SocketsLeft
  /\ UNCHANGED <<pid, port, target>>

Locked(f) == \E e \in Daemons : pc[e] \in Holding /\ opened[e] = f

\* The lock is on the file that was opened, whether it is still there or not.
LockPidFile(d) ==
  /\ pc[d] = "opened" /\ ~Locked(opened[d])
  /\ Goto(d, "locked")
  /\ UNCHANGED <<pidFile, tap, http, port, target, removed>>

\* unable to start daemon
LockFails(d) ==
  /\ pc[d] = "opened" /\ Locked(opened[d])
  /\ Ends(d)
  /\ UNCHANGED <<linked, pid, tap, http, target, history>>

WritePid(d) ==
  /\ pc[d] = "locked"
  /\ pid' = IF opened[d] = linked THEN d ELSE pid
  /\ Proceeds(d)
  /\ UNCHANGED <<opened, linked, tap, http, port, target, history>>

Start(d) == OpenPidFile(d) \/ LockPidFile(d) \/ LockFails(d) \/ WritePid(d)

(***************************************************************************)
(* runDaemon.  Whatever step fails, it returns, and Release is next.       *)
(***************************************************************************)
VsockRemove(d) ==
  /\ pc[d] = "vsockRemove"
  /\ tap' = Nobody
  /\ Proceeds(d)
  /\ UNCHANGED <<pidFile, http, port, target, removed>>

\* A Unix socket cannot be bound to a path that exists.
VsockListen(d) ==
  /\ pc[d] = "vsockListen"
  /\ \/ tap = Nobody /\ tap' = d /\ Proceeds(d)
     \/ tap # Nobody /\ Goto(d, "releasing") /\ UNCHANGED tap
  /\ UNCHANGED <<pidFile, http, port, target, removed>>

\* The virtual network forwards the ssh port from its creation on.
Network(d) ==
  /\ pc[d] = "network"
  /\ \/ port = Nobody /\ port' = d /\ Proceeds(d)
     \/ port # Nobody /\ Goto(d, "releasing") /\ UNCHANGED port
  /\ UNCHANGED <<pidFile, tap, http, target, removed>>

HttpRemoveForgotten(d) ==
  /\ pc[d] = "httpRemove"
  /\ Proceeds(d)
  /\ UNCHANGED <<pidFile, tap, http, port, target, removed>>

HttpRemove(d) ==
  /\ pc[d] = "httpRemove"
  /\ http' = Nobody
  /\ Proceeds(d)
  /\ UNCHANGED <<pidFile, tap, port, target, removed>>

HttpListen(d) ==
  /\ pc[d] = "httpListen"
  /\ \/ http = Nobody /\ http' = d /\ Proceeds(d)
     \/ http # Nobody /\ Goto(d, "releasing") /\ UNCHANGED http
  /\ UNCHANGED <<pidFile, tap, port, target, removed>>

\* The gateway's own port 80 is free in a virtual network just made.
Gateway(d) ==
  /\ pc[d] = "gateway"
  /\ Proceeds(d)
  /\ UNCHANGED <<pidFile, tap, http, port, target, removed>>

\* SIGTERM, an interrupt, or an error of one of the two HTTP servers.
Return(d) ==
  /\ pc[d] = "serving"
  /\ Goto(d, "releasing")
  /\ UNCHANGED <<pidFile, tap, http, port, target, removed>>

\* The deferred Release gives up the lock on the pid file, and then unlinks
\* whatever file has that name by now.
Unlock(d) ==
  /\ pc[d] = "releasing"
  /\ crossed' = (crossed \/ \E e \in Daemons : pc[e] = "opened")
  /\ Goto(d, "unlinking")
  /\ UNCHANGED <<opened, linked, pid, tap, http, port, target, removed>>

Unlink(d) ==
  /\ pc[d] = "unlinking"
  /\ linked' = Nobody /\ pid' = Nobody
  /\ Closes(d)
  /\ Goto(d, "exiting")
  /\ UNCHANGED <<tap, http, port, target, history>>

Exit(d) ==
  /\ pc[d] = "exiting"
  /\ Ends(d)
  /\ UNCHANGED <<linked, pid, tap, http, target, history>>

\* A crash, SIGKILL, or SIGTERM before runDaemon asks to be notified of it.
Crash(d) ==
  /\ Alive(d)
  /\ Ends(d)
  /\ UNCHANGED <<linked, pid, tap, http, target, history>>

(***************************************************************************)
(* mct daemon stop: Search reads the pid file, then Kill sends SIGKILL.    *)
(***************************************************************************)
\* A file that nobody has written yet contains no pid, and stop fails.
StopReads ==
  /\ target = Nobody
  /\ pid # Nobody
  /\ target' = pid
  /\ UNCHANGED <<pc, pidFile, tap, http, port, removed>>

StopKills ==
  /\ target # Nobody
  /\ Ends(target)
  /\ target' = Nobody
  /\ UNCHANGED <<linked, pid, tap, http, history>>

(***************************************************************************)
(* mct stop -r unlinks what is in the machine's directory, one by one.     *)
(***************************************************************************)
RemoveFile ==
  /\ removed' = TRUE
  /\ \/ linked' = Nobody /\ pid' = Nobody /\ UNCHANGED <<tap, http>>
     \/ tap' = Nobody /\ UNCHANGED <<linked, pid, http>>
     \/ http' = Nobody /\ UNCHANGED <<linked, pid, tap>>
  /\ UNCHANGED <<pc, opened, port, target, crossed>>

Run(d) ==
  \/ VsockRemove(d) \/ VsockListen(d) \/ Network(d) \/ HttpRemove(d)
  \/ HttpListen(d) \/ Gateway(d) \/ Return(d) \/ Unlock(d)
  \/ Unlink(d) \/ Exit(d)

Next ==
  \/ \E d \in Daemons : Start(d) \/ Run(d) \/ Crash(d)
  \/ StopReads
  \/ StopKills
  \/ RemoveFile

Spec == Init /\ [][Next]_vars

(***************************************************************************)
(* Properties.                                                             *)
(***************************************************************************)
\* One daemon at most serves: it has the Mac's ssh port and, unless stop -r
\* removes it, the API's clients find it at http.sock.  That is so even when the
\* pid file lets two of them start: the one that has not got the port never
\* comes to remove the other's http.sock.
OneServes ==
  \A d \in Daemons : pc[d] = "serving" => port = d /\ (~removed => http = d)

\* Unless stop -r removes files, or a start crosses the release of the pid
\* file, a daemon that serves is also the one that the machine finds at
\* tap.sock, and mct daemon stop in the pid file: no later start takes a file
\* from it.  Once all daemons have ended, what they left does the next no harm.
ServingIsFound ==
  ~removed /\ ~crossed =>
    \A d \in Daemons :
      pc[d] = "serving" => pid = d /\ tap = d /\ http = d /\ port = d

\* What a daemon that was killed has left behind is no obstacle: unless stop -r
\* removes files, or a start crosses the release of the pid file, a start fails
\* only because another daemon is still alive.
FailsOnlyForAnother ==
  [][\A d \in Daemons :
       ~removed /\ ~crossed /\ pc[d] \in Starting /\ pc'[d] = "releasing" =>
         \E e \in Daemons \ {d} : Alive(e)]_vars

=============================================================================
