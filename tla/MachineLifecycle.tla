-------------------------- MODULE MachineLifecycle --------------------------
(***************************************************************************)
(* The life of the one machine that mct manages: the commands run, stop,   *)
(* stop -r and ssh (cmd/mct/cmd) over the file store that remembers the    *)
(* machine (pkg/libmachine/persist), the host record kept in it            *)
(* (pkg/libmachine, pkg/libmachine/host), the ignition file the guest      *)
(* fetches on its first boot (pkg/ignition) and the hyperkit driver.       *)
(*                                                                         *)
(* Every command is a process of its own; several may run at a time.  A    *)
(* step of the model is one system call or one driver call: all that a     *)
(* concurrent command, or a restart after a crash, can tell apart.         *)
(***************************************************************************)

CONSTANTS
  Procs,      \* the terminals in which a user types commands
  Keys,       \* ssh key pairs that NewHost may generate
  NoKey,      \* no key
  Commands,   \* the commands the users type
  MayFail,    \* whether a command may be interrupted or get an I/O error
  Swallowed   \* the calls that may fail with an error run.go ignores

ASSUME LifecycleAssumption ==
  /\ NoKey \notin Keys
  /\ MayFail \in BOOLEAN
  /\ Commands \subseteq {"run", "stop", "remove", "ssh"}
  /\ Swallowed \subseteq {"marker", "update"}

VARIABLES
  files,     \* what is in the machine's directory, the directory itself too
  torn,      \* the files whose contents are only half written
  saved,     \* the host record in config.json
  served,    \* the public key in mct.ign
  writers,   \* the processes with the present config.json open for writing
  temps,     \* the processes whose config.json.tmp is in the directory
  removing,  \* a RemoveAll of this machine has begun
  sshKey,    \* the key the disk's user accepts, NoKey before ignition
  booted,    \* the guest on this disk has been started at least once
  vm,        \* the state the driver reports
  igniting,  \* a guest booted with ignition.firstboot has yet to ignite
  pc,        \* the next step of each process
  mode,      \* the command, and for run the arm it took
  host,      \* each process's host variable
  listed     \* the directory entries each RemoveAll has still to unlink

store == <<files, torn, saved, served, writers, temps, removing>>
guest == <<sshKey, booted, vm, igniting>>
procs == <<pc, mode, host, listed>>
vars  == <<store, guest, procs>>

File == {"dir", "marker", "config", "ign", "disk"}
\* What RemoveAll finds in the directory; the temporary files count as one.
Entry == {"marker", "config", "ign", "disk", "temps"}
Host == [key : Keys \cup {NoKey}, firstboot : BOOLEAN]
NoHost == [key |-> NoKey, firstboot |-> FALSE]

Step == {"idle", "runExists", "newHost", "create", "creating", "setExists",
         "saveStat", "saveOpen", "saveWrite", "saveRemove", "saveRename",
         "ignOpen", "ignWrite", "load", "reload", "runState", "start",
         "stopExists", "stopLoad", "stopState", "stopCall", "stopWait",
         "killCall", "killWait", "removeWait", "list", "unlink",
         "sshLoad", "sshState"}

Mode == {"none", "run", "create", "restart", "stop", "remove", "ssh"}

StoreOK ==
  /\ files \subseteq File
  /\ torn \subseteq files \cap {"config", "ign", "disk"}
  /\ saved \in Host
  /\ served \in Keys \cup {NoKey}
  /\ writers \subseteq Procs
  /\ writers # {} => "config" \in files
  /\ temps \subseteq Procs
  /\ removing \in BOOLEAN

GuestOK ==
  /\ sshKey \in Keys \cup {NoKey}
  /\ booted \in BOOLEAN
  /\ vm \in {"Running", "Stopped"}
  /\ igniting \in BOOLEAN

ProcsOK ==
  /\ pc \in [Procs -> Step]
  /\ mode \in [Procs -> Mode]
  /\ host \in [Procs -> Host]
  /\ listed \in [Procs -> SUBSET Entry]

TypeOK == StoreOK /\ GuestOK /\ ProcsOK

Init ==
  /\ files = {} /\ torn = {}
  /\ saved = NoHost /\ served = NoKey
  /\ writers = {} /\ temps = {} /\ removing = FALSE
  /\ sshKey = NoKey /\ booted = FALSE
  /\ vm = "Stopped" /\ igniting = FALSE
  /\ pc = [p \in Procs |-> "idle"]
  /\ mode = [p \in Procs |-> "none"]
  /\ host = [p \in Procs |-> NoHost]
  /\ listed = [p \in Procs |-> {}]

(***************************************************************************)
(* Control flow of one command.                                            *)
(***************************************************************************)
At(p, label) == pc[p] = label

Goto(p, label) ==
  /\ pc' = [pc EXCEPT ![p] = label]
  /\ UNCHANGED <<mode, host, listed>>

GotoWith(p, label, h) ==
  /\ pc' = [pc EXCEPT ![p] = label]
  /\ host' = [host EXCEPT ![p] = h]
  /\ UNCHANGED <<mode, listed>>

Exit(p) ==
  /\ pc' = [pc EXCEPT ![p] = "idle"]
  /\ mode' = [mode EXCEPT ![p] = "none"]
  /\ host' = [host EXCEPT ![p] = NoHost]
  /\ listed' = [listed EXCEPT ![p] = {}]

\* An interrupt, a crash of the process, or a call that returns an error:
\* the command ends there, and what it has done so far stays.  Its temporary
\* file stays too, but no command looks at it again.
Fail(p) ==
  /\ MayFail
  /\ ~At(p, "idle")
  /\ Exit(p)
  /\ writers' = writers \ {p}
  /\ temps' = temps \ {p}
  /\ UNCHANGED <<files, torn, saved, served, removing, guest>>

\* A user types a command; run creates the machine's directory at once.
Begin(p, c) ==
  /\ At(p, "idle")
  /\ pc' = [pc EXCEPT ![p] = CASE c = "run" -> "runExists"
                               [] c = "ssh" -> "sshLoad"
                               [] OTHER     -> "stopExists"]
  /\ mode' = [mode EXCEPT ![p] = c]
  /\ files' = IF c = "run" THEN files \cup {"dir"} ELSE files
  /\ UNCHANGED <<torn, saved, served, writers, temps, removing, guest, host, listed>>

ExistsByConfig == "config" \in files

ExistsByDisk == "disk" \in files

\* There is a machine: the marker file says so, not the record or the disk.
Exists == "marker" \in files

\* Filestore.Load finds a config.json that it can decode.
Readable == "config" \in files \ torn

TruncateOnly(f) == UNCHANGED files /\ torn' = torn \cup {f}

\* A file is opened to be written anew, and created where there is none.
Truncate(f) == files' = files \cup {f} /\ torn' = torn \cup {f}

UpdatedToIgnite(h, fb) == {[key |-> h.key, firstboot |-> TRUE]}

\* The host record after UpdateConfig, whose error run ignores.
Updated(h, fb) ==
  {[key |-> h.key, firstboot |-> fb]} \cup (IF "update" \in Swallowed THEN {h} ELSE {})

(***************************************************************************)
(* mct run: is there a machine?                                            *)
(***************************************************************************)
RunExists(p) ==
  /\ At(p, "runExists")
  /\ \/ /\ Exists
        /\ pc' = [pc EXCEPT ![p] = "load"]
        /\ mode' = [mode EXCEPT ![p] = "restart"]
     \/ /\ ~Exists
        /\ pc' = [pc EXCEPT ![p] = "newHost"]
        /\ mode' = [mode EXCEPT ![p] = "create"]
  /\ UNCHANGED <<store, guest, host, listed>>

(***************************************************************************)
(* mct run, no machine: make one.                                          *)
(***************************************************************************)
\* NewHost generates a key pair; the driver gets the command line with
\* ignition.firstboot through UpdateConfig.
NewHost(p) ==
  /\ At(p, "newHost")
  /\ files' = files \cup {"dir"}
  /\ \E k \in Keys : \E h \in Updated([key |-> k, firstboot |-> FALSE], TRUE) :
       GotoWith(p, "create", h)
  /\ UNCHANGED <<torn, saved, served, writers, temps, removing, guest>>

\* Driver.Create writes the disk image into the machine's directory.
CreateBegin(p) ==
  /\ At(p, "create")
  /\ \/ /\ "dir" \in files
        /\ Truncate("disk")
        /\ sshKey' = NoKey /\ booted' = FALSE /\ removing' = FALSE
        /\ Goto(p, "creating")
     \/ /\ "dir" \notin files
        /\ Exit(p)
        /\ UNCHANGED <<files, torn, sshKey, booted, removing>>
  /\ UNCHANGED <<saved, served, writers, temps, vm, igniting>>

CreateEnd(p) ==
  /\ At(p, "creating")
  /\ torn' = torn \ {"disk"}
  /\ Goto(p, "setExists")
  /\ UNCHANGED <<files, saved, served, writers, temps, removing, guest>>

\* SetExists leaves the marker file; its error is only printed.
SetExistsForgotten(p) ==
  /\ At(p, "setExists")
  /\ Goto(p, "saveStat")
  /\ UNCHANGED <<store, guest>>

SetExists(p) ==
  /\ At(p, "setExists")
  /\ \/ "dir" \in files /\ files' = files \cup {"marker"}
     \/ ("dir" \notin files \/ "marker" \in Swallowed) /\ UNCHANGED files
  /\ Goto(p, "saveStat")
  /\ UNCHANGED <<torn, saved, served, writers, temps, removing, guest>>

(***************************************************************************)
(* Filestore.Save.                                                         *)
(***************************************************************************)
AfterSaveOnce(p) ==
  Goto(p, IF mode[p] = "create" /\ "ign" \notin files THEN "ignOpen" ELSE "reload")

\* After Save, a new machine gets its ignition file.
AfterSave(p) == Goto(p, IF mode[p] = "create" THEN "ignOpen" ELSE "reload")

\* Where there is a config.json, the new contents go into a temporary file.
SaveStat(p) ==
  /\ At(p, "saveStat")
  /\ files' = files \cup {"dir"}
  /\ \/ "config" \in files /\ temps' = temps \cup {p} /\ Goto(p, "saveRemove")
     \/ "config" \notin files /\ UNCHANGED temps /\ Goto(p, "saveOpen")
  /\ UNCHANGED <<torn, saved, served, writers, removing, guest>>

\* No config.json: ioutil.WriteFile creates or truncates it, then fills it.
SaveOpen(p) ==
  /\ At(p, "saveOpen")
  /\ \/ /\ "dir" \in files
        /\ Truncate("config")
        /\ saved' = NoHost
        /\ writers' = writers \cup {p}
        /\ Goto(p, "saveWrite")
     \/ /\ "dir" \notin files
        /\ Exit(p)
        /\ UNCHANGED <<files, torn, saved, writers>>
  /\ UNCHANGED <<served, temps, removing, guest>>

\* The write reaches config.json only while the file this process opened is
\* still the one under that name.  Over another writer's record of another
\* length it may leave a mixture of the two.
SaveWrite(p) ==
  /\ At(p, "saveWrite")
  /\ writers' = writers \ {p}
  /\ \/ /\ p \in writers
        /\ saved' = host[p]
        /\ \/ torn' = torn \ {"config"}
           \/ /\ "config" \notin torn
              /\ saved # host[p]
              /\ torn' = torn \cup {"config"}
     \/ /\ p \notin writers
        /\ UNCHANGED <<torn, saved>>
  /\ AfterSave(p)
  /\ UNCHANGED <<files, served, temps, removing, guest>>

\* The old config.json is removed.  To remove a file that has gone is an
\* error, on which the temporary file is removed instead.
SaveRemove(p) ==
  /\ At(p, "saveRemove")
  /\ \/ /\ "config" \in files
        /\ files' = files \ {"config"}
        /\ torn' = torn \ {"config"}
        /\ saved' = NoHost
        /\ writers' = {}
        /\ Goto(p, "saveRename")
        /\ UNCHANGED temps
     \/ /\ "config" \notin files
        /\ Exit(p)
        /\ temps' = temps \ {p}
        /\ UNCHANGED <<files, torn, saved, writers>>
  /\ UNCHANGED <<served, removing, guest>>

TempCleanedUp(p) == FALSE

TempThere(p) == p \in temps

\* The temporary file is renamed, unless stop -r has taken it away.
SaveRename(p) ==
  /\ At(p, "saveRename")
  /\ \/ /\ TempThere(p)
        /\ files' = files \cup {"config"}
        /\ torn' = torn \ {"config"}
        /\ saved' = host[p]
        /\ writers' = {}
        /\ AfterSave(p)
     \/ /\ ~TempThere(p)
        /\ Exit(p)
        /\ UNCHANGED <<files, torn, saved, writers>>
  /\ temps' = temps \ {p}
  /\ UNCHANGED <<served, removing, guest>>

(***************************************************************************)
(* WriteIgnition.                                                          *)
(***************************************************************************)
IgnOpen(p) ==
  /\ At(p, "ignOpen")
  /\ \/ /\ "dir" \in files
        /\ Truncate("ign")
        /\ served' = NoKey
        /\ Goto(p, "ignWrite")
     \/ /\ "dir" \notin files
        /\ Exit(p)
        /\ UNCHANGED <<files, torn, served>>
  /\ UNCHANGED <<saved, writers, temps, removing, guest>>

IgnWrite(p) ==
  /\ At(p, "ignWrite")
  /\ torn' = torn \ {"ign"}
  /\ served' = IF "ign" \in files THEN host[p].key ELSE served
  /\ Goto(p, "reload")
  /\ UNCHANGED <<files, saved, writers, temps, removing, guest>>

(***************************************************************************)
(* mct run, the machine exists: load it, take the command line without     *)
(* ignition.firstboot, and save it.                                        *)
(***************************************************************************)
Load(p) ==
  /\ At(p, "load")
  /\ \/ /\ Readable
        /\ \E h \in Updated(saved, FALSE) : GotoWith(p, "saveStat", h)
     \/ ~Readable /\ Exit(p)
  /\ UNCHANGED <<store, guest>>

(***************************************************************************)
(* mct run, both arms: load again, and start the machine if it does not    *)
(* run.  Start fails, and that is only printed, when a machine runs already*)
(* or has no disk.                                                         *)
(***************************************************************************)
Reload(p) ==
  /\ At(p, "reload")
  /\ \/ Readable /\ GotoWith(p, "runState", saved)
     \/ ~Readable /\ Exit(p)
  /\ UNCHANGED <<store, guest>>

RunState(p) ==
  /\ At(p, "runState")
  /\ \/ vm = "Running" /\ Exit(p)
     \/ vm = "Stopped" /\ Goto(p, "start")
  /\ UNCHANGED <<store, guest>>

Start(p) ==
  /\ At(p, "start")
  /\ \/ /\ vm = "Stopped" /\ "disk" \in files
        /\ vm' = "Running" /\ booted' = TRUE
        /\ igniting' = host[p].firstboot
     \/ /\ vm = "Running" \/ "disk" \notin files
        /\ UNCHANGED <<vm, booted, igniting>>
  /\ Exit(p)
  /\ UNCHANGED <<store, sshKey>>

(***************************************************************************)
(* The guest.  It fetches mct.ign from the daemon when its kernel command  *)
(* line has ignition.firstboot, and it may power off at any time, asked to *)
(* or not.                                                                 *)
(***************************************************************************)
GuestIgnites ==
  /\ vm = "Running" /\ igniting
  /\ "ign" \in files \ torn
  /\ sshKey' = served
  /\ igniting' = FALSE
  /\ UNCHANGED <<store, procs, booted, vm>>

PowerOff == vm' = "Stopped" /\ igniting' = FALSE /\ UNCHANGED <<sshKey, booted>>

GuestStops ==
  /\ vm = "Running"
  /\ PowerOff
  /\ UNCHANGED <<store, procs>>

(***************************************************************************)
(* mct stop and mct stop -r.                                               *)
(***************************************************************************)
StopExists(p) ==
  /\ At(p, "stopExists")
  /\ \/ Exists /\ Goto(p, "stopLoad")
     \/ ~Exists /\ Exit(p)
  /\ UNCHANGED <<store, guest>>

StopLoad(p) ==
  /\ At(p, "stopLoad")
  /\ \/ Readable /\ Goto(p, "stopState")
     \/ ~Readable /\ Exit(p)
  /\ UNCHANGED <<store, guest>>

StopState(p) ==
  /\ At(p, "stopState")
  /\ \/ vm = "Running" /\ Goto(p, "stopCall")
     \/ vm = "Stopped" /\ Exit(p)
  /\ UNCHANGED <<store, guest>>

\* Host.Stop asks the guest to shut down.  It fails for a machine that has
\* stopped meanwhile, or with the driver's error: then Kill is next.
StopCall(p) ==
  /\ At(p, "stopCall")
  /\ \/ vm = "Running" /\ Goto(p, "stopWait")
     \/ (vm = "Stopped" \/ MayFail) /\ Goto(p, "killCall")
  /\ UNCHANGED <<store, guest>>

Stopped(p) ==
  \/ mode[p] = "remove" /\ Goto(p, "removeWait")
  \/ mode[p] # "remove" /\ Exit(p)

GivesUpNever(p) == FALSE

\* Retry polls the driver, and gives up after three minutes.
GivesUp(p) == Goto(p, "killCall")

StopWait(p) ==
  /\ At(p, "stopWait")
  /\ \/ vm = "Stopped" /\ Stopped(p)
     \/ GivesUp(p)
  /\ UNCHANGED <<store, guest>>

\* Host.Kill refuses a machine that is already stopped, and mct exits.
KillCall(p) ==
  /\ At(p, "killCall")
  /\ \/ vm = "Running" /\ PowerOff /\ Goto(p, "killWait")
     \/ vm = "Stopped" /\ Exit(p) /\ UNCHANGED guest
  /\ UNCHANGED store

KillWait(p) ==
  /\ At(p, "killWait")
  /\ \/ vm = "Stopped" /\ Stopped(p)
     \/ vm = "Running" /\ Exit(p)
  /\ UNCHANGED <<store, guest>>

RemoveWait(p) ==
  /\ At(p, "removeWait")
  /\ \/ vm = "Stopped" /\ Goto(p, "list")
     \/ vm = "Running" /\ Exit(p)
  /\ UNCHANGED <<store, guest>>

\* os.RemoveAll lists the directory, unlinks one listed entry after the
\* other, and removes the directory if nothing was put into it meanwhile.
List(p) ==
  /\ At(p, "list")
  /\ listed' = [listed EXCEPT ![p] = (files \ {"dir"})
                      \cup (IF temps = {} THEN {} ELSE {"temps"})]
  /\ pc' = [pc EXCEPT ![p] = "unlink"]
  /\ UNCHANGED <<store, guest, mode, host>>

Unlink(p, f) ==
  /\ At(p, "unlink")
  /\ f \in listed[p]
  /\ listed' = [listed EXCEPT ![p] = @ \ {f}]
  /\ files' = files \ {f}
  /\ torn' = torn \ {f}
  /\ saved' = IF f = "config" THEN NoHost ELSE saved
  /\ writers' = IF f = "config" THEN {} ELSE writers
  /\ served' = IF f = "ign" THEN NoKey ELSE served
  /\ sshKey' = IF f = "disk" THEN NoKey ELSE sshKey
  /\ booted' = IF f = "disk" THEN FALSE ELSE booted
  /\ temps' = IF f = "temps" THEN {} ELSE temps
  /\ removing' = TRUE
  /\ UNCHANGED <<vm, igniting, pc, mode, host>>

RemoveDir(p) ==
  /\ At(p, "unlink")
  /\ listed[p] = {}
  /\ \/ files \subseteq {"dir"} /\ temps = {} /\ files' = {}
     \/ (files \ {"dir"} # {} \/ temps # {}) /\ UNCHANGED files
  /\ Exit(p)
  /\ UNCHANGED <<torn, saved, served, writers, temps, removing, guest>>

Remove(p) ==
  \/ List(p)
  \/ \E f \in Entry : Unlink(p, f)
  \/ RemoveDir(p)

(***************************************************************************)
(* mct ssh.  The session itself changes nothing that is modelled.          *)
(***************************************************************************)
SshLoad(p) ==
  /\ At(p, "sshLoad")
  /\ \/ Readable /\ GotoWith(p, "sshState", saved)
     \/ ~Readable /\ Exit(p)
  /\ UNCHANGED <<store, guest>>

SshState(p) ==
  /\ At(p, "sshState")
  /\ Exit(p)
  /\ UNCHANGED <<store, guest>>

(***************************************************************************)
(* The specification.                                                      *)
(***************************************************************************)
Run(p) ==
  \/ RunExists(p) \/ NewHost(p) \/ CreateBegin(p) \/ CreateEnd(p)
  \/ SetExists(p) \/ IgnOpen(p) \/ IgnWrite(p) \/ Load(p) \/ Reload(p)
  \/ RunState(p) \/ Start(p)

Save(p) ==
  \/ SaveStat(p) \/ SaveOpen(p) \/ SaveWrite(p)
  \/ SaveRemove(p) \/ SaveRename(p)

Stop(p) ==
  \/ StopExists(p) \/ StopLoad(p) \/ StopState(p) \/ StopCall(p)
  \/ StopWait(p) \/ KillCall(p) \/ KillWait(p) \/ RemoveWait(p) \/ Remove(p)

Ssh(p) == SshLoad(p) \/ SshState(p)

Command(p) == Run(p) \/ Save(p) \/ Stop(p) \/ Ssh(p)

Next ==
  \/ \E p \in Procs, c \in Commands : Begin(p, c)
  \/ \E p \in Procs : Command(p) \/ Fail(p)
  \/ GuestIgnites
  \/ GuestStops

Spec == Init /\ [][Next]_vars

\* The same from a machine that was created, booted and provisioned some time
\* ago; its record may still be the one of the first boot.
InstalledInit ==
  /\ files = File /\ torn = {}
  /\ \E k \in Keys, fb \in BOOLEAN :
       /\ saved = [key |-> k, firstboot |-> fb]
       /\ served = k /\ sshKey = k
  /\ writers = {} /\ temps = {} /\ removing = FALSE
  /\ booted = TRUE /\ igniting = FALSE
  /\ vm \in {"Running", "Stopped"}
  /\ pc = [p \in Procs |-> "idle"]
  /\ mode = [p \in Procs |-> "none"]
  /\ host = [p \in Procs |-> NoHost]
  /\ listed = [p \in Procs |-> {}]

InstalledSpec == InstalledInit /\ [][Next]_vars

\* A command that has begun goes on: the system runs its process.  Nothing is
\* assumed of the users, of interruptions or of the guest.
Fairness == \A p \in Procs : WF_vars(Command(p))

FairInstalledSpec == InstalledSpec /\ Fairness

(***************************************************************************)
(* Properties.                                                             *)
(***************************************************************************)

\* The key that mct ssh would use, the one in config.json, is the key the
\* guest was given: whatever run was interrupted, and wherever a removal
\* broke off before, no later run pairs a disk with another machine's record.
SshKeyMatches ==
  sshKey # NoKey /\ Readable => saved.key = sshKey

\* A guest runs only on a disk image that Create has finished and that is
\* still there: not on one left by an interrupted Create, and stop -r does
\* not take the disk from under a running guest.
RunningOnWholeDisk ==
  vm = "Running" => "disk" \in files \ torn

\* While a guest runs, Exists answers true: otherwise the next run would
\* write a new disk image over the one in use.
RunningMachineExists ==
  vm = "Running" => Exists

\* A guest that has booted before is never booted with ignition.firstboot
\* again: every later run saves and reloads the command line without it.
NoReIgnition ==
  [][vm = "Stopped" /\ vm' = "Running" /\ booted => ~igniting']_vars

\* A provisioned disk is lost only to stop -r: no run, however many were
\* interrupted before it, creates a machine over it.
DataKept ==
  [][sshKey # NoKey /\ sshKey' # sshKey => removing \/ removing']_vars

\* With no command in progress, a machine that exists has a host record that
\* Load can read: Save loses none.
ConfigSurvives ==
  (\A p \in Procs : At(p, "idle")) /\ Exists => Readable

Unremoved == \A p \in Procs : mode[p] # "remove"

\* However the runs, stops and sessions of several users overlap: unless one
\* of them removes the machine, the remove and the rename of one's Save never
\* lose the record to those of another's.
RecordKept == []Unremoved => []ConfigSurvives

\* The guest keeps its disk, whole and known to exist, and its key, which any
\* readable record has; it has not been told to ignite.
Provisioned ==
  /\ {"disk", "marker"} \subseteq files
  /\ "disk" \notin torn
  /\ sshKey # NoKey /\ (Readable => saved.key = sshKey)
  /\ ~igniting

\* However the runs, stops and sessions of several users overlap: unless one
\* of them removes it, a provisioned machine stays provisioned.  No run takes
\* it for missing while another has its record removed and not yet renamed,
\* and none starts it with the command line of its first boot.
StaysProvisioned == []Unremoved => []Provisioned

\* Every command comes to an end, whatever the others do meanwhile: none
\* waits for a file or a state that another may take away for ever.
EveryCommandEnds ==
  \A p \in Procs : ~At(p, "idle") ~> At(p, "idle")

\* The life of the disk and of the guest is the one that Machine promises.
Disk ==
  CASE "disk" \notin files -> "none"
    [] "disk" \in torn     -> "making"
    [] OTHER -> IF sshKey # NoKey THEN "provisioned" ELSE IF booted THEN "booted" ELSE "fresh"

Promised == INSTANCE Machine WITH
  disk <- Disk, running <- (vm = "Running"), igniting <- igniting, doomed <- removing

ImplementsMachine == Promised!Spec

\* The first boot of a disk uses ignition.
FirstBootIgnites ==
  [][~booted /\ booted' => igniting']_vars

=============================================================================
