----------------------- MODULE MachineLifecycleProofs -----------------------
(***************************************************************************)
(* What is proved of MachineLifecycle.  TypeOK holds for any number of     *)
(* users.  The safety properties hold, and Machine is implemented, for one *)
(* user whose commands may be interrupted at any step; each theorem names  *)
(* the error that run ignores which would break it.  Any number of users   *)
(* of an installed machine leave it provisioned, whatever is interrupted,  *)
(* and its host record readable, if nothing is, until one removes it.      *)
(***************************************************************************)
EXTENDS MachineLifecycle, Naturals, TLAPS

OneUser == \E p : Procs = {p}

(***************************************************************************)
(* The inductive invariant, in layers: each rests on those before it, and  *)
(* on no more of the two errors that run ignores than it has to.           *)
(***************************************************************************)
SavePcs == {"saveStat", "saveOpen", "saveWrite", "saveRemove", "saveRename"}
IgnPcs == {"ignOpen", "ignWrite"}
MarkedPcs == SavePcs \cup IgnPcs \cup {"load", "reload", "runState", "start"}
UnmarkedPcs == {"newHost", "create", "creating", "setExists"}

\* Whichever errors are ignored: a command that creates a machine works on a
\* disk that has never booted, one that removes it on one that is stopped.
ControlInv(p) ==
  /\ pc[p] \in UnmarkedPcs \cup IgnPcs => mode[p] = "create"
  /\ pc[p] = "load" => mode[p] = "restart"
  /\ pc[p] \in {"creating", "setExists"} \cup IgnPcs => ~booted
  /\ pc[p] \in SavePcs => mode[p] = "restart" \/ (mode[p] = "create" /\ ~booted)
  /\ pc[p] = "saveWrite" => p \in writers
  /\ pc[p] \in {"list", "unlink"} => vm = "Stopped"

\* If UpdateConfig succeeds: only a disk that has never booted is about to be
\* booted with ignition.
BootInv(p) ==
  /\ pc[p] \in SavePcs /\ mode[p] = "restart" => ~host[p].firstboot
  /\ pc[p] = "reload" /\ Readable /\ saved.firstboot => ~booted
  /\ pc[p] \in {"runState", "start"} /\ host[p].firstboot => ~booted

\* If SetExists succeeds: the marker tells whether there is a disk to keep.
DiskInv ==
  /\ RunningOnWholeDisk
  /\ RunningMachineExists
  /\ "marker" \in files => "disk" \notin torn
  /\ vm = "Running" => booted
  /\ sshKey # NoKey => booted
  /\ booted => "disk" \in files \ torn
  /\ booted => removing \/ "marker" \in files
  /\ igniting => vm = "Running"
  /\ sshKey # NoKey /\ "ign" \in files \ torn => served = sshKey

DiskUser(p) ==
  /\ pc[p] \in UnmarkedPcs => "marker" \notin files
  /\ pc[p] \in MarkedPcs => "marker" \in files
  /\ pc[p] \in UnmarkedPcs \cup MarkedPcs \cup {"runExists"} => "dir" \in files
  /\ pc[p] = "setExists" => "disk" \notin torn

\* If both do: the key in the record is the one that the guest has, or will
\* be given.
KeyInv ==
  /\ SshKeyMatches
  /\ "ign" \in files \ torn => served # NoKey
  /\ igniting => sshKey = NoKey
  /\ igniting /\ Readable => saved.key = served

KeyUser(p) ==
  /\ pc[p] \in SavePcs /\ mode[p] = "restart" =>
       /\ sshKey # NoKey => host[p].key = sshKey
       /\ igniting => host[p].key = served
  /\ pc[p] \in (UnmarkedPcs \ {"newHost"}) \cup SavePcs \cup IgnPcs =>
       (mode[p] = "create" => host[p].key # NoKey)
  /\ pc[p] \in IgnPcs /\ Readable => saved = host[p]
  /\ pc[p] = "ignWrite" => "ign" \in files
  /\ pc[p] = "reload" /\ Readable /\ saved.firstboot => saved.key = served
  /\ pc[p] \in {"runState", "start"} /\ host[p].firstboot /\ Readable =>
       saved.key = served

BootLayer == TypeOK /\ \A p \in Procs : ControlInv(p) /\ BootInv(p)
DiskLayer == TypeOK /\ DiskInv /\ \A p \in Procs : ControlInv(p) /\ DiskUser(p)
SerialInv == BootLayer /\ DiskLayer /\ KeyInv /\ \A p \in Procs : KeyUser(p)

(***************************************************************************)
(* Type correctness, for any number of users and every constant.           *)
(***************************************************************************)
USE DEF store, guest, procs, Exists, Truncate, TempThere, GivesUp

LEMMA NoHostType == NoHost \in Host
  BY DEF NoHost, Host

LEMMA UpdatedType ==
  ASSUME NEW h \in Host, NEW fb \in BOOLEAN
  PROVE  Updated(h, fb) \subseteq Host
  BY DEF Updated, Host

LEMMA TypeInit == Init => TypeOK
<1> SUFFICES ASSUME Init PROVE TypeOK
  OBVIOUS
<1>1. StoreOK /\ GuestOK
  BY NoHostType DEF Init, StoreOK, GuestOK
<1>2. "idle" \in Step /\ "none" \in Mode /\ {} \in SUBSET Entry
  BY DEF Step, Mode
<1>3. ProcsOK
  BY <1>2, NoHostType DEF Init, ProcsOK
<1> QED BY <1>1, <1>3 DEF TypeOK

LEMMA GotoType ==
  ASSUME ProcsOK, NEW p \in Procs, NEW label \in Step, Goto(p, label)
  PROVE  ProcsOK'
  BY DEF Goto, ProcsOK

LEMMA GotoWithType ==
  ASSUME ProcsOK, NEW p \in Procs, NEW label \in Step, NEW h \in Host,
         GotoWith(p, label, h)
  PROVE  ProcsOK'
  BY DEF GotoWith, ProcsOK

LEMMA ExitType ==
  ASSUME ProcsOK, NEW p \in Procs, Exit(p)
  PROVE  ProcsOK'
<1>1. "idle" \in Step /\ "none" \in Mode /\ {} \in SUBSET Entry
  BY DEF Step, Mode
<1> QED BY <1>1, NoHostType DEF Exit, ProcsOK

LEMMA TypeRun ==
  ASSUME TypeOK, NEW p \in Procs, Run(p)
  PROVE  TypeOK'
<1> USE DEF TypeOK
<1>1. CASE RunExists(p)
  <2>1. {"load", "newHost"} \subseteq Step /\ {"restart", "create"} \subseteq Mode
    BY DEF Step, Mode
  <2>2. ProcsOK'
    BY <1>1, <2>1 DEF RunExists, ProcsOK
  <2>3. StoreOK' /\ GuestOK'
    BY <1>1 DEF RunExists, StoreOK, GuestOK
  <2> QED BY <2>2, <2>3
<1>2. CASE NewHost(p)
  <2>1. PICK k \in Keys : \E h \in Updated([key |-> k, firstboot |-> FALSE], TRUE) :
                             GotoWith(p, "create", h)
    BY <1>2 DEF NewHost
  <2>4. [key |-> k, firstboot |-> FALSE] \in Host /\ "create" \in Step
    BY DEF Host, Step
  <2>2. ProcsOK'
    BY <2>1, <2>4, UpdatedType, GotoWithType
  <2>3. StoreOK' /\ GuestOK'
    BY <1>2 DEF NewHost, StoreOK, GuestOK, File
  <2> QED BY <2>2, <2>3
<1>3. CASE CreateBegin(p)
  <2>2. ProcsOK'
    BY <1>3, GotoType, ExitType DEF CreateBegin, Step
  <2>3. StoreOK' /\ GuestOK'
    BY <1>3 DEF CreateBegin, StoreOK, GuestOK, File
  <2> QED BY <2>2, <2>3
<1>4. CASE CreateEnd(p)
  <2>2. ProcsOK'
    BY <1>4, GotoType DEF CreateEnd, Step
  <2>3. StoreOK' /\ GuestOK'
    BY <1>4 DEF CreateEnd, StoreOK, GuestOK
  <2> QED BY <2>2, <2>3
<1>5. CASE SetExists(p)
  <2>2. ProcsOK'
    BY <1>5, GotoType DEF SetExists, Step
  <2>3. StoreOK' /\ GuestOK'
    BY <1>5 DEF SetExists, StoreOK, GuestOK, File
  <2> QED BY <2>2, <2>3
<1>6. CASE IgnOpen(p)
  <2>2. ProcsOK'
    BY <1>6, GotoType, ExitType DEF IgnOpen, Step
  <2>3. StoreOK' /\ GuestOK'
    BY <1>6 DEF IgnOpen, StoreOK, GuestOK, File
  <2> QED BY <2>2, <2>3
<1>7. CASE IgnWrite(p)
  <2>2. ProcsOK'
    BY <1>7, GotoType DEF IgnWrite, Step
  <2>3. StoreOK' /\ GuestOK'
    BY <1>7 DEF IgnWrite, StoreOK, GuestOK, ProcsOK, Host
  <2> QED BY <2>2, <2>3
<1>8. CASE Load(p)
  <2>1. "saveStat" \in Step
    BY DEF Step
  <2>2. ProcsOK'
    BY <1>8, <2>1, UpdatedType, GotoWithType, ExitType DEF Load, StoreOK
  <2>3. StoreOK' /\ GuestOK'
    BY <1>8 DEF Load, StoreOK, GuestOK
  <2> QED BY <2>2, <2>3
<1>9. CASE Reload(p)
  <2>1. "runState" \in Step
    BY DEF Step
  <2>2. ProcsOK'
    BY <1>9, <2>1, GotoWithType, ExitType DEF Reload, StoreOK
  <2>3. StoreOK' /\ GuestOK'
    BY <1>9 DEF Reload, StoreOK, GuestOK
  <2> QED BY <2>2, <2>3
<1>10. CASE RunState(p)
  <2>2. ProcsOK'
    BY <1>10, GotoType, ExitType DEF RunState, Step
  <2>3. StoreOK' /\ GuestOK'
    BY <1>10 DEF RunState, StoreOK, GuestOK
  <2> QED BY <2>2, <2>3
<1>11. CASE Start(p)
  <2>2. ProcsOK'
    BY <1>11, ExitType DEF Start
  <2>1. host[p].firstboot \in BOOLEAN
    BY DEF ProcsOK, Host
  <2>3. StoreOK' /\ GuestOK'
    BY <1>11, <2>1 DEF Start, StoreOK, GuestOK
  <2> QED BY <2>2, <2>3
<1> QED BY <1>1, <1>2, <1>3, <1>4, <1>5, <1>6, <1>7, <1>8, <1>9, <1>10, <1>11 DEF Run

LEMMA TypeSave ==
  ASSUME TypeOK, NEW p \in Procs, Save(p)
  PROVE  TypeOK'
<1> USE DEF TypeOK
<1>1. CASE SaveStat(p)
  <2>2. ProcsOK'
    BY <1>1, GotoType DEF SaveStat, Step
  <2>3. StoreOK' /\ GuestOK'
    BY <1>1 DEF SaveStat, StoreOK, GuestOK, File
  <2> QED BY <2>2, <2>3
<1>2. CASE SaveOpen(p)
  <2>2. ProcsOK'
    BY <1>2, GotoType, ExitType DEF SaveOpen, Step
  <2>3. StoreOK' /\ GuestOK'
    BY <1>2, NoHostType DEF SaveOpen, StoreOK, GuestOK, File
  <2> QED BY <2>2, <2>3
<1>3. CASE SaveWrite(p)
  <2>2. ProcsOK'
    BY <1>3, GotoType DEF SaveWrite, Step, AfterSave
  <2>3. StoreOK' /\ GuestOK'
    BY <1>3 DEF SaveWrite, StoreOK, GuestOK, ProcsOK
  <2> QED BY <2>2, <2>3
<1>4. CASE SaveRemove(p)
  <2>2. ProcsOK'
    BY <1>4, GotoType, ExitType DEF SaveRemove, Step
  <2>3. StoreOK' /\ GuestOK'
    BY <1>4, NoHostType DEF SaveRemove, StoreOK, GuestOK
  <2> QED BY <2>2, <2>3
<1>5. CASE SaveRename(p)
  <2>2. ProcsOK'
    BY <1>5, GotoType, ExitType DEF SaveRename, Step, AfterSave
  <2>3. StoreOK' /\ GuestOK'
    BY <1>5 DEF SaveRename, StoreOK, GuestOK, ProcsOK, File
  <2> QED BY <2>2, <2>3
<1> QED BY <1>1, <1>2, <1>3, <1>4, <1>5 DEF Save

LEMMA TypeStop ==
  ASSUME TypeOK, NEW p \in Procs, Stop(p)
  PROVE  TypeOK'
<1> USE DEF TypeOK
<1>1. CASE StopExists(p)
  <2>2. ProcsOK'
    BY <1>1, GotoType, ExitType DEF StopExists, Step
  <2>3. StoreOK' /\ GuestOK'
    BY <1>1 DEF StopExists, StoreOK, GuestOK
  <2> QED BY <2>2, <2>3
<1>2. CASE StopLoad(p)
  <2>2. ProcsOK'
    BY <1>2, GotoType, ExitType DEF StopLoad, Step
  <2>3. StoreOK' /\ GuestOK'
    BY <1>2 DEF StopLoad, StoreOK, GuestOK
  <2> QED BY <2>2, <2>3
<1>3. CASE StopState(p)
  <2>2. ProcsOK'
    BY <1>3, GotoType, ExitType DEF StopState, Step
  <2>3. StoreOK' /\ GuestOK'
    BY <1>3 DEF StopState, StoreOK, GuestOK
  <2> QED BY <2>2, <2>3
<1>4. CASE StopCall(p)
  <2>2. ProcsOK'
    BY <1>4, GotoType DEF StopCall, Step
  <2>3. StoreOK' /\ GuestOK'
    BY <1>4 DEF StopCall, StoreOK, GuestOK
  <2> QED BY <2>2, <2>3
<1>5. CASE StopWait(p)
  <2>2. ProcsOK'
    BY <1>5, GotoType, ExitType DEF StopWait, Step, Stopped
  <2>3. StoreOK' /\ GuestOK'
    BY <1>5 DEF StopWait, StoreOK, GuestOK
  <2> QED BY <2>2, <2>3
<1>6. CASE KillCall(p)
  <2>2. ProcsOK'
    BY <1>6, GotoType, ExitType DEF KillCall, Step
  <2>3. StoreOK' /\ GuestOK'
    BY <1>6 DEF KillCall, StoreOK, GuestOK, PowerOff
  <2> QED BY <2>2, <2>3
<1>7. CASE KillWait(p)
  <2>2. ProcsOK'
    BY <1>7, GotoType, ExitType DEF KillWait, Step, Stopped
  <2>3. StoreOK' /\ GuestOK'
    BY <1>7 DEF KillWait, StoreOK, GuestOK
  <2> QED BY <2>2, <2>3
<1>8. CASE RemoveWait(p)
  <2>2. ProcsOK'
    BY <1>8, GotoType, ExitType DEF RemoveWait, Step
  <2>3. StoreOK' /\ GuestOK'
    BY <1>8 DEF RemoveWait, StoreOK, GuestOK
  <2> QED BY <2>2, <2>3
<1>9. CASE Remove(p)
  <2>1. CASE List(p)
    <3>1. "unlink" \in Step /\ (File \ {"dir"}) \cup {"temps"} \subseteq Entry
      BY DEF Step, File, Entry
    <3>2. (files \ {"dir"}) \cup (IF temps = {} THEN {} ELSE {"temps"}) \subseteq Entry
      BY <3>1 DEF StoreOK
    <3>3. ProcsOK'
      BY <2>1, <3>1, <3>2 DEF List, ProcsOK
    <3> QED BY <2>1, <3>3 DEF List, StoreOK, GuestOK
  <2>2. ASSUME NEW f \in Entry, Unlink(p, f) PROVE TypeOK'
    <3>1. ProcsOK'
      BY <2>2 DEF Unlink, ProcsOK
    <3>2. StoreOK' /\ GuestOK'
      BY <2>2, NoHostType DEF Unlink, StoreOK, GuestOK
    <3> QED BY <3>1, <3>2
  <2>3. CASE RemoveDir(p)
    <3>1. StoreOK' /\ GuestOK'
      BY <2>3 DEF RemoveDir, StoreOK, GuestOK
    <3> QED BY <2>3, <3>1, ExitType DEF RemoveDir
  <2> QED BY <1>9, <2>1, <2>2, <2>3 DEF Remove
<1> QED BY <1>1, <1>2, <1>3, <1>4, <1>5, <1>6, <1>7, <1>8, <1>9 DEF Stop

LEMMA TypeNext == TypeOK /\ [Next]_vars => TypeOK'
<1> SUFFICES ASSUME TypeOK, [Next]_vars PROVE TypeOK'
  OBVIOUS
<1> USE DEF TypeOK
<1>1. ASSUME NEW p \in Procs, NEW c \in Commands, Begin(p, c) PROVE TypeOK'
  <2>1. {"runExists", "sshLoad", "stopExists"} \subseteq Step /\ c \in Mode
    BY LifecycleAssumption DEF Step, Mode
  <2>2. ProcsOK'
    BY <1>1, <2>1 DEF Begin, ProcsOK
  <2> QED BY <1>1, <2>2 DEF Begin, StoreOK, GuestOK, File
<1>2. ASSUME NEW p \in Procs, Run(p) PROVE TypeOK'
  BY <1>2, TypeRun
<1>3. ASSUME NEW p \in Procs, Save(p) PROVE TypeOK'
  BY <1>3, TypeSave
<1>4. ASSUME NEW p \in Procs, Stop(p) PROVE TypeOK'
  BY <1>4, TypeStop
<1>5. ASSUME NEW p \in Procs, SshLoad(p) \/ SshState(p) PROVE TypeOK'
  <2>1. "sshState" \in Step
    BY DEF Step
  <2> QED BY <1>5, <2>1, GotoWithType, ExitType DEF SshLoad, SshState, StoreOK, GuestOK
<1>6. ASSUME NEW p \in Procs, Fail(p) PROVE TypeOK'
  BY <1>6, ExitType DEF Fail, StoreOK, GuestOK
<1>7. CASE GuestIgnites \/ GuestStops
  BY <1>7 DEF GuestIgnites, GuestStops, PowerOff, StoreOK, GuestOK, ProcsOK
<1>8. CASE UNCHANGED vars
  BY <1>8 DEF vars, StoreOK, GuestOK, ProcsOK
<1> QED BY <1>1, <1>2, <1>3, <1>4, <1>5, <1>6, <1>7, <1>8 DEF Next, Command, Ssh

\* Every variable keeps its type, and a file is half written, or open for
\* writing, only while it is in the directory.
THEOREM TypeCorrect == Spec => []TypeOK
  BY TypeInit, TypeNext, PTL DEF Spec

(***************************************************************************)
(* The safety properties, for one user.                                    *)
(***************************************************************************)
LEMMA GotoEffect ==
  ASSUME TypeOK, NEW p \in Procs, NEW label, Goto(p, label)
  PROVE  pc'[p] = label /\ mode'[p] = mode[p] /\ host'[p] = host[p]
  BY DEF Goto, TypeOK, ProcsOK

LEMMA GotoWithEffect ==
  ASSUME TypeOK, NEW p \in Procs, NEW label, NEW h, GotoWith(p, label, h)
  PROVE  pc'[p] = label /\ mode'[p] = mode[p] /\ host'[p] = h
  BY DEF GotoWith, TypeOK, ProcsOK

LEMMA ExitEffect ==
  ASSUME TypeOK, NEW p \in Procs, Exit(p)
  PROVE  pc'[p] = "idle" /\ mode'[p] = "none"
  BY DEF Exit, TypeOK, ProcsOK

\* A process at the shell prompt relies on nothing.
LEMMA IdleInv ==
  ASSUME NEW p
  PROVE  /\ pc[p] = "idle" => ControlInv(p) /\ BootInv(p) /\ DiskUser(p) /\ KeyUser(p)
         /\ pc'[p] = "idle" => ControlInv(p)' /\ BootInv(p)' /\ DiskUser(p)' /\ KeyUser(p)'
  BY DEF ControlInv, BootInv, DiskUser, KeyUser, SavePcs, IgnPcs, MarkedPcs, UnmarkedPcs

\* What a step keeps of each layer.
KeepsBoot(p) == "update" \notin Swallowed /\ BootInv(p) => BootInv(p)'
KeepsDisk(p) ==
  "marker" \notin Swallowed /\ DiskInv /\ DiskUser(p) => DiskInv' /\ DiskUser(p)'
KeepsKey(p) ==
  Swallowed = {} /\ BootInv(p) /\ DiskInv /\ DiskUser(p) /\ KeyInv /\ KeyUser(p)
    => KeyInv' /\ KeyUser(p)'
Keeps(p) == ControlInv(p)' /\ KeepsBoot(p) /\ KeepsDisk(p) /\ KeepsKey(p)

LEMMA KeepsRun ==
  ASSUME TypeOK, NEW p \in Procs, ControlInv(p), Run(p)
  PROVE  Keeps(p)
<1> USE DEF At, TypeOK, StoreOK, GuestOK, SshKeyMatches, RunningOnWholeDisk,
            RunningMachineExists, Readable, SavePcs, IgnPcs, MarkedPcs, UnmarkedPcs
<1>1. CASE RunExists(p)
  <2>1. ControlInv(p)'
    BY <1>1 DEF RunExists, ProcsOK, ControlInv
  <2>2. KeepsBoot(p)
    BY <1>1 DEF RunExists, ProcsOK, ControlInv, KeepsBoot, BootInv
  <2>3. KeepsDisk(p)
    BY <1>1 DEF RunExists, ProcsOK, ControlInv, KeepsDisk, DiskInv, DiskUser
  <2>4. KeepsKey(p)
    BY <1>1
    DEF RunExists, ProcsOK, ControlInv, KeepsKey, BootInv, DiskInv, DiskUser, KeyInv, KeyUser
  <2> QED BY <2>1, <2>2, <2>3, <2>4 DEF Keeps
<1>2. CASE NewHost(p)
  <2>0. PICK k \in Keys : \E h \in Updated([key |-> k, firstboot |-> FALSE], TRUE) :
                             GotoWith(p, "create", h)
    BY <1>2 DEF NewHost
  <2>e. pc'[p] = "create" /\ mode'[p] = mode[p] /\ host'[p].key # NoKey
    BY <2>0, GotoWithEffect, LifecycleAssumption DEF Updated
  <2>1. ControlInv(p)'
    BY <1>2, <2>e DEF NewHost, ControlInv
  <2>2. KeepsBoot(p)
    BY <1>2, <2>e DEF NewHost, ControlInv, KeepsBoot, BootInv
  <2>3. KeepsDisk(p)
    BY <1>2, <2>e DEF NewHost, ControlInv, KeepsDisk, DiskInv, DiskUser
  <2>4. KeepsKey(p)
    BY <1>2, <2>e
    DEF NewHost, ControlInv, KeepsKey, BootInv, DiskInv, DiskUser, KeyInv, KeyUser
  <2> QED BY <2>1, <2>2, <2>3, <2>4 DEF Keeps
<1>3. CASE CreateBegin(p)
  <2>1. ControlInv(p)'
    BY <1>3, GotoEffect, ExitEffect, IdleInv DEF CreateBegin, ControlInv
  <2>2. KeepsBoot(p)
    BY <1>3, GotoEffect, ExitEffect, IdleInv DEF CreateBegin, ControlInv, KeepsBoot, BootInv
  <2>3. KeepsDisk(p)
    BY <1>3, GotoEffect, ExitEffect, IdleInv
    DEF CreateBegin, ControlInv, KeepsDisk, DiskInv, DiskUser
  <2>4. KeepsKey(p)
    BY <1>3, GotoEffect, ExitEffect, IdleInv
    DEF CreateBegin, ControlInv, KeepsKey, BootInv, DiskInv, DiskUser, KeyInv, KeyUser
  <2> QED BY <2>1, <2>2, <2>3, <2>4 DEF Keeps
<1>4. CASE CreateEnd(p)
  <2>1. ControlInv(p)'
    BY <1>4, GotoEffect DEF CreateEnd, ControlInv
  <2>2. KeepsBoot(p)
    BY <1>4, GotoEffect DEF CreateEnd, ControlInv, KeepsBoot, BootInv
  <2>3. KeepsDisk(p)
    BY <1>4, GotoEffect DEF CreateEnd, ControlInv, KeepsDisk, DiskInv, DiskUser
  <2>4. KeepsKey(p)
    BY <1>4, GotoEffect
    DEF CreateEnd, ControlInv, KeepsKey, BootInv, DiskInv, DiskUser, KeyInv, KeyUser
  <2> QED BY <2>1, <2>2, <2>3, <2>4 DEF Keeps
<1>5. CASE SetExists(p)
  <2>1. ControlInv(p)'
    BY <1>5, GotoEffect DEF SetExists, ControlInv
  <2>2. KeepsBoot(p)
    BY <1>5, GotoEffect DEF SetExists, ControlInv, KeepsBoot, BootInv
  <2>3. KeepsDisk(p)
    BY <1>5, GotoEffect DEF SetExists, ControlInv, KeepsDisk, DiskInv, DiskUser
  <2>4. KeepsKey(p)
    BY <1>5, GotoEffect
    DEF SetExists, ControlInv, KeepsKey, BootInv, DiskInv, DiskUser, KeyInv, KeyUser
  <2> QED BY <2>1, <2>2, <2>3, <2>4 DEF Keeps
<1>6. CASE IgnOpen(p)
  <2>1. ControlInv(p)'
    BY <1>6, GotoEffect, ExitEffect, IdleInv DEF IgnOpen, ControlInv
  <2>2. KeepsBoot(p)
    BY <1>6, GotoEffect, ExitEffect, IdleInv DEF IgnOpen, ControlInv, KeepsBoot, BootInv
  <2>3. KeepsDisk(p)
    BY <1>6, GotoEffect, ExitEffect, IdleInv
    DEF IgnOpen, ControlInv, KeepsDisk, DiskInv, DiskUser
  <2>4. KeepsKey(p)
    BY <1>6, GotoEffect, ExitEffect, IdleInv
    DEF IgnOpen, ControlInv, KeepsKey, BootInv, DiskInv, DiskUser, KeyInv, KeyUser
  <2> QED BY <2>1, <2>2, <2>3, <2>4 DEF Keeps
<1>7. CASE IgnWrite(p)
  <2>1. ControlInv(p)'
    BY <1>7, GotoEffect DEF IgnWrite, ControlInv
  <2>2. KeepsBoot(p)
    BY <1>7, GotoEffect DEF IgnWrite, ControlInv, KeepsBoot, BootInv
  <2>3. KeepsDisk(p)
    BY <1>7, GotoEffect DEF IgnWrite, ControlInv, KeepsDisk, DiskInv, DiskUser
  <2>4. KeepsKey(p)
    BY <1>7, GotoEffect
    DEF IgnWrite, ControlInv, KeepsKey, BootInv, DiskInv, DiskUser, KeyInv, KeyUser
  <2> QED BY <2>1, <2>2, <2>3, <2>4 DEF Keeps
<1>8. CASE Load(p)
  <2>e. \/ /\ Readable /\ pc'[p] = "saveStat" /\ mode'[p] = mode[p]
           /\ host'[p].key = saved.key
           /\ "update" \notin Swallowed => ~host'[p].firstboot
        \/ pc'[p] = "idle"
    <3>1. CASE \E h \in Updated(saved, FALSE) : Readable /\ GotoWith(p, "saveStat", h)
      BY <3>1, GotoWithEffect DEF Updated
    <3> QED BY <1>8, <3>1, ExitEffect DEF Load
  <2>1. ControlInv(p)'
    BY <1>8, <2>e, IdleInv DEF Load, ControlInv
  <2>2. KeepsBoot(p)
    BY <1>8, <2>e, IdleInv DEF Load, ControlInv, KeepsBoot, BootInv
  <2>3. KeepsDisk(p)
    BY <1>8, <2>e, IdleInv DEF Load, ControlInv, KeepsDisk, DiskInv, DiskUser
  <2>4. KeepsKey(p)
    BY <1>8, <2>e, IdleInv
    DEF Load, ControlInv, KeepsKey, BootInv, DiskInv, DiskUser, KeyInv, KeyUser
  <2> QED BY <2>1, <2>2, <2>3, <2>4 DEF Keeps
<1>9. CASE Reload(p)
  <2>1. ControlInv(p)'
    BY <1>9, GotoWithEffect, ExitEffect, IdleInv DEF Reload, ControlInv
  <2>2. KeepsBoot(p)
    BY <1>9, GotoWithEffect, ExitEffect, IdleInv DEF Reload, ControlInv, KeepsBoot, BootInv
  <2>3. KeepsDisk(p)
    BY <1>9, GotoWithEffect, ExitEffect, IdleInv
    DEF Reload, ControlInv, KeepsDisk, DiskInv, DiskUser
  <2>4. KeepsKey(p)
    BY <1>9, GotoWithEffect, ExitEffect, IdleInv
    DEF Reload, ControlInv, KeepsKey, BootInv, DiskInv, DiskUser, KeyInv, KeyUser
  <2> QED BY <2>1, <2>2, <2>3, <2>4 DEF Keeps
<1>10. CASE RunState(p)
  <2>1. ControlInv(p)'
    BY <1>10, GotoEffect, ExitEffect, IdleInv DEF RunState, ControlInv
  <2>2. KeepsBoot(p)
    BY <1>10, GotoEffect, ExitEffect, IdleInv DEF RunState, ControlInv, KeepsBoot, BootInv
  <2>3. KeepsDisk(p)
    BY <1>10, GotoEffect, ExitEffect, IdleInv
    DEF RunState, ControlInv, KeepsDisk, DiskInv, DiskUser
  <2>4. KeepsKey(p)
    BY <1>10, GotoEffect, ExitEffect, IdleInv
    DEF RunState, ControlInv, KeepsKey, BootInv, DiskInv, DiskUser, KeyInv, KeyUser
  <2> QED BY <2>1, <2>2, <2>3, <2>4 DEF Keeps
<1>11. CASE Start(p)
  <2>1. ControlInv(p)'
    BY <1>11, ExitEffect, IdleInv DEF Start, ControlInv
  <2>2. KeepsBoot(p)
    BY <1>11, ExitEffect, IdleInv DEF Start, ControlInv, KeepsBoot, BootInv
  <2>3. KeepsDisk(p)
    BY <1>11, ExitEffect, IdleInv DEF Start, ControlInv, KeepsDisk, DiskInv, DiskUser
  <2>4. KeepsKey(p)
    BY <1>11, ExitEffect, IdleInv
    DEF Start, ControlInv, KeepsKey, BootInv, DiskInv, DiskUser, KeyInv, KeyUser
  <2> QED BY <2>1, <2>2, <2>3, <2>4 DEF Keeps
<1> QED BY <1>1, <1>2, <1>3, <1>4, <1>5, <1>6, <1>7, <1>8, <1>9, <1>10, <1>11 DEF Run

LEMMA KeepsSave ==
  ASSUME TypeOK, NEW p \in Procs, ControlInv(p), Save(p)
  PROVE  Keeps(p)
<1> USE DEF At, TypeOK, StoreOK, GuestOK, SshKeyMatches, RunningOnWholeDisk,
            RunningMachineExists, Readable, SavePcs, IgnPcs, MarkedPcs, UnmarkedPcs
<1>1. CASE SaveStat(p)
  <2>1. ControlInv(p)'
    BY <1>1, GotoEffect DEF SaveStat, ControlInv
  <2>2. KeepsBoot(p)
    BY <1>1, GotoEffect DEF SaveStat, ControlInv, KeepsBoot, BootInv
  <2>3. KeepsDisk(p)
    BY <1>1, GotoEffect DEF SaveStat, ControlInv, KeepsDisk, DiskInv, DiskUser
  <2>4. KeepsKey(p)
    BY <1>1, GotoEffect
    DEF SaveStat, ControlInv, KeepsKey, BootInv, DiskInv, DiskUser, KeyInv, KeyUser
  <2> QED BY <2>1, <2>2, <2>3, <2>4 DEF Keeps
<1>2. CASE SaveOpen(p)
  <2>1. ControlInv(p)'
    BY <1>2, GotoEffect, ExitEffect, IdleInv DEF SaveOpen, ControlInv
  <2>2. KeepsBoot(p)
    BY <1>2, GotoEffect, ExitEffect, IdleInv DEF SaveOpen, ControlInv, KeepsBoot, BootInv
  <2>3. KeepsDisk(p)
    BY <1>2, GotoEffect, ExitEffect, IdleInv
    DEF SaveOpen, ControlInv, KeepsDisk, DiskInv, DiskUser
  <2>4. KeepsKey(p)
    BY <1>2, GotoEffect, ExitEffect, IdleInv
    DEF SaveOpen, ControlInv, KeepsKey, BootInv, DiskInv, DiskUser, KeyInv, KeyUser
  <2> QED BY <2>1, <2>2, <2>3, <2>4 DEF Keeps
<1>3. CASE SaveWrite(p)
  <2>1. ControlInv(p)'
    BY <1>3, GotoEffect DEF SaveWrite, AfterSave, ControlInv
  <2>2. KeepsBoot(p)
    BY <1>3, GotoEffect DEF SaveWrite, AfterSave, ControlInv, KeepsBoot, BootInv
  <2>3. KeepsDisk(p)
    BY <1>3, GotoEffect DEF SaveWrite, AfterSave, ControlInv, KeepsDisk, DiskInv, DiskUser
  <2>4. KeepsKey(p)
    BY <1>3, GotoEffect
    DEF SaveWrite, AfterSave, ControlInv, KeepsKey, BootInv, DiskInv, DiskUser, KeyInv, KeyUser
  <2> QED BY <2>1, <2>2, <2>3, <2>4 DEF Keeps
<1>4. CASE SaveRemove(p)
  <2>1. ControlInv(p)'
    BY <1>4, GotoEffect, ExitEffect, IdleInv DEF SaveRemove, ControlInv
  <2>2. KeepsBoot(p)
    BY <1>4, GotoEffect, ExitEffect, IdleInv DEF SaveRemove, ControlInv, KeepsBoot, BootInv
  <2>3. KeepsDisk(p)
    BY <1>4, GotoEffect, ExitEffect, IdleInv
    DEF SaveRemove, ControlInv, KeepsDisk, DiskInv, DiskUser
  <2>4. KeepsKey(p)
    BY <1>4, GotoEffect, ExitEffect, IdleInv
    DEF SaveRemove, ControlInv, KeepsKey, BootInv, DiskInv, DiskUser, KeyInv, KeyUser
  <2> QED BY <2>1, <2>2, <2>3, <2>4 DEF Keeps
<1>5. CASE SaveRename(p)
  <2>1. ControlInv(p)'
    BY <1>5, GotoEffect, ExitEffect, IdleInv DEF SaveRename, AfterSave, ControlInv
  <2>2. KeepsBoot(p)
    BY <1>5, GotoEffect, ExitEffect, IdleInv
    DEF SaveRename, AfterSave, ControlInv, KeepsBoot, BootInv
  <2>3. KeepsDisk(p)
    BY <1>5, GotoEffect, ExitEffect, IdleInv
    DEF SaveRename, AfterSave, ControlInv, KeepsDisk, DiskInv, DiskUser
  <2>4. KeepsKey(p)
    BY <1>5, GotoEffect, ExitEffect, IdleInv
    DEF SaveRename, AfterSave, ControlInv, KeepsKey, BootInv, DiskInv, DiskUser, KeyInv, KeyUser
  <2> QED BY <2>1, <2>2, <2>3, <2>4 DEF Keeps
<1> QED BY <1>1, <1>2, <1>3, <1>4, <1>5 DEF Save

LEMMA KeepsStop ==
  ASSUME TypeOK, NEW p \in Procs, ControlInv(p), Stop(p) \/ Ssh(p)
  PROVE  Keeps(p)
<1> USE DEF At, TypeOK, StoreOK, GuestOK, SshKeyMatches, RunningOnWholeDisk,
            RunningMachineExists, Readable, SavePcs, IgnPcs, MarkedPcs, UnmarkedPcs
<1>1. CASE StopExists(p) \/ StopLoad(p)
  <2>1. ControlInv(p)'
    BY <1>1, GotoEffect, ExitEffect, IdleInv DEF StopExists, StopLoad, ControlInv
  <2>2. KeepsBoot(p)
    BY <1>1, GotoEffect, ExitEffect, IdleInv
    DEF StopExists, StopLoad, ControlInv, KeepsBoot, BootInv
  <2>3. KeepsDisk(p)
    BY <1>1, GotoEffect, ExitEffect, IdleInv
    DEF StopExists, StopLoad, ControlInv, KeepsDisk, DiskInv, DiskUser
  <2>4. KeepsKey(p)
    BY <1>1, GotoEffect, ExitEffect, IdleInv
    DEF StopExists, StopLoad, ControlInv, KeepsKey, BootInv, DiskInv, DiskUser, KeyInv, KeyUser
  <2> QED BY <2>1, <2>2, <2>3, <2>4 DEF Keeps
<1>2. CASE StopState(p) \/ StopCall(p)
  <2>1. ControlInv(p)'
    BY <1>2, GotoEffect, ExitEffect, IdleInv DEF StopState, StopCall, ControlInv
  <2>2. KeepsBoot(p)
    BY <1>2, GotoEffect, ExitEffect, IdleInv
    DEF StopState, StopCall, ControlInv, KeepsBoot, BootInv
  <2>3. KeepsDisk(p)
    BY <1>2, GotoEffect, ExitEffect, IdleInv
    DEF StopState, StopCall, ControlInv, KeepsDisk, DiskInv, DiskUser
  <2>4. KeepsKey(p)
    BY <1>2, GotoEffect, ExitEffect, IdleInv
    DEF StopState, StopCall, ControlInv, KeepsKey, BootInv, DiskInv, DiskUser, KeyInv, KeyUser
  <2> QED BY <2>1, <2>2, <2>3, <2>4 DEF Keeps
<1>3. CASE StopWait(p)
  <2>1. ControlInv(p)'
    BY <1>3, GotoEffect, ExitEffect, IdleInv DEF StopWait, Stopped, ControlInv
  <2>2. KeepsBoot(p)
    BY <1>3, GotoEffect, ExitEffect, IdleInv
    DEF StopWait, Stopped, ControlInv, KeepsBoot, BootInv
  <2>3. KeepsDisk(p)
    BY <1>3, GotoEffect, ExitEffect, IdleInv
    DEF StopWait, Stopped, ControlInv, KeepsDisk, DiskInv, DiskUser
  <2>4. KeepsKey(p)
    BY <1>3, GotoEffect, ExitEffect, IdleInv
    DEF StopWait, Stopped, ControlInv, KeepsKey, BootInv, DiskInv, DiskUser, KeyInv, KeyUser
  <2> QED BY <2>1, <2>2, <2>3, <2>4 DEF Keeps
<1>4. CASE KillCall(p)
  <2>1. ControlInv(p)'
    BY <1>4, GotoEffect, ExitEffect, IdleInv DEF KillCall, PowerOff, ControlInv
  <2>2. KeepsBoot(p)
    BY <1>4, GotoEffect, ExitEffect, IdleInv
    DEF KillCall, PowerOff, ControlInv, KeepsBoot, BootInv
  <2>3. KeepsDisk(p)
    BY <1>4, GotoEffect, ExitEffect, IdleInv
    DEF KillCall, PowerOff, ControlInv, KeepsDisk, DiskInv, DiskUser
  <2>4. KeepsKey(p)
    BY <1>4, GotoEffect, ExitEffect, IdleInv
    DEF KillCall, PowerOff, ControlInv, KeepsKey, BootInv, DiskInv, DiskUser, KeyInv, KeyUser
  <2> QED BY <2>1, <2>2, <2>3, <2>4 DEF Keeps
<1>5. CASE KillWait(p)
  <2>1. ControlInv(p)'
    BY <1>5, GotoEffect, ExitEffect, IdleInv DEF KillWait, Stopped, ControlInv
  <2>2. KeepsBoot(p)
    BY <1>5, GotoEffect, ExitEffect, IdleInv
    DEF KillWait, Stopped, ControlInv, KeepsBoot, BootInv
  <2>3. KeepsDisk(p)
    BY <1>5, GotoEffect, ExitEffect, IdleInv
    DEF KillWait, Stopped, ControlInv, KeepsDisk, DiskInv, DiskUser
  <2>4. KeepsKey(p)
    BY <1>5, GotoEffect, ExitEffect, IdleInv
    DEF KillWait, Stopped, ControlInv, KeepsKey, BootInv, DiskInv, DiskUser, KeyInv, KeyUser
  <2> QED BY <2>1, <2>2, <2>3, <2>4 DEF Keeps
<1>6. CASE RemoveWait(p)
  <2>1. ControlInv(p)'
    BY <1>6, GotoEffect, ExitEffect, IdleInv DEF RemoveWait, ControlInv
  <2>2. KeepsBoot(p)
    BY <1>6, GotoEffect, ExitEffect, IdleInv DEF RemoveWait, ControlInv, KeepsBoot, BootInv
  <2>3. KeepsDisk(p)
    BY <1>6, GotoEffect, ExitEffect, IdleInv
    DEF RemoveWait, ControlInv, KeepsDisk, DiskInv, DiskUser
  <2>4. KeepsKey(p)
    BY <1>6, GotoEffect, ExitEffect, IdleInv
    DEF RemoveWait, ControlInv, KeepsKey, BootInv, DiskInv, DiskUser, KeyInv, KeyUser
  <2> QED BY <2>1, <2>2, <2>3, <2>4 DEF Keeps
<1>7. CASE List(p)
  <2>1. ControlInv(p)'
    BY <1>7 DEF List, ProcsOK, ControlInv
  <2>2. KeepsBoot(p)
    BY <1>7 DEF List, ProcsOK, ControlInv, KeepsBoot, BootInv
  <2>3. KeepsDisk(p)
    BY <1>7 DEF List, ProcsOK, ControlInv, KeepsDisk, DiskInv, DiskUser
  <2>4. KeepsKey(p)
    BY <1>7
    DEF List, ProcsOK, ControlInv, KeepsKey, BootInv, DiskInv, DiskUser, KeyInv, KeyUser
  <2> QED BY <2>1, <2>2, <2>3, <2>4 DEF Keeps
<1>8. ASSUME NEW f \in Entry, Unlink(p, f) PROVE Keeps(p)
  <2>1. ControlInv(p)'
    BY <1>8 DEF Unlink, ControlInv
  <2>2. KeepsBoot(p)
    BY <1>8 DEF Unlink, ControlInv, KeepsBoot, BootInv
  <2>3. KeepsDisk(p)
    BY <1>8 DEF Unlink, ControlInv, KeepsDisk, DiskInv, DiskUser
  <2>4. KeepsKey(p)
    BY <1>8
    DEF Unlink, ControlInv, KeepsKey, BootInv, DiskInv, DiskUser, KeyInv, KeyUser
  <2> QED BY <2>1, <2>2, <2>3, <2>4 DEF Keeps
<1>9. CASE RemoveDir(p)
  <2>1. ControlInv(p)'
    BY <1>9, ExitEffect, IdleInv DEF RemoveDir, ControlInv
  <2>2. KeepsBoot(p)
    BY <1>9, ExitEffect, IdleInv DEF RemoveDir, ControlInv, KeepsBoot, BootInv
  <2>3. KeepsDisk(p)
    BY <1>9, ExitEffect, IdleInv DEF RemoveDir, ControlInv, KeepsDisk, DiskInv, DiskUser
  <2>4. KeepsKey(p)
    BY <1>9, ExitEffect, IdleInv
    DEF RemoveDir, ControlInv, KeepsKey, BootInv, DiskInv, DiskUser, KeyInv, KeyUser
  <2> QED BY <2>1, <2>2, <2>3, <2>4 DEF Keeps
<1>10. CASE Ssh(p)
  <2>1. ControlInv(p)'
    BY <1>10, GotoWithEffect, ExitEffect, IdleInv DEF Ssh, SshLoad, SshState, ControlInv
  <2>2. KeepsBoot(p)
    BY <1>10, GotoWithEffect, ExitEffect, IdleInv
    DEF Ssh, SshLoad, SshState, ControlInv, KeepsBoot, BootInv
  <2>3. KeepsDisk(p)
    BY <1>10, GotoWithEffect, ExitEffect, IdleInv
    DEF Ssh, SshLoad, SshState, ControlInv, KeepsDisk, DiskInv, DiskUser
  <2>4. KeepsKey(p)
    BY <1>10, GotoWithEffect, ExitEffect, IdleInv
    DEF Ssh, SshLoad, SshState, ControlInv, KeepsKey, BootInv, DiskInv, DiskUser, KeyInv, KeyUser
  <2> QED BY <2>1, <2>2, <2>3, <2>4 DEF Keeps
<1> QED BY <1>1, <1>2, <1>3, <1>4, <1>5, <1>6, <1>7, <1>8, <1>9, <1>10 DEF Stop, Remove

LEMMA KeepsNext ==
  ASSUME OneUser, TypeOK, NEW p \in Procs, ControlInv(p), [Next]_vars
  PROVE  Keeps(p)
<1> USE DEF At, SshKeyMatches, RunningOnWholeDisk, RunningMachineExists, Readable,
            SavePcs, IgnPcs, MarkedPcs, UnmarkedPcs
<1>1. ASSUME NEW c \in Commands, Begin(p, c) PROVE Keeps(p)
  <2>0. /\ pc'[p] \in {"runExists", "sshLoad", "stopExists"}
        /\ pc'[p] = "runExists" => "dir" \in files'
        /\ UNCHANGED <<torn, saved, served, writers, removing, sshKey, booted, vm, igniting>>
        /\ files' \in {files, files \cup {"dir"}}
    BY <1>1, LifecycleAssumption DEF Begin, TypeOK, ProcsOK
  <2>1. ControlInv(p)' /\ KeepsBoot(p)
    BY <2>0 DEF ControlInv, KeepsBoot, BootInv
  <2>2. KeepsDisk(p)
    BY <2>0 DEF KeepsDisk, DiskInv, DiskUser
  <2>3. KeepsKey(p)
    BY <2>0 DEF KeepsKey, KeyInv, KeyUser
  <2> QED BY <2>1, <2>2, <2>3 DEF Keeps
<1>2. CASE Fail(p)
  BY <1>2, ExitEffect, IdleInv
  DEF Fail, Keeps, KeepsBoot, KeepsDisk, KeepsKey, DiskInv, KeyInv
<1>3. CASE GuestIgnites \/ GuestStops
  <2>1. ControlInv(p)' /\ KeepsBoot(p)
    BY <1>3 DEF GuestIgnites, GuestStops, PowerOff, ControlInv, KeepsBoot, BootInv
  <2>2. KeepsDisk(p)
    BY <1>3
    DEF GuestIgnites, GuestStops, PowerOff, TypeOK, GuestOK, KeepsDisk, DiskInv, DiskUser
  <2>3. KeepsKey(p)
    BY <1>3 DEF GuestIgnites, GuestStops, PowerOff, KeepsKey, DiskInv, KeyInv, KeyUser
  <2> QED BY <2>1, <2>2, <2>3 DEF Keeps
<1>4. CASE UNCHANGED vars
  BY <1>4 DEF vars, Keeps, KeepsBoot, KeepsDisk, KeepsKey, ControlInv, BootInv,
              DiskInv, DiskUser, KeyInv, KeyUser
<1>5. ASSUME NEW q \in Procs PROVE q = p
  BY DEF OneUser
<1> QED BY <1>1, <1>2, <1>3, <1>4, <1>5, KeepsRun, KeepsSave, KeepsStop DEF Next, Command

LEMMA SerialInit == Init => SerialInv
<1> SUFFICES ASSUME Init PROVE SerialInv
  OBVIOUS
<1>1. DiskInv /\ KeyInv
  BY
  DEF Init, DiskInv, KeyInv, SshKeyMatches, RunningOnWholeDisk, RunningMachineExists,
      Readable
<1>2. ASSUME NEW p \in Procs
      PROVE  ControlInv(p) /\ BootInv(p) /\ DiskUser(p) /\ KeyUser(p)
  BY IdleInv DEF Init
<1> QED BY <1>1, <1>2, TypeInit DEF SerialInv, BootLayer, DiskLayer

LEMMA BootInvariance ==
  ASSUME OneUser, "update" \notin Swallowed
  PROVE  Spec => []BootLayer
<1>1. BootLayer /\ [Next]_vars => BootLayer'
  BY TypeNext, KeepsNext DEF BootLayer, Keeps, KeepsBoot
<1>2. Init => BootLayer
  BY SerialInit DEF SerialInv
<1> QED BY <1>1, <1>2, PTL DEF Spec

LEMMA DiskInvariance ==
  ASSUME OneUser, "marker" \notin Swallowed
  PROVE  Spec => []DiskLayer
<1>1. DiskLayer /\ [Next]_vars => DiskLayer'
  <2> SUFFICES ASSUME DiskLayer, [Next]_vars PROVE DiskLayer'
    OBVIOUS
  <2>1. PICK p \in Procs : Procs = {p}
    BY DEF OneUser
  <2>2. TypeOK' /\ Keeps(p)
    BY <2>1, TypeNext, KeepsNext DEF DiskLayer
  <2> QED BY <2>1, <2>2 DEF DiskLayer, Keeps, KeepsDisk
<1>2. Init => DiskLayer
  BY SerialInit DEF SerialInv
<1> QED BY <1>1, <1>2, PTL DEF Spec

LEMMA SerialInvariance ==
  ASSUME OneUser, Swallowed = {}
  PROVE  Spec => []SerialInv
<1>1. SerialInv /\ [Next]_vars => SerialInv'
  <2> SUFFICES ASSUME SerialInv, [Next]_vars PROVE SerialInv'
    OBVIOUS
  <2>1. PICK p \in Procs : Procs = {p}
    BY DEF OneUser
  <2>2. TypeOK' /\ Keeps(p)
    BY <2>1, TypeNext, KeepsNext DEF SerialInv, DiskLayer
  <2> QED BY <2>1, <2>2
    DEF SerialInv, BootLayer, DiskLayer, Keeps, KeepsBoot, KeepsDisk, KeepsKey
<1> QED BY <1>1, SerialInit, PTL DEF Spec

\* For one user, whatever is interrupted: the host record read back always
\* has the key the guest was given, if neither UpdateConfig nor SetExists
\* fails with the error that run ignores.
THEOREM SerialKey ==
  ASSUME OneUser, Swallowed = {}
  PROVE  Spec => []SshKeyMatches
<1>1. SerialInv => SshKeyMatches
  BY DEF SerialInv, KeyInv
<1> QED BY <1>1, SerialInvariance, PTL

\* For one user, no guest runs on a disk that is missing or half created,
\* unless SetExists failed and run went on; a failed UpdateConfig does no harm.
THEOREM SerialWholeDisk ==
  ASSUME OneUser, "marker" \notin Swallowed
  PROVE  Spec => []RunningOnWholeDisk
<1>1. DiskLayer => RunningOnWholeDisk
  BY DEF DiskLayer, DiskInv
<1> QED BY <1>1, DiskInvariance, PTL

\* For one user, a running machine is known to exist, unless SetExists failed
\* and run went on.
THEOREM SerialExists ==
  ASSUME OneUser, "marker" \notin Swallowed
  PROVE  Spec => []RunningMachineExists
<1>1. DiskLayer => RunningMachineExists
  BY DEF DiskLayer, DiskInv
<1> QED BY <1>1, DiskInvariance, PTL

\* For one user, no guest that has booted is made to ignite again, unless
\* UpdateConfig failed and run went on; a failed SetExists does no harm.
THEOREM SerialNoReIgnition ==
  ASSUME OneUser, "update" \notin Swallowed
  PROVE  Spec => NoReIgnition
<1>1. BootLayer /\ [Next]_vars =>
        [vm = "Stopped" /\ vm' = "Running" /\ booted => ~igniting']_vars
  <2> SUFFICES ASSUME BootLayer, Next, vm = "Stopped", vm' = "Running", booted
               PROVE  ~igniting'
    BY DEF vars
  <2>1. PICK p \in Procs : Start(p)
    BY
    DEF Next, Begin, Fail, GuestIgnites, GuestStops, PowerOff, Command, Run, Save, Stop,
        Remove, Ssh,
       RunExists, NewHost, CreateBegin, CreateEnd, SetExists, IgnOpen, IgnWrite, Load, Reload, RunState,
       SaveStat, SaveOpen, SaveWrite, SaveRemove, SaveRename, StopExists, StopLoad, StopState, StopCall,
       StopWait, KillCall, KillWait, RemoveWait, List, Unlink, RemoveDir, SshLoad, SshState
  <2>2. ~host[p].firstboot
    BY <2>1 DEF BootLayer, BootInv, Start, At
  <2> QED BY <2>1, <2>2 DEF Start
<1> QED BY <1>1, BootInvariance, PTL DEF Spec, NoReIgnition

\* For one user, a provisioned disk is lost only to stop -r, unless SetExists
\* failed and run went on.
THEOREM SerialDataKept ==
  ASSUME OneUser, "marker" \notin Swallowed
  PROVE  Spec => DataKept
<1>1. DiskLayer /\ [Next]_vars =>
        [sshKey # NoKey /\ sshKey' # sshKey => removing \/ removing']_vars
  <2> SUFFICES ASSUME DiskLayer, Next, sshKey # NoKey, sshKey' # sshKey
               PROVE  removing \/ removing'
    BY DEF vars
  <2>1. CASE \E p \in Procs : CreateBegin(p)
    BY <2>1 DEF DiskLayer, DiskInv, DiskUser, UnmarkedPcs, CreateBegin, At
  <2>2. CASE \E p \in Procs, f \in Entry : Unlink(p, f)
    BY <2>2 DEF Unlink
  <2>3. ~GuestIgnites
    BY DEF GuestIgnites, DiskLayer, DiskInv
  <2> QED
    BY <2>1, <2>2, <2>3
    DEF Next, Begin, Fail, GuestStops, PowerOff, Command, Run, Save, Stop, Remove, Ssh,
       RunExists, NewHost, CreateEnd, SetExists, IgnOpen, IgnWrite, Load, Reload, RunState, Start,
       SaveStat, SaveOpen, SaveWrite, SaveRemove, SaveRename, StopExists, StopLoad, StopState, StopCall,
       StopWait, KillCall, KillWait, RemoveWait, List, RemoveDir, SshLoad, SshState
<1> QED BY <1>1, DiskInvariance, PTL DEF Spec, DataKept

(***************************************************************************)
(* For one user, the life of the machine is the one Machine promises.      *)
(***************************************************************************)
\* A removal under way.
LEMMA RefineUnlink ==
  ASSUME SerialInv, NEW p \in Procs, NEW f \in Entry, Unlink(p, f)
  PROVE  Promised!Remove
<1>1. vm = "Stopped"
  BY DEF Unlink, At, SerialInv, BootLayer, ControlInv
<1>2. Disk' \in {Disk, "none"}
  BY DEF Unlink, Disk
<1> QED BY <1>1, <1>2 DEF Unlink, Promised!Remove

\* A disk is created over none, or over one that no guest has used.
LEMMA RefineCreate ==
  ASSUME SerialInv, NEW p \in Procs, CreateBegin(p)
  PROVE  Promised!Create \/ UNCHANGED <<Disk, vm, igniting, removing>>
<1>1. "marker" \notin files /\ vm = "Stopped" /\ (booted => removing) /\ (sshKey # NoKey => booted)
  BY
  DEF CreateBegin, At, SerialInv, BootLayer, DiskLayer, ControlInv, BootInv, DiskInv,
      DiskUser, RunningMachineExists,
     UnmarkedPcs, TypeOK, GuestOK
<1>2. Promised!Expendable
  BY <1>1 DEF Promised!Expendable, Disk
<1>3. CASE "dir" \in files
  <2>1. Disk' = "making" /\ removing' = FALSE
    BY <1>3 DEF CreateBegin, Disk
  <2> QED BY <1>1, <1>2, <2>1 DEF CreateBegin, Promised!Create
<1>4. CASE "dir" \notin files
  BY <1>4 DEF CreateBegin, Disk
<1> QED BY <1>3, <1>4

LEMMA RefineCreated ==
  ASSUME SerialInv, NEW p \in Procs, CreateEnd(p)
  PROVE  Promised!Finish \/ UNCHANGED <<Disk, vm, igniting, removing>>
<1>1. ~booted /\ sshKey = NoKey
  BY
  DEF CreateEnd, At, SerialInv, BootLayer, DiskLayer, ControlInv, BootInv, DiskInv, DiskUser
<1> QED BY <1>1 DEF CreateEnd, Disk, Promised!Finish

\* The guest is told to ignite only when the disk has not been booted.
LEMMA RefineStart ==
  ASSUME SerialInv, NEW p \in Procs, Start(p)
  PROVE  Promised!Boot \/ UNCHANGED <<Disk, vm, igniting, removing>>
<1>1. /\ "disk" \in files => "disk" \notin torn
      /\ host[p].firstboot \in BOOLEAN /\ booted \in BOOLEAN
      /\ host[p].firstboot => ~booted
      /\ sshKey # NoKey => booted
  BY
  DEF Start, At, SerialInv, BootLayer, DiskLayer, ControlInv, BootInv, DiskInv, DiskUser,
      MarkedPcs, TypeOK, ProcsOK, Host, GuestOK
<1>2. CASE vm = "Stopped" /\ "disk" \in files
  <2>1. Disk \in {"fresh", "booted", "provisioned"}
    BY <1>1, <1>2 DEF Disk
  <2>2. Disk' = IF Disk = "fresh" THEN "booted" ELSE Disk
    BY <1>1, <1>2 DEF Start, Disk
  <2>3. igniting' \in {FALSE, Disk = "fresh"}
    BY <1>1, <1>2 DEF Start, Disk
  <2> QED BY <1>2, <2>1, <2>2, <2>3 DEF Start, Promised!Boot
<1>3. CASE ~(vm = "Stopped" /\ "disk" \in files)
  BY <1>3 DEF Start, Disk
<1> QED BY <1>2, <1>3

LEMMA RefineIgnite ==
  ASSUME SerialInv, GuestIgnites
  PROVE  Promised!Ignite
<1>1. /\ "disk" \in files \ torn /\ booted /\ sshKey = NoKey
      /\ served # NoKey
  BY DEF GuestIgnites, SerialInv, DiskLayer, DiskInv, KeyInv
<1>2. Disk = "booted" /\ Disk' = "provisioned"
  BY <1>1 DEF GuestIgnites, Disk
<1> QED BY <1>2 DEF GuestIgnites, Promised!Ignite

\* What a guest powering off, or being killed, looks like.
LEMMA RefinePowerOff ==
  ASSUME SerialInv, vm = "Running", PowerOff, UNCHANGED store
  PROVE  Promised!PowerOff
  BY DEF PowerOff, Disk, Promised!PowerOff

\* Nothing else concerns the disk or the guest.
LEMMA RefineOther ==
  ASSUME SerialInv, [Next]_vars,
         ~\E p \in Procs : \/ CreateBegin(p) \/ CreateEnd(p) \/ Start(p) \/ KillCall(p)
                           \/ \E f \in Entry : Unlink(p, f),
         ~GuestIgnites, ~GuestStops
  PROVE  UNCHANGED <<Disk, vm, igniting, removing>>
<1> DEFINE Same == /\ "disk" \in files' <=> "disk" \in files
                   /\ "disk" \in torn' <=> "disk" \in torn
                   /\ UNCHANGED <<sshKey, booted, vm, igniting, removing>>
<1>1. ASSUME NEW p \in Procs, Run(p) PROVE Same
  <2>1. CASE RunExists(p) \/ Load(p) \/ Reload(p) \/ RunState(p)
    BY <2>1 DEF RunExists, Load, Reload, RunState
  <2>2. CASE NewHost(p) \/ SetExists(p)
    BY <2>2 DEF NewHost, SetExists
  <2>3. CASE IgnOpen(p) \/ IgnWrite(p)
    BY <2>3 DEF IgnOpen, IgnWrite
  <2> QED BY <1>1, <2>1, <2>2, <2>3 DEF Run
<1>2. ASSUME NEW p \in Procs, Save(p) PROVE Same
  <2>1. CASE SaveStat(p) \/ SaveOpen(p)
    BY <2>1 DEF SaveStat, SaveOpen
  <2>2. CASE SaveWrite(p)
    BY <2>2 DEF SaveWrite
  <2>3. CASE SaveRemove(p) \/ SaveRename(p)
    BY <2>3 DEF SaveRemove, SaveRename
  <2> QED BY <1>2, <2>1, <2>2, <2>3 DEF Save
<1>3. ASSUME NEW p \in Procs, Stop(p) PROVE Same
  BY <1>3
  DEF Stop, StopExists, StopLoad, StopState, StopCall, StopWait, KillWait, RemoveWait,
     Remove, List, RemoveDir
<1>4. ASSUME NEW p \in Procs, Ssh(p) \/ Fail(p) \/ \E c \in Commands : Begin(p, c)
      PROVE Same
  BY <1>4 DEF Ssh, SshLoad, SshState, Fail, Begin
<1>5. ASSUME UNCHANGED vars PROVE Same
  BY <1>5 DEF vars
<1>6. Same
  <2> HIDE DEF Same
  <2>1. ASSUME NEW p \in Procs, Command(p) PROVE Same
    BY <1>1, <1>2, <1>3, <1>4, <2>1 DEF Command
  <2> QED BY <1>4, <1>5, <2>1 DEF Next
<1> QED BY <1>6 DEF Disk

LEMMA RefineStep ==
  ASSUME SerialInv, [Next]_vars
  PROVE  [Promised!Next]_(Promised!vars)
<1> USE DEF Promised!Next, Promised!vars
<1>1. CASE \E p \in Procs : \E f \in Entry : Unlink(p, f)
  BY <1>1, RefineUnlink
<1>2. CASE \E p \in Procs : CreateBegin(p)
  BY <1>2, RefineCreate
<1>3. CASE \E p \in Procs : CreateEnd(p)
  BY <1>3, RefineCreated
<1>4. CASE \E p \in Procs : Start(p)
  BY <1>4, RefineStart
<1>5. CASE \E p \in Procs : KillCall(p)
  BY <1>5, RefinePowerOff DEF KillCall, Disk
<1>6. CASE GuestIgnites
  BY <1>6, RefineIgnite
<1>7. CASE GuestStops
  BY <1>7, RefinePowerOff DEF GuestStops
<1> QED BY <1>1, <1>2, <1>3, <1>4, <1>5, <1>6, <1>7, RefineOther

\* One user's commands, any of them interrupted, keep what Machine promises:
\* whole disks, one ignition at the first boot, no data lost but to stop -r.
THEOREM SerialRefinement ==
  ASSUME OneUser, Swallowed = {}
  PROVE  Spec => ImplementsMachine
<1>1. Init => Promised!Init
  BY DEF Init, Promised!Init, Disk
<1>2. SerialInv /\ [Next]_vars => [Promised!Next]_(Promised!vars)
  BY RefineStep
<1> QED BY <1>1, <1>2, SerialInvariance, PTL DEF Spec, ImplementsMachine, Promised!Spec

(***************************************************************************)
(* Any number of users of an installed machine, who run it, stop it and    *)
(* log into it at once, until one of them removes it.                      *)
(***************************************************************************)
RemovePcs == {"removeWait", "list", "unlink"}

\* What every run saves: all of them read the same key.
Record(k) == [key |-> k, firstboot |-> FALSE]

\* The record is still the one that the first run saved.
FirstBootRecord == Readable /\ saved.firstboot

Held(k) ==
  /\ {"disk", "marker"} \subseteq files /\ "disk" \notin torn
  /\ sshKey = k
  /\ Readable => saved.key = k
  /\ ~igniting

\* Nobody creates or removes; whoever has come to write or reload the record
\* no longer finds the one of the first boot.
HeldUser(k, p) ==
  /\ pc[p] \notin UnmarkedPcs \cup IgnPcs \cup RemovePcs
  /\ mode[p] \notin {"create", "remove"}
  /\ pc[p] \in SavePcs => host[p] = Record(k)
  /\ pc[p] \in {"saveOpen", "saveWrite", "saveRename", "reload"} => ~FirstBootRecord
  /\ pc[p] \in {"runState", "start"} => ~host[p].firstboot

HeldInv(k) == TypeOK /\ Held(k) /\ \A p \in Procs : HeldUser(k, p)

SameControl(q) ==
  pc'[q] = pc[q] /\ mode'[q] = mode[q] /\ host'[q] = host[q] /\ listed'[q] = listed[q]

\* What a step of p says of the control of p.
LEMMA ControlEffect ==
  ASSUME TypeOK, NEW p \in Procs, NEW label, NEW h,
         Goto(p, label) \/ GotoWith(p, label, h) \/ (Exit(p) /\ label = "idle")
  PROVE  /\ pc'[p] = label
         /\ mode'[p] \in {mode[p], "none"}
         /\ Goto(p, label) => host'[p] = host[p]
         /\ GotoWith(p, label, h) => host'[p] = h
         /\ \A q \in Procs \ {p} : SameControl(q)
  BY DEF Goto, GotoWith, Exit, TypeOK, ProcsOK, SameControl

\* A step of p leaves the control of the others alone.
LEMMA OthersStay ==
  ASSUME TypeOK, NEW p \in Procs, Command(p) \/ Fail(p) \/ \E c \in Commands : Begin(p, c)
  PROVE  \A q \in Procs \ {p} : SameControl(q)
<1>1. CASE Run(p)
  BY <1>1, ControlEffect
  DEF Run, RunExists, NewHost, CreateBegin, CreateEnd, SetExists, IgnOpen, IgnWrite, Load,
      Reload, RunState, Start, TypeOK, ProcsOK, SameControl
<1>2. CASE Save(p)
  BY <1>2, ControlEffect
  DEF Save, SaveStat, SaveOpen, SaveWrite, SaveRemove, SaveRename, AfterSave
<1>3. CASE Stop(p) \/ Ssh(p)
  BY <1>3, ControlEffect
  DEF Stop, StopExists, StopLoad, StopState, StopCall, StopWait, Stopped, KillCall, KillWait,
      RemoveWait, Remove, List, Unlink, RemoveDir, Ssh, SshLoad, SshState, TypeOK, ProcsOK,
      SameControl
<1>4. CASE Fail(p) \/ \E c \in Commands : Begin(p, c)
  BY <1>4, ControlEffect DEF Fail, Begin, TypeOK, ProcsOK, SameControl
<1> QED BY <1>1, <1>2, <1>3, <1>4 DEF Command

\* The commands stop and ssh only read the store, and stop may turn the guest
\* off.
ReaderPcs == {"stopExists", "stopLoad", "stopState", "stopCall", "stopWait",
              "killCall", "killWait", "sshLoad", "sshState"}

LEMMA ReaderStep ==
  ASSUME NEW k \in Keys, HeldInv(k), NEW p \in Procs, Stop(p) \/ Ssh(p)
  PROVE  /\ UNCHANGED <<store, sshKey>> /\ igniting' \in {igniting, FALSE}
         /\ pc[p] \in ReaderPcs /\ pc'[p] \in ReaderPcs \cup {"idle"}
         /\ mode'[p] \in {mode[p], "none"}
<1>0. TypeOK /\ HeldUser(k, p)
  BY DEF HeldInv
<1>1. ~RemoveWait(p) /\ ~Remove(p)
  BY <1>0 DEF RemoveWait, Remove, List, Unlink, RemoveDir, At, HeldUser, RemovePcs
<1>2. mode[p] # "remove"
  BY <1>0 DEF HeldUser
<1>3. CASE StopExists(p) \/ StopLoad(p) \/ StopState(p)
  BY <1>0, <1>3, ControlEffect DEF StopExists, StopLoad, StopState, At, ReaderPcs
<1>4. CASE StopCall(p) \/ StopWait(p)
  BY <1>0, <1>2, <1>4, ControlEffect DEF StopCall, StopWait, Stopped, At, ReaderPcs
<1>5. CASE KillCall(p) \/ KillWait(p)
  BY <1>0, <1>2, <1>5, ControlEffect
  DEF KillCall, KillWait, PowerOff, Stopped, At, ReaderPcs
<1>6. CASE Ssh(p)
  BY <1>0, <1>6, ControlEffect DEF Ssh, SshLoad, SshState, At, ReaderPcs
<1> QED BY <1>1, <1>3, <1>4, <1>5, <1>6 DEF Stop

LEMMA HeldInit == InstalledInit => \E k \in Keys : HeldInv(k)
<1> SUFFICES ASSUME InstalledInit PROVE \E k \in Keys : HeldInv(k)
  OBVIOUS
<1>1. PICK k \in Keys, fb \in BOOLEAN :
        saved = [key |-> k, firstboot |-> fb] /\ served = k /\ sshKey = k
  BY DEF InstalledInit
<1>2. TypeOK
  <2>1. saved \in Host
    BY <1>1 DEF Host
  <2>2. StoreOK /\ GuestOK
    BY <1>1, <2>1 DEF InstalledInit, StoreOK, GuestOK
  <2>3. "idle" \in Step /\ "none" \in Mode /\ {} \in SUBSET Entry
    BY DEF Step, Mode
  <2>4. ProcsOK
    BY <2>3, NoHostType DEF InstalledInit, ProcsOK
  <2> QED BY <2>2, <2>4 DEF TypeOK
<1>3. Held(k)
  BY <1>1 DEF InstalledInit, Held, Readable, File
<1>4. ASSUME NEW p \in Procs PROVE HeldUser(k, p)
  BY DEF InstalledInit, HeldUser, UnmarkedPcs, SavePcs, IgnPcs, RemovePcs
<1> QED BY <1>2, <1>3, <1>4 DEF HeldInv

\* What a step of p owes to the machine, to p and to the other users.
HeldStep(k, p) == Held(k)' /\ HeldUser(k, p)' /\ (FirstBootRecord' => FirstBootRecord)

LEMMA HeldRun ==
  ASSUME "update" \notin Swallowed, NEW k \in Keys, HeldInv(k), NEW p \in Procs, Run(p)
  PROVE  HeldStep(k, p)
<1>0. TypeOK /\ Held(k) /\ HeldUser(k, p)
  BY DEF HeldInv
<1> USE DEF At, Held, HeldUser, HeldStep, Readable, FirstBootRecord, SavePcs, IgnPcs,
            RemovePcs, UnmarkedPcs
<1>1. CASE RunExists(p)
  BY <1>0, <1>1 DEF RunExists, TypeOK, ProcsOK
<1>2. CASE Load(p)
  <2>1. \/ /\ Readable /\ pc'[p] = "saveStat" /\ mode'[p] \in {mode[p], "none"}
           /\ host'[p] = Record(k)
        \/ pc'[p] = "idle" /\ mode'[p] \in {mode[p], "none"}
    <3>1. CASE \E h \in Updated(saved, FALSE) : Readable /\ GotoWith(p, "saveStat", h)
      <4>1. Readable /\ GotoWith(p, "saveStat", Record(k))
        BY <1>0, <3>1 DEF Updated, Record
      <4> QED BY <1>0, <4>1, ControlEffect
    <3> QED BY <1>0, <1>2, <3>1, ControlEffect DEF Load
  <2> QED BY <1>0, <1>2, <2>1 DEF Load
<1>3. CASE Reload(p)
  BY <1>0, <1>3, GotoWithEffect, ExitEffect DEF Reload
<1>4. CASE RunState(p) \/ Start(p)
  BY <1>0, <1>4, GotoEffect, ExitEffect DEF RunState, Start
<1>5. ~NewHost(p) /\ ~CreateBegin(p) /\ ~CreateEnd(p) /\ ~SetExists(p) /\ ~IgnOpen(p) /\ ~IgnWrite(p)
  BY <1>0 DEF NewHost, CreateBegin, CreateEnd, SetExists, IgnOpen, IgnWrite
<1> QED BY <1>1, <1>2, <1>3, <1>4, <1>5 DEF Run

LEMMA HeldSave ==
  ASSUME NEW k \in Keys, HeldInv(k), NEW p \in Procs, Save(p)
  PROVE  HeldStep(k, p)
<1>0. TypeOK /\ Held(k) /\ HeldUser(k, p)
  BY DEF HeldInv
<1>r. Record(k).key = k /\ ~Record(k).firstboot
  BY DEF Record
<1> USE DEF At, Held, HeldUser, HeldStep, Readable, FirstBootRecord, SavePcs, IgnPcs,
            RemovePcs, UnmarkedPcs
<1>1. CASE SaveStat(p)
  BY <1>0, <1>r, <1>1, GotoEffect, ExitEffect DEF SaveStat
<1>2. CASE SaveOpen(p)
  BY <1>0, <1>r, <1>2, GotoEffect, ExitEffect DEF SaveOpen
<1>3. CASE SaveWrite(p)
  BY <1>0, <1>r, <1>3, GotoEffect, ExitEffect DEF SaveWrite, AfterSave
<1>4. CASE SaveRemove(p)
  BY <1>0, <1>r, <1>4, GotoEffect, ExitEffect DEF SaveRemove
<1>5. CASE SaveRename(p)
  BY <1>0, <1>r, <1>5, GotoEffect, ExitEffect DEF SaveRename, AfterSave
<1> QED BY <1>1, <1>2, <1>3, <1>4, <1>5 DEF Save

LEMMA HeldNext ==
  ASSUME "update" \notin Swallowed, NEW k \in Keys, HeldInv(k), [Next]_vars, Unremoved'
  PROVE  HeldInv(k)'
<1>0. TypeOK /\ TypeOK' /\ Held(k) /\ \A q \in Procs : HeldUser(k, q)
  BY TypeNext DEF HeldInv
<1>1. ASSUME NEW p \in Procs, NEW c \in Commands, Begin(p, c) PROVE HeldStep(k, p)
  <2>1. pc'[p] \in {"runExists", "sshLoad", "stopExists"} /\ mode'[p] \in {"run", "stop", "ssh"}
    BY <1>0, <1>1, LifecycleAssumption DEF Begin, TypeOK, ProcsOK, Unremoved
  <2> QED BY <1>0, <1>1, <2>1
    DEF Begin, HeldStep, Held, HeldUser, Readable, FirstBootRecord, SavePcs, IgnPcs, RemovePcs,
        UnmarkedPcs
<1>2. ASSUME NEW p \in Procs, Command(p) PROVE HeldStep(k, p)
  <2>1. CASE Stop(p) \/ Ssh(p)
    BY <1>0, <2>1, ReaderStep
    DEF ReaderPcs, HeldStep, Held, HeldUser, Readable, FirstBootRecord, SavePcs, IgnPcs,
        RemovePcs, UnmarkedPcs
  <2> QED BY <1>2, <2>1, HeldRun, HeldSave DEF Command
<1>3. ASSUME NEW p \in Procs, Fail(p) PROVE HeldStep(k, p)
  BY <1>0, <1>3, ControlEffect
  DEF Fail, HeldStep, Held, HeldUser, Readable, FirstBootRecord, SavePcs, IgnPcs, RemovePcs,
      UnmarkedPcs
<1>4. CASE GuestIgnites \/ GuestStops \/ UNCHANGED vars
  BY <1>0, <1>4
  DEF GuestIgnites, GuestStops, PowerOff, vars, HeldInv, Held, HeldUser, Readable,
      FirstBootRecord
<1>5. ASSUME NEW p \in Procs, HeldStep(k, p),
             Command(p) \/ Fail(p) \/ \E c \in Commands : Begin(p, c)
      PROVE  HeldInv(k)'
  <2>1. ASSUME NEW q \in Procs \ {p} PROVE HeldUser(k, q)'
    BY <1>0, <1>5, OthersStay DEF SameControl, HeldStep, HeldUser
  <2> QED BY <1>0, <1>5, <2>1 DEF HeldStep, HeldInv
<1> QED BY <1>1, <1>2, <1>3, <1>4, <1>5 DEF Next

\* Any number of users, any of their commands interrupted: until somebody
\* types stop -r the machine keeps its disk, its key and its record's key and
\* is not told to ignite again, unless UpdateConfig fails and run goes on.
THEOREM UsersKeepMachine ==
  ASSUME "update" \notin Swallowed
  PROVE  InstalledSpec => StaysProvisioned
<1> DEFINE Inv == \E k \in Keys : HeldInv(k)
<1>1. InstalledInit => Inv
  BY HeldInit
<1>2. Inv /\ Unremoved' /\ [Next]_vars => Inv'
  BY HeldNext
<1>3. Inv => Provisioned
  BY LifecycleAssumption DEF HeldInv, Held, Provisioned
<1> HIDE DEF Inv
<1> QED BY <1>1, <1>2, <1>3, PTL DEF InstalledSpec, StaysProvisioned

(***************************************************************************)
(* The host record, too, if no command is cut off.                         *)
(***************************************************************************)
\* The record is missing only until somebody renames a new one into place,
\* and torn only while somebody has yet to write it.
RecordInv(k) ==
  /\ "dir" \in files
  /\ "config" \notin files => \E p \in Procs : pc[p] = "saveRename"
  /\ "config" \in torn => writers # {}
  /\ writers # {} /\ "config" \notin torn => saved = Record(k)

SavingUser(p) ==
  /\ pc[p] \in {"saveRemove", "saveRename"} => p \in temps
  /\ p \in writers => pc[p] = "saveWrite"

SharedInv(k) == HeldInv(k) /\ RecordInv(k) /\ \A p \in Procs : SavingUser(p)

\* A step that leaves the store alone and neither enters nor leaves Save's
\* later steps.
LEMMA SharedQuiet ==
  ASSUME NEW k \in Keys, RecordInv(k), NEW p \in Procs, UNCHANGED store,
         {pc[p], pc'[p]} \cap {"saveRemove", "saveRename", "saveWrite"} = {},
         \A q \in Procs : SavingUser(q),
         \A q \in Procs \ {p} : pc'[q] = pc[q]
  PROVE  RecordInv(k)' /\ \A q \in Procs : SavingUser(q)'
<1>1. RecordInv(k)'
  BY DEF RecordInv, Record
<1>2. SavingUser(p)' /\ \A q \in Procs \ {p} : SavingUser(q)'
  BY DEF SavingUser
<1> QED BY <1>1, <1>2

LEMMA SharedRun ==
  ASSUME NEW k \in Keys, SharedInv(k), NEW p \in Procs, Run(p)
  PROVE  RecordInv(k)' /\ \A q \in Procs : SavingUser(q)'
<1>0. /\ TypeOK /\ RecordInv(k) /\ HeldUser(k, p) /\ \A q \in Procs : SavingUser(q)
      /\ \A q \in Procs \ {p} : pc'[q] = pc[q]
  BY OthersStay DEF SameControl, SharedInv, HeldInv, Command
<1>1. CASE RunExists(p)
  BY <1>0, <1>1, SharedQuiet DEF RunExists, At, TypeOK, ProcsOK
<1>2. CASE Load(p)
  <2>1. pc[p] = "load" /\ pc'[p] \in {"saveStat", "idle"} /\ UNCHANGED store
    BY <1>0, <1>2, ControlEffect DEF Load, At
  <2> QED BY <1>0, <2>1, SharedQuiet
<1>3. CASE Reload(p) \/ RunState(p) \/ Start(p)
  <2>1. /\ pc[p] \in {"reload", "runState", "start"}
        /\ pc'[p] \in {"runState", "start", "idle"} /\ UNCHANGED store
    BY <1>0, <1>3, GotoEffect, GotoWithEffect, ExitEffect DEF Reload, RunState, Start, At
  <2> QED BY <1>0, <2>1, SharedQuiet
<1>4. ~NewHost(p) /\ ~CreateBegin(p) /\ ~CreateEnd(p) /\ ~SetExists(p) /\ ~IgnOpen(p) /\ ~IgnWrite(p)
  BY <1>0 DEF NewHost, CreateBegin, CreateEnd, SetExists, IgnOpen, IgnWrite, At, HeldUser,
              UnmarkedPcs, IgnPcs
<1> QED BY <1>1, <1>2, <1>3, <1>4 DEF Run

LEMMA SharedSave ==
  ASSUME NEW k \in Keys, SharedInv(k), NEW p \in Procs, Save(p)
  PROVE  RecordInv(k)' /\ \A q \in Procs : SavingUser(q)'
<1>0. /\ TypeOK /\ RecordInv(k) /\ HeldUser(k, p) /\ \A q \in Procs : SavingUser(q)
      /\ \A q \in Procs \ {p} : pc'[q] = pc[q]
  BY OthersStay DEF SameControl, SharedInv, HeldInv, Command
<1>h. host[p] = Record(k)
  BY <1>0
  DEF HeldUser, Save, SaveStat, SaveOpen, SaveWrite, SaveRemove, SaveRename, At, SavePcs
<1>c. mode[p] # "create"
  BY <1>0 DEF HeldUser
<1> SUFFICES RecordInv(k)' /\ SavingUser(p)' /\ \A q \in Procs \ {p} : SavingUser(q)'
  OBVIOUS
<1>1. CASE SaveStat(p)
  <2>1. /\ pc[p] = "saveStat" /\ UNCHANGED <<files, torn, saved, writers>>
        /\ \/ temps' = temps \cup {p} /\ pc'[p] = "saveRemove"
           \/ temps' = temps /\ pc'[p] = "saveOpen"
    BY <1>0, <1>1, GotoEffect DEF SaveStat, At, RecordInv
  <2>2. RecordInv(k)'
    BY <1>0, <2>1 DEF RecordInv, Record
  <2> QED BY <1>0, <2>1, <2>2 DEF SavingUser
<1>2. CASE SaveOpen(p)
  <2>1. /\ pc[p] = "saveOpen" /\ pc'[p] = "saveWrite"
        /\ files' = files \cup {"config"} /\ torn' = torn \cup {"config"}
        /\ writers' = writers \cup {p} /\ temps' = temps
    BY <1>0, <1>2, GotoEffect DEF SaveOpen, At, RecordInv
  <2>2. RecordInv(k)'
    BY <1>0, <2>1 DEF RecordInv, Record
  <2> QED BY <1>0, <2>1, <2>2 DEF SavingUser
<1>3. CASE SaveWrite(p)
  <2>1. /\ pc[p] = "saveWrite" /\ pc'[p] = "reload"
        /\ writers' = writers \ {p} /\ UNCHANGED <<files, temps>>
    BY <1>0, <1>3, <1>c, GotoEffect DEF SaveWrite, AfterSave, At
  <2>2. \/ p \in writers /\ saved' = Record(k) /\ torn' = torn \ {"config"}
        \/ p \notin writers /\ UNCHANGED <<torn, saved>>
    BY <1>0, <1>3, <1>h DEF SaveWrite, RecordInv
  <2>3. RecordInv(k)'
    BY <1>0, <1>h, <2>1, <2>2 DEF RecordInv, Record
  <2> QED BY <1>0, <2>1, <2>3 DEF SavingUser
<1>4. CASE SaveRemove(p)
  <2>1. CASE "config" \in files
    <3>1. /\ pc[p] = "saveRemove" /\ pc'[p] = "saveRename"
          /\ files' = files \ {"config"} /\ torn' = torn \ {"config"}
          /\ writers' = {} /\ temps' = temps
      BY <1>0, <1>4, <2>1, GotoEffect DEF SaveRemove, At
    <3>2. RecordInv(k)'
      BY <1>0, <3>1 DEF RecordInv
    <3> QED BY <1>0, <3>1, <3>2 DEF SavingUser
  <2>2. CASE "config" \notin files
    <3>1. /\ pc[p] = "saveRemove" /\ pc'[p] = "idle"
          /\ temps' = temps \ {p} /\ UNCHANGED <<files, torn, saved, writers>>
      BY <1>0, <1>4, <2>2, ExitEffect DEF SaveRemove, At
    <3>2. RecordInv(k)'
      BY <1>0, <3>1 DEF RecordInv, Record
    <3> QED BY <1>0, <3>1, <3>2 DEF SavingUser
  <2> QED BY <2>1, <2>2
<1>5. CASE SaveRename(p)
  <2>1. /\ pc[p] = "saveRename" /\ pc'[p] = "reload"
        /\ files' = files \cup {"config"} /\ torn' = torn \ {"config"}
        /\ saved' = Record(k) /\ writers' = {} /\ temps' = temps \ {p}
    <3>1. TempThere(p)
      BY <1>0, <1>5 DEF SaveRename, At, SavingUser
    <3> QED BY <1>0, <1>5, <1>h, <1>c, <3>1, GotoEffect DEF SaveRename, AfterSave, At
  <2>2. RecordInv(k)'
    BY <1>0, <2>1 DEF RecordInv, Record
  <2> QED BY <1>0, <2>1, <2>2 DEF SavingUser
<1> QED BY <1>1, <1>2, <1>3, <1>4, <1>5 DEF Save

LEMMA SharedNext ==
  ASSUME "update" \notin Swallowed, ~MayFail,
         NEW k \in Keys, SharedInv(k), [Next]_vars, Unremoved'
  PROVE  SharedInv(k)'
<1>0. TypeOK /\ HeldInv(k) /\ HeldInv(k)' /\ RecordInv(k) /\ \A q \in Procs : SavingUser(q)
  BY HeldNext DEF SharedInv, HeldInv
<1>1. ASSUME NEW p \in Procs, NEW c \in Commands, Begin(p, c)
      PROVE  RecordInv(k)' /\ \A q \in Procs : SavingUser(q)'
  <2>1. UNCHANGED store
    BY <1>0, <1>1 DEF Begin, RecordInv
  <2>2. pc[p] = "idle" /\ pc'[p] \in {"runExists", "sshLoad", "stopExists"}
    BY <1>0, <1>1 DEF Begin, At, TypeOK, ProcsOK
  <2>3. \A q \in Procs \ {p} : pc'[q] = pc[q]
    BY <1>0, <1>1, OthersStay DEF SameControl
  <2> QED BY <1>0, <2>1, <2>2, <2>3, SharedQuiet
<1>2. ASSUME NEW p \in Procs, Command(p)
      PROVE  RecordInv(k)' /\ \A q \in Procs : SavingUser(q)'
  <2>1. CASE Stop(p) \/ Ssh(p)
    <3>1. UNCHANGED store /\ pc[p] \in ReaderPcs /\ pc'[p] \in ReaderPcs \cup {"idle"}
      BY <1>0, <2>1, ReaderStep
    <3>2. \A q \in Procs \ {p} : pc'[q] = pc[q]
      BY <1>0, <1>2, OthersStay DEF SameControl
    <3> QED BY <1>0, <3>1, <3>2, SharedQuiet DEF ReaderPcs
  <2> QED BY <1>2, <2>1, SharedRun, SharedSave DEF Command
<1>3. ASSUME NEW p \in Procs PROVE ~Fail(p)
  BY DEF Fail
<1>4. CASE GuestIgnites \/ GuestStops \/ UNCHANGED vars
  <2>1. UNCHANGED <<store, procs>>
    BY <1>4 DEF GuestIgnites, GuestStops, vars
  <2> QED BY <1>0, <2>1 DEF SharedInv, RecordInv, Record, SavingUser
<1> QED BY <1>0, <1>1, <1>2, <1>3, <1>4 DEF Next, SharedInv

\* However the runs, stops and ssh sessions of any number of users overlap,
\* the machine still has a readable host record when they have all ended,
\* until somebody types stop -r, if none is cut off and UpdateConfig does not
\* fail.
THEOREM RecordSurvives ==
  ASSUME "update" \notin Swallowed, ~MayFail
  PROVE  InstalledSpec => RecordKept
<1> DEFINE Inv == \E k \in Keys : SharedInv(k)
<1>1. InstalledInit => Inv
  <2> SUFFICES ASSUME InstalledInit PROVE Inv
    OBVIOUS
  <2>1. PICK k \in Keys : HeldInv(k)
    BY HeldInit
  <2>2. RecordInv(k) /\ \A p \in Procs : SavingUser(p)
    BY DEF InstalledInit, RecordInv, SavingUser, File
  <2> QED BY <2>1, <2>2 DEF SharedInv
<1>2. Inv /\ Unremoved' /\ [Next]_vars => Inv'
  BY SharedNext
<1>3. Inv => ConfigSurvives
  BY DEF SharedInv, RecordInv, SavingUser, HeldInv, ConfigSurvives, At, Readable, TypeOK,
         StoreOK
<1> HIDE DEF Inv
<1> QED BY <1>1, <1>2, <1>3, PTL DEF InstalledSpec, RecordKept

(***************************************************************************)
(* No command goes back.                                                   *)
(***************************************************************************)
\* The steps that a command takes at most from here, unlinks not counted.
StepsLeft(label) ==
  CASE label = "idle" -> 0
    [] label \in {"start", "sshState", "unlink"} -> 1
    [] label \in {"runState", "sshLoad", "list"} -> 2
    [] label \in {"reload", "removeWait"} -> 3
    [] label \in {"ignWrite", "killWait"} -> 4
    [] label \in {"ignOpen", "killCall"} -> 5
    [] label \in {"saveWrite", "saveRename", "stopWait"} -> 6
    [] label \in {"saveOpen", "saveRemove", "stopCall"} -> 7
    [] label \in {"saveStat", "stopState"} -> 8
    [] label \in {"setExists", "load", "stopLoad"} -> 9
    [] label \in {"creating", "stopExists"} -> 10
    [] label = "create" -> 11
    [] label = "newHost" -> 12
    [] label = "runExists" -> 13

Advances(p) ==
  \/ StepsLeft(pc'[p]) < StepsLeft(pc[p])
  \/ pc'[p] = pc[p] /\ \E f \in listed[p] : listed'[p] = listed[p] \ {f}

Waits(p) == pc'[p] = pc[p] /\ listed'[p] = listed[p]

\* Every step of a command brings it nearer to its end, whatever the other
\* commands and the guest have done to the files meanwhile; they themselves
\* never set it back.  No Retry, no Load and no RemoveAll begins anew.
NeverBack ==
  [][\A p \in Procs : /\ Command(p) => Advances(p)
                      /\ ~Command(p) /\ ~Fail(p) /\ ~At(p, "idle") => Waits(p)]_vars

LEMMA Advance ==
  ASSUME TypeOK, NEW p \in Procs, Command(p)
  PROVE  Advances(p)
<1> USE DEF Advances, StepsLeft, At
<1>1. CASE Run(p)
  <2>1. CASE RunExists(p) \/ NewHost(p)
    <3>1. CASE RunExists(p)
      BY <3>1 DEF RunExists, TypeOK, ProcsOK
    <3>2. CASE NewHost(p)
      <4>1. PICK h : GotoWith(p, "create", h)
        BY <3>2 DEF NewHost
      <4> QED BY <3>2, <4>1, GotoWithEffect DEF NewHost
    <3> QED BY <2>1, <3>1, <3>2
  <2>2. CASE CreateBegin(p) \/ CreateEnd(p) \/ SetExists(p)
    BY <2>2, GotoEffect, ExitEffect DEF CreateBegin, CreateEnd, SetExists
  <2>3. CASE IgnOpen(p) \/ IgnWrite(p)
    BY <2>3, GotoEffect, ExitEffect DEF IgnOpen, IgnWrite
  <2>4. CASE Load(p) \/ Reload(p)
    <3>1. CASE \E h : Load(p) /\ GotoWith(p, "saveStat", h)
      <4>1. PICK h : Load(p) /\ GotoWith(p, "saveStat", h)
        BY <3>1
      <4> QED BY <4>1, GotoWithEffect DEF Load
    <3>2. CASE Load(p) /\ Exit(p)
      BY <3>2, ExitEffect DEF Load
    <3>3. CASE Reload(p)
      BY <3>3, GotoWithEffect, ExitEffect DEF Reload
    <3> QED BY <2>4, <3>1, <3>2, <3>3 DEF Load
  <2>5. CASE RunState(p) \/ Start(p)
    BY <2>5, GotoEffect, ExitEffect DEF RunState, Start
  <2> QED BY <1>1, <2>1, <2>2, <2>3, <2>4, <2>5 DEF Run
<1>2. CASE Save(p)
  <2>1. CASE SaveStat(p) \/ SaveOpen(p)
    BY <2>1, GotoEffect, ExitEffect DEF SaveStat, SaveOpen
  <2>2. CASE SaveWrite(p) \/ SaveRemove(p) \/ SaveRename(p)
    BY <2>2, GotoEffect, ExitEffect DEF SaveWrite, SaveRemove, SaveRename, AfterSave
  <2> QED BY <1>2, <2>1, <2>2 DEF Save
<1>3. CASE Stop(p)
  <2>1. CASE StopExists(p) \/ StopLoad(p) \/ StopState(p) \/ StopCall(p)
    BY <2>1, GotoEffect, ExitEffect DEF StopExists, StopLoad, StopState, StopCall
  <2>2. CASE StopWait(p) \/ KillCall(p) \/ KillWait(p) \/ RemoveWait(p)
    BY <2>2, GotoEffect, ExitEffect DEF StopWait, KillCall, KillWait, RemoveWait, Stopped
  <2>3. CASE List(p) \/ RemoveDir(p)
    BY <2>3, ExitEffect DEF List, RemoveDir, TypeOK, ProcsOK
  <2>4. ASSUME NEW f \in Entry, Unlink(p, f) PROVE Advances(p)
    BY <2>4 DEF Unlink, TypeOK, ProcsOK
  <2> QED BY <1>3, <2>1, <2>2, <2>3, <2>4 DEF Stop, Remove
<1>4. CASE Ssh(p)
  BY <1>4, GotoWithEffect, ExitEffect DEF Ssh, SshLoad, SshState
<1> QED BY <1>1, <1>2, <1>3, <1>4 DEF Command

\* A command takes at most thirteen steps of its own, and one for each entry
\* that a RemoveAll has listed, with any number of users.
THEOREM CommandsAdvance == Spec => NeverBack
<1>1. ASSUME TypeOK, NEW p \in Procs, [Next]_vars, ~Command(p), ~Fail(p), ~At(p, "idle")
      PROVE  Waits(p)
  <2>1. ASSUME NEW q \in Procs \ {p},
               Command(q) \/ Fail(q) \/ \E c \in Commands : Begin(q, c)
        PROVE  Waits(p)
    BY <1>1, <2>1, OthersStay DEF SameControl, Waits
  <2>2. ASSUME NEW c \in Commands PROVE ~Begin(p, c)
    BY <1>1 DEF Begin
  <2>3. CASE GuestIgnites \/ GuestStops \/ UNCHANGED vars
    BY <2>3 DEF GuestIgnites, GuestStops, vars, Waits
  <2> QED BY <1>1, <2>1, <2>2, <2>3 DEF Next
<1>2. ASSUME TypeOK, [Next]_vars
      PROVE  [\A p \in Procs : /\ Command(p) => Advances(p)
                               /\ ~Command(p) /\ ~Fail(p) /\ ~At(p, "idle") => Waits(p)]_vars
  BY <1>1, <1>2, Advance
<1> QED BY <1>2, TypeCorrect, PTL DEF Spec, NeverBack

=============================================================================
