------------------------------- MODULE Config -------------------------------
(***************************************************************************)
(* What every command of mct does before anything else (root.go,           *)
(* config.go): it reads ~/.mct/mct.yaml, or creates the file with the      *)
(* default settings where there is none.  Several commands may start at    *)
(* once, on a new home or on an old one, while the user edits the file or  *)
(* deletes it.                                                             *)
(*                                                                         *)
(* viper is external: SafeWriteConfig looks for the file, then opens it    *)
(* with O_CREATE and O_EXCL, then writes it.                               *)
(***************************************************************************)
CONSTANTS
  Commands,   \* the commands that are ever begun
  Nobody      \* no command

ASSUME ConfigAssumption == Nobody \notin Commands

VARIABLES
  pc,       \* where each command is
  home,     \* the directory ~/.mct exists
  file,     \* the state of mct.yaml
  opener,   \* the command that has the present mct.yaml open for writing
  created,  \* history: the commands that have created a mct.yaml
  upset     \* history: the file was deleted, or a command was cut off

vars == <<pc, home, file, opener, created, upset>>

Reading  == {"find", "read"}
Creating == {"mkdir", "stat", "open", "write", "reread"}
Working  == Reading \cup Creating

TypeOK ==
  /\ pc \in [Commands -> {"idle", "ready", "failed", "cut"} \cup Working]
  /\ home \in BOOLEAN
  /\ file \in {"none", "empty", "torn", "default", "edited"}
  /\ opener \in Commands \cup {Nobody}
  /\ created \subseteq Commands
  /\ upset \in BOOLEAN
  /\ file # "none" => home
  /\ opener # Nobody => file = "empty" /\ pc[opener] = "write"
  /\ \A c \in Commands : pc[c] \in {"write", "reread"} => c \in created

Init ==
  /\ pc = [c \in Commands |-> "idle"]
  /\ file \in {"none", "default", "edited"}
  /\ home \in {TRUE, file # "none"}
  /\ opener = Nobody /\ created = {} /\ upset = FALSE

Goto(c, label) == pc' = [pc EXCEPT ![c] = label]

Begin(c) ==
  /\ pc[c] = "idle"
  /\ Goto(c, "find")
  /\ UNCHANGED <<home, file, opener, created, upset>>

\* ReadInConfig looks for the file, and reads it if there is one.
Find(c) ==
  /\ pc[c] = "find"
  /\ Goto(c, IF file = "none" THEN "mkdir" ELSE "read")
  /\ UNCHANGED <<home, file, opener, created, upset>>

\* An empty file is a good one; one that is cut off may be.  A file that has
\* gone meanwhile is not reported as "not found".
Read(c) ==
  /\ pc[c] = "read"
  /\ \/ file \notin {"none", "torn"} /\ Goto(c, "ready")
     \/ file = "torn" /\ (Goto(c, "ready") \/ Goto(c, "failed"))
     \/ file = "none" /\ Goto(c, "failed")
  /\ UNCHANGED <<home, file, opener, created, upset>>

MakeHomeOnce(c) ==
  /\ pc[c] = "mkdir"
  /\ home' = TRUE
  /\ Goto(c, IF home THEN "failed" ELSE "stat")
  /\ UNCHANGED <<file, opener, created, upset>>

\* createDefaultConfig: MkdirAll, then SafeWriteConfig.
MakeHome(c) ==
  /\ pc[c] = "mkdir"
  /\ home' = TRUE
  /\ Goto(c, "stat")
  /\ UNCHANGED <<file, opener, created, upset>>

StatTolerates(c) ==
  /\ pc[c] = "stat"
  /\ Goto(c, IF file = "none" THEN "open" ELSE "reread")
  /\ UNCHANGED <<home, file, opener, created, upset>>

\* SafeWriteConfig refuses to go on where there is a file by now.
Stat(c) ==
  /\ pc[c] = "stat"
  /\ Goto(c, IF file = "none" THEN "open" ELSE "failed")
  /\ UNCHANGED <<home, file, opener, created, upset>>

MayCreateAnyway == home

MayCreate == home /\ file = "none"

Open(c) ==
  /\ pc[c] = "open"
  /\ \/ /\ MayCreate
        /\ Goto(c, "write")
        /\ file' = "empty"
        /\ opener' = c
        /\ created' = created \cup {c}
     \/ ~MayCreate /\ Goto(c, "failed") /\ UNCHANGED <<file, opener, created>>
  /\ UNCHANGED <<home, upset>>

\* The settings reach mct.yaml unless the user has deleted the file, and
\* another command may have created it again.
Write(c) ==
  /\ pc[c] = "write"
  /\ Goto(c, "reread")
  /\ IF opener = c THEN file' = "default" /\ opener' = Nobody ELSE UNCHANGED <<file, opener>>
  /\ UNCHANGED <<home, created, upset>>

\* The error of the second ReadInConfig is ignored.
Reread(c) ==
  /\ pc[c] = "reread"
  /\ Goto(c, "ready")
  /\ UNCHANGED <<home, file, opener, created, upset>>

\* The process is interrupted, or a call fails, which ends it.
Cut(c) ==
  /\ pc[c] \in Working
  /\ Goto(c, "cut")
  /\ upset' = TRUE
  /\ IF opener = c THEN file' \in {"empty", "torn", "default"} /\ opener' = Nobody
                   ELSE UNCHANGED <<file, opener>>
  /\ UNCHANGED <<home, created>>

\* A user edits a file that no command is writing.
UserEdits ==
  /\ file # "none" /\ opener = Nobody
  /\ file' = "edited"
  /\ UNCHANGED <<pc, home, opener, created, upset>>

UserDeletes ==
  /\ file # "none"
  /\ file' = "none" /\ opener' = Nobody
  /\ home' \in BOOLEAN
  /\ upset' = TRUE
  /\ UNCHANGED <<pc, created>>

Step(c) ==
  \/ Begin(c) \/ Find(c) \/ Read(c) \/ MakeHome(c) \/ Stat(c)
  \/ Open(c) \/ Write(c) \/ Reread(c) \/ Cut(c)

Next == (\E c \in Commands : Step(c)) \/ UserEdits \/ UserDeletes

Spec == Init /\ [][Next]_vars

(***************************************************************************)
(* Properties.                                                             *)
(***************************************************************************)
\* However many first commands start at once, the settings are written by one
\* of them alone, as long as nobody deletes the file or is cut off.
OneCreator ==
  ~upset => \A c, d \in created : c = d

\* Then a command fails only because another one has created the file after it
\* found none: never on a home that one command has to itself.
FailsOnlyForAnother ==
  ~upset => \A c \in Commands : pc[c] = "failed" => \E d \in created : d # c

\* No command touches settings that are complete, whatever it saw before:
\* neither those the user has edited nor those that others may be reading.
KeepsSettings ==
  [][pc' # pc /\ file \in {"default", "edited"} => UNCHANGED file]_vars

=============================================================================
