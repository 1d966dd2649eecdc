------------------------------- MODULE Setup -------------------------------
(***************************************************************************)
(* mct setup (setup.go) and the bundler it launches (mct-bundler/main.go,  *)
(* bundle.go): the bundler is downloaded unless a file of its name exists, *)
(* launched as a plugin, and unpacks the files it carries one by one,      *)
(* leaving those whose checksum is right.                                  *)
(*                                                                         *)
(* A setup stands for the command and for its bundler.  The latter does    *)
(* not end with the former: a user who interrupts setup and types it again *)
(* may have two of them at work.  GitHub and make install are external.    *)
(***************************************************************************)
CONSTANTS
  Setups,     \* the setups that are ever begun
  Bundles,    \* the builds of mct-bundle-v1.0.0
  Binaries,   \* the files that UnbundleBin unpacks
  Machine,    \* the files that UnbundleMachine unpacks
  None        \* no bundle, no file

ASSUME SetupAssumption ==
  /\ None \notin Bundles
  /\ None \notin Binaries \cup Machine

Files == Binaries \cup Machine

VARIABLES
  pc,         \* where each setup is
  bundle,     \* the bundle it downloads, then the one it unpacks
  todo,       \* the files it has yet to unpack
  dest,       \* the file it writes
  file,       \* the contents of each unpacked file
  bundler,    \* the contents of bundles/mct-bundle-v1.0.0
  bundlesDir, \* the directory bundles exists
  met         \* history: the setups that have been at work along with each

vars == <<pc, bundle, todo, dest, file, bundler, bundlesDir, met>>

(***************************************************************************)
(* The contents of a file: the bundles that some of its bytes come from,   *)
(* and whether it is exactly what its one bundle holds.                    *)
(***************************************************************************)
Whole(b) == [of |-> {b}, whole |-> TRUE]
Torn(bs) == [of |-> bs, whole |-> FALSE]
Absent   == Torn({None})

Content == {Absent} \cup {Whole(b) : b \in Bundles} \cup {Torn(bs) : bs \in SUBSET Bundles}

\* What a write of all of b, from the start of a file, may make of it: the
\* rest of a longer file of another bundle stays behind.
Written(content, b) ==
  {Whole(b)} \cup IF content.of \subseteq {b} THEN {} ELSE {Torn(content.of \cup {b})}

\* What the write has made of it when it is half-way.
HalfWritten(content, b) ==
  IF content = Whole(b) THEN content ELSE Torn(content.of \cup {b})

Fetching  == {"fetchOpen", "fetch"}
Unpacking == {"unbundle", "open", "write"}
Working   == {"latest", "stat", "launch"} \cup Fetching \cup Unpacking

TypeOK ==
  /\ pc \in [Setups -> {"idle", "done", "failed"} \cup Working]
  /\ bundle \in [Setups -> Bundles \cup {None}]
  /\ todo \in [Setups -> SUBSET Files]
  /\ dest \in [Setups -> Files \cup {None}]
  /\ file \in [Files -> Content]
  /\ bundler \in Content
  /\ bundlesDir \in BOOLEAN
  /\ met \in [Setups -> SUBSET Setups]
  /\ \A s \in Setups :
       /\ pc[s] \in Unpacking \cup {"fetch", "done"} => bundle[s] # None
       /\ pc[s] \in {"open", "write"} => dest[s] \in todo[s]

\* The files are what earlier setups, finished or broken off, have left.
Init ==
  /\ pc = [s \in Setups |-> "idle"]
  /\ bundle = [s \in Setups |-> None]
  /\ todo = [s \in Setups |-> {}]
  /\ dest = [s \in Setups |-> None]
  /\ file \in [Files -> Content]
  /\ bundler = Absent
  /\ bundlesDir \in BOOLEAN
  /\ met = [s \in Setups |-> {}]

Active == {s \in Setups : pc[s] \in Working}

Goto(s, label) == pc' = [pc EXCEPT ![s] = label]

(***************************************************************************)
(* The command, up to the launch of the bundler.                           *)
(***************************************************************************)
Begin(s) ==
  /\ pc[s] = "idle"
  /\ Goto(s, "latest")
  /\ met' = [t \in Setups |->
               IF t = s THEN Active
               ELSE IF t \in Active THEN met[t] \cup {s} ELSE met[t]]
  /\ UNCHANGED <<bundle, todo, dest, file, bundler, bundlesDir>>

\* A bundle of another name is downloaded beside the one that is launched.
GetLatestBundle(s) ==
  /\ pc[s] = "latest"
  /\ Goto(s, "stat") \/ Goto(s, "launch")
  /\ UNCHANGED <<bundle, todo, dest, file, bundler, bundlesDir, met>>

BundleExists(s) ==
  /\ pc[s] = "stat"
  /\ Goto(s, IF bundler = Absent THEN "fetchOpen" ELSE "launch")
  /\ UNCHANGED <<bundle, todo, dest, file, bundler, bundlesDir, met>>

\* Nobody has made the directory of the bundles before the first setup but
\* make install.  The error of downloadBundle is ignored.
DownloadOpen(s) ==
  /\ pc[s] = "fetchOpen"
  /\ \/ /\ bundlesDir
        /\ Goto(s, "fetch")
        /\ \E b \in Bundles : bundle' = [bundle EXCEPT ![s] = b]
        /\ bundler' = IF bundler = Absent THEN Torn({}) ELSE bundler
     \/ Goto(s, "launch") /\ UNCHANGED <<bundle, bundler>>
  /\ UNCHANGED <<todo, dest, file, bundlesDir, met>>

Download(s) ==
  /\ pc[s] = "fetch"
  /\ \/ bundler' \in Written(bundler, bundle[s]) /\ Goto(s, "launch")
     \/ bundler' = HalfWritten(bundler, bundle[s]) /\ UNCHANGED pc
     \/ Goto(s, "launch") /\ UNCHANGED bundler
  /\ UNCHANGED <<bundle, todo, dest, file, bundlesDir, met>>

\* A bundler that is not whole does not start.
Launch(s) ==
  /\ pc[s] = "launch"
  /\ \/ \E b \in Bundles :
          /\ bundler = Whole(b)
          /\ Goto(s, "unbundle")
          /\ bundle' = [bundle EXCEPT ![s] = b]
          /\ todo' = [todo EXCEPT ![s] = Files]
     \/ ~bundler.whole /\ Goto(s, "failed") /\ UNCHANGED <<bundle, todo>>
  /\ UNCHANGED <<dest, file, bundler, bundlesDir, met>>

(***************************************************************************)
(* The bundler: UnbundleBin, then UnbundleMachine, in the order of a map.  *)
(***************************************************************************)
NextFilesAgain(s) == Files

NextFiles(s) == IF todo[s] \cap Binaries # {} THEN todo[s] \cap Binaries ELSE todo[s]

Unpacked(s, f) == todo' = [todo EXCEPT ![s] = @ \ {f}]

MatchesByName(s, f) == file[f] # Absent

MatchesNever(s, f) == FALSE

\* There is a file of this name and its checksum is that of the bundle's.
Matches(s, f) == file[f] = Whole(bundle[s])

\* A file is written unless it matches.  That writeFile would decompress a
\* name in .bz2 never happens: the names of the machine's files end in a
\* newline.
WriteFile(s, f) ==
  /\ pc[s] = "unbundle"
  /\ f \in NextFiles(s)
  /\ bundlesDir' = (bundlesDir \/ f \in Machine)
  /\ \/ Matches(s, f) /\ Unpacked(s, f) /\ UNCHANGED <<pc, dest>>
     \/ /\ ~Matches(s, f)
        /\ Goto(s, "open")
        /\ dest' = [dest EXCEPT ![s] = f]
        /\ UNCHANGED todo
  /\ UNCHANGED <<bundle, file, bundler, met>>

OpenedOver(content) == IF content = Absent THEN Torn({}) ELSE content

\* os.WriteFile truncates the file, then writes.
Opened(content) == Torn({})

Open(s) ==
  /\ pc[s] = "open"
  /\ Goto(s, "write")
  /\ file' = [file EXCEPT ![dest[s]] = Opened(@)]
  /\ UNCHANGED <<bundle, todo, dest, bundler, bundlesDir, met>>

Write(s) ==
  /\ pc[s] = "write"
  /\ \/ /\ file' = [file EXCEPT ![dest[s]] = HalfWritten(@, bundle[s])]
        /\ UNCHANGED <<pc, todo>>
     \/ /\ \E content \in Written(file[dest[s]], bundle[s]) :
             file' = [file EXCEPT ![dest[s]] = content]
        /\ Unpacked(s, dest[s])
        /\ Goto(s, "unbundle")
  /\ UNCHANGED <<bundle, dest, bundler, bundlesDir, met>>

\* Unbundle reports "installed at".
Unbundled(s) ==
  /\ pc[s] = "unbundle"
  /\ todo[s] = {}
  /\ Goto(s, "done")
  /\ UNCHANGED <<bundle, todo, dest, file, bundler, bundlesDir, met>>

\* An error that ends the command, or the end of its process; for a bundler
\* at work, an error that Unbundle reports, or the end of that process.
Fail(s) ==
  /\ s \in Active
  /\ Goto(s, "failed")
  /\ UNCHANGED <<bundle, todo, dest, file, bundler, bundlesDir, met>>

MakeInstall ==
  /\ \E b \in Bundles : bundler' = Whole(b)
  /\ bundlesDir' = TRUE
  /\ UNCHANGED <<pc, bundle, todo, dest, file, met>>

Step(s) ==
  \/ Begin(s) \/ GetLatestBundle(s) \/ BundleExists(s) \/ DownloadOpen(s)
  \/ Download(s) \/ Launch(s) \/ Open(s) \/ Write(s) \/ Unbundled(s) \/ Fail(s)
  \/ \E f \in Files : WriteFile(s, f)

Next == (\E s \in Setups : Step(s)) \/ MakeInstall

Spec == Init /\ [][Next]_vars

(***************************************************************************)
(* Properties.                                                             *)
(***************************************************************************)
\* A setup that has had the directories to itself and reports "installed at"
\* has left every file as its bundle holds it, whatever torn, mixed or stale
\* files earlier setups had left there.
DoneIsWhole ==
  [][\A s \in Setups :
       pc[s] # "done" /\ pc'[s] = "done" /\ met[s] = {} =>
         \A f \in Files : file'[f] = Whole(bundle[s])]_vars

\* Setups of one bundle may overlap in any way, each truncating what another
\* has just written: if none is broken off, the files are whole when all have
\* ended.
OverlapIsWhole ==
  \A b \in Bundles :
    /\ \A s \in Setups : pc[s] \in {"idle", "done"}
    /\ \E s \in Setups : pc[s] = "done"
    /\ \A s \in Setups : pc[s] = "done" => bundle[s] = b
    => \A f \in Files : file[f] = Whole(b)

\* A setup that has the directories to itself does not touch a file that is
\* its bundle's: repeated under a running machine, setup takes neither
\* hyperkit nor the kernel away from it.
KeepsWhole ==
  [][\A s \in Active, f \in Files :
       met[s] = {} /\ bundle[s] # None /\ file[f] = Whole(bundle[s]) =>
         file'[f] = file[f]]_vars

=============================================================================
