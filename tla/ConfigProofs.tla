---------------------------- MODULE ConfigProofs ----------------------------
(***************************************************************************)
(* What is proved of Config, for any number of commands.                   *)
(***************************************************************************)
EXTENDS Config, TLAPS

Before == {"idle", "find", "read", "mkdir", "stat", "open"}

\* Nothing has gone wrong: the file is there once somebody has created it, and
\* a command that still wants to create it has been beaten by another.
UndisturbedInv ==
  /\ file # "torn"
  /\ created # {} => file # "none"
  /\ \A c \in Commands :
       /\ pc[c] = "read" => file # "none"
       /\ pc[c] \in {"mkdir", "stat", "open"} /\ file # "none" => created # {}
       /\ pc[c] \in {"stat", "open"} => home

ConfigInv ==
  /\ TypeOK
  /\ \A c \in Commands : pc[c] \in Before => c \notin created
  /\ ~upset => UndisturbedInv
  /\ OneCreator
  /\ FailsOnlyForAnother

LEMMA ConfigInit == Init => ConfigInv
  BY ConfigAssumption
  DEF Init, ConfigInv, TypeOK, Before, UndisturbedInv, OneCreator, FailsOnlyForAnother, Working, Reading, Creating

\* A step that only moves one command on, and does not let it fail.
LEMMA QuietStep ==
  ASSUME ConfigInv, NEW c \in Commands,
         Begin(c) \/ Find(c) \/ MakeHome(c) \/ Reread(c)
  PROVE  ConfigInv'
<1> USE DEF Begin, Find, MakeHome, Reread, Goto, ConfigInv
<1>1. TypeOK'
  BY ConfigAssumption DEF TypeOK, Working, Reading, Creating
<1>2. (\A d \in Commands : pc[d] \in Before => d \notin created)'
  BY DEF TypeOK, Before
<1>3. (~upset => UndisturbedInv)'
  BY DEF TypeOK, UndisturbedInv
<1>4. OneCreator' /\ FailsOnlyForAnother'
  BY DEF TypeOK, OneCreator, FailsOnlyForAnother
<1> QED BY <1>1, <1>2, <1>3, <1>4

\* A command that fails at the file it finds has been beaten to creating it.
LEMMA CheckStep ==
  ASSUME ConfigInv, NEW c \in Commands, Read(c) \/ Stat(c)
  PROVE  ConfigInv'
<1> USE DEF Read, Stat, Goto, ConfigInv
<1>1. TypeOK'
  BY ConfigAssumption DEF TypeOK, Working, Reading, Creating
<1>2. (\A d \in Commands : pc[d] \in Before => d \notin created)'
  BY DEF TypeOK, Before
<1>3. (~upset => UndisturbedInv)'
  BY DEF TypeOK, UndisturbedInv
<1>4. ~upset /\ pc'[c] = "failed" => \E d \in created : d # c
  BY DEF TypeOK, UndisturbedInv, Before
<1>5. OneCreator' /\ FailsOnlyForAnother'
  BY <1>4 DEF TypeOK, OneCreator, FailsOnlyForAnother
<1> QED BY <1>1, <1>2, <1>3, <1>5

LEMMA OpenStep ==
  ASSUME ConfigInv, NEW c \in Commands, Open(c)
  PROVE  ConfigInv'
<1> USE DEF Open, MayCreate, Goto, ConfigInv
<1>1. TypeOK'
  BY ConfigAssumption DEF TypeOK, Working, Reading, Creating
<1>2. (\A d \in Commands : pc[d] \in Before => d \notin created)'
  BY DEF TypeOK, Before
<1>3. (~upset => UndisturbedInv)'
  BY DEF TypeOK, UndisturbedInv
<1>4. CASE MayCreate
  <2>1. ~upset => created' = {c}
    BY <1>4 DEF UndisturbedInv
  <2>2. OneCreator'
    BY <2>1 DEF OneCreator
  <2>3. FailsOnlyForAnother'
    BY <1>4 DEF TypeOK, FailsOnlyForAnother
  <2> QED BY <1>1, <1>2, <1>3, <2>2, <2>3
<1>5. CASE ~MayCreate
  <2>1. ~upset => \E d \in created : d # c
    BY <1>5 DEF UndisturbedInv, Before, TypeOK
  <2>2. OneCreator' /\ FailsOnlyForAnother'
    BY <1>5, <2>1 DEF TypeOK, OneCreator, FailsOnlyForAnother
  <2> QED BY <1>1, <1>2, <1>3, <2>2
<1> QED BY <1>4, <1>5

LEMMA WriteStep ==
  ASSUME ConfigInv, NEW c \in Commands, Write(c) \/ Cut(c)
  PROVE  ConfigInv'
<1> USE DEF Write, Cut, Goto, ConfigInv
<1>1. TypeOK'
  BY ConfigAssumption DEF TypeOK, Working, Reading, Creating
<1>2. (\A d \in Commands : pc[d] \in Before => d \notin created)'
  BY DEF TypeOK, Before
<1>3. (~upset => UndisturbedInv)'
  BY DEF TypeOK, UndisturbedInv
<1>4. OneCreator' /\ FailsOnlyForAnother'
  BY DEF TypeOK, OneCreator, FailsOnlyForAnother
<1> QED BY <1>1, <1>2, <1>3, <1>4

LEMMA ConfigNext == ConfigInv /\ [Next]_vars => ConfigInv'
<1> SUFFICES ASSUME ConfigInv, [Next]_vars PROVE ConfigInv'
  OBVIOUS
<1>1. ASSUME NEW c \in Commands, Step(c) PROVE ConfigInv'
  BY <1>1, QuietStep, CheckStep, OpenStep, WriteStep DEF Step
<1>2. CASE UserEdits \/ UserDeletes
  BY <1>2, ConfigAssumption DEF UserEdits, UserDeletes, ConfigInv, TypeOK, UndisturbedInv, OneCreator,
     FailsOnlyForAnother, Working, Reading, Creating
<1>3. CASE UNCHANGED vars
  BY <1>3 DEF vars, ConfigInv, TypeOK, UndisturbedInv, OneCreator, FailsOnlyForAnother
<1> QED BY <1>1, <1>2, <1>3 DEF Next

LEMMA ConfigInvariance == Spec => []ConfigInv
  BY ConfigInit, ConfigNext, PTL DEF Spec

\* The state is well-typed, and at most one command has the file open.
THEOREM TypeCorrect == Spec => []TypeOK
  BY ConfigInvariance, PTL DEF ConfigInv

\* Undisturbed, one command alone creates the file, ...
THEOREM OneCreates == Spec => []OneCreator
  BY ConfigInvariance, PTL DEF ConfigInv

\* ... and a command fails only because another one has.
THEOREM OneStarts == Spec => []FailsOnlyForAnother
  BY ConfigInvariance, PTL DEF ConfigInv

\* No command changes complete settings, disturbed or not.
THEOREM SettingsKept == Spec => KeepsSettings
<1>1. ConfigInv /\ [Next]_vars =>
        [pc' # pc /\ file \in {"default", "edited"} => UNCHANGED file]_vars
  <2> SUFFICES ASSUME ConfigInv, NEW c \in Commands, Step(c), file \in {"default", "edited"}
               PROVE  file' = file
    BY DEF Next, UserEdits, UserDeletes
  <2>1. opener # c
    BY ConfigAssumption DEF ConfigInv, TypeOK
  <2> QED BY <2>1 DEF Step, Begin, Find, Read, MakeHome, Stat, Open, MayCreate, Write, Reread, Cut
<1> QED BY <1>1, ConfigInvariance, PTL DEF Spec, KeepsSettings

=============================================================================
