------------------------------ MODULE Machine ------------------------------
(***************************************************************************)
(* What mct promises of its machine to a user who types one command at a   *)
(* time, and may interrupt any of them: a guest is started only on a disk  *)
(* image that is complete, it ignites only on the first boot of that disk  *)
(* and at most once, and a disk that a guest has used is lost only to a    *)
(* removal that the user has asked for.                                    *)
(***************************************************************************)
VARIABLES
  disk,      \* how far the disk image is
  running,   \* a guest runs on it
  igniting,  \* this guest was told to ignite and has yet to
  doomed     \* a removal has begun, and no disk was made since

vars == <<disk, running, igniting, doomed>>

DiskState == {"none", "making", "fresh", "booted", "provisioned"}

TypeOK ==
  /\ disk \in DiskState
  /\ running \in BOOLEAN /\ igniting \in BOOLEAN /\ doomed \in BOOLEAN

Init == disk = "none" /\ ~running /\ ~igniting /\ ~doomed

\* The image of a machine that no guest has used, or that is being removed.
Expendable == disk \in {"none", "making", "fresh"} \/ doomed

Create ==
  /\ ~running /\ Expendable
  /\ disk' = "making" /\ doomed' = FALSE
  /\ UNCHANGED <<running, igniting>>

Finish ==
  /\ disk = "making"
  /\ disk' = "fresh"
  /\ UNCHANGED <<running, igniting, doomed>>

Boot ==
  /\ ~running /\ disk \in {"fresh", "booted", "provisioned"}
  /\ running' = TRUE
  /\ disk' = IF disk = "fresh" THEN "booted" ELSE disk
  /\ igniting' \in {FALSE, disk = "fresh"}
  /\ UNCHANGED doomed

Ignite ==
  /\ running /\ igniting /\ disk = "booted"
  /\ disk' = "provisioned" /\ igniting' = FALSE
  /\ UNCHANGED <<running, doomed>>

PowerOff ==
  /\ running
  /\ running' = FALSE /\ igniting' = FALSE
  /\ UNCHANGED <<disk, doomed>>

Remove ==
  /\ ~running
  /\ disk' \in {disk, "none"} /\ doomed' = TRUE
  /\ UNCHANGED <<running, igniting>>

Next == Create \/ Finish \/ Boot \/ Ignite \/ PowerOff \/ Remove

Spec == Init /\ [][Next]_vars

=============================================================================
