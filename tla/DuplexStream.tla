---------------------------- MODULE DuplexStream ----------------------------
(***************************************************************************)
(* What a TCP proxy promises the two ends it connects: in each direction a *)
(* stream that delivers what was sent, in order and without loss, and ends *)
(* only where the sender ended it.  The directions are independent: one    *)
(* may end while the other goes on (half-close).                           *)
(***************************************************************************)
EXTENDS Naturals

CONSTANTS
  Dirs,      \* the two directions
  MaxSend    \* the largest number of chunks an end sends

VARIABLES
  sent,   \* how many chunks the sender of a direction has sent
  fin,    \* whether it has ended the direction
  got,    \* how many chunks the receiver has got
  eof     \* whether the receiver has seen the end

vars == <<sent, fin, got, eof>>

Init ==
  /\ sent = [d \in Dirs |-> 0] /\ fin = [d \in Dirs |-> FALSE]
  /\ got = [d \in Dirs |-> 0]  /\ eof = [d \in Dirs |-> FALSE]

Send(d) ==
  /\ ~fin[d] /\ sent[d] < MaxSend
  /\ sent' = [sent EXCEPT ![d] = @ + 1]
  /\ UNCHANGED <<fin, got, eof>>

Finish(d) ==
  /\ ~fin[d]
  /\ fin' = [fin EXCEPT ![d] = TRUE]
  /\ UNCHANGED <<sent, got, eof>>

Deliver(d) ==
  /\ got[d] < sent[d] /\ ~eof[d]
  /\ got' = [got EXCEPT ![d] = @ + 1]
  /\ UNCHANGED <<sent, fin, eof>>

End(d) ==
  /\ fin[d] /\ got[d] = sent[d]
  /\ eof' = [eof EXCEPT ![d] = TRUE]
  /\ UNCHANGED <<sent, fin, got>>

Next == \E d \in Dirs : Send(d) \/ Finish(d) \/ Deliver(d) \/ End(d)

Spec == Init /\ [][Next]_vars

=============================================================================
