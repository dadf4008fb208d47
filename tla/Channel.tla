------------------------------ MODULE Channel -------------------------------
(***************************************************************************)
(* What a deterministic stream promises the program at its far end: every  *)
(* frame once, in the order of sending, and none past a frame that was     *)
(* lost on the way.  Frames are numbered from zero.                        *)
(***************************************************************************)
EXTENDS Naturals, Sequences

VARIABLES
  sent,      \* how many frames were sent
  lost,      \* those that never got on their way
  delivered  \* what the far end has read

vars == <<sent, lost, delivered>>

Init == sent = 0 /\ lost = {} /\ delivered = <<>>

Put == sent' = sent + 1 /\ lost' \in {lost, lost \union {sent}}

\* A call may send a frame, and may deliver some.
Next ==
  /\ Put \/ UNCHANGED <<sent, lost>>
  /\ \E n \in Len(delivered) .. sent' :
       /\ lost' \intersect (0 .. n - 1) = {}
       /\ delivered' = [i \in 1 .. n |-> i - 1]

Spec == Init /\ [][Next]_vars
=============================================================================
