----------------------------- MODULE Rendezvous -----------------------------
(***************************************************************************)
(* What the trigger handshake promises: triggers are handed over one at a  *)
(* time, none is dropped, and none is taken twice.                         *)
(***************************************************************************)
EXTENDS Naturals

VARIABLES sent, taken

Init == sent = 0 /\ taken = 0

Send == sent = taken /\ sent' = sent + 1 /\ UNCHANGED taken

Receive == taken < sent /\ taken' = taken + 1 /\ UNCHANGED sent

Next == Send \/ Receive

Spec == Init /\ [][Next]_<<sent, taken>>

=============================================================================
