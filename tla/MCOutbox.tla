------------------------------ MODULE MCOutbox ------------------------------
(***************************************************************************)
(* Instances of Outbox.  Effect 1 comes first in every run and always      *)
(* fails where there is poison; nobody handles effect 4.                   *)
(***************************************************************************)
EXTENDS Outbox

CONSTANTS d1, d2

TwoDeliverers == {d1, d2}
Nothing == {}
First == {1}
TwoEffects == {1, 2}
ThreeEffects == {1, 2, 3}
FourEffects == {1, 2, 3, 4}
=============================================================================
