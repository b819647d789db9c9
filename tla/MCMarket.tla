------------------------------ MODULE MCMarket ------------------------------
(***************************************************************************)
(* An instance of Market with two of everything, so that a second          *)
(* submission, a second challenge and a second accepted key can interfere; *)
(* v3 signs but is not accepted.  SparseTimes has a reading before, at and *)
(* after every deadline that can arise; EveryTime and the single challenge *)
(* and key serve the smaller run that asks what a free challenge does.     *)
(***************************************************************************)
EXTENDS Market

CONSTANTS s1, s2, c1, c2, v1, v2, v3

TwoSubmissions == {s1, s2}
TwoChallenges == {c1, c2}
OneChallenge == {c1}
ThreeVerifiers == {v1, v2, v3}
TwoAccepted == {v1, v2}
OneVerifier == {v1}
UnitAmounts == {0, 1}
SparseTimes == {0, 2, 3, 4}
EveryTime == 0..4
=============================================================================
