---------------------------- MODULE MCMarketCalls ----------------------------
(***************************************************************************)
(* An instance of Bounties, for MarketCalls; Market has instances of its   *)
(* own and stands still here.  Two submissions that a settlement can split *)
(* the reward between, two parties who may both submit and challenge, a    *)
(* recipe, a key and a finding kind the terms do not accept, and clock     *)
(* readings on both sides of the challenge deadline.                       *)
(***************************************************************************)
EXTENDS Bounties, TLC

CONSTANTS s1, s2, c1, p1, p2, r1, r2, v1, v2, f1, f2

TwoSubmissions == {s1, s2}
OneChallenge == {c1}
TwoParties == {p1, p2}
OneRecipe == {r1}
TwoRecipes == {r1, r2}
OneVerifier == {v1}
TwoVerifiers == {v1, v2}
OneFinding == {f1}
TwoFindings == {f1, f2}
SmallAmounts == {0, 1, 2}
BoundaryTimes == {0, 2, 3}

Interchangeable == Permutations(TwoSubmissions) \cup Permutations(TwoParties)

-----------------------------------------------------------------------------
CallsInit == C!Init /\ Init
CallsNext == C!Next /\ UNCHANGED vars

CallsSpec == CallsInit /\ [][CallsNext]_<<calling, vars>>
=============================================================================
