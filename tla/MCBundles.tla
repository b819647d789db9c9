------------------------------ MODULE MCBundles ------------------------------
(***************************************************************************)
(* An instance of Bundles: two bundles that share a payload, exported and  *)
(* published one after the other by a process that may die in between.     *)
(***************************************************************************)
EXTENDS Bundles

CONSTANT p1

OnePublisher == {p1}
TwoRefs == {"a", "b"}
TwoBundles == {<<"a">>, <<"a", "b">>}
=============================================================================
