------------------------------ MODULE Planning ------------------------------
(***************************************************************************)
(* The two histories of a commit under one roof: Commits, of the log, and  *)
(* Planners, of one request that is planned twice.  They share no state.   *)
(***************************************************************************)
EXTENDS Commits

CONSTANTS Roots, Times, ObjectLists, BlobLists, OutboxLists, Versions  \* Planners'

VARIABLES input, python, rust                                          \* Planners'

P == INSTANCE Planners

ASSUME PlanningAssumption == P!PlannersParameters

-----------------------------------------------------------------------------
\* The two planners answer every request alike, and what is planned is never refused by the
\* publisher (core/commit.py:412-708, rust/popperpad-core/src/lib.rs).
PlannersAgree == P!PlannersAgree
=============================================================================
