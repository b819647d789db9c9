------------------------------ MODULE Planners ------------------------------
(***************************************************************************)
(* The two planners at work: any request, whatever is wrong with it, is    *)
(* planned once by core/commit.py and once by rust/popperpad-core.  The    *)
(* requests differ in what the checks look at: roots, time, objects that   *)
(* are inexact or without a schema, blobs without a type or with the bytes *)
(* of an object, effects without a kind, versions.                         *)
(***************************************************************************)
EXTENDS CommitPlan

CONSTANTS
    Roots,        \* the roots a request may name, NoRoot and BadRoot among them
    Times,        \* the times it may carry, "" among them
    ObjectLists,  \* the sequences of objects it may ask to write
    BlobLists,    \* the same for blobs
    OutboxLists,  \* the same for effects
    Versions      \* the policy and core versions it may state

Inputs == [expected_head : Roots, created_at : Times, evidence_root : Roots,
           objects : ObjectLists, blobs : BlobLists, outbox : OutboxLists,
           policy_version : Versions, core_version : Versions]

\* What the constants are.  Whoever asks states the versions: only one of the planners looks.
PlannersParameters ==
    /\ ObjectLists \subseteq ObjectRequests
    /\ BlobLists \subseteq BlobRequests
    /\ OutboxLists \subseteq EffectRequests
    /\ "" \notin Versions

VARIABLES
    input,   \* the request
    python,  \* what the reference planner answered: nothing yet, or one outcome
    rust     \* the same for the second planner

vars == <<input, python, rust>>

Init == input \in Inputs /\ python = <<>> /\ rust = <<>>

PlanInPython ==
    /\ python = <<>>
    /\ python' = <<PlanCommit(input)>>
    /\ UNCHANGED <<input, rust>>

PlanInRust ==
    /\ rust = <<>>
    /\ rust' = <<RustPlanCommit(input)>>
    /\ UNCHANGED <<input, python>>

Next == PlanInPython \/ PlanInRust

Spec == Init /\ [][Next]_vars

-----------------------------------------------------------------------------
(* Properties. *)

\* "Both implementations ... must produce byte-identical decisions, rejections,
\* roots, receipts, and effect plans" (docs/architecture/strict-fcis.md:101): for
\* every request, several things wrong with it included, the two planners give the
\* same first refusal or the same record.
Parity == python # <<>> /\ rust # <<>> => python = rust

\* Every plan the planner hands out is one the publisher accepts: what plan_commit
\* lets through, validate_commit_bundle derives again (commit.py:412-555).
PlansValidate ==
    python # <<>> /\ python[1].code = Ok => ValidBundle(BundleOf(input))

\* The two planners and the publisher judge every request alike.
PlannersAgree == Parity /\ PlansValidate
=============================================================================
