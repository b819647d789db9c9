------------------------------ MODULE MCChecks ------------------------------
(***************************************************************************)
(* An instance of Checks: two processes and two hypotheses.  The list of   *)
(* h1 repeats a recipe and names a neutral one and something that is no    *)
(* recipe; that of h2 names a neutral one only, so there is nothing to run *)
(* for it.  Somebody writes evidence for the supporting recipe that nobody *)
(* ran and an edge over it, and evidence of the refuting recipe about h2,  *)
(* which are imported in quarantine; and evidence without a status made    *)
(* with the neutral recipe, and the same edge, imported with a receipt     *)
(* that is trusted.                                                        *)
(***************************************************************************)
EXTENDS Checks

CONSTANTS h1, h2, p, q, support, refute, neutral, blob

Verdicts == (support :> "support") @@ (refute :> "refute") @@ (neutral :> "neutral")

Lists == (h1 :> <<support, blob, refute, support, neutral>>) @@ (h2 :> <<neutral>>)

Evidence(hyp, recipe, status) ==
    [schema |-> "evidence", run |-> None, recipe_ref |-> recipe, context_ref |-> None,
     subject_refs |-> {hyp}, status |-> status]

Forged == Evidence(h1, support, "PASS")

ForgedEdge ==
    [schema |-> "edge", kind |-> "supports", to_ref |-> h1, context_ref |-> None,
     evidence_refs |-> {Forged}]

SomeWritten ==
    {[objects |-> {Evidence(h1, neutral, ""), ForgedEdge}, policy |-> "import_trusted_receipt"],
     [objects |-> {Forged, ForgedEdge, Evidence(h2, refute, "PASS")}, policy |-> Quarantined]}

SomeDrafts == {[kind |-> "refutes", to_ref |-> h1, context_ref |-> None]}

Interchangeable == Permutations({p, q})
=============================================================================
