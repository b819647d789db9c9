----------------------------- MODULE MCSearches -----------------------------
(***************************************************************************)
(* Instances of the three searches, Enumerator, Transfer and Doctor, which *)
(* share no state: a behaviour is a run of one of them, the subject.       *)
(*                                                                         *)
(* Enumerator: every transition system of three states with two cases      *)
(* each, and every budget from one state to one more than there are.       *)
(* Transfer: every graph of up to three edges over three nodes, each edge  *)
(* an equivalence or not, without an obligation, with one that evidence    *)
(* satisfies, or with one whose only evidence failed.                      *)
(* Doctor: every list of up to four edges over four nodes, among them an   *)
(* edge that names no reference and loops of another kind, with room for   *)
(* all the calls or for one too few.                                       *)
(***************************************************************************)
EXTENDS Searches, TLC

CONSTANT recipe

VARIABLE subject    \* which search

-----------------------------------------------------------------------------
AllSystems == [States -> [1..Cases -> States \cup {Rejected}]]

KindsOfEdges ==
    {[from_ref |-> p[1], to_ref |-> p[2], tag |-> tag, obligations |-> o[1], evidence_refs |-> o[2]] :
        p \in {q \in NodesOfGraph \X NodesOfGraph : q[1] # q[2]}, tag \in {"equivalent", "implies"},
        o \in {<<{}, {}>>, <<{recipe}, {[recipe_ref |-> recipe, status |-> "pass"]}>>,
               <<{recipe}, {[recipe_ref |-> recipe, status |-> "fail"]}>>}}

SmallGraphs ==
    {{k[1], k[2], k[3]} : k \in KindsOfEdges \X KindsOfEdges \X KindsOfEdges}

\* Every supersedes edge, one that names no reference at either end, and loops of another kind.
SomeEdges ==
    {[edge_type |-> "supersedes", from_ref |-> a, to_ref |-> b] : a \in NodesOfPad, b \in NodesOfPad}
    \cup {[edge_type |-> "supersedes", from_ref |-> NoRef, to_ref |-> NoRef]}
    \cup {[edge_type |-> "refines", from_ref |-> a, to_ref |-> a] : a \in NodesOfPad}

Interchangeable == Permutations(NodesOfPad)

-----------------------------------------------------------------------------
NotEnumerating ==
    /\ answers = [s \in States |-> [c \in 1..Cases |-> Rejected]] /\ max_states = 1
    /\ visited = {Start} /\ queue = <<Start>> /\ state = Start /\ case = 1
    /\ total_cases = 0 /\ budget_exhausted = FALSE /\ pc = "taking"

NotTransferring ==
    graph = {} /\ max_depth = 1 /\ require_validated = FALSE /\ paths = <<>> /\ found = {}

NotDiagnosing ==
    /\ edges = <<>> /\ room = 4 /\ tried = 0 /\ frames = <<>> /\ seen = {} /\ on_stack = {}
    /\ answer = D!Searching

MCInit ==
    \/ subject = "enumerator" /\ Init /\ NotTransferring /\ NotDiagnosing
    \/ subject = "transfer" /\ NotEnumerating /\ T!Init /\ NotDiagnosing
    \/ subject = "doctor" /\ NotEnumerating /\ NotTransferring /\ D!Init

MCNext ==
    /\ UNCHANGED subject
    /\ \/ subject = "enumerator" /\ Next /\ UNCHANGED <<transferring, diagnosing>>
       \/ subject = "transfer" /\ T!Next /\ UNCHANGED <<vars, diagnosing>>
       \/ subject = "doctor" /\ D!Next /\ UNCHANGED <<vars, transferring>>

MCSpec == MCInit /\ [][MCNext]_<<subject, vars, transferring, diagnosing>>
=============================================================================
