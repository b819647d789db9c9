------------------------------ MODULE Transfer ------------------------------
(***************************************************************************)
(* find_transfer_paths of core/graph.py: the simple paths over semantic    *)
(* edges from one object to another, found breadth first, each with the    *)
(* obligations its edges leave open.                                       *)
(*                                                                         *)
(* An edge is the object its ref names, so two edges differ in what they   *)
(* say.  Evidence is [recipe_ref, status]; evidence that cannot be read is *)
(* not in evidence_refs.  The order of the answer is left out.             *)
(***************************************************************************)
EXTENDS Naturals, Sequences, SequencesExt, FiniteSets

CONSTANTS
    Nodes, From, To,
    Graphs,         \* sets of edges: from_ref, to_ref, tag, obligations, evidence_refs
    Depths          \* values of max_depth

\* What the code makes sure of before it searches, and what a graph is.
TransferParameters ==
    /\ From \in Nodes /\ To \in Nodes /\ Depths \subseteq 1..12
    /\ IsFiniteSet(Nodes)
    /\ \A graph \in Graphs : IsFiniteSet(graph)
    /\ \A graph \in Graphs : \A edge \in graph : \A evidence \in edge.evidence_refs :
           evidence = [recipe_ref |-> evidence.recipe_ref, status |-> evidence.status]

VARIABLES
    edges, max_depth, require_validated,
    queue,          \* paths to go on with: node, edges so far, nodes so far
    found           \* paths that reached To

vars == <<edges, max_depth, require_validated, queue, found>>

-----------------------------------------------------------------------------
\* Slip: evidence of any status satisfies an obligation.
SatisfiedByAny(recipe, edge) == \E evidence \in edge.evidence_refs : evidence.recipe_ref = recipe

\* _obligation_satisfied.
Satisfied(recipe, edge) ==
    \E evidence \in edge.evidence_refs : evidence.recipe_ref = recipe /\ evidence.status = "pass"

Open(edge) == {recipe \in edge.obligations : ~Satisfied(recipe, edge)}

OpenOnPath(path) == UNION {{<<edge, recipe>> : recipe \in Open(edge)} : edge \in ToSet(path)}

\* The adjacency: an edge leads forward, an equivalence back as well.
Targets(edge, node) ==
    (IF edge.from_ref = node THEN {edge.to_ref} ELSE {})
        \cup (IF edge.tag = "equivalent" /\ edge.to_ref = node THEN {edge.from_ref} ELSE {})

Init ==
    /\ edges \in Graphs /\ max_depth \in Depths /\ require_validated \in BOOLEAN
    /\ queue = <<[node |-> From, path |-> <<>>, nodes |-> {From}]>>
    /\ found = {}

\* The steps an entry may be made longer by: an edge, and where it leads.
Onward(entry) ==
    {step \in edges \X Nodes :
        /\ step[2] \in Targets(step[1], entry.node) \ entry.nodes
        /\ ~(require_validated /\ Open(step[1]) # {})}

Longer(entry) ==
    {[node |-> step[2], path |-> Append(entry.path, step[1]), nodes |-> entry.nodes \cup {step[2]}] :
        step \in Onward(entry)}

Deep(entry) == Len(entry.path) >= max_depth

\* One turn of the loop: the path arrives, is too long, or is made longer in every way.
Step ==
    /\ queue # <<>>
    /\ LET entry == Head(queue)
       IN  /\ found' = IF entry.node = To
                       THEN found \cup {[path |-> entry.path, open |-> OpenOnPath(entry.path)]}
                       ELSE found
           /\ queue' = Tail(queue) \o
                           (IF entry.node = To \/ Deep(entry) THEN <<>>
                            ELSE SetToSeq(Longer(entry)))
    /\ UNCHANGED <<edges, max_depth, require_validated>>

Next == Step

Spec == Init /\ [][Next]_vars

-----------------------------------------------------------------------------
(* What a transfer path is, without a search. *)

\* A way is a sequence of different nodes, and an edge from each to the next in either
\* direction that its tag allows.
Joins(edge, a, b) ==
    \/ edge.from_ref = a /\ edge.to_ref = b
    \/ edge.tag = "equivalent" /\ edge.from_ref = b /\ edge.to_ref = a

Ways(length) ==
    {way \in [1..length + 1 -> Nodes] :
        way[1] = From /\ way[length + 1] = To /\ IsInjective(way)}

PathsAlong(way) ==
    {path \in [1..Len(way) - 1 -> edges] :
        \A i \in DOMAIN path :
            /\ Joins(path[i], way[i], way[i + 1])
            /\ require_validated =>
                   \A recipe \in path[i].obligations :
                       [recipe_ref |-> recipe, status |-> "pass"] \in path[i].evidence_refs}

TransferPaths == UNION {PathsAlong(way) : way \in UNION {Ways(n) : n \in 0..max_depth}}

\* The search finds every path there is within the depth, in one direction over an edge and in
\* both over an equivalence, and no other (core/graph.py:271-314).
ExactlyThePaths == queue = <<>> => {entry.path : entry \in found} = TransferPaths

\* A path that is reported with nothing open has no unsatisfied obligation on any of its
\* edges, and a validated search reports no other (core/graph.py:303-305, 317-357).
NothingHidden ==
    \A entry \in found :
        /\ require_validated => entry.open = {}
        /\ \A i \in DOMAIN entry.path : \A recipe \in entry.path[i].obligations :
               <<entry.path[i], recipe>> \in entry.open <=>
                   [recipe_ref |-> recipe, status |-> "pass"] \notin entry.path[i].evidence_refs

\* The answer has every path and what is open on it (core/graph.py:257-357).
PathsTrue == ExactlyThePaths /\ NothingHidden
=============================================================================
