------------------------------- MODULE Doctor -------------------------------
(***************************************************************************)
(* The doctor's search for cycles among the supersedes edges of a pad      *)
(* (doctor.py:306-358).  Objects are content-addressed, but an edge is an  *)
(* object of its own that names two others, so edges can close a cycle.    *)
(*                                                                         *)
(* The recursive function is a machine: a frame for each call of dfs that  *)
(* has not returned, which holds its node and the place of the edge it     *)
(* followed last.  The list named stack in the code has the nodes of the   *)
(* frames.  How many calls may be nested is what Python's limit on the     *)
(* depth of the stack leaves when the doctor is called: room.              *)
(***************************************************************************)
EXTENDS Naturals, Sequences, FiniteSets

CONSTANTS
    Nodes,    \* the references edges can name
    NoRef,    \* what an edge may name instead: no reference
    Edges,    \* the edges a pad can hold: [edge_type, from_ref, to_ref]
    MaxEdges, \* bound: edges in the pad
    Rooms     \* how many calls of dfs may be nested

\* What the constants are.
DoctorParameters ==
    /\ NoRef \notin Nodes /\ Rooms \subseteq Nat \ {0} /\ MaxEdges \in Nat
    /\ Edges \subseteq [edge_type : {"supersedes", "refines"},
                        from_ref : Nodes \cup {NoRef}, to_ref : Nodes \cup {NoRef}]

VARIABLES
    edges,     \* the edge objects, in the order of the log
    room,      \* the calls of dfs that may be nested
    tried,     \* the place of the key of the graph that was tried last
    frames,    \* the nested calls of dfs: [node, at]
    visited, on_stack,
    answer     \* "searching", "none", "cycle" or "RecursionError"; with the cycle found

vars == <<edges, room, tried, frames, visited, on_stack, answer>>

-----------------------------------------------------------------------------
Counted(edge) ==
    edge.edge_type = "supersedes" /\ edge.from_ref \in Nodes /\ edge.to_ref \in Nodes

\* graph[node] is the list of the ends of these edges, by their places.
Out(node) == {i \in DOMAIN edges : Counted(edges[i]) /\ edges[i].from_ref = node}

\* Slip: only from the nodes that no edge leads to.
RootKeys ==
    {i \in DOMAIN edges :
        /\ i \in Out(edges[i].from_ref)
        /\ \A j \in DOMAIN edges : Counted(edges[j]) => edges[j].to_ref # edges[i].from_ref}

\* list(graph.keys()): every node with an edge, at the place of its first.
Keys ==
    {i \in DOMAIN edges :
        i \in Out(edges[i].from_ref) /\ \A j \in Out(edges[i].from_ref) : i <= j}

After(place, places) == {i \in places : i > place}
First(places) == CHOOSE i \in places : \A j \in places : i <= j

Stack == [i \in DOMAIN frames |-> frames[i].node]
Top == frames[Len(frames)]
ToFollow == After(Top.at, Out(Top.node))
Next1 == edges[First(ToFollow)].to_ref

Searching == [found |-> "searching", cycle |-> <<>>]
Answer(found, cycle) == [found |-> found, cycle |-> cycle]

\* From the first place of the node on the stack to its end, and back to the node.
Extracted(node) ==
    LET first == CHOOSE i \in DOMAIN Stack :
                    Stack[i] = node /\ \A j \in 1..(i - 1) : Stack[j] # node
    IN  SubSeq(Stack, first, Len(Stack)) \o <<node>>

Init ==
    /\ \E n \in 0..MaxEdges : edges \in [1..n -> Edges]
    /\ room \in Rooms
    /\ tried = 0
    /\ frames = <<>> /\ visited = {} /\ on_stack = {}
    /\ answer = Searching

\* dfs(node) called from the frames below.
Enter(below, node) ==
    /\ frames' = Append(below, [node |-> node, at |-> 0])
    /\ visited' = visited \cup {node}
    /\ on_stack' = on_stack \cup {node}

StartNext ==
    /\ answer = Searching /\ frames = <<>> /\ After(tried, Keys) # {}
    /\ tried' = First(After(tried, Keys))
    /\ LET start == edges[First(After(tried, Keys))].from_ref
       IN  IF start \in visited THEN UNCHANGED <<frames, visited, on_stack>> ELSE Enter(<<>>, start)
    /\ UNCHANGED <<edges, room, answer>>

AtSuccessor == answer = Searching /\ frames # <<>> /\ ToFollow # {}
Advanced == [frames EXCEPT ![Len(frames)].at = First(ToFollow)]

ClosesCycle(node) == node \in on_stack

FoundCycle ==
    /\ AtSuccessor /\ ClosesCycle(Next1)
    /\ answer' = Answer("cycle", IF Next1 \in {Stack[i] : i \in DOMAIN Stack}
                                 THEN Extracted(Next1) ELSE <<Next1, Next1>>)
    /\ UNCHANGED <<edges, room, tried, frames, visited, on_stack>>

Descend ==
    /\ AtSuccessor /\ ~ClosesCycle(Next1) /\ Next1 \notin visited /\ Len(frames) < room
    /\ Enter(Advanced, Next1)
    /\ UNCHANGED <<edges, room, tried, answer>>

\* The interpreter refuses the call; nothing in check catches what it raises.
TooDeep ==
    /\ AtSuccessor /\ ~ClosesCycle(Next1) /\ Next1 \notin visited /\ Len(frames) >= room
    /\ answer' = Answer("RecursionError", <<>>)
    /\ UNCHANGED <<edges, room, tried, frames, visited, on_stack>>

Skip ==
    /\ AtSuccessor /\ ~ClosesCycle(Next1) /\ Next1 \in visited
    /\ frames' = Advanced
    /\ UNCHANGED <<edges, room, tried, visited, on_stack, answer>>

Left(node) == on_stack \ {node}

Return ==
    /\ answer = Searching /\ frames # <<>> /\ ToFollow = {}
    /\ frames' = SubSeq(frames, 1, Len(frames) - 1)
    /\ on_stack' = Left(Top.node)
    /\ UNCHANGED <<edges, room, tried, visited, answer>>

FoundNone ==
    /\ answer = Searching /\ frames = <<>> /\ After(tried, Keys) = {}
    /\ answer' = Answer("none", <<>>)
    /\ UNCHANGED <<edges, room, tried, frames, visited, on_stack>>

Next == StartNext \/ FoundCycle \/ Descend \/ TooDeep \/ Skip \/ Return \/ FoundNone

Spec == Init /\ [][Next]_vars

-----------------------------------------------------------------------------
(* Properties, against the edges themselves. *)

Precedes(a, b) ==
    \E i \in DOMAIN edges :
        edges[i] = [edge_type |-> "supersedes", from_ref |-> a, to_ref |-> b]

\* What the doctor reports is a cycle of supersedes edges, named in order and closed,
\* not two paths that meet (doctor.py:325-358): a report makes a pad fail its check.
CyclesAreReal ==
    answer.found = "cycle" =>
        LET c == answer.cycle
        IN  /\ Len(c) > 1 /\ c[1] = c[Len(c)]
            /\ \A i \in 1..(Len(c) - 1) : Precedes(c[i], c[i + 1])
            /\ \A i, j \in 1..(Len(c) - 1) : c[i] = c[j] => i = j

\* When it reports none there is none, parallel edges, several components and edges
\* of other kinds notwithstanding: a cycle is a set of nodes each of which supersedes
\* one of the set.
NoneIsMissed ==
    answer.found = "none" =>
        ~\E C \in SUBSET Nodes : C # {} /\ \A a \in C : \E b \in C : Precedes(a, b)

\* When the search comes to an answer, there is a cycle if and only if one is reported.  It comes to
\* none when a path is longer than the interpreter nests calls: then RecursionError leaves the
\* doctor without a report of either kind (doctor.py:325-358).
VerdictTrue == CyclesAreReal /\ NoneIsMissed
=============================================================================
