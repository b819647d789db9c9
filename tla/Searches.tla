------------------------------ MODULE Searches ------------------------------
(***************************************************************************)
(* The three searches of the program, Enumerator, Transfer and Doctor,     *)
(* under one roof.  They share no state.                                   *)
(***************************************************************************)
EXTENDS Enumerator

CONSTANTS
    NodesOfGraph, From, To, Graphs, Depths,             \* Transfer's
    NodesOfPad, NoRef, EdgesOfPad, MaxEdges, Rooms      \* Doctor's

VARIABLES
    graph, max_depth, require_validated, paths, found,  \* Transfer's
    edges, room, tried, frames, seen, on_stack, answer  \* Doctor's

transferring == <<graph, max_depth, require_validated, paths, found>>
diagnosing == <<edges, room, tried, frames, seen, on_stack, answer>>

T == INSTANCE Transfer WITH Nodes <- NodesOfGraph, edges <- graph, queue <- paths

D == INSTANCE Doctor WITH Nodes <- NodesOfPad, Edges <- EdgesOfPad, visited <- seen

ASSUME SearchesAssumption == T!TransferParameters /\ D!DoctorParameters

-----------------------------------------------------------------------------
\* The search for transfer paths finds every path there is and no other, and hides nothing that
\* is open on it (core/graph.py:257-357).
PathsTrue == T!PathsTrue

\* The doctor, if its search is not cut short by RecursionError, reports a cycle of supersedes
\* edges if and only if there is one (doctor.py:306-358).
VerdictTrue == D!VerdictTrue
=============================================================================
