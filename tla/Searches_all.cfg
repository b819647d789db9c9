SPECIFICATION MCSpec
CONSTANTS
    States = {s1, s2, s3}
    Start = s1
    Rejected = Rejected
    Cases = 2
    Budgets = {1, 2, 3, 4}
    Systems <- AllSystems
    NodesOfGraph = {a, b, c}
    From = a
    To = c
    Graphs <- SmallGraphs
    Depths = {1, 2}
    recipe = r
    NodesOfPad = {n1, n2, n3, n4}
    NoRef = NoRef
    EdgesOfPad <- SomeEdges
    MaxEdges = 4
    Rooms = {3, 4}
SYMMETRY Interchangeable
INVARIANTS
    ReportTrue
    PathsTrue
    VerdictTrue
\* A search ends.
CHECK_DEADLOCK FALSE
