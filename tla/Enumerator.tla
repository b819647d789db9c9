----------------------------- MODULE Enumerator -----------------------------
(***************************************************************************)
(* refinement/enumerator.py: the breadth-first search over the abstract    *)
(* states of a profile.  Every visited state is asked every case, a        *)
(* command and a time class; an accepted or committed-failure answer gives *)
(* a successor, which is visited unless the budget is spent.               *)
(*                                                                         *)
(* The transition system is any: Cases are numbered in the order of the    *)
(* two loops, and a case that is rejected has no successor.  What a case   *)
(* answers is SingleSlot's matter; a state is its hash; the corpus is      *)
(* counted.                                                                *)
(***************************************************************************)
EXTENDS Naturals, Sequences, SequencesExt, FiniteSets

CONSTANTS
    States, Start,
    Cases,          \* how many commands and time classes there are
    Systems,        \* the transition systems that are enumerated
    Budgets,        \* values of max_states
    Rejected        \* the answer of a rejected case

ASSUME EnumeratorAssumption ==
    /\ IsFiniteSet(States)
    /\ Start \in States /\ Rejected \notin States
    /\ Cases \in Nat \ {0}
    /\ Systems \subseteq [States -> [1..Cases -> States \cup {Rejected}]]
    /\ Budgets \subseteq Nat \ {0}

VARIABLES
    answers,        \* what every case is answered
    max_states,
    visited, queue,
    state,          \* the state taken from the queue
    case,           \* the case it is asked next
    total_cases,
    budget_exhausted,
    pc              \* "taking", "asking" or "done"

vars == <<answers, max_states, visited, queue, state, case, total_cases, budget_exhausted, pc>>

-----------------------------------------------------------------------------
Init ==
    /\ answers \in Systems
    /\ max_states \in Budgets
    /\ visited = {Start} /\ queue = <<Start>>
    /\ state = Start /\ case = 1
    /\ total_cases = 0
    /\ budget_exhausted = FALSE
    /\ pc = "taking"

Take ==
    /\ pc = "taking" /\ queue # <<>>
    /\ state' = Head(queue) /\ queue' = Tail(queue)
    /\ case' = 1
    /\ pc' = "asking"
    /\ UNCHANGED <<answers, max_states, visited, total_cases, budget_exhausted>>

Finish ==
    /\ pc = "taking" /\ queue = <<>>
    /\ pc' = "done"
    /\ UNCHANGED <<answers, max_states, visited, queue, state, case, total_cases, budget_exhausted>>

LastCase == case = Cases

\* To the next case, or to the next state.
Advance ==
    /\ case' = case + 1
    /\ pc' = IF LastCase THEN "taking" ELSE "asking"

\* Slip: the budget allows one state more.
SpentLate == Cardinality(visited) > max_states

Spent == Cardinality(visited) >= max_states

New(successor) == successor # Rejected /\ successor \notin visited

\* One case: it counts, whatever it is answered.
Ask ==
    LET successor == answers[state][case]
    IN  /\ pc = "asking"
        /\ total_cases' = total_cases + 1
        /\ IF ~New(successor)
           THEN Advance /\ UNCHANGED <<visited, queue, budget_exhausted>>
           ELSE IF Spent
           THEN budget_exhausted' = TRUE /\ pc' = "done" /\ UNCHANGED <<visited, queue, case>>
           ELSE /\ visited' = visited \cup {successor}
                /\ queue' = Append(queue, successor)
                /\ Advance
                /\ UNCHANGED budget_exhausted
        /\ UNCHANGED <<answers, max_states, state>>

Next == Take \/ Finish \/ Ask

Spec == Init /\ [][Next]_vars

-----------------------------------------------------------------------------
Closed(set) ==
    \A s \in set, c \in 1..Cases : answers[s][c] \in set \cup {Rejected}

\* The states that can be reached: the least closed set with the initial state.
Reachable ==
    LET closed == {set \in SUBSET States : Start \in set /\ Closed(set)}
    IN  {s \in States : \A set \in closed : s \in set}

\* A search that says it is complete is: it visited the initial state and every successor of a
\* state it visited (enumerator.py:216-246 "search_complete").
CompleteIsClosed ==
    pc = "done" /\ ~budget_exhausted => Start \in visited /\ Closed(visited)

\* The budget is met exactly (test_market_adapter.py:1239 "reachable_states == 3"): the search
\* never visits more states than it may, gives up only if there is one too many, and then has
\* visited as many as it may, all of them reachable.
BudgetExact ==
    /\ visited \subseteq Reachable
    /\ Cardinality(visited) <= max_states
    /\ pc = "done" =>
           (budget_exhausted <=> Cardinality(Reachable) > max_states)
    /\ budget_exhausted => Cardinality(visited) = max_states

\* A complete corpus has every case of every reachable state once, and no other
\* (enumerator.py:182-195).
CorpusComplete ==
    pc = "done" /\ ~budget_exhausted => total_cases = Cardinality(Reachable) * Cases

\* What the search reports of itself is true (enumerator.py:132-247).
ReportTrue == CompleteIsClosed /\ BudgetExact /\ CorpusComplete
=============================================================================
