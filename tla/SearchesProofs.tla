--------------------------- MODULE SearchesProofs ---------------------------
(***************************************************************************)
(* What is proved about the three searches: Enumerator, for every          *)
(* transition system over finitely many states, any number of cases and    *)
(* every budget; Doctor, for every list of edges and every depth of the    *)
(* stack; Transfer, for every finite graph and every depth.                *)
(***************************************************************************)
EXTENDS Searches, FiniteSetTheorems, SequenceTheorems, WellFoundedInduction, TLAPS

-----------------------------------------------------------------------------
(***************************************************************************)
(* Enumerator.  The inductive invariant.                                   *)
(***************************************************************************)

Typed ==
    /\ answers \in [States -> [1..Cases -> States \cup {Rejected}]]
    /\ max_states \in Nat \ {0}
    /\ visited \subseteq States /\ Start \in visited
    /\ queue \in Seq(visited)
    /\ state \in visited
    /\ case \in Nat \ {0} /\ (pc = "asking" => case <= Cases)
    /\ total_cases \in Nat
    /\ budget_exhausted \in BOOLEAN
    /\ pc \in {"taking", "asking", "done"}

\* Every case of s before the n-th has its successor among the visited states.
AskedBefore(s, n) ==
    \A c \in 1..Cases : c < n => answers[s][c] \in visited \cup {Rejected}

\* Unless it gave up, a visited state has been asked everything, is in the queue, or is being
\* asked.
Worked ==
    ~budget_exhausted => \A s \in visited :
        \/ AskedBefore(s, Cases + 1)
        \/ \E i \in DOMAIN queue : queue[i] = s
        \/ pc = "asking" /\ s = state

Asking == pc = "asking" => AskedBefore(state, case)

\* The search ends with an empty queue, or in the middle of a state it was not to visit.
Ended ==
    /\ budget_exhausted => pc = "done" /\ (\E s \in Reachable : s \notin visited)
    /\ pc = "done" /\ ~budget_exhausted => queue = <<>>

Within ==
    /\ visited \subseteq Reachable
    /\ Cardinality(visited) <= max_states
    /\ budget_exhausted => Cardinality(visited) = max_states

\* The states that have been asked every case, and the cases asked of the one at hand.
Processed == Cardinality(visited) - Len(queue) - (IF pc = "asking" THEN 1 ELSE 0)

Counting ==
    ~budget_exhausted =>
        total_cases = Cases * Processed + (IF pc = "asking" THEN case - 1 ELSE 0)

IInv == Typed /\ Worked /\ Asking /\ Ended /\ Within /\ Counting

-----------------------------------------------------------------------------
(* Closed sets and what can be reached. *)

\* Every set that is closed and has the initial state has every state that can be reached.
LEMMA ReachableLeast ==
    ASSUME NEW set \in SUBSET States, Start \in set, Closed(set)
    PROVE  Reachable \subseteq set
  BY DEF Reachable

\* What a reachable state answers can be reached.
LEMMA ReachableClosed ==
    ASSUME Typed, NEW s \in Reachable, NEW c \in 1..Cases, answers[s][c] # Rejected
    PROVE  answers[s][c] \in Reachable
<1>1. s \in States
  BY DEF Reachable
<1>2. answers[s][c] \in States
  BY <1>1 DEF Typed
<1>3. ASSUME NEW set \in SUBSET States, Start \in set, Closed(set)
      PROVE  answers[s][c] \in set
  <2>1. s \in set
    BY <1>3 DEF Reachable
  <2> QED
    BY <1>3, <2>1 DEF Closed
<1> QED
  BY <1>2, <1>3 DEF Reachable

\* The initial state can be reached.
LEMMA StartReachable == Start \in Reachable
  BY EnumeratorAssumption DEF Reachable

\* Sets of states are finite.
LEMMA FiniteStates ==
    ASSUME NEW set \in SUBSET States
    PROVE  IsFiniteSet(set) /\ Cardinality(set) \in Nat
  BY EnumeratorAssumption, FS_Subset, FS_CardinalityType

-----------------------------------------------------------------------------
\* The search begins in the invariant.
LEMMA InitIInv == Init => IInv
<1> SUFFICES ASSUME Init PROVE IInv
  OBVIOUS
<1> USE EnumeratorAssumption DEF Init
<1>1. Typed
  <2>1. <<Start>> \in Seq({Start})
    OBVIOUS
  <2>2. answers \in [States -> [1..Cases -> States \cup {Rejected}]] /\ max_states \in Nat \ {0}
    OBVIOUS
  <2>3. state \in visited /\ visited \subseteq States /\ Start \in visited
    OBVIOUS
  <2>4. case \in Nat \ {0} /\ pc = "taking" /\ total_cases \in Nat /\ budget_exhausted = FALSE
    OBVIOUS
  <2>5. queue \in Seq(visited)
    BY <2>1
  <2> QED
    BY <2>2, <2>3, <2>4, <2>5 DEF Typed
<1>2. Cardinality(visited) = 1
  BY FS_Singleton
<1>3. Worked /\ Asking /\ Ended
  BY DEF Worked, Asking, Ended
<1>4. Within
  BY <1>1, <1>2, StartReachable DEF Within, Typed
<1>5. Counting
  <2>1. Processed = 0
    BY <1>2 DEF Processed
  <2> QED
    BY <2>1 DEF Counting
<1> QED
  BY <1>1, <1>3, <1>4, <1>5 DEF IInv

\* Taking a state from the queue keeps the invariant.
LEMMA TakeIInv == ASSUME IInv, Take PROVE IInv'
<1> USE EnumeratorAssumption
<1>1. queue # <<>> /\ queue \in Seq(visited) /\ pc = "taking" /\ ~budget_exhausted
  BY DEF IInv, Typed, Take, Ended
<1>2. /\ Head(queue) \in visited /\ Tail(queue) \in Seq(visited)
      /\ Len(Tail(queue)) = Len(queue) - 1
      /\ \A i \in DOMAIN queue : i # 1 => i - 1 \in DOMAIN Tail(queue) /\ Tail(queue)[i - 1] = queue[i]
      /\ Head(queue) = queue[1]
  BY <1>1
<1>3. Typed'
  BY <1>2 DEF IInv, Typed, Take
<1>4. Worked'
  <2> SUFFICES ASSUME NEW s \in visited
               PROVE  \/ AskedBefore(s, Cases + 1)
                      \/ \E i \in DOMAIN Tail(queue) : Tail(queue)[i] = s
                      \/ s = Head(queue)
    BY <1>1 DEF Take, Worked, AskedBefore
  <2>1. CASE AskedBefore(s, Cases + 1)
    BY <2>1
  <2>2. CASE \E i \in DOMAIN queue : queue[i] = s
    BY <2>2, <1>2
  <2> QED
    BY <2>1, <2>2, <1>1 DEF IInv, Worked
<1>5. Asking'
  BY DEF Asking, AskedBefore, Take
<1>6. Ended' /\ Within'
  BY <1>1 DEF IInv, Ended, Within, Take, Reachable, Closed
<1>7. Processed' = Processed
  <2>1. Cardinality(visited) \in Nat /\ Len(queue) \in Nat
    BY <1>1, FiniteStates DEF IInv, Typed
  <2> QED
    BY <1>1, <1>2, <2>1 DEF Processed, Take
<1>8. Counting'
  BY <1>1, <1>7 DEF IInv, Counting, Take
<1> QED
  BY <1>3, <1>4, <1>5, <1>6, <1>8 DEF IInv

\* So does the end of the search.
LEMMA FinishIInv == ASSUME IInv, Finish PROVE IInv'
<1>1. Typed' /\ Worked' /\ Asking'
  BY DEF IInv, Typed, Worked, Asking, AskedBefore, Finish
<1>2. Ended' /\ Within'
  BY DEF IInv, Ended, Within, Finish, Reachable, Closed
<1>3. Counting'
  BY DEF IInv, Counting, Processed, Finish
<1> QED
  BY <1>1, <1>2, <1>3 DEF IInv

-----------------------------------------------------------------------------
(* One case is asked. *)

\* The state at hand can be reached, and so can what it answers.
LEMMA AnswerReachable ==
    ASSUME IInv, Ask, New(answers[state][case])
    PROVE  answers[state][case] \in Reachable /\ answers[state][case] \in States \ visited
<1>1. case \in 1..Cases /\ state \in Reachable
  BY EnumeratorAssumption DEF IInv, Typed, Within, Ask
<1>2. answers[state][case] \in Reachable
  BY <1>1, ReachableClosed DEF IInv, New
<1> QED
  BY <1>2 DEF Reachable, New

\* With the last case the state has been asked everything, with another it goes on.
LEMMA AdvanceWorked ==
    ASSUME IInv, Ask, Advance, visited \subseteq visited',
           answers[state][case] \in visited' \cup {Rejected},
           NEW s \in visited,
           (\E i \in DOMAIN queue : queue[i] = s) => (\E i \in DOMAIN queue' : queue'[i] = s)
    PROVE  \/ AskedBefore(s, Cases + 1)'
           \/ \E i \in DOMAIN queue' : queue'[i] = s
           \/ pc' = "asking" /\ s = state'
<1> USE EnumeratorAssumption
<1>1. /\ answers' = answers /\ state' = state
      /\ pc = "asking" /\ case \in 1..Cases /\ ~budget_exhausted
  BY DEF Ask, IInv, Typed, Ended
<1>2. CASE AskedBefore(s, Cases + 1)
  BY <1>1, <1>2 DEF AskedBefore
<1>3. CASE \E i \in DOMAIN queue : queue[i] = s
  BY <1>3
<1>4. CASE s = state /\ ~LastCase
  BY <1>1, <1>4 DEF Advance
<1>5. CASE s = state /\ LastCase
  <2>1. AskedBefore(s, case)
    BY <1>1, <1>5 DEF IInv, Asking
  <2>2. \A c \in 1..Cases : c < case \/ c = case
    BY <1>1, <1>5 DEF LastCase
  <2> QED
    BY <1>1, <1>5, <2>1, <2>2 DEF AskedBefore
<1> QED
  BY <1>1, <1>2, <1>3, <1>4, <1>5 DEF IInv, Worked

\* The cases asked of the next state to be asked start over.
LEMMA AdvanceAsking ==
    ASSUME IInv, Ask, Advance, visited \subseteq visited',
           answers[state][case] \in visited' \cup {Rejected}
    PROVE  Asking'
<1> USE EnumeratorAssumption
<1>1. answers' = answers /\ state' = state /\ case' = case + 1 /\ case \in Nat
  BY DEF Ask, Advance, IInv, Typed
<1>2. AskedBefore(state, case)
  BY DEF Ask, IInv, Asking
<1>3. \A c \in 1..Cases : c < case + 1 => c < case \/ c = case
  BY <1>1
<1>4. AskedBefore(state, case)'
  BY <1>1, <1>2, <1>3 DEF AskedBefore
<1> QED
  BY <1>1, <1>4 DEF Asking

\* An answered case counts, and after the last one its state does.
LEMMA AdvanceCounting ==
    ASSUME IInv, Ask, Advance, ~budget_exhausted', Len(queue) \in Nat, Len(queue') \in Nat,
           Cardinality(visited) \in Nat, Cardinality(visited') \in Nat,
           Cardinality(visited') - Len(queue') = Cardinality(visited) - Len(queue)
    PROVE  Counting'
<1> USE EnumeratorAssumption
<1> DEFINE done == Cardinality(visited) - Len(queue) - 1
<1>1. /\ pc = "asking" /\ ~budget_exhausted /\ case \in Nat /\ case <= Cases /\ Cases \in Nat
      /\ total_cases' = total_cases + 1 /\ case' = case + 1
      /\ pc' = IF case = Cases THEN "taking" ELSE "asking"
  BY DEF Ask, Advance, LastCase, IInv, Typed, Ended
<1>2. Processed = done /\ done \in Int
  BY <1>1 DEF Processed
<1>3. total_cases = Cases * done + (case - 1)
  BY <1>1, <1>2 DEF IInv, Counting
<1>4. CASE case = Cases
  <2>1. Processed' = done + 1
    BY <1>1, <1>2, <1>4 DEF Processed
  <2>2. Cases * (done + 1) = Cases * done + Cases
    BY <1>1, <1>2
  <2>3. total_cases' = Cases * (done + 1)
    <3>1. Cases * done \in Int
      BY <1>1, <1>2
    <3> HIDE DEF done
    <3> QED
      BY <1>1, <1>3, <1>4, <2>2, <3>1
  <2> QED
    BY <1>1, <1>4, <2>1, <2>3 DEF Counting
<1>5. CASE case # Cases
  <2>1. Processed' = done
    BY <1>1, <1>2, <1>5 DEF Processed
  <2>2. Cases * done \in Int
    BY <1>1, <1>2
  <2>3. total_cases' = Cases * done + (case' - 1)
    <3> HIDE DEF done
    <3> QED
      BY <1>1, <1>3, <2>2
  <2> QED
    BY <1>1, <1>5, <2>1, <2>3 DEF Counting
<1> QED
  BY <1>4, <1>5

\* A case that gives nothing new keeps the invariant.
LEMMA NothingNewIInv == ASSUME IInv, Ask, ~New(answers[state][case]) PROVE IInv'
<1> USE EnumeratorAssumption
<1>1. /\ Advance
      /\ UNCHANGED <<answers, max_states, visited, queue, state, budget_exhausted>>
      /\ pc = "asking" /\ total_cases' = total_cases + 1
  BY DEF Ask
<1>2. case \in 1..Cases /\ case' = case + 1 /\ ~budget_exhausted
  BY <1>1 DEF IInv, Typed, Advance, Ended
<1>3. answers[state][case] \in visited \cup {Rejected}
  BY DEF New
<1>4. Typed'
  BY <1>1, <1>2 DEF IInv, Typed, Advance, LastCase
<1>5. Worked'
  <2> SUFFICES ASSUME NEW s \in visited
               PROVE  \/ AskedBefore(s, Cases + 1)'
                      \/ \E i \in DOMAIN queue' : queue'[i] = s
                      \/ pc' = "asking" /\ s = state'
    BY <1>1 DEF Worked
  <2> QED
    BY <1>1, <1>3, AdvanceWorked
<1>6. Asking'
  BY <1>1, <1>3, AdvanceAsking
<1>7. Ended' /\ Within'
  BY <1>1, <1>2 DEF IInv, Ended, Within, Advance, Reachable, Closed
<1>8. Counting'
  <2>1. Len(queue) \in Nat /\ Cardinality(visited) \in Nat
    BY FiniteStates DEF IInv, Typed
  <2> QED
    BY <1>1, <1>2, <2>1, AdvanceCounting
<1> QED
  BY <1>4, <1>5, <1>6, <1>7, <1>8 DEF IInv

\* Giving up keeps it: there is a state that was not visited.
LEMMA GiveUpIInv == ASSUME IInv, Ask, New(answers[state][case]), Spent PROVE IInv'
<1> USE EnumeratorAssumption
<1>1. /\ budget_exhausted' = TRUE /\ pc' = "done" /\ total_cases' = total_cases + 1
      /\ UNCHANGED <<answers, max_states, visited, queue, state, case>> /\ pc = "asking"
  BY DEF Ask
<1>2. Typed'
  BY <1>1 DEF IInv, Typed
<1>3. Worked' /\ Asking'
  BY <1>1 DEF Worked, Asking
<1>4. Reachable' = Reachable
  BY <1>1 DEF Reachable, Closed
<1>5. Ended'
  BY <1>1, <1>4, AnswerReachable DEF Ended
<1>6. Within'
  <2>1. Cardinality(visited) = max_states
    BY FiniteStates DEF IInv, Typed, Within, Spent
  <2> QED
    BY <1>1, <1>4, <2>1 DEF IInv, Within
<1>7. Counting'
  BY <1>1 DEF Counting
<1> QED
  BY <1>2, <1>3, <1>5, <1>6, <1>7 DEF IInv

\* So does a new state that is within the budget.
LEMMA VisitIInv == ASSUME IInv, Ask, New(answers[state][case]), ~Spent PROVE IInv'
<1> USE EnumeratorAssumption
<1> DEFINE successor == answers[state][case]
<1>1. /\ Advance /\ visited' = visited \cup {successor} /\ queue' = Append(queue, successor)
      /\ UNCHANGED <<answers, max_states, state, budget_exhausted>>
      /\ pc = "asking" /\ total_cases' = total_cases + 1
  BY DEF Ask
<1>2. case \in 1..Cases /\ case' = case + 1 /\ ~budget_exhausted
  BY <1>1 DEF IInv, Typed, Advance, Ended
<1>3. successor \in Reachable /\ successor \in States \ visited
  BY AnswerReachable
<1>4. /\ queue \in Seq(visited) /\ queue' \in Seq(visited')
      /\ Len(queue) \in Nat /\ Len(queue') = Len(queue) + 1
      /\ \A i \in DOMAIN queue : i \in DOMAIN queue' /\ queue'[i] = queue[i]
      /\ \E i \in DOMAIN queue' : queue'[i] = successor
  <2>1. queue \in Seq(visited)
    BY DEF IInv, Typed
  <2>2. queue \in Seq(visited')
    BY <1>1, <2>1
  <2>3. Len(queue) + 1 \in DOMAIN queue' /\ queue'[Len(queue) + 1] = successor
    BY <1>1, <2>1
  <2> HIDE DEF successor
  <2> QED
    BY <1>1, <2>1, <2>2, <2>3
<1>5. /\ Cardinality(visited) \in Nat /\ Cardinality(visited') = Cardinality(visited) + 1
      /\ Cardinality(visited) < max_states
  <2>1. /\ IsFiniteSet(visited) /\ Cardinality(visited) \in Nat /\ max_states \in Nat
    BY FiniteStates DEF IInv, Typed
  <2>2. Cardinality(visited \cup {successor}) = Cardinality(visited) + 1
    BY <1>3, <2>1, FS_AddElement
  <2> QED
    BY <1>1, <2>1, <2>2 DEF Spent
<1>6. Typed'
  BY <1>1, <1>2, <1>3, <1>4 DEF IInv, Typed, Advance, LastCase
<1>7. Worked'
  <2> SUFFICES ASSUME NEW s \in visited
               PROVE  \/ AskedBefore(s, Cases + 1)'
                      \/ \E i \in DOMAIN queue' : queue'[i] = s
                      \/ pc' = "asking" /\ s = state'
    BY <1>1, <1>4 DEF Worked
  <2> QED
    BY <1>1, <1>4, AdvanceWorked
<1>8. Asking'
  BY <1>1, AdvanceAsking
<1>9. Reachable' = Reachable
  BY <1>1 DEF Reachable, Closed
<1>10. Ended' /\ Within'
  BY <1>1, <1>2, <1>3, <1>5, <1>9 DEF IInv, Typed, Ended, Within, Advance
<1>11. Counting'
  BY <1>1, <1>2, <1>4, <1>5, AdvanceCounting
<1> QED
  BY <1>6, <1>7, <1>8, <1>10, <1>11 DEF IInv

\* The invariant holds in every state of the search.
LEMMA Inductive == Spec => []IInv
<1>1. IInv /\ [Next]_vars => IInv'
  <2> SUFFICES ASSUME IInv, [Next]_vars PROVE IInv'
    OBVIOUS
  <2>1. CASE Take
    BY <2>1, TakeIInv
  <2>2. CASE Finish
    BY <2>2, FinishIInv
  <2>3. CASE Ask
    BY <2>3, NothingNewIInv, GiveUpIInv, VisitIInv
  <2>4. CASE UNCHANGED vars
    BY <2>4 DEF vars, IInv, Typed, Worked, Asking, AskedBefore, Ended, Within, Counting,
                Processed, Reachable, Closed
  <2> QED
    BY <2>1, <2>2, <2>3, <2>4 DEF Next
<1> QED
  BY <1>1, InitIInv, PTL DEF Spec

-----------------------------------------------------------------------------
(* What a finished search has done. *)

\* A search that did not give up visited exactly what can be reached.
LEMMA CompleteVisits ==
    ASSUME IInv, pc = "done", ~budget_exhausted
    PROVE  Closed(visited) /\ visited = Reachable
<1> USE EnumeratorAssumption
<1>1. queue = <<>>
  BY DEF IInv, Ended
<1>2. Closed(visited)
  <2> SUFFICES ASSUME NEW s \in visited, NEW c \in 1..Cases
               PROVE  answers[s][c] \in visited \cup {Rejected}
    BY DEF Closed
  <2>1. AskedBefore(s, Cases + 1)
    BY <1>1 DEF IInv, Worked
  <2> QED
    BY <2>1 DEF AskedBefore
<1> QED
  BY <1>2, ReachableLeast DEF IInv, Typed, Within

\* A search that says it is complete visited the initial state and every successor of a state it
\* visited, whatever the system and the budget (enumerator.py:132-247).
THEOREM CompleteSearches == Spec => []CompleteIsClosed
<1>1. IInv => CompleteIsClosed
  BY CompleteVisits DEF IInv, Typed, CompleteIsClosed
<1> QED
  BY <1>1, Inductive, PTL

\* The search gives up exactly when more states can be reached than it may visit, and then has
\* visited as many as it may (enumerator.py:217-219).
THEOREM BudgetsExact == Spec => []BudgetExact
<1>1. ASSUME IInv PROVE BudgetExact
  <2>1. /\ IsFiniteSet(Reachable) /\ Cardinality(Reachable) \in Nat
        /\ Cardinality(visited) \in Nat /\ max_states \in Nat
    <3>1. Reachable \in SUBSET States
      BY DEF Reachable
    <3> QED
      BY <1>1, <3>1, FiniteStates DEF IInv, Typed
  <2>2. ASSUME pc = "done", budget_exhausted PROVE Cardinality(Reachable) > max_states
    <3>1. visited \subseteq Reachable /\ visited # Reachable
      BY <1>1, <2>2 DEF IInv, Ended, Within
    <3>2. Cardinality(visited) < Cardinality(Reachable)
      BY <2>1, <3>1, FS_Subset
    <3> QED
      BY <1>1, <2>1, <2>2, <3>2 DEF IInv, Within
  <2>3. ASSUME pc = "done", ~budget_exhausted PROVE ~(Cardinality(Reachable) > max_states)
    BY <1>1, <2>1, <2>3, CompleteVisits DEF IInv, Within
  <2> QED
    BY <1>1, <2>2, <2>3 DEF IInv, Typed, Within, BudgetExact
<1> QED
  BY <1>1, Inductive, PTL

\* A complete corpus has every case of every reachable state once (enumerator.py:136-195).
THEOREM CorpusesComplete == Spec => []CorpusComplete
<1>1. ASSUME IInv, pc = "done", ~budget_exhausted
      PROVE  total_cases = Cardinality(Reachable) * Cases
  <2>1. visited = Reachable /\ queue = <<>>
    BY <1>1, CompleteVisits DEF IInv, Ended
  <2>2. Cardinality(visited) \in Nat
    BY <1>1, FiniteStates DEF IInv, Typed
  <2>3. Processed = Cardinality(visited)
    BY <1>1, <2>1, <2>2 DEF Processed
  <2>4. total_cases = Cases * Cardinality(visited) + 0
    BY <1>1, <2>3 DEF IInv, Counting
  <2> QED
    BY EnumeratorAssumption, <2>1, <2>2, <2>4
<1>2. IInv => CorpusComplete
  BY <1>1 DEF CorpusComplete
<1> QED
  BY <1>2, Inductive, PTL

\* What the search reports of itself is true, for any system and any budget (enumerator.py:132-247).
THEOREM ReportsTrue == Spec => []ReportTrue
  BY CompleteSearches, BudgetsExact, CorpusesComplete, PTL DEF ReportTrue

-----------------------------------------------------------------------------
(***************************************************************************)
(* Doctor.  What is visited and no longer on the stack is done: it leads   *)
(* only to what is done, and no cycle is in it.                            *)
(***************************************************************************)
Calls == [node : NodesOfPad, at : Nat]

Done == seen \ on_stack

WellTyped ==
    /\ edges \in Seq(EdgesOfPad)
    /\ tried \in Nat
    /\ frames \in Seq(Calls)
    /\ seen \subseteq NodesOfPad

\* The nested calls are a path of different nodes, those on the stack.
Nested ==
    /\ on_stack = {frames[i].node : i \in DOMAIN frames}
    /\ on_stack \subseteq seen
    /\ \A i, j \in DOMAIN frames : frames[i].node = frames[j].node => i = j
    /\ \A i, j \in DOMAIN frames : j = i + 1 => D!Precedes(frames[i].node, frames[j].node)

\* What a call has followed is done, but for the call it waits for.
Followed ==
    \A i \in DOMAIN frames : \A k \in D!Out(frames[i].node) :
        k <= frames[i].at =>
            \/ edges[k].to_ref \in Done
            \/ i < Len(frames) /\ edges[k].to_ref = frames[i + 1].node

ClosedDone == \A a \in Done, b \in NodesOfPad : D!Precedes(a, b) => b \in Done

\* A cycle is a set of nodes each of which precedes one of the set.
Cycle(C) == C # {} /\ \A a \in C : \E b \in C : D!Precedes(a, b)

Acyclic == \A C \in SUBSET Done : ~Cycle(C)

KeysTried == \A k \in D!Keys : k <= tried => edges[k].from_ref \in seen

Exploring == WellTyped /\ Nested /\ Followed /\ ClosedDone /\ Acyclic /\ KeysTried

Diagnosis == Exploring /\ D!VerdictTrue

-----------------------------------------------------------------------------
LEMMA DoctorKnows ==
    /\ NoRef \notin NodesOfPad /\ MaxEdges \in Nat
    /\ EdgesOfPad \subseteq [edge_type : {"supersedes", "refines"},
                            from_ref : NodesOfPad \cup {NoRef}, to_ref : NodesOfPad \cup {NoRef}]
  BY SearchesAssumption DEF D!DoctorParameters

\* First finds the least place.
LEMMA LeastPlace ==
    ASSUME NEW S, S \subseteq Nat, S # {}
    PROVE  D!First(S) \in S /\ \A j \in S : D!First(S) <= j
<1>1. PICK i \in S : \A k \in S : ~(k < i)
  <2> DEFINE Less == {ss \in Nat \X Nat : ss[1] < ss[2]}
  <2>1. IsWellFoundedOn(Less, Nat)
    BY NatLessThanWellFounded, Zenon DEF OpToRel
  <2> HIDE DEF Less
  <2>2. PICK i \in S : \A k \in S : ~(<<k, i>> \in Less)
    BY <2>1, WFMin
  <2>3. ASSUME NEW k \in S, k < i PROVE FALSE
    <3>1. <<k, i>> \in Less
      BY <2>2, <2>3 DEF Less
    <3> QED
      BY <2>2, <2>3, <3>1
  <2> QED
    BY <2>2, <2>3
<1>2. \A j \in S : i <= j
  BY <1>1
<1> QED
  BY <1>1, <1>2 DEF D!First

\* Precedes, by the edges that lead out of a node.
LEMMA OutOf ==
    ASSUME WellTyped, NEW a \in NodesOfPad
    PROVE  /\ D!Out(a) \subseteq Nat /\ D!Out(a) \subseteq DOMAIN edges
           /\ \A k \in D!Out(a) : edges[k].from_ref = a /\ edges[k].to_ref \in NodesOfPad
                                /\ D!Precedes(a, edges[k].to_ref)
           /\ \A b \in NodesOfPad : D!Precedes(a, b) => \E k \in D!Out(a) : edges[k].to_ref = b
<1>1. D!Out(a) \subseteq Nat /\ D!Out(a) \subseteq DOMAIN edges
  BY DEF D!Out, WellTyped
<1>2. ASSUME NEW k \in D!Out(a)
      PROVE  /\ edges[k].from_ref = a /\ edges[k].to_ref \in NodesOfPad
             /\ D!Precedes(a, edges[k].to_ref)
  <2>1. edges[k] \in EdgesOfPad /\ k \in DOMAIN edges
    BY <1>1 DEF WellTyped
  <2>2. /\ edges[k].edge_type = "supersedes" /\ edges[k].from_ref = a
        /\ edges[k].to_ref \in NodesOfPad
    BY DEF D!Out, D!Counted
  <2>3. edges[k] = [edge_type |-> "supersedes", from_ref |-> a, to_ref |-> edges[k].to_ref]
    BY <2>1, <2>2, DoctorKnows
  <2> QED
    BY <2>1, <2>2, <2>3 DEF D!Precedes
<1>3. ASSUME NEW b \in NodesOfPad, D!Precedes(a, b)
      PROVE  \E k \in D!Out(a) : edges[k].to_ref = b
  BY <1>3 DEF D!Precedes, D!Out, D!Counted
<1> QED
  BY <1>1, <1>2, <1>3

\* The last of the calls.
LEMMA TopCall ==
    ASSUME WellTyped, frames # <<>>
    PROVE  /\ Len(frames) \in DOMAIN frames /\ Len(frames) \in Nat \ {0}
           /\ DOMAIN frames = 1..Len(frames)
           /\ D!Top = frames[Len(frames)] /\ D!Top \in Calls
           /\ D!ToFollow = {k \in D!Out(D!Top.node) : k > D!Top.at}
  BY DEF WellTyped, D!Top, D!ToFollow, D!After

\* What is said of the edges stays so while they do.
LEMMA SameEdges ==
    ASSUME edges' = edges
    PROVE  /\ \A a, b : D!Precedes(a, b)' <=> D!Precedes(a, b)
           /\ \A a : D!Out(a)' = D!Out(a)
           /\ D!Keys' = D!Keys
  BY DEF D!Precedes, D!Out, D!Keys, D!Counted

\* The edge that is followed next, and the frames once it is.
LEMMA Advancing ==
    ASSUME Exploring, D!AtSuccessor
    PROVE  /\ D!Next1 \in NodesOfPad
           /\ D!Precedes(frames[Len(frames)].node, D!Next1)
           /\ D!Advanced \in Seq(Calls) /\ Len(D!Advanced) = Len(frames)
           /\ \A i \in DOMAIN frames : D!Advanced[i].node = frames[i].node
           /\ \A i \in DOMAIN frames : i # Len(frames) => D!Advanced[i] = frames[i]
           /\ \A k \in D!Out(frames[Len(frames)].node) :
                  k <= D!Advanced[Len(frames)].at =>
                      k <= frames[Len(frames)].at \/ edges[k].to_ref = D!Next1
<1> DEFINE top == frames[Len(frames)]
           next == D!First(D!ToFollow)
<1>1. WellTyped /\ frames # <<>> /\ D!ToFollow # {}
  BY DEF Exploring, D!AtSuccessor
<1>2. /\ Len(frames) \in DOMAIN frames /\ Len(frames) \in Nat \ {0}
      /\ DOMAIN frames = 1..Len(frames) /\ D!Top = top /\ top \in Calls
      /\ D!ToFollow = {k \in D!Out(top.node) : k > top.at}
  BY <1>1, TopCall
<1>3. top.node \in NodesOfPad /\ top.at \in Nat
  BY <1>2 DEF Calls
<1>4. D!Out(top.node) \subseteq Nat
  BY <1>1, <1>3, OutOf
<1>5. next \in D!ToFollow /\ \A j \in D!ToFollow : next <= j
  BY <1>1, <1>2, <1>4, LeastPlace
<1>6. next \in D!Out(top.node) /\ next \in Nat
  BY <1>2, <1>4, <1>5
<1>7. D!Next1 = edges[next].to_ref
  BY DEF D!Next1
<1>8. D!Next1 \in NodesOfPad /\ D!Precedes(top.node, D!Next1)
  BY <1>1, <1>3, <1>6, <1>7, OutOf
<1>9. /\ D!Advanced \in Seq(Calls) /\ Len(D!Advanced) = Len(frames)
      /\ \A i \in DOMAIN frames : i # Len(frames) => D!Advanced[i] = frames[i]
      /\ D!Advanced[Len(frames)] = [top EXCEPT !.at = next]
  <2>1. D!Advanced = [frames EXCEPT ![Len(frames)] = [top EXCEPT !.at = next]]
    BY DEF D!Advanced
  <2>2. [top EXCEPT !.at = next] \in Calls
    BY <1>2, <1>6 DEF Calls
  <2> HIDE DEF top, next
  <2> QED
    BY <1>1, <1>2, <2>1, <2>2 DEF WellTyped
<1>10. D!Advanced[Len(frames)].node = top.node /\ D!Advanced[Len(frames)].at = next
  BY <1>2, <1>9 DEF Calls
<1>11. ASSUME NEW k \in D!Out(top.node), k <= next
       PROVE  k <= top.at \/ edges[k].to_ref = D!Next1
  <2>1. CASE k > top.at
    <3>1. next <= k
      BY <1>2, <1>5, <2>1
    <3>2. k = next
      BY <1>4, <1>6, <1>11, <3>1
    <3> QED
      BY <1>7, <3>2
  <2>2. CASE ~(k > top.at)
    BY <1>3, <1>4, <2>2
  <2> QED
    BY <2>1, <2>2
<1>12. \A i \in DOMAIN frames : D!Advanced[i].node = frames[i].node
  BY <1>9, <1>10
<1> QED
  BY <1>8, <1>9, <1>10, <1>11, <1>12

\* A call of dfs on a node that was never visited.
LEMMA Entering ==
    ASSUME Exploring, edges' = edges, tried' \in Nat,
           NEW node \in NodesOfPad, node \notin seen,
           NEW below \in Seq(Calls), Len(below) = Len(frames),
           \A i \in DOMAIN frames : below[i].node = frames[i].node,
           \A i \in DOMAIN frames : i # Len(frames) => below[i] = frames[i],
           frames # <<>> =>
               /\ D!Precedes(frames[Len(frames)].node, node)
               /\ \A k \in D!Out(frames[Len(frames)].node) :
                      k <= below[Len(frames)].at =>
                          k <= frames[Len(frames)].at \/ edges[k].to_ref = node,
           D!Enter(below, node)
    PROVE  WellTyped' /\ Nested' /\ Followed' /\ ClosedDone' /\ Acyclic'
<1> DEFINE n == Len(frames)
           call == [node |-> node, at |-> 0]
<1>1. /\ frames \in Seq(Calls) /\ DOMAIN frames = 1..n /\ n \in Nat
      /\ DOMAIN below = 1..n
  BY DEF Exploring, WellTyped
<1>2. frames' = Append(below, call) /\ seen' = seen \cup {node} /\ on_stack' = on_stack \cup {node}
  BY DEF D!Enter
<1>3. call \in Calls
  BY DEF Calls
<1>4. /\ frames' \in Seq(Calls) /\ Len(frames') = n + 1 /\ DOMAIN frames' = 1..(n + 1)
      /\ \A i \in 1..n : frames'[i] = below[i]
      /\ frames'[n + 1] = call
  <2> HIDE DEF call
  <2> QED
    BY <1>1, <1>2, <1>3
<1>5. /\ \A i \in 1..n : frames'[i].node = frames[i].node
      /\ frames'[n + 1].node = node /\ frames'[n + 1].at = 0
  BY <1>1, <1>4
<1>6. on_stack \subseteq seen /\ Done' = Done
  BY <1>2 DEF Exploring, Nested, Done
<1>7. WellTyped'
  BY <1>2, <1>4 DEF Exploring, WellTyped
<1>8. Nested'
  <2>1. on_stack' = {frames'[i].node : i \in DOMAIN frames'}
    <3>1. on_stack = {frames[i].node : i \in 1..n}
      BY <1>1 DEF Exploring, Nested
    <3>2. 1..(n + 1) = (1..n) \cup {n + 1}
      BY <1>1
    <3>3. {frames'[i].node : i \in 1..(n + 1)} = {frames[i].node : i \in 1..n} \cup {node}
      BY <1>5, <3>2
    <3> QED
      BY <1>2, <1>4, <3>1, <3>3
  <2>2. on_stack' \subseteq seen'
    BY <1>2, <1>6
  <2>3. ASSUME NEW i \in DOMAIN frames', NEW j \in DOMAIN frames', frames'[i].node = frames'[j].node
        PROVE  i = j
    <3>1. \A h \in 1..n : frames[h].node # node
      BY <1>1, <1>6 DEF Exploring, Nested
    <3>2. \A h, g \in 1..n : frames[h].node = frames[g].node => h = g
      BY <1>1 DEF Exploring, Nested
    <3>3. i \in 1..n \/ i = n + 1
      BY <1>1, <1>4
    <3>4. j \in 1..n \/ j = n + 1
      BY <1>1, <1>4
    <3> QED
      BY <1>5, <2>3, <3>1, <3>2, <3>3, <3>4
  <2>4. ASSUME NEW i \in DOMAIN frames', NEW j \in DOMAIN frames', j = i + 1
        PROVE  D!Precedes(frames[i].node, frames[j].node)'
    <3>1. i \in 1..n
      BY <1>1, <1>4, <2>4
    <3>2. CASE j \in 1..n
      <4>1. D!Precedes(frames[i].node, frames[j].node)
        BY <1>1, <2>4, <3>1, <3>2 DEF Exploring, Nested
      <4> QED
        BY <1>5, <3>1, <3>2, <4>1 DEF D!Precedes
    <3>3. CASE j = n + 1
      <4>1. i = n /\ frames # <<>>
        BY <1>1, <2>4, <3>1, <3>3
      <4>2. D!Precedes(frames[n].node, node)
        BY <4>1
      <4> QED
        BY <1>5, <3>1, <3>3, <4>1, <4>2 DEF D!Precedes
    <3> QED
      BY <1>1, <1>4, <3>2, <3>3
  <2> QED
    BY <2>1, <2>2, <2>3, <2>4 DEF Nested
<1>9. Followed'
  <2> SUFFICES ASSUME NEW i \in DOMAIN frames', NEW k \in D!Out(frames[i].node)',
                      k <= frames'[i].at
               PROVE  \/ edges[k].to_ref \in Done
                      \/ i < n + 1 /\ edges[k].to_ref = frames'[i + 1].node
    BY <1>4, <1>6 DEF Followed
  <2>1. k \in D!Out(frames'[i].node)
    BY DEF D!Out, D!Counted
  <2>2. CASE i = n + 1
    <3>1. k \in Nat /\ k \in DOMAIN edges
      BY <2>1 DEF Exploring, WellTyped, D!Out
    <3>2. k <= 0
      BY <1>5, <2>2
    <3> QED
      BY <3>1, <3>2 DEF Exploring, WellTyped
  <2>3. CASE i \in 1..n /\ k <= frames[i].at
    <3>1. \/ edges[k].to_ref \in Done
          \/ i < n /\ edges[k].to_ref = frames[i + 1].node
      BY <1>1, <1>5, <2>1, <2>3 DEF Exploring, Followed
    <3> QED
      BY <1>1, <1>5, <2>3, <3>1
  <2>4. CASE i \in 1..n /\ ~(k <= frames[i].at)
    <3>1. i = n
      BY <1>1, <1>4, <2>4
    <3>2. frames # <<>>
      BY <1>1, <2>4
    <3>3. k <= below[n].at /\ k \in D!Out(frames[n].node)
      BY <1>1, <1>4, <1>5, <2>1, <2>4, <3>1
    <3>4. edges[k].to_ref = node
      BY <2>4, <3>1, <3>2, <3>3
    <3> QED
      BY <1>1, <1>5, <3>1, <3>4
  <2> QED
    BY <1>1, <1>4, <2>2, <2>3, <2>4
<1>10. ClosedDone' /\ Acyclic'
  BY <1>6 DEF Exploring, ClosedDone, Acyclic, Cycle, D!Precedes
<1> QED
  BY <1>7, <1>8, <1>9, <1>10

LEMMA DoctorInit == D!Init => Diagnosis
<1> SUFFICES ASSUME D!Init PROVE Diagnosis
  OBVIOUS
<1>1. edges \in Seq(EdgesOfPad)
  <2>1. PICK n \in 0..MaxEdges : edges \in [1..n -> EdgesOfPad]
    BY DEF D!Init
  <2>2. n \in Nat
    BY <2>1, DoctorKnows
  <2> QED
    BY <2>1, <2>2, SeqDef
<1>2. tried = 0 /\ frames = <<>> /\ seen = {} /\ on_stack = {} /\ answer.found = "searching"
  BY DEF D!Init, D!Searching
<1>3. WellTyped
  BY <1>1, <1>2 DEF WellTyped
<1>4. Nested /\ Followed /\ ClosedDone
  BY <1>2 DEF Nested, Followed, ClosedDone, Done
<1>5. Acyclic
  BY <1>2 DEF Acyclic, Cycle, Done
<1>6. D!Keys \subseteq Nat \ {0}
  BY <1>1 DEF D!Keys
<1>7. KeysTried
  BY <1>2, <1>6 DEF KeysTried
<1> QED
  BY <1>2, <1>3, <1>4, <1>5, <1>7 DEF Diagnosis, Exploring, D!VerdictTrue, D!CyclesAreReal,
     D!NoneIsMissed

\* The next key of the graph, and a call on it unless it was visited.
LEMMA DoctorStarts == Exploring /\ D!StartNext => Exploring'
<1> SUFFICES ASSUME Exploring, D!StartNext PROVE Exploring'
  OBVIOUS
<1> DEFINE next == D!First(D!After(tried, D!Keys))
           start == edges[next].from_ref
<1>1. /\ edges' = edges /\ frames = <<>> /\ tried' = next /\ D!After(tried, D!Keys) # {}
      /\ IF start \in seen THEN UNCHANGED <<frames, seen, on_stack>> ELSE D!Enter(<<>>, start)
  BY DEF D!StartNext
<1>2. D!Keys \subseteq Nat /\ tried \in Nat
  BY DEF Exploring, WellTyped, D!Keys
<1>3. next \in D!After(tried, D!Keys) /\ \A j \in D!After(tried, D!Keys) : next <= j
  BY <1>1, <1>2, LeastPlace DEF D!After
<1>4. next \in D!Keys /\ next \in Nat
  BY <1>2, <1>3 DEF D!After
<1>5. start \in NodesOfPad
  BY <1>4 DEF D!Keys, D!Out, D!Counted
<1>6. start \in seen' /\ seen \subseteq seen'
  BY <1>1 DEF D!Enter
<1>7. KeysTried'
  <2> SUFFICES ASSUME NEW k \in D!Keys, k <= next PROVE edges[k].from_ref \in seen'
    BY <1>1, SameEdges DEF KeysTried
  <2>1. CASE k <= tried
    BY <1>6, <2>1 DEF Exploring, KeysTried
  <2>2. CASE ~(k <= tried)
    <3>1. k \in D!After(tried, D!Keys)
      BY <1>2, <2>2 DEF D!After
    <3>2. k = next
      BY <1>2, <1>3, <1>4, <3>1
    <3> QED
      BY <1>6, <3>2
  <2> QED
    BY <2>1, <2>2
<1> HIDE DEF next, start
<1>8. CASE start \in seen
  <2>1. UNCHANGED <<edges, frames, seen, on_stack>> /\ tried' \in Nat
    BY <1>1, <1>4, <1>8
  <2>2. WellTyped' /\ Nested' /\ Followed' /\ ClosedDone' /\ Acyclic'
    BY <2>1 DEF Exploring, WellTyped, Nested, Followed, ClosedDone, Acyclic, Cycle, Done,
       D!Precedes, D!Out, D!Counted
  <2> QED
    BY <1>7, <2>2 DEF Exploring
<1>9. CASE start \notin seen
  <2>1. D!Enter(<<>>, start) /\ tried' \in Nat
    BY <1>1, <1>4, <1>9
  <2>2. <<>> \in Seq(Calls) /\ Len(<<>>) = Len(frames) /\ DOMAIN frames = {}
    BY <1>1
  <2>3. WellTyped' /\ Nested' /\ Followed' /\ ClosedDone' /\ Acyclic'
    BY <1>1, <1>5, <1>9, <2>1, <2>2, Entering
  <2> QED
    BY <1>7, <2>3 DEF Exploring
<1> QED
  BY <1>8, <1>9

LEMMA DoctorDescends == Exploring /\ D!Descend => Exploring'
<1> SUFFICES ASSUME Exploring, D!Descend PROVE Exploring'
  OBVIOUS
<1>1. /\ D!AtSuccessor /\ D!Next1 \notin seen /\ D!Enter(D!Advanced, D!Next1)
      /\ edges' = edges /\ tried' = tried
  BY DEF D!Descend
<1>2. /\ D!Next1 \in NodesOfPad
      /\ D!Precedes(frames[Len(frames)].node, D!Next1)
      /\ D!Advanced \in Seq(Calls) /\ Len(D!Advanced) = Len(frames)
      /\ \A i \in DOMAIN frames : D!Advanced[i].node = frames[i].node
      /\ \A i \in DOMAIN frames : i # Len(frames) => D!Advanced[i] = frames[i]
      /\ \A k \in D!Out(frames[Len(frames)].node) :
             k <= D!Advanced[Len(frames)].at =>
                 k <= frames[Len(frames)].at \/ edges[k].to_ref = D!Next1
  BY <1>1, Advancing
<1>3. tried' \in Nat
  BY <1>1 DEF Exploring, WellTyped
<1>4. WellTyped' /\ Nested' /\ Followed' /\ ClosedDone' /\ Acyclic'
  BY <1>1, <1>2, <1>3, Entering
<1>5. seen \subseteq seen'
  BY <1>1 DEF D!Enter
<1>6. KeysTried'
  BY <1>1, <1>5, SameEdges DEF Exploring, KeysTried
<1> QED
  BY <1>4, <1>6 DEF Exploring

LEMMA DoctorSkips == Exploring /\ D!Skip => Exploring'
<1> SUFFICES ASSUME Exploring, D!Skip PROVE Exploring'
  OBVIOUS
<1> DEFINE n == Len(frames)
<1>1. /\ D!AtSuccessor /\ D!Next1 \in Done /\ frames' = D!Advanced
      /\ UNCHANGED <<edges, tried, seen, on_stack>>
  BY DEF D!Skip, D!ClosesCycle, Done
<1>2. /\ frames' \in Seq(Calls) /\ Len(frames') = n
      /\ \A i \in DOMAIN frames : frames'[i].node = frames[i].node
      /\ \A i \in DOMAIN frames : i # n => frames'[i] = frames[i]
      /\ \A k \in D!Out(frames[n].node) :
             k <= frames'[n].at => k <= frames[n].at \/ edges[k].to_ref = D!Next1
  BY <1>1, Advancing
<1>3. frames \in Seq(Calls) /\ DOMAIN frames = 1..n /\ DOMAIN frames' = 1..n /\ n \in Nat
  BY <1>2 DEF Exploring, WellTyped
<1>4. WellTyped' /\ Done' = Done
  BY <1>1, <1>2 DEF Exploring, WellTyped, Done
<1>5. Nested'
  <2>1. {frames'[i].node : i \in 1..n} = {frames[i].node : i \in 1..n}
    BY <1>2, <1>3
  <2>2. on_stack' = {frames'[i].node : i \in DOMAIN frames'} /\ on_stack' \subseteq seen'
    BY <1>1, <1>3, <2>1 DEF Exploring, Nested
  <2>3. \A i, j \in DOMAIN frames' : frames'[i].node = frames'[j].node => i = j
    BY <1>2, <1>3 DEF Exploring, Nested
  <2>4. \A i, j \in DOMAIN frames' :
            j = i + 1 => D!Precedes(frames[i].node, frames[j].node)'
    <3> SUFFICES ASSUME NEW i \in 1..n, NEW j \in 1..n, j = i + 1
                 PROVE  D!Precedes(frames[i].node, frames[j].node)'
      BY <1>3
    <3>1. D!Precedes(frames[i].node, frames[j].node)
      BY <1>3 DEF Exploring, Nested
    <3>2. frames'[i].node = frames[i].node /\ frames'[j].node = frames[j].node
      BY <1>2, <1>3
    <3> QED
      BY <1>1, <3>1, <3>2 DEF D!Precedes
  <2> QED
    BY <2>2, <2>3, <2>4 DEF Nested
<1>6. Followed'
  <2> SUFFICES ASSUME NEW i \in 1..n, NEW k \in D!Out(frames[i].node)', k <= frames'[i].at
               PROVE  \/ edges[k].to_ref \in Done
                      \/ i < n /\ edges[k].to_ref = frames'[i + 1].node
    BY <1>1, <1>2, <1>3, <1>4 DEF Followed
  <2>1. k \in D!Out(frames[i].node)
    <3>1. frames'[i].node = frames[i].node
      BY <1>2, <1>3
    <3> QED
      BY <1>1, <3>1 DEF D!Out, D!Counted
  <2>2. CASE k <= frames[i].at
    <3>1. \/ edges[k].to_ref \in Done
          \/ i < n /\ edges[k].to_ref = frames[i + 1].node
      BY <1>3, <2>1, <2>2 DEF Exploring, Followed
    <3>2. CASE i < n
      BY <1>2, <1>3, <3>1, <3>2
    <3> QED
      BY <3>1, <3>2
  <2>3. CASE ~(k <= frames[i].at)
    <3>1. i = n
      BY <1>2, <1>3, <2>3
    <3>2. edges[k].to_ref = D!Next1
      BY <1>2, <2>1, <2>3, <3>1
    <3> QED
      BY <1>1, <3>2
  <2> QED
    BY <2>2, <2>3
<1>7. ClosedDone' /\ Acyclic'
  BY <1>1, <1>4 DEF Exploring, ClosedDone, Acyclic, Cycle, D!Precedes
<1>8. KeysTried'
  BY <1>1, SameEdges DEF Exploring, KeysTried
<1> QED
  BY <1>4, <1>5, <1>6, <1>7, <1>8 DEF Exploring

\* A call that returns has followed every edge of its node, so that its node is done, and a cycle
\* through it would leave a cycle without it.
LEMMA DoctorReturns == Exploring /\ D!Return => Exploring'
<1> SUFFICES ASSUME Exploring, D!Return PROVE Exploring'
  OBVIOUS
<1> DEFINE n == Len(frames)
           v == frames[n].node
<1>1. /\ frames # <<>> /\ D!ToFollow = {} /\ WellTyped
      /\ frames' = SubSeq(frames, 1, n - 1) /\ on_stack' = on_stack \ {D!Top.node}
      /\ UNCHANGED <<edges, tried, seen>>
  BY DEF D!Return, D!Left, Exploring
<1>2. /\ n \in DOMAIN frames /\ n \in Nat \ {0} /\ DOMAIN frames = 1..n
      /\ D!Top = frames[n] /\ frames[n] \in Calls
      /\ D!ToFollow = {k \in D!Out(v) : k > frames[n].at}
  BY <1>1, TopCall
<1>3. v \in NodesOfPad /\ v \in on_stack /\ on_stack \subseteq seen /\ frames[n].at \in Nat
  BY <1>2 DEF Calls, Exploring, Nested
<1>4. /\ frames' \in Seq(Calls) /\ Len(frames') = n - 1 /\ DOMAIN frames' = 1..(n - 1)
      /\ \A i \in 1..(n - 1) : frames'[i] = frames[i]
  BY <1>1, <1>2 DEF WellTyped
<1>a. on_stack' = on_stack \ {v}
  BY <1>1, <1>2
<1>b. \A i \in 1..(n - 1) : i < n - 1 \/ i = n - 1
  <2> HIDE DEF n
  <2> QED
    BY <1>2
<1> HIDE DEF v
<1>5. Done' = Done \cup {v} /\ v \notin Done
  BY <1>1, <1>3, <1>a DEF Done
<1>6. WellTyped'
  BY <1>1, <1>4 DEF WellTyped
<1>7. Nested'
  <2>1. on_stack' = {frames'[i].node : i \in DOMAIN frames'}
    <3>1. on_stack = {frames[i].node : i \in 1..n}
      BY <1>2 DEF Exploring, Nested
    <3>2. {frames'[i].node : i \in 1..(n - 1)} = {frames[i].node : i \in 1..(n - 1)}
      BY <1>4
    <3>3. v \notin {frames[i].node : i \in 1..(n - 1)}
      BY <1>2 DEF Exploring, Nested, v
    <3>4. 1..n = (1..(n - 1)) \cup {n}
      BY <1>2
    <3>5. {frames[i].node : i \in 1..n} = {frames[i].node : i \in 1..(n - 1)} \cup {v}
      BY <3>4 DEF v
    <3> QED
      BY <1>4, <1>a, <3>1, <3>2, <3>3, <3>5
  <2>2. on_stack' \subseteq seen'
    BY <1>1, <1>3
  <2>3. \A i, j \in DOMAIN frames' : frames'[i].node = frames'[j].node => i = j
    BY <1>2, <1>4 DEF Exploring, Nested
  <2>4. \A i, j \in DOMAIN frames' :
            j = i + 1 => D!Precedes(frames[i].node, frames[j].node)'
    <3> SUFFICES ASSUME NEW i \in 1..(n - 1), NEW j \in 1..(n - 1), j = i + 1
                 PROVE  D!Precedes(frames[i].node, frames[j].node)'
      BY <1>4
    <3>0. i \in DOMAIN frames /\ j \in DOMAIN frames
      BY <1>2
    <3>1. D!Precedes(frames[i].node, frames[j].node)
      BY <3>0 DEF Exploring, Nested
    <3>2. frames'[i].node = frames[i].node /\ frames'[j].node = frames[j].node
      BY <1>4
    <3> QED
      BY <1>1, <3>1, <3>2 DEF D!Precedes
  <2> QED
    BY <2>1, <2>2, <2>3, <2>4 DEF Nested
<1>8. Followed'
  <2> SUFFICES ASSUME NEW i \in 1..(n - 1), NEW k \in D!Out(frames[i].node)', k <= frames'[i].at
               PROVE  \/ edges[k].to_ref \in Done \cup {v}
                      \/ i < n - 1 /\ edges[k].to_ref = frames'[i + 1].node
    BY <1>1, <1>4, <1>5 DEF Followed
  <2>1. frames'[i] = frames[i] /\ i \in 1..n
    BY <1>2, <1>4
  <2>2. k \in D!Out(frames[i].node) /\ k <= frames[i].at
    BY <1>1, <2>1 DEF D!Out, D!Counted
  <2>3. \/ edges[k].to_ref \in Done
        \/ i < n /\ edges[k].to_ref = frames[i + 1].node
    BY <1>2, <2>1, <2>2 DEF Exploring, Followed
  <2>4. CASE i < n - 1
    BY <1>2, <1>4, <2>3, <2>4
  <2>5. CASE i = n - 1
    BY <1>2, <2>3, <2>5 DEF v
  <2>6. i < n - 1 \/ i = n - 1
    BY <1>b
  <2> QED
    BY <2>4, <2>5, <2>6
<1>9. \A b \in NodesOfPad : D!Precedes(v, b) => b \in Done
  <2> SUFFICES ASSUME NEW b \in NodesOfPad, D!Precedes(v, b) PROVE b \in Done
    OBVIOUS
  <2>1. PICK k \in D!Out(v) : edges[k].to_ref = b
    BY <1>1, <1>3, OutOf
  <2>2. k \in Nat
    BY <1>1, <1>3, OutOf
  <2>3. k <= frames[n].at
    BY <1>1, <1>2, <1>3, <2>2
  <2> QED
    BY <1>2, <2>1, <2>3 DEF Exploring, Followed, v
<1>10. ClosedDone'
  <2>1. \A a \in Done \cup {v}, b \in NodesOfPad : D!Precedes(a, b) => b \in Done
    BY <1>9 DEF Exploring, ClosedDone
  <2> QED
    BY <1>1, <1>5, <2>1 DEF ClosedDone, D!Precedes
<1>11. \A C \in SUBSET (Done \cup {v}) : ~Cycle(C)
  <2> SUFFICES ASSUME NEW C \in SUBSET (Done \cup {v}), Cycle(C) PROVE FALSE
    OBVIOUS
  <2> DEFINE B == C \ {v}
  <2>1. B \in SUBSET Done /\ C \subseteq NodesOfPad
    BY <1>1, <1>3 DEF Done, WellTyped
  <2>2. ASSUME NEW a \in C PROVE \E b \in B : D!Precedes(a, b)
    <3>1. PICK b \in C : D!Precedes(a, b)
      BY DEF Cycle
    <3>2. b \in Done
      BY <1>9, <2>1, <3>1 DEF Exploring, ClosedDone
    <3> QED
      BY <1>5, <3>1, <3>2
  <2>3. Cycle(B)
    BY <2>2 DEF Cycle
  <2> QED
    BY <2>1, <2>3 DEF Exploring, Acyclic
<1>12. Acyclic'
  BY <1>1, <1>5, <1>11 DEF Acyclic, Cycle, D!Precedes
<1>13. KeysTried'
  BY <1>1, SameEdges DEF Exploring, KeysTried
<1> QED
  BY <1>6, <1>7, <1>8, <1>10, <1>12, <1>13 DEF Exploring

\* The cycle the doctor takes from the stack is one.
LEMMA DoctorFinds == Exploring /\ D!FoundCycle => D!CyclesAreReal'
<1> SUFFICES ASSUME Exploring, D!FoundCycle PROVE D!CyclesAreReal'
  OBVIOUS
<1> DEFINE n == Len(frames)
           node == D!Next1
           first == CHOOSE i \in DOMAIN D!Stack :
                        D!Stack[i] = node /\ \A j \in 1..(i - 1) : D!Stack[j] # node
           c == SubSeq(D!Stack, first, Len(D!Stack)) \o <<node>>
           m == n - first + 1
<1>1. /\ D!AtSuccessor /\ node \in on_stack /\ edges' = edges
      /\ answer' = D!Answer("cycle", IF node \in {D!Stack[i] : i \in DOMAIN D!Stack}
                                     THEN c ELSE <<node, node>>)
  BY DEF D!FoundCycle, D!ClosesCycle, D!Extracted
<1>2. D!Precedes(frames[n].node, node) /\ node \in NodesOfPad
  BY <1>1, Advancing
<1>a. frames \in Seq(Calls) /\ n \in Nat /\ DOMAIN frames = 1..n
  BY DEF Exploring, WellTyped
<1>b. /\ on_stack = {frames[i].node : i \in 1..n}
      /\ \A i, j \in 1..n : frames[i].node = frames[j].node => i = j
  BY <1>a DEF Exploring, Nested
<1>c. \A i, j \in 1..n : j = i + 1 => D!Precedes(frames[i].node, frames[j].node)
  BY <1>a, Zenon DEF Exploring, Nested
<1>3. /\ frames \in Seq(Calls) /\ n \in Nat /\ DOMAIN frames = 1..n
      /\ on_stack = {frames[i].node : i \in 1..n}
      /\ \A i, j \in 1..n : frames[i].node = frames[j].node => i = j
      /\ \A i, j \in 1..n : j = i + 1 => D!Precedes(frames[i].node, frames[j].node)
  BY <1>a, <1>b, <1>c
<1>4. /\ D!Stack \in Seq(NodesOfPad) /\ Len(D!Stack) = n /\ DOMAIN D!Stack = 1..n
      /\ \A i \in 1..n : D!Stack[i] = frames[i].node
  <2>1. D!Stack = [i \in 1..n |-> frames[i].node]
    BY <1>3 DEF D!Stack
  <2>2. \A i \in 1..n : frames[i].node \in NodesOfPad
    <3>1. \A i \in 1..n : frames[i] \in Calls
      BY <1>a
    <3> QED
      BY <3>1 DEF Calls
  <2>3. D!Stack \in [1..n -> NodesOfPad]
    BY <2>1, <2>2
  <2> QED
    BY <1>a, <2>1, <2>3
<1> HIDE DEF node
<1>5. first \in 1..n /\ frames[first].node = node
  <2>1. PICK i \in 1..n : frames[i].node = node
    BY <1>1, <1>3
  <2>2. \A j \in 1..(i - 1) : D!Stack[j] # node
    BY <1>3, <1>4, <2>1
  <2>3. first \in DOMAIN D!Stack /\ D!Stack[first] = node
    BY <1>4, <2>1, <2>2
  <2> QED
    BY <1>4, <2>3
<1> HIDE DEF first
<1>6. node \in {D!Stack[i] : i \in DOMAIN D!Stack}
  BY <1>4, <1>5
<1>7. answer'.found = "cycle" /\ answer'.cycle = c
  BY <1>1, <1>6 DEF D!Answer
<1>8. /\ Len(c) = m + 1 /\ m \in Nat \ {0} /\ c[m + 1] = node
      /\ \A i \in 1..m : c[i] = frames[first + i - 1].node /\ first + i - 1 \in 1..n
  <2> DEFINE d == SubSeq(D!Stack, first, n)
  <2>1. d \in Seq(NodesOfPad) /\ Len(d) = m /\ m \in Nat \ {0}
    BY <1>3, <1>4, <1>5
  <2>2. \A i \in 1..m : d[i] = frames[first + i - 1].node /\ first + i - 1 \in 1..n
    BY <1>3, <1>4, <1>5
  <2>3. c = d \o <<node>>
    BY <1>4
  <2> HIDE DEF d
  <2>4. Len(c) = m + 1 /\ c[m + 1] = node /\ \A i \in 1..m : c[i] = d[i]
    <3>1. <<node>> \in Seq(NodesOfPad) /\ Len(<<node>>) = 1 /\ <<node>>[1] = node
      BY <1>2
    <3> DEFINE e == <<node>>
    <3> HIDE DEF c, m, e
    <3>2. /\ Len(d \o e) = m + 1 /\ (d \o e)[m + 1] = e[1]
          /\ \A i \in 1..m : (d \o e)[i] = d[i]
      BY <2>1, <3>1 DEF e
    <3> QED
      BY <2>3, <3>1, <3>2 DEF e
  <2> HIDE DEF c, m
  <2> QED
    BY <2>1, <2>2, <2>4
<1> HIDE DEF c
<1>9. c[1] = node
  BY <1>5, <1>8
<1>10. ASSUME NEW i \in 1..m PROVE D!Precedes(c[i], c[i + 1])
  <2>1. CASE i = m
    <3>1. first + i - 1 = n
      BY <1>3, <1>5, <2>1
    <3> QED
      BY <1>2, <1>8, <2>1, <3>1
  <2>2. CASE i # m
    <3>1. i + 1 \in 1..m /\ first + (i + 1) - 1 = (first + i - 1) + 1
      BY <1>3, <1>5, <1>8, <2>2
    <3>2. /\ c[i] = frames[first + i - 1].node /\ first + i - 1 \in 1..n
          /\ c[i + 1] = frames[(first + i - 1) + 1].node /\ (first + i - 1) + 1 \in 1..n
      BY <1>8, <3>1
    <3>3. D!Precedes(frames[first + i - 1].node, frames[(first + i - 1) + 1].node)
      BY <1>3, <3>2
    <3> QED
      BY <3>2, <3>3
  <2> QED
    BY <2>1, <2>2
<1>11. \A i, j \in 1..m : c[i] = c[j] => i = j
  <2> SUFFICES ASSUME NEW i \in 1..m, NEW j \in 1..m, c[i] = c[j] PROVE i = j
    OBVIOUS
  <2>1. first + i - 1 = first + j - 1
    BY <1>3, <1>8
  <2> QED
    BY <1>3, <1>5, <1>8, <2>1
<1> HIDE DEF m
<1>12. /\ Len(c) > 1 /\ c[1] = c[Len(c)] /\ Len(c) - 1 = m
  BY <1>8, <1>9
<1>13. \A i \in 1..m : D!Precedes(c[i], c[i + 1])
  BY <1>10
<1>14. \A i \in 1..m : D!Precedes(answer.cycle[i], answer.cycle[i + 1])'
  BY <1>1, <1>7, <1>13 DEF D!Precedes
<1> QED
  BY <1>7, <1>11, <1>12, <1>14 DEF D!CyclesAreReal

\* When every key was tried and no call is left, what is visited is done, and a node of a cycle
\* would be: it has an edge, so that it is a key.
LEMMA DoctorEnds == Exploring /\ D!FoundNone => D!NoneIsMissed'
<1> SUFFICES ASSUME Exploring, D!FoundNone,
                    NEW C \in SUBSET NodesOfPad, Cycle(C)
             PROVE  FALSE
  BY DEF D!FoundNone, D!NoneIsMissed, Cycle, D!Precedes
<1>1. frames = <<>> /\ D!After(tried, D!Keys) = {} /\ WellTyped
  BY DEF D!FoundNone, Exploring
<1>2. Done = seen
  BY <1>1 DEF Exploring, Nested, Done
<1>3. ASSUME NEW a \in C PROVE a \in seen
  <2>1. PICK b \in C : D!Precedes(a, b)
    BY DEF Cycle
  <2>2. D!Out(a) \subseteq Nat /\ D!Out(a) # {}
    BY <1>1, <2>1, OutOf
  <2> DEFINE k == D!First(D!Out(a))
  <2>3. k \in D!Out(a) /\ \A j \in D!Out(a) : k <= j
    BY <2>2, LeastPlace
  <2> HIDE DEF k
  <2>4. edges[k].from_ref = a /\ k \in DOMAIN edges /\ k \in Nat
    BY <2>2, <2>3 DEF D!Out
  <2>5. k \in D!Keys
    BY <2>3, <2>4 DEF D!Keys
  <2>6. k <= tried
    BY <1>1, <2>4, <2>5 DEF D!After, WellTyped
  <2> QED
    BY <2>4, <2>5, <2>6 DEF Exploring, KeysTried
<1> QED
  BY <1>2, <1>3 DEF Exploring, Acyclic

LEMMA DoctorSteps == Diagnosis /\ [D!Next]_(D!vars) => Diagnosis'
<1> SUFFICES ASSUME Diagnosis, [D!Next]_(D!vars) PROVE Diagnosis'
  OBVIOUS
<1>0. Exploring /\ D!VerdictTrue
  BY DEF Diagnosis
<1>1. CASE D!StartNext \/ D!Descend \/ D!Skip \/ D!Return
  <2>1. Exploring'
    BY <1>0, <1>1, DoctorStarts, DoctorDescends, DoctorSkips, DoctorReturns
  <2>2. answer'.found = "searching"
    BY <1>1 DEF D!StartNext, D!Descend, D!Skip, D!Return, D!AtSuccessor, D!Searching
  <2> QED
    BY <2>1, <2>2 DEF Diagnosis, D!VerdictTrue, D!CyclesAreReal, D!NoneIsMissed
<1>2. ASSUME UNCHANGED <<edges, tried, frames, seen, on_stack>> PROVE Exploring'
  BY <1>0, <1>2 DEF Exploring, WellTyped, Nested, Followed, ClosedDone, Acyclic, Cycle, KeysTried,
     Done, D!Precedes, D!Out, D!Keys, D!Counted
<1>3. CASE D!FoundCycle
  <2>0. UNCHANGED <<edges, tried, frames, seen, on_stack>>
    BY <1>3 DEF D!FoundCycle
  <2>1. D!CyclesAreReal' /\ Exploring'
    BY <1>0, <1>2, <1>3, <2>0, DoctorFinds
  <2>2. answer'.found = "cycle"
    BY <1>3 DEF D!FoundCycle, D!Answer
  <2> QED
    BY <2>1, <2>2 DEF Diagnosis, D!VerdictTrue, D!NoneIsMissed
<1>4. CASE D!FoundNone
  <2>0. UNCHANGED <<edges, tried, frames, seen, on_stack>>
    BY <1>4 DEF D!FoundNone
  <2>1. D!NoneIsMissed' /\ Exploring'
    BY <1>0, <1>2, <1>4, <2>0, DoctorEnds
  <2>2. answer'.found = "none"
    BY <1>4 DEF D!FoundNone, D!Answer
  <2> QED
    BY <2>1, <2>2 DEF Diagnosis, D!VerdictTrue, D!CyclesAreReal
<1>5. CASE D!TooDeep
  <2>1. Exploring'
    BY <1>0, <1>2, <1>5 DEF D!TooDeep
  <2>2. answer'.found = "RecursionError"
    BY <1>5 DEF D!TooDeep, D!Answer
  <2> QED
    BY <2>1, <2>2 DEF Diagnosis, D!VerdictTrue, D!CyclesAreReal, D!NoneIsMissed
<1>6. CASE UNCHANGED D!vars
  <2>1. Exploring'
    BY <1>0, <1>2, <1>6 DEF D!vars
  <2> QED
    BY <1>0, <1>6, <2>1 DEF Diagnosis, D!VerdictTrue, D!CyclesAreReal, D!NoneIsMissed, D!Precedes,
       D!vars
<1> QED
  BY <1>1, <1>3, <1>4, <1>5, <1>6 DEF D!Next

\* For every list of edges and every depth of the stack, the doctor reports a cycle of supersedes
\* edges only if its answer is one, and reports none only if there is none (doctor.py:306-358).
THEOREM DiagnosesTrue == D!Spec => []VerdictTrue
<1>1. Diagnosis => VerdictTrue
  BY DEF Diagnosis, VerdictTrue
<1> QED
  BY <1>1, DoctorInit, DoctorSteps, PTL DEF D!Spec

-----------------------------------------------------------------------------
(***************************************************************************)
(* Transfer.  What is in the queue and what was found are simple paths     *)
(* from From; and of every path to To that is short enough, the answer has *)
(* the whole or the queue a beginning.                                     *)
(***************************************************************************)
\* n steps, from From and never twice to a node.
Walks(n) ==
    {way \in [1..n + 1 -> NodesOfGraph] :
        way[1] = From /\ \A i, j \in 1..n + 1 : way[i] = way[j] => i = j}

Passes(edge, a, b) == T!Joins(edge, a, b) /\ (require_validated => T!Open(edge) = {})

Along(n, way, path) ==
    path \in [1..n -> graph] /\ \A i \in 1..n : Passes(path[i], way[i], way[i + 1])

\* The entry of the queue after k of the steps.
Begun(way, path, k) ==
    [node |-> way[k + 1], path |-> SubSeq(path, 1, k), nodes |-> {way[j] : j \in 1..k + 1}]

Begins(n, way, entry) ==
    /\ Along(n, way, entry.path)
    /\ entry = [node |-> way[n + 1], path |-> entry.path, nodes |-> {way[j] : j \in 1..n + 1}]

InQueue(entry) == \E n \in 0..max_depth : \E way \in Walks(n) : Begins(n, way, entry)

Answers(n, way, entry) ==
    /\ Along(n, way, entry.path) /\ way[n + 1] = To
    /\ entry = [path |-> entry.path, open |-> T!OpenOnPath(entry.path)]

InAnswer(entry) == \E n \in 0..max_depth : \E way \in Walks(n) : Answers(n, way, entry)

Searched ==
    /\ graph \in Graphs /\ max_depth \in Depths /\ require_validated \in BOOLEAN
    /\ paths \in Seq({paths[i] : i \in DOMAIN paths})

Sound ==
    /\ \A i \in DOMAIN paths : InQueue(paths[i])
    /\ \A entry \in found : InAnswer(entry)

\* A path to To is in the answer, or a beginning of it is in the queue.
Underway(n, way, path) ==
    \/ \E entry \in found : entry.path = path
    \/ \E k \in 0..n : \E i \in DOMAIN paths : paths[i] = Begun(way, path, k)

Complete ==
    \A n \in 0..max_depth : \A way \in Walks(n) : \A path \in [1..n -> graph] :
        Along(n, way, path) /\ way[n + 1] = To => Underway(n, way, path)

Searching == Searched /\ Sound /\ Complete

LEMMA TransferKnows ==
    /\ From \in NodesOfGraph /\ Depths \subseteq Nat /\ IsFiniteSet(NodesOfGraph)
    /\ \A g \in Graphs : IsFiniteSet(g)
<1>1. From \in NodesOfGraph /\ Depths \subseteq 1..12
  BY SearchesAssumption, Zenon DEF T!TransferParameters
<1>2. T!IsFiniteSet(NodesOfGraph) /\ \A g \in Graphs : T!IsFiniteSet(g)
  BY SearchesAssumption, Zenon DEF T!TransferParameters
<1> QED
  BY <1>1, <1>2 DEF T!IsFiniteSet, IsFiniteSet

\* An obligation is satisfied if evidence says that its recipe passed.
LEMMA OpenIs ==
    ASSUME graph \in Graphs, NEW edge \in graph
    PROVE  /\ \A r : T!Satisfied(r, edge) <=>
                  [recipe_ref |-> r, status |-> "pass"] \in edge.evidence_refs
           /\ T!Open(edge) = {} <=>
                  \A r \in edge.obligations :
                      [recipe_ref |-> r, status |-> "pass"] \in edge.evidence_refs
<1>1. \A e \in edge.evidence_refs : e = [recipe_ref |-> e.recipe_ref, status |-> e.status]
  BY SearchesAssumption DEF T!TransferParameters
<1>2. \A r : T!Satisfied(r, edge) <=>
                 [recipe_ref |-> r, status |-> "pass"] \in edge.evidence_refs
  <2> TAKE r
  <2> DEFINE passed == [recipe_ref |-> r, status |-> "pass"]
  <2>1. ASSUME NEW e \in edge.evidence_refs, e.recipe_ref = r, e.status = "pass"
        PROVE  passed \in edge.evidence_refs
    BY <1>1, <2>1
  <2>2. passed.recipe_ref = r /\ passed.status = "pass"
    OBVIOUS
  <2> HIDE DEF passed
  <2>3. (\E e \in edge.evidence_refs : e.recipe_ref = r /\ e.status = "pass")
            <=> passed \in edge.evidence_refs
    BY <2>1, <2>2
  <2> QED
    BY <2>3 DEF T!Satisfied, passed
<1> QED
  BY <1>2 DEF T!Open

\* The elements of a finite set, in a sequence.
LEMMA SequenceOfSet ==
    ASSUME NEW S, IsFiniteSet(S)
    PROVE  /\ T!SetToSeq(S) \in Seq(S)
           /\ \A x \in S : \E i \in DOMAIN T!SetToSeq(S) : T!SetToSeq(S)[i] = x
<1> DEFINE n == Cardinality(S)
           f == T!SetToSeq(S)
<1>1. n \in Nat /\ ExistsBijection(1..n, S)
  BY FS_CardinalityType
<1>2. PICK g \in Bijection(1..n, S) : TRUE
  BY <1>1 DEF ExistsBijection
<1>3. g \in [1..n -> S] /\ T!IsInjective(g)
  BY <1>2 DEF Bijection, Injection, IsInjective, T!IsInjective
<1>4. f \in [1..n -> S] /\ T!IsInjective(f)
  <2>1. T!Cardinality(S) = n
    BY DEF T!Cardinality, Cardinality
  <2> QED
    BY <1>3, <2>1 DEF T!SetToSeq
<1> HIDE DEF f
<1>5. f \in Injection(1..n, S)
  BY <1>4 DEF Injection, IsInjective, T!IsInjective
<1>6. Cardinality(1..n) = Cardinality(S)
  BY <1>1, FS_Interval
<1>7. f \in Surjection(1..n, S)
  BY <1>5, <1>6, FS_Injection
<1>8. f \in Seq(S) /\ DOMAIN f = 1..n
  BY <1>1, <1>4, SeqDef
<1> QED
  BY <1>7, <1>8 DEF Surjection, f

LEMMA LongerFinite ==
    ASSUME graph \in Graphs, NEW entry
    PROVE  IsFiniteSet(T!Longer(entry))
<1> DEFINE steps == T!Onward(entry)
           made(step) == [node |-> step[2], path |-> Append(entry.path, step[1]),
                          nodes |-> entry.nodes \cup {step[2]}]
           longer == {made(step) : step \in steps}
           f == [step \in steps |-> made(step)]
<1>1. IsFiniteSet(graph \X NodesOfGraph)
  BY TransferKnows, FS_Product
<1>2. steps \in SUBSET (graph \X NodesOfGraph)
  BY DEF T!Onward
<1>3. IsFiniteSet(steps)
  BY <1>1, <1>2, FS_Subset
<1>4. T!Longer(entry) = longer
  BY DEF T!Longer
<1>5. f \in Surjection(steps, longer)
  <2> HIDE DEF made, steps
  <2>1. f \in [steps -> longer]
    OBVIOUS
  <2>2. \A x \in longer : \E step \in steps : f[step] = x
    OBVIOUS
  <2> QED
    BY <2>1, <2>2 DEF Surjection
<1>6. IsFiniteSet(longer)
  BY <1>3, <1>5, FS_Surjection
<1> QED
  BY <1>4, <1>6

\* The walk of an entry, and one step more.
LEMMA LongerSound ==
    ASSUME NEW n \in Nat, NEW way \in Walks(n), NEW entry, Begins(n, way, entry),
           NEW longer \in T!Longer(entry)
    PROVE  \E further \in Walks(n + 1) : Begins(n + 1, further, longer)
<1>1. PICK step \in T!Onward(entry) :
          longer = [node |-> step[2], path |-> Append(entry.path, step[1]),
                    nodes |-> entry.nodes \cup {step[2]}]
  BY DEF T!Longer
<1> DEFINE edge == step[1]
           node == step[2]
           further == [j \in 1..(n + 1) + 1 |-> IF j = n + 2 THEN node ELSE way[j]]
           path == Append(entry.path, edge)
<1>2. /\ edge \in graph /\ node \in NodesOfGraph
      /\ node \in T!Targets(edge, entry.node) /\ node \notin entry.nodes
      /\ ~(require_validated /\ T!Open(edge) # {})
  BY DEF T!Onward
<1> HIDE DEF edge, node
<1>3. /\ entry.node = way[n + 1] /\ entry.nodes = {way[j] : j \in 1..n + 1}
      /\ entry.path \in [1..n -> graph]
      /\ \A i \in 1..n : Passes(entry.path[i], way[i], way[i + 1])
  BY DEF Begins, Along
<1>4. Passes(edge, way[n + 1], node)
  BY <1>2, <1>3 DEF Passes, T!Joins, T!Targets
<1>5. /\ way \in [1..n + 1 -> NodesOfGraph] /\ way[1] = From
      /\ \A i, j \in 1..n + 1 : way[i] = way[j] => i = j
  BY DEF Walks
<1>6. /\ further \in [1..(n + 1) + 1 -> NodesOfGraph]
      /\ \A j \in 1..n + 1 : further[j] = way[j]
      /\ further[(n + 1) + 1] = node
  BY <1>2, <1>5
<1> HIDE DEF further
<1>7. further \in Walks(n + 1)
  <2>1. further[1] = From
    BY <1>5, <1>6
  <2>2. ASSUME NEW i \in 1..(n + 1) + 1, NEW j \in 1..(n + 1) + 1, further[i] = further[j]
        PROVE  i = j
    <3>1. \A h \in 1..n + 1 : further[h] # node
      BY <1>2, <1>3, <1>6
    <3>2. i \in 1..n + 1 \/ i = (n + 1) + 1
      OBVIOUS
    <3>3. j \in 1..n + 1 \/ j = (n + 1) + 1
      OBVIOUS
    <3> QED
      BY <1>5, <1>6, <2>2, <3>1, <3>2, <3>3
  <2> QED
    BY <1>6, <2>1, <2>2 DEF Walks
<1>8. /\ path \in [1..n + 1 -> graph]
      /\ \A i \in 1..n : path[i] = entry.path[i]
      /\ path[n + 1] = edge
  <2>1. entry.path \in Seq(graph) /\ Len(entry.path) = n
    BY <1>3, SeqDef
  <2> DEFINE old == entry.path
  <2> HIDE DEF old
  <2>2. old \in Seq(graph) /\ Len(old) = n
    BY <2>1 DEF old
  <2>3. /\ Append(old, edge) \in [1..n + 1 -> graph]
        /\ \A i \in 1..n : Append(old, edge)[i] = old[i]
        /\ Append(old, edge)[n + 1] = edge
    <3>1. /\ Append(old, edge) \in Seq(graph) /\ Len(Append(old, edge)) = n + 1
          /\ \A i \in 1..n : Append(old, edge)[i] = old[i]
          /\ Append(old, edge)[n + 1] = edge
      BY <1>2, <2>2, AppendProperties
    <3> DEFINE new == Append(old, edge)
    <3> HIDE DEF new
    <3>2. new \in Seq(graph) /\ Len(new) = n + 1
      BY <3>1 DEF new
    <3>3. new \in [1..n + 1 -> graph]
      BY <3>2
    <3> QED
      BY <3>1, <3>3 DEF new
  <2> QED
    BY <2>3 DEF old
<1> HIDE DEF path
<1>9. Along(n + 1, further, path)
  <2>1. ASSUME NEW i \in 1..n + 1 PROVE Passes(path[i], further[i], further[i + 1])
    <3>1. CASE i \in 1..n
      <4>1. i + 1 \in 1..n + 1 /\ i \in 1..n + 1
        BY <3>1
      <4> QED
        BY <1>3, <1>6, <1>8, <3>1, <4>1
    <3>2. CASE i = n + 1
      BY <1>4, <1>6, <1>8, <3>2
    <3> QED
      BY <3>1, <3>2
  <2> QED
    BY <1>8, <2>1 DEF Along
<1>10. entry.nodes \cup {node} = {further[j] : j \in 1..(n + 1) + 1}
  <2>1. 1..(n + 1) + 1 = (1..n + 1) \cup {(n + 1) + 1}
    OBVIOUS
  <2>2. {further[j] : j \in 1..n + 1} = {way[j] : j \in 1..n + 1}
    BY <1>6
  <2> QED
    BY <1>3, <1>6, <2>1, <2>2
<1>11. longer = [node |-> further[(n + 1) + 1], path |-> path,
                 nodes |-> {further[j] : j \in 1..(n + 1) + 1}]
  BY <1>1, <1>6, <1>10 DEF edge, node, path
<1>12. longer.path = path
  BY <1>11
<1>13. Begins(n + 1, further, longer)
  BY <1>9, <1>11, <1>12 DEF Begins
<1> QED
  BY <1>7, <1>13

\* The search makes the beginning of a path longer by the path's next step, among others.
LEMMA LongerComplete ==
    ASSUME NEW n \in Nat, NEW way \in Walks(n), NEW path \in [1..n -> graph],
           Along(n, way, path), NEW k \in 0..n, k < n
    PROVE  Begun(way, path, k + 1) \in T!Longer(Begun(way, path, k))
<1> DEFINE entry == Begun(way, path, k)
           step == <<path[k + 1], way[k + 2]>>
<1>1. /\ way \in [1..n + 1 -> NodesOfGraph]
      /\ \A i, j \in 1..n + 1 : way[i] = way[j] => i = j
  BY DEF Walks
<1>2. /\ k + 1 \in 1..n /\ k + 2 \in 1..n + 1 /\ k \in Nat
      /\ (k + 1) + 1 = k + 2 /\ 1..k + 1 \subseteq 1..n + 1 /\ k + 2 \notin 1..k + 1
      /\ 1..(k + 1) + 1 = (1..k + 1) \cup {k + 2}
  OBVIOUS
<1>3. Passes(path[k + 1], way[k + 1], way[k + 2])
  BY <1>2 DEF Along
<1>4. entry.node = way[k + 1] /\ entry.nodes = {way[j] : j \in 1..k + 1}
      /\ entry.path = SubSeq(path, 1, k)
  BY DEF Begun
<1>5. way[k + 2] \notin entry.nodes
  BY <1>1, <1>2, <1>4
<1>6. way[k + 2] \in T!Targets(path[k + 1], entry.node)
  BY <1>3, <1>4 DEF Passes, T!Joins, T!Targets
<1>7. step \in T!Onward(entry)
  <2>1. step \in graph \X NodesOfGraph /\ step[1] = path[k + 1] /\ step[2] = way[k + 2]
    BY <1>1, <1>2
  <2> HIDE DEF step, entry
  <2> QED
    BY <1>3, <1>5, <1>6, <2>1 DEF T!Onward, Passes
<1>8. Append(SubSeq(path, 1, k), path[k + 1]) = SubSeq(path, 1, k + 1)
  <2>1. path \in Seq(graph) /\ Len(path) = n
    BY SeqDef
  <2>2. SubSeq(path, 1, k + 1) = SubSeq(path, 1, (k + 1) - 1) \o <<path[k + 1]>>
    BY <1>2, <2>1, SubSeqRecursiveSecond
  <2>3. SubSeq(path, 1, k) \in Seq(graph) /\ path[k + 1] \in graph /\ (k + 1) - 1 = k
    BY <1>2, <2>1
  <2>4. Append(SubSeq(path, 1, k), path[k + 1]) = SubSeq(path, 1, k) \o <<path[k + 1]>>
    BY <2>3, AppendIsConcat
  <2> QED
    BY <2>2, <2>3, <2>4
<1>9. Begun(way, path, k + 1) =
          [node |-> way[k + 2], path |-> Append(entry.path, path[k + 1]),
           nodes |-> entry.nodes \cup {way[k + 2]}]
  <2>1. {way[j] : j \in 1..(k + 1) + 1} = {way[j] : j \in 1..k + 1} \cup {way[k + 2]}
    BY <1>2
  <2> QED
    BY <1>2, <1>4, <1>8, <2>1 DEF Begun
<1>10. \E s \in T!Onward(entry) :
           Begun(way, path, k + 1) =
               [node |-> s[2], path |-> Append(entry.path, s[1]),
                nodes |-> entry.nodes \cup {s[2]}]
  BY <1>7, <1>9
<1> QED
  BY <1>10 DEF T!Longer

LEMMA TransferInit == T!Init => Searching
<1> SUFFICES ASSUME T!Init PROVE Searching
  OBVIOUS
<1> DEFINE first == [node |-> From, path |-> <<>>, nodes |-> {From}]
<1>1. /\ graph \in Graphs /\ max_depth \in Depths /\ require_validated \in BOOLEAN
      /\ paths = <<first>> /\ found = {}
  BY DEF T!Init
<1>2. max_depth \in Nat /\ 0 \in 0..max_depth
  BY <1>1, TransferKnows
<1>3. DOMAIN paths = {1} /\ paths[1] = first /\ Len(paths) = 1
  BY <1>1
<1>4. Searched
  <2> HIDE DEF first
  <2>1. {paths[i] : i \in DOMAIN paths} = {first} /\ <<first>> \in Seq({first})
    BY <1>3
  <2> QED
    BY <1>1, <2>1 DEF Searched
<1>5. InQueue(first)
  <2> DEFINE way == [j \in 1..0 + 1 |-> From]
  <2>1. way \in Walks(0) /\ way[0 + 1] = From
    BY TransferKnows DEF Walks
  <2>2. {way[j] : j \in 1..0 + 1} = {From}
    OBVIOUS
  <2>3. first.path = <<>> /\ <<>> \in [1..0 -> graph] /\ 1..0 = {}
    OBVIOUS
  <2> HIDE DEF way
  <2>4. Begins(0, way, first)
    BY <2>1, <2>2, <2>3 DEF Begins, Along
  <2> QED
    BY <1>2, <2>1, <2>4 DEF InQueue
<1>6. Sound
  BY <1>1, <1>3, <1>5 DEF Sound
<1>7. Complete
  <2> SUFFICES ASSUME NEW n \in 0..max_depth, NEW way \in Walks(n), NEW path \in [1..n -> graph]
               PROVE  paths[1] = Begun(way, path, 0) /\ 0 \in 0..n
    <3>1. 1 \in DOMAIN paths
      BY <1>3
    <3> QED
      BY <3>1, Zenon DEF Complete, Underway
  <2>1. n \in Nat
    BY <1>2
  <2>2. way[0 + 1] = From /\ {way[j] : j \in 1..0 + 1} = {From}
    BY <2>1 DEF Walks
  <2>3. SubSeq(path, 1, 0) = <<>>
    OBVIOUS
  <2>4. first = Begun(way, path, 0)
    BY <2>2, <2>3 DEF Begun
  <2>5. 0 \in 0..n
    BY <2>1
  <2> QED
    BY <1>3, <2>4, <2>5
<1> QED
  BY <1>4, <1>6, <1>7 DEF Searching

\* What is said of the graph and of the search's parameters stays so while they do.
LEMMA SameGraph ==
    ASSUME UNCHANGED <<graph, max_depth, require_validated>>
    PROVE  /\ \A n, way, path : Along(n, way, path)' <=> Along(n, way, path)
           /\ \A entry : InQueue(entry)' <=> InQueue(entry)
           /\ \A entry : InAnswer(entry)' <=> InAnswer(entry)
<1>1. ASSUME NEW n, NEW way, NEW path PROVE Along(n, way, path)' <=> Along(n, way, path)
  BY DEF Along, Passes
<1>2. ASSUME NEW entry PROVE InQueue(entry)' <=> InQueue(entry)
  BY DEF InQueue, Begins, Walks, Along, Passes
<1>3. ASSUME NEW entry PROVE InAnswer(entry)' <=> InAnswer(entry)
  BY DEF InAnswer, Answers, Walks, Along, Passes
<1> QED
  BY <1>1, <1>2, <1>3

\* What a turn of the loop does with the queue.
LEMMA TransferTurn ==
    ASSUME Searching, T!Step
    PROVE  /\ paths # <<>> /\ Head(paths) = paths[1] /\ 1 \in DOMAIN paths
           /\ UNCHANGED <<graph, max_depth, require_validated>>
           /\ paths' \in Seq({paths'[i] : i \in DOMAIN paths'})
           /\ \A i \in DOMAIN paths' :
                  \/ \E j \in DOMAIN paths : paths'[i] = paths[j]
                  \/ /\ paths[1].node # To /\ ~T!Deep(paths[1])
                     /\ paths'[i] \in T!Longer(paths[1])
           /\ \A j \in DOMAIN paths : j # 1 => \E i \in DOMAIN paths' : paths'[i] = paths[j]
           /\ paths[1].node # To /\ ~T!Deep(paths[1]) =>
                  \A x \in T!Longer(paths[1]) : \E i \in DOMAIN paths' : paths'[i] = x
<1> DEFINE entry == Head(paths)
           new == IF entry.node = To \/ T!Deep(entry) THEN <<>>
                  ELSE T!SetToSeq(T!Longer(entry))
<1>1. /\ paths # <<>> /\ paths' = Tail(paths) \o new
      /\ UNCHANGED <<graph, max_depth, require_validated>>
  BY DEF T!Step
<1> DEFINE All == {paths[j] : j \in DOMAIN paths} \cup T!Longer(entry)
<1>2. graph \in Graphs /\ paths \in Seq({paths[j] : j \in DOMAIN paths})
  BY DEF Searching, Searched
<1>3. Len(paths) \in Nat \ {0} /\ DOMAIN paths = 1..Len(paths) /\ entry = paths[1]
  BY <1>1, <1>2
<1>4. T!SetToSeq(T!Longer(entry)) \in Seq(T!Longer(entry))
  BY <1>2, LongerFinite, SequenceOfSet
<1>5. \A x \in T!Longer(entry) :
          \E i \in DOMAIN T!SetToSeq(T!Longer(entry)) : T!SetToSeq(T!Longer(entry))[i] = x
  BY <1>2, LongerFinite, SequenceOfSet
<1>6. /\ new \in Seq(T!Longer(entry))
      /\ new # <<>> => entry.node # To /\ ~T!Deep(entry)
      /\ entry.node # To /\ ~T!Deep(entry) =>
             \A x \in T!Longer(entry) : \E i \in DOMAIN new : new[i] = x
  BY <1>4, <1>5
<1> DEFINE rest == Tail(paths)
<1>7. /\ rest \in Seq({paths[j] : j \in DOMAIN paths}) /\ Len(rest) = Len(paths) - 1
      /\ \A i \in 1..Len(rest) : rest[i] = paths[i + 1]
  BY <1>1, <1>2, <1>3
<1> HIDE DEF entry, new, rest
<1>8. /\ paths' = rest \o new /\ Len(rest) \in Nat /\ Len(new) \in Nat
      /\ Len(paths') = Len(rest) + Len(new) /\ DOMAIN paths' = 1..Len(paths')
      /\ \A i \in 1..Len(rest) : paths'[i] = rest[i]
      /\ \A i \in 1..Len(new) : paths'[Len(rest) + i] = new[i]
  <2>1. rest \in Seq(All) /\ new \in Seq(All)
    BY <1>6, <1>7
  <2> HIDE DEF All
  <2> QED
    BY <1>1, <2>1 DEF rest, new, entry
<1>9. paths' \in Seq({paths'[i] : i \in DOMAIN paths'})
  <2>1. rest \o new \in Seq(All)
    BY <1>6, <1>7
  <2> HIDE DEF All
  <2>2. paths' \in Seq(All)
    BY <1>8, <2>1
  <2>3. paths' \in [1..Len(paths') -> {paths'[i] : i \in DOMAIN paths'}] /\ Len(paths') \in Nat
    BY <2>2
  <2> QED
    BY <2>3, SeqDef
<1>10. ASSUME NEW i \in DOMAIN paths'
       PROVE  \/ \E j \in DOMAIN paths : paths'[i] = paths[j]
              \/ /\ paths[1].node # To /\ ~T!Deep(paths[1])
                 /\ paths'[i] \in T!Longer(paths[1])
  <2>1. CASE i \in 1..Len(rest)
    <3>1. i + 1 \in DOMAIN paths
      BY <1>3, <1>7, <2>1
    <3>2. paths'[i] = rest[i] /\ rest[i] = paths[i + 1]
      BY <1>7, <1>8, <2>1
    <3> QED
      BY <3>1, <3>2
  <2>2. CASE i \notin 1..Len(rest)
    <3>1. /\ i - Len(rest) \in 1..Len(new) /\ Len(rest) + (i - Len(rest)) = i
      BY <1>8, <2>2
    <3>2. paths'[i] = new[i - Len(rest)]
      BY <1>8, <3>1
    <3>3. paths'[i] \in T!Longer(entry) /\ new # <<>>
      BY <1>6, <3>1, <3>2
    <3> QED
      BY <1>3, <1>6, <3>3
  <2> QED
    BY <2>1, <2>2
<1>11. ASSUME NEW j \in DOMAIN paths, j # 1 PROVE \E i \in DOMAIN paths' : paths'[i] = paths[j]
  <2>1. j - 1 \in 1..Len(rest) /\ (j - 1) + 1 = j
    BY <1>3, <1>7, <1>11
  <2>2. j - 1 \in DOMAIN paths' /\ paths'[j - 1] = paths[j]
    BY <1>7, <1>8, <2>1
  <2> QED
    BY <2>2
<1>12. ASSUME paths[1].node # To, ~T!Deep(paths[1]), NEW x \in T!Longer(paths[1])
       PROVE  \E i \in DOMAIN paths' : paths'[i] = x
  <2>1. PICK i \in 1..Len(new) : new[i] = x
    BY <1>3, <1>6, <1>12
  <2>2. Len(rest) + i \in DOMAIN paths' /\ paths'[Len(rest) + i] = x
    BY <1>8, <2>1
  <2> QED
    BY <2>2
<1>13. Head(paths) = paths[1] /\ 1 \in DOMAIN paths
  BY <1>3 DEF entry
<1>14. UNCHANGED <<graph, max_depth, require_validated>> /\ paths # <<>>
  BY <1>1
<1> QED
  BY <1>9, <1>10, <1>11, <1>12, <1>13, <1>14

\* What the turn adds to the answer, and nothing else.
LEMMA TransferFound ==
    ASSUME T!Step
    PROVE  /\ found \subseteq found'
           /\ \A x \in found' : x \in found \/
                  /\ Head(paths).node = To
                  /\ x = [path |-> Head(paths).path, open |-> T!OpenOnPath(Head(paths).path)]
           /\ Head(paths).node = To =>
                  [path |-> Head(paths).path, open |-> T!OpenOnPath(Head(paths).path)] \in found'
  BY DEF T!Step

LEMMA TransferSteps == Searching /\ [T!Next]_(T!vars) => Searching'
<1> SUFFICES ASSUME Searching, [T!Next]_(T!vars) PROVE Searching'
  OBVIOUS
<1>1. CASE UNCHANGED T!vars
  <2>1. UNCHANGED <<graph, max_depth, require_validated, paths, found>>
    BY <1>1 DEF T!vars
  <2>2. Searched'
    BY <2>1 DEF Searching, Searched
  <2>3. Sound'
    <3>1. \A i \in DOMAIN paths : InQueue(paths[i])'
      BY <2>1, SameGraph DEF Searching, Sound
    <3>2. \A entry \in found : InAnswer(entry)'
      BY <2>1, SameGraph DEF Searching, Sound
    <3> QED
      BY <2>1, <3>1, <3>2 DEF Sound
  <2>4. Complete'
    <3> SUFFICES ASSUME NEW n \in 0..max_depth, NEW way \in Walks(n), NEW path \in [1..n -> graph],
                        Along(n, way, path)', way[n + 1] = To
                 PROVE  Underway(n, way, path)'
      BY <2>1 DEF Complete, Walks
    <3>1. Along(n, way, path)
      BY <2>1, SameGraph
    <3>2. Underway(n, way, path)
      BY <3>1 DEF Searching, Complete
    <3> QED
      BY <2>1, <3>2 DEF Underway, Begun
  <2> QED
    BY <2>2, <2>3, <2>4 DEF Searching
<1>2. CASE T!Step
  <2> DEFINE first == paths[1]
  <2>1. /\ paths # <<>> /\ Head(paths) = first /\ 1 \in DOMAIN paths
        /\ UNCHANGED <<graph, max_depth, require_validated>>
        /\ paths' \in Seq({paths'[i] : i \in DOMAIN paths'})
        /\ \A i \in DOMAIN paths' :
               \/ \E j \in DOMAIN paths : paths'[i] = paths[j]
               \/ /\ first.node # To /\ ~T!Deep(first)
                  /\ paths'[i] \in T!Longer(first)
        /\ \A j \in DOMAIN paths : j # 1 => \E i \in DOMAIN paths' : paths'[i] = paths[j]
        /\ first.node # To /\ ~T!Deep(first) =>
               \A x \in T!Longer(first) : \E i \in DOMAIN paths' : paths'[i] = x
    BY <1>2, TransferTurn
  <2> HIDE DEF first
  <2>2. Searched'
    BY <2>1 DEF Searching, Searched
  <2>3. max_depth \in Nat
    BY TransferKnows DEF Searching, Searched
  <2>4. PICK m \in 0..max_depth : \E way \in Walks(m) : Begins(m, way, first)
    BY <2>1 DEF Searching, Sound, InQueue, first
  <2>5. PICK walked \in Walks(m) : Begins(m, walked, first)
    BY <2>4
  <2>6. /\ first.node = walked[m + 1] /\ Along(m, walked, first.path)
        /\ first.path \in [1..m -> graph] /\ m \in Nat
    BY <2>3, <2>5 DEF Begins, Along
  <2>7. Len(first.path) = m
    <3>1. first.path \in Seq(graph) /\ DOMAIN first.path = 1..m
      BY <2>6, SeqDef
    <3> QED
      BY <2>6, <3>1
  <2>9. ASSUME NEW entry, InAnswer(entry) PROVE InAnswer(entry)'
    BY <2>1, <2>9, SameGraph
  <2>10. ASSUME NEW longer \in T!Longer(first), ~T!Deep(first) PROVE InQueue(longer)
    <3>1. m < max_depth
      BY <2>3, <2>6, <2>7, <2>10 DEF T!Deep
    <3>2. m + 1 \in 0..max_depth
      BY <2>3, <2>6, <3>1
    <3>3. \E further \in Walks(m + 1) : Begins(m + 1, further, longer)
      BY <2>5, <2>6, LongerSound
    <3> QED
      BY <3>2, <3>3 DEF InQueue
  <2>11. \A i \in DOMAIN paths' : InQueue(paths[i])'
    <3> SUFFICES ASSUME NEW i \in DOMAIN paths' PROVE InQueue(paths[i])'
      OBVIOUS
    <3> DEFINE entry == paths'[i]
    <3>1. InQueue(entry)
      BY <2>1, <2>10 DEF Searching, Sound
    <3>2. InQueue(entry) <=> InQueue(paths[i])'
      BY <2>1 DEF InQueue, Begins, Walks, Along, Passes
    <3> QED
      BY <3>1, <3>2
  <2>12. ASSUME NEW entry \in found' PROVE InAnswer(entry)'
    <3>1. CASE entry \in found
      BY <2>9, <3>1 DEF Searching, Sound
    <3>2. CASE entry \notin found
      <4>1. first.node = To /\ entry = [path |-> first.path, open |-> T!OpenOnPath(first.path)]
        BY <1>2, <2>1, <3>2, TransferFound
      <4>2. entry.path = first.path
        BY <4>1
      <4>3. Answers(m, walked, entry)
        BY <2>6, <4>1, <4>2 DEF Answers
      <4> QED
        BY <2>9, <4>3 DEF InAnswer
    <3> QED
      BY <3>1, <3>2
  <2>13. Sound'
    BY <2>11, <2>12 DEF Sound
  <2>14. ASSUME NEW n \in 0..max_depth, NEW way \in Walks(n), NEW path \in [1..n -> graph],
                Along(n, way, path), way[n + 1] = To
         PROVE  Underway(n, way, path)'
    <3>1. n \in Nat
      BY <2>3
    <3>2. Underway(n, way, path)
      BY <2>14 DEF Searching, Complete
    <3>3. CASE \E entry \in found : entry.path = path
      BY <1>2, <3>3, TransferFound DEF Underway
    <3>4. ASSUME NEW k \in 0..n, NEW i \in DOMAIN paths, paths[i] = Begun(way, path, k)
          PROVE  Underway(n, way, path)'
      <4>1. CASE i # 1
        <5>1. \E j \in DOMAIN paths' : paths'[j] = Begun(way, path, k)
          BY <2>1, <3>4, <4>1
        <5> QED
          BY <5>1 DEF Underway, Begun
      <4>2. CASE i = 1
        <5>1. /\ first.node = way[k + 1] /\ first.path = SubSeq(path, 1, k)
              /\ first = Begun(way, path, k)
          BY <3>4, <4>2 DEF first, Begun
        <5>2. path \in Seq(graph) /\ Len(path) = n
          BY <3>1, SeqDef
        <5>3. CASE k = n
          <6>1. first.path = path /\ first.node = To
            BY <2>14, <5>1, <5>2, <5>3, SubSeqFull
          <6>2. [path |-> path, open |-> T!OpenOnPath(path)] \in found'
            BY <1>2, <2>1, <6>1, TransferFound
          <6>3. [path |-> path, open |-> T!OpenOnPath(path)].path = path
            OBVIOUS
          <6> QED
            BY <6>2, <6>3, Zenon DEF Underway
        <5>4. CASE k # n
          <6>1. k < n /\ k \in Nat /\ k + 1 \in 0..n /\ k + 1 \in 1..n + 1 /\ n + 1 \in 1..n + 1
            BY <3>1, <5>4
          <6>2. first.node # To
            <7>1. way[k + 1] # way[n + 1]
              BY <3>1, <6>1 DEF Walks
            <7> QED
              BY <2>14, <5>1, <7>1
          <6>3. Len(first.path) = k
            BY <5>1, <5>2, <6>1
          <6>4. ~T!Deep(first)
            BY <2>3, <6>1, <6>3 DEF T!Deep
          <6>5. Begun(way, path, k + 1) \in T!Longer(first)
            BY <2>14, <3>1, <5>1, <6>1, LongerComplete
          <6>6. \E j \in DOMAIN paths' : paths'[j] = Begun(way, path, k + 1)
            BY <2>1, <6>2, <6>4, <6>5
          <6> QED
            BY <6>1, <6>6 DEF Underway, Begun
        <5> QED
          BY <5>3, <5>4
      <4> QED
        BY <4>1, <4>2
    <3> QED
      BY <3>2, <3>3, <3>4 DEF Underway
  <2>15. Complete'
    <3> SUFFICES ASSUME NEW n \in 0..max_depth, NEW way \in Walks(n), NEW path \in [1..n -> graph],
                        Along(n, way, path)', way[n + 1] = To
                 PROVE  Underway(n, way, path)'
      BY <2>1 DEF Complete, Walks
    <3>1. Along(n, way, path)
      BY <2>1, SameGraph
    <3> QED
      BY <2>14, <3>1
  <2> QED
    BY <2>2, <2>13, <2>15 DEF Searching
<1> QED
  BY <1>1, <1>2 DEF T!Next

\* The paths of the definition are those the search looks for.
LEMMA PathsAre ==
    ASSUME graph \in Graphs, NEW n \in Nat, NEW way \in [1..n + 1 -> NodesOfGraph]
    PROVE  /\ way \in T!Ways(n) <=> way \in Walks(n) /\ way[n + 1] = To
           /\ \A path : path \in T!PathsAlong(way) <=> Along(n, way, path)
<1>1. way \in T!Ways(n) <=> way \in Walks(n) /\ way[n + 1] = To
  BY DEF T!Ways, T!IsInjective, Walks
<1>2. Len(way) - 1 = n
  <2>1. way \in Seq(NodesOfGraph) /\ DOMAIN way = 1..n + 1
    BY SeqDef
  <2> QED
    BY <2>1
<1>3. ASSUME NEW edge \in graph, NEW a, NEW b
      PROVE  Passes(edge, a, b) <=>
                 /\ T!Joins(edge, a, b)
                 /\ require_validated =>
                        \A r \in edge.obligations :
                            [recipe_ref |-> r, status |-> "pass"] \in edge.evidence_refs
  BY OpenIs DEF Passes
<1>4. ASSUME NEW path PROVE path \in T!PathsAlong(way) <=> Along(n, way, path)
  <2>1. path \in T!PathsAlong(way) <=>
            /\ path \in [1..n -> graph]
            /\ \A i \in DOMAIN path :
                  /\ T!Joins(path[i], way[i], way[i + 1])
                  /\ require_validated =>
                         \A r \in path[i].obligations :
                             [recipe_ref |-> r, status |-> "pass"] \in path[i].evidence_refs
    BY <1>2 DEF T!PathsAlong
  <2>2. ASSUME path \in [1..n -> graph]
        PROVE  \A i \in 1..n :
                   Passes(path[i], way[i], way[i + 1]) <=>
                       /\ T!Joins(path[i], way[i], way[i + 1])
                       /\ require_validated =>
                              \A r \in path[i].obligations :
                                  [recipe_ref |-> r, status |-> "pass"] \in path[i].evidence_refs
    BY <1>3, <2>2
  <2> QED
    BY <2>1, <2>2 DEF Along
<1> QED
  BY <1>1, <1>4

LEMMA TransferTrue == Searching => PathsTrue
<1> SUFFICES ASSUME Searching PROVE PathsTrue
  OBVIOUS
<1>1. graph \in Graphs /\ max_depth \in Nat
  BY TransferKnows DEF Searching, Searched
<1>2. ASSUME NEW path
      PROVE  path \in T!TransferPaths <=>
                 \E n \in 0..max_depth : \E way \in Walks(n) :
                     way[n + 1] = To /\ Along(n, way, path)
  <2>1. path \in T!TransferPaths <=>
            \E n \in 0..max_depth : \E way \in T!Ways(n) : path \in T!PathsAlong(way)
    BY DEF T!TransferPaths
  <2>2. ASSUME NEW n \in 0..max_depth
        PROVE  (\E way \in T!Ways(n) : path \in T!PathsAlong(way)) <=>
                   \E way \in Walks(n) : way[n + 1] = To /\ Along(n, way, path)
    <3>1. n \in Nat
      BY <1>1
    <3>2. T!Ways(n) \subseteq [1..n + 1 -> NodesOfGraph] /\ Walks(n) \subseteq [1..n + 1 -> NodesOfGraph]
      BY DEF T!Ways, Walks
    <3> QED
      BY <1>1, <3>1, <3>2, PathsAre
  <2> QED
    BY <2>1, <2>2
<1>3. T!ExactlyThePaths
  <2> SUFFICES ASSUME paths = <<>> PROVE {entry.path : entry \in found} = T!TransferPaths
    BY DEF T!ExactlyThePaths
  <2>1. ASSUME NEW entry \in found PROVE entry.path \in T!TransferPaths
    <3>1. PICK n \in 0..max_depth : \E way \in Walks(n) : Answers(n, way, entry)
      BY DEF Searching, Sound, InAnswer
    <3> QED
      BY <1>2, <3>1 DEF Answers
  <2>2. ASSUME NEW path \in T!TransferPaths PROVE \E entry \in found : entry.path = path
    <3>1. PICK n \in 0..max_depth : \E way \in Walks(n) : way[n + 1] = To /\ Along(n, way, path)
      BY <1>2
    <3>2. PICK way \in Walks(n) : way[n + 1] = To /\ Along(n, way, path)
      BY <3>1
    <3>3. path \in [1..n -> graph]
      BY <3>2 DEF Along
    <3>4. Underway(n, way, path)
      BY <3>2, <3>3 DEF Searching, Complete
    <3> QED
      BY <3>4 DEF Underway
  <2> QED
    BY <2>1, <2>2
<1>4. T!NothingHidden
  <2> SUFFICES ASSUME NEW entry \in found
               PROVE  /\ require_validated => entry.open = {}
                      /\ \A i \in DOMAIN entry.path : \A r \in entry.path[i].obligations :
                             <<entry.path[i], r>> \in entry.open <=>
                                 [recipe_ref |-> r, status |-> "pass"]
                                     \notin entry.path[i].evidence_refs
    BY Zenon DEF T!NothingHidden
  <2>1. PICK n \in 0..max_depth : \E way \in Walks(n) : Answers(n, way, entry)
    BY DEF Searching, Sound, InAnswer
  <2>2. PICK way \in Walks(n) : Answers(n, way, entry)
    BY <2>1
  <2> DEFINE path == entry.path
  <2>3. /\ path \in [1..n -> graph] /\ entry.open = T!OpenOnPath(path)
        /\ \A i \in 1..n : Passes(path[i], way[i], way[i + 1])
    BY <2>2 DEF Answers, Along
  <2> HIDE DEF path
  <2>4. ASSUME NEW edge, NEW r
        PROVE  <<edge, r>> \in T!OpenOnPath(path) <=>
                   (\E i \in 1..n : path[i] = edge) /\ r \in T!Open(edge)
    BY <2>3 DEF T!OpenOnPath, T!ToSet
  <2>5. ASSUME require_validated PROVE entry.open = {}
    <3>1. \A i \in 1..n : T!Open(path[i]) = {}
      BY <2>3, <2>5 DEF Passes
    <3> QED
      BY <2>3, <3>1 DEF T!OpenOnPath, T!ToSet
  <2>6. ASSUME NEW i \in 1..n, NEW r \in path[i].obligations
        PROVE  <<path[i], r>> \in entry.open <=>
                   [recipe_ref |-> r, status |-> "pass"] \notin path[i].evidence_refs
    <3>1. <<path[i], r>> \in entry.open <=> r \in T!Open(path[i])
      BY <2>3, <2>4
    <3>2. path[i] \in graph
      BY <2>3
    <3>3. T!Satisfied(r, path[i]) <=>
              [recipe_ref |-> r, status |-> "pass"] \in path[i].evidence_refs
      BY <1>1, <3>2, OpenIs
    <3> QED
      BY <3>1, <3>3 DEF T!Open
  <2>7. DOMAIN path = 1..n
    BY <2>3
  <2> QED
    BY <2>5, <2>6, <2>7 DEF path
<1> QED
  BY <1>3, <1>4 DEF PathsTrue, T!PathsTrue

\* For every finite graph and every depth, the search finds every simple path over the edges and
\* no other, and hides nothing that is open on one (core/graph.py:257-357).
THEOREM TransfersTrue == T!Spec => []PathsTrue
  BY TransferInit, TransferSteps, TransferTrue, PTL DEF T!Spec
=============================================================================
