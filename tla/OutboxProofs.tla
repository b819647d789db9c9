----------------------------- MODULE OutboxProofs -----------------------------
(***************************************************************************)
(* What is proved about Outbox, for any number of deliverers, effects,     *)
(* handlers and failures.                                                  *)
(***************************************************************************)
EXTENDS Outbox, FiniteSetTheorems, TLAPS

-----------------------------------------------------------------------------
(* Types. *)

\* AppendIdempotent keeps a journal a journal.
LEMMA AppendIdempotentTyped ==
    ASSUME NEW read \in Seq(Effects), NEW e \in Effects
    PROVE  AppendIdempotent(read, e) \in Seq(Effects)
  BY DEF AppendIdempotent

\* A run that is over holds nothing.
LEMMA LeaveTyped ==
    ASSUME TypeOK, NEW d \in Deliverers, Leave(d), UNCHANGED <<committed, journal, performed>>,
           trouble' \in 0..MaxTrouble
    PROVE  TypeOK'
<1>1. acks' \in [Deliverers -> Seq(Effects)]
  <2>1. <<>> \in Seq(Effects)
    OBVIOUS
  <2> QED
    BY <2>1 DEF TypeOK, Leave
<1> QED
  BY <1>1 DEF TypeOK, Leave

\* Nor does an attempt that is over hold more than the run still has to do.
LEMMA AttemptedTyped ==
    ASSUME TypeOK, NEW d \in Deliverers, NEW e \in Effects, Attempted(d, e),
           committed' = committed, journal' \in Seq(Effects), performed' \in [Effects -> Nat],
           trouble' \in 0..MaxTrouble
    PROVE  TypeOK'
<1>1. acks' \in [Deliverers -> Seq(Effects)]
  <2>1. <<>> \in Seq(Effects)
    OBVIOUS
  <2> QED
    BY <2>1 DEF TypeOK, Attempted
<1> QED
  BY <1>1 DEF TypeOK, Attempted

\* One more failure is within the bound that allowed it.
LEMMA TroubleTyped ==
    ASSUME TypeOK, trouble < MaxTrouble, trouble' = trouble + 1
    PROVE  trouble' \in 0..MaxTrouble
  BY OutboxAssumption DEF TypeOK

\* What a deliverer has to do are effects.
LEMMA TodoEffects ==
    ASSUME TypeOK, NEW d \in Deliverers, NEW e \in todo[d]
    PROVE  e \in Effects /\ e \in committed
  BY DEF TypeOK

\* A step of one deliverer keeps the types.
LEMMA RunTyped ==
    ASSUME TypeOK, NEW d \in Deliverers, Run(d) \/ Fail(d)
    PROVE  TypeOK'
<1>1. CASE ReadLog(d)
  BY <1>1 DEF TypeOK, ReadLog
<1>2. CASE ReadJournal(d)
  BY <1>2 DEF TypeOK, ReadJournal, Pending
<1>3. CASE Refuse(d)
  BY <1>3, LeaveTyped DEF TypeOK, Refuse
<1>4. CASE MissingHandler(d)
  BY <1>4, AttemptedTyped, TodoEffects DEF TypeOK, MissingHandler
<1>5. CASE Deliver(d)
  BY <1>5, TodoEffects DEF TypeOK, Deliver
<1>6. CASE PoisonFails(d)
  BY <1>6, AttemptedTyped, TodoEffects DEF TypeOK, PoisonFails
<1>7. CASE LockJournal(d)
  BY <1>7 DEF TypeOK, LockJournal
<1>8. CASE Acknowledge(d)
  <2>1. PICK e \in todo[d] : journal' = AppendIdempotent(acks[d], e) /\ Attempted(d, e)
    BY <1>8 DEF Acknowledge
  <2>2. journal' \in Seq(Effects)
    BY <2>1, TodoEffects, AppendIdempotentTyped DEF TypeOK
  <2> QED
    BY <1>8, <2>1, <2>2, AttemptedTyped, TodoEffects DEF TypeOK, Acknowledge
<1>9. CASE Finish(d)
  BY <1>9, LeaveTyped DEF TypeOK, Finish
<1>10. CASE HandlerFails(d)
  <2>1. PICK e \in todo[d], done \in {0, 1} :
            performed' = [performed EXCEPT ![e] = @ + done] /\ Attempted(d, e)
    BY <1>10 DEF HandlerFails
  <2>2. performed' \in [Effects -> Nat]
    BY <2>1, TodoEffects DEF TypeOK
  <2> QED
    BY <1>10, <2>1, <2>2, AttemptedTyped, TodoEffects, TroubleTyped DEF TypeOK, HandlerFails
<1>11. CASE AckFails(d)
  BY <1>11, AttemptedTyped, TodoEffects, TroubleTyped DEF TypeOK, AckFails
<1>12. CASE Crash(d)
  BY <1>12, LeaveTyped, TroubleTyped DEF Crash
<1> QED
  BY <1>1, <1>2, <1>3, <1>4, <1>5, <1>6, <1>7, <1>8, <1>9, <1>10, <1>11, <1>12 DEF Run, Fail

\* Every variable keeps its type (TypeOK), whoever delivers and fails.
THEOREM Types == Spec => []TypeOK
<1>1. Init => TypeOK
  <2>1. <<>> \in Seq(Effects)
    OBVIOUS
  <2> QED
    BY <2>1, OutboxAssumption DEF Init, TypeOK
<1>2. TypeOK /\ [Next]_vars => TypeOK'
  <2> SUFFICES ASSUME TypeOK, [Next]_vars PROVE TypeOK'
    OBVIOUS
  <2>1. ASSUME NEW E \in SUBSET (Effects \ committed), Commit(E) PROVE TypeOK'
    BY <2>1 DEF TypeOK, Commit
  <2>2. CASE UNCHANGED vars
    BY <2>2 DEF TypeOK, vars
  <2> QED
    BY <2>1, <2>2, RunTyped DEF Next
<1> QED
  BY <1>1, <1>2, PTL DEF Spec

-----------------------------------------------------------------------------
(* The inductive invariant of the journal. *)

\* Whoever holds the journal's lock has read the journal as it is, and nobody else holds it.
LockKept ==
    \A d \in Deliverers : pc[d] = "locked" =>
        /\ acks[d] = journal
        /\ \A c \in Deliverers : pc[c] = "locked" => c = d

\* A deliverer is about to acknowledge what was carried out.
AckedNext ==
    \A d \in Deliverers : pc[d] \in {"performed", "locked"} =>
        \A e \in todo[d] : IsNext(d, e) => performed[e] > 0

JInv == TypeOK /\ LockKept /\ AckedNext /\ AckedWasPerformed /\ OneAck

\* A deliverer has one effect to attempt next.
LEMMA NextIsOne ==
    ASSUME TypeOK, NEW d \in Deliverers, NEW e, NEW f, IsNext(d, e), IsNext(d, f)
    PROVE  e = f
<1>1. e \in Nat /\ f \in Nat
  BY OutboxAssumption, TodoEffects DEF IsNext
<1> QED
  BY <1>1 DEF IsNext

\* The journal after an acknowledgement: the effect is in it, once.
LEMMA AppendedOnce ==
    ASSUME NEW read \in Seq(Effects), NEW e \in Effects,
           \A i, j \in DOMAIN read : read[i] = read[j] => i = j
    PROVE  /\ \A i, j \in DOMAIN AppendIdempotent(read, e) :
                  AppendIdempotent(read, e)[i] = AppendIdempotent(read, e)[j] => i = j
           /\ ToSet(AppendIdempotent(read, e)) = ToSet(read) \cup {e}
<1>1. CASE e \in ToSet(read)
  BY <1>1 DEF AppendIdempotent
<1>2. CASE e \notin ToSet(read)
  <2> DEFINE new == Append(read, e)
  <2>1. AppendIdempotent(read, e) = new
    BY <1>2 DEF AppendIdempotent
  <2>2. /\ DOMAIN new = DOMAIN read \cup {Len(read) + 1}
        /\ \A i \in DOMAIN read : new[i] = read[i]
        /\ new[Len(read) + 1] = e
        /\ Len(read) + 1 \notin DOMAIN read
    OBVIOUS
  <2>3. \A i \in DOMAIN read : read[i] # e
    BY <1>2 DEF ToSet
  <2>4. ToSet(new) = ToSet(read) \cup {e}
    <3> HIDE DEF new
    <3> QED
      BY <2>2 DEF ToSet
  <2>5. \A i, j \in DOMAIN new : new[i] = new[j] => i = j
    <3> HIDE DEF new
    <3> QED
      BY <2>2, <2>3
  <2> QED
    BY <2>1, <2>4, <2>5
<1> QED
  BY <1>1, <1>2

\* The deliverer holds neither the lock nor a result; nobody else does anything.
GoesOn(d) ==
    /\ pc'[d] \notin {"performed", "locked"}
    /\ \A c \in Deliverers \ {d} : pc'[c] = pc[c] /\ todo'[c] = todo[c] /\ acks'[c] = acks[c]
    /\ journal' = journal /\ committed' = committed

\* Such a step keeps the invariant, whatever else was carried out.
LEMMA GoesOnJInv ==
    ASSUME JInv, NEW d \in Deliverers, GoesOn(d),
           \/ performed' = performed
           \/ \A e \in Effects : performed'[e] \in Nat /\ performed'[e] >= performed[e]
    PROVE  (LockKept /\ AckedNext /\ AckedWasPerformed /\ OneAck)'
<1> USE DEF GoesOn
<1>1. \A c \in Deliverers : c # d => pc'[c] = pc[c]
  OBVIOUS
<1>2. LockKept'
  BY <1>1 DEF JInv, LockKept
<1>3. \A e \in Effects : performed[e] > 0 => performed'[e] > 0
  BY DEF JInv, TypeOK
<1>4. AckedNext'
  <2> SUFFICES ASSUME NEW c \in Deliverers, pc'[c] \in {"performed", "locked"},
                      NEW e \in todo'[c], IsNext(c, e)'
               PROVE  performed'[e] > 0
    BY DEF AckedNext
  <2>1. c # d /\ pc[c] \in {"performed", "locked"} /\ e \in todo[c] /\ IsNext(c, e)
    BY DEF IsNext
  <2> QED
    BY <1>3, <2>1, TodoEffects DEF JInv, AckedNext
<1>5. AckedWasPerformed'
  BY <1>3 DEF JInv, TypeOK, AckedWasPerformed, Acked
<1>6. OneAck'
  BY DEF JInv, OneAck
<1> QED
  BY <1>2, <1>4, <1>5, <1>6

\* A step of one deliverer keeps the invariant.
LEMMA RunJInv ==
    ASSUME JInv, NEW d \in Deliverers, Run(d) \/ Fail(d), TypeOK'
    PROVE  JInv'
<1> DEFINE Kept == (LockKept /\ AckedNext /\ AckedWasPerformed /\ OneAck)'
<1> SUFFICES Kept
  BY DEF JInv
<1>0. /\ pc \in [Deliverers -> {"idle", "read_log", "delivering", "performed", "locked"}]
      /\ todo \in [Deliverers -> SUBSET Effects] /\ acks \in [Deliverers -> Seq(Effects)]
  BY DEF JInv, TypeOK
<1>1. CASE ReadLog(d)
  <2>1. GoesOn(d) /\ performed' = performed
    BY <1>0, <1>1 DEF GoesOn, ReadLog
  <2> QED
    BY <2>1, GoesOnJInv
<1>2. CASE ReadJournal(d)
  <2>1. GoesOn(d) /\ performed' = performed
    BY <1>0, <1>2 DEF GoesOn, ReadJournal
  <2> QED
    BY <2>1, GoesOnJInv
<1>3. CASE Refuse(d)
  <2>1. GoesOn(d) /\ performed' = performed
    BY <1>0, <1>3 DEF GoesOn, Refuse, Leave
  <2> QED
    BY <2>1, GoesOnJInv
<1>4. CASE MissingHandler(d)
  <2>1. GoesOn(d) /\ performed' = performed
    BY <1>0, <1>4 DEF GoesOn, MissingHandler, Attempted
  <2> QED
    BY <2>1, GoesOnJInv
<1>5. CASE Deliver(d)
  <2>1. PICK e \in todo[d] : IsNext(d, e) /\ performed' = [performed EXCEPT ![e] = @ + 1]
    BY <1>5 DEF Deliver
  <2>2. e \in Effects /\ performed'[e] > 0
        /\ \A f \in Effects : performed[f] > 0 => performed'[f] > 0
    BY <2>1, TodoEffects DEF JInv, TypeOK
  <2>3. /\ pc' = [pc EXCEPT ![d] = "performed"]
        /\ UNCHANGED <<committed, journal, view, todo, acks>>
    BY <1>5 DEF Deliver
  <2>4. LockKept' /\ OneAck'
    BY <1>0, <2>3 DEF JInv, LockKept, OneAck
  <2>5. AckedWasPerformed'
    BY <2>2, <2>3 DEF JInv, TypeOK, AckedWasPerformed, Acked
  <2>6. AckedNext'
    <3> SUFFICES ASSUME NEW c \in Deliverers, pc'[c] \in {"performed", "locked"},
                        NEW f \in todo[c], IsNext(c, f)
                 PROVE  performed'[f] > 0
      BY <2>3 DEF AckedNext, IsNext
    <3>1. CASE c = d
      BY <2>1, <2>2, <3>1, NextIsOne DEF JInv
    <3>2. CASE c # d
      BY <1>0, <2>2, <2>3, <3>2, TodoEffects DEF JInv, AckedNext
    <3> QED
      BY <3>1, <3>2
  <2> QED
    BY <2>4, <2>5, <2>6
<1>6. CASE PoisonFails(d)
  <2>1. GoesOn(d) /\ performed' = performed
    BY <1>0, <1>6 DEF GoesOn, PoisonFails, Attempted
  <2> QED
    BY <2>1, GoesOnJInv
<1>7. CASE LockJournal(d)
  <2>1. /\ pc' = [pc EXCEPT ![d] = "locked"] /\ acks' = [acks EXCEPT ![d] = journal]
        /\ UNCHANGED <<committed, journal, performed, todo>> /\ pc[d] = "performed"
        /\ \A c \in Deliverers : pc[c] # "locked"
    BY <1>7 DEF LockJournal, LockFree
  <2>2. LockKept'
    BY <1>0, <2>1 DEF JInv, TypeOK, LockKept
  <2>3. AckedNext'
    BY <1>0, <2>1 DEF JInv, AckedNext, IsNext
  <2>4. AckedWasPerformed' /\ OneAck'
    BY <2>1 DEF JInv, AckedWasPerformed, Acked, OneAck
  <2> QED
    BY <2>2, <2>3, <2>4
<1>8. CASE Acknowledge(d)
  <2>1. PICK e \in todo[d] : /\ IsNext(d, e)
                             /\ journal' = AppendIdempotent(acks[d], e)
                             /\ Attempted(d, e)
    BY <1>8 DEF Acknowledge
  <2>2. /\ acks[d] = journal /\ pc[d] = "locked" /\ performed' = performed /\ committed' = committed
        /\ \A c \in Deliverers \ {d} : pc'[c] = pc[c] /\ todo'[c] = todo[c] /\ pc[c] # "locked"
        /\ pc'[d] = "delivering"
    BY <1>0, <1>8, <2>1 DEF JInv, TypeOK, LockKept, Acknowledge, Attempted
  <2>3. /\ OneAck'
        /\ Acked' = Acked \cup {e}
    BY <2>1, <2>2, AppendedOnce, TodoEffects DEF JInv, TypeOK, OneAck, Acked
  <2>4. LockKept'
    BY <2>2 DEF LockKept
  <2>5. AckedNext'
    BY <2>2 DEF JInv, AckedNext, IsNext
  <2>6. AckedWasPerformed'
    BY <2>1, <2>2, <2>3, TodoEffects DEF JInv, AckedNext, AckedWasPerformed
  <2> QED
    BY <2>3, <2>4, <2>5, <2>6
<1>9. CASE Finish(d)
  <2>1. GoesOn(d) /\ performed' = performed
    BY <1>0, <1>9 DEF GoesOn, Finish, Leave
  <2> QED
    BY <2>1, GoesOnJInv
<1>10. CASE HandlerFails(d)
  <2>1. PICK e \in todo[d], done \in {0, 1} :
            performed' = [performed EXCEPT ![e] = @ + done] /\ Attempted(d, e)
    BY <1>10 DEF HandlerFails
  <2>2. \A f \in Effects : performed'[f] \in Nat /\ performed'[f] >= performed[f]
    BY <2>1, TodoEffects DEF JInv, TypeOK
  <2>3. GoesOn(d)
    BY <1>0, <1>10, <2>1 DEF GoesOn, HandlerFails, Attempted
  <2> QED
    BY <2>2, <2>3, GoesOnJInv
<1>11. CASE AckFails(d)
  <2>1. GoesOn(d) /\ performed' = performed
    BY <1>0, <1>11 DEF GoesOn, AckFails, Attempted
  <2> QED
    BY <2>1, GoesOnJInv
<1>12. CASE Crash(d)
  <2>1. GoesOn(d) /\ performed' = performed
    BY <1>0, <1>12 DEF GoesOn, Crash, Leave
  <2> QED
    BY <2>1, GoesOnJInv
<1> QED
  BY <1>1, <1>2, <1>3, <1>4, <1>5, <1>6, <1>7, <1>8, <1>9, <1>10, <1>11, <1>12 DEF Run, Fail

\* The invariant holds throughout.
LEMMA Journal == Spec => []JInv
<1>1. Init => LockKept /\ AckedNext /\ AckedWasPerformed /\ OneAck
  BY DEF Init, LockKept, AckedNext, AckedWasPerformed, Acked, ToSet, OneAck
<1>2. JInv /\ TypeOK' /\ [Next]_vars => JInv'
  <2> SUFFICES ASSUME JInv, TypeOK', [Next]_vars PROVE JInv'
    OBVIOUS
  <2>1. ASSUME NEW E \in SUBSET (Effects \ committed), Commit(E) PROVE JInv'
    BY <2>1 DEF JInv, Commit, LockKept, AckedNext, IsNext, AckedWasPerformed, Acked, OneAck
  <2>2. CASE UNCHANGED vars
    BY <2>2 DEF JInv, vars, LockKept, AckedNext, IsNext, AckedWasPerformed, Acked, OneAck
  <2> QED
    BY <2>1, <2>2, RunJInv DEF Next
<1>3. Spec => []TypeOK
  BY Types
<1>4. TypeOK /\ Init => JInv
  BY <1>1 DEF JInv
<1> QED
  BY <1>2, <1>3, <1>4, PTL DEF Spec

-----------------------------------------------------------------------------
\* However many deliverers race, an effect has one acknowledgement (outbox.py:164-198).
THEOREM OneAckEach == Spec => []OneAck
<1>1. JInv => OneAck
  BY DEF JInv
<1> QED
  BY <1>1, Journal, PTL

\* Nothing is acknowledged that was not committed and carried out (outbox.py:253-297).
THEOREM AcksEarned == Spec => []AckedWasPerformed
<1>1. JInv => AckedWasPerformed
  BY DEF JInv
<1> QED
  BY <1>1, Journal, PTL

\* No acknowledgement is ever lost (outbox.py:164-198).
THEOREM AcksKept == Spec => AcksPermanent
<1>1. ASSUME JInv, [Next]_vars PROVE [IsPrefix(journal, journal')]_journal
  <2>1. ASSUME NEW d \in Deliverers, Acknowledge(d) PROVE IsPrefix(journal, journal')
    <3>1. PICK e \in todo[d] : journal' = AppendIdempotent(journal, e)
      <4>1. pc[d] = "locked" /\ \E e \in todo[d] : journal' = AppendIdempotent(acks[d], e)
        BY <2>1 DEF Acknowledge
      <4> QED
        BY <1>1, <4>1 DEF JInv, LockKept
    <3>2. journal \in Seq(Effects) /\ e \in Effects
      BY <1>1, TodoEffects DEF JInv, TypeOK
    <3>3. IsPrefix(journal, journal)
      BY <3>2 DEF IsPrefix
    <3>4. IsPrefix(journal, Append(journal, e))
      BY <3>2 DEF IsPrefix
    <3> QED
      BY <3>1, <3>3, <3>4 DEF AppendIdempotent
  <2>2. CASE \E d \in Deliverers : Acknowledge(d)
    BY <2>1, <2>2
  <2>3. CASE ~\E d \in Deliverers : Acknowledge(d)
    BY <1>1, <2>3 DEF Next, vars, Commit, Run, Fail, ReadLog, ReadJournal, Refuse, MissingHandler,
                      Deliver, PoisonFails, LockJournal, Finish, HandlerFails, AckFails, Crash
  <2> QED
    BY <2>2, <2>3
<1> QED
  BY <1>1, Journal, PTL DEF Spec, AcksPermanent

-----------------------------------------------------------------------------
(* How often an effect is carried out. *)

\* d has carried out e and not yet said so.
Unsaid(d, e) == pc[d] \in {"performed", "locked"} /\ IsNext(d, e)

\* The deliverers that have had their one delivery of e: about to say so, or rid of it because
\* it is acknowledged.
Spent(e) == {d \in Deliverers : Unsaid(d, e) \/ (e \in Acked /\ e \notin todo[d])}

\* An effect was carried out once for every failure, and once for every deliverer that has
\* had its delivery.
Explained == \A e \in Effects : performed[e] <= trouble + Cardinality(Spent(e))

\* Deliverers that are finitely many are so in every part.
LEMMA SpentFinite ==
    ASSUME IsFiniteSet(Deliverers), NEW S \in SUBSET Deliverers
    PROVE  IsFiniteSet(S) /\ Cardinality(S) \in Nat
  BY FS_Subset, FS_CardinalityType

\* A step that carries nothing out keeps what is explained, if nobody's delivery is forgotten.
LEMMA NothingForgotten ==
    ASSUME IsFiniteSet(Deliverers), TypeOK, Explained, performed' = performed, trouble' = trouble,
           \A e \in Effects : Spent(e) \subseteq Spent(e)'
    PROVE  Explained'
<1> SUFFICES ASSUME NEW e \in Effects
             PROVE  performed[e] <= trouble + Cardinality(Spent(e)')
  BY DEF Explained
<1> DEFINE before == Spent(e)
           after == Spent(e)'
<1>1. before \in SUBSET Deliverers /\ after \in SUBSET Deliverers /\ before \subseteq after
  BY DEF Spent
<1>2. performed[e] <= trouble + Cardinality(before)
  BY DEF Explained
<1>3. performed[e] \in Nat /\ trouble \in Nat
  BY DEF TypeOK
<1> HIDE DEF before, after
<1>4. /\ Cardinality(before) \in Nat /\ Cardinality(after) \in Nat
      /\ Cardinality(before) <= Cardinality(after)
  BY <1>1, SpentFinite, FS_Subset
<1>5. performed[e] <= trouble + Cardinality(after)
  BY <1>2, <1>3, <1>4
<1> QED
  BY <1>5 DEF after

\* So does a failure of d: what it carried out, or a delivery of it that is forgotten.
LEMMA FailureExplains ==
    ASSUME IsFiniteSet(Deliverers), TypeOK, Explained, NEW d \in Deliverers, trouble' = trouble + 1,
           performed' \in [Effects -> Nat],
           \A e \in Effects :
               \/ performed'[e] = performed[e] /\ Spent(e) \ {d} \subseteq Spent(e)'
               \/ performed'[e] <= performed[e] + 1 /\ Spent(e) \subseteq Spent(e)'
    PROVE  Explained'
<1> SUFFICES ASSUME NEW e \in Effects
             PROVE  performed'[e] <= trouble + 1 + Cardinality(Spent(e)')
  BY DEF Explained
<1> DEFINE before == Spent(e)
           after == Spent(e)'
<1>1. before \in SUBSET Deliverers /\ after \in SUBSET Deliverers
  BY DEF Spent
<1>2. performed[e] <= trouble + Cardinality(before)
  BY DEF Explained
<1>3. performed[e] \in Nat /\ performed'[e] \in Nat /\ trouble \in Nat
  BY DEF TypeOK
<1>4. \/ performed'[e] = performed[e] /\ before \ {d} \subseteq after
      \/ performed'[e] <= performed[e] + 1 /\ before \subseteq after
  OBVIOUS
<1> HIDE DEF before, after
<1>5. /\ IsFiniteSet(before) /\ IsFiniteSet(after)
      /\ Cardinality(before) \in Nat /\ Cardinality(after) \in Nat
  BY <1>1, SpentFinite
<1>6. CASE performed'[e] = performed[e] /\ before \ {d} \subseteq after
  <2> DEFINE rest == before \ {d}
  <2>1. Cardinality(rest) \in Nat /\ Cardinality(before) <= Cardinality(rest) + 1
    <3>1. IsFiniteSet(rest)
      BY <1>5, FS_RemoveElement
    <3>2. Cardinality(rest) = IF d \in before THEN Cardinality(before) - 1 ELSE Cardinality(before)
      BY <1>5, FS_RemoveElement
    <3>3. Cardinality(rest) \in Nat
      BY <3>1, FS_CardinalityType
    <3> QED
      BY <1>5, <3>2, <3>3
  <2>2. Cardinality(rest) <= Cardinality(after)
    BY <1>5, <1>6, FS_Subset
  <2> HIDE DEF rest
  <2> QED
    BY <1>2, <1>3, <1>5, <1>6, <2>1, <2>2 DEF after
<1>7. CASE performed'[e] <= performed[e] + 1 /\ before \subseteq after
  <2>1. Cardinality(before) <= Cardinality(after)
    BY <1>5, <1>7, FS_Subset
  <2> QED
    BY <1>2, <1>3, <1>5, <1>7, <2>1 DEF after
<1> QED
  BY <1>4, <1>6, <1>7

\* A deliverer that has e to do and nothing unsaid has its delivery of e before it.
LEMMA DeliveryExplains ==
    ASSUME IsFiniteSet(Deliverers), TypeOK, Explained, NEW d \in Deliverers, Deliver(d)
    PROVE  Explained'
<1>1. PICK e \in todo[d] : IsNext(d, e) /\ performed' = [performed EXCEPT ![e] = @ + 1]
  BY DEF Deliver
<1>2. /\ Acked' = Acked /\ todo' = todo /\ trouble' = trouble /\ pc[d] = "delivering"
      /\ pc'[d] = "performed" /\ \A c \in Deliverers \ {d} : pc'[c] = pc[c]
  BY DEF Deliver, Acked, TypeOK
<1>3. e \in Effects
  BY <1>1, TodoEffects
<1>4. \A f \in Effects : Spent(f) \subseteq Spent(f)'
  BY <1>2 DEF Spent, Unsaid, IsNext
<1>5. d \notin Spent(e) /\ d \in Spent(e)'
  BY <1>1, <1>2 DEF Spent, Unsaid, IsNext
<1> SUFFICES ASSUME NEW f \in Effects
             PROVE  performed'[f] <= trouble + Cardinality(Spent(f)')
  BY <1>2 DEF Explained
<1> DEFINE before == Spent(f)
           after == Spent(f)'
<1>6. /\ before \in SUBSET Deliverers /\ after \in SUBSET Deliverers /\ before \subseteq after
      /\ performed[f] <= trouble + Cardinality(before)
      /\ performed[f] \in Nat /\ trouble \in Nat
  BY <1>4 DEF Spent, Explained, TypeOK
<1>7. f = e => d \in after \ before
  BY <1>5
<1>8. performed'[f] = IF f = e THEN performed[f] + 1 ELSE performed[f]
  BY <1>1, <1>3 DEF TypeOK
<1> HIDE DEF before, after
<1>9. /\ IsFiniteSet(before) /\ IsFiniteSet(after)
      /\ Cardinality(before) \in Nat /\ Cardinality(after) \in Nat
      /\ Cardinality(before) <= Cardinality(after)
  BY <1>6, SpentFinite, FS_Subset
<1>10. CASE f = e
  <2> DEFINE more == before \cup {d}
  <2>1. Cardinality(more) = Cardinality(before) + 1 /\ more \in SUBSET after
    BY <1>6, <1>7, <1>9, <1>10, FS_AddElement
  <2>2. Cardinality(more) <= Cardinality(after)
    BY <1>9, <2>1, FS_Subset
  <2> HIDE DEF more
  <2> QED
    BY <1>6, <1>8, <1>9, <1>10, <2>1, <2>2 DEF after
<1>11. CASE f # e
  BY <1>6, <1>8, <1>9, <1>11 DEF after
<1> QED
  BY <1>10, <1>11

\* Every step of a deliverer keeps the invariant.
LEMMA RunExplained ==
    ASSUME IsFiniteSet(Deliverers), JInv, JInv', Explained, NEW d \in Deliverers, Run(d) \/ Fail(d)
    PROVE  Explained'
<1>0. /\ TypeOK /\ performed' \in [Effects -> Nat]
      /\ pc \in [Deliverers -> {"idle", "read_log", "delivering", "performed", "locked"}]
      /\ todo \in [Deliverers -> SUBSET Effects] /\ performed \in [Effects -> Nat]
  BY DEF JInv, TypeOK
<1> DEFINE Alone == \A c \in Deliverers \ {d} : pc'[c] = pc[c] /\ todo'[c] = todo[c]
           Less == todo'[d] \subseteq todo[d]
           Same == performed' = performed /\ trouble' = trouble
           Silent == pc[d] \notin {"performed", "locked"}
\* Losing something to do, with nothing unsaid, forgets no delivery.
<1>1. ASSUME Alone, Acked' = Acked, Silent, todo'[d] \cap Acked \subseteq todo[d]
      PROVE  \A e \in Effects : Spent(e) \subseteq Spent(e)'
  BY <1>1 DEF Spent, Unsaid, IsNext
<1>2. CASE ReadLog(d)
  <2>1. Alone /\ Acked' = Acked /\ Silent /\ todo'[d] \cap Acked \subseteq todo[d] /\ Same
    BY <1>0, <1>2 DEF ReadLog, Acked
  <2> QED
    BY <1>0, <1>1, <2>1, NothingForgotten
<1>3. CASE ReadJournal(d)
  <2>1. Alone /\ Acked' = Acked /\ Silent /\ todo'[d] \cap Acked \subseteq todo[d] /\ Same
    BY <1>0, <1>3 DEF ReadJournal, Acked, Pending
  <2> QED
    BY <1>0, <1>1, <2>1, NothingForgotten
<1>4. CASE Refuse(d)
  <2>1. Alone /\ Acked' = Acked /\ Silent /\ todo'[d] \cap Acked \subseteq todo[d] /\ Same
    BY <1>0, <1>4 DEF Refuse, Leave, Acked
  <2> QED
    BY <1>0, <1>1, <2>1, NothingForgotten
<1>5. CASE MissingHandler(d)
  <2>1. Alone /\ Acked' = Acked /\ Silent /\ todo'[d] \cap Acked \subseteq todo[d] /\ Same
    BY <1>0, <1>5 DEF MissingHandler, Attempted, Acked
  <2> QED
    BY <1>0, <1>1, <2>1, NothingForgotten
<1>6. CASE Deliver(d)
  BY <1>0, <1>6, DeliveryExplains
<1>7. CASE PoisonFails(d)
  <2>1. Alone /\ Acked' = Acked /\ Silent /\ todo'[d] \cap Acked \subseteq todo[d] /\ Same
    BY <1>0, <1>7 DEF PoisonFails, Attempted, Acked
  <2> QED
    BY <1>0, <1>1, <2>1, NothingForgotten
<1>8. CASE LockJournal(d)
  <2>1. /\ Acked' = Acked /\ todo' = todo /\ Same /\ pc'[d] = "locked"
        /\ \A c \in Deliverers \ {d} : pc'[c] = pc[c]
    BY <1>0, <1>8 DEF LockJournal, Acked
  <2>2. \A e \in Effects : Spent(e) \subseteq Spent(e)'
    BY <2>1 DEF Spent, Unsaid, IsNext
  <2> QED
    BY <1>0, <2>1, <2>2, NothingForgotten
<1>9. CASE Acknowledge(d)
  <2>1. PICK e \in todo[d] : /\ IsNext(d, e)
                             /\ journal' = AppendIdempotent(acks[d], e)
                             /\ Attempted(d, e)
    BY <1>9 DEF Acknowledge
  <2>2. acks[d] = journal /\ Same /\ Alone /\ todo'[d] = todo[d] \ {e}
    <3>1. acks[d] = journal
      BY <1>0, <1>9 DEF JInv, LockKept, Acknowledge
    <3>2. Same
      BY <1>9 DEF Acknowledge
    <3>3. /\ todo' = [todo EXCEPT ![d] = @ \ {e}]
          /\ pc' = [pc EXCEPT ![d] = "delivering"]
      BY <2>1 DEF Attempted
    <3>4. Alone /\ todo'[d] = todo[d] \ {e}
      BY <1>0, <3>3
    <3> QED
      BY <3>1, <3>2, <3>4
  <2>3. Acked' = Acked \cup {e}
    <3>1. journal \in Seq(Effects) /\ e \in Effects /\ OneAck
      BY <1>0, <2>1, TodoEffects DEF JInv, TypeOK
    <3>2. ToSet(AppendIdempotent(journal, e)) = ToSet(journal) \cup {e}
      BY <3>1, AppendedOnce DEF OneAck
    <3> QED
      BY <2>1, <2>2, <3>2 DEF Acked, ToSet
  <2>4. \A f \in Effects : Unsaid(d, f) => f = e
    BY <1>0, <2>1, NextIsOne DEF Unsaid
  <2>5. \A f \in Effects : Spent(f) \subseteq Spent(f)'
    BY <2>2, <2>3, <2>4 DEF Spent, Unsaid, IsNext
  <2> QED
    BY <1>0, <2>2, <2>5, NothingForgotten
<1>10. CASE Finish(d)
  <2>1. Alone /\ Acked' = Acked /\ Silent /\ todo'[d] \cap Acked \subseteq todo[d] /\ Same
    BY <1>0, <1>10 DEF Finish, Leave, Acked
  <2> QED
    BY <1>0, <1>1, <2>1, NothingForgotten
<1>11. CASE HandlerFails(d)
  <2>1. PICK e \in todo[d], done \in {0, 1} :
            performed' = [performed EXCEPT ![e] = @ + done] /\ Attempted(d, e)
    BY <1>11 DEF HandlerFails
  <2>2. Alone /\ Acked' = Acked /\ Silent /\ todo'[d] \cap Acked \subseteq todo[d]
    BY <1>0, <1>11, <2>1 DEF HandlerFails, Attempted, Acked
  <2>3. \A f \in Effects : performed'[f] <= performed[f] + 1
    BY <1>0, <2>1
  <2>4. trouble' = trouble + 1
    BY <1>11 DEF HandlerFails
  <2> QED
    BY <1>0, <1>1, <2>2, <2>3, <2>4, FailureExplains
<1>12. CASE AckFails(d)
  <2>1. Alone /\ Acked' = Acked /\ Less /\ performed' = performed /\ trouble' = trouble + 1
    BY <1>0, <1>12 DEF AckFails, Attempted, Acked
  <2>2. \A e \in Effects : Spent(e) \ {d} \subseteq Spent(e)'
    BY <2>1 DEF Spent, Unsaid, IsNext
  <2> QED
    BY <1>0, <2>1, <2>2, FailureExplains
<1>13. CASE Crash(d)
  <2>1. Alone /\ Acked' = Acked /\ performed' = performed /\ trouble' = trouble + 1
    BY <1>0, <1>13 DEF Crash, Leave, Acked
  <2>2. \A e \in Effects : Spent(e) \ {d} \subseteq Spent(e)'
    BY <2>1 DEF Spent, Unsaid, IsNext
  <2> QED
    BY <1>0, <2>1, <2>2, FailureExplains
<1> QED
  BY <1>2, <1>3, <1>4, <1>5, <1>6, <1>7, <1>8, <1>9, <1>10, <1>11, <1>12, <1>13 DEF Run, Fail

\* However many processes deliver, an effect is carried out at most once for each of them and
\* once for each crash or failure (outbox.py:253-297).
THEOREM RedeliveriesExplained ==
    ASSUME IsFiniteSet(Deliverers)
    PROVE  Spec => []RedeliveryNeedsTrouble
<1>1. Init => Explained
  <2> SUFFICES ASSUME Init, NEW e \in Effects
               PROVE  performed[e] <= trouble + Cardinality(Spent(e))
    BY DEF Explained
  <2>1. Spent(e) \in SUBSET Deliverers
    BY DEF Spent
  <2>2. Cardinality(Spent(e)) \in Nat
    BY <2>1, SpentFinite
  <2> QED
    BY <2>2 DEF Init
<1>2. JInv /\ Explained /\ JInv' /\ [Next]_vars => Explained'
  <2> SUFFICES ASSUME JInv, Explained, JInv', [Next]_vars PROVE Explained'
    OBVIOUS
  <2>1. ASSUME NEW E \in SUBSET (Effects \ committed), Commit(E) PROVE Explained'
    BY <2>1 DEF Commit, Explained, Spent, Unsaid, IsNext, Acked
  <2>2. CASE UNCHANGED vars
    BY <2>2 DEF vars, Explained, Spent, Unsaid, IsNext, Acked
  <2> QED
    BY <2>1, <2>2, RunExplained DEF Next
<1>3. JInv /\ Explained => RedeliveryNeedsTrouble
  <2> SUFFICES ASSUME JInv, Explained, NEW e \in Effects
               PROVE  performed[e] <= Cardinality(Deliverers) + trouble
    BY DEF RedeliveryNeedsTrouble
  <2> DEFINE spent == Spent(e)
  <2>1. performed[e] \in Nat /\ trouble \in Nat /\ performed[e] <= trouble + Cardinality(spent)
    BY DEF JInv, TypeOK, Explained
  <2>2. spent \in SUBSET Deliverers
    BY DEF Spent
  <2> HIDE DEF spent
  <2>3. /\ Cardinality(spent) \in Nat /\ Cardinality(Deliverers) \in Nat
        /\ Cardinality(spent) <= Cardinality(Deliverers)
    BY <2>2, SpentFinite, FS_Subset, FS_CardinalityType
  <2> QED
    BY <2>1, <2>3
<1> QED
  BY <1>1, <1>2, <1>3, Journal, PTL DEF Spec

\* An acknowledgement is the only one, and the effect was carried out (outbox.py:164-198, 253-297).
THEOREM AcksAreSound == Spec => []AcksSound
  BY Types, AcksEarned, OneAckEach, PTL DEF AcksSound
=============================================================================
