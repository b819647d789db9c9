------------------------------- MODULE Outbox -------------------------------
(***************************************************************************)
(* Delivery of the effects that commits put in the log: outbox.py, with    *)
(* the pure decisions of core/outbox.py.  Several processes may run        *)
(* deliver_pending at once.  A run reads the log, then reads the journal   *)
(* of acknowledgements (both without a lock), and delivers what is not     *)
(* acknowledged, one effect after the other in the order of their ids:     *)
(* the handler first, then, under the journal's lock, the acknowledgement. *)
(*                                                                         *)
(* Handlers are code outside the repository: they return, raise before     *)
(* anything happened, or raise after it did.  The effect id is their       *)
(* idempotency key; performed counts how often they were asked and did it, *)
(* before any deduplication of theirs.  Effects are numbered by the order  *)
(* of their ids.  Hashes, receipts and timestamps are left out: journal    *)
(* files are only replaced under the lock and the chain of hashes says no  *)
(* more than the order of the acknowledgements in them.                    *)
(***************************************************************************)
EXTENDS Integers, Sequences, SequencesExt, FiniteSets

CONSTANTS
    Deliverers,    \* processes that call deliver_pending
    Effects,       \* ids of the effects commits may carry
    Handled,       \* those of a kind some handler is registered for
    Poison,        \* those whose handler always raises
    MaxTrouble     \* bound: crashes and failures of any other kind

ASSUME OutboxAssumption ==
    /\ Effects \subseteq Nat
    /\ Handled \subseteq Effects
    /\ Poison \subseteq Effects
    /\ MaxTrouble \in Nat

VARIABLES
    committed,     \* effects in the log
    journal,       \* acknowledged effects, in the journal's order
    performed,     \* times each effect was carried out by its handler
    trouble,       \* crashes and failures so far
    pc,            \* where each deliverer is
    view,          \* the effects it read from the log
    todo,          \* those it has still to attempt in this run
    acks           \* the journal as it read it under the lock

vars == <<committed, journal, performed, trouble, pc, view, todo, acks>>

-----------------------------------------------------------------------------
Acked == ToSet(journal)

Init ==
    /\ committed = {}
    /\ journal = <<>>
    /\ performed = [e \in Effects |-> 0]
    /\ trouble = 0
    /\ pc = [d \in Deliverers |-> "idle"]
    /\ view = [d \in Deliverers |-> {}]
    /\ todo = [d \in Deliverers |-> {}]
    /\ acks = [d \in Deliverers |-> <<>>]

\* One commit bundle becomes authoritative with all its effects.
Commit(E) ==
    /\ E # {}
    /\ committed' = committed \cup E
    /\ UNCHANGED <<journal, performed, trouble, pc, view, todo, acks>>

\* The run is over: every local is gone.
Leave(d) ==
    /\ pc' = [pc EXCEPT ![d] = "idle"]
    /\ view' = [view EXCEPT ![d] = {}]
    /\ todo' = [todo EXCEPT ![d] = {}]
    /\ acks' = [acks EXCEPT ![d] = <<>>]

\* Outbox.snapshot: committed_effects ...
ReadLog(d) ==
    /\ pc[d] = "idle"
    /\ pc' = [pc EXCEPT ![d] = "read_log"]
    /\ view' = [view EXCEPT ![d] = committed]
    /\ UNCHANGED <<committed, journal, performed, trouble, todo, acks>>

\* Slip: acknowledged effects stay pending.
PendingAll(d) == view[d]

\* ... then the acknowledgements.  pending_outbox plans what is left ...
Pending(d) == view[d] \ Acked

ReadJournal(d) ==
    /\ pc[d] = "read_log"
    /\ Acked \subseteq view[d]
    /\ pc' = [pc EXCEPT ![d] = "delivering"]
    /\ todo' = [todo EXCEPT ![d] = Pending(d)]
    /\ UNCHANGED <<committed, journal, performed, trouble, view, acks>>

\* ... or refuses with ACK_FOR_UNKNOWN_EFFECT, and the run raises.
Refuse(d) ==
    /\ pc[d] = "read_log"
    /\ ~(Acked \subseteq view[d])
    /\ Leave(d)
    /\ UNCHANGED <<committed, journal, performed, trouble>>

IsNext(d, e) == e \in todo[d] /\ \A f \in todo[d] : e <= f

\* Slip: one effect that fails ends the run.
AbandonRun(d, e) ==
    /\ pc' = [pc EXCEPT ![d] = "delivering"]
    /\ todo' = [todo EXCEPT ![d] = {}]
    /\ acks' = [acks EXCEPT ![d] = <<>>]
    /\ UNCHANGED view

\* The attempt on e is recorded in the DeliveryRun; on to the next effect.
Attempted(d, e) ==
    /\ pc' = [pc EXCEPT ![d] = "delivering"]
    /\ todo' = [todo EXCEPT ![d] = @ \ {e}]
    /\ acks' = [acks EXCEPT ![d] = <<>>]
    /\ UNCHANGED view

MissingHandler(d) ==
    /\ pc[d] = "delivering"
    /\ \E e \in todo[d] \ Handled : IsNext(d, e) /\ Attempted(d, e)
    /\ UNCHANGED <<committed, journal, performed, trouble>>

\* The handler returns its receipt.
Deliver(d) ==
    /\ pc[d] = "delivering"
    /\ \E e \in (todo[d] \cap Handled) \ Poison :
           /\ IsNext(d, e)
           /\ performed' = [performed EXCEPT ![e] = @ + 1]
    /\ pc' = [pc EXCEPT ![d] = "performed"]
    /\ UNCHANGED <<committed, journal, trouble, view, todo, acks>>

\* The handler raises, having done nothing or everything.
HandlerFails(d) ==
    /\ pc[d] = "delivering"
    /\ \E e \in (todo[d] \cap Handled) \ Poison, done \in {0, 1} :
           /\ IsNext(d, e)
           /\ performed' = [performed EXCEPT ![e] = @ + done]
           /\ Attempted(d, e)
    /\ trouble < MaxTrouble
    /\ trouble' = trouble + 1
    /\ UNCHANGED <<committed, journal>>

PoisonFails(d) ==
    /\ pc[d] = "delivering"
    /\ \E e \in todo[d] \cap Handled \cap Poison : IsNext(d, e) /\ Attempted(d, e)
    /\ UNCHANGED <<committed, journal, performed, trouble>>

\* Slip: the journal's lock is not taken.
LockIgnored == TRUE

LockFree == \A d \in Deliverers : pc[d] # "locked"

\* append_idempotent: lock and read the journal ...
LockJournal(d) ==
    /\ pc[d] = "performed"
    /\ LockFree
    /\ pc' = [pc EXCEPT ![d] = "locked"]
    /\ acks' = [acks EXCEPT ![d] = journal]
    /\ UNCHANGED <<committed, journal, performed, trouble, view, todo>>

\* Slip: what another deliverer acknowledged meanwhile is not looked for.
AppendAlways(read, e) == Append(read, e)

\* ... keep an acknowledgement that is there, append one that is not.
AppendIdempotent(read, e) == IF e \in ToSet(read) THEN read ELSE Append(read, e)

Acknowledge(d) ==
    /\ pc[d] = "locked"
    /\ \E e \in todo[d] :
           /\ IsNext(d, e)
           /\ journal' = AppendIdempotent(acks[d], e)
           /\ Attempted(d, e)
    /\ UNCHANGED <<committed, performed, trouble>>

\* Writing the acknowledgement raises: the effect counts as failed.
AckFails(d) ==
    /\ pc[d] \in {"performed", "locked"}
    /\ \E e \in todo[d] : IsNext(d, e) /\ Attempted(d, e)
    /\ trouble < MaxTrouble
    /\ trouble' = trouble + 1
    /\ UNCHANGED <<committed, journal, performed>>

Finish(d) ==
    /\ pc[d] = "delivering"
    /\ todo[d] = {}
    /\ Leave(d)
    /\ UNCHANGED <<committed, journal, performed, trouble>>

\* The process dies; its lock is released.
Crash(d) ==
    /\ pc[d] # "idle"
    /\ trouble < MaxTrouble
    /\ trouble' = trouble + 1
    /\ Leave(d)
    /\ UNCHANGED <<committed, journal, performed>>

Run(d) ==
    \/ ReadLog(d)
    \/ ReadJournal(d)
    \/ Refuse(d)
    \/ MissingHandler(d)
    \/ Deliver(d)
    \/ PoisonFails(d)
    \/ LockJournal(d)
    \/ Acknowledge(d)
    \/ Finish(d)

Fail(d) == HandlerFails(d) \/ AckFails(d) \/ Crash(d)

Next ==
    \/ \E E \in SUBSET (Effects \ committed) : Commit(E)
    \/ \E d \in Deliverers : Run(d) \/ Fail(d)

Spec == Init /\ [][Next]_vars

\* Someone keeps calling deliver_pending, and a call that began goes on.
FairSpec == Spec /\ \A d \in Deliverers : WF_vars(Run(d))

-----------------------------------------------------------------------------
\* Every variable has the type the code gives it; a run only ever attempts
\* effects it found in the log.
TypeOK ==
    /\ committed \subseteq Effects
    /\ journal \in Seq(Effects)
    /\ performed \in [Effects -> Nat]
    /\ trouble \in 0..MaxTrouble
    /\ pc \in [Deliverers -> {"idle", "read_log", "delivering", "performed", "locked"}]
    /\ view \in [Deliverers -> SUBSET Effects] /\ todo \in [Deliverers -> SUBSET Effects]
    /\ \A d \in Deliverers : todo[d] \subseteq view[d] /\ view[d] \subseteq committed
    /\ \A d \in Deliverers : pc[d] \in {"performed", "locked"} => todo[d] # {}
    /\ acks \in [Deliverers -> Seq(Effects)]

\* Only an effect that was committed and really carried out is acknowledged.
AckedWasPerformed == \A e \in Acked : e \in committed /\ performed[e] > 0

\* However many deliverers raced for an effect, it has one acknowledgement.
OneAck == \A i, j \in DOMAIN journal : journal[i] = journal[j] => i = j

\* An acknowledgement is worth something: it is the only one, and the effect was carried out
\* (outbox.py:164-198, 253-297).
AcksSound == TypeOK /\ AckedWasPerformed /\ OneAck

\* An acknowledgement is never lost: not by a crash, nor by a deliverer that
\* read the journal before it was written.
AcksPermanent == [][IsPrefix(journal, journal')]_journal

\* An effect is carried out again only by a deliverer that had read the journal before
\* its acknowledgement was there, once each, or because a crash or a failure came
\* between (outbox.py:253-297): never because the journal was not consulted.
RedeliveryNeedsTrouble == \A e \in Effects : performed[e] <= Cardinality(Deliverers) + trouble

\* What pending_outbox is given is "a complete snapshot" (core/outbox.py:142): an
\* acknowledgement it sees always belongs to an effect it sees.
SnapshotComplete == \A d \in Deliverers : pc[d] = "read_log" => Acked \subseteq view[d]

\* At least once: every committed effect that can be delivered is acknowledged in
\* the end, also behind effects that fail each time or that nobody handles.
EventuallyAcked == \A e \in Handled \ Poison : e \in committed ~> e \in Acked
=============================================================================
