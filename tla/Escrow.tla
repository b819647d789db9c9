------------------------------- MODULE Escrow -------------------------------
(***************************************************************************)
(* What an escrow promises to everyone who puts value into it, whatever    *)
(* the reason: a lot (the reward, one bond, one deposit) is locked once,   *)
(* leaves whole and in one step, and once the escrow is closed it holds    *)
(* nothing and nothing moves any more.  Market implements it.              *)
(***************************************************************************)
EXTENDS Integers

CONSTANTS Lots,      \* everything that may ever be locked
          Prize      \* the lot that stays until the escrow closes

VARIABLES held,      \* value in each lot
          locked,    \* lots that were ever locked
          closed     \* the escrow gave everything back

EInit ==
    /\ held = [l \in Lots |-> 0]
    /\ locked = {}
    /\ closed = FALSE

\* A new lot comes in; nothing is ever added to an old one.
Lock(l) ==
    /\ ~closed
    /\ l \in Lots \ locked
    /\ Prize \in locked \cup {l}
    /\ held'[l] \in Nat
    /\ held' = [held EXCEPT ![l] = held'[l]]
    /\ locked' = locked \cup {l}
    /\ UNCHANGED closed

\* Whole lots leave, the prize not among them.
Release(R) ==
    /\ ~closed
    /\ R \subseteq locked \ {Prize}
    /\ held' = [l \in Lots |-> IF l \in R THEN 0 ELSE held[l]]
    /\ UNCHANGED <<locked, closed>>

\* Everything leaves at once, and only if there was something to close.
Close ==
    /\ ~closed
    /\ Prize \in locked
    /\ held' = [l \in Lots |-> 0]
    /\ closed' = TRUE
    /\ UNCHANGED locked

ENext ==
    \/ \E l \in Lots : Lock(l)
    \/ \E R \in SUBSET locked : Release(R)
    \/ Close

ESpec == EInit /\ [][ENext]_<<held, locked, closed>>
=============================================================================
