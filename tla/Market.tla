------------------------------- MODULE Market -------------------------------
(***************************************************************************)
(* The life of one falsification bounty: core/market.py, the pure          *)
(* transition function apply_market_command, applied to one BountyState    *)
(* again and again by callers that choose the command, its clock reading   *)
(* and its verifier receipt.                                               *)
(*                                                                         *)
(* A rejected command returns no state, so only accepted commands are      *)
(* actions (CommittedFailure is accepted too: it commits a state).  Each   *)
(* action is one handler: its guard (CanSubmit, ...) is what the handler   *)
(* requires, its updates are the handler's `replace' calls, and custody    *)
(* and sent are moved by exactly the effects the handler returns, as the   *)
(* escrow that executes effect plans would move them.                      *)
(*                                                                         *)
(* What is abstracted.  The callers' clocks are not synchronised and the   *)
(* code never compares one command's now_epoch_s with another's, so every  *)
(* command carries its own `now'.  Ids, refs and identities matter only by *)
(* equality: who the sponsor, submitter, challenger or recipient is, which *)
(* recipe or finding kind is declared, and whether a field is well formed  *)
(* only decide whether a command is refused before it touches the state,   *)
(* and those refusals and their order are left out.  A command id is       *)
(* used once, so the ids processed so far are represented by their number. *)
(* market_state_hash covers processed_command_ids, which grows with every  *)
(* committed command: along one history that number identifies the state,  *)
(* and it stands for pre_state_hash in a verifier statement.               *)
(***************************************************************************)
EXTENDS Integers, FiniteSets, Functions

CONSTANTS
    SubmissionIds, ChallengeIds,         \* ids callers may use
    Verifiers, AcceptedVerifiers,        \* signing keys; terms.accepted_verifier_refs
    Reward, MinSubmissionBond,           \* terms.reward, terms.minimum_submission_bond
    Deadline, ChallengeWindow,           \* terms.deadline_epoch_s, .challenge_window_seconds
    MinBounty, PolicyMinBond,            \* policy.minimum_bounty, .minimum_submission_bond
    MinChallengeDeposit,                 \* policy.minimum_challenge_deposit
    ResolutionSeconds,                   \* policy.challenge_resolution_seconds
    Amounts, Times,                      \* amounts and clock readings commands may carry
    None                                 \* an absent reference

\* BountyTerms.__post_init__ and MarketPolicy require these and no more: in
\* particular every minimum may be zero.
ASSUME MarketAssumption ==
    /\ AcceptedVerifiers \subseteq Verifiers
    /\ Reward \in Nat \ {0}
    /\ {MinSubmissionBond, Deadline, ChallengeWindow} \subseteq Nat
    /\ {MinBounty, PolicyMinBond, MinChallengeDeposit, ResolutionSeconds} \subseteq Nat
    /\ Amounts \subseteq Nat
    /\ Times \subseteq Nat
    /\ None \notin SubmissionIds \cup Verifiers

VARIABLES
    phase,          \* BountyState.phase
    escrow,         \* BountyState.escrow_locked
    submissions,    \* BountyState.submissions, by id; status "none" when absent
    challenges,     \* BountyState.challenges, by id; status "none" when absent
    payable,        \* BountyState.payable_submission_ids; its order is never read
    settled,        \* BountyState.settlement_ref is set
    processed,      \* number of BountyState.processed_command_ids
    custody,        \* value held by the escrow that executes the effects
    sent            \* every effect returned so far

stateVars == <<phase, escrow, submissions, challenges, payable, settled, processed>>
vars == <<phase, escrow, submissions, challenges, payable, settled, processed,
          custody, sent>>

-----------------------------------------------------------------------------
Phases == {"draft", "open", "payable", "settled", "expired", "canceled"}
Terminal == {"settled", "expired", "canceled"}

\* What a verifier signs: a verdict on one subject in one exact state.
Statements(Subject) ==
    [pre : Nat, subject : Subject, outcome : {"accepted", "upheld", "rejected"},
     key : Verifiers]

ASSUME NoneAssumption == None \notin Statements(SubmissionIds) \cup Statements(ChallengeIds)

SubmissionRecords ==
    [status : {"none", "pending", "verified", "rejected"},
     verifier : Verifiers \cup {None}, at : Nat, bond : Nat,
     receipt : Statements(SubmissionIds) \cup {None}]

ChallengeRecords ==
    [status : {"none", "open", "upheld", "rejected"},
     submission : SubmissionIds \cup {None}, at : Nat, deposit : Nat,
     receipt : Statements(ChallengeIds) \cup {None}]

NoSubmission ==
    [status |-> "none", verifier |-> None, at |-> 0, bond |-> 0, receipt |-> None]
NoChallenge ==
    [status |-> "none", submission |-> None, at |-> 0, deposit |-> 0, receipt |-> None]

\* MarketEffect: what is done, and with the stake of which subject.
Effect(kind, subject, amount) == [kind |-> kind, subject |-> subject, amount |-> amount]

EffectKinds ==
    {"lock_escrow", "refund_escrow", "payout", "lock_submission_bond", "refund_submission_bond",
     "slash_submission_bond", "lock_challenge_deposit", "refund_challenge_deposit",
     "slash_challenge_deposit"}

Bounty == "bounty"

Larger(a, b) == IF a >= b THEN a ELSE b

RequiredFunding == Larger(Reward, MinBounty)
RequiredBond == Larger(MinSubmissionBond, PolicyMinBond)

ChallengeDeadline == Deadline + ChallengeWindow

ResolutionDeadline(c) ==
    Larger(ChallengeDeadline, challenges[c].at + ResolutionSeconds)

Present(s) == submissions[s].status # "none"
Filed(c) == challenges[c].status # "none"
OpenChallenges == {c \in ChallengeIds : challenges[c].status = "open"}
Verified == {s \in SubmissionIds : submissions[s].status = "verified"}

-----------------------------------------------------------------------------
(***************************************************************************)
(* market_invariants.market_state_violations finds nothing.  Every command *)
(* is refused with INVALID_STATE in a state where this does not hold.      *)
(***************************************************************************)
ReferencesValid ==
    \A c \in ChallengeIds :
        Filed(c) => challenges[c].submission \in SubmissionIds /\ Present(challenges[c].submission)

PayableValid == payable \subseteq Verified

ChallengesValid ==
    /\ \A c, d \in OpenChallenges :
           challenges[c].submission = challenges[d].submission => c = d
    /\ OpenChallenges # {} => phase = "open"
    /\ \A c \in OpenChallenges : challenges[c].deposit > 0
    /\ \A c \in ChallengeIds \ OpenChallenges : challenges[c].deposit = 0
    /\ \A s \in SubmissionIds : submissions[s].status = "rejected" => submissions[s].bond = 0

NoActivity ==
    /\ \A s \in SubmissionIds : ~Present(s)
    /\ \A c \in ChallengeIds : ~Filed(c)
    /\ payable = {}

PhaseValid ==
    /\ phase \in {"open", "payable"} <=> escrow > 0
    /\ phase \in {"draft", "canceled"} => NoActivity
    /\ phase \in {"payable", "settled"} <=> payable # {}
    /\ settled <=> phase = "settled"

TerminalValid ==
    phase \in Terminal => \A s \in SubmissionIds : Present(s) => submissions[s].bond = 0

ValidState ==
    /\ ReferencesValid
    /\ PayableValid
    /\ ChallengesValid
    /\ PhaseValid
    /\ TerminalValid

-----------------------------------------------------------------------------
Init ==
    /\ phase = "draft"
    /\ escrow = 0
    /\ submissions = [s \in SubmissionIds |-> NoSubmission]
    /\ challenges = [c \in ChallengeIds |-> NoChallenge]
    /\ payable = {}
    /\ settled = FALSE
    /\ processed = 0
    /\ custody = [escrow |-> 0,
                  bond |-> [s \in SubmissionIds |-> 0],
                  deposit |-> [c \in ChallengeIds |-> 0]]
    /\ sent = {}

\* What apply_market_command does around every handler that accepts.
Commit(effects) ==
    /\ ValidState
    /\ processed' = processed + 1
    /\ sent' = sent \cup effects

CanOpen(funded, now) ==
    /\ phase = "draft"
    /\ now < Deadline
    /\ funded = RequiredFunding

OpenBounty(funded, now) ==
    /\ CanOpen(funded, now)
    /\ phase' = "open"
    /\ escrow' = funded
    /\ custody' = [custody EXCEPT !.escrow = @ + funded]
    /\ Commit({Effect("lock_escrow", Bounty, funded)})
    /\ UNCHANGED <<submissions, challenges, payable, settled>>

\* Slip: an id already used is not refused.
CanSubmitAgain(s, verifier, bond, now) ==
    /\ phase = "open"
    /\ now <= Deadline
    /\ verifier \in AcceptedVerifiers
    /\ bond >= RequiredBond

CanSubmit(s, verifier, bond, now) ==
    /\ phase = "open"
    /\ now <= Deadline
    /\ ~Present(s)
    /\ verifier \in AcceptedVerifiers
    /\ bond >= RequiredBond

SubmitCandidate(s, verifier, bond, now) ==
    /\ CanSubmit(s, verifier, bond, now)
    /\ submissions' = [submissions EXCEPT ![s] =
           [status |-> "pending", verifier |-> verifier, at |-> now, bond |-> bond,
            receipt |-> None]]
    /\ custody' = [custody EXCEPT !.bond[s] = @ + bond]
    /\ Commit({Effect("lock_submission_bond", s, bond)})
    /\ UNCHANGED <<phase, escrow, challenges, payable, settled>>

\* Slip: the statement is not tied to the state it was signed in.
BindsAnyState(receipt, subject, outcome, key) ==
    /\ receipt.subject = subject
    /\ receipt.outcome = outcome
    /\ receipt.key = key
    /\ key \in AcceptedVerifiers

\* Slip: any accepted key signs for any submission.
BindsAnyKey(receipt, subject, outcome, key) ==
    /\ receipt.pre = processed
    /\ receipt.subject = subject
    /\ receipt.outcome = outcome
    /\ receipt.key \in AcceptedVerifiers

\* A receipt is admitted when its statement is exactly the one the state, the
\* command and its verdict call for (_validate_command_evidence_binding,
\* _admit_submission_receipt, _admit_challenge_receipt).
Binds(receipt, subject, outcome, key) ==
    /\ receipt.pre = processed
    /\ receipt.subject = subject
    /\ receipt.outcome = outcome
    /\ receipt.key = key
    /\ key \in AcceptedVerifiers

CanVerify(s, outcome, receipt, now) ==
    /\ phase = "open"
    /\ now <= ChallengeDeadline
    /\ submissions[s].status = "pending"
    /\ Binds(receipt, s, outcome, submissions[s].verifier)

\* The verdict on a candidate.  An honest rejection refunds the bond.
VerifyAccepted(s, receipt, now) ==
    /\ CanVerify(s, "accepted", receipt, now)
    /\ submissions' = [submissions EXCEPT ![s].status = "verified", ![s].receipt = receipt]
    /\ Commit({})
    /\ UNCHANGED <<phase, escrow, challenges, payable, settled, custody>>

VerifyRejected(s, receipt, now) ==
    /\ CanVerify(s, "rejected", receipt, now)
    /\ submissions' = [submissions EXCEPT ![s].status = "rejected", ![s].bond = 0,
                                          ![s].receipt = receipt]
    /\ custody' = [custody EXCEPT !.bond[s] = @ - submissions[s].bond]
    /\ Commit({Effect("refund_submission_bond", s, submissions[s].bond)})
    /\ UNCHANGED <<phase, escrow, challenges, payable, settled>>

CanChallenge(c, s, deposit, now) ==
    /\ phase = "open"
    /\ now <= ChallengeDeadline
    /\ ~Filed(c)
    /\ submissions[s].status = "verified"
    /\ \A d \in OpenChallenges : challenges[d].submission # s
    /\ deposit >= MinChallengeDeposit

OpenChallenge(c, s, deposit, now) ==
    /\ CanChallenge(c, s, deposit, now)
    /\ challenges' = [challenges EXCEPT ![c] =
           [status |-> "open", submission |-> s, at |-> now, deposit |-> deposit,
            receipt |-> None]]
    /\ custody' = [custody EXCEPT !.deposit[c] = @ + deposit]
    /\ Commit({Effect("lock_challenge_deposit", c, deposit)})
    /\ UNCHANGED <<phase, escrow, submissions, payable, settled>>

\* Any accepted verifier may adjudicate; only the resolution deadline bounds it.
CanResolve(c, outcome, receipt, now) ==
    /\ phase = "open"
    /\ challenges[c].status = "open"
    /\ now <= ResolutionDeadline(c)
    /\ Binds(receipt, c, outcome, receipt.key)

ResolveUpheld(c, receipt, now) ==
    /\ CanResolve(c, "upheld", receipt, now)
    /\ LET s == challenges[c].submission
       IN  /\ challenges' = [challenges EXCEPT ![c].status = "upheld", ![c].deposit = 0,
                                               ![c].receipt = receipt]
           /\ submissions' = [submissions EXCEPT ![s].status = "rejected", ![s].bond = 0]
           /\ custody' = [custody EXCEPT !.deposit[c] = @ - challenges[c].deposit,
                                         !.bond[s] = @ - submissions[s].bond]
           /\ Commit({Effect("refund_challenge_deposit", c, challenges[c].deposit),
                      Effect("slash_submission_bond", s, submissions[s].bond)})
    /\ UNCHANGED <<phase, escrow, payable, settled>>

ResolveRejected(c, receipt, now) ==
    /\ CanResolve(c, "rejected", receipt, now)
    /\ challenges' = [challenges EXCEPT ![c].status = "rejected", ![c].deposit = 0,
                                        ![c].receipt = receipt]
    /\ custody' = [custody EXCEPT !.deposit[c] = @ - challenges[c].deposit]
    /\ Commit({Effect("slash_challenge_deposit", c, challenges[c].deposit)})
    /\ UNCHANGED <<phase, escrow, submissions, payable, settled>>

\* Slip: an open challenge blocks the bounty for as long as nobody adjudicates it.
CanAdvanceResolved(now) ==
    /\ phase = "open"
    /\ now > ChallengeDeadline
    /\ OpenChallenges = {}

CanAdvance(now) ==
    /\ phase = "open"
    /\ now > ChallengeDeadline
    /\ \A c \in OpenChallenges : now > ResolutionDeadline(c)

\* Slip: a timed-out challenge keeps its deposit on record.
TimedOutLocked ==
    [c \in ChallengeIds |->
        IF c \in OpenChallenges THEN [challenges[c] EXCEPT !.status = "rejected"]
                                ELSE challenges[c]]

\* Advancing rejects every challenge nobody adjudicated in time.
TimedOut ==
    [c \in ChallengeIds |->
        IF c \in OpenChallenges
        THEN [challenges[c] EXCEPT !.status = "rejected", !.deposit = 0]
        ELSE challenges[c]]

TimeoutEffects ==
    {Effect("slash_challenge_deposit", c, challenges[c].deposit) : c \in OpenChallenges}

DepositsAfterTimeout ==
    [c \in ChallengeIds |->
        custody.deposit[c] - (IF c \in OpenChallenges THEN challenges[c].deposit ELSE 0)]

\* Slip: the refund is booked as a debit.
BondsOwed == [s \in SubmissionIds |-> [submissions[s] EXCEPT !.bond = @ - 2 * @]]

\* Settling and expiring give back every bond still locked.
BondsReturned == [s \in SubmissionIds |-> [submissions[s] EXCEPT !.bond = 0]]

\* Slip: candidates nobody verified are forgotten.
BondRefundsVerified ==
    {Effect("refund_submission_bond", s, submissions[s].bond) : s \in Verified}

BondRefunds ==
    {Effect("refund_submission_bond", s, submissions[s].bond) :
        s \in {t \in SubmissionIds : submissions[t].bond > 0}}

BondsAfterRefund ==
    [s \in SubmissionIds |->
        custody.bond[s] - (IF submissions[s].bond > 0 THEN submissions[s].bond ELSE 0)]

AdvancePayable(now) ==
    /\ CanAdvance(now)
    /\ Verified # {}
    /\ phase' = "payable"
    /\ challenges' = TimedOut
    /\ payable' = Verified
    /\ custody' = [custody EXCEPT !.deposit = DepositsAfterTimeout]
    /\ Commit(TimeoutEffects)
    /\ UNCHANGED <<escrow, submissions, settled>>

AdvanceExpired(now) ==
    /\ CanAdvance(now)
    /\ Verified = {}
    /\ phase' = "expired"
    /\ escrow' = 0
    /\ submissions' = BondsReturned
    /\ challenges' = TimedOut
    /\ custody' = [escrow |-> custody.escrow - escrow,
                   bond |-> BondsAfterRefund,
                   deposit |-> DepositsAfterTimeout]
    /\ Commit(TimeoutEffects \cup {Effect("refund_escrow", Bounty, escrow)} \cup BondRefunds)
    /\ UNCHANGED <<payable, settled>>

\* A payout plan gives each named payable submission one amount.
Total(payouts) == FoldFunction(LAMBDA a, b : a + b, 0, payouts)

\* Slip: payouts need only be covered.
CanSettleCovered(payouts) ==
    /\ phase = "payable"
    /\ DOMAIN payouts # {}
    /\ DOMAIN payouts \subseteq payable
    /\ Total(payouts) <= escrow

CanSettle(payouts) ==
    /\ phase = "payable"
    /\ DOMAIN payouts # {}
    /\ DOMAIN payouts \subseteq payable
    /\ Total(payouts) = escrow

SettleBounty(payouts) ==
    /\ CanSettle(payouts)
    /\ phase' = "settled"
    /\ escrow' = 0
    /\ settled' = TRUE
    /\ submissions' = BondsReturned
    /\ custody' = [custody EXCEPT !.escrow = @ - Total(payouts), !.bond = BondsAfterRefund]
    /\ Commit({Effect("payout", s, payouts[s]) : s \in DOMAIN payouts} \cup BondRefunds)
    /\ UNCHANGED <<challenges, payable>>

CanCancel(now) ==
    /\ phase = "open"
    /\ now < Deadline
    /\ \A s \in SubmissionIds : ~Present(s)
    /\ \A c \in ChallengeIds : ~Filed(c)

CancelBounty(now) ==
    /\ CanCancel(now)
    /\ phase' = "canceled"
    /\ escrow' = 0
    /\ custody' = [custody EXCEPT !.escrow = @ - escrow]
    /\ Commit({Effect("refund_escrow", Bounty, escrow)})
    /\ UNCHANGED <<submissions, challenges, payable, settled>>

-----------------------------------------------------------------------------
\* Receipts that can exist: any verdict any key signed over a state reached so far.
SignedOver(Subject) ==
    [pre : 0..processed, subject : Subject, outcome : {"accepted", "upheld", "rejected"},
     key : Verifiers]

Submit ==
    \E s \in SubmissionIds, v \in Verifiers, bond \in Amounts, now \in Times :
        SubmitCandidate(s, v, bond, now)

Verify ==
    \E s \in SubmissionIds, r \in SignedOver(SubmissionIds), now \in Times :
        VerifyAccepted(s, r, now) \/ VerifyRejected(s, r, now)

Challenge ==
    \E c \in ChallengeIds, s \in SubmissionIds, deposit \in Amounts, now \in Times :
        OpenChallenge(c, s, deposit, now)

Resolve ==
    \E c \in ChallengeIds, r \in SignedOver(ChallengeIds), now \in Times :
        ResolveUpheld(c, r, now) \/ ResolveRejected(c, r, now)

Advance == \E now \in Times : AdvancePayable(now) \/ AdvanceExpired(now)

Settle == \E S \in SUBSET payable : \E payouts \in [S -> Amounts] : SettleBounty(payouts)

Next ==
    \/ \E funded \in Amounts, now \in Times : OpenBounty(funded, now)
    \/ Submit
    \/ Verify
    \/ Challenge
    \/ Resolve
    \/ Advance
    \/ Settle
    \/ \E now \in Times : CancelBounty(now)

Spec == Init /\ [][Next]_vars

\* Anyone may advance or settle, and someone keeps trying.
FairSpec == Spec /\ WF_vars(Advance) /\ WF_vars(Settle)

-----------------------------------------------------------------------------
\* Every variable has the type the code gives it.
TypeOK ==
    /\ phase \in Phases
    /\ escrow \in Nat
    /\ submissions \in [SubmissionIds -> SubmissionRecords]
    /\ challenges \in [ChallengeIds -> ChallengeRecords]
    /\ payable \subseteq SubmissionIds
    /\ settled \in BOOLEAN
    /\ processed \in Nat
    /\ custody \in [escrow : Int, bond : [SubmissionIds -> Int], deposit : [ChallengeIds -> Int]]
    /\ sent \subseteq [kind : EffectKinds, subject : {Bounty} \cup SubmissionIds \cup ChallengeIds,
                       amount : Nat]

\* market_invariants.py:14-16, "properties that every representable state must
\* satisfy": no accepted command leads to a state in which all later commands
\* are refused with INVALID_STATE.  (ValidState above, checked as an invariant.)

\* The effects a history returned move exactly the value its state records as
\* locked: executing the effect plans and reading the state never disagree, and
\* nothing is held for a submission that does not exist.
Conservation ==
    /\ custody.escrow = escrow
    /\ \A s \in SubmissionIds : custody.bond[s] = submissions[s].bond
    /\ \A s \in SubmissionIds : ~Present(s) => custody.bond[s] = 0
    /\ \A c \in ChallengeIds : custody.deposit[c] = challenges[c].deposit

Upheld(s) ==
    \E c \in ChallengeIds : challenges[c].status = "upheld" /\ challenges[c].submission = s

\* A bond is slashed when and only when a challenge to its submission was
\* upheld; in a closed bounty every other bond went back whole, although
\* pending, verified and rejected candidates are refunded by three handlers.
BondsFollowVerdicts ==
    /\ \A e \in sent : e.kind = "slash_submission_bond" => Upheld(e.subject)
    /\ \A e \in sent : e.kind = "refund_submission_bond" => ~Upheld(e.subject)
    /\ phase \in Terminal =>
           \A e \in sent :
               e.kind = "lock_submission_bond" /\ e.amount > 0 =>
                   Effect(IF Upheld(e.subject) THEN "slash_submission_bond"
                                               ELSE "refund_submission_bond",
                          e.subject, e.amount) \in sent

\* A challenger gets the deposit back exactly when the challenge was upheld; a
\* challenge that was rejected, or that nobody adjudicated in time, loses it.
DepositsFollowVerdicts ==
    \A e \in sent :
        e.kind = "lock_challenge_deposit" =>
            LET refund == Effect("refund_challenge_deposit", e.subject, e.amount)
                slash == Effect("slash_challenge_deposit", e.subject, e.amount)
                status == challenges[e.subject].status
            IN  /\ refund \in sent <=> status = "upheld"
                /\ slash \in sent <=> status = "rejected"

\* So every stake follows the verdict about it, whichever of the four handlers that give stakes
\* back or slash them got to it (market.py:640-850).
StakesFollowVerdicts == BondsFollowVerdicts /\ DepositsFollowVerdicts

\* Whoever is paid submitted in time, was accepted by the accepted verifier the
\* submission named, and no challenge to the submission was upheld or is open.
PaidSurvived ==
    \A e \in sent :
        e.kind = "payout" =>
            LET sub == submissions[e.subject]
            IN  /\ sub.status = "verified"
                /\ sub.at <= Deadline
                /\ sub.receipt.outcome = "accepted"
                /\ sub.receipt.key = sub.verifier
                /\ sub.verifier \in AcceptedVerifiers
                /\ ~Upheld(e.subject)
                /\ \A c \in OpenChallenges : challenges[c].submission # e.subject

\* A signed verdict changes the state once, and an adjudication was signed after
\* the verification it contests: neither receipt can be replayed or prepared.
VerdictsFresh ==
    /\ \A s \in SubmissionIds : submissions[s].receipt # None =>
           /\ submissions[s].receipt.pre < processed
           /\ \A t \in SubmissionIds \ {s} : submissions[t].receipt # None =>
                  submissions[s].receipt.pre # submissions[t].receipt.pre
    /\ \A c \in ChallengeIds : challenges[c].receipt # None =>
           LET contested == submissions[challenges[c].submission]
           IN  /\ contested.receipt # None
               /\ contested.receipt.pre < challenges[c].receipt.pre
               /\ challenges[c].receipt.pre < processed

\* Whatever callers do, an opened bounty can be brought to an end and is, as
\* long as someone keeps trying to advance and settle it.
EventuallyClosed == phase = "open" ~> phase \in Terminal

-----------------------------------------------------------------------------
\* Market implements Escrow: the reward, each bond and each deposit is a lot.
Lots ==
    ({"escrow"} \X {Bounty}) \cup ({"bond"} \X SubmissionIds) \cup ({"deposit"} \X ChallengeIds)

Prize == <<"escrow", Bounty>>

Held ==
    [l \in Lots |-> CASE l[1] = "escrow"  -> custody.escrow
                      [] l[1] = "bond"    -> custody.bond[l[2]]
                      [] l[1] = "deposit" -> custody.deposit[l[2]]]

Locked ==
    {l \in Lots : CASE l[1] = "escrow"  -> phase # "draft"
                    [] l[1] = "bond"    -> Present(l[2])
                    [] l[1] = "deposit" -> Filed(l[2])}

Abstract == INSTANCE Escrow WITH held <- Held, locked <- Locked, closed <- (phase \in Terminal)

\* A lot is locked once, leaves whole, and after a bounty closed nothing moves.
ImplementsEscrow == Abstract!ESpec
=============================================================================
