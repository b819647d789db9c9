---------------------------- MODULE MarketDecision ----------------------------
(***************************************************************************)
(* apply_market_command of core/market.py as the function it is: a state,  *)
(* a command and its evidence give one decision, a refusal with its code,  *)
(* an acceptance or a committed failure, the last two with the next state  *)
(* and the effects to perform.  Market has the accepted commands as        *)
(* actions and leaves the refusals and the parties out; here are the       *)
(* checks every handler makes, in the order in which it makes them, and    *)
(* who is paid, refunded or slashed.                                       *)
(*                                                                         *)
(* A list of checks is a sequence of pairs: the code of a refusal and the  *)
(* condition under which it is given.  What is abstracted: a command says  *)
(* by `form' whether its fields are well formed, or which validation finds *)
(* that they are not; `verdict' is both VerifySubmission.accepted and      *)
(* ResolveChallenge.upheld; a hash is what it hashes, so a verifier        *)
(* statement holds the state it was signed over.                           *)
(***************************************************************************)
EXTENDS Integers, Sequences, SequencesExt, FiniteSets, FiniteSetsExt, TLC

CONSTANTS
    SubmissionIds, ChallengeIds,              \* ids callers may use
    Sponsor, Treasury,                        \* terms.sponsor_ref, policy.treasury_ref
    AcceptedRecipes, AcceptedVerifiers,       \* the terms' accepted refs
    SlashableFindings,                        \* policy.slashable_findings
    Reward, MinSubmissionBond,                \* terms.reward, .minimum_submission_bond
    Deadline, ChallengeWindow,                \* terms.deadline_epoch_s, ...
    MinBounty, PolicyMinBond,                 \* policy.minimum_bounty, ...
    MinChallengeDeposit, ResolutionSeconds,
    None                                      \* an absent value

\* What the constants are: what terms and policy make sure of.
DecisionParameters ==
    /\ Reward \in Nat \ {0}
    /\ {MinSubmissionBond, Deadline, ChallengeWindow, MinBounty, PolicyMinBond,
        MinChallengeDeposit, ResolutionSeconds} \subseteq Nat
    /\ SlashableFindings # {}

NoSubmission ==
    [status |-> "none", submitter |-> None, recipe |-> None, verifier |-> None, at |-> 0,
     bond |-> 0, receipt |-> None]

NoChallenge ==
    [status |-> "none", submission |-> None, challenger |-> None, finding |-> None, at |-> 0,
     deposit |-> 0, receipt |-> None]

initial_bounty ==
    [phase |-> "draft", escrow |-> 0, submissions |-> [s \in SubmissionIds |-> NoSubmission],
     challenges |-> [c \in ChallengeIds |-> NoChallenge], payable |-> {}, settlement |-> None,
     processed |-> {}]

Present(b) == {s \in SubmissionIds : b.submissions[s].status # "none"}
Filed(b) == {c \in ChallengeIds : b.challenges[c].status # "none"}
Open(b) == {c \in ChallengeIds : b.challenges[c].status = "open"}
Verified(b) == {s \in SubmissionIds : b.submissions[s].status = "verified"}

ChallengeDeadline == Deadline + ChallengeWindow

Larger(a, n) == IF a >= n THEN a ELSE n

ResolutionDeadline(challenge) == Larger(ChallengeDeadline, challenge.at + ResolutionSeconds)

-----------------------------------------------------------------------------
(* market_state_violations: the codes of what is wrong with a state. *)

Terminal == {"settled", "expired", "canceled"}

Found(rules) == {code \in DOMAIN rules : rules[code]}

ReferenceViolations(b) == Found(
    [challenge_unknown_submission |->
         \E c \in Filed(b) : b.challenges[c].submission \notin Present(b),
     payable_unknown_submission |-> ~(b.payable \subseteq Present(b)),
     payable_submission_not_verified |-> (b.payable \cap Present(b)) \ Verified(b) # {}])

ChallengeViolations(b) == Found(
    [multiple_open_challenges |->
         \E c, d \in Open(b) : c # d /\ b.challenges[c].submission = b.challenges[d].submission,
     open_challenge_outside_open_phase |-> Open(b) # {} /\ b.phase # "open",
     open_challenge_without_deposit |-> \E c \in Open(b) : b.challenges[c].deposit = 0,
     resolved_challenge_retains_deposit |->
         \E c \in Filed(b) \ Open(b) : b.challenges[c].deposit # 0,
     rejected_submission_retains_bond |->
         \E s \in Present(b) : b.submissions[s].status = "rejected" /\ b.submissions[s].bond # 0])

PhaseViolations(b) ==
    LET Activity == Present(b) # {} \/ Filed(b) # {} \/ b.payable # {}
    IN  Found(CASE b.phase = "draft" ->
               [draft_has_escrow |-> b.escrow # 0,
                draft_has_activity |-> Activity \/ b.settlement # None]
          [] b.phase = "open" ->
               [open_without_escrow |-> b.escrow = 0, open_has_payable_ids |-> b.payable # {},
                open_has_settlement |-> b.settlement # None]
          [] b.phase = "payable" ->
               [payable_without_escrow |-> b.escrow = 0,
                payable_without_submission |-> b.payable = {},
                payable_with_open_challenge |-> Open(b) # {}]
          [] b.phase = "settled" ->
               [settled_retains_escrow |-> b.escrow # 0,
                settled_without_payable_submission |-> b.payable = {},
                settled_without_receipt |-> b.settlement = None]
          [] b.phase = "expired" ->
               [expired_retains_escrow |-> b.escrow # 0, expired_has_payable_ids |-> b.payable # {}]
          [] b.phase = "canceled" ->
               [canceled_retains_escrow |-> b.escrow # 0, canceled_has_activity |-> Activity])

TerminalViolations(b) == Found(
    [non_settled_has_settlement |-> b.phase # "settled" /\ b.settlement # None,
     terminal_retains_bond |->
         b.phase \in Terminal /\ \E s \in Present(b) : b.submissions[s].bond # 0,
     terminal_retains_deposit |->
         b.phase \in Terminal /\ \E c \in Filed(b) : b.challenges[c].deposit # 0,
     terminal_has_open_challenge |-> b.phase \in Terminal /\ Open(b) # {}])

market_state_violations(b) ==
    ReferenceViolations(b) \cup ChallengeViolations(b) \cup PhaseViolations(b)
        \cup TerminalViolations(b)

-----------------------------------------------------------------------------
(* What is checked before the handler of the command is called. *)

Verdicts == {"verify_submission", "resolve_challenge"}

Outcome(command) ==
    IF ~command.verdict THEN "rejected"
    ELSE IF command.kind = "verify_submission" THEN "accepted" ELSE "upheld"

Subject(command) ==
    IF command.kind = "verify_submission" THEN command.submission ELSE command.challenge

\* What the statement must repeat of its subject, if the state knows it.
Description(b, command) ==
    IF command.kind = "verify_submission"
    THEN b.submissions[command.submission].recipe
    ELSE <<b.challenges[command.challenge].submission, b.challenges[command.challenge].finding>>

Known(b, command) ==
    IF command.kind = "verify_submission"
    THEN command.submission \in Present(b)
    ELSE command.challenge \in Filed(b)

\* submission_verifier_statement and challenge_verifier_statement.
Statement(b, command) ==
    [kind |-> command.kind, pre |-> b, subject |-> Subject(command),
     about |-> Description(b, command), outcome |-> Outcome(command)]

\* _validate_command_evidence_binding, for a receipt that is there.
Bound(b, command, receipt) ==
    LET statement == receipt.statement
        expected == Statement(b, command)
    IN  /\ \A field \in {"kind", "pre", "subject", "outcome"} : statement[field] = expected[field]
        /\ Known(b, command) => statement = expected
        /\ receipt.key = command.verifier
        /\ command.kind = "verify_submission" /\ Known(b, command) =>
               receipt.key = b.submissions[command.submission].verifier

\* Two receipts with one ref are refused, and so is one whose signature is not good.
EvidenceValid(evidence) ==
    /\ \A i \in DOMAIN evidence : evidence[i].genuine
    /\ \A i, j \in DOMAIN evidence : evidence[i] = evidence[j] => i = j

\* Slip: a command id is checked for commands with evidence only.
CommonChecksNoReplay(b, command, evidence) ==
    <<<<"INVALID_STATE", market_state_violations(b) # {}>>,
      <<"INVALID_COMMAND", command.form = "malformed">>,
      <<"INVALID_EVIDENCE", ~EvidenceValid(evidence)>>,
      <<"INVALID_EVIDENCE", command.kind \in Verdicts
            /\ command.receipt \in ToSet(evidence) /\ ~Bound(b, command, command.receipt)>>>>

CommonChecks(b, command, evidence) ==
    <<<<"INVALID_STATE", market_state_violations(b) # {}>>,
      <<"INVALID_COMMAND", command.form = "malformed">>,
      <<"INVALID_EVIDENCE", ~EvidenceValid(evidence)>>,
      <<"INVALID_EVIDENCE", command.kind \in Verdicts
            /\ command.receipt \in ToSet(evidence) /\ ~Bound(b, command, command.receipt)>>,
      <<"DUPLICATE_COMMAND", command.id \in b.processed>>>>

-----------------------------------------------------------------------------
(* The handlers: what each refuses, in its order. *)

OpenBountyChecks(b, command) ==
    <<<<"WRONG_PHASE", b.phase # "draft">>,
      <<"TIME_WINDOW", command.now >= Deadline>>,
      <<"POLICY_MISMATCH", command.sponsor # Sponsor>>,
      <<"INSUFFICIENT_AMOUNT", command.funded # Larger(Reward, MinBounty)>>>>

SubmitChecks(b, command) ==
    <<<<"INVALID_COMMAND", command.form = "refused by the handler">>,
      <<"WRONG_PHASE", b.phase # "open">>,
      <<"TIME_WINDOW", command.now > Deadline>>,
      <<"DUPLICATE_ENTITY", command.submission \in Present(b)>>,
      <<"POLICY_MISMATCH", command.recipe \notin AcceptedRecipes>>,
      <<"POLICY_MISMATCH", command.verifier \notin AcceptedVerifiers>>,
      <<"MISSING_EVIDENCE", ~command.evidenced>>,
      <<"INSUFFICIENT_AMOUNT", command.bond < Larger(MinSubmissionBond, PolicyMinBond)>>>>

\* Slip: a verdict may come after nobody can challenge it any more.
VerifyChecksLate(b, command, evidence) ==
    LET submission == b.submissions[command.submission]
    IN  <<<<"INVALID_COMMAND", command.form = "refused by the handler">>,
          <<"WRONG_PHASE", b.phase # "open">>,
          <<"TIME_WINDOW", command.now > ChallengeDeadline + ResolutionSeconds>>,
          <<"UNKNOWN_ENTITY", submission.status = "none">>,
          <<"POLICY_MISMATCH", submission.status # "pending">>,
          <<"POLICY_MISMATCH", command.verifier # submission.verifier>>,
          <<"MISSING_EVIDENCE", command.receipt \notin ToSet(evidence)>>,
          <<"POLICY_MISMATCH", command.verifier \notin AcceptedVerifiers>>>>

VerifyChecks(b, command, evidence) ==
    LET submission == b.submissions[command.submission]
    IN  <<<<"INVALID_COMMAND", command.form = "refused by the handler">>,
          <<"WRONG_PHASE", b.phase # "open">>,
          <<"TIME_WINDOW", command.now > ChallengeDeadline>>,
          <<"UNKNOWN_ENTITY", submission.status = "none">>,
          <<"POLICY_MISMATCH", submission.status # "pending">>,
          <<"POLICY_MISMATCH", command.verifier # submission.verifier>>,
          <<"MISSING_EVIDENCE", command.receipt \notin ToSet(evidence)>>,
          <<"POLICY_MISMATCH", command.verifier \notin AcceptedVerifiers>>>>

ChallengeChecks(b, command) ==
    LET submission == b.submissions[command.submission]
    IN  <<<<"INVALID_COMMAND", command.form = "refused by the handler">>,
          <<"WRONG_PHASE", b.phase # "open">>,
          <<"TIME_WINDOW", command.now > ChallengeDeadline>>,
          <<"DUPLICATE_ENTITY", command.challenge \in Filed(b)>>,
          <<"UNKNOWN_ENTITY", submission.status = "none">>,
          <<"POLICY_MISMATCH", submission.status # "verified">>,
          <<"POLICY_MISMATCH", \E c \in Open(b) : b.challenges[c].submission = command.submission>>,
          <<"POLICY_MISMATCH", command.finding \notin SlashableFindings>>,
          <<"MISSING_EVIDENCE", ~command.evidenced>>,
          <<"INSUFFICIENT_AMOUNT", command.deposit < MinChallengeDeposit>>>>

ResolveChecks(b, command, evidence) ==
    LET challenge == b.challenges[command.challenge]
    IN  <<<<"INVALID_COMMAND", command.form = "refused by the handler">>,
          <<"WRONG_PHASE", b.phase # "open">>,
          <<"UNKNOWN_ENTITY", challenge.status = "none">>,
          <<"POLICY_MISMATCH", challenge.status # "open">>,
          <<"TIME_WINDOW", command.now > ResolutionDeadline(challenge)>>,
          <<"POLICY_MISMATCH", command.verifier \notin AcceptedVerifiers>>,
          <<"MISSING_EVIDENCE", command.receipt \notin ToSet(evidence)>>>>

AdvanceChecks(b, command) ==
    <<<<"WRONG_PHASE", b.phase # "open">>,
      <<"TIME_WINDOW", command.now <= ChallengeDeadline>>,
      <<"POLICY_MISMATCH", \E c \in Open(b) : command.now <= ResolutionDeadline(b.challenges[c])>>>>

\* Slip: a submission may be paid twice over.
PayoutChecksTwice(b, payouts, i) ==
    <<<<"UNKNOWN_ENTITY", payouts[i].submission \notin b.payable>>,
      <<"POLICY_MISMATCH", payouts[i].submission \in b.payable
            /\ payouts[i].recipient # b.submissions[payouts[i].submission].submitter>>>>

PayoutChecks(b, payouts, i) ==
    <<<<"UNKNOWN_ENTITY", payouts[i].submission \notin b.payable>>,
      <<"DUPLICATE_ENTITY", \E j \in 1..(i - 1) : payouts[j].submission = payouts[i].submission>>,
      <<"POLICY_MISMATCH", payouts[i].submission \in b.payable
            /\ payouts[i].recipient # b.submissions[payouts[i].submission].submitter>>>>

PaidOut(payouts) == FoldLeft(LAMBDA sum, payout : sum + payout.amount, 0, payouts)

SettleChecks(b, command) ==
    LET payouts == command.payouts
    IN  <<<<"INVALID_COMMAND", command.form = "refused by the handler">>,
          <<"WRONG_PHASE", b.phase # "payable">>,
          <<"MISSING_EVIDENCE", payouts = <<>>>>>>
        \o FlattenSeq([i \in DOMAIN payouts |-> PayoutChecks(b, payouts, i)])
        \o <<<<"CONSERVATION_FAILURE", PaidOut(payouts) # b.escrow>>>>

CancelChecks(b, command) ==
    <<<<"WRONG_PHASE", b.phase # "open">>,
      <<"TIME_WINDOW", command.now >= Deadline>>,
      <<"POLICY_MISMATCH", Present(b) # {} \/ Filed(b) # {}>>,
      <<"POLICY_MISMATCH", command.sponsor # Sponsor>>>>

HandlerChecks(b, command, evidence) ==
    CASE command.kind = "open_bounty"       -> OpenBountyChecks(b, command)
      [] command.kind = "submit_candidate"  -> SubmitChecks(b, command)
      [] command.kind = "verify_submission" -> VerifyChecks(b, command, evidence)
      [] command.kind = "open_challenge"    -> ChallengeChecks(b, command)
      [] command.kind = "resolve_challenge" -> ResolveChecks(b, command, evidence)
      [] command.kind = "advance_bounty"    -> AdvanceChecks(b, command)
      [] command.kind = "settle_bounty"     -> SettleChecks(b, command)
      [] command.kind = "cancel_bounty"     -> CancelChecks(b, command)

-----------------------------------------------------------------------------
(* The handlers: what each returns when it refuses nothing. *)

Effect(kind, recipient, amount, subject) ==
    [kind |-> kind, recipient |-> recipient, amount |-> amount, subject |-> subject]

Bounty == "bounty"

\* _accept and _committed_failure; the handlers add the command id to the state.
Returned(b, command, next, effects, code) ==
    [kind |-> IF code = None THEN "accept" ELSE "committed_failure", code |-> code,
     next |-> [next EXCEPT !.processed = b.processed \cup {command.id}], effects |-> effects]

OpenBounty(b, command) ==
    Returned(b, command, [b EXCEPT !.phase = "open", !.escrow = command.funded],
             <<Effect("lock_escrow", command.sponsor, command.funded, Bounty)>>, None)

SubmitCandidate(b, command) ==
    Returned(b, command,
             [b EXCEPT !.submissions[command.submission] =
                 [status |-> "pending", submitter |-> command.submitter, recipe |-> command.recipe,
                  verifier |-> command.verifier, at |-> command.now, bond |-> command.bond,
                  receipt |-> None]],
             <<Effect("lock_submission_bond", command.submitter, command.bond, command.submission)>>,
             None)

VerifySubmission(b, command) ==
    LET s == command.submission
        submission == b.submissions[s]
    IN  IF command.verdict
        THEN Returned(b, command,
                 [b EXCEPT !.submissions[s].status = "verified",
                           !.submissions[s].receipt = command.receipt], <<>>, None)
        ELSE Returned(b, command,
                 [b EXCEPT !.submissions[s].status = "rejected", !.submissions[s].bond = 0,
                           !.submissions[s].receipt = command.receipt],
                 <<Effect("refund_submission_bond", submission.submitter, submission.bond, s)>>,
                 "VERIFIER_REJECTED")

OpenChallenge(b, command) ==
    Returned(b, command,
             [b EXCEPT !.challenges[command.challenge] =
                 [status |-> "open", submission |-> command.submission,
                  challenger |-> command.challenger, finding |-> command.finding,
                  at |-> command.now, deposit |-> command.deposit, receipt |-> None]],
             <<Effect("lock_challenge_deposit", command.challenger, command.deposit,
                      command.challenge)>>, None)

ResolveChallenge(b, command) ==
    LET c == command.challenge
        challenge == b.challenges[c]
        s == challenge.submission
        Decided(status) ==
            [b EXCEPT !.challenges[c].status = status, !.challenges[c].deposit = 0,
                      !.challenges[c].receipt = command.receipt]
    IN  IF command.verdict
        THEN Returned(b, command,
                 [Decided("upheld") EXCEPT !.submissions[s].status = "rejected",
                                           !.submissions[s].bond = 0],
                 <<Effect("refund_challenge_deposit", challenge.challenger, challenge.deposit, c),
                   Effect("slash_submission_bond", Treasury, b.submissions[s].bond, s)>>, None)
        ELSE Returned(b, command, Decided("rejected"),
                 <<Effect("slash_challenge_deposit", Treasury, challenge.deposit, c)>>,
                 "CHALLENGE_REJECTED")

\* Settling and expiring give back every bond still locked.
BondRefunds(b) ==
    LET Refunded == {s \in SubmissionIds : b.submissions[s].bond > 0}
        Refund(s) == Effect("refund_submission_bond", b.submissions[s].submitter,
                            b.submissions[s].bond, s)
    IN  SetToSeq({Refund(s) : s \in Refunded})

BondsReturned(b) == [s \in SubmissionIds |-> [b.submissions[s] EXCEPT !.bond = 0]]

AdvanceBounty(b, command) ==
    LET timeouts ==
            SetToSeq({Effect("slash_challenge_deposit", Treasury, b.challenges[c].deposit, c) :
                          c \in Open(b)})
        timed_out ==
            [b EXCEPT !.challenges =
                [c \in ChallengeIds |->
                    IF c \in Open(b)
                    THEN [b.challenges[c] EXCEPT !.status = "rejected", !.deposit = 0]
                    ELSE b.challenges[c]]]
    IN  IF Verified(b) # {}
        THEN Returned(b, command,
                 [timed_out EXCEPT !.phase = "payable", !.payable = Verified(b)], timeouts, None)
        ELSE Returned(b, command,
                 [timed_out EXCEPT !.phase = "expired", !.escrow = 0,
                                   !.submissions = BondsReturned(b)],
                 timeouts \o <<Effect("refund_escrow", Sponsor, b.escrow, Bounty)>> \o BondRefunds(b),
                 "NO_PAYABLE_SUBMISSION")

SettleBounty(b, command) ==
    Returned(b, command,
             [b EXCEPT !.phase = "settled", !.escrow = 0, !.submissions = BondsReturned(b),
                       !.settlement = command.settlement],
             [i \in DOMAIN command.payouts |->
                 Effect("payout", command.payouts[i].recipient, command.payouts[i].amount,
                        command.payouts[i].submission)] \o BondRefunds(b), None)

CancelBounty(b, command) ==
    Returned(b, command, [b EXCEPT !.phase = "canceled", !.escrow = 0],
             <<Effect("refund_escrow", Sponsor, b.escrow, Bounty)>>, None)

Handled(b, command) ==
    CASE command.kind = "open_bounty"       -> OpenBounty(b, command)
      [] command.kind = "submit_candidate"  -> SubmitCandidate(b, command)
      [] command.kind = "verify_submission" -> VerifySubmission(b, command)
      [] command.kind = "open_challenge"    -> OpenChallenge(b, command)
      [] command.kind = "resolve_challenge" -> ResolveChallenge(b, command)
      [] command.kind = "advance_bounty"    -> AdvanceBounty(b, command)
      [] command.kind = "settle_bounty"     -> SettleBounty(b, command)
      [] command.kind = "cancel_bounty"     -> CancelBounty(b, command)

-----------------------------------------------------------------------------
Checks(b, command, evidence) ==
    CommonChecks(b, command, evidence) \o HandlerChecks(b, command, evidence)

Rejected(code) == [kind |-> "reject", code |-> code]

\* The first check that finds something decides; the rest are not reached.
apply_market_command(b, command, evidence) ==
    LET checks == Checks(b, command, evidence)
        Failed == {i \in DOMAIN checks : checks[i][2]}
    IN  IF Failed = {} THEN Handled(b, command) ELSE Rejected(checks[Min(Failed)][1])
=============================================================================
