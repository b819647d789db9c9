----------------------------- MODULE SingleSlot -----------------------------
(***************************************************************************)
(* The finite stand-in for a bounty: refinement/finite_state.py and        *)
(* market_adapter.py.  An abstract state holds no ids, refs or clock       *)
(* readings; a profile supplies one of each.  To answer a request the      *)
(* adapter makes a BountyState of the abstract state, makes a command of   *)
(* the abstract command, calls apply_market_command, and projects what it  *)
(* returns.                                                                *)
(*                                                                         *)
(* Here the answers drive an abstract state, as ESSO and the enumerator    *)
(* do, while the same commands, each with a receipt signed over the state  *)
(* it meets, drive a bounty that nothing ever projects.                    *)
(*                                                                         *)
(* What is abstracted: a state that is no JSON object of the right fields  *)
(* is None, a command that is none is out of domain, and a hash is what    *)
(* it hashes.                                                              *)
(***************************************************************************)
EXTENDS MarketDecision

CONSTANTS
    Submission, Challenge,               \* profile.submission_id, .challenge_id
    Submitter, Challenger,
    Recipe, Verifier, Finding, Settlement,
    DeclaredReceipt, DeclaredRuling,     \* .verifier_receipt_ref, .challenge_receipt_ref
    TimeRepresentative,                  \* .time_representatives, by time class
    RewardAtoms, BondAtoms, DepositAtoms \* .bounds

TimeClasses == DOMAIN TimeRepresentative

\* What a profile is.
SlotParameters ==
    /\ DecisionParameters
    /\ SubmissionIds = {Submission}
    /\ ChallengeIds = {Challenge}
    /\ \A class \in TimeClasses : TimeRepresentative[class] \in Nat
    /\ \A c, d \in TimeClasses : TimeRepresentative[c] = TimeRepresentative[d] => c = d
    /\ {RewardAtoms, BondAtoms, DepositAtoms} \subseteq Nat
    /\ None \notin TimeClasses

VARIABLES
    slot,           \* SingleSlotAbstractState, held by the caller
    bounty,         \* BountyState of a market driven by the same commands
    custody,        \* value held by a caller who executes the effects it is told
    answered        \* kind and code of the last answer

vars == <<slot, bounty, custody, answered>>

-----------------------------------------------------------------------------
Slots ==
    {"open_bounty", "submit_candidate", "verify_submission", "open_challenge",
     "resolve_challenge", "advance_bounty", "settle_bounty", "cancel_bounty"}

initial_abstract_state ==
    [phase |-> "draft", escrow |-> 0, submission |-> "none", submission_time |-> None, bond |-> 0,
     challenge |-> "none", challenge_time |-> None, deposit |-> 0, payable |-> FALSE,
     settled |-> FALSE, processed |-> {}]

\* _check_temporal_consistency.
TemporallyConsistent(a) ==
    /\ (a.submission = "none") <=> (a.submission_time = None)
    /\ (a.challenge = "none") <=> (a.challenge_time = None)

\* validate_state_bounds.
InBounds(a) ==
    /\ a.escrow <= RewardAtoms
    /\ a.bond <= BondAtoms
    /\ a.deposit <= DepositAtoms

-----------------------------------------------------------------------------
(* Abstract to concrete. *)

\* Slip: the class of the submission's time is not used.
SubmittedAtDeadline(a) ==
    IF a.submission = "none" THEN NoSubmission
    ELSE [status |-> a.submission, submitter |-> Submitter, recipe |-> Recipe,
          verifier |-> Verifier, at |-> Deadline, bond |-> a.bond,
          receipt |-> IF a.submission = "pending" THEN None ELSE DeclaredReceipt]

concretize_submission(a) ==
    IF a.submission = "none" THEN NoSubmission
    ELSE [status |-> a.submission, submitter |-> Submitter, recipe |-> Recipe,
          verifier |-> Verifier, at |-> TimeRepresentative[a.submission_time], bond |-> a.bond,
          receipt |-> IF a.submission = "pending" THEN None ELSE DeclaredReceipt]

concretize_challenge(a) ==
    IF a.challenge = "none" THEN NoChallenge
    ELSE [status |-> a.challenge, submission |-> Submission, challenger |-> Challenger,
          finding |-> Finding, at |-> TimeRepresentative[a.challenge_time], deposit |-> a.deposit,
          receipt |-> IF a.challenge = "open" THEN None ELSE DeclaredRuling]

concretize_state(a) ==
    [phase |-> a.phase, escrow |-> a.escrow,
     submissions |-> [s \in SubmissionIds |-> concretize_submission(a)],
     challenges |-> [c \in ChallengeIds |-> concretize_challenge(a)],
     payable |-> IF a.payable THEN {Submission} ELSE {},
     settlement |-> IF a.settled THEN Settlement ELSE None, processed |-> a.processed]

\* Without a receipt of the request's own, a verdict cites the one the profile declares.
concretize_command(command, now, receipt) ==
    [id |-> command.kind, form |-> "ok", kind |-> command.kind, now |-> now]
    @@ CASE command.kind = "open_bounty" -> [sponsor |-> Sponsor, funded |-> RewardAtoms]
         [] command.kind = "submit_candidate" ->
                [submission |-> Submission, submitter |-> Submitter, recipe |-> Recipe,
                 verifier |-> Verifier, evidenced |-> TRUE, bond |-> BondAtoms]
         [] command.kind = "verify_submission" ->
                [submission |-> Submission, verifier |-> Verifier, verdict |-> command.verdict,
                 receipt |-> IF receipt = None THEN DeclaredReceipt ELSE receipt]
         [] command.kind = "open_challenge" ->
                [challenge |-> Challenge, submission |-> Submission, challenger |-> Challenger,
                 finding |-> Finding, evidenced |-> TRUE, deposit |-> DepositAtoms]
         [] command.kind = "resolve_challenge" ->
                [challenge |-> Challenge, verifier |-> Verifier, verdict |-> command.verdict,
                 receipt |-> IF receipt = None THEN DeclaredRuling ELSE receipt]
         [] command.kind = "advance_bounty" -> [until |-> None]
         [] command.kind = "settle_bounty" ->
                [settlement |-> Settlement,
                 payouts |-> <<[recipient |-> Submitter, submission |-> Submission,
                                amount |-> RewardAtoms]>>]
         [] command.kind = "cancel_bounty" -> [sponsor |-> Sponsor]

(* Concrete to abstract. *)

time_class(epoch) == CHOOSE class \in TimeClasses : TimeRepresentative[class] = epoch

project_state(b) ==
    LET submission == b.submissions[Submission]
        challenge == b.challenges[Challenge]
    IN  [phase |-> b.phase, escrow |-> b.escrow, submission |-> submission.status,
         submission_time |-> IF submission.status = "none" THEN None ELSE time_class(submission.at),
         bond |-> submission.bond, challenge |-> challenge.status,
         challenge_time |-> IF challenge.status = "none" THEN None ELSE time_class(challenge.at),
         deposit |-> challenge.deposit, payable |-> b.payable # {},
         settled |-> b.phase = "settled", processed |-> b.processed \cap Slots]

-----------------------------------------------------------------------------
(* Responses. *)

invalid_input(code, pre) ==
    [kind |-> "invalid_input", code |-> code, pre |-> pre, post |-> None, effects |-> <<>>,
     receipt |-> FALSE]

refused(code, pre) ==
    [kind |-> "reject", code |-> code, pre |-> pre, post |-> pre, effects |-> <<>>,
     receipt |-> FALSE]

committed(kind, code, pre, post, effects) ==
    [kind |-> kind, code |-> code, pre |-> pre, post |-> post, effects |-> effects,
     receipt |-> TRUE]

handle_validate_state(a) ==
    IF market_state_violations(concretize_state(a)) # {} THEN refused("INVALID_STATE", a)
    ELSE committed("accept", None, a, a, <<>>)

\* A receipt is refused where none belongs.
CommandInDomain(request) ==
    /\ request.command # None
    /\ request.receipt # None => request.command.kind \in Verdicts

handle_step(request) ==
    LET a == request.state
        command == concretize_command(request.command, request.now, request.receipt)
        evidence == IF request.receipt = None THEN <<>> ELSE <<request.receipt>>
        decision == apply_market_command(concretize_state(a), command, evidence)
    IN  IF ~CommandInDomain(request) THEN invalid_input("ABSTRACT_COMMAND_OUT_OF_DOMAIN", a)
        ELSE IF request.now # TimeRepresentative[request.class]
        THEN invalid_input("ABSTRACT_STATE_OUT_OF_DOMAIN", a)
        ELSE IF decision.kind = "reject" THEN refused(decision.code, a)
        ELSE committed(decision.kind, decision.code, a, project_state(decision.next),
                       decision.effects)

StateInDomain(a) == a # None /\ TemporallyConsistent(a) /\ InBounds(a)

apply_data_adapter(request) ==
    IF ~request.profile_matches THEN invalid_input("PROFILE_MISMATCH", None)
    ELSE IF ~request.binding_matches THEN invalid_input("BINDING_MISMATCH", None)
    ELSE IF ~StateInDomain(request.state) THEN invalid_input("ABSTRACT_STATE_OUT_OF_DOMAIN", None)
    ELSE IF request.expected # request.state
    THEN invalid_input("PRE_STATE_HASH_MISMATCH", request.state)
    ELSE IF request.operation = "validate_state" THEN handle_validate_state(request.state)
    ELSE handle_step(request)

-----------------------------------------------------------------------------
(* The enumerator's commands and requests. *)

Commands ==
    [kind : Slots \ Verdicts] \cup [kind : Verdicts, verdict : BOOLEAN]

\* verifier_statement_for_abstract_command: no statement, no receipt.
Signed(b, command) ==
    LET full == concretize_command(command, 0, None)
    IN  IF command.kind \in Verdicts /\ Known(b, full)
        THEN [statement |-> Statement(b, full), key |-> Verifier, genuine |-> TRUE]
        ELSE None

Request(a, command, class) ==
    [profile_matches |-> TRUE, binding_matches |-> TRUE, state |-> a, expected |-> a,
     operation |-> "step", command |-> command, class |-> class,
     now |-> TimeRepresentative[class], receipt |-> Signed(concretize_state(a), command)]

\* The same command, at the same time, to the market itself.
Decided(b, command, now) ==
    LET receipt == Signed(b, command)
    IN  apply_market_command(b, concretize_command(command, now, receipt),
                             IF receipt = None THEN <<>> ELSE <<receipt>>)

Committing == {"accept", "committed_failure"}

Init ==
    /\ slot = initial_abstract_state
    /\ bounty = initial_bounty
    /\ custody = [escrow |-> 0, bond |-> 0, deposit |-> 0]
    /\ answered = <<"none", None>>

Executed(held, effect) ==
    CASE effect.kind = "lock_escrow" -> [held EXCEPT !.escrow = @ + effect.amount]
      [] effect.kind \in {"refund_escrow", "payout"} -> [held EXCEPT !.escrow = @ - effect.amount]
      [] effect.kind = "lock_submission_bond" -> [held EXCEPT !.bond = @ + effect.amount]
      [] effect.kind \in {"refund_submission_bond", "slash_submission_bond"} ->
             [held EXCEPT !.bond = @ - effect.amount]
      [] effect.kind = "lock_challenge_deposit" -> [held EXCEPT !.deposit = @ + effect.amount]
      [] effect.kind \in {"refund_challenge_deposit", "slash_challenge_deposit"} ->
             [held EXCEPT !.deposit = @ - effect.amount]

\* The caller keeps the state it is given, the old one if the command was refused.
Step(command, class) ==
    LET response == apply_data_adapter(Request(slot, command, class))
        decision == Decided(bounty, command, TimeRepresentative[class])
    IN  /\ response.kind # "invalid_input"
        /\ slot' = response.post
        /\ bounty' = IF decision.kind = "reject" THEN bounty ELSE decision.next
        /\ custody' = FoldLeft(Executed, custody, response.effects)
        /\ answered' = <<response.kind, response.code>>

Next == \E command \in Commands, class \in TimeClasses : Step(command, class)

Spec == Init /\ [][Next]_vars

-----------------------------------------------------------------------------
\* The abstract state has forgotten receipts, ids and times, and still the adapter decides as
\* the market would, for every command at every time class: the same answer for the same
\* reason with the same effects, and the abstract state of the market's next state
\* (market_adapter.py:795-905).
FollowsMarket ==
    \A command \in Commands, class \in TimeClasses :
        LET response == apply_data_adapter(Request(slot, command, class))
            decision == Decided(bounty, command, TimeRepresentative[class])
        IN  /\ response.kind = decision.kind
            /\ response.code = decision.code
            /\ decision.kind \in Committing =>
                   /\ response.effects = decision.effects
                   /\ response.post = project_state(decision.next)

\* The amounts of the abstract state are what its caller holds after executing every effect it
\* was told (market_adapter.py:868-872: effects are the market's, the state is projected).
AmountsHeld ==
    custody = [escrow |-> slot.escrow, bond |-> slot.bond, deposit |-> slot.deposit]

\* An abstract state is neither lost nor invented on its way through a BountyState, and that
\* BountyState is valid (market_adapter.py:225-310).
RoundTrip ==
    /\ project_state(concretize_state(slot)) = slot
    /\ market_state_violations(concretize_state(slot)) = {}

\* Every clock reading is represented: whatever now a caller could give, the market decides as
\* it does at one of the five times of the profile (market_single_slot_v1.json:52-58).
ReadingsToTry ==
    UNION {{t - 1, t, t + 1} : t \in {1, Deadline, ChallengeDeadline, ChallengeDeadline + ResolutionSeconds}
                  \cup {TimeRepresentative[class] : class \in TimeClasses}
                  \cup {ResolutionDeadline(bounty.challenges[c]) : c \in ChallengeIds}}

EveryReadingRepresented ==
    \A command \in Commands, now \in ReadingsToTry :
        \E class \in TimeClasses :
            LET any == Decided(bounty, command, now)
                represented == Decided(bounty, command, TimeRepresentative[class])
            IN  /\ any.kind = represented.kind
                /\ any.code = represented.code
                /\ any.kind \in Committing => any.effects = represented.effects

-----------------------------------------------------------------------------
(* Requests about states that no run of the market reaches. *)

Changed(a) ==
    {[a EXCEPT !.phase = p] : p \in Terminal \cup {"draft", "open", "payable"}}
    \cup {[a EXCEPT !.escrow = n] : n \in {0, RewardAtoms, RewardAtoms + 1}}
    \cup {[a EXCEPT !.bond = n] : n \in {0, BondAtoms, BondAtoms + 1}}
    \cup {[a EXCEPT !.deposit = n] : n \in {0, DepositAtoms, DepositAtoms + 1}}
    \cup {[a EXCEPT !.submission = s] : s \in {"none", "pending", "verified", "rejected"}}
    \cup {[a EXCEPT !.submission_time = t] : t \in TimeClasses \cup {None}}
    \cup {[a EXCEPT !.challenge = s] : s \in {"none", "open", "upheld", "rejected"}}
    \cup {[a EXCEPT !.challenge_time = t] : t \in TimeClasses \cup {None}}
    \cup {[a EXCEPT !.payable = v] : v \in BOOLEAN}
    \cup {[a EXCEPT !.settled = v] : v \in BOOLEAN}

Requests ==
    LET step(a, command) == Request(a, command, CHOOSE class \in TimeClasses : TRUE)
        asked == {[step(slot, command) EXCEPT !.state = a, !.expected = e, !.operation = o] :
                      command \in Commands, a \in Changed(slot) \cup {None}, e \in {slot},
                      o \in {"step", "validate_state"}}
        bound == {[step(slot, command) EXCEPT !.state = a, !.expected = a] :
                      command \in Commands, a \in Changed(slot)}
    IN  asked \cup bound
        \cup {[r EXCEPT !.profile_matches = v, !.binding_matches = w] :
                  r \in {step(slot, command) : command \in Commands}, v, w \in BOOLEAN}
        \cup {[step(slot, command) EXCEPT !.command = c, !.receipt = r, !.now = n] :
                  command \in Commands, c \in Commands \cup {None},
                  r \in {None, [statement |-> None, key |-> Verifier, genuine |-> FALSE]},
                  n \in {0, Deadline}}

\* AdapterResponse._validate_decision_invariants.
WellShaped(response) ==
    /\ response.kind = "invalid_input" => response.post = None
    /\ response.kind = "reject" => response.post = response.pre /\ response.pre # None
    /\ response.kind \notin Committing => response.effects = <<>> /\ ~response.receipt
    /\ response.kind \in Committing => response.post # None /\ response.receipt
    /\ (response.kind = "accept") <=> (response.code = None)

\* Whatever is asked, the answer passes the checks that AdapterResponse makes of itself: a
\* failed one raises, and the caller gets no answer (adapter_protocol.py:608-690).
AlwaysAnswers == \A request \in Requests : WellShaped(apply_data_adapter(request))

\* The two operations agree on what a valid state is: a state that validation accepts is never
\* refused as invalid by a step, and one that it refuses can do nothing
\* (market_adapter.py:746-792, 836-856).
ValidationAgrees ==
    \A a \in {s \in Changed(slot) : StateInDomain(s)} :
        \A command \in Commands, class \in TimeClasses :
            handle_validate_state(a).kind = "reject"
                <=> apply_data_adapter(Request(a, command, class)).code = "INVALID_STATE"

\* The slot stands in for the bounty: it decides alike, holds the same amounts, comes back from
\* where it is concretized, at every clock reading, and answers whatever it is asked
\* (market_adapter.py:269-856).
StandsIn ==
    /\ FollowsMarket /\ AmountsHeld /\ RoundTrip /\ EveryReadingRepresented
    /\ AlwaysAnswers /\ ValidationAgrees
=============================================================================
