----------------------------- MODULE MarketCalls -----------------------------
(***************************************************************************)
(* Callers drive one bounty through apply_market_command: any command, in  *)
(* any state, at any clock reading, with good or bad evidence.  A refused  *)
(* command changes nothing; what an accepted command returns is executed,  *)
(* its effects move the custody they name.                                 *)
(*                                                                         *)
(* The commands tried include, for every kind, ones that each check of the *)
(* handler refuses.  Command ids are taken in order, or the last one is    *)
(* used again; a verdict comes with the receipt it needs, or with one for  *)
(* another state, another outcome, another key or with a bad signature,    *)
(* and its evidence holds that receipt once, twice or not at all.          *)
(***************************************************************************)
EXTENDS MarketDecision

CONSTANTS
    Parties,        \* who may submit, challenge or be paid, besides the sponsor
    Recipes, Verifiers, Findings,
    Amounts, Times,
    MaxCommands     \* bound: how many command ids there are

\* What the constants are; the ids, parties and amounts tried let a challenge be made.
CallsParameters ==
    /\ DecisionParameters
    /\ IsFiniteSet(SubmissionIds) /\ IsFiniteSet(ChallengeIds)
    /\ Parties # {} /\ \E amount \in Amounts : amount >= MinChallengeDeposit
    /\ AcceptedRecipes \subseteq Recipes
    /\ AcceptedVerifiers \subseteq Verifiers
    /\ SlashableFindings \subseteq Findings
    /\ Amounts \cup Times \subseteq Nat
    /\ Sponsor \notin Parties /\ Treasury \notin Parties \cup {Sponsor}
    /\ MaxCommands \in Nat
    /\ None # "settlement"

VARIABLES
    bounty,         \* BountyState
    sent,           \* every effect returned so far
    custody         \* value held by the escrow that executes the effects

vars == <<bounty, sent, custody>>

-----------------------------------------------------------------------------
Ids ==
    LET used == Cardinality(bounty.processed)
    IN  {used, used + 1} \cap 1..MaxCommands

Payouts ==
    LET payout == [recipient : Parties, submission : SubmissionIds, amount : Amounts \ {0}]
    IN  {<<>>} \cup {<<p>> : p \in payout} \cup {<<p, q>> : p \in payout, q \in payout}

Unproven ==
    [id : Ids, form : {"ok", "malformed"}, kind : {"open_bounty"}, now : Times,
     sponsor : Parties \cup {Sponsor}, funded : Amounts]
    \cup [id : Ids, form : {"ok", "refused by the handler"}, kind : {"submit_candidate"},
          now : Times, submission : SubmissionIds, submitter : Parties, recipe : Recipes,
          verifier : Verifiers, evidenced : BOOLEAN, bond : Amounts]
    \cup [id : Ids, form : {"ok"}, kind : {"open_challenge"}, now : Times,
          challenge : ChallengeIds, submission : SubmissionIds, challenger : Parties,
          finding : Findings, evidenced : BOOLEAN, deposit : Amounts]
    \cup [id : Ids, form : {"ok"}, kind : {"advance_bounty"}, now : Times]
    \cup [id : Ids, form : {"ok"}, kind : {"settle_bounty"}, now : {0},
          payouts : Payouts, settlement : {"settlement"}]
    \cup [id : Ids, form : {"ok"}, kind : {"cancel_bounty"}, now : Times,
          sponsor : Parties \cup {Sponsor}]

\* Verdicts without their receipts.
Ruled ==
    [id : Ids, form : {"ok"}, kind : {"verify_submission"}, now : Times,
     submission : SubmissionIds, verifier : Verifiers, verdict : BOOLEAN]
    \cup [id : Ids, form : {"ok"}, kind : {"resolve_challenge"}, now : Times,
          challenge : ChallengeIds, verifier : Verifiers, verdict : BOOLEAN]

Receipts(ruling) ==
    LET right == [statement |-> Statement(bounty, ruling), key |-> ruling.verifier,
                  genuine |-> TRUE]
    IN  {right, [right EXCEPT !.statement.pre = initial_bounty],
         [right EXCEPT !.statement.outcome = Outcome([ruling EXCEPT !.verdict = ~@])],
         [right EXCEPT !.genuine = FALSE]}
        \cup {[right EXCEPT !.key = v] : v \in Verifiers}

Proven(ruling, receipt) ==
    [field \in DOMAIN ruling \cup {"receipt"} |->
        IF field = "receipt" THEN receipt ELSE ruling[field]]

Evidences(receipt) == {<<>>, <<receipt>>, <<receipt, receipt>>}

-----------------------------------------------------------------------------
NoCustody ==
    [escrow |-> 0, bond |-> [s \in SubmissionIds |-> 0], deposit |-> [c \in ChallengeIds |-> 0]]

\* What executing one effect does to the value it names.
Executed(held, effect) ==
    CASE effect.kind = "lock_escrow" -> [held EXCEPT !.escrow = @ + effect.amount]
      [] effect.kind \in {"refund_escrow", "payout"} -> [held EXCEPT !.escrow = @ - effect.amount]
      [] effect.kind = "lock_submission_bond" ->
             [held EXCEPT !.bond[effect.subject] = @ + effect.amount]
      [] effect.kind \in {"refund_submission_bond", "slash_submission_bond"} ->
             [held EXCEPT !.bond[effect.subject] = @ - effect.amount]
      [] effect.kind = "lock_challenge_deposit" ->
             [held EXCEPT !.deposit[effect.subject] = @ + effect.amount]
      [] effect.kind \in {"refund_challenge_deposit", "slash_challenge_deposit"} ->
             [held EXCEPT !.deposit[effect.subject] = @ - effect.amount]

Init ==
    /\ bounty = initial_bounty
    /\ sent = {}
    /\ custody = NoCustody

Commits(command, evidence) ==
    LET decision == apply_market_command(bounty, command, evidence)
    IN  /\ decision.kind \in {"accept", "committed_failure"}
        /\ bounty' = decision.next
        /\ sent' = sent \cup ToSet(decision.effects)
        /\ custody' = FoldLeft(Executed, custody, decision.effects)

Act == \E command \in Unproven : Commits(command, <<>>)

Rule ==
    \E ruling \in Ruled : \E receipt \in Receipts(ruling) : \E evidence \in Evidences(receipt) :
        Commits(Proven(ruling, receipt), evidence)

Next == Act \/ Rule

Spec == Init /\ [][Next]_vars

-----------------------------------------------------------------------------
(* Market describes the same bounty by its accepted commands only. *)

Abbreviated(receipt) ==
    IF receipt = None THEN None
    ELSE [pre |-> Cardinality(receipt.statement.pre.processed),
          subject |-> receipt.statement.subject, outcome |-> receipt.statement.outcome,
          key |-> receipt.key]

M == INSTANCE Market WITH
    phase <- bounty.phase,
    escrow <- bounty.escrow,
    submissions <- [s \in SubmissionIds |->
        LET r == bounty.submissions[s]
        IN  [status |-> r.status, verifier |-> r.verifier, at |-> r.at, bond |-> r.bond,
             receipt |-> Abbreviated(r.receipt)]],
    challenges <- [c \in ChallengeIds |->
        LET r == bounty.challenges[c]
        IN  [status |-> r.status, submission |-> r.submission, at |-> r.at,
             deposit |-> r.deposit, receipt |-> Abbreviated(r.receipt)]],
    payable <- bounty.payable,
    settled <- bounty.settlement # None,
    processed <- Cardinality(bounty.processed),
    sent <- {[kind |-> e.kind, subject |-> e.subject, amount |-> e.amount] : e \in sent}

\* The function as written, with every refusal and every check of its evidence, takes only the
\* steps that Market describes, whatever callers try: each committed command is one accepted
\* command there, in a state its verdict was signed over (core/market.py:369-900).
ImplementsMarket == M!Spec

-----------------------------------------------------------------------------
Sent(kind) == {e \in sent : e.kind = kind}

\* A stake goes back to the one who put it up, or is slashed to the treasury; the reward goes
\* to who submitted the paid candidate, or back to the sponsor (market.py:579, 678, 722, 801,
\* 834: the recipient is read from the stored state, in five different handlers).
RightParty ==
    /\ \A kind \in {"bond", "deposit"} :
           LET Lock == IF kind = "bond" THEN "lock_submission_bond" ELSE "lock_challenge_deposit"
               Refund == IF kind = "bond" THEN "refund_submission_bond"
                         ELSE "refund_challenge_deposit"
               Slash == IF kind = "bond" THEN "slash_submission_bond" ELSE "slash_challenge_deposit"
           IN  /\ \A e \in Sent(Refund) : [e EXCEPT !.kind = Lock] \in sent
               /\ \A e \in Sent(Slash) : e.recipient = Treasury
    /\ \A e \in Sent("payout") :
           \E lock \in Sent("lock_submission_bond") :
               lock.subject = e.subject /\ lock.recipient = e.recipient
    /\ \A e \in Sent("refund_escrow") : e.recipient = Sponsor

\* What a settlement paid, it paid once to each submission it names, and in all the reward
\* that was locked (market.py:775-795).
PaidExactly ==
    bounty.phase = "settled" =>
        /\ \A e, f \in Sent("payout") : e.subject = f.subject => e = f
        /\ MapThenSumSet(LAMBDA e : e.amount, Sent("payout")) =
               MapThenSumSet(LAMBDA e : e.amount, Sent("lock_escrow"))

\* The right party gets the right value, of every lot (market.py:579-834).
RightValue == RightParty /\ PaidExactly

\* A verdict that accepts a submission never comes too late to be contested: after it, a
\* challenge made at the same clock reading is accepted.  The two handlers compare the clock
\* with the same deadline on the same side (market.py:512, 596).
Contestable ==
    \A ruling \in {r \in Ruled : r.kind = "verify_submission" /\ r.verdict} :
        LET right == [statement |-> Statement(bounty, ruling), key |-> ruling.verifier,
                      genuine |-> TRUE]
            decision == apply_market_command(bounty, Proven(ruling, right), <<right>>)
            challenges ==
                [id : {0}, form : {"ok"}, kind : {"open_challenge"}, now : {ruling.now},
                 challenge : ChallengeIds, submission : {ruling.submission},
                 challenger : Parties, finding : SlashableFindings, evidenced : {TRUE},
                 deposit : Amounts \ 0..(MinChallengeDeposit - 1)]
        IN  decision.kind = "accept" /\ Filed(bounty) # ChallengeIds =>
                \E challenge \in challenges :
                    apply_market_command(decision.next, challenge, <<>>).kind = "accept"
=============================================================================
