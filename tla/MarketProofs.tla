---------------------------- MODULE MarketProofs ----------------------------
(***************************************************************************)
(* What is proved about Market for every value of its constants: first     *)
(* types, validity, conservation and the refinement of Escrow, then the    *)
(* verdicts: signed statements are used once and in order, and stakes and  *)
(* prizes go where they say.  The rest is about MarketCalls, the function  *)
(* of the code under every call: no acceptance comes too late to be        *)
(* contested, the right party gets the right value, and, effect by effect  *)
(* and handler by handler, it takes only the steps that Market describes.  *)
(***************************************************************************)
EXTENDS Bounties, Sequences, FiniteSetTheorems, NaturalsInduction, WellFoundedInduction, TLAPS

-----------------------------------------------------------------------------
\* The initial state is well typed.
LEMMA TypeInit == Init => TypeOK
<1> SUFFICES ASSUME Init PROVE TypeOK
  OBVIOUS
<1>1. NoSubmission \in SubmissionRecords
  BY DEF NoSubmission, SubmissionRecords
<1>2. NoChallenge \in ChallengeRecords
  BY DEF NoChallenge, ChallengeRecords
<1>3. /\ submissions \in [SubmissionIds -> SubmissionRecords]
      /\ challenges \in [ChallengeIds -> ChallengeRecords]
  BY <1>1, <1>2 DEF Init
<1>4. custody \in [escrow : Int, bond : [SubmissionIds -> Int], deposit : [ChallengeIds -> Int]]
  BY DEF Init
<1> QED
  BY <1>3, <1>4 DEF Init, TypeOK, Phases

\* Receipts over the states reached so far are statements.
LEMMA SignedAreStatements ==
    ASSUME TypeOK, NEW Subject
    PROVE  SignedOver(Subject) \subseteq Statements(Subject)
  BY DEF TypeOK, SignedOver, Statements

\* Clearing bonds and timing out challenges keeps every record well formed.
LEMMA ClearedTyped ==
    ASSUME TypeOK
    PROVE  /\ BondsReturned \in [SubmissionIds -> SubmissionRecords]
           /\ TimedOut \in [ChallengeIds -> ChallengeRecords]
           /\ BondsAfterRefund \in [SubmissionIds -> Int]
           /\ DepositsAfterTimeout \in [ChallengeIds -> Int]
<1>1. \A s \in SubmissionIds : submissions[s] \in SubmissionRecords
  BY DEF TypeOK
<1>2. \A c \in ChallengeIds : challenges[c] \in ChallengeRecords
  BY DEF TypeOK
<1>3. BondsReturned \in [SubmissionIds -> SubmissionRecords]
  BY <1>1 DEF BondsReturned, SubmissionRecords
<1>4. TimedOut \in [ChallengeIds -> ChallengeRecords]
  BY <1>2 DEF TimedOut, ChallengeRecords
<1>5. BondsAfterRefund \in [SubmissionIds -> Int]
  BY <1>1 DEF TypeOK, BondsAfterRefund, SubmissionRecords
<1>6. DepositsAfterTimeout \in [ChallengeIds -> Int]
  BY <1>2 DEF TypeOK, DepositsAfterTimeout, ChallengeRecords
<1> QED BY <1>3, <1>4, <1>5, <1>6

EffectsOK(effects) ==
    effects \subseteq [kind : EffectKinds,
                       subject : {Bounty} \cup SubmissionIds \cup ChallengeIds,
                       amount : Nat]

\* So is the one effect most commands return.
LEMMA EffectTyped ==
    ASSUME NEW kind \in EffectKinds, NEW amount \in Nat,
           NEW subject \in {Bounty} \cup SubmissionIds \cup ChallengeIds
    PROVE  EffectsOK({Effect(kind, subject, amount)})
  BY DEF EffectsOK, Effect

CustodyType ==
    [escrow : Int, bond : [SubmissionIds -> Int], deposit : [ChallengeIds -> Int]]

\* Bulk refunds and slashes are effects.
LEMMA BulkEffectsTyped ==
    ASSUME TypeOK
    PROVE  EffectsOK(TimeoutEffects) /\ EffectsOK(BondRefunds)
<1>1. \A s \in SubmissionIds : submissions[s].bond \in Nat
  BY DEF TypeOK, SubmissionRecords
<1>2. \A c \in ChallengeIds : challenges[c].deposit \in Nat
  BY DEF TypeOK, ChallengeRecords
<1> QED
  BY <1>1, <1>2 DEF EffectsOK, EffectKinds, TimeoutEffects, BondRefunds,
     OpenChallenges, Effect

\* Committing well-formed effects keeps the history and the count well typed.
LEMMA CommitTyped ==
    ASSUME TypeOK, NEW effects, EffectsOK(effects), Commit(effects)
    PROVE  /\ processed' \in Nat
           /\ EffectsOK(sent')
  BY DEF TypeOK, Commit, EffectsOK

\* Every command keeps every variable in its type.
LEMMA TypeStep == TypeOK /\ [Next]_vars => TypeOK'
<1> SUFFICES ASSUME TypeOK, [Next]_vars PROVE TypeOK'
  OBVIOUS
<1> USE MarketAssumption
<1>1. CASE \E funded \in Amounts, now \in Times : OpenBounty(funded, now)
  <2>1. PICK funded \in Amounts, now \in Times : OpenBounty(funded, now)
    BY <1>1
  <2>2. EffectsOK({Effect("lock_escrow", Bounty, funded)})
    BY DEF EffectsOK, EffectKinds, Effect
  <2>3. processed' \in Nat /\ EffectsOK(sent')
    BY <2>1, <2>2, CommitTyped DEF OpenBounty
  <2> QED
    BY <2>1, <2>3 DEF OpenBounty, TypeOK, Phases, EffectsOK
<1>2. CASE Submit
  <2>1. PICK s \in SubmissionIds, v \in Verifiers, bond \in Amounts, now \in Times :
            SubmitCandidate(s, v, bond, now)
    BY <1>2 DEF Submit
  <2>2. EffectsOK({Effect("lock_submission_bond", s, bond)})
    BY EffectTyped DEF EffectKinds
  <2>3. processed' \in Nat /\ EffectsOK(sent')
    BY <2>1, <2>2, CommitTyped DEF SubmitCandidate
  <2>4. submissions' \in [SubmissionIds -> SubmissionRecords]
    BY <2>1 DEF SubmitCandidate, TypeOK, SubmissionRecords
  <2> QED
    BY <2>1, <2>3, <2>4 DEF SubmitCandidate, TypeOK, EffectsOK
<1>3. ASSUME NEW s \in SubmissionIds, NEW r \in SignedOver(SubmissionIds),
             NEW now \in Times,
             VerifyAccepted(s, r, now)
      PROVE  TypeOK'
  <2>1. processed' \in Nat /\ EffectsOK(sent')
    BY <1>3, CommitTyped DEF VerifyAccepted, EffectsOK
  <2>2. r \in Statements(SubmissionIds)
    BY SignedAreStatements
  <2>3. submissions' \in [SubmissionIds -> SubmissionRecords]
    <3>1. submissions[s] \in SubmissionRecords
      BY DEF TypeOK
    <3> QED BY <1>3, <2>2, <3>1 DEF VerifyAccepted, TypeOK, SubmissionRecords
  <2> QED
    BY <1>3, <2>1, <2>3 DEF VerifyAccepted, TypeOK, EffectsOK
<1>4. ASSUME NEW s \in SubmissionIds, NEW r \in SignedOver(SubmissionIds),
             NEW now \in Times,
             VerifyRejected(s, r, now)
      PROVE  TypeOK'
  <2>1. EffectsOK({Effect("refund_submission_bond", s, submissions[s].bond)})
    BY DEF EffectsOK, EffectKinds, Effect, TypeOK, SubmissionRecords
  <2>2. processed' \in Nat /\ EffectsOK(sent')
    BY <1>4, <2>1, CommitTyped DEF VerifyRejected
  <2>3. r \in Statements(SubmissionIds)
    BY SignedAreStatements
  <2>4. submissions' \in [SubmissionIds -> SubmissionRecords]
    <3>1. submissions[s] \in SubmissionRecords
      BY DEF TypeOK
    <3> QED BY <1>4, <2>3, <3>1 DEF VerifyRejected, TypeOK, SubmissionRecords
  <2>5. submissions[s].bond \in Nat
    BY DEF TypeOK, SubmissionRecords
  <2>6. custody' \in CustodyType
    BY <1>4, <2>5 DEF CustodyType, VerifyRejected, TypeOK
  <2> QED
    BY <1>4, <2>2, <2>4, <2>6 DEF CustodyType, VerifyRejected, TypeOK, EffectsOK
<1>5. ASSUME NEW c \in ChallengeIds, NEW s \in SubmissionIds,
             NEW deposit \in Amounts,
             NEW now \in Times, OpenChallenge(c, s, deposit, now)
      PROVE  TypeOK'
  <2>1. EffectsOK({Effect("lock_challenge_deposit", c, deposit)})
    BY EffectTyped DEF EffectKinds
  <2>2. processed' \in Nat /\ EffectsOK(sent')
    BY <1>5, <2>1, CommitTyped DEF OpenChallenge
  <2>3. challenges' \in [ChallengeIds -> ChallengeRecords]
    BY <1>5 DEF OpenChallenge, TypeOK, ChallengeRecords
  <2>4. custody' \in CustodyType
    BY <1>5 DEF CustodyType, OpenChallenge, TypeOK
  <2> QED
    BY <1>5, <2>2, <2>3, <2>4 DEF CustodyType, OpenChallenge, TypeOK, EffectsOK
<1>6. ASSUME NEW c \in ChallengeIds, NEW r \in SignedOver(ChallengeIds),
             NEW now \in Times,
             ResolveUpheld(c, r, now)
      PROVE  TypeOK'
  <2> DEFINE s == challenges[c].submission
  <2>1. challenges[c] \in ChallengeRecords
    BY DEF TypeOK
  <2>2. s \in SubmissionIds
    BY <1>6, <2>1 DEF ResolveUpheld, CanResolve, Commit, ValidState,
       ReferencesValid, Filed
  <2>3. submissions[s] \in SubmissionRecords
    BY <2>2 DEF TypeOK
  <2>4. EffectsOK({Effect("refund_challenge_deposit", c, challenges[c].deposit),
                   Effect("slash_submission_bond", s, submissions[s].bond)})
    BY <2>1, <2>2, <2>3 DEF EffectsOK, EffectKinds, Effect, ChallengeRecords,
       SubmissionRecords
  <2>5. processed' \in Nat /\ EffectsOK(sent')
    BY <1>6, <2>4, CommitTyped DEF ResolveUpheld
  <2>6. r \in Statements(ChallengeIds)
    BY SignedAreStatements
  <2>7. challenges' \in [ChallengeIds -> ChallengeRecords]
    BY <1>6, <2>1, <2>6 DEF ResolveUpheld, TypeOK, ChallengeRecords
  <2>8. submissions' \in [SubmissionIds -> SubmissionRecords]
    BY <1>6, <2>2, <2>3 DEF ResolveUpheld, TypeOK, SubmissionRecords
  <2>9. challenges[c].deposit \in Nat /\ submissions[s].bond \in Nat
    BY <2>1, <2>3 DEF ChallengeRecords, SubmissionRecords
  <2>10. custody' \in CustodyType
    <3>1. custody \in CustodyType
      BY DEF TypeOK, CustodyType
    <3>2. custody' = [custody EXCEPT !.deposit[c] = @ - challenges[c].deposit,
                                     !.bond[s] = @ - submissions[s].bond]
      BY <1>6 DEF ResolveUpheld
    <3>3. /\ custody.deposit[c] - challenges[c].deposit \in Int
          /\ custody.bond[s] - submissions[s].bond \in Int
      BY <2>2, <2>9, <3>1 DEF CustodyType
    <3> QED BY <2>2, <3>1, <3>2, <3>3 DEF CustodyType
  <2> QED
    BY <1>6, <2>5, <2>7, <2>8, <2>10 DEF CustodyType, ResolveUpheld, TypeOK,
       EffectsOK
<1>7. ASSUME NEW c \in ChallengeIds, NEW r \in SignedOver(ChallengeIds),
             NEW now \in Times,
             ResolveRejected(c, r, now)
      PROVE  TypeOK'
  <2>1. challenges[c] \in ChallengeRecords
    BY DEF TypeOK
  <2>2. EffectsOK({Effect("slash_challenge_deposit", c, challenges[c].deposit)})
    BY <2>1 DEF EffectsOK, EffectKinds, Effect, ChallengeRecords
  <2>3. processed' \in Nat /\ EffectsOK(sent')
    BY <1>7, <2>2, CommitTyped DEF ResolveRejected
  <2>4. r \in Statements(ChallengeIds)
    BY SignedAreStatements
  <2>5. challenges' \in [ChallengeIds -> ChallengeRecords]
    BY <1>7, <2>1, <2>4 DEF ResolveRejected, TypeOK, ChallengeRecords
  <2>6. challenges[c].deposit \in Nat
    BY <2>1 DEF ChallengeRecords
  <2>7. custody' \in CustodyType
    BY <1>7, <2>6 DEF CustodyType, ResolveRejected, TypeOK
  <2> QED
    BY <1>7, <2>3, <2>5, <2>7 DEF CustodyType, ResolveRejected, TypeOK, EffectsOK
<1>8. ASSUME NEW now \in Times, AdvancePayable(now)
      PROVE  TypeOK'
  <2>1. processed' \in Nat /\ EffectsOK(sent')
    BY <1>8, BulkEffectsTyped, CommitTyped DEF AdvancePayable
  <2>2. custody' \in CustodyType
    BY <1>8, ClearedTyped DEF CustodyType, AdvancePayable, TypeOK
  <2> QED
    BY <1>8, <2>1, <2>2, ClearedTyped DEF CustodyType, AdvancePayable, TypeOK,
       Phases, Verified, EffectsOK
<1>9. ASSUME NEW now \in Times, AdvanceExpired(now)
      PROVE  TypeOK'
  <2>1. EffectsOK(TimeoutEffects \cup {Effect("refund_escrow", Bounty, escrow)} \cup BondRefunds)
    BY BulkEffectsTyped DEF EffectsOK, EffectKinds, Effect, TypeOK
  <2>2. processed' \in Nat /\ EffectsOK(sent')
    BY <1>9, <2>1, CommitTyped DEF AdvanceExpired
  <2>3. custody' \in CustodyType
    BY <1>9, ClearedTyped DEF CustodyType, AdvanceExpired, TypeOK
  <2> QED
    BY <1>9, <2>2, <2>3, ClearedTyped DEF CustodyType, AdvanceExpired, TypeOK,
       Phases, EffectsOK
<1>10. ASSUME NEW S \in SUBSET payable, NEW payouts \in [S -> Amounts],
              SettleBounty(payouts)
       PROVE  TypeOK'
  <2>1. /\ \A s \in DOMAIN payouts : s \in SubmissionIds /\ payouts[s] \in Nat
        /\ Total(payouts) \in Nat
    BY <1>10 DEF TypeOK, SettleBounty, CanSettle
  <2>2. EffectsOK({Effect("payout", s, payouts[s]) : s \in DOMAIN payouts} \cup BondRefunds)
    BY <2>1, BulkEffectsTyped DEF EffectsOK, EffectKinds, Effect
  <2>3. processed' \in Nat /\ EffectsOK(sent')
    BY <1>10, <2>2, CommitTyped DEF SettleBounty
  <2>4. custody' \in CustodyType
    <3>1. custody \in CustodyType
      BY DEF TypeOK, CustodyType
    <3>2. custody' = [custody EXCEPT !.escrow = @ - Total(payouts), !.bond = BondsAfterRefund]
      BY <1>10 DEF SettleBounty
    <3>3. custody.escrow - Total(payouts) \in Int
      BY <2>1, <3>1 DEF CustodyType
    <3>4. BondsAfterRefund \in [SubmissionIds -> Int]
      BY ClearedTyped
    <3> QED BY <3>1, <3>2, <3>3, <3>4 DEF CustodyType
  <2> QED
    BY <1>10, <2>3, <2>4, ClearedTyped DEF CustodyType, SettleBounty, TypeOK,
       Phases, EffectsOK
<1>11. ASSUME NEW now \in Times, CancelBounty(now)
       PROVE  TypeOK'
  <2>1. EffectsOK({Effect("refund_escrow", Bounty, escrow)})
    BY DEF EffectsOK, EffectKinds, Effect, TypeOK
  <2>2. processed' \in Nat /\ EffectsOK(sent')
    BY <1>11, <2>1, CommitTyped DEF CancelBounty
  <2> QED
    BY <1>11, <2>2 DEF CancelBounty, TypeOK, Phases, EffectsOK
<1>12. CASE UNCHANGED vars
  BY <1>12 DEF vars, TypeOK
<1> QED
  BY <1>1, <1>2, <1>3, <1>4, <1>5, <1>6, <1>7, <1>8, <1>9, <1>10, <1>11, <1>12
     DEF Next, Verify, Challenge, Resolve, Advance, Settle

\* Every reachable state of every bounty is well typed.
THEOREM TypeCorrect == Spec => []TypeOK
  BY TypeInit, TypeStep, PTL DEF Spec
-----------------------------------------------------------------------------
\* What timing out does to each challenge.
LEMMA TimedOutPointwise ==
    ASSUME TypeOK, NEW c \in ChallengeIds
    PROVE  /\ TimedOut[c].submission = challenges[c].submission
           /\ TimedOut[c].status = IF challenges[c].status = "open" THEN "rejected"
                                                                 ELSE challenges[c].status
           /\ TimedOut[c].deposit = IF challenges[c].status = "open" THEN 0
                                                                  ELSE challenges[c].deposit
  BY DEF TypeOK, ChallengeRecords, TimedOut, OpenChallenges

\* What closing does to each submission.
LEMMA BondsReturnedPointwise ==
    ASSUME TypeOK, NEW s \in SubmissionIds
    PROVE  BondsReturned[s].status = submissions[s].status /\ BondsReturned[s].bond = 0
  BY DEF TypeOK, SubmissionRecords, BondsReturned

\* A state market_state_violations accepts stays acceptable, provided the policy
\* demands a deposit: with a zero minimum OpenChallenge breaks ChallengesValid.
LEMMA ValidStep ==
    ASSUME MinChallengeDeposit > 0, TypeOK, ValidState, [Next]_vars
    PROVE  ValidState'
<1> USE MarketAssumption
<1>0. /\ submissions \in [SubmissionIds -> SubmissionRecords]
      /\ challenges \in [ChallengeIds -> ChallengeRecords]
      /\ phase \in Phases
      /\ payable \subseteq SubmissionIds
  BY DEF TypeOK
<1> USE DEF ValidState, ReferencesValid, PayableValid, ChallengesValid, PhaseValid, TerminalValid,
            Filed, Present, Verified, OpenChallenges
<1>1. ASSUME NEW funded \in Amounts, NEW now \in Times, OpenBounty(funded, now)
      PROVE  ValidState'
  BY <1>1 DEF OpenBounty, CanOpen, RequiredFunding, Larger, NoActivity, Phases,
     Terminal, TypeOK
<1>2. ASSUME NEW s \in SubmissionIds, NEW v \in Verifiers, NEW bond \in Amounts,
             NEW now \in Times,
             SubmitCandidate(s, v, bond, now)
      PROVE  ValidState'
  BY <1>0, <1>2 DEF SubmitCandidate, CanSubmit, Terminal
<1>3. ASSUME NEW s \in SubmissionIds, NEW r \in SignedOver(SubmissionIds),
             NEW now \in Times,
             VerifyAccepted(s, r, now)
      PROVE  ValidState'
  BY <1>0, <1>3 DEF VerifyAccepted, CanVerify, SubmissionRecords, Terminal
<1>4. ASSUME NEW s \in SubmissionIds, NEW r \in SignedOver(SubmissionIds),
             NEW now \in Times,
             VerifyRejected(s, r, now)
      PROVE  ValidState'
  BY <1>0, <1>4 DEF VerifyRejected, CanVerify, SubmissionRecords, Terminal
<1>5. ASSUME NEW c \in ChallengeIds, NEW s \in SubmissionIds,
             NEW deposit \in Amounts,
             NEW now \in Times, OpenChallenge(c, s, deposit, now)
      PROVE  ValidState'
  <2>1. ReferencesValid' /\ PayableValid' /\ PhaseValid' /\ TerminalValid'
    BY <1>0, <1>5 DEF OpenChallenge, CanChallenge, ChallengeRecords, Terminal
  <2>2. deposit > 0
    BY <1>5 DEF OpenChallenge, CanChallenge
  <2>3. ChallengesValid'
    BY <1>0, <1>5, <2>2 DEF OpenChallenge, CanChallenge, ChallengeRecords
  <2> QED BY <2>1, <2>3
<1>6. ASSUME NEW c \in ChallengeIds, NEW r \in SignedOver(ChallengeIds),
             NEW now \in Times,
             ResolveUpheld(c, r, now)
      PROVE  ValidState'
  <2>1. payable = {} /\ phase' = "open" /\ phase = "open" /\ challenges[c].status = "open"
    BY <1>6 DEF ResolveUpheld, CanResolve
  <2>5. PICK s \in SubmissionIds :
            /\ s = challenges[c].submission /\ submissions[s].status # "none"
            /\ submissions' = [submissions EXCEPT ![s].status = "rejected", ![s].bond = 0]
    BY <1>6 DEF ResolveUpheld, CanResolve
  <2>6. \A t \in SubmissionIds :
            /\ submissions'[t].status = IF t = s THEN "rejected" ELSE submissions[t].status
            /\ submissions'[t].bond = IF t = s THEN 0 ELSE submissions[t].bond
    BY <1>0, <2>5 DEF SubmissionRecords
  <2>7. challenges' = [challenges EXCEPT ![c].status = "upheld", ![c].deposit = 0,
                                         ![c].receipt = r]
    BY <1>6 DEF ResolveUpheld
  <2>8. \A d \in ChallengeIds :
            /\ challenges'[d].status = IF d = c THEN "upheld" ELSE challenges[d].status
            /\ challenges'[d].deposit = IF d = c THEN 0 ELSE challenges[d].deposit
            /\ challenges'[d].submission = challenges[d].submission
    BY <1>0, <2>7 DEF ChallengeRecords
  <2>9. ReferencesValid /\ ChallengesValid
    BY <1>6 DEF ResolveUpheld, Commit
  <2>10. \A d \in ChallengeIds :
            /\ challenges'[d].status = "open" <=> d # c /\ challenges[d].status = "open"
            /\ challenges'[d].status # "none" => challenges[d].status # "none"
    BY <2>1, <2>8
  <2>2. ReferencesValid'
    BY <2>6, <2>8, <2>9, <2>10
  <2>4. ChallengesValid'
    BY <2>1, <2>6, <2>8, <2>9, <2>10
  <2>3. PayableValid' /\ PhaseValid' /\ TerminalValid'
    BY <1>6, <2>1 DEF ResolveUpheld, Terminal
  <2> QED BY <2>2, <2>3, <2>4
<1>7. ASSUME NEW c \in ChallengeIds, NEW r \in SignedOver(ChallengeIds),
             NEW now \in Times,
             ResolveRejected(c, r, now)
      PROVE  ValidState'
  BY <1>0, <1>7 DEF ResolveRejected, CanResolve, ChallengeRecords, Terminal
<1>8. ASSUME NEW now \in Times, AdvancePayable(now)
      PROVE  ValidState'
  <2>1. OpenChallenges' = {} /\ \A c \in ChallengeIds : challenges'[c].deposit = 0
    BY <1>8, TimedOutPointwise DEF AdvancePayable
  <2>2. ReferencesValid' /\ ChallengesValid'
    BY <1>0, <1>8, <2>1, TimedOutPointwise DEF AdvancePayable
  <2>3. PayableValid' /\ PhaseValid' /\ TerminalValid'
    BY <1>8 DEF AdvancePayable, CanAdvance, Terminal
  <2> QED BY <2>2, <2>3
<1>9. ASSUME NEW now \in Times, AdvanceExpired(now)
      PROVE  ValidState'
  <2>1. OpenChallenges' = {} /\ \A c \in ChallengeIds : challenges'[c].deposit = 0
    BY <1>9, TimedOutPointwise DEF AdvanceExpired
  <2>2. \A s \in SubmissionIds :
            submissions'[s].status = submissions[s].status /\ submissions'[s].bond = 0
    BY <1>9, BondsReturnedPointwise DEF AdvanceExpired
  <2>3. ReferencesValid' /\ ChallengesValid'
    BY <1>0, <1>9, <2>1, <2>2, TimedOutPointwise DEF AdvanceExpired
  <2>4. PayableValid' /\ PhaseValid' /\ TerminalValid'
    BY <1>9, <2>2 DEF AdvanceExpired, CanAdvance, Terminal
  <2> QED BY <2>3, <2>4
<1>10. ASSUME NEW S \in SUBSET payable, NEW payouts \in [S -> Amounts],
              SettleBounty(payouts)
      PROVE  ValidState'
  BY <1>0, <1>10, BondsReturnedPointwise DEF SettleBounty, CanSettle, Terminal,
     NoActivity, TypeOK
<1>11. ASSUME NEW now \in Times, CancelBounty(now)
      PROVE  ValidState'
  BY <1>11 DEF CancelBounty, CanCancel, Terminal, NoActivity, TypeOK
<1>12. CASE UNCHANGED vars
  BY <1>12 DEF vars, NoActivity
<1> QED
  BY <1>1, <1>2, <1>3, <1>4, <1>5, <1>6, <1>7, <1>8, <1>9, <1>10, <1>11, <1>12
     DEF Next, Submit, Verify, Challenge, Resolve, Advance, Settle

\* Under a policy with a positive minimum deposit no command sequence makes
\* the code refuse every later command as INVALID_STATE.
THEOREM NeverInvalid == MinChallengeDeposit > 0 /\ Spec => []ValidState
<1> SUFFICES ASSUME MinChallengeDeposit > 0 PROVE Spec => []ValidState
  OBVIOUS
<1>1. Init => ValidState
  BY DEF Init, ValidState, ReferencesValid, PayableValid, ChallengesValid,
     PhaseValid,
         TerminalValid, Filed, Present, Verified, OpenChallenges, NoActivity,
         Terminal,
         NoSubmission, NoChallenge
<1>2. TypeOK /\ ValidState /\ [Next]_vars => ValidState'
  BY ValidStep
<1> QED
  BY <1>1, <1>2, TypeCorrect, PTL DEF Spec
-----------------------------------------------------------------------------
\* What the bulk updates take out of custody, when custody agrees with the state.
LEMMA BulkCustody ==
    ASSUME TypeOK, Conservation
    PROVE  /\ \A s \in SubmissionIds : BondsAfterRefund[s] = 0
           /\ ChallengesValid => \A c \in ChallengeIds : DepositsAfterTimeout[c] = 0
<1>1. /\ \A s \in SubmissionIds : submissions[s].bond \in Nat
      /\ \A c \in ChallengeIds : challenges[c].deposit \in Nat
  BY DEF TypeOK, SubmissionRecords, ChallengeRecords
<1>2. \A s \in SubmissionIds : BondsAfterRefund[s] = 0
  BY <1>1 DEF BondsAfterRefund, Conservation
<1>3. ChallengesValid => \A c \in ChallengeIds : DepositsAfterTimeout[c] = 0
  BY <1>1 DEF DepositsAfterTimeout, Conservation, ChallengesValid, OpenChallenges
<1> QED BY <1>2, <1>3

\* Every handler returns the effects that move what it writes into the state.
LEMMA ConservationStep ==
    ASSUME TypeOK, Conservation, [Next]_vars
    PROVE  Conservation'
<1> USE MarketAssumption DEF Conservation, Present
<1>0. /\ submissions \in [SubmissionIds -> SubmissionRecords]
      /\ challenges \in [ChallengeIds -> ChallengeRecords]
      /\ custody \in CustodyType
      /\ escrow \in Nat
  BY DEF TypeOK, CustodyType
<1>1. ASSUME NEW funded \in Amounts, NEW now \in Times, OpenBounty(funded, now)
      PROVE  Conservation'
  BY <1>0, <1>1 DEF OpenBounty, CanOpen, CustodyType, Commit, ValidState, PhaseValid
<1>2. ASSUME NEW s \in SubmissionIds, NEW v \in Verifiers, NEW bond \in Amounts,
             NEW now \in Times,
             SubmitCandidate(s, v, bond, now)
      PROVE  Conservation'
  BY <1>0, <1>2 DEF SubmitCandidate, CanSubmit, CustodyType, SubmissionRecords
<1>3. ASSUME NEW s \in SubmissionIds, NEW r \in SignedOver(SubmissionIds),
             NEW now \in Times,
             VerifyAccepted(s, r, now)
      PROVE  Conservation'
  BY <1>0, <1>3 DEF VerifyAccepted, CanVerify, SubmissionRecords
<1>4. ASSUME NEW s \in SubmissionIds, NEW r \in SignedOver(SubmissionIds),
             NEW now \in Times,
             VerifyRejected(s, r, now)
      PROVE  Conservation'
  BY <1>0, <1>4 DEF VerifyRejected, CanVerify, CustodyType, SubmissionRecords
<1>5. ASSUME NEW c \in ChallengeIds, NEW s \in SubmissionIds,
             NEW deposit \in Amounts,
             NEW now \in Times, OpenChallenge(c, s, deposit, now)
      PROVE  Conservation'
  BY <1>0, <1>5 DEF OpenChallenge, CanChallenge, CustodyType, ChallengeRecords,
     Commit, ValidState, ChallengesValid, OpenChallenges, Filed
<1>6. ASSUME NEW c \in ChallengeIds, NEW r \in SignedOver(ChallengeIds),
             NEW now \in Times,
             ResolveUpheld(c, r, now)
      PROVE  Conservation'
  <2>1. PICK s \in SubmissionIds :
            /\ s = challenges[c].submission /\ Present(s)
            /\ submissions' = [submissions EXCEPT ![s].status = "rejected", ![s].bond = 0]
            /\ custody' = [custody EXCEPT !.deposit[c] = @ - challenges[c].deposit,
                                          !.bond[s] = @ - submissions[s].bond]
    BY <1>6 DEF ResolveUpheld, CanResolve, Commit, ValidState, ReferencesValid, Filed
  <2>2. /\ escrow' = escrow
        /\ challenges' = [challenges EXCEPT ![c].status = "upheld", ![c].deposit = 0,
                                            ![c].receipt = r]
    BY <1>6 DEF ResolveUpheld
  <2>3. \A t \in SubmissionIds :
            /\ submissions'[t].status = IF t = s THEN "rejected" ELSE submissions[t].status
            /\ submissions'[t].bond = IF t = s THEN 0 ELSE submissions[t].bond
            /\ submissions[t].bond \in Nat
    BY <1>0, <2>1 DEF SubmissionRecords
  <2>4. \A d \in ChallengeIds :
            /\ challenges'[d].deposit = IF d = c THEN 0 ELSE challenges[d].deposit
            /\ challenges[d].deposit \in Nat
    BY <1>0, <2>2 DEF ChallengeRecords
  <2>5. /\ custody'.escrow = custody.escrow
        /\ \A t \in SubmissionIds : custody'.bond[t] =
               IF t = s THEN custody.bond[t] - submissions[t].bond ELSE custody.bond[t]
        /\ \A d \in ChallengeIds : custody'.deposit[d] =
               IF d = c THEN custody.deposit[d] - challenges[d].deposit ELSE custody.deposit[d]
    BY <1>0, <2>1 DEF CustodyType
  <2>6. \A t \in SubmissionIds : custody'.bond[t] = submissions'[t].bond
    BY <2>3, <2>5, SMTT(30)
  <2>7. \A t \in SubmissionIds : ~Present(t)' => custody'.bond[t] = 0
    BY <2>1, <2>3, <2>5
  <2>8. \A d \in ChallengeIds : custody'.deposit[d] = challenges'[d].deposit
    BY <2>4, <2>5
  <2> QED
    BY <2>2, <2>5, <2>6, <2>7, <2>8
<1>7. ASSUME NEW c \in ChallengeIds, NEW r \in SignedOver(ChallengeIds),
             NEW now \in Times,
             ResolveRejected(c, r, now)
      PROVE  Conservation'
  BY <1>0, <1>7 DEF ResolveRejected, CanResolve, CustodyType, ChallengeRecords
<1>8. ASSUME NEW now \in Times, AdvancePayable(now)
      PROVE  Conservation'
  BY <1>0, <1>8, BulkCustody, TimedOutPointwise DEF AdvancePayable, CustodyType,
     Commit, ValidState, ChallengesValid, OpenChallenges
<1>9. ASSUME NEW now \in Times, AdvanceExpired(now)
      PROVE  Conservation'
  BY <1>0, <1>9, BulkCustody, TimedOutPointwise,
     BondsReturnedPointwise DEF AdvanceExpired, CustodyType, Commit, ValidState,
     ChallengesValid, OpenChallenges
<1>10. ASSUME NEW S \in SUBSET payable, NEW payouts \in [S -> Amounts],
              SettleBounty(payouts)
      PROVE  Conservation'
  BY <1>0, <1>10, BulkCustody, BondsReturnedPointwise DEF SettleBounty,
     CanSettle, CustodyType
<1>11. ASSUME NEW now \in Times, CancelBounty(now)
      PROVE  Conservation'
  BY <1>0, <1>11 DEF CancelBounty, CanCancel, CustodyType
<1>12. CASE UNCHANGED vars
  BY <1>12 DEF vars
<1> QED
  BY <1>1, <1>2, <1>3, <1>4, <1>5, <1>6, <1>7, <1>8, <1>9, <1>10, <1>11, <1>12
     DEF Next, Submit, Verify, Challenge, Resolve, Advance, Settle

\* Executing the effects of any history leaves exactly the value its state says.
THEOREM Conserved == Spec => []Conservation
<1>1. Init => Conservation
  BY DEF Init, Conservation, NoSubmission, NoChallenge
<1>2. TypeOK /\ Conservation /\ [Next]_vars => Conservation'
  BY ConservationStep
<1> QED
  BY <1>1, <1>2, TypeCorrect, PTL DEF Spec
-----------------------------------------------------------------------------
\* The three kinds of lot, what each holds and when it counts as locked.
LEMMA LotKinds ==
    /\ Prize \in Lots
    /\ \A s \in SubmissionIds : <<"bond", s>> \in Lots
    /\ \A c \in ChallengeIds : <<"deposit", c>> \in Lots
    /\ \A l \in Lots : \/ l = Prize
                       \/ \E s \in SubmissionIds : l = <<"bond", s>>
                       \/ \E c \in ChallengeIds : l = <<"deposit", c>>
    /\ \A s \in SubmissionIds : Prize # <<"bond", s>>
    /\ \A c \in ChallengeIds : Prize # <<"deposit", c>>
    /\ \A s \in SubmissionIds, c \in ChallengeIds : <<"bond", s>> # <<"deposit", c>>
    /\ \A s, t \in SubmissionIds : <<"bond", s>> = <<"bond", t>> => s = t
    /\ \A c, d \in ChallengeIds : <<"deposit", c>> = <<"deposit", d>> => c = d
  BY DEF Lots, Prize

HeldFacts ==
    /\ Held = [l \in Lots |-> Held[l]]
    /\ Held[Prize] = custody.escrow
    /\ \A s \in SubmissionIds : Held[<<"bond", s>>] = custody.bond[s]
    /\ \A c \in ChallengeIds : Held[<<"deposit", c>>] = custody.deposit[c]

LEMMA HeldAt == HeldFacts
  BY LotKinds DEF HeldFacts, Held, Prize

LockedFacts ==
    /\ Locked \subseteq Lots
    /\ Prize \in Locked <=> phase # "draft"
    /\ \A s \in SubmissionIds : <<"bond", s>> \in Locked <=> Present(s)
    /\ \A c \in ChallengeIds : <<"deposit", c>> \in Locked <=> Filed(c)

LEMMA LockedAt == LockedFacts
  BY LotKinds DEF LockedFacts, Locked, Prize

LEMMA LotFacts == HeldFacts /\ HeldFacts' /\ LockedFacts /\ LockedFacts'
  BY HeldAt, LockedAt, PTL

\* Market starts where Escrow starts.
LEMMA EscrowInit == Init => Abstract!EInit
<1> SUFFICES ASSUME Init PROVE Abstract!EInit
  OBVIOUS
<1>1. /\ \A s \in SubmissionIds : custody.bond[s] = 0 /\ ~Present(s)
      /\ \A c \in ChallengeIds : custody.deposit[c] = 0 /\ ~Filed(c)
      /\ custody.escrow = 0 /\ phase = "draft"
  BY DEF Init, Present, Filed, NoSubmission, NoChallenge
<1>2. \A l \in Lots : Held[l] = 0 /\ l \notin Locked
  BY <1>1, LotKinds, HeldAt, LockedAt DEF HeldFacts, LockedFacts
<1> QED
  BY <1>1, <1>2, HeldAt, LockedAt DEF Abstract!EInit, HeldFacts, LockedFacts,
     Terminal

\* A custody change that only empties bonds and deposits in use is a release.
LEMMA ReleaseRefines ==
    ASSUME NEW S \in SUBSET SubmissionIds, NEW D \in SUBSET ChallengeIds,
           \A s \in S : Present(s), \A c \in D : Filed(c),
           phase \notin Terminal, phase' \notin Terminal, Locked' = Locked,
           custody'.escrow = custody.escrow,
           \A s \in SubmissionIds :
               custody'.bond[s] = IF s \in S THEN 0 ELSE custody.bond[s],
           \A c \in ChallengeIds :
               custody'.deposit[c] = IF c \in D THEN 0 ELSE custody.deposit[c]
    PROVE  Abstract!ENext
<1> DEFINE R == {<<"bond", s>> : s \in S} \cup {<<"deposit", c>> : c \in D}
<1>1. R \subseteq Locked \ {Prize}
  <2>1. \A s \in S : <<"bond", s>> \in Locked \ {Prize}
    BY LotKinds, LotFacts DEF LockedFacts
  <2>2. \A c \in D : <<"deposit", c>> \in Locked \ {Prize}
    BY LotKinds, LotFacts DEF LockedFacts
  <2> QED BY <2>1, <2>2
<1>2. /\ Prize \notin R
      /\ \A s \in SubmissionIds : <<"bond", s>> \in R <=> s \in S
      /\ \A c \in ChallengeIds : <<"deposit", c>> \in R <=> c \in D
  <2>1. Prize \notin R
    BY DEF Prize
  <2>2. \A s \in SubmissionIds : <<"bond", s>> \in R <=> s \in S
    OBVIOUS
  <2>3. \A c \in ChallengeIds : <<"deposit", c>> \in R <=> c \in D
    OBVIOUS
  <2> QED BY <2>1, <2>2, <2>3
<1>3. /\ Held'[Prize] = Held[Prize]
      /\ \A s \in SubmissionIds : Held'[<<"bond", s>>] = IF s \in S THEN 0 ELSE Held[<<"bond", s>>]
      /\ \A c \in ChallengeIds :
             Held'[<<"deposit", c>>] = IF c \in D THEN 0 ELSE Held[<<"deposit", c>>]
  BY LotFacts DEF HeldFacts
<1>4. \A l \in Lots : Held'[l] = IF l \in R THEN 0 ELSE Held[l]
  BY <1>2, <1>3, LotKinds
<1>5. Held' = [l \in Lots |-> IF l \in R THEN 0 ELSE Held[l]]
  BY <1>4, LotFacts DEF HeldFacts
<1>6. Abstract!Release(R)
  BY <1>1, <1>5 DEF Abstract!Release
<1> QED BY <1>1, <1>6 DEF Abstract!ENext

\* One that adds one new lot is a lock.
LEMMA LockRefines ==
    ASSUME NEW l \in Lots \ Locked, phase \notin Terminal, phase' \notin Terminal,
           Locked' = Locked \cup {l}, Prize \in Locked', Held'[l] \in Nat,
           \A m \in Lots \ {l} : Held'[m] = Held[m]
    PROVE  Abstract!ENext
<1>1. Held' = [Held EXCEPT ![l] = Held'[l]]
  BY LotFacts DEF HeldFacts
<1>2. Abstract!Lock(l)
  BY <1>1 DEF Abstract!Lock
<1> QED BY <1>2 DEF Abstract!ENext

\* One that empties every lot when the bounty ends is a close.
LEMMA CloseRefines ==
    ASSUME phase \notin Terminal, phase # "draft", phase' \in Terminal,
    Locked' = Locked,
           custody'.escrow = 0,
           \A s \in SubmissionIds : custody'.bond[s] = 0,
           \A c \in ChallengeIds : custody'.deposit[c] = 0
    PROVE  Abstract!ENext
<1>1. \A l \in Lots : Held'[l] = 0
  BY LotFacts, LotKinds DEF HeldFacts
<1>2. Held' = [l \in Lots |-> 0]
  BY <1>1, LotFacts DEF HeldFacts
<1>3. Abstract!Close
  BY <1>2, LotFacts DEF Abstract!Close, LockedFacts
<1> QED BY <1>3 DEF Abstract!ENext

\* Which lots are locked depends only on the ids in use and on having opened.
LEMMA SameLocked ==
    ASSUME phase = "draft" <=> phase' = "draft",
           \A s \in SubmissionIds : Present(s)' <=> Present(s),
           \A c \in ChallengeIds : Filed(c)' <=> Filed(c)
    PROVE  Locked' = Locked
<1>1. \A l \in Lots : l \in Locked' <=> l \in Locked
  BY LotKinds, LotFacts DEF LockedFacts
<1> QED BY <1>1, LotFacts DEF LockedFacts

\* Every command is a lock, a release, a close or invisible to Escrow.
LEMMA EscrowStep ==
    ASSUME TypeOK, Conservation, [Next]_vars
    PROVE  [Abstract!ENext]_<<Held, Locked, phase \in Terminal>>
<1> USE MarketAssumption DEF Present, Filed, Terminal
<1>0. /\ submissions \in [SubmissionIds -> SubmissionRecords]
      /\ challenges \in [ChallengeIds -> ChallengeRecords]
      /\ custody \in CustodyType
      /\ escrow \in Nat
  BY DEF TypeOK, CustodyType
<1>1. ASSUME NEW funded \in Amounts, NEW now \in Times, OpenBounty(funded, now)
      PROVE  Abstract!ENext
  <2>1. Prize \in Lots \ Locked /\ Prize \in Locked'
    BY <1>1, LotKinds, LotFacts DEF LockedFacts, OpenBounty, CanOpen
  <2>2. Locked' = Locked \cup {Prize}
    <3>1. \A l \in Lots : l \in Locked' <=> l \in Locked \/ l = Prize
      BY <1>1, LotKinds, LotFacts DEF LockedFacts, OpenBounty
    <3> QED BY <3>1, LotFacts, LotKinds DEF LockedFacts
  <2>3. Held'[Prize] \in Nat
    BY <1>0, <1>1, ConservationStep, LotFacts DEF Conservation, HeldFacts,
       OpenBounty
  <2>4. \A m \in Lots \ {Prize} : Held'[m] = Held[m]
    <3>1. custody'.bond = custody.bond /\ custody'.deposit = custody.deposit
      BY <1>0, <1>1 DEF OpenBounty, CustodyType
    <3>2. /\ \A s \in SubmissionIds : Held'[<<"bond", s>>] = Held[<<"bond", s>>]
          /\ \A c \in ChallengeIds : Held'[<<"deposit", c>>] = Held[<<"deposit", c>>]
      BY <3>1, LotFacts DEF HeldFacts
    <3> QED BY <3>2, LotKinds
  <2> QED BY <1>1, <2>1, <2>2, <2>3, <2>4, LockRefines DEF OpenBounty, CanOpen
<1>2. ASSUME NEW s \in SubmissionIds, NEW v \in Verifiers, NEW bond \in Amounts,
             NEW now \in Times,
             SubmitCandidate(s, v, bond, now)
      PROVE  Abstract!ENext
  <2> DEFINE l == <<"bond", s>>
  <2>1. l \in Lots \ Locked /\ Prize \in Locked'
    BY <1>2, LotKinds, LotFacts DEF LockedFacts, SubmitCandidate, CanSubmit
  <2>2. Locked' = Locked \cup {l}
    <3>1. \A m \in Lots : m \in Locked' <=> m \in Locked \/ m = l
      BY <1>0, <1>2, LotKinds, LotFacts DEF LockedFacts, SubmitCandidate
    <3> QED BY <3>1, LotFacts, LotKinds DEF LockedFacts
  <2>3. Held'[l] \in Nat
    BY <1>0, <1>2, ConservationStep, LotFacts DEF Conservation, HeldFacts,
       SubmitCandidate
  <2>4. \A m \in Lots \ {l} : Held'[m] = Held[m]
    <3>1. /\ custody'.escrow = custody.escrow /\ custody'.deposit = custody.deposit
          /\ \A t \in SubmissionIds \ {s} : custody'.bond[t] = custody.bond[t]
      BY <1>0, <1>2 DEF SubmitCandidate, CustodyType
    <3>2. /\ Held'[Prize] = Held[Prize]
          /\ \A t \in SubmissionIds \ {s} : Held'[<<"bond", t>>] = Held[<<"bond", t>>]
          /\ \A c \in ChallengeIds : Held'[<<"deposit", c>>] = Held[<<"deposit", c>>]
      BY <3>1, LotFacts DEF HeldFacts
    <3> QED BY <3>2, LotKinds
  <2> QED BY <1>2, <2>1, <2>2, <2>3, <2>4, LockRefines DEF SubmitCandidate,
  CanSubmit
<1>3. ASSUME NEW s \in SubmissionIds, NEW r \in SignedOver(SubmissionIds),
             NEW now \in Times,
             VerifyAccepted(s, r, now)
      PROVE  UNCHANGED <<Held, Locked, phase \in Terminal>>
  <2>1. Locked' = Locked
    BY <1>0, <1>3, SameLocked DEF VerifyAccepted, CanVerify, SubmissionRecords
  <2>2. Held' = Held
    BY <1>3 DEF VerifyAccepted, Held
  <2> QED BY <1>3, <2>1, <2>2 DEF VerifyAccepted
<1>4. ASSUME NEW s \in SubmissionIds, NEW r \in SignedOver(SubmissionIds),
             NEW now \in Times,
             VerifyRejected(s, r, now)
      PROVE  Abstract!ENext
  <2>1. Locked' = Locked
    BY <1>0, <1>4, SameLocked DEF VerifyRejected, CanVerify, SubmissionRecords
  <2>2. custody'.bond[s] = 0
    BY <1>0, <1>4, ConservationStep DEF Conservation, VerifyRejected,
       SubmissionRecords
  <2>3. /\ custody'.escrow = custody.escrow
        /\ \A t \in SubmissionIds : custody'.bond[t] = IF t \in {s} THEN 0 ELSE custody.bond[t]
        /\ \A d \in ChallengeIds : custody'.deposit[d] = IF d \in {} THEN 0 ELSE custody.deposit[d]
    BY <1>0, <1>4, <2>2 DEF VerifyRejected, CustodyType
  <2>4. (\A t \in {s} : Present(t)) /\ (\A d \in {} : Filed(d))
    BY <1>4 DEF VerifyRejected, CanVerify
  <2> QED
    BY <1>4, <2>1, <2>3, <2>4, ReleaseRefines, {s} \in SUBSET SubmissionIds,
       {} \in SUBSET ChallengeIds DEF VerifyRejected, CanVerify
<1>5. ASSUME NEW c \in ChallengeIds, NEW s \in SubmissionIds,
             NEW deposit \in Amounts,
             NEW now \in Times, OpenChallenge(c, s, deposit, now)
      PROVE  Abstract!ENext
  <2> DEFINE l == <<"deposit", c>>
  <2>1. l \in Lots \ Locked /\ Prize \in Locked'
    BY <1>5, LotKinds, LotFacts DEF LockedFacts, OpenChallenge, CanChallenge
  <2>2. Locked' = Locked \cup {l}
    <3>1. \A m \in Lots : m \in Locked' <=> m \in Locked \/ m = l
      BY <1>0, <1>5, LotKinds, LotFacts DEF LockedFacts, OpenChallenge
    <3> QED BY <3>1, LotFacts, LotKinds DEF LockedFacts
  <2>3. Held'[l] \in Nat
    BY <1>0, <1>5, ConservationStep, LotFacts DEF Conservation, HeldFacts,
       OpenChallenge
  <2>4. \A m \in Lots \ {l} : Held'[m] = Held[m]
    <3>1. /\ custody'.escrow = custody.escrow /\ custody'.bond = custody.bond
          /\ \A d \in ChallengeIds \ {c} : custody'.deposit[d] = custody.deposit[d]
      BY <1>0, <1>5 DEF OpenChallenge, CustodyType
    <3>2. /\ Held'[Prize] = Held[Prize]
          /\ \A t \in SubmissionIds : Held'[<<"bond", t>>] = Held[<<"bond", t>>]
          /\ \A d \in ChallengeIds \ {c} : Held'[<<"deposit", d>>] = Held[<<"deposit", d>>]
      BY <3>1, LotFacts DEF HeldFacts
    <3> QED BY <3>2, LotKinds
  <2> QED BY <1>5, <2>1, <2>2, <2>3, <2>4, LockRefines DEF OpenChallenge,
  CanChallenge
<1>6. ASSUME NEW c \in ChallengeIds, NEW r \in SignedOver(ChallengeIds),
             NEW now \in Times,
             ResolveUpheld(c, r, now)
      PROVE  Abstract!ENext
  <2> DEFINE s == challenges[c].submission
  <2>0. s \in SubmissionIds /\ Present(s)
    BY <1>0, <1>6 DEF ResolveUpheld, CanResolve, Commit, ValidState, ReferencesValid
  <2>1. Locked' = Locked
    BY <1>0, <1>6, <2>0, SameLocked
       DEF ResolveUpheld, CanResolve, SubmissionRecords, ChallengeRecords
  <2>2. custody'.bond[s] = 0 /\ custody'.deposit[c] = 0
    <3>1. Conservation'
      BY ConservationStep
    <3>2. submissions' = [submissions EXCEPT ![s].status = "rejected", ![s].bond = 0]
      BY <1>6 DEF ResolveUpheld
    <3>3. challenges' = [challenges EXCEPT ![c].status = "upheld", ![c].deposit = 0,
                                           ![c].receipt = r]
      BY <1>6 DEF ResolveUpheld
    <3>4. submissions'[s].bond = 0
      BY <1>0, <2>0, <3>2 DEF SubmissionRecords
    <3>5. challenges'[c].deposit = 0
      BY <1>0, <3>3 DEF ChallengeRecords
    <3> QED
      BY <2>0, <3>1, <3>4, <3>5 DEF Conservation
  <2>3. /\ custody'.escrow = custody.escrow
        /\ \A t \in SubmissionIds : custody'.bond[t] = IF t \in {s} THEN 0 ELSE custody.bond[t]
        /\ \A d \in ChallengeIds :
               custody'.deposit[d] = IF d \in {c} THEN 0 ELSE custody.deposit[d]
    BY <1>0, <1>6, <2>0, <2>2 DEF ResolveUpheld, CustodyType
  <2>4. (\A t \in {s} : Present(t)) /\ (\A d \in {c} : Filed(d))
    BY <1>6, <2>0 DEF ResolveUpheld, CanResolve
  <2> QED
    BY <1>6, <2>0, <2>1, <2>3, <2>4, ReleaseRefines, {s} \in SUBSET SubmissionIds,
       {c} \in SUBSET ChallengeIds DEF ResolveUpheld, CanResolve
<1>7. ASSUME NEW c \in ChallengeIds, NEW r \in SignedOver(ChallengeIds),
             NEW now \in Times,
             ResolveRejected(c, r, now)
      PROVE  Abstract!ENext
  <2>1. Locked' = Locked
    BY <1>0, <1>7, SameLocked DEF ResolveRejected, CanResolve, ChallengeRecords
  <2>2. custody'.deposit[c] = 0
    BY <1>0, <1>7, ConservationStep DEF Conservation, ResolveRejected,
       ChallengeRecords
  <2>3. /\ custody'.escrow = custody.escrow
        /\ \A t \in SubmissionIds : custody'.bond[t] = IF t \in {} THEN 0 ELSE custody.bond[t]
        /\ \A d \in ChallengeIds :
               custody'.deposit[d] = IF d \in {c} THEN 0 ELSE custody.deposit[d]
    BY <1>0, <1>7, <2>2 DEF ResolveRejected, CustodyType
  <2>4. (\A t \in {} : Present(t)) /\ (\A d \in {c} : Filed(d))
    BY <1>7 DEF ResolveRejected, CanResolve
  <2> QED
    BY <1>7, <2>1, <2>3, <2>4, ReleaseRefines, {} \in SUBSET SubmissionIds,
       {c} \in SUBSET ChallengeIds DEF ResolveRejected, CanResolve
<1>8. ASSUME NEW now \in Times, AdvancePayable(now)
      PROVE  Abstract!ENext
  <2>1. Locked' = Locked
    BY <1>0, <1>8, TimedOutPointwise, SameLocked DEF AdvancePayable, CanAdvance
  <2>2. \A c \in ChallengeIds :
            custody'.deposit[c] = IF c \in OpenChallenges THEN 0 ELSE custody.deposit[c]
    BY <1>0, <1>8, BulkCustody
       DEF AdvancePayable, CustodyType, Commit, ValidState, ChallengesValid,
       Conservation
  <2>3. /\ custody'.escrow = custody.escrow
        /\ \A t \in SubmissionIds : custody'.bond[t] = IF t \in {} THEN 0 ELSE custody.bond[t]
    BY <1>0, <1>8 DEF AdvancePayable, CustodyType
  <2>4. /\ OpenChallenges \in SUBSET ChallengeIds
        /\ (\A t \in {} : Present(t)) /\ (\A c \in OpenChallenges : Filed(c))
    BY DEF OpenChallenges
  <2> QED
    BY <1>8, <2>1, <2>2, <2>3, <2>4, ReleaseRefines, {} \in SUBSET SubmissionIds
       DEF AdvancePayable, CanAdvance
<1>9. ASSUME NEW now \in Times, AdvanceExpired(now)
      PROVE  Abstract!ENext
  <2>1. Locked' = Locked
    BY <1>0, <1>9, TimedOutPointwise, BondsReturnedPointwise, SameLocked
       DEF AdvanceExpired, CanAdvance
  <2>2. /\ custody'.escrow = 0
        /\ \A s \in SubmissionIds : custody'.bond[s] = 0
        /\ \A c \in ChallengeIds : custody'.deposit[c] = 0
    BY <1>0, <1>9, BulkCustody DEF AdvanceExpired, Conservation, Commit, ValidState
  <2> QED BY <1>9, <2>1, <2>2, CloseRefines DEF AdvanceExpired, CanAdvance
<1>10. ASSUME NEW S \in SUBSET payable, NEW payouts \in [S -> Amounts],
              SettleBounty(payouts)
      PROVE  Abstract!ENext
  <2>1. Locked' = Locked
    BY <1>0, <1>10, BondsReturnedPointwise, SameLocked DEF SettleBounty, CanSettle
  <2>2. /\ custody'.escrow = 0
        /\ \A s \in SubmissionIds : custody'.bond[s] = 0
    BY <1>0, <1>10, BulkCustody DEF SettleBounty, CanSettle, Conservation,
       CustodyType
  <2>3. \A c \in ChallengeIds : custody'.deposit[c] = 0
    BY <1>0, <1>10 DEF SettleBounty, CanSettle, Conservation, CustodyType,
       Commit, ValidState,
                       ChallengesValid
  <2> QED BY <1>10, <2>1, <2>2, <2>3, CloseRefines DEF SettleBounty, CanSettle
<1>11. ASSUME NEW now \in Times, CancelBounty(now)
      PROVE  Abstract!ENext
  <2>1. Locked' = Locked
    BY <1>11, SameLocked DEF CancelBounty, CanCancel
  <2>2. /\ custody'.escrow = 0
        /\ \A s \in SubmissionIds : custody'.bond[s] = 0
    BY <1>0, <1>11 DEF CancelBounty, CanCancel, Conservation, CustodyType
  <2>3. \A c \in ChallengeIds : custody'.deposit[c] = 0
    BY <1>0, <1>11 DEF CancelBounty, CanCancel, Conservation, CustodyType,
       Commit, ValidState,
                       ChallengesValid, OpenChallenges
  <2> QED BY <1>11, <2>1, <2>2, <2>3, CloseRefines DEF CancelBounty, CanCancel
<1>12. CASE UNCHANGED vars
  BY <1>12 DEF vars, Held, Locked
<1> QED
  BY <1>1, <1>2, <1>3, <1>4, <1>5, <1>6, <1>7, <1>8, <1>9, <1>10, <1>11, <1>12
     DEF Next, Submit, Verify, Challenge, Resolve, Advance, Settle

\* A bounty is an escrow: every stake enters once, leaves whole, and nothing is
\* held or moves after the bounty ended.
THEOREM MarketImplementsEscrow == Spec => ImplementsEscrow
<1>1. TypeOK /\ Conservation /\ [Next]_vars
        => [Abstract!ENext]_<<Held, Locked, phase \in Terminal>>
  BY EscrowStep
<1> QED
  BY EscrowInit, <1>1, TypeCorrect, Conserved, PTL DEF Spec, ImplementsEscrow,
     Abstract!ESpec
-----------------------------------------------------------------------------
(* What each command does to the records, field by field. *)

\* The subjects a command leaves alone.
SubmissionsBut(S) == \A t \in SubmissionIds \ S : submissions'[t] = submissions[t]
ChallengesBut(D) == \A d \in ChallengeIds \ D : challenges'[d] = challenges[d]

\* A record keeps what its submitter declared and what its verifier signed.
Kept(t) ==
    /\ submissions'[t].status = submissions[t].status
    /\ submissions'[t].verifier = submissions[t].verifier
    /\ submissions'[t].at = submissions[t].at
    /\ submissions'[t].receipt = submissions[t].receipt

LEMMA RecordTypes ==
    ASSUME TypeOK
    PROVE  /\ \A s \in SubmissionIds : submissions[s] \in SubmissionRecords
           /\ \A c \in ChallengeIds : challenges[c] \in ChallengeRecords
           /\ processed \in Nat
  BY DEF TypeOK

\* A receipt that exists is a statement over a state there was.
LEMMA SignedPre ==
    ASSUME TypeOK, NEW Subject, NEW r \in SignedOver(Subject)
    PROVE  r \in Statements(Subject) /\ r.pre \in Nat
  BY SignedAreStatements DEF Statements

LEMMA SubmitMoves ==
    ASSUME TypeOK, NEW s \in SubmissionIds, NEW v \in Verifiers, NEW bond \in Amounts,
           NEW now \in Times, SubmitCandidate(s, v, bond, now)
    PROVE  /\ submissions[s].status = "none" /\ SubmissionsBut({s})
           /\ submissions'[s].status = "pending" /\ submissions'[s].receipt = None
           /\ submissions'[s].at <= Deadline /\ submissions'[s].verifier \in AcceptedVerifiers
           /\ submissions'[s].bond = bond /\ phase = "open"
  BY DEF TypeOK, SubmitCandidate, CanSubmit, Present, SubmissionsBut

LEMMA AcceptMoves ==
    ASSUME TypeOK, NEW s \in SubmissionIds, NEW r \in SignedOver(SubmissionIds), NEW now \in Times,
           VerifyAccepted(s, r, now)
    PROVE  /\ submissions[s].status = "pending" /\ SubmissionsBut({s})
           /\ submissions'[s].status = "verified" /\ submissions'[s].receipt = r
           /\ submissions'[s].verifier = submissions[s].verifier
           /\ submissions'[s].at = submissions[s].at
           /\ submissions'[s].bond = submissions[s].bond
           /\ r.pre = processed /\ r.outcome = "accepted" /\ r.key = submissions[s].verifier
           /\ phase = "open"
  BY DEF TypeOK, SubmissionRecords, VerifyAccepted, CanVerify, Binds, SubmissionsBut

LEMMA RejectMoves ==
    ASSUME TypeOK, NEW s \in SubmissionIds, NEW r \in SignedOver(SubmissionIds), NEW now \in Times,
           VerifyRejected(s, r, now)
    PROVE  /\ submissions[s].status = "pending" /\ SubmissionsBut({s})
           /\ submissions'[s].status = "rejected" /\ submissions'[s].receipt = r
           /\ submissions'[s].verifier = submissions[s].verifier
           /\ submissions'[s].at = submissions[s].at
           /\ submissions'[s].bond = 0 /\ r.pre = processed /\ phase = "open"
  BY DEF TypeOK, SubmissionRecords, VerifyRejected, CanVerify, Binds, SubmissionsBut

LEMMA ChallengeMoves ==
    ASSUME TypeOK, NEW c \in ChallengeIds, NEW s \in SubmissionIds, NEW deposit \in Amounts,
           NEW now \in Times, OpenChallenge(c, s, deposit, now)
    PROVE  /\ challenges[c].status = "none" /\ ChallengesBut({c})
           /\ submissions[s].status = "verified"
           /\ challenges'[c].status = "open" /\ challenges'[c].receipt = None
           /\ challenges'[c].submission = s /\ challenges'[c].deposit = deposit
           /\ phase = "open"
  BY DEF TypeOK, OpenChallenge, CanChallenge, Filed, ChallengesBut

\* What an upheld challenge c changes: itself, and the submission s it is about.
Upholds(c, s, r) ==
    /\ challenges[c].status = "open" /\ ChallengesBut({c})
    /\ challenges'[c].status = "upheld" /\ challenges'[c].receipt = r
    /\ challenges'[c].submission = s
    /\ s \in SubmissionIds /\ SubmissionsBut({s})
    /\ submissions'[s].status = "rejected" /\ submissions'[s].bond = 0
    /\ submissions'[s].verifier = submissions[s].verifier
    /\ submissions'[s].at = submissions[s].at
    /\ submissions'[s].receipt = submissions[s].receipt
    /\ r.pre = processed /\ phase = "open"

LEMMA UpholdMoves ==
    ASSUME TypeOK, NEW c \in ChallengeIds, NEW r \in SignedOver(ChallengeIds), NEW now \in Times,
           NEW s, ResolveUpheld(c, r, now), s = challenges[c].submission
    PROVE  Upholds(c, s, r)
<1>1. s \in SubmissionIds
  BY DEF ResolveUpheld, CanResolve, Commit, ValidState, ReferencesValid, Filed
<1>2. /\ challenges[c].status = "open" /\ r.pre = processed /\ phase = "open"
      /\ challenges' = [challenges EXCEPT ![c].status = "upheld", ![c].deposit = 0,
                                          ![c].receipt = r]
      /\ submissions' = [submissions EXCEPT ![s].status = "rejected", ![s].bond = 0]
  BY DEF ResolveUpheld, CanResolve, Binds
<1>3. /\ ChallengesBut({c}) /\ challenges'[c].status = "upheld" /\ challenges'[c].receipt = r
      /\ challenges'[c].submission = s
  BY <1>2 DEF TypeOK, ChallengeRecords, ChallengesBut
<1>4. /\ SubmissionsBut({s})
      /\ submissions'[s].status = "rejected" /\ submissions'[s].bond = 0
      /\ submissions'[s].verifier = submissions[s].verifier
      /\ submissions'[s].at = submissions[s].at
      /\ submissions'[s].receipt = submissions[s].receipt
  BY <1>1, <1>2 DEF TypeOK, SubmissionRecords, SubmissionsBut
<1> QED
  BY <1>1, <1>2, <1>3, <1>4 DEF Upholds

LEMMA DenyMoves ==
    ASSUME TypeOK, NEW c \in ChallengeIds, NEW r \in SignedOver(ChallengeIds), NEW now \in Times,
           ResolveRejected(c, r, now)
    PROVE  /\ challenges[c].status = "open" /\ ChallengesBut({c})
           /\ challenges'[c].status = "rejected" /\ challenges'[c].receipt = r
           /\ challenges'[c].submission = challenges[c].submission
           /\ r.pre = processed /\ phase = "open"
  BY DEF TypeOK, ChallengeRecords, ResolveRejected, CanResolve, Binds, ChallengesBut

\* Advancing: nobody but open challenges changes status.
LEMMA TimeoutMoves ==
    ASSUME TypeOK, challenges' = TimedOut, NEW c \in ChallengeIds
    PROVE  /\ challenges'[c].submission = challenges[c].submission
           /\ challenges'[c].receipt = challenges[c].receipt
           /\ challenges'[c].status = IF challenges[c].status = "open" THEN "rejected"
                                                                       ELSE challenges[c].status
  BY DEF TypeOK, ChallengeRecords, TimedOut, OpenChallenges

LEMMA ReturnMoves ==
    ASSUME TypeOK, submissions' = BondsReturned, NEW t \in SubmissionIds
    PROVE  Kept(t) /\ submissions'[t].bond = 0
  BY DEF TypeOK, SubmissionRecords, BondsReturned, Kept

-----------------------------------------------------------------------------
(* What the records say at every moment. *)

SubmissionRecorded(s) ==
    /\ submissions[s].status \in {"none", "pending"} => submissions[s].receipt = None
    /\ submissions[s].status # "none" =>
           submissions[s].at <= Deadline /\ submissions[s].verifier \in AcceptedVerifiers
    /\ submissions[s].status = "verified" =>
           /\ submissions[s].receipt # None
           /\ submissions[s].receipt.outcome = "accepted"
           /\ submissions[s].receipt.key = submissions[s].verifier

\* A challenge contests a candidate that was verified; it still is while the challenge is open, and
\* is rejected once it is upheld.
ChallengeRecorded(c) ==
    /\ challenges[c].status \in {"none", "open"} => challenges[c].receipt = None
    /\ challenges[c].status # "none" =>
           /\ challenges[c].submission \in SubmissionIds
           /\ submissions[challenges[c].submission].receipt # None
    /\ challenges[c].status = "open" => submissions[challenges[c].submission].status = "verified"
    /\ challenges[c].status = "upheld" => submissions[challenges[c].submission].status = "rejected"

Recorded ==
    /\ \A s \in SubmissionIds : SubmissionRecorded(s)
    /\ \A c \in ChallengeIds : ChallengeRecorded(c)

\* The order in which verdicts were signed.
SubmissionFresh(s) ==
    submissions[s].receipt # None =>
        /\ submissions[s].receipt.pre < processed
        /\ \A t \in SubmissionIds \ {s} : submissions[t].receipt # None =>
               submissions[s].receipt.pre # submissions[t].receipt.pre

ChallengeFresh(c) ==
    challenges[c].receipt # None =>
        LET contested == submissions[challenges[c].submission]
        IN  /\ contested.receipt # None
            /\ contested.receipt.pre < challenges[c].receipt.pre
            /\ challenges[c].receipt.pre < processed

\* Receipts carry the number of a state.
LEMMA ReceiptTypes ==
    ASSUME TypeOK
    PROVE  /\ \A s \in SubmissionIds : submissions[s].receipt # None =>
                  submissions[s].receipt.pre \in Nat
           /\ \A c \in ChallengeIds : challenges[c].receipt # None =>
                  challenges[c].receipt.pre \in Nat
           /\ processed \in Nat
<1>1. /\ \A s \in SubmissionIds : submissions[s].receipt \in Statements(SubmissionIds) \cup {None}
      /\ \A c \in ChallengeIds : challenges[c].receipt \in Statements(ChallengeIds) \cup {None}
  BY RecordTypes DEF SubmissionRecords, ChallengeRecords
<1>2. \A Subject : \A r \in Statements(Subject) : r.pre \in Nat
  BY DEF Statements
<1> QED
  BY <1>1, <1>2 DEF TypeOK

\* A command that judges no candidate and no challenge keeps all this.
LEMMA UnjudgedRecorded ==
    ASSUME TypeOK, Recorded, VerdictsFresh, processed' \in {processed, processed + 1},
           \A s \in SubmissionIds : Kept(s),
           \A c \in ChallengeIds :
               /\ challenges'[c].submission = challenges[c].submission
               /\ challenges'[c].receipt = challenges[c].receipt
               /\ \/ challenges'[c].status = challenges[c].status
                  \/ challenges[c].status = "open" /\ challenges'[c].status = "rejected"
    PROVE  Recorded' /\ VerdictsFresh'
<1>1. ASSUME NEW s \in SubmissionIds PROVE SubmissionRecorded(s)'
  BY DEF Recorded, SubmissionRecorded, Kept
<1>2. ASSUME NEW c \in ChallengeIds PROVE ChallengeRecorded(c)'
  BY DEF Recorded, ChallengeRecorded, Kept
<1>3. ASSUME NEW s \in SubmissionIds PROVE SubmissionFresh(s)'
  BY ReceiptTypes DEF VerdictsFresh, SubmissionFresh, Kept
<1>4. ASSUME NEW c \in ChallengeIds PROVE ChallengeFresh(c)'
  <2>1. challenges[c].receipt # None => challenges[c].submission \in SubmissionIds
    BY DEF Recorded, ChallengeRecorded
  <2> QED
    BY <2>1, ReceiptTypes DEF VerdictsFresh, ChallengeFresh, Kept
<1> QED
  BY <1>1, <1>2, <1>3, <1>4 DEF Recorded, VerdictsFresh, SubmissionFresh, ChallengeFresh

\* One that changes a single candidate without reopening what was decided of it.
LEMMA SubmissionChanged ==
    ASSUME TypeOK, Recorded, VerdictsFresh, processed' = processed + 1, challenges' = challenges,
           NEW s \in SubmissionIds, SubmissionsBut({s}), submissions[s].receipt = None,
           submissions'[s].receipt # None => submissions'[s].receipt.pre = processed,
           SubmissionRecorded(s)'
    PROVE  Recorded' /\ VerdictsFresh'
<1>1. \A t \in SubmissionIds \ {s} : submissions'[t] = submissions[t]
  BY DEF SubmissionsBut
<1>2. ASSUME NEW t \in SubmissionIds PROVE SubmissionRecorded(t)'
  BY <1>1 DEF Recorded, SubmissionRecorded
<1>3. ASSUME NEW c \in ChallengeIds, challenges[c].status # "none"
      PROVE  /\ challenges[c].submission \in SubmissionIds \ {s}
             /\ submissions'[challenges[c].submission] = submissions[challenges[c].submission]
  BY <1>1, <1>3 DEF Recorded, ChallengeRecorded
<1>4. ASSUME NEW c \in ChallengeIds PROVE ChallengeRecorded(c)'
  BY <1>3 DEF Recorded, ChallengeRecorded
<1>5. ASSUME NEW t \in SubmissionIds PROVE SubmissionFresh(t)'
  BY <1>1, ReceiptTypes DEF VerdictsFresh, SubmissionFresh
<1>6. ASSUME NEW c \in ChallengeIds PROVE ChallengeFresh(c)'
  <2>1. challenges[c].receipt # None => challenges[c].status # "none"
    BY DEF Recorded, ChallengeRecorded
  <2> QED
    BY <1>3, <2>1, ReceiptTypes DEF VerdictsFresh, ChallengeFresh
<1> QED
  BY <1>2, <1>4, <1>5, <1>6 DEF Recorded, VerdictsFresh, SubmissionFresh, ChallengeFresh

\* One that changes a single challenge, and the status of candidates only as it calls for.
LEMMA ChallengeChanged ==
    ASSUME TypeOK, Recorded, VerdictsFresh, processed' = processed + 1,
           NEW c \in ChallengeIds, ChallengesBut({c}), ChallengeRecorded(c)',
           challenges'[c].receipt # None => challenges'[c].receipt.pre = processed,
           \A s \in SubmissionIds :
               /\ submissions'[s].receipt = submissions[s].receipt
               /\ SubmissionRecorded(s)',
           \A d \in ChallengeIds \ {c} : ChallengeRecorded(d)'
    PROVE  Recorded' /\ VerdictsFresh'
<1>1. ASSUME NEW s \in SubmissionIds PROVE SubmissionFresh(s)'
  BY ReceiptTypes DEF VerdictsFresh, SubmissionFresh
<1>2. ASSUME NEW d \in ChallengeIds PROVE ChallengeFresh(d)'
  <2>1. CASE d = c
    <3>1. challenges'[c].receipt # None =>
              /\ challenges'[c].submission \in SubmissionIds
              /\ submissions'[challenges'[c].submission].receipt # None
      BY DEF ChallengeRecorded
    <3> QED
      BY <2>1, <3>1, ReceiptTypes DEF VerdictsFresh, ChallengeFresh
  <2>2. CASE d # c
    <3>1. challenges'[d] = challenges[d]
      BY <2>2 DEF ChallengesBut
    <3>2. challenges[d].receipt # None => challenges[d].submission \in SubmissionIds
      BY DEF Recorded, ChallengeRecorded
    <3> QED
      BY <3>1, <3>2, ReceiptTypes DEF VerdictsFresh, ChallengeFresh
  <2> QED
    BY <2>1, <2>2
<1>3. Recorded'
  <2>1. \A d \in ChallengeIds : ChallengeRecorded(d)'
    OBVIOUS
  <2> QED
    BY <2>1 DEF Recorded
<1> QED
  BY <1>1, <1>2, <1>3 DEF VerdictsFresh, SubmissionFresh, ChallengeFresh

LEMMA RecordedStep ==
    ASSUME TypeOK, Recorded, VerdictsFresh, [Next]_vars
    PROVE  Recorded' /\ VerdictsFresh'
<1> USE MarketAssumption
<1>1. CASE UNCHANGED vars
  BY <1>1, UnjudgedRecorded DEF vars, Kept
<1>2. ASSUME NEW funded, NEW now, OpenBounty(funded, now) \/ CancelBounty(now)
      PROVE  Recorded' /\ VerdictsFresh'
  BY <1>2, UnjudgedRecorded DEF OpenBounty, CancelBounty, Commit, Kept
<1>3. ASSUME NEW s \in SubmissionIds, NEW v \in Verifiers, NEW bond \in Amounts,
             NEW now \in Times, SubmitCandidate(s, v, bond, now)
      PROVE  Recorded' /\ VerdictsFresh'
  <2>1. processed' = processed + 1 /\ challenges' = challenges
    BY <1>3 DEF SubmitCandidate, Commit
  <2>2. SubmissionsBut({s}) /\ submissions[s].receipt = None /\ submissions'[s].receipt = None
    BY <1>3, SubmitMoves DEF Recorded, SubmissionRecorded
  <2>3. SubmissionRecorded(s)'
    BY <1>3, SubmitMoves DEF SubmissionRecorded
  <2> QED
    BY <2>1, <2>2, <2>3, SubmissionChanged
<1>4. ASSUME NEW s \in SubmissionIds, NEW r \in SignedOver(SubmissionIds), NEW now \in Times,
             VerifyAccepted(s, r, now)
      PROVE  Recorded' /\ VerdictsFresh'
  <2>1. processed' = processed + 1 /\ challenges' = challenges
    BY <1>4 DEF VerifyAccepted, Commit
  <2>2. /\ SubmissionsBut({s}) /\ submissions[s].receipt = None
        /\ submissions'[s].receipt = r /\ r.pre = processed
    BY <1>4, AcceptMoves DEF Recorded, SubmissionRecorded
  <2>3. r # None
    BY SignedPre, NoneAssumption
  <2>9. /\ submissions[s].status = "pending" /\ submissions'[s].status = "verified"
        /\ submissions'[s].verifier = submissions[s].verifier
        /\ submissions'[s].at = submissions[s].at
        /\ r.outcome = "accepted" /\ r.key = submissions[s].verifier
    BY <1>4, AcceptMoves
  <2>4. SubmissionRecorded(s)'
    BY <2>2, <2>3, <2>9 DEF Recorded, SubmissionRecorded
  <2> QED
    BY <2>1, <2>2, <2>4, SubmissionChanged
<1>5. ASSUME NEW s \in SubmissionIds, NEW r \in SignedOver(SubmissionIds), NEW now \in Times,
             VerifyRejected(s, r, now)
      PROVE  Recorded' /\ VerdictsFresh'
  <2>1. processed' = processed + 1 /\ challenges' = challenges
    BY <1>5 DEF VerifyRejected, Commit
  <2>2. /\ SubmissionsBut({s}) /\ submissions[s].receipt = None
        /\ submissions'[s].receipt = r /\ r.pre = processed
    BY <1>5, RejectMoves DEF Recorded, SubmissionRecorded
  <2>9. /\ submissions[s].status = "pending" /\ submissions'[s].status = "rejected"
        /\ submissions'[s].verifier = submissions[s].verifier
        /\ submissions'[s].at = submissions[s].at
    BY <1>5, RejectMoves
  <2>3. SubmissionRecorded(s)'
    BY <2>9 DEF Recorded, SubmissionRecorded
  <2> QED
    BY <2>1, <2>2, <2>3, SubmissionChanged
<1>6. ASSUME NEW c \in ChallengeIds, NEW s \in SubmissionIds, NEW deposit \in Amounts,
             NEW now \in Times, OpenChallenge(c, s, deposit, now)
      PROVE  Recorded' /\ VerdictsFresh'
  <2>1. processed' = processed + 1 /\ submissions' = submissions
    BY <1>6 DEF OpenChallenge, Commit
  <2>2. ChallengesBut({c}) /\ challenges'[c].receipt = None
    BY <1>6, ChallengeMoves
  <2>9. /\ submissions[s].status = "verified" /\ challenges'[c].status = "open"
        /\ challenges'[c].submission = s
    BY <1>6, ChallengeMoves
  <2>3. ChallengeRecorded(c)'
    BY <2>1, <2>2, <2>9 DEF Recorded, SubmissionRecorded, ChallengeRecorded
  <2>4. ASSUME NEW t \in SubmissionIds
        PROVE  submissions'[t].receipt = submissions[t].receipt /\ SubmissionRecorded(t)'
    BY <2>1 DEF Recorded, SubmissionRecorded
  <2>5. ASSUME NEW d \in ChallengeIds \ {c} PROVE ChallengeRecorded(d)'
    BY <2>1, <2>2 DEF Recorded, ChallengeRecorded, ChallengesBut
  <2> QED
    BY <2>1, <2>2, <2>3, <2>4, <2>5, ChallengeChanged
<1>7. ASSUME NEW c \in ChallengeIds, NEW r \in SignedOver(ChallengeIds), NEW now \in Times,
             ResolveUpheld(c, r, now)
      PROVE  Recorded' /\ VerdictsFresh'
  <2>1. PICK s : s = challenges[c].submission
    OBVIOUS
  <2>2. /\ challenges[c].status = "open" /\ ChallengesBut({c})
        /\ challenges'[c].status = "upheld" /\ challenges'[c].receipt = r
        /\ challenges'[c].submission = s /\ r.pre = processed
        /\ s \in SubmissionIds /\ SubmissionsBut({s})
        /\ submissions'[s].status = "rejected"
        /\ submissions'[s].verifier = submissions[s].verifier
        /\ submissions'[s].at = submissions[s].at
        /\ submissions'[s].receipt = submissions[s].receipt
    <3>1. Upholds(c, s, r)
      BY <1>7, <2>1, UpholdMoves, Zenon
    <3> QED
      BY <3>1 DEF Upholds
  <2>3. processed' = processed + 1 /\ ChallengesValid
    BY <1>7 DEF ResolveUpheld, Commit, ValidState
  <2>4. submissions[s].status = "verified" /\ submissions[s].receipt # None
    BY <2>1, <2>2 DEF Recorded, ChallengeRecorded
  <2>5. ChallengeRecorded(c)'
    BY <2>2, <2>4 DEF ChallengeRecorded
  <2>6. ASSUME NEW t \in SubmissionIds
        PROVE  submissions'[t].receipt = submissions[t].receipt /\ SubmissionRecorded(t)'
    <3>1. CASE t = s
      BY <2>2, <2>4, <3>1 DEF Recorded, SubmissionRecorded
    <3>2. CASE t # s
      BY <2>2, <3>2 DEF Recorded, SubmissionRecorded, SubmissionsBut
    <3> QED
      BY <3>1, <3>2
  <2>7. ASSUME NEW d \in ChallengeIds \ {c} PROVE ChallengeRecorded(d)'
    <3>1. challenges'[d] = challenges[d]
      BY <2>2 DEF ChallengesBut
    <3>2. ~(challenges[d].status = "open" /\ challenges[d].submission = s)
      BY <2>1, <2>2, <2>3 DEF ChallengesValid, OpenChallenges
    <3>3. ChallengeRecorded(d)
      BY DEF Recorded
    <3>4. CASE challenges[d].submission = s
      BY <2>2, <2>4, <3>1, <3>2, <3>3, <3>4 DEF ChallengeRecorded
    <3>5. CASE challenges[d].submission # s
      BY <2>2, <3>1, <3>3, <3>5 DEF ChallengeRecorded, SubmissionsBut
    <3> QED
      BY <3>4, <3>5
  <2> QED
    BY <2>2, <2>3, <2>5, <2>6, <2>7, ChallengeChanged
<1>8. ASSUME NEW c \in ChallengeIds, NEW r \in SignedOver(ChallengeIds), NEW now \in Times,
             ResolveRejected(c, r, now)
      PROVE  Recorded' /\ VerdictsFresh'
  <2>1. processed' = processed + 1 /\ submissions' = submissions
    BY <1>8 DEF ResolveRejected, Commit
  <2>2. /\ challenges[c].status = "open" /\ ChallengesBut({c})
        /\ challenges'[c].status = "rejected" /\ challenges'[c].receipt = r
        /\ challenges'[c].submission = challenges[c].submission /\ r.pre = processed
    BY <1>8, DenyMoves
  <2>3. ChallengeRecorded(c)'
    BY <2>1, <2>2 DEF Recorded, ChallengeRecorded
  <2>4. ASSUME NEW t \in SubmissionIds
        PROVE  submissions'[t].receipt = submissions[t].receipt /\ SubmissionRecorded(t)'
    BY <2>1 DEF Recorded, SubmissionRecorded
  <2>5. ASSUME NEW d \in ChallengeIds \ {c} PROVE ChallengeRecorded(d)'
    BY <2>1, <2>2 DEF Recorded, ChallengeRecorded, ChallengesBut
  <2> QED
    BY <2>1, <2>2, <2>3, <2>4, <2>5, ChallengeChanged
<1>9. ASSUME NEW now \in Times, AdvancePayable(now) \/ AdvanceExpired(now)
      PROVE  Recorded' /\ VerdictsFresh'
  <2>1. /\ processed' = processed + 1 /\ challenges' = TimedOut
        /\ submissions' = submissions \/ submissions' = BondsReturned
    BY <1>9 DEF AdvancePayable, AdvanceExpired, Commit
  <2>2. \A t \in SubmissionIds : Kept(t)
    BY <2>1, ReturnMoves DEF Kept
  <2> QED
    BY <2>1, <2>2, TimeoutMoves, UnjudgedRecorded
<1>10. ASSUME NEW payouts, SettleBounty(payouts)
       PROVE  Recorded' /\ VerdictsFresh'
  <2>1. processed' = processed + 1 /\ challenges' = challenges /\ submissions' = BondsReturned
    BY <1>10 DEF SettleBounty, Commit
  <2> QED
    BY <2>1, ReturnMoves, UnjudgedRecorded
<1>11. CASE Next
  BY <1>2, <1>3, <1>4, <1>5, <1>6, <1>7, <1>8, <1>9, <1>10, <1>11
     DEF Next, Submit, Verify, Challenge, Resolve, Advance, Settle
<1> QED
  BY <1>1, <1>11

LEMMA RecordedAlways == Spec => [](Recorded /\ VerdictsFresh)
<1>1. Init => Recorded /\ VerdictsFresh
  BY DEF Init, NoSubmission, NoChallenge, Recorded, SubmissionRecorded, ChallengeRecorded,
         VerdictsFresh
<1>2. TypeOK /\ (Recorded /\ VerdictsFresh) /\ [Next]_vars => (Recorded /\ VerdictsFresh)'
  BY RecordedStep
<1> QED
  BY <1>1, <1>2, TypeCorrect, PTL DEF Spec

\* No signed verdict changes a bounty twice, and none on a challenge was signed before the verdict
\* it contests (market.py:1187-1228, 1350-1420).
THEOREM VerdictsAlwaysFresh == Spec => []VerdictsFresh
<1>1. Recorded /\ VerdictsFresh => VerdictsFresh
  OBVIOUS
<1> QED
  BY <1>1, RecordedAlways, PTL

-----------------------------------------------------------------------------
(* Prizes: nobody is paid before the bounty settles, and settling ends it. *)

Paid ==
    /\ \A e \in sent : e.kind = "payout" =>
           /\ phase = "settled"
           /\ e.subject \in SubmissionIds
           /\ submissions[e.subject].status = "verified"
    /\ phase = "settled" => OpenChallenges = {}

\* A settled bounty accepts no command.
LEMMA SettledIsLast == phase = "settled" => ~Next
  BY DEF Next, OpenBounty, CanOpen, Submit, SubmitCandidate, CanSubmit, Verify, VerifyAccepted,
         VerifyRejected, CanVerify, Challenge, OpenChallenge, CanChallenge, Resolve, ResolveUpheld,
         ResolveRejected, CanResolve, Advance, AdvancePayable, AdvanceExpired, CanAdvance, Settle,
         SettleBounty, CanSettle, CancelBounty, CanCancel

\* A command that returns no payout and does not settle leaves nobody paid.
LEMMA UnpaidStep ==
    ASSUME Paid, phase # "settled", phase' # "settled",
           \A e \in sent' : e \in sent \/ e.kind # "payout"
    PROVE  Paid'
  BY DEF Paid

LEMMA PaidStep ==
    ASSUME TypeOK, Paid, [Next]_vars
    PROVE  Paid'
<1> USE MarketAssumption
<1>1. CASE UNCHANGED vars
  BY <1>1 DEF vars, Paid, OpenChallenges
<1>2. CASE Next
  <2>0. phase # "settled"
    BY <1>2, SettledIsLast
  <2>1. ASSUME NEW funded, NEW now, OpenBounty(funded, now) \/ CancelBounty(now)
        PROVE  Paid'
    BY <2>0, <2>1, UnpaidStep DEF OpenBounty, CancelBounty, Commit, Effect
  <2>2. ASSUME NEW s, NEW v, NEW bond, NEW now, SubmitCandidate(s, v, bond, now)
        PROVE  Paid'
    BY <2>0, <2>2, UnpaidStep DEF SubmitCandidate, Commit, Effect
  <2>3. ASSUME NEW s, NEW r, NEW now, VerifyAccepted(s, r, now) \/ VerifyRejected(s, r, now)
        PROVE  Paid'
    BY <2>0, <2>3, UnpaidStep DEF VerifyAccepted, VerifyRejected, Commit, Effect
  <2>4. ASSUME NEW c, NEW s, NEW deposit, NEW now, OpenChallenge(c, s, deposit, now)
        PROVE  Paid'
    BY <2>0, <2>4, UnpaidStep DEF OpenChallenge, Commit, Effect
  <2>5. ASSUME NEW c, NEW r, NEW now, ResolveUpheld(c, r, now) \/ ResolveRejected(c, r, now)
        PROVE  Paid'
    BY <2>0, <2>5, UnpaidStep DEF ResolveUpheld, ResolveRejected, Commit, Effect
  <2>6. ASSUME NEW now, AdvancePayable(now) \/ AdvanceExpired(now)
        PROVE  Paid'
    <3>1. /\ \A e \in TimeoutEffects \cup BondRefunds : e.kind # "payout"
          /\ Effect("refund_escrow", Bounty, escrow).kind # "payout"
      BY DEF TimeoutEffects, BondRefunds, Effect
    <3>2. \A e \in sent' : e \in sent \/ e.kind # "payout"
      BY <2>6, <3>1 DEF AdvancePayable, AdvanceExpired, Commit
    <3> QED
      BY <2>0, <2>6, <3>2, UnpaidStep DEF AdvancePayable, AdvanceExpired
  <2>7. ASSUME NEW payouts, SettleBounty(payouts)
        PROVE  Paid'
    <3>1. /\ phase' = "settled" /\ challenges' = challenges /\ submissions' = BondsReturned
          /\ DOMAIN payouts \subseteq payable /\ payable \subseteq Verified
          /\ OpenChallenges = {}
          /\ sent' = sent \cup ({Effect("payout", s, payouts[s]) : s \in DOMAIN payouts}
                                \cup BondRefunds)
      BY <2>7 DEF SettleBounty, CanSettle, Commit, ValidState, PayableValid, ChallengesValid
    <3>2. \A e \in sent \cup BondRefunds : e.kind # "payout"
      BY <2>0 DEF Paid, BondRefunds, Effect
    <3>3. \A s \in DOMAIN payouts : /\ s \in SubmissionIds
                                    /\ submissions'[s].status = "verified"
      BY <3>1, ReturnMoves DEF Verified, Kept
    <3>4. ASSUME NEW e \in sent', e.kind = "payout"
          PROVE  e.subject \in SubmissionIds /\ submissions'[e.subject].status = "verified"
      BY <3>1, <3>2, <3>3, <3>4 DEF Effect
    <3> QED
      BY <3>1, <3>4 DEF Paid, OpenChallenges
  <2> QED
    BY <1>2, <2>1, <2>2, <2>3, <2>4, <2>5, <2>6, <2>7
       DEF Next, Submit, Verify, Challenge, Resolve, Advance, Settle
<1> QED
  BY <1>1, <1>2

\* Every prize goes to a candidate that was submitted in time, accepted by the verifier it named,
\* and that no challenge brought down or still contests (market.py:817-872).
THEOREM PrizesSurvive == Spec => []PaidSurvived
<1>1. Init => Paid
  BY DEF Init, Paid
<1>2. TypeOK /\ Paid /\ [Next]_vars => Paid'
  BY PaidStep
<1>3. Paid /\ Recorded => PaidSurvived
  BY DEF Paid, Recorded, SubmissionRecorded, ChallengeRecorded, PaidSurvived, Upheld, OpenChallenges
<1> QED
  BY <1>1, <1>2, <1>3, TypeCorrect, RecordedAlways, PTL DEF Spec

-----------------------------------------------------------------------------
(* Deposits: what was returned for a challenge so far agrees with its status. *)

DepositKinds == {"lock_challenge_deposit", "refund_challenge_deposit", "slash_challenge_deposit"}

\* A locked deposit is on record while the challenge is open, and was moved once it is decided.
DepositTracked(e) ==
    LET c == e.subject
    IN  /\ c \in ChallengeIds
        /\ e.kind = "lock_challenge_deposit" =>
               /\ challenges[c].status # "none"
               /\ challenges[c].status = "open" => challenges[c].deposit = e.amount
               /\ challenges[c].status = "upheld" =>
                      Effect("refund_challenge_deposit", c, e.amount) \in sent
               /\ challenges[c].status = "rejected" =>
                      Effect("slash_challenge_deposit", c, e.amount) \in sent
        /\ e.kind = "refund_challenge_deposit" => challenges[c].status = "upheld"
        /\ e.kind = "slash_challenge_deposit" => challenges[c].status = "rejected"

DepositsTracked == \A e \in sent : e.kind \in DepositKinds => DepositTracked(e)

\* A deposit whose challenge a command leaves alone stays tracked.
LEMMA DepositKept ==
    ASSUME NEW e \in sent, DepositTracked(e), sent \subseteq sent',
           challenges'[e.subject].status = challenges[e.subject].status,
           challenges'[e.subject].deposit = challenges[e.subject].deposit
    PROVE  DepositTracked(e)'
  BY DEF DepositTracked

\* So does every deposit when a command moves none.
LEMMA NoDepositMoved ==
    ASSUME DepositsTracked, sent \subseteq sent', challenges' = challenges,
           \A e \in sent' : e \in sent \/ e.kind \notin DepositKinds
    PROVE  DepositsTracked'
<1> SUFFICES ASSUME NEW e \in sent', e.kind \in DepositKinds
             PROVE  DepositTracked(e)'
  BY DEF DepositsTracked
<1>1. e \in sent /\ DepositTracked(e)
  BY DEF DepositsTracked
<1> QED
  BY <1>1, DepositKept

LEMMA DepositsStep ==
    ASSUME TypeOK, DepositsTracked, [Next]_vars
    PROVE  DepositsTracked'
<1> USE MarketAssumption
<1>1. CASE UNCHANGED vars
  BY <1>1, NoDepositMoved DEF vars
<1>2. ASSUME NEW funded, NEW now, OpenBounty(funded, now) \/ CancelBounty(now)
      PROVE  DepositsTracked'
  BY <1>2, NoDepositMoved DEF OpenBounty, CancelBounty, Commit, Effect, DepositKinds
<1>3. ASSUME NEW s, NEW v, NEW bond, NEW now, SubmitCandidate(s, v, bond, now)
      PROVE  DepositsTracked'
  BY <1>3, NoDepositMoved DEF SubmitCandidate, Commit, Effect, DepositKinds
<1>4. ASSUME NEW s, NEW r, NEW now, VerifyAccepted(s, r, now) \/ VerifyRejected(s, r, now)
      PROVE  DepositsTracked'
  BY <1>4, NoDepositMoved DEF VerifyAccepted, VerifyRejected, Commit, Effect, DepositKinds
<1>5. ASSUME NEW c \in ChallengeIds, NEW s \in SubmissionIds, NEW deposit \in Amounts,
             NEW now \in Times, OpenChallenge(c, s, deposit, now)
      PROVE  DepositsTracked'
  <2>1. /\ sent' = sent \cup {Effect("lock_challenge_deposit", c, deposit)}
        /\ challenges[c].status = "none" /\ ChallengesBut({c})
        /\ challenges'[c].status = "open" /\ challenges'[c].deposit = deposit
    <3>1. sent' = sent \cup {Effect("lock_challenge_deposit", c, deposit)}
      BY <1>5 DEF OpenChallenge, Commit
    <3> QED
      BY <1>5, <3>1, ChallengeMoves
  <2> SUFFICES ASSUME NEW e \in sent', e.kind \in DepositKinds
               PROVE  DepositTracked(e)'
    BY DEF DepositsTracked
  <2>2. CASE e \in sent
    <3>1. DepositTracked(e) /\ e.subject \in ChallengeIds \ {c}
      BY <2>1, <2>2 DEF DepositsTracked, DepositTracked, DepositKinds
    <3> QED
      BY <2>1, <2>2, <3>1, DepositKept DEF ChallengesBut
  <2>3. CASE e = Effect("lock_challenge_deposit", c, deposit)
    BY <2>1, <2>3 DEF Effect, DepositTracked
  <2> QED
    BY <2>1, <2>2, <2>3
<1>6. ASSUME NEW c \in ChallengeIds, NEW r \in SignedOver(ChallengeIds), NEW now \in Times,
             ResolveUpheld(c, r, now)
      PROVE  DepositsTracked'
  <2>0. PICK s, paid : s = challenges[c].submission /\ paid = challenges[c].deposit
    OBVIOUS
  <2>1. /\ sent' = sent \cup {Effect("refund_challenge_deposit", c, paid),
                              Effect("slash_submission_bond", s, submissions[s].bond)}
        /\ challenges[c].status = "open" /\ ChallengesBut({c})
        /\ challenges'[c].status = "upheld"
    <3>1. Upholds(c, s, r)
      BY <1>6, <2>0, UpholdMoves, Zenon
    <3>2. sent' = sent \cup {Effect("refund_challenge_deposit", c, paid),
                             Effect("slash_submission_bond", s, submissions[s].bond)}
      BY <1>6, <2>0 DEF ResolveUpheld, Commit
    <3> QED
      BY <3>1, <3>2 DEF Upholds
  <2> SUFFICES ASSUME NEW e \in sent', e.kind \in DepositKinds
               PROVE  DepositTracked(e)'
    BY DEF DepositsTracked
  <2>2. CASE e \in sent
    <3>1. DepositTracked(e)
      BY <2>2 DEF DepositsTracked
    <3>2. CASE e.subject = c
      BY <2>0, <2>1, <3>1, <3>2 DEF DepositTracked
    <3>3. CASE e.subject # c
      <4>1. e.subject \in ChallengeIds \ {c}
        BY <3>1, <3>3 DEF DepositTracked
      <4> QED
        BY <2>1, <2>2, <3>1, <4>1, DepositKept DEF ChallengesBut
    <3> QED
      BY <3>2, <3>3
  <2>3. CASE e = Effect("refund_challenge_deposit", c, paid)
    BY <2>1, <2>3 DEF Effect, DepositTracked
  <2> QED
    BY <2>1, <2>2, <2>3 DEF Effect, DepositKinds
<1>7. ASSUME NEW c \in ChallengeIds, NEW r \in SignedOver(ChallengeIds), NEW now \in Times,
             ResolveRejected(c, r, now)
      PROVE  DepositsTracked'
  <2>0. PICK paid : paid = challenges[c].deposit
    OBVIOUS
  <2>1. /\ sent' = sent \cup {Effect("slash_challenge_deposit", c, paid)}
        /\ challenges[c].status = "open" /\ ChallengesBut({c})
        /\ challenges'[c].status = "rejected"
    BY <1>7, <2>0, DenyMoves DEF ResolveRejected, Commit
  <2> SUFFICES ASSUME NEW e \in sent', e.kind \in DepositKinds
               PROVE  DepositTracked(e)'
    BY DEF DepositsTracked
  <2>2. CASE e \in sent
    <3>1. DepositTracked(e)
      BY <2>2 DEF DepositsTracked
    <3>2. CASE e.subject = c
      BY <2>0, <2>1, <3>1, <3>2 DEF DepositTracked
    <3>3. CASE e.subject # c
      <4>1. e.subject \in ChallengeIds \ {c}
        BY <3>1, <3>3 DEF DepositTracked
      <4> QED
        BY <2>1, <2>2, <3>1, <4>1, DepositKept DEF ChallengesBut
    <3> QED
      BY <3>2, <3>3
  <2>3. CASE e = Effect("slash_challenge_deposit", c, paid)
    BY <2>1, <2>3 DEF Effect, DepositTracked
  <2> QED
    BY <2>1, <2>2, <2>3
<1>8. ASSUME NEW now \in Times, AdvancePayable(now) \/ AdvanceExpired(now)
      PROVE  DepositsTracked'
  <2>1. /\ challenges' = TimedOut /\ sent \cup TimeoutEffects \subseteq sent'
        /\ \A e \in sent' : e \in sent \cup TimeoutEffects \/ e.kind \notin DepositKinds
    BY <1>8 DEF AdvancePayable, AdvanceExpired, Commit, BondRefunds, Effect, DepositKinds
  <2>2. \A c \in ChallengeIds :
            /\ challenges'[c].status = IF challenges[c].status = "open" THEN "rejected"
                                                                        ELSE challenges[c].status
            /\ challenges[c].status # "open" => challenges'[c].deposit = challenges[c].deposit
    BY <2>1, TimedOutPointwise
  <2>3. \A c \in ChallengeIds : challenges[c].status = "open" =>
            Effect("slash_challenge_deposit", c, challenges[c].deposit) \in sent'
    BY <2>1 DEF TimeoutEffects, OpenChallenges
  <2> SUFFICES ASSUME NEW e \in sent', e.kind \in DepositKinds
               PROVE  DepositTracked(e)'
    BY DEF DepositsTracked
  <2>4. CASE e \in sent
    <3>1. DepositTracked(e) /\ e.subject \in ChallengeIds
      BY <2>4 DEF DepositsTracked, DepositTracked
    <3>2. CASE challenges[e.subject].status = "open"
      BY <2>2, <2>3, <3>1, <3>2 DEF DepositTracked
    <3>3. CASE challenges[e.subject].status # "open"
      BY <2>1, <2>2, <2>4, <3>1, <3>3, DepositKept
    <3> QED
      BY <3>2, <3>3
  <2>5. CASE e \in TimeoutEffects
    <3>1. PICK c \in ChallengeIds : /\ challenges[c].status = "open"
                                    /\ e = Effect("slash_challenge_deposit", c,
                                                  challenges[c].deposit)
      BY <2>5 DEF TimeoutEffects, OpenChallenges
    <3> QED
      BY <2>2, <3>1 DEF Effect, DepositTracked
  <2> QED
    BY <2>1, <2>4, <2>5
<1>9. ASSUME NEW payouts, SettleBounty(payouts)
      PROVE  DepositsTracked'
  BY <1>9, NoDepositMoved DEF SettleBounty, Commit, BondRefunds, Effect, DepositKinds
<1>10. CASE Next
  BY <1>2, <1>3, <1>4, <1>5, <1>6, <1>7, <1>8, <1>9, <1>10
     DEF Next, Submit, Verify, Challenge, Resolve, Advance, Settle
<1> QED
  BY <1>1, <1>10

\* A challenger gets the deposit back when and only when the challenge was upheld, and loses it
\* whole when and only when it was rejected or nobody adjudicated it in time
\* (market.py:624-720, 735-756).
THEOREM DepositsAlwaysFollow == Spec => []DepositsFollowVerdicts
<1>1. Init => DepositsTracked
  BY DEF Init, DepositsTracked
<1>2. TypeOK /\ DepositsTracked /\ [Next]_vars => DepositsTracked'
  BY DepositsStep
<1>3. DepositsTracked => DepositsFollowVerdicts
  <2> SUFFICES ASSUME DepositsTracked, NEW e \in sent, e.kind = "lock_challenge_deposit"
               PROVE  LET refund == Effect("refund_challenge_deposit", e.subject, e.amount)
                          slash == Effect("slash_challenge_deposit", e.subject, e.amount)
                          status == challenges[e.subject].status
                      IN  /\ refund \in sent <=> status = "upheld"
                          /\ slash \in sent <=> status = "rejected"
    BY DEF DepositsFollowVerdicts
  <2> DEFINE refund == Effect("refund_challenge_deposit", e.subject, e.amount)
             slash == Effect("slash_challenge_deposit", e.subject, e.amount)
  <2>1. /\ refund.kind = "refund_challenge_deposit" /\ refund.subject = e.subject
        /\ slash.kind = "slash_challenge_deposit" /\ slash.subject = e.subject
    BY DEF Effect
  <2>2. /\ DepositTracked(e)
        /\ refund \in sent => DepositTracked(refund)
        /\ slash \in sent => DepositTracked(slash)
    BY <2>1 DEF DepositsTracked, DepositKinds
  <2> HIDE DEF refund, slash
  <2>3. /\ refund \in sent => challenges[e.subject].status = "upheld"
        /\ slash \in sent => challenges[e.subject].status = "rejected"
    BY <2>1, <2>2 DEF DepositTracked
  <2> QED
    BY <2>2, <2>3 DEF DepositTracked, refund, slash
<1> QED
  BY <1>1, <1>2, <1>3, TypeCorrect, PTL DEF Spec

-----------------------------------------------------------------------------
(* Bonds: what was returned for a submission so far agrees with the verdicts on it. *)

BondKinds == {"lock_submission_bond", "refund_submission_bond", "slash_submission_bond"}

\* What a bond that is no longer locked became.
BondReturned(s, amount) ==
    Effect(IF Upheld(s) THEN "slash_submission_bond" ELSE "refund_submission_bond",
           s, amount) \in sent

\* A locked bond is on record until it is moved.  One that went back belongs to a candidate nobody
\* can bring down any more.
BondTracked(e) ==
    LET s == e.subject
    IN  /\ s \in SubmissionIds
        /\ submissions[s].status # "none"
        /\ e.kind = "lock_submission_bond" =>
               e.amount = 0 \/ submissions[s].bond = e.amount \/ BondReturned(s, e.amount)
        /\ e.kind = "refund_submission_bond" =>
               ~Upheld(s) /\ (submissions[s].status = "rejected" \/ phase # "open")
        /\ e.kind = "slash_submission_bond" => Upheld(s)

BondsTracked ==
    /\ \A e \in sent : e.kind \in BondKinds => BondTracked(e)
    /\ phase \in Terminal => \A s \in SubmissionIds : Present(s) => submissions[s].bond = 0

\* A bond whose submission a command leaves alone stays tracked.
LEMMA BondKept ==
    ASSUME NEW e \in sent, BondTracked(e), sent \subseteq sent', phase' = "open" => phase = "open",
           submissions'[e.subject].status = submissions[e.subject].status,
           submissions'[e.subject].bond = submissions[e.subject].bond,
           Upheld(e.subject)' <=> Upheld(e.subject)
    PROVE  BondTracked(e)'
  BY DEF BondTracked, BondReturned

\* Which candidates were brought down changes only when a challenge is upheld.
LEMMA UpheldKept ==
    ASSUME \A c \in ChallengeIds :
               /\ challenges'[c].status = "upheld" <=> challenges[c].status = "upheld"
               /\ challenges[c].status = "upheld" =>
                      challenges'[c].submission = challenges[c].submission,
           NEW s
    PROVE  Upheld(s)' <=> Upheld(s)
  BY DEF Upheld

\* So does every bond when a command moves none.
LEMMA NoBondMoved ==
    ASSUME BondsTracked, sent \subseteq sent', phase' = "open" => phase = "open",
           phase' \in Terminal => phase \in Terminal,
           \A s \in SubmissionIds :
               /\ submissions'[s].status = submissions[s].status
               /\ submissions'[s].bond = submissions[s].bond
               /\ Upheld(s)' <=> Upheld(s),
           \A e \in sent' : e \in sent \/ e.kind \notin BondKinds
    PROVE  BondsTracked'
<1>1. ASSUME NEW e \in sent', e.kind \in BondKinds PROVE BondTracked(e)'
  <2>1. e \in sent /\ BondTracked(e) /\ e.subject \in SubmissionIds
    BY <1>1 DEF BondsTracked, BondTracked
  <2> QED
    BY <2>1, BondKept
<1> QED
  BY <1>1 DEF BondsTracked, Present

\* Where a candidate still stands, its bond is the one that was locked.
LEMMA StandingBond ==
    ASSUME Recorded, BondsTracked, NEW e \in sent, e.kind = "lock_submission_bond",
           submissions[e.subject].status # "rejected", phase = "open"
    PROVE  e.amount = 0 \/ submissions[e.subject].bond = e.amount
<1> DEFINE s == e.subject
           back == Effect("refund_submission_bond", s, e.amount)
<1>1. BondTracked(e) /\ s \in SubmissionIds
  BY DEF BondsTracked, BondTracked, BondKinds
<1>2. ~Upheld(s)
  BY <1>1 DEF Upheld, Recorded, ChallengeRecorded
<1>3. back \notin sent
  <2>1. back.kind = "refund_submission_bond" /\ back.subject = s
    BY DEF Effect
  <2> HIDE DEF back
  <2>2. back \in sent => BondTracked(back)
    BY <2>1 DEF BondsTracked, BondKinds
  <2> QED
    BY <2>1, <2>2 DEF BondTracked
<1> QED
  BY <1>1, <1>2, <1>3 DEF BondTracked, BondReturned

\* A verdict against a candidate moves its bond, back or away.
LEMMA BondMoved ==
    ASSUME Recorded, BondsTracked, phase = "open", phase' = "open", sent \subseteq sent',
           NEW s \in SubmissionIds, SubmissionsBut({s}), NEW kind, NEW bond,
           bond = submissions[s].bond, Effect(kind, s, bond) \in sent',
           submissions[s].status \in {"pending", "verified"}, submissions'[s].status = "rejected",
           kind = IF Upheld(s)' THEN "slash_submission_bond" ELSE "refund_submission_bond",
           \A t \in SubmissionIds \ {s} : Upheld(t)' <=> Upheld(t),
           \A e \in sent' : e \in sent \/ e = Effect(kind, s, bond) \/ e.kind \notin BondKinds
    PROVE  BondsTracked'
<1>1. ASSUME NEW e \in sent', e.kind \in BondKinds PROVE BondTracked(e)'
  <2>1. CASE e \in sent /\ e.subject # s
    <3>1. BondTracked(e) /\ e.subject \in SubmissionIds \ {s}
      BY <1>1, <2>1 DEF BondsTracked, BondTracked
    <3> QED
      BY <2>1, <3>1, BondKept DEF SubmissionsBut
  <2>2. CASE e \in sent /\ e.subject = s
    <3>1. BondTracked(e) /\ ~Upheld(s)
      BY <1>1, <2>2 DEF BondsTracked, Upheld, Recorded, ChallengeRecorded
    <3>2. e.kind = "lock_submission_bond"
      BY <1>1, <2>2, <3>1 DEF BondTracked, BondKinds
    <3>3. e.amount = 0 \/ bond = e.amount
      BY <2>2, <3>2, StandingBond
    <3>4. e.amount = 0 \/ BondReturned(s, e.amount)'
      BY <3>3 DEF BondReturned
    <3> QED
      BY <2>2, <3>2, <3>4 DEF BondTracked
  <2>3. CASE e = Effect(kind, s, bond)
    BY <2>3 DEF Effect, BondTracked
  <2> QED
    BY <1>1, <2>1, <2>2, <2>3
<1> QED
  BY <1>1 DEF BondsTracked, Terminal

\* Closing gives back every bond that is still locked.
LEMMA BondsClosed ==
    ASSUME TypeOK, Recorded, Conservation, BondsTracked, ChallengesValid, phase' # "open",
           submissions' = BondsReturned, sent \cup BondRefunds \subseteq sent',
           \A s \in SubmissionIds : Upheld(s)' <=> Upheld(s),
           \A e \in sent' : e \in sent \cup BondRefunds \/ e.kind \notin BondKinds
    PROVE  BondsTracked'
<1>1. \A s \in SubmissionIds : /\ submissions'[s].status = submissions[s].status
                               /\ submissions'[s].bond = 0
                               /\ submissions[s].bond \in Nat
  BY ReturnMoves, RecordTypes DEF Kept, SubmissionRecords
<1>2. \A s \in SubmissionIds : submissions[s].bond > 0 =>
          /\ ~Upheld(s) /\ submissions[s].status # "none"
          /\ Effect("refund_submission_bond", s, submissions[s].bond) \in sent'
  <2> SUFFICES ASSUME NEW s \in SubmissionIds, submissions[s].bond > 0
               PROVE  /\ ~Upheld(s) /\ submissions[s].status # "none"
                      /\ Effect("refund_submission_bond", s, submissions[s].bond) \in sent'
    OBVIOUS
  <2>1. submissions[s].status # "none"
    BY DEF Conservation, Present
  <2>2. submissions[s].status # "rejected"
    BY DEF ChallengesValid
  <2>3. ~Upheld(s)
    BY <2>2 DEF Upheld, Recorded, ChallengeRecorded
  <2> QED
    BY <2>1, <2>3 DEF BondRefunds
<1>3. ASSUME NEW e \in sent', e.kind \in BondKinds PROVE BondTracked(e)'
  <2>1. CASE e \in sent
    <3>1. BondTracked(e) /\ e.amount \in Nat
      BY <1>3, <2>1 DEF BondsTracked, TypeOK
    <3>2. e.kind = "lock_submission_bond" => e.amount = 0 \/ BondReturned(e.subject, e.amount)'
      <4>1. CASE submissions[e.subject].bond = e.amount
        BY <1>2, <3>1, <4>1 DEF BondTracked, BondReturned
      <4>2. CASE BondReturned(e.subject, e.amount)
        BY <3>1, <4>2 DEF BondTracked, BondReturned
      <4> QED
        BY <3>1, <4>1, <4>2 DEF BondTracked
    <3> QED
      BY <1>1, <3>1, <3>2 DEF BondTracked
  <2>2. CASE e \in BondRefunds
    <3>1. PICK s \in SubmissionIds :
              /\ submissions[s].bond > 0
              /\ e = Effect("refund_submission_bond", s, submissions[s].bond)
      BY <2>2 DEF BondRefunds
    <3>2. e.kind = "refund_submission_bond" /\ e.subject = s
      BY <3>1 DEF Effect
    <3> QED
      BY <1>1, <1>2, <3>1, <3>2 DEF BondTracked
  <2> QED
    BY <1>3, <2>1, <2>2
<1> QED
  BY <1>1, <1>3 DEF BondsTracked

LEMMA BondsStep ==
    ASSUME TypeOK, Recorded, Conservation, BondsTracked, [Next]_vars
    PROVE  BondsTracked'
<1> USE MarketAssumption
<1>1. CASE UNCHANGED vars
  BY <1>1, NoBondMoved, UpheldKept DEF vars
<1>2. ASSUME NEW funded, NEW now, OpenBounty(funded, now)
      PROVE  BondsTracked'
  <2>1. \A e \in sent : e.kind \notin BondKinds
    BY <1>2 DEF OpenBounty, CanOpen, Commit, ValidState, PhaseValid, NoActivity, Present,
                BondsTracked, BondTracked
  <2> QED
    BY <1>2, <2>1 DEF OpenBounty, Commit, Effect, BondKinds, BondsTracked, Terminal
<1>3. ASSUME NEW s \in SubmissionIds, NEW v \in Verifiers, NEW bond \in Amounts,
             NEW now \in Times, SubmitCandidate(s, v, bond, now)
      PROVE  BondsTracked'
  <2>1. /\ sent' = sent \cup {Effect("lock_submission_bond", s, bond)}
        /\ challenges' = challenges /\ phase' = phase
    BY <1>3 DEF SubmitCandidate, Commit
  <2>2. /\ submissions[s].status = "none" /\ SubmissionsBut({s}) /\ phase = "open"
        /\ submissions'[s].status = "pending" /\ submissions'[s].bond = bond
    BY <1>3, SubmitMoves
  <2>3. \A t : Upheld(t)' <=> Upheld(t)
    BY <2>1 DEF Upheld
  <2>4. ASSUME NEW e \in sent', e.kind \in BondKinds PROVE BondTracked(e)'
    <3>1. CASE e \in sent
      <4>1. BondTracked(e) /\ e.subject \in SubmissionIds \ {s}
        BY <2>2, <2>4, <3>1 DEF BondsTracked, BondTracked
      <4> QED
        BY <2>1, <2>2, <2>3, <3>1, <4>1, BondKept DEF SubmissionsBut
    <3>2. CASE e = Effect("lock_submission_bond", s, bond)
      BY <2>2, <3>2 DEF Effect, BondTracked
    <3> QED
      BY <2>1, <3>1, <3>2
  <2> QED
    BY <2>1, <2>2, <2>4 DEF BondsTracked, Terminal
<1>4. ASSUME NEW s \in SubmissionIds, NEW r \in SignedOver(SubmissionIds), NEW now \in Times,
             VerifyAccepted(s, r, now)
      PROVE  BondsTracked'
  <2>1. sent' = sent /\ challenges' = challenges /\ phase' = phase
    BY <1>4 DEF VerifyAccepted, Commit
  <2>2. /\ submissions[s].status = "pending" /\ SubmissionsBut({s}) /\ phase = "open"
        /\ submissions'[s].status = "verified" /\ submissions'[s].bond = submissions[s].bond
    BY <1>4, AcceptMoves
  <2>3. \A t : Upheld(t)' <=> Upheld(t)
    BY <2>1 DEF Upheld
  <2>4. ASSUME NEW e \in sent', e.kind \in BondKinds PROVE BondTracked(e)'
    <3>1. e \in sent /\ BondTracked(e)
      BY <2>1, <2>4 DEF BondsTracked
    <3>2. CASE e.subject = s
      BY <2>1, <2>2, <2>3, <3>1, <3>2 DEF BondTracked, BondReturned
    <3>3. CASE e.subject # s
      <4>1. e.subject \in SubmissionIds \ {s}
        BY <3>1, <3>3 DEF BondTracked
      <4> QED
        BY <2>1, <2>2, <2>3, <3>1, <4>1, BondKept DEF SubmissionsBut
    <3> QED
      BY <3>2, <3>3
  <2> QED
    BY <2>1, <2>2, <2>4 DEF BondsTracked, Terminal
<1>5. ASSUME NEW s \in SubmissionIds, NEW r \in SignedOver(SubmissionIds), NEW now \in Times,
             VerifyRejected(s, r, now)
      PROVE  BondsTracked'
  <2>0. PICK bond : bond = submissions[s].bond
    OBVIOUS
  <2>1. /\ sent' = sent \cup {Effect("refund_submission_bond", s, bond)}
        /\ challenges' = challenges /\ phase' = phase
    BY <1>5, <2>0 DEF VerifyRejected, Commit
  <2>2. /\ submissions[s].status = "pending" /\ SubmissionsBut({s}) /\ phase = "open"
        /\ submissions'[s].status = "rejected"
    BY <1>5, RejectMoves
  <2>3. \A t : Upheld(t)' <=> Upheld(t)
    BY <2>1 DEF Upheld
  <2>4. ~Upheld(s)
    BY <2>2 DEF Upheld, Recorded, ChallengeRecorded
  <2> QED
    BY <2>0, <2>1, <2>2, <2>3, <2>4, BondMoved
<1>6. ASSUME NEW c \in ChallengeIds, NEW s \in SubmissionIds, NEW deposit \in Amounts,
             NEW now \in Times, OpenChallenge(c, s, deposit, now)
      PROVE  BondsTracked'
  <2>1. /\ sent' = sent \cup {Effect("lock_challenge_deposit", c, deposit)}
        /\ submissions' = submissions /\ phase' = phase
    BY <1>6 DEF OpenChallenge, Commit
  <2>2. \A d \in ChallengeIds :
            /\ challenges'[d].status = "upheld" <=> challenges[d].status = "upheld"
            /\ challenges[d].status = "upheld" => challenges'[d] = challenges[d]
    BY <1>6, ChallengeMoves DEF ChallengesBut
  <2>3. \A t : Upheld(t)' <=> Upheld(t)
    BY <2>2, UpheldKept
  <2> QED
    BY <2>1, <2>3, NoBondMoved DEF Effect, BondKinds
<1>7. ASSUME NEW c \in ChallengeIds, NEW r \in SignedOver(ChallengeIds), NEW now \in Times,
             ResolveUpheld(c, r, now)
      PROVE  BondsTracked'
  <2>0. PICK s, bond, paid : /\ s = challenges[c].submission
                             /\ bond = submissions[s].bond
                             /\ paid = challenges[c].deposit
    OBVIOUS
  <2>1. sent' = sent \cup {Effect("refund_challenge_deposit", c, paid),
                           Effect("slash_submission_bond", s, bond)}
        /\ phase' = phase
    BY <1>7, <2>0 DEF ResolveUpheld, Commit
  <2>2. /\ challenges[c].status = "open" /\ ChallengesBut({c})
        /\ challenges'[c].status = "upheld" /\ challenges'[c].submission = s
        /\ s \in SubmissionIds /\ SubmissionsBut({s})
        /\ submissions'[s].status = "rejected" /\ phase = "open"
    <3>1. Upholds(c, s, r)
      BY <1>7, <2>0, UpholdMoves, Zenon
    <3> QED
      BY <3>1 DEF Upholds
  <2>3. submissions[s].status = "verified"
    BY <2>0, <2>2 DEF Recorded, ChallengeRecorded
  <2>4. Upheld(s)'
    BY <2>2 DEF Upheld
  <2>5. \A t \in SubmissionIds \ {s} : Upheld(t)' <=> Upheld(t)
    BY <2>0, <2>2 DEF Upheld, ChallengesBut
  <2>6. \A e \in sent' : \/ e \in sent
                         \/ e = Effect("slash_submission_bond", s, bond)
                         \/ e.kind \notin BondKinds
    BY <2>1 DEF Effect, BondKinds
  <2> QED
    BY <2>0, <2>1, <2>2, <2>3, <2>4, <2>5, <2>6, BondMoved
<1>8. ASSUME NEW c \in ChallengeIds, NEW r \in SignedOver(ChallengeIds), NEW now \in Times,
             ResolveRejected(c, r, now)
      PROVE  BondsTracked'
  <2>0. PICK paid : paid = challenges[c].deposit
    OBVIOUS
  <2>1. /\ sent' = sent \cup {Effect("slash_challenge_deposit", c, paid)}
        /\ submissions' = submissions /\ phase' = phase
    BY <1>8, <2>0 DEF ResolveRejected, Commit
  <2>2. \A d \in ChallengeIds :
            /\ challenges'[d].status = "upheld" <=> challenges[d].status = "upheld"
            /\ challenges[d].status = "upheld" => challenges'[d] = challenges[d]
    BY <1>8, DenyMoves DEF ChallengesBut
  <2>3. \A t : Upheld(t)' <=> Upheld(t)
    BY <2>2, UpheldKept
  <2> QED
    BY <2>1, <2>3, NoBondMoved DEF Effect, BondKinds
<1>9. ASSUME NEW now \in Times, AdvancePayable(now) \/ AdvanceExpired(now)
      PROVE  BondsTracked'
  <2>1. challenges' = TimedOut /\ ChallengesValid
    BY <1>9 DEF AdvancePayable, AdvanceExpired, Commit, ValidState
  <2>2. \A t : Upheld(t)' <=> Upheld(t)
    BY <2>1, TimeoutMoves, UpheldKept
  <2>3. CASE AdvancePayable(now)
    BY <2>2, <2>3, NoBondMoved
       DEF AdvancePayable, Commit, TimeoutEffects, Effect, BondKinds, Terminal
  <2>4. CASE AdvanceExpired(now)
    <3>1. /\ phase' # "open" /\ submissions' = BondsReturned
          /\ sent \cup BondRefunds \subseteq sent'
          /\ \A e \in sent' : e \in sent \cup BondRefunds \/ e.kind \notin BondKinds
      BY <2>4 DEF AdvanceExpired, Commit, TimeoutEffects, Effect, BondKinds
    <3> QED
      BY <2>1, <2>2, <3>1, BondsClosed
  <2> QED
    BY <1>9, <2>3, <2>4
<1>10. ASSUME NEW payouts, SettleBounty(payouts)
       PROVE  BondsTracked'
  <2>1. /\ phase' # "open" /\ submissions' = BondsReturned /\ challenges' = challenges
        /\ ChallengesValid
        /\ sent \cup BondRefunds \subseteq sent'
        /\ \A e \in sent' : e \in sent \cup BondRefunds \/ e.kind \notin BondKinds
    BY <1>10 DEF SettleBounty, Commit, ValidState, Effect, BondKinds
  <2>2. \A t : Upheld(t)' <=> Upheld(t)
    BY <2>1 DEF Upheld
  <2> QED
    BY <2>1, <2>2, BondsClosed
<1>11. ASSUME NEW now, CancelBounty(now)
       PROVE  BondsTracked'
  <2>1. \A e \in sent : e.kind \notin BondKinds
    BY <1>11 DEF CancelBounty, CanCancel, Present, BondsTracked, BondTracked
  <2> QED
    BY <1>11, <2>1
       DEF CancelBounty, CanCancel, Present, Commit, Effect, BondKinds, BondsTracked
<1>12. CASE Next
  BY <1>2, <1>3, <1>4, <1>5, <1>6, <1>7, <1>8, <1>9, <1>10, <1>11, <1>12
     DEF Next, Submit, Verify, Challenge, Resolve, Advance, Settle
<1> QED
  BY <1>1, <1>12

\* A bond is slashed when and only when a challenge to its submission was upheld, and every other
\* bond of a closed bounty went back whole (market.py:512-560, 624-720, 790-872).
THEOREM BondsAlwaysFollow == Spec => []BondsFollowVerdicts
<1>1. Init => BondsTracked
  BY DEF Init, BondsTracked, Terminal
<1>2. TypeOK /\ Recorded /\ Conservation /\ BondsTracked /\ [Next]_vars => BondsTracked'
  BY BondsStep
<1>3. TypeOK /\ BondsTracked => BondsFollowVerdicts
  <2> SUFFICES ASSUME TypeOK, BondsTracked PROVE BondsFollowVerdicts
    OBVIOUS
  <2>1. \A e \in sent : e.kind \in BondKinds => BondTracked(e)
    BY DEF BondsTracked
  <2>2. ASSUME phase \in Terminal, NEW e \in sent, e.kind = "lock_submission_bond", e.amount > 0
        PROVE  BondReturned(e.subject, e.amount)
    BY <2>1, <2>2 DEF BondsTracked, BondTracked, BondKinds, Present
  <2> QED
    BY <2>1, <2>2 DEF BondsFollowVerdicts, BondTracked, BondKinds, BondReturned
<1> QED
  BY <1>1, <1>2, <1>3, TypeCorrect, RecordedAlways, Conserved, PTL DEF Spec

\* Every stake follows the verdict about it (market.py:640-850).
THEOREM StakesAlwaysFollow == Spec => []StakesFollowVerdicts
  BY BondsAlwaysFollow, DepositsAlwaysFollow, PTL DEF StakesFollowVerdicts

-----------------------------------------------------------------------------
(* The function under every call (MarketCalls): what the absence of a refusal says. *)

\* Nothing is found by any of a list of checks.
Clear(checks) == \A i \in DOMAIN checks : ~checks[i][2]

\* With no failed check the function is the handler, and with one it refuses (market.py:369).
LEMMA Deciding ==
    ASSUME NEW b, NEW command, NEW evidence
    PROVE  /\ Clear(C!Checks(b, command, evidence)) =>
                  C!apply_market_command(b, command, evidence) = C!Handled(b, command)
           /\ ~Clear(C!Checks(b, command, evidence)) =>
                  C!apply_market_command(b, command, evidence).kind = "reject"
  BY DEF Clear, C!apply_market_command, C!Rejected

\* Something that is a sequence, whatever its elements.
IsList(s) == \E S : s \in Seq(S)

\* Checks made one after the other find nothing when each finds nothing.
LEMMA ClearBoth ==
    ASSUME NEW s, NEW t, IsList(s), IsList(t)
    PROVE  Clear(s \o t) <=> Clear(s) /\ Clear(t)
<1>1. PICK S : s \in Seq(S)
  BY DEF IsList
<1>2. PICK T : t \in Seq(T)
  BY DEF IsList
<1>3. /\ DOMAIN s = 1..Len(s) /\ DOMAIN t = 1..Len(t) /\ Len(s) \in Nat /\ Len(t) \in Nat
      /\ DOMAIN (s \o t) = 1..(Len(s) + Len(t))
  BY <1>1, <1>2
<1>4. /\ \A i \in 1..Len(s) : (s \o t)[i] = s[i]
      /\ \A i \in 1..Len(t) : (s \o t)[Len(s) + i] = t[i]
  BY <1>1, <1>2
<1>5. \A i \in 1..(Len(s) + Len(t)) : i \in 1..Len(s) \/ i - Len(s) \in 1..Len(t)
  BY <1>3
<1>6. ASSUME Clear(s), Clear(t), NEW i \in 1..(Len(s) + Len(t)) PROVE ~(s \o t)[i][2]
  <2>1. CASE i \in 1..Len(s)
    BY <1>3, <1>4, <1>6, <2>1 DEF Clear
  <2>2. CASE i - Len(s) \in 1..Len(t)
    <3>1. i = Len(s) + (i - Len(s))
      BY <1>3, <1>6
    <3>2. (s \o t)[i] = t[i - Len(s)]
      BY <1>4, <2>2, <3>1
    <3> QED
      BY <1>3, <1>6, <2>2, <3>2 DEF Clear
  <2> QED
    BY <1>5, <1>6, <2>1, <2>2
<1>7. ASSUME Clear(s \o t) PROVE Clear(s) /\ Clear(t)
  <2>1. \A i \in 1..Len(s) : i \in 1..(Len(s) + Len(t))
    BY <1>3
  <2>2. \A i \in 1..Len(t) : Len(s) + i \in 1..(Len(s) + Len(t))
    BY <1>3
  <2> QED
    BY <1>3, <1>4, <1>7, <2>1, <2>2 DEF Clear
<1> QED
  BY <1>3, <1>6, <1>7 DEF Clear

\* What holds of a command that the checks before its handler let through.
LEMMA CommonClear ==
    ASSUME NEW b, NEW command, NEW evidence
    PROVE  /\ IsList(C!CommonChecks(b, command, evidence))
           /\ Clear(C!CommonChecks(b, command, evidence)) <=>
                  /\ C!market_state_violations(b) = {}
                  /\ command.form # "malformed"
                  /\ C!EvidenceValid(evidence)
                  /\ ~(/\ command.kind \in C!Verdicts
                       /\ command.receipt \in C!ToSet(evidence)
                       /\ ~C!Bound(b, command, command.receipt))
                  /\ command.id \notin b.processed
<1> DEFINE checks == C!CommonChecks(b, command, evidence)
<1>1. IsList(checks)
  <2>1. checks \in Seq({checks[1], checks[2], checks[3], checks[4], checks[5]})
    BY DEF C!CommonChecks
  <2> QED
    BY <2>1 DEF IsList
<1>2. DOMAIN checks = 1..5
  BY DEF C!CommonChecks
<1>3. Clear(checks) <=>
          ~checks[1][2] /\ ~checks[2][2] /\ ~checks[3][2] /\ ~checks[4][2] /\ ~checks[5][2]
  <2> HIDE DEF checks
  <2>1. 1..5 = {1, 2, 3, 4, 5}
    OBVIOUS
  <2> QED
    BY <1>2, <2>1, Zenon DEF Clear
<1>4. /\ checks[1][2] = (C!market_state_violations(b) # {})
      /\ checks[2][2] = (command.form = "malformed")
      /\ checks[3][2] = ~C!EvidenceValid(evidence)
      /\ checks[4][2] = (/\ command.kind \in C!Verdicts
                         /\ command.receipt \in C!ToSet(evidence)
                         /\ ~C!Bound(b, command, command.receipt))
      /\ checks[5][2] = (command.id \in b.processed)
  BY DEF C!CommonChecks
<1> QED
  BY <1>1, <1>3, <1>4

\* What holds of a submission that is not refused.
LEMMA SubmitClear ==
    ASSUME NEW b, NEW command
    PROVE  Clear(C!SubmitChecks(b, command)) =>
           /\ b.phase = "open"
           /\ ~(command.now > Deadline)
           /\ command.submission \notin C!Present(b)
           /\ command.verifier \in AcceptedVerifiers
           /\ ~(command.bond < C!Larger(MinSubmissionBond, PolicyMinBond))
<1> DEFINE checks == C!SubmitChecks(b, command)
<1>1. DOMAIN checks = 1..8
  BY DEF C!SubmitChecks
<1>2. /\ checks[2][2] = (b.phase # "open")
      /\ checks[3][2] = (command.now > Deadline)
      /\ checks[4][2] = (command.submission \in C!Present(b))
      /\ checks[6][2] = (command.verifier \notin AcceptedVerifiers)
      /\ checks[8][2] = (command.bond < C!Larger(MinSubmissionBond, PolicyMinBond))
  BY DEF C!SubmitChecks
<1> HIDE DEF checks
<1>3. Clear(checks) =>
          ~checks[2][2] /\ ~checks[3][2] /\ ~checks[4][2] /\ ~checks[6][2] /\ ~checks[8][2]
  BY <1>1 DEF Clear
<1> QED
  BY <1>2, <1>3 DEF checks

\* What a challenge meets when it is not refused, and that this is all it must meet.
LEMMA ChallengeClear ==
    ASSUME NEW b, NEW command
    PROVE  /\ IsList(C!ChallengeChecks(b, command))
           /\ Clear(C!ChallengeChecks(b, command)) <=>
                  /\ command.form # "refused by the handler"
                  /\ b.phase = "open"
                  /\ ~(command.now > C!ChallengeDeadline)
                  /\ command.challenge \notin C!Filed(b)
                  /\ b.submissions[command.submission].status # "none"
                  /\ b.submissions[command.submission].status = "verified"
                  /\ ~\E c \in C!Open(b) : b.challenges[c].submission = command.submission
                  /\ command.finding \in SlashableFindings
                  /\ command.evidenced
                  /\ ~(command.deposit < MinChallengeDeposit)
<1> DEFINE checks == C!ChallengeChecks(b, command)
<1>1. IsList(checks)
  <2>1. checks \in Seq({checks[1], checks[2], checks[3], checks[4], checks[5],
                        checks[6], checks[7], checks[8], checks[9], checks[10]})
    BY DEF C!ChallengeChecks
  <2> QED
    BY <2>1 DEF IsList
<1>2. DOMAIN checks = 1..10
  BY DEF C!ChallengeChecks
<1>3. Clear(checks) <=>
          /\ ~checks[1][2] /\ ~checks[2][2] /\ ~checks[3][2] /\ ~checks[4][2] /\ ~checks[5][2]
          /\ ~checks[6][2] /\ ~checks[7][2] /\ ~checks[8][2] /\ ~checks[9][2] /\ ~checks[10][2]
  <2> HIDE DEF checks
  <2>1. 1..10 = {1, 2, 3, 4, 5, 6, 7, 8, 9, 10}
    OBVIOUS
  <2> QED
    BY <1>2, <2>1, Zenon DEF Clear
<1>4. /\ checks[1][2] = (command.form = "refused by the handler")
      /\ checks[2][2] = (b.phase # "open")
      /\ checks[3][2] = (command.now > C!ChallengeDeadline)
      /\ checks[4][2] = (command.challenge \in C!Filed(b))
      /\ checks[5][2] = (b.submissions[command.submission].status = "none")
  BY DEF C!ChallengeChecks
<1>5. /\ checks[6][2] = (b.submissions[command.submission].status # "verified")
      /\ checks[7][2] = (\E c \in C!Open(b) : b.challenges[c].submission = command.submission)
      /\ checks[8][2] = (command.finding \notin SlashableFindings)
      /\ checks[9][2] = ~command.evidenced
      /\ checks[10][2] = (command.deposit < MinChallengeDeposit)
  BY DEF C!ChallengeChecks
<1> HIDE DEF checks
<1>6. Clear(checks) <=>
                  /\ command.form # "refused by the handler"
                  /\ b.phase = "open"
                  /\ ~(command.now > C!ChallengeDeadline)
                  /\ command.challenge \notin C!Filed(b)
                  /\ b.submissions[command.submission].status # "none"
                  /\ b.submissions[command.submission].status = "verified"
                  /\ ~\E c \in C!Open(b) : b.challenges[c].submission = command.submission
                  /\ command.finding \in SlashableFindings
                  /\ command.evidenced
                  /\ ~(command.deposit < MinChallengeDeposit)
  BY <1>3, <1>4, <1>5, Zenon
<1> QED
  BY <1>1, <1>6 DEF checks

\* What holds of a verdict on a submission that is not refused.
LEMMA VerifyClear ==
    ASSUME NEW b, NEW command, NEW evidence
    PROVE  Clear(C!VerifyChecks(b, command, evidence)) =>
           /\ b.phase = "open"
           /\ ~(command.now > C!ChallengeDeadline)
           /\ b.submissions[command.submission].status = "pending"
           /\ command.verifier = b.submissions[command.submission].verifier
           /\ command.receipt \in C!ToSet(evidence)
           /\ command.verifier \in AcceptedVerifiers
<1> DEFINE checks == C!VerifyChecks(b, command, evidence)
<1>1. DOMAIN checks = 1..8
  BY DEF C!VerifyChecks
<1>2. /\ checks[2][2] = (b.phase # "open")
      /\ checks[3][2] = (command.now > C!ChallengeDeadline)
      /\ checks[5][2] = (b.submissions[command.submission].status # "pending")
      /\ checks[6][2] = (command.verifier # b.submissions[command.submission].verifier)
      /\ checks[7][2] = (command.receipt \notin C!ToSet(evidence))
      /\ checks[8][2] = (command.verifier \notin AcceptedVerifiers)
  BY DEF C!VerifyChecks
<1> HIDE DEF checks
<1>3. Clear(checks) =>
          /\ ~checks[2][2] /\ ~checks[3][2] /\ ~checks[5][2]
          /\ ~checks[6][2] /\ ~checks[7][2] /\ ~checks[8][2]
  BY <1>1 DEF Clear
<1> QED
  BY <1>2, <1>3 DEF checks

\* What holds of a verdict on a challenge that is not refused.
LEMMA ResolveClear ==
    ASSUME NEW b, NEW command, NEW evidence
    PROVE  Clear(C!ResolveChecks(b, command, evidence)) =>
           /\ b.phase = "open"
           /\ b.challenges[command.challenge].status = "open"
           /\ ~(command.now > C!ResolutionDeadline(b.challenges[command.challenge]))
           /\ command.verifier \in AcceptedVerifiers
           /\ command.receipt \in C!ToSet(evidence)
<1> DEFINE checks == C!ResolveChecks(b, command, evidence)
<1>1. DOMAIN checks = 1..7
  BY DEF C!ResolveChecks
<1>2. /\ checks[2][2] = (b.phase # "open")
      /\ checks[4][2] = (b.challenges[command.challenge].status # "open")
      /\ checks[5][2] = (command.now > C!ResolutionDeadline(b.challenges[command.challenge]))
      /\ checks[6][2] = (command.verifier \notin AcceptedVerifiers)
      /\ checks[7][2] = (command.receipt \notin C!ToSet(evidence))
  BY DEF C!ResolveChecks
<1> HIDE DEF checks
<1>3. Clear(checks) =>
          ~checks[2][2] /\ ~checks[4][2] /\ ~checks[5][2] /\ ~checks[6][2] /\ ~checks[7][2]
  BY <1>1 DEF Clear
<1> QED
  BY <1>2, <1>3 DEF checks

\* The other checks of the handlers with evidence are lists too.
LEMMA Lists ==
    ASSUME NEW b, NEW command, NEW evidence
    PROVE  /\ IsList(C!SubmitChecks(b, command))
           /\ IsList(C!VerifyChecks(b, command, evidence))
           /\ IsList(C!ResolveChecks(b, command, evidence))
<1>1. IsList(C!SubmitChecks(b, command))
  <2> DEFINE checks == C!SubmitChecks(b, command)
  <2>1. checks \in Seq({checks[1], checks[2], checks[3], checks[4], checks[5],
                        checks[6], checks[7], checks[8]})
    BY DEF C!SubmitChecks
  <2> QED
    BY <2>1 DEF IsList
<1>2. IsList(C!VerifyChecks(b, command, evidence))
  <2> DEFINE checks == C!VerifyChecks(b, command, evidence)
  <2>1. checks \in Seq({checks[1], checks[2], checks[3], checks[4], checks[5],
                        checks[6], checks[7], checks[8]})
    BY DEF C!VerifyChecks
  <2> QED
    BY <2>1 DEF IsList
<1>3. IsList(C!ResolveChecks(b, command, evidence))
  <2> DEFINE checks == C!ResolveChecks(b, command, evidence)
  <2>1. checks \in Seq({checks[1], checks[2], checks[3], checks[4], checks[5],
                        checks[6], checks[7]})
    BY DEF C!ResolveChecks
  <2> QED
    BY <2>1 DEF IsList
<1> QED
  BY <1>1, <1>2, <1>3

-----------------------------------------------------------------------------
(* market_state_violations, condition by condition. *)

\* No reference dangles, exactly when none of the three rules finds one.
LEMMA ReferencesClear ==
    ASSUME NEW b
    PROVE  C!ReferenceViolations(b) = {} <=>
               /\ \A c \in C!Filed(b) : b.challenges[c].submission \in C!Present(b)
               /\ b.payable \subseteq C!Present(b)
               /\ (b.payable \cap C!Present(b)) \ C!Verified(b) = {}
<1> DEFINE rules ==
    [challenge_unknown_submission |->
         \E c \in C!Filed(b) : b.challenges[c].submission \notin C!Present(b),
     payable_unknown_submission |-> ~(b.payable \subseteq C!Present(b)),
     payable_submission_not_verified |-> (b.payable \cap C!Present(b)) \ C!Verified(b) # {}]
<1>1. C!ReferenceViolations(b) = {code \in DOMAIN rules : rules[code]}
  BY DEF C!ReferenceViolations, C!Found
<1>2. DOMAIN rules = {"challenge_unknown_submission", "payable_unknown_submission",
                      "payable_submission_not_verified"}
  OBVIOUS
<1>3. /\ rules["challenge_unknown_submission"] =
             (\E c \in C!Filed(b) : b.challenges[c].submission \notin C!Present(b))
      /\ rules["payable_unknown_submission"] = (~(b.payable \subseteq C!Present(b)))
      /\ rules["payable_submission_not_verified"] =
             ((b.payable \cap C!Present(b)) \ C!Verified(b) # {})
  OBVIOUS
<1> HIDE DEF rules
<1>4. C!ReferenceViolations(b) = {} <=>
         /\ ~rules["challenge_unknown_submission"]
         /\ ~rules["payable_unknown_submission"]
         /\ ~rules["payable_submission_not_verified"]
  BY <1>1, <1>2, Zenon
<1> QED
  BY <1>3, <1>4

\* The same for the five rules about challenges and deposits.
LEMMA ChallengesClear ==
    ASSUME NEW b
    PROVE  C!ChallengeViolations(b) = {} <=>
               /\ \A c, d \in C!Open(b) :
                      c # d => b.challenges[c].submission # b.challenges[d].submission
               /\ ~(C!Open(b) # {} /\ b.phase # "open")
               /\ \A c \in C!Open(b) : b.challenges[c].deposit # 0
               /\ \A c \in C!Filed(b) \ C!Open(b) : b.challenges[c].deposit = 0
               /\ \A s \in C!Present(b) :
                      b.submissions[s].status = "rejected" => b.submissions[s].bond = 0
<1> DEFINE rules ==
    [multiple_open_challenges |-> \E c, d \in C!Open(b) :
         c # d /\ b.challenges[c].submission = b.challenges[d].submission,
     open_challenge_outside_open_phase |-> C!Open(b) # {} /\ b.phase # "open",
     open_challenge_without_deposit |-> \E c \in C!Open(b) : b.challenges[c].deposit = 0,
     resolved_challenge_retains_deposit |->
          \E c \in C!Filed(b) \ C!Open(b) : b.challenges[c].deposit # 0,
     rejected_submission_retains_bond |-> \E s \in C!Present(b) :
         b.submissions[s].status = "rejected" /\ b.submissions[s].bond # 0]
<1>1. C!ChallengeViolations(b) = {code \in DOMAIN rules : rules[code]}
  BY DEF C!ChallengeViolations, C!Found
<1>2. DOMAIN rules = {"multiple_open_challenges", "open_challenge_outside_open_phase",
                      "open_challenge_without_deposit", "resolved_challenge_retains_deposit",
                      "rejected_submission_retains_bond"}
  OBVIOUS
<1>3. /\ rules["multiple_open_challenges"] = (\E c, d \in C!Open(b) :
         c # d /\ b.challenges[c].submission = b.challenges[d].submission)
      /\ rules["open_challenge_outside_open_phase"] = (C!Open(b) # {} /\ b.phase # "open")
      /\ rules["open_challenge_without_deposit"] =
             (\E c \in C!Open(b) : b.challenges[c].deposit = 0)
      /\ rules["resolved_challenge_retains_deposit"] =
             (\E c \in C!Filed(b) \ C!Open(b) : b.challenges[c].deposit # 0)
      /\ rules["rejected_submission_retains_bond"] = (\E s \in C!Present(b) :
         b.submissions[s].status = "rejected" /\ b.submissions[s].bond # 0)
  OBVIOUS
<1> HIDE DEF rules
<1>4. C!ChallengeViolations(b) = {} <=>
         /\ ~rules["multiple_open_challenges"]
         /\ ~rules["open_challenge_outside_open_phase"]
         /\ ~rules["open_challenge_without_deposit"]
         /\ ~rules["resolved_challenge_retains_deposit"]
         /\ ~rules["rejected_submission_retains_bond"]
  BY <1>1, <1>2, Zenon
<1> QED
  BY <1>3, <1>4

\* The same for the rules of the open phase.
LEMMA OpenPhaseClear ==
    ASSUME NEW b, b.phase = "open"
    PROVE  C!PhaseViolations(b) = {} <=>
               /\ b.escrow # 0
               /\ b.payable = {}
               /\ b.settlement = None
<1> DEFINE rules ==
    [open_without_escrow |-> b.escrow = 0,
     open_has_payable_ids |-> b.payable # {},
     open_has_settlement |-> b.settlement # None]
<1>1. C!PhaseViolations(b) = {code \in DOMAIN rules : rules[code]}
  BY DEF C!PhaseViolations, C!Found
<1>2. DOMAIN rules = {"open_without_escrow", "open_has_payable_ids", "open_has_settlement"}
  OBVIOUS
<1>3. /\ rules["open_without_escrow"] = (b.escrow = 0)
      /\ rules["open_has_payable_ids"] = (b.payable # {})
      /\ rules["open_has_settlement"] = (b.settlement # None)
  OBVIOUS
<1> HIDE DEF rules
<1>4. C!PhaseViolations(b) = {} <=>
         /\ ~rules["open_without_escrow"]
         /\ ~rules["open_has_payable_ids"]
         /\ ~rules["open_has_settlement"]
  BY <1>1, <1>2, Zenon
<1> QED
  BY <1>3, <1>4

\* The same for the rules about bounties that have ended.
LEMMA TerminalsClear ==
    ASSUME NEW b
    PROVE  C!TerminalViolations(b) = {} <=>
               /\ ~(b.phase # "settled" /\ b.settlement # None)
               /\ ~(b.phase \in C!Terminal /\ \E s \in C!Present(b) : b.submissions[s].bond # 0)
               /\ ~(b.phase \in C!Terminal /\ \E c \in C!Filed(b) : b.challenges[c].deposit # 0)
               /\ ~(b.phase \in C!Terminal /\ C!Open(b) # {})
<1> DEFINE rules ==
    [non_settled_has_settlement |-> b.phase # "settled" /\ b.settlement # None,
     terminal_retains_bond |->
          b.phase \in C!Terminal /\ \E s \in C!Present(b) : b.submissions[s].bond # 0,
     terminal_retains_deposit |->
          b.phase \in C!Terminal /\ \E c \in C!Filed(b) : b.challenges[c].deposit # 0,
     terminal_has_open_challenge |-> b.phase \in C!Terminal /\ C!Open(b) # {}]
<1>1. C!TerminalViolations(b) = {code \in DOMAIN rules : rules[code]}
  BY DEF C!TerminalViolations, C!Found
<1>2. DOMAIN rules = {"non_settled_has_settlement", "terminal_retains_bond",
                      "terminal_retains_deposit", "terminal_has_open_challenge"}
  OBVIOUS
<1>3. /\ rules["non_settled_has_settlement"] = (b.phase # "settled" /\ b.settlement # None)
      /\ rules["terminal_retains_bond"] =
             (b.phase \in C!Terminal /\ \E s \in C!Present(b) : b.submissions[s].bond # 0)
      /\ rules["terminal_retains_deposit"] =
             (b.phase \in C!Terminal /\ \E c \in C!Filed(b) : b.challenges[c].deposit # 0)
      /\ rules["terminal_has_open_challenge"] = (b.phase \in C!Terminal /\ C!Open(b) # {})
  OBVIOUS
<1> HIDE DEF rules
<1>4. C!TerminalViolations(b) = {} <=>
         /\ ~rules["non_settled_has_settlement"]
         /\ ~rules["terminal_retains_bond"]
         /\ ~rules["terminal_retains_deposit"]
         /\ ~rules["terminal_has_open_challenge"]
  BY <1>1, <1>2, Zenon
<1> QED
  BY <1>3, <1>4

-----------------------------------------------------------------------------
(* What the handlers leave: a bounty whose records are whole. *)

\* The fields of a BountyState.
Fields == {"phase", "escrow", "submissions", "challenges", "payable", "settlement", "processed"}

\* A bounty has the fields of a BountyState, with a record for every id.
Shaped(b) ==
    /\ DOMAIN b = Fields
    /\ DOMAIN b.submissions = SubmissionIds
    /\ DOMAIN b.challenges = ChallengeIds
    /\ \A s \in SubmissionIds :
           {"status", "submitter", "verifier", "at", "bond", "receipt"}
               \subseteq DOMAIN b.submissions[s]
    /\ \A c \in ChallengeIds :
           {"status", "submission", "challenger", "at", "deposit", "receipt"}
               \subseteq DOMAIN b.challenges[c]

\* What is challenged has been verified, and stays so or is rejected.
ChallengedRuled(b) ==
    \A c \in C!Filed(b) :
        /\ b.challenges[c].submission \in SubmissionIds
        /\ b.submissions[b.challenges[c].submission].status \in {"verified", "rejected"}

\* The part of the invariant that is about the state of the bounty alone.
Whole(b) == Shaped(b) /\ b.processed \subseteq 1..MaxCommands /\ ChallengedRuled(b)

\* A bounty starts whole.
LEMMA WholeAtFirst == Whole(C!initial_bounty)
  BY DEF Whole, Shaped, Fields, ChallengedRuled, C!initial_bounty, C!NoSubmission, C!NoChallenge,
         C!Filed

\* A decision's state is the handler's with the id of the command added.
LEMMA ReturnedState ==
    ASSUME NEW b, NEW command, NEW next, NEW effects, NEW code, DOMAIN next = Fields
    PROVE  LET after == C!Returned(b, command, next, effects, code).next
           IN  /\ DOMAIN after = Fields
               /\ after.phase = next.phase
               /\ after.escrow = next.escrow
               /\ after.submissions = next.submissions
               /\ after.challenges = next.challenges
               /\ after.payable = next.payable
               /\ after.settlement = next.settlement
               /\ after.processed = b.processed \cup {command.id}
<1> DEFINE after == C!Returned(b, command, next, effects, code).next
<1>1. after = [next EXCEPT !.processed = b.processed \cup {command.id}]
  BY DEF C!Returned
<1> HIDE DEF after
<1> QED
  BY <1>1 DEF Fields, after

\* So it is whole when the handler's is.
LEMMA ReturnedWhole ==
    ASSUME NEW b, NEW command, NEW next, NEW effects, NEW code,
           Whole(b), Shaped(next), ChallengedRuled(next), command.id \in 1..MaxCommands
    PROVE  Whole(C!Returned(b, command, next, effects, code).next)
<1> DEFINE after == C!Returned(b, command, next, effects, code).next
<1>1. DOMAIN next = Fields
  BY DEF Shaped
<1>2. /\ DOMAIN after = Fields
      /\ after.submissions = next.submissions
      /\ after.challenges = next.challenges
      /\ after.processed = b.processed \cup {command.id}
  BY <1>1, ReturnedState
<1> HIDE DEF after
<1>3. Shaped(after)
  BY <1>2 DEF Shaped
<1>4. ChallengedRuled(after)
  BY <1>2 DEF ChallengedRuled, C!Filed
<1>5. after.processed \subseteq 1..MaxCommands
  BY <1>2 DEF Whole
<1> QED
  BY <1>3, <1>4, <1>5 DEF Whole, after

\* No handler leaves a challenge of what was not ruled on.
LEMMA OpenBountyWhole ==
    ASSUME NEW b, NEW command, Whole(b), command.id \in 1..MaxCommands
    PROVE  Whole(C!OpenBounty(b, command).next)
<1> DEFINE next == [b EXCEPT !.phase = "open", !.escrow = command.funded]
<1>1. /\ DOMAIN next = Fields
      /\ next.submissions = b.submissions
      /\ next.challenges = b.challenges
  BY DEF Whole, Shaped, Fields
<1>2. Shaped(next) /\ ChallengedRuled(next)
  <2> HIDE DEF next
  <2> QED
    BY <1>1 DEF Whole, Shaped, ChallengedRuled, C!Filed
<1> QED
  BY <1>2, ReturnedWhole DEF C!OpenBounty

\* cancel_bounty leaves the records alone.
LEMMA CancelBountyWhole ==
    ASSUME NEW b, NEW command, Whole(b), command.id \in 1..MaxCommands
    PROVE  Whole(C!CancelBounty(b, command).next)
<1> DEFINE next == [b EXCEPT !.phase = "canceled", !.escrow = 0]
<1>1. /\ DOMAIN next = Fields
      /\ next.submissions = b.submissions
      /\ next.challenges = b.challenges
  BY DEF Whole, Shaped, Fields
<1>2. Shaped(next) /\ ChallengedRuled(next)
  <2> HIDE DEF next
  <2> QED
    BY <1>1 DEF Whole, Shaped, ChallengedRuled, C!Filed
<1> QED
  BY <1>2, ReturnedWhole DEF C!CancelBounty

\* submit_candidate adds a record that nothing challenges yet.
LEMMA SubmitCandidateWhole ==
    ASSUME NEW b, NEW command, Whole(b), command.id \in 1..MaxCommands,
           command.submission \in SubmissionIds, command.submission \notin C!Present(b)
    PROVE  Whole(C!SubmitCandidate(b, command).next)
<1> DEFINE record ==
    [status |-> "pending", submitter |-> command.submitter, recipe |-> command.recipe,
     verifier |-> command.verifier, at |-> command.now, bond |-> command.bond,
     receipt |-> None]
           next == [b EXCEPT !.submissions[command.submission] = record]
<1>1. {"status", "submitter", "verifier", "at", "bond", "receipt"}
          \subseteq DOMAIN record
  OBVIOUS
<1> HIDE DEF record
<1>2. /\ DOMAIN next = Fields
      /\ next.submissions = [b.submissions EXCEPT ![command.submission] = record]
      /\ next.challenges = b.challenges
  BY DEF Whole, Shaped, Fields
<1>3. Shaped(next) /\ ChallengedRuled(next)
  <2> HIDE DEF next
  <2>1. Shaped(next)
    BY <1>1, <1>2 DEF Whole, Shaped
  <2>2. b.submissions[command.submission].status = "none"
    BY DEF C!Present
  <2>3. ChallengedRuled(next)
    BY <1>2, <2>2 DEF Whole, Shaped, ChallengedRuled, C!Filed
  <2> QED
    BY <2>1, <2>3
<1>4. C!SubmitCandidate(b, command) =
          C!Returned(b, command, next,
             <<C!Effect("lock_submission_bond", command.submitter, command.bond,
                        command.submission)>>, None)
  BY DEF C!SubmitCandidate, record
<1> QED
  BY <1>3, <1>4, ReturnedWhole

\* verify_submission rules on one submission.
LEMMA VerifySubmissionWhole ==
    ASSUME NEW b, NEW command, Whole(b), command.id \in 1..MaxCommands,
           command.submission \in SubmissionIds
    PROVE  Whole(C!VerifySubmission(b, command).next)
<1> DEFINE s == command.submission
           accepted == [b EXCEPT !.submissions[s].status = "verified",
                                 !.submissions[s].receipt = command.receipt]
           rejected == [b EXCEPT !.submissions[s].status = "rejected",
                                 !.submissions[s].bond = 0,
                                 !.submissions[s].receipt = command.receipt]
<1>1. /\ DOMAIN accepted = Fields
      /\ accepted.submissions =
             [b.submissions EXCEPT ![s].status = "verified", ![s].receipt = command.receipt]
      /\ accepted.challenges = b.challenges
  BY DEF Whole, Shaped, Fields
<1>2. /\ DOMAIN rejected = Fields
      /\ rejected.submissions =
             [b.submissions EXCEPT ![s].status = "rejected", ![s].bond = 0,
                                   ![s].receipt = command.receipt]
      /\ rejected.challenges = b.challenges
  BY DEF Whole, Shaped, Fields
<1> HIDE DEF accepted, rejected
<1>3. Shaped(accepted) /\ ChallengedRuled(accepted)
  <2>1. /\ DOMAIN accepted.submissions = SubmissionIds
        /\ accepted.submissions[s].status = "verified"
        /\ \A r \in SubmissionIds :
               /\ DOMAIN accepted.submissions[r] = DOMAIN b.submissions[r]
               /\ r # s => accepted.submissions[r] = b.submissions[r]
    BY <1>1, SMTT(30) DEF Whole, Shaped
  <2>0. DOMAIN accepted = Fields /\ accepted.challenges = b.challenges
    BY <1>1
  <2>2. Shaped(accepted)
    BY <2>0, <2>1 DEF Whole, Shaped
  <2>3. \A c \in C!Filed(b) :
            /\ b.challenges[c].submission \in SubmissionIds
            /\ accepted.submissions[b.challenges[c].submission].status \in {"verified", "rejected"}
    BY <2>1 DEF Whole, ChallengedRuled
  <2>4. C!Filed(accepted) = C!Filed(b)
    BY <1>1 DEF C!Filed
  <2>5. ChallengedRuled(accepted)
    BY <1>1, <2>3, <2>4 DEF ChallengedRuled
  <2> QED
    BY <2>2, <2>5
<1>4. Shaped(rejected) /\ ChallengedRuled(rejected)
  <2>1. /\ DOMAIN rejected.submissions = SubmissionIds
        /\ rejected.submissions[s].status = "rejected"
        /\ \A r \in SubmissionIds :
               /\ DOMAIN rejected.submissions[r] = DOMAIN b.submissions[r]
               /\ r # s => rejected.submissions[r] = b.submissions[r]
    BY <1>2, SMTT(30) DEF Whole, Shaped
  <2>0. DOMAIN rejected = Fields /\ rejected.challenges = b.challenges
    BY <1>2
  <2>2. Shaped(rejected)
    BY <2>0, <2>1 DEF Whole, Shaped
  <2>3. \A c \in C!Filed(b) :
            /\ b.challenges[c].submission \in SubmissionIds
            /\ rejected.submissions[b.challenges[c].submission].status \in {"verified", "rejected"}
    BY <2>1 DEF Whole, ChallengedRuled
  <2>4. C!Filed(rejected) = C!Filed(b)
    BY <1>2 DEF C!Filed
  <2>5. ChallengedRuled(rejected)
    BY <1>2, <2>3, <2>4 DEF ChallengedRuled
  <2> QED
    BY <2>2, <2>5
<1>5. \A effects, code : Whole(C!Returned(b, command, accepted, effects, code).next)
  BY <1>3, ReturnedWhole
<1>6. \A effects, code : Whole(C!Returned(b, command, rejected, effects, code).next)
  BY <1>4, ReturnedWhole
<1> QED
  BY <1>5, <1>6, Zenon DEF C!VerifySubmission, accepted, rejected

\* open_challenge adds a challenge of a verified submission.
LEMMA OpenChallengeWhole ==
    ASSUME NEW b, NEW command, Whole(b), command.id \in 1..MaxCommands,
           command.challenge \in ChallengeIds, command.submission \in SubmissionIds,
           b.submissions[command.submission].status = "verified"
    PROVE  Whole(C!OpenChallenge(b, command).next)
<1> DEFINE record ==
    [status |-> "open", submission |-> command.submission, challenger |-> command.challenger,
     finding |-> command.finding, at |-> command.now, deposit |-> command.deposit,
     receipt |-> None]
           next == [b EXCEPT !.challenges[command.challenge] = record]
<1>1. /\ {"status", "submission", "challenger", "at", "deposit", "receipt"}
             \subseteq DOMAIN record
      /\ record.submission = command.submission
  OBVIOUS
<1> HIDE DEF record
<1>2. /\ DOMAIN next = Fields
      /\ next.submissions = b.submissions
      /\ next.challenges = [b.challenges EXCEPT ![command.challenge] = record]
  BY DEF Whole, Shaped, Fields
<1>3. Shaped(next) /\ ChallengedRuled(next)
  <2> HIDE DEF next
  <2>1. Shaped(next)
    BY <1>1, <1>2 DEF Whole, Shaped
  <2>2. ChallengedRuled(next)
    BY <1>1, <1>2 DEF Whole, Shaped, ChallengedRuled, C!Filed
  <2> QED
    BY <2>1, <2>2
<1>4. C!OpenChallenge(b, command) =
          C!Returned(b, command, next,
             <<C!Effect("lock_challenge_deposit", command.challenger, command.deposit,
                        command.challenge)>>, None)
  BY DEF C!OpenChallenge, record
<1> QED
  BY <1>3, <1>4, ReturnedWhole

\* What a decision makes of the challenge.
Decided(b, command, status) ==
    [b EXCEPT !.challenges[command.challenge].status = status,
              !.challenges[command.challenge].deposit = 0,
              !.challenges[command.challenge].receipt = command.receipt]

\* A decided challenge keeps its submission and its fields.
LEMMA DecidedShape ==
    ASSUME NEW b, NEW command, Whole(b), command.challenge \in ChallengeIds,
           b.challenges[command.challenge].status = "open", NEW status
    PROVE  LET decided == Decided(b, command, status)
           IN  /\ DOMAIN decided = Fields
               /\ decided.submissions = b.submissions
               /\ DOMAIN decided.challenges = ChallengeIds
               /\ \A d \in ChallengeIds :
                      /\ {"status", "submission", "challenger", "at", "deposit", "receipt"}
                             \subseteq DOMAIN decided.challenges[d]
                      /\ decided.challenges[d].submission = b.challenges[d].submission
                      /\ b.challenges[d].status = "none" =>
                             decided.challenges[d].status = "none"
<1> DEFINE c == command.challenge
           decided == Decided(b, command, status)
<1>1. /\ DOMAIN decided = Fields
      /\ decided.submissions = b.submissions
      /\ decided.challenges =
             [b.challenges EXCEPT ![c].status = status, ![c].deposit = 0,
                                  ![c].receipt = command.receipt]
  BY DEF Whole, Shaped, Fields, Decided
<1> HIDE DEF decided
<1>2. DOMAIN decided.challenges = ChallengeIds
  BY <1>1 DEF Whole, Shaped
<1>3. \A d \in ChallengeIds :
          /\ {"status", "submission", "challenger", "at", "deposit", "receipt"}
                 \subseteq DOMAIN decided.challenges[d]
          /\ decided.challenges[d].submission = b.challenges[d].submission
          /\ d # c => decided.challenges[d].status = b.challenges[d].status
  <2>1. \A d \in ChallengeIds : d # c => decided.challenges[d] = b.challenges[d]
    BY <1>1 DEF Whole, Shaped
  <2>2. /\ DOMAIN decided.challenges[c] = DOMAIN b.challenges[c]
        /\ decided.challenges[c].submission = b.challenges[c].submission
    BY <1>1 DEF Whole, Shaped
  <2> QED
    BY <2>1, <2>2 DEF Whole, Shaped
<1>4. ASSUME NEW d \in ChallengeIds, b.challenges[d].status = "none"
      PROVE  decided.challenges[d].status = "none"
  <2>1. d # c
    BY <1>4
  <2> QED
    BY <1>3, <1>4, <2>1
<1> QED
  BY <1>1, <1>2, <1>3, <1>4 DEF decided

\* resolve_challenge decides one challenge, and may reject what it challenged.
LEMMA ResolveChallengeWhole ==
    ASSUME NEW b, NEW command, Whole(b), command.id \in 1..MaxCommands,
           command.challenge \in ChallengeIds,
           b.challenges[command.challenge].status = "open"
    PROVE  Whole(C!ResolveChallenge(b, command).next)
<1> DEFINE s == b.challenges[command.challenge].submission
           refuted == Decided(b, command, "rejected")
           decided == Decided(b, command, "upheld")
           upheld == [decided EXCEPT !.submissions[s].status = "rejected",
                                     !.submissions[s].bond = 0]
<1>1. Shaped(refuted) /\ ChallengedRuled(refuted)
  <2>1. /\ DOMAIN refuted = Fields
        /\ refuted.submissions = b.submissions
        /\ DOMAIN refuted.challenges = ChallengeIds
        /\ \A d \in ChallengeIds :
               /\ {"status", "submission", "challenger", "at", "deposit", "receipt"}
                      \subseteq DOMAIN refuted.challenges[d]
               /\ refuted.challenges[d].submission = b.challenges[d].submission
               /\ b.challenges[d].status = "none" => refuted.challenges[d].status = "none"
    BY DecidedShape
  <2> HIDE DEF refuted
  <2> QED
    BY <2>1 DEF Whole, Shaped, ChallengedRuled, C!Filed
<1>2. /\ DOMAIN decided = Fields
      /\ decided.submissions = b.submissions
      /\ DOMAIN decided.challenges = ChallengeIds
      /\ \A d \in ChallengeIds :
             /\ {"status", "submission", "challenger", "at", "deposit", "receipt"}
                    \subseteq DOMAIN decided.challenges[d]
             /\ decided.challenges[d].submission = b.challenges[d].submission
             /\ b.challenges[d].status = "none" => decided.challenges[d].status = "none"
  BY DecidedShape
<1>3. Shaped(upheld) /\ ChallengedRuled(upheld)
  <2> HIDE DEF decided
  <2>1. /\ DOMAIN upheld = Fields
        /\ upheld.submissions =
               [b.submissions EXCEPT ![s].status = "rejected", ![s].bond = 0]
        /\ upheld.challenges = decided.challenges
    BY <1>2 DEF Fields
  <2> HIDE DEF upheld, s
  <2>2. \A r \in SubmissionIds :
            /\ {"status", "submitter", "verifier", "at", "bond", "receipt"}
                   \subseteq DOMAIN upheld.submissions[r]
            /\ upheld.submissions[r].status \in {b.submissions[r].status, "rejected"}
    BY <2>1 DEF Whole, Shaped
  <2>3. DOMAIN upheld.submissions = SubmissionIds
    BY <2>1 DEF Whole, Shaped
  <2>4. Shaped(upheld)
    BY <1>2, <2>1, <2>2, <2>3 DEF Shaped
  <2>5. ChallengedRuled(upheld)
    <3>1. \A d \in C!Filed(upheld) :
              d \in C!Filed(b) /\ upheld.challenges[d].submission = b.challenges[d].submission
      BY <1>2, <2>1 DEF C!Filed
    <3> QED
      BY <2>2, <3>1 DEF Whole, ChallengedRuled
  <2> QED
    BY <2>4, <2>5
<1>4. \A effects, code : Whole(C!Returned(b, command, refuted, effects, code).next)
  BY <1>1, ReturnedWhole
<1>5. \A effects, code : Whole(C!Returned(b, command, upheld, effects, code).next)
  BY <1>3, ReturnedWhole
<1> QED
  BY <1>4, <1>5, Zenon DEF C!ResolveChallenge, Decided

\* Giving bonds back changes no status.
LEMMA BondsReturnedShape ==
    ASSUME NEW b, Whole(b)
    PROVE  /\ DOMAIN C!BondsReturned(b) = SubmissionIds
           /\ \A s \in SubmissionIds :
                  /\ {"status", "submitter", "verifier", "at", "bond", "receipt"}
                         \subseteq DOMAIN C!BondsReturned(b)[s]
                  /\ C!BondsReturned(b)[s].status = b.submissions[s].status
  BY DEF Whole, Shaped, C!BondsReturned

\* settle_bounty keeps every status.
LEMMA SettleBountyWhole ==
    ASSUME NEW b, NEW command, Whole(b), command.id \in 1..MaxCommands
    PROVE  Whole(C!SettleBounty(b, command).next)
<1> DEFINE next == [b EXCEPT !.phase = "settled", !.escrow = 0,
                             !.submissions = C!BondsReturned(b),
                             !.settlement = command.settlement]
<1>1. /\ DOMAIN next = Fields
      /\ next.submissions = C!BondsReturned(b)
      /\ next.challenges = b.challenges
  BY DEF Whole, Shaped, Fields
<1>2. Shaped(next) /\ ChallengedRuled(next)
  <2> HIDE DEF next
  <2> QED
    BY <1>1, BondsReturnedShape DEF Whole, Shaped, ChallengedRuled, C!Filed
<1>3. \A effects, code : Whole(C!Returned(b, command, next, effects, code).next)
  BY <1>2, ReturnedWhole
<1> QED
  BY <1>3, Zenon DEF C!SettleBounty

\* advance_bounty closes challenges, and keeps what they challenge.
LEMMA AdvanceBountyWhole ==
    ASSUME NEW b, NEW command, Whole(b), command.id \in 1..MaxCommands
    PROVE  Whole(C!AdvanceBounty(b, command).next)
<1> DEFINE timedOut ==
               [c \in ChallengeIds |->
                    IF c \in C!Open(b)
                    THEN [b.challenges[c] EXCEPT !.status = "rejected", !.deposit = 0]
                    ELSE b.challenges[c]]
           timed_out == [b EXCEPT !.challenges = timedOut]
           paid == [timed_out EXCEPT !.phase = "payable", !.payable = C!Verified(b)]
           expired == [timed_out EXCEPT !.phase = "expired", !.escrow = 0,
                                        !.submissions = C!BondsReturned(b)]
<1>1. \A c \in ChallengeIds :
          /\ {"status", "submission", "challenger", "at", "deposit", "receipt"}
                 \subseteq DOMAIN timedOut[c]
          /\ timedOut[c].submission = b.challenges[c].submission
          /\ b.challenges[c].status = "none" => timedOut[c].status = "none"
  BY DEF Whole, Shaped, C!Open
<1>2. DOMAIN timedOut = ChallengeIds
  OBVIOUS
<1> HIDE DEF timedOut
<1>3. /\ DOMAIN paid = Fields
      /\ paid.submissions = b.submissions
      /\ paid.challenges = timedOut
  BY DEF Whole, Shaped, Fields
<1>4. /\ DOMAIN expired = Fields
      /\ expired.submissions = C!BondsReturned(b)
      /\ expired.challenges = timedOut
  BY DEF Whole, Shaped, Fields
<1>5. Shaped(paid) /\ ChallengedRuled(paid)
  <2> HIDE DEF paid
  <2> QED
    BY <1>1, <1>2, <1>3 DEF Whole, Shaped, ChallengedRuled, C!Filed
<1>6. Shaped(expired) /\ ChallengedRuled(expired)
  <2> HIDE DEF expired
  <2> QED
    BY <1>1, <1>2, <1>4, BondsReturnedShape DEF Whole, Shaped, ChallengedRuled, C!Filed
<1>7. \A effects, code : Whole(C!Returned(b, command, paid, effects, code).next)
  BY <1>5, ReturnedWhole
<1>8. \A effects, code : Whole(C!Returned(b, command, expired, effects, code).next)
  BY <1>6, ReturnedWhole
<1> HIDE DEF timed_out
<1> QED
  BY <1>7, <1>8, Zenon DEF C!AdvanceBounty, timedOut, timed_out

-----------------------------------------------------------------------------
(* Commands that are taken. *)

\* What a caller may send names what there can be.
Addressed(command) ==
    /\ command.id \in 1..MaxCommands
    /\ command.kind \in {"open_bounty", "submit_candidate", "verify_submission", "open_challenge",
                         "resolve_challenge", "advance_bounty", "settle_bounty", "cancel_bounty"}
    /\ command.kind \in {"submit_candidate", "verify_submission", "open_challenge"} =>
           command.submission \in SubmissionIds
    /\ command.kind \in {"open_challenge", "resolve_challenge"} =>
           command.challenge \in ChallengeIds

\* The commands without receipts are addressed.
LEMMA UnprovenAddressed ==
    ASSUME NEW command \in C!Unproven
    PROVE  Addressed(command)
<1>1. command.id \in C!Ids /\ C!Ids \subseteq 1..MaxCommands
  BY DEF C!Unproven, C!Ids
<1>2. \/ command.kind \in {"open_bounty", "advance_bounty", "settle_bounty", "cancel_bounty"}
      \/ command.kind = "submit_candidate" /\ command.submission \in SubmissionIds
      \/ /\ command.kind = "open_challenge"
         /\ command.submission \in SubmissionIds /\ command.challenge \in ChallengeIds
  BY DEF C!Unproven
<1> QED
  BY <1>1, <1>2 DEF Addressed

\* A verdict with its receipt is addressed, and says what it said without.
LEMMA ProvenAddressed ==
    ASSUME NEW ruling \in C!Ruled, NEW receipt
    PROVE  /\ Addressed(C!Proven(ruling, receipt))
           /\ C!Proven(ruling, receipt).kind = ruling.kind
           /\ C!Proven(ruling, receipt).now = ruling.now
           /\ C!Proven(ruling, receipt).verdict = ruling.verdict
           /\ ruling.kind = "verify_submission" =>
                  /\ C!Proven(ruling, receipt).submission = ruling.submission
                  /\ ruling.submission \in SubmissionIds
           /\ C!Proven(ruling, receipt).receipt = receipt
<1> DEFINE command == C!Proven(ruling, receipt)
<1>1. C!Ids \subseteq 1..MaxCommands
  BY DEF C!Ids
<1>2. CASE ruling \in [id : C!Ids, form : {"ok"}, kind : {"verify_submission"}, now : Times,
                       submission : SubmissionIds, verifier : Verifiers, verdict : BOOLEAN]
  <2>1. DOMAIN ruling = {"id", "form", "kind", "now", "submission", "verifier", "verdict"}
    BY <1>2
  <2>2. /\ command.id = ruling.id /\ command.kind = ruling.kind /\ command.now = ruling.now
        /\ command.submission = ruling.submission /\ command.verdict = ruling.verdict
        /\ command.receipt = receipt
    BY <2>1 DEF C!Proven
  <2> HIDE DEF command
  <2>3. /\ ruling.id \in C!Ids /\ ruling.kind = "verify_submission"
        /\ ruling.submission \in SubmissionIds
    BY <1>2
  <2>4. Addressed(command)
    BY <1>1, <2>2, <2>3 DEF Addressed
  <2> QED
    BY <2>2, <2>3, <2>4 DEF command
<1>3. CASE ruling \in [id : C!Ids, form : {"ok"}, kind : {"resolve_challenge"}, now : Times,
                       challenge : ChallengeIds, verifier : Verifiers, verdict : BOOLEAN]
  <2>1. DOMAIN ruling = {"id", "form", "kind", "now", "challenge", "verifier", "verdict"}
    BY <1>3
  <2>2. /\ command.id = ruling.id /\ command.kind = ruling.kind /\ command.now = ruling.now
        /\ command.challenge = ruling.challenge /\ command.verdict = ruling.verdict
        /\ command.receipt = receipt
    BY <2>1 DEF C!Proven
  <2> HIDE DEF command
  <2>3. /\ ruling.id \in C!Ids /\ ruling.kind = "resolve_challenge"
        /\ ruling.challenge \in ChallengeIds
    BY <1>3
  <2>4. Addressed(command)
    BY <1>1, <2>2, <2>3 DEF Addressed
  <2> QED
    BY <2>2, <2>3, <2>4 DEF command
<1> QED
  BY <1>2, <1>3 DEF C!Ruled

\* A decision that is executed.
Taken(decision) == decision.kind \in {"accept", "committed_failure"}

\* What is taken was refused by no check, and is the handler's doing.
LEMMA TakenHandled ==
    ASSUME NEW b, NEW command, NEW evidence,
           Taken(C!apply_market_command(b, command, evidence))
    PROVE  /\ C!apply_market_command(b, command, evidence) = C!Handled(b, command)
           /\ Clear(C!Checks(b, command, evidence))
  BY Deciding DEF Taken

\* The checks of a taken command found nothing.
LEMMA TakenClear ==
    ASSUME NEW b, NEW command, NEW evidence, Clear(C!Checks(b, command, evidence))
    PROVE  /\ command.kind = "submit_candidate" => Clear(C!SubmitChecks(b, command))
           /\ command.kind = "verify_submission" =>
                  /\ Clear(C!VerifyChecks(b, command, evidence))
                  /\ Clear(C!CommonChecks(b, command, evidence))
           /\ command.kind = "open_challenge" => Clear(C!ChallengeChecks(b, command))
           /\ command.kind = "resolve_challenge" => Clear(C!ResolveChecks(b, command, evidence))
<1> DEFINE common == C!CommonChecks(b, command, evidence)
<1>1. IsList(common)
  BY CommonClear
<1>2. Clear(common \o C!HandlerChecks(b, command, evidence))
  BY DEF C!Checks
<1> HIDE DEF common
<1>3. CASE command.kind = "submit_candidate"
  <2>1. C!HandlerChecks(b, command, evidence) = C!SubmitChecks(b, command)
    BY <1>3 DEF C!HandlerChecks
  <2> QED
    BY <1>1, <1>2, <1>3, <2>1, ClearBoth, Lists
<1>4. CASE command.kind = "verify_submission"
  <2>1. C!HandlerChecks(b, command, evidence) = C!VerifyChecks(b, command, evidence)
    BY <1>4 DEF C!HandlerChecks
  <2>2. Clear(common) /\ Clear(C!VerifyChecks(b, command, evidence))
    BY <1>1, <1>2, <2>1, ClearBoth, Lists
  <2> QED
    BY <1>4, <2>2 DEF common
<1>5. CASE command.kind = "open_challenge"
  <2>1. C!HandlerChecks(b, command, evidence) = C!ChallengeChecks(b, command)
    BY <1>5 DEF C!HandlerChecks
  <2> QED
    BY <1>1, <1>2, <1>5, <2>1, ClearBoth, ChallengeClear
<1>6. CASE command.kind = "resolve_challenge"
  <2>1. C!HandlerChecks(b, command, evidence) = C!ResolveChecks(b, command, evidence)
    BY <1>6 DEF C!HandlerChecks
  <2> QED
    BY <1>1, <1>2, <1>6, <2>1, ClearBoth, Lists
<1> QED
  BY <1>3, <1>4, <1>5, <1>6

\* Whatever is taken leaves the bounty whole.
LEMMA TakenWhole ==
    ASSUME NEW b, NEW command, NEW evidence, Whole(b), Addressed(command),
           Taken(C!apply_market_command(b, command, evidence))
    PROVE  Whole(C!apply_market_command(b, command, evidence).next)
<1> DEFINE decision == C!apply_market_command(b, command, evidence)
<1>1. decision = C!Handled(b, command) /\ Clear(C!Checks(b, command, evidence))
  BY TakenHandled
<1> SUFFICES Whole(decision.next)
  OBVIOUS
<1> HIDE DEF decision
<1>2. command.id \in 1..MaxCommands
  BY DEF Addressed
<1>3. CASE command.kind = "open_bounty"
  BY <1>1, <1>2, <1>3, OpenBountyWhole DEF C!Handled
<1>4. CASE command.kind = "submit_candidate"
  <2>1. command.submission \in SubmissionIds
    BY <1>4 DEF Addressed
  <2>2. command.submission \notin C!Present(b)
    BY <1>1, <1>4, TakenClear, SubmitClear
  <2>3. decision = C!SubmitCandidate(b, command)
    BY <1>1, <1>4 DEF C!Handled
  <2> QED
    BY <1>2, <2>1, <2>2, <2>3, SubmitCandidateWhole
<1>5. CASE command.kind = "verify_submission"
  <2>1. command.submission \in SubmissionIds
    BY <1>5 DEF Addressed
  <2>2. decision = C!VerifySubmission(b, command)
    BY <1>1, <1>5 DEF C!Handled
  <2> QED
    BY <1>2, <2>1, <2>2, VerifySubmissionWhole
<1>6. CASE command.kind = "open_challenge"
  <2>1. command.submission \in SubmissionIds /\ command.challenge \in ChallengeIds
    BY <1>6 DEF Addressed
  <2>2. b.submissions[command.submission].status = "verified"
    BY <1>1, <1>6, TakenClear, ChallengeClear
  <2>3. decision = C!OpenChallenge(b, command)
    BY <1>1, <1>6 DEF C!Handled
  <2> QED
    BY <1>2, <2>1, <2>2, <2>3, OpenChallengeWhole
<1>7. CASE command.kind = "resolve_challenge"
  <2>1. command.challenge \in ChallengeIds
    BY <1>7 DEF Addressed
  <2>2. b.challenges[command.challenge].status = "open"
    BY <1>1, <1>7, TakenClear, ResolveClear
  <2>3. decision = C!ResolveChallenge(b, command)
    BY <1>1, <1>7 DEF C!Handled
  <2> QED
    BY <1>2, <2>1, <2>2, <2>3, ResolveChallengeWhole
<1>8. CASE command.kind = "advance_bounty"
  BY <1>1, <1>2, <1>8, AdvanceBountyWhole DEF C!Handled
<1>9. CASE command.kind = "settle_bounty"
  BY <1>1, <1>2, <1>9, SettleBountyWhole DEF C!Handled
<1>10. CASE command.kind = "cancel_bounty"
  BY <1>1, <1>2, <1>10, CancelBountyWhole DEF C!Handled
<1> QED
  BY <1>3, <1>4, <1>5, <1>6, <1>7, <1>8, <1>9, <1>10 DEF Addressed

\* A bounty is whole in every state a history of commands leads to.
LEMMA WholeAlways == C!Spec => []Whole(bounty)
<1>1. C!Init => Whole(bounty)
  BY WholeAtFirst DEF C!Init
<1>2. ASSUME Whole(bounty), [C!Next]_(C!vars) PROVE Whole(bounty)'
  <2>1. CASE UNCHANGED C!vars
    BY <1>2, <2>1 DEF C!vars, Whole, Shaped, ChallengedRuled, C!Filed
  <2>2. ASSUME NEW command, NEW evidence, Addressed(command), C!Commits(command, evidence)
        PROVE  Whole(bounty)'
    <3>1. /\ Taken(C!apply_market_command(bounty, command, evidence))
          /\ bounty' = C!apply_market_command(bounty, command, evidence).next
      BY <2>2 DEF C!Commits, Taken
    <3>2. Whole(C!apply_market_command(bounty, command, evidence).next)
      BY <1>2, <2>2, <3>1, TakenWhole
    <3>3. Whole(bounty')
      BY <3>1, <3>2
    <3> QED
      BY <3>3 DEF Whole, Shaped, ChallengedRuled, C!Filed
  <2>3. CASE C!Act
    BY <2>2, <2>3, UnprovenAddressed DEF C!Act
  <2>4. CASE C!Rule
    BY <2>2, <2>4, ProvenAddressed DEF C!Rule
  <2> QED
    BY <1>2, <2>1, <2>3, <2>4 DEF C!Next
<1> QED
  BY <1>1, <1>2, PTL DEF C!Spec

-----------------------------------------------------------------------------
(* A verdict in time can be contested. *)

\* What accepting a submission changes.
LEMMA AcceptedVerification ==
    ASSUME NEW b, NEW command, Whole(b), command.submission \in SubmissionIds,
           command.verdict, b.submissions[command.submission].status = "pending"
    PROVE  LET after == C!VerifySubmission(b, command).next
           IN  /\ after.phase = b.phase /\ after.escrow = b.escrow
               /\ after.challenges = b.challenges
               /\ after.payable = b.payable /\ after.settlement = b.settlement
               /\ after.processed = b.processed \cup {command.id}
               /\ after.submissions[command.submission].status = "verified"
               /\ \A s \in SubmissionIds :
                      /\ after.submissions[s].bond = b.submissions[s].bond
                      /\ s # command.submission =>
                             after.submissions[s].status = b.submissions[s].status
<1> DEFINE s == command.submission
           next == [b EXCEPT !.submissions[s].status = "verified",
                             !.submissions[s].receipt = command.receipt]
           after == C!VerifySubmission(b, command).next
<1>1. /\ DOMAIN next = Fields
      /\ next.phase = b.phase /\ next.escrow = b.escrow
      /\ next.challenges = b.challenges
      /\ next.payable = b.payable /\ next.settlement = b.settlement
      /\ next.submissions =
             [b.submissions EXCEPT ![s].status = "verified", ![s].receipt = command.receipt]
  BY DEF Whole, Shaped, Fields
<1>2. C!VerifySubmission(b, command) = C!Returned(b, command, next, <<>>, None)
  BY DEF C!VerifySubmission
<1> HIDE DEF next
<1>3. /\ after.phase = next.phase /\ after.escrow = next.escrow
      /\ after.challenges = next.challenges /\ after.submissions = next.submissions
      /\ after.payable = next.payable /\ after.settlement = next.settlement
      /\ after.processed = b.processed \cup {command.id}
  BY <1>1, <1>2, ReturnedState
<1> HIDE DEF after
<1>4. after.submissions[s].status = "verified"
  BY <1>1, <1>3 DEF Whole, Shaped
<1>5. \A r \in SubmissionIds :
          /\ after.submissions[r].bond = b.submissions[r].bond
          /\ r # s => after.submissions[r].status = b.submissions[r].status
  BY <1>1, <1>3 DEF Whole, Shaped
<1> QED
  BY <1>1, <1>3, <1>4, <1>5 DEF after

\* Accepting a submission makes no state invalid.
LEMMA StillValid ==
    ASSUME NEW b, NEW command, Whole(b), command.submission \in SubmissionIds,
           command.verdict, b.submissions[command.submission].status = "pending",
           b.phase = "open", C!market_state_violations(b) = {}
    PROVE  C!market_state_violations(C!VerifySubmission(b, command).next) = {}
<1> DEFINE s == command.submission
           after == C!VerifySubmission(b, command).next
<1>1. /\ after.phase = b.phase /\ after.escrow = b.escrow
      /\ after.challenges = b.challenges
      /\ after.payable = b.payable /\ after.settlement = b.settlement
      /\ after.submissions[s].status = "verified"
      /\ \A r \in SubmissionIds :
             /\ after.submissions[r].bond = b.submissions[r].bond
             /\ r # s => after.submissions[r].status = b.submissions[r].status
  BY AcceptedVerification
<1> HIDE DEF after
<1>2. /\ C!ReferenceViolations(b) = {} /\ C!ChallengeViolations(b) = {}
      /\ C!PhaseViolations(b) = {} /\ C!TerminalViolations(b) = {}
  BY DEF C!market_state_violations
<1>3. /\ C!Filed(after) = C!Filed(b) /\ C!Open(after) = C!Open(b)
      /\ C!Present(after) = C!Present(b)
  BY <1>1 DEF C!Filed, C!Open, C!Present
<1>4. C!ReferenceViolations(after) = {}
  <2>1. C!Verified(b) \subseteq C!Verified(after)
    BY <1>1 DEF C!Verified
  <2> QED
    BY <1>1, <1>2, <1>3, <2>1, ReferencesClear
<1>5. C!ChallengeViolations(after) = {}
  <2>1. \A r \in C!Present(after) :
            after.submissions[r].status = "rejected" =>
                /\ r \in C!Present(b) /\ b.submissions[r].status = "rejected"
                /\ after.submissions[r].bond = b.submissions[r].bond
    BY <1>1, <1>3 DEF C!Present
  <2> QED
    BY <1>1, <1>2, <1>3, <2>1, ChallengesClear
<1>6. C!PhaseViolations(after) = {}
  BY <1>1, <1>2, OpenPhaseClear
<1>7. C!TerminalViolations(after) = {}
  <2>1. after.phase \notin C!Terminal /\ after.phase # "settled" /\ b.phase # "settled"
    BY <1>1 DEF C!Terminal
  <2> QED
    BY <1>1, <1>2, <2>1, TerminalsClear
<1> QED
  BY <1>4, <1>5, <1>6, <1>7 DEF C!market_state_violations, after

\* After it, a challenge in time, about that submission and with what the policy asks for, is
\* accepted.
LEMMA ChallengeAccepted ==
    ASSUME NEW b, NEW challenge, C!market_state_violations(b) = {},
           challenge.kind = "open_challenge", challenge.form = "ok",
           challenge.id \notin b.processed,
           b.phase = "open", ~(challenge.now > C!ChallengeDeadline),
           challenge.challenge \notin C!Filed(b),
           b.submissions[challenge.submission].status = "verified",
           \A c \in C!Open(b) : b.challenges[c].submission # challenge.submission,
           challenge.finding \in SlashableFindings, challenge.evidenced,
           ~(challenge.deposit < MinChallengeDeposit)
    PROVE  C!apply_market_command(b, challenge, <<>>).kind = "accept"
<1>1. C!EvidenceValid(<<>>)
  BY DEF C!EvidenceValid
<1>2. Clear(C!CommonChecks(b, challenge, <<>>)) /\ IsList(C!CommonChecks(b, challenge, <<>>))
  <2>1. challenge.form # "malformed" /\ challenge.kind \notin C!Verdicts
    BY DEF C!Verdicts
  <2> QED
    BY <1>1, <2>1, CommonClear, Zenon
<1>3. Clear(C!ChallengeChecks(b, challenge)) /\ IsList(C!ChallengeChecks(b, challenge))
  <2>1. /\ challenge.form # "refused by the handler"
        /\ b.submissions[challenge.submission].status # "none"
    OBVIOUS
  <2> QED
    BY <2>1, ChallengeClear, Zenon
<1>4. C!HandlerChecks(b, challenge, <<>>) = C!ChallengeChecks(b, challenge)
  BY DEF C!HandlerChecks
<1>5. Clear(C!Checks(b, challenge, <<>>))
  BY <1>2, <1>3, <1>4, ClearBoth, Zenon DEF C!Checks
<1>6. C!apply_market_command(b, challenge, <<>>) = C!Handled(b, challenge)
  BY <1>5, Deciding
<1>7. C!Handled(b, challenge) = C!OpenChallenge(b, challenge)
  BY DEF C!Handled
<1> QED
  BY <1>6, <1>7 DEF C!OpenChallenge, C!Returned

\* A state that has let an acceptance through lets a challenge through after it.
LEMMA WholeContestable == Whole(bounty) => Contestable
<1> DEFINE Verifications == {r \in C!Ruled : r.kind = "verify_submission" /\ r.verdict}
           Genuine(ruling) == [statement |-> C!Statement(bounty, ruling),
                               key |-> ruling.verifier, genuine |-> TRUE]
           Decision(ruling, right) ==
               C!apply_market_command(bounty, C!Proven(ruling, right), <<right>>)
           Challenges(ruling) ==
               [id : {0}, form : {"ok"}, kind : {"open_challenge"}, now : {ruling.now},
                challenge : ChallengeIds, submission : {ruling.submission},
                challenger : Parties, finding : SlashableFindings, evidenced : {TRUE},
                deposit : Amounts \ 0..(MinChallengeDeposit - 1)]
           Contested(ruling, right) ==
               Decision(ruling, right).kind = "accept" /\ C!Filed(bounty) # ChallengeIds =>
                   \E challenge \in Challenges(ruling) :
                       C!apply_market_command(Decision(ruling, right).next, challenge,
                                              <<>>).kind = "accept"
<1> SUFFICES ASSUME Whole(bounty)
             PROVE  \A ruling \in Verifications : Contested(ruling, Genuine(ruling))
  BY Zenon DEF Contestable, C!Contestable
<1> HIDE DEF Genuine
<1> SUFFICES ASSUME NEW ruling \in Verifications, NEW right,
                    Decision(ruling, right).kind = "accept", C!Filed(bounty) # ChallengeIds
             PROVE  \E challenge \in Challenges(ruling) :
                        C!apply_market_command(Decision(ruling, right).next, challenge,
                                               <<>>).kind = "accept"
  <2> HIDE DEF Decision, Challenges
  <2> QED
    OBVIOUS
<1> DEFINE command == C!Proven(ruling, right)
           decision == Decision(ruling, right)
           after == C!VerifySubmission(bounty, command).next
<1>1. /\ command.kind = "verify_submission" /\ command.now = ruling.now
      /\ command.verdict /\ command.submission = ruling.submission
      /\ command.submission \in SubmissionIds
      /\ Addressed(command)
  BY ProvenAddressed
<1> HIDE DEF command
<1>2. decision = C!Handled(bounty, command) /\ Clear(C!Checks(bounty, command, <<right>>))
  BY TakenHandled DEF Taken, command
<1>3. decision.next = after
  BY <1>1, <1>2 DEF C!Handled
<1>4. /\ C!market_state_violations(bounty) = {}
      /\ bounty.phase = "open"
      /\ ~(command.now > C!ChallengeDeadline)
      /\ bounty.submissions[command.submission].status = "pending"
  <2>1. /\ Clear(C!CommonChecks(bounty, command, <<right>>))
        /\ Clear(C!VerifyChecks(bounty, command, <<right>>))
    BY <1>1, <1>2, TakenClear
  <2>2. C!market_state_violations(bounty) = {}
    BY <2>1, CommonClear
  <2> QED
    BY <2>1, <2>2, VerifyClear
<1>5. /\ after.phase = "open" /\ after.challenges = bounty.challenges
      /\ after.processed = bounty.processed \cup {command.id}
      /\ after.submissions[command.submission].status = "verified"
  BY <1>1, <1>4, AcceptedVerification
<1>6. C!market_state_violations(after) = {}
  BY <1>1, <1>4, StillValid
<1> HIDE DEF decision, after
<1>7. PICK c \in ChallengeIds : c \notin C!Filed(after)
  BY <1>5 DEF C!Filed
<1>8. PICK party \in Parties, finding \in SlashableFindings, amount \in Amounts :
          amount >= MinChallengeDeposit
  BY BountiesAssumption DEF C!CallsParameters, C!DecisionParameters
<1>9. /\ amount \in Nat /\ MinChallengeDeposit \in Nat
      /\ ~(amount < MinChallengeDeposit)
      /\ amount \in Amounts \ 0..(MinChallengeDeposit - 1)
  <2>1. amount \in Nat /\ MinChallengeDeposit \in Nat
    BY BountiesAssumption DEF C!CallsParameters, C!DecisionParameters
  <2> QED
    BY <1>8, <2>1
<1>10. 0 \notin after.processed
  <2>1. 0 \notin 1..MaxCommands
    BY BountiesAssumption DEF C!CallsParameters
  <2>2. bounty.processed \cup {command.id} \subseteq 1..MaxCommands
    BY <1>1 DEF Whole, Addressed
  <2> QED
    BY <1>5, <2>1, <2>2
<1>11. \A d \in C!Open(after) : after.challenges[d].submission # command.submission
  <2>1. C!Open(after) \subseteq C!Filed(bounty)
    BY <1>5 DEF C!Open, C!Filed
  <2>2. \A d \in C!Filed(bounty) : bounty.challenges[d].submission # command.submission
    BY <1>4 DEF Whole, ChallengedRuled
  <2> QED
    BY <1>5, <2>1, <2>2
<1> DEFINE challenge ==
    [id |-> 0, form |-> "ok", kind |-> "open_challenge", now |-> ruling.now, challenge |-> c,
     submission |-> ruling.submission, challenger |-> party, finding |-> finding,
     evidenced |-> TRUE, deposit |-> amount]
<1>12. challenge \in
           [id : {0}, form : {"ok"}, kind : {"open_challenge"}, now : {ruling.now},
            challenge : ChallengeIds, submission : {ruling.submission},
            challenger : Parties, finding : SlashableFindings, evidenced : {TRUE},
            deposit : Amounts \ 0..(MinChallengeDeposit - 1)]
  BY <1>9
<1>13. /\ challenge.kind = "open_challenge" /\ challenge.form = "ok" /\ challenge.id = 0
       /\ challenge.now = ruling.now /\ challenge.challenge = c
       /\ challenge.submission = ruling.submission /\ challenge.finding = finding
       /\ challenge.evidenced = TRUE /\ challenge.deposit = amount
  OBVIOUS
<1> HIDE DEF challenge
<1>14. C!apply_market_command(after, challenge, <<>>).kind = "accept"
  BY <1>1, <1>4, <1>5, <1>6, <1>7, <1>9, <1>10, <1>11, <1>13, ChallengeAccepted
<1> QED
  BY <1>3, <1>12, <1>14 DEF decision, command

\* A verdict that accepts a submission never comes too late to be contested, in any state a
\* history of commands leads to (market.py:512, 596).
THEOREM AlwaysContestable == C!Spec => []Contestable
  BY WholeAlways, WholeContestable, PTL

-----------------------------------------------------------------------------
(* Lists of effects, of payouts and of checks. *)

\* The list made of a finite set holds nothing else.
LEMMA SetOfList ==
    ASSUME NEW S, IsFiniteSet(S)
    PROVE  IsList(C!SetToSeq(S)) /\ C!ToSet(C!SetToSeq(S)) \subseteq S
<1> DEFINE n == Cardinality(S)
           f == C!SetToSeq(S)
<1>1. n \in Nat /\ ExistsBijection(1..n, S)
  BY FS_CardinalityType
<1>2. PICK g \in Bijection(1..n, S) : TRUE
  BY <1>1 DEF ExistsBijection
<1>3. g \in [1..n -> S] /\ C!IsInjective(g)
  BY <1>2 DEF Bijection, Injection, IsInjective, C!IsInjective
<1>4. f \in [1..n -> S]
  <2>1. C!Cardinality(S) = n
    BY DEF C!Cardinality, Cardinality
  <2> QED
    BY <1>3, <2>1 DEF C!SetToSeq
<1> HIDE DEF f
<1>5. f \in Seq(S)
  BY <1>1, <1>4
<1>6. C!ToSet(f) \subseteq S
  BY <1>4 DEF C!ToSet
<1> QED
  BY <1>5, <1>6 DEF IsList, f

\* Two lists together hold what each of them holds.
LEMMA SetOfBoth ==
    ASSUME NEW s, NEW t, IsList(s), IsList(t)
    PROVE  IsList(s \o t) /\ C!ToSet(s \o t) = C!ToSet(s) \cup C!ToSet(t)
<1>1. PICK S : s \in Seq(S)
  BY DEF IsList
<1>2. PICK T : t \in Seq(T)
  BY DEF IsList
<1>3. s \in Seq(S \cup T) /\ t \in Seq(S \cup T)
  BY <1>1, <1>2
<1>4. s \o t \in Seq(S \cup T)
  BY <1>3
<1>5. /\ DOMAIN s = 1..Len(s) /\ DOMAIN t = 1..Len(t) /\ Len(s) \in Nat /\ Len(t) \in Nat
      /\ DOMAIN (s \o t) = 1..(Len(s) + Len(t))
  BY <1>3
<1>6. /\ \A i \in 1..Len(s) : (s \o t)[i] = s[i]
      /\ \A i \in 1..Len(t) : (s \o t)[Len(s) + i] = t[i]
  BY <1>3
<1>7. ASSUME NEW i \in 1..(Len(s) + Len(t)) PROVE (s \o t)[i] \in C!ToSet(s) \cup C!ToSet(t)
  <2>1. CASE i \in 1..Len(s)
    BY <1>5, <1>6, <2>1 DEF C!ToSet
  <2>2. CASE i \notin 1..Len(s)
    <3>1. i - Len(s) \in 1..Len(t) /\ i = Len(s) + (i - Len(s))
      BY <1>5, <1>7, <2>2
    <3>2. (s \o t)[i] = t[i - Len(s)]
      BY <1>6, <3>1
    <3> QED
      BY <1>5, <3>1, <3>2 DEF C!ToSet
  <2> QED
    BY <2>1, <2>2
<1>8. C!ToSet(s \o t) \subseteq C!ToSet(s) \cup C!ToSet(t)
  BY <1>5, <1>7 DEF C!ToSet
<1>9. C!ToSet(s) \cup C!ToSet(t) \subseteq C!ToSet(s \o t)
  <2>1. ASSUME NEW i \in 1..Len(s) PROVE s[i] \in C!ToSet(s \o t)
    <3>1. i \in 1..(Len(s) + Len(t))
      BY <1>5
    <3> QED
      BY <1>5, <1>6, <3>1 DEF C!ToSet
  <2>2. ASSUME NEW i \in 1..Len(t) PROVE t[i] \in C!ToSet(s \o t)
    <3>1. Len(s) + i \in 1..(Len(s) + Len(t))
      BY <1>5
    <3>2. (s \o t)[Len(s) + i] = t[i]
      BY <1>6
    <3> QED
      BY <1>5, <3>1, <3>2 DEF C!ToSet
  <2> QED
    BY <1>5, <2>1, <2>2 DEF C!ToSet
<1> QED
  BY <1>4, <1>8, <1>9 DEF IsList

\* A list of one effect.
LEMMA ListOfOne == ASSUME NEW e PROVE IsList(<<e>>) /\ C!ToSet(<<e>>) = {e}
<1> DEFINE s == <<e>>
<1>1. s \in Seq({e}) /\ DOMAIN s = {1} /\ s[1] = e
  OBVIOUS
<1> HIDE DEF s
<1>2. IsList(s) /\ C!ToSet(s) = {e}
  BY <1>1 DEF IsList, C!ToSet
<1> QED
  BY <1>2 DEF s

\* A list of two effects.
LEMMA ListOfTwo == ASSUME NEW e, NEW f PROVE IsList(<<e, f>>) /\ C!ToSet(<<e, f>>) = {e, f}
<1> DEFINE s == <<e, f>>
<1>1. s \in Seq({e, f}) /\ DOMAIN s = {1, 2} /\ s[1] = e /\ s[2] = f
  OBVIOUS
<1> HIDE DEF s
<1>2. IsList(s) /\ C!ToSet(s) = {e, f}
  BY <1>1 DEF IsList, C!ToSet
<1> QED
  BY <1>2 DEF s

\* What a settlement's payouts can be.
LEMMA FewPayouts ==
    ASSUME NEW payouts \in C!Payouts
    PROVE  /\ IsList(payouts)
           /\ \/ payouts = <<>> /\ DOMAIN payouts = {}
              \/ payouts = <<payouts[1]>> /\ DOMAIN payouts = {1}
              \/ payouts = <<payouts[1], payouts[2]>> /\ DOMAIN payouts = {1, 2}
           /\ \A i \in DOMAIN payouts :
                  payouts[i] \in [recipient : Parties, submission : SubmissionIds,
                                  amount : Amounts \ {0}]
<1> DEFINE payout == [recipient : Parties, submission : SubmissionIds, amount : Amounts \ {0}]
<1> HIDE DEF payout
<1>1. CASE payouts = <<>>
  <2>1. payouts \in Seq({})
    BY <1>1
  <2> QED
    BY <1>1, <2>1 DEF IsList
<1>2. ASSUME NEW p \in payout, payouts = <<p>> PROVE
        /\ IsList(payouts) /\ payouts = <<payouts[1]>> /\ DOMAIN payouts = {1}
        /\ \A i \in DOMAIN payouts : payouts[i] \in payout
  BY <1>2, ListOfOne
<1>3. ASSUME NEW p \in payout, NEW q \in payout, payouts = <<p, q>> PROVE
        /\ IsList(payouts) /\ payouts = <<payouts[1], payouts[2]>> /\ DOMAIN payouts = {1, 2}
        /\ \A i \in DOMAIN payouts : payouts[i] \in payout
  BY <1>3, ListOfTwo
<1> QED
  BY <1>1, <1>2, <1>3 DEF C!Payouts, payout

\* Flattening one list gives that list.
LEMMA FlatOfOne ==
    ASSUME NEW l
    PROVE  C!FlattenSeq(<<l>>) = l
<1> DEFINE Flat(g) == g = [i \in 1..1 |-> IF i = 1 THEN <<l>>[i] ELSE g[i - 1] \o <<l>>[i]]
           flat == CHOOSE g : Flat(g)
<1>1. Flat([i \in 1..1 |-> l])
  OBVIOUS
<1>2. Flat(flat)
  BY <1>1, Zenon
<1>3. C!FlattenSeq(<<l>>) = flat[1]
  BY DEF C!FlattenSeq
<1> HIDE DEF flat
<1> QED
  BY <1>2, <1>3

\* Flattening two lists gives one after the other.
LEMMA FlatOfTwo ==
    ASSUME NEW l, NEW m
    PROVE  C!FlattenSeq(<<l, m>>) = l \o m
<1> DEFINE Flat(g) ==
               g = [i \in 1..2 |-> IF i = 1 THEN <<l, m>>[i] ELSE g[i - 1] \o <<l, m>>[i]]
           flat == CHOOSE g : Flat(g)
           one == [i \in 1..2 |-> IF i = 1 THEN l ELSE l \o m]
<1>1. Flat(one)
  OBVIOUS
<1>2. Flat(flat)
  <2> HIDE DEF Flat
  <2> QED
    BY <1>1, Zenon
<1>3. C!FlattenSeq(<<l, m>>) = flat[2]
  BY DEF C!FlattenSeq
<1> HIDE DEF flat
<1>4. flat[1] = l /\ flat[2] = flat[1] \o m
  <2> DEFINE pair == <<l, m>>
  <2>1. pair[1] = l /\ pair[2] = m
    OBVIOUS
  <2>2. flat = [i \in 1..2 |-> IF i = 1 THEN pair[i] ELSE flat[i - 1] \o pair[i]]
    BY <1>2
  <2> HIDE DEF pair
  <2>3. \A i \in 1..2 : flat[i] = IF i = 1 THEN pair[i] ELSE flat[i - 1] \o pair[i]
    BY <2>2, Zenon
  <2>4. flat[1] = IF 1 = 1 THEN pair[1] ELSE flat[1 - 1] \o pair[1]
    BY <2>3, 1 \in 1..2, Zenon
  <2>5. flat[2] = IF 2 = 1 THEN pair[2] ELSE flat[2 - 1] \o pair[2]
    BY <2>3, 2 \in 1..2, Zenon
  <2>6. flat[2] = flat[1] \o pair[2]
    BY <2>5, 2 # 1, 2 - 1 = 1, Zenon
  <2> QED
    BY <2>1, <2>4, <2>6
<1> QED
  BY <1>3, <1>4

-----------------------------------------------------------------------------
(* What the absence of a refusal says of phases and payouts. *)

\* A bounty that may be opened is a draft.
LEMMA OpenBountyClear ==
    ASSUME NEW b, NEW command
    PROVE  /\ IsList(C!OpenBountyChecks(b, command))
           /\ Clear(C!OpenBountyChecks(b, command)) =>
                  /\ b.phase = "draft"
                  /\ ~(command.now >= Deadline)
                  /\ command.funded = C!Larger(Reward, MinBounty)
<1> DEFINE checks == C!OpenBountyChecks(b, command)
<1>1. /\ checks \in Seq({checks[1], checks[2], checks[3], checks[4]})
      /\ DOMAIN checks = 1..4
  BY DEF C!OpenBountyChecks
<1>2. /\ checks[1][2] = (b.phase # "draft")
      /\ checks[2][2] = (command.now >= Deadline)
      /\ checks[4][2] = (command.funded # C!Larger(Reward, MinBounty))
  BY DEF C!OpenBountyChecks
<1> HIDE DEF checks
<1>3. Clear(checks) => ~checks[1][2] /\ ~checks[2][2] /\ ~checks[4][2]
  BY <1>1 DEF Clear
<1> QED
  BY <1>1, <1>2, <1>3 DEF IsList, checks

\* A bounty that may advance is open.
LEMMA AdvanceClear ==
    ASSUME NEW b, NEW command
    PROVE  /\ IsList(C!AdvanceChecks(b, command))
           /\ Clear(C!AdvanceChecks(b, command)) =>
                  /\ b.phase = "open"
                  /\ ~(command.now <= C!ChallengeDeadline)
                  /\ ~\E c \in C!Open(b) :
                          command.now <= C!ResolutionDeadline(b.challenges[c])
<1> DEFINE checks == C!AdvanceChecks(b, command)
<1>1. checks \in Seq({checks[1], checks[2], checks[3]}) /\ DOMAIN checks = 1..3
  BY DEF C!AdvanceChecks
<1>2. /\ checks[1][2] = (b.phase # "open")
      /\ checks[2][2] = (command.now <= C!ChallengeDeadline)
      /\ checks[3][2] =
             (\E c \in C!Open(b) : command.now <= C!ResolutionDeadline(b.challenges[c]))
  BY DEF C!AdvanceChecks
<1> HIDE DEF checks
<1>3. Clear(checks) => ~checks[1][2] /\ ~checks[2][2] /\ ~checks[3][2]
  BY <1>1 DEF Clear
<1> QED
  BY <1>1, <1>2, <1>3 DEF IsList, checks

\* A bounty that may be canceled is open.
LEMMA CancelClear ==
    ASSUME NEW b, NEW command
    PROVE  /\ IsList(C!CancelChecks(b, command))
           /\ Clear(C!CancelChecks(b, command)) =>
                  /\ b.phase = "open"
                  /\ ~(command.now >= Deadline)
                  /\ C!Present(b) = {} /\ C!Filed(b) = {}
<1> DEFINE checks == C!CancelChecks(b, command)
<1>1. checks \in Seq({checks[1], checks[2], checks[3], checks[4]}) /\ DOMAIN checks = 1..4
  BY DEF C!CancelChecks
<1>2. /\ checks[1][2] = (b.phase # "open")
      /\ checks[2][2] = (command.now >= Deadline)
      /\ checks[3][2] = (C!Present(b) # {} \/ C!Filed(b) # {})
  BY DEF C!CancelChecks
<1> HIDE DEF checks
<1>3. Clear(checks) => ~checks[1][2] /\ ~checks[2][2] /\ ~checks[3][2]
  BY <1>1 DEF Clear
<1> QED
  BY <1>1, <1>2, <1>3 DEF IsList, checks

\* A payout that is let through goes to the submitter of a payable submission, once.
LEMMA PayoutClear ==
    ASSUME NEW b, NEW payouts, NEW i
    PROVE  /\ IsList(C!PayoutChecks(b, payouts, i))
           /\ Clear(C!PayoutChecks(b, payouts, i)) =>
                  /\ payouts[i].submission \in b.payable
                  /\ \A j \in 1..(i - 1) : payouts[j].submission # payouts[i].submission
                  /\ payouts[i].recipient = b.submissions[payouts[i].submission].submitter
<1> DEFINE checks == C!PayoutChecks(b, payouts, i)
<1>1. checks \in Seq({checks[1], checks[2], checks[3]}) /\ DOMAIN checks = 1..3
  BY DEF C!PayoutChecks
<1>2. /\ checks[1][2] = (payouts[i].submission \notin b.payable)
      /\ checks[2][2] = (\E j \in 1..(i - 1) : payouts[j].submission = payouts[i].submission)
      /\ checks[3][2] =
             (/\ payouts[i].submission \in b.payable
              /\ payouts[i].recipient # b.submissions[payouts[i].submission].submitter)
  BY DEF C!PayoutChecks
<1> HIDE DEF checks
<1>3. Clear(checks) => ~checks[1][2] /\ ~checks[2][2] /\ ~checks[3][2]
  BY <1>1 DEF Clear
<1> QED
  BY <1>1, <1>2, <1>3 DEF IsList, checks

\* Lists one after the other are a list.
LEMMA ConcatenatedLists ==
    ASSUME NEW s, NEW t, IsList(s), IsList(t) PROVE IsList(s \o t)
  BY SetOfBoth

\* The checks of all payouts, in a settlement's list, are the checks of each.
LEMMA PayoutsClear ==
    ASSUME NEW b, NEW payouts \in C!Payouts
    PROVE  LET flat == C!FlattenSeq([i \in DOMAIN payouts |-> C!PayoutChecks(b, payouts, i)])
           IN  payouts # <<>> =>
                   /\ IsList(flat)
                   /\ Clear(flat) =>
                          \A i \in DOMAIN payouts : Clear(C!PayoutChecks(b, payouts, i))
<1> DEFINE l(i) == C!PayoutChecks(b, payouts, i)
           lists == [i \in DOMAIN payouts |-> l(i)]
<1>1. IsList(l(1)) /\ IsList(l(2))
  BY PayoutClear
<1> HIDE DEF l
<1>2. CASE DOMAIN payouts = {1}
  <2>1. lists = <<l(1)>>
    BY <1>2
  <2>2. C!FlattenSeq(lists) = l(1)
    BY <2>1, FlatOfOne
  <2> QED
    BY <1>1, <1>2, <2>2 DEF l
<1>3. CASE DOMAIN payouts = {1, 2}
  <2>1. lists = <<l(1), l(2)>>
    BY <1>3
  <2>2. C!FlattenSeq(lists) = l(1) \o l(2)
    BY <2>1, FlatOfTwo
  <2>3. IsList(l(1) \o l(2)) /\ (Clear(l(1) \o l(2)) => Clear(l(1)) /\ Clear(l(2)))
    BY <1>1, ClearBoth, ConcatenatedLists
  <2> QED
    BY <1>3, <2>2, <2>3 DEF l
<1> QED
  BY <1>2, <1>3, FewPayouts

\* A settlement that is let through pays what is payable, and all that is escrowed.
LEMMA SettleClear ==
    ASSUME NEW b, NEW command, command.payouts \in C!Payouts, command.payouts # <<>>
    PROVE  /\ IsList(C!SettleChecks(b, command))
           /\ Clear(C!SettleChecks(b, command)) =>
                  /\ b.phase = "payable"
                  /\ \A i \in DOMAIN command.payouts :
                         Clear(C!PayoutChecks(b, command.payouts, i))
                  /\ C!PaidOut(command.payouts) = b.escrow
<1> DEFINE payouts == command.payouts
           head == <<<<"INVALID_COMMAND", command.form = "refused by the handler">>,
                     <<"WRONG_PHASE", b.phase # "payable">>,
                     <<"MISSING_EVIDENCE", payouts = <<>>>>>>
           flat == C!FlattenSeq([i \in DOMAIN payouts |-> C!PayoutChecks(b, payouts, i)])
           last == <<<<"CONSERVATION_FAILURE", C!PaidOut(payouts) # b.escrow>>>>
<1>1. C!SettleChecks(b, command) = head \o flat \o last
  BY DEF C!SettleChecks
<1>2. /\ IsList(flat)
      /\ Clear(flat) => \A i \in DOMAIN payouts : Clear(C!PayoutChecks(b, payouts, i))
  BY PayoutsClear
<1>3. IsList(head) /\ (Clear(head) => b.phase = "payable")
  <2>1. head \in Seq({head[1], head[2], head[3]}) /\ DOMAIN head = 1..3
    OBVIOUS
  <2>2. head[2][2] = (b.phase # "payable")
    OBVIOUS
  <2> HIDE DEF head
  <2>3. Clear(head) => ~head[2][2]
    BY <2>1 DEF Clear
  <2> QED
    BY <2>1, <2>2, <2>3 DEF IsList
<1>4. IsList(last) /\ (Clear(last) => C!PaidOut(payouts) = b.escrow)
  <2>1. last \in Seq({last[1]}) /\ DOMAIN last = {1}
    OBVIOUS
  <2>2. last[1][2] = (C!PaidOut(payouts) # b.escrow)
    OBVIOUS
  <2> HIDE DEF last
  <2>3. Clear(last) => ~last[1][2]
    BY <2>1 DEF Clear
  <2> QED
    BY <2>1, <2>2, <2>3 DEF IsList
<1> HIDE DEF head, flat, last
<1>5. IsList(head \o flat) /\ (Clear(head \o flat) => Clear(head) /\ Clear(flat))
  BY <1>2, <1>3, ClearBoth, ConcatenatedLists
<1>6. /\ IsList(head \o flat \o last)
      /\ Clear(head \o flat \o last) => Clear(head \o flat) /\ Clear(last)
  BY <1>4, <1>5, ClearBoth, ConcatenatedLists
<1> QED
  BY <1>1, <1>2, <1>3, <1>4, <1>5, <1>6

\* A settlement without payouts is refused.
LEMMA NothingToSettle ==
    ASSUME NEW b, NEW command, command.payouts = <<>>
    PROVE  IsList(C!SettleChecks(b, command)) /\ ~Clear(C!SettleChecks(b, command))
<1> DEFINE payouts == command.payouts
           head == <<<<"INVALID_COMMAND", command.form = "refused by the handler">>,
                     <<"WRONG_PHASE", b.phase # "payable">>,
                     <<"MISSING_EVIDENCE", payouts = <<>>>>>>
           lists == [i \in DOMAIN payouts |-> C!PayoutChecks(b, payouts, i)]
           flat == C!FlattenSeq(lists)
           last == <<<<"CONSERVATION_FAILURE", C!PaidOut(payouts) # b.escrow>>>>
<1>1. C!SettleChecks(b, command) = head \o flat \o last
  BY DEF C!SettleChecks
<1>2. IsList(flat)
  <2>1. DOMAIN payouts = 1..0
    OBVIOUS
  <2>2. lists \in Seq({}) /\ Len(lists) = 0
    BY <2>1
  <2> HIDE DEF lists
  <2>3. flat = lists
    BY <2>2 DEF C!FlattenSeq
  <2> QED
    BY <2>2, <2>3 DEF IsList
<1>3. IsList(head) /\ ~Clear(head)
  <2>1. head \in Seq({head[1], head[2], head[3]}) /\ DOMAIN head = 1..3
    OBVIOUS
  <2>2. head[3][2] = (payouts = <<>>)
    OBVIOUS
  <2> HIDE DEF head
  <2>3. Clear(head) => ~head[3][2]
    BY <2>1 DEF Clear
  <2> QED
    BY <2>1, <2>2, <2>3 DEF IsList
<1>4. IsList(last)
  BY ListOfOne
<1> HIDE DEF head, flat, last
<1>5. IsList(head \o flat) /\ ~Clear(head \o flat)
  BY <1>2, <1>3, ClearBoth, ConcatenatedLists
<1>6. IsList(head \o flat \o last) /\ ~Clear(head \o flat \o last)
  BY <1>4, <1>5, ClearBoth, ConcatenatedLists
<1> QED
  BY <1>1, <1>6

\* A settlement's payouts come from the callers' list of them.
Split(command) == command.kind = "settle_bounty" => command.payouts \in C!Payouts

\* What holds of a taken command that carries no receipt.
LEMMA TakenCommon ==
    ASSUME NEW b, NEW command, NEW evidence, Clear(C!Checks(b, command, evidence)),
           Addressed(command), Split(command)
    PROVE  /\ C!market_state_violations(b) = {}
           /\ Clear(C!CommonChecks(b, command, evidence))
           /\ command.kind = "open_bounty" => Clear(C!OpenBountyChecks(b, command))
           /\ command.kind = "advance_bounty" => Clear(C!AdvanceChecks(b, command))
           /\ command.kind = "cancel_bounty" => Clear(C!CancelChecks(b, command))
           /\ command.kind = "settle_bounty" =>
                  Clear(C!SettleChecks(b, command)) /\ command.payouts # <<>>
<1> DEFINE common == C!CommonChecks(b, command, evidence)
           handler == C!HandlerChecks(b, command, evidence)
<1>1. IsList(common) /\ (Clear(common) => C!market_state_violations(b) = {})
  BY CommonClear
<1>2. Clear(common \o handler)
  BY DEF C!Checks
<1> HIDE DEF common
<1>3. IsList(handler)
  <2>1. CASE command.kind = "settle_bounty"
    <3>1. handler = C!SettleChecks(b, command)
      BY <2>1 DEF C!HandlerChecks
    <3>2. command.payouts \in C!Payouts
      BY <2>1 DEF Split
    <3> HIDE DEF handler
    <3> QED
      BY <3>1, <3>2, SettleClear, NothingToSettle
  <2>2. CASE command.kind = "open_bounty"
    BY <2>2, OpenBountyClear DEF C!HandlerChecks
  <2>3. CASE command.kind = "advance_bounty"
    BY <2>3, AdvanceClear DEF C!HandlerChecks
  <2>4. CASE command.kind = "cancel_bounty"
    BY <2>4, CancelClear DEF C!HandlerChecks
  <2>5. CASE command.kind = "open_challenge"
    BY <2>5, ChallengeClear DEF C!HandlerChecks
  <2>6. CASE command.kind = "submit_candidate"
    BY <2>6, Lists DEF C!HandlerChecks
  <2>7. CASE command.kind = "verify_submission"
    BY <2>7, Lists DEF C!HandlerChecks
  <2>8. CASE command.kind = "resolve_challenge"
    BY <2>8, Lists DEF C!HandlerChecks
  <2> QED
    BY <2>1, <2>2, <2>3, <2>4, <2>5, <2>6, <2>7, <2>8 DEF Addressed
<1> HIDE DEF handler
<1>4. Clear(common) /\ Clear(handler)
  BY <1>1, <1>2, <1>3, ClearBoth
<1>5. CASE command.kind = "settle_bounty"
  <2>1. handler = C!SettleChecks(b, command)
    BY <1>5 DEF C!HandlerChecks, handler
  <2> QED
    BY <1>1, <1>4, <1>5, <2>1, NothingToSettle DEF common
<1>6. CASE command.kind # "settle_bounty"
  <2>1. /\ command.kind = "open_bounty" => handler = C!OpenBountyChecks(b, command)
        /\ command.kind = "advance_bounty" => handler = C!AdvanceChecks(b, command)
        /\ command.kind = "cancel_bounty" => handler = C!CancelChecks(b, command)
    BY DEF C!HandlerChecks, handler
  <2> QED
    BY <1>1, <1>4, <1>6, <2>1 DEF common
<1> QED
  BY <1>5, <1>6

-----------------------------------------------------------------------------
(* Who may be paid: every effect is the right one, and every stake is backed by a lock. *)

\* Each command is taken in one phase.
LEMMA TakenPhase ==
    ASSUME NEW b, NEW command, NEW evidence, Clear(C!Checks(b, command, evidence)),
           Addressed(command), Split(command)
    PROVE  b.phase = CASE command.kind = "open_bounty" -> "draft"
                       [] command.kind = "settle_bounty" -> "payable"
                       [] OTHER -> "open"
<1>1. CASE command.kind = "open_bounty"
  BY <1>1, TakenCommon, OpenBountyClear
<1>2. CASE command.kind = "settle_bounty"
  <2>1. Clear(C!SettleChecks(b, command)) /\ command.payouts # <<>>
    BY <1>2, TakenCommon
  <2>2. command.payouts \in C!Payouts
    BY <1>2 DEF Split
  <2>3. b.phase = "payable"
    BY <2>1, <2>2, SettleClear
  <2> QED
    BY <1>2, <2>3
<1>3. CASE command.kind \in {"advance_bounty", "cancel_bounty"}
  <2>1. b.phase = "open"
    BY <1>3, TakenCommon, AdvanceClear, CancelClear
  <2> QED
    BY <1>3, <2>1
<1>4. CASE command.kind \in {"submit_candidate", "verify_submission", "open_challenge",
                             "resolve_challenge"}
  <2>1. /\ command.kind = "submit_candidate" => Clear(C!SubmitChecks(b, command))
        /\ command.kind = "verify_submission" => Clear(C!VerifyChecks(b, command, evidence))
        /\ command.kind = "open_challenge" => Clear(C!ChallengeChecks(b, command))
        /\ command.kind = "resolve_challenge" => Clear(C!ResolveChecks(b, command, evidence))
    BY TakenClear
  <2>2. /\ Clear(C!SubmitChecks(b, command)) => b.phase = "open"
        /\ Clear(C!ResolveChecks(b, command, evidence)) => b.phase = "open"
    BY SubmitClear, ResolveClear
  <2>3. Clear(C!VerifyChecks(b, command, evidence)) => b.phase = "open"
    BY VerifyClear
  <2>4. Clear(C!ChallengeChecks(b, command)) => b.phase = "open"
    BY ChallengeClear
  <2> QED
    BY <1>4, <2>1, <2>2, <2>3, <2>4
<1> QED
  BY <1>1, <1>2, <1>3, <1>4 DEF Addressed

\* What RightParty asks of one effect, among those returned.
RightEffect(e, S) ==
    /\ e.kind = "refund_submission_bond" => [e EXCEPT !.kind = "lock_submission_bond"] \in S
    /\ e.kind = "refund_challenge_deposit" => [e EXCEPT !.kind = "lock_challenge_deposit"] \in S
    /\ e.kind \in {"slash_submission_bond", "slash_challenge_deposit"} => e.recipient = Treasury
    /\ e.kind = "payout" =>
           \E lock \in S : /\ lock.kind = "lock_submission_bond"
                           /\ lock.subject = e.subject /\ lock.recipient = e.recipient
    /\ e.kind = "refund_escrow" => e.recipient = Sponsor

\* A submission's bond and submitter are those of a lock that was returned.
SubmissionBacked(r, s, early, S) ==
    /\ r.bond > 0 \/ (early /\ r.status = "pending") =>
           C!Effect("lock_submission_bond", r.submitter, r.bond, s) \in S
    /\ r.status # "none" =>
           \E lock \in S : /\ lock.kind = "lock_submission_bond"
                           /\ lock.subject = s /\ lock.recipient = r.submitter

\* An open challenge's deposit and challenger are those of a lock that was returned.
ChallengeBacked(r, c, S) ==
    r.status = "open" => C!Effect("lock_challenge_deposit", r.challenger, r.deposit, c) \in S

\* Before anything is payable, a pending submission still has its bond.
Early(b) == b.phase \in {"draft", "open"}

\* Every stake a bounty records was locked by the party it records.
Backed(b, S) ==
    /\ \A s \in SubmissionIds : SubmissionBacked(b.submissions[s], s, Early(b), S)
    /\ \A c \in ChallengeIds : ChallengeBacked(b.challenges[c], c, S)

\* What is right or backed stays so when more is returned.
LEMMA MoreBacked ==
    ASSUME NEW S, NEW T, S \subseteq T
    PROVE  /\ \A e : RightEffect(e, S) => RightEffect(e, T)
           /\ \A r, s, early :
                  SubmissionBacked(r, s, early, S) => SubmissionBacked(r, s, early, T)
           /\ \A r, c : ChallengeBacked(r, c, S) => ChallengeBacked(r, c, T)
<1>1. ASSUME NEW e, RightEffect(e, S) PROVE RightEffect(e, T)
  BY <1>1, Zenon DEF RightEffect
<1>2. ASSUME NEW r, NEW s, NEW early, SubmissionBacked(r, s, early, S)
      PROVE  SubmissionBacked(r, s, early, T)
  BY <1>2, Zenon DEF SubmissionBacked
<1>3. ASSUME NEW r, NEW c, ChallengeBacked(r, c, S) PROVE ChallengeBacked(r, c, T)
  BY <1>3, Zenon DEF ChallengeBacked
<1> QED
  BY <1>1, <1>2, <1>3

\* A refund to whom a lock took it from is right; so is a slash, and what is nobody's.
LEMMA RefundRight ==
    ASSUME NEW S, NEW recipient, NEW amount, NEW subject
    PROVE  /\ C!Effect("lock_submission_bond", recipient, amount, subject) \in S =>
                  RightEffect(C!Effect("refund_submission_bond", recipient, amount, subject), S)
           /\ C!Effect("lock_challenge_deposit", recipient, amount, subject) \in S =>
                  RightEffect(C!Effect("refund_challenge_deposit", recipient, amount, subject), S)
           /\ RightEffect(C!Effect("slash_submission_bond", Treasury, amount, subject), S)
           /\ RightEffect(C!Effect("slash_challenge_deposit", Treasury, amount, subject), S)
           /\ RightEffect(C!Effect("refund_escrow", Sponsor, amount, subject), S)
           /\ \A kind \in {"lock_escrow", "lock_submission_bond", "lock_challenge_deposit"} :
                  RightEffect(C!Effect(kind, recipient, amount, subject), S)
           /\ (\E lock \in S : /\ lock.kind = "lock_submission_bond"
                              /\ lock.subject = subject /\ lock.recipient = recipient) =>
                  RightEffect(C!Effect("payout", recipient, amount, subject), S)
<1>1. C!Effect("lock_submission_bond", recipient, amount, subject) \in S =>
          RightEffect(C!Effect("refund_submission_bond", recipient, amount, subject), S)
  BY DEF RightEffect, C!Effect
<1>2. C!Effect("lock_challenge_deposit", recipient, amount, subject) \in S =>
          RightEffect(C!Effect("refund_challenge_deposit", recipient, amount, subject), S)
  BY DEF RightEffect, C!Effect
<1>3. /\ RightEffect(C!Effect("slash_submission_bond", Treasury, amount, subject), S)
      /\ RightEffect(C!Effect("slash_challenge_deposit", Treasury, amount, subject), S)
      /\ RightEffect(C!Effect("refund_escrow", Sponsor, amount, subject), S)
  BY DEF RightEffect, C!Effect
<1>4. \A kind \in {"lock_escrow", "lock_submission_bond", "lock_challenge_deposit"} :
          RightEffect(C!Effect(kind, recipient, amount, subject), S)
  BY DEF RightEffect, C!Effect
<1>5. ASSUME NEW lock \in S, lock.kind = "lock_submission_bond", lock.subject = subject,
             lock.recipient = recipient
      PROVE  RightEffect(C!Effect("payout", recipient, amount, subject), S)
  BY <1>5 DEF RightEffect, C!Effect
<1> QED
  BY <1>1, <1>2, <1>3, <1>4, <1>5

\* A function on a finite set takes finitely many values.
LEMMA ImageFinite ==
    ASSUME NEW S, IsFiniteSet(S), NEW f, DOMAIN f = S
    PROVE  IsFiniteSet({f[x] : x \in S})
<1> DEFINE T == {f[x] : x \in S}
           g == [x \in S |-> f[x]]
<1>1. g \in Surjection(S, T)
  <2>1. g \in [S -> T] /\ \A y \in T : \E x \in S : g[x] = y
    OBVIOUS
  <2> QED
    BY <2>1 DEF Surjection
<1> HIDE DEF T, g
<1>2. IsFiniteSet(T)
  BY <1>1, FS_Surjection
<1> QED
  BY <1>2 DEF T

\* The bonds given back when a bounty ends were locked by whom they go to.
LEMMA BondRefundsRight ==
    ASSUME NEW b, NEW S, Backed(b, S)
    PROVE  /\ IsList(C!BondRefunds(b))
           /\ \A e \in C!ToSet(C!BondRefunds(b)) :
                  e.kind = "refund_submission_bond" /\ RightEffect(e, S)
<1> DEFINE Refund(s) == C!Effect("refund_submission_bond", b.submissions[s].submitter,
                                 b.submissions[s].bond, s)
           Refunded == {s \in SubmissionIds : b.submissions[s].bond > 0}
           Refunds == {Refund(s) : s \in Refunded}
<1>1. IsFiniteSet(Refunds)
  <2>1. IsFiniteSet(SubmissionIds)
    BY BountiesAssumption DEF C!CallsParameters, C!IsFiniteSet, IsFiniteSet
  <2>2. IsFiniteSet(Refunded)
    BY <2>1, FS_Subset
  <2> HIDE DEF Refund, Refunded
  <2> DEFINE f == [s \in Refunded |-> Refund(s)]
  <2>3. IsFiniteSet({f[s] : s \in Refunded})
    BY <2>2, ImageFinite
  <2>4. {f[s] : s \in Refunded} = Refunds
    OBVIOUS
  <2> QED
    BY <2>3, <2>4
<1>2. C!BondRefunds(b) = C!SetToSeq(Refunds)
  BY DEF C!BondRefunds
<1>3. \A s \in Refunded : Refund(s).kind = "refund_submission_bond" /\ RightEffect(Refund(s), S)
  <2> TAKE s \in Refunded
  <2>1. C!Effect("lock_submission_bond", b.submissions[s].submitter, b.submissions[s].bond, s) \in S
    BY DEF Backed, SubmissionBacked
  <2>2. RightEffect(Refund(s), S)
    BY <2>1, RefundRight
  <2>3. Refund(s).kind = "refund_submission_bond"
    BY DEF C!Effect
  <2> QED
    BY <2>2, <2>3
<1> HIDE DEF Refund, Refunded
<1>4. \A e \in Refunds : e.kind = "refund_submission_bond" /\ RightEffect(e, S)
  BY <1>3
<1> HIDE DEF Refunds
<1> QED
  BY <1>1, <1>2, <1>4, SetOfList

\* A decision whose effects are right, and after which every stake is backed.
RightDecision(d, S) ==
    /\ IsList(d.effects)
    /\ \A e \in C!ToSet(d.effects) : RightEffect(e, S)
    /\ Backed(d.next, S \cup C!ToSet(d.effects))

\* One of the open phase that neither funds nor pays.
Quiet(b, d) ==
    /\ \A e \in C!ToSet(d.effects) : e.kind \notin {"lock_escrow", "payout"}
    /\ d.next.phase \in {"open", "payable", "expired", "canceled"}
    /\ d.next.phase \in {"open", "payable"} => d.next.escrow = b.escrow

\* A handler's decision is right when its effects and its state are.
LEMMA ReturnedRight ==
    ASSUME NEW b, NEW command, NEW next, NEW effects, NEW code, NEW S,
           DOMAIN next = Fields, IsList(effects),
           \A e \in C!ToSet(effects) : RightEffect(e, S),
           Backed(next, S \cup C!ToSet(effects))
    PROVE  LET d == C!Returned(b, command, next, effects, code)
           IN  /\ RightDecision(d, S)
               /\ /\ \A e \in C!ToSet(effects) : e.kind \notin {"lock_escrow", "payout"}
                  /\ next.phase \in {"open", "payable", "expired", "canceled"}
                  /\ next.phase \in {"open", "payable"} => next.escrow = b.escrow
                  => Quiet(b, d)
<1> DEFINE d == C!Returned(b, command, next, effects, code)
<1>1. /\ d.next.phase = next.phase /\ d.next.escrow = next.escrow
      /\ d.next.submissions = next.submissions /\ d.next.challenges = next.challenges
  BY ReturnedState
<1>2. d.effects = effects
  BY DEF C!Returned
<1> HIDE DEF d
<1>3. Backed(d.next, S \cup C!ToSet(effects))
  BY <1>1 DEF Backed, Early
<1>4. RightDecision(d, S)
  BY <1>2, <1>3 DEF RightDecision
<1>5. /\ \A e \in C!ToSet(effects) : e.kind \notin {"lock_escrow", "payout"}
      /\ next.phase \in {"open", "payable", "expired", "canceled"}
      /\ next.phase \in {"open", "payable"} => next.escrow = b.escrow
      => Quiet(b, d)
  BY <1>1, <1>2, Zenon DEF Quiet
<1> QED
  BY <1>4, <1>5 DEF d

\* open_bounty locks the reward.
LEMMA OpenBountyRight ==
    ASSUME NEW b, NEW command, NEW S, Whole(b), Backed(b, S), Early(b)
    PROVE  LET d == C!OpenBounty(b, command)
           IN  /\ RightDecision(d, S)
               /\ d.next.phase = "open" /\ d.next.escrow = command.funded
               /\ C!ToSet(d.effects) =
                      {C!Effect("lock_escrow", command.sponsor, command.funded, C!Bounty)}
<1> DEFINE next == [b EXCEPT !.phase = "open", !.escrow = command.funded]
           effect == C!Effect("lock_escrow", command.sponsor, command.funded, C!Bounty)
           effects == <<effect>>
<1>1. /\ DOMAIN next = Fields
      /\ next.submissions = b.submissions /\ next.challenges = b.challenges
      /\ next.phase = "open" /\ next.escrow = command.funded
  BY DEF Whole, Shaped, Fields
<1>2. C!OpenBounty(b, command) = C!Returned(b, command, next, effects, None)
  BY DEF C!OpenBounty
<1>3. IsList(effects) /\ C!ToSet(effects) = {effect}
  BY ListOfOne
<1>4. RightEffect(effect, S)
  BY RefundRight
<1>5. C!Returned(b, command, next, effects, None).effects = effects
  BY DEF C!Returned
<1> HIDE DEF next, effects, effect
<1>6. Backed(next, S)
  BY <1>1 DEF Backed, Early
<1>7. Backed(next, S \cup C!ToSet(effects))
  BY <1>6, MoreBacked DEF Backed, Early
<1>8. RightDecision(C!Returned(b, command, next, effects, None), S)
  BY <1>1, <1>3, <1>4, <1>7, ReturnedRight
<1>9. /\ C!Returned(b, command, next, effects, None).next.phase = next.phase
      /\ C!Returned(b, command, next, effects, None).next.escrow = next.escrow
  BY <1>1, ReturnedState
<1> QED
  BY <1>1, <1>2, <1>3, <1>5, <1>8, <1>9 DEF effect

\* cancel_bounty gives the reward back to the sponsor.
LEMMA CancelBountyRight ==
    ASSUME NEW b, NEW command, NEW S, Whole(b), Backed(b, S)
    PROVE  RightDecision(C!CancelBounty(b, command), S) /\ Quiet(b, C!CancelBounty(b, command))
<1> DEFINE next == [b EXCEPT !.phase = "canceled", !.escrow = 0]
           effect == C!Effect("refund_escrow", Sponsor, b.escrow, C!Bounty)
           effects == <<effect>>
<1>1. /\ DOMAIN next = Fields
      /\ next.submissions = b.submissions /\ next.challenges = b.challenges
      /\ next.phase = "canceled"
  BY DEF Whole, Shaped, Fields
<1>2. C!CancelBounty(b, command) = C!Returned(b, command, next, effects, None)
  BY DEF C!CancelBounty
<1>3. IsList(effects) /\ C!ToSet(effects) = {effect}
  BY ListOfOne
<1>4. RightEffect(effect, S) /\ effect.kind = "refund_escrow"
  <2>1. RightEffect(effect, S)
    BY RefundRight
  <2> QED
    BY <2>1 DEF C!Effect
<1> HIDE DEF next, effects, effect
<1>5. Backed(next, S)
  BY <1>1 DEF Backed, Early, SubmissionBacked
<1>6. Backed(next, S \cup C!ToSet(effects))
  BY <1>5, MoreBacked DEF Backed, Early
<1> QED
  BY <1>1, <1>2, <1>3, <1>4, <1>6, ReturnedRight

\* submit_candidate locks a bond for the submitter it records.
LEMMA SubmitCandidateRight ==
    ASSUME NEW b, NEW command, NEW S, Whole(b), Backed(b, S), b.phase = "open",
           command.submission \in SubmissionIds
    PROVE  /\ RightDecision(C!SubmitCandidate(b, command), S)
           /\ Quiet(b, C!SubmitCandidate(b, command))
<1> DEFINE s == command.submission
           record ==
    [status |-> "pending", submitter |-> command.submitter, recipe |-> command.recipe,
     verifier |-> command.verifier, at |-> command.now, bond |-> command.bond,
     receipt |-> None]
           next == [b EXCEPT !.submissions[s] = record]
           effect == C!Effect("lock_submission_bond", command.submitter, command.bond, s)
           effects == <<effect>>
<1>1. /\ record.submitter = command.submitter /\ record.bond = command.bond
      /\ effect.kind = "lock_submission_bond" /\ effect.subject = s
      /\ effect.recipient = command.submitter
      /\ effect = C!Effect("lock_submission_bond", record.submitter, record.bond, s)
  BY DEF C!Effect
<1>2. C!SubmitCandidate(b, command) = C!Returned(b, command, next, effects, None)
  BY DEF C!SubmitCandidate
<1>3. IsList(effects) /\ C!ToSet(effects) = {effect}
  BY ListOfOne
<1>4. RightEffect(effect, S)
  BY RefundRight
<1> HIDE DEF record, effects, effect
<1>5. /\ DOMAIN next = Fields
      /\ next.submissions = [b.submissions EXCEPT ![s] = record]
      /\ next.challenges = b.challenges /\ next.phase = "open" /\ next.escrow = b.escrow
  BY DEF Whole, Shaped, Fields
<1> HIDE DEF next
<1>6. SubmissionBacked(record, s, TRUE, S \cup {effect})
  BY <1>1 DEF SubmissionBacked
<1>7. Backed(next, S \cup {effect})
  <2>1. /\ Early(next) = TRUE /\ Early(b) = TRUE
        /\ \A r \in SubmissionIds :
               next.submissions[r] = IF r = s THEN record ELSE b.submissions[r]
    BY <1>5 DEF Early, Whole, Shaped
  <2>2. \A r \in SubmissionIds :
            SubmissionBacked(b.submissions[r], r, TRUE, S \cup {effect})
    BY <2>1, MoreBacked DEF Backed
  <2>3. \A c \in ChallengeIds : ChallengeBacked(b.challenges[c], c, S \cup {effect})
    BY MoreBacked DEF Backed
  <2> QED
    BY <1>5, <1>6, <2>1, <2>2, <2>3 DEF Backed
<1> QED
  BY <1>1, <1>2, <1>3, <1>4, <1>5, <1>7, ReturnedRight

\* The empty list of effects.
LEMMA ListOfNone == IsList(<<>>) /\ C!ToSet(<<>>) = {}
<1>1. <<>> \in Seq({})
  OBVIOUS
<1> QED
  BY <1>1 DEF IsList, C!ToSet

\* verify_submission gives the bond of a rejected submission back to its submitter.
LEMMA VerifySubmissionRight ==
    ASSUME NEW b, NEW command, NEW S, Whole(b), Backed(b, S), b.phase = "open",
           command.submission \in SubmissionIds,
           b.submissions[command.submission].status = "pending"
    PROVE  /\ RightDecision(C!VerifySubmission(b, command), S)
           /\ Quiet(b, C!VerifySubmission(b, command))
<1> DEFINE s == command.submission
           submission == b.submissions[s]
           accepted == [b EXCEPT !.submissions[s].status = "verified",
                                 !.submissions[s].receipt = command.receipt]
           rejected == [b EXCEPT !.submissions[s].status = "rejected",
                                 !.submissions[s].bond = 0,
                                 !.submissions[s].receipt = command.receipt]
           effect == C!Effect("refund_submission_bond", submission.submitter, submission.bond, s)
<1>1. /\ DOMAIN accepted = Fields
      /\ accepted.phase = "open" /\ accepted.escrow = b.escrow
      /\ accepted.submissions =
             [b.submissions EXCEPT ![s].status = "verified", ![s].receipt = command.receipt]
      /\ accepted.challenges = b.challenges
  BY DEF Whole, Shaped, Fields
<1>2. /\ DOMAIN rejected = Fields
      /\ rejected.phase = "open" /\ rejected.escrow = b.escrow
      /\ rejected.submissions =
             [b.submissions EXCEPT ![s].status = "rejected", ![s].bond = 0,
                                   ![s].receipt = command.receipt]
      /\ rejected.challenges = b.challenges
  BY DEF Whole, Shaped, Fields
<1> HIDE DEF accepted, rejected
<1>3. /\ Early(b) = TRUE /\ Early(accepted) = TRUE /\ Early(rejected) = TRUE
  BY <1>1, <1>2 DEF Early
<1>4. \A r \in SubmissionIds : SubmissionBacked(b.submissions[r], r, TRUE, S)
  BY <1>3 DEF Backed
<1>5. Backed(accepted, S)
  <2>1. /\ accepted.submissions[s].bond = submission.bond
        /\ accepted.submissions[s].submitter = submission.submitter
        /\ accepted.submissions[s].status = "verified"
        /\ \A r \in SubmissionIds : r # s => accepted.submissions[r] = b.submissions[r]
    BY <1>1 DEF Whole, Shaped
  <2>2. SubmissionBacked(accepted.submissions[s], s, TRUE, S)
    BY <1>4, <2>1 DEF SubmissionBacked
  <2> QED
    BY <1>1, <1>3, <1>4, <2>1, <2>2 DEF Backed
<1>6. Backed(rejected, S)
  <2>1. /\ rejected.submissions[s].bond = 0
        /\ rejected.submissions[s].submitter = submission.submitter
        /\ rejected.submissions[s].status = "rejected"
        /\ \A r \in SubmissionIds : r # s => rejected.submissions[r] = b.submissions[r]
    BY <1>2 DEF Whole, Shaped
  <2>2. SubmissionBacked(rejected.submissions[s], s, TRUE, S)
    BY <1>4, <2>1 DEF SubmissionBacked
  <2> QED
    BY <1>2, <1>3, <1>4, <2>1, <2>2 DEF Backed
<1>7. Backed(rejected, S \cup {effect})
  <2> HIDE DEF effect
  <2> QED
    BY <1>6, MoreBacked DEF Backed
<1>8. RightEffect(effect, S) /\ effect.kind = "refund_submission_bond"
  <2>1. C!Effect("lock_submission_bond", submission.submitter, submission.bond, s) \in S
    BY <1>4 DEF SubmissionBacked
  <2>2. RightEffect(effect, S)
    BY <2>1, RefundRight
  <2> QED
    BY <2>2 DEF C!Effect
<1>9. CASE command.verdict
  <2>1. C!VerifySubmission(b, command) = C!Returned(b, command, accepted, <<>>, None)
    BY <1>9 DEF C!VerifySubmission, accepted
  <2> DEFINE none == <<>>
  <2>2. IsList(none) /\ C!ToSet(none) = {}
    BY ListOfNone
  <2> HIDE DEF none
  <2>3. S \cup C!ToSet(none) = S
    BY <2>2
  <2>4. /\ RightDecision(C!Returned(b, command, accepted, none, None), S)
        /\ Quiet(b, C!Returned(b, command, accepted, none, None))
    BY <1>1, <1>5, <2>2, <2>3, ReturnedRight
  <2> QED
    BY <2>1, <2>4 DEF none
<1>10. CASE ~command.verdict
  <2>1. C!VerifySubmission(b, command) =
            C!Returned(b, command, rejected, <<effect>>, "VERIFIER_REJECTED")
    BY <1>10 DEF C!VerifySubmission, rejected
  <2>2. IsList(<<effect>>) /\ C!ToSet(<<effect>>) = {effect}
    BY ListOfOne
  <2> DEFINE effects == <<effect>>
  <2> HIDE DEF effect, effects
  <2> QED
    BY <1>2, <1>7, <1>8, <2>1, <2>2, ReturnedRight DEF effects
<1> QED
  BY <1>9, <1>10

\* open_challenge locks a deposit for the challenger it records.
LEMMA OpenChallengeRight ==
    ASSUME NEW b, NEW command, NEW S, Whole(b), Backed(b, S), b.phase = "open",
           command.challenge \in ChallengeIds
    PROVE  RightDecision(C!OpenChallenge(b, command), S) /\ Quiet(b, C!OpenChallenge(b, command))
<1> DEFINE c == command.challenge
           record ==
    [status |-> "open", submission |-> command.submission, challenger |-> command.challenger,
     finding |-> command.finding, at |-> command.now, deposit |-> command.deposit,
     receipt |-> None]
           next == [b EXCEPT !.challenges[c] = record]
           effect == C!Effect("lock_challenge_deposit", command.challenger, command.deposit, c)
           effects == <<effect>>
<1>1. /\ effect.kind = "lock_challenge_deposit"
      /\ effect = C!Effect("lock_challenge_deposit", record.challenger, record.deposit, c)
  BY DEF C!Effect
<1>2. C!OpenChallenge(b, command) = C!Returned(b, command, next, effects, None)
  BY DEF C!OpenChallenge
<1>3. IsList(effects) /\ C!ToSet(effects) = {effect}
  BY ListOfOne
<1>4. RightEffect(effect, S)
  BY RefundRight
<1> HIDE DEF record, effects, effect
<1>5. /\ DOMAIN next = Fields
      /\ next.submissions = b.submissions
      /\ next.challenges = [b.challenges EXCEPT ![c] = record]
      /\ next.phase = "open" /\ next.escrow = b.escrow
  BY DEF Whole, Shaped, Fields
<1> HIDE DEF next
<1>6. Backed(next, S \cup {effect})
  <2>1. /\ Early(next) = TRUE /\ Early(b) = TRUE
        /\ \A d \in ChallengeIds :
               next.challenges[d] = IF d = c THEN record ELSE b.challenges[d]
    BY <1>5 DEF Early, Whole, Shaped
  <2>2. \A r \in SubmissionIds :
            SubmissionBacked(b.submissions[r], r, TRUE, S \cup {effect})
    BY <2>1, MoreBacked DEF Backed
  <2>3. \A d \in ChallengeIds : ChallengeBacked(b.challenges[d], d, S \cup {effect})
    BY MoreBacked DEF Backed
  <2>4. ChallengeBacked(record, c, S \cup {effect})
    BY <1>1 DEF ChallengeBacked
  <2> QED
    BY <1>5, <2>1, <2>2, <2>3, <2>4 DEF Backed
<1> QED
  BY <1>1, <1>2, <1>3, <1>4, <1>5, <1>6, ReturnedRight

\* What deciding a challenge changes.
LEMMA DecidedRecords ==
    ASSUME NEW b, NEW command, Whole(b), command.challenge \in ChallengeIds, NEW status
    PROVE  LET decided == Decided(b, command, status)
           IN  /\ DOMAIN decided = Fields
               /\ decided.phase = b.phase /\ decided.escrow = b.escrow
               /\ decided.submissions = b.submissions
               /\ decided.challenges[command.challenge].status = status
               /\ \A d \in ChallengeIds :
                      d # command.challenge => decided.challenges[d] = b.challenges[d]
<1> DEFINE c == command.challenge
           decided == Decided(b, command, status)
<1>1. /\ DOMAIN decided = Fields
      /\ decided.phase = b.phase /\ decided.escrow = b.escrow
      /\ decided.submissions = b.submissions
      /\ decided.challenges =
             [b.challenges EXCEPT ![c].status = status, ![c].deposit = 0,
                                  ![c].receipt = command.receipt]
  BY DEF Whole, Shaped, Fields, Decided
<1> HIDE DEF decided
<1>2. /\ decided.challenges[c].status = status
      /\ \A d \in ChallengeIds : d # c => decided.challenges[d] = b.challenges[d]
  BY <1>1 DEF Whole, Shaped
<1> QED
  BY <1>1, <1>2 DEF decided

\* resolve_challenge refunds the challenger it records, or slashes to the treasury.
LEMMA ResolveChallengeRight ==
    ASSUME NEW b, NEW command, NEW S, Whole(b), Backed(b, S), b.phase = "open",
           command.challenge \in ChallengeIds,
           b.challenges[command.challenge].status = "open"
    PROVE  /\ RightDecision(C!ResolveChallenge(b, command), S)
           /\ Quiet(b, C!ResolveChallenge(b, command))
<1> DEFINE c == command.challenge
           challenge == b.challenges[c]
           s == challenge.submission
           refuted == Decided(b, command, "rejected")
           decided == Decided(b, command, "upheld")
           upheld == [decided EXCEPT !.submissions[s].status = "rejected",
                                     !.submissions[s].bond = 0]
           back == C!Effect("refund_challenge_deposit", challenge.challenger, challenge.deposit, c)
           slash == C!Effect("slash_submission_bond", Treasury, b.submissions[s].bond, s)
           lost == C!Effect("slash_challenge_deposit", Treasury, challenge.deposit, c)
<1>1. /\ RightEffect(back, S) /\ back.kind = "refund_challenge_deposit"
      /\ RightEffect(slash, S) /\ slash.kind = "slash_submission_bond"
      /\ RightEffect(lost, S) /\ lost.kind = "slash_challenge_deposit"
  <2>1. C!Effect("lock_challenge_deposit", challenge.challenger, challenge.deposit, c) \in S
    BY DEF Backed, ChallengeBacked
  <2>2. RightEffect(back, S) /\ RightEffect(slash, S) /\ RightEffect(lost, S)
    BY <2>1, RefundRight
  <2> QED
    BY <2>2 DEF C!Effect
<1>2. /\ C!ResolveChallenge(b, command) =
             IF command.verdict THEN C!Returned(b, command, upheld, <<back, slash>>, None)
             ELSE C!Returned(b, command, refuted, <<lost>>, "CHALLENGE_REJECTED")
  BY Zenon DEF C!ResolveChallenge, Decided
<1>3. \A r \in SubmissionIds : SubmissionBacked(b.submissions[r], r, TRUE, S)
  <2>1. Early(b) = TRUE
    BY DEF Early
  <2> QED
    BY <2>1 DEF Backed
<1>4. /\ DOMAIN refuted = Fields /\ Backed(refuted, S)
      /\ refuted.phase = "open" /\ refuted.escrow = b.escrow
  <2>1. /\ DOMAIN refuted = Fields
        /\ refuted.phase = b.phase /\ refuted.escrow = b.escrow
        /\ refuted.submissions = b.submissions
        /\ refuted.challenges[c].status = "rejected"
        /\ \A d \in ChallengeIds : d # c => refuted.challenges[d] = b.challenges[d]
    BY DecidedRecords
  <2> HIDE DEF refuted
  <2>2. \A d \in ChallengeIds : ChallengeBacked(refuted.challenges[d], d, S)
    BY <2>1 DEF Backed, ChallengeBacked
  <2>3. Early(refuted) = Early(b)
    BY <2>1 DEF Early
  <2> QED
    BY <2>1, <2>2, <2>3 DEF Backed
<1>5. /\ DOMAIN upheld = Fields /\ Backed(upheld, S)
      /\ upheld.phase = "open" /\ upheld.escrow = b.escrow
  <2>1. /\ DOMAIN decided = Fields
        /\ decided.phase = b.phase /\ decided.escrow = b.escrow
        /\ decided.submissions = b.submissions
        /\ decided.challenges[c].status = "upheld"
        /\ \A d \in ChallengeIds : d # c => decided.challenges[d] = b.challenges[d]
    BY DecidedRecords
  <2>2. s \in SubmissionIds
    BY DEF Whole, ChallengedRuled, C!Filed
  <2> HIDE DEF decided, s
  <2>3. /\ DOMAIN upheld = Fields
        /\ upheld.phase = b.phase /\ upheld.escrow = b.escrow
        /\ upheld.submissions =
               [b.submissions EXCEPT ![s].status = "rejected", ![s].bond = 0]
        /\ upheld.challenges = decided.challenges
    BY <2>1 DEF Fields
  <2> HIDE DEF upheld
  <2>4. /\ upheld.submissions[s].status = "rejected"
        /\ upheld.submissions[s].bond = 0
        /\ upheld.submissions[s].submitter = b.submissions[s].submitter
        /\ \A r \in SubmissionIds : r # s => upheld.submissions[r] = b.submissions[r]
    BY <2>2, <2>3 DEF Whole, Shaped
  <2>5. b.submissions[s].status # "none"
    BY DEF Whole, ChallengedRuled, C!Filed, s
  <2>6. SubmissionBacked(upheld.submissions[s], s, TRUE, S)
    BY <1>3, <2>2, <2>4, <2>5 DEF SubmissionBacked
  <2>7. \A d \in ChallengeIds : ChallengeBacked(upheld.challenges[d], d, S)
    BY <2>1, <2>3 DEF Backed, ChallengeBacked
  <2>8. Early(upheld) = TRUE
    BY <2>3 DEF Early
  <2> QED
    BY <1>3, <2>3, <2>4, <2>6, <2>7, <2>8 DEF Backed
<1>6. /\ IsList(<<back, slash>>) /\ C!ToSet(<<back, slash>>) = {back, slash}
      /\ IsList(<<lost>>) /\ C!ToSet(<<lost>>) = {lost}
  BY ListOfOne, ListOfTwo
<1> DEFINE both == <<back, slash>>
           single == <<lost>>
<1> HIDE DEF back, slash, lost, upheld, refuted, both, single
<1>7. Backed(upheld, S \cup {back, slash}) /\ Backed(refuted, S \cup {lost})
  BY <1>4, <1>5, MoreBacked DEF Backed
<1>8. /\ RightDecision(C!Returned(b, command, upheld, both, None), S)
      /\ Quiet(b, C!Returned(b, command, upheld, both, None))
  BY <1>1, <1>5, <1>6, <1>7, ReturnedRight DEF both
<1>9. /\ RightDecision(C!Returned(b, command, refuted, single, "CHALLENGE_REJECTED"), S)
      /\ Quiet(b, C!Returned(b, command, refuted, single, "CHALLENGE_REJECTED"))
  BY <1>1, <1>4, <1>6, <1>7, ReturnedRight DEF single
<1> QED
  BY <1>2, <1>8, <1>9, Zenon DEF both, single

\* When all bonds are given back, nothing remains to be backed but who submitted.
LEMMA BondsReturnedBacked ==
    ASSUME NEW b, NEW S, Whole(b), Backed(b, S)
    PROVE  \A s \in SubmissionIds : SubmissionBacked(C!BondsReturned(b)[s], s, FALSE, S)
<1>1. \A s \in SubmissionIds :
          /\ C!BondsReturned(b)[s].bond = 0
          /\ C!BondsReturned(b)[s].submitter = b.submissions[s].submitter
          /\ C!BondsReturned(b)[s].status = b.submissions[s].status
  BY DEF C!BondsReturned, Whole, Shaped
<1> QED
  BY <1>1 DEF Backed, SubmissionBacked

\* advance_bounty slashes open deposits, and gives back all else when nothing is payable.
LEMMA AdvanceBountyRight ==
    ASSUME NEW b, NEW command, NEW S, Whole(b), Backed(b, S)
    PROVE  RightDecision(C!AdvanceBounty(b, command), S) /\ Quiet(b, C!AdvanceBounty(b, command))
<1> DEFINE Slash(c) == C!Effect("slash_challenge_deposit", Treasury, b.challenges[c].deposit, c)
           slashes == {Slash(c) : c \in C!Open(b)}
           timeouts == C!SetToSeq(slashes)
           timedOut ==
               [c \in ChallengeIds |->
                    IF c \in C!Open(b)
                    THEN [b.challenges[c] EXCEPT !.status = "rejected", !.deposit = 0]
                    ELSE b.challenges[c]]
           timed_out == [b EXCEPT !.challenges = timedOut]
           paid == [timed_out EXCEPT !.phase = "payable", !.payable = C!Verified(b)]
           expired == [timed_out EXCEPT !.phase = "expired", !.escrow = 0,
                                        !.submissions = C!BondsReturned(b)]
           refund == C!Effect("refund_escrow", Sponsor, b.escrow, C!Bounty)
           ended == timeouts \o <<refund>> \o C!BondRefunds(b)
<1>1. C!AdvanceBounty(b, command) =
          IF C!Verified(b) # {} THEN C!Returned(b, command, paid, timeouts, None)
          ELSE C!Returned(b, command, expired, ended, "NO_PAYABLE_SUBMISSION")
  BY Zenon DEF C!AdvanceBounty
<1>2. \A c \in ChallengeIds : ChallengeBacked(timedOut[c], c, S)
  <2> TAKE c \in ChallengeIds
  <2>1. CASE c \in C!Open(b)
    <3>1. timedOut[c].status = "rejected"
      BY <2>1 DEF Whole, Shaped
    <3> QED
      BY <3>1 DEF ChallengeBacked
  <2>2. CASE c \notin C!Open(b)
    <3>1. timedOut[c] = b.challenges[c]
      BY <2>2
    <3> QED
      BY <3>1 DEF Backed
  <2> QED
    BY <2>1, <2>2
<1> HIDE DEF timedOut
<1>3. /\ DOMAIN paid = Fields
      /\ paid.submissions = b.submissions /\ paid.challenges = timedOut
      /\ paid.phase = "payable" /\ paid.escrow = b.escrow
  BY DEF Whole, Shaped, Fields
<1>4. /\ DOMAIN expired = Fields
      /\ expired.submissions = C!BondsReturned(b) /\ expired.challenges = timedOut
      /\ expired.phase = "expired"
  BY DEF Whole, Shaped, Fields
<1> HIDE DEF timed_out, paid, expired
<1>5. Backed(paid, S) /\ Backed(expired, S)
  <2>1. Early(paid) = FALSE /\ Early(expired) = FALSE
    BY <1>3, <1>4 DEF Early
  <2>2. \A s \in SubmissionIds : SubmissionBacked(b.submissions[s], s, FALSE, S)
    BY DEF Backed, SubmissionBacked
  <2>3. Backed(paid, S)
    BY <1>2, <1>3, <2>1, <2>2 DEF Backed
  <2>4. Backed(expired, S)
    BY <1>2, <1>4, <2>1, BondsReturnedBacked DEF Backed
  <2> QED
    BY <2>3, <2>4
<1>6. IsFiniteSet(slashes)
  <2>1. IsFiniteSet(ChallengeIds)
    BY BountiesAssumption DEF C!CallsParameters, C!IsFiniteSet, IsFiniteSet
  <2>2. IsFiniteSet(C!Open(b))
    BY <2>1, FS_Subset DEF C!Open
  <2> HIDE DEF Slash
  <2> DEFINE f == [c \in C!Open(b) |-> Slash(c)]
  <2>3. IsFiniteSet({f[c] : c \in C!Open(b)})
    BY <2>2, ImageFinite
  <2>4. {f[c] : c \in C!Open(b)} = slashes
    OBVIOUS
  <2> QED
    BY <2>3, <2>4
<1>7. \A e \in slashes : RightEffect(e, S) /\ e.kind = "slash_challenge_deposit"
  <2>1. \A c : RightEffect(Slash(c), S)
    BY RefundRight
  <2>2. \A c : Slash(c).kind = "slash_challenge_deposit"
    BY DEF C!Effect
  <2> HIDE DEF Slash
  <2> QED
    BY <2>1, <2>2
<1> HIDE DEF slashes
<1>8. /\ IsList(timeouts)
      /\ \A e \in C!ToSet(timeouts) : RightEffect(e, S) /\ e.kind = "slash_challenge_deposit"
  BY <1>6, <1>7, SetOfList
<1>9. RightEffect(refund, S) /\ refund.kind = "refund_escrow"
  <2>1. RightEffect(refund, S)
    BY RefundRight
  <2> QED
    BY <2>1 DEF C!Effect
<1> HIDE DEF timeouts, refund
<1>10. /\ IsList(ended)
       /\ \A e \in C!ToSet(ended) :
              /\ RightEffect(e, S)
              /\ e.kind \in {"slash_challenge_deposit", "refund_escrow", "refund_submission_bond"}
  <2>1. IsList(<<refund>>) /\ C!ToSet(<<refund>>) = {refund}
    BY ListOfOne
  <2>2. /\ IsList(timeouts \o <<refund>>)
        /\ C!ToSet(timeouts \o <<refund>>) = C!ToSet(timeouts) \cup {refund}
    BY <1>8, <2>1, SetOfBoth
  <2> DEFINE first == timeouts \o <<refund>>
  <2>3. IsList(first) /\ C!ToSet(first) = C!ToSet(timeouts) \cup {refund}
    BY <2>2
  <2> HIDE DEF first
  <2>4. /\ IsList(first \o C!BondRefunds(b))
        /\ C!ToSet(first \o C!BondRefunds(b)) = C!ToSet(first) \cup C!ToSet(C!BondRefunds(b))
    BY <2>3, SetOfBoth, BondRefundsRight
  <2>5. \A e \in C!ToSet(first \o C!BondRefunds(b)) :
            /\ RightEffect(e, S)
            /\ e.kind \in {"slash_challenge_deposit", "refund_escrow", "refund_submission_bond"}
    BY <1>8, <1>9, <2>3, <2>4, BondRefundsRight
  <2> QED
    BY <2>4, <2>5 DEF first
<1> HIDE DEF ended
<1>11. Backed(paid, S \cup C!ToSet(timeouts)) /\ Backed(expired, S \cup C!ToSet(ended))
  BY <1>5, MoreBacked DEF Backed
<1>12. /\ RightDecision(C!Returned(b, command, paid, timeouts, None), S)
       /\ Quiet(b, C!Returned(b, command, paid, timeouts, None))
  BY <1>3, <1>8, <1>11, ReturnedRight
<1>13. /\ RightDecision(C!Returned(b, command, expired, ended, "NO_PAYABLE_SUBMISSION"), S)
       /\ Quiet(b, C!Returned(b, command, expired, ended, "NO_PAYABLE_SUBMISSION"))
  BY <1>4, <1>10, <1>11, ReturnedRight
<1> QED
  BY <1>1, <1>12, <1>13, Zenon

-----------------------------------------------------------------------------
(* Sums: what the folds of the community modules add up to on one and two lots. *)

\* The folds of the community modules, as recursive functions on the sets they fold.
Last(s) == C!Max(s)

\* A function that adds up payouts in the order of the fold.
PaysUp(payouts, g) ==
    g = [s \in SUBSET DOMAIN payouts |->
            IF s = {} THEN 0 ELSE g[s \ {Last(s)}] + payouts[Last(s)].amount]

\* The element of a set that a fold takes next.
Some(s) == CHOOSE x \in s : TRUE

\* A function that adds up effects in the order of the fold.
AddsUp(S, g) == g = [s \in SUBSET S |-> IF s = {} THEN 0 ELSE Some(s).amount + g[s \ {Some(s)}]]

\* The sum of a settlement's payouts, as the fold that computes it.
LEMMA PaidOutIsFold ==
    ASSUME NEW payouts
    PROVE  C!PaidOut(payouts) = (CHOOSE g : PaysUp(payouts, g))[DOMAIN payouts]
BY DEF C!PaidOut, C!FoldLeft, C!MapThenFoldSet, PaysUp, Last

\* The value that some effects move.
Amount(S) == C!MapThenSumSet(LAMBDA e : e.amount, S)

\* The sum of some effects, as the fold that computes it.
LEMMA AmountIsFold ==
    ASSUME NEW S
    PROVE  Amount(S) = (CHOOSE g : AddsUp(S, g))[S]
BY DEF Amount, C!MapThenSumSet, C!MapThenFoldSet, AddsUp, Some

\* The largest of one or two positions.
LEMMA LastOfFew == Last({1}) = 1 /\ Last({2}) = 2 /\ Last({1, 2}) = 2
<1>1. \A x \in {1} : (\A y \in {1} : x >= y) <=> x = 1
  OBVIOUS
<1>2. \A x \in {2} : (\A y \in {2} : x >= y) <=> x = 2
  OBVIOUS
<1>3. \A x \in {1, 2} : (\A y \in {1, 2} : x >= y) <=> x = 2
  OBVIOUS
<1> QED
  BY <1>1, <1>2, <1>3 DEF Last, C!Max

\* A sum that follows the recursion is what the fold chooses.
PaysAt(payouts, g, s) ==
    g[s] = IF s = {} THEN 0 ELSE g[s \ {Last(s)}] + payouts[Last(s)].amount

\* When some function follows the recursion, the one the fold chooses does.
LEMMA PaidOutFound ==
    ASSUME NEW payouts, NEW g,
           DOMAIN g = SUBSET DOMAIN payouts, g = [s \in DOMAIN g |-> g[s]],
           \A s \in SUBSET DOMAIN payouts : PaysAt(payouts, g, s)
    PROVE  \A s \in SUBSET DOMAIN payouts : PaysAt(payouts, CHOOSE h : PaysUp(payouts, h), s)
<1> DEFINE sum == CHOOSE h : PaysUp(payouts, h)
<1>1. g = [s \in SUBSET DOMAIN payouts |->
              IF s = {} THEN 0 ELSE g[s \ {Last(s)}] + payouts[Last(s)].amount]
  BY DEF PaysAt
<1>2. PaysUp(payouts, g)
  BY <1>1, Zenon DEF PaysUp
<1>3. PaysUp(payouts, sum)
  BY <1>2, Zenon
<1> HIDE DEF sum
<1>4. \A s \in SUBSET DOMAIN payouts : PaysAt(payouts, sum, s)
  BY <1>3 DEF PaysUp, PaysAt
<1> QED
  BY <1>4 DEF sum

\* The recursion at no payouts.
LEMMA PaysAtNone == ASSUME NEW payouts, NEW g PROVE PaysAt(payouts, g, {}) <=> g[{}] = 0
  BY DEF PaysAt

\* One payout pays its amount, two pay both.
LEMMA PaidOutFew ==
    ASSUME NEW payouts \in C!Payouts
    PROVE  /\ DOMAIN payouts = {1} => C!PaidOut(payouts) = payouts[1].amount
           /\ DOMAIN payouts = {1, 2} =>
                  C!PaidOut(payouts) = payouts[1].amount + payouts[2].amount
<1> DEFINE g == [s \in SUBSET DOMAIN payouts |->
                    (IF 1 \in s THEN payouts[1].amount ELSE 0)
                        + (IF 2 \in s THEN payouts[2].amount ELSE 0)]
           sum == CHOOSE h : PaysUp(payouts, h)
<1>1. \A i \in DOMAIN payouts : payouts[i].amount \in Nat
  BY FewPayouts, BountiesAssumption DEF C!CallsParameters
<1>2. /\ DOMAIN g = SUBSET DOMAIN payouts
      /\ g = [s \in DOMAIN g |-> g[s]]
      /\ \A s \in SUBSET DOMAIN payouts :
             g[s] = (IF 1 \in s THEN payouts[1].amount ELSE 0)
                        + (IF 2 \in s THEN payouts[2].amount ELSE 0)
  OBVIOUS
<1> HIDE DEF g, sum
<1>3. {1} # {} /\ {2} # {} /\ {1, 2} # {}
  OBVIOUS
<1>4. {1} \ {1} = {} /\ {2} \ {2} = {} /\ {1, 2} \ {2} = {1}
  OBVIOUS
<1>5. \A h :
          /\ PaysAt(payouts, h, {}) <=> h[{}] = 0
          /\ PaysAt(payouts, h, {1}) <=> h[{1}] = h[{}] + payouts[1].amount
          /\ PaysAt(payouts, h, {2}) <=> h[{2}] = h[{}] + payouts[2].amount
          /\ PaysAt(payouts, h, {1, 2}) <=> h[{1, 2}] = h[{1}] + payouts[2].amount
  <2> TAKE h
  <2>1. PaysAt(payouts, h, {}) <=> h[{}] = 0
    BY PaysAtNone
  <2>2. PaysAt(payouts, h, {1}) <=> h[{1}] = h[{}] + payouts[1].amount
    <3>1. Last({1}) = 1 /\ {1} # {} /\ {1} \ {1} = {}
      BY <1>3, <1>4, LastOfFew
    <3> QED
      BY <3>1, Zenon DEF PaysAt
  <2>3. PaysAt(payouts, h, {2}) <=> h[{2}] = h[{}] + payouts[2].amount
    <3>1. Last({2}) = 2 /\ {2} # {} /\ {2} \ {2} = {}
      BY <1>3, <1>4, LastOfFew
    <3> QED
      BY <3>1, Zenon DEF PaysAt
  <2>4. PaysAt(payouts, h, {1, 2}) <=> h[{1, 2}] = h[{1}] + payouts[2].amount
    <3>1. Last({1, 2}) = 2 /\ {1, 2} # {} /\ {1, 2} \ {2} = {1}
      BY <1>3, <1>4, LastOfFew
    <3> QED
      BY <3>1, Zenon DEF PaysAt
  <2> QED
    BY <2>1, <2>2, <2>3, <2>4
<1>6. CASE DOMAIN payouts = {1}
  <2>1. g[{}] = 0 /\ g[{1}] = g[{}] + payouts[1].amount
    BY <1>1, <1>2, <1>6
  <2>2. PaysAt(payouts, g, {}) /\ PaysAt(payouts, g, {1})
    BY <1>5, <2>1
  <2>3. \A s \in SUBSET {1} : s = {} \/ s = {1}
    OBVIOUS
  <2>4. \A s \in SUBSET {1} : PaysAt(payouts, g, s)
    BY <2>2, <2>3, Zenon
  <2>5. \A s \in SUBSET {1} : PaysAt(payouts, sum, s)
    BY <1>2, <1>6, <2>4, PaidOutFound DEF sum
  <2>6. sum[{}] = 0 /\ sum[{1}] = sum[{}] + payouts[1].amount
    BY <1>5, <2>5
  <2>7. sum[{1}] = payouts[1].amount
    BY <1>1, <1>6, <2>6
  <2> QED
    BY <1>6, <2>7, PaidOutIsFold DEF sum
<1>7. CASE DOMAIN payouts = {1, 2}
  <2>1. /\ g[{}] = 0 /\ g[{1}] = g[{}] + payouts[1].amount
        /\ g[{2}] = g[{}] + payouts[2].amount /\ g[{1, 2}] = g[{1}] + payouts[2].amount
    BY <1>1, <1>2, <1>7
  <2>2. /\ PaysAt(payouts, g, {}) /\ PaysAt(payouts, g, {1})
        /\ PaysAt(payouts, g, {2}) /\ PaysAt(payouts, g, {1, 2})
    BY <1>5, <2>1
  <2>3. \A s \in SUBSET {1, 2} : s = {} \/ s = {1} \/ s = {2} \/ s = {1, 2}
    OBVIOUS
  <2>4. \A s \in SUBSET {1, 2} : PaysAt(payouts, g, s)
    BY <2>2, <2>3, Zenon
  <2>5. \A s \in SUBSET {1, 2} : PaysAt(payouts, sum, s)
    BY <1>2, <1>7, <2>4, PaidOutFound DEF sum
  <2>6. /\ sum[{}] = 0 /\ sum[{1}] = sum[{}] + payouts[1].amount
        /\ sum[{1, 2}] = sum[{1}] + payouts[2].amount
    BY <1>5, <2>5
  <2>7. sum[{1, 2}] = payouts[1].amount + payouts[2].amount
    BY <1>1, <1>7, <2>6
  <2> QED
    BY <1>7, <2>7, PaidOutIsFold DEF sum
<1> QED
  BY <1>6, <1>7

\* A function that adds up weights in the order of the fold.
WeighsUp(w, S, g) ==
    g = [s \in SUBSET S |-> IF s = {} THEN 0 ELSE w[Some(s)] + g[s \ {Some(s)}]]

\* The one the fold chooses.
Adder(w, S) == CHOOSE g : WeighsUp(w, S, g)

\* The same recursion at one set.
WeighsAt(w, g, s) == g[s] = IF s = {} THEN 0 ELSE w[Some(s)] + g[s \ {Some(s)}]

\* When some function follows the recursion, the one the fold chooses does.
LEMMA WeightFound ==
    ASSUME NEW w, NEW S, NEW g, DOMAIN g = SUBSET S, g = [s \in DOMAIN g |-> g[s]],
           \A s \in SUBSET S : WeighsAt(w, g, s)
    PROVE  \A s \in SUBSET S : WeighsAt(w, Adder(w, S), s)
<1> DEFINE sum == Adder(w, S)
<1>1. g = [s \in SUBSET S |-> IF s = {} THEN 0 ELSE w[Some(s)] + g[s \ {Some(s)}]]
  BY DEF WeighsAt
<1>2. WeighsUp(w, S, g)
  BY <1>1, Zenon DEF WeighsUp
<1>3. WeighsUp(w, S, sum)
  BY <1>2, Zenon DEF Adder
<1> HIDE DEF sum
<1>4. \A s \in SUBSET S : WeighsAt(w, sum, s)
  BY <1>3 DEF WeighsUp, WeighsAt
<1> QED
  BY <1>4 DEF sum

\* The recursion at nothing.
LEMMA WeighsAtNone == ASSUME NEW w, NEW g PROVE WeighsAt(w, g, {}) <=> g[{}] = 0
  BY DEF WeighsAt

\* One weight adds up to itself.
LEMMA WeightOfOne ==
    ASSUME NEW e, NEW w, w[e] \in Nat
    PROVE  Adder(w, {e})[{e}] = w[e]
<1> DEFINE g == [s \in SUBSET {e} |-> IF e \in s THEN w[e] ELSE 0]
           sum == Adder(w, {e})
<1>1. /\ DOMAIN g = SUBSET {e} /\ g = [s \in DOMAIN g |-> g[s]]
      /\ g[{}] = 0 /\ g[{e}] = w[e]
  OBVIOUS
<1> HIDE DEF g, sum
<1>2. Some({e}) = e /\ {e} \ {e} = {} /\ {e} # {}
  BY DEF Some
<1>3. \A h : WeighsAt(w, h, {e}) <=> h[{e}] = w[e] + h[{}]
  BY <1>2, Zenon DEF WeighsAt
<1>4. WeighsAt(w, g, {}) /\ WeighsAt(w, g, {e})
  <2>1. g[{e}] = w[e] + g[{}]
    BY <1>1
  <2> QED
    BY <1>1, <1>3, <2>1, WeighsAtNone, Zenon
<1>5. \A s \in SUBSET {e} : s = {} \/ s = {e}
  OBVIOUS
<1>6. \A s \in SUBSET {e} : WeighsAt(w, g, s)
  BY <1>4, <1>5, Zenon
<1>7. \A s \in SUBSET {e} : WeighsAt(w, sum, s)
  BY <1>1, <1>6, WeightFound DEF sum
<1>8. WeighsAt(w, sum, {}) /\ WeighsAt(w, sum, {e})
  BY <1>7
<1>9. sum[{}] = 0 /\ sum[{e}] = w[e] + sum[{}]
  BY <1>3, <1>8, WeighsAtNone, Zenon
<1>10. sum[{e}] = w[e]
  BY <1>9
<1> QED
  BY <1>10 DEF sum

\* Two weights add up to both.
LEMMA WeightOfTwo ==
    ASSUME NEW e, NEW f, e # f, NEW w, w[e] \in Nat, w[f] \in Nat
    PROVE  Adder(w, {e, f})[{e, f}] = w[e] + w[f]
<1> DEFINE g == [s \in SUBSET {e, f} |->
                    (IF e \in s THEN w[e] ELSE 0) + (IF f \in s THEN w[f] ELSE 0)]
           sum == Adder(w, {e, f})
<1>1. /\ DOMAIN g = SUBSET {e, f} /\ g = [s \in DOMAIN g |-> g[s]]
      /\ \A s \in SUBSET {e, f} :
             g[s] = (IF e \in s THEN w[e] ELSE 0) + (IF f \in s THEN w[f] ELSE 0)
  OBVIOUS
<1> HIDE DEF g, sum
<1>2. g[{}] = 0 /\ g[{e}] = w[e] /\ g[{f}] = w[f] /\ g[{e, f}] = w[e] + w[f]
  BY <1>1
<1>3. /\ Some({e}) = e /\ Some({f}) = f /\ Some({e, f}) \in {e, f}
      /\ {e} # {} /\ {f} # {} /\ {e, f} # {}
  BY DEF Some
<1>4. /\ {e} \ {e} = {} /\ {f} \ {f} = {}
      /\ {e, f} \ {e} = {f} /\ {e, f} \ {f} = {e}
  OBVIOUS
<1>5. \A h :
          /\ WeighsAt(w, h, {e}) <=> h[{e}] = w[e] + h[{}]
          /\ WeighsAt(w, h, {f}) <=> h[{f}] = w[f] + h[{}]
  <2>1. \A h : WeighsAt(w, h, {e}) <=> h[{e}] = w[e] + h[{}]
    BY <1>3, <1>4, Zenon DEF WeighsAt
  <2>2. \A h : WeighsAt(w, h, {f}) <=> h[{f}] = w[f] + h[{}]
    BY <1>3, <1>4, Zenon DEF WeighsAt
  <2> QED
    BY <2>1, <2>2
<1>6. \/ \A h : WeighsAt(w, h, {e, f}) <=> h[{e, f}] = w[e] + h[{f}]
      \/ \A h : WeighsAt(w, h, {e, f}) <=> h[{e, f}] = w[f] + h[{e}]
  <2>1. ASSUME Some({e, f}) = e, NEW h
        PROVE  WeighsAt(w, h, {e, f}) <=> h[{e, f}] = w[e] + h[{f}]
    BY <1>3, <1>4, <2>1, Zenon DEF WeighsAt
  <2>2. ASSUME Some({e, f}) = f, NEW h
        PROVE  WeighsAt(w, h, {e, f}) <=> h[{e, f}] = w[f] + h[{e}]
    BY <1>3, <1>4, <2>2, Zenon DEF WeighsAt
  <2> QED
    BY <1>3, <2>1, <2>2
<1>7. WeighsAt(w, g, {}) /\ WeighsAt(w, g, {e}) /\ WeighsAt(w, g, {f}) /\ WeighsAt(w, g, {e, f})
  <2>1. /\ g[{e}] = w[e] + g[{}] /\ g[{f}] = w[f] + g[{}]
        /\ g[{e, f}] = w[e] + g[{f}] /\ g[{e, f}] = w[f] + g[{e}]
    BY <1>2
  <2>2. WeighsAt(w, g, {}) /\ WeighsAt(w, g, {e}) /\ WeighsAt(w, g, {f})
    BY <1>2, <1>5, <2>1, WeighsAtNone, Zenon
  <2>3. WeighsAt(w, g, {e, f})
    BY <1>6, <2>1, Zenon
  <2> QED
    BY <2>2, <2>3
<1>8. \A s \in SUBSET {e, f} : s = {} \/ s = {e} \/ s = {f} \/ s = {e, f}
  OBVIOUS
<1>9. \A s \in SUBSET {e, f} : WeighsAt(w, g, s)
  BY <1>7, <1>8, Zenon
<1>10. \A s \in SUBSET {e, f} : WeighsAt(w, sum, s)
  BY <1>1, <1>9, WeightFound DEF sum
<1>11. /\ WeighsAt(w, sum, {}) /\ WeighsAt(w, sum, {e})
       /\ WeighsAt(w, sum, {f}) /\ WeighsAt(w, sum, {e, f})
  BY <1>10
<1>12. sum[{}] = 0 /\ sum[{e}] = w[e] + sum[{}] /\ sum[{f}] = w[f] + sum[{}]
  BY <1>5, <1>11, WeighsAtNone, Zenon
<1>13. sum[{e, f}] = w[e] + sum[{f}] \/ sum[{e, f}] = w[f] + sum[{e}]
  BY <1>6, <1>11, Zenon
<1>14. sum[{e, f}] = w[e] + w[f]
  BY <1>12, <1>13
<1> QED
  BY <1>14 DEF sum

\* The value that effects move adds up as weights do.
LEMMA AmountWeighs ==
    ASSUME NEW S
    PROVE  Amount(S) = Adder([e \in S |-> e.amount], S)[S]
<1> DEFINE w == [e \in S |-> e.amount]
<1>1. ASSUME NEW g PROVE AddsUp(S, g) <=> WeighsUp(w, S, g)
  <2>1. ASSUME NEW s \in SUBSET S
        PROVE  (IF s = {} THEN 0 ELSE Some(s).amount + g[s \ {Some(s)}])
                   = (IF s = {} THEN 0 ELSE w[Some(s)] + g[s \ {Some(s)}])
    <3>1. s # {} => Some(s) \in S
      BY DEF Some
    <3>2. s # {} => w[Some(s)] = Some(s).amount
      BY <3>1
    <3> HIDE DEF w
    <3> QED
      BY <3>2, Zenon
  <2> HIDE DEF w
  <2>2. [s \in SUBSET S |-> IF s = {} THEN 0 ELSE Some(s).amount + g[s \ {Some(s)}]]
            = [s \in SUBSET S |-> IF s = {} THEN 0 ELSE w[Some(s)] + g[s \ {Some(s)}]]
    BY <2>1, Zenon
  <2> QED
    BY <2>2, Zenon DEF AddsUp, WeighsUp
<1> HIDE DEF w
<1>2. (CHOOSE g : AddsUp(S, g)) = Adder(w, S)
  BY <1>1 DEF Adder
<1> QED
  BY <1>2, AmountIsFold, Zenon DEF w

\* One effect moves its amount.
LEMMA AmountOfOne ==
    ASSUME NEW e, e.amount \in Nat
    PROVE  Amount({e}) = e.amount
<1> DEFINE w == [x \in {e} |-> x.amount]
<1>1. w[e] = e.amount
  OBVIOUS
<1>2. Amount({e}) = Adder(w, {e})[{e}]
  BY AmountWeighs
<1> HIDE DEF w
<1>3. w[e] \in Nat
  BY <1>1
<1>4. Adder(w, {e})[{e}] = w[e]
  BY <1>3, WeightOfOne, Zenon
<1> QED
  BY <1>1, <1>2, <1>4

\* Two effects move both amounts.
LEMMA AmountOfTwo ==
    ASSUME NEW e, NEW f, e # f, e.amount \in Nat, f.amount \in Nat
    PROVE  Amount({e, f}) = e.amount + f.amount
<1> DEFINE w == [x \in {e, f} |-> x.amount]
<1>1. w[e] = e.amount /\ w[f] = f.amount
  OBVIOUS
<1>2. Amount({e, f}) = Adder(w, {e, f})[{e, f}]
  BY AmountWeighs
<1> HIDE DEF w
<1>3. w[e] \in Nat /\ w[f] \in Nat
  BY <1>1
<1>4. Adder(w, {e, f})[{e, f}] = w[e] + w[f]
  BY <1>3, WeightOfTwo, Zenon
<1> QED
  BY <1>1, <1>2, <1>4

-----------------------------------------------------------------------------
(* A settlement. *)

\* The effect of one payout.
PayoutOf(p) == C!Effect("payout", p.recipient, p.amount, p.submission)

\* The effects of a settlement's payouts.
PayoutEffects(payouts) == [i \in DOMAIN payouts |-> PayoutOf(payouts[i])]

\* The payouts of a settlement, as effects.
LEMMA PayoutEffectsList ==
    ASSUME NEW payouts \in C!Payouts
    PROVE  /\ IsList(PayoutEffects(payouts))
           /\ C!ToSet(PayoutEffects(payouts)) = {PayoutOf(payouts[i]) : i \in DOMAIN payouts}
<1> DEFINE f == PayoutEffects(payouts)
           T == {PayoutOf(payouts[i]) : i \in DOMAIN payouts}
<1>1. PICK n \in Nat : DOMAIN payouts = 1..n
  <2>1. PICK S : payouts \in Seq(S)
    BY FewPayouts DEF IsList
  <2> QED
    BY <2>1
<1>2. DOMAIN f = DOMAIN payouts /\ \A i \in DOMAIN payouts : f[i] = PayoutOf(payouts[i])
  BY DEF PayoutEffects
<1>3. C!ToSet(f) = T
  BY <1>2 DEF C!ToSet
<1>4. f \in [1..n -> T]
  BY <1>1 DEF PayoutEffects
<1> HIDE DEF f, T
<1>5. f \in Seq(T)
  BY <1>4
<1> QED
  BY <1>3, <1>5 DEF IsList, f, T

\* A settlement pays what it says, gives the bonds back, and leaves a settled bounty.
LEMMA SettleBountyRight ==
    ASSUME NEW b, NEW command, NEW S, Whole(b), Backed(b, S),
           command.payouts \in C!Payouts,
           b.payable \subseteq C!Present(b),
           \A i \in DOMAIN command.payouts : Clear(C!PayoutChecks(b, command.payouts, i))
    PROVE  LET d == C!SettleBounty(b, command)
           IN  /\ RightDecision(d, S)
               /\ d.next.phase = "settled"
               /\ \A e \in C!ToSet(d.effects) : e.kind # "lock_escrow"
               /\ {e \in C!ToSet(d.effects) : e.kind = "payout"} =
                      {PayoutOf(command.payouts[i]) : i \in DOMAIN command.payouts}
<1> DEFINE payouts == command.payouts
           next == [b EXCEPT !.phase = "settled", !.escrow = 0,
                             !.submissions = C!BondsReturned(b),
                             !.settlement = command.settlement]
           paid == PayoutEffects(payouts)
           effects == paid \o C!BondRefunds(b)
           d == C!Returned(b, command, next, effects, None)
           Payments == {PayoutOf(payouts[i]) : i \in DOMAIN payouts}
<1>1. C!SettleBounty(b, command) = d
  BY Zenon DEF C!SettleBounty, PayoutEffects, PayoutOf
<1>2. /\ DOMAIN next = Fields
      /\ next.submissions = C!BondsReturned(b) /\ next.challenges = b.challenges
      /\ next.phase = "settled"
  BY DEF Whole, Shaped, Fields
<1>3. IsList(paid) /\ C!ToSet(paid) = Payments
  BY PayoutEffectsList
<1>4. ASSUME NEW i \in DOMAIN payouts PROVE RightEffect(PayoutOf(payouts[i]), S)
  <2> DEFINE s == payouts[i].submission
  <2>1. s \in b.payable /\ payouts[i].recipient = b.submissions[s].submitter
    BY <1>4, PayoutClear
  <2>2. s \in SubmissionIds /\ b.submissions[s].status # "none"
    BY <2>1 DEF C!Present
  <2>3. \E lock \in S : /\ lock.kind = "lock_submission_bond"
                        /\ lock.subject = s /\ lock.recipient = b.submissions[s].submitter
    BY <2>2 DEF Backed, SubmissionBacked
  <2> HIDE DEF s
  <2>4. RightEffect(C!Effect("payout", payouts[i].recipient, payouts[i].amount, s), S)
    BY <2>1, <2>3, RefundRight
  <2> QED
    BY <2>4 DEF PayoutOf, s
<1>5. \A e \in Payments : e.kind = "payout" /\ RightEffect(e, S)
  <2>1. \A p : PayoutOf(p).kind = "payout"
    BY DEF PayoutOf, C!Effect
  <2> QED
    BY <1>4, <2>1
<1>6. IsList(effects) /\ C!ToSet(effects) = Payments \cup C!ToSet(C!BondRefunds(b))
  BY <1>3, SetOfBoth, BondRefundsRight
<1>7. /\ \A e \in C!ToSet(effects) : RightEffect(e, S) /\ e.kind # "lock_escrow"
      /\ {e \in C!ToSet(effects) : e.kind = "payout"} = Payments
  BY <1>5, <1>6, BondRefundsRight
<1> HIDE DEF next, effects, paid, Payments
<1>8. Backed(next, S)
  <2>1. Early(next) = FALSE
    BY <1>2 DEF Early
  <2>2. \A c \in ChallengeIds : ChallengeBacked(next.challenges[c], c, S)
    BY <1>2 DEF Backed
  <2> QED
    BY <1>2, <2>1, <2>2, BondsReturnedBacked DEF Backed
<1>9. Backed(next, S \cup C!ToSet(effects))
  BY <1>8, MoreBacked DEF Backed
<1>10. RightDecision(d, S)
  BY <1>2, <1>6, <1>7, <1>9, ReturnedRight
<1>11. d.next.phase = "settled" /\ d.effects = effects
  <2>1. d.next.phase = next.phase
    BY <1>2, ReturnedState
  <2>2. d.effects = effects
    BY DEF C!Returned
  <2> QED
    BY <1>2, <2>1, <2>2
<1> HIDE DEF d
<1> QED
  BY <1>1, <1>7, <1>10, <1>11 DEF Payments

-----------------------------------------------------------------------------
(* The reward is locked once, and paid in full. *)

\* The effects of one kind.
Of(kind, S) == {e \in S : e.kind = kind}

\* What was paid was paid once to each submission, and is what was locked.
PaidOnce(S) ==
    /\ \A e, f \in Of("payout", S) : e.subject = f.subject => e = f
    /\ Amount(Of("payout", S)) = Amount(Of("lock_escrow", S))

\* The reward is locked once, and held until it is paid or returned.
Funded(b, S) ==
    /\ b.phase = "draft" => Of("lock_escrow", S) = {}
    /\ b.phase \in {"open", "payable"} =>
           \E lock : /\ Of("lock_escrow", S) = {lock}
                     /\ lock.amount = b.escrow /\ lock.amount \in Nat
    /\ b.phase # "settled" => Of("payout", S) = {}
    /\ b.phase = "settled" => PaidOnce(S)

\* The invariant: what was returned is right, and what is recorded is backed by it.
Right(b, S) == Backed(b, S) /\ (\A e \in S : RightEffect(e, S)) /\ Funded(b, S)

\* A right decision keeps all that was returned right.
LEMMA RightTogether ==
    ASSUME NEW b, NEW S, NEW d, Right(b, S), RightDecision(d, S),
           Funded(d.next, S \cup C!ToSet(d.effects))
    PROVE  Right(d.next, S \cup C!ToSet(d.effects))
<1> DEFINE T == S \cup C!ToSet(d.effects)
<1>1. \A e : RightEffect(e, S) => RightEffect(e, T)
  BY MoreBacked
<1>2. \A e \in T : RightEffect(e, S)
  BY DEF Right, RightDecision
<1>3. Backed(d.next, T)
  BY DEF RightDecision
<1> QED
  BY <1>1, <1>2, <1>3 DEF Right

\* A command that neither funds nor pays keeps the reward locked.
LEMMA QuietFunded ==
    ASSUME NEW b, NEW S, NEW d, Funded(b, S), b.phase = "open", Quiet(b, d)
    PROVE  Funded(d.next, S \cup C!ToSet(d.effects))
<1> DEFINE T == S \cup C!ToSet(d.effects)
<1>1. Of("lock_escrow", T) = Of("lock_escrow", S) /\ Of("payout", T) = Of("payout", S)
  BY DEF Quiet, Of
<1>2. PICK lock : /\ Of("lock_escrow", S) = {lock}
                  /\ lock.amount = b.escrow /\ lock.amount \in Nat
  BY DEF Funded
<1>3. Of("payout", S) = {}
  BY DEF Funded
<1>4. /\ d.next.phase \in {"open", "payable", "expired", "canceled"}
      /\ d.next.phase \in {"open", "payable"} => d.next.escrow = b.escrow
  BY DEF Quiet
<1> HIDE DEF T
<1>5. Funded(d.next, T)
  BY <1>1, <1>2, <1>3, <1>4 DEF Funded
<1> QED
  BY <1>5 DEF T

\* The payouts let through pay each submission once, in all what the command says.
LEMMA PaidSplit ==
    ASSUME NEW b, NEW payouts \in C!Payouts, payouts # <<>>,
           \A i \in DOMAIN payouts : Clear(C!PayoutChecks(b, payouts, i))
    PROVE  LET Payments == {PayoutOf(payouts[i]) : i \in DOMAIN payouts}
           IN  /\ \A e, f \in Payments : e.subject = f.subject => e = f
               /\ Amount(Payments) = C!PaidOut(payouts)
<1> DEFINE Payments == {PayoutOf(payouts[i]) : i \in DOMAIN payouts}
           e == PayoutOf(payouts[1])
           f == PayoutOf(payouts[2])
<1>1. /\ \A i \in DOMAIN payouts : payouts[i].amount \in Nat
      /\ DOMAIN payouts = {1} \/ DOMAIN payouts = {1, 2}
  BY FewPayouts, BountiesAssumption DEF C!CallsParameters
<1>2. \A p : PayoutOf(p).amount = p.amount /\ PayoutOf(p).subject = p.submission
  BY DEF PayoutOf, C!Effect
<1>3. CASE DOMAIN payouts = {1}
  <2>1. Payments = {e}
    BY <1>3
  <2>2. e.amount = payouts[1].amount /\ e.amount \in Nat
    BY <1>1, <1>2, <1>3
  <2> HIDE DEF e, Payments
  <2>3. Amount({e}) = e.amount
    BY <2>2, AmountOfOne
  <2>4. Amount(Payments) = C!PaidOut(payouts)
    <3>1. C!PaidOut(payouts) = payouts[1].amount
      BY <1>3, PaidOutFew
    <3> QED
      BY <2>1, <2>2, <2>3, <3>1, Zenon
  <2>5. \A x, y \in Payments : x.subject = y.subject => x = y
    BY <2>1
  <2> QED
    BY <2>4, <2>5 DEF Payments
<1>4. CASE DOMAIN payouts = {1, 2}
  <2>1. Payments = {e, f}
    BY <1>4
  <2>2. /\ e.amount = payouts[1].amount /\ e.amount \in Nat
        /\ f.amount = payouts[2].amount /\ f.amount \in Nat
    BY <1>1, <1>2, <1>4
  <2>3. e.subject # f.subject
    <3>1. \A j \in 1..(2 - 1) : payouts[j].submission # payouts[2].submission
      BY <1>4, PayoutClear
    <3>2. payouts[1].submission # payouts[2].submission
      BY <3>1
    <3> QED
      BY <1>2, <3>2
  <2> HIDE DEF e, f, Payments
  <2>4. e # f
    BY <2>3
  <2>5. Amount({e, f}) = e.amount + f.amount
    BY <2>2, <2>4, AmountOfTwo
  <2>6. Amount(Payments) = C!PaidOut(payouts)
    <3>1. C!PaidOut(payouts) = payouts[1].amount + payouts[2].amount
      BY <1>4, PaidOutFew
    <3> QED
      BY <2>1, <2>2, <2>5, <3>1, Zenon
  <2>7. \A x, y \in Payments : x.subject = y.subject => x = y
    BY <2>1, <2>3
  <2> QED
    BY <2>6, <2>7 DEF Payments
<1> QED
  BY <1>1, <1>3, <1>4

\* A settled bounty has paid what was locked.
LEMMA SettledFunded ==
    ASSUME NEW b, NEW S, NEW d, NEW payouts \in C!Payouts, payouts # <<>>,
           Funded(b, S), b.phase = "payable",
           \A i \in DOMAIN payouts : Clear(C!PayoutChecks(b, payouts, i)),
           C!PaidOut(payouts) = b.escrow,
           d.next.phase = "settled",
           \A e \in C!ToSet(d.effects) : e.kind # "lock_escrow",
           {e \in C!ToSet(d.effects) : e.kind = "payout"} =
               {PayoutOf(payouts[i]) : i \in DOMAIN payouts}
    PROVE  Funded(d.next, S \cup C!ToSet(d.effects))
<1> DEFINE T == S \cup C!ToSet(d.effects)
           Payments == {PayoutOf(payouts[i]) : i \in DOMAIN payouts}
<1>1. PICK lock : /\ Of("lock_escrow", S) = {lock}
                  /\ lock.amount = b.escrow /\ lock.amount \in Nat
  BY DEF Funded
<1>2. Of("payout", S) = {}
  BY DEF Funded
<1>3. Of("lock_escrow", T) = {lock} /\ Of("payout", T) = Payments
  BY <1>1, <1>2 DEF Of
<1>4. Amount({lock}) = b.escrow
  BY <1>1, AmountOfOne
<1>5. /\ \A e, f \in Payments : e.subject = f.subject => e = f
      /\ Amount(Payments) = C!PaidOut(payouts)
  BY PaidSplit
<1> HIDE DEF T, Payments
<1>6. Amount(Of("payout", T)) = Amount(Of("lock_escrow", T))
  BY <1>3, <1>4, <1>5, Zenon
<1>7. \A e, f \in Of("payout", T) : e.subject = f.subject => e = f
  BY <1>3, <1>5, Zenon
<1>8. PaidOnce(T)
  BY <1>6, <1>7 DEF PaidOnce
<1>9. Funded(d.next, T)
  BY <1>8 DEF Funded
<1> QED
  BY <1>9 DEF T

\* An opened bounty holds what it locked.
LEMMA OpenedFunded ==
    ASSUME NEW b, NEW S, NEW d, NEW command, Funded(b, S), b.phase = "draft",
           d.next.phase = "open", d.next.escrow = command.funded, command.funded \in Nat,
           C!ToSet(d.effects) =
               {C!Effect("lock_escrow", command.sponsor, command.funded, C!Bounty)}
    PROVE  Funded(d.next, S \cup C!ToSet(d.effects))
<1> DEFINE lock == C!Effect("lock_escrow", command.sponsor, command.funded, C!Bounty)
           T == S \cup C!ToSet(d.effects)
<1>1. lock.kind = "lock_escrow" /\ lock.amount = command.funded
  BY DEF C!Effect
<1>2. Of("lock_escrow", S) = {} /\ Of("payout", S) = {}
  BY DEF Funded
<1> HIDE DEF lock
<1>3. Of("lock_escrow", T) = {lock} /\ Of("payout", T) = {}
  BY <1>1, <1>2 DEF Of, lock
<1> HIDE DEF T
<1>4. Funded(d.next, T)
  BY <1>1, <1>3 DEF Funded
<1> QED
  BY <1>4 DEF T

\* The handler of a command that is taken does right by what was returned before.
LEMMA TakenRight ==
    ASSUME NEW b, NEW command, NEW evidence, NEW S, Whole(b), Right(b, S),
           Addressed(command), Split(command),
           command.kind = "open_bounty" => command.funded \in Nat,
           Taken(C!apply_market_command(b, command, evidence))
    PROVE  LET d == C!apply_market_command(b, command, evidence)
           IN  Right(d.next, S \cup C!ToSet(d.effects))
<1> DEFINE d == C!apply_market_command(b, command, evidence)
<1>1. d = C!Handled(b, command) /\ Clear(C!Checks(b, command, evidence))
  BY TakenHandled
<1> HIDE DEF d
<1>2. b.phase = CASE command.kind = "open_bounty" -> "draft"
                  [] command.kind = "settle_bounty" -> "payable"
                  [] OTHER -> "open"
  BY <1>1, TakenPhase
<1>3. Backed(b, S) /\ Funded(b, S)
  BY DEF Right
<1> SUFFICES RightDecision(d, S) /\ Funded(d.next, S \cup C!ToSet(d.effects))
  BY RightTogether DEF d
<1>4. ASSUME b.phase = "open", RightDecision(d, S), Quiet(b, d)
      PROVE  RightDecision(d, S) /\ Funded(d.next, S \cup C!ToSet(d.effects))
  BY <1>3, <1>4, QuietFunded
<1>5. CASE command.kind = "open_bounty"
  <2>1. b.phase = "draft" /\ Early(b)
    BY <1>2, <1>5 DEF Early
  <2>2. d = C!OpenBounty(b, command)
    BY <1>1, <1>5 DEF C!Handled
  <2>3. /\ RightDecision(d, S)
        /\ d.next.phase = "open" /\ d.next.escrow = command.funded
        /\ C!ToSet(d.effects) =
               {C!Effect("lock_escrow", command.sponsor, command.funded, C!Bounty)}
    BY <1>3, <2>1, <2>2, OpenBountyRight
  <2> QED
    BY <1>3, <1>5, <2>1, <2>3, OpenedFunded
<1>6. CASE command.kind = "submit_candidate"
  <2>1. b.phase = "open" /\ command.submission \in SubmissionIds
    BY <1>2, <1>6 DEF Addressed
  <2>2. d = C!SubmitCandidate(b, command)
    BY <1>1, <1>6 DEF C!Handled
  <2> QED
    BY <1>3, <1>4, <2>1, <2>2, SubmitCandidateRight
<1>7. CASE command.kind = "verify_submission"
  <2>1. b.phase = "open" /\ command.submission \in SubmissionIds
    BY <1>2, <1>7 DEF Addressed
  <2>2. b.submissions[command.submission].status = "pending"
    BY <1>1, <1>7, TakenClear, VerifyClear
  <2>3. d = C!VerifySubmission(b, command)
    BY <1>1, <1>7 DEF C!Handled
  <2> QED
    BY <1>3, <1>4, <2>1, <2>2, <2>3, VerifySubmissionRight
<1>8. CASE command.kind = "open_challenge"
  <2>1. b.phase = "open" /\ command.challenge \in ChallengeIds
    BY <1>2, <1>8 DEF Addressed
  <2>2. d = C!OpenChallenge(b, command)
    BY <1>1, <1>8 DEF C!Handled
  <2> QED
    BY <1>3, <1>4, <2>1, <2>2, OpenChallengeRight
<1>9. CASE command.kind = "resolve_challenge"
  <2>1. b.phase = "open" /\ command.challenge \in ChallengeIds
    BY <1>2, <1>9 DEF Addressed
  <2>2. b.challenges[command.challenge].status = "open"
    BY <1>1, <1>9, TakenClear, ResolveClear
  <2>3. d = C!ResolveChallenge(b, command)
    BY <1>1, <1>9 DEF C!Handled
  <2> QED
    BY <1>3, <1>4, <2>1, <2>2, <2>3, ResolveChallengeRight
<1>10. CASE command.kind = "advance_bounty"
  <2>1. b.phase = "open"
    BY <1>2, <1>10
  <2>2. d = C!AdvanceBounty(b, command)
    BY <1>1, <1>10 DEF C!Handled
  <2> QED
    BY <1>3, <1>4, <2>1, <2>2, AdvanceBountyRight
<1>11. CASE command.kind = "settle_bounty"
  <2>1. b.phase = "payable" /\ command.payouts \in C!Payouts
    BY <1>2, <1>11 DEF Split
  <2>2. d = C!SettleBounty(b, command)
    BY <1>1, <1>11 DEF C!Handled
  <2>3. /\ C!market_state_violations(b) = {}
        /\ Clear(C!SettleChecks(b, command)) /\ command.payouts # <<>>
    BY <1>1, <1>11, TakenCommon
  <2>4. b.payable \subseteq C!Present(b)
    <3>1. C!ReferenceViolations(b) = {}
      BY <2>3 DEF C!market_state_violations
    <3> QED
      BY <3>1, ReferencesClear
  <2>5. /\ \A i \in DOMAIN command.payouts : Clear(C!PayoutChecks(b, command.payouts, i))
        /\ C!PaidOut(command.payouts) = b.escrow
    BY <2>1, <2>3, SettleClear
  <2>6. /\ RightDecision(d, S)
        /\ d.next.phase = "settled"
        /\ \A e \in C!ToSet(d.effects) : e.kind # "lock_escrow"
        /\ {e \in C!ToSet(d.effects) : e.kind = "payout"} =
               {PayoutOf(command.payouts[i]) : i \in DOMAIN command.payouts}
    BY <1>3, <2>1, <2>2, <2>4, <2>5, SettleBountyRight
  <2>7. Funded(d.next, S \cup C!ToSet(d.effects))
    BY <1>3, <2>1, <2>3, <2>5, <2>6, SettledFunded
  <2> QED
    BY <2>6, <2>7
<1>12. CASE command.kind = "cancel_bounty"
  <2>1. b.phase = "open"
    BY <1>2, <1>12
  <2>2. d = C!CancelBounty(b, command)
    BY <1>1, <1>12 DEF C!Handled
  <2> QED
    BY <1>3, <1>4, <2>1, <2>2, CancelBountyRight
<1> QED
  BY <1>5, <1>6, <1>7, <1>8, <1>9, <1>10, <1>11, <1>12 DEF Addressed

\* Nothing is wrong before the first command.
LEMMA RightAtFirst == Right(C!initial_bounty, {})
<1>1. /\ C!initial_bounty.phase = "draft"
      /\ \A s \in SubmissionIds : C!initial_bounty.submissions[s] = C!NoSubmission
      /\ \A c \in ChallengeIds : C!initial_bounty.challenges[c] = C!NoChallenge
  BY DEF C!initial_bounty
<1>2. /\ C!NoSubmission.bond = 0 /\ C!NoSubmission.status = "none"
      /\ C!NoChallenge.status = "none"
  BY DEF C!NoSubmission, C!NoChallenge
<1>3. Backed(C!initial_bounty, {})
  BY <1>1, <1>2 DEF Backed, SubmissionBacked, ChallengeBacked
<1>4. Funded(C!initial_bounty, {})
  BY <1>1 DEF Funded, Of
<1> QED
  BY <1>3, <1>4 DEF Right

\* The commands without receipts split the reward in one of the ways tried.
LEMMA UnprovenSplit ==
    ASSUME NEW command \in C!Unproven
    PROVE  Split(command) /\ (command.kind = "open_bounty" => command.funded \in Nat)
<1>1. command.kind = "settle_bounty" => command.payouts \in C!Payouts
  BY DEF C!Unproven
<1>2. command.kind = "open_bounty" => command.funded \in Amounts
  BY DEF C!Unproven
<1> QED
  BY <1>1, <1>2, BountiesAssumption DEF Split, C!CallsParameters

\* A verdict neither funds nor splits anything.
LEMMA ProvenSplit ==
    ASSUME NEW ruling \in C!Ruled, NEW receipt
    PROVE  LET command == C!Proven(ruling, receipt)
           IN  Split(command) /\ (command.kind = "open_bounty" => command.funded \in Nat)
<1>1. C!Proven(ruling, receipt).kind = ruling.kind
  BY ProvenAddressed
<1>2. ruling.kind \in {"verify_submission", "resolve_challenge"}
  BY DEF C!Ruled
<1> QED
  BY <1>1, <1>2 DEF Split

\* Whatever history of commands led here, all that was returned is right.
LEMMA RightAlways == C!Spec => [](Whole(bounty) /\ Right(bounty, returned))
<1> DEFINE Inv == \E b, S : b = bounty /\ S = returned /\ Right(b, S)
<1>1. C!Init => Inv
  BY RightAtFirst DEF C!Init
<1>2. ASSUME Whole(bounty), Inv, [C!Next]_(C!vars) PROVE Inv'
  <2>1. CASE UNCHANGED C!vars
    <3>1. bounty' = bounty /\ returned' = returned
      BY <2>1 DEF C!vars
    <3>2. Right(bounty', returned')
      BY <1>2, <3>1
    <3> QED
      BY <3>2
  <2>2. ASSUME NEW command, NEW evidence, Addressed(command), Split(command),
               command.kind = "open_bounty" => command.funded \in Nat,
               C!Commits(command, evidence)
        PROVE  Inv'
    <3> DEFINE d == C!apply_market_command(bounty, command, evidence)
    <3>1. Taken(d) /\ bounty' = d.next /\ returned' = returned \cup C!ToSet(d.effects)
      BY <2>2 DEF C!Commits, Taken
    <3>2. Right(d.next, returned \cup C!ToSet(d.effects))
      BY <1>2, <2>2, <3>1, TakenRight
    <3>3. Right(bounty', returned')
      BY <3>1, <3>2
    <3> QED
      BY <3>3
  <2>3. CASE C!Act
    BY <2>2, <2>3, UnprovenAddressed, UnprovenSplit DEF C!Act
  <2>4. CASE C!Rule
    BY <2>2, <2>4, ProvenAddressed, ProvenSplit DEF C!Rule
  <2> QED
    BY <1>2, <2>1, <2>3, <2>4 DEF C!Next
<1>3. Inv => Right(bounty, returned)
  OBVIOUS
<1> HIDE DEF Inv
<1> QED
  BY <1>1, <1>2, <1>3, WholeAlways, PTL DEF C!Spec

\* That invariant gives the property.
LEMMA RightImpliesValue == Right(bounty, returned) => RightValue
<1> SUFFICES ASSUME Right(bounty, returned) PROVE C!RightParty /\ C!PaidExactly
  BY DEF RightValue, C!RightValue
<1>1. \A e \in returned : RightEffect(e, returned)
  BY DEF Right
<1>2. \A kind : C!Sent(kind) = Of(kind, returned)
  BY DEF C!Sent, Of
<1>3. C!RightParty
  <2>1. \A e \in C!Sent("refund_submission_bond") :
            [e EXCEPT !.kind = "lock_submission_bond"] \in returned
    BY <1>1, <1>2 DEF Of, RightEffect
  <2>2. \A e \in C!Sent("refund_challenge_deposit") :
            [e EXCEPT !.kind = "lock_challenge_deposit"] \in returned
    BY <1>1, <1>2 DEF Of, RightEffect
  <2>3. /\ \A e \in C!Sent("slash_submission_bond") : e.recipient = Treasury
        /\ \A e \in C!Sent("slash_challenge_deposit") : e.recipient = Treasury
    BY <1>1, <1>2 DEF Of, RightEffect
  <2>4. \A e \in C!Sent("payout") :
            \E lock \in C!Sent("lock_submission_bond") :
                lock.subject = e.subject /\ lock.recipient = e.recipient
    BY <1>1, <1>2 DEF Of, RightEffect
  <2>5. \A e \in C!Sent("refund_escrow") : e.recipient = Sponsor
    BY <1>1, <1>2 DEF Of, RightEffect
  <2> QED
    BY <2>1, <2>2, <2>3, <2>4, <2>5 DEF C!RightParty
<1>4. C!PaidExactly
  <2>1. ASSUME bounty.phase = "settled"
        PROVE  PaidOnce(returned)
    BY <2>1 DEF Right, Funded
  <2>2. ASSUME PaidOnce(returned)
        PROVE  /\ \A e, f \in C!Sent("payout") : e.subject = f.subject => e = f
               /\ Amount(C!Sent("payout")) = Amount(C!Sent("lock_escrow"))
    BY <1>2, <2>2, Zenon DEF PaidOnce
  <2> QED
    BY <2>1, <2>2, Zenon DEF C!PaidExactly, Amount
<1> QED
  BY <1>3, <1>4

\* The right party gets the right value of every lot, in any state a history of commands leads
\* to: stakes go back to who put them up or are slashed to the treasury, and a settlement pays
\* the submitters, once each, in all the reward that was locked (market.py:579-834).
THEOREM AlwaysRightValue == C!Spec => []RightValue
  BY RightAlways, RightImpliesValue, PTL

-----------------------------------------------------------------------------
(* Executing a list of effects: the fold that does it, effect after effect. *)

\* A set of natural numbers that holds 0, and n + 1 with every n, holds them all.
LEMMA Stepwise ==
    ASSUME NEW P, 0 \in P, \A n \in Nat : n \in P => n + 1 \in P
    PROVE  Nat \subseteq P
<1> SUFFICES ASSUME Nat \ P # {} PROVE FALSE
  OBVIOUS
<1>1. PICK i \in Nat \ P : \A k \in Nat \ P : ~(k < i)
  <2> DEFINE Less == {ss \in Nat \X Nat : ss[1] < ss[2]}
  <2>1. IsWellFoundedOn(Less, Nat)
    BY NatLessThanWellFounded, Zenon DEF OpToRel
  <2> HIDE DEF Less
  <2>2. PICK i \in Nat \ P : \A k \in Nat \ P : ~(<<k, i>> \in Less)
    BY <2>1, WFMin, Nat \ P \subseteq Nat
  <2>3. ASSUME NEW k \in Nat \ P, k < i PROVE FALSE
    <3>1. <<k, i>> \in Less
      BY <2>2, <2>3 DEF Less
    <3> QED
      BY <2>2, <2>3, <3>1
  <2> QED
    BY <2>2, <2>3
<1>2. i # 0 /\ i - 1 \in Nat /\ i - 1 < i /\ (i - 1) + 1 = i
  BY <1>1
<1>3. i - 1 \in P
  BY <1>1, <1>2
<1> QED
  BY <1>1, <1>2, <1>3

\* The last of some positions up to n is n, when n is among them.
LEMMA LastIsLargest ==
    ASSUME NEW n \in Nat, NEW s, s \subseteq 1..n, n \in s
    PROVE  Last(s) = n
<1>1. \A x \in s : (\A y \in s : x >= y) <=> x = n
  OBVIOUS
<1> QED
  BY <1>1 DEF Last, C!Max

\* The value held after the effects at some positions, at one set of positions.
ExecutesAt(effects, start, g, s) ==
    g[s] = IF s = {} THEN start ELSE C!Executed(g[s \ {Last(s)}], effects[Last(s)])

\* A function that executes effects in the order of the fold.
Executes(effects, start, D, g) ==
    g = [s \in SUBSET D |->
            IF s = {} THEN start ELSE C!Executed(g[s \ {Last(s)}], effects[Last(s)])]

\* Custody after a list of effects, as the fold that computes it.
LEMMA CustodyIsFold ==
    ASSUME NEW effects, NEW start
    PROVE  C!FoldLeft(C!Executed, start, effects) =
               (CHOOSE g : Executes(effects, start, DOMAIN effects, g))[DOMAIN effects]
  BY DEF C!FoldLeft, C!MapThenFoldSet, Executes, Last

\* Such a function exists, however long the list is.
LEMMA ExecutionExists ==
    ASSUME NEW effects, NEW start
    PROVE  \A n \in Nat : \E g : Executes(effects, start, 1..n, g)
<1> DEFINE P == {n \in Nat : \E g : Executes(effects, start, 1..n, g)}
<1>1. 0 \in P
  <2> DEFINE g == [s \in SUBSET (1..0) |-> start]
  <2>1. \A s \in SUBSET (1..0) : s = {}
    OBVIOUS
  <2>2. g = [s \in SUBSET (1..0) |->
                IF s = {} THEN start ELSE C!Executed(g[s \ {Last(s)}], effects[Last(s)])]
    BY <2>1
  <2>3. Executes(effects, start, 1..0, g)
    BY <2>2, Zenon DEF Executes
  <2> QED
    BY <2>3
<1>2. ASSUME NEW n \in Nat, n \in P PROVE n + 1 \in P
  <2>1. PICK g : Executes(effects, start, 1..n, g)
    BY <1>2
  <2> DEFINE h == [s \in SUBSET (1..(n + 1)) |->
                      IF s = {} THEN start
                      ELSE C!Executed(g[s \ {Last(s)}], effects[Last(s)])]
  <2>2. ASSUME NEW s \in SUBSET (1..n) PROVE s \in SUBSET (1..(n + 1)) /\ h[s] = g[s]
    <3>1. s \in SUBSET (1..(n + 1))
      BY <2>2
    <3>2. g[s] = IF s = {} THEN start ELSE C!Executed(g[s \ {Last(s)}], effects[Last(s)])
      BY <2>1, <2>2, Zenon DEF Executes
    <3>3. h[s] = IF s = {} THEN start ELSE C!Executed(g[s \ {Last(s)}], effects[Last(s)])
      BY <3>1, Zenon
    <3> QED
      BY <3>1, <3>2, <3>3, Zenon
  <2>3. ASSUME NEW s \in SUBSET (1..(n + 1)) PROVE s \ {Last(s)} \in SUBSET (1..n)
    <3>1. CASE n + 1 \in s
      <4>1. n + 1 \in Nat
        OBVIOUS
      <4>2. Last(s) = n + 1
        BY <2>3, <3>1, <4>1, LastIsLargest
      <4> QED
        BY <2>3, <4>2
    <3>2. CASE n + 1 \notin s
      <4>1. \A k \in s : k \in 1..n
        BY <2>3, <3>2
      <4> QED
        BY <4>1
    <3> QED
      BY <3>1, <3>2
  <2>4. ASSUME NEW s \in SUBSET (1..(n + 1))
        PROVE  h[s] = IF s = {} THEN start
                      ELSE C!Executed(h[s \ {Last(s)}], effects[Last(s)])
    <3>1. h[s \ {Last(s)}] = g[s \ {Last(s)}]
      BY <2>2, <2>3
    <3>2. h[s] = IF s = {} THEN start ELSE C!Executed(g[s \ {Last(s)}], effects[Last(s)])
      BY Zenon
    <3> QED
      BY <3>1, <3>2, Zenon
  <2>5. Executes(effects, start, 1..(n + 1), h)
    <3>1. h = [s \in SUBSET (1..(n + 1)) |-> h[s]]
      OBVIOUS
    <3> HIDE DEF h
    <3> QED
      BY <2>4, <3>1, Zenon DEF Executes
  <2> HIDE DEF h
  <2>6. \E k : Executes(effects, start, 1..(n + 1), k)
    BY <2>5, Zenon
  <2> QED
    BY <2>6
<1> HIDE DEF P
<1>3. Nat \subseteq P
  BY <1>1, <1>2, Stepwise
<1> QED
  BY <1>3 DEF P

\* What is held after each effect of a list.
Follows(effects, n, start, h) ==
    h[0] = start /\ \A k \in 1..n : h[k] = C!Executed(h[k - 1], effects[k])

\* The fold executes a list effect after effect.
LEMMA CustodyFollows ==
    ASSUME NEW effects, NEW n \in Nat, DOMAIN effects = 1..n, NEW start
    PROVE  \E h : Follows(effects, n, start, h) /\ C!FoldLeft(C!Executed, start, effects) = h[n]
<1> DEFINE g == CHOOSE f : Executes(effects, start, 1..n, f)
           h == [k \in 0..n |-> g[1..k]]
<1>1. Executes(effects, start, 1..n, g)
  BY ExecutionExists, Zenon
<1>2. C!FoldLeft(C!Executed, start, effects) = g[1..n]
  BY CustodyIsFold
<1> HIDE DEF g
<1>3. \A s \in SUBSET (1..n) :
          g[s] = IF s = {} THEN start ELSE C!Executed(g[s \ {Last(s)}], effects[Last(s)])
  BY <1>1, Zenon DEF Executes
<1>4. h[0] = start
  <2>1. 1..0 = {} /\ 1..0 \in SUBSET (1..n)
    OBVIOUS
  <2>2. g[1..0] = start
    BY <1>3, <2>1, Zenon
  <2> QED
    BY <2>2
<1>5. ASSUME NEW k \in 1..n PROVE h[k] = C!Executed(h[k - 1], effects[k])
  <2>1. 1..k # {} /\ 1..k \in SUBSET (1..n) /\ (1..k) \ {k} = 1..(k - 1)
    OBVIOUS
  <2>2. Last(1..k) = k
    <3>1. k \in Nat /\ k \in 1..k
      OBVIOUS
    <3> QED
      BY <3>1, LastIsLargest
  <2>3. g[1..k] = C!Executed(g[1..(k - 1)], effects[k])
    BY <1>3, <2>1, <2>2, Zenon
  <2> QED
    BY <2>3
<1>6. h[n] = g[1..n]
  OBVIOUS
<1> HIDE DEF h
<1> QED
  BY <1>2, <1>4, <1>5, <1>6, Zenon DEF Follows

\* What follows a list is determined by it.
LEMMA FollowsOnce ==
    ASSUME NEW effects, NEW n \in Nat, NEW start,
           NEW g, Follows(effects, n, start, g), NEW h, Follows(effects, n, start, h)
    PROVE  g[n] = h[n]
<1> DEFINE P == {k \in Nat : k <= n => g[k] = h[k]}
<1>1. 0 \in P
  BY DEF Follows
<1>2. ASSUME NEW k \in Nat, k \in P PROVE k + 1 \in P
  <2> SUFFICES ASSUME k + 1 <= n PROVE g[k + 1] = h[k + 1]
    OBVIOUS
  <2>1. k + 1 \in 1..n /\ (k + 1) - 1 = k /\ g[k] = h[k]
    BY <1>2
  <2>2. /\ g[k + 1] = C!Executed(g[(k + 1) - 1], effects[k + 1])
        /\ h[k + 1] = C!Executed(h[(k + 1) - 1], effects[k + 1])
    BY <2>1, Zenon DEF Follows
  <2> QED
    BY <2>1, <2>2, Zenon
<1> HIDE DEF P
<1>3. Nat \subseteq P
  BY <1>1, <1>2, Stepwise
<1> QED
  BY <1>3 DEF P

\* So what follows a list is what executing it gives.
LEMMA CustodyFound ==
    ASSUME NEW effects, NEW n \in Nat, DOMAIN effects = 1..n, NEW start,
           NEW h, Follows(effects, n, start, h)
    PROVE  C!FoldLeft(C!Executed, start, effects) = h[n]
  BY CustodyFollows, FollowsOnce

\* No effect, one effect.
LEMMA CustodyOfFew ==
    ASSUME NEW start
    PROVE  /\ C!FoldLeft(C!Executed, start, <<>>) = start
           /\ \A e : C!FoldLeft(C!Executed, start, <<e>>) = C!Executed(start, e)
<1>1. C!FoldLeft(C!Executed, start, <<>>) = start
  <2> DEFINE h == [k \in 0..0 |-> start]
             effects == <<>>
  <2>1. h[0] = start /\ DOMAIN effects = 1..0
    OBVIOUS
  <2> HIDE DEF h, effects
  <2>2. Follows(effects, 0, start, h)
    BY <2>1 DEF Follows
  <2> QED
    BY <2>1, <2>2, CustodyFound DEF effects
<1>2. ASSUME NEW e PROVE C!FoldLeft(C!Executed, start, <<e>>) = C!Executed(start, e)
  <2> DEFINE one == C!Executed(start, e)
             effects == <<e>>
             h == [k \in 0..1 |-> IF k = 0 THEN start ELSE one]
  <2>1. h[0] = start /\ h[1] = one /\ DOMAIN effects = 1..1 /\ effects[1] = e
    OBVIOUS
  <2> HIDE DEF h, effects
  <2>2. h[1] = C!Executed(h[1 - 1], effects[1])
    BY <2>1, 1 - 1 = 0, Zenon
  <2>3. \A k \in 1..1 : k = 1
    OBVIOUS
  <2>4. Follows(effects, 1, start, h)
    BY <2>1, <2>2, <2>3, Zenon DEF Follows
  <2> QED
    BY <2>1, <2>4, CustodyFound DEF effects
<1> QED
  BY <1>1, <1>2

\* Two effects.
LEMMA CustodyOfTwo ==
    ASSUME NEW effects, DOMAIN effects = 1..2, NEW start
    PROVE  C!FoldLeft(C!Executed, start, effects) =
               C!Executed(C!Executed(start, effects[1]), effects[2])
<1> DEFINE one == C!Executed(start, effects[1])
           two == C!Executed(one, effects[2])
           h == [k \in 0..2 |-> IF k = 0 THEN start ELSE IF k = 1 THEN one ELSE two]
<1>1. h[0] = start /\ h[1] = one /\ h[2] = two
  OBVIOUS
<1> HIDE DEF h
<1>2. h[1] = C!Executed(h[1 - 1], effects[1])
  BY <1>1, 1 - 1 = 0, Zenon
<1>3. h[2] = C!Executed(h[2 - 1], effects[2])
  BY <1>1, 2 - 1 = 1, Zenon
<1>4. \A k \in 1..2 : k = 1 \/ k = 2
  OBVIOUS
<1>5. Follows(effects, 2, start, h)
  BY <1>1, <1>2, <1>3, <1>4, Zenon DEF Follows
<1> HIDE DEF one, two
<1>6. C!FoldLeft(C!Executed, start, effects) = h[2]
  BY <1>5, CustodyFound
<1> QED
  BY <1>1, <1>6, Zenon DEF one, two

\* Two lists are executed one after the other.
LEMMA CustodyOfBoth ==
    ASSUME NEW s, NEW t, IsList(s), IsList(t), NEW start
    PROVE  C!FoldLeft(C!Executed, start, s \o t) =
               C!FoldLeft(C!Executed, C!FoldLeft(C!Executed, start, s), t)
<1> DEFINE m == Len(s)
           n == Len(t)
           both == s \o t
           middle == C!FoldLeft(C!Executed, start, s)
<1>1. PICK S : s \in Seq(S)
  BY DEF IsList
<1>2. PICK T : t \in Seq(T)
  BY DEF IsList
<1>3. /\ m \in Nat /\ n \in Nat /\ DOMAIN s = 1..m /\ DOMAIN t = 1..n
      /\ DOMAIN both = 1..(m + n)
      /\ \A i \in 1..m : both[i] = s[i]
      /\ \A i \in 1..n : both[m + i] = t[i]
  BY <1>1, <1>2
<1> HIDE DEF m, n, both, middle
<1>4. PICK g : Follows(s, m, start, g) /\ middle = g[m]
  BY <1>3, CustodyFollows DEF middle
<1>5. PICK h : Follows(t, n, middle, h) /\ C!FoldLeft(C!Executed, middle, t) = h[n]
  BY <1>3, CustodyFollows
<1> DEFINE f == [k \in 0..(m + n) |-> IF k <= m THEN g[k] ELSE h[k - m]]
<1>6. /\ \A k \in 0..(m + n) : f[k] = IF k <= m THEN g[k] ELSE h[k - m]
      /\ f[m + n] = h[n]
  <2>1. CASE n = 0
    <3>1. h[n] = middle /\ f[m + n] = g[m]
      BY <1>3, <1>5, <2>1 DEF Follows
    <3> QED
      BY <1>4, <3>1
  <2>2. CASE n # 0
    BY <1>3, <2>2
  <2> QED
    BY <2>1, <2>2
<1> HIDE DEF f
<1>7. f[0] = start
  <2>1. f[0] = g[0]
    BY <1>3, <1>6
  <2>2. g[0] = start
    BY <1>4, Zenon DEF Follows
  <2> QED
    BY <2>1, <2>2
<1>8. ASSUME NEW k \in 1..(m + n) PROVE f[k] = C!Executed(f[k - 1], both[k])
  <2>1. CASE k <= m
    <3>1. k \in 1..m /\ f[k] = g[k] /\ f[k - 1] = g[k - 1] /\ both[k] = s[k]
      BY <1>3, <1>6, <2>1
    <3>2. g[k] = C!Executed(g[k - 1], s[k])
      BY <1>4, <3>1, Zenon DEF Follows
    <3> QED
      BY <3>1, <3>2, Zenon
  <2>2. CASE k = m + 1
    <3>1. 1 \in 1..n /\ f[k] = h[1] /\ f[k - 1] = g[m] /\ both[k] = t[1] /\ 1 - 1 = 0
      BY <1>3, <1>6, <2>2
    <3>2. h[1] = C!Executed(h[1 - 1], t[1]) /\ h[0] = middle
      BY <1>5, <3>1, Zenon DEF Follows
    <3> QED
      BY <1>4, <3>1, <3>2, Zenon
  <2>3. CASE k > m + 1
    <3>1. /\ k - m \in 1..n /\ f[k] = h[k - m] /\ f[k - 1] = h[(k - m) - 1]
          /\ both[k] = t[k - m]
      <4>1. k - m \in 1..n /\ k = m + (k - m) /\ (k - 1) - m = (k - m) - 1
        BY <1>3, <2>3
      <4> QED
        BY <1>3, <1>6, <2>3, <4>1
    <3>2. h[k - m] = C!Executed(h[(k - m) - 1], t[k - m])
      BY <1>5, <3>1, Zenon DEF Follows
    <3> QED
      BY <3>1, <3>2, Zenon
  <2> QED
    BY <1>3, <2>1, <2>2, <2>3
<1>9. Follows(both, m + n, start, f)
  BY <1>7, <1>8, Zenon DEF Follows
<1>10. C!FoldLeft(C!Executed, start, both) = f[m + n]
  BY <1>3, <1>9, CustodyFound
<1> QED
  BY <1>5, <1>6, <1>10 DEF both, middle

\* The list made of a finite set holds each of its elements once.
LEMMA SetListed ==
    ASSUME NEW S, IsFiniteSet(S)
    PROVE  LET f == C!SetToSeq(S)
           IN  /\ IsList(f)
               /\ C!ToSet(f) = S
               /\ \A i, j \in DOMAIN f : f[i] = f[j] => i = j
<1> DEFINE n == Cardinality(S)
           f == C!SetToSeq(S)
<1>1. n \in Nat /\ ExistsBijection(1..n, S)
  BY FS_CardinalityType
<1>2. PICK g \in Bijection(1..n, S) : TRUE
  BY <1>1 DEF ExistsBijection
<1>3. g \in [1..n -> S] /\ C!IsInjective(g)
  BY <1>2 DEF Bijection, Injection, IsInjective, C!IsInjective
<1>4. f \in [1..n -> S] /\ C!IsInjective(f)
  <2>1. C!Cardinality(S) = n
    BY DEF C!Cardinality, Cardinality
  <2> QED
    BY <1>3, <2>1 DEF C!SetToSeq
<1> HIDE DEF f
<1>5. IsList(f)
  <2>1. f \in Seq(S)
    BY <1>1, <1>4
  <2> QED
    BY <2>1 DEF IsList
<1>6. \A i, j \in DOMAIN f : f[i] = f[j] => i = j
  BY <1>4 DEF C!IsInjective
<1>7. C!ToSet(f) = S
  <2>1. f \in Injection(1..n, S)
    BY <1>4, <1>6 DEF Injection, IsInjective
  <2>2. IsFiniteSet(1..n) /\ Cardinality(1..n) = n
    BY <1>1, FS_Interval
  <2>3. f \in Surjection(1..n, S)
    BY <2>1, <2>2, FS_Injection
  <2>4. \A x \in S : \E i \in 1..n : f[i] = x
    BY <2>3 DEF Surjection
  <2> QED
    BY <1>4, <2>4 DEF C!ToSet
<1> QED
  BY <1>5, <1>6, <1>7 DEF f

-----------------------------------------------------------------------------
(* What executing the effects of a decision does to the custody. *)

\* The value held by the escrow.
Holdings == [escrow : Int, bond : [SubmissionIds -> Int], deposit : [ChallengeIds -> Int]]

\* What each kind of effect does.
LEMMA ExecutedByKind ==
    ASSUME NEW start, NEW e
    PROVE  /\ e.kind = "lock_escrow" =>
                  C!Executed(start, e) = [start EXCEPT !.escrow = @ + e.amount]
           /\ e.kind \in {"refund_escrow", "payout"} =>
                  C!Executed(start, e) = [start EXCEPT !.escrow = @ - e.amount]
           /\ e.kind = "lock_submission_bond" =>
                  C!Executed(start, e) = [start EXCEPT !.bond[e.subject] = @ + e.amount]
           /\ e.kind \in {"refund_submission_bond", "slash_submission_bond"} =>
                  C!Executed(start, e) = [start EXCEPT !.bond[e.subject] = @ - e.amount]
           /\ e.kind = "lock_challenge_deposit" =>
                  C!Executed(start, e) = [start EXCEPT !.deposit[e.subject] = @ + e.amount]
           /\ e.kind \in {"refund_challenge_deposit", "slash_challenge_deposit"} =>
                  C!Executed(start, e) = [start EXCEPT !.deposit[e.subject] = @ - e.amount]
<1>1. e.kind = "lock_escrow" =>
          C!Executed(start, e) = [start EXCEPT !.escrow = @ + e.amount]
  BY DEF C!Executed
<1>2. e.kind \in {"refund_escrow", "payout"} =>
          C!Executed(start, e) = [start EXCEPT !.escrow = @ - e.amount]
  BY DEF C!Executed
<1>3. e.kind = "lock_submission_bond" =>
          C!Executed(start, e) = [start EXCEPT !.bond[e.subject] = @ + e.amount]
  BY DEF C!Executed
<1>4. e.kind \in {"refund_submission_bond", "slash_submission_bond"} =>
          C!Executed(start, e) = [start EXCEPT !.bond[e.subject] = @ - e.amount]
  BY DEF C!Executed
<1>5. e.kind = "lock_challenge_deposit" =>
          C!Executed(start, e) = [start EXCEPT !.deposit[e.subject] = @ + e.amount]
  BY DEF C!Executed
<1>6. e.kind \in {"refund_challenge_deposit", "slash_challenge_deposit"} =>
          C!Executed(start, e) = [start EXCEPT !.deposit[e.subject] = @ - e.amount]
  BY DEF C!Executed
<1> QED
  BY <1>1, <1>2, <1>3, <1>4, <1>5, <1>6

\* A list of effects that take an amount each from a different lot.
Takes(effects, n, kind, Lot, amount) ==
    /\ DOMAIN effects = 1..n
    /\ \A i \in 1..n :
           /\ effects[i].kind = kind
           /\ effects[i].subject \in Lot
           /\ effects[i].amount = amount[effects[i].subject]
           /\ effects[i].amount \in Int
    /\ \A i, j \in 1..n : effects[i].subject = effects[j].subject => i = j

\* The lots that such a list takes from.
TakenFrom(effects, n) == {effects[i].subject : i \in 1..n}

\* What is left in the lots.
Left(before, Lot, amount, T) ==
    [l \in Lot |-> IF l \in T THEN before[l] - amount[l] ELSE before[l]]

\* Taking from one more lot.
LEMMA LeftStep ==
    ASSUME NEW Lot, NEW amount, NEW before \in [Lot -> Int], NEW effects, NEW n \in Nat, NEW kind,
           Takes(effects, n, kind, Lot, amount), NEW k \in 1..n
    PROVE  LET e == effects[k]
               left(i) == Left(before, Lot, amount, TakenFrom(effects, i))
           IN  left(k) = [left(k - 1) EXCEPT ![e.subject] = @ - e.amount]
<1> DEFINE x == effects[k].subject
           S == TakenFrom(effects, k - 1)
           T == TakenFrom(effects, k)
<1>1. x \in Lot /\ effects[k].amount = amount[x] /\ amount[x] \in Int
  BY DEF Takes
<1>2. x \notin S
  <2>1. \A i \in 1..(k - 1) : i \in 1..n /\ i # k
    OBVIOUS
  <2>2. \A i \in 1..(k - 1) : effects[i].subject # x
    BY <2>1 DEF Takes
  <2> QED
    BY <2>2 DEF TakenFrom
<1>3. T = S \cup {x}
  <2>1. \A i : i \in 1..k <=> i \in 1..(k - 1) \/ i = k
    OBVIOUS
  <2> QED
    BY <2>1 DEF TakenFrom
<1> HIDE DEF x, S, T
<1>4. \A l \in Lot : before[l] \in Int
  OBVIOUS
<1>5. Left(before, Lot, amount, T) = [Left(before, Lot, amount, S) EXCEPT ![x] = @ - amount[x]]
  BY <1>1, <1>2, <1>3, <1>4 DEF Left
<1> QED
  BY <1>1, <1>5, Zenon DEF x, S, T

\* Bonds that are given back.
LEMMA BondsExecuted ==
    ASSUME NEW start \in Holdings, NEW effects, NEW n \in Nat, NEW amount,
           Takes(effects, n, "refund_submission_bond", SubmissionIds, amount)
    PROVE  C!FoldLeft(C!Executed, start, effects) =
               [start EXCEPT !.bond =
                   Left(start.bond, SubmissionIds, amount, TakenFrom(effects, n))]
<1> DEFINE left(k) == Left(start.bond, SubmissionIds, amount, TakenFrom(effects, k))
           h == [k \in 0..n |-> [start EXCEPT !.bond = left(k)]]
<1>1. \A k \in 0..n : h[k] = [start EXCEPT !.bond = left(k)]
  OBVIOUS
<1>2. left(0) = start.bond
  <2>1. TakenFrom(effects, 0) = {}
    BY DEF TakenFrom
  <2>2. start.bond \in [SubmissionIds -> Int]
    BY DEF Holdings
  <2> QED
    BY <2>1, <2>2 DEF Left
<1>3. \A k \in 1..n : left(k) = [left(k - 1) EXCEPT ![effects[k].subject] = @ - effects[k].amount]
  <2>1. start.bond \in [SubmissionIds -> Int]
    BY DEF Holdings
  <2> QED
    BY <2>1, LeftStep
<1>4. DOMAIN start = {"escrow", "bond", "deposit"} /\ [start EXCEPT !.bond = start.bond] = start
  BY DEF Holdings
<1> HIDE DEF left, h
<1>5. h[0] = start
  <2>1. 0 \in 0..n
    OBVIOUS
  <2> QED
    BY <1>1, <1>2, <1>4, <2>1, Zenon
<1>6. ASSUME NEW k \in 1..n PROVE h[k] = C!Executed(h[k - 1], effects[k])
  <2> DEFINE e == effects[k]
             before == h[k - 1]
  <2>1. e.kind = "refund_submission_bond"
    BY DEF Takes
  <2>2. C!Executed(before, e) = [before EXCEPT !.bond[e.subject] = @ - e.amount]
    BY <2>1, ExecutedByKind
  <2>3. before = [start EXCEPT !.bond = left(k - 1)] /\ h[k] = [start EXCEPT !.bond = left(k)]
    <3>1. k - 1 \in 0..n /\ k \in 0..n
      OBVIOUS
    <3> QED
      BY <1>1, <3>1, Zenon
  <2>4. left(k) = [left(k - 1) EXCEPT ![e.subject] = @ - e.amount]
    BY <1>3
  <2> HIDE DEF e, before
  <2>5. [before EXCEPT !.bond[e.subject] = @ - e.amount] =
            [start EXCEPT !.bond = [left(k - 1) EXCEPT ![e.subject] = @ - e.amount]]
    BY <1>4, <2>3
  <2>6. h[k] = C!Executed(before, e)
    BY <2>2, <2>3, <2>4, <2>5, Zenon
  <2> QED
    BY <2>6 DEF e, before
<1>7. Follows(effects, n, start, h)
  BY <1>5, <1>6, Zenon DEF Follows
<1>8. C!FoldLeft(C!Executed, start, effects) = h[n]
  BY <1>7, CustodyFound DEF Takes
<1>9. h[n] = [start EXCEPT !.bond = left(n)]
  BY <1>1
<1> QED
  BY <1>8, <1>9 DEF left

\* Deposits that are slashed.
LEMMA DepositsExecuted ==
    ASSUME NEW start \in Holdings, NEW effects, NEW n \in Nat, NEW amount,
           Takes(effects, n, "slash_challenge_deposit", ChallengeIds, amount)
    PROVE  C!FoldLeft(C!Executed, start, effects) =
               [start EXCEPT !.deposit =
                   Left(start.deposit, ChallengeIds, amount, TakenFrom(effects, n))]
<1> DEFINE left(k) == Left(start.deposit, ChallengeIds, amount, TakenFrom(effects, k))
           h == [k \in 0..n |-> [start EXCEPT !.deposit = left(k)]]
<1>1. \A k \in 0..n : h[k] = [start EXCEPT !.deposit = left(k)]
  OBVIOUS
<1>2. left(0) = start.deposit
  <2>1. TakenFrom(effects, 0) = {}
    BY DEF TakenFrom
  <2>2. start.deposit \in [ChallengeIds -> Int]
    BY DEF Holdings
  <2> QED
    BY <2>1, <2>2 DEF Left
<1>3. \A k \in 1..n : left(k) = [left(k - 1) EXCEPT ![effects[k].subject] = @ - effects[k].amount]
  <2>1. start.deposit \in [ChallengeIds -> Int]
    BY DEF Holdings
  <2> QED
    BY <2>1, LeftStep
<1>4. /\ DOMAIN start = {"escrow", "bond", "deposit"}
      /\ [start EXCEPT !.deposit = start.deposit] = start
  BY DEF Holdings
<1> HIDE DEF left, h
<1>5. h[0] = start
  <2>1. 0 \in 0..n
    OBVIOUS
  <2> QED
    BY <1>1, <1>2, <1>4, <2>1, Zenon
<1>6. ASSUME NEW k \in 1..n PROVE h[k] = C!Executed(h[k - 1], effects[k])
  <2> DEFINE e == effects[k]
             before == h[k - 1]
  <2>1. e.kind = "slash_challenge_deposit"
    BY DEF Takes
  <2>2. C!Executed(before, e) = [before EXCEPT !.deposit[e.subject] = @ - e.amount]
    BY <2>1, ExecutedByKind
  <2>3. /\ before = [start EXCEPT !.deposit = left(k - 1)]
        /\ h[k] = [start EXCEPT !.deposit = left(k)]
    <3>1. k - 1 \in 0..n /\ k \in 0..n
      OBVIOUS
    <3> QED
      BY <1>1, <3>1, Zenon
  <2>4. left(k) = [left(k - 1) EXCEPT ![e.subject] = @ - e.amount]
    BY <1>3
  <2> HIDE DEF e, before
  <2>5. [before EXCEPT !.deposit[e.subject] = @ - e.amount] =
            [start EXCEPT !.deposit = [left(k - 1) EXCEPT ![e.subject] = @ - e.amount]]
    BY <1>4, <2>3
  <2>6. h[k] = C!Executed(before, e)
    BY <2>2, <2>3, <2>4, <2>5, Zenon
  <2> QED
    BY <2>6 DEF e, before
<1>7. Follows(effects, n, start, h)
  BY <1>5, <1>6, Zenon DEF Follows
<1>8. C!FoldLeft(C!Executed, start, effects) = h[n]
  BY <1>7, CustodyFound DEF Takes
<1>9. h[n] = [start EXCEPT !.deposit = left(n)]
  BY <1>1
<1> QED
  BY <1>8, <1>9 DEF left

-----------------------------------------------------------------------------
(* The bounty as Market describes it. *)

\* One record, and all of them.
SubmissionSeen(r) ==
    [status |-> r.status, verifier |-> r.verifier, at |-> r.at, bond |-> r.bond,
     receipt |-> C!Abbreviated(r.receipt)]

ChallengeSeen(r) ==
    [status |-> r.status, submission |-> r.submission, at |-> r.at, deposit |-> r.deposit,
     receipt |-> C!Abbreviated(r.receipt)]

SubmissionsSeen(b) == [s \in SubmissionIds |-> SubmissionSeen(b.submissions[s])]

ChallengesSeen(b) == [c \in ChallengeIds |-> ChallengeSeen(b.challenges[c])]

\* Effects without the party they go to.
EffectSeen(e) == [kind |-> e.kind, subject |-> e.subject, amount |-> e.amount]

EffectsSeen(S) == {EffectSeen(e) : e \in S}

\* The numbers a bounty records are numbers, and what is not filed has no deposit.
Counted(b) ==
    /\ b.phase \in Phases
    /\ b.escrow \in Nat
    /\ \A s \in SubmissionIds : b.submissions[s].bond \in Nat
    /\ \A c \in ChallengeIds :
           /\ b.challenges[c].at \in Nat /\ b.challenges[c].deposit \in Nat
           /\ b.challenges[c].status = "none" => b.challenges[c].deposit = 0

\* The sets that Market reads off its records.
LEMMA SetsSeen ==
    /\ \A s \in SubmissionIds : C!M!Present(s) <=> s \in C!Present(bounty)
    /\ \A c \in ChallengeIds : C!M!Filed(c) <=> c \in C!Filed(bounty)
    /\ C!M!OpenChallenges = C!Open(bounty)
    /\ C!M!Verified = C!Verified(bounty)
<1>1. \A s \in SubmissionIds : C!M!Present(s) <=> s \in C!Present(bounty)
  BY DEF C!M!Present, C!Present
<1>2. \A c \in ChallengeIds : C!M!Filed(c) <=> c \in C!Filed(bounty)
  BY DEF C!M!Filed, C!Filed
<1>3. C!M!OpenChallenges = C!Open(bounty)
  BY DEF C!M!OpenChallenges, C!Open
<1>4. C!M!Verified = C!Verified(bounty)
  BY DEF C!M!Verified, C!Verified
<1> QED
  BY <1>1, <1>2, <1>3, <1>4

\* The rules of the phases other than the open one find nothing.
LEMMA OtherPhasesClear ==
    ASSUME NEW b, C!PhaseViolations(b) = {}
    PROVE  LET Idle == C!Present(b) = {} /\ C!Filed(b) = {} /\ b.payable = {}
           IN  /\ b.phase = "draft" => b.escrow = 0 /\ Idle /\ b.settlement = None
               /\ b.phase = "payable" => b.escrow # 0 /\ b.payable # {} /\ C!Open(b) = {}
               /\ b.phase = "settled" =>
                      b.escrow = 0 /\ b.payable # {} /\ b.settlement # None
               /\ b.phase = "expired" => b.escrow = 0 /\ b.payable = {}
               /\ b.phase = "canceled" => b.escrow = 0 /\ Idle
<1> DEFINE Activity == C!Present(b) # {} \/ C!Filed(b) # {} \/ b.payable # {}
<1>1. CASE b.phase = "draft"
  <2> DEFINE rules == [draft_has_escrow |-> b.escrow # 0,
                       draft_has_activity |-> Activity \/ b.settlement # None]
  <2>1. C!PhaseViolations(b) = {code \in DOMAIN rules : rules[code]}
    BY <1>1 DEF C!PhaseViolations, C!Found
  <2>2. DOMAIN rules = {"draft_has_escrow", "draft_has_activity"}
    OBVIOUS
  <2>3. /\ rules["draft_has_escrow"] = (b.escrow # 0)
        /\ rules["draft_has_activity"] = (Activity \/ b.settlement # None)
    OBVIOUS
  <2> HIDE DEF rules
  <2>4. ~rules["draft_has_escrow"] /\ ~rules["draft_has_activity"]
    BY <2>1, <2>2, Zenon
  <2> QED
    BY <1>1, <2>3, <2>4
<1>2. CASE b.phase = "payable"
  <2> DEFINE rules == [payable_without_escrow |-> b.escrow = 0,
                       payable_without_submission |-> b.payable = {},
                       payable_with_open_challenge |-> C!Open(b) # {}]
  <2>1. C!PhaseViolations(b) = {code \in DOMAIN rules : rules[code]}
    BY <1>2 DEF C!PhaseViolations, C!Found
  <2>2. DOMAIN rules = {"payable_without_escrow", "payable_without_submission",
                        "payable_with_open_challenge"}
    OBVIOUS
  <2>3. /\ rules["payable_without_escrow"] = (b.escrow = 0)
        /\ rules["payable_without_submission"] = (b.payable = {})
        /\ rules["payable_with_open_challenge"] = (C!Open(b) # {})
    OBVIOUS
  <2> HIDE DEF rules
  <2>4. /\ ~rules["payable_without_escrow"] /\ ~rules["payable_without_submission"]
        /\ ~rules["payable_with_open_challenge"]
    BY <2>1, <2>2, Zenon
  <2> QED
    BY <1>2, <2>3, <2>4
<1>3. CASE b.phase = "settled"
  <2> DEFINE rules == [settled_retains_escrow |-> b.escrow # 0,
                       settled_without_payable_submission |-> b.payable = {},
                       settled_without_receipt |-> b.settlement = None]
  <2>1. C!PhaseViolations(b) = {code \in DOMAIN rules : rules[code]}
    BY <1>3 DEF C!PhaseViolations, C!Found
  <2>2. DOMAIN rules = {"settled_retains_escrow", "settled_without_payable_submission",
                        "settled_without_receipt"}
    OBVIOUS
  <2>3. /\ rules["settled_retains_escrow"] = (b.escrow # 0)
        /\ rules["settled_without_payable_submission"] = (b.payable = {})
        /\ rules["settled_without_receipt"] = (b.settlement = None)
    OBVIOUS
  <2> HIDE DEF rules
  <2>4. /\ ~rules["settled_retains_escrow"] /\ ~rules["settled_without_payable_submission"]
        /\ ~rules["settled_without_receipt"]
    BY <2>1, <2>2, Zenon
  <2> QED
    BY <1>3, <2>3, <2>4
<1>4. CASE b.phase = "expired"
  <2> DEFINE rules == [expired_retains_escrow |-> b.escrow # 0,
                       expired_has_payable_ids |-> b.payable # {}]
  <2>1. C!PhaseViolations(b) = {code \in DOMAIN rules : rules[code]}
    BY <1>4 DEF C!PhaseViolations, C!Found
  <2>2. DOMAIN rules = {"expired_retains_escrow", "expired_has_payable_ids"}
    OBVIOUS
  <2>3. /\ rules["expired_retains_escrow"] = (b.escrow # 0)
        /\ rules["expired_has_payable_ids"] = (b.payable # {})
    OBVIOUS
  <2> HIDE DEF rules
  <2>4. ~rules["expired_retains_escrow"] /\ ~rules["expired_has_payable_ids"]
    BY <2>1, <2>2, Zenon
  <2> QED
    BY <1>4, <2>3, <2>4
<1>5. CASE b.phase = "canceled"
  <2> DEFINE rules == [canceled_retains_escrow |-> b.escrow # 0,
                       canceled_has_activity |-> Activity]
  <2>1. C!PhaseViolations(b) = {code \in DOMAIN rules : rules[code]}
    BY <1>5 DEF C!PhaseViolations, C!Found
  <2>2. DOMAIN rules = {"canceled_retains_escrow", "canceled_has_activity"}
    OBVIOUS
  <2>3. /\ rules["canceled_retains_escrow"] = (b.escrow # 0)
        /\ rules["canceled_has_activity"] = Activity
    OBVIOUS
  <2> HIDE DEF rules
  <2>4. ~rules["canceled_retains_escrow"] /\ ~rules["canceled_has_activity"]
    BY <2>1, <2>2, Zenon
  <2> QED
    BY <1>5, <2>3, <2>4
<1> HIDE DEF Activity
<1> QED
  BY <1>1, <1>2, <1>3, <1>4, <1>5

\* A state in which market_state_violations finds nothing is valid as Market says it.
LEMMA ValidSeen ==
    ASSUME Whole(bounty), Counted(bounty), C!market_state_violations(bounty) = {}
    PROVE  C!M!ValidState
<1>1. /\ C!ReferenceViolations(bounty) = {} /\ C!ChallengeViolations(bounty) = {}
      /\ C!PhaseViolations(bounty) = {} /\ C!TerminalViolations(bounty) = {}
  BY DEF C!market_state_violations
<1>2. /\ \A c \in C!Filed(bounty) : bounty.challenges[c].submission \in C!Present(bounty)
      /\ bounty.payable \subseteq C!Present(bounty)
      /\ (bounty.payable \cap C!Present(bounty)) \ C!Verified(bounty) = {}
  BY <1>1, ReferencesClear
<1>3. /\ \A c, d \in C!Open(bounty) :
             c # d => bounty.challenges[c].submission # bounty.challenges[d].submission
      /\ ~(C!Open(bounty) # {} /\ bounty.phase # "open")
      /\ \A c \in C!Open(bounty) : bounty.challenges[c].deposit # 0
      /\ \A c \in C!Filed(bounty) \ C!Open(bounty) : bounty.challenges[c].deposit = 0
      /\ \A s \in C!Present(bounty) :
             bounty.submissions[s].status = "rejected" => bounty.submissions[s].bond = 0
  BY <1>1, ChallengesClear
<1>4. /\ ~(bounty.phase # "settled" /\ bounty.settlement # None)
      /\ ~(/\ bounty.phase \in C!Terminal
           /\ \E s \in C!Present(bounty) : bounty.submissions[s].bond # 0)
  BY <1>1, TerminalsClear
<1>5. C!M!ReferencesValid
  <2>1. \A c \in ChallengeIds : C!M!Filed(c) =>
            /\ bounty.challenges[c].submission \in SubmissionIds
            /\ C!M!Present(bounty.challenges[c].submission)
    BY <1>2, SetsSeen DEF C!Present
  <2> QED
    BY <2>1 DEF C!M!ReferencesValid
<1>6. C!M!PayableValid
  <2>1. bounty.payable \subseteq C!M!Verified
    BY <1>2, SetsSeen
  <2> QED
    BY <2>1 DEF C!M!PayableValid
<1>7. C!M!ChallengesValid
  <2>1. \A c, d \in C!Open(bounty) :
            bounty.challenges[c].submission = bounty.challenges[d].submission => c = d
    BY <1>3
  <2>2. C!Open(bounty) # {} => bounty.phase = "open"
    BY <1>3
  <2>3. \A c \in C!Open(bounty) : bounty.challenges[c].deposit > 0
    BY <1>3 DEF Counted, C!Open
  <2>4. \A c \in ChallengeIds \ C!Open(bounty) : bounty.challenges[c].deposit = 0
    BY <1>3 DEF Counted, C!Filed
  <2>5. \A s \in SubmissionIds :
            bounty.submissions[s].status = "rejected" => bounty.submissions[s].bond = 0
    BY <1>3 DEF C!Present
  <2>6. C!Open(bounty) \subseteq ChallengeIds
    BY DEF C!Open
  <2> QED
    BY <2>1, <2>2, <2>3, <2>4, <2>5, <2>6, SetsSeen DEF C!M!ChallengesValid
<1>8. C!M!PhaseValid
  <2> DEFINE Idle == C!Present(bounty) = {} /\ C!Filed(bounty) = {} /\ bounty.payable = {}
  <2>1. bounty.phase = "open" =>
            bounty.escrow # 0 /\ bounty.payable = {} /\ bounty.settlement = None
    BY <1>1, OpenPhaseClear
  <2>2. /\ bounty.phase = "draft" => bounty.escrow = 0 /\ Idle /\ bounty.settlement = None
        /\ bounty.phase = "payable" => bounty.escrow # 0 /\ bounty.payable # {}
        /\ bounty.phase = "settled" =>
               bounty.escrow = 0 /\ bounty.payable # {} /\ bounty.settlement # None
        /\ bounty.phase = "expired" => bounty.escrow = 0 /\ bounty.payable = {}
        /\ bounty.phase = "canceled" => bounty.escrow = 0 /\ Idle
    BY <1>1, OtherPhasesClear
  <2>3. bounty.phase \in {"draft", "open", "payable", "settled", "expired", "canceled"}
    BY DEF Counted, Phases
  <2>4. bounty.escrow \in Nat
    BY DEF Counted
  <2>5. Idle => C!M!NoActivity
    BY SetsSeen DEF C!M!NoActivity
  <2> HIDE DEF Idle
  <2>6. bounty.phase \in {"open", "payable"} <=> bounty.escrow > 0
    BY <2>1, <2>2, <2>3, <2>4
  <2>7. bounty.phase \in {"draft", "canceled"} => C!M!NoActivity
    BY <2>2, <2>5
  <2>8. bounty.phase \in {"payable", "settled"} <=> bounty.payable # {}
    BY <2>1, <2>2, <2>3 DEF Idle
  <2>9. (bounty.settlement # None) <=> bounty.phase = "settled"
    BY <1>4, <2>2
  <2> QED
    BY <2>6, <2>7, <2>8, <2>9 DEF C!M!PhaseValid
<1>9. C!M!TerminalValid
  <2>1. bounty.phase \in C!M!Terminal =>
            \A s \in SubmissionIds : C!M!Present(s) => bounty.submissions[s].bond = 0
    BY <1>4, SetsSeen DEF C!M!Terminal, C!Terminal
  <2> QED
    BY <2>1 DEF C!M!TerminalValid
<1> QED
  BY <1>5, <1>6, <1>7, <1>8, <1>9 DEF C!M!ValidState

-----------------------------------------------------------------------------
(* A decision that is executed, as a step of Market. *)

\* What holds between commands: a whole bounty, with numbers, and a custody of numbers.
Sound(b, h) == Whole(b) /\ Counted(b) /\ h \in Holdings

\* A decision is carried out: its state is kept, and its effects are returned and executed.
CarriedOut(d) ==
    /\ bounty' = d.next
    /\ returned' = returned \cup C!ToSet(d.effects)
    /\ held' = C!FoldLeft(C!Executed, held, d.effects)

\* Effects returned together are seen together.
LEMMA EffectsSeenBoth ==
    /\ \A S, T : EffectsSeen(S \cup T) = EffectsSeen(S) \cup EffectsSeen(T)
    /\ EffectsSeen({}) = {}
    /\ \A e : EffectsSeen({e}) = {EffectSeen(e)}
    /\ \A e, f : EffectsSeen({e, f}) = {EffectSeen(e), EffectSeen(f)}
<1>1. \A S, T : EffectsSeen(S \cup T) = EffectsSeen(S) \cup EffectsSeen(T)
  BY DEF EffectsSeen
<1>2. EffectsSeen({}) = {}
  BY DEF EffectsSeen
<1>3. \A e : EffectsSeen({e}) = {EffectSeen(e)}
  BY DEF EffectsSeen
<1>4. \A e, f : EffectsSeen({e, f}) = {EffectSeen(e), EffectSeen(f)}
  BY DEF EffectsSeen
<1> QED
  BY <1>1, <1>2, <1>3, <1>4

\* An effect is seen without its recipient.
LEMMA EffectIsSeen ==
    ASSUME NEW kind, NEW recipient, NEW amount, NEW subject
    PROVE  EffectSeen(C!Effect(kind, recipient, amount, subject)) =
               C!M!Effect(kind, subject, amount)
  BY DEF EffectSeen, C!Effect, C!M!Effect

\* One more command is one more id.
LEMMA OneMoreId ==
    ASSUME Whole(bounty), NEW id \in (1..MaxCommands) \ bounty.processed
    PROVE  /\ C!Cardinality(bounty.processed) \in Nat
           /\ C!Cardinality(bounty.processed \cup {id}) = C!Cardinality(bounty.processed) + 1
<1>1. IsFiniteSet(bounty.processed)
  <2>1. MaxCommands \in Nat
    BY BountiesAssumption DEF C!CallsParameters
  <2>2. IsFiniteSet(1..MaxCommands)
    BY <2>1, FS_Interval
  <2> QED
    BY <2>2, FS_Subset DEF Whole
<1>2. \A S : C!Cardinality(S) = Cardinality(S)
  BY DEF C!Cardinality, Cardinality
<1>3. Cardinality(bounty.processed \cup {id}) = Cardinality(bounty.processed) + 1
  BY <1>1, FS_AddElement
<1> QED
  BY <1>1, <1>2, <1>3, FS_CardinalityType

\* A command carries what callers have to try.
Tried(command) ==
    /\ Addressed(command) /\ Split(command)
    /\ command.kind # "settle_bounty" => command.now \in Times
    /\ command.kind = "open_bounty" => command.funded \in Amounts
    /\ command.kind = "submit_candidate" =>
           command.verifier \in Verifiers /\ command.bond \in Amounts
    /\ command.kind = "open_challenge" => command.deposit \in Amounts
    /\ command.kind = "settle_bounty" => command.settlement # None
    /\ command.kind \in {"verify_submission", "resolve_challenge"} =>
           command.verifier \in Verifiers /\ command.verdict \in BOOLEAN /\ command.receipt # None

\* A command that the common checks let through, between two others.
Received(command) ==
    /\ Sound(bounty, held)
    /\ C!market_state_violations(bounty) = {}
    /\ Tried(command) /\ command.id \in (1..MaxCommands) \ bounty.processed

\* What every taken command does: Market's Commit, and the handler's state.
LEMMA CommitSeen ==
    ASSUME NEW command, Received(command), NEW next, DOMAIN next = Fields,
           NEW effects, NEW code, CarriedOut(C!Returned(bounty, command, next, effects, code))
    PROVE  /\ C!M!ValidState
           /\ C!Cardinality(bounty'.processed) = C!Cardinality(bounty.processed) + 1
           /\ EffectsSeen(returned') = EffectsSeen(returned) \cup EffectsSeen(C!ToSet(effects))
           /\ bounty'.phase = next.phase /\ bounty'.escrow = next.escrow
           /\ bounty'.submissions = next.submissions
           /\ bounty'.challenges = next.challenges
           /\ bounty'.payable = next.payable
           /\ bounty'.settlement = next.settlement
           /\ held' = C!FoldLeft(C!Executed, held, effects)
<1> DEFINE d == C!Returned(bounty, command, next, effects, code)
           E == EffectsSeen(C!ToSet(effects))
<1>1. /\ d.next.phase = next.phase /\ d.next.escrow = next.escrow
      /\ d.next.submissions = next.submissions /\ d.next.challenges = next.challenges
      /\ d.next.payable = next.payable /\ d.next.settlement = next.settlement
      /\ d.next.processed = bounty.processed \cup {command.id}
  BY ReturnedState
<1>2. d.effects = effects
  BY DEF C!Returned
<1>3. /\ bounty' = d.next /\ returned' = returned \cup C!ToSet(effects)
      /\ held' = C!FoldLeft(C!Executed, held, effects)
  BY <1>2 DEF CarriedOut
<1> HIDE DEF d
<1>4. C!M!ValidState
  BY ValidSeen DEF Received, Sound
<1>5. C!Cardinality(bounty'.processed) = C!Cardinality(bounty.processed) + 1
  BY <1>1, <1>3, OneMoreId DEF Received, Sound
<1>6. EffectsSeen(returned') = EffectsSeen(returned) \cup E
  BY <1>3, EffectsSeenBoth
<1> HIDE DEF E
<1> QED
  BY <1>1, <1>3, <1>4, <1>5, <1>6 DEF E

-----------------------------------------------------------------------------
(* The commands with which a bounty is opened, canceled and sent candidates, seen by Market. *)

\* A stake that is tried is a number.
LEMMA TriedNumbers == Amounts \subseteq Nat /\ Times \subseteq Nat
  BY BountiesAssumption DEF C!CallsParameters

\* open_bounty takes the step of Market's OpenBounty.
LEMMA OpenBountySeen ==
    ASSUME NEW command, Received(command), command.kind = "open_bounty",
           Clear(C!OpenBountyChecks(bounty, command)), CarriedOut(C!OpenBounty(bounty, command))
    PROVE  /\ C!M!OpenBounty(command.funded, command.now)
           /\ Counted(bounty') /\ held' \in Holdings
<1> DEFINE next == [bounty EXCEPT !.phase = "open", !.escrow = command.funded]
           e == C!Effect("lock_escrow", command.sponsor, command.funded, C!Bounty)
           effects == <<e>>
           E == {C!M!Effect("lock_escrow", C!M!Bounty, command.funded)}
           after == [held EXCEPT !.escrow = @ + command.funded]
<1>1. command.funded \in Nat
  BY TriedNumbers DEF Received, Tried
<1>2. /\ DOMAIN next = Fields
      /\ next.phase = "open" /\ next.escrow = command.funded
      /\ next.submissions = bounty.submissions /\ next.challenges = bounty.challenges
      /\ next.payable = bounty.payable /\ next.settlement = bounty.settlement
  BY DEF Received, Sound, Whole, Shaped, Fields
<1>3. CarriedOut(C!Returned(bounty, command, next, effects, None))
  BY DEF C!OpenBounty
<1>4. C!ToSet(effects) = {e} /\ C!FoldLeft(C!Executed, held, effects) = C!Executed(held, e)
  BY ListOfOne, CustodyOfFew
<1>5. C!Executed(held, e) = after
  BY ExecutedByKind DEF C!Effect
<1>6. EffectSeen(e) = C!M!Effect("lock_escrow", C!M!Bounty, command.funded)
  BY EffectIsSeen DEF C!M!Bounty, C!Bounty
<1>7. after \in Holdings
  BY <1>1 DEF Received, Sound, Holdings
<1>8. /\ bounty.phase = "draft" /\ command.now < Deadline
      /\ command.funded = C!M!RequiredFunding
  <2>1. /\ bounty.phase = "draft" /\ ~(command.now >= Deadline)
        /\ command.funded = C!Larger(Reward, MinBounty)
    BY OpenBountyClear
  <2>2. command.now \in Nat /\ Deadline \in Nat
    BY TriedNumbers, MarketAssumption DEF Received, Tried
  <2> QED
    BY <2>1, <2>2 DEF C!M!RequiredFunding, C!M!Larger, C!Larger
<1> HIDE DEF next, e, effects, E, after
<1>9. EffectsSeen(C!ToSet(effects)) = E
  BY <1>4, <1>6, EffectsSeenBoth DEF E
<1>10. /\ C!M!ValidState
       /\ C!Cardinality(bounty'.processed) = C!Cardinality(bounty.processed) + 1
       /\ EffectsSeen(returned') = EffectsSeen(returned) \cup EffectsSeen(C!ToSet(effects))
       /\ bounty'.phase = next.phase /\ bounty'.escrow = next.escrow
       /\ bounty'.submissions = next.submissions
       /\ bounty'.challenges = next.challenges
       /\ bounty'.payable = next.payable
       /\ bounty'.settlement = next.settlement
       /\ held' = C!FoldLeft(C!Executed, held, effects)
  BY <1>2, <1>3, CommitSeen, Zenon
<1>11. held' = after
  BY <1>4, <1>5, <1>10
<1>12. C!M!OpenBounty(command.funded, command.now)
  BY <1>2, <1>8, <1>9, <1>10, <1>11
     DEF C!M!OpenBounty, C!M!CanOpen, C!M!Commit, EffectsSeen, EffectSeen, E, after
<1>13. Counted(bounty')
  BY <1>1, <1>2, <1>10 DEF Received, Sound, Counted, Phases
<1> QED
  BY <1>7, <1>11, <1>12, <1>13

\* cancel_bounty takes the step of Market's CancelBounty.
LEMMA CancelBountySeen ==
    ASSUME NEW command, Received(command), command.kind = "cancel_bounty",
           Clear(C!CancelChecks(bounty, command)), CarriedOut(C!CancelBounty(bounty, command))
    PROVE  /\ C!M!CancelBounty(command.now)
           /\ Counted(bounty') /\ held' \in Holdings
<1> DEFINE next == [bounty EXCEPT !.phase = "canceled", !.escrow = 0]
           e == C!Effect("refund_escrow", Sponsor, bounty.escrow, C!Bounty)
           effects == <<e>>
           E == {C!M!Effect("refund_escrow", C!M!Bounty, bounty.escrow)}
           after == [held EXCEPT !.escrow = @ - bounty.escrow]
<1>1. bounty.escrow \in Nat
  BY DEF Received, Sound, Counted
<1>2. /\ DOMAIN next = Fields
      /\ next.phase = "canceled" /\ next.escrow = 0
      /\ next.submissions = bounty.submissions /\ next.challenges = bounty.challenges
      /\ next.payable = bounty.payable /\ next.settlement = bounty.settlement
  BY DEF Received, Sound, Whole, Shaped, Fields
<1>3. CarriedOut(C!Returned(bounty, command, next, effects, None))
  BY DEF C!CancelBounty
<1>4. C!ToSet(effects) = {e} /\ C!FoldLeft(C!Executed, held, effects) = C!Executed(held, e)
  BY ListOfOne, CustodyOfFew
<1>5. C!Executed(held, e) = after
  BY ExecutedByKind DEF C!Effect
<1>6. EffectSeen(e) = C!M!Effect("refund_escrow", C!M!Bounty, bounty.escrow)
  BY EffectIsSeen DEF C!M!Bounty, C!Bounty
<1>7. after \in Holdings
  BY <1>1 DEF Received, Sound, Holdings
<1>8. C!M!CanCancel(command.now)
  <2>1. /\ bounty.phase = "open" /\ ~(command.now >= Deadline)
        /\ C!Present(bounty) = {} /\ C!Filed(bounty) = {}
    BY CancelClear
  <2>2. command.now \in Nat /\ Deadline \in Nat
    BY TriedNumbers, MarketAssumption DEF Received, Tried
  <2>3. /\ \A s \in SubmissionIds : ~C!M!Present(s)
        /\ \A c \in ChallengeIds : ~C!M!Filed(c)
    BY <2>1, SetsSeen
  <2> QED
    BY <2>1, <2>2, <2>3 DEF C!M!CanCancel
<1> HIDE DEF next, e, effects, E, after
<1>9. EffectsSeen(C!ToSet(effects)) = E
  BY <1>4, <1>6, EffectsSeenBoth DEF E
<1>10. /\ C!M!ValidState
       /\ C!Cardinality(bounty'.processed) = C!Cardinality(bounty.processed) + 1
       /\ EffectsSeen(returned') = EffectsSeen(returned) \cup EffectsSeen(C!ToSet(effects))
       /\ bounty'.phase = next.phase /\ bounty'.escrow = next.escrow
       /\ bounty'.submissions = next.submissions
       /\ bounty'.challenges = next.challenges
       /\ bounty'.payable = next.payable
       /\ bounty'.settlement = next.settlement
       /\ held' = C!FoldLeft(C!Executed, held, effects)
  BY <1>2, <1>3, CommitSeen, Zenon
<1>11. held' = after
  BY <1>4, <1>5, <1>10
<1>12. C!M!CancelBounty(command.now)
  BY <1>2, <1>8, <1>9, <1>10, <1>11
     DEF C!M!CancelBounty, C!M!Commit, EffectsSeen, EffectSeen, E, after
<1>13. Counted(bounty')
  BY <1>1, <1>2, <1>10 DEF Received, Sound, Counted, Phases
<1> QED
  BY <1>7, <1>11, <1>12, <1>13

\* submit_candidate takes the step of Market's SubmitCandidate.
LEMMA SubmitCandidateSeen ==
    ASSUME NEW command, Received(command), command.kind = "submit_candidate",
           Clear(C!SubmitChecks(bounty, command)),
           CarriedOut(C!SubmitCandidate(bounty, command))
    PROVE  /\ C!M!SubmitCandidate(command.submission, command.verifier, command.bond, command.now)
           /\ Counted(bounty') /\ held' \in Holdings
<1> DEFINE s == command.submission
           record ==
               [status |-> "pending", submitter |-> command.submitter, recipe |-> command.recipe,
                verifier |-> command.verifier, at |-> command.now, bond |-> command.bond,
                receipt |-> None]
           seen ==
               [status |-> "pending", verifier |-> command.verifier, at |-> command.now,
                bond |-> command.bond, receipt |-> None]
           next == [bounty EXCEPT !.submissions[s] = record]
           e == C!Effect("lock_submission_bond", command.submitter, command.bond, s)
           effects == <<e>>
           E == {C!M!Effect("lock_submission_bond", s, command.bond)}
           after == [held EXCEPT !.bond[s] = @ + command.bond]
<1>1. s \in SubmissionIds /\ command.bond \in Nat
  BY TriedNumbers DEF Received, Tried, Addressed
<1>2. SubmissionSeen(record) = seen /\ record.bond = command.bond
  BY DEF SubmissionSeen, C!Abbreviated
<1>3. CarriedOut(C!Returned(bounty, command, next, effects, None))
  BY DEF C!SubmitCandidate
<1> HIDE DEF record
<1>4. /\ DOMAIN next = Fields
      /\ next.phase = bounty.phase /\ next.escrow = bounty.escrow
      /\ next.submissions = [bounty.submissions EXCEPT ![s] = record]
      /\ next.challenges = bounty.challenges
      /\ next.payable = bounty.payable /\ next.settlement = bounty.settlement
  BY DEF Received, Sound, Whole, Shaped, Fields
<1>5. C!ToSet(effects) = {e} /\ C!FoldLeft(C!Executed, held, effects) = C!Executed(held, e)
  BY ListOfOne, CustodyOfFew
<1>6. C!Executed(held, e) = after
  BY ExecutedByKind DEF C!Effect
<1>7. EffectSeen(e) = C!M!Effect("lock_submission_bond", s, command.bond)
  BY EffectIsSeen
<1>8. after \in Holdings
  BY <1>1 DEF Received, Sound, Holdings
<1>9. C!M!CanSubmit(s, command.verifier, command.bond, command.now)
  <2>1. /\ bounty.phase = "open" /\ ~(command.now > Deadline)
        /\ s \notin C!Present(bounty)
        /\ command.verifier \in AcceptedVerifiers
        /\ ~(command.bond < C!Larger(MinSubmissionBond, PolicyMinBond))
    BY SubmitClear
  <2>2. /\ command.now \in Nat /\ Deadline \in Nat
        /\ MinSubmissionBond \in Nat /\ PolicyMinBond \in Nat
    BY TriedNumbers, MarketAssumption DEF Received, Tried
  <2>3. ~C!M!Present(s)
    BY <1>1, <2>1, SetsSeen
  <2> HIDE DEF s
  <2>4. command.now <= Deadline /\ command.bond >= C!M!RequiredBond
    BY <1>1, <2>1, <2>2 DEF C!M!RequiredBond, C!M!Larger, C!Larger
  <2> QED
    BY <2>1, <2>3, <2>4 DEF C!M!CanSubmit
<1> HIDE DEF next, e, effects, E, after, seen, s
<1>10. EffectsSeen(C!ToSet(effects)) = E
  BY <1>5, <1>7, EffectsSeenBoth DEF E
<1>11. /\ C!M!ValidState
       /\ C!Cardinality(bounty'.processed) = C!Cardinality(bounty.processed) + 1
       /\ EffectsSeen(returned') = EffectsSeen(returned) \cup EffectsSeen(C!ToSet(effects))
       /\ bounty'.phase = next.phase /\ bounty'.escrow = next.escrow
       /\ bounty'.submissions = next.submissions
       /\ bounty'.challenges = next.challenges
       /\ bounty'.payable = next.payable
       /\ bounty'.settlement = next.settlement
       /\ held' = C!FoldLeft(C!Executed, held, effects)
  BY <1>3, <1>4, CommitSeen, Zenon
<1>12. held' = after
  BY <1>5, <1>6, <1>11
<1>13. SubmissionsSeen(bounty') = [SubmissionsSeen(bounty) EXCEPT ![s] = seen]
  BY <1>1, <1>2, <1>4, <1>11 DEF SubmissionsSeen, Received, Sound, Whole, Shaped
<1>14. C!M!SubmitCandidate(s, command.verifier, command.bond, command.now)
  BY <1>4, <1>9, <1>10, <1>11, <1>12, <1>13
     DEF C!M!SubmitCandidate, C!M!Commit, EffectsSeen, EffectSeen, E, after, seen,
         SubmissionsSeen, SubmissionSeen
<1>15. Counted(bounty')
  BY <1>1, <1>2, <1>4, <1>11 DEF Received, Sound, Counted, Whole, Shaped
<1> QED
  BY <1>8, <1>12, <1>14, <1>15 DEF s

-----------------------------------------------------------------------------
(* What the handlers make of the records of a bounty, and what Market sees of them. *)

\* The receipt of a verdict that is let through is the statement of what is decided, signed
\* over the state it is decided in.
LEMMA ReceiptSeen ==
    ASSUME NEW command, NEW evidence, command.receipt # None, command.kind \in C!Verdicts,
           Clear(C!CommonChecks(bounty, command, evidence)),
           command.receipt \in C!ToSet(evidence)
    PROVE  C!Abbreviated(command.receipt) =
               [pre |-> C!Cardinality(bounty.processed), subject |-> C!Subject(command),
                outcome |-> C!Outcome(command), key |-> command.verifier]
<1>1. C!Bound(bounty, command, command.receipt)
  BY CommonClear
<1> DEFINE statement == command.receipt.statement
           expected == C!Statement(bounty, command)
<1>2. /\ \A field \in {"kind", "pre", "subject", "outcome"} :
             statement[field] = expected[field]
      /\ command.receipt.key = command.verifier
  BY <1>1 DEF C!Bound
<1>3. /\ expected.pre = bounty /\ expected.subject = C!Subject(command)
      /\ expected.outcome = C!Outcome(command)
  BY DEF C!Statement
<1> HIDE DEF expected
<1>4. /\ statement.pre = bounty /\ statement.subject = C!Subject(command)
      /\ statement.outcome = C!Outcome(command)
  BY <1>2, <1>3
<1> QED
  BY <1>2, <1>4 DEF C!Abbreviated

\* What the handlers make of a record.
Judged(r, status, receipt) == [r EXCEPT !.status = status, !.receipt = receipt]
Refused(r, status, receipt) == [r EXCEPT !.status = status, !.bond = 0, !.receipt = receipt]
Struck(r, status) == [r EXCEPT !.status = status, !.bond = 0]
Freed(r) == [r EXCEPT !.bond = 0]
Closed(r, status, receipt) == [r EXCEPT !.status = status, !.deposit = 0, !.receipt = receipt]
Lapsed(r, status) == [r EXCEPT !.status = status, !.deposit = 0]

\* What Market keeps of one.
Submitted(status, verifier, at, bond, receipt) ==
    [status |-> status, verifier |-> verifier, at |-> at, bond |-> bond, receipt |-> receipt]
Contested(status, submission, at, deposit, receipt) ==
    [status |-> status, submission |-> submission, at |-> at, deposit |-> deposit,
     receipt |-> receipt]

\* A submission that is updated is seen updated.
LEMMA SubmissionUpdateSeen ==
    ASSUME NEW r, NEW x, NEW y,
           {"status", "submitter", "verifier", "at", "bond", "receipt"}
               \subseteq DOMAIN r
    PROVE  /\ SubmissionSeen(Judged(r, x, y)) =
                  Judged(SubmissionSeen(r), x, C!Abbreviated(y))
           /\ SubmissionSeen(Refused(r, x, y)) =
                  Refused(SubmissionSeen(r), x, C!Abbreviated(y))
           /\ SubmissionSeen(Struck(r, x)) =
                  Struck(SubmissionSeen(r), x)
           /\ SubmissionSeen(Freed(r)) =
                  Freed(SubmissionSeen(r))
<1>1. SubmissionSeen(Judged(r, x, y)) =
          Judged(SubmissionSeen(r), x, C!Abbreviated(y))
  <2> DEFINE u == Judged(r, x, y)
             v0 == Submitted(r.status, r.verifier, r.at, r.bond, C!Abbreviated(r.receipt))
             v1 == Submitted(x, r.verifier, r.at, r.bond, C!Abbreviated(r.receipt))
             v2 == Submitted(x, r.verifier, r.at, r.bond, C!Abbreviated(y))
  <2>1. /\ u.status = x
        /\ u.verifier = r.verifier
        /\ u.at = r.at
        /\ u.bond = r.bond
        /\ u.receipt = y
    BY DEF Judged
  <2> HIDE DEF u
  <2>2. SubmissionSeen(u) = v2 /\ SubmissionSeen(r) = v0
    BY <2>1 DEF SubmissionSeen, Submitted
  <2>3. [v0 EXCEPT !.status = x] = v1
    BY DEF Submitted
  <2>4. [v1 EXCEPT !.receipt = C!Abbreviated(y)] = v2
    BY DEF Submitted
  <2> HIDE DEF v0, v1, v2
  <2> QED
    BY <2>2, <2>3, <2>4, Zenon DEF u, Judged
<1>2. SubmissionSeen(Refused(r, x, y)) =
          Refused(SubmissionSeen(r), x, C!Abbreviated(y))
  <2> DEFINE u == Refused(r, x, y)
             v0 == Submitted(r.status, r.verifier, r.at, r.bond, C!Abbreviated(r.receipt))
             v1 == Submitted(x, r.verifier, r.at, r.bond, C!Abbreviated(r.receipt))
             v2 == Submitted(x, r.verifier, r.at, 0, C!Abbreviated(r.receipt))
             v3 == Submitted(x, r.verifier, r.at, 0, C!Abbreviated(y))
  <2>1. /\ u.status = x
        /\ u.verifier = r.verifier
        /\ u.at = r.at
        /\ u.bond = 0
        /\ u.receipt = y
    BY DEF Refused
  <2> HIDE DEF u
  <2>2. SubmissionSeen(u) = v3 /\ SubmissionSeen(r) = v0
    BY <2>1 DEF SubmissionSeen, Submitted
  <2>3. [v0 EXCEPT !.status = x] = v1
    BY DEF Submitted
  <2>4. [v1 EXCEPT !.bond = 0] = v2
    BY DEF Submitted
  <2>5. [v2 EXCEPT !.receipt = C!Abbreviated(y)] = v3
    BY DEF Submitted
  <2> HIDE DEF v0, v1, v2, v3
  <2> QED
    BY <2>2, <2>3, <2>4, <2>5, Zenon DEF u, Refused
<1>3. SubmissionSeen(Struck(r, x)) =
          Struck(SubmissionSeen(r), x)
  <2> DEFINE u == Struck(r, x)
             v0 == Submitted(r.status, r.verifier, r.at, r.bond, C!Abbreviated(r.receipt))
             v1 == Submitted(x, r.verifier, r.at, r.bond, C!Abbreviated(r.receipt))
             v2 == Submitted(x, r.verifier, r.at, 0, C!Abbreviated(r.receipt))
  <2>1. /\ u.status = x
        /\ u.verifier = r.verifier
        /\ u.at = r.at
        /\ u.bond = 0
        /\ u.receipt = r.receipt
    BY DEF Struck
  <2> HIDE DEF u
  <2>2. SubmissionSeen(u) = v2 /\ SubmissionSeen(r) = v0
    BY <2>1 DEF SubmissionSeen, Submitted
  <2>3. [v0 EXCEPT !.status = x] = v1
    BY DEF Submitted
  <2>4. [v1 EXCEPT !.bond = 0] = v2
    BY DEF Submitted
  <2> HIDE DEF v0, v1, v2
  <2> QED
    BY <2>2, <2>3, <2>4, Zenon DEF u, Struck
<1>4. SubmissionSeen(Freed(r)) =
          Freed(SubmissionSeen(r))
  <2> DEFINE u == Freed(r)
             v0 == Submitted(r.status, r.verifier, r.at, r.bond, C!Abbreviated(r.receipt))
             v1 == Submitted(r.status, r.verifier, r.at, 0, C!Abbreviated(r.receipt))
  <2>1. /\ u.status = r.status
        /\ u.verifier = r.verifier
        /\ u.at = r.at
        /\ u.bond = 0
        /\ u.receipt = r.receipt
    BY DEF Freed
  <2> HIDE DEF u
  <2>2. SubmissionSeen(u) = v1 /\ SubmissionSeen(r) = v0
    BY <2>1 DEF SubmissionSeen, Submitted
  <2>3. [v0 EXCEPT !.bond = 0] = v1
    BY DEF Submitted
  <2> HIDE DEF v0, v1
  <2> QED
    BY <2>2, <2>3, Zenon DEF u, Freed
<1> QED
  BY <1>1, <1>2, <1>3, <1>4

\* A challenge that is updated is seen updated.
LEMMA ChallengeUpdateSeen ==
    ASSUME NEW r, NEW x, NEW y,
           {"status", "submission", "challenger", "at", "deposit", "receipt"}
               \subseteq DOMAIN r
    PROVE  /\ ChallengeSeen(Closed(r, x, y)) =
                  Closed(ChallengeSeen(r), x, C!Abbreviated(y))
           /\ ChallengeSeen(Lapsed(r, x)) =
                  Lapsed(ChallengeSeen(r), x)
<1>1. ChallengeSeen(Closed(r, x, y)) =
          Closed(ChallengeSeen(r), x, C!Abbreviated(y))
  <2> DEFINE u == Closed(r, x, y)
             v0 == Contested(r.status, r.submission, r.at, r.deposit, C!Abbreviated(r.receipt))
             v1 == Contested(x, r.submission, r.at, r.deposit, C!Abbreviated(r.receipt))
             v2 == Contested(x, r.submission, r.at, 0, C!Abbreviated(r.receipt))
             v3 == Contested(x, r.submission, r.at, 0, C!Abbreviated(y))
  <2>1. /\ u.status = x
        /\ u.submission = r.submission
        /\ u.at = r.at
        /\ u.deposit = 0
        /\ u.receipt = y
    BY DEF Closed
  <2> HIDE DEF u
  <2>2. ChallengeSeen(u) = v3 /\ ChallengeSeen(r) = v0
    BY <2>1 DEF ChallengeSeen, Contested
  <2>3. [v0 EXCEPT !.status = x] = v1
    BY DEF Contested
  <2>4. [v1 EXCEPT !.deposit = 0] = v2
    BY DEF Contested
  <2>5. [v2 EXCEPT !.receipt = C!Abbreviated(y)] = v3
    BY DEF Contested
  <2> HIDE DEF v0, v1, v2, v3
  <2> QED
    BY <2>2, <2>3, <2>4, <2>5, Zenon DEF u, Closed
<1>2. ChallengeSeen(Lapsed(r, x)) =
          Lapsed(ChallengeSeen(r), x)
  <2> DEFINE u == Lapsed(r, x)
             v0 == Contested(r.status, r.submission, r.at, r.deposit, C!Abbreviated(r.receipt))
             v1 == Contested(x, r.submission, r.at, r.deposit, C!Abbreviated(r.receipt))
             v2 == Contested(x, r.submission, r.at, 0, C!Abbreviated(r.receipt))
  <2>1. /\ u.status = x
        /\ u.submission = r.submission
        /\ u.at = r.at
        /\ u.deposit = 0
        /\ u.receipt = r.receipt
    BY DEF Lapsed
  <2> HIDE DEF u
  <2>2. ChallengeSeen(u) = v2 /\ ChallengeSeen(r) = v0
    BY <2>1 DEF ChallengeSeen, Contested
  <2>3. [v0 EXCEPT !.status = x] = v1
    BY DEF Contested
  <2>4. [v1 EXCEPT !.deposit = 0] = v2
    BY DEF Contested
  <2> HIDE DEF v0, v1, v2
  <2> QED
    BY <2>2, <2>3, <2>4, Zenon DEF u, Lapsed
<1> QED
  BY <1>1, <1>2

\* One record of several that such a change is made of.
JudgedIn(f, i, x, y) == [f EXCEPT ![i].status = x, ![i].receipt = y]
RefusedIn(f, i, x, y) == [f EXCEPT ![i].status = x, ![i].bond = 0, ![i].receipt = y]
StruckIn(f, i, x) == [f EXCEPT ![i].status = x, ![i].bond = 0]
ClosedIn(f, i, x, y) == [f EXCEPT ![i].status = x, ![i].deposit = 0, ![i].receipt = y]

\* Changed one field after the other, it is the changed record.
LEMMA AtOnce ==
    ASSUME NEW f, NEW i \in DOMAIN f, NEW x, NEW y
    PROVE  /\ JudgedIn(f, i, x, y) = [f EXCEPT ![i] = Judged(f[i], x, y)]
           /\ RefusedIn(f, i, x, y) = [f EXCEPT ![i] = Refused(f[i], x, y)]
           /\ ClosedIn(f, i, x, y) = [f EXCEPT ![i] = Closed(f[i], x, y)]
<1>1. JudgedIn(f, i, x, y) = [f EXCEPT ![i] = Judged(f[i], x, y)]
  BY DEF Judged, JudgedIn
<1>2. RefusedIn(f, i, x, y) = [f EXCEPT ![i] = Refused(f[i], x, y)]
  BY DEF Refused, RefusedIn
<1>3. ClosedIn(f, i, x, y) = [f EXCEPT ![i] = Closed(f[i], x, y)]
  BY DEF Closed, ClosedIn
<1> QED
  BY <1>1, <1>2, <1>3

\* So is a record that is struck.
LEMMA StruckAtOnce ==
    ASSUME NEW f, NEW i \in DOMAIN f, NEW x
    PROVE  StruckIn(f, i, x) = [f EXCEPT ![i] = Struck(f[i], x)]
  BY DEF Struck, StruckIn

\* One submission that changed is seen to have changed.
LEMMA OneSubmissionSeen ==
    ASSUME NEW b, Whole(b), NEW s \in SubmissionIds, NEW r, NEW a,
           a.submissions = [b.submissions EXCEPT ![s] = r]
    PROVE  SubmissionsSeen(a) = [SubmissionsSeen(b) EXCEPT ![s] = SubmissionSeen(r)]
  BY DEF Whole, Shaped, SubmissionsSeen

\* So is a challenge.
LEMMA OneChallengeSeen ==
    ASSUME NEW b, Whole(b), NEW c \in ChallengeIds, NEW r, NEW a,
           a.challenges = [b.challenges EXCEPT ![c] = r]
    PROVE  ChallengesSeen(a) = [ChallengesSeen(b) EXCEPT ![c] = ChallengeSeen(r)]
  BY DEF Whole, Shaped, ChallengesSeen

\* A verdict on a submission that is let through is one that Market lets through.
LEMMA VerdictSeen ==
    ASSUME NEW command, NEW evidence, Received(command), command.kind = "verify_submission",
           Clear(C!VerifyChecks(bounty, command, evidence)),
           Clear(C!CommonChecks(bounty, command, evidence))
    PROVE  LET s == command.submission
               receipt == C!Abbreviated(command.receipt)
           IN  /\ s \in SubmissionIds
               /\ receipt \in C!M!SignedOver(SubmissionIds)
               /\ C!M!CanVerify(s, C!Outcome(command), receipt, command.now)
<1> DEFINE s == command.submission
           receipt == C!Abbreviated(command.receipt)
           pre == C!Cardinality(bounty.processed)
<1>1. s \in SubmissionIds
  BY DEF Received, Tried, Addressed
<1>2. /\ bounty.phase = "open" /\ ~(command.now > C!ChallengeDeadline)
      /\ bounty.submissions[s].status = "pending"
      /\ command.verifier = bounty.submissions[s].verifier
      /\ command.receipt \in C!ToSet(evidence)
      /\ command.verifier \in AcceptedVerifiers
  BY VerifyClear
<1>3. receipt = [pre |-> pre, subject |-> s, outcome |-> C!Outcome(command),
                 key |-> command.verifier]
  <2>1. command.receipt # None /\ command.kind \in C!Verdicts /\ C!Subject(command) = s
    BY DEF Received, Tried, C!Verdicts, C!Subject
  <2> QED
    BY <1>2, <2>1, ReceiptSeen
<1>4. C!Outcome(command) \in {"accepted", "upheld", "rejected"}
  BY DEF C!Outcome
<1>5. pre \in Nat
  BY OneMoreId DEF Received, Sound
<1>6. command.now <= C!M!ChallengeDeadline
  <2>1. command.now \in Nat /\ Deadline \in Nat /\ ChallengeWindow \in Nat
    BY TriedNumbers, MarketAssumption DEF Received, Tried
  <2> QED
    BY <1>2, <2>1 DEF C!M!ChallengeDeadline, C!ChallengeDeadline
<1>7. command.verifier \in Verifiers
  BY <1>2, MarketAssumption
<1> HIDE DEF s, receipt, pre
<1>8. receipt \in C!M!SignedOver(SubmissionIds)
  BY <1>1, <1>3, <1>4, <1>5, <1>7 DEF C!M!SignedOver, pre
<1>9. C!M!CanVerify(s, C!Outcome(command), receipt, command.now)
  <2>1. /\ receipt.pre = pre /\ receipt.subject = s /\ receipt.outcome = C!Outcome(command)
        /\ receipt.key = bounty.submissions[s].verifier
    BY <1>2, <1>3
  <2> QED
    BY <1>1, <1>2, <1>6, <2>1 DEF C!M!CanVerify, C!M!Binds, pre
<1> QED
  BY <1>1, <1>8, <1>9 DEF s, receipt

-----------------------------------------------------------------------------
(* The commands that judge, contest and decide, seen by Market. *)

\* A submission is accepted as Market's VerifyAccepted accepts it.
LEMMA VerifyAcceptedSeen ==
    ASSUME NEW command, NEW evidence, Received(command), command.kind = "verify_submission",
           command.verdict,
           Clear(C!VerifyChecks(bounty, command, evidence)),
           Clear(C!CommonChecks(bounty, command, evidence)),
           CarriedOut(C!VerifySubmission(bounty, command))
    PROVE  /\ C!M!VerifyAccepted(command.submission, C!Abbreviated(command.receipt), command.now)
           /\ Counted(bounty') /\ held' \in Holdings
<1> DEFINE s == command.submission
           receipt == C!Abbreviated(command.receipt)
           next == [bounty EXCEPT !.submissions[s].status = "verified",
                                  !.submissions[s].receipt = command.receipt]
           record == Judged(bounty.submissions[s], "verified", command.receipt)
           seen == Judged(SubmissionSeen(bounty.submissions[s]), "verified", receipt)
           effects == <<>>
           E == {}
           after == held
<1>1. s \in SubmissionIds /\ C!M!CanVerify(s, "accepted", receipt, command.now)
  <2>1. C!Outcome(command) = "accepted"
    BY DEF C!Outcome
  <2> QED
    BY <2>1, VerdictSeen
<1>2. CarriedOut(C!Returned(bounty, command, next, effects, None))
  BY DEF C!VerifySubmission
<1>3. /\ DOMAIN bounty.submissions = SubmissionIds
      /\ {"status", "submitter", "verifier", "at", "bond", "receipt"}
             \subseteq DOMAIN bounty.submissions[s]
      /\ bounty.submissions[s].bond \in Nat
  BY <1>1 DEF Received, Sound, Whole, Shaped, Counted
<1>4. /\ DOMAIN next = Fields
      /\ next.phase = bounty.phase /\ next.escrow = bounty.escrow
      /\ next.submissions = JudgedIn(bounty.submissions, s, "verified", command.receipt)
      /\ next.challenges = bounty.challenges
      /\ next.payable = bounty.payable /\ next.settlement = bounty.settlement
  BY DEF Received, Sound, Whole, Shaped, Fields, JudgedIn
<1>5. C!FoldLeft(C!Executed, held, effects) = after
  BY CustodyOfFew
<1>6. EffectsSeen(C!ToSet(effects)) = E
  BY ListOfNone, EffectsSeenBoth
<1>7. after \in Holdings
  BY DEF Received, Sound
<1> HIDE DEF next, record, seen, s, receipt, effects, E, after
<1>8. /\ C!M!ValidState
      /\ C!Cardinality(bounty'.processed) = C!Cardinality(bounty.processed) + 1
      /\ EffectsSeen(returned') = EffectsSeen(returned) \cup EffectsSeen(C!ToSet(effects))
      /\ bounty'.phase = next.phase /\ bounty'.escrow = next.escrow
      /\ bounty'.submissions = next.submissions
      /\ bounty'.challenges = next.challenges
      /\ bounty'.payable = next.payable
      /\ bounty'.settlement = next.settlement
      /\ held' = C!FoldLeft(C!Executed, held, effects)
  BY <1>2, <1>4, CommitSeen, Zenon
<1>9. next.submissions = [bounty.submissions EXCEPT ![s] = record]
  <2>1. s \in DOMAIN bounty.submissions
    BY <1>1, <1>3
  <2> QED
    BY <1>4, <2>1, AtOnce DEF record
<1>10. SubmissionSeen(record) = seen
  <2> DEFINE r == bounty.submissions[s]
  <2>1. SubmissionSeen(Judged(r, "verified", command.receipt)) =
            Judged(SubmissionSeen(r), "verified", C!Abbreviated(command.receipt))
    <3> HIDE DEF r
    <3> QED
      BY <1>3, SubmissionUpdateSeen DEF r
  <2> QED
    BY <2>1, Zenon DEF record, seen, receipt
<1>11. SubmissionsSeen(bounty') = [SubmissionsSeen(bounty) EXCEPT ![s] = seen]
  <2>1. bounty'.submissions = [bounty.submissions EXCEPT ![s] = record]
    BY <1>8, <1>9, Zenon
  <2>2. SubmissionsSeen(bounty') = [SubmissionsSeen(bounty) EXCEPT ![s] = SubmissionSeen(record)]
    BY <1>1, <2>1, OneSubmissionSeen DEF Received, Sound
  <2> QED
    BY <1>10, <2>2, Zenon
<1>12. SubmissionsSeen(bounty') = JudgedIn(SubmissionsSeen(bounty), s, "verified", receipt)
  <2>1. /\ s \in DOMAIN SubmissionsSeen(bounty)
        /\ SubmissionsSeen(bounty)[s] = SubmissionSeen(bounty.submissions[s])
    BY <1>1 DEF SubmissionsSeen
  <2> QED
    BY <1>11, <2>1, AtOnce DEF seen
<1>13. C!M!VerifyAccepted(s, receipt, command.now)
  <2>1. EffectsSeen(returned') = EffectsSeen(returned) \cup E
    BY <1>6, <1>8
  <2>2. held' = after
    BY <1>5, <1>8
  <2>3. UNCHANGED <<bounty.phase, bounty.escrow, ChallengesSeen(bounty), bounty.payable,
                    bounty.settlement # None, held>>
    BY <1>4, <1>8, <2>2 DEF ChallengesSeen, after
  <2>4. C!M!Commit({})
    BY <1>8, <2>1 DEF C!M!Commit, EffectsSeen, EffectSeen, E
  <2> QED
    BY <1>1, <1>12, <2>3, <2>4
       DEF C!M!VerifyAccepted, JudgedIn, SubmissionsSeen, SubmissionSeen, ChallengesSeen,
           ChallengeSeen
<1>14. Counted(bounty')
  <2>1. record.bond \in Nat
    BY <1>3 DEF record, Judged
  <2> QED
    BY <1>1, <1>3, <1>4, <1>8, <1>9, <2>1 DEF Received, Sound, Counted
<1> QED
  BY <1>5, <1>7, <1>8, <1>13, <1>14 DEF s, receipt

\* A submission is rejected as Market's VerifyRejected rejects it.
LEMMA VerifyRejectedSeen ==
    ASSUME NEW command, NEW evidence, Received(command), command.kind = "verify_submission",
           ~command.verdict,
           Clear(C!VerifyChecks(bounty, command, evidence)),
           Clear(C!CommonChecks(bounty, command, evidence)),
           CarriedOut(C!VerifySubmission(bounty, command))
    PROVE  /\ C!M!VerifyRejected(command.submission, C!Abbreviated(command.receipt), command.now)
           /\ Counted(bounty') /\ held' \in Holdings
<1> DEFINE s == command.submission
           receipt == C!Abbreviated(command.receipt)
           next == [bounty EXCEPT !.submissions[s].status = "rejected",
                                  !.submissions[s].bond = 0,
                                  !.submissions[s].receipt = command.receipt]
           record == Refused(bounty.submissions[s], "rejected", command.receipt)
           seen == Refused(SubmissionSeen(bounty.submissions[s]), "rejected", receipt)
           bond == bounty.submissions[s].bond
           e == C!Effect("refund_submission_bond", bounty.submissions[s].submitter, bond, s)
           effects == <<e>>
           E == {C!M!Effect("refund_submission_bond", s, bond)}
           after == [held EXCEPT !.bond[s] = @ - bond]
<1>1. s \in SubmissionIds /\ C!M!CanVerify(s, "rejected", receipt, command.now)
  <2>1. C!Outcome(command) = "rejected"
    BY DEF C!Outcome
  <2> QED
    BY <2>1, VerdictSeen
<1>2. CarriedOut(C!Returned(bounty, command, next, effects, "VERIFIER_REJECTED"))
  BY DEF C!VerifySubmission
<1>3. /\ DOMAIN bounty.submissions = SubmissionIds
      /\ {"status", "submitter", "verifier", "at", "bond", "receipt"}
             \subseteq DOMAIN bounty.submissions[s]
      /\ bounty.submissions[s].bond \in Nat
  BY <1>1 DEF Received, Sound, Whole, Shaped, Counted
<1>4. /\ DOMAIN next = Fields
      /\ next.phase = bounty.phase /\ next.escrow = bounty.escrow
      /\ next.submissions = RefusedIn(bounty.submissions, s, "rejected", command.receipt)
      /\ next.challenges = bounty.challenges
      /\ next.payable = bounty.payable /\ next.settlement = bounty.settlement
  BY DEF Received, Sound, Whole, Shaped, Fields, RefusedIn
<1>5. C!FoldLeft(C!Executed, held, effects) = after
  <2>1. C!FoldLeft(C!Executed, held, effects) = C!Executed(held, e)
    BY CustodyOfFew
  <2>2. C!Executed(held, e) = after
    BY ExecutedByKind DEF C!Effect
  <2> QED
    BY <2>1, <2>2
<1>6. EffectsSeen(C!ToSet(effects)) = E
  <2>1. EffectSeen(e) = C!M!Effect("refund_submission_bond", s, bond)
    BY EffectIsSeen
  <2> HIDE DEF e
  <2> QED
    BY <2>1, ListOfOne, EffectsSeenBoth
<1>7. after \in Holdings
  BY <1>1, <1>3 DEF Received, Sound, Holdings
<1> HIDE DEF next, record, seen, s, receipt, effects, E, after, e, bond
<1>8. /\ C!M!ValidState
      /\ C!Cardinality(bounty'.processed) = C!Cardinality(bounty.processed) + 1
      /\ EffectsSeen(returned') = EffectsSeen(returned) \cup EffectsSeen(C!ToSet(effects))
      /\ bounty'.phase = next.phase /\ bounty'.escrow = next.escrow
      /\ bounty'.submissions = next.submissions
      /\ bounty'.challenges = next.challenges
      /\ bounty'.payable = next.payable
      /\ bounty'.settlement = next.settlement
      /\ held' = C!FoldLeft(C!Executed, held, effects)
  BY <1>2, <1>4, CommitSeen, Zenon
<1>9. next.submissions = [bounty.submissions EXCEPT ![s] = record]
  <2>1. s \in DOMAIN bounty.submissions
    BY <1>1, <1>3
  <2> QED
    BY <1>4, <2>1, AtOnce DEF record
<1>10. SubmissionSeen(record) = seen
  BY <1>3, SubmissionUpdateSeen, Zenon DEF record, seen, receipt
<1>11. SubmissionsSeen(bounty') = [SubmissionsSeen(bounty) EXCEPT ![s] = seen]
  <2>1. bounty'.submissions = [bounty.submissions EXCEPT ![s] = record]
    BY <1>8, <1>9, Zenon
  <2>2. SubmissionsSeen(bounty') = [SubmissionsSeen(bounty) EXCEPT ![s] = SubmissionSeen(record)]
    BY <1>1, <2>1, OneSubmissionSeen DEF Received, Sound
  <2> QED
    BY <1>10, <2>2, Zenon
<1>12. SubmissionsSeen(bounty') = RefusedIn(SubmissionsSeen(bounty), s, "rejected", receipt)
  <2>1. /\ s \in DOMAIN SubmissionsSeen(bounty)
        /\ SubmissionsSeen(bounty)[s] = SubmissionSeen(bounty.submissions[s])
    BY <1>1 DEF SubmissionsSeen
  <2> QED
    BY <1>11, <2>1, AtOnce DEF seen
<1>13. C!M!VerifyRejected(s, receipt, command.now)
  <2>1. EffectsSeen(returned') = EffectsSeen(returned) \cup E
    BY <1>6, <1>8
  <2>2. held' = after
    BY <1>5, <1>8
  <2> DEFINE amount == SubmissionsSeen(bounty)[s].bond
  <2>3. bond = amount
    BY <1>1 DEF SubmissionsSeen, SubmissionSeen, bond
  <2> HIDE DEF amount
  <2>4. held' = [held EXCEPT !.bond[s] = @ - amount]
    BY <2>2, <2>3 DEF after
  <2>5. EffectsSeen(returned') =
            EffectsSeen(returned) \cup {C!M!Effect("refund_submission_bond", s, amount)}
    BY <2>1, <2>3 DEF E
  <2>6. C!M!Commit({C!M!Effect("refund_submission_bond", s, amount)})
    BY <1>8, <2>5 DEF C!M!Commit, EffectsSeen, EffectSeen
  <2>7. UNCHANGED <<bounty.phase, bounty.escrow, ChallengesSeen(bounty), bounty.payable,
                    bounty.settlement # None>>
    BY <1>4, <1>8 DEF ChallengesSeen
  <2> QED
    BY <1>1, <1>12, <2>4, <2>6, <2>7
       DEF C!M!VerifyRejected, RefusedIn, SubmissionsSeen, SubmissionSeen, ChallengesSeen,
           ChallengeSeen, amount
<1>14. Counted(bounty')
  <2>1. record.bond \in Nat
    BY <1>3 DEF record, Refused
  <2> QED
    BY <1>1, <1>3, <1>4, <1>8, <1>9, <2>1 DEF Received, Sound, Counted
<1> QED
  BY <1>5, <1>7, <1>8, <1>13, <1>14 DEF s, receipt

\* open_challenge takes the step of Market's OpenChallenge.
LEMMA OpenChallengeSeen ==
    ASSUME NEW command, Received(command), command.kind = "open_challenge",
           Clear(C!ChallengeChecks(bounty, command)),
           CarriedOut(C!OpenChallenge(bounty, command))
    PROVE  /\ C!M!OpenChallenge(command.challenge, command.submission, command.deposit,
                                command.now)
           /\ Counted(bounty') /\ held' \in Holdings
<1> DEFINE c == command.challenge
           s == command.submission
           record ==
               [status |-> "open", submission |-> s, challenger |-> command.challenger,
                finding |-> command.finding, at |-> command.now, deposit |-> command.deposit,
                receipt |-> None]
           seen ==
               [status |-> "open", submission |-> s, at |-> command.now,
                deposit |-> command.deposit, receipt |-> None]
           next == [bounty EXCEPT !.challenges[c] = record]
           e == C!Effect("lock_challenge_deposit", command.challenger, command.deposit, c)
           effects == <<e>>
           E == {C!M!Effect("lock_challenge_deposit", c, command.deposit)}
           after == [held EXCEPT !.deposit[c] = @ + command.deposit]
<1>1. /\ c \in ChallengeIds /\ s \in SubmissionIds
      /\ command.deposit \in Nat /\ command.now \in Nat
  BY TriedNumbers DEF Received, Tried, Addressed
<1>2. /\ ChallengeSeen(record) = seen /\ record.deposit = command.deposit
      /\ record.status = "open" /\ record.at = command.now
  BY DEF ChallengeSeen, C!Abbreviated
<1>3. CarriedOut(C!Returned(bounty, command, next, effects, None))
  BY DEF C!OpenChallenge
<1> HIDE DEF record
<1>4. /\ DOMAIN next = Fields
      /\ next.phase = bounty.phase /\ next.escrow = bounty.escrow
      /\ next.submissions = bounty.submissions
      /\ next.challenges = [bounty.challenges EXCEPT ![c] = record]
      /\ next.payable = bounty.payable /\ next.settlement = bounty.settlement
  BY DEF Received, Sound, Whole, Shaped, Fields
<1>5. C!ToSet(effects) = {e} /\ C!FoldLeft(C!Executed, held, effects) = C!Executed(held, e)
  BY ListOfOne, CustodyOfFew
<1>6. C!Executed(held, e) = after
  BY ExecutedByKind DEF C!Effect
<1>7. EffectSeen(e) = C!M!Effect("lock_challenge_deposit", c, command.deposit)
  BY EffectIsSeen
<1>8. after \in Holdings
  BY <1>1 DEF Received, Sound, Holdings
<1>9. C!M!CanChallenge(c, s, command.deposit, command.now)
  <2>1. /\ bounty.phase = "open" /\ ~(command.now > C!ChallengeDeadline)
        /\ c \notin C!Filed(bounty)
        /\ bounty.submissions[s].status = "verified"
        /\ ~\E d \in C!Open(bounty) : bounty.challenges[d].submission = s
        /\ ~(command.deposit < MinChallengeDeposit)
    BY ChallengeClear
  <2>2. /\ command.now \in Nat /\ MinChallengeDeposit \in Nat
        /\ Deadline \in Nat /\ ChallengeWindow \in Nat
    BY TriedNumbers, MarketAssumption DEF Received, Tried
  <2>3. ~C!M!Filed(c)
    BY <1>1, <2>1, SetsSeen
  <2> HIDE DEF s, c
  <2>4. command.now <= C!M!ChallengeDeadline /\ command.deposit >= MinChallengeDeposit
    BY <1>1, <2>1, <2>2 DEF C!M!ChallengeDeadline, C!ChallengeDeadline
  <2>5. \A d \in C!M!OpenChallenges : ChallengesSeen(bounty)[d].submission # s
    <3>1. \A d \in C!Open(bounty) : ChallengesSeen(bounty)[d].submission # s
      BY <2>1 DEF ChallengesSeen, ChallengeSeen, C!Open
    <3> QED
      BY <3>1, SetsSeen
  <2>6. SubmissionsSeen(bounty)[s].status = "verified"
    BY <1>1, <2>1 DEF SubmissionsSeen, SubmissionSeen
  <2> QED
    BY <2>1, <2>3, <2>4, <2>5, <2>6
       DEF C!M!CanChallenge, SubmissionsSeen, SubmissionSeen, ChallengesSeen, ChallengeSeen
<1> HIDE DEF next, e, effects, E, after, seen, s, c
<1>10. EffectsSeen(C!ToSet(effects)) = E
  BY <1>5, <1>7, EffectsSeenBoth DEF E
<1>11. /\ C!M!ValidState
       /\ C!Cardinality(bounty'.processed) = C!Cardinality(bounty.processed) + 1
       /\ EffectsSeen(returned') = EffectsSeen(returned) \cup EffectsSeen(C!ToSet(effects))
       /\ bounty'.phase = next.phase /\ bounty'.escrow = next.escrow
       /\ bounty'.submissions = next.submissions
       /\ bounty'.challenges = next.challenges
       /\ bounty'.payable = next.payable
       /\ bounty'.settlement = next.settlement
       /\ held' = C!FoldLeft(C!Executed, held, effects)
  BY <1>3, <1>4, CommitSeen, Zenon
<1>12. held' = after
  BY <1>5, <1>6, <1>11
<1>13. ChallengesSeen(bounty') = [ChallengesSeen(bounty) EXCEPT ![c] = seen]
  BY <1>1, <1>2, <1>4, <1>11, OneChallengeSeen DEF Received, Sound
<1>14. C!M!OpenChallenge(c, s, command.deposit, command.now)
  BY <1>4, <1>9, <1>10, <1>11, <1>12, <1>13
     DEF C!M!OpenChallenge, C!M!Commit, EffectsSeen, EffectSeen, E, after, seen,
         ChallengesSeen, ChallengeSeen
<1>15. Counted(bounty')
  BY <1>1, <1>2, <1>4, <1>11 DEF Received, Sound, Counted, Whole, Shaped
<1> QED
  BY <1>8, <1>12, <1>14, <1>15 DEF s, c

\* A verdict on a challenge that is let through is one that Market lets through.
LEMMA ResolutionSeen ==
    ASSUME NEW command, NEW evidence, Received(command), command.kind = "resolve_challenge",
           Clear(C!ResolveChecks(bounty, command, evidence)),
           Clear(C!CommonChecks(bounty, command, evidence))
    PROVE  LET c == command.challenge
               receipt == C!Abbreviated(command.receipt)
           IN  /\ c \in ChallengeIds
               /\ bounty.challenges[c].status = "open"
               /\ receipt \in C!M!SignedOver(ChallengeIds)
               /\ C!M!CanResolve(c, C!Outcome(command), receipt, command.now)
<1> DEFINE c == command.challenge
           receipt == C!Abbreviated(command.receipt)
           pre == C!Cardinality(bounty.processed)
<1>1. c \in ChallengeIds
  BY DEF Received, Tried, Addressed
<1>2. /\ bounty.phase = "open"
      /\ bounty.challenges[c].status = "open"
      /\ ~(command.now > C!ResolutionDeadline(bounty.challenges[c]))
      /\ command.receipt \in C!ToSet(evidence)
      /\ command.verifier \in AcceptedVerifiers
  BY ResolveClear
<1>3. receipt = [pre |-> pre, subject |-> c, outcome |-> C!Outcome(command),
                 key |-> command.verifier]
  <2>1. /\ command.receipt # None /\ command.kind \in C!Verdicts
        /\ C!Subject(command) = c
    BY DEF Received, Tried, C!Verdicts, C!Subject
  <2> QED
    BY <1>2, <2>1, ReceiptSeen
<1>4. C!Outcome(command) \in {"accepted", "upheld", "rejected"}
  BY DEF C!Outcome
<1>5. pre \in Nat
  BY OneMoreId DEF Received, Sound
<1>6. command.verifier \in Verifiers
  BY <1>2, MarketAssumption
<1> HIDE DEF c, receipt, pre
<1>7. receipt \in C!M!SignedOver(ChallengeIds)
  BY <1>1, <1>3, <1>4, <1>5, <1>6 DEF C!M!SignedOver, pre
<1>8. C!ResolutionDeadline(bounty.challenges[c]) = C!M!ResolutionDeadline(c)
  BY <1>1 DEF C!ResolutionDeadline, C!M!ResolutionDeadline, C!Larger, C!M!Larger,
              C!ChallengeDeadline, C!M!ChallengeDeadline
<1>9. command.now <= C!M!ResolutionDeadline(c)
  <2>1. command.now \in Nat
    BY TriedNumbers DEF Received, Tried
  <2>2. bounty.challenges[c].at \in Nat
    BY <1>1 DEF Received, Sound, Counted
  <2>3. {Deadline, ChallengeWindow, ResolutionSeconds} \subseteq Nat
    BY MarketAssumption
  <2> DEFINE limit == C!ResolutionDeadline(bounty.challenges[c])
  <2>4. limit \in Nat
    BY <2>2, <2>3 DEF C!ResolutionDeadline, C!Larger, C!ChallengeDeadline
  <2> HIDE DEF limit
  <2>5. command.now <= limit
    BY <1>2, <2>1, <2>4 DEF limit
  <2> QED
    BY <1>8, <2>5, Zenon DEF limit
<1>10. C!M!CanResolve(c, C!Outcome(command), receipt, command.now)
  <2>1. /\ receipt.pre = pre /\ receipt.subject = c /\ receipt.outcome = C!Outcome(command)
        /\ receipt.key \in AcceptedVerifiers
    BY <1>2, <1>3
  <2>2. C!M!Binds(receipt, c, C!Outcome(command), receipt.key)
    BY <2>1 DEF C!M!Binds, pre
  <2>3. ChallengesSeen(bounty)[c].status = "open"
    BY <1>1, <1>2 DEF ChallengesSeen, ChallengeSeen
  <2> QED
    BY <1>2, <1>9, <2>2, <2>3 DEF C!M!CanResolve, ChallengesSeen, ChallengeSeen
<1> QED
  BY <1>1, <1>2, <1>7, <1>10 DEF c, receipt

\* What a decision makes of the bounty.
LEMMA DecidedState ==
    ASSUME NEW b, Whole(b), NEW command, NEW status
    PROVE  LET next == Decided(b, command, status)
           IN  /\ DOMAIN next = Fields
               /\ next.phase = b.phase /\ next.escrow = b.escrow
               /\ next.submissions = b.submissions
               /\ next.challenges =
                      ClosedIn(b.challenges, command.challenge, status, command.receipt)
               /\ next.payable = b.payable /\ next.settlement = b.settlement
  BY DEF Decided, Whole, Shaped, Fields, ClosedIn

\* A decided challenge is seen decided, and its numbers are numbers still.
LEMMA ClosedSeen ==
    ASSUME NEW b, Whole(b), Counted(b), NEW c \in ChallengeIds, NEW status, status # "none",
           NEW receipt, NEW a, a.challenges = ClosedIn(b.challenges, c, status, receipt)
    PROVE  /\ ChallengesSeen(a) =
                  ClosedIn(ChallengesSeen(b), c, status, C!Abbreviated(receipt))
           /\ \A d \in ChallengeIds :
                  /\ a.challenges[d].at \in Nat /\ a.challenges[d].deposit \in Nat
                  /\ a.challenges[d].status = "none" => a.challenges[d].deposit = 0
<1> DEFINE r == b.challenges[c]
           record == Closed(r, status, receipt)
<1>1. /\ DOMAIN b.challenges = ChallengeIds
      /\ {"status", "submission", "challenger", "at", "deposit", "receipt"} \subseteq DOMAIN r
      /\ r.at \in Nat
  BY DEF Whole, Shaped, Counted
<1>2. a.challenges = [b.challenges EXCEPT ![c] = record]
  <2>1. c \in DOMAIN b.challenges
    BY <1>1
  <2> QED
    BY <2>1, AtOnce
<1>3. record.status = status /\ record.at = r.at /\ record.deposit = 0
  BY <1>1 DEF Closed
<1>4. ChallengeSeen(record) = Closed(ChallengeSeen(r), status, C!Abbreviated(receipt))
  BY <1>1, ChallengeUpdateSeen, Zenon
<1> HIDE DEF record
<1>5. ChallengesSeen(a) = [ChallengesSeen(b) EXCEPT ![c] = ChallengeSeen(record)]
  BY <1>2, OneChallengeSeen
<1>6. c \in DOMAIN ChallengesSeen(b) /\ ChallengesSeen(b)[c] = ChallengeSeen(r)
  BY DEF ChallengesSeen
<1> HIDE DEF r
<1>7. ChallengesSeen(a) = ClosedIn(ChallengesSeen(b), c, status, C!Abbreviated(receipt))
  BY <1>4, <1>5, <1>6, AtOnce
<1>8. \A d \in ChallengeIds :
          /\ a.challenges[d].at \in Nat /\ a.challenges[d].deposit \in Nat
          /\ a.challenges[d].status = "none" => a.challenges[d].deposit = 0
  BY <1>1, <1>2, <1>3 DEF Counted
<1> QED
  BY <1>7, <1>8

\* A challenge is rejected as Market's ResolveRejected rejects it.
LEMMA ResolveRejectedSeen ==
    ASSUME NEW command, NEW evidence, Received(command), command.kind = "resolve_challenge",
           ~command.verdict,
           Clear(C!ResolveChecks(bounty, command, evidence)),
           Clear(C!CommonChecks(bounty, command, evidence)),
           CarriedOut(C!ResolveChallenge(bounty, command))
    PROVE  /\ C!M!ResolveRejected(command.challenge, C!Abbreviated(command.receipt), command.now)
           /\ Counted(bounty') /\ held' \in Holdings
<1> DEFINE c == command.challenge
           receipt == C!Abbreviated(command.receipt)
           next == Decided(bounty, command, "rejected")
           deposit == bounty.challenges[c].deposit
           e == C!Effect("slash_challenge_deposit", Treasury, deposit, c)
           effects == <<e>>
           E == {C!M!Effect("slash_challenge_deposit", c, deposit)}
           after == [held EXCEPT !.deposit[c] = @ - deposit]
<1>1. c \in ChallengeIds /\ C!M!CanResolve(c, "rejected", receipt, command.now)
  <2>1. C!Outcome(command) = "rejected"
    BY DEF C!Outcome
  <2> QED
    BY <2>1, ResolutionSeen
<1>2. CarriedOut(C!Returned(bounty, command, next, effects, "CHALLENGE_REJECTED"))
  BY Zenon DEF C!ResolveChallenge, Decided
<1>3. deposit \in Nat
  BY <1>1 DEF Received, Sound, Counted
<1>4. /\ DOMAIN next = Fields
      /\ next.phase = bounty.phase /\ next.escrow = bounty.escrow
      /\ next.submissions = bounty.submissions
      /\ next.challenges = ClosedIn(bounty.challenges, c, "rejected", command.receipt)
      /\ next.payable = bounty.payable /\ next.settlement = bounty.settlement
  BY DecidedState DEF Received, Sound
<1>5. C!FoldLeft(C!Executed, held, effects) = after
  <2>1. C!FoldLeft(C!Executed, held, effects) = C!Executed(held, e)
    BY CustodyOfFew
  <2>2. C!Executed(held, e) = after
    BY ExecutedByKind DEF C!Effect
  <2> QED
    BY <2>1, <2>2
<1>6. EffectsSeen(C!ToSet(effects)) = E
  <2>1. EffectSeen(e) = C!M!Effect("slash_challenge_deposit", c, deposit)
    BY EffectIsSeen
  <2> HIDE DEF e
  <2> QED
    BY <2>1, ListOfOne, EffectsSeenBoth
<1>7. after \in Holdings
  BY <1>1, <1>3 DEF Received, Sound, Holdings
<1> HIDE DEF next, c, receipt, effects, E, after, e, deposit
<1>8. /\ C!M!ValidState
      /\ C!Cardinality(bounty'.processed) = C!Cardinality(bounty.processed) + 1
      /\ EffectsSeen(returned') = EffectsSeen(returned) \cup EffectsSeen(C!ToSet(effects))
      /\ bounty'.phase = next.phase /\ bounty'.escrow = next.escrow
      /\ bounty'.submissions = next.submissions
      /\ bounty'.challenges = next.challenges
      /\ bounty'.payable = next.payable
      /\ bounty'.settlement = next.settlement
      /\ held' = C!FoldLeft(C!Executed, held, effects)
  BY <1>2, <1>4, CommitSeen, Zenon
<1>9. bounty'.challenges = ClosedIn(bounty.challenges, c, "rejected", command.receipt)
  BY <1>4, <1>8, Zenon
<1>10. /\ ChallengesSeen(bounty') = ClosedIn(ChallengesSeen(bounty), c, "rejected", receipt)
       /\ \A d \in ChallengeIds :
              /\ bounty'.challenges[d].at \in Nat /\ bounty'.challenges[d].deposit \in Nat
              /\ bounty'.challenges[d].status = "none" => bounty'.challenges[d].deposit = 0
  <2>1. Whole(bounty) /\ Counted(bounty) /\ "rejected" # "none"
    BY DEF Received, Sound
  <2> QED
    BY <1>1, <1>9, <2>1, ClosedSeen DEF receipt
<1>11. C!M!ResolveRejected(c, receipt, command.now)
  <2>1. EffectsSeen(returned') = EffectsSeen(returned) \cup E
    BY <1>6, <1>8
  <2>2. held' = after
    BY <1>5, <1>8
  <2> DEFINE amount == ChallengesSeen(bounty)[c].deposit
  <2>3. deposit = amount
    BY <1>1 DEF ChallengesSeen, ChallengeSeen, deposit
  <2> HIDE DEF amount
  <2>4. held' = [held EXCEPT !.deposit[c] = @ - amount]
    BY <2>2, <2>3 DEF after
  <2>5. EffectsSeen(returned') =
            EffectsSeen(returned) \cup {C!M!Effect("slash_challenge_deposit", c, amount)}
    BY <2>1, <2>3 DEF E
  <2>6. C!M!Commit({C!M!Effect("slash_challenge_deposit", c, amount)})
    BY <1>8, <2>5 DEF C!M!Commit, EffectsSeen, EffectSeen
  <2>7. UNCHANGED <<bounty.phase, bounty.escrow, SubmissionsSeen(bounty), bounty.payable,
                    bounty.settlement # None>>
    BY <1>4, <1>8 DEF SubmissionsSeen
  <2> QED
    BY <1>1, <1>10, <2>4, <2>6, <2>7
       DEF C!M!ResolveRejected, ClosedIn, ChallengesSeen, ChallengeSeen, SubmissionsSeen,
           SubmissionSeen, amount
<1>12. Counted(bounty')
  BY <1>4, <1>8, <1>10 DEF Received, Sound, Counted
<1> QED
  BY <1>5, <1>7, <1>8, <1>11, <1>12 DEF c, receipt

\* A struck submission is seen struck, and every bond is a number still.
LEMMA StruckSeen ==
    ASSUME NEW b, Whole(b), Counted(b), NEW s \in SubmissionIds, NEW status,
           NEW a, a.submissions = StruckIn(b.submissions, s, status)
    PROVE  /\ SubmissionsSeen(a) = StruckIn(SubmissionsSeen(b), s, status)
           /\ \A t \in SubmissionIds : a.submissions[t].bond \in Nat
<1> DEFINE r == b.submissions[s]
           record == Struck(r, status)
<1>1. /\ DOMAIN b.submissions = SubmissionIds
      /\ {"status", "submitter", "verifier", "at", "bond", "receipt"} \subseteq DOMAIN r
  BY DEF Whole, Shaped
<1>2. a.submissions = [b.submissions EXCEPT ![s] = record]
  <2>1. s \in DOMAIN b.submissions
    BY <1>1
  <2> QED
    BY <2>1, StruckAtOnce
<1>3. record.bond = 0
  BY <1>1 DEF Struck
<1>4. SubmissionSeen(record) = Struck(SubmissionSeen(r), status)
  BY <1>1, SubmissionUpdateSeen, Zenon
<1> HIDE DEF record
<1>5. SubmissionsSeen(a) = [SubmissionsSeen(b) EXCEPT ![s] = SubmissionSeen(record)]
  BY <1>2, OneSubmissionSeen
<1>6. s \in DOMAIN SubmissionsSeen(b) /\ SubmissionsSeen(b)[s] = SubmissionSeen(r)
  BY DEF SubmissionsSeen
<1> HIDE DEF r
<1>7. SubmissionsSeen(a) = StruckIn(SubmissionsSeen(b), s, status)
  BY <1>4, <1>5, <1>6, StruckAtOnce
<1>8. \A t \in SubmissionIds : a.submissions[t].bond \in Nat
  BY <1>1, <1>2, <1>3 DEF Counted
<1> QED
  BY <1>7, <1>8

\* A challenge is upheld as Market's ResolveUpheld upholds it.
LEMMA ResolveUpheldSeen ==
    ASSUME NEW command, NEW evidence, Received(command), command.kind = "resolve_challenge",
           command.verdict,
           Clear(C!ResolveChecks(bounty, command, evidence)),
           Clear(C!CommonChecks(bounty, command, evidence)),
           CarriedOut(C!ResolveChallenge(bounty, command))
    PROVE  /\ C!M!ResolveUpheld(command.challenge, C!Abbreviated(command.receipt), command.now)
           /\ Counted(bounty') /\ held' \in Holdings
<1> DEFINE c == command.challenge
           receipt == C!Abbreviated(command.receipt)
           s == bounty.challenges[c].submission
           decided == Decided(bounty, command, "upheld")
           next == [decided EXCEPT !.submissions[s].status = "rejected",
                                   !.submissions[s].bond = 0]
           deposit == bounty.challenges[c].deposit
           bond == bounty.submissions[s].bond
           e == C!Effect("refund_challenge_deposit", bounty.challenges[c].challenger, deposit, c)
           f == C!Effect("slash_submission_bond", Treasury, bond, s)
           effects == <<e, f>>
           E == {C!M!Effect("refund_challenge_deposit", c, deposit),
                 C!M!Effect("slash_submission_bond", s, bond)}
           after == [held EXCEPT !.deposit[c] = @ - deposit, !.bond[s] = @ - bond]
<1>1. /\ c \in ChallengeIds /\ C!M!CanResolve(c, "upheld", receipt, command.now)
      /\ s \in SubmissionIds
  <2>1. C!Outcome(command) = "upheld"
    BY DEF C!Outcome
  <2>2. c \in ChallengeIds /\ bounty.challenges[c].status = "open"
    BY ResolutionSeen
  <2>3. s \in SubmissionIds
    BY <2>2 DEF Received, Sound, Whole, ChallengedRuled, C!Filed
  <2> QED
    BY <2>1, <2>3, ResolutionSeen
<1>2. CarriedOut(C!Returned(bounty, command, next, effects, None))
  BY Zenon DEF C!ResolveChallenge, Decided
<1>3. deposit \in Nat /\ bond \in Nat
  BY <1>1 DEF Received, Sound, Counted
<1>4. /\ DOMAIN decided = Fields
      /\ decided.phase = bounty.phase /\ decided.escrow = bounty.escrow
      /\ decided.submissions = bounty.submissions
      /\ decided.challenges = ClosedIn(bounty.challenges, c, "upheld", command.receipt)
      /\ decided.payable = bounty.payable /\ decided.settlement = bounty.settlement
  BY DecidedState DEF Received, Sound
<1> HIDE DEF decided
<1>5. /\ DOMAIN next = Fields
      /\ next.phase = bounty.phase /\ next.escrow = bounty.escrow
      /\ next.submissions = StruckIn(bounty.submissions, s, "rejected")
      /\ next.challenges = decided.challenges
      /\ next.payable = bounty.payable /\ next.settlement = bounty.settlement
  BY <1>4 DEF Fields, StruckIn
<1>6. C!FoldLeft(C!Executed, held, effects) = after
  <2> DEFINE middle == [held EXCEPT !.deposit[c] = @ - deposit]
  <2>1. C!FoldLeft(C!Executed, held, effects) = C!Executed(C!Executed(held, e), f)
    <3> HIDE DEF e, f
    <3>1. DOMAIN effects = 1..2 /\ effects[1] = e /\ effects[2] = f
      OBVIOUS
    <3> HIDE DEF effects
    <3>2. C!FoldLeft(C!Executed, held, effects) =
              C!Executed(C!Executed(held, effects[1]), effects[2])
      BY <3>1, CustodyOfTwo
    <3> QED
      BY <3>1, <3>2, Zenon
  <2>2. C!Executed(held, e) = middle
    BY ExecutedByKind DEF C!Effect
  <2>3. C!Executed(middle, f) = [middle EXCEPT !.bond[s] = @ - bond]
    <3> HIDE DEF middle
    <3> QED
      BY ExecutedByKind DEF C!Effect
  <2>4. [middle EXCEPT !.bond[s] = @ - bond] = after
    <3>1. held \in Holdings
      BY DEF Received, Sound
    <3> HIDE DEF c, s, deposit, bond, e, f, effects, E
    <3> QED
      BY <3>1 DEF Holdings
  <2> QED
    BY <2>1, <2>2, <2>3, <2>4, Zenon
<1>7. EffectsSeen(C!ToSet(effects)) = E
  <2>1. /\ EffectSeen(e) = C!M!Effect("refund_challenge_deposit", c, deposit)
        /\ EffectSeen(f) = C!M!Effect("slash_submission_bond", s, bond)
    BY EffectIsSeen
  <2> HIDE DEF e, f
  <2>2. C!ToSet(effects) = {e, f}
    BY ListOfTwo
  <2>3. EffectsSeen({e, f}) = {EffectSeen(e), EffectSeen(f)}
    BY EffectsSeenBoth
  <2> QED
    BY <2>1, <2>2, <2>3, Zenon DEF E
<1>8. after \in Holdings
  <2> DEFINE middle == [held EXCEPT !.deposit[c] = @ - deposit]
  <2> HIDE DEF c, s, deposit, bond
  <2>1. middle \in Holdings
    BY <1>1, <1>3 DEF Received, Sound, Holdings
  <2>2. after = [middle EXCEPT !.bond[s] = @ - bond]
    BY DEF Received, Sound, Holdings
  <2> HIDE DEF middle, after
  <2> QED
    BY <1>1, <1>3, <2>1, <2>2 DEF Holdings
<1> HIDE DEF next, c, s, receipt, effects, E, after, e, f, deposit, bond
<1>9. /\ C!M!ValidState
      /\ C!Cardinality(bounty'.processed) = C!Cardinality(bounty.processed) + 1
      /\ EffectsSeen(returned') = EffectsSeen(returned) \cup EffectsSeen(C!ToSet(effects))
      /\ bounty'.phase = next.phase /\ bounty'.escrow = next.escrow
      /\ bounty'.submissions = next.submissions
      /\ bounty'.challenges = next.challenges
      /\ bounty'.payable = next.payable
      /\ bounty'.settlement = next.settlement
      /\ held' = C!FoldLeft(C!Executed, held, effects)
  BY <1>2, <1>5, CommitSeen, Zenon
<1>10. /\ bounty'.challenges = ClosedIn(bounty.challenges, c, "upheld", command.receipt)
       /\ bounty'.submissions = StruckIn(bounty.submissions, s, "rejected")
  BY <1>4, <1>5, <1>9, Zenon
<1>11. /\ ChallengesSeen(bounty') = ClosedIn(ChallengesSeen(bounty), c, "upheld", receipt)
       /\ \A d \in ChallengeIds :
              /\ bounty'.challenges[d].at \in Nat /\ bounty'.challenges[d].deposit \in Nat
              /\ bounty'.challenges[d].status = "none" => bounty'.challenges[d].deposit = 0
  <2>1. Whole(bounty) /\ Counted(bounty) /\ "upheld" # "none"
    BY DEF Received, Sound
  <2> QED
    BY <1>1, <1>10, <2>1, ClosedSeen DEF receipt
<1>12. /\ SubmissionsSeen(bounty') = StruckIn(SubmissionsSeen(bounty), s, "rejected")
       /\ \A t \in SubmissionIds : bounty'.submissions[t].bond \in Nat
  <2>1. Whole(bounty) /\ Counted(bounty)
    BY DEF Received, Sound
  <2> QED
    BY <1>1, <1>10, <2>1, StruckSeen
<1>13. C!M!ResolveUpheld(c, receipt, command.now)
  <2> DEFINE subject == ChallengesSeen(bounty)[c].submission
             owed == ChallengesSeen(bounty)[c].deposit
             lost == SubmissionsSeen(bounty)[subject].bond
  <2>1. EffectsSeen(returned') = EffectsSeen(returned) \cup E
    BY <1>7, <1>9
  <2>2. held' = after
    BY <1>6, <1>9
  <2>3. s = subject /\ deposit = owed
    BY <1>1 DEF ChallengesSeen, ChallengeSeen, deposit, s
  <2>4. bond = lost
    <3> HIDE DEF subject
    <3> QED
      BY <1>1, <2>3 DEF SubmissionsSeen, SubmissionSeen, bond
  <2> HIDE DEF subject, owed, lost
  <2>5. held' = [held EXCEPT !.deposit[c] = @ - owed, !.bond[subject] = @ - lost]
    BY <2>2, <2>3, <2>4 DEF after
  <2>6. EffectsSeen(returned') =
            EffectsSeen(returned) \cup {C!M!Effect("refund_challenge_deposit", c, owed),
                                        C!M!Effect("slash_submission_bond", subject, lost)}
    BY <2>1, <2>3, <2>4 DEF E
  <2>7. SubmissionsSeen(bounty') = StruckIn(SubmissionsSeen(bounty), subject, "rejected")
    BY <1>12, <2>3
  <2> QED
    BY <1>1, <1>5, <1>9, <1>11, <2>5, <2>6, <2>7
       DEF C!M!ResolveUpheld, C!M!Commit, ClosedIn, StruckIn, EffectsSeen, EffectSeen,
           ChallengesSeen, ChallengeSeen, SubmissionsSeen, SubmissionSeen, subject, owed, lost
<1>14. Counted(bounty')
  BY <1>5, <1>9, <1>11, <1>12 DEF Received, Sound, Counted
<1> QED
  BY <1>6, <1>8, <1>9, <1>13, <1>14 DEF c, receipt

-----------------------------------------------------------------------------
(* Lists of refunds and of slashed deposits: what they are to Market, and to the custody. *)

\* The effects on some lots, as Market lists them.
EffectsOn(T, kind, amount) == {C!M!Effect(kind, l, amount[l]) : l \in T}

\* One effect for each of some lots.
OnEach(f, T, kind, amount) ==
    /\ DOMAIN f = T
    /\ \A l \in T : /\ f[l].kind = kind /\ f[l].subject = l
                    /\ f[l].amount = amount[l] /\ amount[l] \in Int

AllOf(f, T) == {f[l] : l \in T}

\* Effects of one kind, one for each of some lots, are listed in an order that takes from each once.
LEMMA EffectsListed ==
    ASSUME NEW Lot, IsFiniteSet(Lot), NEW T, T \subseteq Lot, NEW kind, NEW amount, NEW f,
           OnEach(f, T, kind, amount), NEW S, S = AllOf(f, T)
    PROVE  LET list == C!SetToSeq(S)
           IN  /\ IsList(list) /\ C!ToSet(list) = S
               /\ \E n \in Nat : Takes(list, n, kind, Lot, amount) /\ TakenFrom(list, n) = T
               /\ EffectsSeen(S) = EffectsOn(T, kind, amount)
<1> DEFINE list == C!SetToSeq(S)
<1>0. /\ S = {f[l] : l \in T} /\ DOMAIN f = T
      /\ \A l \in T : /\ f[l].kind = kind /\ f[l].subject = l
                      /\ f[l].amount = amount[l] /\ amount[l] \in Int
  BY DEF OnEach, AllOf
<1>1. IsFiniteSet(S)
  <2>1. IsFiniteSet(T)
    BY FS_Subset
  <2> QED
    BY <1>0, <2>1, ImageFinite
<1>2. /\ IsList(list) /\ C!ToSet(list) = S
      /\ \A i, j \in DOMAIN list : list[i] = list[j] => i = j
  BY <1>1, SetListed
<1> HIDE DEF list
<1>3. PICK n \in Nat : DOMAIN list = 1..n
  <2>1. PICK Q : list \in Seq(Q)
    BY <1>2 DEF IsList
  <2> QED
    BY <2>1
<1>4. \A i \in 1..n : list[i] \in S
  BY <1>2, <1>3 DEF C!ToSet
<1>5. \A i \in 1..n : list[i].subject \in T /\ list[i] = f[list[i].subject]
  BY <1>0, <1>4
<1>6. Takes(list, n, kind, Lot, amount)
  <2>1. \A i, j \in 1..n : list[i].subject = list[j].subject => i = j
    BY <1>2, <1>3, <1>5
  <2> QED
    BY <1>0, <1>3, <1>5, <2>1 DEF Takes
<1>7. TakenFrom(list, n) = T
  <2>1. TakenFrom(list, n) \subseteq T
    BY <1>5 DEF TakenFrom
  <2>2. ASSUME NEW l \in T PROVE l \in TakenFrom(list, n)
    <3>1. f[l] \in S /\ f[l].subject = l
      BY <1>0
    <3>2. PICK i \in 1..n : list[i] = f[l]
      BY <1>2, <1>3, <3>1 DEF C!ToSet
    <3> QED
      BY <3>1, <3>2 DEF TakenFrom
  <2> QED
    BY <2>1, <2>2
<1>8. EffectsSeen(S) = EffectsOn(T, kind, amount)
  <2>1. \A l \in T : EffectSeen(f[l]) = C!M!Effect(kind, l, amount[l])
    BY <1>0 DEF EffectSeen, C!M!Effect
  <2>2. EffectsSeen(S) = {EffectSeen(f[l]) : l \in T}
    BY <1>0 DEF EffectsSeen
  <2> QED
    BY <2>1, <2>2 DEF EffectsOn
<1> QED
  BY <1>2, <1>6, <1>7, <1>8 DEF list

\* The bonds of a bounty, by submission, and the deposits.
Bonds(b) == [s \in SubmissionIds |-> b.submissions[s].bond]
Deposits(b) == [c \in ChallengeIds |-> b.challenges[c].deposit]

\* The submissions with a bond to give back.
Owed(b) == {s \in SubmissionIds : b.submissions[s].bond > 0}

\* The bonds that are given back, as effects and as they leave the custody.
LEMMA BondRefundsSeen ==
    ASSUME NEW b, Counted(b)
    PROVE  /\ IsList(C!BondRefunds(b))
           /\ EffectsSeen(C!ToSet(C!BondRefunds(b))) =
                  EffectsOn(Owed(b), "refund_submission_bond", Bonds(b))
           /\ \A h \in Holdings :
                  C!FoldLeft(C!Executed, h, C!BondRefunds(b)) =
                      [h EXCEPT !.bond = Left(h.bond, SubmissionIds, Bonds(b), Owed(b))]
<1> DEFINE Refund(s) == C!Effect("refund_submission_bond", b.submissions[s].submitter,
                                 b.submissions[s].bond, s)
           f == [s \in Owed(b) |-> Refund(s)]
           S == AllOf(f, Owed(b))
           list == C!SetToSeq(S)
<1>1. OnEach(f, Owed(b), "refund_submission_bond", Bonds(b))
  BY DEF Owed, Counted, Bonds, C!Effect, OnEach
<1>2. C!BondRefunds(b) = list
  <2>1. {f[s] : s \in Owed(b)} = {Refund(s) : s \in Owed(b)}
    BY Zenon
  <2>2. C!BondRefunds(b) = C!SetToSeq({Refund(s) : s \in Owed(b)})
    BY Zenon DEF C!BondRefunds, Owed
  <2> QED
    BY <2>1, <2>2, Zenon DEF AllOf
<1>3. /\ IsFiniteSet(SubmissionIds) /\ Owed(b) \subseteq SubmissionIds
      /\ S = AllOf(f, Owed(b))
  BY BountiesAssumption DEF C!CallsParameters, C!IsFiniteSet, IsFiniteSet, Owed
<1> HIDE DEF f, S
<1>4. /\ IsList(list) /\ C!ToSet(list) = S
      /\ \E n \in Nat : /\ Takes(list, n, "refund_submission_bond", SubmissionIds, Bonds(b))
                        /\ TakenFrom(list, n) = Owed(b)
      /\ EffectsSeen(S) = EffectsOn(Owed(b), "refund_submission_bond", Bonds(b))
  BY <1>1, <1>3, EffectsListed
<1> HIDE DEF list
<1>5. ASSUME NEW h \in Holdings
      PROVE  C!FoldLeft(C!Executed, h, list) =
                 [h EXCEPT !.bond = Left(h.bond, SubmissionIds, Bonds(b), Owed(b))]
  <2>1. PICK n \in Nat : /\ Takes(list, n, "refund_submission_bond", SubmissionIds, Bonds(b))
                         /\ TakenFrom(list, n) = Owed(b)
    BY <1>4
  <2>2. C!FoldLeft(C!Executed, h, list) =
            [h EXCEPT !.bond = Left(h.bond, SubmissionIds, Bonds(b), TakenFrom(list, n))]
    BY <2>1, BondsExecuted
  <2> QED
    BY <2>1, <2>2
<1> QED
  BY <1>2, <1>4, <1>5 DEF list

\* The slashed deposits of the challenges that nobody adjudicated.
Timeouts(b) ==
    C!SetToSeq({C!Effect("slash_challenge_deposit", Treasury, b.challenges[c].deposit, c) :
                    c \in C!Open(b)})

\* They are seen as Market's, and leave the custody so.
LEMMA TimeoutsSeen ==
    ASSUME NEW b, Counted(b)
    PROVE  /\ IsList(Timeouts(b))
           /\ EffectsSeen(C!ToSet(Timeouts(b))) =
                  EffectsOn(C!Open(b), "slash_challenge_deposit", Deposits(b))
           /\ \A h \in Holdings :
                  C!FoldLeft(C!Executed, h, Timeouts(b)) =
                      [h EXCEPT !.deposit = Left(h.deposit, ChallengeIds, Deposits(b), C!Open(b))]
<1> DEFINE Slash(c) == C!Effect("slash_challenge_deposit", Treasury, b.challenges[c].deposit, c)
           f == [c \in C!Open(b) |-> Slash(c)]
           S == AllOf(f, C!Open(b))
           list == C!SetToSeq(S)
<1>1. OnEach(f, C!Open(b), "slash_challenge_deposit", Deposits(b))
  BY DEF C!Open, Counted, Deposits, C!Effect, OnEach
<1>2. Timeouts(b) = list
  <2>1. {f[c] : c \in C!Open(b)} = {Slash(c) : c \in C!Open(b)}
    BY Zenon
  <2>2. Timeouts(b) = C!SetToSeq({Slash(c) : c \in C!Open(b)})
    BY Zenon DEF Timeouts
  <2> QED
    BY <2>1, <2>2, Zenon DEF AllOf
<1>3. /\ IsFiniteSet(ChallengeIds) /\ C!Open(b) \subseteq ChallengeIds
      /\ S = AllOf(f, C!Open(b))
  BY BountiesAssumption DEF C!CallsParameters, C!IsFiniteSet, IsFiniteSet, C!Open
<1> HIDE DEF f, S
<1>4. /\ IsList(list) /\ C!ToSet(list) = S
      /\ \E n \in Nat : /\ Takes(list, n, "slash_challenge_deposit", ChallengeIds, Deposits(b))
                        /\ TakenFrom(list, n) = C!Open(b)
      /\ EffectsSeen(S) =
             EffectsOn(C!Open(b), "slash_challenge_deposit", Deposits(b))
  BY <1>1, <1>3, EffectsListed
<1> HIDE DEF list
<1>5. ASSUME NEW h \in Holdings
      PROVE  C!FoldLeft(C!Executed, h, list) =
                 [h EXCEPT !.deposit = Left(h.deposit, ChallengeIds, Deposits(b), C!Open(b))]
  <2>1. PICK n \in Nat : /\ Takes(list, n, "slash_challenge_deposit", ChallengeIds, Deposits(b))
                         /\ TakenFrom(list, n) = C!Open(b)
    BY <1>4
  <2>2. C!FoldLeft(C!Executed, h, list) =
            [h EXCEPT !.deposit = Left(h.deposit, ChallengeIds, Deposits(b), TakenFrom(list, n))]
    BY <2>1, DepositsExecuted
  <2> QED
    BY <2>1, <2>2
<1> QED
  BY <1>2, <1>4, <1>5 DEF list

\* Bonds that are given back are seen given back.
LEMMA BondsReturnedSeen ==
    ASSUME NEW a, Whole(bounty), a.submissions = C!BondsReturned(bounty)
    PROVE  SubmissionsSeen(a) = C!M!BondsReturned
<1>1. \A s \in SubmissionIds :
          SubmissionSeen(a.submissions[s]) = Freed(SubmissionSeen(bounty.submissions[s]))
  <2> TAKE s \in SubmissionIds
  <2>1. {"status", "submitter", "verifier", "at", "bond", "receipt"}
            \subseteq DOMAIN bounty.submissions[s]
    BY DEF Whole, Shaped
  <2>2. SubmissionSeen(Freed(bounty.submissions[s])) = Freed(SubmissionSeen(bounty.submissions[s]))
    BY <2>1, SubmissionUpdateSeen, Zenon
  <2>3. a.submissions[s] = Freed(bounty.submissions[s])
    BY DEF C!BondsReturned, Freed
  <2> QED
    BY <2>2, <2>3, Zenon
<1>2. SubmissionsSeen(a) = [s \in SubmissionIds |-> Freed(SubmissionSeen(bounty.submissions[s]))]
  BY <1>1 DEF SubmissionsSeen
<1>3. \A s \in SubmissionIds :
          SubmissionsSeen(bounty)[s] = SubmissionSeen(bounty.submissions[s])
  BY DEF SubmissionsSeen
<1> DEFINE seen == SubmissionsSeen(bounty)
<1>4. C!M!BondsReturned = [s \in SubmissionIds |-> [seen[s] EXCEPT !.bond = 0]]
  BY Zenon DEF C!M!BondsReturned, SubmissionsSeen, SubmissionSeen
<1> HIDE DEF seen
<1>5. [s \in SubmissionIds |-> [seen[s] EXCEPT !.bond = 0]] =
          [s \in SubmissionIds |-> Freed(SubmissionSeen(bounty.submissions[s]))]
  BY <1>3 DEF Freed, seen
<1> QED
  BY <1>2, <1>4, <1>5, Zenon

\* Challenges that time out.
TimedOutOf(b) ==
    [c \in ChallengeIds |->
        IF c \in C!Open(b) THEN [b.challenges[c] EXCEPT !.status = "rejected", !.deposit = 0]
        ELSE b.challenges[c]]

\* They are seen timed out.
LEMMA TimedOutSeen ==
    ASSUME NEW a, Whole(bounty), a.challenges = TimedOutOf(bounty)
    PROVE  ChallengesSeen(a) = C!M!TimedOut
<1> DEFINE seen == ChallengesSeen(bounty)
<1>1. \A c \in ChallengeIds : seen[c] = ChallengeSeen(bounty.challenges[c])
  BY DEF ChallengesSeen
<1>2. C!M!TimedOut =
          [c \in ChallengeIds |->
              IF c \in C!M!OpenChallenges
              THEN [seen[c] EXCEPT !.status = "rejected", !.deposit = 0] ELSE seen[c]]
  BY Zenon DEF C!M!TimedOut, ChallengesSeen, ChallengeSeen
<1> HIDE DEF seen
<1>3. \A c \in C!Open(bounty) :
          ChallengeSeen(a.challenges[c]) = Lapsed(seen[c], "rejected")
  <2> TAKE c \in C!Open(bounty)
  <2>1. /\ c \in ChallengeIds
        /\ {"status", "submission", "challenger", "at", "deposit", "receipt"}
               \subseteq DOMAIN bounty.challenges[c]
    BY DEF Whole, Shaped, C!Open
  <2>2. ChallengeSeen(Lapsed(bounty.challenges[c], "rejected")) =
            Lapsed(ChallengeSeen(bounty.challenges[c]), "rejected")
    BY <2>1, ChallengeUpdateSeen, Zenon
  <2>3. a.challenges[c] = Lapsed(bounty.challenges[c], "rejected")
    BY <2>1 DEF TimedOutOf, Lapsed
  <2> QED
    BY <1>1, <2>1, <2>2, <2>3, Zenon
<1>4. \A c \in ChallengeIds \ C!Open(bounty) : ChallengeSeen(a.challenges[c]) = seen[c]
  <2>1. \A c \in ChallengeIds \ C!Open(bounty) : a.challenges[c] = bounty.challenges[c]
    BY DEF TimedOutOf
  <2> QED
    BY <1>1, <2>1
<1>5. \A c \in ChallengeIds :
          ChallengeSeen(a.challenges[c]) =
              IF c \in C!Open(bounty)
              THEN [seen[c] EXCEPT !.status = "rejected", !.deposit = 0] ELSE seen[c]
  <2> TAKE c \in ChallengeIds
  <2>1. Lapsed(seen[c], "rejected") = [seen[c] EXCEPT !.status = "rejected", !.deposit = 0]
    BY DEF Lapsed
  <2> QED
    BY <1>3, <1>4, <2>1, Zenon
<1>6. C!M!OpenChallenges = C!Open(bounty)
  BY SetsSeen
<1>7. ChallengesSeen(a) = [c \in ChallengeIds |-> ChallengeSeen(a.challenges[c])]
  BY DEF ChallengesSeen
<1> QED
  BY <1>2, <1>5, <1>6, <1>7, Zenon

\* What leaves the custody with them is what Market takes out of it.
LEMMA LeftSeen ==
    ASSUME Whole(bounty), Counted(bounty), held \in Holdings
    PROVE  /\ C!M!BondsAfterRefund = Left(held.bond, SubmissionIds, Bonds(bounty), Owed(bounty))
           /\ C!M!DepositsAfterTimeout =
                  Left(held.deposit, ChallengeIds, Deposits(bounty), C!Open(bounty))
<1>1. C!M!BondsAfterRefund = Left(held.bond, SubmissionIds, Bonds(bounty), Owed(bounty))
  <2>1. \A s \in SubmissionIds : held.bond[s] \in Int
    BY DEF Holdings
  <2> QED
    BY <2>1 DEF C!M!BondsAfterRefund, Left, Bonds, Owed
<1>2. C!M!DepositsAfterTimeout =
          Left(held.deposit, ChallengeIds, Deposits(bounty), C!Open(bounty))
  <2>1. \A c \in ChallengeIds : held.deposit[c] \in Int
    BY DEF Holdings
  <2>2. C!M!OpenChallenges = C!Open(bounty)
    BY SetsSeen
  <2> QED
    BY <2>1, <2>2 DEF C!M!DepositsAfterTimeout, Left, Deposits
<1> QED
  BY <1>1, <1>2

\* And the effects are Market's.
LEMMA RefundsSeen ==
    /\ C!M!BondRefunds = EffectsOn(Owed(bounty), "refund_submission_bond", Bonds(bounty))
    /\ C!M!TimeoutEffects =
           EffectsOn(C!Open(bounty), "slash_challenge_deposit", Deposits(bounty))
<1>1. C!M!BondRefunds = EffectsOn(Owed(bounty), "refund_submission_bond", Bonds(bounty))
  BY DEF C!M!BondRefunds, EffectsOn, Owed, Bonds
<1>2. C!M!TimeoutEffects =
          EffectsOn(C!Open(bounty), "slash_challenge_deposit", Deposits(bounty))
  <2>1. C!M!OpenChallenges = C!Open(bounty) /\ C!Open(bounty) \subseteq ChallengeIds
    BY SetsSeen DEF C!Open
  <2> QED
    BY <2>1 DEF C!M!TimeoutEffects, EffectsOn, Deposits
<1> QED
  BY <1>1, <1>2

\* A bounty that may be advanced may be in Market.
LEMMA CanAdvanceSeen ==
    ASSUME NEW command, Received(command), command.kind = "advance_bounty",
           Clear(C!AdvanceChecks(bounty, command))
    PROVE  C!M!CanAdvance(command.now)
<1>1. /\ bounty.phase = "open" /\ ~(command.now <= C!ChallengeDeadline)
      /\ \A c \in C!Open(bounty) :
             ~(command.now <= C!ResolutionDeadline(bounty.challenges[c]))
  BY AdvanceClear
<1>2. /\ command.now \in Nat
      /\ Deadline \in Nat /\ ChallengeWindow \in Nat /\ ResolutionSeconds \in Nat
  BY TriedNumbers, MarketAssumption DEF Received, Tried
<1>3. command.now > C!M!ChallengeDeadline
  BY <1>1, <1>2 DEF C!M!ChallengeDeadline, C!ChallengeDeadline
<1>4. ASSUME NEW c \in C!Open(bounty) PROVE command.now > C!M!ResolutionDeadline(c)
  <2>1. c \in ChallengeIds /\ bounty.challenges[c].at \in Nat
    BY DEF Received, Sound, Counted, C!Open
  <2>2. C!ResolutionDeadline(bounty.challenges[c]) = C!M!ResolutionDeadline(c)
    BY <2>1 DEF C!ResolutionDeadline, C!M!ResolutionDeadline, C!Larger, C!M!Larger,
                C!ChallengeDeadline, C!M!ChallengeDeadline
  <2> DEFINE limit == C!ResolutionDeadline(bounty.challenges[c])
  <2>3. limit \in Nat
    BY <1>2, <2>1 DEF C!ResolutionDeadline, C!Larger, C!ChallengeDeadline
  <2> HIDE DEF limit
  <2>4. command.now > limit
    BY <1>1, <1>2, <2>3 DEF limit
  <2> QED
    BY <2>2, <2>4, Zenon DEF limit
<1>5. \A c \in C!M!OpenChallenges : command.now > C!M!ResolutionDeadline(c)
  BY <1>4, SetsSeen
<1> QED
  BY <1>1, <1>3, <1>5 DEF C!M!CanAdvance

-----------------------------------------------------------------------------
(* advance_bounty, seen by Market. *)

\* What the handler makes of the bounty, when there is someone to pay and when there is not.
Payable(b) ==
    [[b EXCEPT !.challenges = TimedOutOf(b)] EXCEPT !.phase = "payable", !.payable = C!Verified(b)]

Expired(b) ==
    [[b EXCEPT !.challenges = TimedOutOf(b)] EXCEPT !.phase = "expired", !.escrow = 0,
                                                    !.submissions = C!BondsReturned(b)]

\* The effects of expiring.
Ending(b) ==
    Timeouts(b) \o <<C!Effect("refund_escrow", Sponsor, b.escrow, C!Bounty)>> \o C!BondRefunds(b)

\* advance_bounty does the one or the other.
LEMMA AdvanceDecides ==
    ASSUME NEW b, NEW command
    PROVE  C!AdvanceBounty(b, command) =
               IF C!Verified(b) # {} THEN C!Returned(b, command, Payable(b), Timeouts(b), None)
               ELSE C!Returned(b, command, Expired(b), Ending(b), "NO_PAYABLE_SUBMISSION")
  BY Zenon DEF C!AdvanceBounty, Payable, Expired, Ending, Timeouts, TimedOutOf

\* Neither changes what it does not name, and numbers stay numbers.
LEMMA AdvancedState ==
    ASSUME NEW b, Whole(b), Counted(b)
    PROVE  /\ DOMAIN Payable(b) = Fields
           /\ Payable(b).phase = "payable" /\ Payable(b).escrow = b.escrow
           /\ Payable(b).submissions = b.submissions
           /\ Payable(b).challenges = TimedOutOf(b)
           /\ Payable(b).payable = C!Verified(b) /\ Payable(b).settlement = b.settlement
           /\ DOMAIN Expired(b) = Fields
           /\ Expired(b).phase = "expired" /\ Expired(b).escrow = 0
           /\ Expired(b).submissions = C!BondsReturned(b)
           /\ Expired(b).challenges = TimedOutOf(b)
           /\ Expired(b).payable = b.payable /\ Expired(b).settlement = b.settlement
           /\ \A s \in SubmissionIds : C!BondsReturned(b)[s].bond = 0
           /\ \A c \in ChallengeIds :
                  /\ TimedOutOf(b)[c].at \in Nat /\ TimedOutOf(b)[c].deposit \in Nat
                  /\ TimedOutOf(b)[c].status = "none" => TimedOutOf(b)[c].deposit = 0
<1> DEFINE timed == [b EXCEPT !.challenges = TimedOutOf(b)]
<1>1. /\ DOMAIN timed = Fields
      /\ timed.phase = b.phase /\ timed.escrow = b.escrow /\ timed.submissions = b.submissions
      /\ timed.challenges = TimedOutOf(b)
      /\ timed.payable = b.payable /\ timed.settlement = b.settlement
  BY DEF Whole, Shaped, Fields
<1> HIDE DEF timed
<1>2. /\ DOMAIN Payable(b) = Fields
      /\ Payable(b).phase = "payable" /\ Payable(b).escrow = b.escrow
      /\ Payable(b).submissions = b.submissions
      /\ Payable(b).challenges = TimedOutOf(b)
      /\ Payable(b).payable = C!Verified(b) /\ Payable(b).settlement = b.settlement
  <2>1. Payable(b) = [timed EXCEPT !.phase = "payable", !.payable = C!Verified(b)]
    BY DEF Payable, timed
  <2> QED
    BY <1>1, <2>1 DEF Fields
<1>3. /\ DOMAIN Expired(b) = Fields
      /\ Expired(b).phase = "expired" /\ Expired(b).escrow = 0
      /\ Expired(b).submissions = C!BondsReturned(b)
      /\ Expired(b).challenges = TimedOutOf(b)
      /\ Expired(b).payable = b.payable /\ Expired(b).settlement = b.settlement
  <2>1. Expired(b) =
            [timed EXCEPT !.phase = "expired", !.escrow = 0, !.submissions = C!BondsReturned(b)]
    BY DEF Expired, timed
  <2> QED
    BY <1>1, <2>1 DEF Fields
<1>4. \A s \in SubmissionIds : C!BondsReturned(b)[s].bond = 0
  BY DEF C!BondsReturned, Whole, Shaped
<1>5. \A c \in ChallengeIds :
          /\ TimedOutOf(b)[c].at \in Nat /\ TimedOutOf(b)[c].deposit \in Nat
          /\ TimedOutOf(b)[c].status = "none" => TimedOutOf(b)[c].deposit = 0
  <2> TAKE c \in ChallengeIds
  <2>1. CASE c \in C!Open(b)
    <3>1. TimedOutOf(b)[c] = [b.challenges[c] EXCEPT !.status = "rejected", !.deposit = 0]
      BY <2>1 DEF TimedOutOf
    <3> QED
      BY <3>1 DEF Whole, Shaped, Counted
  <2>2. CASE c \notin C!Open(b)
    <3>1. TimedOutOf(b)[c] = b.challenges[c]
      BY <2>2 DEF TimedOutOf
    <3> QED
      BY <3>1 DEF Counted
  <2> QED
    BY <2>1, <2>2
<1> QED
  BY <1>2, <1>3, <1>4, <1>5

\* A bounty with a verified submission is advanced as Market advances it.
LEMMA AdvancePayableSeen ==
    ASSUME NEW command, Received(command), command.kind = "advance_bounty",
           Clear(C!AdvanceChecks(bounty, command)), C!Verified(bounty) # {},
           CarriedOut(C!AdvanceBounty(bounty, command))
    PROVE  /\ C!M!AdvancePayable(command.now)
           /\ Counted(bounty') /\ held' \in Holdings
<1> DEFINE next == Payable(bounty)
           effects == Timeouts(bounty)
           left == Left(held.deposit, ChallengeIds, Deposits(bounty), C!Open(bounty))
           after == [held EXCEPT !.deposit = left]
<1>1. Whole(bounty) /\ Counted(bounty) /\ held \in Holdings
  BY DEF Received, Sound
<1>2. CarriedOut(C!Returned(bounty, command, next, effects, None))
  BY AdvanceDecides, Zenon
<1>3. /\ DOMAIN next = Fields
      /\ next.phase = "payable" /\ next.escrow = bounty.escrow
      /\ next.submissions = bounty.submissions
      /\ next.challenges = TimedOutOf(bounty)
      /\ next.payable = C!Verified(bounty) /\ next.settlement = bounty.settlement
  BY <1>1, AdvancedState
<1>4. C!FoldLeft(C!Executed, held, effects) = after
  BY <1>1, TimeoutsSeen
<1>5. EffectsSeen(C!ToSet(effects)) = C!M!TimeoutEffects
  BY <1>1, TimeoutsSeen, RefundsSeen
<1>6. after \in Holdings
  <2>1. left \in [ChallengeIds -> Int]
    BY <1>1 DEF Left, Holdings, Deposits, Counted
  <2> HIDE DEF left
  <2> QED
    BY <1>1, <2>1 DEF Holdings
<1> HIDE DEF next, effects, after, left
<1>7. /\ C!M!ValidState
      /\ C!Cardinality(bounty'.processed) = C!Cardinality(bounty.processed) + 1
      /\ EffectsSeen(returned') = EffectsSeen(returned) \cup EffectsSeen(C!ToSet(effects))
      /\ bounty'.phase = next.phase /\ bounty'.escrow = next.escrow
      /\ bounty'.submissions = next.submissions
      /\ bounty'.challenges = next.challenges
      /\ bounty'.payable = next.payable
      /\ bounty'.settlement = next.settlement
      /\ held' = C!FoldLeft(C!Executed, held, effects)
  BY <1>2, <1>3, CommitSeen, Zenon
<1>8. C!M!AdvancePayable(command.now)
  <2>1. ChallengesSeen(bounty') = C!M!TimedOut
    <3>1. bounty'.challenges = TimedOutOf(bounty)
      BY <1>3, <1>7
    <3> QED
      BY <1>1, <3>1, TimedOutSeen
  <2>2. EffectsSeen(returned') = EffectsSeen(returned) \cup C!M!TimeoutEffects
    BY <1>5, <1>7
  <2>3. held' = [held EXCEPT !.deposit = C!M!DepositsAfterTimeout]
    BY <1>1, <1>4, <1>7, LeftSeen DEF after, left
  <2>4. C!M!CanAdvance(command.now)
    BY CanAdvanceSeen
  <2>5. C!M!Verified # {} /\ bounty'.payable = C!M!Verified
    BY <1>3, <1>7, SetsSeen
  <2> QED
    BY <1>3, <1>7, <2>1, <2>2, <2>3, <2>4, <2>5
       DEF C!M!AdvancePayable, C!M!Commit, EffectsSeen, EffectSeen, ChallengesSeen, ChallengeSeen
<1>9. Counted(bounty')
  BY <1>1, <1>3, <1>7, AdvancedState DEF Counted, Phases
<1> QED
  BY <1>4, <1>6, <1>7, <1>8, <1>9

\* What executing the effects of expiring leaves in the custody.
LEMMA EndingSeen ==
    ASSUME NEW b, Counted(b), NEW h \in Holdings
    PROVE  /\ IsList(Ending(b))
           /\ EffectsSeen(C!ToSet(Ending(b))) =
                  EffectsOn(C!Open(b), "slash_challenge_deposit", Deposits(b))
                  \cup {C!M!Effect("refund_escrow", C!M!Bounty, b.escrow)}
                  \cup EffectsOn(Owed(b), "refund_submission_bond", Bonds(b))
           /\ C!FoldLeft(C!Executed, h, Ending(b)) =
                  [escrow |-> h.escrow - b.escrow,
                   bond |-> Left(h.bond, SubmissionIds, Bonds(b), Owed(b)),
                   deposit |-> Left(h.deposit, ChallengeIds, Deposits(b), C!Open(b))]
<1> DEFINE e == C!Effect("refund_escrow", Sponsor, b.escrow, C!Bounty)
           one == <<e>>
           first == Timeouts(b) \o one
           deposits == Left(h.deposit, ChallengeIds, Deposits(b), C!Open(b))
           bonds == Left(h.bond, SubmissionIds, Bonds(b), Owed(b))
           h1 == [h EXCEPT !.deposit = deposits]
           h2 == [h1 EXCEPT !.escrow = @ - b.escrow]
<1>1. IsList(Timeouts(b)) /\ IsList(C!BondRefunds(b))
  BY TimeoutsSeen, BondRefundsSeen
<1>2. IsList(one) /\ C!ToSet(one) = {e}
  BY ListOfOne
<1>3. EffectSeen(e) = C!M!Effect("refund_escrow", C!M!Bounty, b.escrow)
  BY EffectIsSeen DEF C!M!Bounty, C!Bounty
<1>4. \A g : C!FoldLeft(C!Executed, g, one) = C!Executed(g, e)
  BY CustodyOfFew
<1>5. \A g : C!Executed(g, e) = [g EXCEPT !.escrow = @ - b.escrow]
  BY ExecutedByKind DEF C!Effect
<1>6. Ending(b) = first \o C!BondRefunds(b)
  BY DEF Ending
<1> HIDE DEF e, one
<1>7. /\ IsList(first)
      /\ C!ToSet(first) = C!ToSet(Timeouts(b)) \cup {e}
  BY <1>1, <1>2, SetOfBoth
<1>8. /\ IsList(Ending(b))
      /\ C!ToSet(Ending(b)) = C!ToSet(first) \cup C!ToSet(C!BondRefunds(b))
  <2> HIDE DEF first
  <2> QED
    BY <1>1, <1>6, <1>7, SetOfBoth
<1>9. EffectsSeen(C!ToSet(Ending(b))) =
          EffectsOn(C!Open(b), "slash_challenge_deposit", Deposits(b))
          \cup {C!M!Effect("refund_escrow", C!M!Bounty, b.escrow)}
          \cup EffectsOn(Owed(b), "refund_submission_bond", Bonds(b))
  <2> DEFINE T == C!ToSet(Timeouts(b))
             B == C!ToSet(C!BondRefunds(b))
  <2>1. C!ToSet(Ending(b)) = (T \cup {e}) \cup B
    BY <1>7, <1>8
  <2>2. /\ EffectsSeen(T) = EffectsOn(C!Open(b), "slash_challenge_deposit", Deposits(b))
        /\ EffectsSeen(B) = EffectsOn(Owed(b), "refund_submission_bond", Bonds(b))
    BY TimeoutsSeen, BondRefundsSeen
  <2> HIDE DEF T, B
  <2> DEFINE U == T \cup {e}
  <2>3. /\ EffectsSeen(U) = EffectsSeen(T) \cup EffectsSeen({e})
        /\ EffectsSeen(U \cup B) = EffectsSeen(U) \cup EffectsSeen(B)
    <3>1. EffectsSeen(U) = EffectsSeen(T) \cup EffectsSeen({e})
      BY EffectsSeenBoth
    <3> HIDE DEF U
    <3>2. EffectsSeen(U \cup B) = EffectsSeen(U) \cup EffectsSeen(B)
      BY EffectsSeenBoth
    <3> QED
      BY <3>1, <3>2
  <2>4. EffectsSeen({e}) = {C!M!Effect("refund_escrow", C!M!Bounty, b.escrow)}
    BY <1>3, EffectsSeenBoth
  <2> QED
    BY <2>1, <2>2, <2>3, <2>4, Zenon
<1>10. C!FoldLeft(C!Executed, h, Timeouts(b)) = h1
  BY TimeoutsSeen
<1>11. /\ deposits \in [ChallengeIds -> Int] /\ bonds \in [SubmissionIds -> Int]
       /\ b.escrow \in Nat
  BY DEF Left, Holdings, Deposits, Bonds, Counted
<1> HIDE DEF deposits, bonds
<1>12. h1 \in Holdings /\ h1.escrow = h.escrow /\ h1.bond = h.bond /\ h1.deposit = deposits
  BY <1>11 DEF Holdings
<1> HIDE DEF h1
<1>13. /\ h2 \in Holdings /\ h2.escrow = h.escrow - b.escrow /\ h2.bond = h.bond
       /\ h2.deposit = deposits
  BY <1>11, <1>12 DEF Holdings
<1>14. C!FoldLeft(C!Executed, h, first) = h2
  <2>1. C!FoldLeft(C!Executed, h, first) =
            C!FoldLeft(C!Executed, C!FoldLeft(C!Executed, h, Timeouts(b)), one)
    BY <1>1, <1>2, CustodyOfBoth
  <2>2. C!FoldLeft(C!Executed, h, first) = C!FoldLeft(C!Executed, h1, one)
    BY <1>10, <2>1
  <2> QED
    BY <1>4, <1>5, <2>2
<1> HIDE DEF h2, first
<1>15. C!FoldLeft(C!Executed, h, Ending(b)) = C!FoldLeft(C!Executed, h2, C!BondRefunds(b))
  <2>1. C!FoldLeft(C!Executed, h, Ending(b)) =
            C!FoldLeft(C!Executed, C!FoldLeft(C!Executed, h, first), C!BondRefunds(b))
    BY <1>1, <1>6, <1>7, CustodyOfBoth
  <2> QED
    BY <1>14, <2>1
<1>16. C!FoldLeft(C!Executed, h2, C!BondRefunds(b)) = [h2 EXCEPT !.bond = bonds]
  BY <1>13, BondRefundsSeen DEF bonds
<1>17. [h2 EXCEPT !.bond = bonds] =
           [escrow |-> h.escrow - b.escrow, bond |-> bonds, deposit |-> deposits]
  BY <1>13 DEF Holdings
<1> QED
  BY <1>8, <1>9, <1>15, <1>16, <1>17 DEF bonds, deposits

\* A bounty with nobody to pay is advanced as Market advances it.
LEMMA AdvanceExpiredSeen ==
    ASSUME NEW command, Received(command), command.kind = "advance_bounty",
           Clear(C!AdvanceChecks(bounty, command)), C!Verified(bounty) = {},
           CarriedOut(C!AdvanceBounty(bounty, command))
    PROVE  /\ C!M!AdvanceExpired(command.now)
           /\ Counted(bounty') /\ held' \in Holdings
<1> DEFINE next == Expired(bounty)
           effects == Ending(bounty)
           bonds == Left(held.bond, SubmissionIds, Bonds(bounty), Owed(bounty))
           deposits == Left(held.deposit, ChallengeIds, Deposits(bounty), C!Open(bounty))
           after == [escrow |-> held.escrow - bounty.escrow, bond |-> bonds,
                     deposit |-> deposits]
<1>1. Whole(bounty) /\ Counted(bounty) /\ held \in Holdings
  BY DEF Received, Sound
<1>2. CarriedOut(C!Returned(bounty, command, next, effects, "NO_PAYABLE_SUBMISSION"))
  BY AdvanceDecides, Zenon
<1>3. /\ DOMAIN next = Fields
      /\ next.phase = "expired" /\ next.escrow = 0
      /\ next.submissions = C!BondsReturned(bounty)
      /\ next.challenges = TimedOutOf(bounty)
      /\ next.payable = bounty.payable /\ next.settlement = bounty.settlement
  BY <1>1, AdvancedState
<1>4. C!FoldLeft(C!Executed, held, effects) = after
  BY <1>1, EndingSeen
<1>5. EffectsSeen(C!ToSet(effects)) =
          C!M!TimeoutEffects \cup {C!M!Effect("refund_escrow", C!M!Bounty, bounty.escrow)}
          \cup C!M!BondRefunds
  <2>1. /\ EffectsOn(C!Open(bounty), "slash_challenge_deposit", Deposits(bounty)) =
               C!M!TimeoutEffects
        /\ EffectsOn(Owed(bounty), "refund_submission_bond", Bonds(bounty)) = C!M!BondRefunds
    BY <1>1, RefundsSeen
  <2>2. EffectsSeen(C!ToSet(effects)) =
            EffectsOn(C!Open(bounty), "slash_challenge_deposit", Deposits(bounty))
            \cup {C!M!Effect("refund_escrow", C!M!Bounty, bounty.escrow)}
            \cup EffectsOn(Owed(bounty), "refund_submission_bond", Bonds(bounty))
    BY <1>1, EndingSeen
  <2> QED
    BY <2>1, <2>2, Zenon
<1>6. after \in Holdings
  <2>1. /\ bonds \in [SubmissionIds -> Int] /\ deposits \in [ChallengeIds -> Int]
        /\ bounty.escrow \in Nat
    BY <1>1 DEF Left, Holdings, Deposits, Bonds, Counted
  <2> HIDE DEF bonds, deposits
  <2> QED
    BY <1>1, <2>1 DEF Holdings
<1> HIDE DEF next, effects, after, bonds, deposits
<1>7. /\ C!M!ValidState
      /\ C!Cardinality(bounty'.processed) = C!Cardinality(bounty.processed) + 1
      /\ EffectsSeen(returned') = EffectsSeen(returned) \cup EffectsSeen(C!ToSet(effects))
      /\ bounty'.phase = next.phase /\ bounty'.escrow = next.escrow
      /\ bounty'.submissions = next.submissions
      /\ bounty'.challenges = next.challenges
      /\ bounty'.payable = next.payable
      /\ bounty'.settlement = next.settlement
      /\ held' = C!FoldLeft(C!Executed, held, effects)
  BY <1>2, <1>3, CommitSeen, Zenon
<1>8. C!M!AdvanceExpired(command.now)
  <2>1. ChallengesSeen(bounty') = C!M!TimedOut
    <3>1. bounty'.challenges = TimedOutOf(bounty)
      BY <1>3, <1>7
    <3> QED
      BY <1>1, <3>1, TimedOutSeen
  <2>2. SubmissionsSeen(bounty') = C!M!BondsReturned
    <3>1. bounty'.submissions = C!BondsReturned(bounty)
      BY <1>3, <1>7
    <3> QED
      BY <1>1, <3>1, BondsReturnedSeen
  <2>3. EffectsSeen(returned') =
            EffectsSeen(returned)
            \cup (C!M!TimeoutEffects
                  \cup {C!M!Effect("refund_escrow", C!M!Bounty, bounty.escrow)}
                  \cup C!M!BondRefunds)
    BY <1>5, <1>7
  <2>4. held' = [escrow |-> held.escrow - bounty.escrow, bond |-> C!M!BondsAfterRefund,
                 deposit |-> C!M!DepositsAfterTimeout]
    BY <1>1, <1>4, <1>7, LeftSeen DEF after, bonds, deposits
  <2>5. C!M!CanAdvance(command.now)
    BY CanAdvanceSeen
  <2>6. C!M!Verified = {}
    BY <1>3, <1>7, SetsSeen
  <2> QED
    BY <1>3, <1>7, <2>1, <2>2, <2>3, <2>4, <2>5, <2>6
       DEF C!M!AdvanceExpired, C!M!Commit, EffectsSeen, EffectSeen, ChallengesSeen,
           ChallengeSeen, SubmissionsSeen, SubmissionSeen
<1>9. Counted(bounty')
  BY <1>1, <1>3, <1>7, AdvancedState DEF Counted, Phases
<1> QED
  BY <1>4, <1>6, <1>7, <1>8, <1>9

-----------------------------------------------------------------------------
(* settle_bounty, seen by Market. *)

\* Market's total of a payout plan, as the fold that computes it.
LEMMA TotalIsFold ==
    ASSUME NEW w
    PROVE  C!M!Total(w) = Adder(w, DOMAIN w)[DOMAIN w]
  BY DEF C!M!Total, C!M!FoldFunction, C!M!FoldFunctionOnSet, C!M!MapThenFoldSet, Adder,
         WeighsUp, Some

\* A plan with one payout totals that payout, one with two totals both.
LEMMA TotalOfFew ==
    ASSUME NEW w
    PROVE  /\ \A e : DOMAIN w = {e} /\ w[e] \in Nat => C!M!Total(w) = w[e]
           /\ \A e, f : DOMAIN w = {e, f} /\ e # f /\ w[e] \in Nat /\ w[f] \in Nat =>
                  C!M!Total(w) = w[e] + w[f]
<1>1. ASSUME NEW e, DOMAIN w = {e}, w[e] \in Nat PROVE C!M!Total(w) = w[e]
  BY <1>1, TotalIsFold, WeightOfOne
<1>2. ASSUME NEW e, NEW f, DOMAIN w = {e, f}, e # f, w[e] \in Nat, w[f] \in Nat
      PROVE  C!M!Total(w) = w[e] + w[f]
  BY <1>2, TotalIsFold, WeightOfTwo
<1> QED
  BY <1>1, <1>2

\* The effect of one payout, as Market sees it and as it leaves the escrow.
LEMMA OnePayoutSeen ==
    ASSUME NEW p
    PROVE  /\ EffectSeen(PayoutOf(p)) = C!M!Effect("payout", p.submission, p.amount)
           /\ \A h : C!Executed(h, PayoutOf(p)) = [h EXCEPT !.escrow = @ - p.amount]
<1>1. EffectSeen(PayoutOf(p)) = C!M!Effect("payout", p.submission, p.amount)
  BY EffectIsSeen DEF PayoutOf
<1>2. \A h : C!Executed(h, PayoutOf(p)) = [h EXCEPT !.escrow = @ - p.amount]
  BY ExecutedByKind DEF PayoutOf, C!Effect
<1> QED
  BY <1>1, <1>2

\* What the payouts leave in the custody.
LEMMA PaidFrom ==
    ASSUME NEW payouts \in C!Payouts, payouts # <<>>, NEW h \in Holdings
    PROVE  C!FoldLeft(C!Executed, h, PayoutEffects(payouts)) =
               [h EXCEPT !.escrow = @ - C!PaidOut(payouts)]
<1> DEFINE effects == PayoutEffects(payouts)
<1>1. /\ DOMAIN effects = DOMAIN payouts
      /\ \A i \in DOMAIN payouts : effects[i] = PayoutOf(payouts[i])
  BY DEF PayoutEffects
<1>2. /\ h.escrow \in Int
      /\ \A i \in DOMAIN payouts : payouts[i].amount \in Nat
  BY FewPayouts, BountiesAssumption DEF C!CallsParameters, Holdings
<1>3. CASE DOMAIN payouts = {1}
  <2>1. effects = <<PayoutOf(payouts[1])>>
    <3>1. effects = [i \in {1} |-> PayoutOf(payouts[1])]
      BY <1>3 DEF PayoutEffects
    <3>2. <<PayoutOf(payouts[1])>> = [i \in {1} |-> PayoutOf(payouts[1])]
      OBVIOUS
    <3> QED
      BY <3>1, <3>2
  <2> HIDE DEF effects
  <2>2. C!FoldLeft(C!Executed, h, effects) = C!Executed(h, PayoutOf(payouts[1]))
    BY <2>1, CustodyOfFew
  <2>3. C!PaidOut(payouts) = payouts[1].amount
    BY <1>3, PaidOutFew
  <2> QED
    BY <2>2, <2>3, OnePayoutSeen DEF effects
<1>4. CASE DOMAIN payouts = {1, 2}
  <2> DEFINE h1 == C!Executed(h, PayoutOf(payouts[1]))
  <2>1. DOMAIN effects = 1..2
    BY <1>1, <1>4
  <2>2. effects[1] = PayoutOf(payouts[1]) /\ effects[2] = PayoutOf(payouts[2])
    BY <1>1, <1>4
  <2> HIDE DEF effects
  <2>3. C!FoldLeft(C!Executed, h, effects) =
            C!Executed(C!Executed(h, effects[1]), effects[2])
    BY <2>1, CustodyOfTwo
  <2>4. C!FoldLeft(C!Executed, h, effects) = C!Executed(h1, PayoutOf(payouts[2]))
    BY <2>2, <2>3, Zenon
  <2>5. h1 = [h EXCEPT !.escrow = @ - payouts[1].amount]
    BY OnePayoutSeen
  <2> HIDE DEF h1
  <2>6. C!Executed(h1, PayoutOf(payouts[2])) = [h1 EXCEPT !.escrow = @ - payouts[2].amount]
    BY OnePayoutSeen
  <2>7. C!PaidOut(payouts) = payouts[1].amount + payouts[2].amount
    BY <1>4, PaidOutFew
  <2>8. (h.escrow - payouts[1].amount) - payouts[2].amount = h.escrow - C!PaidOut(payouts)
    BY <1>2, <1>4, <2>7
  <2>9. [h1 EXCEPT !.escrow = @ - payouts[2].amount] =
            [h EXCEPT !.escrow = @ - C!PaidOut(payouts)]
    BY <2>5, <2>8 DEF Holdings
  <2> QED
    BY <2>4, <2>6, <2>9 DEF effects
<1> QED
  BY <1>3, <1>4, FewPayouts

\* Payouts that are let through are a payout plan of Market's.
LEMMA PlanSeen ==
    ASSUME NEW b, NEW payouts \in C!Payouts, payouts # <<>>,
           \A i \in DOMAIN payouts : Clear(C!PayoutChecks(b, payouts, i))
    PROVE  \E S \in SUBSET b.payable : \E plan \in [S -> Amounts] :
               /\ S # {}
               /\ C!M!Total(plan) = C!PaidOut(payouts)
               /\ EffectsSeen(C!ToSet(PayoutEffects(payouts))) =
                      EffectsOn(DOMAIN plan, "payout", plan)
<1> DEFINE s1 == payouts[1].submission
           s2 == payouts[2].submission
           a1 == payouts[1].amount
           a2 == payouts[2].amount
           E == EffectsSeen(C!ToSet(PayoutEffects(payouts)))
<1>1. \A i \in DOMAIN payouts :
          /\ payouts[i].submission \in b.payable
          /\ \A j \in 1..(i - 1) : payouts[j].submission # payouts[i].submission
          /\ payouts[i].amount \in Amounts /\ payouts[i].amount \in Nat
  BY PayoutClear, FewPayouts, BountiesAssumption DEF C!CallsParameters
<1>2. C!ToSet(PayoutEffects(payouts)) = {PayoutOf(payouts[i]) : i \in DOMAIN payouts}
  BY PayoutEffectsList
<1>3. CASE DOMAIN payouts = {1}
  <2> DEFINE plan == [s \in {s1} |-> a1]
  <2>1. E = {C!M!Effect("payout", s1, a1)}
    <3>1. C!ToSet(PayoutEffects(payouts)) = {PayoutOf(payouts[1])}
      BY <1>2, <1>3
    <3> QED
      BY <3>1, EffectsSeenBoth, OnePayoutSeen
  <2>2. C!PaidOut(payouts) = a1 /\ a1 \in Amounts /\ a1 \in Nat /\ s1 \in b.payable
    BY <1>1, <1>3, PaidOutFew
  <2> HIDE DEF s1, a1, E
  <2>3. plan \in [{s1} -> Amounts] /\ DOMAIN plan = {s1} /\ plan[s1] = a1
    BY <2>2
  <2> HIDE DEF plan
  <2>4. EffectsOn({s1}, "payout", plan) = {C!M!Effect("payout", s1, a1)}
    BY <2>3 DEF EffectsOn
  <2>5. C!M!Total(plan) = a1
    BY <2>2, <2>3, TotalOfFew
  <2> QED
    BY <2>1, <2>2, <2>3, <2>4, <2>5 DEF E
<1>4. CASE DOMAIN payouts = {1, 2}
  <2> DEFINE plan == [s \in {s1, s2} |-> IF s = s1 THEN a1 ELSE a2]
  <2>1. E = {C!M!Effect("payout", s1, a1), C!M!Effect("payout", s2, a2)}
    <3>1. C!ToSet(PayoutEffects(payouts)) = {PayoutOf(payouts[1]), PayoutOf(payouts[2])}
      BY <1>2, <1>4
    <3>2. EffectsSeen({PayoutOf(payouts[1]), PayoutOf(payouts[2])}) =
              {EffectSeen(PayoutOf(payouts[1])), EffectSeen(PayoutOf(payouts[2]))}
      BY EffectsSeenBoth, Zenon
    <3>3. /\ EffectSeen(PayoutOf(payouts[1])) = C!M!Effect("payout", s1, a1)
          /\ EffectSeen(PayoutOf(payouts[2])) = C!M!Effect("payout", s2, a2)
      BY OnePayoutSeen, Zenon
    <3> QED
      BY <3>1, <3>2, <3>3, Zenon
  <2>2. /\ C!PaidOut(payouts) = a1 + a2
        /\ a1 \in Amounts /\ a1 \in Nat /\ s1 \in b.payable
        /\ a2 \in Amounts /\ a2 \in Nat /\ s2 \in b.payable
    BY <1>1, <1>4, PaidOutFew
  <2>3. s1 # s2
    <3>1. 1 \in 1..(2 - 1) /\ 2 \in DOMAIN payouts
      BY <1>4
    <3> QED
      BY <1>1, <3>1
  <2> HIDE DEF s1, a1, s2, a2, E
  <2>4. /\ plan \in [{s1, s2} -> Amounts] /\ DOMAIN plan = {s1, s2}
        /\ plan[s1] = a1 /\ plan[s2] = a2
    BY <2>2, <2>3
  <2> HIDE DEF plan
  <2>5. EffectsOn({s1, s2}, "payout", plan) =
            {C!M!Effect("payout", s1, a1), C!M!Effect("payout", s2, a2)}
    BY <2>4 DEF EffectsOn
  <2>6. C!M!Total(plan) = a1 + a2
    BY <2>2, <2>3, <2>4, TotalOfFew
  <2> QED
    BY <2>1, <2>2, <2>4, <2>5, <2>6 DEF E
<1> QED
  BY <1>3, <1>4, FewPayouts

\* The effects of a settlement, as Market sees them and as they leave the custody.
LEMMA SettlingSeen ==
    ASSUME NEW b, Counted(b), NEW payouts \in C!Payouts, payouts # <<>>
    PROVE  LET effects == PayoutEffects(payouts) \o C!BondRefunds(b)
           IN  /\ EffectsSeen(C!ToSet(effects)) =
                      EffectsSeen(C!ToSet(PayoutEffects(payouts)))
                      \cup EffectsOn(Owed(b), "refund_submission_bond", Bonds(b))
               /\ \A h \in Holdings :
                      C!FoldLeft(C!Executed, h, effects) =
                          [h EXCEPT !.escrow = @ - C!PaidOut(payouts),
                                    !.bond = Left(h.bond, SubmissionIds, Bonds(b), Owed(b))]
<1> DEFINE paid == PayoutEffects(payouts)
           refunds == C!BondRefunds(b)
<1>1. IsList(paid) /\ IsList(refunds)
  BY PayoutEffectsList, BondRefundsSeen
<1>2. EffectsSeen(C!ToSet(paid \o refunds)) =
          EffectsSeen(C!ToSet(paid)) \cup EffectsSeen(C!ToSet(refunds))
  <2> HIDE DEF paid, refunds
  <2>1. C!ToSet(paid \o refunds) = C!ToSet(paid) \cup C!ToSet(refunds)
    BY <1>1, SetOfBoth
  <2> QED
    BY <2>1, EffectsSeenBoth
<1>3. EffectsSeen(C!ToSet(refunds)) = EffectsOn(Owed(b), "refund_submission_bond", Bonds(b))
  BY BondRefundsSeen
<1>4. ASSUME NEW h \in Holdings
      PROVE  C!FoldLeft(C!Executed, h, paid \o refunds) =
                 [h EXCEPT !.escrow = @ - C!PaidOut(payouts),
                           !.bond = Left(h.bond, SubmissionIds, Bonds(b), Owed(b))]
  <2> DEFINE h1 == [h EXCEPT !.escrow = @ - C!PaidOut(payouts)]
  <2>1. C!FoldLeft(C!Executed, h, paid) = h1
    BY PaidFrom
  <2>2. C!PaidOut(payouts) \in Int
    BY PaidOutFew, FewPayouts, BountiesAssumption DEF C!CallsParameters
  <2>3. h1 \in Holdings /\ h1.bond = h.bond
    BY <2>2 DEF Holdings
  <2> HIDE DEF h1, paid, refunds
  <2>4. C!FoldLeft(C!Executed, h, paid \o refunds) = C!FoldLeft(C!Executed, h1, refunds)
    <3>1. C!FoldLeft(C!Executed, h, paid \o refunds) =
              C!FoldLeft(C!Executed, C!FoldLeft(C!Executed, h, paid), refunds)
      BY <1>1, CustodyOfBoth
    <3> QED
      BY <2>1, <3>1
  <2>5. C!FoldLeft(C!Executed, h1, refunds) =
            [h1 EXCEPT !.bond = Left(h1.bond, SubmissionIds, Bonds(b), Owed(b))]
    BY <2>3, BondRefundsSeen DEF refunds
  <2>6. [h1 EXCEPT !.bond = Left(h1.bond, SubmissionIds, Bonds(b), Owed(b))] =
            [h EXCEPT !.escrow = @ - C!PaidOut(payouts),
                      !.bond = Left(h.bond, SubmissionIds, Bonds(b), Owed(b))]
    <3> DEFINE bonds == Left(h.bond, SubmissionIds, Bonds(b), Owed(b))
    <3>1. Left(h1.bond, SubmissionIds, Bonds(b), Owed(b)) = bonds
      BY <2>3
    <3> HIDE DEF bonds
    <3>2. [h1 EXCEPT !.bond = bonds] =
              [h EXCEPT !.escrow = @ - C!PaidOut(payouts), !.bond = bonds]
      BY DEF h1, Holdings
    <3> QED
      BY <3>1, <3>2 DEF bonds
  <2> QED
    BY <2>4, <2>5, <2>6
<1> QED
  BY <1>2, <1>3, <1>4

\* settle_bounty takes the step of Market's Settle, by some payout plan.
LEMMA SettleBountySeen ==
    ASSUME NEW command, Received(command), command.kind = "settle_bounty",
           command.payouts # <<>>, Clear(C!SettleChecks(bounty, command)),
           CarriedOut(C!SettleBounty(bounty, command))
    PROVE  C!M!Settle /\ Counted(bounty') /\ held' \in Holdings
<1> DEFINE payouts == command.payouts
           next == [bounty EXCEPT !.phase = "settled", !.escrow = 0,
                                  !.submissions = C!BondsReturned(bounty),
                                  !.settlement = command.settlement]
           effects == PayoutEffects(payouts) \o C!BondRefunds(bounty)
           E == EffectsSeen(C!ToSet(PayoutEffects(payouts)))
           bonds == Left(held.bond, SubmissionIds, Bonds(bounty), Owed(bounty))
           after == [held EXCEPT !.escrow = @ - C!PaidOut(payouts), !.bond = bonds]
<1>1. /\ Whole(bounty) /\ Counted(bounty) /\ held \in Holdings
      /\ payouts \in C!Payouts /\ command.settlement # None
  BY DEF Received, Sound, Tried, Split
<1>2. CarriedOut(C!Returned(bounty, command, next, effects, None))
  <2>1. C!SettleBounty(bounty, command) = C!Returned(bounty, command, next, effects, None)
    BY Zenon DEF C!SettleBounty, PayoutEffects, PayoutOf
  <2> QED
    BY <2>1, Zenon
<1>3. /\ DOMAIN next = Fields
      /\ next.phase = "settled" /\ next.escrow = 0
      /\ next.submissions = C!BondsReturned(bounty)
      /\ next.challenges = bounty.challenges
      /\ next.payable = bounty.payable /\ next.settlement = command.settlement
  BY <1>1 DEF Whole, Shaped, Fields
<1>4. /\ bounty.phase = "payable"
      /\ \A i \in DOMAIN payouts : Clear(C!PayoutChecks(bounty, payouts, i))
      /\ C!PaidOut(payouts) = bounty.escrow
  BY <1>1, SettleClear
<1>5. C!FoldLeft(C!Executed, held, effects) = after
  BY <1>1, SettlingSeen
<1>6. EffectsSeen(C!ToSet(effects)) = E \cup C!M!BondRefunds
  <2>1. EffectsSeen(C!ToSet(effects)) =
            E \cup EffectsOn(Owed(bounty), "refund_submission_bond", Bonds(bounty))
    BY <1>1, SettlingSeen
  <2> QED
    BY <2>1, RefundsSeen
<1>7. after \in Holdings
  <2> DEFINE paid == C!PaidOut(payouts)
             rest == held.escrow - paid
  <2>1. bonds \in [SubmissionIds -> Int] /\ rest \in Int
    BY <1>1, <1>4 DEF Left, Holdings, Bonds, Counted
  <2>2. after = [held EXCEPT !.escrow = rest, !.bond = bonds]
    OBVIOUS
  <2> HIDE DEF bonds, rest, after
  <2>3. held \in Holdings
    BY <1>1
  <2>4. after \in [{"escrow", "bond", "deposit"} ->
                      UNION {Int, [SubmissionIds -> Int], [ChallengeIds -> Int]}]
    BY <2>1, <2>2, <2>3 DEF Holdings
  <2> QED
    BY <2>1, <2>2, <2>3, <2>4 DEF Holdings
<1>8. PICK S \in SUBSET bounty.payable : \E plan \in [S -> Amounts] :
          /\ S # {} /\ C!M!Total(plan) = C!PaidOut(payouts)
          /\ E = EffectsOn(DOMAIN plan, "payout", plan)
  BY <1>1, <1>4, PlanSeen
<1>9. PICK plan \in [S -> Amounts] :
          /\ S # {} /\ C!M!Total(plan) = C!PaidOut(payouts)
          /\ E = EffectsOn(DOMAIN plan, "payout", plan)
  BY <1>8
<1> HIDE DEF payouts, next, effects, E, after, bonds
<1>10. /\ C!M!ValidState
       /\ C!Cardinality(bounty'.processed) = C!Cardinality(bounty.processed) + 1
       /\ EffectsSeen(returned') = EffectsSeen(returned) \cup EffectsSeen(C!ToSet(effects))
       /\ bounty'.phase = next.phase /\ bounty'.escrow = next.escrow
       /\ bounty'.submissions = next.submissions
       /\ bounty'.challenges = next.challenges
       /\ bounty'.payable = next.payable
       /\ bounty'.settlement = next.settlement
       /\ held' = C!FoldLeft(C!Executed, held, effects)
  BY <1>2, <1>3, CommitSeen, Zenon
<1>11. C!M!SettleBounty(plan)
  <2>1. C!M!CanSettle(plan)
    BY <1>4, <1>9 DEF C!M!CanSettle
  <2>2. SubmissionsSeen(bounty') = C!M!BondsReturned
    <3>1. bounty'.submissions = C!BondsReturned(bounty)
      BY <1>3, <1>10
    <3> QED
      BY <1>1, <3>1, BondsReturnedSeen
  <2>3. EffectsSeen(returned') =
            EffectsSeen(returned)
            \cup ({C!M!Effect("payout", s, plan[s]) : s \in DOMAIN plan} \cup C!M!BondRefunds)
    BY <1>6, <1>9, <1>10 DEF EffectsOn
  <2>4. held' = [held EXCEPT !.escrow = @ - C!M!Total(plan), !.bond = C!M!BondsAfterRefund]
    BY <1>1, <1>5, <1>9, <1>10, LeftSeen DEF after, bonds
  <2>5. bounty'.settlement # None
    BY <1>1, <1>3, <1>10
  <2> QED
    BY <1>3, <1>10, <2>1, <2>2, <2>3, <2>4, <2>5
       DEF C!M!SettleBounty, C!M!Commit, EffectsSeen, EffectSeen, SubmissionsSeen, SubmissionSeen
<1>12. Counted(bounty')
  <2>1. \A s \in SubmissionIds : bounty'.submissions[s].bond = 0
    BY <1>1, <1>3, <1>10, AdvancedState
  <2> QED
    BY <1>1, <1>3, <1>10, <2>1 DEF Counted, Phases
<1>13. C!M!Settle
  BY <1>11 DEF C!M!Settle
<1> QED
  BY <1>5, <1>7, <1>10, <1>12, <1>13

-----------------------------------------------------------------------------
(* MarketCalls implements Market. *)

\* An absent receipt is not a receipt.
NoneIsNoReceipt ==
    \A statement, key, genuine :
        None # [statement |-> statement, key |-> key, genuine |-> genuine]

\* A record of three fields stays one when fields of it change.
LEMMA StillReceipt ==
    ASSUME NEW r, DOMAIN r = {"statement", "key", "genuine"},
           r = [field \in DOMAIN r |-> r[field]], NoneIsNoReceipt
    PROVE  r # None
<1>1. r = [statement |-> r.statement, key |-> r.key, genuine |-> r.genuine]
  OBVIOUS
<1> QED
  BY <1>1 DEF NoneIsNoReceipt

\* None of the receipts callers try is the absent one.
LEMMA ReceiptsTried ==
    ASSUME NoneIsNoReceipt, NEW ruling, NEW receipt \in C!Receipts(ruling)
    PROVE  receipt # None
<1> DEFINE statement == C!Statement(bounty, ruling)
           right == [statement |-> statement, key |-> ruling.verifier, genuine |-> TRUE]
           IsReceipt(r) == /\ DOMAIN r = {"statement", "key", "genuine"}
                           /\ r = [field \in DOMAIN r |-> r[field]]
<1>1. \/ receipt = right
      \/ receipt = [right EXCEPT !.statement.pre = C!initial_bounty]
      \/ receipt = [right EXCEPT !.statement.outcome =
                        C!Outcome([ruling EXCEPT !.verdict = ~@])]
      \/ receipt = [right EXCEPT !.genuine = FALSE]
      \/ \E v \in Verifiers : receipt = [right EXCEPT !.key = v]
  BY DEF C!Receipts
<1>2. IsReceipt(right)
  OBVIOUS
<1> HIDE DEF right
<1>3. /\ \A x : IsReceipt([right EXCEPT !.statement = x])
      /\ \A x : IsReceipt([right EXCEPT !.genuine = x])
      /\ \A x : IsReceipt([right EXCEPT !.key = x])
  BY <1>2
<1>4. IsReceipt(receipt)
  BY <1>1, <1>2, <1>3
<1> QED
  BY <1>4, StillReceipt

\* A command without a receipt carries what callers have to try.
LEMMA UnprovenTried ==
    ASSUME NEW command \in C!Unproven
    PROVE  Tried(command)
<1>1. Addressed(command) /\ Split(command)
  BY UnprovenAddressed, UnprovenSplit
<1>2. None # "settlement"
  BY BountiesAssumption DEF C!CallsParameters
<1>3. /\ command.kind # "settle_bounty" => command.now \in Times
      /\ command.kind = "open_bounty" => command.funded \in Amounts
      /\ command.kind = "submit_candidate" =>
             command.verifier \in Verifiers /\ command.bond \in Amounts
      /\ command.kind = "open_challenge" => command.deposit \in Amounts
      /\ command.kind = "settle_bounty" => command.settlement = "settlement"
      /\ command.kind \notin {"verify_submission", "resolve_challenge"}
  BY DEF C!Unproven
<1> QED
  BY <1>1, <1>2, <1>3 DEF Tried

\* So does a verdict with its receipt.
LEMMA ProvenTried ==
    ASSUME NoneIsNoReceipt, NEW ruling \in C!Ruled, NEW receipt \in C!Receipts(ruling)
    PROVE  Tried(C!Proven(ruling, receipt))
<1> DEFINE command == C!Proven(ruling, receipt)
<1>1. Addressed(command) /\ Split(command)
  BY ProvenAddressed, ProvenSplit
<1>2. receipt # None
  BY ReceiptsTried
<1>3. /\ command.kind = ruling.kind /\ command.now = ruling.now
      /\ command.verdict = ruling.verdict /\ command.receipt = receipt
  BY ProvenAddressed
<1>4. command.verifier = ruling.verifier
  <2>1. "verifier" \in DOMAIN ruling
    BY DEF C!Ruled
  <2> QED
    BY <2>1 DEF C!Proven
<1>5. /\ ruling.kind \in {"verify_submission", "resolve_challenge"}
      /\ ruling.now \in Times /\ ruling.verifier \in Verifiers /\ ruling.verdict \in BOOLEAN
  BY DEF C!Ruled
<1> HIDE DEF command
<1>6. Tried(command)
  BY <1>1, <1>2, <1>3, <1>4, <1>5 DEF Tried
<1> QED
  BY <1>6 DEF command

\* Before the first command, Market sees its own first state.
LEMMA FirstSeen ==
    ASSUME C!Init
    PROVE  C!M!Init /\ Sound(bounty, held)
<1>1. bounty = C!initial_bounty /\ returned = {} /\ held = C!NoCustody
  BY DEF C!Init
<1>2. /\ bounty.phase = "draft" /\ bounty.escrow = 0 /\ bounty.payable = {}
      /\ bounty.processed = {} /\ bounty.settlement = None
      /\ bounty.submissions = [s \in SubmissionIds |-> C!NoSubmission]
      /\ bounty.challenges = [c \in ChallengeIds |-> C!NoChallenge]
  BY <1>1 DEF C!initial_bounty
<1>3. /\ SubmissionSeen(C!NoSubmission) = C!M!NoSubmission
      /\ ChallengeSeen(C!NoChallenge) = C!M!NoChallenge
  BY DEF SubmissionSeen, ChallengeSeen, C!Abbreviated, C!NoSubmission, C!NoChallenge,
         C!M!NoSubmission, C!M!NoChallenge
<1>4. /\ SubmissionsSeen(bounty) = [s \in SubmissionIds |-> C!M!NoSubmission]
      /\ ChallengesSeen(bounty) = [c \in ChallengeIds |-> C!M!NoChallenge]
  BY <1>2, <1>3 DEF SubmissionsSeen, ChallengesSeen
<1>5. C!Cardinality(bounty.processed) = 0
  <2>1. \A S : C!Cardinality(S) = Cardinality(S)
    BY DEF C!Cardinality, Cardinality
  <2> QED
    BY <1>2, <2>1, FS_EmptySet
<1>6. C!M!Init
  BY <1>1, <1>2, <1>4, <1>5
     DEF C!M!Init, SubmissionsSeen, ChallengesSeen, SubmissionSeen, ChallengeSeen, C!NoCustody
<1>7. Whole(bounty)
  BY <1>1, WholeAtFirst
<1>8. Counted(bounty)
  BY <1>2 DEF Counted, Phases, C!NoSubmission, C!NoChallenge
<1>9. held \in Holdings
  BY <1>1 DEF C!NoCustody, Holdings
<1> QED
  BY <1>6, <1>7, <1>8, <1>9 DEF Sound

\* Every command that is taken is one of Market's.
LEMMA ReceivedSeen ==
    ASSUME NEW command, NEW evidence, Received(command),
           Clear(C!Checks(bounty, command, evidence)), CarriedOut(C!Handled(bounty, command))
    PROVE  C!M!Next /\ Counted(bounty') /\ held' \in Holdings
<1>1. Addressed(command) /\ Split(command) /\ Tried(command)
  BY DEF Received, Tried
<1>2. /\ Clear(C!CommonChecks(bounty, command, evidence))
      /\ command.kind = "open_bounty" => Clear(C!OpenBountyChecks(bounty, command))
      /\ command.kind = "advance_bounty" => Clear(C!AdvanceChecks(bounty, command))
      /\ command.kind = "cancel_bounty" => Clear(C!CancelChecks(bounty, command))
      /\ command.kind = "settle_bounty" =>
             Clear(C!SettleChecks(bounty, command)) /\ command.payouts # <<>>
  BY <1>1, TakenCommon
<1>3. /\ command.kind = "submit_candidate" => Clear(C!SubmitChecks(bounty, command))
      /\ command.kind = "verify_submission" => Clear(C!VerifyChecks(bounty, command, evidence))
      /\ command.kind = "open_challenge" => Clear(C!ChallengeChecks(bounty, command))
      /\ command.kind = "resolve_challenge" => Clear(C!ResolveChecks(bounty, command, evidence))
  BY TakenClear
<1>4. CASE command.kind = "open_bounty"
  <2>1. CarriedOut(C!OpenBounty(bounty, command))
    BY <1>4 DEF C!Handled
  <2>2. /\ C!M!OpenBounty(command.funded, command.now)
        /\ Counted(bounty') /\ held' \in Holdings
    BY <1>2, <1>4, <2>1, OpenBountySeen
  <2>3. command.funded \in Amounts /\ command.now \in Times
    BY <1>1, <1>4 DEF Tried
  <2> QED
    BY <2>2, <2>3 DEF C!M!Next
<1>5. CASE command.kind = "submit_candidate"
  <2>1. CarriedOut(C!SubmitCandidate(bounty, command))
    BY <1>5 DEF C!Handled
  <2>2. /\ C!M!SubmitCandidate(command.submission, command.verifier, command.bond, command.now)
        /\ Counted(bounty') /\ held' \in Holdings
    BY <1>3, <1>5, <2>1, SubmitCandidateSeen
  <2>3. /\ command.submission \in SubmissionIds /\ command.verifier \in Verifiers
        /\ command.bond \in Amounts /\ command.now \in Times
    BY <1>1, <1>5 DEF Tried, Addressed
  <2>4. C!M!Submit
    BY <2>2, <2>3 DEF C!M!Submit
  <2> QED
    BY <2>2, <2>4 DEF C!M!Next
<1>6. CASE command.kind = "verify_submission"
  <2>1. CarriedOut(C!VerifySubmission(bounty, command))
    BY <1>6 DEF C!Handled
  <2> DEFINE receipt == C!Abbreviated(command.receipt)
  <2>2. /\ command.submission \in SubmissionIds
        /\ receipt \in C!M!SignedOver(SubmissionIds)
    BY <1>2, <1>3, <1>6, VerdictSeen
  <2>3. command.now \in Times /\ command.verdict \in BOOLEAN
    BY <1>1, <1>6 DEF Tried
  <2>4. /\ \/ C!M!VerifyAccepted(command.submission, receipt, command.now)
           \/ C!M!VerifyRejected(command.submission, receipt, command.now)
        /\ Counted(bounty') /\ held' \in Holdings
    <3>1. CASE command.verdict
      BY <1>2, <1>3, <1>6, <2>1, <3>1, VerifyAcceptedSeen
    <3>2. CASE ~command.verdict
      BY <1>2, <1>3, <1>6, <2>1, <3>2, VerifyRejectedSeen
    <3> QED
      BY <3>1, <3>2
  <2> HIDE DEF receipt
  <2>5. C!M!Verify
    BY <2>2, <2>3, <2>4 DEF C!M!Verify
  <2> QED
    BY <2>4, <2>5 DEF C!M!Next
<1>7. CASE command.kind = "open_challenge"
  <2>1. CarriedOut(C!OpenChallenge(bounty, command))
    BY <1>7 DEF C!Handled
  <2>2. /\ C!M!OpenChallenge(command.challenge, command.submission, command.deposit,
                             command.now)
        /\ Counted(bounty') /\ held' \in Holdings
    BY <1>3, <1>7, <2>1, OpenChallengeSeen
  <2>3. /\ command.challenge \in ChallengeIds /\ command.submission \in SubmissionIds
        /\ command.deposit \in Amounts /\ command.now \in Times
    BY <1>1, <1>7 DEF Tried, Addressed
  <2>4. C!M!Challenge
    BY <2>2, <2>3 DEF C!M!Challenge
  <2> QED
    BY <2>2, <2>4 DEF C!M!Next
<1>8. CASE command.kind = "resolve_challenge"
  <2>1. CarriedOut(C!ResolveChallenge(bounty, command))
    BY <1>8 DEF C!Handled
  <2> DEFINE receipt == C!Abbreviated(command.receipt)
  <2>2. /\ command.challenge \in ChallengeIds
        /\ receipt \in C!M!SignedOver(ChallengeIds)
    BY <1>2, <1>3, <1>8, ResolutionSeen
  <2>3. command.now \in Times /\ command.verdict \in BOOLEAN
    BY <1>1, <1>8 DEF Tried
  <2>4. /\ \/ C!M!ResolveUpheld(command.challenge, receipt, command.now)
           \/ C!M!ResolveRejected(command.challenge, receipt, command.now)
        /\ Counted(bounty') /\ held' \in Holdings
    <3>1. CASE command.verdict
      BY <1>2, <1>3, <1>8, <2>1, <3>1, ResolveUpheldSeen
    <3>2. CASE ~command.verdict
      BY <1>2, <1>3, <1>8, <2>1, <3>2, ResolveRejectedSeen
    <3> QED
      BY <3>1, <3>2
  <2> HIDE DEF receipt
  <2>5. C!M!Resolve
    BY <2>2, <2>3, <2>4 DEF C!M!Resolve
  <2> QED
    BY <2>4, <2>5 DEF C!M!Next
<1>9. CASE command.kind = "advance_bounty"
  <2>1. CarriedOut(C!AdvanceBounty(bounty, command))
    BY <1>9 DEF C!Handled
  <2>2. /\ C!M!AdvancePayable(command.now) \/ C!M!AdvanceExpired(command.now)
        /\ Counted(bounty') /\ held' \in Holdings
    <3>1. CASE C!Verified(bounty) # {}
      BY <1>2, <1>9, <2>1, <3>1, AdvancePayableSeen
    <3>2. CASE C!Verified(bounty) = {}
      BY <1>2, <1>9, <2>1, <3>2, AdvanceExpiredSeen
    <3> QED
      BY <3>1, <3>2
  <2>3. command.now \in Times
    BY <1>1, <1>9 DEF Tried
  <2>4. C!M!Advance
    BY <2>2, <2>3 DEF C!M!Advance
  <2> QED
    BY <2>2, <2>4 DEF C!M!Next
<1>10. CASE command.kind = "settle_bounty"
  <2>1. CarriedOut(C!SettleBounty(bounty, command))
    BY <1>10 DEF C!Handled
  <2>2. C!M!Settle /\ Counted(bounty') /\ held' \in Holdings
    BY <1>2, <1>10, <2>1, SettleBountySeen
  <2> QED
    BY <2>2 DEF C!M!Next
<1>11. CASE command.kind = "cancel_bounty"
  <2>1. CarriedOut(C!CancelBounty(bounty, command))
    BY <1>11 DEF C!Handled
  <2>2. /\ C!M!CancelBounty(command.now)
        /\ Counted(bounty') /\ held' \in Holdings
    BY <1>2, <1>11, <2>1, CancelBountySeen
  <2>3. command.now \in Times
    BY <1>1, <1>11 DEF Tried
  <2> QED
    BY <2>2, <2>3 DEF C!M!Next
<1> QED
  BY <1>1, <1>4, <1>5, <1>6, <1>7, <1>8, <1>9, <1>10, <1>11 DEF Addressed

\* A call that is taken is a step of Market's, and leaves a sound bounty.
LEMMA CommitsSeen ==
    ASSUME Sound(bounty, held), NEW command, NEW evidence, Tried(command),
           C!Commits(command, evidence)
    PROVE  C!M!Next /\ Sound(bounty', held')
<1> DEFINE d == C!apply_market_command(bounty, command, evidence)
<1>1. Taken(d) /\ CarriedOut(d)
  BY DEF C!Commits, CarriedOut, Taken
<1>2. d = C!Handled(bounty, command) /\ Clear(C!Checks(bounty, command, evidence))
  BY <1>1, TakenHandled
<1>3. Addressed(command) /\ Split(command)
  BY DEF Tried
<1>4. Whole(d.next)
  BY <1>1, <1>3, TakenWhole DEF Sound
<1>5. bounty' = d.next
  BY <1>1 DEF CarriedOut
<1> HIDE DEF d
<1>6. /\ C!market_state_violations(bounty) = {}
      /\ Clear(C!CommonChecks(bounty, command, evidence))
  BY <1>2, <1>3, TakenCommon
<1>7. command.id \in (1..MaxCommands) \ bounty.processed
  BY <1>3, <1>6, CommonClear DEF Addressed
<1>8. Received(command)
  BY <1>6, <1>7 DEF Received
<1>9. CarriedOut(C!Handled(bounty, command))
  BY <1>1, <1>2, Zenon
<1>10. C!M!Next /\ Counted(bounty') /\ held' \in Holdings
  BY <1>2, <1>8, <1>9, ReceivedSeen
<1>11. Whole(bounty')
  BY <1>4, <1>5, Zenon
<1> QED
  BY <1>10, <1>11 DEF Sound

\* When nothing happens, Market sees nothing.
LEMMA IdleSeen == UNCHANGED C!vars => UNCHANGED C!M!vars
  BY DEF C!vars, C!M!vars

\* The function as written, with every refusal and every check of its evidence, takes only the
\* steps that Market describes, whatever callers try (core/market.py:369-900).
THEOREM CallsImplementMarket == NoneIsNoReceipt /\ C!Spec => ImplementsMarket
<1> SUFFICES ASSUME NoneIsNoReceipt PROVE C!Spec => ImplementsMarket
  OBVIOUS
<1> DEFINE Inv == \E b, h : b = bounty /\ h = held /\ Sound(b, h)
<1>1. C!Init => C!M!Init /\ Inv
  BY FirstSeen
<1>2. ASSUME Inv, [C!Next]_(C!vars)
      PROVE  [C!M!Next]_(C!M!vars) /\ Inv'
  <2>1. Sound(bounty, held)
    BY <1>2
  <2>2. CASE UNCHANGED C!vars
    <3>1. bounty' = bounty /\ held' = held
      BY <2>2 DEF C!vars
    <3>2. Sound(bounty', held')
      BY <2>1, <3>1
    <3> QED
      BY <2>2, <3>2, IdleSeen
  <2>3. ASSUME NEW command, NEW evidence, Tried(command), C!Commits(command, evidence)
        PROVE  C!M!Next /\ Inv'
    <3>1. C!M!Next /\ Sound(bounty', held')
      BY <2>1, <2>3, CommitsSeen
    <3> QED
      BY <3>1
  <2>4. CASE C!Act
    BY <2>3, <2>4, UnprovenTried DEF C!Act
  <2>5. CASE C!Rule
    BY <2>3, <2>5, ProvenTried DEF C!Rule
  <2> QED
    BY <1>2, <2>2, <2>4, <2>5 DEF C!Next
<1> HIDE DEF Inv
<1> QED
  BY <1>1, <1>2, PTL DEF C!Spec, ImplementsMarket, C!ImplementsMarket, C!M!Spec
=============================================================================
