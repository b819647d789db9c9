SPECIFICATION FairSpec
CONSTANTS
    s1 = s1
    s2 = s2
    c1 = c1
    c2 = c2
    v1 = v1
    v2 = v2
    v3 = v3
    None = None
    SubmissionIds <- TwoSubmissions
    ChallengeIds <- TwoChallenges
    Verifiers <- ThreeVerifiers
    AcceptedVerifiers <- TwoAccepted
    Amounts <- UnitAmounts
    Times <- SparseTimes
    Reward = 1
    MinBounty = 0
    MinSubmissionBond = 1
    PolicyMinBond = 0
    MinChallengeDeposit = 1
    Deadline = 1
    ChallengeWindow = 1
    ResolutionSeconds = 1
INVARIANTS
    TypeOK
    ValidState
    Conservation
    StakesFollowVerdicts
    PaidSurvived
    VerdictsFresh
PROPERTIES
    ImplementsEscrow
    EventuallyClosed
\* A closed bounty accepts no command.
CHECK_DEADLOCK FALSE
