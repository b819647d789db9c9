SPECIFICATION FairSpec
CONSTANTS
    s1 = s1
    s2 = s2
    c1 = c1
    c2 = c2
    v1 = v1
    v2 = v2
    v3 = v3
    None = None
    SubmissionIds <- TwoSubmissions
    ChallengeIds <- OneChallenge
    Verifiers <- OneVerifier
    AcceptedVerifiers <- OneVerifier
    Amounts <- UnitAmounts
    Times <- EveryTime
    Reward = 1
    MinBounty = 0
    MinSubmissionBond = 1
    PolicyMinBond = 0
    MinChallengeDeposit = 0
    Deadline = 1
    ChallengeWindow = 1
    ResolutionSeconds = 1
PROPERTIES
    EventuallyClosed
\* A closed bounty accepts no command.
CHECK_DEADLOCK FALSE
