SPECIFICATION CallsSpec
CONSTANTS
    s1 = s1
    s2 = s2
    c1 = c1
    p1 = p1
    p2 = p2
    r1 = r1
    r2 = r2
    v1 = v1
    v2 = v2
    f1 = f1
    f2 = f2
    None = None
    Sponsor = sponsor
    Treasury = treasury
    SubmissionIds <- TwoSubmissions
    ChallengeIds <- OneChallenge
    MaxCommands = 7
    Parties <- TwoParties
    Recipes <- TwoRecipes
    AcceptedRecipes <- OneRecipe
    Verifiers <- TwoVerifiers
    AcceptedVerifiers <- OneVerifier
    Findings <- TwoFindings
    SlashableFindings <- OneFinding
    Amounts <- SmallAmounts
    Times <- BoundaryTimes
    Reward = 2
    MinBounty = 0
    MinSubmissionBond = 1
    PolicyMinBond = 0
    MinChallengeDeposit = 1
    Deadline = 1
    ChallengeWindow = 1
    ResolutionSeconds = 1
SYMMETRY Interchangeable
INVARIANTS
    RightValue
    Contestable
PROPERTIES
    ImplementsMarket
\* A closed bounty accepts no command, and neither does one whose ids are used up.
CHECK_DEADLOCK FALSE
