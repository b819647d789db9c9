SPECIFICATION Spec
CONSTANTS
    h1 = h1
    h2 = h2
    p = p
    q = q
    support = support
    refute = refute
    neutral = neutral
    blob = blob
    None = None
    Checkers = {p, q}
    Hypotheses = {h1, h2}
    Contexts = {}
    Recipes = {support, refute, neutral}
    verdict_on_pass <- Verdicts
    check_recipe_refs <- Lists
    Statuses = {"PASS", "FAIL"}
    Written <- SomeWritten
    Drafts <- SomeDrafts
    MaxCited = 1
    MaxRuns = 2
    MaxRecords = 2
SYMMETRY Interchangeable
INVARIANTS
    StatusEarned
    PassShows
PROPERTIES
    NeverTakenBack
\* The log is full, and nothing is left to run.
CHECK_DEADLOCK FALSE
