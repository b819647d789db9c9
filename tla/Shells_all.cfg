SPECIFICATION MCSpec
CONSTANTS
    Submission = sub
    Challenge = cha
    Submitter = refuter
    Challenger = challenger
    Sponsor = sponsor
    Treasury = treasury
    Recipe = recipe
    Verifier = verifier
    Finding = invalid_signature
    Settlement = settlement
    DeclaredReceipt = declared_receipt
    DeclaredRuling = declared_ruling
    CR = CR
    LF = LF
    MAX_REQUEST_BYTES = 1
    AdapterRequests <- TwoWrong
    AdapterNested <- SomeNested
    Streams <- SomeStreams
    None = None
    NoCode = NoCode
    NoResult = NoResult
INVARIANTS
    StandsIn
    EndsClean
PROPERTIES
    OneAnswerEach
    RunsEnd
\* The shell stops at the end of its input, and a run of a recipe ends.
CHECK_DEADLOCK FALSE
