\* The harness's five contexts and one of another client, one crash, one failing
\* write, one change of the registry directory.  A server whose directory or
\* audit file cannot be read never starts again: CHECK_DEADLOCK FALSE.
CONSTANTS
    h1 = h1
    h3 = h3
    h4 = h4
    h5 = h5
    ha = ha
    x1 = x1
    want = want
    strict = strict
    plain = plain
    telling = telling
    a = a
    b = b
    submit = submit
    other = other
    RequestIds = {h1, h3, h4, h5, ha, x1}
    ActionRefs = {a, b}
    Null = Null
    Absent = Absent
    Names = {plain, telling}
    Telling = {telling}
    HarnessName = plain
    GroupOrder = 8
    NoEngine = NoEngine
    Predicates = {want, strict}
    Want = want
    Tools = {submit, other}
    GovernedTools = {submit}
    Docs <- MCDocs
    Directories <- MCDirectories
    Proofs <- MCProofs
    WriteFaults = {"torn", "unterminated", "whole"}
    MaxCrashes = 1
    MaxErrors = 1
    MaxChanges = 1
    LiveChanges = FALSE
    NoContext = NoContext
    NoEntry = NoEntry
    NoCall = NoCall
    NoDoc = NoDoc
    Undecodable = Undecodable
    HarnessId <- MCHarnessId
    OtherIds = {x1}
    OtherRefs = {Null}
    OtherNames = {telling}
    OtherEnvelopes <- MCOtherEnvelopes
    OrderA = a
    OrderB = b
    Strict = strict
    HonestValue = 2
    LargeValue = 3
CHECK_DEADLOCK FALSE
SPECIFICATION HarnessSpec
INVARIANTS
    TypeOK
    OneVerdictPerContext
    OrdersAuthorised
    OrdersWithinCap
    NoProofReplay
    AnswersAreTrue
    ApprovalsLostOnlyInFailures
    ResumedAtTail
    ChecksPass
PROPERTIES
    AuthorizationSpec
    HarnessEnds
