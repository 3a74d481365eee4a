\* One call at a time over two contexts and two predicates, an attestation required,
\* no crash: what must happen in the end.
CONSTANTS
    c1 = c1
    c2 = c2
    r1 = r1
    r2 = r2
    t1 = t1
    a1 = a1
    a2 = a2
    want = want
    other = other
    submit = submit
    query = query
    Calls = {c1}
    RequestIds = {r1, r2}
    TaskIds = {t1}
    ActionRefs = {a1}
    Predicates = {want, other}
    Asked = {want, other}
    Forms = {"undecodable", "plain", "attested"}
    Tools = {submit, query}
    GovernedTools = {submit}
    Want = want
    Registered = {want, other}
    RangeLeq = {want, other}
    MeasurementRequired = TRUE
    SweepPeriod = 1
    MaxCrashes = 0
    NoContext = NoContext
    NoEntry = NoEntry
    NoTask = NoTask
    NoCall = NoCall
SPECIFICATION FairSpec
INVARIANT TypeOK
PROPERTIES
    PassedIsExecuted
    Evicted
