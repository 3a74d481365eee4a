\* One call, one context, two predicates.
CONSTANTS
    c1 = c1
    c2 = c2
    r1 = r1
    r2 = r2
    t1 = t1
    a1 = a1
    a2 = a2
    want = want
    other = other
    submit = submit
    query = query
    Calls = {c1}
    RequestIds = {r1}
    TaskIds = {t1}
    ActionRefs = {a1}
    Predicates = {want, other}
    Asked = {want, other}
    Forms = {"undecodable", "plain", "attested"}
    Tools = {submit, query}
    GovernedTools = {submit}
    Want = want
    Registered = {want}
    RangeLeq = {want}
    MeasurementRequired = TRUE
    SweepPeriod = 1
    MaxCrashes = 0
    NoContext = NoContext
    NoEntry = NoEntry
    NoTask = NoTask
    NoCall = NoCall
SPECIFICATION Spec
INVARIANT PredicateMatchesContext
