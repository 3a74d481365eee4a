\* Two concurrent calls, two contexts, a crash; every context is asked for the
\* right predicate, proofs come for either.
CONSTANTS
    c1 = c1
    c2 = c2
    r1 = r1
    r2 = r2
    t1 = t1
    a1 = a1
    a2 = a2
    want = want
    other = other
    submit = submit
    query = query
    Calls = {c1, c2}
    RequestIds = {r1, r2}
    TaskIds = {t1}
    ActionRefs = {a1, a2}
    Predicates = {want, other}
    Asked = {want}
    Forms = {"attested"}
    Tools = {submit, query}
    GovernedTools = {submit}
    Want = want
    Registered = {want, other}
    RangeLeq = {want, other}
    MeasurementRequired = FALSE
    SweepPeriod = 1
    MaxCrashes = 1
    NoContext = NoContext
    NoEntry = NoEntry
    NoTask = NoTask
    NoCall = NoCall
SPECIFICATION Spec
INVARIANTS
    OneVerdictPerContext
    OrdersAuthorised
    OrderPerVerdict
    TaskImpliesOrder
PROPERTY AuthorizationSpec
SYMMETRY Symmetry
