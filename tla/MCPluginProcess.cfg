SPECIFICATION Spec
CONSTANTS
    Namespaces = {nsA, nsB}
    Keys = {user, port}
    Values = {root, other}
    None = None
    Handlers = {h1, h2}
    Metrics = {m1, m2}
    Idle = Idle
    Results <- ResultSet
    CommandLines <- CommandLineSet
    Texts = {good, bad, strings, bools, mixed, rotten, spoilt, closed, elsewhere, cfg}
    Numbers = {good}
    OptionsIn <- FileOptions
    ConfigIn <- ConfigOf
    Malformed = {bad}
    Contents = {ca1, ca2}
    FileAt <- FileOf
    PathsIn <- PathsOf
    MaxRules = 2
    user = user
    root = root
    m1 = m1
    m2 = m2
    good = good
    bad = bad
    strings = strings
    bools = bools
    mixed = mixed
    rotten = rotten
    spoilt = spoilt
    closed = closed
    ca1 = ca1
    ca2 = ca2
    elsewhere = elsewhere
    cfg = cfg
\* The process may end, and a serving plugin may get no more calls.
CHECK_DEADLOCK FALSE
INVARIANTS ProcessInv GivenKept CollectsVetted AuthorityAsTold EndsForCause RepliesWhole ArgumentsHonoured SecureAsTold
