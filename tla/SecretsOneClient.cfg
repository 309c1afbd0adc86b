SPECIFICATION ReadsSpec
CONSTANTS
    a = a  b = b  d1 = d1  d2 = d2  v1 = v1  v2 = v2  m1 = m1  k1 = k1  k2 = k2
    Keep = Keep
    Nil = Nil
    Path <- Paths
    Desc <- Descs
    Meta <- Metas
    Value <- Values
    Keks <- AllKeks
    Kek = k1
    Req = {r1, r2, r3}
    Jobs <- ClientJobs
    Inflight = 1
    Failures = {"process"}
    ReadsFail = TRUE
    Reader = {q1}
    Scopes <- KeyScopes
    Limit = 1
SYMMETRY Symmetry
CHECK_DEADLOCK FALSE
INVARIANTS
    ReadsTypeOK
    IndexInSync
    ReadsStayInScope
    ReadsAreGenuine
    ListsMissNothing
    SearchesAnswer
PROPERTIES
    DescChangeBumpsVersion
    KeepsPromise
