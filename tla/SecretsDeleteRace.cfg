SPECIFICATION Spec
CONSTANTS
    a = a  b = b  d1 = d1  d2 = d2  v1 = v1  v2 = v2  m1 = m1  k1 = k1  k2 = k2
    Keep = Keep
    Nil = Nil
    Path <- Paths
    Desc <- Descs
    Meta <- Metas
    Value <- OneValue
    Keks <- AllKeks
    Kek = k1
    Req = {r1, r2, r3, r4}
    Jobs <- DeleteJobs
    Inflight = 2
    Failures = {}
SYMMETRY Requests
CHECK_DEADLOCK FALSE
PROPERTY
    DeleteByPath
