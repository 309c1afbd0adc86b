SPECIFICATION Spec
CONSTANTS
    n1 = n1  a = a  b = b  m1 = m1
    Nil = Nil
    Name = {n1}
    Path = {a, b}
    Meta = {m1}
    Ttl = {0}
    Issued <- OneIssued
    Req = {r1, r2}
    Jobs <- DenialJobs
    Inflight = 1
    MaxTime = 1
    Failures = FALSE
SYMMETRY Requests
CHECK_DEADLOCK FALSE
INVARIANT
    DenialsAreLogged
