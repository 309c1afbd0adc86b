SPECIFICATION RotationSpec
CONSTANTS
    a = a  b = b  d1 = d1  d2 = d2  v1 = v1  m1 = m1  p1 = p1  p2 = p2
    Keep = Keep
    Nil = Nil
    Path <- Paths
    Desc <- Descs
    Meta <- Metas
    Value <- Values
    Password = {p1, p2}
    Master = p1
    Keks <- AllKeks
    Kek <- MasterKek
    Req = {r1}
    Jobs <- EveryJob
    Inflight = 1
    Failures = {}
    Rot = {q1}
SYMMETRY Symmetric
CHECK_DEADLOCK FALSE
INVARIANT
    RotationKeepsVault
