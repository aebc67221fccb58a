CONSTANTS
    User = {u1}
    Session = {s1, s2, s3, s4}
    Connection = {c1, c2}
    NoUser = NoUser
    NoSession = NoSession
SPECIFICATION Spec
SYMMETRY Symmetric
INVARIANTS TypeOK OneLiveSession ReuseEndsFamily
CHECK_DEADLOCK FALSE
