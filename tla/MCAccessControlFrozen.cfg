CONSTANTS
    User = {u1, u2}
    Staff = {u1}
    Connection = {c1, c2}
    MaxVersion = 3
SPECIFICATION Spec
INVARIANT AccessStaysChangeable
CHECK_DEADLOCK FALSE
