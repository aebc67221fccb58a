CONSTANTS
    User = {u1, u2}
    Staff = {u1}
    Connection = {c1, c2}
    MaxVersion = 3
SPECIFICATION Spec
SYMMETRY Symmetric
INVARIANTS TypeOK OverridesFitRole AdminsLostOnlyByDeletion
PROPERTIES HierarchyRespected
CHECK_DEADLOCK FALSE
