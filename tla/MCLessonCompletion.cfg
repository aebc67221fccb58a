CONSTANTS
    Lesson = {l1, l2}
    Worker = {w1, w2}
    NoWorker = NoWorker
    NoClaim = NoClaim
    MaxAttempts = 2
    ClaimLimit = 2
    ReviewLimit = 1
    MaxVersion = 2
SPECIFICATION Spec
SYMMETRY Symmetric
INVARIANTS TypeOK SettledExactlyOnce PendingCanBeSettled
PROPERTIES FencedOutcome
CHECK_DEADLOCK FALSE
