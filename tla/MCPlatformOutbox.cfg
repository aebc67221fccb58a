CONSTANTS
    Event = {e1, e2}
    Unsupported = {e2}
    Worker = {w1, w2}
    NoWorker = NoWorker
    NoClaim = NoClaim
    MaxAttempts = 2
    BatchLimit = 2
SPECIFICATION FairSpec
INVARIANTS TypeOK NotifiedOnce
PROPERTIES OnlyLatestAttemptMarks EventsSettle
CHECK_DEADLOCK FALSE
