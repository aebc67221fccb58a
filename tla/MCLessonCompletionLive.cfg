CONSTANTS
    Lesson = {l1, l2}
    Worker = {w1, w2}
    NoWorker = NoWorker
    NoClaim = NoClaim
    MaxAttempts = 2
    ClaimLimit = 1
    ReviewLimit = 1
    MaxVersion = 1
SPECIFICATION FairSpec
PROPERTIES EndedLessonsLeave
CHECK_DEADLOCK FALSE
