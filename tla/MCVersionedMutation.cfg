CONSTANTS
    s1 = s1  s2 = s2  s3 = s3  k1 = k1  k2 = k2  a1 = a1  a2 = a2
    p = p  q = q
    Session = {s1, s2, s3}
    Key = {k1, k2}
    Agg = {a1, a2}
    Synced = {a1}
    Payload = {p, q}
    Command <- MCCommand
    MaxRequests = 3
    MaxOutside = 2
    NoRecord = NoRecord
SPECIFICATION FairSpec
INVARIANTS TypeOK ExactlyOnce SerialVersions AnswersTruthful
PROPERTIES ImplementsStore EveryRequestEnds
CHECK_DEADLOCK FALSE
