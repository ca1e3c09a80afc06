CONSTANTS
    Members = {m1, m2}
    Limit = 2
    Ttl = 3
    QueueCap = 1
    BatchMax = 2
SPECIFICATION LiveSpec
INVARIANTS TypeOK OwnedIsCounted NothingForgotten
PROPERTY ReleasedVanishes
