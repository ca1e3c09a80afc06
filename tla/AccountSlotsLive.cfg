CONSTANTS
    Requests = {r1, r2, r3}
    Accounts = {a1, a2}
    Limits = {1}
    QueueDepth = 2
    NoAccount = NoAccount
    Orphan = Orphan
SPECIFICATION FairSpec
INVARIANT TypeOK
PROPERTIES NoOvertaking EveryRequestEnds ImplementsSlotService
