CONSTANTS
    Requests = {r1, r2, r3}
    Accounts = {a1, a2}
    Limits = {1, 2}
    QueueDepth = 2
    NoAccount = NoAccount
    Orphan = Orphan
SYMMETRY Symmetry
SPECIFICATION Spec
INVARIANTS SlotAccounting ConcurrencyBound NoStrandedWaiter OneTurnPerAccount
