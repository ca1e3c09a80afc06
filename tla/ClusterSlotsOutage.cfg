CONSTANTS
    n1 = n1
    n2 = n2
    r1 = r1
    r2 = r2
    r4 = r4
    Nodes = {n1, n2}
    Requests = {r1, r2, r4}
    Home <- HomeTwoOne
    Limits = {0, 1}
    Views = {1, 2}
    Lapses = TRUE
    MaxOrphans = 0
SYMMETRY SymmetryTwo
SPECIFICATION Spec
INVARIANTS LocalAccounting LeaseAccounting
