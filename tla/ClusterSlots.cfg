CONSTANTS
    n1 = n1
    n2 = n2
    r1 = r1
    r2 = r2
    r4 = r4
    Nodes = {n1, n2}
    Requests = {r1, r2, r4}
    Home <- HomeTwoOne
    Limits = {2}
    Views = {2}
    Lapses = FALSE
    MaxOrphans = 2
SYMMETRY SymmetryTwo
SPECIFICATION Spec
INVARIANTS TypeOK LocalAccounting KindAccounting LeaseAccounting ShareBound ClusterLimit
