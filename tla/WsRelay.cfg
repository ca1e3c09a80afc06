SPECIFICATION Spec
CONSTANTS
    p1 = p1
    Nil = Nil
    Sessions = {s1, s2}
    Requests = {r1}
    Provider <- SameProvider
    Target <- SameTarget
    Capacity = 1
    MaxParts = 2
INVARIANTS NobodyForgotten SuccessIsComplete TableIsCurrent PanicNeedsRace NoOrphanCredential
SYMMETRY Symmetry
CHECK_DEADLOCK FALSE
