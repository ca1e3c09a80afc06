CONSTANTS
    n1 = n1
    n2 = n2
    b1 = b1
    m1 = m1
    m2 = m2
    e1 = e1
    e2 = e2
    Absent = Absent
    Nodes = {n1, n2}
    Background = {b1}
    Management = {m1, m2}
    Editors = {}
    Home <- HomeOfTasks
    MaxToken = 2
    Failures = FALSE
    WriteAttempts = 2
    Deleters = {}
    Slow = {}
SPECIFICATION Spec
CHECK_DEADLOCK FALSE
INVARIANT SpentByOneNode
