SPECIFICATION FairSpec
CONSTANTS
    n1 = n1
    elsewhere = elsewhere
    a1 = a1
    a2 = a2
    x = x
    y = y
    t1 = t1
    Nil = Nil
    Nodes = {n1}
    Units = {x, y}
    Tenant <- TenantValue
    System = System
    Unknown = {}
    Admins = {a1, a2}
    Home <- HomeValue
    Edits <- EditsValue
    Unchecked = {}
    MaxVersion <- MaxVersionValue
    ReloadsFail = TRUE
    MaxIncidents = 1
INVARIANTS TypeOK EditsKept StaleIsDue
PROPERTIES Converges
CHECK_DEADLOCK FALSE
