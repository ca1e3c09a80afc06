SPECIFICATION FairSpec
CONSTANTS
    n1 = n1
    elsewhere = elsewhere
    a1 = a1
    a2 = a2
    x = x
    y = y
    t1 = t1
    Nil = Nil
    Nodes = {n1}
    Units = {x, y}
    Tenant <- TenantValue
    System = System
    Unknown = {}
    Admins = {a1, a2}
    Home <- RemoteHome
    Edits <- RemoteEdits
    Unchecked = {}
    MaxVersion <- OneWrite
    ReloadsFail = FALSE
    MaxIncidents = 1
PROPERTIES LossOnlyDelays
CHECK_DEADLOCK FALSE
