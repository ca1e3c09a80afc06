CONSTANTS
    Nodes = {n1, n2}
    Models = {m1, m2}
    Account = Account
    Uncooled = {n2}
    QuotaDelays = {5}
    SuspendDelays = {3}
    BackoffDelays = {1}
    Cap = 3
    Slack = 1
    Parts = 2
    Millis = 2
    QueueSize = 1
    MaxTime = 4
    MaxInputs = 2
SYMMETRY Symmetry
SPECIFICATION Spec
INVARIANTS TypeOK CooldownHasCause AnnouncedWithinSlack
PROPERTIES PeersOnlyExtend NoShorterThanReported
CHECK_DEADLOCK FALSE
