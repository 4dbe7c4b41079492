\* One thread that spawns, inspects, makes supervised calls and may be interrupted,
\* and one that pumps and cancels.
SPECIFICATION Spec
CONSTANTS
    Spawner = {d1}
    Pumper = {d2}
    Supervisor = {d1}
    Canceller = {d2}
    Interruptible = {d1}
    MaxAgents = 2
    MaxCalls = 1
    MailboxSize = 1
    Posted = {"cancel"}
    None = None
    d1 = d1
    d2 = d2
INVARIANTS TypeOK WorkerFactsAreLive PendingIsAccounted
PROPERTY CancelReachesTree
CHECK_DEADLOCK FALSE
