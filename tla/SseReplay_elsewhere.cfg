\* Another instance emits as well; the queue keeps two events, gives one at a time and may fail.
SPECIFICATION Spec
CONSTANTS
    a = a
    b = b
    Clients = {a}
    ReplayBufferSize = 2
    QueueConfigured = TRUE
    MaxPerUser = 2
    RetrieveLimit = 1
    StorageMayFail = TRUE
    Elsewhere = TRUE
    Broadcasts = FALSE
    EmitConnectionEvent = FALSE
    MaxEvents = 3
    MaxRestarts = 0
INVARIANTS
    PrunedWereCovered
\* Events and restarts are bounded and a client need not reconnect: the system may stop.
CHECK_DEADLOCK FALSE
