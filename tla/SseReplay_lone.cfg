\* One tab that receives broadcasts and connection:established, a ring of two events that
\* a restart loses, and a queue that holds every event.
SPECIFICATION Spec
CONSTANTS
    a = a
    b = b
    Clients = {a}
    ReplayBufferSize = 2
    QueueConfigured = TRUE
    MaxPerUser = 4
    RetrieveLimit = 4
    StorageMayFail = FALSE
    Elsewhere = FALSE
    Broadcasts = TRUE
    EmitConnectionEvent = TRUE
    MaxEvents = 3
    MaxRestarts = 1
INVARIANTS
    DeliveredInOrder
    IInv
    LossesExplained
PROPERTIES
    ReplayComplete
\* Events and restarts are bounded and a client need not reconnect: the system may stop.
CHECK_DEADLOCK FALSE
