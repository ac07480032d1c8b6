\* The queue is configured, and an event emitted during the handshake is missed.
SPECIFICATION Spec
CONSTANTS
    a = a
    b = b
    Clients = {a}
    ReplayBufferSize = 4
    QueueConfigured = TRUE
    MaxPerUser = 4
    RetrieveLimit = 4
    StorageMayFail = FALSE
    Elsewhere = FALSE
    Broadcasts = FALSE
    EmitConnectionEvent = FALSE
    MaxEvents = 4
    MaxRestarts = 0
INVARIANTS
    NoEventLost
\* Events and restarts are bounded and a client need not reconnect: the system may stop.
CHECK_DEADLOCK FALSE
