CONSTANTS
    MaxConnections = 1
    Scenarios = 1
    MaxInFlight = 1
    MaxWire = 2
    Peer = {"cancels"}
SPECIFICATION Spec
INVARIANTS CancelledTryIsClosed
CHECK_DEADLOCK FALSE
