SPECIFICATION AllSpec
CONSTANTS
    Workers = {socket, reversinglabs}
    Services = {"retention", "repairs"}
    Syncs = {sync}
    Requests = {request}
    Detached = {"last-used", schedule}
    Stuck = {"retention", "repairs", sync, request, schedule}
    ShutdownTimeout = 1
    HardExitDefault = 1
    HardExitBuffer = 1
    Prunes = 1
    Item <- Inventory
    Versions <- Published
    Wants <- Ranges
    LookupWorkers = {x, y}
    Threshold = 2
    MaxPanics = 1
INVARIANTS GoroutinesAccounted LookupsShared
PROPERTIES ImplementsService WorkersServed EverythingEnds
CHECK_DEADLOCK FALSE
