\* Two tiles, two starts of which any thread may fail, commands that block a worker, end
\* it or use a fabric of one slot, spurious wake-ups.
SPECIFICATION Spec
CONSTANTS
    TileCount = 2
    CommandCapacity = 2
    FabricCapacity = 1
    FabricMaxPayload = 1
    CommandMaxPayload = 2
    Commands <- MCCommands
    Body = Body
    NoPacket = NoPacket
    NoCommand = NoCommand
    CreateMayFail = TRUE
    MallocMayFail = TRUE
    StartLimit = 2
    CommandLimit = 2
INVARIANTS WorkersLeaveCleanly ArrivalsAreWaiters OperationsCounted
PROPERTIES BarrierMeets StopReturns RoundsAreLeft CommandsAreTaken
