\* Three tiles with rings of two packets, three packets under way: sends and broadcasts
\* that find one of their destinations full, between arrivals at the barrier.
SPECIFICATION FabricSpec
CONSTANTS
    TileCount = 3
    QueueCapacity = 2
    MaxPayload = 1
    Bodies = {b1}
    NoPacket = NoPacket
    SizeArgs = {1, 2}
    GroupArgs <- SomeGroups
    SetArgs <- SomeArrays
    CounterLimit = 1
    PacketLimit = 3
INVARIANTS PacketsConserved BarrierConsistent
PROPERTIES ImplementsFifo RoundCompletes
