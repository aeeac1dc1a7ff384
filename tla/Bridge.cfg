\* Inboxes of two packets, three packets and two arrivals of each side, a fault.
SPECIFICATION Spec
CONSTANTS
    Capacity = 2
    SendLimit = 3
    BarrierLimit = 2
    FailureLimit = 3
    FaultLimit = 1
CHECK_DEADLOCK FALSE
INVARIANTS RelaySound RendezvousMeets
