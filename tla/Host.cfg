\* One tile, rings of two slots, a register of two bits under indices of three.
SPECIFICATION HostSpec
CONSTANTS
    TileCount = 1
    CmdDepth = 2
    CompDepth = 2
    IndexRange = 8
    RegisterRange = 4
    HookResults = {"OK"}
    KindArgs = {"control"}
    NoEntry = NoEntry
    CommandLimit = 2
    RefusalLimit = 1
    ErrorCodes = {1}
INVARIANTS CountersWereTrue FileCoherent
