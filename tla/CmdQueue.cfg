\* A command ring of four slots and a completion ring of two, whose indices of two
\* bits wrap around within the bound on commands; the commands and the results of
\* the hook that are counted and answered differently.
SPECIFICATION CmdqSpec
CONSTANTS
    TileCount = 1
    CmdDepth = 4
    CompDepth = 2
    IndexRange = 4
    HookResults = {"OK", "UNSUPPORTED_OP", "ERROR"}
    KindArgs = {"reset", "exec"}
    NoEntry = NoEntry
    CommandLimit = 4
    RefusalLimit = 1
INVARIANTS FencesConsecutive CommandsAccountedFor
PROPERTIES ImplementsChannel DispatchAllReturns
