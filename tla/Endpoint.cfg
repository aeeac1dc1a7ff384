SPECIFICATION Spec
CONSTANTS
    TileCount = 1
    CmdDepth = 4
    CompDepth = 2
    IndexRange = 8
    HookResults = {"OK", "ERROR"}
    KindArgs = {"exec"}
    NoEntry = NoEntry
    CommandLimit = 9
    RefusalLimit = 9
    Clients = {"c1", "c2"}
    ClientXfers = 1
    DaemonXfers = 2
    CallArgs = {"kv_append"}
    CallLimit = 4
INVARIANTS OperandsLive EffectsOnce
PROPERTIES OwnWeight OwnAnswerBringsResult RequestsReturn
CHECK_DEADLOCK FALSE
