\* Two sessions over two layers compete for two pages of two tokens; positions
\* and counts include the ones whose size_t sum wraps around.
SPECIFICATION Spec
CONSTANTS
    SessionIds = {0, 1}
    MaxSessions = 2
    MaxPages = 2
    NumLayers = 2
    NumHeads = 1
    PageTokens = 2
    MaxPositions = 3
    SizeMax = 7
    Payloads = {v1, v2}
    Absent = Absent
    CounterLimit = 1
    PositionArgs = {0, 1, 2, 3, 7}
    CountArgs = {2, 7}
SYMMETRY PayloadSymmetry
INVARIANTS TypeOK MappingUnique PagesOwned PrefixClosed NoEmptyPage CountersConsistent
PROPERTY ImplementsStore
