SPECIFICATION MemSpec
CONSTANTS
    Capacity = 11
    AddressCount = 12
    MinAlign = 2
    MaxAlign = 4
    MaxAllocs = 4
    Sizes = {0, 1, 3, 4, 12}
    Alignments = {0, 3, 4, 8}
INVARIANTS LiveDisjoint FirstFitIsLowest FragIsExact
