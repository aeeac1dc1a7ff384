SPECIFICATION Spec
CONSTANTS
    AddressRange = 16
    AlignBytes = 2
    MaxRegions = 1
    Regions <- MCRegions
    t1 = t1
    t2 = t2
    Tensors = {t1, t2}
    MaxTransfer = 4
    MaxResident = 1
    Addresses = {0, 3, 14}
    Lengths = {0, 2, 6}
    AttemptLimit = 3
    RefusalLimit = 1
INVARIANTS ValidIsInside ResidencySound
SYMMETRY Symmetry
