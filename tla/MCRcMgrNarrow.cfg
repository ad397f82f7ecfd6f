SPECIFICATION Spec
CONSTANTS
    Inputs <- NarrowInputs
    MaxRbs = 4
    FourG = 48
    BottomOfCompat = 44
    PostedStart = 46
    HoleBase = 100
    HoleEnd = 108
    Size16M = 2
    NonPciMaskAbove4G = 3
    MinNonPciAbove4G = 3
    Uint64 = 4096
    IoGranule = 2
    LegacyIoSize = 2
    X86IoLimit = 32
    DfIoLimit = 64
    Uint32 = 128
    BusCount = 16
CHECK_DEADLOCK FALSE
INVARIANT PairsDisjoint
