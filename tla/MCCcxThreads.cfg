CONSTANTS
    Systems <- MCSystems
    InputBlocks <- MCInputBlocks
    XAPIC_ID_MAX = 6

SPECIFICATION Spec

INVARIANTS
    ThreadsSetUp
    CoresAndComplexesSetUp
    SratListsAll

