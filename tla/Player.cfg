SPECIFICATION Spec
CONSTANTS
    Batch = 2
    Batches = 3
    Depth = 2
    Delay1 = 1
    Delay2 = 2
    FREQ_READER_INCREMENT = 100
    FREQ_READER_NOMINAL = 100
INVARIANTS
    TypeOK
    FifoNeverOverruns
    NoCommandMissed
    StartsAtBeginning
    FrequencyApplied
PROPERTIES
    PlaysTheStream
    KeepsPolling
    PlayIsHeard
CHECK_DEADLOCK TRUE
