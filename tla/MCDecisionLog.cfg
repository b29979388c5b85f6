SPECIFICATION Spec
CONSTANTS
    MaxEntries = 5
    MaxClock = 1
    MaxSeq = 1
    MaxBytes = 2
    Retentions = {0, 1}
    MaxCrashes = 1
    MaxFaults = 1
    MaxReads = 1
    Bursts = FALSE
INVARIANTS
    HistoryComplete
    HistoryOrdered
    PrunedWhenOutnumbered
    ReadOrdered
    QuietReadComplete
PROPERTIES
    SweepRepairs
    DurableSpec
