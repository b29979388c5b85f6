SPECIFICATION TailSpec
CONSTANTS
    MaxFiles = 3
    MaxLines = 2
    MaxEvents = 3
    NoFile = NoFile
INVARIANTS
    NoGaps
PROPERTIES
    LinesArePrinted
