SPECIFICATION InstallSpec
CONSTANTS
    Port = {8443, 9443}
    None = None
    Torn = Torn
INVARIANT
    InstallReaches
