SPECIFICATION FairSpec
CONSTANTS
    None = None
    Reader = {r1, r2}
    Pid = {2, 3}
    Name = {"zsh", "cron", "tool"}
    Shell = {"zsh"}
    Cron = {"cron"}
    Job = {"job"}
    CrontabLine <- MCCrontabLine
    Hook <- MCHook
    MaxAncestors = 2
    MaxBirths = 2
    MaxCalls = 2
    MaxTime = 2
INVARIANTS
    FirstSightIsUnique
PROPERTIES
    AttributionReturns
CHECK_DEADLOCK FALSE
