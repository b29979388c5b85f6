SPECIFICATION CachesSpec
CONSTANTS
    r1 = r1
    r2 = r2
    Reader = {r1, r2}
    s1 = s1
    s2 = s2
    Subject = {s1, s2}
    MaxEntries = 1
    TTL = 2
    Timeout = 1
    ProbeTTL = 1
    MaxAge = 2
    ProbeTimeout = 2
    BackoffSteps = 2
    MaxChanges = 2
    Unset = Unset
INVARIANTS
    AnswersWereCurrent
    AnswersAreFresh
PROPERTIES
    SamplesComeBack
CHECK_DEADLOCK FALSE
