SPECIFICATION FairSpec
CONSTANTS
    c1 = c1  c2 = c2  c3 = c3
    p1 = p1
    Calls = {c1, c2, c3}
    NoCall = NoCall
    Procs = {p1}
    Hosts <- MCHosts
    Domains <- MCDomains
    RegDom <- MCRegDom
    proc <- MCProc
    host <- MCHost
    Window = 2
    Burst = 1
    PromptTimeout = 1
    LastStart = 2
INVARIANTS
    VerdictFromPrompt
    RatifiedFromDomainPrompt
    OneDialogPerDomain
    WaitersHaveALeader
PROPERTY
    EveryCallDecided
