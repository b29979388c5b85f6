SPECIFICATION FairSpec
CONSTANTS
    None = None
    curl = curl
    agent = agent
    curlname = curlname
    agentname = agentname
    agentbundle = agentbundle
    h1 = h1
    h2 = h2
    h3 = h3
    pinned = pinned
    allowed = allowed
    denied = denied
    Name = {curlname, agentname}
    Exe = {curl, agent}
    Hash = {h1, h2, h3}
    Team = {}
    Host = {pinned, allowed, denied}
    Conn = {c1, c2}
    MaxGrace = 1
    Upgrades <- MCUpgrades
    Unverified = {agent}
    Signed = {curl, agent}
    Interpreter = {curlname}
    NameOf <- MCNameOf
    TeamOf <- MCTeamOf
    BundleOf <- MCBundleOf
    MacRules <- MCMacRules
    LinuxRules <- MCLinuxRules
    LabelsOf <- MCLabelsOf
    Layers <- MCLayers
    Installed <- MCInstalled
    Baseline <- MCBaseline
    Options <- MCOptions
INVARIANTS
    ForwardedOnGrounds
    LogIsFaithful
PROPERTIES
    NeverStands
    FullQueueStaysShut
    EveryConnectionIsDecided
CHECK_DEADLOCK FALSE
