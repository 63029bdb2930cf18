SPECIFICATION FairSpec

CONSTANTS
    Hosts = {h1, h2}
    FamilyOrder <- IPv4Only
    Gateways = {g1, g2}
    Leases = {g1, g2}
    InitialFlags = {TRUE, FALSE}
    MaxEnv = 1
    MaxFail = 1
    Launcher = launcher
    NoProc = NoProc
    Readable = {"IPV4"}

INVARIANTS JournalCoversDamage StopRestores
PROPERTIES OriginalIsOriginal OrphansRecovered
