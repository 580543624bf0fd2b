SPECIFICATION FairSpec
CONSTANTS
    e1 = e1
    e2 = e2
    s1 = s1
    s2 = s2
    k1 = k1
    t1 = t1
    Eiar = {e1, e2}
    Sayi = {s1, s2}
    Skaye = {k1}
    Sv = Sv
    Peers0 <- KnownPeers0
    Task = {t1}
    Owner <- OneOwner
    Lists = {{s1}, {e1, e2}, {Sv}}
    None = None
    MaxSteps = 3
    Early <- MCEarly
    MaxTrouble = 1
INVARIANTS TypeOK WhitelistIsFile IslandsKept RegistryKnowsFile
PROPERTY MatchmakingEnds
\* A behaviour may stop: tasks and their tool calls are bounded.
CHECK_DEADLOCK FALSE
