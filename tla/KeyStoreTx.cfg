CONSTANTS
    None = None
    Second = 2
    Window = 2
    DefaultRate = 2
    MaxRate = 3
    MinCooldown = 1
    MaxCooldown = 3
    Keys = {k1}
    c1 = c1
    c2 = c2
    Conns = {c1, c2}
    RuntimeOf <- Mixed
    Nobody = Nobody
    MaxTime = 4
    Rates <- MCRates
    Lifetimes <- MCLifetimes
    Cooldowns <- MCCooldowns
SPECIFICATION FairSpec
INVARIANTS RevocationSticks
PROPERTIES ImplementsKeyStore EveryCallEnds
