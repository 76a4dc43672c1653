CONSTANTS
    None = None
    Second = 1
    Window = 2
    DefaultRate = 1
    MaxRate = 2
    MinCooldown = 2
    MaxCooldown = 2
    Keys = {k1}
    Times <- MCTimes
    StepBack = 0
    Rates <- MCRates
    Lifetimes <- MCLifetimes
    Cooldowns <- MCCooldowns
    Requests = {q1, q2}
    Bodies <- MCBodies
SPECIFICATION AdmissionSpec
INVARIANTS EverySearchApart
CHECK_DEADLOCK FALSE
