CONSTANTS
    None = None
    Second = 2
    Window = 4
    DefaultRate = 2
    MaxRate = 3
    MinCooldown = 1
    MaxCooldown = 3
    Keys = {k1}
    Times <- MCTimes
    StepBack = 0
    Rates <- MCRates
    Lifetimes <- MCLifetimes
    Cooldowns <- MCCooldowns
SPECIFICATION Spec
INVARIANTS TypeOK SearchSpacing TwiceRatePerSpan CountersExact NeverPastExpiry CooldownAdviceHolds RuntimesAgree QuietCallerAdmitted
PROPERTIES RefusalIsFinal
