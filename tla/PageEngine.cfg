CONSTANTS
    Runtimes <- Both
    Strategies <- AllStrategies
    Solvers <- OnOff
    Budget = 3
    Relapses <- OnOff
    Unlisted <- OnOff
    None = None
    SolverTimeout = 2
    HttpLimit <- Limits
SPECIFICATION SolverSpec
INVARIANTS SolverTypeOK NoChallengeAsContent BlockedForCause SolveBounded
PROPERTIES EveryRequestAnswered ImplementsPageEngine
CHECK_DEADLOCK FALSE
