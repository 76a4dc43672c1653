CONSTANTS
    Runtimes <- Both
    Strategies <- AllStrategies
    Solvers <- On
    Budget = 1
    Relapses <- Off
    Unlisted <- Off
    None = None
    SolverTimeout = 2
    HttpLimit <- Limits
SPECIFICATION SolverSpec
PROPERTIES OpenedTaskIsPolled
CHECK_DEADLOCK FALSE
