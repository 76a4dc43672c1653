CONSTANTS
    None = None
    Second = 1
    Window = 1
    DefaultRate = 1
    MaxRate = 3
    MinCooldown = 1
    MaxCooldown = 2
    LatencyWindow = 1
    Callers = {c1}
    MaxCalls = 3
    LastSend = 2
    Lag = 1
    Patience = 2
    Longest = 2
    Kinds = {"search"}
    Outcomes <- MCOutcomes
SPECIFICATION Spec
INVARIANTS MetricsMatch  RunsPerCaller
PROPERTIES EveryCallReturns
CHECK_DEADLOCK FALSE
