CONSTANTS
    None = None
    Ips = {ip1}
    w1 = w1
    w2 = w2
    Workers <- Threads
    Window = 3
    Max = 2
    MaxTime = 8
    MaxCalls = 7
SPECIFICATION Spec
SYMMETRY WorkerSymmetry
INVARIANTS TypeOK QuotaPerWindow SpanBounded
CHECK_DEADLOCK FALSE
