CONSTANTS
    Requests = {r1, r2}
    Invidious <- MCInvidious
    Piped <- MCPiped
    Commands <- MCCommands
    MethodLists <- MCMethodLists
    Offers <- MCOffers
    Cooldown = 1
    MaxTime = 3
    None = None
SPECIFICATION FairSpec

PROPERTIES DeadInstanceRests
CHECK_DEADLOCK FALSE
