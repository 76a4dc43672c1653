CONSTANTS
    Engines <- MCEngines
    Unknown = Unknown
    MaxListed = 3
    MaxResults = 2
    None = None
SPECIFICATION Spec
INVARIANTS LateChallengeCaught
CHECK_DEADLOCK FALSE
