CONSTANTS
    Engines <- MCEngines
    Unknown = Unknown
    MaxListed = 3
    MaxResults = 3
    None = None
SPECIFICATION Spec
INVARIANTS OrderIsFaithful AnswerMatchesAttempts NodeTriesEveryEngine
PROPERTIES EverySearchAnswered
CHECK_DEADLOCK FALSE
