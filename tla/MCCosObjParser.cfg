CONSTANTS
    NoToken = NoToken
    Files <- MCFiles
    MaxCalls = 3
    MaxNodes = 12
    WindowFiles <- MCWindowFiles
    Memory = {m1, m2, m3, m4}
    ValueNodes = {n1, n2}
    Nothing = Nothing
SPECIFICATION ParsersSpec
INVARIANTS NoTokenIsStale EveryNodeOwned WellFormedParses OneOwner
PROPERTIES CallsReturn WindowIsCursor
CHECK_DEADLOCK FALSE
