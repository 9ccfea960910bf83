CONSTANTS
    Rows <- MCRows
    Instants <- MCInstants
    PerSecond = 2
    Limits <- MCLimits
    NoCursor = NoCursor
SPECIFICATION FeedSpec
INVARIANT ScansComplete
\* The run ends when the client has the last page.
CHECK_DEADLOCK FALSE
