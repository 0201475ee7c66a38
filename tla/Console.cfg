\* A screen of three lines of two columns, two calls and two keys.
CONSTANTS
    Columns = 2
    Rows = 3
    Width = 32
    FontRows = 2
    Formats <- Texts
    LineSize = 3
    MaxKeys = 3
    MaxBurst = 2
    MaxCalls = 2
SPECIFICATION FairSpec
INVARIANT GlyphsNearScreen
 
CHECK_DEADLOCK FALSE
