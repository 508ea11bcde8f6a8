SPECIFICATION FairSpec

CONSTANTS
    W = 1
    S = 2
    N = 1
    B = 1
    P = 1
    MayFail <- TimesOut
    MayHang <- First

PROPERTIES
    GivesUpAfterTheTimeout

\* whoever hangs in its start never ends
CHECK_DEADLOCK FALSE
