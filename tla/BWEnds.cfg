CONSTANTS
    NUtts = 2
    MaxShards = 2
    NIter = 3
    MinIter = 2
    Threshold = 1
    NonFinite = NonFinite
    Likelihoods <- Gains
    Excused = {}
    Settings <- EndSettings
    MaxCrashes = 1
SPECIFICATION FairSpec
INVARIANT EndIsJustified
PROPERTIES StageEnds OrphansExit
CHECK_DEADLOCK FALSE
