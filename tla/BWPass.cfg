CONSTANTS
    NUtts = 3
    MaxShards = 2
    NIter = 2
    MinIter = 2
    Threshold = 1
    NonFinite = NonFinite
    Likelihoods <- OneGain
    Excused = {2}
    Settings <- PassSettings
    MaxCrashes = 1
SPECIFICATION Spec
INVARIANTS TypeOK PartitionIndependent CountedOnce FilesAgree
PROPERTY Refines
CHECK_DEADLOCK FALSE
