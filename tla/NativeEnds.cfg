CONSTANTS
    MaxCalls = 2
    MaxHelpers = 2
    Objects = {o1}
    NoObj = NoObj
    InterruptAt <- InCall
    Finalizers = FALSE
SPECIFICATION FairSpec
PROPERTIES CallEnds ExitEnds NoOrphan
CHECK_DEADLOCK FALSE
