CONSTANTS
    MaxCalls = 3
    MaxHelpers = 2
    Objects = {o1}
    NoObj = NoObj
    InterruptAt <- Nowhere
    Finalizers = TRUE
SPECIFICATION FairSpec
PROPERTIES CallEnds
CHECK_DEADLOCK FALSE
