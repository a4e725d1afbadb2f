CONSTANTS
    MaxCalls = 1
    MaxHelpers = 1
    Objects = {}
    NoObj = NoObj
    InterruptAt <- Nowhere
    Finalizers = FALSE
SPECIFICATION Spec
INVARIANTS OutcomesAreClassified
CHECK_DEADLOCK FALSE
