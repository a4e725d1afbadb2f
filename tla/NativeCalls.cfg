CONSTANTS
    MaxCalls = 3
    MaxHelpers = 2
    Objects = {o1}
    NoObj = NoObj
    InterruptAt <- NotInSend
    Finalizers = TRUE
SPECIFICATION Spec
INVARIANTS AnswerIsOwn Accounted
PROPERTIES KeepsPromise ResultsAreClean
CHECK_DEADLOCK FALSE
