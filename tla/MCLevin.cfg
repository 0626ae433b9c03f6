CONSTANTS
    Call = {c, d}
    NoCall = NoCall
    MaxQueue = 1
    Scenarios = {{c, d}, {c, "sender", "peer"}, {c, "closer", "peer"}, {c, "idler"}}
SPECIFICATION Spec
INVARIANT CalledBackOnce NoCrossedAnswers HeldWhileUsed
PROPERTY EveryCallEnds ShutIsDeleted
CHECK_DEADLOCK FALSE
