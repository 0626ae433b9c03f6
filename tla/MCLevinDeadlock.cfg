CONSTANTS
    Call = {c}
    NoCall = NoCall
    MaxQueue = 0
    Scenarios = {{c, "sender", "peer"}}
SPECIFICATION Spec
PROPERTY EveryCallEnds
CHECK_DEADLOCK FALSE
