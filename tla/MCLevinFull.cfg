CONSTANTS
    Call = {c}
    NoCall = NoCall
    MaxQueue = 0
    Scenarios = {{c, "sender"}}
SPECIFICATION Spec
INVARIANT CallbacksOutsideLocks
CHECK_DEADLOCK FALSE
