CONSTANTS
    Call = {c}
    NoCall = NoCall
    MaxQueue = 1
    Scenarios = {{c, "closer", "idler"}}
SPECIFICATION Spec
PROPERTY ClosedIsShut
CHECK_DEADLOCK FALSE
