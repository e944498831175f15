SPECIFICATION Spec
CONSTANTS
    Lines <- TheLines
    HybridSize = 6
    MaxSize = 4
    MaxSteps = 7
INVARIANT ProductsFit
CHECK_DEADLOCK FALSE
