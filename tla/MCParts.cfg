SPECIFICATION Spec
CONSTANTS
    Lines <- TheLines
    HybridSize = 6
    MaxSize = 4
    MaxSteps = 7
INVARIANTS SearchAsserts DecisiveSound RootSound TablesSound NumaSound
    AccumulatorsExact SettingsSound MctsSound LimitsSound
PROPERTY NothingAfterStop
CHECK_DEADLOCK FALSE
