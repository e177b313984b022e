SPECIFICATION Spec
CONSTANTS
    Width = 4
    MaxScalars = 4
    MaxFunctions = 3
    MaxInputs = 2
    MaxCallDepth = 2
    MaxRepeat = 3
    MaxSteps = 18
    MaxInstructions = 20
    Programs <- Family
INVARIANTS
    CallersWait
    OnlySelfArgumentFails
    BoundIsExact
    ResultIsMeaning
    FormatIsExact
CHECK_DEADLOCK FALSE
