SPECIFICATION Spec
CONSTANTS
    Width = 4
    MaxScalars = 4
    MaxFunctions = 0
    MaxInputs = 0
    MaxCallDepth = 1
    MaxRepeat = 3
    MaxSteps = 17
    MaxInstructions = 20
    Programs <- Family
INVARIANTS
    SlotsInBounds
    AcceptedNeverFails
    BoundIsExact
    ResultIsMeaning
    FormatIsExact
CHECK_DEADLOCK FALSE
