SPECIFICATION Spec
CONSTANTS
    Width = 4
    MaxScalars = 7
    MaxFunctions = 3
    MaxInputs = 2
    MaxCallDepth = 2
    MaxRepeat = 3
    MaxSteps = 20
    MaxInstructions = 11
    Sources <- Family
INVARIANTS
    BuiltIsAccepted
    MeaningPreserved
    StoredAsCompiled
CHECK_DEADLOCK FALSE
