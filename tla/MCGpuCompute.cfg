SPECIFICATION Spec
CONSTANTS
    Machine <- MCMachine
    Job <- MCJob
INVARIANTS
    ReleasedInOrder
    EvidenceIsTrue
    ProbeForesees
CHECK_DEADLOCK FALSE
