SPECIFICATION Spec
CONSTANTS
    Users = {alice, bob}
    MaxPendingWrites = 2
    MaxWrites = 3
    MaxChanges = 2
    MaxWaits = 0
    MaxFaults = 1
INVARIANTS
    TypeOK
    PipelineIsFront
    AnswersLineUp
    OwnName
    TruthfulAnswers
PROPERTIES
    KeepsOrder
SYMMETRY UserSymmetry
CHECK_DEADLOCK FALSE
