SPECIFICATION Spec
CONSTANT
    Programs <- AllPrograms
INVARIANTS
    KeepsOrder
    SleepFetchesTrap
    Rs1Kept
    AnswersFindRoom
