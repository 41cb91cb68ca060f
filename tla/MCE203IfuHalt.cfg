SPECIFICATION Spec
CONSTANT
    Programs <- SleepPrograms
INVARIANTS
    InOrder
