SPECIFICATION Spec
CONSTANT
    Programs <- TwoRegisterPrograms
INVARIANTS
    InOrder
