SPECIFICATION Spec
CONSTANT W = 4
INVARIANTS PipelineALUCorrect E203Agrees FlagsCorrect
