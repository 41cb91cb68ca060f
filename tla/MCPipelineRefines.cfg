SPECIFICATION FairSpec
CONSTANTS
  W = 4
  WordSize <- MCWordSize
  Alu <- MCAlu
  RegIds = {0, 1, 2}
  IMEM_DEPTH = 4
  DMEM_DEPTH = 2
  Instr <- MixedInstr
INVARIANTS TypeOK PathInv
PROPERTIES RefinesISA Progress
