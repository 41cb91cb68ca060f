SPECIFICATION Spec
CONSTANTS
  a0 = a0
  a1 = a1
  Reg = {a0, a1}
  NoReg = NoReg
  NoIns = NoIns
  OITF_DEPTH = 2
  BusErr = {FALSE, TRUE}
  Instr <- SleepInstr
INVARIANTS HaltFlushOneHot
