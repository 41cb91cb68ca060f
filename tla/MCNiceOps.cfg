SPECIFICATION FairSpec
CONSTANTS
  Ops <- AllOps
  Ready = {TRUE, FALSE}
  Slow <- Anywhere
  MaxOps = 4
  MaxWords = 5
INVARIANTS TypeOK NoStaleCommand
PROPERTIES LbufLoads SbufStores PromptRowsumAdds OpCompletes
