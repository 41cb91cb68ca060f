SPECIFICATION FairSpec
CONSTANTS
  Data = {d1, d2, d3}
  SYNC_DP = 2
INVARIANT Phases
PROPERTIES FourPhase DataStable ImplementsFifo ReadyAgain
