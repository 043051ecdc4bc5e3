SPECIFICATION FairSpec
CONSTANTS
  product = product
  research = research
  nobody = nobody
  Turns <- ThreadsMC
  Timed <- TimedMC
  Nobody <- nobody
  MaxSteps = 2
  Retries = 1
  Limit = 4
  Clip = 1
  MaxCalls = 2
  MaxAsks = 3
INVARIANTS
  SendsValid
  CompactKeepsMost
  NoTurnLost
  
PROPERTIES
  TurnsEnd
CHECK_DEADLOCK FALSE
