SPECIFICATION Spec
CONSTANTS
  chat = chat
  scheduler = scheduler
  dreamer = dreamer
  nobody = nobody
  Talkers <- TalkersMC
  Dreamer <- dreamer
  Nobody <- nobody
  Scheduler <- scheduler
  Names = {1}
  MaxPending = 2
  MaxCallbacks = 1
  MaxFaults = 1
  Every = 1
  MaxSteps = 1
  MaxNow = 1
  MaxPuts = 1
  MaxChats = 1
  MaxStops = 1
INVARIANTS
  
  NoCircle
PROPERTIES
  RunsSpaced
  TurnsGoOn
  DueRuns
