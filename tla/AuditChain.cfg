\* Two sessions, two turns, the monitor and the sweep, full disks, crashes, odd texts.
CONSTANTS
  w1 = w1
  w2 = w2
  NumSessions = 2
  Writers = {w1, w2}
  Calls <- MCCalls
  Monitor = Monitor
  Sweep = Sweep
  Nobody = Nobody
  Texts = {"plain", "separated"}
  MaxRecords <- MCMaxRecords
SPECIFICATION FairSpec
INVARIANTS
  ChainsLink
  NoneLostQuietly
PROPERTIES
  EvidenceKept
  HealthTells
