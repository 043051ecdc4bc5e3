\* Two workers on one schedule, one of which may die.
CONSTANTS
  k1 = k1
  k2 = k2
  s1 = s1
  s2 = s2
  w1 = w1
  w2 = w2
  Keys = {k1}
  Sessions = {s1}
  Workers = {w1, w2}
  Visitor = Visitor
  Nobody = Nobody
  NoKey = NoKey
  NoSession = NoSession
  Every = 2
  Lease = 3
  Deadline = 2
  TickLimit = 2
  Retention = 4
  Edits = FALSE
  MaxCrashes = 1
SPECIFICATION FairSpec
INVARIANTS
  OneClaimant
  
PROPERTIES
  RunsSpaced
  
