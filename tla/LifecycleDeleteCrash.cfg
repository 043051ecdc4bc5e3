\* An interactive turn, the deletion of its session, a crash.
CONSTANTS
  a = a
  s1 = s1
  s2 = s2
  c1 = c1
  c2 = c2
  j1 = j1
  d1 = d1
  Tenants = {a}
  Sessions = {s1}
  TenantOf <- MCTenantOf
  NoSession = NoSession
  Turns <- MCTurns
  Chats = {c1}
  Jobs = {}
  Deleters = {d1}
  Sweeper = Sweeper
  Nobody = Nobody
  MaxTurns = 2
  LeaseTime = 2
  TurnLimit = 1
  Retention = 2
  Faults = {"crash"}
  DayLength = 10
  TokensPerDay = 20
  TokenReservation = 1
  TokenUse = {0}
  MaxTurnTokens = 0
  Kinds = {"bytes"}
  Limit <- MCLimit
  Reservation <- MCReservation
  Footprints <- MCFootprints
  MaxClock = 4
SPECIFICATION LifeSpec
INVARIANT CrashRepaired
