\* One tenant, three threads for two slots, five days of two instants,
\* turns that may settle one token above their reservation.
CONSTANTS
  a = a
  s1 = s1
  t1 = t1
  t2 = t2
  t3 = t3
  Tenants = {a}
  Sessions = {s1}
  TenantOf <- MCTenantOf
  NoSession = NoSession
  Turns = {t1, t2, t3}
  MaxTurns = 2
  LeaseTime = 2
  DayLength = 2
  TokensPerDay = 3
  TokenReservation = 1
  TokenUse = {0, 1, 2}
  MaxTurnTokens = 2
  Kinds <- MCKinds
  Limit <- MCLimit
  Reservation <- MCReservation
  Footprints <- MCFootprints
  MaxClock = 4
SPECIFICATION Spec
SYMMETRY MCSymmetry
INVARIANTS
  SlotsBounded
  TokensBounded
PROPERTIES
  ImplementsTurnSlots
