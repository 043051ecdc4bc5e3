\* Three requests in flight over three windows of two instants.
CONSTANTS
  a = a
  b = b
  r1 = r1
  r2 = r2
  r3 = r3
  Tenants = {a, b}
  Requests = {r1, r2, r3}
  TenantOfRequest <- MCTenantOf
  RequestLimit = 2
  WindowLength = 2
  MaxClock = 5
SPECIFICATION RateSpec
INVARIANTS
  RateBounded
