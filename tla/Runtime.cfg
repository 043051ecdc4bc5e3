\* Two turns, two compilers, more than one fault within two instants is too many.
CONSTANTS
  c1 = c1
  c2 = c2
  p1 = p1
  p2 = p2
  Callers = {c1, c2}
  Compilers = {p1, p2}
  NoCompiler = NoCompiler
  Closer = Closer
  Nobody = Nobody
  Budget = 1
  Window = 2
  Impatient = TRUE
  Partial = TRUE
SPECIFICATION FairSpec
INVARIANTS
  OneAnswerOwed
  NoOrphan
  GivenUpForFailures

  
  
