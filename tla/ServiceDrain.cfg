\* Two requests, starts without end: stops, clean or not, and what the next start finds.
CONSTANTS
  t1 = t1
  t2 = t2
  Threads = {t1, t2}
  Scheduler = Scheduler
  Retention = Retention
  Audit = Audit
  Ghost = Ghost
SPECIFICATION FairSpec
INVARIANTS
  CleanMeansQuiet
  AcceptedIsFinished

  
