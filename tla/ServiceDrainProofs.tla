-------------------------- MODULE ServiceDrainProofs --------------------------
(***************************************************************************)
(* Theorems of ServiceDrain for every number of request threads: what the  *)
(* count of turns counts, and what the marker of a clean stop proves.      *)
(***************************************************************************)
EXTENDS ServiceDrain, FiniteSetTheorems, TLAPS

\* TypeOK without the count, which DrainCounts gives.
Types ==
  /\ main \in Stages
  /\ {signalled, draining, listening, drained, marker} \subseteq BOOLEAN
  /\ stopped \subseteq Workers
  /\ thread \in [Threads -> ThreadPhases]
  /\ worker \in [Workers -> WorkerPhases]
  /\ leases \subseteq Threads \cup {Scheduler, Ghost}
  /\ cut \subseteq Kinds

\* Nothing runs before the state is open, and run starts from scratch.
ClosedIsIdle ==
  main \in {"down", "opening"} =>
    /\ ~ listening /\ ~ draining /\ drained
    /\ \A t \in Threads : thread[t] = "away"
    /\ \A w \in Workers : worker[w] = "ended"

\* run drains from start_draining on, and a wait that ended in time ended for good.
After(stages, w) == main \in stages => worker[w] = "ended"
WaitsKept ==
  /\ main \notin {"down", "opening", "serving"} => draining
  /\ drained =>
       /\ After({"stop retention", "stop audit", "count turns", "leaving", "marked"}, Scheduler)
       /\ After({"stop audit", "count turns", "leaving", "marked"}, Retention)
       /\ After({"count turns", "leaving", "marked"}, Audit)
       /\ main \in {"leaving", "marked"} => Turns = {}

\* The marker is there after Mark, and only until the next process has started.
MarkerInOrder ==
  /\ marker => main \in {"marked", "down"}
  /\ main = "marked" => drained

\* Between acquire_turn and settle_turn there is a lease.
LeaseHeld ==
  /\ \A t \in Threads : thread[t] \in Counted \cup {"leased", "leaving"} => t \in leases
  /\ worker[Scheduler] = "working" => Scheduler \in leases

\* What an earlier process left half-done is forgotten once it is reconciled.
CutIsPast == main \notin {"down", "opening"} => cut = {}
-----------------------------------------------------------------------------
\* A process that has never run.
LEMMA InitInvariants ==
  Init => /\ Types /\ ClosedIsIdle /\ DrainCounts /\ WaitsKept
          /\ MarkerInOrder /\ LeaseHeld /\ CutIsPast /\ AcceptedIsFinished
<1> SUFFICES ASSUME Init
             PROVE  /\ Types /\ ClosedIsIdle /\ DrainCounts /\ WaitsKept
                    /\ MarkerInOrder /\ LeaseHeld /\ CutIsPast /\ AcceptedIsFinished
  OBVIOUS
<1>1. Types /\ ClosedIsIdle /\ WaitsKept /\ MarkerInOrder
  BY DEF Init, Types, Stages, ThreadPhases, WorkerPhases, ClosedIsIdle, WaitsKept, After,
         MarkerInOrder
<1>2. LeaseHeld /\ CutIsPast /\ AcceptedIsFinished
  BY DrainAssumption DEF Init, LeaseHeld, Counted, CutIsPast, AcceptedIsFinished, Workers
<1>3. Turns = {}
  BY DEF Init, Turns, Counted
<1>4. DrainCounts
  BY <1>3, FS_EmptySet DEF Init, DrainCounts
<1>5. QED
  BY <1>1, <1>2, <1>4

\* The three waits of run, in their order.
LEMMA WaitFacts ==
  ASSUME NEW wait \in Waits
  PROVE  \/ /\ wait.at = "stop scheduler" /\ wait.for = Scheduler
            /\ wait.next = "stop retention" /\ wait.stops = {Retention}
         \/ /\ wait.at = "stop retention" /\ wait.for = Retention
            /\ wait.next = "stop audit" /\ wait.stops = {Audit}
         \/ /\ wait.at = "stop audit" /\ wait.for = Audit
            /\ wait.next = "count turns" /\ wait.stops = {}
<1> DEFINE first == [at |-> "stop scheduler", for |-> Scheduler,
                     next |-> "stop retention", stops |-> {Retention}]
           second == [at |-> "stop retention", for |-> Retention,
                      next |-> "stop audit", stops |-> {Audit}]
           third == [at |-> "stop audit", for |-> Audit,
                     next |-> "count turns", stops |-> {}]
<1>1. wait = first \/ wait = second \/ wait = third
  BY Zenon DEF Waits
<1>2. /\ first.at = "stop scheduler" /\ first.for = Scheduler
      /\ first.next = "stop retention" /\ first.stops = {Retention}
  OBVIOUS
<1>3. /\ second.at = "stop retention" /\ second.for = Retention
      /\ second.next = "stop audit" /\ second.stops = {Audit}
  OBVIOUS
<1>4. /\ third.at = "stop audit" /\ third.for = Audit
      /\ third.next = "count turns" /\ third.stops = {}
  OBVIOUS
<1>5. QED
  <2> HIDE DEF first, second, third
  <2>1. QED
    BY <1>1, <1>2, <1>3, <1>4

\* Every action keeps the types.
LEMMA TypesStep == Types /\ [Next]_vars => Types'
<1> SUFFICES ASSUME Types, [Next]_vars
             PROVE  Types'
  OBVIOUS
<1>1. ASSUME NEW t \in Threads, Accept(t)
      PROVE  Types'
  BY <1>1 DEF Accept, Moves, shutdown, Types, ThreadPhases
<1>2. ASSUME NEW t \in Threads, Drop(t)
      PROVE  Types'
  BY <1>2 DEF Drop, Moves, shutdown, Types, ThreadPhases
<1>3. ASSUME NEW t \in Threads, Acquire(t)
      PROVE  Types'
  BY <1>3 DEF Acquire, Moves, Lease, shutdown, Types, ThreadPhases
<1>4. ASSUME NEW t \in Threads, Refuse(t)
      PROVE  Types'
  BY <1>4 DEF Refuse, Moves, Settle, shutdown, Types, ThreadPhases
<1>5. ASSUME NEW t \in Threads, Enter(t)
      PROVE  Types'
  BY <1>5 DEF Enter, Moves, shutdown, Types, ThreadPhases, Counted
<1>6. ASSUME NEW t \in Threads, Begin(t)
      PROVE  Types'
  BY <1>6 DEF Begin, Moves, shutdown, Types, ThreadPhases, Counted
<1>7. ASSUME NEW t \in Threads, Leave(t)
      PROVE  Types'
  BY <1>7 DEF Leave, shutdown, Types, ThreadPhases
<1>8. ASSUME NEW t \in Threads, Release(t)
      PROVE  Types'
  BY <1>8 DEF Release, Moves, Settle, shutdown, Types, ThreadPhases
<1>9. ASSUME NEW t \in Threads, Delete(t)
      PROVE  Types'
  BY <1>9 DEF Delete, Moves, shutdown, Types, ThreadPhases
<1>10. ASSUME NEW t \in Threads, Deleted(t)
      PROVE  Types'
  BY <1>10 DEF Deleted, Moves, shutdown, Types, ThreadPhases
<1>11. ASSUME NEW w \in Workers, Tick(w)
      PROVE  Types'
  BY <1>11 DEF Tick, Steps, shutdown, Types, WorkerPhases
<1>12. ASSUME NEW w \in Workers, EndTick(w)
      PROVE  Types'
  BY <1>12 DEF EndTick, Steps, shutdown, Types, WorkerPhases
<1>13. ASSUME NEW w \in Workers, End(w)
      PROVE  Types'
  BY <1>13 DEF End, Steps, shutdown, Types, WorkerPhases
<1>14. CASE Claim
  BY <1>14 DEF Claim, Steps, shutdown, Types, WorkerPhases
<1>15. CASE StartJob
  BY <1>15 DEF StartJob, Steps, Lease, shutdown, Types, WorkerPhases
<1>16. CASE SkipJob
  BY <1>16 DEF SkipJob, Steps, shutdown, Types, WorkerPhases
<1>17. CASE EndJob
  BY <1>17 DEF EndJob, Steps, Settle, shutdown, Types, WorkerPhases
<1>18. CASE StartRemoval
  BY <1>18 DEF StartRemoval, Steps, shutdown, Types, WorkerPhases
<1>19. CASE EndRemoval
  BY <1>19 DEF EndRemoval, Steps, shutdown, Types, WorkerPhases
<1>20. CASE Boot
  BY <1>20 DEF Boot, shutdown, Types, Stages
<1>21. CASE Open
  BY <1>21 DEF Open, Types, Stages, WorkerPhases
<1>22. CASE Fail
  BY <1>22 DEF Fail, Gone, Types, Stages, ThreadPhases, WorkerPhases
<1>23. CASE Signal
  BY <1>23 DEF Signal, Types
<1>24. CASE StartDraining
  BY <1>24 DEF StartDraining, Types, Stages
<1>25. CASE CloseListener
  BY <1>25 DEF CloseListener, Types, Stages, Workers
<1>26. ASSUME NEW wait \in Waits, Joined(wait)
      PROVE  Types'
  BY <1>26, WaitFacts, DrainAssumption DEF Joined, Proceed, Types, Stages, Workers
<1>27. ASSUME NEW wait \in Waits, JoinedLate(wait)
      PROVE  Types'
  <2>1. {signalled', draining', listening', drained', marker'} \subseteq BOOLEAN
    BY <1>27 DEF JoinedLate, Proceed, Types
  <2>2. main' \in Stages /\ stopped' \subseteq Workers
    BY <1>27, WaitFacts DEF JoinedLate, Proceed, Types, Stages, Workers
  <2>3. QED
    BY <1>27, <2>1, <2>2 DEF JoinedLate, Proceed, Types
<1>28. CASE CountTurns
  BY <1>28 DEF CountTurns, Types, Stages
<1>29. CASE Mark
  BY <1>29 DEF Mark, shutdown, Types, Stages
<1>30. CASE Return
  BY <1>30 DEF Return, Gone, Types, Stages, ThreadPhases, WorkerPhases
<1>31. CASE Crash
  BY <1>31 DEF Crash, Gone, Types, Stages, ThreadPhases, WorkerPhases
<1>32. CASE UNCHANGED vars
  BY <1>32 DEF vars, shutdown, Types
<1>33. QED
  BY <1>1, <1>2, <1>3, <1>4, <1>5, <1>6, <1>7, <1>8, <1>9, <1>10,
     <1>11, <1>12, <1>13, <1>14, <1>15, <1>16, <1>17, <1>18, <1>19,
     <1>20, <1>21, <1>22, <1>23, <1>24, <1>25, <1>26, <1>27, <1>28,
     <1>29, <1>30, <1>31, <1>32
  DEF Next, Request, Background, Shutdown

\* Only run leaves the closed stages, and no thread starts in them.
LEMMA ClosedIsIdleStep == Types /\ ClosedIsIdle /\ [Next]_vars => ClosedIsIdle'
<1> SUFFICES ASSUME Types, ClosedIsIdle, [Next]_vars
             PROVE  ClosedIsIdle'
  OBVIOUS
<1>1. ASSUME NEW t \in Threads, Accept(t)
      PROVE  ClosedIsIdle'
  BY <1>1 DEF Accept, ClosedIsIdle
<1>2. ASSUME NEW t \in Threads, Drop(t)
      PROVE  ClosedIsIdle'
  BY <1>2 DEF Drop, Moves, ClosedIsIdle
<1>3. ASSUME NEW t \in Threads, Acquire(t)
      PROVE  ClosedIsIdle'
  BY <1>3 DEF Acquire, Moves, ClosedIsIdle
<1>4. ASSUME NEW t \in Threads, Refuse(t)
      PROVE  ClosedIsIdle'
  BY <1>4 DEF Refuse, ClosedIsIdle
<1>5. ASSUME NEW t \in Threads, Enter(t)
      PROVE  ClosedIsIdle'
  BY <1>5 DEF Enter, Moves, ClosedIsIdle
<1>6. ASSUME NEW t \in Threads, Begin(t)
      PROVE  ClosedIsIdle'
  BY <1>6 DEF Begin, Moves, ClosedIsIdle
<1>7. ASSUME NEW t \in Threads, Leave(t)
      PROVE  ClosedIsIdle'
  BY <1>7 DEF Leave, ClosedIsIdle, Counted
<1>8. ASSUME NEW t \in Threads, Release(t)
      PROVE  ClosedIsIdle'
  BY <1>8 DEF Release, Moves, ClosedIsIdle
<1>9. ASSUME NEW t \in Threads, Delete(t)
      PROVE  ClosedIsIdle'
  BY <1>9 DEF Delete, Moves, ClosedIsIdle
<1>10. ASSUME NEW t \in Threads, Deleted(t)
      PROVE  ClosedIsIdle'
  BY <1>10 DEF Deleted, Moves, ClosedIsIdle
<1>11. ASSUME NEW w \in Workers, Tick(w)
      PROVE  ClosedIsIdle'
  BY <1>11 DEF Tick, Steps, ClosedIsIdle
<1>12. ASSUME NEW w \in Workers, EndTick(w)
      PROVE  ClosedIsIdle'
  BY <1>12 DEF EndTick, Steps, ClosedIsIdle
<1>13. ASSUME NEW w \in Workers, End(w)
      PROVE  ClosedIsIdle'
  BY <1>13 DEF End, Steps, ClosedIsIdle
<1>14. CASE Claim
  BY <1>14 DEF Claim, Steps, ClosedIsIdle, Workers
<1>15. CASE StartJob
  BY <1>15 DEF StartJob, Steps, ClosedIsIdle, Workers
<1>16. CASE SkipJob
  BY <1>16 DEF SkipJob, Steps, ClosedIsIdle, Workers
<1>17. CASE EndJob
  BY <1>17 DEF EndJob, Steps, ClosedIsIdle, Workers
<1>18. CASE StartRemoval
  BY <1>18 DEF StartRemoval, Steps, ClosedIsIdle, Workers
<1>19. CASE EndRemoval
  BY <1>19 DEF EndRemoval, Steps, ClosedIsIdle, Workers
<1>20. CASE Boot
  BY <1>20 DEF Boot, shutdown, ClosedIsIdle
<1>21. CASE Open
  BY <1>21 DEF Open, ClosedIsIdle
<1>22. CASE Fail
  BY <1>22 DEF Fail, Gone, ClosedIsIdle
<1>23. CASE Signal
  BY <1>23 DEF Signal, ClosedIsIdle
<1>24. CASE StartDraining
  BY <1>24 DEF StartDraining, ClosedIsIdle
<1>25. CASE CloseListener
  BY <1>25 DEF CloseListener, ClosedIsIdle
<1>26. ASSUME NEW wait \in Waits, Joined(wait)
      PROVE  ClosedIsIdle'
  BY <1>26, WaitFacts DEF Joined, Proceed, ClosedIsIdle
<1>27. ASSUME NEW wait \in Waits, JoinedLate(wait)
      PROVE  ClosedIsIdle'
  BY <1>27, WaitFacts DEF JoinedLate, Proceed, ClosedIsIdle
<1>28. CASE CountTurns
  BY <1>28 DEF CountTurns, ClosedIsIdle
<1>29. CASE Mark
  BY <1>29 DEF Mark, ClosedIsIdle
<1>30. CASE Return
  BY <1>30 DEF Return, Gone, ClosedIsIdle
<1>31. CASE Crash
  BY <1>31 DEF Crash, Gone, ClosedIsIdle
<1>32. CASE UNCHANGED vars
  BY <1>32 DEF vars, shutdown, ClosedIsIdle
<1>33. QED
  BY <1>1, <1>2, <1>3, <1>4, <1>5, <1>6, <1>7, <1>8, <1>9, <1>10,
     <1>11, <1>12, <1>13, <1>14, <1>15, <1>16, <1>17, <1>18, <1>19,
     <1>20, <1>21, <1>22, <1>23, <1>24, <1>25, <1>26, <1>27, <1>28,
     <1>29, <1>30, <1>31, <1>32
  DEF Next, Request, Background, Shutdown

\* There are finitely many threads.
LEMMA TurnsFinite == IsFiniteSet(Turns)
<1>1. Turns \subseteq Threads
  BY DEF Turns
<1>2. QED
  BY <1>1, DrainAssumption, FS_Subset

\* _turn_enter and _turn_leave come in pairs.
LEMMA DrainCountsStep == Types /\ DrainCounts /\ [Next]_vars => DrainCounts'
<1> SUFFICES ASSUME Types, DrainCounts, [Next]_vars
             PROVE  DrainCounts'
  OBVIOUS
<1>1. ASSUME NEW t \in Threads, Accept(t)
      PROVE  DrainCounts'
  <2>1. Turns' = Turns /\ active' = active
    BY <1>1 DEF Accept, Moves, Types, Turns, Counted
  <2>2. QED
    BY <2>1 DEF DrainCounts
<1>2. ASSUME NEW t \in Threads, Drop(t)
      PROVE  DrainCounts'
  <2>1. Turns' = Turns /\ active' = active
    BY <1>2 DEF Drop, Moves, Types, Turns, Counted
  <2>2. QED
    BY <2>1 DEF DrainCounts
<1>3. ASSUME NEW t \in Threads, Acquire(t)
      PROVE  DrainCounts'
  <2>1. Turns' = Turns /\ active' = active
    BY <1>3 DEF Acquire, Moves, Lease, Types, Turns, Counted
  <2>2. QED
    BY <2>1 DEF DrainCounts
<1>4. ASSUME NEW t \in Threads, Refuse(t)
      PROVE  DrainCounts'
  <2>1. Turns' = Turns /\ active' = active
    BY <1>4 DEF Refuse, Moves, Settle, Types, Turns, Counted
  <2>2. QED
    BY <2>1 DEF DrainCounts
<1>5. ASSUME NEW t \in Threads, Enter(t)
      PROVE  DrainCounts'
  <2>1. Turns' = Turns \cup {t} /\ t \notin Turns
    BY <1>5 DEF Enter, Moves, Types, Turns, Counted
  <2>2. Cardinality(Turns') = Cardinality(Turns) + 1
    BY <2>1, TurnsFinite, FS_AddElement
  <2>3. QED
    BY <2>2, <1>5 DEF Enter, DrainCounts
<1>6. ASSUME NEW t \in Threads, Begin(t)
      PROVE  DrainCounts'
  <2>1. Turns' = Turns /\ active' = active
    BY <1>6 DEF Begin, Moves, Types, Turns, Counted
  <2>2. QED
    BY <2>1 DEF DrainCounts
<1>7. ASSUME NEW t \in Threads, Leave(t)
      PROVE  DrainCounts'
  <2>1. Turns' = Turns \ {t} /\ t \in Turns
    BY <1>7 DEF Leave, Types, Turns, Counted
  <2>2. Cardinality(Turns') = Cardinality(Turns) - 1
    BY <2>1, TurnsFinite, FS_RemoveElement
  <2>3. QED
    BY <2>2, <1>7 DEF Leave, DrainCounts
<1>8. ASSUME NEW t \in Threads, Release(t)
      PROVE  DrainCounts'
  <2>1. Turns' = Turns /\ active' = active
    BY <1>8 DEF Release, Moves, Settle, Types, Turns, Counted
  <2>2. QED
    BY <2>1 DEF DrainCounts
<1>9. ASSUME NEW t \in Threads, Delete(t)
      PROVE  DrainCounts'
  <2>1. Turns' = Turns /\ active' = active
    BY <1>9 DEF Delete, Moves, Types, Turns, Counted
  <2>2. QED
    BY <2>1 DEF DrainCounts
<1>10. ASSUME NEW t \in Threads, Deleted(t)
      PROVE  DrainCounts'
  <2>1. Turns' = Turns /\ active' = active
    BY <1>10 DEF Deleted, Moves, Types, Turns, Counted
  <2>2. QED
    BY <2>1 DEF DrainCounts
<1>11. ASSUME NEW w \in Workers, Tick(w)
      PROVE  DrainCounts'
  BY <1>11 DEF Tick, DrainCounts, Turns
<1>12. ASSUME NEW w \in Workers, EndTick(w)
      PROVE  DrainCounts'
  BY <1>12 DEF EndTick, DrainCounts, Turns
<1>13. ASSUME NEW w \in Workers, End(w)
      PROVE  DrainCounts'
  BY <1>13 DEF End, DrainCounts, Turns
<1>14. CASE Claim
  BY <1>14 DEF Claim, DrainCounts, Turns
<1>15. CASE StartJob
  BY <1>15 DEF StartJob, DrainCounts, Turns
<1>16. CASE SkipJob
  BY <1>16 DEF SkipJob, DrainCounts, Turns
<1>17. CASE EndJob
  BY <1>17 DEF EndJob, DrainCounts, Turns
<1>18. CASE StartRemoval
  BY <1>18 DEF StartRemoval, DrainCounts, Turns
<1>19. CASE EndRemoval
  BY <1>19 DEF EndRemoval, DrainCounts, Turns
<1>20. CASE Boot
  BY <1>20 DEF Boot, DrainCounts, Turns
<1>21. CASE Open
  BY <1>21 DEF Open, DrainCounts, Turns
<1>22. CASE Fail
  <2>1. Turns' = {} /\ active' = 0
    BY <1>22 DEF Fail, Gone, Turns, Counted
  <2>2. QED
    BY <2>1, FS_EmptySet DEF DrainCounts
<1>23. CASE Signal
  BY <1>23 DEF Signal, DrainCounts, Turns
<1>24. CASE StartDraining
  BY <1>24 DEF StartDraining, DrainCounts, Turns
<1>25. CASE CloseListener
  BY <1>25 DEF CloseListener, DrainCounts, Turns
<1>26. ASSUME NEW wait \in Waits, Joined(wait)
      PROVE  DrainCounts'
  BY <1>26 DEF Joined, Proceed, DrainCounts, Turns
<1>27. ASSUME NEW wait \in Waits, JoinedLate(wait)
      PROVE  DrainCounts'
  BY <1>27 DEF JoinedLate, Proceed, DrainCounts, Turns
<1>28. CASE CountTurns
  BY <1>28 DEF CountTurns, DrainCounts, Turns
<1>29. CASE Mark
  BY <1>29 DEF Mark, DrainCounts, Turns
<1>30. CASE Return
  <2>1. Turns' = {} /\ active' = 0
    BY <1>30 DEF Return, Gone, Turns, Counted
  <2>2. QED
    BY <2>1, FS_EmptySet DEF DrainCounts
<1>31. CASE Crash
  <2>1. Turns' = {} /\ active' = 0
    BY <1>31 DEF Crash, Gone, Turns, Counted
  <2>2. QED
    BY <2>1, FS_EmptySet DEF DrainCounts
<1>32. CASE UNCHANGED vars
  BY <1>32 DEF vars, DrainCounts, Turns
<1>33. QED
  BY <1>1, <1>2, <1>3, <1>4, <1>5, <1>6, <1>7, <1>8, <1>9, <1>10,
     <1>11, <1>12, <1>13, <1>14, <1>15, <1>16, <1>17, <1>18, <1>19,
     <1>20, <1>21, <1>22, <1>23, <1>24, <1>25, <1>26, <1>27, <1>28,
     <1>29, <1>30, <1>31, <1>32
  DEF Next, Request, Background, Shutdown

\* A thread that has ended does not start again, and a drained turn has no successor.
LEMMA WaitsKeptStep == Types /\ ClosedIsIdle /\ DrainCounts /\ WaitsKept /\ [Next]_vars => WaitsKept'
<1> SUFFICES ASSUME Types, ClosedIsIdle, DrainCounts, WaitsKept, [Next]_vars
             PROVE  WaitsKept'
  OBVIOUS
<1>1. ASSUME NEW t \in Threads, Accept(t)
      PROVE  WaitsKept'
  BY <1>1 DEF Accept, Moves, shutdown, Types, WaitsKept, After, Turns, Counted
<1>2. ASSUME NEW t \in Threads, Drop(t)
      PROVE  WaitsKept'
  BY <1>2 DEF Drop, Moves, shutdown, Types, WaitsKept, After, Turns, Counted
<1>3. ASSUME NEW t \in Threads, Acquire(t)
      PROVE  WaitsKept'
  BY <1>3 DEF Acquire, Moves, shutdown, Types, WaitsKept, After, Turns, Counted
<1>4. ASSUME NEW t \in Threads, Refuse(t)
      PROVE  WaitsKept'
  BY <1>4 DEF Refuse, Moves, shutdown, Types, WaitsKept, After, Turns, Counted
<1>5. ASSUME NEW t \in Threads, Enter(t)
      PROVE  WaitsKept'
  BY <1>5 DEF Enter, WaitsKept, After
<1>6. ASSUME NEW t \in Threads, Begin(t)
      PROVE  WaitsKept'
  BY <1>6 DEF Begin, Moves, shutdown, WaitsKept, After, Turns, Counted
<1>7. ASSUME NEW t \in Threads, Leave(t)
      PROVE  WaitsKept'
  BY <1>7 DEF Leave, shutdown, WaitsKept, After, Turns
<1>8. ASSUME NEW t \in Threads, Release(t)
      PROVE  WaitsKept'
  BY <1>8 DEF Release, Moves, shutdown, Types, WaitsKept, After, Turns, Counted
<1>9. ASSUME NEW t \in Threads, Delete(t)
      PROVE  WaitsKept'
  BY <1>9 DEF Delete, Moves, shutdown, Types, WaitsKept, After, Turns, Counted
<1>10. ASSUME NEW t \in Threads, Deleted(t)
      PROVE  WaitsKept'
  BY <1>10 DEF Deleted, Moves, shutdown, Types, WaitsKept, After, Turns, Counted
<1>11. ASSUME NEW w \in Workers, Tick(w)
      PROVE  WaitsKept'
  BY <1>11 DEF Tick, Steps, shutdown, Types, WaitsKept, After, Workers
<1>12. ASSUME NEW w \in Workers, EndTick(w)
      PROVE  WaitsKept'
  BY <1>12 DEF EndTick, Steps, shutdown, Types, WaitsKept, After, Workers
<1>13. ASSUME NEW w \in Workers, End(w)
      PROVE  WaitsKept'
  BY <1>13 DEF End, Steps, shutdown, Types, WaitsKept, After, Workers
<1>14. CASE Claim
  BY <1>14 DEF Claim, Steps, shutdown, WaitsKept, After
<1>15. CASE StartJob
  BY <1>15 DEF StartJob, Steps, shutdown, WaitsKept, After
<1>16. CASE SkipJob
  BY <1>16 DEF SkipJob, Steps, shutdown, WaitsKept, After
<1>17. CASE EndJob
  BY <1>17 DEF EndJob, Steps, shutdown, WaitsKept, After
<1>18. CASE StartRemoval
  BY <1>18 DEF StartRemoval, Steps, shutdown, Types, WaitsKept, After, Workers
<1>19. CASE EndRemoval
  BY <1>19 DEF EndRemoval, Steps, shutdown, Types, WaitsKept, After, Workers
<1>20. CASE Boot
  BY <1>20 DEF Boot, WaitsKept, After
<1>21. CASE Open
  BY <1>21 DEF Open, WaitsKept, After
<1>22. CASE Fail
  BY <1>22 DEF Fail, Gone, WaitsKept, After
<1>23. CASE Signal
  BY <1>23 DEF Signal, WaitsKept, After
<1>24. CASE StartDraining
  BY <1>24 DEF StartDraining, WaitsKept, After
<1>25. CASE CloseListener
  BY <1>25 DEF CloseListener, WaitsKept, After
<1>26. ASSUME NEW wait \in Waits, Joined(wait)
      PROVE  WaitsKept'
  BY <1>26, WaitFacts DEF Joined, Proceed, WaitsKept, After
<1>27. ASSUME NEW wait \in Waits, JoinedLate(wait)
      PROVE  WaitsKept'
  BY <1>27, WaitFacts DEF JoinedLate, Proceed, WaitsKept
<1>28. CASE CountTurns
  <2>1. active = 0 => Turns = {}
    BY TurnsFinite, FS_EmptySet DEF DrainCounts
  <2>2. QED
    BY <1>28, <2>1 DEF CountTurns, shutdown, WaitsKept, After, Turns
<1>29. CASE Mark
  BY <1>29 DEF Mark, shutdown, WaitsKept, After, Turns
<1>30. CASE Return
  BY <1>30 DEF Return, Gone, WaitsKept, After
<1>31. CASE Crash
  BY <1>31 DEF Crash, Gone, WaitsKept, After
<1>32. CASE UNCHANGED vars
  BY <1>32 DEF vars, shutdown, WaitsKept, After, Turns
<1>33. QED
  BY <1>1, <1>2, <1>3, <1>4, <1>5, <1>6, <1>7, <1>8, <1>9, <1>10,
     <1>11, <1>12, <1>13, <1>14, <1>15, <1>16, <1>17, <1>18, <1>19,
     <1>20, <1>21, <1>22, <1>23, <1>24, <1>25, <1>26, <1>27, <1>28,
     <1>29, <1>30, <1>31, <1>32
  DEF Next, Request, Background, Shutdown

\* Mark is the only action that writes the marker, and Boot removes it.
LEMMA MarkerInOrderStep == Types /\ MarkerInOrder /\ [Next]_vars => MarkerInOrder'
<1> SUFFICES ASSUME Types, MarkerInOrder, [Next]_vars
             PROVE  MarkerInOrder'
  OBVIOUS
<1>1. ASSUME NEW t \in Threads, Accept(t)
      PROVE  MarkerInOrder'
  BY <1>1 DEF Accept, shutdown, MarkerInOrder
<1>2. ASSUME NEW t \in Threads, Drop(t)
      PROVE  MarkerInOrder'
  BY <1>2 DEF Drop, shutdown, MarkerInOrder
<1>3. ASSUME NEW t \in Threads, Acquire(t)
      PROVE  MarkerInOrder'
  BY <1>3 DEF Acquire, shutdown, MarkerInOrder
<1>4. ASSUME NEW t \in Threads, Refuse(t)
      PROVE  MarkerInOrder'
  BY <1>4 DEF Refuse, shutdown, MarkerInOrder
<1>5. ASSUME NEW t \in Threads, Enter(t)
      PROVE  MarkerInOrder'
  BY <1>5 DEF Enter, shutdown, MarkerInOrder
<1>6. ASSUME NEW t \in Threads, Begin(t)
      PROVE  MarkerInOrder'
  BY <1>6 DEF Begin, shutdown, MarkerInOrder
<1>7. ASSUME NEW t \in Threads, Leave(t)
      PROVE  MarkerInOrder'
  BY <1>7 DEF Leave, shutdown, MarkerInOrder
<1>8. ASSUME NEW t \in Threads, Release(t)
      PROVE  MarkerInOrder'
  BY <1>8 DEF Release, shutdown, MarkerInOrder
<1>9. ASSUME NEW t \in Threads, Delete(t)
      PROVE  MarkerInOrder'
  BY <1>9 DEF Delete, shutdown, MarkerInOrder
<1>10. ASSUME NEW t \in Threads, Deleted(t)
      PROVE  MarkerInOrder'
  BY <1>10 DEF Deleted, shutdown, MarkerInOrder
<1>11. ASSUME NEW w \in Workers, Tick(w)
      PROVE  MarkerInOrder'
  BY <1>11 DEF Tick, shutdown, MarkerInOrder
<1>12. ASSUME NEW w \in Workers, EndTick(w)
      PROVE  MarkerInOrder'
  BY <1>12 DEF EndTick, shutdown, MarkerInOrder
<1>13. ASSUME NEW w \in Workers, End(w)
      PROVE  MarkerInOrder'
  BY <1>13 DEF End, shutdown, MarkerInOrder
<1>14. CASE Claim
  BY <1>14 DEF Claim, shutdown, MarkerInOrder
<1>15. CASE StartJob
  BY <1>15 DEF StartJob, shutdown, MarkerInOrder
<1>16. CASE SkipJob
  BY <1>16 DEF SkipJob, shutdown, MarkerInOrder
<1>17. CASE EndJob
  BY <1>17 DEF EndJob, shutdown, MarkerInOrder
<1>18. CASE StartRemoval
  BY <1>18 DEF StartRemoval, shutdown, MarkerInOrder
<1>19. CASE EndRemoval
  BY <1>19 DEF EndRemoval, shutdown, MarkerInOrder
<1>20. CASE Boot
  BY <1>20 DEF Boot, MarkerInOrder
<1>21. CASE Open
  BY <1>21 DEF Open, MarkerInOrder
<1>22. CASE Fail
  BY <1>22 DEF Fail, Gone, MarkerInOrder
<1>23. CASE Signal
  BY <1>23 DEF Signal, MarkerInOrder
<1>24. CASE StartDraining
  BY <1>24 DEF StartDraining, MarkerInOrder
<1>25. CASE CloseListener
  BY <1>25 DEF CloseListener, MarkerInOrder
<1>26. ASSUME NEW wait \in Waits, Joined(wait)
      PROVE  MarkerInOrder'
  BY <1>26, WaitFacts DEF Joined, Proceed, MarkerInOrder
<1>27. ASSUME NEW wait \in Waits, JoinedLate(wait)
      PROVE  MarkerInOrder'
  BY <1>27, WaitFacts DEF JoinedLate, Proceed, MarkerInOrder
<1>28. CASE CountTurns
  BY <1>28 DEF CountTurns, MarkerInOrder
<1>29. CASE Mark
  BY <1>29 DEF Mark, shutdown, MarkerInOrder
<1>30. CASE Return
  BY <1>30 DEF Return, Gone, MarkerInOrder
<1>31. CASE Crash
  BY <1>31 DEF Crash, Gone, MarkerInOrder
<1>32. CASE UNCHANGED vars
  BY <1>32 DEF vars, shutdown, MarkerInOrder
<1>33. QED
  BY <1>1, <1>2, <1>3, <1>4, <1>5, <1>6, <1>7, <1>8, <1>9, <1>10,
     <1>11, <1>12, <1>13, <1>14, <1>15, <1>16, <1>17, <1>18, <1>19,
     <1>20, <1>21, <1>22, <1>23, <1>24, <1>25, <1>26, <1>27, <1>28,
     <1>29, <1>30, <1>31, <1>32
  DEF Next, Request, Background, Shutdown

\* A lease goes only with its holder.
LEMMA LeaseHeldStep == Types /\ ClosedIsIdle /\ LeaseHeld /\ [Next]_vars => LeaseHeld'
<1> SUFFICES ASSUME Types, ClosedIsIdle, LeaseHeld, [Next]_vars
             PROVE  LeaseHeld'
  OBVIOUS
<1>1. ASSUME NEW t \in Threads, Accept(t)
      PROVE  LeaseHeld'
  BY <1>1 DEF Accept, Moves, LeaseHeld, Counted
<1>2. ASSUME NEW t \in Threads, Drop(t)
      PROVE  LeaseHeld'
  BY <1>2 DEF Drop, Moves, LeaseHeld, Counted
<1>3. ASSUME NEW t \in Threads, Acquire(t)
      PROVE  LeaseHeld'
  BY <1>3, DrainAssumption DEF Acquire, Moves, Lease, LeaseHeld, Workers
<1>4. ASSUME NEW t \in Threads, Refuse(t)
      PROVE  LeaseHeld'
  BY <1>4, DrainAssumption DEF Refuse, Moves, Settle, Types, LeaseHeld, Counted,
     Workers
<1>5. ASSUME NEW t \in Threads, Enter(t)
      PROVE  LeaseHeld'
  BY <1>5 DEF Enter, Moves, LeaseHeld
<1>6. ASSUME NEW t \in Threads, Begin(t)
      PROVE  LeaseHeld'
  BY <1>6 DEF Begin, Moves, LeaseHeld, Counted
<1>7. ASSUME NEW t \in Threads, Leave(t)
      PROVE  LeaseHeld'
  BY <1>7 DEF Leave, LeaseHeld
<1>8. ASSUME NEW t \in Threads, Release(t)
      PROVE  LeaseHeld'
  BY <1>8, DrainAssumption DEF Release, Moves, Settle, Types, LeaseHeld, Counted,
     Workers
<1>9. ASSUME NEW t \in Threads, Delete(t)
      PROVE  LeaseHeld'
  BY <1>9 DEF Delete, Moves, LeaseHeld, Counted
<1>10. ASSUME NEW t \in Threads, Deleted(t)
      PROVE  LeaseHeld'
  BY <1>10 DEF Deleted, Moves, LeaseHeld, Counted
<1>11. ASSUME NEW w \in Workers, Tick(w)
      PROVE  LeaseHeld'
  BY <1>11 DEF Tick, Steps, LeaseHeld
<1>12. ASSUME NEW w \in Workers, EndTick(w)
      PROVE  LeaseHeld'
  BY <1>12 DEF EndTick, Steps, LeaseHeld
<1>13. ASSUME NEW w \in Workers, End(w)
      PROVE  LeaseHeld'
  BY <1>13 DEF End, Steps, LeaseHeld
<1>14. CASE Claim
  BY <1>14 DEF Claim, Steps, LeaseHeld
<1>15. CASE StartJob
  BY <1>15, DrainAssumption DEF StartJob, Lease, LeaseHeld
<1>16. CASE SkipJob
  BY <1>16 DEF SkipJob, Steps, LeaseHeld
<1>17. CASE EndJob
  BY <1>17, DrainAssumption DEF EndJob, Steps, Settle, Types, LeaseHeld, Workers
<1>18. CASE StartRemoval
  BY <1>18, DrainAssumption DEF StartRemoval, Steps, LeaseHeld
<1>19. CASE EndRemoval
  BY <1>19 DEF EndRemoval, Steps, LeaseHeld
<1>20. CASE Boot
  BY <1>20 DEF Boot, LeaseHeld
<1>21. CASE Open
  BY <1>21 DEF Open, ClosedIsIdle, LeaseHeld, Counted, Workers
<1>22. CASE Fail
  BY <1>22 DEF Fail, Gone, LeaseHeld, Counted, Workers
<1>23. CASE Signal
  BY <1>23 DEF Signal, LeaseHeld
<1>24. CASE StartDraining
  BY <1>24 DEF StartDraining, LeaseHeld
<1>25. CASE CloseListener
  BY <1>25 DEF CloseListener, LeaseHeld
<1>26. ASSUME NEW wait \in Waits, Joined(wait)
      PROVE  LeaseHeld'
  BY <1>26 DEF Joined, Proceed, LeaseHeld
<1>27. ASSUME NEW wait \in Waits, JoinedLate(wait)
      PROVE  LeaseHeld'
  BY <1>27 DEF JoinedLate, Proceed, LeaseHeld
<1>28. CASE CountTurns
  BY <1>28 DEF CountTurns, LeaseHeld
<1>29. CASE Mark
  BY <1>29 DEF Mark, LeaseHeld
<1>30. CASE Return
  BY <1>30 DEF Return, Gone, LeaseHeld, Counted, Workers
<1>31. CASE Crash
  BY <1>31 DEF Crash, Gone, LeaseHeld, Counted, Workers
<1>32. CASE UNCHANGED vars
  BY <1>32 DEF vars, LeaseHeld
<1>33. QED
  BY <1>1, <1>2, <1>3, <1>4, <1>5, <1>6, <1>7, <1>8, <1>9, <1>10,
     <1>11, <1>12, <1>13, <1>14, <1>15, <1>16, <1>17, <1>18, <1>19,
     <1>20, <1>21, <1>22, <1>23, <1>24, <1>25, <1>26, <1>27, <1>28,
     <1>29, <1>30, <1>31, <1>32
  DEF Next, Request, Background, Shutdown

\* Only the end of a process cuts work off.
LEMMA CutIsPastStep == CutIsPast /\ [Next]_vars => CutIsPast'
<1> SUFFICES ASSUME CutIsPast, [Next]_vars
             PROVE  CutIsPast'
  OBVIOUS
<1>1. ASSUME NEW t \in Threads, Accept(t)
      PROVE  CutIsPast'
  BY <1>1 DEF Accept, CutIsPast
<1>2. ASSUME NEW t \in Threads, Drop(t)
      PROVE  CutIsPast'
  BY <1>2 DEF Drop, CutIsPast
<1>3. ASSUME NEW t \in Threads, Acquire(t)
      PROVE  CutIsPast'
  BY <1>3 DEF Acquire, CutIsPast
<1>4. ASSUME NEW t \in Threads, Refuse(t)
      PROVE  CutIsPast'
  BY <1>4 DEF Refuse, CutIsPast
<1>5. ASSUME NEW t \in Threads, Enter(t)
      PROVE  CutIsPast'
  BY <1>5 DEF Enter, CutIsPast
<1>6. ASSUME NEW t \in Threads, Begin(t)
      PROVE  CutIsPast'
  BY <1>6 DEF Begin, CutIsPast
<1>7. ASSUME NEW t \in Threads, Leave(t)
      PROVE  CutIsPast'
  BY <1>7 DEF Leave, CutIsPast
<1>8. ASSUME NEW t \in Threads, Release(t)
      PROVE  CutIsPast'
  BY <1>8 DEF Release, CutIsPast
<1>9. ASSUME NEW t \in Threads, Delete(t)
      PROVE  CutIsPast'
  BY <1>9 DEF Delete, CutIsPast
<1>10. ASSUME NEW t \in Threads, Deleted(t)
      PROVE  CutIsPast'
  BY <1>10 DEF Deleted, CutIsPast
<1>11. ASSUME NEW w \in Workers, Tick(w)
      PROVE  CutIsPast'
  BY <1>11 DEF Tick, CutIsPast
<1>12. ASSUME NEW w \in Workers, EndTick(w)
      PROVE  CutIsPast'
  BY <1>12 DEF EndTick, CutIsPast
<1>13. ASSUME NEW w \in Workers, End(w)
      PROVE  CutIsPast'
  BY <1>13 DEF End, CutIsPast
<1>14. CASE Claim
  BY <1>14 DEF Claim, CutIsPast
<1>15. CASE StartJob
  BY <1>15 DEF StartJob, CutIsPast
<1>16. CASE SkipJob
  BY <1>16 DEF SkipJob, CutIsPast
<1>17. CASE EndJob
  BY <1>17 DEF EndJob, CutIsPast
<1>18. CASE StartRemoval
  BY <1>18 DEF StartRemoval, CutIsPast
<1>19. CASE EndRemoval
  BY <1>19 DEF EndRemoval, CutIsPast
<1>20. CASE Boot
  BY <1>20 DEF Boot, CutIsPast
<1>21. CASE Open
  BY <1>21 DEF Open, CutIsPast
<1>22. CASE Fail
  BY <1>22 DEF Fail, Gone, CutIsPast
<1>23. CASE Signal
  BY <1>23 DEF Signal, CutIsPast
<1>24. CASE StartDraining
  BY <1>24 DEF StartDraining, CutIsPast
<1>25. CASE CloseListener
  BY <1>25 DEF CloseListener, CutIsPast
<1>26. ASSUME NEW wait \in Waits, Joined(wait)
      PROVE  CutIsPast'
  BY <1>26, WaitFacts DEF Joined, Proceed, CutIsPast
<1>27. ASSUME NEW wait \in Waits, JoinedLate(wait)
      PROVE  CutIsPast'
  BY <1>27, WaitFacts DEF JoinedLate, Proceed, CutIsPast
<1>28. CASE CountTurns
  BY <1>28 DEF CountTurns, CutIsPast
<1>29. CASE Mark
  BY <1>29 DEF Mark, CutIsPast
<1>30. CASE Return
  BY <1>30 DEF Return, Gone, CutIsPast
<1>31. CASE Crash
  BY <1>31 DEF Crash, Gone, CutIsPast
<1>32. CASE UNCHANGED vars
  BY <1>32 DEF vars, CutIsPast
<1>33. QED
  BY <1>1, <1>2, <1>3, <1>4, <1>5, <1>6, <1>7, <1>8, <1>9, <1>10,
     <1>11, <1>12, <1>13, <1>14, <1>15, <1>16, <1>17, <1>18, <1>19,
     <1>20, <1>21, <1>22, <1>23, <1>24, <1>25, <1>26, <1>27, <1>28,
     <1>29, <1>30, <1>31, <1>32
  DEF Next, Request, Background, Shutdown

\* A process that ends under the marker and without leases cuts off deletions only.
LEMMA AcceptedIsFinishedStep == Types /\ ClosedIsIdle /\ WaitsKept /\ MarkerInOrder /\ LeaseHeld /\ CutIsPast /\ AcceptedIsFinished /\ [Next]_vars => AcceptedIsFinished'
<1> SUFFICES ASSUME Types, ClosedIsIdle, WaitsKept, MarkerInOrder, LeaseHeld, CutIsPast, AcceptedIsFinished, [Next]_vars
             PROVE  AcceptedIsFinished'
  OBVIOUS
<1>1. ASSUME NEW t \in Threads, Accept(t)
      PROVE  AcceptedIsFinished'
  BY <1>1 DEF Accept, AcceptedIsFinished, Accepted
<1>2. ASSUME NEW t \in Threads, Drop(t)
      PROVE  AcceptedIsFinished'
  BY <1>2 DEF Drop, AcceptedIsFinished, Accepted
<1>3. ASSUME NEW t \in Threads, Acquire(t)
      PROVE  AcceptedIsFinished'
  BY <1>3 DEF Acquire, Lease, AcceptedIsFinished, Accepted
<1>4. ASSUME NEW t \in Threads, Refuse(t)
      PROVE  AcceptedIsFinished'
  BY <1>4 DEF Refuse, AcceptedIsFinished, Accepted, ClosedIsIdle
<1>5. ASSUME NEW t \in Threads, Enter(t)
      PROVE  AcceptedIsFinished'
  BY <1>5 DEF Enter, AcceptedIsFinished, Accepted
<1>6. ASSUME NEW t \in Threads, Begin(t)
      PROVE  AcceptedIsFinished'
  BY <1>6 DEF Begin, AcceptedIsFinished, Accepted
<1>7. ASSUME NEW t \in Threads, Leave(t)
      PROVE  AcceptedIsFinished'
  BY <1>7 DEF Leave, AcceptedIsFinished, Accepted
<1>8. ASSUME NEW t \in Threads, Release(t)
      PROVE  AcceptedIsFinished'
  BY <1>8 DEF Release, Moves, AcceptedIsFinished, Accepted, ClosedIsIdle
<1>9. ASSUME NEW t \in Threads, Delete(t)
      PROVE  AcceptedIsFinished'
  BY <1>9 DEF Delete, AcceptedIsFinished, Accepted
<1>10. ASSUME NEW t \in Threads, Deleted(t)
      PROVE  AcceptedIsFinished'
  BY <1>10 DEF Deleted, AcceptedIsFinished, Accepted
<1>11. ASSUME NEW w \in Workers, Tick(w)
      PROVE  AcceptedIsFinished'
  BY <1>11 DEF Tick, AcceptedIsFinished, Accepted
<1>12. ASSUME NEW w \in Workers, EndTick(w)
      PROVE  AcceptedIsFinished'
  BY <1>12 DEF EndTick, AcceptedIsFinished, Accepted
<1>13. ASSUME NEW w \in Workers, End(w)
      PROVE  AcceptedIsFinished'
  BY <1>13 DEF End, AcceptedIsFinished, Accepted
<1>14. CASE Claim
  BY <1>14 DEF Claim, AcceptedIsFinished, Accepted
<1>15. CASE StartJob
  BY <1>15 DEF StartJob, Lease, AcceptedIsFinished, Accepted
<1>16. CASE SkipJob
  BY <1>16 DEF SkipJob, AcceptedIsFinished, Accepted
<1>17. CASE EndJob
  BY <1>17 DEF EndJob, Steps, AcceptedIsFinished, Accepted, ClosedIsIdle, Workers
<1>18. CASE StartRemoval
  BY <1>18 DEF StartRemoval, AcceptedIsFinished, Accepted
<1>19. CASE EndRemoval
  BY <1>19 DEF EndRemoval, AcceptedIsFinished, Accepted
<1>20. CASE Boot
  BY <1>20 DEF Boot, AcceptedIsFinished, Accepted
<1>21. CASE Open
  BY <1>21 DEF Open, AcceptedIsFinished
<1>22. CASE Fail
  <2> SUFFICES ASSUME marker, leases = {}, main = "marked"
               PROVE  cut' \subseteq {"delete"}
    BY <1>22 DEF Fail, Gone, MarkerInOrder, AcceptedIsFinished, Accepted
  <2>1. /\ \A t \in Threads : thread[t] \notin {"turning", "leaving"}
        /\ worker[Scheduler] # "working" /\ worker[Retention] # "working"
    BY DEF LeaseHeld, Counted, MarkerInOrder, WaitsKept, After
  <2>2. \A kind \in Kinds : Busy(kind) => kind = "delete"
    BY <2>1 DEF Busy, Kinds
  <2>3. QED
    BY <1>22, <2>2 DEF Fail, Gone, CutIsPast
<1>23. CASE Signal
  BY <1>23 DEF Signal, AcceptedIsFinished, Accepted
<1>24. CASE StartDraining
  BY <1>24 DEF StartDraining, AcceptedIsFinished, Accepted
<1>25. CASE CloseListener
  BY <1>25 DEF CloseListener, AcceptedIsFinished, Accepted
<1>26. ASSUME NEW wait \in Waits, Joined(wait)
      PROVE  AcceptedIsFinished'
  BY <1>26, WaitFacts DEF Joined, Proceed, AcceptedIsFinished, Accepted
<1>27. ASSUME NEW wait \in Waits, JoinedLate(wait)
      PROVE  AcceptedIsFinished'
  BY <1>27, WaitFacts DEF JoinedLate, Proceed, AcceptedIsFinished, Accepted
<1>28. CASE CountTurns
  BY <1>28 DEF CountTurns, AcceptedIsFinished, Accepted
<1>29. CASE Mark
  BY <1>29 DEF Mark, AcceptedIsFinished, Accepted
<1>30. CASE Return
  <2> SUFFICES ASSUME marker, leases = {}, main = "marked"
               PROVE  cut' \subseteq {"delete"}
    BY <1>30 DEF Return, Gone, MarkerInOrder, AcceptedIsFinished, Accepted
  <2>1. /\ \A t \in Threads : thread[t] \notin {"turning", "leaving"}
        /\ worker[Scheduler] # "working" /\ worker[Retention] # "working"
    BY DEF LeaseHeld, Counted, MarkerInOrder, WaitsKept, After
  <2>2. \A kind \in Kinds : Busy(kind) => kind = "delete"
    BY <2>1 DEF Busy, Kinds
  <2>3. QED
    BY <1>30, <2>2 DEF Return, Gone, CutIsPast
<1>31. CASE Crash
  <2> SUFFICES ASSUME marker, leases = {}, main = "marked"
               PROVE  cut' \subseteq {"delete"}
    BY <1>31 DEF Crash, Gone, MarkerInOrder, AcceptedIsFinished, Accepted
  <2>1. /\ \A t \in Threads : thread[t] \notin {"turning", "leaving"}
        /\ worker[Scheduler] # "working" /\ worker[Retention] # "working"
    BY DEF LeaseHeld, Counted, MarkerInOrder, WaitsKept, After
  <2>2. \A kind \in Kinds : Busy(kind) => kind = "delete"
    BY <2>1 DEF Busy, Kinds
  <2>3. QED
    BY <1>31, <2>2 DEF Crash, Gone, CutIsPast
<1>32. CASE UNCHANGED vars
  BY <1>32 DEF vars, AcceptedIsFinished, Accepted
<1>33. QED
  BY <1>1, <1>2, <1>3, <1>4, <1>5, <1>6, <1>7, <1>8, <1>9, <1>10,
     <1>11, <1>12, <1>13, <1>14, <1>15, <1>16, <1>17, <1>18, <1>19,
     <1>20, <1>21, <1>22, <1>23, <1>24, <1>25, <1>26, <1>27, <1>28,
     <1>29, <1>30, <1>31, <1>32
  DEF Next, Request, Background, Shutdown

-----------------------------------------------------------------------------
\* The inductive invariant: the marker is only as good as the waits before it, the
\* waits as the count, and what the count misses shows in the leases.
Stopping ==
  /\ Types /\ ClosedIsIdle /\ DrainCounts /\ WaitsKept
  /\ MarkerInOrder /\ LeaseHeld /\ CutIsPast /\ AcceptedIsFinished

\* The invariant holds in every reachable state.
LEMMA StoppingHolds == Spec => []Stopping
<1>1. Init => Stopping
  BY InitInvariants DEF Stopping
<1>2. Stopping /\ [Next]_vars => Stopping'
  BY TypesStep, ClosedIsIdleStep, DrainCountsStep, WaitsKeptStep, MarkerInOrderStep,
     LeaseHeldStep, CutIsPastStep, AcceptedIsFinishedStep
  DEF Stopping
<1>3. QED
  BY <1>1, <1>2, PTL DEF Spec

\* TYPE: the types, the count among them.
THEOREM DrainTypes == Spec => []TypeOK
<1>1. Stopping => TypeOK
  <2> SUFFICES ASSUME Stopping
               PROVE  TypeOK
    OBVIOUS
  <2>1. active \in Nat
    BY TurnsFinite, FS_CardinalityType DEF Stopping, DrainCounts
  <2>2. QED
    BY <2>1 DEF Stopping, Types, TypeOK
<1>2. QED
  BY <1>1, StoppingHolds, PTL

\* THE DRAIN WAITS FOR THE TURNS: wait_for_drain sees zero exactly when no turn is
\* between _turn_enter and _turn_leave, refused and failed ones included.
THEOREM TurnsAreCounted == Spec => []DrainCounts
<1>1. Stopping => DrainCounts
  BY DEF Stopping
<1>2. QED
  BY <1>1, StoppingHolds, PTL

\* THE MARKER IS TRUE: under it no turn, no scheduled turn, no sweep and no
\* verification is under way, until the next start has removed it.
THEOREM MarkerIsQuiet == Spec => []CleanMeansQuiet
<1>1. Stopping => CleanMeansQuiet
  <2> SUFFICES ASSUME Stopping, marker
               PROVE  main \in {"marked", "down"} /\ Turns = {}
                      /\ \A w \in Workers : worker[w] = "ended"
    BY DEF CleanMeansQuiet
  <2>1. CASE main = "down"
    BY <2>1 DEF Stopping, ClosedIsIdle, Turns, Counted
  <2>2. CASE main = "marked"
    BY <2>2 DEF Stopping, MarkerInOrder, WaitsKept, After, Workers
  <2>3. QED
    BY <2>1, <2>2 DEF Stopping, MarkerInOrder
<1>2. QED
  BY <1>1, StoppingHolds, PTL

\* WHAT THE BACKUP ACCEPTS IS FINISHED: marker and empty lease table together exclude
\* every half-done change but that of a deletion.
THEOREM AcceptedStateIsFinished == Spec => []AcceptedIsFinished
<1>1. Stopping => AcceptedIsFinished
  BY DEF Stopping
<1>2. QED
  BY <1>1, StoppingHolds, PTL

=============================================================================
