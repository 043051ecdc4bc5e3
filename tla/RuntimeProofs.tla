----------------------------- MODULE RuntimeProofs -----------------------------
(***************************************************************************)
(* Theorems of Runtime for every number of turns and compilers, whatever   *)
(* the budget and the window of the health marks.                          *)
(***************************************************************************)
EXTENDS Runtime, TLAPS, WellFoundedInduction, SequenceTheorems, FiniteSetTheorems

USE DEF health, closing

\* The types, as far as they do not look at the marks.
Types ==
  /\ process \in [Compilers -> {"live", "crashed", "killed"}]
  /\ owed \in [Compilers -> Int]
  /\ client \in Compilers \cup {NoCompiler}
  /\ caller \in [Callers -> [phase : Phases, with : Compilers \cup {NoCompiler}]]
  /\ lock \in Callers \cup {Nobody}
  /\ closed \in BOOLEAN
  /\ closer \in [phase : {"serving", "closing", "killing", "closed"},
                 target : Compilers \cup {NoCompiler}]

\* The turn between the endpoint's lock and its release.
Inside == {"starting", "greeting", "installed", "forging", "reading"}

\* _lock: held by the turn inside, and by no other.
OneInside == \A c \in Callers : caller[c].phase \in Inside <=> lock = c

\* _client is the compiler the turn inside works with, once it is installed, and
\* nothing while that turn starts one.
ClientInside ==
  \A c \in Callers :
    /\ caller[c].phase \in {"greeting", "installed", "forging", "reading"}
         => caller[c].with \in Compilers
    /\ caller[c].phase \in {"installed", "forging", "reading"} => client = caller[c].with
    /\ caller[c].phase \in {"starting", "greeting"} => client = NoCompiler

\* A compiler owes an answer only to a turn that waits for it: the client owes
\* nothing between turns.
Answered ==
  /\ \A p \in Compilers : owed[p] \in 0..1
  /\ client # NoCompiler /\ lock = Nobody => owed[client] = 0
  /\ \A c \in Callers :
       /\ caller[c].phase = "installed" => owed[caller[c].with] = 0
       /\ caller[c].phase \in {"forging", "reading"} => owed[caller[c].with] = 1

\* close has set its flag before it looks at anything, and what it is about to kill
\* is the client, unless a turn has just installed another one.
ClosingInOrder ==
  /\ closed <=> closer.phase # "serving"
  /\ closer.phase = "killing" /\ client # NoCompiler =>
       \/ client = closer.target
       \/ \E c \in Callers : caller[c].phase = "installed" /\ caller[c].with = client

\* The endpoint as __enter__ leaves it: one compiler, installed and idle.
LEMMA InitInvariants ==
  Init => Types /\ OneInside /\ ClientInside /\ Answered /\ ClosingInOrder /\ NoOrphan
<1> SUFFICES ASSUME Init
             PROVE  Types /\ OneInside /\ ClientInside /\ Answered /\ ClosingInOrder /\ NoOrphan
  OBVIOUS
<1>1. PICK p \in Compilers :
        /\ client = p
        /\ process = [q \in Compilers |-> IF q = p THEN "live" ELSE "killed"]
  BY DEF Init
<1>2. Types
  <2>1. Away \in [phase : Phases, with : Compilers \cup {NoCompiler}]
    BY DEF Away, Phases
  <2>2. caller \in [Callers -> [phase : Phases, with : Compilers \cup {NoCompiler}]]
    BY <2>1 DEF Init
  <2>3. process \in [Compilers -> {"live", "crashed", "killed"}] /\ client \in Compilers
    BY <1>1
  <2>4. closer \in [phase : {"serving", "closing", "killing", "closed"},
                   target : Compilers \cup {NoCompiler}]
    BY DEF Init
  <2>5. owed \in [Compilers -> Int] /\ lock = Nobody
    BY DEF Init
  <2>6. closed \in BOOLEAN
    BY DEF Init
  <2>7. QED
    BY <2>2, <2>3, <2>4, <2>5, <2>6 DEF Types
<1>3. OneInside /\ ClientInside /\ ClosingInOrder
  BY <1>1, RuntimeAssumption DEF Init, OneInside, ClientInside, ClosingInOrder,
     Inside, Away
<1>4. Answered /\ NoOrphan
  BY <1>1 DEF Init, Answered, NoOrphan, Away
<1>5. QED
  BY <1>2, <1>3, <1>4

\* Every action keeps the types.
LEMMA TypesStep == Types /\ ClientInside /\ [Next]_vars => Types'
<1> SUFFICES ASSUME Types, ClientInside, [Next]_vars
             PROVE  Types'
  OBVIOUS
<1>1. ASSUME NEW c \in Callers, Call(c)
      PROVE  Types'
  BY <1>1 DEF Call, Types, Phases
<1>2. ASSUME NEW c \in Callers, GiveUp(c)
      PROVE  Types'
  BY <1>2 DEF GiveUp, Types, Phases, Away
<1>3. ASSUME NEW c \in Callers, Enter(c)
      PROVE  Types'
  BY <1>3 DEF Enter, Types, Phases
<1>4. ASSUME NEW c \in Callers, CallRefused(c)
      PROVE  Types'
  BY <1>4 DEF CallRefused, Types, Phases, Away
<1>5. ASSUME NEW c \in Callers, CallServed(c)
      PROVE  Types'
  BY <1>5 DEF CallServed, Ask, Types, Phases
<1>6. ASSUME NEW c \in Callers, CallStarts(c)
      PROVE  Types'
  BY <1>6 DEF CallStarts, Types, Phases
<1>7. ASSUME NEW c \in Callers, StartFails(c)
      PROVE  Types'
  BY <1>7 DEF StartFails, GoAway, Types, Phases, Away
<1>8. ASSUME NEW c \in Callers, NEW p \in Compilers, Spawn(c, p)
      PROVE  Types'
  BY <1>8 DEF Spawn, Referenced, Types, Phases
<1>9. ASSUME NEW c \in Callers, GreetingFails(c)
      PROVE  Types'
  BY <1>9 DEF GreetingFails, GoAway, Disposed, Types, Phases, Away
<1>10. ASSUME NEW c \in Callers, GreetingCut(c)
      PROVE  Types'
  BY <1>10 DEF GreetingCut, GoAway, Disposed, Types, Phases, Away
<1>11. ASSUME NEW c \in Callers, Install(c)
      PROVE  Types'
  <2>1. caller[c].with \in Compilers
    BY <1>11 DEF Install, ClientInside
  <2>2. owed' \in [Compilers -> Int] /\ client' \in Compilers
    BY <1>11, <2>1 DEF Install, Types
  <2>3. caller' \in [Callers -> [phase : Phases, with : Compilers \cup {NoCompiler}]]
    BY <1>11 DEF Install, Types, Phases
  <2>4. QED
    BY <1>11, <2>2, <2>3 DEF Install, Types
<1>12. ASSUME NEW c \in Callers, InstallClosed(c)
      PROVE  Types'
  BY <1>12 DEF InstallClosed, GoAway, Retire, Disposed, Types, Phases, Away
<1>13. ASSUME NEW c \in Callers, InstallSpent(c)
      PROVE  Types'
  BY <1>13 DEF InstallSpent, GoAway, Types, Phases, Away
<1>14. ASSUME NEW c \in Callers, InstallServed(c)
      PROVE  Types'
  <2>1. caller[c].with \in Compilers
    BY <1>14 DEF InstallServed, ClientInside
  <2>2. owed' \in [Compilers -> Int]
    BY <1>14, <2>1 DEF InstallServed, Ask, Types
  <2>3. caller' \in [Callers -> [phase : Phases, with : Compilers \cup {NoCompiler}]]
    BY <1>14, <2>1 DEF InstallServed, Ask, Types, Phases
  <2>4. QED
    BY <1>14, <2>2, <2>3 DEF InstallServed, Types
<1>15. ASSUME NEW c \in Callers, Answer(c)
      PROVE  Types'
  <2>1. caller[c].with \in Compilers
    BY <1>15 DEF Answer, ClientInside
  <2>2. owed' \in [Compilers -> Int]
    BY <1>15, <2>1 DEF Answer, Types
  <2>3. caller' \in [Callers -> [phase : Phases, with : Compilers \cup {NoCompiler}]]
    BY <1>15 DEF Answer, GoAway, Types, Phases, Away
  <2>4. QED
    BY <1>15, <2>2, <2>3 DEF Answer, GoAway, Types
<1>16. ASSUME NEW c \in Callers, Garble(c)
      PROVE  Types'
  BY <1>16 DEF Garble, GoAway, Retire, Disposed, Types, Phases, Away
<1>17. ASSUME NEW c \in Callers, Broken(c)
      PROVE  Types'
  BY <1>17 DEF Broken, GoAway, Retire, Disposed, Types, Phases, Away
<1>18. ASSUME NEW c \in Callers, Cut(c)
      PROVE  Types'
  BY <1>18 DEF Cut, GoAway, Retire, Disposed, Types, Phases, Away
<1>19. ASSUME NEW c \in Callers, StopShort(c)
      PROVE  Types'
  BY <1>19 DEF StopShort, Types, Phases
<1>20. ASSUME NEW p \in Compilers, Crash(p)
      PROVE  Types'
  BY <1>20 DEF Crash, Types
<1>21. CASE Close
  BY <1>21 DEF Close, Types
<1>22. CASE CloseLocked
  BY <1>22 DEF CloseLocked, Retire, Disposed, Types
<1>23. CASE CloseUnlocked
  BY <1>23 DEF CloseUnlocked, Types
<1>24. CASE CloseKills
  BY <1>24 DEF CloseKills, Disposed, Types
<1>25. CASE Pass
  BY <1>25 DEF Pass, Types
<1>26. CASE UNCHANGED vars
  BY <1>26 DEF vars, Types
<1>27. QED
  BY <1>1, <1>2, <1>3, <1>4, <1>5, <1>6, <1>7, <1>8, <1>9, <1>10,
     <1>11, <1>12, <1>13, <1>14, <1>15, <1>16, <1>17, <1>18, <1>19,
     <1>20, <1>21, <1>22, <1>23, <1>24, <1>25, <1>26
  DEF Next, Proceed, CloserStep

\* The lock is handed over and given back as the phases say.
LEMMA OneInsideStep == Types /\ OneInside /\ [Next]_vars => OneInside'
<1> SUFFICES ASSUME Types, OneInside, [Next]_vars
             PROVE  OneInside'
  OBVIOUS
<1>1. ASSUME NEW c \in Callers, Call(c)
      PROVE  OneInside'
  BY <1>1 DEF Call, OneInside, Inside, Away
<1>2. ASSUME NEW c \in Callers, GiveUp(c)
      PROVE  OneInside'
  BY <1>2 DEF GiveUp, OneInside, Inside, Away
<1>3. ASSUME NEW c \in Callers, Enter(c)
      PROVE  OneInside'
  BY <1>3 DEF Enter, OneInside, Inside
<1>4. ASSUME NEW c \in Callers, CallRefused(c)
      PROVE  OneInside'
  BY <1>4 DEF CallRefused, OneInside, Inside, Away
<1>5. ASSUME NEW c \in Callers, CallServed(c)
      PROVE  OneInside'
  BY <1>5, RuntimeAssumption DEF CallServed, Ask, Types, OneInside, Inside
<1>6. ASSUME NEW c \in Callers, CallStarts(c)
      PROVE  OneInside'
  BY <1>6, RuntimeAssumption DEF CallStarts, Types, OneInside, Inside
<1>7. ASSUME NEW c \in Callers, StartFails(c)
      PROVE  OneInside'
  BY <1>7, RuntimeAssumption DEF StartFails, GoAway, Types, OneInside, Inside, Away
<1>8. ASSUME NEW c \in Callers, NEW p \in Compilers, Spawn(c, p)
      PROVE  OneInside'
  BY <1>8 DEF Spawn, Referenced, OneInside, Inside
<1>9. ASSUME NEW c \in Callers, GreetingFails(c)
      PROVE  OneInside'
  BY <1>9, RuntimeAssumption DEF GreetingFails, GoAway, Disposed, Types, OneInside,
     Inside, Away
<1>10. ASSUME NEW c \in Callers, GreetingCut(c)
      PROVE  OneInside'
  BY <1>10, RuntimeAssumption DEF GreetingCut, GoAway, Disposed, Types, OneInside,
     Inside, Away
<1>11. ASSUME NEW c \in Callers, Install(c)
      PROVE  OneInside'
  BY <1>11 DEF Install, OneInside, Inside
<1>12. ASSUME NEW c \in Callers, InstallClosed(c)
      PROVE  OneInside'
  BY <1>12, RuntimeAssumption DEF InstallClosed, GoAway, Retire, Disposed, Types,
     OneInside, Inside, Away
<1>13. ASSUME NEW c \in Callers, InstallSpent(c)
      PROVE  OneInside'
  BY <1>13, RuntimeAssumption DEF InstallSpent, GoAway, Types, OneInside, Inside, Away
<1>14. ASSUME NEW c \in Callers, InstallServed(c)
      PROVE  OneInside'
  BY <1>14 DEF InstallServed, Ask, OneInside, Inside
<1>15. ASSUME NEW c \in Callers, Answer(c)
      PROVE  OneInside'
  BY <1>15, RuntimeAssumption DEF Answer, GoAway, Types, OneInside, Inside, Away
<1>16. ASSUME NEW c \in Callers, Garble(c)
      PROVE  OneInside'
  BY <1>16, RuntimeAssumption DEF Garble, GoAway, Retire, Disposed, Types, OneInside,
     Inside, Away
<1>17. ASSUME NEW c \in Callers, Broken(c)
      PROVE  OneInside'
  BY <1>17, RuntimeAssumption DEF Broken, GoAway, Retire, Disposed, Types, OneInside,
     Inside, Away
<1>18. ASSUME NEW c \in Callers, Cut(c)
      PROVE  OneInside'
  BY <1>18, RuntimeAssumption DEF Cut, GoAway, Retire, Disposed, Types, OneInside,
     Inside, Away
<1>19. ASSUME NEW c \in Callers, StopShort(c)
      PROVE  OneInside'
  BY <1>19 DEF StopShort, OneInside, Inside
<1>20. ASSUME NEW p \in Compilers, Crash(p)
      PROVE  OneInside'
  BY <1>20 DEF Crash, OneInside
<1>21. CASE Close
  BY <1>21 DEF Close, OneInside
<1>22. CASE CloseLocked
  BY <1>22 DEF CloseLocked, Retire, Disposed, OneInside
<1>23. CASE CloseUnlocked
  BY <1>23 DEF CloseUnlocked, OneInside
<1>24. CASE CloseKills
  BY <1>24 DEF CloseKills, Disposed, OneInside
<1>25. CASE Pass
  BY <1>25 DEF Pass, OneInside
<1>26. CASE UNCHANGED vars
  BY <1>26 DEF vars, OneInside
<1>27. QED
  BY <1>1, <1>2, <1>3, <1>4, <1>5, <1>6, <1>7, <1>8, <1>9, <1>10,
     <1>11, <1>12, <1>13, <1>14, <1>15, <1>16, <1>17, <1>18, <1>19,
     <1>20, <1>21, <1>22, <1>23, <1>24, <1>25, <1>26
  DEF Next, Proceed, CloserStep

\* Only the turn inside changes the client, or close when nobody is inside.
LEMMA ClientInsideStep == Types /\ OneInside /\ ClientInside /\ [Next]_vars => ClientInside'
<1> SUFFICES ASSUME Types, OneInside, ClientInside, [Next]_vars
             PROVE  ClientInside'
  OBVIOUS
<1>1. ASSUME NEW c \in Callers, Call(c)
      PROVE  ClientInside'
  BY <1>1 DEF Call, ClientInside
<1>2. ASSUME NEW c \in Callers, GiveUp(c)
      PROVE  ClientInside'
  BY <1>2 DEF GiveUp, ClientInside, Away
<1>3. ASSUME NEW c \in Callers, Enter(c)
      PROVE  ClientInside'
  BY <1>3 DEF Enter, ClientInside
<1>4. ASSUME NEW c \in Callers, CallRefused(c)
      PROVE  ClientInside'
  BY <1>4 DEF CallRefused, ClientInside, Away
<1>5. ASSUME NEW c \in Callers, CallServed(c)
      PROVE  ClientInside'
  BY <1>5 DEF CallServed, Ask, Types, ClientInside
<1>6. ASSUME NEW c \in Callers, CallStarts(c)
      PROVE  ClientInside'
  BY <1>6 DEF CallStarts, ClientInside
<1>7. ASSUME NEW c \in Callers, StartFails(c)
      PROVE  ClientInside'
  BY <1>7 DEF StartFails, GoAway, ClientInside, Away
<1>8. ASSUME NEW c \in Callers, NEW p \in Compilers, Spawn(c, p)
      PROVE  ClientInside'
  BY <1>8 DEF Spawn, Referenced, ClientInside
<1>9. ASSUME NEW c \in Callers, GreetingFails(c)
      PROVE  ClientInside'
  BY <1>9 DEF GreetingFails, GoAway, Disposed, ClientInside, Away
<1>10. ASSUME NEW c \in Callers, GreetingCut(c)
      PROVE  ClientInside'
  BY <1>10 DEF GreetingCut, GoAway, Disposed, Types, ClientInside, Away
<1>11. ASSUME NEW c \in Callers, Install(c)
      PROVE  ClientInside'
  BY <1>11 DEF Install, Types, OneInside, ClientInside, Inside
<1>12. ASSUME NEW c \in Callers, InstallClosed(c)
      PROVE  ClientInside'
  BY <1>12 DEF InstallClosed, GoAway, Retire, Disposed, Types, OneInside,
     ClientInside, Inside, Away
<1>13. ASSUME NEW c \in Callers, InstallSpent(c)
      PROVE  ClientInside'
  BY <1>13 DEF InstallSpent, GoAway, ClientInside, Away
<1>14. ASSUME NEW c \in Callers, InstallServed(c)
      PROVE  ClientInside'
  BY <1>14 DEF InstallServed, Ask, ClientInside
<1>15. ASSUME NEW c \in Callers, Answer(c)
      PROVE  ClientInside'
  BY <1>15 DEF Answer, GoAway, ClientInside, Away
<1>16. ASSUME NEW c \in Callers, Garble(c)
      PROVE  ClientInside'
  BY <1>16 DEF Garble, GoAway, Retire, Disposed, Types, OneInside, ClientInside,
     Inside, Away
<1>17. ASSUME NEW c \in Callers, Broken(c)
      PROVE  ClientInside'
  BY <1>17 DEF Broken, GoAway, Retire, Disposed, Types, OneInside, ClientInside,
     Inside, Away
<1>18. ASSUME NEW c \in Callers, Cut(c)
      PROVE  ClientInside'
  BY <1>18 DEF Cut, GoAway, Retire, Disposed, Types, OneInside, ClientInside, Inside,
     Away
<1>19. ASSUME NEW c \in Callers, StopShort(c)
      PROVE  ClientInside'
  BY <1>19 DEF StopShort, ClientInside
<1>20. ASSUME NEW p \in Compilers, Crash(p)
      PROVE  ClientInside'
  BY <1>20 DEF Crash, ClientInside
<1>21. CASE Close
  BY <1>21 DEF Close, ClientInside
<1>22. CASE CloseLocked
  BY <1>22, RuntimeAssumption DEF CloseLocked, Retire, Disposed, OneInside,
     ClientInside, Inside
<1>23. CASE CloseUnlocked
  BY <1>23 DEF CloseUnlocked, ClientInside
<1>24. CASE CloseKills
  BY <1>24 DEF CloseKills, Disposed, ClientInside
<1>25. CASE Pass
  BY <1>25 DEF Pass, ClientInside
<1>26. CASE UNCHANGED vars
  BY <1>26 DEF vars, ClientInside
<1>27. QED
  BY <1>1, <1>2, <1>3, <1>4, <1>5, <1>6, <1>7, <1>8, <1>9, <1>10,
     <1>11, <1>12, <1>13, <1>14, <1>15, <1>16, <1>17, <1>18, <1>19,
     <1>20, <1>21, <1>22, <1>23, <1>24, <1>25, <1>26
  DEF Next, Proceed, CloserStep

\* A request is written to a compiler that owes nothing.
LEMMA AnsweredStep ==
  Types /\ OneInside /\ ClientInside /\ Answered /\ [Next]_vars => Answered'
<1> SUFFICES ASSUME Types, OneInside, ClientInside, Answered, [Next]_vars
             PROVE  Answered'
  OBVIOUS
<1>1. ASSUME NEW c \in Callers, Call(c)
      PROVE  Answered'
  BY <1>1 DEF Call, Answered
<1>2. ASSUME NEW c \in Callers, GiveUp(c)
      PROVE  Answered'
  BY <1>2 DEF GiveUp, Answered, Away
<1>3. ASSUME NEW c \in Callers, Enter(c)
      PROVE  Answered'
  BY <1>3 DEF Enter, Answered
<1>4. ASSUME NEW c \in Callers, CallRefused(c)
      PROVE  Answered'
  BY <1>4 DEF CallRefused, Answered, Away
<1>5. ASSUME NEW c \in Callers, CallServed(c)
      PROVE  Answered'
  BY <1>5, RuntimeAssumption DEF CallServed, Ask, Types, OneInside, Answered, Inside
<1>6. ASSUME NEW c \in Callers, CallStarts(c)
      PROVE  Answered'
  BY <1>6 DEF CallStarts, Answered
<1>7. ASSUME NEW c \in Callers, StartFails(c)
      PROVE  Answered'
  BY <1>7 DEF StartFails, GoAway, ClientInside, Answered, Away
<1>8. ASSUME NEW c \in Callers, NEW p \in Compilers, Spawn(c, p)
      PROVE  Answered'
  BY <1>8 DEF Spawn, Referenced, Answered
<1>9. ASSUME NEW c \in Callers, GreetingFails(c)
      PROVE  Answered'
  BY <1>9 DEF GreetingFails, GoAway, Disposed, ClientInside, Answered, Away
<1>10. ASSUME NEW c \in Callers, GreetingCut(c)
      PROVE  Answered'
  BY <1>10 DEF GreetingCut, GoAway, Disposed, Types, ClientInside, Answered, Away
<1>11. ASSUME NEW c \in Callers, Install(c)
      PROVE  Answered'
  BY <1>11 DEF Install, Types, OneInside, ClientInside, Answered, Inside
<1>12. ASSUME NEW c \in Callers, InstallClosed(c)
      PROVE  Answered'
  BY <1>12 DEF InstallClosed, GoAway, Retire, Disposed, Answered, Away
<1>13. ASSUME NEW c \in Callers, InstallSpent(c)
      PROVE  Answered'
  BY <1>13 DEF InstallSpent, GoAway, ClientInside, Answered, Away
<1>14. ASSUME NEW c \in Callers, InstallServed(c)
      PROVE  Answered'
  BY <1>14, RuntimeAssumption DEF InstallServed, Ask, Types, OneInside, ClientInside,
     Answered, Inside
<1>15. ASSUME NEW c \in Callers, Answer(c)
      PROVE  Answered'
  BY <1>15 DEF Answer, GoAway, Types, OneInside, ClientInside, Answered, Inside, Away
<1>16. ASSUME NEW c \in Callers, Garble(c)
      PROVE  Answered'
  BY <1>16 DEF Garble, GoAway, Retire, Disposed, Answered, Away
<1>17. ASSUME NEW c \in Callers, Broken(c)
      PROVE  Answered'
  BY <1>17 DEF Broken, GoAway, Retire, Disposed, Answered, Away
<1>18. ASSUME NEW c \in Callers, Cut(c)
      PROVE  Answered'
  BY <1>18 DEF Cut, GoAway, Retire, Disposed, Answered, Away
<1>19. ASSUME NEW c \in Callers, StopShort(c)
      PROVE  Answered'
  BY <1>19 DEF StopShort, Answered
<1>20. ASSUME NEW p \in Compilers, Crash(p)
      PROVE  Answered'
  BY <1>20 DEF Crash, Answered
<1>21. CASE Close
  BY <1>21 DEF Close, Answered
<1>22. CASE CloseLocked
  BY <1>22 DEF CloseLocked, Retire, Disposed, Answered
<1>23. CASE CloseUnlocked
  BY <1>23 DEF CloseUnlocked, Answered
<1>24. CASE CloseKills
  BY <1>24 DEF CloseKills, Disposed, Answered
<1>25. CASE Pass
  BY <1>25 DEF Pass, Answered
<1>26. CASE UNCHANGED vars
  BY <1>26 DEF vars, Answered
<1>27. QED
  BY <1>1, <1>2, <1>3, <1>4, <1>5, <1>6, <1>7, <1>8, <1>9, <1>10,
     <1>11, <1>12, <1>13, <1>14, <1>15, <1>16, <1>17, <1>18, <1>19,
     <1>20, <1>21, <1>22, <1>23, <1>24, <1>25, <1>26
  DEF Next, Proceed, CloserStep

\* The client that close found is still the one, or is gone.
LEMMA ClosingInOrderStep ==
  Types /\ OneInside /\ ClientInside /\ ClosingInOrder /\ [Next]_vars => ClosingInOrder'
<1> SUFFICES ASSUME Types, OneInside, ClientInside, ClosingInOrder, [Next]_vars
             PROVE  ClosingInOrder'
  OBVIOUS
<1>1. ASSUME NEW c \in Callers, Call(c)
      PROVE  ClosingInOrder'
  BY <1>1 DEF Call, ClosingInOrder, Away
<1>2. ASSUME NEW c \in Callers, GiveUp(c)
      PROVE  ClosingInOrder'
  BY <1>2 DEF GiveUp, ClosingInOrder
<1>3. ASSUME NEW c \in Callers, Enter(c)
      PROVE  ClosingInOrder'
  BY <1>3 DEF Enter, ClosingInOrder
<1>4. ASSUME NEW c \in Callers, CallRefused(c)
      PROVE  ClosingInOrder'
  BY <1>4 DEF CallRefused, ClosingInOrder
<1>5. ASSUME NEW c \in Callers, CallServed(c)
      PROVE  ClosingInOrder'
  BY <1>5 DEF CallServed, Ask, ClosingInOrder
<1>6. ASSUME NEW c \in Callers, CallStarts(c)
      PROVE  ClosingInOrder'
  BY <1>6 DEF CallStarts, ClosingInOrder
<1>7. ASSUME NEW c \in Callers, StartFails(c)
      PROVE  ClosingInOrder'
  BY <1>7 DEF StartFails, GoAway, ClosingInOrder
<1>8. ASSUME NEW c \in Callers, NEW p \in Compilers, Spawn(c, p)
      PROVE  ClosingInOrder'
  BY <1>8 DEF Spawn, Referenced, ClosingInOrder
<1>9. ASSUME NEW c \in Callers, GreetingFails(c)
      PROVE  ClosingInOrder'
  BY <1>9 DEF GreetingFails, GoAway, Disposed, ClosingInOrder
<1>10. ASSUME NEW c \in Callers, GreetingCut(c)
      PROVE  ClosingInOrder'
  BY <1>10 DEF GreetingCut, GoAway, Disposed, Types, ClosingInOrder
<1>11. ASSUME NEW c \in Callers, Install(c)
      PROVE  ClosingInOrder'
  BY <1>11 DEF Install, Types, ClosingInOrder
<1>12. ASSUME NEW c \in Callers, InstallClosed(c)
      PROVE  ClosingInOrder'
  BY <1>12 DEF InstallClosed, GoAway, Retire, Disposed, ClosingInOrder
<1>13. ASSUME NEW c \in Callers, InstallSpent(c)
      PROVE  ClosingInOrder'
  BY <1>13 DEF InstallSpent, GoAway, ClosingInOrder
<1>14. ASSUME NEW c \in Callers, InstallServed(c)
      PROVE  ClosingInOrder'
  BY <1>14 DEF InstallServed, Ask, ClosingInOrder
<1>15. ASSUME NEW c \in Callers, Answer(c)
      PROVE  ClosingInOrder'
  BY <1>15 DEF Answer, GoAway, ClosingInOrder
<1>16. ASSUME NEW c \in Callers, Garble(c)
      PROVE  ClosingInOrder'
  BY <1>16 DEF Garble, GoAway, Retire, Disposed, ClosingInOrder
<1>17. ASSUME NEW c \in Callers, Broken(c)
      PROVE  ClosingInOrder'
  BY <1>17 DEF Broken, GoAway, Retire, Disposed, ClosingInOrder
<1>18. ASSUME NEW c \in Callers, Cut(c)
      PROVE  ClosingInOrder'
  BY <1>18 DEF Cut, GoAway, Retire, Disposed, ClosingInOrder
<1>19. ASSUME NEW c \in Callers, StopShort(c)
      PROVE  ClosingInOrder'
  BY <1>19 DEF StopShort, ClosingInOrder
<1>20. ASSUME NEW p \in Compilers, Crash(p)
      PROVE  ClosingInOrder'
  BY <1>20 DEF Crash, ClosingInOrder
<1>21. CASE Close
  BY <1>21 DEF Close, ClosingInOrder
<1>22. CASE CloseLocked
  BY <1>22 DEF CloseLocked, Retire, Disposed, ClosingInOrder
<1>23. CASE CloseUnlocked
  BY <1>23 DEF CloseUnlocked, ClosingInOrder
<1>24. CASE CloseKills
  BY <1>24 DEF CloseKills, Disposed, ClosingInOrder
<1>25. CASE Pass
  BY <1>25 DEF Pass, ClosingInOrder
<1>26. CASE UNCHANGED vars
  BY <1>26 DEF vars, ClosingInOrder
<1>27. QED
  BY <1>1, <1>2, <1>3, <1>4, <1>5, <1>6, <1>7, <1>8, <1>9, <1>10,
     <1>11, <1>12, <1>13, <1>14, <1>15, <1>16, <1>17, <1>18, <1>19,
     <1>20, <1>21, <1>22, <1>23, <1>24, <1>25, <1>26
  DEF Next, Proceed, CloserStep

\* A compiler loses its last reference only when it is killed.
LEMMA NoOrphanStep ==
  Types /\ OneInside /\ ClientInside /\ ClosingInOrder /\ NoOrphan /\ [Next]_vars => NoOrphan'
<1> SUFFICES ASSUME Types, OneInside, ClientInside, ClosingInOrder, NoOrphan, [Next]_vars
             PROVE  NoOrphan'
  OBVIOUS
<1>1. ASSUME NEW c \in Callers, Call(c)
      PROVE  NoOrphan'
  BY <1>1 DEF Call, NoOrphan, Away
<1>2. ASSUME NEW c \in Callers, GiveUp(c)
      PROVE  NoOrphan'
  BY <1>2 DEF GiveUp, NoOrphan
<1>3. ASSUME NEW c \in Callers, Enter(c)
      PROVE  NoOrphan'
  BY <1>3 DEF Enter, NoOrphan
<1>4. ASSUME NEW c \in Callers, CallRefused(c)
      PROVE  NoOrphan'
  BY <1>4 DEF CallRefused, NoOrphan
<1>5. ASSUME NEW c \in Callers, CallServed(c)
      PROVE  NoOrphan'
  BY <1>5 DEF CallServed, Ask, NoOrphan
<1>6. ASSUME NEW c \in Callers, CallStarts(c)
      PROVE  NoOrphan'
  BY <1>6 DEF CallStarts, NoOrphan
<1>7. ASSUME NEW c \in Callers, StartFails(c)
      PROVE  NoOrphan'
  BY <1>7 DEF StartFails, GoAway, NoOrphan
<1>8. ASSUME NEW c \in Callers, NEW p \in Compilers, Spawn(c, p)
      PROVE  NoOrphan'
  BY <1>8 DEF Spawn, Referenced, Types, NoOrphan
<1>9. ASSUME NEW c \in Callers, GreetingFails(c)
      PROVE  NoOrphan'
  BY <1>9 DEF GreetingFails, GoAway, Disposed, Types, NoOrphan
<1>10. ASSUME NEW c \in Callers, GreetingCut(c)
      PROVE  NoOrphan'
  <2>1. /\ caller[c].phase = "greeting"
        /\ caller[c].with \in Compilers
        /\ process' = [process EXCEPT ![caller[c].with] = "killed"]
        /\ caller' = [caller EXCEPT ![c] = Away]
        /\ client' = client /\ closer' = closer
    BY <1>10 DEF GreetingCut, GoAway, Disposed, ClientInside
  <2>2. \A d \in Callers : caller[d].phase \in {"greeting", "installed"} => d = c
    BY <2>1 DEF OneInside, Inside
  <2>3. ASSUME NEW p \in Compilers, process'[p] = "live"
        PROVE  p = client /\ closer.phase # "closed"
    BY <2>1, <2>2, <2>3 DEF NoOrphan, Types
  <2>4. QED
    BY <2>1, <2>3 DEF NoOrphan
<1>11. ASSUME NEW c \in Callers, Install(c)
      PROVE  NoOrphan'
  BY <1>11, RuntimeAssumption DEF Install, ClientInside, NoOrphan
<1>12. ASSUME NEW c \in Callers, InstallClosed(c)
      PROVE  NoOrphan'
  BY <1>12 DEF InstallClosed, GoAway, Retire, Disposed, Types, ClientInside, NoOrphan
<1>13. ASSUME NEW c \in Callers, InstallSpent(c)
      PROVE  NoOrphan'
  BY <1>13 DEF InstallSpent, GoAway, ClientInside, ClosingInOrder, NoOrphan
<1>14. ASSUME NEW c \in Callers, InstallServed(c)
      PROVE  NoOrphan'
  BY <1>14 DEF InstallServed, Ask, ClientInside, ClosingInOrder, NoOrphan
<1>15. ASSUME NEW c \in Callers, Answer(c)
      PROVE  NoOrphan'
  BY <1>15 DEF Answer, GoAway, NoOrphan
<1>16. ASSUME NEW c \in Callers, Garble(c)
      PROVE  NoOrphan'
  BY <1>16 DEF Garble, GoAway, Retire, Disposed, Types, ClientInside, NoOrphan
<1>17. ASSUME NEW c \in Callers, Broken(c)
      PROVE  NoOrphan'
  BY <1>17 DEF Broken, GoAway, Retire, Disposed, ClientInside, NoOrphan
<1>18. ASSUME NEW c \in Callers, Cut(c)
      PROVE  NoOrphan'
  BY <1>18 DEF Cut, GoAway, Retire, Disposed, Types, ClientInside, NoOrphan
<1>19. ASSUME NEW c \in Callers, StopShort(c)
      PROVE  NoOrphan'
  BY <1>19 DEF StopShort, NoOrphan
<1>20. ASSUME NEW p \in Compilers, Crash(p)
      PROVE  NoOrphan'
  BY <1>20 DEF Crash, NoOrphan
<1>21. CASE Close
  BY <1>21 DEF Close, NoOrphan
<1>22. CASE CloseLocked
  BY <1>22, RuntimeAssumption DEF CloseLocked, Retire, Disposed, Types, NoOrphan
<1>23. CASE CloseUnlocked
  BY <1>23, RuntimeAssumption DEF CloseUnlocked, NoOrphan
<1>24. CASE CloseKills
  BY <1>24, RuntimeAssumption DEF CloseKills, Disposed, Types, ClosingInOrder,
     NoOrphan
<1>25. CASE Pass
  BY <1>25 DEF Pass, NoOrphan
<1>26. CASE UNCHANGED vars
  BY <1>26 DEF vars, NoOrphan
<1>27. QED
  BY <1>1, <1>2, <1>3, <1>4, <1>5, <1>6, <1>7, <1>8, <1>9, <1>10,
     <1>11, <1>12, <1>13, <1>14, <1>15, <1>16, <1>17, <1>18, <1>19,
     <1>20, <1>21, <1>22, <1>23, <1>24, <1>25, <1>26
  DEF Next, Proceed, CloserStep

-----------------------------------------------------------------------------
\* The inductive invariant: who holds the lock decides who may touch the client,
\* and only together do the parts carry over a step.
Endpoint == Types /\ OneInside /\ ClientInside /\ Answered /\ ClosingInOrder /\ NoOrphan

\* The invariant holds in every reachable state.
LEMMA EndpointHolds == Spec => []Endpoint
<1>1. Init => Endpoint
  BY InitInvariants DEF Endpoint
<1>2. Endpoint /\ [Next]_vars => Endpoint'
  BY TypesStep, OneInsideStep, ClientInsideStep, AnsweredStep, ClosingInOrderStep, NoOrphanStep
  DEF Endpoint
<1>3. QED
  BY <1>1, <1>2, PTL DEF Spec

-----------------------------------------------------------------------------
(* Health. *)

\* The marks: oldest first, and as many as the budget allows until the endpoint is given
\* up; while it is in service, close is the cause of none, and it was given up for marks
\* that all lie within the window.
Counted ==
  /\ marks \in Seq(Marks) /\ unrecoverable \in BOOLEAN
  /\ \A i, j \in 1..Len(marks) : i <= j => marks[j].age <= marks[i].age
  /\ Len(marks) <= Budget + 1
  /\ ~ unrecoverable => Len(marks) <= Budget
  /\ ~ closed => \A i \in 1..Len(marks) : marks[i].cause # "close"
  /\ GivenUpForFailures

\* An endpoint that was given up has no compiler and starts none; one in service has not
\* killed its client.
Retired ==
  /\ unrecoverable =>
       /\ client = NoCompiler
       /\ \A c \in Callers : caller[c].phase \in {"away", "queued", "called", "starting"}
  /\ ~ closed /\ client # NoCompiler => process[client] # "killed"

Less == {ss \in Nat \X Nat : ss[1] < ss[2]}

LEMMA LessIsWellFounded == IsWellFoundedOn(Less, Nat)
  BY NatLessThanWellFounded, Zenon DEF OpToRel, Less

LEMMA LeastExists ==
  ASSUME NEW S \in SUBSET Nat, S # {}
  PROVE  \E x \in S : \A y \in S : x <= y
<1>1. PICK x \in S : \A y \in S : ~ (<<y, x>> \in Less)
  <2>1. S \subseteq Nat
    OBVIOUS
  <2>2. QED
    BY <2>1, LessIsWellFounded, WFMin, Zenon
<1>2. ASSUME NEW y \in S
      PROVE  x <= y
  <2>1. x \in Nat /\ y \in Nat
    OBVIOUS
  <2>2. ~(y < x)
    BY <1>1, <2>1 DEF Less
  <2>3. QED
    BY <2>1, <2>2
<1>3. QED
  BY <1>2

\* Popping from the left until the first mark is young enough leaves young ones only.
LEMMA RecentProperties ==
  ASSUME Counted
  PROVE  /\ Recent \in Seq(Marks) /\ Len(Recent) \in Nat /\ Len(Recent) <= Len(marks)
         /\ \A i \in 1..Len(Recent) : Recent[i].age <= Window
         /\ \A i \in 1..Len(Recent) : \E j \in 1..Len(marks) : Recent[i] = marks[j]
         /\ \A i, j \in 1..Len(Recent) : i <= j => Recent[j].age <= Recent[i].age
<1> DEFINE within == {i \in DOMAIN marks : marks[i].age <= Window}
<1>0. Window \in Nat
  BY RuntimeAssumption
<1>1. /\ marks \in Seq(Marks) /\ DOMAIN marks = 1..Len(marks) /\ Len(marks) \in Nat
      /\ \A i \in 1..Len(marks) : marks[i].age \in Int
  <2>1. marks \in Seq(Marks)
    BY DEF Counted
  <2>2. \A i \in 1..Len(marks) : marks[i] \in Marks
    BY <2>1, ElementOfSeq
  <2>3. \A mark \in Marks : mark.age \in Int
    BY <1>0 DEF Marks
  <2>4. QED
    BY <2>1, <2>2, <2>3, LenProperties
<1>2. CASE within = {}
  <2>1. Recent = <<>>
    BY <1>2 DEF Recent
  <2>2. Recent \in Seq(Marks) /\ Len(Recent) = 0
    BY <2>1, EmptySeq
  <2>3. QED
    BY <1>1, <2>2
<1>3. CASE within # {}
  <2> DEFINE first == Min(within)
  <2>1. first \in within
    <3>1. within \in SUBSET Nat
      BY <1>1
    <3> HIDE DEF within
    <3>2. \E x \in within : \A y \in within : x <= y
      BY <1>3, <3>1, LeastExists
    <3>3. QED
      BY <3>2 DEF Min
  <2>2. Recent = SubSeq(marks, first, Len(marks))
    BY <1>3 DEF Recent
  <2>3. first \in 1..Len(marks) /\ marks[first].age <= Window
    <3> HIDE DEF first
    <3>1. QED
      BY <1>1, <2>1
  <2> HIDE DEF first, within
  <2> DEFINE n == Len(marks) - first + 1
  <2>4. n \in Nat
    BY <1>1, <2>3
  <2>5. Recent \in Seq(Marks) /\ Len(Recent) = n
        /\ \A i \in 1..n : Recent[i] = marks[first + i - 1]
    BY <1>1, <2>2, <2>3, SubSeqProperties
  <2>6. \A i \in 1..n : first + i - 1 \in 1..Len(marks) /\ first <= first + i - 1
    BY <1>1, <2>3
  <2>7. \A i \in 1..n : Recent[i] = marks[first + i - 1] /\ marks[first + i - 1].age <= Window
    <3>1. \A j \in 1..Len(marks) : first <= j => marks[j].age <= marks[first].age
      BY <2>3 DEF Counted
    <3>2. \A i \in 1..n : marks[first + i - 1].age <= marks[first].age
                         /\ marks[first + i - 1].age \in Int
      BY <1>1, <2>6, <3>1
    <3>3. marks[first].age \in Int
      BY <1>1, <2>3
    <3>4. \A i \in 1..n : marks[first + i - 1].age <= Window
      <4>1. \A a, b \in Int : a <= b /\ b <= Window => a <= Window
        BY <1>0
      <4>2. QED
        BY <2>3, <3>2, <3>3, <4>1
    <3>5. QED
      BY <2>5, <3>4
  <2>8. \A i, j \in 1..n : i <= j => Recent[j].age <= Recent[i].age
    <3>1. \A i, j \in 1..n : i <= j => first + i - 1 <= first + j - 1
      BY <1>1, <2>3
    <3>2. QED
      BY <2>5, <2>6, <3>1 DEF Counted
  <2>9. QED
    <3>1. n <= Len(marks)
      BY <1>1, <2>3
    <3>2. \A i \in 1..n : \E j \in 1..Len(marks) : Recent[i] = marks[j]
      BY <2>5, <2>6
    <3> HIDE DEF n
    <3>3. QED
      BY <2>4, <2>5, <2>7, <2>8, <3>1, <3>2
<1>4. QED
  BY <1>2, <1>3

LEMMA CountedKept ==
  ASSUME Counted, UNCHANGED <<marks, unrecoverable>>, closed => closed'
  PROVE  Counted'
  BY DEF Counted, GivenUpForFailures, Due

\* One mark more is one too many at the earliest when the budget is used up, and then
\* every mark counts.
LEMMA CountedMark ==
  ASSUME Counted, ~ unrecoverable, NEW cause \in {"fault", "cut", "close"},
         Mark(cause), closed' = closed, cause = "close" => closed
  PROVE  Counted'
<1> DEFINE n == Len(Recent)
<1>1. Window \in Nat /\ Budget \in Nat
  BY RuntimeAssumption
<1>2. /\ Recent \in Seq(Marks) /\ n \in Nat /\ n <= Len(marks) /\ Len(marks) <= Budget
      /\ \A i \in 1..n : Recent[i].age <= Window
      /\ \A i \in 1..n : \E j \in 1..Len(marks) : Recent[i] = marks[j]
      /\ \A i, j \in 1..n : i <= j => Recent[j].age <= Recent[i].age
  <2>1. Len(marks) <= Budget
    BY DEF Counted
  <2>2. QED
    BY <2>1, RecentProperties
<1>3. Fresh(cause) \in Marks /\ Fresh(cause).age = 0 /\ Fresh(cause).cause = cause
  BY <1>1 DEF Fresh, Marks
<1>4. /\ marks' \in Seq(Marks) /\ Len(marks') = n + 1
      /\ \A i \in 1..n : marks'[i] = Recent[i]
      /\ marks'[n + 1] = Fresh(cause)
  <2>1. marks' = Append(Recent, Fresh(cause))
    BY DEF Mark
  <2>2. Recent \in Seq(Marks)
    BY <1>2
  <2>3. QED
    BY <1>3, <2>1, <2>2, LenProperties
<1>5. n \in Nat /\ n <= Len(marks) /\ Len(marks) <= Budget /\ Len(marks) \in Nat
  <2>1. Len(marks) \in Nat
    BY LenProperties DEF Counted
  <2>2. QED
    BY <1>2, <2>1
<1>6. /\ \A i \in 1..n : Recent[i].age <= Window
      /\ \A i \in 1..n : \E j \in 1..Len(marks) : Recent[i] = marks[j]
      /\ \A i, j \in 1..n : i <= j => Recent[j].age <= Recent[i].age
  BY <1>2
<1>7. \A i \in 1..(n + 1) : i = n + 1 \/ i \in 1..n
  <2> HIDE DEF n
  <2>1. QED
    BY <1>5
<1>8. unrecoverable' \in BOOLEAN /\ (unrecoverable' <=> n + 1 > Budget)
  BY <1>4 DEF Mark
<1>9. \A i \in 1..n : Recent[i].age \in Nat
  <2>1. \A mark \in Marks : mark.age \in Nat
    BY <1>1 DEF Marks
  <2>2. QED
    BY <1>2, <2>1, ElementOfSeq
<1> HIDE DEF n
<1>10. \A i \in 1..(n + 1) : marks'[i].age <= Window /\ marks'[i].age \in Nat
  BY <1>1, <1>3, <1>4, <1>7, <1>6, <1>9
<1>11. \A i, j \in 1..(n + 1) : i <= j => marks'[j].age <= marks'[i].age
  <2>1. ASSUME NEW i \in 1..(n + 1), NEW j \in 1..(n + 1), i <= j
        PROVE  marks'[j].age <= marks'[i].age
    <3>1. CASE j = n + 1
      BY <1>3, <1>4, <1>10, <3>1
    <3>2. CASE j \in 1..n
      <4>1. i \in 1..n
        BY <1>5, <2>1, <3>2
      <4>2. QED
        BY <1>4, <1>6, <2>1, <3>2, <4>1
    <3>3. QED
      BY <1>7, <3>1, <3>2
  <2>2. QED
    BY <2>1
<1>12. ~ closed => \A i \in 1..(n + 1) : marks'[i].cause # "close"
  <2>1. ~ closed => cause # "close" /\ \A i \in 1..Len(marks) : marks[i].cause # "close"
    BY DEF Counted
  <2>2. ~ closed => \A i \in 1..n : Recent[i].cause # "close"
    BY <1>6, <2>1
  <2>3. QED
    BY <1>3, <1>4, <1>7, <2>1, <2>2
<1>13. unrecoverable' /\ ~ closed' => Due({"fault", "cut"})' > Budget
  <2> SUFFICES ASSUME unrecoverable', ~ closed'
               PROVE  Due({"fault", "cut"})' > Budget
    OBVIOUS
  <2>1. DOMAIN marks' = 1..(n + 1)
    BY <1>4, LenProperties
  <2>2. \A i \in 1..(n + 1) : marks'[i].cause \in {"fault", "cut"}
    <3>1. \A i \in 1..(n + 1) : marks'[i] \in Marks
      BY <1>4, ElementOfSeq
    <3>2. QED
      BY <1>12, <3>1 DEF Marks
  <2>3. {i \in DOMAIN marks' : marks'[i].age <= Window
                               /\ marks'[i].cause \in {"fault", "cut"}} = 1..(n + 1)
    BY <1>10, <2>1, <2>2
  <2>4. Cardinality(1..(n + 1)) = n + 1
    <3>1. n + 1 \in Int /\ 1 \in Int /\ ~ (1 > n + 1) /\ n + 1 - 1 + 1 = n + 1
      BY <1>5
    <3>2. QED
      BY <3>1, FS_Interval
  <2>5. Due({"fault", "cut"})' = n + 1
    BY <2>3, <2>4 DEF Due
  <2>6. QED
    BY <1>8, <2>5
<1>14. Len(marks') <= Budget + 1 /\ (~ unrecoverable' => Len(marks') <= Budget)
  BY <1>1, <1>5, <1>4, <1>8
<1>15. QED
  BY <1>4, <1>11, <1>12, <1>8, <1>13, <1>14 DEF Counted, GivenUpForFailures

LEMMA CountedPass ==
  ASSUME Counted, Pass
  PROVE  Counted'
<1>1. /\ marks \in Seq(Marks) /\ DOMAIN marks = 1..Len(marks) /\ Len(marks) \in Nat
      /\ \A i \in 1..Len(marks) : marks[i] \in Marks
  BY LenProperties, ElementOfSeq DEF Counted
<1>2. marks' = [i \in 1..Len(marks) |-> [marks[i] EXCEPT !.age = Older(@)]]
  BY <1>1 DEF Pass
<1>3. \A a \in 0..(Window + 1) : Older(a) \in 0..(Window + 1)
  BY RuntimeAssumption DEF Older
<1>4. \A a, b \in 0..(Window + 1) : a <= b => Older(a) <= Older(b)
  BY RuntimeAssumption DEF Older
<1>5. \A i \in 1..Len(marks) : /\ marks'[i] \in Marks
                               /\ marks'[i].age = Older(marks[i].age)
                               /\ marks'[i].cause = marks[i].cause
  BY <1>1, <1>2, <1>3 DEF Marks
<1>6. marks' \in Seq(Marks) /\ Len(marks') = Len(marks)
  <2> DEFINE n == Len(marks)
             f == [i \in 1..n |-> [marks[i] EXCEPT !.age = Older(@)]]
  <2>1. marks' = f /\ n \in Nat
    BY <1>1, <1>2
  <2>2. \A i \in 1..n : [marks[i] EXCEPT !.age = Older(@)] \in Marks
    BY <1>2, <1>5
  <2> HIDE DEF n
  <2>3. f \in Seq(Marks) /\ Len(f) = n
    BY <2>1, <2>2, IsASeq
  <2>4. QED
    BY <2>1, <2>3 DEF n
<1>7. \A i, j \in 1..Len(marks) : i <= j => marks'[j].age <= marks'[i].age
  <2>1. \A i \in 1..Len(marks) : marks[i].age \in 0..(Window + 1)
    BY <1>1 DEF Marks
  <2>2. QED
    BY <1>4, <1>5, <2>1 DEF Counted
<1>8. ~ unrecoverable /\ unrecoverable' = unrecoverable /\ closed' = closed
  BY DEF Pass
<1>9. QED
  BY <1>5, <1>6, <1>7, <1>8 DEF Counted, GivenUpForFailures

\* What the end of a request leaves: no client, and nobody inside.
LEMMA NobodyStays ==
  ASSUME Types, OneInside, NEW c \in Callers, caller[c].phase \in Inside, GoAway(c)
  PROVE  \A d \in Callers : caller'[d].phase \in {"away", "queued", "called"}
<1>1. \A d \in Callers \ {c} : caller[d].phase \in {"away", "queued", "called"}
  BY DEF OneInside, Types, Phases, Inside
<1>2. QED
  BY <1>1 DEF GoAway, Types, Away

LEMMA HealthInit == Init => Counted /\ Retired
<1> SUFFICES ASSUME Init PROVE Counted /\ Retired
  OBVIOUS
<1>1. marks = <<>> /\ <<>> \in Seq(Marks) /\ Len(<<>>) = 0
  BY EmptySeq DEF Init
<1>2. /\ unrecoverable = FALSE
      /\ client \in Compilers /\ process[client] = "live"
  BY DEF Init
<1>3. Counted
  <2>1. Budget \in Nat
    BY RuntimeAssumption
  <2>2. Len(marks) = 0 /\ marks \in Seq(Marks) /\ 1..Len(marks) = {}
    BY <1>1
  <2>3. /\ \A i, j \in 1..Len(marks) : i <= j => marks[j].age <= marks[i].age
        /\ \A i \in 1..Len(marks) : marks[i].cause # "close"
    BY <2>2, Zenon
  <2>4. Len(marks) <= Budget /\ Len(marks) <= Budget + 1
    BY <2>1, <2>2
  <2>5. QED
    BY <1>2, <2>2, <2>3, <2>4, Zenon DEF Counted, GivenUpForFailures
<1>4. QED
  BY <1>2, <1>3 DEF Retired

\* A step that marks ends a request, and no turn is inside an endpoint that was given up.
LEMMA CountedStep == Endpoint /\ Counted /\ Retired /\ [Next]_vars => Counted'
<1> SUFFICES ASSUME Endpoint, Counted, Retired, [Next]_vars
             PROVE  Counted'
  OBVIOUS
<1>1. ASSUME NEW c \in Callers, GreetingFails(c)
      PROVE  Counted'
  <2>1. caller[c].phase = "greeting" /\ Mark("fault") /\ closed' = closed
    BY <1>1 DEF GreetingFails
  <2>2. QED
    BY <2>1, CountedMark DEF Retired
<1>2. ASSUME NEW c \in Callers, GreetingCut(c)
      PROVE  Counted'
  <2>1. caller[c].phase = "greeting" /\ Mark("cut") /\ closed' = closed
    BY <1>2 DEF GreetingCut
  <2>2. QED
    BY <2>1, CountedMark DEF Retired
<1>3. ASSUME NEW c \in Callers, Garble(c)
      PROVE  Counted'
  <2>1. caller[c].phase \in {"forging", "reading"} /\ Mark("fault") /\ closed' = closed
    BY <1>3 DEF Garble
  <2>2. QED
    BY <2>1, CountedMark DEF Retired
<1>4. ASSUME NEW c \in Callers, Broken(c)
      PROVE  Counted'
  <2> DEFINE p == caller[c].with
             cause == IF process[p] = "crashed" THEN "fault" ELSE "close"
  <2>1. caller[c].phase \in {"forging", "reading"} /\ process[p] # "live"
        /\ Mark(cause) /\ closed' = closed
    BY <1>4 DEF Broken
  <2>2. p \in Compilers /\ client = p /\ process[p] \in {"live", "crashed", "killed"}
    BY <2>1 DEF Endpoint, ClientInside, Types
  <2>3. cause = "close" => closed
    BY <2>1, <2>2, RuntimeAssumption DEF Retired
  <2>4. ~ unrecoverable /\ cause \in {"fault", "cut", "close"}
    BY <2>1 DEF Retired
  <2> HIDE DEF cause
  <2>5. QED
    BY <2>1, <2>3, <2>4, CountedMark
<1>5. CASE Pass
  BY <1>5, CountedPass
<1>6. CASE UNCHANGED <<marks, unrecoverable>> /\ (closed => closed')
  BY <1>6, CountedKept
<1>7. ASSUME NEW c \in Callers, Call(c) \/ StopShort(c) \/ Proceed(c)
      PROVE  Counted'
  BY <1>1, <1>2, <1>3, <1>4, <1>6, <1>7
  DEF Proceed, Call, StopShort, GiveUp, Enter, CallRefused, CallServed, CallStarts,
      StartFails, Spawn, Install, InstallClosed, InstallSpent, InstallServed, Answer, Cut
<1>8. QED
  BY <1>3, <1>5, <1>6, <1>7
  DEF Next, Answer, Crash, CloserStep, Close, CloseLocked, CloseUnlocked, CloseKills, vars

\* Who marks retires the client, and only close kills one without the lock.
LEMMA RetiredStep == Endpoint /\ Counted /\ Retired /\ [Next]_vars => Retired'
<1> SUFFICES ASSUME Endpoint, Counted, Retired, [Next]_vars
             PROVE  Retired'
  OBVIOUS
<1>0. Types /\ OneInside /\ ClientInside /\ ClosingInOrder
  BY DEF Endpoint
<1>1. ASSUME NEW c \in Callers, Call(c)
      PROVE  Retired'
  BY <1>0, <1>1, RuntimeAssumption DEF Call, Types, ClientInside, ClosingInOrder, Retired, Away
<1>2. ASSUME NEW c \in Callers, GiveUp(c)
      PROVE  Retired'
  BY <1>0, <1>2, RuntimeAssumption DEF GiveUp, Types, ClientInside, ClosingInOrder, Retired, Away
<1>3. ASSUME NEW c \in Callers, Enter(c)
      PROVE  Retired'
  BY <1>0, <1>3, RuntimeAssumption DEF Enter, Types, ClientInside, ClosingInOrder, Retired, Away
<1>4. ASSUME NEW c \in Callers, CallRefused(c)
      PROVE  Retired'
  BY <1>0, <1>4, RuntimeAssumption DEF CallRefused, Types, ClientInside, ClosingInOrder, Retired, Away
<1>5. ASSUME NEW c \in Callers, CallServed(c)
      PROVE  Retired'
  BY <1>0, <1>5, RuntimeAssumption DEF CallServed, Ask, Types, ClientInside, ClosingInOrder, Retired, Away
<1>6. ASSUME NEW c \in Callers, CallStarts(c)
      PROVE  Retired'
  BY <1>0, <1>6, RuntimeAssumption DEF CallStarts, Types, ClientInside, ClosingInOrder, Retired, Away
<1>7. ASSUME NEW c \in Callers, StartFails(c)
      PROVE  Retired'
  BY <1>0, <1>7, RuntimeAssumption DEF StartFails, GoAway, Types, ClientInside, ClosingInOrder, Retired, Away
<1>8. ASSUME NEW c \in Callers, NEW p \in Compilers, Spawn(c, p)
      PROVE  Retired'
  BY <1>0, <1>8, RuntimeAssumption DEF Spawn, Referenced, Types, ClientInside, ClosingInOrder, Retired, Away
<1>9. ASSUME NEW c \in Callers, GreetingFails(c)
      PROVE  Retired'
  <2>1. caller[c].phase \in Inside /\ GoAway(c) /\ client' = NoCompiler
    BY <1>0, <1>9 DEF GreetingFails, Inside, ClientInside
  <2>2. \A d \in Callers : caller'[d].phase \in {"away", "queued", "called"}
    BY <1>0, <2>1, NobodyStays
  <2>3. QED
    BY <2>1, <2>2 DEF Retired
<1>10. ASSUME NEW c \in Callers, GreetingCut(c)
      PROVE  Retired'
  <2>1. caller[c].phase \in Inside /\ GoAway(c) /\ client' = NoCompiler
    BY <1>0, <1>10 DEF GreetingCut, Inside, ClientInside
  <2>2. \A d \in Callers : caller'[d].phase \in {"away", "queued", "called"}
    BY <1>0, <2>1, NobodyStays
  <2>3. QED
    BY <2>1, <2>2 DEF Retired
<1>11. ASSUME NEW c \in Callers, Install(c)
      PROVE  Retired'
  BY <1>0, <1>11, RuntimeAssumption DEF Install, Types, ClientInside, ClosingInOrder, Retired, Away
<1>12. ASSUME NEW c \in Callers, InstallClosed(c)
      PROVE  Retired'
  BY <1>0, <1>12, RuntimeAssumption DEF InstallClosed, GoAway, Retire, Disposed, Types, ClientInside, ClosingInOrder, Retired, Away
<1>13. ASSUME NEW c \in Callers, InstallSpent(c)
      PROVE  Retired'
  BY <1>0, <1>13, RuntimeAssumption DEF InstallSpent, GoAway, Types, ClientInside, ClosingInOrder, Retired, Away
<1>14. ASSUME NEW c \in Callers, InstallServed(c)
      PROVE  Retired'
  BY <1>0, <1>14, RuntimeAssumption DEF InstallServed, Ask, Types, ClientInside, ClosingInOrder, Retired, Away
<1>15. ASSUME NEW c \in Callers, Answer(c)
      PROVE  Retired'
  BY <1>0, <1>15, RuntimeAssumption DEF Answer, GoAway, Types, ClientInside, ClosingInOrder, Retired, Away
<1>16. ASSUME NEW c \in Callers, Garble(c)
      PROVE  Retired'
  <2>1. caller[c].phase \in Inside /\ GoAway(c) /\ client' = NoCompiler
    BY <1>0, <1>16 DEF Garble, Inside, ClientInside, Retire
  <2>2. \A d \in Callers : caller'[d].phase \in {"away", "queued", "called"}
    BY <1>0, <2>1, NobodyStays
  <2>3. QED
    BY <2>1, <2>2 DEF Retired
<1>17. ASSUME NEW c \in Callers, Broken(c)
      PROVE  Retired'
  <2>1. caller[c].phase \in Inside /\ GoAway(c) /\ client' = NoCompiler
    BY <1>0, <1>17 DEF Broken, Inside, ClientInside, Retire
  <2>2. \A d \in Callers : caller'[d].phase \in {"away", "queued", "called"}
    BY <1>0, <2>1, NobodyStays
  <2>3. QED
    BY <2>1, <2>2 DEF Retired
<1>18. ASSUME NEW c \in Callers, Cut(c)
      PROVE  Retired'
  BY <1>0, <1>18, RuntimeAssumption DEF Cut, GoAway, Retire, Disposed, Types, ClientInside, ClosingInOrder, Retired, Away
<1>19. ASSUME NEW c \in Callers, StopShort(c)
      PROVE  Retired'
  BY <1>0, <1>19, RuntimeAssumption DEF StopShort, Types, ClientInside, ClosingInOrder, Retired, Away
<1>20. ASSUME NEW p \in Compilers, Crash(p)
      PROVE  Retired'
  BY <1>0, <1>20, RuntimeAssumption DEF Crash, Types, ClientInside, ClosingInOrder, Retired
<1>21. CASE Close
  BY <1>0, <1>21, RuntimeAssumption DEF Close, Types, ClientInside, ClosingInOrder, Retired
<1>22. CASE CloseLocked
  BY <1>0, <1>22, RuntimeAssumption DEF CloseLocked, Retire, Disposed, Types, ClientInside, ClosingInOrder, Retired
<1>23. CASE CloseUnlocked
  BY <1>0, <1>23, RuntimeAssumption DEF CloseUnlocked, Types, ClientInside, ClosingInOrder, Retired
<1>24. CASE CloseKills
  BY <1>0, <1>24, RuntimeAssumption DEF CloseKills, Disposed, Types, ClientInside, ClosingInOrder, Retired
<1>25. CASE Pass
  BY <1>0, <1>25, RuntimeAssumption DEF Pass, Types, ClientInside, ClosingInOrder, Retired
<1>26. CASE UNCHANGED vars
  BY <1>26 DEF vars, Retired
<1>27. QED
  BY <1>1, <1>2, <1>3, <1>4, <1>5, <1>6, <1>7, <1>8, <1>9, <1>10, <1>11, <1>12, <1>13, <1>14, <1>15, <1>16, <1>17, <1>18, <1>19, <1>20, <1>21, <1>22, <1>23, <1>24, <1>25, <1>26
  DEF Next, Proceed, CloserStep

LEMMA HealthHolds == Spec => [](Counted /\ Retired)
<1>1. Init => Counted /\ Retired
  BY HealthInit
<1>2. Endpoint /\ Counted /\ Retired /\ [Next]_vars => (Counted /\ Retired)'
  BY CountedStep, RetiredStep
<1>3. QED
  BY <1>1, <1>2, EndpointHolds, PTL DEF Spec

-----------------------------------------------------------------------------
(* Theorems. *)

\* NO ANSWER IS MIXED UP: a request is written only to a compiler that has answered
\* every earlier one, whichever way forge gave up on those.
THEOREM AnswersAreMatched == Spec => []OneAnswerOwed
<1>1. Endpoint => OneAnswerOwed
  BY DEF Endpoint, Answered, OneAnswerOwed
<1>2. QED
  BY <1>1, EndpointHolds, PTL

\* NO COMPILER IS LOST: one that runs is the client, or a turn is about to install
\* it; and after close only the latter.
THEOREM NoneIsOrphaned == Spec => []NoOrphan
<1>1. Endpoint => NoOrphan
  BY DEF Endpoint
<1>2. QED
  BY <1>1, EndpointHolds, PTL

\* TYPES: processes, turns, answers owed and marks, whatever fails; the deque of marks never
\* grows past one more than the budget (runtime_client.py:400-409).
THEOREM RuntimeTypes == Spec => []TypeOK
<1>1. Endpoint /\ Counted => TypeOK
  <2> SUFFICES ASSUME Endpoint, Counted PROVE TypeOK
    OBVIOUS
  <2>1. \A p \in Compilers : owed[p] \in 0..2
    BY DEF Endpoint, Answered
  <2>2. owed \in [Compilers -> 0..2]
    BY <2>1 DEF Endpoint, Types
  <2>3. QED
    BY <2>2 DEF TypeOK, Endpoint, Types, Counted
<1>2. QED
  BY <1>1, EndpointHolds, HealthHolds, PTL

\* GIVEN UP FOR CAUSE: an endpoint in service is unrecoverable only for more failures within
\* one window than the budget allows, none of them its own kill or a turn's own deadline in
\* a forge (runtime_client.py:385-409).
THEOREM NeverGivenUpLightly == Spec => []GivenUpForFailures
<1>1. Counted => GivenUpForFailures
  BY DEF Counted
<1>2. QED
  BY <1>1, HealthHolds, PTL

=============================================================================
