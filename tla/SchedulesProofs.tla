---------------------------- MODULE SchedulesProofs ----------------------------
(***************************************************************************)
(* Theorems of Schedules for any number of workers, schedules and crashes. *)
(*                                                                         *)
(* The types hold as they are.  The safety properties hold of ONE topology *)
(* only, Steady: a tick is shorter than a lease, and nobody replaces an    *)
(* entry while a worker is at it.  The code enforces neither.              *)
(***************************************************************************)
EXTENDS Schedules, TLAPS

Steady == ~Edits /\ TickLimit < Lease

\* A busy worker has a schedule and a session; the others have none.
Placed ==
  \A w \in Workers : Busy(w) => worker[w].key \in Keys /\ worker[w].locked \in Sessions

\* As long as the entry is there, its lease is that of the worker at it, and has run
\* since the tick of this worker read its clock.
Leased ==
  \A w \in Workers :
    Busy(w) /\ Present(worker[w].key) =>
      LET e == entry[worker[w].key] IN
      /\ e.owner = w
      /\ e.left = Lease - worker[w].stale
      /\ e.session = worker[w].locked

\* A turn runs in the session whose lock its worker holds.
Under ==
  \A w \in Workers :
    worker[w].stage = "running" =>
      worker[w].runs = worker[w].locked /\ held[worker[w].locked] = w

\* The age in the entry is that of the last run, except while a worker has yet to
\* record one.
Recorded ==
  \A k \in Keys :
    \/ since[k] = Every
    \/ Present(k) /\ entry[k].age <= since[k]
    \/ Present(k) /\ \E w \in Workers : worker[w].stage = "ending" /\ worker[w].key = k

\* What has been claimed and not yet run is due.
Due == \A w \in Workers : worker[w].stage = "claimed" => since[worker[w].key] = Every

-----------------------------------------------------------------------------
\* Records of which a field changes within its type.
LEMMA EntryFields ==
  ASSUME NEW e \in Entry, NEW age \in 0..OldRun, NEW left \in NoLease..Lease,
         NEW owner \in Workers \cup {Nobody}, NEW quiet \in 0..Retention
  PROVE  /\ [e EXCEPT !.age = age, !.left = left, !.owner = owner, !.quiet = quiet] \in Entry
         /\ [e EXCEPT !.age = age, !.left = left, !.quiet = quiet] \in Entry
  BY DEF Entry

LEMMA OffType == Off \in Worker /\ [Off EXCEPT !.stage = "ticking"] \in Worker
  BY TimeAssumption DEF Off, Worker

LEMMA WorkerTicks ==
  ASSUME NEW todo \in SUBSET Keys
  PROVE  [Off EXCEPT !.stage = "ticking", !.todo = todo] \in Worker
<1> DEFINE r == [Off EXCEPT !.stage = "ticking"]
<1>1. r \in Worker
  BY OffType
<1>2. [r EXCEPT !.todo = todo] \in Worker
  BY <1>1 DEF Worker
<1>3. QED
  BY <1>2

LEMMA WorkerRests ==
  ASSUME NEW r \in Worker
  PROVE  [r EXCEPT !.stage = "ticking", !.key = NoKey, !.locked = NoSession, !.spent = 0] \in Worker
<1>1. \A spent \in 0..Deadline :
        [r EXCEPT !.stage = "ticking", !.key = NoKey, !.locked = NoSession, !.spent = spent] \in Worker
  BY DEF Worker
<1>2. 0 \in 0..Deadline
  BY TimeAssumption
<1>3. QED
  BY <1>1, <1>2, Zenon

LEMMA WorkerAges ==
  ASSUME NEW r \in Worker, NEW spent \in 0..Deadline, NEW stale \in 0..TickLimit
  PROVE  [r EXCEPT !.spent = spent, !.stale = stale] \in Worker
  BY DEF Worker

LEMMA Zeros ==
  /\ 0 \in 0..Every /\ Every \in 0..Every /\ 0 \in 0..OldRun /\ 0 \in 0..Retention
  /\ 0 \in 0..Deadline /\ NoLease \in NoLease..Lease
  BY TimeAssumption DEF OldRun, NoLease

LEMMA MissingIsNoEntry == Missing \notin Entry /\ Missing.owner = Nobody
  BY NameAssumption DEF Missing, Entry

LEMMA PresentIsEntry ==
  ASSUME TypeOK, NEW k \in Keys, Present(k)
  PROVE  entry[k] \in Entry
  BY DEF TypeOK, Present

LEMMA InitTypes == Init => TypeOK /\ Placed
<1> SUFFICES ASSUME Init PROVE TypeOK /\ Placed
  OBVIOUS
<1>1. worker \in [Workers -> Worker]
  BY OffType DEF Init
<1>2. entry \in [Keys -> Entry \cup {Missing}] /\ held \in [Sessions -> Workers \cup {Visitor, Nobody}]
  BY DEF Init
<1>3. Every \in 0..Every /\ 0 \in 0..MaxCrashes
  BY TimeAssumption
<1>4. since \in [Keys -> 0..Every] /\ crashes \in 0..MaxCrashes
  BY <1>3 DEF Init
<1>5. Placed
  BY DEF Init, Placed, Busy, Off
<1>6. QED
  BY <1>1, <1>2, <1>4, <1>5 DEF TypeOK

\* Entries that go leave a table of entries.
LEMMA WithoutTypes ==
  ASSUME TypeOK, NEW doomed, Without(doomed)
  PROVE  /\ entry' \in [Keys -> Entry \cup {Missing}]
         /\ since' \in [Keys -> 0..Every]
  BY TimeAssumption DEF TypeOK, Without

LEMMA StepTypes ==
  ASSUME TypeOK, Placed, [Next]_vars
  PROVE  TypeOK' /\ Placed'
<1> USE DEF TypeOK
<1>1. ASSUME NEW k \in Keys, NEW s \in Sessions, Put(k, s)
      PROVE  TypeOK' /\ Placed'
  <2>1. entry[k].age \in 0..OldRun
    BY TimeAssumption DEF Missing, Entry, OldRun
  <2>2. [session |-> s, age |-> entry[k].age, left |-> NoLease, owner |-> Nobody, quiet |-> 0] \in Entry
    BY <2>1, TimeAssumption DEF Entry, NoLease
  <2>3. entry' \in [Keys -> Entry \cup {Missing}]
    BY <1>1, <2>2 DEF Put
  <2>4. QED
    BY <1>1, <2>3 DEF Put, Placed, Busy
<1>2. ASSUME NEW k \in Keys, Remove(k)
      PROVE  TypeOK' /\ Placed'
  BY <1>2, WithoutTypes DEF Remove, Placed, Busy
<1>3. ASSUME NEW s \in Sessions, RemoveSession(s)
      PROVE  TypeOK' /\ Placed'
  BY <1>3, WithoutTypes DEF RemoveSession, Placed, Busy
<1>4. ASSUME RemoveInactive
      PROVE  TypeOK' /\ Placed'
  BY <1>4, WithoutTypes DEF RemoveInactive, Placed, Busy
<1>5. ASSUME NEW s \in Sessions, Visit(s) \/ Leave(s)
      PROVE  TypeOK' /\ Placed'
  BY <1>5 DEF Visit, Leave, Placed, Busy
<1>6. ASSUME NEW w \in Workers, StartTick(w)
      PROVE  TypeOK' /\ Placed'
  <2>1. [Off EXCEPT !.stage = "ticking", !.todo = {k \in Keys : Present(k)}] \in Worker
    <3>1. {k \in Keys : Present(k)} \in SUBSET Keys
      OBVIOUS
    <3>2. QED
      BY <3>1, WorkerTicks, Zenon
  <2>2. worker' \in [Workers -> Worker]
    BY <1>6, <2>1 DEF StartTick
  <2>3. Placed'
    BY <1>6 DEF StartTick, Placed, Busy, Off
  <2>4. QED
    BY <1>6, <2>2, <2>3 DEF StartTick
<1>7. ASSUME NEW w \in Workers, NEW k \in Keys, Claim(w, k)
      PROVE  TypeOK' /\ Placed'
  <2>1. entry[k] \in Entry /\ worker[w] \in Worker
    BY <1>7, PresentIsEntry DEF Claim, Claimable
  <2>2. Lease - worker[w].stale \in NoLease..Lease
    BY <2>1, TimeAssumption DEF Worker, NoLease
  <2>3. entry[k].session \in Sessions
    BY <2>1 DEF Entry
  <2>4. [entry[k] EXCEPT !.owner = w, !.left = Lease - worker[w].stale] \in Entry
    BY <2>1, <2>2 DEF Entry
  <2>5. [worker[w] EXCEPT !.stage = "claimed", !.key = k, !.todo = @ \ {k},
                          !.locked = entry[k].session] \in Worker
    BY <2>1, <2>3 DEF Worker
  <2>6. entry' \in [Keys -> Entry \cup {Missing}]
    BY <1>7, <2>4 DEF Claim
  <2>7. worker' \in [Workers -> Worker]
    BY <1>7, <2>5 DEF Claim
  <2>8. Placed'
    BY <1>7, <2>1, <2>3 DEF Claim, Placed, Busy, Worker
  <2>9. QED
    BY <1>7, <2>6, <2>7, <2>8 DEF Claim
<1>8. ASSUME NEW w \in Workers, NEW k \in Keys, PassOver(w, k)
      PROVE  TypeOK' /\ Placed'
  <2>1. [worker[w] EXCEPT !.todo = @ \ {k}] \in Worker
    BY DEF Worker
  <2>2. QED
    BY <1>8, <2>1 DEF PassOver, Placed, Busy
<1>9. ASSUME NEW w \in Workers, Run(w)
      PROVE  TypeOK' /\ Placed'
  <2>1. worker[w].key \in Keys /\ worker[w].locked \in Sessions
    BY <1>9 DEF Run, Placed, Busy
  <2>2. entry[worker[w].key].session \in Sessions
    BY <1>9, <2>1, PresentIsEntry DEF Run, Entry
  <2>3. [worker[w] EXCEPT !.stage = "running", !.runs = entry[worker[w].key].session] \in Worker
    BY <2>2 DEF Worker
  <2>4. QED
    BY <1>9, <2>1, <2>3 DEF Run, Placed, Busy
<1>10. ASSUME NEW w \in Workers, Skip(w)
       PROVE  TypeOK' /\ Placed'
  <2>1. [worker[w] EXCEPT !.stage = "ending"] \in Worker
    BY DEF Worker
  <2>2. QED
    BY <1>10, <2>1 DEF Skip, Placed, Busy
<1>11. ASSUME NEW w \in Workers, Stop(w)
       PROVE  TypeOK' /\ Placed'
  <2>1. [worker[w] EXCEPT !.stage = "ending", !.runs = NoSession] \in Worker
    BY DEF Worker
  <2>2. since' \in [Keys -> 0..Every]
    BY <1>11, Zeros DEF Stop
  <2>3. held' \in [Sessions -> Workers \cup {Visitor, Nobody}]
    BY <1>11 DEF Stop
  <2>4. QED
    BY <1>11, <2>1, <2>2, <2>3 DEF Stop, Placed, Busy
<1>12. ASSUME NEW w \in Workers, Complete(w)
       PROVE  TypeOK' /\ Placed'
  <2> DEFINE k == worker[w].key
  <2>1. k \in Keys
    BY <1>12 DEF Complete, Placed, Busy
  <2>2. ASSUME entry[k].owner = w
        PROVE  entry' \in [Keys -> Entry \cup {Missing}]
    <3>1. entry[k] \in Entry
      BY <2>1, <2>2, NameAssumption DEF Missing
    <3>2. [entry[k] EXCEPT !.age = 0, !.left = NoLease, !.owner = Nobody, !.quiet = 0] \in Entry
      BY <3>1, EntryFields, Zeros
    <3>3. entry' = [entry EXCEPT ![k] = [entry[k] EXCEPT
                      !.age = 0, !.left = NoLease, !.owner = Nobody, !.quiet = 0]]
      BY <1>12, <2>2 DEF Complete
    <3>4. QED
      BY <3>2, <3>3
  <2>3. entry' \in [Keys -> Entry \cup {Missing}]
    BY <1>12, <2>2 DEF Complete
  <2>4. [worker[w] EXCEPT !.stage = "ticking", !.key = NoKey, !.locked = NoSession,
                          !.spent = 0] \in Worker
    BY WorkerRests
  <2>5. worker' \in [Workers -> Worker]
    BY <1>12, <2>4 DEF Complete
  <2>6. Placed'
    BY <1>12 DEF Complete, Placed, Busy
  <2>7. QED
    BY <1>12, <2>3, <2>5, <2>6 DEF Complete
<1>13. ASSUME NEW w \in Workers, EndTick(w)
       PROVE  TypeOK' /\ Placed'
  BY <1>13, OffType DEF EndTick, Placed, Busy, Off
<1>14. ASSUME NEW w \in Workers, Crash(w)
       PROVE  TypeOK' /\ Placed'
  <2>1. worker' \in [Workers -> Worker] /\ Placed'
    BY <1>14, OffType DEF Crash, Placed, Busy, Off
  <2>2. since' \in [Keys -> 0..Every] /\ crashes' \in 0..MaxCrashes
    <3>1. CASE worker[w].stage = "ending"
      <4>1. since' = [since EXCEPT ![worker[w].key] = Every] /\ crashes' = crashes + 1
        BY <1>14, <3>1 DEF Crash
      <4>2. crashes' \in 0..MaxCrashes
        BY <1>14, <4>1, TimeAssumption DEF Crash
      <4>3. QED
        BY <4>1, <4>2, Zeros
    <3>2. CASE worker[w].stage # "ending"
      BY <1>14, <3>2, TimeAssumption DEF Crash
    <3>3. QED
      BY <3>1, <3>2
  <2>3. held' \in [Sessions -> Workers \cup {Visitor, Nobody}]
    BY <1>14 DEF Crash
  <2>4. QED
    BY <1>14, <2>1, <2>2, <2>3 DEF Crash
<1>15. ASSUME Pass
       PROVE  TypeOK' /\ Placed'
  <2>1. ASSUME NEW k \in Keys, Present(k)
        PROVE  [entry[k] EXCEPT !.age = Capped(@ + 1, OldRun), !.left = Floored(@ - 1, NoLease),
                                !.quiet = Capped(@ + 1, Retention)] \in Entry
    <3>1. entry[k] \in Entry
      BY <2>1, PresentIsEntry
    <3>2. /\ Capped(entry[k].age + 1, OldRun) \in 0..OldRun
          /\ Floored(entry[k].left - 1, NoLease) \in NoLease..Lease
          /\ Capped(entry[k].quiet + 1, Retention) \in 0..Retention
      BY <3>1, TimeAssumption DEF Entry, Capped, Floored, OldRun, NoLease
    <3>3. QED
      BY <3>1, <3>2, EntryFields
  <2>2. entry' \in [Keys -> Entry \cup {Missing}]
    BY <1>15, <2>1 DEF Pass
  <2>3. ASSUME NEW w \in Workers
        PROVE  [worker[w] EXCEPT !.spent = IF Busy(w) THEN @ + 1 ELSE @,
                                 !.stale = IF Ticking(w) THEN @ + 1 ELSE @] \in Worker
    <3>1. worker[w] \in Worker
      OBVIOUS
    <3>2. (IF Busy(w) THEN worker[w].spent + 1 ELSE worker[w].spent) \in 0..Deadline
      <4>1. worker[w].spent \in 0..Deadline
        BY <3>1 DEF Worker
      <4>2. Busy(w) => worker[w].spent < Deadline
        BY <1>15 DEF Pass
      <4>3. QED
        BY <4>1, <4>2, TimeAssumption
    <3>3. (IF Ticking(w) THEN worker[w].stale + 1 ELSE worker[w].stale) \in 0..TickLimit
      <4>1. worker[w].stale \in 0..TickLimit
        BY <3>1 DEF Worker
      <4>2. Ticking(w) => worker[w].stale < TickLimit
        BY <1>15 DEF Pass
      <4>3. QED
        BY <4>1, <4>2, TimeAssumption
    <3>4. QED
      BY <3>1, <3>2, <3>3, WorkerAges, Zenon
  <2>4. worker' \in [Workers -> Worker]
    BY <1>15, <2>3 DEF Pass
  <2>5. \A w \in Workers : /\ worker'[w].stage = worker[w].stage
                           /\ worker'[w].key = worker[w].key
                           /\ worker'[w].locked = worker[w].locked
    BY <1>15 DEF Pass, Worker
  <2>6. Placed'
    BY <2>5 DEF Placed, Busy
  <2>7. since' \in [Keys -> 0..Every]
    <3>1. since' = [k \in Keys |-> Capped(since[k] + 1, Every)]
      BY <1>15 DEF Pass
    <3>2. \A n \in 0..Every : Capped(n + 1, Every) \in 0..Every
      BY TimeAssumption DEF Capped
    <3>3. QED
      BY <3>1, <3>2
  <2>8. QED
    BY <1>15, <2>2, <2>4, <2>6, <2>7 DEF Pass
<1>16. CASE UNCHANGED vars
  BY <1>16 DEF vars, Placed, Busy
<1>17. QED
  BY <1>1, <1>2, <1>3, <1>4, <1>5, <1>6, <1>7, <1>8, <1>9, <1>10, <1>11, <1>12, <1>13, <1>14,
     <1>15, <1>16 DEF Next, Step

\* THEOREM: every method of the store leaves a document of well-formed entries, and a
\* thread of the scheduler is in one of its stages (product_service.py:1058-1380).
THEOREM SchedulesTypes == Spec => []TypeOK
<1>1. TypeOK /\ Placed /\ [Next]_vars => (TypeOK /\ Placed)'
  BY StepTypes
<1>2. QED
  BY <1>1, InitTypes, PTL DEF Spec

-----------------------------------------------------------------------------
Exclusive == Placed /\ Leased /\ OneClaimant /\ Under
Spaced == Recorded /\ Due

LEMMA InitExclusive == Init => Exclusive /\ Spaced
<1> SUFFICES ASSUME Init PROVE Exclusive /\ Spaced
  OBVIOUS
<1>1. \A w \in Workers : worker[w].stage = "resting"
  BY DEF Init, Off
<1>2. \A k \in Keys : since[k] = Every
  BY DEF Init
<1>3. QED
  BY <1>1, <1>2 DEF Exclusive, Spaced, Placed, Leased, OneClaimant, Under, Recorded, Due, Busy

\* A worker that comes to an entry finds no other at it.
LEMMA ClaimsAlone ==
  ASSUME Steady, TypeOK, Exclusive, NEW w \in Workers, NEW k \in Keys, Claimable(w, k),
         NEW v \in Workers, Busy(v)
  PROVE  worker[v].key # k
<1> SUFFICES ASSUME worker[v].key = k PROVE FALSE
  OBVIOUS
<1>1. entry[k].left = Lease - worker[v].stale
  BY DEF Exclusive, Leased, Claimable
<1>2. worker[v].stale \in 0..TickLimit /\ worker[w].stale \in 0..TickLimit
  BY DEF TypeOK, Worker
<1>3. Lease - worker[v].stale + worker[w].stale <= 0
  BY <1>1 DEF Claimable
<1>4. QED
  BY <1>2, <1>3, TimeAssumption DEF Steady

\* Entries that nobody is at may change, and any may go.
LEMMA EntriesChange ==
  ASSUME TypeOK, Exclusive, UNCHANGED <<worker, held>>,
         \A k \in Keys : entry'[k] = entry[k] \/ entry'[k] = Missing \/ ~Working(k)
  PROVE  Exclusive'
<1>1. \A w \in Workers : Busy(w)' = Busy(w)
  BY DEF Busy
<1>2. Placed' /\ OneClaimant' /\ Under'
  BY <1>1 DEF Exclusive, Placed, OneClaimant, Under, Busy
<1>3. ASSUME NEW w \in Workers, Busy(w), entry'[worker[w].key] # Missing
      PROVE  entry'[worker[w].key] = entry[worker[w].key]
  BY <1>3 DEF Exclusive, Placed, Working
<1>4. Leased'
  BY <1>1, <1>3 DEF Exclusive, Leased, Present
<1>5. QED
  BY <1>2, <1>4 DEF Exclusive

LEMMA StepExclusive ==
  ASSUME Steady, TypeOK, Exclusive, [Next]_vars
  PROVE  Exclusive'
<1> USE DEF TypeOK
<1>1. ASSUME NEW k \in Keys, NEW s \in Sessions, Put(k, s)
      PROVE  Exclusive'
  <2>1. \A j \in Keys : entry'[j] = entry[j] \/ ~Working(j)
    BY <1>1 DEF Put, Steady
  <2>2. QED
    BY <1>1, <2>1, EntriesChange DEF Put
<1>2. ASSUME NEW doomed, Without(doomed), UNCHANGED <<worker, held>>
      PROVE  Exclusive'
  <2>1. \A j \in Keys : entry'[j] = entry[j] \/ entry'[j] = Missing
    BY <1>2 DEF Without
  <2>2. QED
    BY <1>2, <2>1, EntriesChange
<1>3. ASSUME NEW s \in Sessions, Visit(s) \/ Leave(s)
      PROVE  Exclusive'
  <2>1. ASSUME NEW v \in Workers, worker[v].stage = "running"
        PROVE  worker[v].runs = worker[v].locked /\ held'[worker[v].locked] = v
    <3>1. worker[v].locked \in Sessions /\ held[worker[v].locked] = v
      BY <2>1 DEF Exclusive, Placed, Under, Busy
    <3>2. held[s] \in {Nobody, Visitor} /\ \A t \in Sessions \ {s} : held'[t] = held[t]
      BY <1>3 DEF Visit, Leave
    <3>3. worker[v].locked # s
      BY <3>1, <3>2, NameAssumption
    <3>4. QED
      BY <2>1, <3>1, <3>2, <3>3 DEF Exclusive, Under
  <2>2. UNCHANGED <<entry, worker>>
    BY <1>3 DEF Visit, Leave
  <2>3. Under'
    BY <2>1, <2>2 DEF Under
  <2>4. QED
    BY <2>2, <2>3 DEF Exclusive, Placed, Leased, OneClaimant, Busy, Present
<1>4. ASSUME NEW w \in Workers, worker'[w].stage \in {"resting", "ticking"},
             worker[w].stage # "running", \A v \in Workers \ {w} : worker'[v] = worker[v],
             UNCHANGED <<entry, held>>
      PROVE  Exclusive'
  <2>1. ~Busy(w)' /\ \A v \in Workers \ {w} : Busy(v)' = Busy(v)
    BY <1>4 DEF Busy
  <2>2. QED
    BY <1>4, <2>1 DEF Exclusive, Placed, Leased, OneClaimant, Under, Present
<1>5. ASSUME NEW w \in Workers, NEW k \in Keys, Claim(w, k)
      PROVE  Exclusive'
  <2>1. Claimable(w, k) /\ ~Busy(w) /\ entry[k].session \in Sessions
    BY <1>5, PresentIsEntry DEF Claim, Claimable, Busy, Entry
  <2>2. \A v \in Workers : Busy(v) => worker[v].key # k
    BY <2>1, ClaimsAlone
  <2>3. /\ worker'[w].stage = "claimed" /\ worker'[w].key = k
        /\ worker'[w].locked = entry[k].session /\ worker'[w].stale = worker[w].stale
    BY <1>5 DEF Claim, Worker
  <2>4. \A v \in Workers \ {w} : worker'[v] = worker[v] /\ Busy(v)' = Busy(v)
    BY <1>5 DEF Claim, Busy
  <2>5. /\ entry'[k].owner = w /\ entry'[k].left = Lease - worker[w].stale
        /\ entry'[k].session = entry[k].session
        /\ \A j \in Keys \ {k} : entry'[j] = entry[j]
    <3>1. entry[k] \in Entry
      BY <2>1, PresentIsEntry DEF Claimable
    <3>2. QED
      BY <1>5, <3>1 DEF Claim, Entry
  <2>6. Placed'
    BY <2>1, <2>3, <2>4 DEF Exclusive, Placed
  <2>7. Leased'
    <3>1. ASSUME NEW v \in Workers \ {w}, Busy(v)
          PROVE  worker[v].key \in Keys \ {k}
      BY <2>2, <3>1 DEF Exclusive, Placed
    <3>2. QED
      BY <2>3, <2>4, <2>5, <3>1 DEF Exclusive, Leased, Present
  <2>8. OneClaimant'
    BY <2>2, <2>3, <2>4 DEF Exclusive, OneClaimant
  <2>9. Under'
    BY <1>5, <2>3, <2>4 DEF Claim, Exclusive, Under
  <2>10. QED
    BY <2>6, <2>7, <2>8, <2>9 DEF Exclusive
<1>6. ASSUME NEW w \in Workers, Run(w)
      PROVE  Exclusive'
  <2>1. /\ worker'[w].stage = "running" /\ worker'[w].key = worker[w].key
        /\ worker'[w].locked = worker[w].locked /\ worker'[w].stale = worker[w].stale
        /\ worker'[w].runs = entry[worker[w].key].session
    BY <1>6 DEF Run, Worker
  <2>2. \A v \in Workers \ {w} : worker'[v] = worker[v]
    BY <1>6 DEF Run
  <2>3. Busy(w) /\ \A v \in Workers : Busy(v)' = Busy(v)
    BY <1>6, <2>1, <2>2 DEF Run, Busy
  <2>4. worker[w].locked \in Sessions /\ entry[worker[w].key].session = worker[w].locked
    BY <1>6, <2>3 DEF Run, Exclusive, Placed, Leased
  <2>5. held'[worker[w].locked] = w
        /\ \A s \in Sessions : s # worker[w].locked => held'[s] = held[s]
    BY <1>6, <2>4 DEF Run
  <2>6. Under'
    <3>1. ASSUME NEW v \in Workers, v # w, worker[v].stage = "running"
          PROVE  worker[v].locked \in Sessions /\ held'[worker[v].locked] = v
      <4>1. worker[v].locked \in Sessions /\ held[worker[v].locked] = v
        BY <3>1 DEF Exclusive, Placed, Under, Busy
      <4>2. held[worker[w].locked] = Nobody /\ v # Nobody
        BY <1>6, NameAssumption DEF Run
      <4>3. QED
        BY <2>5, <4>1, <4>2
    <3>2. QED
      BY <2>1, <2>2, <2>4, <2>5, <3>1 DEF Exclusive, Under
  <2>7. Placed' /\ Leased' /\ OneClaimant'
    BY <1>6, <2>1, <2>2, <2>3 DEF Run, Exclusive, Placed, Leased, OneClaimant, Present
  <2>8. QED
    BY <2>6, <2>7 DEF Exclusive
<1>7. ASSUME NEW w \in Workers, Skip(w) \/ Stop(w)
      PROVE  Exclusive'
  <2>1. /\ worker'[w].stage = "ending" /\ worker'[w].key = worker[w].key
        /\ worker'[w].locked = worker[w].locked /\ worker'[w].stale = worker[w].stale
    BY <1>7 DEF Skip, Stop, Worker
  <2>2. \A v \in Workers \ {w} : worker'[v] = worker[v]
    BY <1>7 DEF Skip, Stop
  <2>3. Busy(w) /\ \A v \in Workers : Busy(v)' = Busy(v)
    BY <1>7, <2>1, <2>2 DEF Skip, Stop, Busy
  <2>4. Placed' /\ Leased' /\ OneClaimant'
    BY <1>7, <2>1, <2>2, <2>3 DEF Skip, Stop, Exclusive, Placed, Leased, OneClaimant, Present
  <2>5. ASSUME NEW v \in Workers, v # w, worker[v].stage = "running"
        PROVE  held'[worker[v].locked] = v
    <3>1. worker[v].locked \in Sessions /\ held[worker[v].locked] = v
      BY <2>5 DEF Exclusive, Placed, Under, Busy
    <3>2. CASE Skip(w)
      BY <3>1, <3>2 DEF Skip
    <3>3. CASE Stop(w)
      <4>1. worker[v].locked # worker[w].locked
        BY <2>5, <3>1, <3>3 DEF Stop, Exclusive, Under
      <4>2. QED
        BY <3>1, <3>3, <4>1 DEF Stop
    <3>4. QED
      BY <1>7, <3>2, <3>3
  <2>6. Under'
    BY <2>1, <2>2, <2>5 DEF Exclusive, Under
  <2>7. QED
    BY <2>4, <2>6 DEF Exclusive
<1>8. ASSUME NEW w \in Workers, Complete(w)
      PROVE  Exclusive'
  <2> DEFINE k == worker[w].key
  <2>1. worker'[w].stage = "ticking" /\ \A v \in Workers \ {w} : worker'[v] = worker[v]
    BY <1>8 DEF Complete, Worker
  <2>2. ~Busy(w)' /\ \A v \in Workers \ {w} : Busy(v)' = Busy(v)
    BY <2>1 DEF Busy
  <2>3. Busy(w) /\ k \in Keys
    BY <1>8 DEF Complete, Busy, Exclusive, Placed
  <2>4. \A v \in Workers \ {w} : Busy(v) => worker[v].key \in Keys \ {k}
    BY <2>3 DEF Exclusive, OneClaimant, Placed
  <2>5. \A j \in Keys \ {k} : entry'[j] = entry[j]
    BY <1>8 DEF Complete
  <2>6. Leased'
    BY <2>1, <2>2, <2>4, <2>5 DEF Exclusive, Leased, Present
  <2>7. Placed' /\ OneClaimant'
    BY <2>1, <2>2 DEF Exclusive, Placed, OneClaimant
  <2>8. Under'
    BY <1>8, <2>1 DEF Complete, Exclusive, Under
  <2>9. QED
    BY <2>6, <2>7, <2>8 DEF Exclusive
<1>9. ASSUME NEW w \in Workers, Crash(w)
      PROVE  Exclusive'
  <2>1. worker'[w].stage = "resting" /\ \A v \in Workers \ {w} : worker'[v] = worker[v]
    BY <1>9 DEF Crash, Off
  <2>2. ~Busy(w)' /\ \A v \in Workers \ {w} : Busy(v)' = Busy(v)
    BY <2>1 DEF Busy
  <2>3. Placed' /\ Leased' /\ OneClaimant'
    BY <1>9, <2>1, <2>2 DEF Crash, Exclusive, Placed, Leased, OneClaimant, Present
  <2>4. Under'
    <3>1. ASSUME NEW v \in Workers, v # w, worker[v].stage = "running"
          PROVE  held'[worker[v].locked] = v
      <4>1. worker[v].locked \in Sessions /\ held[worker[v].locked] = v
        BY <3>1 DEF Exclusive, Placed, Under, Busy
      <4>2. QED
        BY <1>9, <3>1, <4>1 DEF Crash
    <3>2. QED
      BY <2>1, <3>1 DEF Exclusive, Under
  <2>5. QED
    BY <2>3, <2>4 DEF Exclusive
<1>10. ASSUME Pass
       PROVE  Exclusive'
  <2>1. \A w \in Workers : /\ worker'[w].stage = worker[w].stage
                           /\ worker'[w].key = worker[w].key
                           /\ worker'[w].locked = worker[w].locked
                           /\ worker'[w].runs = worker[w].runs
                           /\ Ticking(w) => worker'[w].stale = worker[w].stale + 1
    BY <1>10 DEF Pass, Worker
  <2>2. Placed' /\ OneClaimant' /\ Under'
    <3>1. UNCHANGED held
      BY <1>10 DEF Pass
    <3>2. \A w \in Workers : Busy(w)' = Busy(w)
      BY <2>1 DEF Busy
    <3>3. QED
      BY <2>1, <3>1, <3>2 DEF Exclusive, Placed, OneClaimant, Under
  <2>3. ASSUME NEW w \in Workers, Busy(w), entry'[worker[w].key] # Missing
        PROVE  LET e == entry'[worker[w].key] IN
               /\ e.owner = w
               /\ e.left = Lease - worker'[w].stale
               /\ e.session = worker[w].locked
    <3> DEFINE k == worker[w].key
    <3>1. k \in Keys /\ Present(k)
      BY <1>10, <2>3 DEF Pass, Exclusive, Placed
    <3>2. /\ entry[k].owner = w /\ entry[k].left = Lease - worker[w].stale
          /\ entry[k].session = worker[w].locked
      BY <2>3, <3>1 DEF Exclusive, Leased
    <3>3. /\ entry'[k].owner = entry[k].owner /\ entry'[k].session = entry[k].session
          /\ entry'[k].left = Floored(entry[k].left - 1, NoLease)
      <4>1. entry[k] \in Entry
        BY <3>1, PresentIsEntry
      <4>2. entry'[k] = [entry[k] EXCEPT !.age = Capped(@ + 1, OldRun),
                                         !.left = Floored(@ - 1, NoLease),
                                         !.quiet = Capped(@ + 1, Retention)]
        BY <1>10, <3>1 DEF Pass
      <4>3. \A a, l, q : LET e == [entry[k] EXCEPT !.age = a, !.left = l, !.quiet = q] IN
              e.owner = entry[k].owner /\ e.session = entry[k].session /\ e.left = l
        BY <4>1 DEF Entry
      <4>4. QED
        BY <4>2, <4>3
    <3>4. worker[w].stale \in 0..TickLimit /\ worker[w].stale < TickLimit
      BY <1>10, <2>3 DEF Pass, Busy, Ticking, Worker
    <3>5. worker'[w].stale = worker[w].stale + 1
      BY <2>1, <2>3 DEF Busy, Ticking
    <3>6. entry'[k].left = Lease - worker'[w].stale
      BY <3>2, <3>3, <3>4, <3>5, TimeAssumption DEF Steady, Floored, NoLease
    <3>7. QED
      BY <3>2, <3>3, <3>6
  <2>4. Leased'
    BY <2>1, <2>3 DEF Leased, Busy, Present
  <2>5. QED
    BY <2>2, <2>4 DEF Exclusive
<1>11. CASE UNCHANGED vars
  BY <1>11 DEF vars, Exclusive, Placed, Leased, OneClaimant, Under, Busy, Present
<1>12. ASSUME NEW w \in Workers, StartTick(w) \/ EndTick(w) \/ (\E k \in Keys : PassOver(w, k))
       PROVE  Exclusive'
  <2>1. CASE StartTick(w)
    <3>1. worker'[w].stage = "ticking"
      BY <2>1 DEF StartTick, Off
    <3>2. QED
      BY <2>1, <3>1, <1>4 DEF StartTick
  <2>2. CASE EndTick(w)
    <3>1. worker'[w].stage = "resting"
      BY <2>2 DEF EndTick, Off
    <3>2. QED
      BY <2>2, <3>1, <1>4 DEF EndTick
  <2>3. ASSUME NEW k \in Keys, PassOver(w, k)
        PROVE  Exclusive'
    <3>1. worker'[w].stage = "ticking"
      BY <2>3 DEF PassOver, Worker
    <3>2. QED
      BY <2>3, <3>1, <1>4 DEF PassOver
  <2>4. QED
    BY <1>12, <2>1, <2>2, <2>3
<1>13. QED
  BY <1>1, <1>2, <1>3, <1>5, <1>6, <1>7, <1>8, <1>9, <1>10, <1>11, <1>12
     DEF Next, Step, Remove, RemoveSession, RemoveInactive

\* A worker that takes up an entry takes up one that is due.
LEMMA ClaimsDue ==
  ASSUME Steady, TypeOK, Exclusive, Spaced, NEW w \in Workers, NEW k \in Keys, Claimable(w, k)
  PROVE  since[k] = Every
<1>1. entry[k].age \in 0..OldRun /\ since[k] \in 0..Every /\ worker[w].stale \in 0..TickLimit
  BY PresentIsEntry DEF TypeOK, Claimable, Entry, Worker
<1>2. entry[k].age - worker[w].stale >= Every
  BY DEF Claimable
<1>3. CASE entry[k].age <= since[k]
  BY <1>1, <1>2, <1>3, TimeAssumption DEF OldRun
<1>4. ASSUME NEW v \in Workers, worker[v].stage = "ending", worker[v].key = k
      PROVE  FALSE
  BY <1>4, ClaimsAlone DEF Busy
<1>5. QED
  BY <1>3, <1>4 DEF Spaced, Recorded

\* Steps that end no run and record none.
LEMMA RecordsStay ==
  ASSUME Spaced,
         \A w \in Workers : worker[w].stage = "ending" => worker'[w] = worker[w],
         \A w \in Workers : worker'[w].stage = "claimed" =>
           worker[w].stage = "claimed" /\ worker'[w].key = worker[w].key /\ worker[w].key \in Keys,
         \A k \in Keys : \/ since'[k] = Every
                         \/ /\ since'[k] = since[k]
                            /\ Present(k) => Present(k)' /\ entry'[k].age = entry[k].age
  PROVE  Spaced'
<1>1. Recorded'
  BY DEF Spaced, Recorded
<1>2. Due'
  BY DEF Spaced, Due
<1>3. QED
  BY <1>1, <1>2 DEF Spaced

LEMMA StepSpaced ==
  ASSUME Steady, TypeOK, Exclusive, Spaced, [Next]_vars
  PROVE  Spaced'
<1> USE DEF TypeOK
<1> DEFINE Claimed == \A w \in Workers : worker[w].stage = "claimed" => worker[w].key \in Keys
<1>0. Claimed
  BY DEF Exclusive, Placed, Busy
<1>1. ASSUME NEW k \in Keys, NEW s \in Sessions, Put(k, s)
      PROVE  Spaced'
  <2>1. entry'[k].session = s /\ entry'[k].age = entry[k].age
    BY <1>1 DEF Put
  <2>2. Present(k)'
    BY <2>1, NameAssumption DEF Present, Missing
  <2>3. \A j \in Keys \ {k} : entry'[j] = entry[j]
    BY <1>1 DEF Put
  <2>4. \A j \in Keys : Present(j) => Present(j)' /\ entry'[j].age = entry[j].age
    BY <2>1, <2>2, <2>3 DEF Present
  <2>5. UNCHANGED <<worker, since>>
    BY <1>1 DEF Put
  <2>6. QED
    BY <2>4, <2>5, <1>0, RecordsStay
<1>2. ASSUME NEW doomed, Without(doomed), UNCHANGED worker
      PROVE  Spaced'
  <2>1. \A j \in Keys : \/ since'[j] = Every
                        \/ since'[j] = since[j] /\ entry'[j] = entry[j]
    BY <1>2 DEF Without
  <2>2. QED
    BY <1>2, <2>1, <1>0, RecordsStay DEF Present
<1>3. ASSUME NEW s \in Sessions, Visit(s) \/ Leave(s)
      PROVE  Spaced'
  BY <1>3, <1>0, RecordsStay DEF Visit, Leave, Present
<1>4. ASSUME NEW w \in Workers, worker[w].stage # "ending", worker'[w].stage # "claimed",
             \A v \in Workers \ {w} : worker'[v] = worker[v], UNCHANGED <<entry, since>>
      PROVE  Spaced'
  BY <1>4, <1>0, RecordsStay DEF Present
<1>5. ASSUME NEW w \in Workers, StartTick(w) \/ EndTick(w)
      PROVE  Spaced'
  <2>1. worker'[w].stage \in {"ticking", "resting"}
    <3>1. CASE StartTick(w)
      BY <3>1 DEF StartTick, Off
    <3>2. CASE EndTick(w)
      BY <3>2 DEF EndTick, Off
    <3>3. QED
      BY <1>5, <3>1, <3>2
  <2>2. /\ worker[w].stage # "ending" /\ UNCHANGED <<entry, since>>
        /\ \A v \in Workers \ {w} : worker'[v] = worker[v]
    BY <1>5 DEF StartTick, EndTick
  <2>3. QED
    BY <2>1, <2>2, <1>4
<1>6. ASSUME NEW w \in Workers, NEW k \in Keys, PassOver(w, k)
      PROVE  Spaced'
  <2>1. worker'[w].stage = "ticking"
    BY <1>6 DEF PassOver, Worker
  <2>2. QED
    BY <1>6, <2>1, <1>4 DEF PassOver
<1>7. ASSUME NEW w \in Workers, Run(w) \/ Skip(w)
      PROVE  Spaced'
  <2>1. worker'[w].stage \in {"running", "ending"}
    BY <1>7 DEF Run, Skip, Worker
  <2>2. QED
    BY <1>7, <2>1, <1>4 DEF Run, Skip
<1>8. ASSUME NEW w \in Workers, NEW k \in Keys, Claim(w, k)
      PROVE  Spaced'
  <2>1. since[k] = Every
    BY <1>8, ClaimsDue DEF Claim
  <2>2. worker'[w].key = k /\ \A v \in Workers \ {w} : worker'[v] = worker[v]
    BY <1>8 DEF Claim, Worker
  <2>3. UNCHANGED since /\ \A j \in Keys \ {k} : entry'[j] = entry[j]
    BY <1>8 DEF Claim
  <2>4. worker[w].stage # "ending"
    BY <1>8 DEF Claim
  <2>5. Recorded'
    BY <2>1, <2>2, <2>3, <2>4 DEF Spaced, Recorded, Present
  <2>6. Due'
    BY <2>1, <2>2, <2>3 DEF Spaced, Due
  <2>7. QED
    BY <2>5, <2>6 DEF Spaced
<1>9. ASSUME NEW w \in Workers, Stop(w)
      PROVE  Spaced'
  <2> DEFINE k == worker[w].key
  <2>1. k \in Keys /\ \A v \in Workers \ {w} : Busy(v) => worker[v].key # k
    BY <1>9 DEF Stop, Exclusive, Placed, OneClaimant, Busy
  <2>2. /\ worker'[w].stage = "ending" /\ worker'[w].key = k /\ worker[w].stage = "running"
        /\ \A v \in Workers \ {w} : worker'[v] = worker[v]
    BY <1>9 DEF Stop, Worker
  <2>3. UNCHANGED entry /\ \A j \in Keys \ {k} : since'[j] = since[j]
    BY <1>9 DEF Stop
  <2>4. ~Present(k) => since'[k] = since[k]
    BY <1>9 DEF Stop
  <2>5. ASSUME NEW j \in Keys
        PROVE  \/ since'[j] = Every
               \/ Present(j)' /\ entry'[j].age <= since'[j]
               \/ Present(j)' /\ \E v \in Workers : worker'[v].stage = "ending" /\ worker'[v].key = j
    <3>1. CASE j = k /\ Present(k)
      BY <2>2, <2>3, <3>1 DEF Present
    <3>2. CASE ~(j = k /\ Present(k))
      <4>1. since'[j] = since[j]
        BY <2>3, <2>4, <3>2
      <4>2. \A v \in Workers : worker[v].stage = "ending" => worker'[v] = worker[v]
        BY <2>2
      <4>3. QED
        BY <2>3, <4>1, <4>2 DEF Spaced, Recorded, Present
    <3>3. QED
      BY <3>1, <3>2
  <2>6. Due'
    <3>1. ASSUME NEW v \in Workers, worker'[v].stage = "claimed"
          PROVE  since'[worker'[v].key] = Every
      <4>1. v # w /\ worker'[v] = worker[v]
        BY <2>2, <3>1
      <4>2. worker[v].key \in Keys \ {k}
        BY <2>1, <3>1, <4>1, <1>0 DEF Busy
      <4>3. QED
        BY <2>3, <3>1, <4>1, <4>2 DEF Spaced, Due
    <3>2. QED
      BY <3>1 DEF Due
  <2>7. QED
    BY <2>5, <2>6 DEF Spaced, Recorded
<1>10. ASSUME NEW w \in Workers, Complete(w)
       PROVE  Spaced'
  <2>1. PICK k \in Keys : k = worker[w].key
    BY <1>10 DEF Complete, Exclusive, Placed, Busy
  <2>2. /\ worker'[w].stage = "ticking" /\ UNCHANGED since
        /\ \A v \in Workers \ {w} : worker'[v] = worker[v]
        /\ \A j \in Keys \ {k} : entry'[j] = entry[j]
    BY <1>10, <2>1 DEF Complete, Worker
  <2>3. \A j \in Keys \ {k} :
          \/ since'[j] = Every
          \/ Present(j)' /\ entry'[j].age <= since'[j]
          \/ Present(j)' /\ \E v \in Workers : worker'[v].stage = "ending" /\ worker'[v].key = j
    <3>1. ASSUME NEW v \in Workers, worker[v].stage = "ending", worker[v].key # k
          PROVE  worker'[v] = worker[v]
      BY <2>1, <2>2, <3>1
    <3>2. ASSUME NEW j \in Keys \ {k}
          PROVE  \/ since'[j] = Every
                 \/ Present(j)' /\ entry'[j].age <= since'[j]
                 \/ Present(j)' /\ \E v \in Workers :
                      worker'[v].stage = "ending" /\ worker'[v].key = j
      <4>1. \/ since[j] = Every
            \/ Present(j) /\ entry[j].age <= since[j]
            \/ Present(j) /\ \E v \in Workers : worker[v].stage = "ending" /\ worker[v].key = j
        BY DEF Spaced, Recorded
      <4>2. entry'[j] = entry[j] /\ since'[j] = since[j] /\ (Present(j) => Present(j)')
        BY <2>2 DEF Present
      <4>3. QED
        BY <3>1, <4>1, <4>2
    <3>3. QED
      BY <3>2
  <2>4. since'[k] = Every \/ (Present(k)' /\ entry'[k].age <= since'[k])
    <3>1. CASE Present(k)
      <4>1. entry[k] \in Entry /\ entry[k].owner = w
        BY <1>10, <2>1, <3>1, PresentIsEntry DEF Complete, Exclusive, Leased, Busy
      <4>2. entry'[k] = [entry[k] EXCEPT !.age = 0, !.left = NoLease, !.owner = Nobody,
                                         !.quiet = 0]
        BY <1>10, <2>1, <4>1 DEF Complete
      <4>3. \A age, left, owner, quiet :
              LET e == [entry[k] EXCEPT !.age = age, !.left = left, !.owner = owner,
                                        !.quiet = quiet] IN
              e.age = age /\ e.session = entry[k].session
        BY <4>1 DEF Entry
      <4>4. entry'[k].age = 0 /\ entry'[k].session = entry[k].session
        BY <4>2, <4>3
      <4>5. Present(k)'
        <5>1. entry[k].session \in Sessions
          BY <4>1 DEF Entry
        <5>2. Missing.session = NoSession
          BY DEF Missing
        <5>3. QED
          BY <4>4, <5>1, <5>2, NameAssumption DEF Present
      <4>6. since'[k] \in 0..Every
        BY <2>1, <2>2
      <4>7. QED
        BY <4>4, <4>5, <4>6, TimeAssumption
    <3>2. CASE ~Present(k)
      <4>1. since[k] = Every
        BY <3>2 DEF Spaced, Recorded
      <4>2. QED
        BY <2>2, <4>1
    <3>3. QED
      BY <3>1, <3>2
  <2>5. Recorded'
    BY <2>3, <2>4 DEF Recorded
  <2>6. Due'
    BY <2>2 DEF Spaced, Due
  <2>7. QED
    BY <2>5, <2>6 DEF Spaced
<1>11. ASSUME NEW w \in Workers, Crash(w)
       PROVE  Spaced'
  <2>1. /\ worker'[w].stage = "resting" /\ UNCHANGED entry
        /\ \A v \in Workers \ {w} : worker'[v] = worker[v]
    BY <1>11 DEF Crash, Off
  <2>2. /\ \A j \in Keys : since'[j] = Every \/ since'[j] = since[j]
        /\ worker[w].stage = "ending" =>
             worker[w].key \in Keys /\ since'[worker[w].key] = Every
    BY <1>11 DEF Crash, Exclusive, Placed, Busy
  <2>3. Recorded'
    BY <2>1, <2>2 DEF Spaced, Recorded, Present
  <2>4. Due'
    BY <2>1, <2>2, <1>0 DEF Spaced, Due
  <2>5. QED
    BY <2>3, <2>4 DEF Spaced
<1>12. ASSUME Pass
       PROVE  Spaced'
  <2>1. \A w \in Workers : worker'[w].stage = worker[w].stage /\ worker'[w].key = worker[w].key
    BY <1>12 DEF Pass, Worker
  <2>2. \A j \in Keys : since'[j] = Capped(since[j] + 1, Every)
    BY <1>12 DEF Pass
  <2>3. \A j \in Keys : since[j] = Every => since'[j] = Every
    BY <2>2, TimeAssumption DEF Capped
  <2>4. ASSUME NEW j \in Keys, Present(j)
        PROVE  Present(j)' /\ entry'[j].age = Capped(entry[j].age + 1, OldRun)
    <3>1. entry[j] \in Entry
      BY <2>4, PresentIsEntry
    <3>2. entry'[j] = [entry[j] EXCEPT !.age = Capped(@ + 1, OldRun),
                                       !.left = Floored(@ - 1, NoLease),
                                       !.quiet = Capped(@ + 1, Retention)]
      BY <1>12, <2>4 DEF Pass
    <3>3. \A a, l, q : LET e == [entry[j] EXCEPT !.age = a, !.left = l, !.quiet = q] IN
            e.age = a /\ e.session = entry[j].session
      BY <3>1 DEF Entry
    <3>4. entry'[j].age = Capped(entry[j].age + 1, OldRun) /\ entry'[j].session = entry[j].session
      BY <3>2, <3>3
    <3>5. QED
      BY <3>1, <3>4, NameAssumption DEF Present, Missing, Entry
  <2>5. ASSUME NEW j \in Keys, Present(j), entry[j].age <= since[j]
        PROVE  since'[j] = Every \/ (Present(j)' /\ entry'[j].age <= since'[j])
    <3>1. entry[j].age \in 0..OldRun /\ since[j] \in 0..Every
      BY <2>5, PresentIsEntry DEF Entry
    <3>2. \A a \in 0..OldRun, n \in 0..Every :
            a <= n => \/ Capped(n + 1, Every) = Every
                      \/ Capped(a + 1, OldRun) <= Capped(n + 1, Every)
      BY TimeAssumption DEF OldRun, Capped
    <3>3. QED
      BY <2>2, <2>4, <2>5, <3>1, <3>2
  <2>6. Recorded'
    BY <2>1, <2>3, <2>4, <2>5 DEF Spaced, Recorded
  <2>7. Due'
    BY <2>1, <2>3, <1>0 DEF Spaced, Due
  <2>8. QED
    BY <2>6, <2>7 DEF Spaced
<1>13. CASE UNCHANGED vars
  BY <1>13, <1>0, RecordsStay DEF vars, Present
<1>14. QED
  BY <1>1, <1>2, <1>3, <1>5, <1>6, <1>7, <1>8, <1>9, <1>10, <1>11, <1>12, <1>13
     DEF Next, Step, Remove, RemoveSession, RemoveInactive

-----------------------------------------------------------------------------
Invariant == TypeOK /\ Placed /\ Exclusive /\ Spaced

LEMMA InvariantHolds ==
  ASSUME Steady
  PROVE  Spec => []Invariant
<1>1. Init => Invariant
  BY InitTypes, InitExclusive DEF Invariant
<1>2. Invariant /\ [Next]_vars => Invariant'
  BY StepTypes, StepExclusive, StepSpaced DEF Invariant
<1>3. QED
  BY <1>1, <1>2, PTL DEF Spec

\* THEOREM: claim_due leases an entry to one worker (product_service.py:1252-1275), if a
\* tick is shorter than the lease it dates and entries are not replaced under it.
THEOREM OneClaimantEach ==
  ASSUME Steady
  PROVE  Spec => []OneClaimant
<1>1. Invariant => OneClaimant
  BY DEF Invariant, Exclusive
<1>2. QED
  BY <1>1, InvariantHolds, PTL

\* THEOREM: a scheduled turn holds the lock of the session it runs in
\* (product_service.py:1342-1352), if entries are not replaced between claim and run.
THEOREM TurnsRunLocked ==
  ASSUME Steady
  PROVE  Spec => []RunsUnderLock
<1>1. Invariant => RunsUnderLock
  BY DEF Invariant, Exclusive, Under, RunsUnderLock
<1>2. QED
  BY <1>1, InvariantHolds, PTL

\* THEOREM: two runs of one entry are every_ms apart, through crashes, removals and leases
\* that run out (product_service.py:1252-1300).
THEOREM RunsAreSpaced ==
  ASSUME Steady
  PROVE  Spec => RunsSpaced
<1>1. Invariant /\ [Next]_vars =>
        [\A w \in Workers : worker[w].stage # "running" /\ worker'[w].stage = "running"
           => since[worker[w].key] = Every]_vars
  <2> SUFFICES ASSUME Invariant, Next, NEW w \in Workers,
                      worker[w].stage # "running", worker'[w].stage = "running"
               PROVE  since[worker[w].key] = Every
    BY DEF vars
  <2>1. worker \in [Workers -> Worker]
    BY DEF Invariant, TypeOK
  <2>2. worker[w].stage = "claimed"
    <3>1. ASSUME NEW v \in Workers, Step(v) \/ Crash(v)
          PROVE  worker[w].stage = "claimed"
      <4>1. v = w
        BY <2>1, <3>1 DEF Step, Crash, StartTick, Run, Skip, Stop, Complete, EndTick, Claim, PassOver
      <4>2. CASE StartTick(w) \/ EndTick(w) \/ Crash(w)
        <5>1. CASE StartTick(w)
          BY <2>1, <5>1 DEF StartTick, Off
        <5>2. CASE EndTick(w)
          BY <2>1, <5>2 DEF EndTick, Off
        <5>3. CASE Crash(w)
          BY <2>1, <5>3 DEF Crash, Off
        <5>4. QED
          BY <4>2, <5>1, <5>2, <5>3
      <4>3. CASE Skip(w) \/ Stop(w)
        BY <2>1, <4>3 DEF Skip, Stop, Worker
      <4>4. CASE Complete(w)
        BY <2>1, <4>4 DEF Complete, Worker
      <4>5. ASSUME NEW k \in Keys, Claim(w, k) \/ PassOver(w, k)
            PROVE  FALSE
        BY <2>1, <4>5 DEF Claim, PassOver, Worker
      <4>6. QED
        BY <3>1, <4>1, <4>2, <4>3, <4>4, <4>5 DEF Step, Run
    <3>2. CASE Pass
      BY <2>1, <3>2 DEF Pass, Worker
    <3>3. QED
      BY <3>1, <3>2 DEF Next, Put, Remove, RemoveSession, RemoveInactive, Visit, Leave
  <2>3. QED
    BY <2>2 DEF Invariant, Spaced, Due
<1>2. QED
  BY <1>1, InvariantHolds, PTL DEF Spec, RunsSpaced
================================================================================
