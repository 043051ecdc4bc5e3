------------------------------ MODULE HostProofs ------------------------------
(***************************************************************************)
(* Theorems of ResearchHost, and of MemoryClient as part of it, for every  *)
(* number of talkers, entries, records, callbacks and faults.              *)
(***************************************************************************)
EXTENDS ResearchHost, FiniteSetTheorems, SequenceTheorems, TLAPS

-----------------------------------------------------------------------------
(* The inductive invariant. *)

\* A host that is down holds nothing and owes nothing.
Down ==
  host = "down" =>
    /\ sidecar = "dead"
    /\ pipe = Nobody /\ guard = Nobody /\ forge = Nobody
    /\ pending = <<>> /\ owed = 0
    /\ call = [t \in Threads |-> NoCall]
    /\ running = {} /\ todo = <<>>
    /\ turn = [t \in Talkers |-> NoTurn]

Flushes(t) == call[t].at \in {"flush", "landing", "landed"}

\* Where a thread is says which locks it holds.
LocksHeld ==
  /\ \A t \in Talkers : guard = t <=> Flushes(t)
  /\ \A t \in Threads : pipe = t <=> Waits(t)
  /\ \A t \in Talkers : forge = t <=> turn[t].at = "step"

CallType ==
  [at : {"none", "recall", "recalling", "record", "flush", "landing", "landed", "dreaming"},
   todo : 0..2, work : Seq(Records), still : Seq(Records),
   asked : BOOLEAN, callbacks : 0..MaxCallbacks]

\* The records that a call has in hand.
Kept(c) == Len(c.work) + Len(c.still)

\* What the call of a thread may be.
CallShaped(t, c) ==
  /\ IF t = Dreamer THEN c.at \in {"none", "dreaming"} ELSE c.at # "dreaming"
  /\ c.asked => c.at \in {"recalling", "landing", "landed", "dreaming"}
  /\ c.at = "record" => c.todo # 0
  /\ c.at \in {"landing", "landed"} => c.work # <<>>
  /\ c.at \notin {"flush", "landing", "landed"} => c.work = <<>> /\ c.still = <<>>
  /\ Kept(c) <= MaxPending

\* A turn recalls before its first step and records after its last.
CallFits(stage, at) ==
  /\ stage \in {"away", "step"} => at = "none"
  /\ stage = "boundary" => at \in {"none", "recall", "recalling"}
  /\ stage = "over" => at \in {"none", "record", "flush", "landing", "landed"}

CallsShaped ==
  /\ \A t \in Threads : CallShaped(t, call[t])
  /\ \A t \in Talkers : CallFits(turn[t].at, call[t].at)

Untaken(s) == \A i \in 1..Len(s) : s[i] # "taken"

\* What a call is yet to send was not taken, but for the record whose reply is on its way.
CallClean(c) ==
  /\ Untaken(c.still)
  /\ \A i \in 1..Len(c.work) : c.work[i] = "taken" => i = 1 /\ c.at = "landed"

\* As long as the sidecar lives, nothing that it is known to have taken is sent again.
TakenOnce ==
  /\ ~doubled
  /\ sidecar = "up" => Untaken(pending) /\ \A t \in Talkers : CallClean(call[t])

\* A tick runs its entries one by one, and those it is yet to run have waited.
TickSpaced ==
  /\ turn[Scheduler].at # "away" => todo # <<>>
  /\ \A i, j \in 1..Len(todo) : i # j => todo[i] # todo[j]
  /\ \A n \in Names : ended[n] \in {Never, entries[n].mark}
  /\ \A i \in 1..Len(todo) :
       (i > 1 \/ turn[Scheduler].at = "away") /\ ended[todo[i]] # Never =>
         clock - ended[todo[i]] >= Every

MemoryInv == MemoryTypeOK /\ LocksHeld /\ CallsShaped /\ RecordsKept /\ TakenOnce

IInv == TypeOK /\ MemoryInv /\ Down /\ TickSpaced /\ OperatorsWord

-----------------------------------------------------------------------------
(* Calls of the memory. *)

\* No thread is Nobody, and the dreamer is no talker.
LEMMA ThreadsAre ==
  /\ \A t \in Threads : t # Nobody
  /\ Dreamer \in Threads /\ Dreamer \notin Talkers /\ Talkers \subseteq Threads
  /\ Scheduler \in Talkers
  /\ MaxPending \in Nat \ {0} /\ MaxCallbacks \in Nat /\ MaxFaults \in Nat
BY MemoryAssumption, HostAssumption DEF Threads

\* The call of one thread changes.
LEMMA CallMoves ==
  ASSUME MemoryInv, NEW t \in Threads, NEW c \in CallType, Call(t, c), turn' = turn,
         CallShaped(t, c), t \in Talkers => CallFits(turn[t].at, c.at)
  PROVE  /\ call' \in [Threads -> CallType]
         /\ call'[t] = c
         /\ \A u \in Threads \ {t} : call'[u] = call[u]
         /\ CallsShaped'
<1>1. call \in [Threads -> CallType]
  BY DEF MemoryInv, MemoryTypeOK, CallType
<1>2. /\ call' \in [Threads -> CallType]
      /\ call'[t] = c
      /\ \A u \in Threads \ {t} : call'[u] = call[u]
  BY <1>1 DEF Call
<1>3. ASSUME NEW u \in Threads
      PROVE  CallShaped(u, call'[u]) /\ (u \in Talkers => CallFits(turn'[u].at, call'[u].at))
  <2>1. CASE u = t
    BY <1>2, <2>1
  <2>2. CASE u # t
    BY <1>2, <2>2 DEF MemoryInv, CallsShaped
  <2>3. QED
    BY <2>1, <2>2
<1>4. QED
  BY <1>2, <1>3, ThreadsAre DEF CallsShaped, CallShaped

\* A call that came to nothing: its record, if it has one, is kept to be tried again.
LEMMA DegradedIs ==
  ASSUME MemoryInv, NEW t \in Threads, Calls(t) \/ Listens(t)
  PROVE  /\ Degraded(t) \in CallType
         /\ CallShaped(t, Degraded(t))
         /\ t \in Talkers => CallFits(turn[t].at, Degraded(t).at)
         /\ ~Waits(t) \/ Listens(t)
         /\ ~Flushes(t) => Degraded(t) = NoCall
         /\ Flushes(t) =>
              /\ Degraded(t).at = "flush"
              /\ Degraded(t).work = Tail(call[t].work)
              /\ Degraded(t).still = Append(call[t].still, Head(call[t].work))
              /\ Kept(Degraded(t)) = Kept(call[t])
<1>1. /\ call[t] \in CallType /\ CallShaped(t, call[t])
      /\ t \in Talkers => CallFits(turn[t].at, call[t].at)
  BY DEF MemoryInv, MemoryTypeOK, CallType, CallsShaped
<1>2. CASE ~Flushes(t)
  <2>1. Degraded(t) = NoCall
    BY <1>2 DEF Flushes, Degraded
  <2>2. QED
    BY <1>1, <1>2, <2>1, ThreadsAre
    DEF NoCall, CallType, CallShaped, Kept, CallFits, Calls, Sending, Listens, Waits, Flushes
<1>3. CASE Flushes(t)
  <2>1. call[t].work # <<>> /\ ~call[t].asked
    BY <1>1, <1>3 DEF Flushes, CallShaped, Calls, Sending, Listens, Waits
  <2>2. /\ call[t].work \in Seq(Records) /\ call[t].still \in Seq(Records)
        /\ call[t].todo \in 0..2
    BY <1>1 DEF CallType
  <2>3. Degraded(t) = [at |-> "flush", todo |-> call[t].todo, work |-> Tail(call[t].work),
                       still |-> Append(call[t].still, Head(call[t].work)),
                       asked |-> FALSE, callbacks |-> 0]
    BY <1>1, <1>3, <2>1 DEF Flushes, Degraded, CallType
  <2>4. /\ Tail(call[t].work) \in Seq(Records) /\ Head(call[t].work) \in Records
        /\ Append(call[t].still, Head(call[t].work)) \in Seq(Records)
        /\ Len(Tail(call[t].work)) = Len(call[t].work) - 1
        /\ Len(Append(call[t].still, Head(call[t].work))) = Len(call[t].still) + 1
        /\ Len(call[t].work) \in Nat /\ Len(call[t].still) \in Nat
    BY <2>1, <2>2
  <2>5. Degraded(t) \in CallType
    BY <2>2, <2>3, <2>4, ThreadsAre DEF CallType
  <2>6. t # Dreamer /\ Kept(call[t]) <= MaxPending
    BY <1>1, <1>3 DEF CallShaped, Flushes
  <2>7. /\ Degraded(t).at = "flush" /\ ~Degraded(t).asked
        /\ Degraded(t).work = Tail(call[t].work)
        /\ Degraded(t).still = Append(call[t].still, Head(call[t].work))
    BY <2>3
  <2>8. /\ Len(Degraded(t).work) = Len(call[t].work) - 1
        /\ Len(Degraded(t).still) = Len(call[t].still) + 1
        /\ Len(call[t].work) \in Nat /\ Len(call[t].still) \in Nat
    BY <2>4, <2>7, Zenon
  <2>9. Kept(Degraded(t)) = Kept(call[t]) /\ Kept(Degraded(t)) <= MaxPending
    <3> DEFINE before == Len(call[t].work)
               kept == Len(call[t].still)
               left == Len(Degraded(t).work)
               now == Len(Degraded(t).still)
    <3>1. /\ before \in Nat /\ kept \in Nat /\ left = before - 1 /\ now = kept + 1
          /\ before + kept <= MaxPending /\ MaxPending \in Nat
      BY <2>6, <2>8, ThreadsAre, Zenon DEF Kept
    <3> HIDE DEF before, kept, left, now
    <3>2. left + now = before + kept /\ left + now <= MaxPending
      BY <3>1
    <3>3. QED
      BY <3>2 DEF Kept, before, kept, left, now
  <2>10. CallShaped(t, Degraded(t))
    BY <2>6, <2>7, <2>9 DEF CallShaped
  <2>11. t \in Talkers => CallFits(turn[t].at, Degraded(t).at)
    BY <1>1, <1>3, <2>7 DEF CallFits, Flushes
  <2>12. ~Waits(t) \/ Listens(t)
    BY <2>1 DEF Listens
  <2>13. QED
    BY <1>3, <2>4, <2>5, <2>7, <2>8, <2>9, <2>10, <2>11, <2>12
<1>4. QED
  BY <1>2, <1>3

\* A call that was served: its record, if it has one, is done with.
LEMMA ServedIs ==
  ASSUME MemoryInv, NEW t \in Threads, Listens(t)
  PROVE  /\ Served(t) \in CallType
         /\ CallShaped(t, Served(t))
         /\ t \in Talkers => CallFits(turn[t].at, Served(t).at)
         /\ ~Flushes(t) => Served(t) = NoCall
         /\ Flushes(t) =>
              /\ Served(t).at = "flush"
              /\ Served(t).work = Tail(call[t].work)
              /\ Served(t).still = call[t].still
              /\ Kept(Served(t)) = Kept(call[t]) - 1
<1>1. /\ call[t] \in CallType /\ CallShaped(t, call[t])
      /\ t \in Talkers => CallFits(turn[t].at, call[t].at)
  BY DEF MemoryInv, MemoryTypeOK, CallType, CallsShaped
<1>2. CASE ~Flushes(t)
  <2>1. Served(t) = NoCall
    BY <1>2 DEF Flushes, Served
  <2>2. QED
    BY <1>1, <1>2, <2>1, ThreadsAre
    DEF NoCall, CallType, CallShaped, Kept, CallFits, Listens, Waits, Flushes
<1>3. CASE Flushes(t)
  <2>1. call[t].work # <<>> /\ ~call[t].asked /\ call[t].at \in {"landing", "landed"}
    BY <1>1, <1>3 DEF Flushes, CallShaped, Listens, Waits
  <2>2. /\ call[t].work \in Seq(Records) /\ call[t].still \in Seq(Records)
        /\ call[t].todo \in 0..2
    BY <1>1 DEF CallType
  <2>3. Served(t) = [at |-> "flush", todo |-> call[t].todo, work |-> Tail(call[t].work),
                     still |-> call[t].still, asked |-> FALSE, callbacks |-> 0]
    BY <1>1, <2>1 DEF Served, CallType
  <2>4. /\ Tail(call[t].work) \in Seq(Records)
        /\ Len(Tail(call[t].work)) = Len(call[t].work) - 1
        /\ Len(call[t].work) \in Nat /\ Len(call[t].still) \in Nat
    BY <2>1, <2>2
  <2>5. Served(t) \in CallType
    BY <2>2, <2>3, <2>4, ThreadsAre DEF CallType
  <2>6. t # Dreamer /\ Kept(call[t]) <= MaxPending
    BY <1>1, <1>3 DEF CallShaped, Flushes
  <2>7. /\ Served(t).at = "flush" /\ ~Served(t).asked
        /\ Served(t).work = Tail(call[t].work)
        /\ Served(t).still = call[t].still
    BY <2>3
  <2>8. /\ Len(Served(t).work) = Len(call[t].work) - 1
        /\ Len(Served(t).still) = Len(call[t].still)
        /\ Len(call[t].work) \in Nat /\ Len(call[t].still) \in Nat
    BY <2>4, <2>7, Zenon
  <2>9. Kept(Served(t)) = Kept(call[t]) - 1 /\ Kept(Served(t)) <= MaxPending
    <3> DEFINE before == Len(call[t].work)
               kept == Len(call[t].still)
               left == Len(Served(t).work)
               now == Len(Served(t).still)
    <3>1. /\ before \in Nat /\ kept \in Nat /\ left = before - 1 /\ now = kept
          /\ before + kept <= MaxPending /\ MaxPending \in Nat
      BY <2>6, <2>8, ThreadsAre, Zenon DEF Kept
    <3> HIDE DEF before, kept, left, now
    <3>2. left + now = (before + kept) - 1 /\ left + now <= MaxPending
      BY <3>1
    <3>3. QED
      BY <3>2 DEF Kept, before, kept, left, now
  <2>10. CallShaped(t, Served(t))
    BY <2>6, <2>7, <2>9 DEF CallShaped
  <2>11. t \in Talkers => CallFits(turn[t].at, Served(t).at)
    BY <1>1, <1>3, <2>7 DEF CallFits, Flushes
  <2>12. QED
    BY <1>3, <2>4, <2>5, <2>7, <2>8, <2>9, <2>10, <2>11
<1>4. QED
  BY <1>2, <1>3
\* A sequence of records, one of them less or one of them more.
LEMMA UntakenMoves ==
  ASSUME NEW s \in Seq(Records), NEW r \in Records
  PROVE  /\ Untaken(s) /\ r # "taken" => Untaken(Append(s, r))
         /\ Untaken(s) /\ s # <<>> => Untaken(Tail(s))
         /\ s # <<>> /\ (\A i \in 1..Len(s) : s[i] = "taken" => i = 1) => Untaken(Tail(s))
<1>1. ASSUME Untaken(s), r # "taken"
      PROVE  Untaken(Append(s, r))
  BY <1>1 DEF Untaken
<1>2. ASSUME s # <<>>, \A i \in 1..Len(s) : s[i] = "taken" => i = 1
      PROVE  Untaken(Tail(s))
  <2>1. /\ Len(s) \in Nat /\ Len(Tail(s)) = Len(s) - 1
        /\ \A i \in 1..Len(Tail(s)) : Tail(s)[i] = s[i + 1]
    BY <1>2
  <2>2. ASSUME NEW i \in 1..Len(Tail(s))
        PROVE  Tail(s)[i] # "taken"
    <3>1. i + 1 \in 1..Len(s) /\ i + 1 # 1
      BY <2>1
    <3>2. QED
      BY <1>2, <2>1, <3>1
  <2>3. QED
    BY <2>2 DEF Untaken
<1>3. QED
  BY <1>1, <1>2 DEF Untaken

\* The last of a sequence is put in the place of another.
LEMMA LastReplaced ==
  ASSUME NEW s \in Seq(Records), NEW r \in Records, NEW q \in Records
  PROVE  [Append(s, r) EXCEPT ![Len(s) + 1] = q] = Append(s, q)
<1> DEFINE n == Len(s) + 1
           f == Append(s, r)
           g == Append(s, q)
<1>1. /\ n \in Nat
      /\ f \in [1..n -> Records] /\ f[n] = r /\ \A i \in 1..n : i # n => f[i] = s[i]
      /\ g \in [1..n -> Records] /\ g[n] = q /\ \A i \in 1..n : i # n => g[i] = s[i]
  <2>1. Len(s) \in Nat /\ n \in Nat
    OBVIOUS
  <2>2. ASSUME NEW e \in Records
        PROVE  /\ Append(s, e) \in [1..n -> Records]
               /\ Append(s, e)[n] = e
               /\ \A i \in 1..Len(s) : Append(s, e)[i] = s[i]
    <3>1. Append(s, e) \in Seq(Records) /\ Len(Append(s, e)) = n
      OBVIOUS
    <3>2. Append(s, e)[n] = e /\ \A i \in 1..Len(s) : Append(s, e)[i] = s[i]
      OBVIOUS
    <3>3. Append(s, e) \in [1..Len(Append(s, e)) -> Records]
      BY <3>1, LenProperties, Zenon
    <3>4. Append(s, e) \in [1..n -> Records]
      BY <3>1, <3>3, Zenon
    <3>5. QED
      BY <3>2, <3>4
  <2>3. \A i \in 1..n : i # n => i \in 1..Len(s)
    BY <2>1
  <2>4. QED
    BY <2>1, <2>2, <2>3
<1> HIDE DEF n, f, g
<1>2. [f EXCEPT ![n] = q] = g
  BY <1>1
<1>3. QED
  BY <1>2 DEF n, f, g

\* What stays in a call that was served, or came to nothing before its record was taken.
LEMMA CleanMoves ==
  ASSUME MemoryInv, NEW t \in Threads, CallClean(call[t])
  PROVE  /\ Listens(t) => CallClean(Served(t))
         /\ (Calls(t) \/ Listens(t)) /\ call[t].at # "landed" => CallClean(Degraded(t))
<1>0. CallClean(NoCall)
  BY DEF CallClean, NoCall, Untaken
<1>1. /\ call[t].work \in Seq(Records) /\ call[t].still \in Seq(Records)
      /\ CallShaped(t, call[t])
  BY DEF MemoryInv, MemoryTypeOK, CallsShaped
<1>2. ASSUME Listens(t)
      PROVE  CallClean(Served(t))
  <2>1. CASE ~Flushes(t)
    BY <1>0, <1>2, <2>1, ServedIs
  <2>2. CASE Flushes(t)
    <3>1. call[t].work # <<>>
      BY <1>1, <1>2, <2>2 DEF Flushes, Listens, Waits, CallShaped
    <3>2. Served(t).at = "flush" /\ Served(t).work = Tail(call[t].work)
          /\ Served(t).still = call[t].still
      BY <1>2, <2>2, ServedIs
    <3>3. Untaken(Tail(call[t].work)) /\ Untaken(call[t].still)
      BY <1>1, <3>1, UntakenMoves DEF CallClean, Records
    <3>4. QED
      BY <3>2, <3>3 DEF CallClean, Untaken
  <2>3. QED
    BY <2>1, <2>2
<1>3. ASSUME Calls(t) \/ Listens(t), call[t].at # "landed"
      PROVE  CallClean(Degraded(t))
  <2>1. CASE ~Flushes(t)
    BY <1>0, <1>3, <2>1, DegradedIs
  <2>2. CASE Flushes(t)
    <3>1. call[t].work # <<>>
      BY <1>1, <1>3, <2>2 DEF Flushes, Listens, Waits, Calls, Sending, CallShaped
    <3>2. Degraded(t).at = "flush" /\ Degraded(t).work = Tail(call[t].work)
          /\ Degraded(t).still = Append(call[t].still, Head(call[t].work))
      BY <1>3, <2>2, DegradedIs
    <3>3. /\ Head(call[t].work) = call[t].work[1] /\ Head(call[t].work) \in Records
          /\ 1 \in 1..Len(call[t].work)
      BY <1>1, <3>1
    <3>4. Head(call[t].work) # "taken"
      BY <1>3, <3>3 DEF CallClean
    <3>5. Untaken(Tail(call[t].work)) /\ Untaken(Append(call[t].still, Head(call[t].work)))
      BY <1>1, <3>1, <3>3, <3>4, UntakenMoves DEF CallClean
    <3>6. QED
      BY <3>2, <3>5 DEF CallClean, Untaken
  <2>3. QED
    BY <2>1, <2>2
<1>4. QED
  BY <1>2, <1>3

\* The number of records in hand is a number.
LEMMA KeptType ==
  ASSUME NEW c \in CallType
  PROVE  Kept(c) \in Nat
<1>1. Len(c.work) \in Nat /\ Len(c.still) \in Nat
  BY DEF CallType
<1> DEFINE left == Len(c.work)
           still == Len(c.still)
<1> HIDE DEF left, still
<1>2. left \in Nat /\ still \in Nat => left + still \in Nat
  OBVIOUS
<1>3. QED
  BY <1>1, <1>2 DEF Kept, left, still

\* A step of one call that leaves the buffer and its lock alone keeps the invariant, if
\* the call agrees with the lock of the conversation and with what is owed.
LEMMA MemoryMove ==
  ASSUME MemoryInv, NEW t \in Threads, NEW c \in CallType, Call(t, c),
         UNCHANGED <<turn, forge, guard, pending, doubled>>,
         sidecar' \in {"up", "dead"}, faults' \in 0..MaxFaults,
         CallShaped(t, c), t \in Talkers => CallFits(turn[t].at, c.at),
         c.at \in {"flush", "landing", "landed"} <=> Flushes(t),
         c.at \in {"recalling", "landing", "landed", "dreaming"} <=> pipe' = t,
         pipe' = pipe \/ {pipe, pipe'} \subseteq {t, Nobody},
         Flushes(t) => owed' = owed + (Kept(c) - Kept(call[t])),
         ~Flushes(t) => owed' = owed,
         sidecar' = "up" => sidecar = "up" /\ (CallClean(call[t]) => CallClean(c))
  PROVE  MemoryInv'
<1> DEFINE others == \A u \in Threads \ {t} : call'[u] = call[u]
<1>1. call' \in [Threads -> CallType] /\ call'[t] = c /\ others /\ CallsShaped'
  BY CallMoves
<1>2. LocksHeld'
  <2>1. \A u \in Talkers : guard' = u <=> Flushes(u)'
    BY <1>1, ThreadsAre DEF MemoryInv, LocksHeld, Flushes
  <2>2. \A u \in Threads : pipe' = u <=> Waits(u)'
    BY <1>1, ThreadsAre DEF MemoryInv, LocksHeld, Waits
  <2>3. \A u \in Talkers : forge' = u <=> turn'[u].at = "step"
    BY DEF MemoryInv, LocksHeld
  <2>4. QED
    BY <2>1, <2>2, <2>3 DEF LocksHeld
<1>3. RecordsKept' /\ owed' \in Nat
  <2>1. /\ Kept(c) \in Nat /\ Kept(call[t]) \in Nat /\ owed \in Nat
        /\ guard \in Talkers \cup {Nobody}
        /\ owed = IF guard = Nobody THEN Len(pending) ELSE Kept(call[guard])
    BY KeptType DEF MemoryInv, MemoryTypeOK, CallType, RecordsKept, Kept
  <2>2. guard = t <=> Flushes(t)
    BY <2>1, ThreadsAre DEF MemoryInv, LocksHeld, CallsShaped, CallShaped, Flushes, Threads
  <2>3. CASE guard = t
    <3>1. owed = Kept(call[t]) /\ owed' = owed + (Kept(c) - Kept(call[t]))
      BY <2>1, <2>2, <2>3, ThreadsAre
    <3>2. owed' = Kept(c)
      BY <2>1, <3>1
    <3>3. owed' = Kept(call'[guard'])
      BY <1>1, <2>3, <3>2
    <3>4. QED
      BY <2>1, <2>3, <3>2, <3>3, ThreadsAre DEF RecordsKept, Kept
  <2>4. CASE guard # t
    <3>1. owed' = owed /\ (guard # Nobody => call'[guard] = call[guard])
      BY <1>1, <2>1, <2>2, <2>4, ThreadsAre
    <3>2. QED
      BY <2>1, <3>1 DEF RecordsKept, Kept
  <2>5. QED
    BY <2>3, <2>4
<1>4. TakenOnce'
  <2>1. SUFFICES ASSUME sidecar' = "up", NEW u \in Talkers
                 PROVE  Untaken(pending') /\ CallClean(call'[u])
    BY DEF MemoryInv, TakenOnce, Untaken, CallClean
  <2>2. Untaken(pending) /\ CallClean(call[u])
    BY <2>1 DEF MemoryInv, TakenOnce
  <2>3. CallClean(call'[u])
    BY <1>1, <2>1, <2>2, ThreadsAre
  <2>4. QED
    BY <2>2, <2>3
<1>5. MemoryTypeOK'
  BY <1>1, <1>3, ThreadsAre DEF MemoryInv, MemoryTypeOK, CallType, Threads
<1>6. QED
  BY <1>1, <1>2, <1>3, <1>4, <1>5 DEF MemoryInv

\* What the invariant says of one thread.
LEMMA OfThread ==
  ASSUME MemoryInv, NEW t \in Threads
  PROVE  /\ call[t] \in CallType /\ CallShaped(t, call[t])
         /\ t \in Talkers => CallFits(turn[t].at, call[t].at)
         /\ pipe = t <=> Waits(t)
         /\ guard = t <=> Flushes(t)
         /\ sidecar \in {"up", "dead"} /\ faults \in 0..MaxFaults
         /\ Kept(call[t]) \in Nat /\ owed \in Nat
<1>1. /\ call[t] \in CallType /\ CallShaped(t, call[t])
      /\ t \in Talkers => CallFits(turn[t].at, call[t].at)
      /\ pipe = t <=> Waits(t)
      /\ sidecar \in {"up", "dead"} /\ faults \in 0..MaxFaults /\ owed \in Nat
  BY DEF MemoryInv, MemoryTypeOK, CallType, CallsShaped, LocksHeld
<1>2. guard = t <=> Flushes(t)
  BY <1>1, ThreadsAre
  DEF MemoryInv, MemoryTypeOK, LocksHeld, CallShaped, Flushes, Threads
<1>3. QED
  BY <1>1, <1>2, KeptType

\* A call comes to nothing before the sidecar took its record, or as the sidecar is dead.
LEMMA GivesUp ==
  ASSUME MemoryInv, NEW t \in Threads, Calls(t) \/ Listens(t), Call(t, Degraded(t)),
         UNCHANGED <<turn, forge, guard, pending, books>>,
         sidecar' \in {"up", "dead"}, faults' \in 0..MaxFaults,
         pipe' = IF Waits(t) THEN Nobody ELSE pipe,
         sidecar' = "up" => sidecar = "up" /\ call[t].at # "landed"
  PROVE  MemoryInv'
<1> DEFINE c == Degraded(t)
<1>1. c \in CallType /\ CallShaped(t, c) /\ (t \in Talkers => CallFits(turn[t].at, c.at))
  BY DegradedIs
<1>2. /\ c.at \in {"flush", "landing", "landed"} <=> Flushes(t)
      /\ c.at \notin {"recalling", "landing", "landed", "dreaming"}
      /\ Flushes(t) => Kept(c) = Kept(call[t])
  BY DegradedIs DEF NoCall
<1>3. pipe' # t /\ (pipe' = pipe \/ {pipe, pipe'} \subseteq {t, Nobody})
  BY OfThread, ThreadsAre
<1>4. Flushes(t) => owed' = owed + (Kept(c) - Kept(call[t]))
  BY <1>2, OfThread DEF books
<1>5. sidecar' = "up" => sidecar = "up" /\ (CallClean(call[t]) => CallClean(c))
  BY CleanMoves
<1> HIDE DEF c
<1>6. Call(t, c)
  BY DEF c
<1>7. QED
  BY <1>1, <1>2, <1>3, <1>4, <1>5, <1>6, MemoryMove DEF books

\* A call is served.
LEMMA IsServed ==
  ASSUME MemoryInv, NEW t \in Threads, Listens(t), Call(t, Served(t)),
         UNCHANGED <<turn, forge, guard, pending, doubled, sidecar, faults>>, pipe' = Nobody,
         owed' = IF Flushes(t) THEN owed - 1 ELSE owed
  PROVE  MemoryInv'
<1> DEFINE c == Served(t)
<1>1. c \in CallType /\ CallShaped(t, c) /\ (t \in Talkers => CallFits(turn[t].at, c.at))
  BY ServedIs
<1>2. /\ c.at \in {"flush", "landing", "landed"} <=> Flushes(t)
      /\ c.at \notin {"recalling", "landing", "landed", "dreaming"}
      /\ Flushes(t) => Kept(c) = Kept(call[t]) - 1
  BY ServedIs DEF NoCall
<1>3. pipe' # t /\ {pipe, pipe'} \subseteq {t, Nobody}
  BY OfThread, ThreadsAre DEF Listens
<1>4. Flushes(t) => owed' = owed + (Kept(c) - Kept(call[t]))
  BY <1>2, OfThread
<1>5. CallClean(call[t]) => CallClean(c)
  BY CleanMoves
<1> HIDE DEF c
<1>6. Call(t, c) /\ sidecar' \in {"up", "dead"} /\ faults' \in 0..MaxFaults
  BY OfThread DEF c
<1>7. QED
  BY <1>1, <1>2, <1>3, <1>4, <1>5, <1>6, MemoryMove

\* A call that is in no flush, or stays in it with what it had.
LEMMA SameInHand ==
  ASSUME MemoryInv, NEW t \in Threads, NEW c, c.work = call[t].work, c.still = call[t].still
  PROVE  /\ Kept(c) = Kept(call[t])
         /\ owed = owed + (Kept(c) - Kept(call[t]))
<1>1. Kept(c) = Kept(call[t])
  BY DEF Kept
<1>2. QED
  BY <1>1, OfThread

LEMMA AskStep ==
  ASSUME MemoryInv, UNCHANGED turn, NEW t \in Threads, Ask(t)
  PROVE  MemoryInv'
<1>1. CASE sidecar = "up"
  <2> DEFINE c == [call[t] EXCEPT !.at = Sending[@]]
  <2>1. /\ Call(t, c) /\ pipe' = t /\ pipe = Nobody
        /\ UNCHANGED <<forge, guard, pending, owed, doubled, sidecar, faults>>
    BY <1>1 DEF Ask, books
  <2>2. call[t].at \in {"recall", "flush"} /\ (call[t].at = "flush" => call[t].work # <<>>)
    BY DEF Ask, Calls, Sending
  <2>3. /\ c \in CallType /\ c.work = call[t].work /\ c.still = call[t].still
        /\ c.at = IF call[t].at = "recall" THEN "recalling" ELSE "landing"
        /\ c.asked = call[t].asked /\ c.todo = call[t].todo
    BY <2>2, OfThread DEF CallType, Sending
  <2> HIDE DEF c
  <2>4. CallShaped(t, c) /\ (t \in Talkers => CallFits(turn[t].at, c.at))
    BY <2>2, <2>3, OfThread DEF CallShaped, CallFits, Kept
  <2>5. CallClean(call[t]) => CallClean(c)
    BY <2>2, <2>3 DEF CallClean
  <2>6. c.at \in {"flush", "landing", "landed"} <=> Flushes(t)
    BY <2>2, <2>3 DEF Flushes
  <2>7. c.at \in {"recalling", "landing", "landed", "dreaming"}
    BY <2>3
  <2>8. owed' = owed + (Kept(c) - Kept(call[t]))
    BY <2>1, <2>3, SameInHand
  <2>9. QED
    BY <1>1, <2>1, <2>3, <2>4, <2>5, <2>6, <2>7, <2>8, MemoryMove, OfThread
<1>2. CASE sidecar # "up"
  <2>1. ~Waits(t) /\ Calls(t)
    BY DEF Ask, Calls, Sending, Waits
  <2>2. QED
    BY <1>2, <2>1, GivesUp, OfThread DEF Ask
<1>3. QED
  BY <1>1, <1>2

LEMMA BusyStep ==
  ASSUME MemoryInv, UNCHANGED turn, NEW t \in Threads, Busy(t)
  PROVE  MemoryInv'
<1>1. ~Waits(t) /\ Calls(t) /\ call[t].at # "landed"
  BY DEF Busy, Calls, Sending, Waits
<1>2. QED
  BY <1>1, GivesUp, OfThread DEF Busy

\* The sidecar takes a record that it has not taken.
LEMMA LandStep ==
  ASSUME MemoryInv, UNCHANGED turn, NEW t \in Threads, Land(t)
  PROVE  MemoryInv'
<1> DEFINE c == [call[t] EXCEPT !.at = "landed", !.work[1] = "taken"]
<1>1. /\ call[t].at = "landing" /\ sidecar = "up" /\ ~call[t].asked
      /\ Call(t, c)
      /\ doubled' = (doubled \/ Head(call[t].work) = "taken")
      /\ UNCHANGED <<sidecar, pipe, guard, forge, pending, owed, faults>>
  BY DEF Land, Listens
<1>2. t \in Talkers /\ call[t].work # <<>> /\ call[t].work \in Seq(Records)
  BY <1>1, OfThread DEF CallShaped, CallType, Threads
<1>3. CallClean(call[t]) /\ ~doubled
  BY <1>1, <1>2 DEF MemoryInv, TakenOnce
<1>4. Head(call[t].work) = call[t].work[1] /\ 1 \in 1..Len(call[t].work)
  BY <1>2
<1>5. doubled' = doubled
  BY <1>1, <1>3, <1>4 DEF CallClean, MemoryInv, MemoryTypeOK
<1>6. /\ c = [at |-> "landed", todo |-> call[t].todo,
              work |-> [call[t].work EXCEPT ![1] = "taken"], still |-> call[t].still,
              asked |-> call[t].asked, callbacks |-> call[t].callbacks]
      /\ c.at = "landed" /\ c.work = [call[t].work EXCEPT ![1] = "taken"]
      /\ c.still = call[t].still /\ c.todo = call[t].todo /\ c.asked = call[t].asked
  <2>1. call[t] \in CallType
    BY OfThread
  <2>2. [call[t] EXCEPT !.at = "landed"].work = call[t].work
    BY <2>1 DEF CallType
  <2>3. c = [[call[t] EXCEPT !.at = "landed"] EXCEPT
               !.work = [call[t].work EXCEPT ![1] = "taken"]]
    BY <2>2, Zenon
  <2> HIDE DEF c
  <2>4. c = [at |-> "landed", todo |-> call[t].todo,
             work |-> [call[t].work EXCEPT ![1] = "taken"], still |-> call[t].still,
             asked |-> call[t].asked, callbacks |-> call[t].callbacks]
    BY <2>1, <2>3 DEF CallType
  <2>5. QED
    BY <2>4
<1> HIDE DEF c
<1>7. /\ c.work \in Seq(Records) /\ Len(c.work) = Len(call[t].work)
      /\ \A i \in 1..Len(c.work) : i # 1 => c.work[i] = call[t].work[i]
  BY <1>2, <1>4, <1>6 DEF Records
<1>8. c \in CallType
  BY <1>6, <1>7, OfThread DEF CallType
<1>9. Kept(c) = Kept(call[t]) /\ owed = owed + (Kept(c) - Kept(call[t]))
  <2>1. Kept(c) = Kept(call[t])
    BY <1>6, <1>7, Zenon DEF Kept
  <2>2. QED
    BY <2>1, OfThread
<1>10. c.work # <<>>
  BY <1>4, <1>7
<1>11. CallShaped(t, c)
  BY <1>1, <1>6, <1>9, <1>10, OfThread DEF CallShaped
<1>12. CallFits(turn[t].at, c.at)
  BY <1>1, <1>2, <1>6, OfThread DEF CallFits
<1>13. CallClean(c)
  BY <1>1, <1>3, <1>6, <1>7 DEF CallClean
<1>14. /\ Flushes(t) /\ Waits(t) /\ pipe = t
  BY <1>1, OfThread DEF Flushes, Waits
<1>15. QED
  BY <1>1, <1>5, <1>6, <1>8, <1>9, <1>11, <1>12, <1>13, <1>14, MemoryMove, OfThread

\* The sidecar asks something of the host, or is answered: the call goes on.
LEMMA TalkStep ==
  ASSUME MemoryInv, NEW t \in Threads, NEW c \in CallType, Waits(t), Call(t, c),
         UNCHANGED <<turn, sidecar, pipe, guard, forge, pending, books, faults>>,
         c.at = call[t].at, c.todo = call[t].todo,
         c.work = call[t].work, c.still = call[t].still
  PROVE  MemoryInv'
<1>1. CallShaped(t, c) /\ (t \in Talkers => CallFits(turn[t].at, c.at))
  BY OfThread DEF CallShaped, Kept, Waits
<1>2. CallClean(call[t]) => CallClean(c)
  BY DEF CallClean
<1>3. /\ c.at \in {"flush", "landing", "landed"} <=> Flushes(t)
      /\ c.at \in {"recalling", "landing", "landed", "dreaming"} /\ pipe' = t
  BY OfThread DEF Flushes, Waits
<1>4. owed' = owed + (Kept(c) - Kept(call[t]))
  BY SameInHand DEF books
<1>5. QED
  BY <1>1, <1>2, <1>3, <1>4, MemoryMove, OfThread DEF books

LEMMA OneMoreCallback ==
  ASSUME MemoryInv, NEW t \in Threads, call[t].callbacks < MaxCallbacks
  PROVE  call[t] \in CallType /\ call[t].callbacks + 1 \in 0..MaxCallbacks
<1>1. call[t] \in CallType /\ call[t].callbacks \in 0..MaxCallbacks
  BY OfThread DEF CallType
<1>2. QED
  BY <1>1, ThreadsAre

LEMMA CallBackStep ==
  ASSUME MemoryInv, UNCHANGED turn, NEW t \in Threads, CallBack(t) \/ Embed(t) \/ AnswerBack(t)
  PROVE  MemoryInv'
<1>1. CASE CallBack(t)
  <2> DEFINE c == [call[t] EXCEPT !.asked = TRUE, !.callbacks = @ + 1]
  <2>1. /\ c \in CallType /\ c.at = call[t].at /\ c.todo = call[t].todo
        /\ c.work = call[t].work /\ c.still = call[t].still
    <3>1. call[t] \in CallType /\ call[t].callbacks + 1 \in 0..MaxCallbacks
      BY <1>1, OneMoreCallback DEF CallBack
    <3>2. QED
      BY <3>1 DEF CallType
  <2> HIDE DEF c
  <2>2. Waits(t) /\ Call(t, c)
    BY <1>1 DEF CallBack, Listens, c
  <2>3. QED
    BY <1>1, <2>1, <2>2, TalkStep DEF CallBack
<1>2. CASE Embed(t)
  <2> DEFINE c == [call[t] EXCEPT !.callbacks = @ + 1]
  <2>1. /\ c \in CallType /\ c.at = call[t].at /\ c.todo = call[t].todo
        /\ c.work = call[t].work /\ c.still = call[t].still
    <3>1. call[t] \in CallType /\ call[t].callbacks + 1 \in 0..MaxCallbacks
      BY <1>2, OneMoreCallback DEF Embed
    <3>2. QED
      BY <3>1 DEF CallType
  <2> HIDE DEF c
  <2>2. Waits(t) /\ Call(t, c)
    BY <1>2 DEF Embed, Listens, c
  <2>3. QED
    BY <1>2, <2>1, <2>2, TalkStep DEF Embed
<1>3. CASE AnswerBack(t)
  <2> DEFINE c == [call[t] EXCEPT !.asked = FALSE]
  <2>1. /\ c \in CallType /\ c.at = call[t].at /\ c.todo = call[t].todo
        /\ c.work = call[t].work /\ c.still = call[t].still
    BY <1>3, OfThread DEF CallType
  <2> HIDE DEF c
  <2>2. Waits(t) /\ Call(t, c)
    BY <1>3, OfThread DEF AnswerBack, CallShaped, Waits, c
  <2>3. QED
    BY <1>3, <2>1, <2>2, TalkStep DEF AnswerBack
<1>4. QED
  BY <1>1, <1>2, <1>3

LEMMA KillStep ==
  ASSUME MemoryInv, UNCHANGED turn, NEW t \in Threads, Kill(t) \/ Hangup(t)
  PROVE  MemoryInv'
<1>1. Listens(t) /\ Waits(t) /\ Call(t, Degraded(t)) /\ pipe' = Nobody /\ sidecar' = "dead"
  BY DEF Kill, Hangup, Listens
<1>2. UNCHANGED <<turn, forge, guard, pending, books>>
  BY DEF Kill, Hangup
<1>3. faults' \in 0..MaxFaults
  BY OfThread, ThreadsAre DEF Kill, Hangup, Fault
<1>4. QED
  BY <1>1, <1>2, <1>3, GivesUp

LEMMA ReplyStep ==
  ASSUME MemoryInv, UNCHANGED turn, NEW t \in Threads, Reply(t)
  PROVE  MemoryInv'
<1>1. Listens(t) /\ Call(t, Served(t)) /\ pipe' = Nobody
  BY DEF Reply
<1>2. Flushes(t) <=> call[t].at = "landed"
  BY DEF Reply, Flushes, Listens, Waits
<1>3. doubled' = doubled /\ owed' = IF Flushes(t) THEN owed - 1 ELSE owed
  BY <1>2 DEF Reply, Owe, books
<1>4. QED
  BY <1>1, <1>3, IsServed DEF Reply

LEMMA RefuseStep ==
  ASSUME MemoryInv, UNCHANGED turn, NEW t \in Threads, Refuse(t)
  PROVE  MemoryInv'
<1>1. Listens(t) /\ Waits(t) /\ Flushes(t) /\ call[t].at # "landed" /\ pipe' = Nobody
  BY DEF Refuse, Listens, Flushes
<1>2. CASE Call(t, Degraded(t)) /\ UNCHANGED books
  BY <1>1, <1>2, GivesUp, OfThread DEF Refuse
<1>3. CASE Call(t, Served(t)) /\ Owe(owed - 1)
  BY <1>1, <1>3, IsServed DEF Refuse, Owe
<1>4. QED
  BY <1>2, <1>3 DEF Refuse

\* Other records are left over, and the rest of the call stays.
LEMMA StillReplaced ==
  ASSUME NEW d \in CallType, NEW s
  PROVE  [d EXCEPT !.still = s]
           = [at |-> d.at, todo |-> d.todo, work |-> d.work, still |-> s,
              asked |-> d.asked, callbacks |-> d.callbacks]
BY DEF CallType

\* A record whose reply was garbled is tried again: the host does not know it was taken.
LEMMA GarbleStep ==
  ASSUME MemoryInv, UNCHANGED turn, NEW t \in Threads, Garble(t)
  PROVE  MemoryInv'
<1>1. Listens(t) /\ Waits(t) /\ sidecar = "up" /\ pipe' = Nobody
  BY DEF Garble, Listens
<1>2. faults' \in 0..MaxFaults /\ UNCHANGED <<turn, sidecar, guard, forge, pending, books>>
  BY OfThread, ThreadsAre DEF Garble, Fault
<1>3. CASE call[t].at # "landed"
  <2>1. Call(t, Degraded(t))
    BY <1>3 DEF Garble
  <2>2. QED
    BY <1>1, <1>2, <1>3, <2>1, GivesUp, OfThread
<1>4. CASE call[t].at = "landed"
  <2> DEFINE d == Degraded(t)
             c == [d EXCEPT !.still[Len(call[t].still) + 1] = "unsure"]
  <2>1. Call(t, c)
    BY <1>4 DEF Garble
  <2>2. /\ d \in CallType /\ CallShaped(t, d)
        /\ t \in Talkers => CallFits(turn[t].at, d.at)
        /\ d.at = "flush" /\ d.work = Tail(call[t].work)
        /\ d.still = Append(call[t].still, Head(call[t].work))
        /\ Kept(d) = Kept(call[t])
    BY <1>1, <1>4, DegradedIs DEF Flushes
  <2>3. /\ call[t].work \in Seq(Records) /\ call[t].still \in Seq(Records)
        /\ call[t].work # <<>> /\ t \in Talkers
    BY <1>4, OfThread DEF CallType, CallShaped, Threads
  <2>4. CallClean(call[t])
    BY <1>1, <2>3 DEF MemoryInv, TakenOnce
  <2> HIDE DEF d
  <2>5. /\ c = [at |-> d.at, todo |-> d.todo, work |-> d.work,
                still |-> [d.still EXCEPT ![Len(call[t].still) + 1] = "unsure"],
                asked |-> d.asked, callbacks |-> d.callbacks]
        /\ c.at = "flush" /\ c.work = d.work /\ c.todo = d.todo /\ c.asked = d.asked
        /\ c.still = [d.still EXCEPT ![Len(call[t].still) + 1] = "unsure"]
    <3> DEFINE s == [d.still EXCEPT ![Len(call[t].still) + 1] = "unsure"]
    <3>1. d \in CallType /\ d.at = "flush"
      BY <2>2
    <3>2. c = [d EXCEPT !.still = s]
      OBVIOUS
    <3> HIDE DEF s, c
    <3>3. c = [at |-> d.at, todo |-> d.todo, work |-> d.work, still |-> s,
               asked |-> d.asked, callbacks |-> d.callbacks]
      BY <3>1, <3>2, StillReplaced
    <3>4. c.at = "flush" /\ c.work = d.work /\ c.todo = d.todo /\ c.asked = d.asked /\ c.still = s
      BY <3>1, <3>3
    <3>5. QED
      BY <3>3, <3>4 DEF s
  <2> HIDE DEF c
  <2>6. [Append(call[t].still, Head(call[t].work)) EXCEPT ![Len(call[t].still) + 1] = "unsure"]
          = Append(call[t].still, "unsure")
    <3>1. Head(call[t].work) \in Records /\ "unsure" \in Records
      BY <2>3 DEF Records
    <3>2. QED
      BY <2>3, <3>1, LastReplaced
  <2>7. c.still = Append(call[t].still, "unsure") /\ c.still \in Seq(Records)
    BY <2>2, <2>3, <2>5, <2>6 DEF Records
  <2>8. Len(c.still) = Len(d.still)
    BY <2>2, <2>3, <2>7
  <2>9. Kept(c) = Kept(call[t])
    BY <2>2, <2>5, <2>8, Zenon DEF Kept
  <2>10. c \in CallType
    BY <2>2, <2>5, <2>7 DEF CallType
  <2>11. CallShaped(t, c)
    BY <2>2, <2>5, <2>9 DEF CallShaped
  <2>12. CallFits(turn[t].at, c.at)
    BY <2>2, <2>3, <2>5
  <2>13. Untaken(Append(call[t].still, "unsure")) /\ Untaken(Tail(call[t].work))
    BY <2>3, <2>4, UntakenMoves DEF CallClean, Records
  <2>14. CallClean(c)
    <3>1. c.still = Append(call[t].still, "unsure") /\ c.work = Tail(call[t].work)
      BY <2>2, <2>5, <2>7
    <3>2. Untaken(c.still) /\ Untaken(c.work)
      BY <2>13, <3>1
    <3>3. QED
      BY <3>2 DEF CallClean, Untaken
  <2>15. owed' = owed + (Kept(c) - Kept(call[t]))
    BY <1>2, <2>9, OfThread DEF books
  <2>16. Flushes(t) /\ {pipe, pipe'} \subseteq {t, Nobody} /\ pipe' # t
    BY <1>1, <1>4, OfThread, ThreadsAre DEF Flushes
  <2>17. QED
    BY <1>1, <1>2, <2>1, <2>5, <2>10, <2>11, <2>12, <2>14, <2>15, <2>16, MemoryMove DEF books
<1>5. QED
  BY <1>3, <1>4

\* A call begins with nothing in hand.
LEMMA NewCall ==
  /\ NoCall \in CallType
  /\ \A at \in {"recall", "dreaming"}, n \in 0..2 :
       LET c == [NoCall EXCEPT !.at = at]
           d == [NoCall EXCEPT !.at = "record", !.todo = n]
       IN  /\ c \in CallType /\ c.at = at /\ c.work = <<>> /\ c.still = <<>> /\ ~c.asked
           /\ d \in CallType /\ d.at = "record" /\ d.todo = n
           /\ d.work = <<>> /\ d.still = <<>> /\ ~d.asked
<1>1. /\ NoCall \in CallType
      /\ NoCall.work = <<>> /\ NoCall.still = <<>> /\ ~NoCall.asked
  BY ThreadsAre DEF NoCall, CallType
<1>2. QED
  BY <1>1 DEF CallType

\* A dream has the conversation from its request on.
LEMMA DreamStep ==
  ASSUME MemoryInv, UNCHANGED turn, Dream
  PROVE  MemoryInv'
<1> DEFINE t == Dreamer
           c == [NoCall EXCEPT !.at = "dreaming"]
<1>1. /\ t \in Threads /\ t \notin Talkers /\ Call(t, c)
      /\ call[t].at = "none" /\ pipe = Nobody /\ sidecar = "up" /\ pipe' = t
      /\ UNCHANGED <<sidecar, guard, forge, pending, books, faults>>
  BY ThreadsAre DEF Dream
<1>2. c \in CallType /\ CallShaped(t, c) /\ c.at = "dreaming" /\ CallClean(c)
  <2>2. /\ c \in CallType /\ c.at = "dreaming" /\ c.work = <<>> /\ c.still = <<>> /\ ~c.asked
    BY NewCall
  <2> HIDE DEF c
  <2>3. QED
    BY <2>2, ThreadsAre DEF CallShaped, Kept, CallClean, Untaken
<1>3. ~Flushes(t)
  BY <1>1 DEF Flushes
<1> HIDE DEF c, t
<1>4. QED
  BY <1>1, <1>2, <1>3, MemoryMove, OfThread DEF books

LEMMA DieStep ==
  ASSUME MemoryInv, UNCHANGED turn, Die
  PROVE  MemoryInv'
<1>1. UNCHANGED <<pipe, guard, forge, pending, call, owed, doubled, turn>> /\ sidecar' = "dead"
  BY DEF Die, books
<1>2. faults' \in 0..MaxFaults
  BY ThreadsAre DEF MemoryInv, MemoryTypeOK, Die, Fault
<1>3. MemoryTypeOK'
  BY <1>1, <1>2 DEF MemoryInv, MemoryTypeOK
<1>4. LocksHeld' /\ CallsShaped'
  BY <1>1 DEF MemoryInv, LocksHeld, CallsShaped, Flushes, Waits
<1>5. RecordsKept' /\ TakenOnce'
  BY <1>1 DEF MemoryInv, RecordsKept, TakenOnce
<1>6. QED
  BY <1>3, <1>4, <1>5 DEF MemoryInv

\* The buffer with one more.
LEMMA BufferedIs ==
  ASSUME MemoryInv
  PROVE  /\ Buffered \in Seq(Records) /\ Len(Buffered) \in 1..MaxPending
         /\ Untaken(pending) => Untaken(Buffered)
<1> DEFINE all == Append(pending, "new")
<1>1. pending \in Seq(Records) /\ Len(pending) \in Nat /\ Len(pending) <= MaxPending
  BY DEF MemoryInv, MemoryTypeOK
<1>2. /\ all \in Seq(Records) /\ Len(all) = Len(pending) + 1 /\ all # <<>>
      /\ Untaken(pending) => Untaken(all)
  BY <1>1, UntakenMoves, AppendProperties DEF Records
<1> HIDE DEF all
<1>3. /\ Tail(all) \in Seq(Records) /\ Len(Tail(all)) = Len(all) - 1
      /\ Untaken(all) => Untaken(Tail(all))
  BY <1>2, UntakenMoves DEF Records
<1>4. Buffered = IF Len(all) > MaxPending THEN Tail(all) ELSE all
  BY DEF Buffered, all
<1>5. CASE Len(all) > MaxPending
  BY <1>1, <1>2, <1>3, <1>4, <1>5, ThreadsAre
<1>6. CASE ~(Len(all) > MaxPending)
  BY <1>1, <1>2, <1>4, <1>6, ThreadsAre
<1>7. QED
  BY <1>5, <1>6

\* record: the buffer takes one more, and its holder tries all of it.
LEMMA OpenBufferStep ==
  ASSUME MemoryInv, UNCHANGED turn, NEW t \in Threads, OpenBuffer(t)
  PROVE  MemoryInv'
<1> DEFINE c == [call[t] EXCEPT !.at = "flush", !.todo = @ - 1, !.work = Buffered]
<1>1. /\ call[t].at = "record" /\ guard = Nobody /\ guard' = t /\ pending' = Buffered
      /\ Call(t, c) /\ doubled' = doubled
      /\ owed' = owed + Len(Buffered) - Len(pending)
      /\ UNCHANGED <<sidecar, pipe, forge, faults>>
  BY DEF OpenBuffer, Record, Owe
<1>2. /\ t \in Talkers /\ call[t].todo # 0 /\ call[t].todo \in 0..2 /\ ~call[t].asked
      /\ call[t].still = <<>>
  BY <1>1, OfThread DEF CallShaped, CallType, Threads
<1>4. c \in CallType /\ c.at = "flush" /\ c.work = Buffered /\ c.still = <<>> /\ ~c.asked
  <2> DEFINE less == call[t].todo - 1
             d == [call[t] EXCEPT !.at = "flush", !.todo = less, !.work = Buffered]
  <2>1. call[t] \in CallType /\ Buffered \in Seq(Records) /\ less \in 0..2
    BY <1>2, OfThread, BufferedIs
  <2> HIDE DEF less
  <2>2. /\ d \in CallType /\ d.at = "flush" /\ d.work = Buffered
        /\ d.still = call[t].still /\ d.asked = call[t].asked
    BY <2>1 DEF CallType
  <2>3. c = d
    BY DEF less
  <2>4. QED
    BY <1>2, <2>2, <2>3
<1> HIDE DEF c
<1>5. Kept(c) = Len(Buffered) /\ Len(Buffered) \in 1..MaxPending
  <2>1. Len(Buffered) \in 1..MaxPending /\ Len(<<>>) = 0
    BY BufferedIs
  <2> DEFINE n == Len(Buffered)
  <2> HIDE DEF n
  <2>2. n \in 1..MaxPending => n + 0 = n
    BY ThreadsAre
  <2>3. QED
    BY <1>4, <2>1, <2>2 DEF n, Kept
<1>6. CallShaped(t, c) /\ CallFits(turn[t].at, c.at)
  BY <1>1, <1>2, <1>4, <1>5, OfThread, ThreadsAre DEF CallShaped, CallFits
<1>7. /\ call' \in [Threads -> CallType] /\ call'[t] = c
      /\ \A u \in Threads \ {t} : call'[u] = call[u]
      /\ CallsShaped'
  BY <1>1, <1>4, <1>6, CallMoves
<1>8. LocksHeld'
  BY <1>1, <1>2, <1>4, <1>7, ThreadsAre DEF MemoryInv, LocksHeld, Flushes, Waits
<1>9. owed' = Len(Buffered)
  <2>1. owed = Len(pending) /\ Len(pending) \in Nat /\ Len(Buffered) \in Nat
    BY <1>1, <1>5, ThreadsAre DEF MemoryInv, RecordsKept, MemoryTypeOK
  <2>2. QED
    BY <1>1, <2>1
<1>10. RecordsKept'
  BY <1>1, <1>2, <1>5, <1>7, <1>9, ThreadsAre DEF RecordsKept, Kept
<1>11. TakenOnce'
  <2>1. ASSUME sidecar = "up"
        PROVE  Untaken(Buffered) /\ CallClean(c)
    <3>1. Untaken(Buffered)
      BY <2>1, BufferedIs DEF MemoryInv, TakenOnce
    <3>2. QED
      BY <1>4, <3>1 DEF CallClean, Untaken
  <2>2. ASSUME sidecar = "up", NEW u \in Talkers
        PROVE  CallClean(call'[u])
    <3>1. CallClean(call[u])
      BY <2>2 DEF MemoryInv, TakenOnce
    <3>2. QED
      BY <1>7, <2>1, <2>2, <3>1, ThreadsAre
  <2>3. QED
    BY <1>1, <2>1, <2>2 DEF MemoryInv, TakenOnce
<1>12. MemoryTypeOK'
  <2>1. owed' \in Nat /\ pending' \in Seq(Records) /\ Len(pending') <= MaxPending
    BY <1>1, <1>5, <1>9, BufferedIs, ThreadsAre
  <2>2. QED
    BY <1>1, <1>2, <1>7, <2>1 DEF MemoryInv, MemoryTypeOK, CallType
<1>13. QED
  BY <1>7, <1>8, <1>10, <1>11, <1>12 DEF MemoryInv

\* The buffer is what its holder could not send.
LEMMA CloseBufferStep ==
  ASSUME MemoryInv, UNCHANGED turn, NEW t \in Threads, CloseBuffer(t)
  PROVE  MemoryInv'
<1> DEFINE c == IF call[t].todo = 0 THEN NoCall ELSE [call[t] EXCEPT !.at = "record", !.still = <<>>]
<1>1. /\ call[t].at = "flush" /\ call[t].work = <<>> /\ guard' = Nobody
      /\ pending' = call[t].still /\ Call(t, c)
      /\ UNCHANGED <<sidecar, pipe, forge, owed, doubled, faults>>
  BY DEF CloseBuffer, books
<1>2. t \in Talkers /\ ~call[t].asked /\ guard = t
  BY <1>1, OfThread DEF CallShaped, Flushes, Threads
<1>3. /\ c \in CallType /\ c.at \in {"none", "record"} /\ (c.at = "record" => c.todo # 0)
      /\ c.work = <<>> /\ c.still = <<>> /\ ~c.asked
  <2>1. call[t] \in CallType
    BY OfThread
  <2>2. CASE call[t].todo = 0
    BY <2>2, ThreadsAre DEF NoCall, CallType
  <2>3. CASE call[t].todo # 0
    <3>1. c = [at |-> "record", todo |-> call[t].todo, work |-> <<>>, still |-> <<>>,
               asked |-> FALSE, callbacks |-> call[t].callbacks]
      BY <1>1, <1>2, <2>1, <2>3 DEF CallType
    <3>2. QED
      BY <2>1, <2>3, <3>1 DEF CallType
  <2>4. QED
    BY <2>2, <2>3
<1> HIDE DEF c
<1>4. CallShaped(t, c) /\ CallFits(turn[t].at, c.at)
  BY <1>1, <1>2, <1>3, OfThread, ThreadsAre DEF CallShaped, CallFits, Kept
<1>5. /\ call' \in [Threads -> CallType] /\ call'[t] = c
      /\ \A u \in Threads \ {t} : call'[u] = call[u]
      /\ CallsShaped'
  BY <1>1, <1>3, <1>4, CallMoves
<1>6. LocksHeld'
  BY <1>1, <1>2, <1>3, <1>5, ThreadsAre DEF MemoryInv, LocksHeld, Flushes, Waits
<1>7. owed = Len(call[t].still) /\ Len(call[t].still) <= MaxPending
  <2>1. /\ Len(call[t].still) \in Nat /\ Len(call[t].work) = 0 /\ Kept(call[t]) <= MaxPending
        /\ owed = Kept(call[t])
    <3>1. call[t].still \in Seq(Records) /\ Kept(call[t]) <= MaxPending
      BY OfThread DEF CallType, CallShaped
    <3>2. owed = Kept(call[t])
      BY <1>2, ThreadsAre DEF MemoryInv, RecordsKept, Kept
    <3>3. QED
      BY <1>1, <3>1, <3>2
  <2> DEFINE n == Len(call[t].still)
             k == Len(call[t].work)
  <2> HIDE DEF n, k
  <2>2. n \in Nat /\ k = 0 /\ k + n <= MaxPending /\ owed = k + n
    BY <2>1 DEF n, k, Kept
  <2>3. owed = n /\ n <= MaxPending
    BY <2>2
  <2>4. QED
    BY <2>3 DEF n
<1>8. RecordsKept'
  BY <1>1, <1>7 DEF RecordsKept
<1>9. TakenOnce'
  <2>1. ASSUME sidecar = "up", NEW u \in Talkers
        PROVE  Untaken(call[t].still) /\ CallClean(call'[u])
    <3>1. CallClean(call[u]) /\ CallClean(call[t])
      BY <1>2, <2>1 DEF MemoryInv, TakenOnce
    <3>2. CallClean(c)
      BY <1>3 DEF CallClean, Untaken
    <3>3. QED
      BY <1>5, <3>1, <3>2, ThreadsAre DEF CallClean
  <2>2. QED
    BY <1>1, <1>2, <2>1 DEF MemoryInv, TakenOnce
<1>10. MemoryTypeOK'
  <2>1. call[t].still \in Seq(Records)
    BY OfThread DEF CallType
  <2>2. QED
    BY <1>1, <1>5, <1>7, <2>1 DEF MemoryInv, MemoryTypeOK, CallType
<1>11. QED
  BY <1>5, <1>6, <1>8, <1>9, <1>10 DEF MemoryInv

LEMMA MemoryStep ==
  ASSUME MemoryInv, UNCHANGED turn, MemoryNext
  PROVE  MemoryInv'
<1>1. ASSUME NEW t \in Threads, Host(t)
      PROVE  MemoryInv'
  BY <1>1, AskStep, BusyStep, CallBackStep, OpenBufferStep, CloseBufferStep DEF Host
<1>2. ASSUME NEW t \in Threads, Sidecar(t)
      PROVE  MemoryInv'
  BY <1>2, LandStep, CallBackStep, ReplyStep, RefuseStep, GarbleStep, KillStep DEF Sidecar
<1>3. QED
  BY <1>1, <1>2, DieStep, DreamStep DEF MemoryNext

-----------------------------------------------------------------------------
(* Turns, the schedule and the process. *)

TurnType ==
  [at : {"away", "boundary", "step", "over"},
   step : 0..MaxSteps, end : {"none", "reply", "error"}]

\* The turn of one talker changes, with its call or with the lock of the compiler.
LEMMA TurnMove ==
  ASSUME MemoryInv, turn \in [Talkers -> TurnType], NEW t \in Talkers, NEW x \in TurnType,
         NEW c \in CallType, turn' = [turn EXCEPT ![t] = x], call' = [call EXCEPT ![t] = c],
         UNCHANGED <<sidecar, pipe, guard, pending, books>>, faults' \in 0..MaxFaults,
         CallShaped(t, c), CallFits(x.at, c.at),
         c = call[t] \/ (call[t].at = "none" /\ c.at \in {"none", "recall", "record"}),
         \/ forge' = forge /\ (x.at = "step" <=> turn[t].at = "step")
         \/ forge = Nobody /\ forge' = t /\ x.at = "step"
         \/ forge = t /\ forge' = Nobody /\ x.at # "step"
  PROVE  MemoryInv' /\ turn' \in [Talkers -> TurnType] /\ turn'[t] = x
<1>1. t \in Threads /\ t # Nobody
  BY ThreadsAre
<1>2. /\ call' \in [Threads -> CallType] /\ call'[t] = c
      /\ \A u \in Threads \ {t} : call'[u] = call[u]
  BY <1>1 DEF MemoryInv, MemoryTypeOK, CallType
<1>3. /\ turn' \in [Talkers -> TurnType] /\ turn'[t] = x
      /\ \A u \in Talkers \ {t} : turn'[u] = turn[u]
  OBVIOUS
<1>4. CallsShaped'
  <2>1. \A u \in Threads : CallShaped(u, call'[u])
    BY <1>2 DEF MemoryInv, CallsShaped
  <2>2. \A u \in Talkers : CallFits(turn'[u].at, call'[u].at)
    BY <1>2, <1>3, ThreadsAre DEF MemoryInv, CallsShaped
  <2>3. QED
    BY <2>1, <2>2 DEF CallsShaped, CallShaped
<1>5. LocksHeld'
  <2>1. (c.at \in {"flush", "landing", "landed"} <=> Flushes(t))
        /\ (c.at \in {"recalling", "landing", "landed", "dreaming"} <=> Waits(t))
    BY DEF Flushes, Waits
  <2>2. \A u \in Talkers : guard' = u <=> Flushes(u)'
    BY <1>1, <1>2, <2>1, ThreadsAre DEF MemoryInv, LocksHeld, Flushes
  <2>3. \A u \in Threads : pipe' = u <=> Waits(u)'
    BY <1>1, <1>2, <2>1 DEF MemoryInv, LocksHeld, Waits
  <2>4. \A u \in Talkers : forge' = u <=> turn'[u].at = "step"
    BY <1>1, <1>3, ThreadsAre DEF MemoryInv, LocksHeld
  <2>5. QED
    BY <2>2, <2>3, <2>4 DEF LocksHeld
<1>6. RecordsKept'
  <2>1. guard \in Talkers \cup {Nobody} /\ owed' = owed /\ guard' = guard /\ pending' = pending
    BY DEF MemoryInv, MemoryTypeOK, books
  <2>2. guard # Nobody => call'[guard] = call[guard]
    BY <1>1, <1>2, <2>1, OfThread, ThreadsAre DEF Flushes
  <2>3. QED
    BY <2>1, <2>2 DEF MemoryInv, RecordsKept
<1>7. TakenOnce'
  <2>1. CallShaped(t, c) /\ c # call[t] => c.work = <<>> /\ c.still = <<>>
    BY DEF CallShaped
  <2>2. CallClean(call[t]) => CallClean(c)
    BY <2>1 DEF CallClean, Untaken
  <2>3. ASSUME sidecar = "up", NEW u \in Talkers
        PROVE  CallClean(call'[u])
    <3>1. CallClean(call[u])
      BY <2>3 DEF MemoryInv, TakenOnce
    <3>2. QED
      BY <1>2, <2>2, <3>1, ThreadsAre
  <2>4. QED
    BY <2>3 DEF MemoryInv, TakenOnce, books
<1>8. MemoryTypeOK'
  BY <1>2, ThreadsAre DEF MemoryInv, MemoryTypeOK, CallType, books
<1>9. QED
  BY <1>3, <1>4, <1>5, <1>6, <1>7, <1>8 DEF MemoryInv

\* Nobody is at anything.
Rest ==
  /\ sidecar \in {"up", "dead"}
  /\ pipe = Nobody /\ guard = Nobody /\ forge = Nobody
  /\ pending = <<>> /\ owed = 0 /\ ~doubled /\ doubled \in BOOLEAN /\ faults \in 0..MaxFaults
  /\ call = [t \in Threads |-> NoCall]
  /\ turn = [t \in Talkers |-> NoTurn]

LEMMA RestNow == Rest => MemoryInv
<1> SUFFICES ASSUME Rest
             PROVE  MemoryInv
  OBVIOUS
<1>1. NoCall \in CallType /\ Talkers \subseteq Threads /\ MaxPending \in Nat
  BY NewCall, ThreadsAre
<1>2. /\ NoCall.at = "none" /\ NoCall.work = <<>> /\ NoCall.still = <<>> /\ ~NoCall.asked
      /\ NoTurn.at = "away"
  BY DEF NoCall, NoTurn
<1>3. MemoryTypeOK
  <2>1. call \in [Threads -> CallType]
    BY <1>1 DEF Rest
  <2>2. pending \in Seq(Records) /\ Len(pending) <= MaxPending
    BY <1>1 DEF Rest
  <2>3. QED
    BY <2>1, <2>2 DEF Rest, MemoryTypeOK, CallType
<1>4. \A t \in Threads : call[t] = NoCall
  BY DEF Rest
<1>5. \A t \in Talkers : call[t] = NoCall /\ turn[t].at = "away"
  BY <1>1, <1>2, <1>4 DEF Rest
<1>6. LocksHeld
  BY <1>2, <1>4, <1>5, ThreadsAre DEF Rest, LocksHeld, Flushes, Waits
<1>7. CallsShaped
  <2>1. Kept(NoCall) <= MaxPending
    BY <1>1, <1>2 DEF Kept
  <2>2. QED
    BY <1>2, <1>4, <1>5, <2>1 DEF CallsShaped, CallShaped, CallFits
<1>8. RecordsKept
  BY DEF Rest, RecordsKept
<1>9. TakenOnce
  BY <1>2, <1>5 DEF Rest, TakenOnce, CallClean, Untaken
<1>10. QED
  BY <1>3, <1>6, <1>7, <1>8, <1>9 DEF MemoryInv

LEMMA RestNext == Rest' => MemoryInv'
BY RestNow, PTL

\* A host that runs a turn or a tick is up.
LEMMA BusyIsUp ==
  ASSUME IInv, NEW t \in Talkers, turn[t].at # "away" \/ todo # <<>>
  PROVE  host = "up"
BY DEF IInv, TypeOK, Down, NoTurn

\* A turn goes on, or a caller's comes to its end.
LEMMA TurnGoesOn ==
  ASSUME IInv, NEW t \in Talkers, NEW x \in TurnType, NEW c \in CallType, TurnTo(t, x),
         turn[t].at # "away", t = Scheduler => x.at # "away",
         call' = [call EXCEPT ![t] = c], UNCHANGED <<sidecar, pipe, guard, pending, books, faults>>,
         CallShaped(t, c), CallFits(x.at, c.at),
         c = call[t] \/ (call[t].at = "none" /\ c.at \in {"none", "recall", "record"}),
         \/ forge' = forge /\ (x.at = "step" <=> turn[t].at = "step")
         \/ forge = Nobody /\ forge' = t /\ x.at = "step"
         \/ forge = t /\ forge' = Nobody /\ x.at # "step"
  PROVE  IInv'
<1>1. /\ turn' = [turn EXCEPT ![t] = x]
      /\ UNCHANGED <<host, clock, entries, running, todo, puts, chats, stops, ended, wanted>>
  BY DEF TurnTo
<1>2. turn \in [Talkers -> TurnType] /\ MemoryInv /\ faults' \in 0..MaxFaults
  BY DEF IInv, TypeOK, TurnType, MemoryInv, MemoryTypeOK
<1>3. MemoryInv' /\ turn' \in [Talkers -> TurnType]
  BY <1>1, <1>2, TurnMove
<1>4. host' = "up"
  BY <1>1, BusyIsUp
<1>5. TypeOK'
  BY <1>1, <1>3, <1>4 DEF IInv, TypeOK, TurnType, MemoryInv
<1>6. TickSpaced'
  <2>1. Scheduler \in Talkers /\ (turn'[Scheduler].at = "away" <=> turn[Scheduler].at = "away")
    BY <1>1, <1>2, ThreadsAre
  <2>2. QED
    BY <1>1, <2>1 DEF IInv, TickSpaced
<1>7. OperatorsWord'
  BY <1>1 DEF IInv, OperatorsWord
<1>8. QED
  BY <1>3, <1>4, <1>5, <1>6, <1>7 DEF IInv, Down

\* The turn of a talker, in the places it can be.
LEMMA OfTurn ==
  ASSUME IInv, NEW t \in Talkers
  PROVE  /\ turn[t] \in TurnType /\ t \in Threads
         /\ call[t] \in CallType /\ CallShaped(t, call[t]) /\ CallFits(turn[t].at, call[t].at)
         /\ call = [call EXCEPT ![t] = call[t]]
         /\ forge = t <=> turn[t].at = "step"
<1>1. t \in Threads /\ MemoryInv
  BY ThreadsAre DEF IInv
<1>2. turn[t] \in TurnType /\ (forge = t <=> turn[t].at = "step")
  BY <1>1 DEF IInv, TypeOK, TurnType, MemoryInv, LocksHeld
<1>3. call = [call EXCEPT ![t] = call[t]]
  BY <1>1 DEF MemoryInv, MemoryTypeOK
<1>4. QED
  BY <1>1, <1>2, <1>3, OfThread

LEMMA StepsStep ==
  ASSUME IInv, NEW t \in Talkers, Steps(t)
  PROVE  IInv'
<1>1. CASE Boundary(t)
  <2> DEFINE x == [turn[t] EXCEPT !.at = "over", !.end = "error"]
  <2>1. x \in TurnType /\ x.at = "over"
    BY OfTurn DEF TurnType
  <2>2. TurnTo(t, x) /\ UNCHANGED memoryVars /\ turn[t].at = "boundary" /\ call[t].at = "none"
    BY <1>1 DEF Boundary
  <2> HIDE DEF x
  <2>3. CallFits(x.at, call[t].at)
    BY <2>1, <2>2 DEF CallFits
  <2>4. QED
    BY <2>1, <2>2, <2>3, OfTurn, TurnGoesOn DEF memoryVars
<1>2. CASE BeginStep(t)
  <2> DEFINE x == [turn[t] EXCEPT !.at = "step", !.step = @ + 1]
  <2>1. x \in TurnType /\ x.at = "step"
    <3>1. turn[t] \in TurnType /\ turn[t].step + 1 \in 0..MaxSteps
      BY <1>2, OfTurn, HostAssumption DEF BeginStep, TurnType
    <3>2. QED
      BY <3>1 DEF TurnType
  <2>2. /\ TurnTo(t, x) /\ turn[t].at = "boundary" /\ call[t].at = "none"
        /\ forge = Nobody /\ forge' = t
        /\ UNCHANGED <<sidecar, pipe, guard, pending, call, books, faults>>
    BY <1>2 DEF BeginStep
  <2> HIDE DEF x
  <2>3. CallFits(x.at, call[t].at)
    BY <2>1, <2>2 DEF CallFits
  <2>4. QED
    BY <2>1, <2>2, <2>3, OfTurn, TurnGoesOn
<1>3. ASSUME NEW x \in TurnType, x.at \in {"over", "boundary"}, TurnTo(t, x), EndStep(t)
      PROVE  IInv'
  <2>1. /\ turn[t].at = "step" /\ forge' = Nobody
        /\ UNCHANGED <<sidecar, pipe, guard, pending, call, books, faults>>
    BY <1>3 DEF EndStep
  <2>2. forge = t /\ CallFits(x.at, call[t].at)
    BY <1>3, <2>1, OfTurn DEF CallFits
  <2>3. QED
    BY <1>3, <2>1, <2>2, OfTurn, TurnGoesOn
<1>4. CASE EndStep(t)
  <2> DEFINE x == [turn[t] EXCEPT !.at = "over", !.end = "error"]
             y == [turn[t] EXCEPT !.at = "boundary"]
  <2>1. x \in TurnType /\ x.at = "over" /\ y \in TurnType /\ y.at = "boundary"
    BY OfTurn DEF TurnType
  <2>2. TurnTo(t, x) \/ TurnTo(t, y)
    BY <1>4 DEF EndStep
  <2> HIDE DEF x, y
  <2>3. QED
    BY <1>3, <1>4, <2>1, <2>2
<1>5. CASE AnswerStep(t)
  <2>1. PICK n \in 1..2 : Call(t, [NoCall EXCEPT !.at = "record", !.todo = n])
    BY <1>5 DEF AnswerStep
  <2> DEFINE x == [turn[t] EXCEPT !.at = "over", !.end = "reply"]
             c == [NoCall EXCEPT !.at = "record", !.todo = n]
  <2>2. x \in TurnType /\ x.at = "over"
    BY OfTurn DEF TurnType
  <2>3. /\ c \in CallType /\ c.at = "record" /\ c.todo = n
        /\ c.work = <<>> /\ c.still = <<>> /\ ~c.asked
    <3>1. n \in 0..2
      OBVIOUS
    <3>2. QED
      BY <3>1, NewCall
  <2>4. /\ TurnTo(t, x) /\ turn[t].at = "step" /\ forge' = Nobody
        /\ call' = [call EXCEPT ![t] = c]
        /\ UNCHANGED <<sidecar, pipe, guard, pending, books, faults>>
    BY <1>5, <2>1 DEF AnswerStep, Call
  <2> HIDE DEF x, c
  <2>5. CallShaped(t, c) /\ CallFits(x.at, c.at)
    BY <2>2, <2>3, ThreadsAre DEF CallShaped, CallFits, Kept
  <2>6. forge = t /\ call[t].at = "none"
    BY <2>4, OfTurn DEF CallFits
  <2>7. QED
    BY <2>2, <2>3, <2>4, <2>5, <2>6, OfTurn, TurnGoesOn
<1>6. CASE Respond(t)
  <2>1. NoTurn \in TurnType /\ NoTurn.at = "away"
    BY HostAssumption DEF NoTurn, TurnType
  <2>2. /\ TurnTo(t, NoTurn) /\ UNCHANGED memoryVars /\ turn[t].at = "over"
        /\ call[t].at = "none" /\ t # Scheduler
    BY <1>6 DEF Respond
  <2>3. CallFits(NoTurn.at, call[t].at)
    BY <2>1, <2>2 DEF CallFits
  <2>4. QED
    BY <2>1, <2>2, <2>3, OfTurn, TurnGoesOn DEF memoryVars
<1>7. QED
  BY <1>1, <1>2, <1>4, <1>5, <1>6 DEF Steps

\* A turn recalls first.
LEMMA BeginTurnStep ==
  ASSUME IInv, NEW t \in Talkers, BeginTurn(t)
  PROVE  MemoryInv' /\ turn' \in [Talkers -> TurnType]
         /\ turn'[t].at = "boundary" /\ \A u \in Talkers \ {t} : turn'[u] = turn[u]
<1> DEFINE x == [NoTurn EXCEPT !.at = "boundary"]
           c == [NoCall EXCEPT !.at = "recall"]
<1>1. x \in TurnType /\ x.at = "boundary"
  BY HostAssumption DEF NoTurn, TurnType
<1>2. c \in CallType /\ c.at = "recall" /\ c.work = <<>> /\ c.still = <<>> /\ ~c.asked
  BY NewCall
<1>3. /\ turn[t].at = "away" /\ turn' = [turn EXCEPT ![t] = x] /\ call' = [call EXCEPT ![t] = c]
      /\ UNCHANGED <<sidecar, pipe, guard, forge, pending, books, faults>>
  BY DEF BeginTurn, Recall, Call
<1> HIDE DEF x, c
<1>4. call[t].at = "none"
  BY <1>3, OfTurn DEF CallFits
<1>5. CallShaped(t, c) /\ CallFits(x.at, c.at)
  BY <1>1, <1>2, ThreadsAre DEF CallShaped, CallFits, Kept
<1>6. /\ MemoryInv /\ turn \in [Talkers -> TurnType] /\ faults' \in 0..MaxFaults
  BY <1>3 DEF IInv, TypeOK, TurnType, MemoryInv, MemoryTypeOK
<1>7. MemoryInv' /\ turn' \in [Talkers -> TurnType] /\ turn'[t] = x
  BY <1>1, <1>2, <1>3, <1>4, <1>5, <1>6, TurnMove
<1>8. QED
  BY <1>1, <1>3, <1>6, <1>7

LEMMA RunEntryStep ==
  ASSUME IInv, RunEntry
  PROVE  IInv'
<1>1. /\ todo # <<>> /\ BeginTurn(Scheduler) /\ Scheduler \in Talkers
      /\ running' = running \cup {Head(todo)}
      /\ UNCHANGED <<host, clock, entries, todo, puts, chats, stops, ended, wanted>>
  BY ThreadsAre DEF RunEntry
<1>2. MemoryInv' /\ turn' \in [Talkers -> TurnType] /\ turn'[Scheduler].at = "boundary"
  BY <1>1, BeginTurnStep
<1>3. host' = "up"
  BY <1>1, BusyIsUp
<1>4. Head(todo) \in Names
  BY <1>1 DEF IInv, TypeOK
<1>5. TypeOK'
  BY <1>1, <1>2, <1>3, <1>4 DEF IInv, TypeOK, TurnType, MemoryInv
<1>6. TickSpaced' /\ OperatorsWord'
  BY <1>1, <1>2 DEF IInv, TickSpaced, OperatorsWord
<1>7. QED
  BY <1>2, <1>3, <1>5, <1>6 DEF IInv, Down

LEMMA BeginChatStep ==
  ASSUME IInv, NEW t \in Clients, BeginChat(t)
  PROVE  IInv'
<1>1. /\ BeginTurn(t) /\ t \in Talkers /\ t # Scheduler /\ Scheduler \in Talkers /\ host = "up"
      /\ UNCHANGED <<host, clock, entries, running, todo, puts, stops, ended, wanted>>
  BY ThreadsAre DEF BeginChat, Clients
<1>2. MemoryInv' /\ turn' \in [Talkers -> TurnType] /\ turn'[Scheduler] = turn[Scheduler]
  BY <1>1, BeginTurnStep
<1>3. TypeOK'
  BY <1>1, <1>2 DEF IInv, TypeOK, TurnType, MemoryInv
<1>4. TickSpaced' /\ OperatorsWord'
  BY <1>1, <1>2 DEF IInv, TickSpaced, OperatorsWord
<1>5. QED
  BY <1>1, <1>2, <1>3, <1>4 DEF IInv, Down

\* A scheduled run is over, for the memory.
LEMMA RunEnds ==
  ASSUME IInv, turn[Scheduler].at = "over", call[Scheduler].at = "none",
         turn' = [turn EXCEPT ![Scheduler] = NoTurn], faults' \in 0..MaxFaults,
         UNCHANGED <<sidecar, pipe, guard, forge, pending, call, books>>
  PROVE  /\ MemoryInv' /\ turn' \in [Talkers -> TurnType] /\ turn'[Scheduler].at = "away"
         /\ host = "up" /\ todo # <<>> /\ todo \in Seq(Names) /\ Head(todo) \in Names
<1>1. Scheduler \in Talkers /\ NoTurn \in TurnType /\ NoTurn.at = "away"
  BY HostAssumption DEF NoTurn, TurnType
<1>2. MemoryInv /\ turn \in [Talkers -> TurnType]
  BY DEF IInv, TypeOK, TurnType
<1>3. CallFits(NoTurn.at, call[Scheduler].at) /\ call' = [call EXCEPT ![Scheduler] = call[Scheduler]]
  BY <1>1, OfTurn DEF CallFits
<1>4. MemoryInv' /\ turn' \in [Talkers -> TurnType] /\ turn'[Scheduler] = NoTurn
  BY <1>1, <1>2, <1>3, OfTurn, TurnMove
<1>5. host = "up"
  BY <1>1, BusyIsUp
<1>6. todo # <<>> /\ todo \in Seq(Names)
  BY DEF IInv, TickSpaced, TypeOK
<1>7. QED
  BY <1>1, <1>4, <1>5, <1>6

LEMMA MarkRunStep ==
  ASSUME IInv, MarkRun
  PROVE  IInv'
<1> DEFINE n == Head(todo)
<1>1. /\ turn[Scheduler].at = "over" /\ call[Scheduler].at = "none"
      /\ turn' = [turn EXCEPT ![Scheduler] = NoTurn]
      /\ UNCHANGED <<sidecar, pipe, guard, forge, pending, call, books, faults>>
      /\ UNCHANGED <<host, clock, puts, chats, stops, wanted>>
      /\ running' = running \ {n} /\ todo' = Tail(todo)
      /\ \/ /\ entries[n].there
            /\ entries' = [entries EXCEPT ![n].mark = clock]
            /\ ended' = [ended EXCEPT ![n] = clock]
         \/ UNCHANGED <<entries, ended>>
  BY DEF MarkRun, memoryVars
<1>2. faults' \in 0..MaxFaults
  BY <1>1 DEF IInv, MemoryInv, MemoryTypeOK
<1>3. /\ MemoryInv' /\ turn' \in [Talkers -> TurnType] /\ turn'[Scheduler].at = "away"
      /\ host = "up" /\ todo # <<>> /\ todo \in Seq(Names) /\ n \in Names
  BY <1>1, <1>2, RunEnds
<1>4. /\ clock \in Times /\ running \subseteq Names
      /\ entries \in [Names -> [there : BOOLEAN, mark : Times \cup {Never}]]
      /\ ended \in [Names -> Times \cup {Never}]
  BY DEF IInv, TypeOK
<1>5. /\ Tail(todo) \in Seq(Names) /\ Len(Tail(todo)) = Len(todo) - 1 /\ Len(todo) \in Nat
      /\ n = todo[1] /\ 1 \in 1..Len(todo)
      /\ \A i \in 1..Len(Tail(todo)) : Tail(todo)[i] = todo[i + 1]
  BY <1>3
<1> HIDE DEF n
<1>6. /\ entries' \in [Names -> [there : BOOLEAN, mark : Times \cup {Never}]]
      /\ ended' \in [Names -> Times \cup {Never}]
      /\ \A m \in Names : entries'[m].there = entries[m].there
      /\ \A m \in Names \ {n} : entries'[m] = entries[m] /\ ended'[m] = ended[m]
      /\ \/ ended'[n] = entries'[n].mark
         \/ ended'[n] = ended[n] /\ entries'[n] = entries[n]
  <2>1. n \in Names
    BY <1>3 DEF n
  <2>2. CASE UNCHANGED <<entries, ended>>
    BY <1>4, <2>2
  <2>3. CASE /\ entries' = [entries EXCEPT ![n].mark = clock]
             /\ ended' = [ended EXCEPT ![n] = clock]
    <3>1. entries[n] \in [there : BOOLEAN, mark : Times \cup {Never}]
      BY <1>4, <2>1
    <3>2. /\ [entries[n] EXCEPT !.mark = clock] \in [there : BOOLEAN, mark : Times \cup {Never}]
          /\ [entries[n] EXCEPT !.mark = clock].there = entries[n].there
          /\ [entries[n] EXCEPT !.mark = clock].mark = clock
      BY <1>4, <3>1
    <3>3. entries'[n] = [entries[n] EXCEPT !.mark = clock] /\ ended'[n] = clock
      BY <1>4, <2>1, <2>3
    <3>4. \A m \in Names \ {n} : entries'[m] = entries[m] /\ ended'[m] = ended[m]
      BY <1>4, <2>3
    <3>5. /\ DOMAIN entries' = Names /\ DOMAIN ended' = Names
          /\ entries' = [m \in Names |-> entries'[m]] /\ ended' = [m \in Names |-> ended'[m]]
      BY <1>4, <2>3
    <3>6. /\ \A m \in Names : entries'[m] \in [there : BOOLEAN, mark : Times \cup {Never}]
          /\ \A m \in Names : ended'[m] \in Times \cup {Never}
      BY <1>4, <3>2, <3>3, <3>4
    <3>7. QED
      BY <3>2, <3>3, <3>4, <3>5, <3>6
  <2>4. QED
    BY <1>1, <2>2, <2>3 DEF n
<1>7. TypeOK'
  BY <1>1, <1>3, <1>4, <1>5, <1>6 DEF TypeOK, TurnType, MemoryInv, IInv
<1>8. OperatorsWord'
  BY <1>1, <1>6 DEF IInv, OperatorsWord
<1>9. TickSpaced'
  <2>1. \A m \in Names : ended'[m] \in {Never, entries'[m].mark}
    BY <1>6 DEF IInv, TickSpaced
  <2>2. ASSUME NEW i \in 1..Len(Tail(todo))
        PROVE  /\ i + 1 \in 1..Len(todo) /\ Tail(todo)[i] = todo[i + 1]
               /\ todo[i + 1] # n /\ todo[i + 1] \in Names /\ i + 1 > 1
    <3>1. i + 1 \in 1..Len(todo) /\ i + 1 # 1 /\ i + 1 > 1
      BY <1>5
    <3>2. todo[i + 1] # todo[1]
      BY <1>5, <3>1 DEF IInv, TickSpaced
    <3>3. QED
      BY <1>3, <1>5, <3>1, <3>2
  <2>3. ASSUME NEW i \in 1..Len(Tail(todo)), NEW j \in 1..Len(Tail(todo)), i # j
        PROVE  Tail(todo)[i] # Tail(todo)[j]
    <3>1. i + 1 # j + 1
      BY <2>3, <1>5
    <3>2. QED
      BY <2>2, <3>1 DEF IInv, TickSpaced
  <2>4. ASSUME NEW i \in 1..Len(Tail(todo)), ended'[Tail(todo)[i]] # Never
        PROVE  clock - ended'[Tail(todo)[i]] >= Every
    <3>1. ended'[Tail(todo)[i]] = ended[todo[i + 1]]
      BY <1>6, <2>2
    <3>2. clock - ended[todo[i + 1]] >= Every
      BY <2>2, <2>4, <3>1 DEF IInv, TickSpaced
    <3>3. QED
      BY <3>1, <3>2
  <2>5. QED
    BY <1>1, <1>3, <2>1, <2>3, <2>4 DEF TickSpaced
<1>10. QED
  BY <1>1, <1>3, <1>7, <1>8, <1>9 DEF IInv, Down

LEMMA MarkFailsStep ==
  ASSUME IInv, MarkFails
  PROVE  IInv'
<1>1. /\ turn[Scheduler].at = "over" /\ call[Scheduler].at = "none"
      /\ turn' = [turn EXCEPT ![Scheduler] = NoTurn]
      /\ UNCHANGED <<sidecar, pipe, guard, forge, pending, call, books>>
      /\ UNCHANGED <<host, clock, entries, running, puts, chats, stops, wanted>>
      /\ todo' = <<>> /\ ended' = [ended EXCEPT ![Head(todo)] = Never]
  BY DEF MarkFails
<1>2. faults' \in 0..MaxFaults
  BY ThreadsAre DEF IInv, MemoryInv, MemoryTypeOK, MarkFails, Fault
<1>3. /\ MemoryInv' /\ turn' \in [Talkers -> TurnType] /\ turn'[Scheduler].at = "away"
      /\ host = "up" /\ Head(todo) \in Names
  BY <1>1, <1>2, RunEnds
<1>4. TypeOK'
  BY <1>1, <1>3 DEF TypeOK, TurnType, MemoryInv, IInv
<1>5. OperatorsWord'
  BY <1>1 DEF IInv, OperatorsWord
<1>6. TickSpaced'
  <2>1. \A m \in Names : ended'[m] \in {Never, entries'[m].mark}
    BY <1>1, <1>3 DEF IInv, TypeOK, TickSpaced
  <2>2. Len(todo') = 0 /\ 1..0 = {}
    BY <1>1
  <2>3. QED
    BY <1>3, <2>1, <2>2 DEF TickSpaced
<1>7. QED
  BY <1>1, <1>3, <1>4, <1>5, <1>6 DEF IInv, Down

\* A step that leaves the memory and the turns alone.
LEMMA MemoryRests ==
  ASSUME MemoryInv, UNCHANGED <<memoryVars, turn>>
  PROVE  MemoryInv'
<1>1. UNCHANGED <<sidecar, pipe, guard, forge, pending, call, owed, doubled, faults, turn>>
  BY DEF memoryVars, books
<1>2. MemoryTypeOK' /\ LocksHeld' /\ CallsShaped'
  BY <1>1 DEF MemoryInv, MemoryTypeOK, LocksHeld, CallsShaped, Flushes, Waits
<1>3. RecordsKept' /\ TakenOnce'
  BY <1>1 DEF MemoryInv, RecordsKept, TakenOnce
<1>4. QED
  BY <1>2, <1>3 DEF MemoryInv

LEMMA RequestsStep ==
  ASSUME IInv, NEW n \in Names, PutEntry(n) \/ RemoveEntry(n)
  PROVE  IInv'
<1>1. /\ host = "up"
      /\ UNCHANGED <<memoryVars, host, clock, running, todo, turn, chats, stops>>
      /\ \/ /\ entries' = [entries EXCEPT ![n].there = TRUE]
            /\ wanted' = wanted \cup {n} /\ ended' = ended
         \/ /\ entries' = [entries EXCEPT ![n] = NoEntry]
            /\ wanted' = wanted \ {n} /\ ended' = [ended EXCEPT ![n] = Never]
  BY DEF PutEntry, RemoveEntry
<1>2. /\ entries \in [Names -> [there : BOOLEAN, mark : Times \cup {Never}]]
      /\ ended \in [Names -> Times \cup {Never}] /\ wanted \subseteq Names
      /\ todo \in Seq(Names)
  BY DEF IInv, TypeOK
<1>3. MemoryInv'
  BY <1>1, MemoryRests DEF IInv
<1>4. /\ entries' \in [Names -> [there : BOOLEAN, mark : Times \cup {Never}]]
      /\ ended' \in [Names -> Times \cup {Never}] /\ wanted' \subseteq Names
      /\ \A m \in Names : ended'[m] \in {Never, ended[m]}
      /\ \A m \in Names \ {n} : entries'[m] = entries[m]
      /\ ended'[n] = Never \/ (ended'[n] = ended[n] /\ entries'[n].mark = entries[n].mark)
  <2>1. CASE entries' = [entries EXCEPT ![n].there = TRUE] /\ wanted' = wanted \cup {n} /\ ended' = ended
    BY <1>2, <2>1
  <2>2. CASE /\ entries' = [entries EXCEPT ![n] = NoEntry]
             /\ wanted' = wanted \ {n} /\ ended' = [ended EXCEPT ![n] = Never]
    <3>1. NoEntry \in [there : BOOLEAN, mark : Times \cup {Never}]
      BY DEF NoEntry
    <3>2. QED
      BY <1>2, <2>2, <3>1
  <2>3. QED
    BY <1>1, <2>1, <2>2
<1>5. TypeOK'
  <2>1. UNCHANGED <<pipe, guard, pending>>
    BY <1>1 DEF memoryVars
  <2>2. QED
    BY <1>1, <1>3, <1>4, <2>1 DEF IInv, TypeOK, MemoryInv
<1>6. OperatorsWord'
  BY <1>1, <1>2 DEF IInv, OperatorsWord, NoEntry
<1>7. TickSpaced'
  <2>1. \A m \in Names : ended'[m] \in {Never, entries'[m].mark}
    BY <1>4 DEF IInv, TickSpaced
  <2>2. \A i \in 1..Len(todo) : todo[i] \in Names
    BY <1>2
  <2>3. QED
    BY <1>1, <1>4, <2>1, <2>2 DEF IInv, TickSpaced
<1>8. QED
  BY <1>1, <1>3, <1>5, <1>6, <1>7 DEF IInv, Down

\* A tick: every entry that is due, each of them once.
LEMMA BeginTickStep ==
  ASSUME IInv, BeginTick
  PROVE  IInv'
<1> DEFINE due == {n \in Names : /\ entries[n].there
                                /\ DueAt(entries[n].mark, clock)
                                /\ n \notin running}
<1>1. /\ host = "up" /\ todo = <<>> /\ todo' \in InOrder(due)
      /\ UNCHANGED <<memoryVars, host, clock, entries, running, turn, puts, chats, stops, ended, wanted>>
  BY DEF BeginTick
<1>2. Cardinality(due) \in Nat /\ due \subseteq Names
  BY HostAssumption, FS_Subset, FS_CardinalityType
<1>3. \A n \in due : n \in Names /\ DueAt(entries[n].mark, clock)
  OBVIOUS
<1> HIDE DEF due
<1>4. /\ todo' \in [1..Cardinality(due) -> due]
      /\ \A i, j \in 1..Cardinality(due) : i # j => todo'[i] # todo'[j]
  BY <1>1 DEF InOrder, SetToSeqs
<1>5. todo' \in Seq(due) /\ Len(todo') = Cardinality(due)
  BY <1>2, <1>4
<1>6. todo' \in Seq(Names)
  BY <1>2, <1>4, <1>5
<1>7. MemoryInv'
  BY <1>1, MemoryRests DEF IInv
<1>8. TypeOK'
  <2>1. UNCHANGED <<pipe, guard, pending>>
    BY <1>1 DEF memoryVars
  <2>2. QED
    BY <1>1, <1>6, <1>7, <2>1 DEF IInv, TypeOK, MemoryInv
<1>9. OperatorsWord'
  BY <1>1 DEF IInv, OperatorsWord
<1>10. TickSpaced'
  <2>1. turn'[Scheduler].at = "away" /\ \A m \in Names : ended'[m] \in {Never, entries'[m].mark}
    BY <1>1 DEF IInv, TickSpaced
  <2>2. ASSUME NEW i \in 1..Len(todo'), ended'[todo'[i]] # Never
        PROVE  clock' - ended'[todo'[i]] >= Every
    <3>1. todo'[i] \in due
      BY <1>4, <1>5
    <3>2. DueAt(entries[todo'[i]].mark, clock) /\ ended'[todo'[i]] = entries[todo'[i]].mark
      BY <1>1, <1>3, <2>1, <2>2, <3>1
    <3>3. QED
      BY <1>1, <2>2, <3>2 DEF DueAt
  <2>3. QED
    BY <1>4, <1>5, <2>1, <2>2 DEF TickSpaced
<1>11. QED
  BY <1>1, <1>7, <1>8, <1>9, <1>10 DEF IInv, Down

LEMMA TickStep ==
  ASSUME IInv, Tick
  PROVE  IInv'
<1>1. /\ clock < MaxNow /\ clock' = clock + 1 /\ clock \in Times
      /\ UNCHANGED <<memoryVars, host, entries, running, todo, turn, puts, chats, stops, ended, wanted>>
  BY DEF Tick, IInv, TypeOK
<1>2. MemoryInv'
  BY <1>1, MemoryRests DEF IInv
<1>3. clock' \in Times /\ MaxNow \in Nat /\ clock \in Nat
  BY <1>1, HostAssumption DEF Times
<1>4. UNCHANGED <<sidecar, pipe, guard, forge, pending, owed, call>>
  BY <1>1 DEF memoryVars, books
<1>5. TypeOK'
  BY <1>1, <1>2, <1>3, <1>4 DEF IInv, TypeOK, MemoryInv
<1>6. Down' /\ OperatorsWord'
  BY <1>1, <1>4 DEF IInv, Down, OperatorsWord
<1>7. TickSpaced'
  <2>1. ASSUME NEW i \in 1..Len(todo), i > 1 \/ turn[Scheduler].at = "away", ended[todo[i]] # Never
        PROVE  clock' - ended[todo[i]] >= Every
    <3>1. clock - ended[todo[i]] >= Every
      BY <2>1 DEF IInv, TickSpaced
    <3>2. todo[i] \in Names /\ ended[todo[i]] \in Times \cup {Never}
      BY DEF IInv, TypeOK
    <3>3. ended[todo[i]] \in Int /\ Every \in Int
      BY <3>2, HostAssumption DEF Times, Never
    <3>4. QED
      BY <1>1, <1>3, <3>1, <3>3
  <2>2. QED
    BY <1>1, <2>1 DEF IInv, TickSpaced
<1>8. QED
  BY <1>2, <1>5, <1>6, <1>7 DEF IInv

\* The process ends: nobody holds anything, and what was in the buffer is lost.
LEMMA StopStep ==
  ASSUME IInv, Stop
  PROVE  IInv'
<1>1. /\ host' = "down" /\ sidecar' = "dead" /\ pipe' = Nobody /\ guard' = Nobody
      /\ forge' = Nobody /\ owed' = 0 /\ doubled' = doubled /\ pending' = <<>>
      /\ call' = [t \in Threads |-> NoCall] /\ running' = {} /\ todo' = <<>>
      /\ turn' = [t \in Talkers |-> NoTurn]
      /\ UNCHANGED <<faults, clock, entries, puts, chats, ended, wanted>>
  BY DEF Stop, Owe
<1>2. MemoryInv'
  BY <1>1, RestNext DEF Rest, IInv, MemoryInv, MemoryTypeOK, TakenOnce
<1>3. TypeOK'
  <2>1. <<>> \in Seq(Names) /\ NoTurn \in TurnType
    BY HostAssumption DEF NoTurn, TurnType
  <2>2. QED
    BY <1>1, <1>2, <2>1 DEF IInv, TypeOK, MemoryInv, TurnType
<1>4. Down' /\ OperatorsWord'
  BY <1>1 DEF IInv, Down, OperatorsWord
<1>5. TickSpaced'
  <2>1. Len(todo') = 0 /\ 1..0 = {} /\ turn'[Scheduler].at = "away"
    BY <1>1, ThreadsAre DEF NoTurn
  <2>2. QED
    BY <1>1, <2>1 DEF IInv, TickSpaced
<1>6. QED
  BY <1>2, <1>3, <1>4, <1>5 DEF IInv

LEMMA StartStep ==
  ASSUME IInv, Start
  PROVE  IInv'
<1>1. /\ host = "down" /\ host' = "up" /\ sidecar' = "up"
      /\ UNCHANGED <<pipe, guard, forge, pending, call, books, faults,
                     clock, entries, running, todo, turn, puts, chats, stops, ended, wanted>>
  BY DEF Start, StateFree
<1>2. /\ pipe' = Nobody /\ guard' = Nobody /\ forge' = Nobody /\ pending' = <<>> /\ owed' = 0
      /\ call' = [t \in Threads |-> NoCall] /\ turn' = [t \in Talkers |-> NoTurn]
      /\ ~doubled' /\ doubled' \in BOOLEAN /\ faults' \in 0..MaxFaults
  BY <1>1 DEF IInv, Down, MemoryInv, TakenOnce, MemoryTypeOK, books
<1>3. MemoryInv'
  BY <1>1, <1>2, RestNext DEF Rest
<1>4. TypeOK'
  BY <1>1, <1>3 DEF IInv, TypeOK, MemoryInv
<1>5. Down' /\ OperatorsWord' /\ TickSpaced'
  BY <1>1 DEF IInv, Down, OperatorsWord, TickSpaced
<1>6. QED
  BY <1>3, <1>4, <1>5 DEF IInv

LEMMA MemoryOfHostStep ==
  ASSUME IInv, Memory
  PROVE  IInv'
<1>1. /\ host = "up" /\ MemoryNext
      /\ UNCHANGED <<host, clock, entries, running, todo, turn, puts, chats, stops, ended, wanted>>
  BY DEF Memory, hostVars
<1>2. MemoryInv'
  BY <1>1, MemoryStep DEF IInv
<1>3. TypeOK'
  BY <1>1, <1>2 DEF IInv, TypeOK, MemoryInv
<1>4. Down' /\ OperatorsWord' /\ TickSpaced'
  BY <1>1 DEF IInv, Down, OperatorsWord, TickSpaced
<1>5. QED
  BY <1>2, <1>3, <1>4 DEF IInv

LEMMA InvInit == Init => IInv
<1> SUFFICES ASSUME Init
             PROVE  IInv
  OBVIOUS
<1>1. MemoryInv
  <2>1. doubled = FALSE => ~doubled /\ doubled \in BOOLEAN
    BY Zenon
  <2>2. faults = 0 => faults \in 0..MaxFaults
    BY ThreadsAre
  <2>3. Rest
    BY <2>1, <2>2, Zenon DEF Rest, Init, MemoryInit
  <2>4. QED
    BY <2>3, RestNow
<1>2. <<>> \in Seq(Names) /\ NoTurn \in TurnType /\ 0 \in Times
  BY HostAssumption DEF NoTurn, TurnType, Times
<1>3. TypeOK
  BY <1>1, <1>2 DEF Init, TypeOK, MemoryInv, TurnType
<1>4. Down /\ OperatorsWord
  BY DEF Init, Down, OperatorsWord
<1>5. TickSpaced
  <2>1. Len(todo) = 0 /\ 1..0 = {} /\ turn[Scheduler].at = "away"
    BY ThreadsAre DEF Init, NoTurn
  <2>2. QED
    BY <2>1 DEF Init, TickSpaced
<1>6. QED
  BY <1>1, <1>3, <1>4, <1>5 DEF IInv

LEMMA InvStep == IInv /\ [Next]_vars => IInv'
<1> SUFFICES ASSUME IInv, [Next]_vars
             PROVE  IInv'
  OBVIOUS
<1>1. CASE Requests
  BY <1>1, RequestsStep DEF Requests
<1>2. CASE Schedules \/ MarkFails
  BY <1>2, BeginTickStep, RunEntryStep, MarkRunStep, MarkFailsStep DEF Schedules
<1>3. ASSUME NEW t \in Clients, BeginChat(t)
      PROVE  IInv'
  BY <1>3, BeginChatStep
<1>4. ASSUME NEW t \in Talkers, Steps(t)
      PROVE  IInv'
  BY <1>4, StepsStep
<1>5. CASE Memory
  BY <1>5, MemoryOfHostStep
<1>6. CASE Stop \/ Start \/ Tick
  BY <1>6, StopStep, StartStep, TickStep
<1>7. CASE UNCHANGED vars
  <2>1. /\ UNCHANGED <<memoryVars, turn>>
        /\ UNCHANGED <<host, clock, entries, running, todo, turn, puts, chats, stops, ended, wanted>>
    BY <1>7 DEF vars, hostVars
  <2>2. UNCHANGED <<sidecar, pipe, guard, forge, pending, owed, call>>
    BY <2>1 DEF memoryVars, books
  <2>3. MemoryInv'
    BY <2>1, MemoryRests DEF IInv
  <2>4. TypeOK'
    BY <2>1, <2>2, <2>3 DEF IInv, TypeOK, MemoryInv
  <2>5. Down' /\ OperatorsWord' /\ TickSpaced'
    BY <2>1, <2>2 DEF IInv, Down, OperatorsWord, TickSpaced
  <2>6. QED
    BY <2>3, <2>4, <2>5 DEF IInv
<1>8. QED
  BY <1>1, <1>2, <1>3, <1>4, <1>5, <1>6, <1>7 DEF Next

-----------------------------------------------------------------------------
(* The theorems. *)

LEMMA InvHolds == Spec => []IInv
BY InvInit, InvStep, PTL DEF Spec

\* TYPE CORRECTNESS of the memory's client and of the host.
THEOREM HostTypes == Spec => []TypeOK
<1>1. IInv => TypeOK
  BY DEF IInv
<1>2. QED
  BY <1>1, InvHolds, PTL

\* RECORDS: with any number of turns on the buffer, of deaths, kills and garbled lines, what is
\* owed is what the buffer or its holder has in hand, and no record is taken twice for which
\* the sidecar had a reply to give.
THEOREM RecordsAreExact == Spec => []RecordsExact
<1>1. IInv => RecordsExact
  BY DEF IInv, MemoryInv, TakenOnce, RecordsExact
<1>2. QED
  BY <1>1, InvHolds, PTL

\* OPERATOR: a tick that read the schedule file before brings no removed entry back, and
\* loses none that was put.
THEOREM OperatorsWordKept == Spec => []OperatorsWord
<1>1. IInv => OperatorsWord
  BY DEF IInv
<1>2. QED
  BY <1>1, InvHolds, PTL

\* Only the thread of the ticks adds a name to those that are running, the next it is to run.
LEMMA RunsNext ==
  ASSUME IInv, [Next]_vars, NEW n \in running' \ running
  PROVE  /\ todo # <<>> /\ n = Head(todo) /\ turn[Scheduler].at = "away"
<1>1. CASE RunEntry
  BY <1>1 DEF RunEntry, BeginTurn
<1>2. CASE MarkRun \/ Stop
  BY <1>2 DEF MarkRun, Stop
<1>3. CASE UNCHANGED running
  BY <1>3
<1>4. RunEntry \/ MarkRun \/ Stop \/ UNCHANGED running
  <2>1. CASE Requests
    BY <2>1 DEF Requests, PutEntry, RemoveEntry
  <2>2. CASE Schedules \/ MarkFails
    BY <2>2 DEF Schedules, BeginTick, MarkFails
  <2>3. ASSUME NEW t \in Clients, BeginChat(t)
        PROVE  UNCHANGED running
    BY <2>3 DEF BeginChat
  <2>4. ASSUME NEW t \in Talkers, Steps(t)
        PROVE  UNCHANGED running
    BY <2>4 DEF Steps, Boundary, BeginStep, EndStep, AnswerStep, Respond, TurnTo
  <2>5. CASE Memory
    BY <2>5 DEF Memory, hostVars
  <2>6. CASE Start \/ Tick
    BY <2>6 DEF Start, Tick
  <2>7. CASE UNCHANGED vars
    BY <2>7 DEF vars, hostVars
  <2>8. QED
    BY <2>1, <2>2, <2>3, <2>4, <2>5, <2>6, <2>7 DEF Next
<1>5. QED
  BY <1>1, <1>2, <1>3, <1>4

LEMMA SpacedStep ==
  IInv /\ [Next]_vars => \A n \in running' \ running : ended[n] # Never => clock - ended[n] >= Every
<1> SUFFICES ASSUME IInv, [Next]_vars, NEW n \in running' \ running, ended[n] # Never
             PROVE  clock - ended[n] >= Every
  OBVIOUS
<1>1. todo # <<>> /\ n = Head(todo) /\ turn[Scheduler].at = "away"
  BY RunsNext
<1>2. todo \in Seq(Names)
  BY DEF IInv, TypeOK
<1>3. n = todo[1] /\ 1 \in 1..Len(todo)
  BY <1>1, <1>2
<1>4. QED
  BY <1>1, <1>3 DEF IInv, TickSpaced

\* SPACING: whatever is put, removed and run in between, however long a tick takes, and across
\* restarts, an entry that was marked runs again no sooner than its interval later.
THEOREM RunsAreSpaced == Spec => RunsSpaced
<1>1. IInv /\ [Next]_vars
        => [\A n \in running' \ running : ended[n] # Never => clock - ended[n] >= Every]_vars
  BY SpacedStep
<1>2. QED
  BY <1>1, InvHolds, PTL DEF Spec, RunsSpaced

\* The locks are taken in one order: that of the buffer, of the conversation, of the compiler.
LEMMA LocksInOrder ==
  ASSUME IInv, NEW t \in Threads, NEW lock \in 1..3, NEW held \in 1..3,
         Wants(t, lock), Holds(t, held)
  PROVE  held < lock
<1>1. /\ MemoryInv /\ t # Nobody /\ CallShaped(t, call[t])
      /\ pipe = t <=> Waits(t)
      /\ guard = t <=> Flushes(t)
  BY OfThread, ThreadsAre DEF IInv
<1>2. forge = t => t \in Talkers /\ turn[t].at = "step" /\ call[t].at = "none"
  BY <1>1, OfTurn DEF MemoryInv, MemoryTypeOK, CallFits
<1>3. held \in {1, 2, 3} /\ lock \in {1, 2, 3}
  OBVIOUS
<1>4. /\ held = 1 => guard = t
      /\ held = 2 => pipe = t
      /\ held = 3 => forge = t
  BY DEF Holds
<1>5. CASE held = 1
  <2>1. call[t].at # "record"
    BY <1>1, <1>4, <1>5 DEF Flushes
  <2>2. lock # 1
    BY <2>1 DEF Wants
  <2>3. QED
    BY <1>3, <1>5, <2>2
<1>6. CASE held = 2
  <2>1. Waits(t)
    BY <1>1, <1>4, <1>6
  <2>2. call[t].at # "record" /\ ~Calls(t)
    BY <2>1 DEF Waits, Calls, Sending
  <2>3. lock = 3
    BY <1>3, <2>2 DEF Wants
  <2>4. QED
    BY <1>6, <2>3
<1>7. CASE held = 3
  <2>1. turn[t].at = "step" /\ call[t].at = "none"
    BY <1>2, <1>4, <1>7
  <2>2. ~Wants(t, lock)
    BY <1>1, <2>1 DEF Wants, Calls, Sending, CallShaped
  <2>3. QED
    BY <2>2
<1>8. QED
  BY <1>3, <1>5, <1>6, <1>7

LEMMA NoCircleNow == IInv => NoCircle
<1> SUFFICES ASSUME IInv, NEW W \in SUBSET Threads, W # {},
                    \A t \in W : \E u \in W : WaitsFor(t, u)
             PROVE  FALSE
  BY DEF NoCircle
<1>1. ASSUME NEW t \in W, NEW held \in 1..3, Holds(t, held)
      PROVE  \E u \in W, lock \in 1..3 : held < lock /\ Holds(u, lock)
  <2>1. PICK u \in W : WaitsFor(t, u)
    OBVIOUS
  <2>2. PICK lock \in 1..3 : Wants(t, lock) /\ Holds(u, lock)
    BY <2>1 DEF WaitsFor
  <2>3. held < lock
    BY <1>1, <2>2, LocksInOrder
  <2>4. QED
    BY <2>2, <2>3
<1>2. PICK t \in W, a \in 1..3 : Holds(t, a)
  BY DEF WaitsFor
<1>3. PICK u \in W, b \in 1..3 : a < b /\ Holds(u, b)
  BY <1>1, <1>2
<1>4. PICK v \in W, c \in 1..3 : b < c /\ Holds(v, c)
  BY <1>1, <1>3
<1>5. PICK w \in W, d \in 1..3 : c < d /\ Holds(w, d)
  BY <1>1, <1>4
<1>6. QED
  BY <1>3, <1>4, <1>5

\* LOCKS: no threads of the host, however many, wait for each other in a circle: the safety
\* part of the end of every turn.
THEOREM NobodyWaitsInCircles == Spec => []NoCircle
BY InvHolds, NoCircleNow, PTL

=============================================================================
