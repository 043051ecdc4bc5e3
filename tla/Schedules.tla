------------------------------- MODULE Schedules -------------------------------
(***************************************************************************)
(* The schedules of the product host: ProductScheduleStore, a JSON file    *)
(* whose every method is one transaction under a file lock, and            *)
(* ProductScheduler, one thread per worker that walks over a snapshot of   *)
(* the entries, leases each due one, takes the lock of its session, reads  *)
(* the entry again, runs the turn and completes the claim.                 *)
(*                                                                         *)
(* Instants are kept relative to now, so that time never runs out: the age *)
(* of the last run, what is left of a lease, how long ago a tick read its  *)
(* clock.  tick reads the clock ONCE, so every claim of a long tick is     *)
(* decided, and its lease dated, with an old instant.                      *)
(***************************************************************************)
EXTENDS Integers, FiniteSets

CONSTANTS
  Keys,       \* tenant:name
  Sessions,
  Workers,    \* scheduler processes
  Visitor,    \* whoever else holds a session lock: a chat, an export
  Nobody,
  NoKey, NoSession,
  Every,      \* every_ms
  Lease,      \* lease_s
  Deadline,   \* turn_deadline_s
  TickLimit,  \* the longest tick
  Retention,  \* retention_s
  Edits,      \* whether an entry is replaced while a worker works on it
  MaxCrashes  \* bound of the model

ASSUME TimeAssumption ==
  /\ Every \in Nat \ {0}
  /\ Lease \in Nat \ {0}
  /\ Deadline \in Nat \ {0}
  /\ TickLimit \in Nat
  /\ Deadline <= TickLimit
  /\ Deadline < Lease
  /\ Retention \in Nat
  /\ TickLimit < Retention
  /\ MaxCrashes \in Nat
  /\ Edits \in BOOLEAN

ASSUME NameAssumption ==
  /\ NoKey \notin Keys
  /\ NoSession \notin Sessions
  /\ Visitor # Nobody
  /\ {Visitor, Nobody} \cap Workers = {}

VARIABLES
  entry,    \* the JSON document
  worker,   \* the locals of each scheduler thread
  held,     \* the session operation locks
  since,    \* history: time since the last finished run of the entry
  crashes

vars == <<entry, worker, held, since, crashes>>

(* Ages stop at the value from which they no longer matter. *)
Capped(n, cap) == IF n > cap THEN cap ELSE n
Floored(n, floor) == IF n < floor THEN floor ELSE n

OldRun == Every + TickLimit    \* due for any reading of the clock
NoLease == -TickLimit          \* free for any reading of the clock

Missing == [session |-> NoSession, age |-> OldRun, left |-> NoLease,
            owner |-> Nobody, quiet |-> 0]
Entry == [session : Sessions, age : 0..OldRun, left : NoLease..Lease,
          owner : Workers \cup {Nobody}, quiet : 0..Retention]

Off == [stage |-> "resting", todo |-> {}, stale |-> 0, key |-> NoKey,
        locked |-> NoSession, runs |-> NoSession, spent |-> 0]
Worker == [stage : {"resting", "ticking", "claimed", "running", "ending"},
           todo : SUBSET Keys,
           stale : 0..TickLimit,
           key : Keys \cup {NoKey},
           locked : Sessions \cup {NoSession},
           runs : Sessions \cup {NoSession},
           spent : 0..Deadline]

\* TYPE: the entries, the workers and the locks.
TypeOK ==
  /\ entry \in [Keys -> Entry \cup {Missing}]
  /\ worker \in [Workers -> Worker]
  /\ held \in [Sessions -> Workers \cup {Visitor, Nobody}]
  /\ since \in [Keys -> 0..Every]
  /\ crashes \in 0..MaxCrashes

Present(k) == entry[k] # Missing
Working(k) == \E w \in Workers : worker[w].key = k

-----------------------------------------------------------------------------
Init ==
  /\ entry = [k \in Keys |-> Missing]
  /\ worker = [w \in Workers |-> Off]
  /\ held = [s \in Sessions |-> Nobody]
  /\ since = [k \in Keys |-> Every]
  /\ crashes = 0

(* The store. *)

\* MUTANT: put forgets the last_run of the prior entry.
PutAnew(k, s) ==
  /\ Edits \/ ~Working(k)
  /\ entry' = [entry EXCEPT ![k] = [Missing EXCEPT !.session = s]]
  /\ UNCHANGED <<worker, held, since, crashes>>

\* put: the prior entry hands down its last_run, and nothing else of a lease.
Put(k, s) ==
  /\ Edits \/ ~Working(k)
  /\ entry' = [entry EXCEPT ![k] =
       [session |-> s, age |-> @.age, left |-> NoLease, owner |-> Nobody, quiet |-> 0]]
  /\ UNCHANGED <<worker, held, since, crashes>>

Without(doomed) ==
  /\ entry' = [k \in Keys |-> IF k \in doomed THEN Missing ELSE entry[k]]
  /\ since' = [k \in Keys |-> IF k \in doomed THEN Every ELSE since[k]]

\* remove.
Remove(k) ==
  /\ Present(k)
  /\ Without({k})
  /\ UNCHANGED <<worker, held, crashes>>

\* remove_session and remove_internal, under the lock of the session.
RemoveSession(s) ==
  /\ held[s] = Nobody
  /\ \E k \in Keys : entry[k].session = s
  /\ Without({k \in Keys : entry[k].session = s})
  /\ UNCHANGED <<worker, held, crashes>>

\* remove_inactive: put, complete_claim and mark_run refresh updated_unix.
Retired ==
  {k \in Keys : Present(k) /\ entry[k].quiet >= Retention /\ entry[k].left <= 0}

RemoveInactive ==
  /\ Retired # {}
  /\ Without(Retired)
  /\ UNCHANGED <<worker, held, crashes>>

(* Session locks taken by others. *)

Visit(s) ==
  /\ held[s] = Nobody
  /\ held' = [held EXCEPT ![s] = Visitor]
  /\ UNCHANGED <<entry, worker, since, crashes>>

Leave(s) ==
  /\ held[s] = Visitor
  /\ held' = [held EXCEPT ![s] = Nobody]
  /\ UNCHANGED <<entry, worker, since, crashes>>

(* The scheduler. *)

\* tick: the clock is read, the entries are copied.
StartTick(w) ==
  /\ worker[w].stage = "resting"
  /\ worker' = [worker EXCEPT ![w] =
       [Off EXCEPT !.stage = "ticking", !.todo = {k \in Keys : Present(k)}]]
  /\ UNCHANGED <<entry, held, since, crashes>>

\* MUTANT: a lease that was ever taken is never taken over.
ClaimableOnce(w, k) ==
  /\ Present(k)
  /\ entry[k].age - worker[w].stale >= Every
  /\ entry[k].owner = Nobody

\* MUTANT: the lease of another worker is not looked at.
ClaimableLeased(w, k) ==
  /\ Present(k)
  /\ entry[k].age - worker[w].stale >= Every

\* claim_due, its conditions: the entry is due and no lease reaches beyond the
\* instant the tick goes by.
Claimable(w, k) ==
  /\ Present(k)
  /\ entry[k].age - worker[w].stale >= Every
  /\ entry[k].left + worker[w].stale <= 0

\* claim_due, its update: the lease is dated with the clock reading of the tick.
Claim(w, k) ==
  /\ worker[w].stage = "ticking"
  /\ k \in worker[w].todo
  /\ Claimable(w, k)
  /\ entry' = [entry EXCEPT ![k].owner = w, ![k].left = Lease - worker[w].stale]
  /\ worker' = [worker EXCEPT ![w].stage = "claimed", ![w].key = k,
                              ![w].todo = @ \ {k}, ![w].locked = entry[k].session]
  /\ UNCHANGED <<held, since, crashes>>

\* claim_due returns None.
PassOver(w, k) ==
  /\ worker[w].stage = "ticking"
  /\ k \in worker[w].todo
  /\ ~Claimable(w, k)
  /\ worker' = [worker EXCEPT ![w].todo = @ \ {k}]
  /\ UNCHANGED <<entry, held, since, crashes>>

\* MUTANT: the lock is given back before the turn runs.
RunUnlocked(w) ==
  /\ worker[w].stage = "claimed"
  /\ held[worker[w].locked] = Nobody
  /\ Present(worker[w].key)
  /\ worker' = [worker EXCEPT ![w].stage = "running", ![w].runs = entry[worker[w].key].session]
  /\ UNCHANGED <<entry, held, since, crashes>>

\* The lock of the session in the CLAIMED entry is granted; the entry is read
\* again and its CURRENT session runs.
Run(w) ==
  /\ worker[w].stage = "claimed"
  /\ held[worker[w].locked] = Nobody
  /\ Present(worker[w].key)
  /\ held' = [held EXCEPT ![worker[w].locked] = w]
  /\ worker' = [worker EXCEPT ![w].stage = "running", ![w].runs = entry[worker[w].key].session]
  /\ UNCHANGED <<entry, since, crashes>>

\* The deadline passes in the queue for the lock, or under the lock the entry is
\* gone or its policy no longer allows it: no turn runs.
Skip(w) ==
  /\ worker[w].stage = "claimed"
  /\ worker' = [worker EXCEPT ![w].stage = "ending"]
  /\ UNCHANGED <<entry, held, since, crashes>>

\* The turn is over and the lock is released.
Stop(w) ==
  /\ worker[w].stage = "running"
  /\ held' = [held EXCEPT ![worker[w].locked] = Nobody]
  /\ worker' = [worker EXCEPT ![w].stage = "ending", ![w].runs = NoSession]
  /\ since' = IF Present(worker[w].key) THEN [since EXCEPT ![worker[w].key] = 0] ELSE since
  /\ UNCHANGED <<entry, crashes>>

\* complete_claim: only the owner of the lease records the run.
Complete(w) ==
  LET k == worker[w].key IN
  /\ worker[w].stage = "ending"
  /\ entry' = IF entry[k].owner = w
              THEN [entry EXCEPT ![k] = [@ EXCEPT !.age = 0, !.left = NoLease,
                                                  !.owner = Nobody, !.quiet = 0]]
              ELSE entry
  /\ worker' = [worker EXCEPT ![w] = [@ EXCEPT !.stage = "ticking", !.key = NoKey,
                                               !.locked = NoSession, !.spent = 0]]
  /\ UNCHANGED <<held, since, crashes>>

EndTick(w) ==
  /\ worker[w].stage = "ticking"
  /\ worker[w].todo = {}
  /\ worker' = [worker EXCEPT ![w] = Off]
  /\ UNCHANGED <<entry, held, since, crashes>>

\* A worker dies and comes back: its locks are free, its lease stays.  A run
\* that it did not live to record counts as not finished.
Crash(w) ==
  /\ crashes < MaxCrashes
  /\ worker[w] # Off
  /\ worker' = [worker EXCEPT ![w] = Off]
  /\ held' = [s \in Sessions |-> IF held[s] = w THEN Nobody ELSE held[s]]
  /\ since' = IF worker[w].stage = "ending" THEN [since EXCEPT ![worker[w].key] = Every]
              ELSE since
  /\ crashes' = crashes + 1
  /\ UNCHANGED entry

(* Time. *)

Busy(w) == worker[w].stage \in {"claimed", "running", "ending"}
Ticking(w) == worker[w].stage # "resting"

\* One unit of time passes; a turn keeps its deadline, a tick its limit.
Pass ==
  /\ \A w \in Workers : Busy(w) => worker[w].spent < Deadline
  /\ \A w \in Workers : Ticking(w) => worker[w].stale < TickLimit
  /\ entry' = [k \in Keys |->
       IF Present(k)
       THEN [entry[k] EXCEPT !.age = Capped(@ + 1, OldRun),
                             !.left = Floored(@ - 1, NoLease),
                             !.quiet = Capped(@ + 1, Retention)]
       ELSE Missing]
  /\ worker' = [w \in Workers |->
       [worker[w] EXCEPT !.spent = IF Busy(w) THEN @ + 1 ELSE @,
                         !.stale = IF Ticking(w) THEN @ + 1 ELSE @]]
  /\ since' = [k \in Keys |-> Capped(since[k] + 1, Every)]
  /\ UNCHANGED <<held, crashes>>

Step(w) ==
  \/ StartTick(w) \/ Run(w) \/ Skip(w) \/ Stop(w) \/ Complete(w) \/ EndTick(w)
  \/ \E k \in Keys : Claim(w, k) \/ PassOver(w, k)

Next ==
  \/ \E k \in Keys, s \in Sessions : Put(k, s)
  \/ \E k \in Keys : Remove(k)
  \/ \E s \in Sessions : RemoveSession(s) \/ Visit(s) \/ Leave(s)
  \/ RemoveInactive
  \/ \E w \in Workers : Step(w) \/ Crash(w)
  \/ Pass

Spec == Init /\ [][Next]_vars

\* The scheduler threads are never descheduled for good, and time goes on.
FairSpec == Spec /\ WF_vars(Pass) /\ \A w \in Workers : WF_vars(Step(w))

-----------------------------------------------------------------------------
\* SAFETY: claim_due leases a due entry to one scheduler process: no two workers
\* are at work on the same schedule, queueing for its session or running it.
OneClaimant ==
  \A w, v \in Workers : w # v /\ Busy(w) /\ Busy(v) => worker[w].key # worker[v].key

\* SAFETY: a scheduled turn runs under the operation lock of the session whose
\* conversation and files it writes.
RunsUnderLock ==
  \A w \in Workers : worker[w].stage = "running" => held[worker[w].runs] = w

\* ACTION: the runs of a schedule are at least every_ms apart, whatever edits,
\* crashes and other workers there are in between.
RunsSpaced ==
  [][\A w \in Workers :
       worker[w].stage # "running" /\ worker'[w].stage = "running"
         => since[worker[w].key] = Every]_vars

\* LIVENESS: a schedule that is due is claimed, removed or edited in the end, even
\* if the worker that leased it died.
DueClaimed ==
  \A k \in Keys :
    Present(k) /\ entry[k].age >= Every ~> ~Present(k) \/ Working(k) \/ entry[k].age < Every
=============================================================================
