----------------------------- MODULE ServiceDrain -----------------------------
(***************************************************************************)
(* One product worker from start to stop: run opens the state, serves, and *)
(* on a signal drains; the marker it leaves, if it stopped in good order,  *)
(* is what the offline tools take as proof that the state may be copied.   *)
(*                                                                         *)
(* Request threads and background threads are daemons: whoever still works *)
(* when run returns is cut off where it stands.  What run waits for before *)
(* it writes the marker is therefore all there is between the marker and a *)
(* half-made change.  It waits for the three background threads, one after *)
(* the other, and for the turns that _turn_enter has counted; each wait    *)
(* has a timeout.  It does not wait for requests that are not turns, nor   *)
(* for a turn that is past _turn_leave and has still to settle its lease.  *)
(*                                                                         *)
(* Sessions and their locks are SessionLifecycle's; here a piece of work   *)
(* is only under way, done, or cut off.                                    *)
(***************************************************************************)
EXTENDS Integers, FiniteSets

CONSTANTS
  Threads,    \* request threads of ProductHTTPServer
  Scheduler,
  Retention,
  Audit,      \* the background threads
  Ghost       \* whoever held a lease in a process that is gone

Workers == {Scheduler, Retention, Audit}

ASSUME DrainAssumption ==
  /\ IsFiniteSet(Threads)
  /\ Scheduler # Retention /\ Scheduler # Audit /\ Retention # Audit
  /\ Ghost \notin Threads \cup Workers
  /\ Threads \cap Workers = {}

VARIABLES
  main,       \* where run is
  signalled,  \* stop, set by the signal handlers
  draining,   \* _draining
  listening,  \* whether the listener accepts connections
  stopped,    \* background threads whose _stop is set
  drained,    \* whether every wait so far has ended in time
  marker,     \* whether CLEAN_MARKER exists
  active,     \* _active_requests
  thread,     \* what each request thread does
  worker,     \* what each background thread does
  leases,     \* rows of turn_leases, by their holder
  cut         \* history: the work that the end of the last process cut off

shutdown == <<signalled, draining, listening, stopped, drained>>
vars == <<main, shutdown, marker, active, thread, worker, leases, cut>>

\* A turn is counted from _turn_enter to _turn_leave.
Counted == {"entered", "turning"}
ThreadPhases == Counted \cup {"away", "accepted", "leased", "leaving", "deleting"}
WorkerPhases == {"ended", "waiting", "ticking", "claimed", "working"}
Stages == {"down", "opening", "serving", "draining", "stop scheduler", "stop retention",
           "stop audit", "count turns", "leaving", "marked"}
Kinds == {"turn", "release", "delete", "job", "sweep"}

\* TYPE: run, its threads and what they share.
TypeOK ==
  /\ main \in Stages
  /\ {signalled, draining, listening, drained, marker} \subseteq BOOLEAN
  /\ stopped \subseteq Workers
  /\ active \in Nat
  /\ thread \in [Threads -> ThreadPhases]
  /\ worker \in [Workers -> WorkerPhases]
  /\ leases \subseteq Threads \cup {Scheduler, Ghost}
  /\ cut \subseteq Kinds

Init ==
  /\ main = "down"
  /\ signalled = FALSE
  /\ draining = FALSE
  /\ listening = FALSE
  /\ stopped = {}
  /\ drained = TRUE
  /\ marker = FALSE
  /\ active = 0
  /\ thread = [t \in Threads |-> "away"]
  /\ worker = [w \in Workers |-> "ended"]
  /\ leases = {}
  /\ cut = {}

Moves(t, from, to) ==
  /\ thread[t] = from
  /\ thread' = [thread EXCEPT ![t] = to]

Steps(w, from, to) ==
  /\ worker[w] = from
  /\ worker' = [worker EXCEPT ![w] = to]

\* acquire_turn: a lease, and expired leases leave the table if there are any.
Lease(holder) == \E left \in {leases, leases \ {Ghost}} : leases' = left \cup {holder}

\* settle_turn
Settle(holder) == leases' = leases \ {holder}

-----------------------------------------------------------------------------
(* The request threads. *)

\* A connection is accepted; its request is still to be read.
Accept(t) ==
  /\ listening
  /\ Moves(t, "away", "accepted")
  /\ UNCHANGED <<main, shutdown, marker, active, worker, leases, cut>>

\* Refused before any work, or a route that changes nothing here.
Drop(t) ==
  /\ Moves(t, "accepted", "away")
  /\ UNCHANGED <<main, shutdown, marker, active, worker, leases, cut>>

\* POST /v1/chat: capacity is reserved before the service is asked whether it drains.
Acquire(t) ==
  /\ Moves(t, "accepted", "leased")
  /\ Lease(t)
  /\ UNCHANGED <<main, shutdown, marker, active, worker, cut>>

\* _turn_enter while draining: 503, and the reservation goes back.
Refuse(t) ==
  /\ draining
  /\ Moves(t, "leased", "away")
  /\ Settle(t)
  /\ UNCHANGED <<main, shutdown, marker, active, worker, cut>>

\* _turn_enter: from here on the drain waits for this turn.
Enter(t) ==
  /\ ~ draining
  /\ Moves(t, "leased", "entered")
  /\ active' = active + 1
  /\ UNCHANGED <<main, shutdown, marker, worker, leases, cut>>

\* The session lock is granted and the agent runs.
Begin(t) ==
  /\ Moves(t, "entered", "turning")
  /\ UNCHANGED <<main, shutdown, marker, active, worker, leases, cut>>

\* _turn_leave, with an answer, an error, or a deadline that passed at the lock.
Leave(t) ==
  /\ thread[t] \in Counted
  /\ thread' = [thread EXCEPT ![t] = "leaving"]
  /\ active' = active - 1
  /\ UNCHANGED <<main, shutdown, marker, worker, leases, cut>>

\* turn_capacity.release: the lease is held until here.
Release(t) ==
  /\ Moves(t, "leaving", "away")
  /\ Settle(t)
  /\ UNCHANGED <<main, shutdown, marker, active, worker, cut>>

\* DELETE /v1/sessions: nobody counts it.
Delete(t) ==
  /\ Moves(t, "accepted", "deleting")
  /\ UNCHANGED <<main, shutdown, marker, active, worker, leases, cut>>

Deleted(t) ==
  /\ Moves(t, "deleting", "away")
  /\ UNCHANGED <<main, shutdown, marker, active, worker, leases, cut>>

Request(t) ==
  \/ Accept(t) \/ Drop(t)
  \/ Acquire(t) \/ Refuse(t) \/ Enter(t) \/ Begin(t) \/ Leave(t) \/ Release(t)
  \/ Delete(t) \/ Deleted(t)

-----------------------------------------------------------------------------
(* The background threads. *)

\* A pass of the loop, unless the thread has been told to stop.
Tick(w) ==
  /\ w \notin stopped
  /\ Steps(w, "waiting", "ticking")
  /\ UNCHANGED <<main, shutdown, marker, active, thread, leases, cut>>

\* ProductScheduler._run_one: the entry is claimed and its session is ours.
Claim ==
  /\ Steps(Scheduler, "ticking", "claimed")
  /\ UNCHANGED <<main, shutdown, marker, active, thread, leases, cut>>

\* The turn of a due entry starts.  Neither _stop nor _draining is asked.
StartJob ==
  /\ Steps(Scheduler, "claimed", "working")
  /\ Lease(Scheduler)
  /\ UNCHANGED <<main, shutdown, marker, active, thread, cut>>

\* Revoked, gone, no capacity, no session in time: the claim is completed.
SkipJob ==
  /\ Steps(Scheduler, "claimed", "ticking")
  /\ UNCHANGED <<main, shutdown, marker, active, thread, leases, cut>>

\* The lease is settled under the session lock; the tick goes on to the next entry.
EndJob ==
  /\ Steps(Scheduler, "working", "ticking")
  /\ Settle(Scheduler)
  /\ UNCHANGED <<main, shutdown, marker, active, thread, cut>>

\* The sweep removes the files of one session, then its row.
StartRemoval ==
  /\ Steps(Retention, "ticking", "working")
  /\ UNCHANGED <<main, shutdown, marker, active, thread, leases, cut>>

EndRemoval ==
  /\ Steps(Retention, "working", "ticking")
  /\ UNCHANGED <<main, shutdown, marker, active, thread, leases, cut>>

EndTick(w) ==
  /\ Steps(w, "ticking", "waiting")
  /\ UNCHANGED <<main, shutdown, marker, active, thread, leases, cut>>

\* The loop sees _stop.
End(w) ==
  /\ w \in stopped
  /\ Steps(w, "waiting", "ended")
  /\ UNCHANGED <<main, shutdown, marker, active, thread, leases, cut>>

Background ==
  \/ \E w \in Workers : Tick(w) \/ EndTick(w) \/ End(w)
  \/ Claim \/ StartJob \/ SkipJob \/ EndJob
  \/ StartRemoval \/ EndRemoval

(* run *)

\* The previous proof goes before any state is opened.
Boot ==
  /\ main = "down"
  /\ main' = "opening"
  /\ marker' = FALSE
  /\ UNCHANGED <<shutdown, active, thread, worker, leases, cut>>

\* The ledger is opened (expired leases go) and reconciled with the files, the chains
\* verify, a first sweep is through; the listener and the background threads start.
Open ==
  /\ main = "opening"
  /\ main' = "serving"
  /\ listening' = TRUE
  /\ worker' = [w \in Workers |-> "waiting"]
  /\ leases' \in {leases, leases \ {Ghost}}
  /\ cut' = {}
  /\ UNCHANGED <<signalled, draining, stopped, drained, marker, active, thread>>

\* request_stop
Signal ==
  /\ main \in {"opening", "serving"}
  /\ ~ signalled
  /\ signalled' = TRUE
  /\ UNCHANGED <<main, draining, listening, stopped, drained, marker, active,
                 thread, worker, leases, cut>>

StartDraining ==
  /\ main = "serving"
  /\ signalled
  /\ draining' = TRUE
  /\ main' = "draining"
  /\ UNCHANGED <<signalled, listening, stopped, drained, marker, active, thread,
                 worker, leases, cut>>

\* server.shutdown returns; the scheduler is told to stop.
CloseListener ==
  /\ main = "draining"
  /\ listening' = FALSE
  /\ stopped' = {Scheduler}
  /\ main' = "stop scheduler"
  /\ UNCHANGED <<signalled, draining, drained, marker, active, thread, worker,
                 leases, cut>>

\* The waits of run, and whom it tells to stop after each.
Waits ==
  {[at |-> "stop scheduler", for |-> Scheduler, next |-> "stop retention", stops |-> {Retention}],
   [at |-> "stop retention", for |-> Retention, next |-> "stop audit", stops |-> {Audit}],
   [at |-> "stop audit", for |-> Audit, next |-> "count turns", stops |-> {}]}

Proceed(wait) ==
  /\ main = wait.at
  /\ main' = wait.next
  /\ stopped' = stopped \cup wait.stops
  /\ UNCHANGED <<signalled, draining, listening, marker, active, thread, worker,
                 leases, cut>>

\* stop(drain_timeout): the thread is no longer alive.
Joined(wait) ==
  /\ worker[wait.for] = "ended"
  /\ drained' = drained
  /\ Proceed(wait)

\* MUTANT: join without a timeout.
NeverLate(wait) == FALSE

\* stop(drain_timeout): the thread is alive when the time is up.
JoinedLate(wait) ==
  /\ worker[wait.for] # "ended"
  /\ drained' = FALSE
  /\ Proceed(wait)

\* MUTANT: the time is up, and the answer is that of a drain that succeeded.
CountsAnyway ==
  /\ main = "count turns"
  /\ drained' = drained
  /\ main' = "leaving"
  /\ UNCHANGED <<signalled, draining, listening, stopped, marker, active, thread,
                 worker, leases, cut>>

\* wait_for_drain: no counted turn is left, or the time is up.
CountTurns ==
  /\ main = "count turns"
  /\ drained' = (drained /\ active = 0)
  /\ main' = "leaving"
  /\ UNCHANGED <<signalled, draining, listening, stopped, marker, active, thread,
                 worker, leases, cut>>

\* The compiler is closed; the marker replaces its temporary file.
Mark ==
  /\ main = "leaving"
  /\ drained
  /\ marker' = TRUE
  /\ main' = "marked"
  /\ UNCHANGED <<shutdown, active, thread, worker, leases, cut>>

Busy(kind) ==
  CASE kind = "turn" -> \E t \in Threads : thread[t] = "turning"
    [] kind = "release" -> \E t \in Threads : thread[t] = "leaving"
    [] kind = "delete" -> \E t \in Threads : thread[t] = "deleting"
    [] kind = "job" -> worker[Scheduler] = "working"
    [] kind = "sweep" -> worker[Retention] = "working" \/ main = "opening"

\* The process is gone and its threads with it; its leases stay in the table.
Gone ==
  /\ main' = "down"
  /\ signalled' = FALSE
  /\ draining' = FALSE
  /\ listening' = FALSE
  /\ stopped' = {}
  /\ drained' = TRUE
  /\ active' = 0
  /\ thread' = [t \in Threads |-> "away"]
  /\ worker' = [w \in Workers |-> "ended"]
  /\ leases' = IF leases = {} THEN {} ELSE {Ghost}
  /\ cut' = cut \cup {kind \in Kinds : Busy(kind)}
  /\ UNCHANGED marker

\* run returns, or raises because something did not drain.
Return ==
  /\ main = "marked" \/ (main = "leaving" /\ ~ drained)
  /\ Gone

\* A configuration error while the state is opened.
Fail ==
  /\ main = "opening"
  /\ Gone

Crash ==
  /\ main # "down"
  /\ Gone

Shutdown ==
  \/ StartDraining \/ CloseListener
  \/ \E wait \in Waits : Joined(wait) \/ JoinedLate(wait)
  \/ CountTurns \/ Mark \/ Return

Next ==
  \/ \E t \in Threads : Request(t)
  \/ Background
  \/ Boot \/ Open \/ Fail \/ Signal \/ Shutdown \/ Crash

Spec == Init /\ [][Next]_vars

\* Every wait of run has a timeout, and opening the state ends.  Nothing is assumed of
\* the threads.
FairSpec == Spec /\ WF_vars(Open \/ Fail) /\ WF_vars(Shutdown)

-----------------------------------------------------------------------------
(* The offline tools. *)

\* MUTANT: the leases are not looked at.
AcceptedByMarker == main = "down" /\ marker

\* _validate_state, as far as it depends on how the worker stopped.  The worker has gone:
\* docs/operations.md has the operator wait for that.
Accepted == main = "down" /\ marker /\ leases = {}

-----------------------------------------------------------------------------
(* Properties. *)

Turns == {t \in Threads : thread[t] \in Counted}

\* INVARIANT (proved): the number wait_for_drain waits on is the number of turns between
\* _turn_enter and _turn_leave, refusals and errors included.
DrainCounts == active = Cardinality(Turns)

\* INVARIANT (proved): from the moment the marker is written, no interactive turn, no
\* scheduled turn, no sweep and no verification is under way, and none starts before the
\* next start has removed it.
CleanMeansQuiet ==
  marker =>
    /\ main \in {"marked", "down"}
    /\ Turns = {}
    /\ \A w \in Workers : worker[w] = "ended"

\* INVARIANT (proved): a state the backup accepts is one in which the last process has
\* finished every turn, every scheduled turn and every sweep and settled what they used.
\* The marker alone would not do: a turn may be cut off between _turn_leave and release.
AcceptedIsFinished == Accepted => cut \subseteq {"delete"}

\* LIVENESS: a worker that is told to stop stops, whatever its turns, its scheduler and
\* its sweep do.
StopEnds == signalled ~> main = "down"

\* Violated.  start_draining is there to "reject new turns" (product_service.py:1838,
\* docs/operations.md:236), and it rejects the interactive ones.
NoTurnStartsDraining ==
  [][draining => Turns' \cup {w \in {Scheduler} : worker'[w] = "working"}
                   \subseteq Turns \cup {w \in {Scheduler} : worker[w] = "working"}]_vars

=============================================================================
