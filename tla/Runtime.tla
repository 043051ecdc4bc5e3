-------------------------------- MODULE Runtime --------------------------------
(***************************************************************************)
(* The forging endpoint of the product process: SupervisedRuntime over a   *)
(* succession of ProductionSigilMCP clients, each the owner of one         *)
(* compiler process.  Turns reach it one at a time, through PiAgent._forge *)
(* and its lock; the only other thread that touches it is the one that     *)
(* closes it at shutdown, and that one does not wait for a turn: when it   *)
(* cannot have the lock in time it kills the compiler it finds.            *)
(*                                                                         *)
(* A request is a frame written and a frame read, with nothing but the     *)
(* order to match them, so a compiler that still owes an answer must never *)
(* be asked again.  A compiler is retired, that is killed and forgotten,   *)
(* whenever the outcome of a request leaves that in doubt.  Retirements    *)
(* that no caller's own deadline explains are counted; too many within a   *)
(* window and the endpoint declares itself unrecoverable for good.         *)
(***************************************************************************)
EXTENDS Integers, Sequences, FiniteSetsExt

CONSTANTS
  Callers,     \* threads that run turns
  Compilers,   \* operating system processes
  NoCompiler,
  Closer,      \* the thread that leaves run
  Nobody,
  Budget,      \* unhealthy_budget
  Window,      \* unhealthy_window_s
  Impatient,   \* whether a turn's time may run out during a handshake
  Partial      \* whether a compiler may stop in the middle of a line

ASSUME RuntimeAssumption ==
  /\ NoCompiler \notin Compilers
  /\ {Closer, Nobody} \cap Callers = {}
  /\ Closer # Nobody
  /\ Budget \in Nat
  /\ Window \in Nat
  /\ Impatient \in BOOLEAN
  /\ Partial \in BOOLEAN

VARIABLES
  process,        \* the compilers
  owed,           \* answers a compiler was asked for and nobody has read
  client,         \* _client
  caller,         \* where each turn is between _forge and its answer
  lock,           \* _lock
  closed,         \* _closed
  closer,         \* where close is
  marks,          \* _unhealthy: the age of each mark, oldest first, and its cause
  unrecoverable   \* _unrecoverable

health == <<marks, unrecoverable>>
closing == <<closed, closer>>
vars == <<process, owed, client, caller, lock, closed, closer, marks, unrecoverable>>

Away == [phase |-> "away", with |-> NoCompiler]
Phases == {"away", "queued", "called", "starting", "greeting", "installed", "forging",
           "reading"}

\* The cause of a mark is history: the code keeps the instant only. A fault of the compiler, a
\* handshake cut short by the turn that asked for it, a kill by close.
Marks == [age : 0..(Window + 1), cause : {"fault", "cut", "close"}]

\* TYPE: the processes, the threads and the health of the endpoint.
TypeOK ==
  /\ process \in [Compilers -> {"live", "crashed", "killed"}]
  /\ owed \in [Compilers -> 0..2]
  /\ client \in Compilers \cup {NoCompiler}
  /\ caller \in [Callers -> [phase : Phases, with : Compilers \cup {NoCompiler}]]
  /\ lock \in Callers \cup {Closer, Nobody}
  /\ closed \in BOOLEAN
  /\ closer \in [phase : {"serving", "closing", "killing", "closed"},
                 target : Compilers \cup {NoCompiler}]
  /\ marks \in Seq(Marks)
  /\ Len(marks) <= Budget + 1
  /\ unrecoverable \in BOOLEAN

\* __enter__: the first compiler is started and greeted before anything else.
Init ==
  /\ \E p \in Compilers :
       /\ client = p
       /\ process = [q \in Compilers |-> IF q = p THEN "live" ELSE "killed"]
  /\ owed = [p \in Compilers |-> 0]
  /\ caller = [c \in Callers |-> Away]
  /\ lock = Nobody
  /\ closed = FALSE
  /\ closer = [phase |-> "serving", target |-> NoCompiler]
  /\ marks = <<>>
  /\ unrecoverable = FALSE

-----------------------------------------------------------------------------
(* Health. *)

\* The marks from the first that is not too old on: the older ones are popped.
Recent ==
  LET within == {i \in DOMAIN marks : marks[i].age <= Window}
  IN  IF within = {} THEN <<>> ELSE SubSeq(marks, Min(within), Len(marks))

Fresh(cause) == [age |-> 0, cause |-> cause]

\* MUTANT: a mark never leaves the window.
MarkForever(cause) ==
  /\ marks' = Append(marks, Fresh(cause))
  /\ unrecoverable' = (unrecoverable \/ Len(marks') > Budget)

\* MUTANT: one more mark than the budget is let pass.
MarkLate(cause) ==
  /\ marks' = Append(Recent, Fresh(cause))
  /\ unrecoverable' = (unrecoverable \/ Len(marks') > Budget + 1)

\* _mark_unhealthy: the window is trimmed, the latch never opens again.
Mark(cause) ==
  /\ marks' = Append(Recent, Fresh(cause))
  /\ unrecoverable' = (unrecoverable \/ Len(marks') > Budget)

\* _dispose: the process is killed, whatever state it is in.
Disposed(p) == [process EXCEPT ![p] = IF @ = "live" THEN "killed" ELSE @]

\* The turn has its answer or its error: both locks are free again.
GoAway(c) ==
  /\ caller' = [caller EXCEPT ![c] = Away]
  /\ lock' = Nobody

\* The client in use is forgotten and killed.
Retire(p) ==
  /\ client' = NoCompiler
  /\ process' = Disposed(p)

(* A turn calls. *)

\* _forge: the turn asks for the forge.
Call(c) ==
  /\ caller[c] = Away
  /\ caller' = [caller EXCEPT ![c].phase = "queued"]
  /\ UNCHANGED <<process, owed, client, lock, closing, health>>

\* The deadline of the turn passes while another one forges.
GiveUp(c) ==
  /\ caller[c].phase = "queued"
  /\ caller' = [caller EXCEPT ![c] = Away]
  /\ UNCHANGED <<process, owed, client, lock, closing, health>>

\* _forge_lock is granted: one turn at a time goes on to the endpoint.
Enter(c) ==
  /\ caller[c].phase = "queued"
  /\ \A d \in Callers : caller[d].phase \in {"away", "queued"}
  /\ caller' = [caller EXCEPT ![c].phase = "called"]
  /\ UNCHANGED <<process, owed, client, lock, closing, health>>

\* forge: the lock is granted and the endpoint is closed.
CallRefused(c) ==
  /\ caller[c].phase = "called"
  /\ lock = Nobody
  /\ closed
  /\ caller' = [caller EXCEPT ![c] = Away]
  /\ UNCHANGED <<process, owed, client, lock, closing, health>>

\* The request is written to the client.
Ask(c, p) ==
  /\ caller' = [caller EXCEPT ![c] = [phase |-> "forging", with |-> p]]
  /\ owed' = [owed EXCEPT ![p] = @ + 1]

\* forge with a client at hand.
CallServed(c) ==
  /\ caller[c].phase = "called"
  /\ lock = Nobody
  /\ ~closed
  /\ client # NoCompiler
  /\ lock' = c
  /\ Ask(c, client)
  /\ UNCHANGED <<process, client, closing, health>>

\* forge without one: _start_generation.
CallStarts(c) ==
  /\ caller[c].phase = "called"
  /\ lock = Nobody
  /\ ~closed
  /\ client = NoCompiler
  /\ lock' = c
  /\ caller' = [caller EXCEPT ![c].phase = "starting"]
  /\ UNCHANGED <<process, owed, client, closing, health>>

(* A compiler is started. *)

\* The endpoint is unrecoverable, the turn has too little time left, or the binary
\* is missing or not the pinned one: no process was started, nothing is counted.
StartFails(c) ==
  /\ caller[c].phase = "starting"
  /\ GoAway(c)
  /\ UNCHANGED <<process, owed, client, closing, health>>

Referenced(p) ==
  \/ p = client
  \/ p = closer.target
  \/ \E c \in Callers : caller[c].with = p

\* _spawn, and the handshake is written.
Spawn(c, p) ==
  /\ caller[c].phase = "starting"
  /\ ~unrecoverable
  /\ process[p] # "live"
  /\ ~Referenced(p)
  /\ process' = [process EXCEPT ![p] = "live"]
  /\ owed' = [owed EXCEPT ![p] = 1]
  /\ caller' = [caller EXCEPT ![c] = [phase |-> "greeting", with |-> p]]
  /\ UNCHANGED <<client, lock, closing, health>>

\* The handshake fails: refused, garbled, unanswered within handshake_timeout_s, or
\* the process died.
GreetingFails(c) ==
  LET p == caller[c].with IN
  /\ caller[c].phase = "greeting"
  /\ process' = Disposed(p)
  /\ Mark("fault")
  /\ GoAway(c)
  /\ UNCHANGED <<owed, client, closing>>

\* The handshake is given no more than the turn has left, and that was not enough.
GreetingCut(c) ==
  LET p == caller[c].with IN
  /\ Impatient
  /\ caller[c].phase = "greeting"
  /\ process[p] = "live"
  /\ process' = Disposed(p)
  /\ Mark("cut")
  /\ GoAway(c)
  /\ UNCHANGED <<owed, client, closing>>

\* MUTANT: the closed endpoint is looked at before the client is installed.
InstallBlindly(c) ==
  LET p == caller[c].with IN
  /\ caller[c].phase = "greeting"
  /\ process[p] = "live"
  /\ client' = p
  /\ owed' = [owed EXCEPT ![p] = 1]
  /\ caller' = [caller EXCEPT ![c].phase = "forging"]
  /\ UNCHANGED <<process, lock, closing, health>>

\* The handshake is answered; the client is installed before anything is checked.
Install(c) ==
  LET p == caller[c].with IN
  /\ caller[c].phase = "greeting"
  /\ process[p] = "live"
  /\ client' = p
  /\ owed' = [owed EXCEPT ![p] = 0]
  /\ caller' = [caller EXCEPT ![c].phase = "installed"]
  /\ UNCHANGED <<process, lock, closing, health>>

\* close came in between: the fresh client is reaped.
InstallClosed(c) ==
  /\ caller[c].phase = "installed"
  /\ closed
  /\ Retire(caller[c].with)
  /\ GoAway(c)
  /\ UNCHANGED <<owed, closing, health>>

\* MUTANT: the lock stays taken when the turn gives up.
InstallSpentLocked(c) ==
  /\ caller[c].phase = "installed"
  /\ ~closed
  /\ caller' = [caller EXCEPT ![c] = Away]
  /\ UNCHANGED <<process, owed, client, lock, closing, health>>

\* The time of the turn is used up: the client stays for the next one.
InstallSpent(c) ==
  /\ caller[c].phase = "installed"
  /\ ~closed
  /\ GoAway(c)
  /\ UNCHANGED <<process, owed, client, closing, health>>

InstallServed(c) ==
  /\ caller[c].phase = "installed"
  /\ ~closed
  /\ Ask(c, caller[c].with)
  /\ UNCHANGED <<process, client, lock, closing, health>>

(* A compiler answers, or does not. *)

\* A result, or a well-formed refusal: the answer was read, the client is kept.
Answer(c) ==
  /\ caller[c].phase \in {"forging", "reading"}
  /\ process[caller[c].with] = "live"
  /\ owed' = [owed EXCEPT ![caller[c].with] = @ - 1]
  /\ GoAway(c)
  /\ UNCHANGED <<process, client, closing, health>>

\* MUTANT: a desynchronized client is kept like one that refused.
GarbleKept(c) ==
  /\ caller[c].phase = "forging"
  /\ process[caller[c].with] = "live"
  /\ GoAway(c)
  /\ UNCHANGED <<process, owed, client, closing, health>>

\* Something else than the answer was read, or the base watchdog expired.
Garble(c) ==
  /\ caller[c].phase \in {"forging", "reading"}
  /\ process[caller[c].with] = "live"
  /\ Retire(caller[c].with)
  /\ Mark("fault")
  /\ GoAway(c)
  /\ UNCHANGED <<owed, closing>>

\* The stream is closed: the process crashed, or was killed by close.
Broken(c) ==
  LET p == caller[c].with IN
  /\ caller[c].phase \in {"forging", "reading"}
  /\ process[p] # "live"
  /\ Retire(p)
  /\ Mark(IF process[p] = "crashed" THEN "fault" ELSE "close")
  /\ GoAway(c)
  /\ UNCHANGED <<owed, closing>>

\* The turn's own deadline passes: the compiler is killed and nothing is counted.
Cut(c) ==
  /\ caller[c].phase = "forging"
  /\ process[caller[c].with] = "live"
  /\ Retire(caller[c].with)
  /\ GoAway(c)
  /\ UNCHANGED <<owed, closing, health>>

\* Some bytes have come, and no end of line: select is over, readline waits.
StopShort(c) ==
  /\ Partial
  /\ caller[c].phase = "forging"
  /\ process[caller[c].with] = "live"
  /\ caller' = [caller EXCEPT ![c].phase = "reading"]
  /\ UNCHANGED <<process, owed, client, lock, closing, health>>

Crash(p) ==
  /\ process[p] = "live"
  /\ process' = [process EXCEPT ![p] = "crashed"]
  /\ UNCHANGED <<owed, client, caller, lock, closing, health>>

(* The endpoint is closed. *)

\* close: the flag is set without the lock.
Close ==
  /\ closer.phase = "serving"
  /\ closed' = TRUE
  /\ closer' = [closer EXCEPT !.phase = "closing"]
  /\ UNCHANGED <<process, owed, client, caller, lock, health>>

\* The lock is granted: the client is shut down in good order.
CloseLocked ==
  /\ closer.phase = "closing"
  /\ lock = Nobody
  /\ IF client = NoCompiler THEN UNCHANGED <<process, client>> ELSE Retire(client)
  /\ closer' = [phase |-> "closed", target |-> NoCompiler]
  /\ UNCHANGED <<owed, caller, lock, closed, health>>

\* MUTANT: without the lock close gives up.
CloseGivesUp ==
  /\ closer.phase = "closing"
  /\ lock # Nobody
  /\ closer' = [phase |-> "closed", target |-> NoCompiler]
  /\ UNCHANGED <<process, owed, client, caller, lock, closed, health>>

\* close_timeout_s passes: the client is read without the lock.
CloseUnlocked ==
  /\ closer.phase = "closing"
  /\ lock # Nobody
  /\ closer' = IF client = NoCompiler
               THEN [phase |-> "closed", target |-> NoCompiler]
               ELSE [phase |-> "killing", target |-> client]
  /\ UNCHANGED <<process, owed, client, caller, lock, closed, health>>

\* and killed, by then perhaps no longer the client.
CloseKills ==
  /\ closer.phase = "killing"
  /\ process' = Disposed(closer.target)
  /\ closer' = [phase |-> "closed", target |-> NoCompiler]
  /\ UNCHANGED <<owed, client, caller, lock, closed, health>>

\* Time passes: what matters of it is the age of a mark, until it is too late.
Older(age) == IF age > Window THEN age ELSE age + 1

Pass ==
  /\ ~unrecoverable
  /\ marks' = [i \in DOMAIN marks |-> [marks[i] EXCEPT !.age = Older(@)]]
  /\ UNCHANGED <<process, owed, client, caller, lock, closing, unrecoverable>>

\* What a turn does without anybody's help once it has called.
Proceed(c) ==
  \/ GiveUp(c) \/ Enter(c) \/ CallRefused(c) \/ CallServed(c) \/ CallStarts(c)
  \/ StartFails(c) \/ \E p \in Compilers : Spawn(c, p)
  \/ GreetingFails(c) \/ GreetingCut(c)
  \/ Install(c) \/ InstallClosed(c) \/ InstallSpent(c) \/ InstallServed(c)
  \/ caller[c].phase = "forging" /\ (Answer(c) \/ Garble(c))
  \/ Cut(c) \/ Broken(c)

CloserStep == CloseLocked \/ CloseUnlocked \/ CloseKills

Next ==
  \/ \E c \in Callers :
       \/ Call(c) \/ Proceed(c) \/ StopShort(c)
       \/ caller[c].phase = "reading" /\ (Answer(c) \/ Garble(c))
  \/ \E p \in Compilers : Crash(p)
  \/ Close \/ CloserStep
  \/ Pass

Spec == Init /\ [][Next]_vars

\* Every wait of a turn and of close has a timeout, except the reading of a line
\* that has begun: whether that ever ends is up to the compiler.
FairSpec == Spec /\ WF_vars(CloserStep) /\ \A c \in Callers : WF_vars(Proceed(c))

-----------------------------------------------------------------------------
\* SAFETY: no request is written to a compiler that still owes the answer to an
\* earlier one: nobody reads an answer that was meant for another turn.
OneAnswerOwed ==
  \A p \in Compilers : process[p] = "live" => owed[p] <= 1

\* SAFETY: no compiler runs that nobody refers to, and once close has returned
\* only one whose handshake a turn is still waiting for, or has just had, runs on.
NoOrphan ==
  \A p \in Compilers : process[p] = "live" =>
    \/ \E c \in Callers : caller[c].phase \in {"greeting", "installed"} /\ caller[c].with = p
    \/ p = client /\ closer.phase # "closed"

Due(causes) ==
  Cardinality({i \in DOMAIN marks : marks[i].age <= Window /\ marks[i].cause \in causes})

\* SAFETY: an endpoint in service is given up only for more failures within a window
\* than the budget allows, none of them a turn that ran out of time in its forge.
GivenUpForFailures ==
  unrecoverable /\ ~closed => Due({"fault", "cut"}) > Budget

\* SAFETY: the same with nothing but the compilers' own faults: turns that run out of
\* their own time never make the endpoint unrecoverable.
GivenUpForFaults ==
  unrecoverable /\ ~closed => Due({"fault"}) > Budget

\* LIVENESS: a turn that asks for the forge has an answer or an error in the end,
\* whatever compilers, other turns and close do.
CallsEnd ==
  \A c \in Callers : caller[c].phase = "queued" ~> caller[c].phase = "away"

\* LIVENESS: only a line that has begun to arrive can keep a turn from its end, and
\* that turn keeps no other one.
CallsEndOrRead ==
  \A c \in Callers : caller[c].phase = "queued" ~> caller[c].phase \in {"away", "reading"}

\* LIVENESS: close returns, although a turn may hold the lock forever, and killing the
\* compiler unwinds the turn that waits for it: once the endpoint is closed every turn
\* comes to an end.
CloseUnwinds ==
  /\ closer.phase = "closing" ~> closer.phase = "closed"
  /\ \A c \in Callers : closed /\ caller[c] # Away ~> caller[c] = Away
=============================================================================
