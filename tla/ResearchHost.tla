------------------------------ MODULE ResearchHost -----------------------------
(***************************************************************************)
(* The research host of agent.py: one process on a state directory, which  *)
(* runs turns for callers over HTTP and for the entries of its schedule    *)
(* file, each with the memory sidecar before and after it.                 *)
(*                                                                         *)
(* A tick reads the clock and all entries once, and runs those that were   *)
(* due then, one after another; a run is marked when it is over, whatever  *)
(* became of it.  Callers put and remove entries at any time, also while   *)
(* a tick is at work on what it read.                                      *)
(*                                                                         *)
(* A turn looks before each step whether its caller hung up, which it may  *)
(* do at any time.  It holds the compiler for the length of a step.  Turns *)
(* of one session are AgentTurn's; here each talker has a session of its   *)
(* own.                                                                    *)
(***************************************************************************)
EXTENDS MemoryClient, FiniteSets

CONSTANTS
  Scheduler,  \* the talker that runs the entries; the others serve callers
  Names,      \* of entries, as numbers in their order
  Every,      \* every_ms, in ticks of the clock
  MaxSteps,   \* max_steps
  MaxNow,     \* bound: the clock
  MaxPuts,    \* bound: requests that put or remove an entry
  MaxChats,   \* bound: callers
  MaxStops    \* bound: ends of the process

ASSUME HostAssumption ==
  /\ Scheduler \in Talkers
  /\ Names \subseteq Nat /\ IsFiniteSet(Names)
  /\ {Every, MaxSteps} \subseteq Nat \ {0}
  /\ {MaxNow, MaxPuts, MaxChats, MaxStops} \subseteq Nat

VARIABLES
  host,     \* whether a process holds the lock of the state directory
  clock,
  entries,  \* the schedule file
  running,  \* _running of the scheduler
  todo,     \* the entries that the tick is to run, the first of them first
  turn,     \* what each talker is at
  puts, chats, stops,
  ended,    \* history: when an entry's run was over and marked, since it was put anew
  wanted    \* history: the entries that the operator put and did not remove

hostVars == <<host, clock, entries, running, todo, turn, puts, chats, stops, ended, wanted>>
vars == <<memoryVars, hostVars>>

Never == -1
Times == 0..MaxNow
Clients == Talkers \ {Scheduler}

NoTurn == [at |-> "away", step |-> 0, end |-> "none"]
NoEntry == [there |-> FALSE, mark |-> Never]

\* TYPE: the entries, the tick and the turns.
TypeOK ==
  /\ MemoryTypeOK
  /\ host \in {"up", "down"}
  /\ clock \in Times
  /\ entries \in [Names -> [there : BOOLEAN, mark : Times \cup {Never}]]
  /\ running \subseteq Names
  /\ todo \in Seq(Names)
  /\ turn \in [Talkers ->
       [at : {"away", "boundary", "step", "over"},
        step : 0..MaxSteps, end : {"none", "reply", "error"}]]
  /\ ended \in [Names -> Times \cup {Never}]
  /\ wanted \subseteq Names
  /\ host = "down" => pipe = Nobody /\ guard = Nobody /\ pending = <<>> /\ running = {}

\* A host starts on the entries that its operator had put before.
Init ==
  /\ MemoryInit
  /\ host = "up"
  /\ clock = 0
  /\ wanted \in SUBSET Names
  /\ entries = [n \in Names |-> [there |-> n \in wanted, mark |-> Never]]
  /\ running = {}
  /\ todo = <<>>
  /\ turn = [t \in Talkers |-> NoTurn]
  /\ puts = 0 /\ chats = 0 /\ stops = 0
  /\ ended = [n \in Names |-> Never]

-----------------------------------------------------------------------------
(* The schedule file and the scheduler *)

DueAt(mark, now) == mark = Never \/ now - mark >= Every

\* MUTANT: a put forgets when the entry ran.
PutAnew(n) ==
  /\ host = "up"
  /\ puts < MaxPuts /\ puts' = puts + 1
  /\ entries' = [entries EXCEPT ![n] = [there |-> TRUE, mark |-> Never]]
  /\ wanted' = wanted \cup {n}
  /\ UNCHANGED <<memoryVars, host, clock, running, todo, turn, chats, stops, ended>>

\* put, from a caller: an entry that is there keeps its mark.
PutEntry(n) ==
  /\ host = "up"
  /\ puts < MaxPuts /\ puts' = puts + 1
  /\ entries' = [entries EXCEPT ![n].there = TRUE]
  /\ wanted' = wanted \cup {n}
  /\ UNCHANGED <<memoryVars, host, clock, running, todo, turn, chats, stops, ended>>

\* remove, from a caller.
RemoveEntry(n) ==
  /\ host = "up"
  /\ puts < MaxPuts /\ puts' = puts + 1
  /\ entries' = [entries EXCEPT ![n] = NoEntry]
  /\ ended' = [ended EXCEPT ![n] = Never]
  /\ wanted' = wanted \ {n}
  /\ UNCHANGED <<memoryVars, host, clock, running, todo, turn, chats, stops>>

Requests == \E n \in Names : PutEntry(n) \/ RemoveEntry(n)

\* entries: sorted by name.
InOrder(S) == {s \in SetToSeqs(S) : \A i, j \in DOMAIN s : i < j => s[i] < s[j]}

\* A tick reads the clock, then the entries: what it will run is all that is due by now
\* and not running, for a name is only taken from running by the thread of the ticks.
BeginTick ==
  /\ host = "up"
  /\ todo = <<>>
  /\ todo' \in InOrder({n \in Names : /\ entries[n].there
                                     /\ DueAt(entries[n].mark, clock)
                                     /\ n \notin running})
  /\ UNCHANGED <<memoryVars, host, clock, entries, running, turn, puts, chats, stops, ended, wanted>>

\* A turn recalls first.
BeginTurn(t) ==
  /\ turn[t].at = "away"
  /\ turn' = [turn EXCEPT ![t] = [NoTurn EXCEPT !.at = "boundary"]]
  /\ Recall(t)
  /\ UNCHANGED <<sidecar, pipe, guard, forge, pending, books, faults>>

RunEntry ==
  /\ todo # <<>>
  /\ running' = running \cup {Head(todo)}
  /\ BeginTurn(Scheduler)
  /\ UNCHANGED <<host, clock, entries, todo, puts, chats, stops, ended, wanted>>

\* MUTANT: only a run that replied is marked.
MarkRunReplied ==
  /\ turn[Scheduler].at = "over"
  /\ call[Scheduler].at = "none"
  /\ turn' = [turn EXCEPT ![Scheduler] = NoTurn]
  /\ LET n == Head(todo)
     IN  /\ IF entries[n].there /\ turn[Scheduler].end = "reply"
            THEN entries' = [entries EXCEPT ![n].mark = clock] /\ ended' = [ended EXCEPT ![n] = clock]
            ELSE UNCHANGED <<entries, ended>>
         /\ running' = running \ {n}
         /\ todo' = Tail(todo)
  /\ UNCHANGED <<memoryVars, host, clock, puts, chats, stops, wanted>>

\* The run is over: it is marked, if the entry is still there.
MarkRun ==
  /\ turn[Scheduler].at = "over"
  /\ call[Scheduler].at = "none"
  /\ turn' = [turn EXCEPT ![Scheduler] = NoTurn]
  /\ LET n == Head(todo)
     IN  /\ IF entries[n].there
            THEN entries' = [entries EXCEPT ![n].mark = clock] /\ ended' = [ended EXCEPT ![n] = clock]
            ELSE UNCHANGED <<entries, ended>>
         /\ running' = running \ {n}
         /\ todo' = Tail(todo)
  /\ UNCHANGED <<memoryVars, host, clock, puts, chats, stops, wanted>>

\* The mark fails: the tick is over, and the name stays among those that are running.
MarkFails ==
  /\ turn[Scheduler].at = "over"
  /\ call[Scheduler].at = "none"
  /\ turn' = [turn EXCEPT ![Scheduler] = NoTurn]
  /\ Fault
  /\ todo' = <<>>
  /\ ended' = [ended EXCEPT ![Head(todo)] = Never]
  /\ UNCHANGED <<sidecar, pipe, guard, forge, pending, call, books,
                 host, clock, entries, running, puts, chats, stops, wanted>>

-----------------------------------------------------------------------------
(* Turns *)

\* do_POST: a caller's turn.
BeginChat(t) ==
  /\ host = "up"
  /\ chats < MaxChats /\ chats' = chats + 1
  /\ BeginTurn(t)
  /\ UNCHANGED <<host, clock, entries, running, todo, puts, stops, ended, wanted>>

TurnTo(t, next) ==
  /\ turn' = [turn EXCEPT ![t] = next]
  /\ UNCHANGED <<host, clock, entries, running, todo, puts, chats, stops, ended, wanted>>

\* Between two steps, the first after the recall, the turn may be over: its steps or its
\* time are used up, or its caller is gone.
Boundary(t) ==
  /\ turn[t].at = "boundary"
  /\ call[t].at = "none"
  /\ TurnTo(t, [turn[t] EXCEPT !.at = "over", !.end = "error"])
  /\ UNCHANGED memoryVars

BeginStep(t) ==
  /\ turn[t].at = "boundary"
  /\ call[t].at = "none"
  /\ turn[t].step < MaxSteps
  /\ forge = Nobody
  /\ forge' = t
  /\ TurnTo(t, [turn[t] EXCEPT !.at = "step", !.step = @ + 1])
  /\ UNCHANGED <<sidecar, pipe, guard, pending, call, books, faults>>

\* The step fails, or the stream to its caller is found cut; or its answer asked for tools.
EndStep(t) ==
  /\ turn[t].at = "step"
  /\ forge' = Nobody
  /\ \/ TurnTo(t, [turn[t] EXCEPT !.at = "over", !.end = "error"])
     \/ TurnTo(t, [turn[t] EXCEPT !.at = "boundary"])
  /\ UNCHANGED <<sidecar, pipe, guard, pending, call, books, faults>>

\* MUTANT: what was said is recorded with the lock of the compiler held.
AnswerStepHolding(t) ==
  /\ turn[t].at = "step"
  /\ \E n \in 1..2 : Call(t, [NoCall EXCEPT !.at = "record", !.todo = n])
  /\ TurnTo(t, [turn[t] EXCEPT !.at = "over", !.end = "reply"])
  /\ UNCHANGED <<sidecar, pipe, guard, forge, pending, books, faults>>

\* Or it is the last one: what was asked and, if anything, answered is recorded.
AnswerStep(t) ==
  /\ turn[t].at = "step"
  /\ forge' = Nobody
  /\ \E n \in 1..2 : Call(t, [NoCall EXCEPT !.at = "record", !.todo = n])
  /\ TurnTo(t, [turn[t] EXCEPT !.at = "over", !.end = "reply"])
  /\ UNCHANGED <<sidecar, pipe, guard, pending, books, faults>>

\* The caller is told how the turn ended, or is not there any more.
Respond(t) ==
  /\ t # Scheduler
  /\ turn[t].at = "over"
  /\ call[t].at = "none"
  /\ TurnTo(t, NoTurn)
  /\ UNCHANGED memoryVars

-----------------------------------------------------------------------------
(* The process *)

\* The process ends, by a crash or by its operator, and the sidecar with it.  The kernel
\* drops its lock of the state directory; the buffer of the memory is lost.
Stop ==
  /\ host = "up"
  /\ stops < MaxStops /\ stops' = stops + 1
  /\ host' = "down"
  /\ sidecar' = "dead"
  /\ pipe' = Nobody /\ guard' = Nobody /\ forge' = Nobody
  /\ Owe(0)
  /\ pending' = <<>>
  /\ call' = [t \in Threads |-> NoCall]
  /\ running' = {}
  /\ todo' = <<>>
  /\ turn' = [t \in Talkers |-> NoTurn]
  /\ UNCHANGED <<faults, clock, entries, puts, chats, ended, wanted>>

\* acquire_state_lock: the lock is held by a process for as long as it lives, and dies with it.
StateFree == host = "down"

\* main: a process that finds the lock free opens the state and starts its sidecar.
Start ==
  /\ StateFree
  /\ host' = "up"
  /\ sidecar' = "up"
  /\ UNCHANGED <<pipe, guard, forge, pending, call, books, faults,
                 clock, entries, running, todo, turn, puts, chats, stops, ended, wanted>>

Tick ==
  /\ clock < MaxNow
  /\ clock' = clock + 1
  /\ UNCHANGED <<memoryVars, host, entries, running, todo, turn, puts, chats, stops, ended, wanted>>

Schedules == BeginTick \/ RunEntry \/ MarkRun
Steps(t) == Boundary(t) \/ BeginStep(t) \/ EndStep(t) \/ AnswerStep(t) \/ Respond(t)

Memory == host = "up" /\ MemoryNext /\ UNCHANGED hostVars

Next ==
  \/ Requests
  \/ Schedules \/ MarkFails
  \/ \E t \in Clients : BeginChat(t)
  \/ \E t \in Talkers : Steps(t)
  \/ Memory
  \/ Stop \/ Start \/ Tick

\* Every thread goes on, a forge comes to an end, the sidecar that was asked something
\* answers, asks or dies, and a host that is down is started again.
Thread(t) ==
  \/ t = Scheduler /\ Schedules
  \/ t \in Talkers /\ Steps(t)
  \/ Host(t) /\ UNCHANGED hostVars

Fairness ==
  /\ \A t \in Threads : WF_vars(Thread(t))
  /\ WF_vars(\E t \in Threads : Sidecar(t) /\ UNCHANGED hostVars)
  /\ WF_vars(Start)

Spec == Init /\ [][Next]_vars /\ Fairness

\* A sidecar that may fall silent.
SpecSilent ==
  Init /\ [][Next]_vars /\ WF_vars(Start) /\ \A t \in Threads : WF_vars(Thread(t))

-----------------------------------------------------------------------------

\* SAFETY: the schedule file is what its operator last said of each entry, whatever a tick
\* that read it before was still to write.
OperatorsWord == {n \in Names : entries[n].there} = wanted

\* ACTION: an entry that ran, and was marked, runs again no sooner than its interval later,
\* whether it was edited, the tick was long, or the host was down in between.
RunsSpaced ==
  [][\A n \in running' \ running : ended[n] # Never => clock - ended[n] >= Every]_vars

\* Who holds a lock, and who is after it: that of the buffer, of the conversation, of the
\* compiler.
Holds(t, lock) == t = <<guard, pipe, forge>>[lock]

Wants(t, lock) ==
  \/ lock = 1 /\ call[t].at = "record"
  \/ lock = 2 /\ Calls(t)
  \/ lock = 3 /\ call[t].asked
  \/ lock = 3 /\ t \in Talkers /\ turn[t].at = "boundary" /\ call[t].at = "none"

WaitsFor(t, other) == \E lock \in 1..3 : Wants(t, lock) /\ Holds(other, lock)

\* SAFETY: among any threads there is one that waits for none of them, although a turn
\* wants the conversation while it holds the buffer, and the thread that holds the
\* conversation wants the compiler.
NoCircle == \A W \in SUBSET Threads : W # {} => \E t \in W : \A u \in W : ~WaitsFor(t, u)

\* LIVENESS: every turn ends, though the memory asks for completions that wait for the
\* compiler, dreams, or dies.  Violated under SpecSilent: a turn that has sent its request
\* waits for a reply without end, with the lock of the buffer, though "memory being busy,
\* slow, or dead" is to cost a turn its recall at most.
TurnsGoOn == \A t \in Talkers : turn[t].at # "away" ~> turn[t].at = "away"

\* The entries whose mark failed since the host was started: running, and no turn of them.
Stuck == {n \in running : turn[Scheduler].at = "away" \/ n # Head(todo)}

\* LIVENESS: an entry that is due is run and marked, or removed, however its turns end,
\* the host ends, or the caller's turns go on; unless a mark of it failed.
DueRuns ==
  \A n \in Names :
    entries[n].there /\ DueAt(entries[n].mark, clock) ~>
      ~(entries[n].there /\ DueAt(entries[n].mark, clock)) \/ n \in Stuck

\* Violated: a failed mark keeps its entry from running for as long as the host is up,
\* though "a permanently-broken job retries on its cadence".
DueRunsWhateverFails ==
  \A n \in Names :
    entries[n].there /\ DueAt(entries[n].mark, clock) ~>
      ~(entries[n].there /\ DueAt(entries[n].mark, clock))
=============================================================================
