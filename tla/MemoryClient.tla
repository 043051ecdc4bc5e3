------------------------------ MODULE MemoryClient -----------------------------
(***************************************************************************)
(* PiMemory, the host's side of the memory sidecar: one conversation at a  *)
(* time over a pipe, under a lock.                                         *)
(*                                                                         *)
(* A turn recalls before its first step and records what was said after    *)
(* its last.  It waits for the lock no longer than recall_lock_timeout:    *)
(* a recall that does not get it goes without, a record that does not is   *)
(* kept in a bounded buffer and tried again with the next one.  A dream    *)
(* holds the lock from its request to its reply, however many completions  *)
(* the sidecar asks the host for in between; past a cap it is killed.      *)
(* A sidecar that is gone answers nothing any more, and nothing fails.     *)
(*                                                                         *)
(* Once a request is sent, nothing bounds the wait for its reply.          *)
(***************************************************************************)
EXTENDS Integers, Sequences, SequencesExt

CONSTANTS
  Talkers,       \* threads of the host that run turns
  Dreamer,       \* the thread of the memory ticks
  Nobody,
  MaxPending,    \* MAX_MEMORY_PENDING
  MaxCallbacks,  \* MAX_MEMORY_CALLBACKS
  MaxFaults      \* bound: deaths, garbled lines and failed writes

ASSUME MemoryAssumption ==
  /\ Dreamer \notin Talkers
  /\ Nobody \notin Talkers \cup {Dreamer}
  /\ MaxPending \in Nat \ {0}
  /\ {MaxCallbacks, MaxFaults} \subseteq Nat

Threads == Talkers \cup {Dreamer}

VARIABLES
  sidecar,  \* up, or dead for as long as the host runs
  pipe,     \* who holds the lock of the conversation
  guard,    \* who holds the lock of the buffer
  forge,    \* who holds the lock of the compiler
  pending,  \* the buffer
  call,     \* the call of the memory that each thread is in
  owed,     \* history: how many records were made, and neither done with nor given up
  doubled,  \* history: whether one was taken twice for which there was a reply
  faults

books == <<owed, doubled>>
memoryVars == <<sidecar, pipe, guard, forge, pending, call, books, faults>>

\* A record, as what became of it: the sidecar did not take it, did, or did and had its reply
\* garbled.  The host does not tell these apart.
Records == {"new", "taken", "unsure"}

NoCall == [at |-> "none", todo |-> 0, work |-> <<>>, still |-> <<>>,
           asked |-> FALSE, callbacks |-> 0]

MemoryTypeOK ==
  /\ sidecar \in {"up", "dead"}
  /\ pipe \in Threads \cup {Nobody}
  /\ {guard, forge} \subseteq Talkers \cup {Nobody}
  /\ pending \in Seq(Records)
  /\ Len(pending) <= MaxPending
  /\ call \in [Threads ->
       [at : {"none", "recall", "recalling", "record", "flush", "landing", "landed",
              "dreaming"},
        todo : 0..2, work : Seq(Records), still : Seq(Records),
        asked : BOOLEAN, callbacks : 0..MaxCallbacks]]
  /\ owed \in Nat
  /\ doubled \in BOOLEAN
  /\ faults \in 0..MaxFaults

MemoryInit ==
  /\ sidecar = "up"
  /\ pipe = Nobody /\ guard = Nobody /\ forge = Nobody
  /\ pending = <<>>
  /\ call = [t \in Threads |-> NoCall]
  /\ owed = 0 /\ doubled = FALSE
  /\ faults = 0

-----------------------------------------------------------------------------

Call(t, next) == call' = [call EXCEPT ![t] = next]

Fault == faults < MaxFaults /\ faults' = faults + 1

Owe(n) == owed' = n /\ UNCHANGED doubled

\* Those in want of the pipe, and what they are at once they have it.
Sending == [recall |-> "recalling", flush |-> "landing"]

Calls(t) == call[t].at \in DOMAIN Sending /\ (call[t].at = "flush" => call[t].work # <<>>)
Waits(t) == call[t].at \in {"recalling", "landing", "landed", "dreaming"}
Listens(t) == Waits(t) /\ ~call[t].asked

\* Where a thread is after a call that came to nothing, and after one that was served.
Degraded(t) ==
  IF call[t].at \in {"flush", "landing", "landed"}
  THEN [call[t] EXCEPT !.at = "flush", !.callbacks = 0,
                       !.work = Tail(@), !.still = Append(@, Head(call[t].work))]
  ELSE NoCall

Served(t) ==
  IF call[t].at \in {"landing", "landed"}
  THEN [call[t] EXCEPT !.at = "flush", !.callbacks = 0, !.work = Tail(@)]
  ELSE NoCall

\* The buffer with one more, without its oldest when it was full.
Buffered ==
  LET all == Append(pending, "new")
  IN  IF Len(all) > MaxPending THEN Tail(all) ELSE all

Record(t) ==
  /\ call[t].at = "record"
  /\ pending' = Buffered
  /\ Owe(owed + Len(Buffered) - Len(pending))
  /\ Call(t, [call[t] EXCEPT !.at = "flush", !.todo = @ - 1, !.work = Buffered])
  /\ UNCHANGED <<sidecar, pipe, forge, faults>>

\* MUTANT: the guard is not taken.
OpenBufferUnguarded(t) == Record(t) /\ UNCHANGED guard

\* record: the buffer takes one more, and all of it is tried.
OpenBuffer(t) == guard = Nobody /\ guard' = t /\ Record(t)

\* The last one was tried: the buffer is what is still to be sent.
CloseBuffer(t) ==
  /\ call[t].at = "flush"
  /\ call[t].work = <<>>
  /\ pending' = call[t].still
  /\ guard' = Nobody
  /\ Call(t, IF call[t].todo = 0 THEN NoCall
             ELSE [call[t] EXCEPT !.at = "record", !.still = <<>>])
  /\ UNCHANGED <<sidecar, pipe, forge, books, faults>>

\* recall: a turn asks once, and takes nothing for an answer.
Recall(t) == Call(t, [NoCall EXCEPT !.at = "recall"])

\* _call: the lock, and the request goes out; with no sidecar to read it, in vain.
Ask(t) ==
  /\ Calls(t)
  /\ pipe = Nobody
  /\ IF sidecar = "up"
     THEN pipe' = t /\ Call(t, [call[t] EXCEPT !.at = Sending[@]])
     ELSE pipe' = pipe /\ Call(t, Degraded(t))
  /\ UNCHANGED <<sidecar, guard, forge, pending, books, faults>>

\* The lock is not to be had in time.
Busy(t) ==
  /\ Calls(t)
  /\ pipe # Nobody
  /\ Call(t, Degraded(t))
  /\ UNCHANGED <<sidecar, pipe, guard, forge, pending, books, faults>>

\* The sidecar takes a record; it is yet to say so.
Land(t) ==
  /\ call[t].at = "landing"
  /\ Listens(t)
  /\ sidecar = "up"
  /\ doubled' = (doubled \/ Head(call[t].work) = "taken")
  /\ Call(t, [call[t] EXCEPT !.at = "landed", !.work[1] = "taken"])
  /\ UNCHANGED <<sidecar, pipe, guard, forge, pending, owed, faults>>

\* MUTANT: the callbacks are not counted.
CallBackUncounted(t) ==
  /\ Listens(t)
  /\ call[t].at # "landed"
  /\ sidecar = "up"
  /\ Call(t, [call[t] EXCEPT !.asked = TRUE])
  /\ UNCHANGED <<sidecar, pipe, guard, forge, pending, books, faults>>

\* The sidecar asks the host for a completion.
CallBack(t) ==
  /\ Listens(t)
  /\ call[t].at # "landed"
  /\ sidecar = "up"
  /\ call[t].callbacks < MaxCallbacks
  /\ Call(t, [call[t] EXCEPT !.asked = TRUE, !.callbacks = @ + 1])
  /\ UNCHANGED <<sidecar, pipe, guard, forge, pending, books, faults>>

\* It asks for an embedding, which takes no lock, and is answered or told why not.
Embed(t) ==
  /\ Listens(t)
  /\ call[t].at # "landed"
  /\ sidecar = "up"
  /\ call[t].callbacks < MaxCallbacks
  /\ Call(t, [call[t] EXCEPT !.callbacks = @ + 1])
  /\ UNCHANGED <<sidecar, pipe, guard, forge, pending, books, faults>>

\* _memory_complete: a completion once the compiler is free, be it that there is none.
AnswerBack(t) ==
  /\ call[t].asked
  /\ forge = Nobody
  /\ Call(t, [call[t] EXCEPT !.asked = FALSE])
  /\ UNCHANGED <<sidecar, pipe, guard, forge, pending, books, faults>>

\* One callback too many, or a reply to another request: the host kills the sidecar.
Kill(t) ==
  /\ Listens(t)
  /\ sidecar = "up"
  /\ \/ call[t].at # "landed" /\ call[t].callbacks = MaxCallbacks /\ faults' = faults
     \/ Fault
  /\ sidecar' = "dead"
  /\ pipe' = Nobody
  /\ Call(t, Degraded(t))
  /\ UNCHANGED <<guard, forge, pending, books>>

Reply(t) ==
  /\ Listens(t)
  /\ call[t].at # "landing"
  /\ sidecar = "up"
  /\ pipe' = Nobody
  /\ Call(t, Served(t))
  /\ IF call[t].at = "landed" THEN Owe(owed - 1) ELSE UNCHANGED books
  /\ UNCHANGED <<sidecar, guard, forge, pending, faults>>

\* A record that the sidecar does not take: its store is busy, which keeps the record in
\* the buffer, or it refuses it for good, which drops it with a note.
Refuse(t) ==
  /\ call[t].at = "landing"
  /\ Listens(t)
  /\ sidecar = "up"
  /\ pipe' = Nobody
  /\ \/ Call(t, Degraded(t)) /\ UNCHANGED books
     \/ Call(t, Served(t)) /\ Owe(owed - 1)
  /\ UNCHANGED <<sidecar, guard, forge, pending, faults>>

\* A line that is no JSON: the host gives the call up and leaves the sidecar alone.
Garble(t) ==
  /\ Listens(t)
  /\ call[t].at # "landing"
  /\ sidecar = "up"
  /\ Fault
  /\ pipe' = Nobody
  /\ Call(t, IF call[t].at = "landed"
             THEN [Degraded(t) EXCEPT !.still[Len(call[t].still) + 1] = "unsure"]
             ELSE Degraded(t))
  /\ UNCHANGED <<sidecar, guard, forge, pending, books>>

\* The end of the pipe.
Hangup(t) ==
  /\ Listens(t)
  /\ sidecar = "dead"
  /\ pipe' = Nobody
  /\ Call(t, Degraded(t))
  /\ UNCHANGED <<sidecar, guard, forge, pending, books, faults>>

\* The sidecar dies by itself.
Die ==
  /\ sidecar = "up"
  /\ Fault
  /\ sidecar' = "dead"
  /\ UNCHANGED <<pipe, guard, forge, pending, call, books>>

\* consolidate_now: a consolidation of every store, on a thread of its own, which waits for
\* the lock as long as it takes.
Dream ==
  /\ call[Dreamer].at = "none"
  /\ pipe = Nobody
  /\ sidecar = "up"
  /\ pipe' = Dreamer
  /\ Call(Dreamer, [NoCall EXCEPT !.at = "dreaming"])
  /\ UNCHANGED <<sidecar, guard, forge, pending, books, faults>>

\* What the host does of a call, and what the sidecar does of it.
Host(t) == Ask(t) \/ Busy(t) \/ AnswerBack(t) \/ OpenBuffer(t) \/ CloseBuffer(t)
Sidecar(t) == Land(t) \/ CallBack(t) \/ Embed(t) \/ Reply(t) \/ Refuse(t) \/ Garble(t) \/ Kill(t) \/ Hangup(t)

MemoryNext == Die \/ Dream \/ \E t \in Threads : Host(t) \/ Sidecar(t)

-----------------------------------------------------------------------------

\* A record that the sidecar has not confirmed, and that was not given up with a note, is
\* in the buffer or with the thread that is trying it.
RecordsKept ==
  owed = IF guard = Nobody THEN Len(pending) ELSE Len(call[guard].work) + Len(call[guard].still)

\* SAFETY: concurrent turns lose none of each other's records and leave none in that is
\* done with, and the sidecar takes one twice only if the line that said it was taken was
\* not JSON, however often it was tried, by whichever turn, and whatever died in between.
RecordsExact == RecordsKept /\ ~doubled
=============================================================================
