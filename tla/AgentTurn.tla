------------------------------- MODULE AgentTurn -------------------------------
(***************************************************************************)
(* Turns of the agent on one session: the loop of model calls and tool     *)
(* calls, the transcript it sends and saves, and what it counts.           *)
(*                                                                         *)
(* A turn loads the transcript under the session's lock, adds the user's   *)
(* message, and goes on until an answer asks for no tool.  It may end at   *)
(* any forge: by its deadline, a compiler that fails, a refusal of the     *)
(* provider; or between two steps: the caller is gone, the steps are used  *)
(* up.  Whatever ended it, it saves what it has, cut to the limit.         *)
(*                                                                         *)
(* The provider refuses a transcript in which a tool call is not answered  *)
(* by the next message, an answer has no call, an assistant's message is   *)
(* empty, or the first message is not a user's.  Nothing repairs a saved   *)
(* one, so a transcript it refuses is the end of the session.              *)
(*                                                                         *)
(* A message is a user's ask, an assistant's say with some calls, or the   *)
(* results of those; its weight stands for its bytes.                      *)
(***************************************************************************)
EXTENDS Integers, Sequences, FiniteSetsExt, SequencesExt

CONSTANTS
  Turns,      \* threads that run turns of the session, one turn after another
  Nobody,
  Timed,      \* those whose turns have a deadline
  MaxSteps,   \* max_steps
  Retries,    \* llm_retries
  Limit,      \* max_history_bytes
  Clip,       \* max_tool_result_bytes, as the weight of a clipped result
  MaxCalls,   \* bound: tool calls of one answer
  MaxAsks     \* bound: turns that are begun

ASSUME TurnAssumption ==
  /\ Nobody \notin Turns
  /\ Timed \subseteq Turns
  /\ {MaxSteps, Limit, Clip, MaxCalls, MaxAsks} \subseteq Nat \ {0}
  /\ Retries \in Nat

VARIABLES
  store,  \* the saved transcript
  lock,   \* who holds the session's lock
  turn,   \* what each thread does
  asked,  \* turns begun so far: each ask has a number of its own
  saved   \* history: the asks of the turns that were saved, in their order

vars == <<store, lock, turn, asked, saved>>

Message == [is : {"ask", "say", "results"}, ask : 0..MaxAsks, text : BOOLEAN,
            calls : 0..MaxCalls, weight : Nat]

Ask(n) == [is |-> "ask", ask |-> n, text |-> TRUE, calls |-> 0, weight |-> 1]
Say(text, calls) == [is |-> "say", ask |-> 0, text |-> text, calls |-> calls, weight |-> 1]
Results(calls, weight) ==
  [is |-> "results", ask |-> 0, text |-> FALSE, calls |-> calls, weight |-> 1 + weight]

Phases == {"away", "waiting", "step", "calling", "parsing", "tools", "saving"}

Away == [at |-> "away", ask |-> 0, messages |-> <<>>, step |-> 0, attempt |-> 0,
         text |-> FALSE, calls |-> 0, done |-> 0, weight |-> 0,
         billed |-> 0, parsed |-> 0, counted |-> 0, replied |-> FALSE]

\* TYPE: the turns and their transcripts.
TypeOK ==
  /\ store \in Seq(Message)
  /\ lock \in Turns \cup {Nobody}
  /\ asked \in 0..MaxAsks
  /\ saved \in Seq(1..MaxAsks)
  /\ turn \in [Turns ->
       [at : Phases, ask : 0..MaxAsks, messages : Seq(Message), step : 0..MaxSteps,
        attempt : 0..Retries, text : BOOLEAN, calls : 0..MaxCalls, done : 0..MaxCalls,
        weight : Nat, billed : Nat, parsed : Nat, counted : Nat,
        replied : BOOLEAN]]

Init ==
  /\ store = <<>>
  /\ lock = Nobody
  /\ turn = [t \in Turns |-> Away]
  /\ asked = 0
  /\ saved = <<>>

-----------------------------------------------------------------------------
(* Compaction. *)

\* history_bytes
Weight(messages) == FoldSeq(LAMBDA m, sum : m.weight + sum, 0, messages)

From(messages, i) == SubSeq(messages, i, Len(messages))

\* segment_starts: the user's own messages
Starts(messages) == {i \in 1..Len(messages) : messages[i].is = "ask"}

\* MUTANT: the loop over the cuts does not stop at the first that fits.
CompactLate(messages) ==
  IF Weight(messages) <= Limit \/ Starts(messages) = {} THEN messages
  ELSE LET starts == Starts(messages)
           cuts == {i \in starts \ {Min(starts)} : Weight(From(messages, i)) <= Limit}
       IN  From(messages, IF cuts # {} THEN Max(cuts) ELSE Max(starts))

\* compact: the oldest segments go until the rest fits; the newest one stays.
Compact(messages) ==
  IF Weight(messages) <= Limit \/ Starts(messages) = {} THEN messages
  ELSE LET starts == Starts(messages)
           cuts == {i \in starts \ {Min(starts)} : Weight(From(messages, i)) <= Limit}
       IN  From(messages, IF cuts # {} THEN Min(cuts) ELSE Max(starts))

-----------------------------------------------------------------------------
(* A turn. *)

Set(t, next) == turn' = [turn EXCEPT ![t] = next]

Arrive(t) ==
  /\ turn[t].at = "away"
  /\ asked < MaxAsks
  /\ asked' = asked + 1
  /\ Set(t, [Away EXCEPT !.at = "waiting", !.ask = asked'])
  /\ UNCHANGED <<store, lock, saved>>

\* MUTANT: the transcript is loaded without the session's lock.
EnterUnlocked(t) ==
  /\ turn[t].at = "waiting"
  /\ Set(t, [turn[t] EXCEPT !.at = "step", !.messages = Append(store, Ask(turn[t].ask))])
  /\ UNCHANGED <<store, lock, asked, saved>>

\* The lock, the transcript, the user's message.
Enter(t) ==
  /\ turn[t].at = "waiting"
  /\ lock = Nobody
  /\ lock' = t
  /\ Set(t, [turn[t] EXCEPT !.at = "step", !.messages = Append(store, Ask(turn[t].ask))])
  /\ UNCHANGED <<store, asked, saved>>

\* The deadline passes at the lock: nothing has happened, nothing is saved.
GiveUp(t) ==
  /\ turn[t].at = "waiting"
  /\ t \in Timed
  /\ Set(t, Away)
  /\ UNCHANGED <<store, lock, asked, saved>>

\* The caller is gone, or the turn is past its budget, or out of steps.
StopAtStep(t) ==
  /\ turn[t].at = "step"
  /\ Set(t, [turn[t] EXCEPT !.at = "saving"])
  /\ UNCHANGED <<store, lock, asked, saved>>

\* The transcript is cut to the limit and goes out.
Send(t) ==
  /\ turn[t].at = "step"
  /\ turn[t].step < MaxSteps
  /\ Set(t, [turn[t] EXCEPT !.at = "calling", !.messages = Compact(@)])
  /\ UNCHANGED <<store, lock, asked, saved>>

\* The provider answers.
Answered(t) ==
  /\ turn[t].at = "calling"
  /\ Set(t, [turn[t] EXCEPT !.at = "parsing", !.attempt = 0, !.billed = @ + 1])
  /\ UNCHANGED <<store, lock, asked, saved>>

\* _llm: a rate limit or a server's error, after a pause once more.
Retry(t) ==
  /\ turn[t].at = "calling"
  /\ turn[t].attempt < Retries
  /\ Set(t, [turn[t] EXCEPT !.attempt = @ + 1])
  /\ UNCHANGED <<store, lock, asked, saved>>

\* The answer is parsed: some calls, or the reply.  An answer without any call may have
\* no text either.
Parse(t) ==
  /\ turn[t].at = "parsing"
  /\ \E calls \in 0..MaxCalls, text \in BOOLEAN :
       /\ calls > 0 => text
       /\ Set(t, [turn[t] EXCEPT !.at = "tools", !.parsed = @ + 1,
                                 !.calls = calls, !.text = text, !.done = 0, !.weight = 0])
  /\ UNCHANGED <<store, lock, asked, saved>>

\* The next call of the answer: refused, or forged with or without success; an error
\* is a result as well, and a result is clipped.
Dispatch(t) ==
  /\ turn[t].at = "tools"
  /\ turn[t].done < turn[t].calls
  /\ \E weight \in {0, Clip} :
       Set(t, [turn[t] EXCEPT !.done = @ + 1, !.weight = @ + weight])
  /\ UNCHANGED <<store, lock, asked, saved>>

\* The answer is left behind.
Leave(t) == [turn[t] EXCEPT !.attempt = 0, !.text = FALSE, !.calls = 0, !.done = 0, !.weight = 0]

\* The usage frame, which comes last.
Metered(t) == [Leave(t) EXCEPT !.counted = @ + 1]

\* No calls: that is the reply.  An answer without content is not kept.
EndReply(t) ==
  /\ turn[t].at = "tools"
  /\ turn[t].calls = 0
  /\ Set(t, [Metered(t) EXCEPT !.at = "saving", !.replied = TRUE,
                               !.messages = IF turn[t].text THEN Append(@, Say(TRUE, 0)) ELSE @])
  /\ UNCHANGED <<store, lock, asked, saved>>

\* Every call has its result: both go into the transcript, and the next step comes,
\* unless the caller is gone when it is told of this one.
EndStep(t) ==
  /\ turn[t].at = "tools"
  /\ turn[t].calls > 0
  /\ turn[t].done = turn[t].calls
  /\ \E next \in {"step", "saving"} :
       Set(t, [Metered(t) EXCEPT
                 !.at = next, !.step = @ + 1,
                 !.messages = @ \o <<Say(turn[t].text, turn[t].calls),
                                     Results(turn[t].calls, turn[t].weight)>>])
  /\ UNCHANGED <<store, lock, asked, saved>>

\* MUTANT: the answer is kept as far as it was followed.
CutKeepingAnswer(t) ==
  /\ turn[t].at \in {"calling", "parsing", "tools"}
  /\ Set(t, [Leave(t) EXCEPT !.at = "saving",
                            !.messages = IF turn[t].at = "tools" /\ turn[t].calls > 0
                                         THEN Append(@, Say(turn[t].text, turn[t].calls)) ELSE @])
  /\ UNCHANGED <<store, lock, asked, saved>>

\* MUTANT: what was counted goes with the exception.
CutUncounted(t) ==
  /\ turn[t].at \in {"calling", "parsing", "tools"}
  /\ turn[t].at = "tools" => turn[t].done < turn[t].calls
  /\ \E billed \in {0, 1} :
       /\ billed = 1 => turn[t].at = "calling"
       /\ Set(t, [Leave(t) EXCEPT !.at = "saving", !.billed = @ + billed, !.counted = 0])
  /\ UNCHANGED <<store, lock, asked, saved>>

\* The deadline, a compiler that fails, a refusal: the exception leaves the loop, and
\* what there is of the answer is gone.  A call cut off may have been billed.
Cut(t) ==
  /\ turn[t].at \in {"calling", "parsing", "tools"}
  /\ turn[t].at = "tools" => turn[t].done < turn[t].calls
  /\ \E billed \in {0, 1} :
       /\ billed = 1 => turn[t].at = "calling"
       /\ Set(t, [Leave(t) EXCEPT !.at = "saving", !.billed = @ + billed])
  /\ UNCHANGED <<store, lock, asked, saved>>

\* finally: the transcript replaces the saved one, the lock is released.
Save(t) ==
  /\ turn[t].at = "saving"
  /\ store' = Compact(turn[t].messages)
  /\ saved' = Append(saved, turn[t].ask)
  /\ lock' = Nobody
  /\ Set(t, Away)
  /\ UNCHANGED asked

\* MUTANT: the lock is released after the transcript is saved, not whatever happens.
SaveFailsLocked(t) ==
  /\ turn[t].at = "saving"
  /\ Set(t, Away)
  /\ UNCHANGED <<store, lock, asked, saved>>

\* The disk refuses: the old transcript stays, the caller gets an error.
SaveFails(t) ==
  /\ turn[t].at = "saving"
  /\ lock' = Nobody
  /\ Set(t, Away)
  /\ UNCHANGED <<store, asked, saved>>

\* The process dies; what was saved was saved in one step.
Crash ==
  /\ \E t \in Turns : turn[t].at # "away"
  /\ turn' = [t \in Turns |-> Away]
  /\ lock' = Nobody
  /\ UNCHANGED <<store, asked, saved>>

Proceed(t) ==
  \/ Enter(t) \/ GiveUp(t) \/ StopAtStep(t) \/ Send(t)
  \/ Answered(t) \/ Retry(t) \/ Parse(t) \/ Dispatch(t) \/ EndReply(t) \/ EndStep(t)
  \/ Cut(t) \/ Save(t) \/ SaveFails(t)

Next == (\E t \in Turns : Arrive(t) \/ Proceed(t)) \/ Crash

Spec == Init /\ [][Next]_vars

\* A forge ends, by its answer or its fuel; a thread that runs goes on.
FairSpec == Spec /\ \A t \in Turns : SF_vars(Proceed(t))

-----------------------------------------------------------------------------
(* Properties. *)

\* What the provider accepts: the transcript opens on an ask, no say is empty, and calls
\* and results come in pairs.
Valid(messages) ==
  /\ messages # <<>> => messages[1].is = "ask"
  /\ \A i \in 1..Len(messages) :
       /\ messages[i].is = "say" /\ messages[i].calls = 0 => messages[i].text
       /\ messages[i].is = "say" /\ messages[i].calls > 0 =>
            /\ i < Len(messages)
            /\ messages[i + 1].is = "results"
            /\ messages[i + 1].calls = messages[i].calls
       /\ messages[i].is = "results" =>
            /\ i > 1
            /\ messages[i - 1].is = "say"
            /\ messages[i - 1].calls = messages[i].calls

\* SAFETY: whatever ends a turn, what is saved, and what a later turn sends, is a
\* transcript the provider accepts; what is sent ends with the user's side.
SendsValid ==
  /\ Valid(store)
  /\ \A t \in Turns : turn[t].at = "calling" =>
       /\ Valid(turn[t].messages)
       /\ turn[t].messages # <<>>
       /\ Last(turn[t].messages).is \in {"ask", "results"}

\* SAFETY: compact keeps as many whole turns as fit: its result is the longest suffix
\* that opens on an ask and fits or, when none does, the newest turn alone.
CompactKeepsMost ==
  \A t \in Turns :
    LET whole == turn[t].messages
        kept == Compact(whole)
    IN  turn[t].at \in {"step", "saving"} =>
          /\ \E i \in Starts(whole) : kept = From(whole, i)
          /\ Weight(kept) <= Limit \/ Cardinality(Starts(kept)) = 1
          /\ \A i \in Starts(whole) :
               Weight(From(whole, i)) <= Limit => Len(From(whole, i)) <= Len(kept)

\* How many asks of a transcript are newer than the one at i.
Newer(messages, i) == Cardinality({j \in Starts(messages) : j > i})

\* The asks of a transcript are the newest of these, each once and in their order.
EndsOn(messages, asks) ==
  /\ asks # <<>> => Starts(messages) # {}
  /\ \A i \in Starts(messages) :
       /\ Newer(messages, i) < Len(asks)
       /\ messages[i].ask = asks[Len(asks) - Newer(messages, i)]

\* SAFETY: the saved transcript holds the newest of the turns that were saved, each once
\* and in their order, and the last of them for certain.
NoTurnLost == EndsOn(store, saved)

\* SAFETY: the usage a turn reports lacks at most the one answer it was cut at, and a
\* turn that replies reports all of it.
UsageNearlyExact ==
  \A t \in Turns :
    /\ turn[t].billed - turn[t].counted \in 0..1
    /\ turn[t].replied => turn[t].billed = turn[t].counted

\* LIVENESS: every turn ends and leaves the session to the next one.
TurnsEnd == \A t \in Turns : turn[t].at # "away" ~> turn[t].at = "away"

\* Violated: an answer that was parsed, and with it the usage the provider reported, is
\* counted when the turn ends (docs/operations.md:98).
ParsedIsCounted ==
  \A t \in Turns : turn[t].at = "saving" => turn[t].counted = turn[t].parsed

=============================================================================
