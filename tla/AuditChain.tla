------------------------------ MODULE AuditChain ------------------------------
(***************************************************************************)
(* The audit chains: one file per session, a record per forge, each linked *)
(* to the one before it.  Turns append; the verification monitor and the   *)
(* retention sweep walk all files while they do, without a lock; a         *)
(* deletion or the sweep removes a file as a whole.                        *)
(*                                                                         *)
(* An append reads the last line and writes the next under one lock, so    *)
(* what it trusts is the tail only.  A write may be cut: by a full disk,   *)
(* which record swallows and the turn survives, or with the process.  What *)
(* is left is a torn line, or a record that lacks nothing but its newline. *)
(*                                                                         *)
(* A line is torn, or a record of which the model keeps its place, its     *)
(* link, whether its error text holds a character at which str.splitlines  *)
(* splits but a newline does not (U+2028, U+0085), and whether its newline *)
(* is on disk.  Signatures are left out: nobody forges a record here.      *)
(***************************************************************************)
EXTENDS Integers, Sequences, SequencesExt

CONSTANTS
  NumSessions, \* sessions are numbered in the order of their files' names
  Writers,     \* turns that forge
  Calls,       \* which turns may come to each session
  Monitor,     \* AuditVerificationMonitor's thread
  Sweep,       \* ProductRetentionMonitor's thread
  Nobody,
  Texts,       \* error texts: a subset of {"plain", "separated"}
  MaxRecords   \* bound: records of each chain

Sessions == 1..NumSessions
Checkers == {Monitor, Sweep}

ASSUME AuditAssumption ==
  /\ Nobody \notin Writers
  /\ Monitor # Sweep
  /\ Texts \subseteq {"plain", "separated"}
  /\ NumSessions \in Nat
  /\ Calls \in [Sessions -> SUBSET Writers]
  /\ MaxRecords \in [Sessions -> Nat]

VARIABLES
  process,  \* whether the worker is up
  file,     \* the lines of each chain; no line: no file, or an empty one
  writer,   \* what each turn does
  lock,     \* AuditLog._lock
  checker,  \* where each verification is
  healthy,  \* _healthy of the monitor
  old,      \* sessions without activity since the running tick has fixed its cutoff
  kept      \* history: records of each chain whose append has returned normally

vars == <<process, file, writer, lock, checker, healthy, old, kept>>

Torn == [torn |-> TRUE]
Genesis == [genesis |-> TRUE]
Links == [seq : Nat] \cup {Genesis}
Records == [seq : Nat, prev : Links, text : Texts, ends : BOOLEAN]

\* entry_hash, as far as it tells the records of one chain apart
Hash(record) == [seq |-> record.seq]

NoEntry == [none |-> TRUE]
Away == [at |-> "away", in |-> NoEntry, prior |-> NoEntry, entry |-> NoEntry]
Idle == [at |-> "idle", left |-> {}, ok |-> TRUE, reading |-> NoEntry]

\* TYPE: chains, turns and verifications.
TypeOK ==
  /\ process \in {"down", "up"}
  /\ \A s \in Sessions : \A i \in 1..Len(file[s]) : file[s][i] \in Records \cup {Torn}
  /\ \A w \in Writers :
       /\ writer[w].at \in {"away", "turn", "tail", "half"}
       /\ writer[w].at # "away" => writer[w].in \in Sessions
       /\ writer[w].at \in {"tail", "half"} => writer[w].entry \in Records
  /\ lock \in Writers \cup {Nobody}
  /\ \A c \in Checkers :
       /\ checker[c].at \in {"idle", "walk", "read", "erase"}
       /\ checker[c].left \subseteq Sessions
       /\ checker[c].at = "read" => checker[c].reading \in Sessions
  /\ healthy \in BOOLEAN
  /\ old \subseteq Sessions
  /\ kept \in [Sessions -> Nat]

Init ==
  /\ process = "down"
  /\ file = [s \in Sessions |-> <<>>]
  /\ writer = [w \in Writers |-> Away]
  /\ lock = Nobody
  /\ checker = [c \in Checkers |-> Idle]
  /\ healthy = FALSE
  /\ old = {}
  /\ kept = [s \in Sessions |-> 0]

-----------------------------------------------------------------------------
(* Reading a chain. *)

\* _last_entry parses the last line between newlines, whatever its text.
TailReads(lines) == lines # <<>> => Last(lines) # Torn

Prior(lines) == IF lines = <<>> THEN NoEntry ELSE Last(lines)

\* _read_path parses every line between any of the separators of str.splitlines.
Reads(line) == line # Torn /\ line.text = "plain"

\* verify_chain: the record at place i links to the one before it.
LinksAt(lines, i) ==
  /\ lines[i].seq = i - 1
  /\ lines[i].prev = IF i = 1 THEN Genesis ELSE Hash(lines[i - 1])

\* verify_audit_dir's verdict on one file
Verifies(lines) ==
  /\ \A i \in 1..Len(lines) : Reads(lines[i])
  /\ \A i \in 1..Len(lines) : LinksAt(lines, i)

-----------------------------------------------------------------------------
(* Turns. *)

Busy(s) == \E w \in Writers : writer[w].at # "away" /\ writer[w].in = s

\* acquire_turn refreshes the session's activity.  AuditLog promises more than the
\* session locks of the product ask of it: several callers in one session.
StartTurn(w, s) ==
  /\ process = "up"
  /\ writer[w].at = "away"
  /\ w \in Calls[s]
  /\ writer' = [writer EXCEPT ![w].at = "turn", ![w].in = s]
  /\ old' = old \ {s}
  /\ UNCHANGED <<process, file, lock, checker, healthy, kept>>

EndTurn(w) ==
  /\ writer[w].at = "turn"
  /\ writer' = [writer EXCEPT ![w] = Away]
  /\ UNCHANGED <<process, file, lock, checker, healthy, old, kept>>

\* MUTANT: the record before, where its hash belongs.
EntryVerbatim(prior, text) ==
  [seq |-> IF prior = NoEntry THEN 0 ELSE prior.seq + 1,
   prev |-> IF prior = NoEntry THEN Genesis ELSE prior,
   text |-> text,
   ends |-> TRUE]

\* The next record: one up, and linked.
Entry(prior, text) ==
  [seq |-> IF prior = NoEntry THEN 0 ELSE prior.seq + 1,
   prev |-> IF prior = NoEntry THEN Genesis ELSE Hash(prior),
   text |-> text,
   ends |-> TRUE]

\* MUTANT: the tail is read before the lock is taken.
TakeTailUnlocked(w) ==
  /\ writer[w].at = "turn"
  /\ Len(file[writer[w].in]) < MaxRecords[writer[w].in]
  /\ TailReads(file[writer[w].in])
  /\ LET prior == Prior(file[writer[w].in]) IN
       \E text \in Texts :
         writer' = [writer EXCEPT ![w].at = "tail", ![w].prior = prior,
                                  ![w].entry = Entry(prior, text)]
  /\ UNCHANGED <<process, file, lock, checker, healthy, old, kept>>

\* append_or_raise: the lock, the tail, and the entry that links to it.
TakeTail(w) ==
  /\ writer[w].at = "turn"
  /\ lock = Nobody
  /\ Len(file[writer[w].in]) < MaxRecords[writer[w].in]
  /\ TailReads(file[writer[w].in])
  /\ lock' = w
  /\ LET prior == Prior(file[writer[w].in]) IN
       \E text \in Texts :
         writer' = [writer EXCEPT ![w].at = "tail", ![w].prior = prior,
                                  ![w].entry = Entry(prior, text)]
  /\ UNCHANGED <<process, file, checker, healthy, old, kept>>

\* MUTANT: a torn tail is taken as the sign to start a fresh chain in its place.
StartAfresh(w) ==
  /\ writer[w].at = "turn"
  /\ lock = Nobody
  /\ ~ TailReads(file[writer[w].in])
  /\ file' = [file EXCEPT ![writer[w].in] = <<>>]
  /\ UNCHANGED <<process, writer, lock, checker, healthy, old, kept>>

\* A torn tail: append_or_raise raises, record swallows it, nothing is written.
RefuseTail(w) ==
  /\ writer[w].at = "turn"
  /\ lock = Nobody
  /\ ~ TailReads(file[writer[w].in])
  /\ UNCHANGED vars

\* A record without its newline: what is appended continues its line.
Continues(w) == writer[w].prior # NoEntry /\ ~ writer[w].prior.ends

\* The first bytes are in the file, where a reader may see them.
Write(w) ==
  LET s == writer[w].in IN
  /\ writer[w].at = "tail"
  /\ file' = [file EXCEPT ![s] = IF Continues(w) THEN Append(Front(@), Torn)
                                                 ELSE Append(@, Torn)]
  /\ writer' = [writer EXCEPT ![w].at = "half"]
  /\ UNCHANGED <<process, lock, checker, healthy, old, kept>>

\* What may be left of a half-written line when no more bytes follow.
Cuts(w) ==
  LET lines == file[writer[w].in]
      before == IF Continues(w) THEN Append(Front(lines), writer[w].prior)
                                ELSE Front(lines)
      bare == Append(Front(lines), [writer[w].entry EXCEPT !.ends = FALSE])
  IN  {before, lines} \cup (IF Continues(w) THEN {} ELSE {bare})

\* The line with all its bytes.
Whole(w) ==
  LET lines == file[writer[w].in]
  IN  IF Continues(w) THEN lines ELSE Append(Front(lines), writer[w].entry)

Finish(w) ==
  /\ writer[w].at = "half"
  /\ file' = [file EXCEPT ![writer[w].in] = Whole(w)]
  /\ kept' = [kept EXCEPT ![writer[w].in] = @ + 1]
  /\ writer' = [writer EXCEPT ![w] = [Away EXCEPT !.at = "turn", !.in = writer[w].in]]
  /\ lock' = Nobody
  /\ UNCHANGED <<process, checker, healthy, old>>

\* The disk is full: the write raises, record swallows it, the turn goes on.
Full(w) ==
  /\ writer[w].at = "half"
  /\ \E lines \in Cuts(w) : file' = [file EXCEPT ![writer[w].in] = lines]
  /\ writer' = [writer EXCEPT ![w] = [Away EXCEPT !.at = "turn", !.in = writer[w].in]]
  /\ lock' = Nobody
  /\ UNCHANGED <<process, checker, healthy, old, kept>>

Turn(w) ==
  \/ \E s \in Sessions : StartTurn(w, s)
  \/ EndTurn(w) \/ TakeTail(w) \/ RefuseTail(w) \/ Write(w) \/ Finish(w) \/ Full(w)

\* DELETE of a session, under its lock: the chain goes as it is.
Delete(s) ==
  /\ process = "up"
  /\ ~ Busy(s)
  /\ file[s] # <<>>
  /\ file' = [file EXCEPT ![s] = <<>>]
  /\ kept' = [kept EXCEPT ![s] = 0]
  /\ UNCHANGED <<process, writer, lock, checker, healthy, old>>

-----------------------------------------------------------------------------
(* Verification: check runs verify_audit_dir, in the monitor's thread and as the *)
(* precheck of a tick of the sweep. *)

\* The directory is listed.  The sweep has fixed its cutoff: a session with a turn
\* under way is younger.
StartCheck(c) ==
  /\ process = "up"
  /\ checker[c].at = "idle"
  /\ checker' = [checker EXCEPT ![c] =
                   [Idle EXCEPT !.at = "walk", !.left = {s \in Sessions : file[s] # <<>>}]]
  /\ old' = IF c = Sweep THEN {s \in Sessions : ~ Busy(s)} ELSE old
  /\ UNCHANGED <<process, file, writer, lock, healthy, kept>>

\* _read_path finds the file, or finds it gone since and reads no records.
Look(c, s) ==
  /\ checker[c].at = "walk"
  /\ s \in checker[c].left
  /\ \A t \in checker[c].left : s <= t
  /\ checker' = [checker EXCEPT ![c].left = @ \ {s},
                                ![c].at = IF file[s] = <<>> THEN "walk" ELSE "read",
                                ![c].reading = IF file[s] = <<>> THEN NoEntry ELSE s]
  /\ UNCHANGED <<process, file, writer, lock, healthy, old, kept>>

Read(c) ==
  /\ checker[c].at = "read"
  /\ file[checker[c].reading] # <<>>
  /\ checker' = [checker EXCEPT ![c].at = "walk",
                                ![c].ok = @ /\ Verifies(file[checker[c].reading]),
                                ![c].reading = NoEntry]
  /\ UNCHANGED <<process, file, writer, lock, healthy, old, kept>>

\* The check is over.  A tick whose precheck passed lists the sessions inactive for
\* long enough, which are some of the old ones.
Proceed(c, passed) ==
  IF c = Sweep /\ passed
    THEN /\ \E inactive \in SUBSET old :
              checker' = [checker EXCEPT ![c] = [Idle EXCEPT !.at = "erase", !.left = inactive]]
         /\ UNCHANGED old
    ELSE /\ checker' = [checker EXCEPT ![c] = Idle]
         /\ old' = IF c = Sweep THEN {} ELSE old

\* MUTANT: a verification that fails in itself says nothing of the chains.
KeepVerdict(c) ==
  /\ checker[c].at = "read"
  /\ file[checker[c].reading] = <<>>
  /\ Proceed(c, FALSE)
  /\ UNCHANGED <<process, file, writer, lock, healthy, kept>>

\* The file went after it was found: an OSError ends the whole verification, which
\* check counts as failed.
ReadFails(c) ==
  /\ checker[c].at = "read"
  /\ file[checker[c].reading] = <<>>
  /\ healthy' = FALSE
  /\ Proceed(c, FALSE)
  /\ UNCHANGED <<process, file, writer, lock, kept>>

\* MUTANT: the tick goes on whatever its precheck says.
SweepAnyway(c) ==
  /\ checker[c].at = "walk"
  /\ checker[c].left = {}
  /\ healthy' = checker[c].ok
  /\ Proceed(c, TRUE)
  /\ UNCHANGED <<process, file, writer, lock, kept>>

\* The verdict.
EndCheck(c) ==
  /\ checker[c].at = "walk"
  /\ checker[c].left = {}
  /\ healthy' = checker[c].ok
  /\ Proceed(c, checker[c].ok)
  /\ UNCHANGED <<process, file, writer, lock, kept>>

\* The sweep has the session's lock: still inactive, its files go; else it is spared.
Erase(s) ==
  /\ checker[Sweep].at = "erase"
  /\ s \in checker[Sweep].left
  /\ ~ Busy(s)
  /\ checker' = [checker EXCEPT ![Sweep].left = @ \ {s}]
  /\ old' = old \ {s}
  /\ file' = IF s \in old THEN [file EXCEPT ![s] = <<>>] ELSE file
  /\ kept' = IF s \in old THEN [kept EXCEPT ![s] = 0] ELSE kept
  /\ UNCHANGED <<process, writer, lock, healthy>>

EndTick ==
  /\ checker[Sweep].at = "erase"
  /\ checker[Sweep].left = {}
  /\ Proceed(Sweep, FALSE)
  /\ UNCHANGED <<process, file, writer, lock, healthy, kept>>

Check(c) ==
  \/ StartCheck(c)
  \/ \E s \in Sessions : Look(c, s)
  \/ Read(c) \/ ReadFails(c) \/ EndCheck(c)

-----------------------------------------------------------------------------
(* The process. *)

\* run verifies every chain before it serves, alone.
Start ==
  /\ process = "down"
  /\ \A s \in Sessions : Verifies(file[s])
  /\ process' = "up"
  /\ healthy' = TRUE
  /\ UNCHANGED <<file, writer, lock, checker, old, kept>>

\* The process ends, in good order or not; a line half-written may be cut.
Crash ==
  /\ process = "up"
  /\ process' = "down"
  /\ \/ \E w \in Writers, lines \in UNION {Cuts(v) \cup {Whole(v)} :
                                             v \in {u \in Writers : writer[u].at = "half"}} :
          /\ writer[w].at = "half"
          /\ lines \in Cuts(w) \cup {Whole(w)}
          /\ file' = [file EXCEPT ![writer[w].in] = lines]
     \/ /\ \A w \in Writers : writer[w].at # "half"
        /\ UNCHANGED file
  /\ writer' = [w \in Writers |-> Away]
  /\ lock' = Nobody
  /\ checker' = [c \in Checkers |-> Idle]
  /\ healthy' = FALSE
  /\ old' = {}
  /\ UNCHANGED kept

\* The operator puts a chain that does not verify aside, so that a fresh one starts.
Archive(s) ==
  /\ process = "down"
  /\ ~ Verifies(file[s])
  /\ file' = [file EXCEPT ![s] = <<>>]
  /\ kept' = [kept EXCEPT ![s] = 0]
  /\ UNCHANGED <<process, writer, lock, checker, healthy, old>>

Next ==
  \/ \E w \in Writers : Turn(w)
  \/ \E s \in Sessions : Delete(s) \/ Erase(s) \/ Archive(s)
  \/ \E c \in Checkers : Check(c)
  \/ EndTick \/ Start \/ Crash

Spec == Init /\ [][Next]_vars

\* The monitor's loop runs; turns, sweeps and deletions need not.
FairSpec == Spec /\ WF_vars(Check(Monitor)) /\ WF_vars(Check(Sweep))

-----------------------------------------------------------------------------
(* Properties. *)

\* INVARIANT: whatever was cut, only the last line of a chain is ever unreadable to an
\* append or without its newline, and the records link from the first to the last of
\* them: damage is never buried under links that look valid.
ChainsLink ==
  \A s \in Sessions : \A i \in 1..Len(file[s]) :
    /\ i < Len(file[s]) => file[s][i] # Torn /\ file[s][i].ends
    /\ file[s][i] # Torn => LinksAt(file[s], i)

\* INVARIANT: a chain that verifies has every record whose append returned normally.
NoneLostQuietly ==
  \A s \in Sessions : Verifies(file[s]) => Len(file[s]) >= kept[s]

\* ACTION: "Retention must never erase the evidence of a chain-integrity failure"
\* (product_service.py:1657): what the sweep erases verifies to the last record.
EvidenceKept ==
  [][\A s \in Sessions :
       s \in old \ old' /\ file'[s] # file[s] => Verifies(file[s])]_vars

\* LIVENESS: health tells the truth in the end: while a chain stays broken the worker ends
\* up reporting it for good, however many verifications run side by side or fail on a file
\* that went; and once nothing is broken or being written, for good, it recovers.
HealthTells ==
  /\ \A s \in Sessions :
       <>[](process = "up" /\ ~ Verifies(file[s])) => <>[](~ healthy)
  /\ <>[](process = "up" /\ \A s \in Sessions : Verifies(file[s])) => <>[]healthy

\* Violated.  "A torn final line is DETECTABLE (invalid JSON) and leaves everything before
\* it intact" (agent.py:553): a record that could be read can be read until its chain goes.
RecordsKept ==
  [][\A s \in Sessions : \A i \in 1..Len(file[s]) :
       file[s][i] # Torn /\ file'[s] # <<>> =>
         i <= Len(file'[s]) /\ file'[s][i] # Torn]_vars

=============================================================================
