--------------------------- MODULE AuditChainProofs ---------------------------
(***************************************************************************)
(* Theorems of AuditChain for every number of sessions, turns and records. *)
(***************************************************************************)
EXTENDS AuditChain, TLAPS, SequenceTheorems

Lines == Records \cup {Torn}

\* What a turn and a verification are.
Stages == [at : {"away", "turn", "tail", "half"}, in : {NoEntry} \cup Sessions,
           prior : {NoEntry} \cup Lines, entry : {NoEntry} \cup Records]
Places == [at : {"idle", "walk", "read", "erase"}, left : SUBSET Sessions,
           ok : BOOLEAN, reading : {NoEntry} \cup Sessions]

\* The types, with the values outside a turn and outside a read.
Types ==
  /\ process \in {"down", "up"}
  /\ file \in [Sessions -> Seq(Lines)]
  /\ writer \in [Writers -> Stages]
  /\ lock \in {Nobody} \cup Writers
  /\ checker \in [Checkers -> Places]
  /\ healthy \in BOOLEAN
  /\ old \in SUBSET Sessions
  /\ kept \in [Sessions -> Nat]

\* Where a turn and a verification are, they have what that place needs.
Placed ==
  /\ \A w \in Writers :
       /\ writer[w].at # "away" => writer[w].in \in Sessions
       /\ writer[w].at \in {"tail", "half"} => writer[w].entry \in Records
  /\ \A c \in Checkers : checker[c].at = "read" => checker[c].reading \in Sessions

\* Nothing runs while the process is down.
Quiet ==
  process = "down" =>
    /\ \A w \in Writers : writer[w].at = "away"
    /\ \A c \in Checkers : checker[c].at = "idle"

\* The turn that appends holds the lock.
OneAppends == \A w \in Writers : writer[w].at \in {"tail", "half"} => lock = w

\* The record would link as the one at place i.
Fits(lines, i, record) ==
  /\ record.seq = i - 1
  /\ record.prev = IF i = 1 THEN Genesis ELSE Hash(lines[i - 1])

\* Every line is a whole record that links to the one before.
Sound(lines) ==
  \A i \in 1..Len(lines) : /\ lines[i] # Torn
                           /\ lines[i].ends
                           /\ Fits(lines, i, lines[i])

\* The last line may be torn or lack its newline, no other.
Chain(lines) ==
  \A i \in 1..Len(lines) :
    /\ i < Len(lines) => lines[i] # Torn /\ lines[i].ends
    /\ lines[i] # Torn => Fits(lines, i, lines[i])

Chains == \A s \in Sessions : Chain(file[s])

\* What an append under way has read is still so: the tail is where it was, and its
\* record is the next one; once half is written, it is the torn line at the end.
Stands(w) ==
  LET lines == file[writer[w].in] IN
    /\ writer[w].at = "tail" =>
         /\ IF lines = <<>>
              THEN writer[w].prior = NoEntry
              ELSE writer[w].prior \in Records /\ writer[w].prior = lines[Len(lines)]
         /\ writer[w].entry.ends
         /\ Fits(lines, Len(lines) + 1, writer[w].entry)
    /\ writer[w].at = "half" =>
         /\ lines # <<>>
         /\ lines[Len(lines)] = Torn
         /\ kept[writer[w].in] < Len(lines)
         /\ writer[w].entry.ends
         /\ IF Continues(w)
              THEN writer[w].prior \in Records /\ Fits(lines, Len(lines), writer[w].prior)
              ELSE Fits(lines, Len(lines), writer[w].entry)

TailStands == \A w \in Writers : Stands(w)

\* The records counted are among the lines; one without its newline is not counted.
Counts(lines, n) ==
  /\ n <= Len(lines)
  /\ lines # <<>> /\ lines[Len(lines)] # Torn /\ ~ lines[Len(lines)].ends => n < Len(lines)

Counted == \A s \in Sessions : Counts(file[s], kept[s])

\* The sweep: an old session has no turn; what its precheck has passed so far verifies
\* still, and so does all it may erase.
Vetted ==
  /\ \A s \in old : ~ Busy(s)
  /\ checker[Sweep].at = "idle" => old = {}
  /\ checker[Sweep].at \in {"walk", "read"} /\ checker[Sweep].ok =>
       \A s \in old : \/ s \in checker[Sweep].left
                      \/ checker[Sweep].at = "read" /\ checker[Sweep].reading = s
                      \/ Verifies(file[s])
  /\ checker[Sweep].at = "erase" => \A s \in old : Verifies(file[s])

AuditInv ==
  Types /\ Placed /\ Quiet /\ OneAppends /\ Chains /\ TailStands /\ Counted /\ Vetted

-----------------------------------------------------------------------------
(* The lines of a chain. *)

\* A record is neither a torn line nor the lack of one.
LEMMA Kinds == Torn \notin Records /\ NoEntry \notin Records /\ NoEntry # Torn
<1>1. ASSUME NEW r \in Records PROVE r # Torn /\ r # NoEntry
  <2>1. DOMAIN r = {"seq", "prev", "text", "ends"}
    BY DEF Records
  <2>2. DOMAIN Torn = {"torn"} /\ DOMAIN NoEntry = {"none"}
    BY DEF Torn, NoEntry
  <2> QED
    BY <2>1, <2>2
<1>2. NoEntry # Torn
  <2>1. DOMAIN Torn = {"torn"} /\ DOMAIN NoEntry = {"none"}
    BY DEF Torn, NoEntry
  <2> QED
    BY <2>1
<1> QED
  BY <1>1, <1>2

\* The lines without the last.
LEMMA Fronts ==
  ASSUME NEW lines \in Seq(Lines), lines # <<>>
  PROVE  /\ Front(lines) \in Seq(Lines)
         /\ Len(lines) \in Nat \ {0}
         /\ Len(Front(lines)) = Len(lines) - 1
         /\ \A i \in 1..Len(lines) - 1 : Front(lines)[i] = lines[i]
<1>1. Len(lines) \in Nat \ {0}
  BY EmptySeq
<1> QED
  BY <1>1, SubSeqProperties DEF Front

\* The lines with one more.
LEMMA Appends ==
  ASSUME NEW lines \in Seq(Lines), NEW x \in Lines
  PROVE  /\ Append(lines, x) \in Seq(Lines)
         /\ Len(lines) \in Nat
         /\ Append(lines, x) # <<>>
         /\ Len(Append(lines, x)) = Len(lines) + 1
         /\ \A i \in 1..Len(lines) : Append(lines, x)[i] = lines[i]
         /\ Append(lines, x)[Len(lines) + 1] = x
<1>1. /\ Append(lines, x) \in Seq(Lines)
      /\ Append(lines, x) # <<>>
      /\ Len(Append(lines, x)) = Len(lines) + 1
      /\ \A i \in 1..Len(lines) : Append(lines, x)[i] = lines[i]
      /\ Append(lines, x)[Len(lines) + 1] = x
  BY AppendProperties
<1>2. Len(lines) \in Nat
  OBVIOUS
<1> QED
  BY <1>1, <1>2

\* A place's link depends on the line before it only.
LEMMA FitsAlike ==
  ASSUME NEW lines, NEW others, NEW n \in Nat, NEW i \in 1..n, NEW record,
         \A j \in 1..n - 1 : others[j] = lines[j],
         Fits(lines, i, record)
  PROVE  Fits(others, i, record)
<1>1. i # 1 => i - 1 \in 1..n - 1
  OBVIOUS
<1> QED
  BY <1>1 DEF Fits

\* All lines but the last of a chain are sound.
LEMMA FrontIsSound ==
  ASSUME NEW lines \in Seq(Lines), lines # <<>>, Chain(lines)
  PROVE  Sound(Front(lines))
<1> SUFFICES ASSUME NEW i \in 1..Len(Front(lines))
             PROVE  /\ Front(lines)[i] # Torn
                    /\ Front(lines)[i].ends
                    /\ Fits(Front(lines), i, Front(lines)[i])
  BY DEF Sound
<1>1. i \in 1..Len(lines) - 1 /\ Front(lines)[i] = lines[i] /\ Len(lines) - 1 \in Nat
  BY Fronts
<1>2. lines[i] # Torn /\ lines[i].ends /\ Fits(lines, i, lines[i])
  BY <1>1 DEF Chain
<1>3. \A j \in 1..(Len(lines) - 1) - 1 : Front(lines)[j] = lines[j]
  BY Fronts
<1>4. Fits(Front(lines), i, lines[i])
  BY <1>1, <1>2, <1>3, FitsAlike
<1> QED
  BY <1>1, <1>2, <1>4

\* A chain that ends with a whole record is sound.
LEMMA WholeIsSound ==
  ASSUME NEW lines \in Seq(Lines), Chain(lines),
         lines # <<>> => lines[Len(lines)] # Torn /\ lines[Len(lines)].ends
  PROVE  Sound(lines)
<1>1. ASSUME NEW i \in 1..Len(lines)
      PROVE  lines[i] # Torn /\ lines[i].ends /\ Fits(lines, i, lines[i])
  <2>1. lines # <<>> /\ Len(lines) \in Nat
    BY EmptySeq
  <2>2. i < Len(lines) \/ i = Len(lines)
    BY <2>1
  <2> QED
    BY <2>1, <2>2 DEF Chain
<1> QED
  BY <1>1 DEF Sound

\* What continues a sound chain is torn, or links.
LEMMA SoundThenLine ==
  ASSUME NEW lines \in Seq(Lines), NEW x \in Lines, Sound(lines),
         x # Torn => Fits(lines, Len(lines) + 1, x)
  PROVE  Chain(Append(lines, x))
<1> DEFINE more == Append(lines, x)
<1>1. /\ Len(lines) \in Nat
      /\ Len(more) = Len(lines) + 1
      /\ \A i \in 1..Len(lines) : more[i] = lines[i]
      /\ more[Len(lines) + 1] = x
  BY Appends
<1> HIDE DEF more
<1>2. ASSUME NEW i \in 1..Len(more)
      PROVE  /\ i < Len(more) => more[i] # Torn /\ more[i].ends
             /\ more[i] # Torn => Fits(more, i, more[i])
  <2>0. \A j \in 1..(Len(lines) + 1) - 1 : more[j] = lines[j]
    BY <1>1
  <2>1. CASE i \in 1..Len(lines)
    <3>1. more[i] = lines[i] /\ lines[i] # Torn /\ lines[i].ends /\ Fits(lines, i, lines[i])
      BY <1>1, <2>1 DEF Sound
    <3>2. i \in 1..(Len(lines) + 1) /\ Len(lines) + 1 \in Nat
      BY <1>1, <2>1
    <3>3. Fits(more, i, lines[i])
      BY <2>0, <3>1, <3>2, FitsAlike
    <3> QED
      BY <3>1, <3>3
  <2>2. CASE i = Len(lines) + 1
    <3>1. more[i] = x /\ i \in 1..(Len(lines) + 1) /\ Len(lines) + 1 \in Nat
      BY <1>1, <2>2
    <3>2. x # Torn => Fits(more, i, x)
      BY <2>0, <2>2, <3>1, FitsAlike
    <3> QED
      BY <1>1, <2>2, <3>1, <3>2
  <2> QED
    BY <1>1, <2>1, <2>2
<1>3. Chain(more)
  BY <1>2 DEF Chain
<1> QED
  BY <1>3 DEF more

\* Sound lines are a chain.
LEMMA SoundIsChain ==
  ASSUME NEW lines, Sound(lines)
  PROVE  Chain(lines)
BY DEF Sound, Chain

-----------------------------------------------------------------------------
(* What an append may leave. *)

\* The lines before the half-written one, and what would link there.
LEMMA HalfWritten ==
  ASSUME Types, Placed, Chains, TailStands, Counted,
         NEW w \in Writers, writer[w].at = "half"
  PROVE  LET lines == file[writer[w].in] IN
           /\ writer[w].in \in Sessions
           /\ lines \in Seq(Lines)
           /\ lines # <<>>
           /\ Chain(lines)
           /\ lines[Len(lines)] = Torn
           /\ Len(lines) \in Nat \ {0}
           /\ Front(lines) \in Seq(Lines)
           /\ Len(Front(lines)) = Len(lines) - 1
           /\ Sound(Front(lines))
           /\ writer[w].entry \in Records
           /\ writer[w].entry.ends
           /\ Continues(w) => /\ writer[w].prior \in Records
                              /\ Fits(Front(lines), Len(lines), writer[w].prior)
           /\ ~ Continues(w) => Fits(Front(lines), Len(lines), writer[w].entry)
           /\ kept[writer[w].in] \in Nat
           /\ kept[writer[w].in] < Len(lines)
           /\ Counts(lines, kept[writer[w].in])
<1> DEFINE s == writer[w].in
           lines == file[s]
<1>1. s \in Sessions /\ writer[w].entry \in Records
  BY DEF Placed
<1>2. lines \in Seq(Lines) /\ kept[s] \in Nat
  BY <1>1 DEF Types
<1>3. Chain(lines) /\ Counts(lines, kept[s]) /\ kept[s] < Len(lines)
  BY <1>1 DEF Chains, Counted, TailStands, Stands
<1>4. /\ writer[w].entry.ends
      /\ lines # <<>>
      /\ lines[Len(lines)] = Torn
      /\ Continues(w) => writer[w].prior \in Records /\ Fits(lines, Len(lines), writer[w].prior)
      /\ ~ Continues(w) => Fits(lines, Len(lines), writer[w].entry)
  BY DEF TailStands, Stands
<1> HIDE DEF lines
<1>5. /\ Front(lines) \in Seq(Lines)
      /\ Len(lines) \in Nat \ {0}
      /\ Len(Front(lines)) = Len(lines) - 1
      /\ \A j \in 1..Len(lines) - 1 : Front(lines)[j] = lines[j]
  BY <1>2, <1>4, Fronts
<1>6. Sound(Front(lines))
  BY <1>2, <1>3, <1>4, FrontIsSound
<1>7. ASSUME NEW record, Fits(lines, Len(lines), record)
      PROVE  Fits(Front(lines), Len(lines), record)
  <2>1. Len(lines) \in Nat /\ Len(lines) \in 1..Len(lines)
    BY <1>5
  <2> QED
    BY <1>5, <1>7, <2>1, FitsAlike
<1> QED
  BY <1>1, <1>2, <1>3, <1>4, <1>5, <1>6, <1>7 DEF lines

\* Whatever is cut, a chain is left, with every record counted.
LEMMA CutsAreChains ==
  ASSUME Types, Placed, Chains, TailStands, Counted,
         NEW w \in Writers, writer[w].at = "half", NEW cut \in Cuts(w)
  PROVE  cut \in Seq(Lines) /\ Chain(cut) /\ Counts(cut, kept[writer[w].in])
<1> DEFINE s == writer[w].in
           lines == file[s]
           before == IF Continues(w) THEN Append(Front(lines), writer[w].prior) ELSE Front(lines)
           part == [writer[w].entry EXCEPT !.ends = FALSE]
           bare == Append(Front(lines), part)
<1>1. /\ lines \in Seq(Lines)
      /\ Chain(lines)
      /\ Len(lines) \in Nat \ {0}
      /\ Front(lines) \in Seq(Lines)
      /\ Len(Front(lines)) = Len(lines) - 1
      /\ Sound(Front(lines))
      /\ writer[w].entry \in Records
      /\ Continues(w) => /\ writer[w].prior \in Records
                         /\ Fits(Front(lines), Len(lines), writer[w].prior)
      /\ ~ Continues(w) => Fits(Front(lines), Len(lines), writer[w].entry)
      /\ kept[s] \in Nat
      /\ kept[s] < Len(lines)
      /\ Counts(lines, kept[s])
  BY HalfWritten
<1>2. cut \in {before, lines} \/ (~ Continues(w) /\ cut = bare)
  BY DEF Cuts
<1> HIDE DEF s, lines
<1>3. CASE cut = lines
  BY <1>1, <1>3 DEF lines, s
<1>4. CASE Continues(w) /\ cut = before
  <2>1. cut = Append(Front(lines), writer[w].prior) /\ writer[w].prior \in Lines
    BY <1>1, <1>4 DEF Lines
  <2>2. cut \in Seq(Lines) /\ Len(cut) = Len(lines)
    BY <1>1, <2>1, Appends
  <2>3. Chain(cut)
    BY <1>1, <1>4, <2>1, SoundThenLine
  <2> QED
    BY <1>1, <2>2, <2>3 DEF Counts, s
<1>5. CASE ~ Continues(w) /\ cut = before
  <2>1. cut = Front(lines)
    BY <1>5
  <2>2. cut \in Seq(Lines) /\ Sound(cut) /\ Len(cut) = Len(lines) - 1 /\ kept[s] <= Len(cut)
    BY <1>1, <2>1
  <2>3. cut # <<>> => cut[Len(cut)].ends
    <3> HAVE cut # <<>>
    <3>1. Len(cut) \in 1..Len(cut)
      BY <2>2, EmptySeq
    <3> QED
      BY <2>2, <3>1 DEF Sound
  <2> QED
    BY <2>2, <2>3, SoundIsChain DEF Counts, s
<1>6. CASE ~ Continues(w) /\ cut = bare
  <2>1. part \in Records /\ part.seq = writer[w].entry.seq /\ part.prev = writer[w].entry.prev
    BY <1>1 DEF Records
  <2> HIDE DEF part
  <2>2. part \in Lines /\ Fits(Front(lines), Len(lines), part)
    BY <1>1, <1>6, <2>1 DEF Fits, Lines
  <2>3. cut \in Seq(Lines) /\ Len(cut) = Len(lines)
    BY <1>1, <1>6, <2>2, Appends
  <2>4. Chain(cut)
    BY <1>1, <1>6, <2>2, SoundThenLine
  <2> QED
    BY <1>1, <2>3, <2>4 DEF Counts, s
<1> QED
  BY <1>2, <1>3, <1>4, <1>5, <1>6

\* The whole line makes a chain that has one record more.
LEMMA WholeIsChain ==
  ASSUME Types, Placed, Chains, TailStands, Counted,
         NEW w \in Writers, writer[w].at = "half"
  PROVE  Whole(w) \in Seq(Lines) /\ Chain(Whole(w)) /\ Counts(Whole(w), kept[writer[w].in] + 1)
<1> DEFINE s == writer[w].in
           lines == file[s]
<1>1. /\ lines \in Seq(Lines)
      /\ Chain(lines)
      /\ lines[Len(lines)] = Torn
      /\ Len(lines) \in Nat \ {0}
      /\ Front(lines) \in Seq(Lines)
      /\ Len(Front(lines)) = Len(lines) - 1
      /\ Sound(Front(lines))
      /\ writer[w].entry \in Records
      /\ writer[w].entry.ends
      /\ ~ Continues(w) => Fits(Front(lines), Len(lines), writer[w].entry)
      /\ kept[s] \in Nat
      /\ kept[s] < Len(lines)
  BY HalfWritten
<1>2. Whole(w) = IF Continues(w) THEN lines ELSE Append(Front(lines), writer[w].entry)
  BY DEF Whole
<1> HIDE DEF s, lines
<1>3. CASE Continues(w)
  BY <1>1, <1>2, <1>3 DEF Counts, s
<1>4. CASE ~ Continues(w)
  <2>1. writer[w].entry \in Lines /\ Whole(w) = Append(Front(lines), writer[w].entry)
    BY <1>1, <1>2, <1>4 DEF Lines
  <2>2. /\ Whole(w) \in Seq(Lines)
        /\ Len(Whole(w)) = Len(lines)
        /\ Whole(w)[Len(lines)] = writer[w].entry
    BY <1>1, <2>1, Appends
  <2>3. Chain(Whole(w))
    BY <1>1, <1>4, <2>1, SoundThenLine
  <2> QED
    BY <1>1, <2>2, <2>3 DEF Counts, s
<1> QED
  BY <1>3, <1>4

-----------------------------------------------------------------------------
(* Types, and who runs. *)

\* No chain, no turn, no verification.
LEMMA Started == Init => AuditInv
<1> SUFFICES ASSUME Init PROVE AuditInv
  OBVIOUS
<1>1. Away \in Stages /\ Away.at = "away"
  BY DEF Away, Stages
<1>2. Idle \in Places /\ Idle.at = "idle"
  BY DEF Idle, Places
<1>3. Types
  <2>1. file \in [Sessions -> Seq(Lines)] /\ kept \in [Sessions -> Nat]
    BY EmptySeq DEF Init
  <2>2. writer \in [Writers -> Stages] /\ checker \in [Checkers -> Places]
    BY <1>1, <1>2 DEF Init
  <2> QED
    BY <2>1, <2>2 DEF Init, Types
<1>4. \A w \in Writers : writer[w].at = "away"
  BY <1>1 DEF Init
<1>5. \A c \in Checkers : checker[c].at = "idle"
  BY <1>2 DEF Init
<1>6. Placed /\ Quiet /\ OneAppends /\ TailStands
  BY <1>4, <1>5 DEF Placed, Quiet, OneAppends, TailStands, Stands
<1>7. \A s \in Sessions : file[s] = <<>> /\ kept[s] = 0 /\ Len(file[s]) = 0
  BY DEF Init
<1>8. Chains
  BY <1>7 DEF Chains, Chain
<1>9. Counted
  BY <1>7 DEF Counted, Counts
<1>10. Vetted
  <2>1. Sweep \in Checkers
    BY DEF Checkers
  <2> QED
    BY <1>5, <2>1 DEF Vetted, Init
<1> QED
  BY <1>3, <1>6, <1>8, <1>9, <1>10 DEF AuditInv

\* What each step makes of its turn.
LEMMA TurnMoves ==
  ASSUME Types, Placed, NEW w \in Writers, NEW next \in Stages,
         writer' = [writer EXCEPT ![w] = next],
         next.at # "away" => next.in \in Sessions,
         next.at \in {"tail", "half"} => next.entry \in Records
  PROVE  /\ writer' \in [Writers -> Stages]
         /\ \A v \in Writers :
              /\ writer'[v].at # "away" => writer'[v].in \in Sessions
              /\ writer'[v].at \in {"tail", "half"} => writer'[v].entry \in Records
BY DEF Types, Placed

\* What each step makes of its verification.
LEMMA CheckMoves ==
  ASSUME Types, Placed, NEW c \in Checkers, NEW next \in Places,
         checker' = [checker EXCEPT ![c] = next],
         next.at = "read" => next.reading \in Sessions
  PROVE  /\ checker' \in [Checkers -> Places]
         /\ \A d \in Checkers : checker'[d].at = "read" => checker'[d].reading \in Sessions
BY DEF Types, Placed

\* A turn comes to a session.
LEMMA StartTurnMoves ==
  ASSUME Types, NEW w \in Writers, NEW s \in Sessions, StartTurn(w, s)
  PROVE  \E next \in Stages :
           /\ writer' = [writer EXCEPT ![w] = next]
           /\ next.at = "turn"
           /\ next.in = s
           /\ next.prior = writer[w].prior
           /\ next.entry = writer[w].entry
<1> DEFINE next == [writer[w] EXCEPT !.at = "turn", !.in = s]
<1>1. writer[w] \in Stages
  BY DEF Types
<1>2. /\ next \in Stages
      /\ next.at = "turn"
      /\ next.in = s
      /\ next.prior = writer[w].prior
      /\ next.entry = writer[w].entry
  BY <1>1 DEF Stages
<1>3. writer' = [writer EXCEPT ![w] = next]
  BY DEF StartTurn, Types
<1> QED
  BY <1>2, <1>3

\* A turn goes.
LEMMA EndTurnMoves == Away \in Stages /\ Away.at = "away"
BY DEF Away, Stages

\* A turn is back from an append.
LEMMA AppendedMoves ==
  ASSUME NEW s \in Sessions
  PROVE  LET next == [Away EXCEPT !.at = "turn", !.in = s] IN
           next \in Stages /\ next.at = "turn" /\ next.in = s
BY DEF Away, Stages

\* A turn has written the first half.
LEMMA WriteMoves ==
  ASSUME Types, NEW w \in Writers
  PROVE  LET next == [writer[w] EXCEPT !.at = "half"] IN
           /\ next \in Stages
           /\ next.at = "half"
           /\ next.in = writer[w].in
           /\ next.prior = writer[w].prior
           /\ next.entry = writer[w].entry
<1>1. writer[w] \in Stages
  BY DEF Types
<1> QED
  BY <1>1 DEF Stages

\* A turn has taken the tail.
LEMMA TakeTailMoves ==
  ASSUME Types, Placed, Chains, NEW w \in Writers, TakeTail(w)
  PROVE  LET lines == file[writer[w].in] IN
           /\ writer[w].in \in Sessions
           /\ lines \in Seq(Lines)
           /\ lines # <<>> => lines[Len(lines)] \in Records
           /\ \E next \in Stages :
                /\ writer' = [writer EXCEPT ![w] = next]
                /\ next.at = "tail"
                /\ next.in = writer[w].in
                /\ next.prior = IF lines = <<>> THEN NoEntry ELSE lines[Len(lines)]
                /\ next.entry \in Records
                /\ next.entry.ends
                /\ Fits(lines, Len(lines) + 1, next.entry)
<1> DEFINE lines == file[writer[w].in]
           prior == Prior(lines)
<1>1. writer[w].in \in Sessions /\ lines \in Seq(Lines) /\ writer[w] \in Stages
  BY DEF TakeTail, Types, Placed
<1>2. PICK text \in Texts :
        writer' = [writer EXCEPT ![w].at = "tail", ![w].prior = prior,
                                 ![w].entry = Entry(prior, text)]
  BY DEF TakeTail
<1>3. lines # <<>> => Last(lines) # Torn
  BY DEF TakeTail, TailReads
<1>4. Chain(lines)
  BY <1>1 DEF Chains
<1>4a. writer \in [Writers -> Stages]
  BY DEF Types
<1> DEFINE next == [writer[w] EXCEPT !.at = "tail", !.prior = prior, !.entry = Entry(prior, text)]
<1>5. writer' = [writer EXCEPT ![w] = next]
  BY <1>2, <1>4a
<1> HIDE DEF lines, next
<1>6. lines # <<>> =>
        /\ lines[Len(lines)] \in Records
        /\ Last(lines) = lines[Len(lines)]
        /\ Len(lines) \in Nat \ {0}
        /\ Fits(lines, Len(lines), lines[Len(lines)])
  <2> HAVE lines # <<>>
  <2>1. Len(lines) \in Nat \ {0}
    BY <1>1, EmptySeq
  <2>2. Last(lines) = lines[Len(lines)] /\ lines[Len(lines)] \in Lines
    BY <1>1, <2>1, ElementOfSeq DEF Last
  <2> QED
    BY <1>3, <1>4, <2>1, <2>2 DEF Lines, Chain
<1>7. prior = IF lines = <<>> THEN NoEntry ELSE lines[Len(lines)]
  BY <1>6 DEF Prior, lines
<1>8. prior \in {NoEntry} \cup Records
  BY <1>6, <1>7
<1>9. /\ Entry(prior, text) \in Records
      /\ Entry(prior, text).ends
      /\ prior = NoEntry => /\ Entry(prior, text).seq = 0
                            /\ Entry(prior, text).prev = Genesis
      /\ prior # NoEntry => /\ Entry(prior, text).seq = prior.seq + 1
                            /\ Entry(prior, text).prev = Hash(prior)
  <2>1. text \in Texts
    OBVIOUS
  <2> HIDE DEF prior
  <2>2. CASE prior = NoEntry
    BY <2>2 DEF Entry, Records, Links
  <2>3. CASE prior # NoEntry
    <3>1. prior.seq \in Nat
      BY <1>8, <2>3 DEF Records
    <3>2. Hash(prior) \in Links
      BY <3>1 DEF Hash, Links
    <3> QED
      BY <2>3, <3>1, <3>2 DEF Entry, Records
  <2> QED
    BY <2>2, <2>3
<1>10. Fits(lines, Len(lines) + 1, Entry(prior, text))
  <2> HIDE DEF prior
  <2>1. CASE lines = <<>>
    <3>1. Len(lines) = 0
      BY <2>1
    <3> QED
      BY <1>7, <1>9, <2>1, <3>1 DEF Fits
  <2>2. CASE lines # <<>>
    <3>1. prior = lines[Len(lines)] /\ prior # NoEntry /\ prior.seq = Len(lines) - 1
      BY <1>6, <1>7, <2>2, Kinds DEF Fits
    <3> QED
      BY <1>6, <1>9, <2>2, <3>1 DEF Fits
  <2> QED
    BY <2>1, <2>2
<1>11. /\ next \in Stages
       /\ next.at = "tail"
       /\ next.in = writer[w].in
       /\ next.prior = prior
       /\ next.entry = Entry(prior, text)
  <2> HIDE DEF prior
  <2>1. Entry(prior, text) \in Records /\ prior \in {NoEntry} \cup Lines
    BY <1>8, <1>9 DEF Lines
  <2> QED
    BY <1>1, <2>1 DEF Stages, next
<1>12. \E m \in Stages :
         /\ writer' = [writer EXCEPT ![w] = m]
         /\ m.at = "tail"
         /\ m.in = writer[w].in
         /\ m.prior = IF lines = <<>> THEN NoEntry ELSE lines[Len(lines)]
         /\ m.entry \in Records
         /\ m.entry.ends
         /\ Fits(lines, Len(lines) + 1, m.entry)
  <2> HIDE DEF prior
  <2> QED
    BY <1>5, <1>7, <1>9, <1>10, <1>11
<1> QED
  BY <1>1, <1>6, <1>12 DEF lines

\* A verification begins.
LEMMA StartCheckMoves ==
  ASSUME NEW c \in Checkers, StartCheck(c)
  PROVE  LET next == [Idle EXCEPT !.at = "walk", !.left = {s \in Sessions : file[s] # <<>>}] IN
           /\ checker' = [checker EXCEPT ![c] = next]
           /\ next \in Places
           /\ next.at = "walk"
           /\ next.left = {s \in Sessions : file[s] # <<>>}
BY DEF StartCheck, Idle, Places

\* A verification finds a file, or finds it gone.
LEMMA LookMoves ==
  ASSUME Types, NEW c \in Checkers, NEW s \in Sessions, Look(c, s)
  PROVE  \E next \in Places :
           /\ checker' = [checker EXCEPT ![c] = next]
           /\ next.at = IF file[s] = <<>> THEN "walk" ELSE "read"
           /\ next.left = checker[c].left \ {s}
           /\ next.reading = IF file[s] = <<>> THEN NoEntry ELSE s
           /\ next.ok = checker[c].ok
<1> DEFINE next == [checker[c] EXCEPT !.left = @ \ {s},
                                      !.at = IF file[s] = <<>> THEN "walk" ELSE "read",
                                      !.reading = IF file[s] = <<>> THEN NoEntry ELSE s]
<1>1. checker[c] \in Places /\ checker \in [Checkers -> Places]
  BY DEF Types
<1>2. checker' = [checker EXCEPT ![c] = next]
  BY <1>1 DEF Look
<1>3. /\ next \in Places
      /\ next.at = IF file[s] = <<>> THEN "walk" ELSE "read"
      /\ next.left = checker[c].left \ {s}
      /\ next.reading = IF file[s] = <<>> THEN NoEntry ELSE s
      /\ next.ok = checker[c].ok
  BY <1>1 DEF Places
<1> QED
  BY <1>2, <1>3

\* A verification reads a file.
LEMMA ReadMoves ==
  ASSUME Types, NEW c \in Checkers, Read(c)
  PROVE  \E next \in Places :
           /\ checker' = [checker EXCEPT ![c] = next]
           /\ next.at = "walk"
           /\ next.left = checker[c].left
           /\ next.ok = (checker[c].ok /\ Verifies(file[checker[c].reading]))
<1> DEFINE next == [checker[c] EXCEPT !.at = "walk",
                                      !.ok = @ /\ Verifies(file[checker[c].reading]),
                                      !.reading = NoEntry]
<1>1. checker[c] \in Places /\ checker \in [Checkers -> Places]
  BY DEF Types
<1>2. checker' = [checker EXCEPT ![c] = next]
  BY <1>1 DEF Read
<1>3. (checker[c].ok /\ Verifies(file[checker[c].reading])) \in BOOLEAN
  OBVIOUS
<1>4. /\ next \in Places
      /\ next.at = "walk"
      /\ next.left = checker[c].left
      /\ next.ok = (checker[c].ok /\ Verifies(file[checker[c].reading]))
  BY <1>1, <1>3 DEF Places
<1> QED
  BY <1>2, <1>4

\* A verification is over: only the sweep's that passed goes on, to erase old sessions.
LEMMA ProceedMoves ==
  ASSUME Types, NEW c \in Checkers, NEW passed, Proceed(c, passed)
  PROVE  \E next \in Places :
           /\ checker' = [checker EXCEPT ![c] = next]
           /\ \/ c = Sweep /\ passed /\ next.at = "erase" /\ old' = old
              \/ next.at = "idle" /\ old' = IF c = Sweep THEN {} ELSE old
<1>1. CASE c = Sweep /\ passed
  <2>1. PICK inactive \in SUBSET old :
          checker' = [checker EXCEPT ![c] = [Idle EXCEPT !.at = "erase", !.left = inactive]]
    BY <1>1 DEF Proceed
  <2>2. [Idle EXCEPT !.at = "erase", !.left = inactive] \in Places
    BY DEF Idle, Places, Types
  <2>3. [Idle EXCEPT !.at = "erase", !.left = inactive].at = "erase"
    BY DEF Idle
  <2> QED
    BY <1>1, <2>1, <2>2, <2>3 DEF Proceed
<1>2. CASE ~ (c = Sweep /\ passed)
  <2>1. Idle \in Places /\ Idle.at = "idle"
    BY DEF Idle, Places
  <2> QED
    BY <1>2, <2>1 DEF Proceed
<1> QED
  BY <1>1, <1>2

\* The sweep turns to a session.
LEMMA EraseMoves ==
  ASSUME Types, NEW s \in Sessions, Erase(s)
  PROVE  \E next \in Places :
           /\ checker' = [checker EXCEPT ![Sweep] = next]
           /\ next.at = "erase"
<1> DEFINE next == [checker[Sweep] EXCEPT !.left = @ \ {s}]
<1>1. checker[Sweep] \in Places /\ checker \in [Checkers -> Places]
  BY DEF Types, Checkers
<1>2. checker' = [checker EXCEPT ![Sweep] = next]
  BY <1>1 DEF Erase
<1>3. checker[Sweep].at = "erase"
  BY DEF Erase
<1>4. next \in Places /\ next.at = "erase"
  BY <1>1, <1>3 DEF Places
<1> QED
  BY <1>2, <1>4

\* The lines a write leaves: those before, with a torn one.
LEMMA WriteMovesFile ==
  ASSUME Types, Placed, Chains, TailStands, NEW w \in Writers, Write(w)
  PROVE  LET lines == file[writer[w].in]
             before == IF Continues(w) THEN Front(lines) ELSE lines IN
           /\ writer[w].in \in Sessions
           /\ lines \in Seq(Lines)
           /\ before \in Seq(Lines)
           /\ Sound(before)
           /\ file' = [file EXCEPT ![writer[w].in] = Append(before, Torn)]
           /\ Continues(w) => /\ writer[w].prior \in Records
                              /\ Len(before) = Len(lines) - 1
                              /\ Len(lines) \in Nat \ {0}
                              /\ lines[Len(lines)] = writer[w].prior
                              /\ ~ writer[w].prior.ends
                              /\ Fits(before, Len(before) + 1, writer[w].prior)
           /\ ~ Continues(w) => Fits(before, Len(before) + 1, writer[w].entry)
<1> DEFINE s == writer[w].in
           lines == file[s]
           before == IF Continues(w) THEN Front(lines) ELSE lines
<1>1. s \in Sessions /\ lines \in Seq(Lines) /\ Chain(lines)
  BY DEF Write, Types, Placed, Chains
<1>2. /\ IF lines = <<>>
           THEN writer[w].prior = NoEntry
           ELSE writer[w].prior \in Records /\ writer[w].prior = lines[Len(lines)]
      /\ Fits(lines, Len(lines) + 1, writer[w].entry)
  BY DEF Write, TailStands, Stands
<1>3. file' = [file EXCEPT ![s] = Append(before, Torn)]
  BY <1>1 DEF Write, Types
<1> HIDE DEF s, lines
<1>4. CASE Continues(w)
  <2>1. lines # <<>> /\ ~ writer[w].prior.ends
    BY <1>2, <1>4 DEF Continues
  <2>2. /\ Len(lines) \in Nat \ {0}
        /\ before = Front(lines)
        /\ before \in Seq(Lines)
        /\ Len(before) = Len(lines) - 1
        /\ \A j \in 1..Len(lines) - 1 : before[j] = lines[j]
    BY <1>1, <1>4, <2>1, Fronts
  <2>3. Sound(before)
    BY <1>1, <2>1, <2>2, FrontIsSound
  <2>4. Fits(lines, Len(lines), writer[w].prior)
    <3>1. writer[w].prior = lines[Len(lines)] /\ writer[w].prior # Torn
      BY <1>2, <2>1, Kinds
    <3> QED
      BY <1>1, <2>2, <3>1 DEF Chain
  <2> HIDE DEF before
  <2>5. Fits(before, Len(lines), writer[w].prior)
    <3>1. Len(lines) \in 1..Len(lines)
      BY <2>2
    <3> QED
      BY <2>2, <2>4, <3>1, FitsAlike
  <2>6. Len(before) + 1 = Len(lines)
    BY <2>2
  <2> QED
    BY <1>1, <1>2, <1>3, <1>4, <2>1, <2>2, <2>3, <2>5, <2>6 DEF before, s, lines
<1>5. CASE ~ Continues(w)
  <2>1. lines # <<>> => lines[Len(lines)] # Torn /\ lines[Len(lines)].ends
    <3> HAVE lines # <<>>
    <3>1. writer[w].prior = lines[Len(lines)] /\ writer[w].prior \in Records
      BY <1>2
    <3> QED
      BY <1>5, <3>1, Kinds DEF Continues
  <2>2. Sound(lines)
    BY <1>1, <2>1, WholeIsSound
  <2> QED
    BY <1>1, <1>2, <1>3, <1>5, <2>2 DEF s, lines
<1> QED
  BY <1>4, <1>5

\* Every step keeps the types.
LEMMA TypesStep ==
  ASSUME AuditInv, [Next]_vars
  PROVE  Types' /\ Placed'
<1>0. /\ Types /\ Placed /\ Chains /\ TailStands /\ Counted
      /\ Sweep \in Checkers
  BY DEF AuditInv, Checkers
<1>1. ASSUME NEW w \in Writers, NEW s \in Sessions, StartTurn(w, s)
      PROVE  Types' /\ Placed'
  <2>1. PICK next \in Stages : /\ writer' = [writer EXCEPT ![w] = next]
                               /\ next.at = "turn"
                               /\ next.in = s
    BY <1>0, <1>1, StartTurnMoves
  <2>2. /\ writer' \in [Writers -> Stages]
        /\ \A v \in Writers : /\ writer'[v].at # "away" => writer'[v].in \in Sessions
                              /\ writer'[v].at \in {"tail", "half"} => writer'[v].entry \in Records
    BY <1>0, <2>1, TurnMoves
  <2> QED
    BY <1>0, <1>1, <2>2 DEF StartTurn, Types, Placed
<1>2. ASSUME NEW w \in Writers, EndTurn(w)
      PROVE  Types' /\ Placed'
  <2>1. /\ writer' \in [Writers -> Stages]
        /\ \A v \in Writers : /\ writer'[v].at # "away" => writer'[v].in \in Sessions
                              /\ writer'[v].at \in {"tail", "half"} => writer'[v].entry \in Records
    BY <1>0, <1>2, EndTurnMoves, TurnMoves DEF EndTurn
  <2> QED
    BY <1>0, <1>2, <2>1 DEF EndTurn, Types, Placed
<1>3. ASSUME NEW w \in Writers, TakeTail(w)
      PROVE  Types' /\ Placed'
  <2>1. PICK next \in Stages : /\ writer' = [writer EXCEPT ![w] = next]
                               /\ next.at = "tail"
                               /\ next.in = writer[w].in
                               /\ next.entry \in Records
    BY <1>0, <1>3, TakeTailMoves
  <2>2. writer[w].in \in Sessions
    BY <1>0, <1>3, TakeTailMoves
  <2>3. /\ writer' \in [Writers -> Stages]
        /\ \A v \in Writers : /\ writer'[v].at # "away" => writer'[v].in \in Sessions
                              /\ writer'[v].at \in {"tail", "half"} => writer'[v].entry \in Records
    BY <1>0, <2>1, <2>2, TurnMoves
  <2> QED
    BY <1>0, <1>3, <2>3 DEF TakeTail, Types, Placed
<1>4. ASSUME NEW w \in Writers, Write(w)
      PROVE  Types' /\ Placed'
  <2> DEFINE next == [writer[w] EXCEPT !.at = "half"]
  <2>1. writer[w].in \in Sessions /\ writer[w].entry \in Records
    BY <1>0, <1>4 DEF Write, Placed
  <2>2. /\ next \in Stages
        /\ next.at = "half"
        /\ next.in = writer[w].in
        /\ next.entry = writer[w].entry
    BY <1>0, WriteMoves
  <2>3. writer' = [writer EXCEPT ![w] = next]
    BY <1>0, <1>4 DEF Write, Types
  <2> HIDE DEF next
  <2>4. /\ writer' \in [Writers -> Stages]
        /\ \A v \in Writers : /\ writer'[v].at # "away" => writer'[v].in \in Sessions
                              /\ writer'[v].at \in {"tail", "half"} => writer'[v].entry \in Records
    BY <1>0, <2>1, <2>2, <2>3, TurnMoves
  <2>5. PICK before \in Seq(Lines) : file' = [file EXCEPT ![writer[w].in] = Append(before, Torn)]
    BY <1>0, <1>4, WriteMovesFile
  <2>6. Append(before, Torn) \in Seq(Lines)
    BY Appends DEF Lines
  <2>7. file' \in [Sessions -> Seq(Lines)]
    BY <1>0, <2>5, <2>6 DEF Types
  <2> QED
    BY <1>0, <1>4, <2>4, <2>7 DEF Write, Types, Placed
<1>5. ASSUME NEW w \in Writers, Finish(w) \/ Full(w)
      PROVE  Types' /\ Placed'
  <2> DEFINE next == [Away EXCEPT !.at = "turn", !.in = writer[w].in]
  <2>1. writer[w].at = "half" /\ writer' = [writer EXCEPT ![w] = next]
    BY <1>5 DEF Finish, Full
  <2>2. writer[w].in \in Sessions
    BY <1>0, <2>1 DEF Placed
  <2>3. next \in Stages /\ next.at = "turn" /\ next.in = writer[w].in
    BY <2>2, AppendedMoves
  <2> HIDE DEF next
  <2>4. /\ writer' \in [Writers -> Stages]
        /\ \A v \in Writers : /\ writer'[v].at # "away" => writer'[v].in \in Sessions
                              /\ writer'[v].at \in {"tail", "half"} => writer'[v].entry \in Records
    BY <1>0, <2>1, <2>2, <2>3, TurnMoves
  <2>5. PICK lines \in Seq(Lines) : file' = [file EXCEPT ![writer[w].in] = lines]
    BY <1>0, <1>5, <2>1, WholeIsChain, CutsAreChains DEF Finish, Full
  <2>6. file' \in [Sessions -> Seq(Lines)]
    BY <1>0, <2>2, <2>5 DEF Types
  <2>7. kept \in [Sessions -> Nat]
    BY <1>0 DEF Types
  <2>8. kept' = [kept EXCEPT ![writer[w].in] = @ + 1] \/ kept' = kept
    BY <1>5 DEF Finish, Full
  <2>9. kept' \in [Sessions -> Nat]
    BY <2>2, <2>7, <2>8
  <2> QED
    BY <1>0, <1>5, <2>4, <2>6, <2>9 DEF Finish, Full, Types, Placed
<1>6. ASSUME NEW s \in Sessions, Delete(s) \/ Archive(s)
      PROVE  Types' /\ Placed'
  <2>0. <<>> \in Seq(Lines) /\ file \in [Sessions -> Seq(Lines)] /\ kept \in [Sessions -> Nat]
    BY <1>0, EmptySeq DEF Types
  <2>1. file' = [file EXCEPT ![s] = <<>>] /\ kept' = [kept EXCEPT ![s] = 0]
    BY <1>6 DEF Delete, Archive
  <2>2. file' \in [Sessions -> Seq(Lines)]
    BY <2>0, <2>1
  <2>3. kept' \in [Sessions -> Nat]
    BY <2>0, <2>1
  <2> QED
    BY <1>0, <1>6, <2>2, <2>3 DEF Delete, Archive, Types, Placed
<1>7. ASSUME NEW s \in Sessions, Erase(s)
      PROVE  Types' /\ Placed'
  <2>1. file' \in [Sessions -> Seq(Lines)] /\ kept' \in [Sessions -> Nat]
    BY <1>0, <1>7, EmptySeq DEF Erase, Types
  <2>2. PICK next \in Places : checker' = [checker EXCEPT ![Sweep] = next] /\ next.at = "erase"
    BY <1>0, <1>7, EraseMoves
  <2>3. /\ checker' \in [Checkers -> Places]
        /\ \A d \in Checkers : checker'[d].at = "read" => checker'[d].reading \in Sessions
    BY <1>0, <2>2, CheckMoves
  <2> QED
    BY <1>0, <1>7, <2>1, <2>3 DEF Erase, Types, Placed
<1>8. ASSUME NEW c \in Checkers, NEW next \in Places,
             checker' = [checker EXCEPT ![c] = next],
             next.at = "read" => next.reading \in Sessions,
             healthy' \in BOOLEAN, old' \subseteq Sessions,
             UNCHANGED <<process, file, writer, lock, kept>>
      PROVE  Types' /\ Placed'
  <2>1. /\ checker' \in [Checkers -> Places]
        /\ \A d \in Checkers : checker'[d].at = "read" => checker'[d].reading \in Sessions
    BY <1>0, <1>8, CheckMoves
  <2> QED
    BY <1>0, <1>8, <2>1 DEF Types, Placed
<1>9. ASSUME NEW c \in Checkers, StartCheck(c)
      PROVE  Types' /\ Placed'
  <2>1. PICK next \in Places : checker' = [checker EXCEPT ![c] = next] /\ next.at = "walk"
    BY <1>9, StartCheckMoves
  <2>2. healthy' \in BOOLEAN /\ old' \subseteq Sessions
    BY <1>0, <1>9 DEF StartCheck, Types
  <2>3. UNCHANGED <<process, file, writer, lock, kept>>
    BY <1>9 DEF StartCheck
  <2> QED
    BY <1>8, <2>1, <2>2, <2>3
<1>10. ASSUME NEW c \in Checkers, NEW s \in Sessions, Look(c, s)
       PROVE  Types' /\ Placed'
  <2>1. PICK next \in Places : /\ checker' = [checker EXCEPT ![c] = next]
                               /\ next.at = IF file[s] = <<>> THEN "walk" ELSE "read"
                               /\ next.reading = IF file[s] = <<>> THEN NoEntry ELSE s
    BY <1>0, <1>10, LookMoves
  <2>2. healthy' \in BOOLEAN /\ old' \subseteq Sessions
    BY <1>0, <1>10 DEF Look, Types
  <2>3. UNCHANGED <<process, file, writer, lock, kept>>
    BY <1>10 DEF Look
  <2> QED
    BY <1>8, <2>1, <2>2, <2>3
<1>11. ASSUME NEW c \in Checkers, Read(c)
       PROVE  Types' /\ Placed'
  <2>1. PICK next \in Places : checker' = [checker EXCEPT ![c] = next] /\ next.at = "walk"
    BY <1>0, <1>11, ReadMoves
  <2>2. healthy' \in BOOLEAN /\ old' \subseteq Sessions
    BY <1>0, <1>11 DEF Read, Types
  <2>3. UNCHANGED <<process, file, writer, lock, kept>>
    BY <1>11 DEF Read
  <2> QED
    BY <1>8, <2>1, <2>2, <2>3
<1>12. ASSUME NEW c \in Checkers, NEW passed, Proceed(c, passed), healthy' \in BOOLEAN,
              UNCHANGED <<process, file, writer, lock, kept>>
       PROVE  Types' /\ Placed'
  <2>1. PICK next \in Places : /\ checker' = [checker EXCEPT ![c] = next]
                               /\ next.at \in {"idle", "erase"}
    BY <1>0, <1>12, ProceedMoves
  <2>2. old' \subseteq Sessions
    BY <1>0, <1>12 DEF Proceed, Types
  <2> QED
    BY <1>8, <1>12, <2>1, <2>2
<1>13. ASSUME NEW c \in Checkers, ReadFails(c) \/ EndCheck(c)
       PROVE  Types' /\ Placed'
  <2>1. checker[c].ok \in BOOLEAN
    BY <1>0 DEF Types, Places
  <2>2. healthy' \in BOOLEAN
    BY <1>13, <2>1 DEF ReadFails, EndCheck
  <2> QED
    BY <1>12, <1>13, <2>2 DEF ReadFails, EndCheck
<1>14. ASSUME EndTick
       PROVE  Types' /\ Placed'
  <2>1. healthy' \in BOOLEAN
    BY <1>0, <1>14 DEF EndTick, Types
  <2> QED
    BY <1>0, <1>12, <1>14, <2>1 DEF EndTick
<1>15. CASE Start
  BY <1>0, <1>15 DEF Start, Types, Placed
<1>16. CASE Crash
  <2>1. file' \in [Sessions -> Seq(Lines)]
    <3>1. CASE UNCHANGED file
      BY <1>0, <3>1 DEF Types
    <3>2. ASSUME NEW w \in Writers, NEW cut, writer[w].at = "half",
                 cut \in Cuts(w) \cup {Whole(w)},
                 file' = [file EXCEPT ![writer[w].in] = cut]
          PROVE  file' \in [Sessions -> Seq(Lines)]
      <4>1. cut \in Seq(Lines)
        BY <1>0, <3>2, CutsAreChains, WholeIsChain
      <4> QED
        BY <1>0, <3>2, <4>1 DEF Types
    <3> QED
      BY <1>16, <3>1, <3>2 DEF Crash
  <2>2. Away \in Stages /\ Away.at = "away" /\ Idle \in Places /\ Idle.at = "idle"
    BY EndTurnMoves DEF Idle, Places
  <2>3. writer' = [w \in Writers |-> Away] /\ checker' = [c \in Checkers |-> Idle]
    BY <1>16 DEF Crash
  <2>4. Placed'
    BY <2>2, <2>3 DEF Placed
  <2>5. writer' \in [Writers -> Stages] /\ checker' \in [Checkers -> Places]
    BY <2>2, <2>3
  <2> QED
    BY <1>0, <1>16, <2>1, <2>4, <2>5 DEF Crash, Types
<1>17. CASE UNCHANGED vars
  BY <1>0, <1>17 DEF vars, Types, Placed
<1>18. ASSUME NEW w \in Writers, RefuseTail(w)
       PROVE  Types' /\ Placed'
  BY <1>17, <1>18 DEF RefuseTail
<1> QED
  BY <1>1, <1>2, <1>3, <1>4, <1>5, <1>6, <1>7, <1>9, <1>10, <1>11, <1>13, <1>14, <1>15,
     <1>16, <1>17, <1>18 DEF Next, Turn, Check

\* Every step keeps the order of the process and of the lock.
LEMMA QuietStep ==
  ASSUME AuditInv, [Next]_vars
  PROVE  Quiet' /\ OneAppends'
<1>0. /\ Types /\ Placed /\ Chains /\ Quiet /\ OneAppends
      /\ Nobody \notin Writers
      /\ Sweep \in Checkers
      /\ Away.at = "away"
      /\ Idle.at = "idle"
  BY EndTurnMoves, AuditAssumption DEF AuditInv, AuditAssumption, Checkers, Idle
<1>1. ASSUME NEW w \in Writers, NEW next \in Stages,
             writer' = [writer EXCEPT ![w] = next],
             process' # "down",
             next.at \in {"tail", "half"} => lock' = w,
             lock' = lock \/ \A v \in Writers \ {w} : writer[v].at \notin {"tail", "half"}
      PROVE  Quiet' /\ OneAppends'
  <2>1. \A v \in Writers : writer'[v] = IF v = w THEN next ELSE writer[v]
    BY <1>0, <1>1 DEF Types
  <2>2. OneAppends'
    BY <1>0, <1>1, <2>1 DEF OneAppends
  <2> QED
    BY <1>1, <2>2 DEF Quiet
<1>2. ASSUME NEW w \in Writers, NEW s \in Sessions, StartTurn(w, s)
      PROVE  Quiet' /\ OneAppends'
  <2>1. PICK next \in Stages : writer' = [writer EXCEPT ![w] = next] /\ next.at = "turn"
    BY <1>0, <1>2, StartTurnMoves
  <2> QED
    BY <1>1, <1>2, <2>1 DEF StartTurn
<1>3. ASSUME NEW w \in Writers, EndTurn(w)
      PROVE  Quiet' /\ OneAppends'
  <2>1. process' # "down"
    BY <1>0, <1>3 DEF EndTurn, Quiet
  <2> QED
    BY <1>1, <1>3, <2>1, EndTurnMoves DEF EndTurn
<1>4. ASSUME NEW w \in Writers, TakeTail(w)
      PROVE  Quiet' /\ OneAppends'
  <2>1. process' # "down" /\ lock' = w
    BY <1>0, <1>4 DEF TakeTail, Quiet
  <2>2. \A v \in Writers : writer[v].at \notin {"tail", "half"}
    BY <1>0, <1>4 DEF TakeTail, OneAppends
  <2>3. PICK next \in Stages : writer' = [writer EXCEPT ![w] = next]
    BY <1>0, <1>4, TakeTailMoves
  <2> QED
    BY <1>1, <2>1, <2>2, <2>3
<1>5. ASSUME NEW w \in Writers, Write(w)
      PROVE  Quiet' /\ OneAppends'
  <2> DEFINE next == [writer[w] EXCEPT !.at = "half"]
  <2>1. next \in Stages
    BY <1>0, WriteMoves
  <2>2. writer' = [writer EXCEPT ![w] = next]
    BY <1>0, <1>5 DEF Write, Types
  <2> HIDE DEF next
  <2>3. process' # "down" /\ lock' = w /\ lock' = lock
    BY <1>0, <1>5 DEF Write, Quiet, OneAppends
  <2> QED
    BY <1>1, <2>1, <2>2, <2>3
<1>6. ASSUME NEW w \in Writers, Finish(w) \/ Full(w)
      PROVE  Quiet' /\ OneAppends'
  <2> DEFINE next == [Away EXCEPT !.at = "turn", !.in = writer[w].in]
  <2>1. writer[w].at = "half" /\ writer' = [writer EXCEPT ![w] = next]
    BY <1>6 DEF Finish, Full
  <2>2. next \in Stages /\ next.at = "turn"
    BY <1>0, <2>1, AppendedMoves DEF Placed
  <2> HIDE DEF next
  <2>3. process' # "down"
    BY <1>0, <1>6, <2>1 DEF Finish, Full, Quiet
  <2>4. \A v \in Writers \ {w} : writer[v].at \notin {"tail", "half"}
    BY <1>0, <2>1 DEF OneAppends
  <2> QED
    BY <1>1, <2>1, <2>2, <2>3, <2>4
<1>7. ASSUME NEW s \in Sessions, Delete(s) \/ Archive(s)
      PROVE  Quiet' /\ OneAppends'
  BY <1>0, <1>7 DEF Delete, Archive, Quiet, OneAppends
<1>8. ASSUME process # "down", UNCHANGED <<process, writer, lock>>
      PROVE  Quiet' /\ OneAppends'
  BY <1>0, <1>8 DEF Quiet, OneAppends
<1>9. ASSUME NEW s \in Sessions, Erase(s)
      PROVE  Quiet' /\ OneAppends'
  <2>1. process # "down"
    BY <1>0, <1>9 DEF Erase, Quiet
  <2> QED
    BY <1>8, <1>9, <2>1 DEF Erase
<1>10. ASSUME NEW c \in Checkers, Check(c)
       PROVE  Quiet' /\ OneAppends'
  <2>1. process # "down"
    BY <1>0, <1>10 DEF Check, StartCheck, Look, Read, ReadFails, EndCheck, Quiet
  <2>2. UNCHANGED <<process, writer, lock>>
    BY <1>10 DEF Check, StartCheck, Look, Read, ReadFails, EndCheck
  <2> QED
    BY <1>8, <2>1, <2>2
<1>11. ASSUME EndTick
       PROVE  Quiet' /\ OneAppends'
  <2>1. process # "down"
    BY <1>0, <1>11 DEF EndTick, Quiet
  <2> QED
    BY <1>8, <1>11, <2>1 DEF EndTick
<1>12. CASE Start
  BY <1>0, <1>12 DEF Start, Quiet, OneAppends
<1>13. CASE Crash
  <2>1. \A w \in Writers : writer'[w].at = "away"
    BY <1>0, <1>13 DEF Crash
  <2>2. \A c \in Checkers : checker'[c].at = "idle"
    BY <1>0, <1>13 DEF Crash
  <2> QED
    BY <2>1, <2>2 DEF Quiet, OneAppends
<1>14. CASE UNCHANGED vars
  BY <1>0, <1>14 DEF vars, Quiet, OneAppends
<1>15. ASSUME NEW w \in Writers, RefuseTail(w)
       PROVE  Quiet' /\ OneAppends'
  BY <1>14, <1>15 DEF RefuseTail
<1> QED
  BY <1>2, <1>3, <1>4, <1>5, <1>6, <1>7, <1>9, <1>10, <1>11, <1>12, <1>13, <1>14, <1>15
  DEF Next, Turn

-----------------------------------------------------------------------------
(* The chains. *)

\* A turn elsewhere stands where it was.
LEMMA StandsAlike ==
  ASSUME NEW w \in Writers, Stands(w),
         writer'[w] = writer[w],
         file'[writer[w].in] = file[writer[w].in],
         kept'[writer[w].in] = kept[writer[w].in]
  PROVE  Stands(w)'
BY DEF Stands, Continues

\* A chain that is removed, with no turn in its session.
LEMMA Removed ==
  ASSUME Types, Placed, Chains, TailStands, Counted,
         NEW s \in Sessions, ~ Busy(s),
         file' = [file EXCEPT ![s] = <<>>],
         kept' = [kept EXCEPT ![s] = 0],
         writer' = writer
  PROVE  Chains' /\ TailStands' /\ Counted'
<1>1. file'[s] = <<>> /\ kept'[s] = 0 /\ Len(<<>>) = 0
  BY EmptySeq DEF Types
<1>2. \A t \in Sessions \ {s} : file'[t] = file[t] /\ kept'[t] = kept[t]
  BY DEF Types
<1>3. Chains'
  BY <1>1, <1>2 DEF Chains, Chain, Fits
<1>4. Counted'
  BY <1>1, <1>2 DEF Counted, Counts
<1>5. ASSUME NEW w \in Writers PROVE Stands(w)'
  <2>1. CASE writer[w].at = "away"
    BY <2>1 DEF Stands
  <2>2. CASE writer[w].at # "away"
    <3>1. writer[w].in \in Sessions \ {s}
      BY <2>2 DEF Busy, Placed
    <3> QED
      BY <1>2, <3>1, StandsAlike DEF TailStands
  <2> QED
    BY <2>1, <2>2
<1> QED
  BY <1>3, <1>4, <1>5 DEF TailStands

\* An append that is over.
LEMMA Appended ==
  ASSUME Types, Chains, TailStands, Counted, OneAppends,
         NEW w \in Writers, NEW s \in Sessions, NEW lines \in Seq(Lines), NEW n \in Nat,
         Chain(lines), Counts(lines, n),
         file' = [file EXCEPT ![s] = lines],
         kept' = [kept EXCEPT ![s] = n],
         \A v \in Writers : writer'[v].at \notin {"tail", "half"}
  PROVE  Chains' /\ TailStands' /\ Counted'
<1>1. file'[s] = lines /\ kept'[s] = n
  BY DEF Types
<1>2. \A t \in Sessions \ {s} : file'[t] = file[t] /\ kept'[t] = kept[t]
  BY DEF Types
<1>3. Chains'
  BY <1>1, <1>2 DEF Chains
<1>4. Counted'
  BY <1>1, <1>2 DEF Counted
<1> QED
  BY <1>3, <1>4 DEF TailStands, Stands

\* Every step keeps the chains.
LEMMA ChainStep ==
  ASSUME AuditInv, [Next]_vars
  PROVE  Chains' /\ TailStands' /\ Counted'
<1>0. /\ Types /\ Placed /\ Chains /\ Quiet /\ OneAppends /\ TailStands /\ Counted /\ Vetted
      /\ Away.at = "away"
  BY EndTurnMoves DEF AuditInv
<1>1. ASSUME NEW w \in Writers, NEW next \in Stages,
             writer' = [writer EXCEPT ![w] = next],
             next.at \in {"tail", "half"} => Stands(w)',
             UNCHANGED <<file, kept>>
      PROVE  Chains' /\ TailStands' /\ Counted'
  <2>1. writer'[w] = next /\ \A v \in Writers \ {w} : writer'[v] = writer[v]
    BY <1>0, <1>1 DEF Types
  <2>2. Stands(w)'
    BY <1>1, <2>1 DEF Stands
  <2>3. ASSUME NEW v \in Writers \ {w} PROVE Stands(v)'
    BY <1>0, <1>1, <2>1, StandsAlike DEF TailStands
  <2> QED
    BY <1>0, <1>1, <2>2, <2>3 DEF Chains, Counted, TailStands
<1>2. ASSUME NEW w \in Writers, NEW s \in Sessions, StartTurn(w, s)
      PROVE  Chains' /\ TailStands' /\ Counted'
  <2>1. PICK next \in Stages : writer' = [writer EXCEPT ![w] = next] /\ next.at = "turn"
    BY <1>0, <1>2, StartTurnMoves
  <2> QED
    BY <1>1, <1>2, <2>1 DEF StartTurn
<1>3. ASSUME NEW w \in Writers, EndTurn(w)
      PROVE  Chains' /\ TailStands' /\ Counted'
  BY <1>1, <1>3, EndTurnMoves DEF EndTurn
<1>4. ASSUME NEW w \in Writers, TakeTail(w)
      PROVE  Chains' /\ TailStands' /\ Counted'
  <2> DEFINE lines == file[writer[w].in]
  <2>1. lines # <<>> => lines[Len(lines)] \in Records
    BY <1>0, <1>4, TakeTailMoves
  <2>2. PICK next \in Stages :
          /\ writer' = [writer EXCEPT ![w] = next]
          /\ next.at = "tail"
          /\ next.in = writer[w].in
          /\ next.prior = IF lines = <<>> THEN NoEntry ELSE lines[Len(lines)]
          /\ next.entry.ends
          /\ Fits(lines, Len(lines) + 1, next.entry)
    BY <1>0, <1>4, TakeTailMoves
  <2>3. writer'[w] = next
    BY <1>0, <2>2 DEF Types
  <2>4. file' = file /\ kept' = kept
    BY <1>4 DEF TakeTail
  <2>5. Stands(w)'
    BY <2>1, <2>2, <2>3, <2>4 DEF Stands, Fits
  <2> QED
    BY <1>1, <2>2, <2>4, <2>5
<1>5. ASSUME NEW w \in Writers, Write(w)
      PROVE  Chains' /\ TailStands' /\ Counted'
  <2> DEFINE s == writer[w].in
             lines == file[s]
             before == IF Continues(w) THEN Front(lines) ELSE lines
             next == [writer[w] EXCEPT !.at = "half"]
  <2>1. /\ s \in Sessions
        /\ lines \in Seq(Lines)
        /\ before \in Seq(Lines)
        /\ Sound(before)
        /\ file' = [file EXCEPT ![s] = Append(before, Torn)]
        /\ Continues(w) => /\ writer[w].prior \in Records
                           /\ Len(before) = Len(lines) - 1
                           /\ Len(lines) \in Nat \ {0}
                           /\ lines[Len(lines)] = writer[w].prior
                           /\ ~ writer[w].prior.ends
                           /\ Fits(before, Len(before) + 1, writer[w].prior)
        /\ ~ Continues(w) => Fits(before, Len(before) + 1, writer[w].entry)
    BY <1>0, <1>5, WriteMovesFile
  <2>2. ~ Continues(w) => before = lines
    OBVIOUS
  <2>3. /\ next \in Stages
        /\ next.at = "half"
        /\ next.in = s
        /\ next.prior = writer[w].prior
        /\ next.entry = writer[w].entry
    BY <1>0, WriteMoves
  <2>4. writer' = [writer EXCEPT ![w] = next] /\ kept' = kept /\ writer[w].at = "tail"
    BY <1>0, <1>5 DEF Write, Types
  <2>5. Counts(lines, kept[s]) /\ kept[s] \in Nat
    BY <1>0, <2>1 DEF Counted, Types
  <2>6. writer[w].entry.ends
    BY <1>0, <2>4 DEF TailStands, Stands
  <2> DEFINE after == Append(before, Torn)
  <2> HIDE DEF next, lines, before
  <2>7. /\ Len(before) \in Nat
        /\ after \in Seq(Lines)
        /\ after # <<>>
        /\ Len(after) = Len(before) + 1
        /\ \A j \in 1..(Len(before) + 1) - 1 : after[j] = before[j]
        /\ after[Len(after)] = Torn
    <3>1. Torn \in Lines
      BY DEF Lines
    <3> QED
      BY <2>1, <3>1, Appends
  <2>8. Chain(after)
    BY <2>1, SoundThenLine DEF Lines
  <2> HIDE DEF after
  <2>9. kept[s] < Len(after)
    <3>1. CASE Continues(w)
      <4>1. lines # <<>> /\ lines[Len(lines)] # Torn /\ ~ lines[Len(lines)].ends
        BY <2>1, <3>1, Kinds
      <4> QED
        BY <2>1, <2>5, <2>7, <3>1, <4>1 DEF Counts
    <3>2. CASE ~ Continues(w)
      BY <2>2, <2>5, <2>7, <3>2 DEF Counts
    <3> QED
      BY <3>1, <3>2
  <2>10. ASSUME NEW record, Fits(before, Len(before) + 1, record)
         PROVE  Fits(after, Len(after), record)
    <3>1. Len(before) + 1 \in Nat /\ Len(before) + 1 \in 1..Len(before) + 1
      BY <2>7
    <3> QED
      BY <2>7, <2>10, <3>1, FitsAlike
  <2>11. writer'[w] = next /\ \A v \in Writers \ {w} : writer'[v] = writer[v]
    BY <1>0, <2>4 DEF Types
  <2>12. file'[s] = after /\ \A t \in Sessions \ {s} : file'[t] = file[t]
    BY <1>0, <2>1 DEF Types, after
  <2>13. Stands(w)'
    <3>1. Continues(w)' <=> Continues(w)
      BY <2>3, <2>11 DEF Continues
    <3>2. IF Continues(w)
            THEN writer[w].prior \in Records /\ Fits(after, Len(after), writer[w].prior)
            ELSE Fits(after, Len(after), writer[w].entry)
      BY <2>1, <2>10
    <3>3. file'[writer'[w].in] = after /\ kept'[writer'[w].in] = kept[s]
      BY <2>3, <2>4, <2>11, <2>12
    <3> QED
      BY <2>3, <2>6, <2>7, <2>9, <2>11, <3>1, <3>2, <3>3 DEF Stands, Fits
  <2>14. ASSUME NEW v \in Writers \ {w} PROVE Stands(v)'
    <3>1. writer'[v].at \notin {"tail", "half"}
      BY <1>0, <2>4, <2>11 DEF OneAppends
    <3> QED
      BY <3>1 DEF Stands
  <2>15. Chains'
    BY <1>0, <2>8, <2>12 DEF Chains
  <2>16. Counts(after, kept[s])
    BY <2>5, <2>7, <2>9 DEF Counts
  <2>17. Counted'
    BY <1>0, <2>4, <2>12, <2>16 DEF Counted
  <2> QED
    BY <2>13, <2>14, <2>15, <2>17 DEF TailStands
<1>6. ASSUME NEW w \in Writers, Finish(w) \/ Full(w)
      PROVE  Chains' /\ TailStands' /\ Counted'
  <2> DEFINE s == writer[w].in
             next == [Away EXCEPT !.at = "turn", !.in = s]
  <2>1. writer[w].at = "half" /\ writer' = [writer EXCEPT ![w] = next]
    BY <1>6 DEF Finish, Full
  <2>2. s \in Sessions /\ kept[s] \in Nat
    BY <1>0, <2>1 DEF Placed, Types
  <2>3. next.at = "turn"
    BY <2>2, AppendedMoves
  <2>4. \A v \in Writers : writer'[v].at \notin {"tail", "half"}
    BY <1>0, <2>1, <2>3 DEF OneAppends, Types
  <2>5. \E lines \in Seq(Lines), n \in Nat :
          /\ Chain(lines) /\ Counts(lines, n)
          /\ file' = [file EXCEPT ![s] = lines]
          /\ kept' = [kept EXCEPT ![s] = n]
    <3>1. CASE Finish(w)
      <4>1. /\ Whole(w) \in Seq(Lines)
            /\ Chain(Whole(w))
            /\ Counts(Whole(w), kept[s] + 1)
        BY <1>0, <2>1, WholeIsChain
      <4>2. /\ file' = [file EXCEPT ![s] = Whole(w)]
            /\ kept' = [kept EXCEPT ![s] = kept[s] + 1]
            /\ kept[s] + 1 \in Nat
        BY <1>0, <2>2, <3>1 DEF Finish, Types
      <4> QED
        BY <4>1, <4>2
    <3>2. CASE Full(w)
      <4>1. PICK cut \in Cuts(w) : file' = [file EXCEPT ![s] = cut]
        BY <3>2 DEF Full
      <4>2. cut \in Seq(Lines) /\ Chain(cut) /\ Counts(cut, kept[s])
        BY <1>0, <2>1, CutsAreChains
      <4>3. kept' = [kept EXCEPT ![s] = kept[s]]
        BY <1>0, <2>2, <3>2 DEF Full, Types
      <4> QED
        BY <2>2, <4>1, <4>2, <4>3
    <3> QED
      BY <1>6, <3>1, <3>2
  <2> QED
    BY <1>0, <2>2, <2>4, <2>5, Appended
<1>7. ASSUME NEW s \in Sessions, Delete(s)
      PROVE  Chains' /\ TailStands' /\ Counted'
  BY <1>0, <1>7, Removed DEF Delete
<1>8. ASSUME NEW s \in Sessions, Archive(s)
      PROVE  Chains' /\ TailStands' /\ Counted'
  <2>1. ~ Busy(s)
    BY <1>0, <1>8 DEF Archive, Quiet, Busy
  <2> QED
    BY <1>0, <1>8, <2>1, Removed DEF Archive
<1>9. ASSUME UNCHANGED <<file, writer, kept>>
      PROVE  Chains' /\ TailStands' /\ Counted'
  BY <1>0, <1>9, StandsAlike DEF Chains, TailStands, Counted
<1>10. ASSUME NEW s \in Sessions, Erase(s)
       PROVE  Chains' /\ TailStands' /\ Counted'
  <2>1. CASE s \in old
    BY <1>0, <1>10, <2>1, Removed DEF Erase
  <2>2. CASE s \notin old
    BY <1>9, <1>10, <2>2 DEF Erase
  <2> QED
    BY <2>1, <2>2
<1>11. ASSUME NEW c \in Checkers, Check(c)
       PROVE  Chains' /\ TailStands' /\ Counted'
  BY <1>9, <1>11 DEF Check, StartCheck, Look, Read, ReadFails, EndCheck
<1>12. CASE EndTick
  BY <1>9, <1>12 DEF EndTick
<1>13. CASE Start
  BY <1>9, <1>13 DEF Start
<1>14. CASE Crash
  <2>1. \A v \in Writers : writer'[v].at \notin {"tail", "half"}
    BY <1>0, <1>14 DEF Crash
  <2>2. kept' = kept
    BY <1>14 DEF Crash
  <2>3. CASE UNCHANGED file
    BY <1>0, <2>1, <2>2, <2>3 DEF Chains, Counted, TailStands, Stands
  <2>4. ASSUME NEW w \in Writers, NEW cut, writer[w].at = "half",
               cut \in Cuts(w) \cup {Whole(w)},
               file' = [file EXCEPT ![writer[w].in] = cut]
        PROVE  Chains' /\ TailStands' /\ Counted'
    <3>1. writer[w].in \in Sessions /\ kept[writer[w].in] \in Nat
      BY <1>0, <2>4 DEF Placed, Types
    <3>2. CASE cut \in Cuts(w)
      <4>1. cut \in Seq(Lines) /\ Chain(cut) /\ Counts(cut, kept[writer[w].in])
        BY <1>0, <2>4, <3>2, CutsAreChains
      <4>2. kept' = [kept EXCEPT ![writer[w].in] = kept[writer[w].in]]
        BY <1>0, <2>2, <3>1 DEF Types
      <4> QED
        BY <1>0, <2>1, <2>4, <3>1, <4>1, <4>2, Appended
    <3>3. CASE cut = Whole(w)
      <4>1. cut \in Seq(Lines) /\ Chain(cut) /\ Counts(cut, kept[writer[w].in] + 1)
        BY <1>0, <2>4, <3>3, WholeIsChain
      <4>2. Counts(cut, kept[writer[w].in])
        <5>1. Len(cut) \in Nat
          BY <4>1
        <5> QED
          BY <3>1, <4>1, <5>1 DEF Counts
      <4>3. kept' = [kept EXCEPT ![writer[w].in] = kept[writer[w].in]]
        BY <1>0, <2>2, <3>1 DEF Types
      <4> QED
        BY <1>0, <2>1, <2>4, <3>1, <4>1, <4>2, <4>3, Appended
    <3> QED
      BY <2>4, <3>2, <3>3
  <2> QED
    BY <1>14, <2>3, <2>4 DEF Crash
<1>15. CASE UNCHANGED vars
  BY <1>9, <1>15 DEF vars
<1>16. ASSUME NEW w \in Writers, RefuseTail(w)
       PROVE  Chains' /\ TailStands' /\ Counted'
  BY <1>15, <1>16 DEF RefuseTail
<1> QED
  BY <1>2, <1>3, <1>4, <1>5, <1>6, <1>7, <1>8, <1>10, <1>11, <1>12, <1>13, <1>14, <1>15, <1>16
  DEF Next, Turn

-----------------------------------------------------------------------------
(* The sweep. *)

\* No line is no break.
LEMMA EmptyVerifies == Verifies(<<>>)
<1>1. Len(<<>>) = 0
  BY EmptySeq
<1> QED
  BY <1>1 DEF Verifies

\* Where the sweep stays where it is, and no old session gets a turn or more lines.
LEMMA VettedAlike ==
  ASSUME Vetted,
         checker'[Sweep] = checker[Sweep], old' \subseteq old,
         \A s \in old' : ~ Busy(s)' /\ file'[s] \in {file[s], <<>>}
  PROVE  Vetted'
<1>1. \A s \in old' : Verifies(file[s]) => Verifies(file'[s])
  BY EmptyVerifies
<1> QED
  BY <1>1 DEF Vetted

\* Every step keeps what the sweep relies on.
LEMMA VettedStep ==
  ASSUME AuditInv, [Next]_vars
  PROVE  Vetted'
<1>0. /\ Types /\ Placed /\ Quiet /\ Vetted
      /\ Sweep \in Checkers
      /\ Monitor # Sweep
      /\ Away.at = "away"
      /\ Idle.at = "idle"
  BY EndTurnMoves, AuditAssumption DEF AuditInv, AuditAssumption, Checkers, Idle
<1>1. ASSUME NEW w \in Writers, NEW s \in Sessions, StartTurn(w, s)
      PROVE  Vetted'
  <2>1. PICK next \in Stages : writer' = [writer EXCEPT ![w] = next] /\ next.in = s
    BY <1>0, <1>1, StartTurnMoves
  <2>2. \A v \in Writers : writer'[v] = IF v = w THEN next ELSE writer[v]
    BY <1>0, <2>1 DEF Types
  <2>3. old' = old \ {s} /\ file' = file /\ checker' = checker
    BY <1>1 DEF StartTurn
  <2>4. \A t \in old' : ~ Busy(t)'
    BY <1>0, <2>1, <2>2, <2>3 DEF Vetted, Busy
  <2> QED
    BY <1>0, <2>3, <2>4, VettedAlike
<1>2. ASSUME NEW w \in Writers, writer[w].at # "away", NEW next \in Stages,
             writer' = [writer EXCEPT ![w] = next],
             next.at # "away" => next.in = writer[w].in,
             \A t \in Sessions \ {writer[w].in} : file'[t] = file[t],
             UNCHANGED <<checker, old>>
      PROVE  Vetted'
  <2>1. \A v \in Writers : writer'[v] = IF v = w THEN next ELSE writer[v]
    BY <1>0, <1>2 DEF Types
  <2>2. \A t \in old : ~ Busy(t)'
    BY <1>0, <1>2, <2>1 DEF Vetted, Busy
  <2>3. \A t \in old : t # writer[w].in
    BY <1>0, <1>2 DEF Vetted, Busy
  <2>4. old \subseteq Sessions
    BY <1>0 DEF Types
  <2> QED
    BY <1>0, <1>2, <2>2, <2>3, <2>4, VettedAlike
<1>3. ASSUME NEW w \in Writers, EndTurn(w)
      PROVE  Vetted'
  BY <1>2, <1>3, EndTurnMoves DEF EndTurn
<1>4. ASSUME NEW w \in Writers, TakeTail(w)
      PROVE  Vetted'
  <2>1. PICK next \in Stages : /\ writer' = [writer EXCEPT ![w] = next]
                               /\ next.in = writer[w].in
    BY <1>0, <1>4, TakeTailMoves DEF AuditInv
  <2> QED
    BY <1>2, <1>4, <2>1 DEF TakeTail
<1>5. ASSUME NEW w \in Writers, Write(w)
      PROVE  Vetted'
  <2> DEFINE next == [writer[w] EXCEPT !.at = "half"]
  <2>1. next \in Stages /\ next.in = writer[w].in
    BY <1>0, WriteMoves
  <2>2. writer' = [writer EXCEPT ![w] = next]
    BY <1>0, <1>5 DEF Write, Types
  <2> HIDE DEF next
  <2>3. \A t \in Sessions \ {writer[w].in} : file'[t] = file[t]
    BY <1>0, <1>5 DEF Write, Types
  <2> QED
    BY <1>2, <1>5, <2>1, <2>2, <2>3 DEF Write
<1>6. ASSUME NEW w \in Writers, Finish(w) \/ Full(w)
      PROVE  Vetted'
  <2> DEFINE next == [Away EXCEPT !.at = "turn", !.in = writer[w].in]
  <2>1. writer[w].at = "half" /\ writer' = [writer EXCEPT ![w] = next]
    BY <1>6 DEF Finish, Full
  <2>2. next \in Stages /\ next.in = writer[w].in
    BY <1>0, <2>1, AppendedMoves DEF Placed
  <2> HIDE DEF next
  <2>3. \A t \in Sessions \ {writer[w].in} : file'[t] = file[t]
    BY <1>0, <1>6 DEF Finish, Full, Types
  <2> QED
    BY <1>2, <1>6, <2>1, <2>2, <2>3 DEF Finish, Full
<1>7. ASSUME NEW s \in Sessions, Delete(s) \/ Archive(s)
      PROVE  Vetted'
  <2>1. file' = [file EXCEPT ![s] = <<>>] /\ UNCHANGED <<writer, checker, old>>
    BY <1>7 DEF Delete, Archive
  <2>2. \A t \in old : file'[t] \in {file[t], <<>>}
    BY <1>0, <2>1 DEF Types
  <2>3. \A t \in old : ~ Busy(t)'
    BY <1>0, <2>1 DEF Vetted, Busy
  <2> QED
    BY <1>0, <2>1, <2>2, <2>3, VettedAlike
<1>8. ASSUME NEW s \in Sessions, Erase(s)
      PROVE  Vetted'
  <2>1. PICK next \in Places : checker' = [checker EXCEPT ![Sweep] = next] /\ next.at = "erase"
    BY <1>0, <1>8, EraseMoves
  <2>2. checker'[Sweep].at = "erase"
    BY <1>0, <2>1 DEF Types
  <2>3. old' = old \ {s} /\ writer' = writer /\ checker[Sweep].at = "erase"
    BY <1>8 DEF Erase
  <2>4. \A t \in old' : file'[t] = file[t]
    BY <1>0, <1>8, <2>3 DEF Erase, Types
  <2> QED
    BY <1>0, <2>2, <2>3, <2>4 DEF Vetted, Busy
<1>9. ASSUME checker'[Sweep] = checker[Sweep], UNCHANGED <<file, writer, old>>
      PROVE  Vetted'
  BY <1>0, <1>9 DEF Vetted, Busy
<1>10. ASSUME NEW c \in Checkers, c # Sweep, Check(c)
       PROVE  Vetted'
  <2>1. UNCHANGED <<file, writer>>
    BY <1>10 DEF Check, StartCheck, Look, Read, ReadFails, EndCheck
  <2>2. old' = old /\ checker'[Sweep] = checker[Sweep]
    <3>1. CASE StartCheck(c)
      BY <1>0, <1>10, <3>1 DEF StartCheck, Types
    <3>2. CASE \E s \in Sessions : Look(c, s)
      <4>1. PICK next \in Places : checker' = [checker EXCEPT ![c] = next]
        BY <1>0, <3>2, LookMoves
      <4> QED
        BY <1>0, <1>10, <3>2, <4>1 DEF Look, Types
    <3>3. CASE Read(c)
      <4>1. PICK next \in Places : checker' = [checker EXCEPT ![c] = next]
        BY <1>0, <3>3, ReadMoves
      <4> QED
        BY <1>0, <1>10, <3>3, <4>1 DEF Read, Types
    <3>4. CASE ReadFails(c) \/ EndCheck(c)
      <4>1. PICK passed : Proceed(c, passed)
        BY <3>4 DEF ReadFails, EndCheck
      <4>2. PICK next \in Places : checker' = [checker EXCEPT ![c] = next] /\ old' = old
        BY <1>0, <1>10, <4>1, ProceedMoves
      <4> QED
        BY <1>0, <1>10, <4>2 DEF Types
    <3> QED
      BY <1>10, <3>1, <3>2, <3>3, <3>4 DEF Check
  <2> QED
    BY <1>9, <2>1, <2>2
<1>11. ASSUME StartCheck(Sweep)
       PROVE  Vetted'
  <2>1. PICK next \in Places : /\ checker' = [checker EXCEPT ![Sweep] = next]
                               /\ next.at = "walk"
                               /\ next.left = {s \in Sessions : file[s] # <<>>}
    BY <1>0, <1>11, StartCheckMoves
  <2>2. checker'[Sweep] = next
    BY <1>0, <2>1 DEF Types
  <2>3. old' = {s \in Sessions : ~ Busy(s)} /\ UNCHANGED <<file, writer>>
    BY <1>11 DEF StartCheck
  <2>4. \A s \in old' : s \in next.left \/ Verifies(file'[s])
    BY <2>1, <2>3, EmptyVerifies
  <2> QED
    BY <2>1, <2>2, <2>3, <2>4 DEF Vetted, Busy
<1>12. ASSUME NEW s \in Sessions, Look(Sweep, s)
       PROVE  Vetted'
  <2>1. PICK next \in Places : /\ checker' = [checker EXCEPT ![Sweep] = next]
                               /\ next.at = IF file[s] = <<>> THEN "walk" ELSE "read"
                               /\ next.left = checker[Sweep].left \ {s}
                               /\ next.reading = IF file[s] = <<>> THEN NoEntry ELSE s
                               /\ next.ok = checker[Sweep].ok
    BY <1>0, <1>12, LookMoves
  <2>2. checker'[Sweep] = next
    BY <1>0, <2>1 DEF Types
  <2>3. UNCHANGED <<file, writer, old>> /\ checker[Sweep].at = "walk"
    BY <1>12 DEF Look
  <2>4. file[s] = <<>> => Verifies(file[s])
    BY EmptyVerifies
  <2> QED
    BY <1>0, <2>1, <2>2, <2>3, <2>4 DEF Vetted, Busy
<1>13. ASSUME Read(Sweep)
       PROVE  Vetted'
  <2>1. PICK next \in Places : /\ checker' = [checker EXCEPT ![Sweep] = next]
                               /\ next.at = "walk"
                               /\ next.left = checker[Sweep].left
                               /\ next.ok = (checker[Sweep].ok
                                               /\ Verifies(file[checker[Sweep].reading]))
    BY <1>0, <1>13, ReadMoves
  <2>2. checker'[Sweep] = next
    BY <1>0, <2>1 DEF Types
  <2>3. UNCHANGED <<file, writer, old>> /\ checker[Sweep].at = "read"
    BY <1>13 DEF Read
  <2> QED
    BY <1>0, <2>1, <2>2, <2>3 DEF Vetted, Busy
<1>14. ASSUME Proceed(Sweep, FALSE), UNCHANGED <<file, writer>>
       PROVE  Vetted'
  <2>1. PICK next \in Places : /\ checker' = [checker EXCEPT ![Sweep] = next]
                               /\ next.at = "idle"
                               /\ old' = {}
    BY <1>0, <1>14, ProceedMoves
  <2>2. checker'[Sweep] = next
    BY <1>0, <2>1 DEF Types
  <2> QED
    BY <2>1, <2>2 DEF Vetted
<1>15. ASSUME EndCheck(Sweep)
       PROVE  Vetted'
  <2>1. UNCHANGED <<file, writer>> /\ checker[Sweep].at = "walk" /\ checker[Sweep].left = {}
    BY <1>15 DEF EndCheck
  <2>2. PICK next \in Places :
          /\ checker' = [checker EXCEPT ![Sweep] = next]
          /\ \/ checker[Sweep].ok /\ next.at = "erase" /\ old' = old
             \/ next.at = "idle" /\ old' = {}
    BY <1>0, <1>15, ProceedMoves DEF EndCheck
  <2>3. checker'[Sweep] = next
    BY <1>0, <2>2 DEF Types
  <2> QED
    BY <1>0, <2>1, <2>2, <2>3 DEF Vetted, Busy
<1>16. ASSUME Check(Sweep)
       PROVE  Vetted'
  BY <1>11, <1>12, <1>13, <1>14, <1>15, <1>16 DEF Check, ReadFails
<1>17. CASE EndTick
  BY <1>14, <1>17 DEF EndTick
<1>18. CASE Start
  BY <1>9, <1>18 DEF Start
<1>19. CASE Crash
  <2>1. checker'[Sweep].at = "idle" /\ old' = {}
    BY <1>0, <1>19 DEF Crash
  <2> QED
    BY <2>1 DEF Vetted
<1>20. CASE UNCHANGED vars
  BY <1>9, <1>20 DEF vars
<1>21. ASSUME NEW w \in Writers, RefuseTail(w)
       PROVE  Vetted'
  BY <1>20, <1>21 DEF RefuseTail
<1> QED
  BY <1>1, <1>3, <1>4, <1>5, <1>6, <1>7, <1>8, <1>10, <1>16, <1>17, <1>18, <1>19, <1>20, <1>21
  DEF Next, Turn

-----------------------------------------------------------------------------
(* Theorems. *)

\* The inductive invariant of the chains.
THEOREM AuditInvHolds == Spec => []AuditInv
<1>1. AuditInv /\ [Next]_vars => AuditInv'
  BY TypesStep, QuietStep, ChainStep, VettedStep DEF AuditInv
<1> QED
  BY <1>1, Started, PTL DEF Spec

\* The chains, the turns and the verifications have the types TypeOK gives.
THEOREM AuditTypes == Spec => []TypeOK
<1>1. AuditInv => TypeOK
  <2> SUFFICES ASSUME AuditInv PROVE TypeOK
    OBVIOUS
  <2>0. Types /\ Placed
    BY DEF AuditInv
  <2>1. \A s \in Sessions : \A i \in 1..Len(file[s]) : file[s][i] \in Records \cup {Torn}
    BY <2>0, ElementOfSeq DEF Types, Lines
  <2>2. \A w \in Writers : writer[w].at \in {"away", "turn", "tail", "half"}
    BY <2>0 DEF Types, Stages
  <2>3. \A c \in Checkers : /\ checker[c].at \in {"idle", "walk", "read", "erase"}
                            /\ checker[c].left \subseteq Sessions
    BY <2>0 DEF Types, Places
  <2> QED
    BY <2>0, <2>1, <2>2, <2>3 DEF TypeOK, Types, Placed
<1> QED
  BY <1>1, AuditInvHolds, PTL

\* Whatever full disks and crashes cut, a chain that append extends links from its first
\* record to its last, and only its last line may be damaged.
THEOREM ChainsAlwaysLink == Spec => []ChainsLink
<1>1. AuditInv => ChainsLink
  BY DEF AuditInv, Chains, Chain, Fits, ChainsLink, LinksAt
<1> QED
  BY <1>1, AuditInvHolds, PTL

\* A chain that verifies has every record whose append returned normally.
THEOREM VerifiedIsComplete == Spec => []NoneLostQuietly
<1>1. AuditInv => NoneLostQuietly
  <2> SUFFICES ASSUME AuditInv, NEW s \in Sessions PROVE Len(file[s]) >= kept[s]
    BY DEF NoneLostQuietly
  <2>1. file[s] \in Seq(Lines) /\ kept[s] \in Nat /\ kept[s] <= Len(file[s])
    BY DEF AuditInv, Types, Counted, Counts
  <2> QED
    BY <2>1
<1> QED
  BY <1>1, AuditInvHolds, PTL

\* The retention sweep erases only chains that verify, to their last record.
THEOREM EvidenceIsKept == Spec => EvidenceKept
<1>1. ASSUME AuditInv, [Next]_vars
      PROVE  \A s \in Sessions :
               s \in old \ old' /\ file'[s] # file[s] => Verifies(file[s])
  <2> SUFFICES ASSUME NEW s \in Sessions, s \in old, s \notin old', file'[s] # file[s]
               PROVE  Verifies(file[s])
    OBVIOUS
  <2>0. Types /\ Placed /\ Vetted
    BY <1>1 DEF AuditInv
  <2>1. ASSUME NEW t \in Sessions, Erase(t) PROVE Verifies(file[s])
    <3>1. checker[Sweep].at = "erase"
      BY <2>1 DEF Erase
    <3> QED
      BY <2>0, <3>1 DEF Vetted
  <2>2. CASE Crash
    <3>1. PICK w \in Writers :
            /\ writer[w].at = "half"
            /\ \E lines : file' = [file EXCEPT ![writer[w].in] = lines]
      BY <2>2 DEF Crash
    <3>2. writer[w].in = s
      BY <2>0, <3>1 DEF Types
    <3>3. Busy(s)
      BY <3>1, <3>2 DEF Busy
    <3> QED
      BY <2>0, <3>3 DEF Vetted
  <2>3. CASE UNCHANGED old \/ UNCHANGED file
    BY <2>3
  <2>4. CASE \E w \in Writers : Turn(w)
    BY <2>3, <2>4 DEF Turn, StartTurn, EndTurn, TakeTail, RefuseTail, Write, Finish, Full, vars
  <2>5. CASE \E t \in Sessions : Delete(t) \/ Archive(t)
    BY <2>3, <2>5 DEF Delete, Archive
  <2>6. CASE \E c \in Checkers : Check(c)
    BY <2>3, <2>6 DEF Check, StartCheck, Look, Read, ReadFails, EndCheck
  <2>7. CASE EndTick \/ Start \/ UNCHANGED vars
    BY <2>3, <2>7 DEF EndTick, Start, vars
  <2> QED
    BY <1>1, <2>1, <2>2, <2>4, <2>5, <2>6, <2>7 DEF Next
<1> QED
  BY <1>1, AuditInvHolds, PTL DEF Spec, EvidenceKept
===============================================================================
