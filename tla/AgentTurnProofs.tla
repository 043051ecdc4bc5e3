----------------------------- MODULE AgentTurnProofs ----------------------------
(***************************************************************************)
(* Theorems of AgentTurn for any number of threads, steps, calls and any   *)
(* limit: what is saved and what is sent is a transcript the provider      *)
(* accepts, and what a turn reports of its usage lacks one answer at most. *)
(***************************************************************************)
EXTENDS AgentTurn, TLAPS, WellFoundedInduction, SequenceTheorems, FiniteSetTheorems

Turn == [at : Phases, ask : 0..MaxAsks, messages : Seq(Message), step : 0..MaxSteps,
         attempt : 0..Retries, text : BOOLEAN, calls : 0..MaxCalls, done : 0..MaxCalls,
         weight : Nat, billed : Nat, parsed : Nat, counted : Nat, replied : BOOLEAN]

\* The user's side has the last word.
Ready(messages) == messages # <<>> /\ Last(messages).is \in {"ask", "results"}

\* A turn in its place: what it has of a transcript, and what it has counted.
Sound(r) ==
  /\ r.at # "away" => r.ask \in 1..MaxAsks
  /\ r.at \in {"step", "calling", "parsing", "tools"} => Valid(r.messages) /\ Ready(r.messages)
  /\ r.at = "saving" => Valid(r.messages)
  /\ r.at \in {"calling", "parsing", "tools"} => r.step < MaxSteps
  /\ r.at \in {"away", "waiting", "step", "calling"} => r.billed = r.counted /\ ~r.replied
  /\ r.at \in {"parsing", "tools"} => r.billed = r.counted + 1 /\ ~r.replied
  /\ r.billed - r.counted \in 0..1
  /\ r.replied => r.billed = r.counted

Invariant ==
  /\ store \in Seq(Message) /\ Valid(store)
  /\ lock \in Turns \cup {Nobody}
  /\ asked \in 0..MaxAsks
  /\ saved \in Seq(1..MaxAsks)
  /\ turn \in [Turns -> Turn]
  /\ \A t \in Turns : Sound(turn[t])

-----------------------------------------------------------------------------
(* Least and greatest elements. *)

Less == {ss \in Nat \X Nat : ss[1] < ss[2]}

LEMMA LessIsWellFounded == IsWellFoundedOn(Less, Nat)
  BY NatLessThanWellFounded, Zenon DEF OpToRel, Less

LEMMA LeastExists ==
  ASSUME NEW S \in SUBSET Nat, S # {}
  PROVE  \E x \in S : \A y \in S : x <= y
<1>1. PICK x \in S : \A y \in S : ~ (<<y, x>> \in Less)
  <2>1. S \subseteq Nat
    OBVIOUS
  <2>2. QED
    BY <2>1, LessIsWellFounded, WFMin, Zenon
<1>2. ASSUME NEW y \in S
      PROVE  x <= y
  <2>1. x \in Nat /\ y \in Nat
    OBVIOUS
  <2>2. ~(y < x)
    BY <1>1, <2>1 DEF Less
  <2>3. QED
    BY <2>1, <2>2
<1>3. QED
  BY <1>2

LEMMA LeastIs ==
  ASSUME NEW S \in SUBSET Nat
  PROVE  /\ S # {} => Min(S) \in S /\ \A y \in S : Min(S) <= y
         /\ 1 \in S /\ 0 \notin S => Min(S) = 1
<1>1. S # {} => Min(S) \in S /\ \A y \in S : Min(S) <= y
  BY LeastExists DEF Min
<1>2. ASSUME 1 \in S, 0 \notin S
      PROVE  Min(S) = 1
  <2> DEFINE c == Min(S)
  <2>1. c \in Nat /\ c # 0 /\ c <= 1
    BY <1>1, <1>2
  <2> HIDE DEF c
  <2>2. c = 1
    BY <2>1
  <2>3. QED
    BY <2>2 DEF c
<1>3. QED
  BY <1>1, <1>2

LEMMA GreatestIs ==
  ASSUME NEW n \in Nat, NEW S \in SUBSET (1..n), S # {}
  PROVE  Max(S) \in S /\ \A y \in S : y <= Max(S)
<1> DEFINE T == {m \in Nat : \E x \in S : m = n - x}
<1>1. T \in SUBSET Nat /\ T # {}
  <2>1. PICK x \in S : TRUE
    OBVIOUS
  <2>2. n - x \in T
    OBVIOUS
  <2>3. QED
    BY <2>2
<1>2. PICK t \in T : \A u \in T : t <= u
  <2> HIDE DEF T
  <2>1. QED
    BY <1>1, LeastExists
<1>3. PICK x \in S : t = n - x
  OBVIOUS
<1>4. ASSUME NEW y \in S
      PROVE  x >= y
  <2>1. y \in 1..n /\ x \in 1..n
    OBVIOUS
  <2>2. n - y \in T
    BY <2>1
  <2>3. t <= n - y
    BY <1>2, <2>2
  <2>4. QED
    BY <1>3, <2>1, <2>3
<1>5. \E z \in S : \A y \in S : z >= y
  BY <1>4
<1>6. Max(S) \in S /\ \A y \in S : Max(S) >= y
  BY <1>5 DEF Max
<1>7. QED
  BY <1>6

-----------------------------------------------------------------------------
(* Transcripts. *)

LEMMA FromProperties ==
  ASSUME NEW m \in Seq(Message), NEW i \in 1..Len(m)
  PROVE  /\ From(m, i) \in Seq(Message)
         /\ Len(From(m, i)) = Len(m) - i + 1
         /\ \A j \in 1..(Len(m) - i + 1) : From(m, i)[j] = m[i + j - 1]
<1>1. Len(m) \in Nat /\ \A j \in 1..Len(m) : m[j] \in Message
  BY ElementOfSeq, LenProperties
<1>2. \A j \in i..Len(m) : m[j] \in Message
  BY <1>1
<1>3. QED
  BY <1>1, <1>2, SubSeqProperties DEF From

\* compact returns the transcript or what is left of it from one of its asks on.
LEMMA CompactCuts ==
  ASSUME NEW m \in Seq(Message)
  PROVE  Compact(m) = m \/ \E i \in Starts(m) : Compact(m) = From(m, i)
<1> DEFINE S == Starts(m)
           cuts == {i \in S \ {Min(S)} : Weight(From(m, i)) <= Limit}
<1>1. Len(m) \in Nat /\ S \in SUBSET (1..Len(m)) /\ S \in SUBSET Nat /\ cuts \in SUBSET Nat
  BY LenProperties DEF Starts
<1>2. CASE Weight(m) <= Limit \/ S = {}
  BY <1>2 DEF Compact
<1>3. CASE ~(Weight(m) <= Limit \/ S = {}) /\ cuts # {}
  <2>1. Compact(m) = From(m, Min(cuts))
    BY <1>3 DEF Compact
  <2>2. Min(cuts) \in cuts
    <3> HIDE DEF cuts
    <3>1. QED
      BY <1>1, <1>3, LeastIs
  <2>3. QED
    BY <2>1, <2>2
<1>4. CASE ~(Weight(m) <= Limit \/ S = {}) /\ cuts = {}
  <2>1. Compact(m) = From(m, Max(S))
    BY <1>4 DEF Compact
  <2>2. Max(S) \in S
    <3> HIDE DEF S
    <3>1. QED
      BY <1>1, <1>4, GreatestIs
  <2>3. QED
    BY <2>1, <2>2
<1>5. QED
  BY <1>2, <1>3, <1>4

\* A valid transcript stays valid, and the user's side keeps the last word.
LEMMA CompactKeepsValid ==
  ASSUME NEW m \in Seq(Message), Valid(m)
  PROVE  /\ Compact(m) \in Seq(Message)
         /\ Valid(Compact(m))
         /\ Ready(m) => Ready(Compact(m))
<1>1. CASE Compact(m) = m
  BY <1>1
<1>2. ASSUME NEW i \in Starts(m), Compact(m) = From(m, i)
      PROVE  /\ Compact(m) \in Seq(Message)
             /\ Valid(Compact(m))
             /\ Ready(m) => Ready(Compact(m))
  <2> DEFINE k == From(m, i)
             n == Len(m) - i + 1
  <2>1. Len(m) \in Nat /\ i \in 1..Len(m) /\ m[i].is = "ask"
    BY LenProperties DEF Starts
  <2>2. k \in Seq(Message) /\ Len(k) = n /\ n \in Nat \ {0} /\ \A j \in 1..n : k[j] = m[i + j - 1]
    <3>1. n \in Nat \ {0}
      BY <2>1
    <3>2. k \in Seq(Message) /\ Len(k) = n /\ \A j \in 1..n : k[j] = m[i + j - 1]
      BY <2>1, FromProperties, Zenon
    <3>3. QED
      BY <3>1, <3>2
  <2> HIDE DEF k
  <2>3. k[1].is = "ask"
    BY <2>1, <2>2
  <2>4. ASSUME NEW j \in 1..n
        PROVE  /\ k[j].is = "say" /\ k[j].calls = 0 => k[j].text
               /\ k[j].is = "say" /\ k[j].calls > 0 =>
                    j < n /\ k[j + 1].is = "results" /\ k[j + 1].calls = k[j].calls
               /\ k[j].is = "results" =>
                    j > 1 /\ k[j - 1].is = "say" /\ k[j - 1].calls = k[j].calls
    <3>1. i + j - 1 \in 1..Len(m) /\ k[j] = m[i + j - 1]
      BY <2>1, <2>2
    <3>2. j < n => k[j + 1] = m[(i + j - 1) + 1]
      <4>1. j < n => j + 1 \in 1..n /\ i + (j + 1) - 1 = (i + j - 1) + 1
        BY <2>1
      <4>2. QED
        BY <2>2, <4>1
    <3>3. j > 1 => k[j - 1] = m[(i + j - 1) - 1]
      <4>1. j > 1 => j - 1 \in 1..n /\ i + (j - 1) - 1 = (i + j - 1) - 1
        BY <2>1
      <4>2. QED
        BY <2>2, <4>1
    <3>4. i + j - 1 < Len(m) <=> j < n
      BY <2>1
    <3>5. k[j].is = "results" => j > 1
      BY <2>3
    <3>6. QED
      BY <3>1, <3>2, <3>3, <3>4, <3>5 DEF Valid
  <2>5. Valid(k)
    BY <2>2, <2>3, <2>4 DEF Valid
  <2>6. Last(k) = Last(m) /\ k # <<>>
    <3>1. k[n] = m[Len(m)]
      <4>1. n \in 1..n /\ i + n - 1 = Len(m)
        BY <2>1, <2>2
      <4>2. QED
        BY <2>2, <4>1
    <3>2. QED
      BY <2>2, <3>1, EmptySeq DEF Last
  <2>7. QED
    BY <1>2, <2>2, <2>5, <2>6 DEF Ready, k
<1>3. QED
  BY <1>1, <1>2, CompactCuts

LEMMA MessageTypes ==
  /\ \A n \in 0..MaxAsks : Ask(n) \in Message
  /\ \A calls \in 0..MaxCalls, text \in BOOLEAN : Say(text, calls) \in Message
  /\ \A calls \in 0..MaxCalls, weight \in Nat : Results(calls, weight) \in Message
  BY TurnAssumption DEF Ask, Say, Results, Message

\* One message more.
LEMMA MessageAppended ==
  ASSUME NEW m \in Seq(Message), NEW e \in Message
  PROVE  /\ Append(m, e) \in Seq(Message)
         /\ Len(Append(m, e)) = Len(m) + 1
         /\ \A j \in 1..Len(m) : Append(m, e)[j] = m[j]
         /\ Append(m, e)[Len(m) + 1] = e
         /\ Len(m) \in Nat
         /\ m = <<>> <=> Len(m) = 0
  BY LenProperties, EmptySeq

\* A message that asks for nothing and answers nothing can follow a valid transcript.
LEMMA AppendKeepsValid ==
  ASSUME NEW m \in Seq(Message), Valid(m), NEW e \in Message,
         e.is = "ask" \/ (e.is = "say" /\ e.calls = 0 /\ e.text /\ m # <<>>)
  PROVE  /\ Append(m, e) \in Seq(Message)
         /\ Valid(Append(m, e))
         /\ e.is = "ask" => Ready(Append(m, e))
<1> DEFINE a == Append(m, e)
           n == Len(m)
<1>1. /\ a \in Seq(Message) /\ Len(a) = n + 1 /\ n \in Nat
      /\ \A j \in 1..n : a[j] = m[j]
      /\ a[n + 1] = e
      /\ m = <<>> <=> n = 0
  BY MessageAppended
<1> HIDE DEF a, n
<1>2. a[1].is = "ask"
  BY <1>1 DEF Valid, n
<1>3. ASSUME NEW j \in 1..(n + 1)
      PROVE  /\ a[j].is = "say" /\ a[j].calls = 0 => a[j].text
             /\ a[j].is = "say" /\ a[j].calls > 0 =>
                  j < n + 1 /\ a[j + 1].is = "results" /\ a[j + 1].calls = a[j].calls
             /\ a[j].is = "results" =>
                  j > 1 /\ a[j - 1].is = "say" /\ a[j - 1].calls = a[j].calls
  <2>1. CASE j = n + 1
    BY <1>1, <2>1
  <2>2. CASE j \in 1..n
    <3>1. a[j] = m[j] /\ (j < n => a[j + 1] = m[j + 1]) /\ (j > 1 => a[j - 1] = m[j - 1])
      BY <1>1, <2>2
    <3>2. QED
      BY <1>1, <2>2, <3>1 DEF Valid, n
  <2>3. QED
    BY <1>1, <2>1, <2>2
<1>4. Valid(a)
  BY <1>1, <1>2, <1>3 DEF Valid
<1>5. e.is = "ask" => Ready(a)
  BY <1>1, EmptySeq DEF Ready, Last
<1>6. QED
  BY <1>1, <1>4, <1>5 DEF a

\* Two messages more.
LEMMA StepAppended ==
  ASSUME NEW m \in Seq(Message), NEW s \in Message, NEW r \in Message
  PROVE  /\ m \o <<s, r>> \in Seq(Message)
         /\ Len(m \o <<s, r>>) = Len(m) + 2
         /\ Len(m) \in Nat
         /\ \A j \in 1..Len(m) : (m \o <<s, r>>)[j] = m[j]
         /\ (m \o <<s, r>>)[Len(m) + 1] = s
         /\ (m \o <<s, r>>)[Len(m) + 2] = r
         /\ \A j \in (Len(m) + 1)..(Len(m) + 2) :
              (m \o <<s, r>>)[j] = s \/ (m \o <<s, r>>)[j] = r
<1> DEFINE a == m \o <<s, r>>
           n == Len(m)
<1>1. <<s, r>> \in Seq(Message) /\ Len(<<s, r>>) = 2
  OBVIOUS
<1>2. n \in Nat
  BY LenProperties
<1>3. /\ a \in Seq(Message) /\ Len(a) = n + 2
      /\ \A j \in 1..(n + 2) : a[j] = IF j <= n THEN m[j] ELSE <<s, r>>[j - n]
  BY <1>1, <1>2, ConcatProperties
<1> HIDE DEF a
<1>4. a[n + 1] = <<s, r>>[1] /\ a[n + 2] = <<s, r>>[2]
  <2>1. n + 1 \in 1..(n + 2) /\ ~(n + 1 <= n) /\ (n + 1) - n = 1
    BY <1>2
  <2>2. n + 2 \in 1..(n + 2) /\ ~(n + 2 <= n) /\ (n + 2) - n = 2
    BY <1>2
  <2>3. QED
    BY <1>3, <2>1, <2>2
<1>5. \A j \in (n + 1)..(n + 2) : j = n + 1 \/ j = n + 2
  BY <1>2
<1>6. QED
  BY <1>2, <1>3, <1>4, <1>5 DEF a

\* A step of tools can follow a valid transcript, whole.
LEMMA StepKeepsValid ==
  ASSUME NEW m \in Seq(Message), Valid(m), m # <<>>, NEW s \in Message, NEW r \in Message,
         s.is = "say", s.calls > 0, r.is = "results", r.calls = s.calls
  PROVE  /\ m \o <<s, r>> \in Seq(Message)
         /\ Valid(m \o <<s, r>>)
         /\ Ready(m \o <<s, r>>)
<1> DEFINE a == m \o <<s, r>>
           n == Len(m)
<1>1. /\ a \in Seq(Message) /\ Len(a) = n + 2 /\ n \in Nat \ {0}
      /\ \A j \in 1..n : a[j] = m[j]
      /\ a[n + 1] = s /\ a[n + 2] = r
  BY StepAppended, EmptySeq
<1> HIDE DEF a, n
<1>2. a[1].is = "ask"
  BY <1>1 DEF Valid, n
<1>3. ASSUME NEW j \in 1..(n + 2)
      PROVE  /\ a[j].is = "say" /\ a[j].calls = 0 => a[j].text
             /\ a[j].is = "say" /\ a[j].calls > 0 =>
                  j < n + 2 /\ a[j + 1].is = "results" /\ a[j + 1].calls = a[j].calls
             /\ a[j].is = "results" =>
                  j > 1 /\ a[j - 1].is = "say" /\ a[j - 1].calls = a[j].calls
  <2>1. CASE j = n + 1
    <3>1. j + 1 = n + 2 /\ s.calls # 0 /\ s.is # "results"
      BY <1>1, <2>1 DEF Message
    <3>2. QED
      BY <1>1, <2>1, <3>1
  <2>2. CASE j = n + 2
    <3>1. j - 1 = n + 1
      BY <1>1, <2>2
    <3>2. QED
      BY <1>1, <2>2, <3>1
  <2>3. CASE j \in 1..n
    <3>1. a[j] = m[j] /\ (j < n => a[j + 1] = m[j + 1]) /\ (j > 1 => a[j - 1] = m[j - 1])
      BY <1>1, <2>3
    <3>2. QED
      BY <1>1, <2>3, <3>1 DEF Valid, n
  <2>4. QED
    BY <1>1, <2>1, <2>2, <2>3
<1>4. Valid(a)
  BY <1>1, <1>2, <1>3 DEF Valid
<1>5. Ready(a)
  BY <1>1, EmptySeq DEF Ready, Last
<1>6. QED
  BY <1>1, <1>4, <1>5 DEF a

-----------------------------------------------------------------------------
(* The asks of a transcript. *)

LEMMA StartsAreFinite ==
  ASSUME NEW m \in Seq(Message)
  PROVE  /\ Starts(m) \subseteq 1..Len(m) /\ Len(m) \in Nat
         /\ \A i : IsFiniteSet({j \in Starts(m) : j > i}) /\ Newer(m, i) \in Nat
<1>1. Starts(m) \subseteq 1..Len(m) /\ Len(m) \in Nat
  BY LenProperties DEF Starts
<1>2. IsFiniteSet(1..Len(m))
  BY <1>1, FS_Interval
<1>3. ASSUME NEW i
      PROVE  IsFiniteSet({j \in Starts(m) : j > i}) /\ Newer(m, i) \in Nat
  <2> DEFINE A == {j \in Starts(m) : j > i}
  <2>1. A \in SUBSET (1..Len(m))
    BY <1>1
  <2>2. IsFiniteSet(A)
    <3> HIDE DEF A
    <3>1. QED
      BY <1>2, <2>1, FS_Subset
  <2>3. QED
    BY <2>2, FS_CardinalityType DEF Newer
<1>4. QED
  BY <1>1, <1>3

\* A suffix that opens on an ask has the asks from there on, as many newer than each.
LEMMA SuffixStarts ==
  ASSUME NEW m \in Seq(Message), NEW i \in Starts(m)
  PROVE  /\ 1 \in Starts(From(m, i))
         /\ \A j \in Starts(From(m, i)) :
              /\ i + j - 1 \in Starts(m)
              /\ From(m, i)[j] = m[i + j - 1]
              /\ Newer(From(m, i), j) = Newer(m, i + j - 1)
<1> DEFINE k == From(m, i)
           n == Len(m) - i + 1
<1>1. Len(m) \in Nat /\ i \in 1..Len(m) /\ m[i].is = "ask"
  BY LenProperties DEF Starts
<1>2. k \in Seq(Message) /\ Len(k) = n /\ n \in Nat \ {0} /\ \A j \in 1..n : k[j] = m[i + j - 1]
  <2>1. n \in Nat \ {0}
    BY <1>1
  <2>2. k \in Seq(Message) /\ Len(k) = n /\ \A j \in 1..n : k[j] = m[i + j - 1]
    BY <1>1, FromProperties, Zenon
  <2>3. QED
    BY <2>1, <2>2
<1> HIDE DEF k
<1>3. 1 \in Starts(k)
  BY <1>1, <1>2 DEF Starts
<1>4. Starts(k) \subseteq Int /\ Starts(m) \subseteq Int
  BY <1>1, <1>2 DEF Starts
<1>5. \A j \in Int : j \in Starts(k) <=> j >= 1 /\ i + j - 1 \in Starts(m)
  BY <1>1, <1>2 DEF Starts
<1>6. ASSUME NEW j \in Starts(k)
      PROVE  i + j - 1 \in Starts(m) /\ k[j] = m[i + j - 1] /\ Newer(k, j) = Newer(m, i + j - 1)
  <2> DEFINE A == {x \in Starts(k) : x > j}
             B == {y \in Starts(m) : y > i + j - 1}
             f == [x \in A |-> i + x - 1]
  <2>1. j \in 1..n /\ i + j - 1 \in Starts(m) /\ k[j] = m[i + j - 1]
    BY <1>2, <1>4, <1>5 DEF Starts
  <2>2. \A x \in A : f[x] = i + x - 1 /\ f[x] \in B
    <3>1. \A x \in A : i + x - 1 \in B
      BY <1>1, <1>4, <1>5, <2>1
    <3> HIDE DEF A, B
    <3>2. QED
      BY <3>1
  <2>3. ASSUME NEW y \in B
        PROVE  \E x \in A : f[x] = y
    <3>1. y \in Int /\ y - i + 1 \in Int /\ i + (y - i + 1) - 1 = y /\ y - i + 1 > j
          /\ y - i + 1 >= 1
      BY <1>1, <1>4, <2>1
    <3>2. y - i + 1 \in Starts(k)
      BY <1>5, <3>1
    <3>3. y - i + 1 \in A
      BY <3>1, <3>2
    <3>4. QED
      BY <2>2, <3>1, <3>3
  <2>4. \A x, y \in A : f[x] = f[y] => x = y
    BY <1>1, <1>4, <2>2
  <2>5. f \in [A -> B]
    BY <2>2
  <2> HIDE DEF A, B, f
  <2>6. ExistsBijection(A, B)
    <3>1. f \in Injection(A, B) /\ f \in Surjection(A, B)
      BY <2>3, <2>4, <2>5 DEF Injection, IsInjective, Surjection
    <3>2. QED
      BY <3>1 DEF ExistsBijection, Bijection
  <2>7. IsFiniteSet(A)
    BY <1>2, StartsAreFinite DEF A
  <2>8. Cardinality(A) = Cardinality(B)
    BY <2>6, <2>7, FS_Bijection
  <2>9. QED
    BY <2>1, <2>8 DEF Newer, A, B
<1>7. QED
  BY <1>3, <1>6 DEF k

LEMMA SuffixEndsOn ==
  ASSUME NEW m \in Seq(Message), NEW asks, EndsOn(m, asks), NEW i \in Starts(m)
  PROVE  EndsOn(From(m, i), asks)
  BY SuffixStarts DEF EndsOn

LEMMA CompactEndsOn ==
  ASSUME NEW m \in Seq(Message), NEW asks, EndsOn(m, asks)
  PROVE  EndsOn(Compact(m), asks)
  BY CompactCuts, SuffixEndsOn

\* What answers an ask is no ask.
LEMMA AnswersEndOn ==
  ASSUME NEW m \in Seq(Message), NEW asks, EndsOn(m, asks),
         NEW a \in Seq(Message), Len(a) >= Len(m),
         \A j \in 1..Len(m) : a[j] = m[j],
         \A j \in (Len(m) + 1)..Len(a) : a[j].is # "ask"
  PROVE  EndsOn(a, asks)
<1>1. Starts(a) = Starts(m) /\ \A i \in Starts(m) : a[i] = m[i]
  BY LenProperties DEF Starts
<1>2. QED
  BY <1>1 DEF EndsOn, Newer

LEMMA ReplyEndsOn ==
  ASSUME NEW m \in Seq(Message), NEW asks, EndsOn(m, asks), NEW e \in Message, e.is # "ask"
  PROVE  EndsOn(Append(m, e), asks)
<1> DEFINE a == Append(m, e)
<1>1. /\ a \in Seq(Message) /\ Len(a) = Len(m) + 1 /\ Len(m) \in Nat
      /\ \A j \in 1..Len(m) : a[j] = m[j]
      /\ a[Len(m) + 1] = e
  BY MessageAppended
<1> HIDE DEF a
<1>2. \A j \in (Len(m) + 1)..Len(a) : a[j].is # "ask"
  BY <1>1
<1>3. EndsOn(a, asks)
  BY <1>1, <1>2, AnswersEndOn
<1>4. QED
  BY <1>3 DEF a

LEMMA ToolsEndOn ==
  ASSUME NEW m \in Seq(Message), NEW asks, EndsOn(m, asks),
         NEW s \in Message, NEW r \in Message, s.is # "ask", r.is # "ask"
  PROVE  EndsOn(m \o <<s, r>>, asks)
<1> DEFINE a == m \o <<s, r>>
<1>1. /\ a \in Seq(Message) /\ Len(a) = Len(m) + 2 /\ Len(m) \in Nat
      /\ \A j \in 1..Len(m) : a[j] = m[j]
      /\ \A j \in (Len(m) + 1)..(Len(m) + 2) : a[j] = s \/ a[j] = r
  BY StepAppended
<1> HIDE DEF a
<1>2. \A j \in (Len(m) + 1)..Len(a) : a[j].is # "ask"
  BY <1>1
<1>3. EndsOn(a, asks)
  BY <1>1, <1>2, AnswersEndOn
<1>4. QED
  BY <1>3 DEF a

\* One ask more, in both.
LEMMA AskEndsOn ==
  ASSUME NEW m \in Seq(Message), NEW asks \in Seq(Nat), EndsOn(m, asks),
         NEW n \in 0..MaxAsks
  PROVE  EndsOn(Append(m, Ask(n)), Append(asks, n))
<1> DEFINE a == Append(m, Ask(n))
           p == Append(asks, n)
           last == Len(m) + 1
<1>1. /\ a \in Seq(Message) /\ Len(a) = last /\ Len(m) \in Nat
      /\ \A j \in 1..Len(m) : a[j] = m[j]
      /\ a[last] = Ask(n)
  BY MessageTypes, MessageAppended
<1>2. Ask(n).is = "ask" /\ Ask(n).ask = n
  BY DEF Ask
<1>3. /\ Len(asks) \in Nat /\ Len(p) = Len(asks) + 1
      /\ \A j \in 1..Len(asks) : p[j] = asks[j]
      /\ p[Len(asks) + 1] = n
  BY TurnAssumption, LenProperties
<1> HIDE DEF a, p
<1>4. Starts(a) = Starts(m) \cup {last} /\ last \notin Starts(m)
  BY <1>1, <1>2 DEF Starts
<1>5. Newer(a, last) = 0 /\ a[last].ask = p[Len(p)]
  <2>1. {j \in Starts(a) : j > last} = {}
    BY <1>1, <1>4, StartsAreFinite
  <2>2. QED
    BY <1>1, <1>2, <1>3, <2>1, FS_EmptySet DEF Newer
<1>6. ASSUME NEW i \in Starts(m)
      PROVE  Newer(a, i) < Len(p) /\ a[i].ask = p[Len(p) - Newer(a, i)]
  <2> DEFINE S == {j \in Starts(m) : j > i}
  <2>1. i \in 1..Len(m)
    BY StartsAreFinite
  <2>2. {j \in Starts(a) : j > i} = S \cup {last} /\ last \notin S
    BY <1>1, <1>4, <2>1
  <2>3. IsFiniteSet(S) /\ Cardinality(S) = Newer(m, i) /\ Newer(m, i) \in Nat
    BY StartsAreFinite DEF Newer
  <2> HIDE DEF S
  <2>4. Newer(a, i) = Newer(m, i) + 1
    BY <2>2, <2>3, FS_AddElement DEF Newer
  <2>5. Newer(m, i) < Len(asks) /\ m[i].ask = asks[Len(asks) - Newer(m, i)]
    BY DEF EndsOn
  <2>6. Len(p) - Newer(a, i) = Len(asks) - Newer(m, i) /\ Len(asks) - Newer(m, i) \in 1..Len(asks)
    BY <1>3, <2>3, <2>4, <2>5
  <2>7. QED
    BY <1>1, <1>3, <2>1, <2>3, <2>4, <2>5, <2>6
<1>7. EndsOn(a, p)
  <2>1. \A i \in Starts(a) : Newer(a, i) < Len(p) /\ a[i].ask = p[Len(p) - Newer(a, i)]
    BY <1>3, <1>4, <1>5, <1>6
  <2>2. QED
    BY <1>4, <2>1 DEF EndsOn
<1>8. QED
  BY <1>7 DEF a, p

-----------------------------------------------------------------------------
(* Steps of a turn. *)

LEMMA SetProperties ==
  ASSUME turn \in [Turns -> Turn], NEW t \in Turns, NEW next \in Turn, Set(t, next)
  PROVE  /\ turn' \in [Turns -> Turn]
         /\ turn'[t] = next
         /\ \A u \in Turns \ {t} : turn'[u] = turn[u]
  BY DEF Set

\* A step that leaves a turn in its place, and the transcripts alone, keeps the invariant.
LEMMA TurnStep ==
  ASSUME Invariant, NEW t \in Turns, NEW next \in Turn, Set(t, next), Sound(next),
         UNCHANGED <<store, saved>>, lock' \in Turns \cup {Nobody}, asked' \in 0..MaxAsks
  PROVE  Invariant'
<1>1. turn' \in [Turns -> Turn] /\ \A u \in Turns : turn'[u] = next \/ turn'[u] = turn[u]
  BY SetProperties DEF Invariant
<1>2. \A u \in Turns : Sound(turn'[u])
  BY <1>1 DEF Invariant
<1>3. QED
  BY <1>1, <1>2 DEF Invariant

LEMMA AwayIsSound == Away \in Turn /\ Sound(Away)
<1>1. <<>> \in Seq(Message)
  BY EmptySeq
<1>2. 0 \in 0..MaxAsks /\ 0 \in 0..MaxSteps /\ 0 \in 0..Retries /\ 0 \in 0..MaxCalls
  BY TurnAssumption
<1>3. Away \in Turn
  BY <1>1, <1>2 DEF Away, Turn, Phases
<1>4. QED
  BY <1>3 DEF Sound, Away

LEMMA TurnFields ==
  ASSUME NEW r \in Turn
  PROVE  /\ r.at \in Phases /\ r.ask \in 0..MaxAsks /\ r.messages \in Seq(Message)
         /\ r.step \in 0..MaxSteps /\ r.attempt \in 0..Retries /\ r.text \in BOOLEAN
         /\ r.calls \in 0..MaxCalls /\ r.done \in 0..MaxCalls /\ r.weight \in Nat
         /\ r.billed \in Nat /\ r.parsed \in Nat /\ r.counted \in Nat /\ r.replied \in BOOLEAN
  BY DEF Turn

\* What Leave and Metered make of a record.
LEMMA LeaveFields ==
  ASSUME NEW r \in Turn
  PROVE  LET x == [r EXCEPT !.attempt = 0, !.text = FALSE, !.calls = 0, !.done = 0,
                            !.weight = 0] IN
         /\ x \in Turn
         /\ x.at = r.at /\ x.ask = r.ask /\ x.messages = r.messages /\ x.step = r.step
         /\ x.billed = r.billed /\ x.parsed = r.parsed /\ x.counted = r.counted
         /\ x.replied = r.replied /\ x.calls = 0
<1>1. 0 \in 0..Retries /\ 0 \in 0..MaxCalls
  BY TurnAssumption
<1>2. QED
  BY <1>1 DEF Turn

Kept(x, r) ==
  /\ x \in Turn
  /\ x.at = r.at /\ x.ask = r.ask /\ x.messages = r.messages /\ x.step = r.step
  /\ x.billed = r.billed /\ x.parsed = r.parsed /\ x.replied = r.replied /\ x.calls = 0

LEMMA LeftRecord ==
  ASSUME Invariant, NEW t \in Turns
  PROVE  /\ Kept(Leave(t), turn[t]) /\ Leave(t).counted = turn[t].counted
         /\ Kept(Metered(t), turn[t]) /\ Metered(t).counted = turn[t].counted + 1
<1>1. turn[t] \in Turn
  BY DEF Invariant
<1>3. Kept(Leave(t), turn[t]) /\ Leave(t).counted = turn[t].counted
  <2>1. LET x == Leave(t) IN
        /\ x \in Turn
        /\ x.at = turn[t].at /\ x.ask = turn[t].ask /\ x.messages = turn[t].messages
        /\ x.step = turn[t].step /\ x.billed = turn[t].billed /\ x.parsed = turn[t].parsed
        /\ x.counted = turn[t].counted /\ x.replied = turn[t].replied /\ x.calls = 0
    BY <1>1, LeaveFields DEF Leave
  <2>2. QED
    BY <2>1 DEF Kept
<1>4. \A r \in Turn, n \in Nat :
        LET x == [r EXCEPT !.counted = n] IN
        /\ x \in Turn
        /\ x.at = r.at /\ x.ask = r.ask /\ x.messages = r.messages /\ x.step = r.step
        /\ x.billed = r.billed /\ x.parsed = r.parsed /\ x.replied = r.replied
        /\ x.calls = r.calls /\ x.counted = n
  BY DEF Turn
<1>5. Leave(t) \in Turn /\ Leave(t).counted + 1 \in Nat
  BY <1>3, TurnFields DEF Kept
<1>6. Kept(Metered(t), Leave(t)) /\ Metered(t).counted = Leave(t).counted + 1
  <2>1. Metered(t) = [Leave(t) EXCEPT !.counted = Leave(t).counted + 1]
    BY DEF Metered
  <2>2. QED
    <3>1. LET x == [Leave(t) EXCEPT !.counted = Leave(t).counted + 1] IN
          /\ x \in Turn
          /\ x.at = Leave(t).at /\ x.ask = Leave(t).ask /\ x.messages = Leave(t).messages
          /\ x.step = Leave(t).step /\ x.billed = Leave(t).billed /\ x.parsed = Leave(t).parsed
          /\ x.replied = Leave(t).replied /\ x.calls = Leave(t).calls
          /\ x.counted = Leave(t).counted + 1
      BY <1>4, <1>5, Zenon
    <3>2. Leave(t).calls = 0
      BY <1>3 DEF Kept
    <3>3. QED
      BY <2>1, <3>1, <3>2 DEF Kept
<1>7. QED
  BY <1>3, <1>6 DEF Kept

LEMMA InitInvariant == Init => Invariant
<1> SUFFICES ASSUME Init PROVE Invariant
  OBVIOUS
<1>1. <<>> \in Seq(Message) /\ <<>> \in Seq(1..MaxAsks) /\ Len(<<>>) = 0
  BY EmptySeq
<1>2. Valid(<<>>)
  BY <1>1 DEF Valid
<1>3. 0 \in 0..MaxAsks
  BY TurnAssumption
<1>4. QED
  BY <1>1, <1>2, <1>3, AwayIsSound DEF Init, Invariant

LEMMA ProceedKeeps ==
  ASSUME Invariant, NEW t \in Turns, Arrive(t) \/ Proceed(t)
  PROVE  Invariant'
<1> DEFINE r == turn[t]
<1>0. r \in Turn /\ Sound(r) /\ r.messages \in Seq(Message) /\ asked \in 0..MaxAsks
      /\ store \in Seq(Message) /\ Valid(store)
  BY TurnFields DEF Invariant
<1>1. CASE Arrive(t)
  <2> DEFINE next == [Away EXCEPT !.at = "waiting", !.ask = asked']
  <2>1. asked' \in 1..MaxAsks
    BY <1>0, <1>1, TurnAssumption DEF Arrive
  <2>2. \A a \in 1..MaxAsks : LET x == [Away EXCEPT !.at = "waiting", !.ask = a] IN
          /\ x \in Turn /\ x.at = "waiting" /\ x.ask = a
          /\ x.billed = 0 /\ x.counted = 0 /\ x.replied = FALSE
    <3>1. Away \in Turn /\ Away.billed = 0 /\ Away.counted = 0 /\ Away.replied = FALSE
      BY AwayIsSound DEF Away
    <3>2. \A q \in Turn, a \in 0..MaxAsks : LET x == [q EXCEPT !.at = "waiting", !.ask = a] IN
            /\ x \in Turn /\ x.at = "waiting" /\ x.ask = a
            /\ x.billed = q.billed /\ x.counted = q.counted /\ x.replied = q.replied
      BY DEF Turn, Phases
    <3>3. \A a \in 1..MaxAsks : a \in 0..MaxAsks
      BY TurnAssumption
    <3>4. QED
      BY <3>1, <3>2, <3>3, Zenon
  <2>3. /\ next \in Turn /\ next.at = "waiting" /\ next.ask = asked'
        /\ next.billed = 0 /\ next.counted = 0 /\ next.replied = FALSE
    BY <2>1, <2>2, Zenon
  <2> HIDE DEF next
  <2>6. Sound(next)
    BY <2>1, <2>3 DEF Sound
  <2>4. Set(t, next) /\ UNCHANGED <<store, saved>> /\ lock' = lock
    BY <1>1 DEF Arrive, next
  <2>5. QED
    BY <1>0, <1>1, <2>1, <2>3, <2>4, <2>6, TurnStep DEF Invariant
<1>2. CASE Enter(t)
  <2> DEFINE m == Append(store, Ask(r.ask))
             next == [r EXCEPT !.at = "step", !.messages = m]
  <2>1. r.ask \in 1..MaxAsks /\ r.at = "waiting"
    BY <1>0, <1>2 DEF Enter, Sound
  <2>2. Ask(r.ask) \in Message /\ Ask(r.ask).is = "ask"
    BY <2>1, MessageTypes DEF Ask
  <2>3. m \in Seq(Message) /\ Valid(m) /\ Ready(m)
    BY <1>0, <2>2, AppendKeepsValid
  <2>4. next \in Turn /\ Sound(next)
    <3> HIDE DEF m
    <3>1. /\ next \in Turn /\ next.at = "step" /\ next.messages = m /\ next.ask = r.ask
          /\ next.billed = r.billed /\ next.counted = r.counted /\ next.replied = r.replied
      BY <1>0, <2>3 DEF Turn, Phases
    <3> HIDE DEF next, r
    <3>2. QED
      BY <1>0, <2>1, <2>3, <3>1 DEF Sound
  <2>5. Set(t, next) /\ UNCHANGED <<store, saved, asked>> /\ lock' = t
    BY <1>2 DEF Enter
  <2>6. QED
    BY <1>0, <2>4, <2>5, TurnStep
<1>3. CASE GiveUp(t)
  BY <1>0, <1>3, AwayIsSound, TurnStep DEF GiveUp, Invariant
<1>4. CASE StopAtStep(t)
  <2> DEFINE next == [r EXCEPT !.at = "saving"]
  <2>1. /\ next \in Turn /\ next.at = "saving" /\ next.messages = r.messages /\ next.ask = r.ask
        /\ next.step = r.step
        /\ next.billed = r.billed /\ next.counted = r.counted /\ next.replied = r.replied
    BY <1>0 DEF Turn, Phases
  <2>2. r.at = "step" /\ Set(t, next) /\ UNCHANGED <<store, saved, asked, lock>>
    BY <1>4 DEF StopAtStep
  <2> HIDE DEF next, r
  <2>3. Sound(next)
    BY <1>0, <2>1, <2>2 DEF Sound
  <2>4. QED
    BY <1>0, <2>1, <2>2, <2>3, TurnStep DEF Invariant
<1>5. CASE Send(t)
  <2> DEFINE m == Compact(r.messages)
             next == [r EXCEPT !.at = "calling", !.messages = m]
  <2>1. r.at = "step" /\ r.step < MaxSteps /\ Set(t, next) /\ UNCHANGED <<store, saved, asked, lock>>
    BY <1>5 DEF Send
  <2>2. m \in Seq(Message) /\ Valid(m) /\ Ready(m)
    BY <1>0, <2>1, CompactKeepsValid DEF Sound
  <2> HIDE DEF m
  <2>3. /\ next \in Turn /\ next.at = "calling" /\ next.messages = m /\ next.ask = r.ask
        /\ next.step = r.step
        /\ next.billed = r.billed /\ next.counted = r.counted /\ next.replied = r.replied
    BY <1>0, <2>2 DEF Turn, Phases
  <2> HIDE DEF next, r
  <2>4. Sound(next)
    BY <1>0, <2>1, <2>2, <2>3 DEF Sound
  <2>5. QED
    BY <1>0, <2>1, <2>3, <2>4, TurnStep DEF Invariant
<1>6. CASE Answered(t)
  <2> DEFINE next == [r EXCEPT !.at = "parsing", !.attempt = 0, !.billed = r.billed + 1]
  <2>1. r.at = "calling" /\ Set(t, next) /\ UNCHANGED <<store, saved, asked, lock>>
    BY <1>6 DEF Answered
  <2>2. 0 \in 0..Retries /\ r.billed \in Nat /\ r.counted \in Nat
    BY <1>0, TurnFields, TurnAssumption
  <2>3. /\ next \in Turn /\ next.at = "parsing" /\ next.messages = r.messages /\ next.ask = r.ask
        /\ next.step = r.step
        /\ next.billed = r.billed + 1 /\ next.counted = r.counted /\ next.replied = r.replied
    <3>1. \A b \in Nat, a \in 0..Retries :
            LET x == [r EXCEPT !.at = "parsing", !.attempt = a, !.billed = b] IN
            /\ x \in Turn /\ x.at = "parsing" /\ x.messages = r.messages /\ x.ask = r.ask
            /\ x.step = r.step
            /\ x.billed = b /\ x.counted = r.counted /\ x.replied = r.replied
      <4> HIDE DEF r
      <4>1. QED
        BY <1>0 DEF Turn, Phases
    <3>2. r.billed + 1 \in Nat
      BY <2>2
    <3>3. QED
      BY <2>2, <3>1, <3>2, Zenon
  <2> HIDE DEF next, r
  <2>4. Sound(next)
    BY <1>0, <2>1, <2>2, <2>3 DEF Sound
  <2>5. QED
    BY <1>0, <2>1, <2>3, <2>4, TurnStep DEF Invariant
<1>7. CASE Retry(t)
  <2> DEFINE next == [r EXCEPT !.attempt = r.attempt + 1]
  <2>1. r.at = "calling" /\ Set(t, next) /\ UNCHANGED <<store, saved, asked, lock>>
    BY <1>7 DEF Retry
  <2>2. r.attempt + 1 \in 0..Retries
    BY <1>0, <1>7, TurnFields, TurnAssumption DEF Retry
  <2>3. /\ next \in Turn /\ next.at = r.at /\ next.messages = r.messages /\ next.ask = r.ask
        /\ next.step = r.step
        /\ next.billed = r.billed /\ next.counted = r.counted /\ next.replied = r.replied
    BY <1>0, <2>2 DEF Turn
  <2> HIDE DEF next, r
  <2>4. Sound(next)
    BY <1>0, <2>1, <2>3 DEF Sound
  <2>5. QED
    BY <1>0, <2>1, <2>3, <2>4, TurnStep DEF Invariant
<1>8. CASE Parse(t)
  <2>1. PICK calls \in 0..MaxCalls, text \in BOOLEAN :
          /\ calls > 0 => text
          /\ Set(t, [r EXCEPT !.at = "tools", !.parsed = @ + 1, !.calls = calls,
                              !.text = text, !.done = 0, !.weight = 0])
    BY <1>8 DEF Parse
  <2> DEFINE next == [r EXCEPT !.at = "tools", !.parsed = r.parsed + 1, !.calls = calls,
                              !.text = text, !.done = 0, !.weight = 0]
  <2>2. r.at = "parsing" /\ Set(t, next) /\ UNCHANGED <<store, saved, asked, lock>>
    BY <1>8, <2>1 DEF Parse
  <2>3. 0 \in 0..MaxCalls /\ r.parsed + 1 \in Nat
    BY <1>0, TurnFields, TurnAssumption
  <2>4. /\ next \in Turn /\ next.at = "tools" /\ next.messages = r.messages /\ next.ask = r.ask
        /\ next.step = r.step
        /\ next.billed = r.billed /\ next.counted = r.counted /\ next.replied = r.replied
        /\ next.calls = calls /\ next.text = text
    BY <1>0, <2>3 DEF Turn, Phases
  <2> HIDE DEF next, r
  <2>5. Sound(next)
    BY <1>0, <2>1, <2>2, <2>4 DEF Sound
  <2>6. QED
    BY <1>0, <2>2, <2>4, <2>5, TurnStep DEF Invariant
<1>9. CASE Dispatch(t)
  <2>1. PICK weight \in {0, Clip} :
          Set(t, [r EXCEPT !.done = @ + 1, !.weight = @ + weight])
    BY <1>9 DEF Dispatch
  <2> DEFINE next == [r EXCEPT !.done = r.done + 1, !.weight = r.weight + weight]
  <2>2. r.at = "tools" /\ Set(t, next) /\ UNCHANGED <<store, saved, asked, lock>>
    BY <1>9, <2>1 DEF Dispatch
  <2>3. r.done + 1 \in 0..MaxCalls /\ r.weight + weight \in Nat
    <3>1. r.done \in 0..MaxCalls /\ r.calls \in 0..MaxCalls /\ r.weight \in Nat
      BY <1>0, TurnFields
    <3>2. r.done < r.calls
      BY <1>9 DEF Dispatch
    <3>3. weight \in Nat /\ MaxCalls \in Nat
      BY TurnAssumption
    <3>4. QED
      BY <3>1, <3>2, <3>3
  <2>4. /\ next \in Turn /\ next.at = r.at /\ next.messages = r.messages /\ next.ask = r.ask
        /\ next.step = r.step
        /\ next.billed = r.billed /\ next.counted = r.counted /\ next.replied = r.replied
        /\ next.calls = r.calls /\ next.text = r.text
    BY <1>0, <2>3 DEF Turn
  <2> HIDE DEF next, r
  <2>5. Sound(next)
    BY <1>0, <2>2, <2>4 DEF Sound
  <2>6. QED
    BY <1>0, <2>2, <2>4, <2>5, TurnStep DEF Invariant
<1>10. CASE EndReply(t)
  <2> DEFINE x == Metered(t)
             m == IF r.text THEN Append(x.messages, Say(TRUE, 0)) ELSE x.messages
             next == [x EXCEPT !.at = "saving", !.replied = TRUE, !.messages = m]
  <2>1. r.at = "tools" /\ Set(t, next) /\ UNCHANGED <<store, saved, asked, lock>>
    BY <1>10 DEF EndReply
  <2>2. Kept(x, r) /\ x.counted = r.counted + 1
    BY LeftRecord
  <2> HIDE DEF x
  <2>3. r.billed = r.counted + 1 /\ Valid(r.messages) /\ Ready(r.messages)
    BY <1>0, <2>1 DEF Sound
  <2>4. m \in Seq(Message) /\ Valid(m)
    <3>1. Say(TRUE, 0) \in Message /\ Say(TRUE, 0).is = "say" /\ Say(TRUE, 0).calls = 0
          /\ Say(TRUE, 0).text = TRUE
      <4>1. TRUE \in BOOLEAN /\ 0 \in 0..MaxCalls
        BY TurnAssumption
      <4>2. Say(TRUE, 0) \in Message
        BY <4>1, MessageTypes
      <4>3. QED
        BY <4>2 DEF Say
    <3>2. Append(r.messages, Say(TRUE, 0)) \in Seq(Message)
          /\ Valid(Append(r.messages, Say(TRUE, 0)))
      BY <1>0, <2>3, <3>1, AppendKeepsValid DEF Ready
    <3>3. QED
      BY <1>0, <2>2, <2>3, <3>2 DEF Kept
  <2> HIDE DEF m
  <2>5. /\ next \in Turn /\ next.at = "saving" /\ next.messages = m /\ next.ask = x.ask
        /\ next.billed = x.billed /\ next.counted = x.counted /\ next.replied = TRUE
    BY <2>2, <2>4 DEF Turn, Phases, Kept
  <2> HIDE DEF next, r
  <2>6. Sound(next)
    BY <1>0, <2>1, <2>2, <2>3, <2>4, <2>5, TurnFields DEF Sound, Kept
  <2>7. QED
    BY <1>0, <2>1, <2>5, <2>6, TurnStep DEF Invariant
<1>11. CASE EndStep(t)
  <2> DEFINE x == Metered(t)
             m == x.messages \o <<Say(r.text, r.calls), Results(r.calls, r.weight)>>
  <2>1. PICK to \in {"step", "saving"} :
          Set(t, [x EXCEPT !.at = to, !.step = @ + 1, !.messages = m])
    BY <1>11 DEF EndStep
  <2> DEFINE next == [x EXCEPT !.at = to, !.step = x.step + 1, !.messages = m]
  <2>2. r.at = "tools" /\ r.calls > 0 /\ Set(t, next) /\ UNCHANGED <<store, saved, asked, lock>>
    BY <1>11, <2>1 DEF EndStep
  <2>3. Kept(x, r) /\ x.counted = r.counted + 1
    BY LeftRecord
  <2> HIDE DEF x
  <2>4. r.billed = r.counted + 1 /\ Valid(r.messages) /\ Ready(r.messages) /\ ~r.replied
    BY <1>0, <2>2 DEF Sound
  <2>5. m \in Seq(Message) /\ Valid(m) /\ Ready(m)
    <3> DEFINE s == Say(r.text, r.calls)
               q == Results(r.calls, r.weight)
    <3>1. s \in Message /\ q \in Message
      BY <1>0, TurnFields, MessageTypes
    <3>2. s.is = "say" /\ s.calls = r.calls /\ q.is = "results" /\ q.calls = r.calls
      BY DEF Say, Results
    <3> HIDE DEF s, q
    <3>3. r.messages \o <<s, q>> \in Seq(Message) /\ Valid(r.messages \o <<s, q>>)
          /\ Ready(r.messages \o <<s, q>>)
      BY <1>0, <2>2, <2>4, <3>1, <3>2, StepKeepsValid DEF Ready
    <3>4. x.messages = r.messages
      BY <2>3 DEF Kept
    <3>5. QED
      BY <3>3, <3>4 DEF s, q
  <2> HIDE DEF m
  <2>6. x.step + 1 \in 0..MaxSteps
    <3>1. r.step \in 0..MaxSteps /\ r.step < MaxSteps /\ x.step = r.step
      BY <1>0, <2>2, <2>3, TurnFields DEF Sound, Kept
    <3>2. QED
      BY <3>1, TurnAssumption
  <2>7. /\ next \in Turn /\ next.at = to /\ next.messages = m /\ next.ask = x.ask
        /\ next.billed = x.billed /\ next.counted = x.counted /\ next.replied = x.replied
    BY <2>3, <2>5, <2>6 DEF Turn, Phases, Kept
  <2> HIDE DEF next, r
  <2>8. Sound(next)
    BY <1>0, <2>2, <2>3, <2>4, <2>5, <2>7, TurnFields DEF Sound, Kept
  <2>9. QED
    BY <1>0, <2>2, <2>7, <2>8, TurnStep DEF Invariant
<1>12. CASE Cut(t)
  <2> DEFINE x == Leave(t)
  <2>1. PICK billed \in {0, 1} :
          /\ billed = 1 => r.at = "calling"
          /\ Set(t, [x EXCEPT !.at = "saving", !.billed = @ + billed])
    BY <1>12 DEF Cut
  <2> DEFINE next == [x EXCEPT !.at = "saving", !.billed = x.billed + billed]
  <2>2. r.at \in {"calling", "parsing", "tools"} /\ Set(t, next)
        /\ UNCHANGED <<store, saved, asked, lock>>
    BY <1>12, <2>1 DEF Cut
  <2>3. Kept(x, r) /\ x.counted = r.counted
    BY LeftRecord
  <2> HIDE DEF x
  <2>4. r.billed \in Nat /\ r.counted \in Nat
    BY <1>0, TurnFields
  <2>5. /\ next \in Turn /\ next.at = "saving" /\ next.messages = x.messages /\ next.ask = x.ask
        /\ next.billed = x.billed + billed /\ next.counted = x.counted
        /\ next.replied = x.replied
    <3>1. \A b \in Nat : LET y == [x EXCEPT !.at = "saving", !.billed = b] IN
            /\ y \in Turn /\ y.at = "saving" /\ y.messages = x.messages /\ y.ask = x.ask
            /\ y.billed = b /\ y.counted = x.counted /\ y.replied = x.replied
      BY <2>3 DEF Turn, Phases, Kept
    <3>2. x.billed + billed \in Nat
      BY <2>3, <2>4 DEF Kept
    <3>3. QED
      BY <3>1, <3>2, Zenon
  <2> HIDE DEF next, r
  <2>6. Sound(next)
    <3>1. x.billed = r.billed /\ x.messages = r.messages /\ x.ask = r.ask /\ x.replied = r.replied
      BY <2>3 DEF Kept
    <3>2. ~r.replied /\ Valid(r.messages) /\ r.ask \in 1..MaxAsks
      BY <1>0, <2>2 DEF Sound
    <3>3. r.billed + billed - r.counted \in 0..1
      <4>1. CASE r.at = "calling"
        BY <1>0, <2>4, <4>1 DEF Sound
      <4>2. CASE r.at # "calling"
        BY <1>0, <2>1, <2>2, <2>4, <4>2 DEF Sound
      <4>3. QED
        BY <4>1, <4>2
    <3>4. QED
      <4>1. next.at = "saving" /\ Valid(next.messages) /\ next.ask \in 1..MaxAsks /\ ~next.replied
        BY <2>5, <3>1, <3>2
      <4>2. next.billed = r.billed + billed /\ next.counted = r.counted
        BY <2>3, <2>5, <3>1
      <4>3. next.billed - next.counted \in 0..1
        BY <2>4, <3>3, <4>2
      <4>4. next.at \notin {"away", "waiting", "step", "calling", "parsing", "tools"}
        BY <4>1
      <4>5. QED
        BY <4>1, <4>3, <4>4, Zenon DEF Sound
  <2>7. QED
    BY <1>0, <2>2, <2>5, <2>6, TurnStep DEF Invariant
<1>13. CASE Save(t)
  <2>1. r.at = "saving" /\ Valid(r.messages) /\ r.ask \in 1..MaxAsks
    BY <1>0, <1>13 DEF Save, Sound
  <2>2. store' \in Seq(Message) /\ Valid(store)'
    BY <1>0, <1>13, <2>1, CompactKeepsValid DEF Save, Valid
  <2>3. saved' \in Seq(1..MaxAsks)
    BY <1>13, <2>1 DEF Save, Invariant
  <2>4. turn' \in [Turns -> Turn] /\ \A u \in Turns : Sound(turn'[u])
    BY <1>13, AwayIsSound, SetProperties DEF Save, Invariant
  <2>5. QED
    BY <1>13, <2>2, <2>3, <2>4 DEF Save, Invariant
<1>14. CASE SaveFails(t)
  BY <1>0, <1>14, AwayIsSound, TurnStep DEF SaveFails, Invariant
<1>15. QED
  BY <1>1, <1>2, <1>3, <1>4, <1>5, <1>6, <1>7, <1>8, <1>9, <1>10, <1>11, <1>12, <1>13, <1>14
     DEF Proceed

LEMMA StepKeeps == Invariant /\ [Next]_vars => Invariant'
<1> SUFFICES ASSUME Invariant, [Next]_vars PROVE Invariant'
  OBVIOUS
<1>1. CASE Crash
  <2>1. turn' \in [Turns -> Turn] /\ \A t \in Turns : Sound(turn'[t])
    BY <1>1, AwayIsSound DEF Crash
  <2>2. QED
    BY <1>1, <2>1 DEF Crash, Invariant
<1>2. CASE UNCHANGED vars
  BY <1>2 DEF vars, Invariant, Sound
<1>3. QED
  BY <1>1, <1>2, ProceedKeeps DEF Next

LEMMA InvariantHolds == Spec => []Invariant
<1>1. Init => Invariant
  BY InitInvariant
<1>2. Invariant /\ [Next]_vars => Invariant'
  BY StepKeeps
<1>3. QED
  BY <1>1, <1>2, PTL DEF Spec

-----------------------------------------------------------------------------
(* Every turn on top of the ones before it. *)

Inside(t) == turn[t].at \notin {"away", "waiting"}

\* Whoever is inside holds the lock, and its transcript goes on where the saved one ends.
Ours ==
  /\ EndsOn(store, saved)
  /\ \A t \in Turns : Inside(t) =>
       lock = t /\ EndsOn(turn[t].messages, Append(saved, turn[t].ask))

LEMMA InitOurs == Init => Ours
<1> SUFFICES ASSUME Init PROVE Ours
  OBVIOUS
<1>1. Starts(<<>>) = {}
  BY DEF Starts
<1>2. QED
  BY <1>1 DEF Init, Ours, EndsOn, Inside, Away

LEMMA OursStep ==
  ASSUME Invariant, Ours, NEW t \in Turns, NEW next, Set(t, next), UNCHANGED <<store, saved>>,
         \/ lock' = lock
         \/ lock' = Nobody /\ Inside(t)
         \/ lock' = t /\ lock = Nobody,
         next.at \notin {"away", "waiting"} =>
           lock' = t /\ EndsOn(next.messages, Append(saved, next.ask))
  PROVE  Ours'
<1>1. turn'[t] = next /\ \A u \in Turns \ {t} : turn'[u] = turn[u]
  BY DEF Invariant, Set
<1>2. ASSUME NEW u \in Turns, Inside(u)'
      PROVE  lock' = u /\ EndsOn(turn'[u].messages, Append(saved, turn'[u].ask))
  <2>1. CASE u = t
    BY <1>1, <1>2, <2>1 DEF Inside
  <2>2. CASE u # t
    <3>1. turn'[u] = turn[u] /\ Inside(u)
      BY <1>1, <1>2, <2>2 DEF Inside
    <3>2. lock = u /\ EndsOn(turn[u].messages, Append(saved, turn[u].ask))
      BY <3>1 DEF Ours
    <3>3. lock' = lock
      BY <2>2, <3>2, TurnAssumption DEF Ours
    <3>4. QED
      BY <3>1, <3>2, <3>3
  <2>3. QED
    BY <2>1, <2>2
<1>3. QED
  BY <1>2 DEF Ours, EndsOn

\* A turn that stays inside, with the asks it had.
LEMMA InsideStep ==
  ASSUME Invariant, Ours, NEW t \in Turns, NEW next, Set(t, next),
         UNCHANGED <<store, saved, lock>>, Inside(t), next.ask = turn[t].ask,
         \/ next.messages = turn[t].messages
         \/ EndsOn(next.messages, Append(saved, turn[t].ask))
  PROVE  Ours'
<1>1. lock = t /\ EndsOn(turn[t].messages, Append(saved, turn[t].ask))
  BY DEF Ours
<1>2. QED
  BY <1>1, OursStep

LEMMA ProceedOurs ==
  ASSUME Invariant, Ours, NEW t \in Turns, Arrive(t) \/ Proceed(t)
  PROVE  Ours'
<1> DEFINE r == turn[t]
           whole == Append(saved, r.ask)
<1>0. /\ r \in Turn /\ Sound(r) /\ r.messages \in Seq(Message)
      /\ store \in Seq(Message) /\ saved \in Seq(Nat) /\ EndsOn(store, saved)
      /\ Inside(t) => EndsOn(r.messages, whole)
  <2>1. saved \in Seq(Nat)
    BY TurnAssumption, SeqMonotonic DEF Invariant
  <2>2. QED
    BY <2>1, TurnFields DEF Invariant, Ours
<1>1. CASE Arrive(t)
  <2> DEFINE next == [Away EXCEPT !.at = "waiting", !.ask = asked']
  <2>1. Set(t, next) /\ UNCHANGED <<store, saved, lock>> /\ next.at = "waiting"
    BY <1>1 DEF Arrive, Away
  <2>2. QED
    BY <2>1, OursStep
<1>2. CASE Enter(t)
  <2> DEFINE m == Append(store, Ask(r.ask))
             next == [r EXCEPT !.at = "step", !.messages = m]
  <2>1. Set(t, next) /\ UNCHANGED <<store, saved>> /\ lock = Nobody /\ lock' = t
    BY <1>2 DEF Enter
  <2>2. next.messages = m /\ next.ask = r.ask /\ r.ask \in 0..MaxAsks
    BY <1>0 DEF Turn
  <2>3. EndsOn(m, whole)
    BY <1>0, <2>2, AskEndsOn
  <2> HIDE DEF next, m
  <2>4. QED
    BY <2>1, <2>2, <2>3, OursStep
<1>3. CASE GiveUp(t)
  <2>1. Set(t, Away) /\ UNCHANGED <<store, saved, lock>> /\ Away.at = "away"
    BY <1>3 DEF GiveUp, Away
  <2>2. QED
    BY <2>1, OursStep
<1>4. CASE StopAtStep(t)
  <2> DEFINE next == [r EXCEPT !.at = "saving"]
  <2>1. Inside(t) /\ Set(t, next) /\ UNCHANGED <<store, saved, lock>>
    BY <1>4 DEF StopAtStep, Inside
  <2>2. next.messages = r.messages /\ next.ask = r.ask
    BY <1>0 DEF Turn
  <2> HIDE DEF next
  <2>3. QED
    BY <2>1, <2>2, InsideStep
<1>5. CASE Send(t)
  <2> DEFINE next == [r EXCEPT !.at = "calling", !.messages = Compact(r.messages)]
  <2>1. Inside(t) /\ Set(t, next) /\ UNCHANGED <<store, saved, lock>>
    BY <1>5 DEF Send, Inside
  <2>2. next.messages = Compact(r.messages) /\ next.ask = r.ask
    BY <1>0 DEF Turn
  <2>3. EndsOn(Compact(r.messages), whole)
    BY <1>0, <2>1, CompactEndsOn
  <2> HIDE DEF next
  <2>4. QED
    BY <2>1, <2>2, <2>3, InsideStep
<1>6. CASE Answered(t)
  <2> DEFINE next == [r EXCEPT !.at = "parsing", !.attempt = 0, !.billed = @ + 1]
  <2>1. Inside(t) /\ Set(t, next) /\ UNCHANGED <<store, saved, lock>>
    BY <1>6 DEF Answered, Inside
  <2>2. next.messages = r.messages /\ next.ask = r.ask
    BY <1>0 DEF Turn
  <2> HIDE DEF next
  <2>3. QED
    BY <2>1, <2>2, InsideStep
<1>7. CASE Retry(t)
  <2> DEFINE next == [r EXCEPT !.attempt = @ + 1]
  <2>1. Inside(t) /\ Set(t, next) /\ UNCHANGED <<store, saved, lock>>
    BY <1>7 DEF Retry, Inside
  <2>2. next.messages = r.messages /\ next.ask = r.ask
    BY <1>0 DEF Turn
  <2> HIDE DEF next
  <2>3. QED
    BY <2>1, <2>2, InsideStep
<1>8. CASE Parse(t)
  <2>1. PICK calls \in 0..MaxCalls, text \in BOOLEAN :
          Set(t, [r EXCEPT !.at = "tools", !.parsed = @ + 1, !.calls = calls,
                           !.text = text, !.done = 0, !.weight = 0])
    BY <1>8 DEF Parse
  <2> DEFINE next == [r EXCEPT !.at = "tools", !.parsed = @ + 1, !.calls = calls,
                               !.text = text, !.done = 0, !.weight = 0]
  <2>2. Inside(t) /\ Set(t, next) /\ UNCHANGED <<store, saved, lock>>
    BY <1>8, <2>1 DEF Parse, Inside
  <2>3. next.messages = r.messages /\ next.ask = r.ask
    BY <1>0 DEF Turn
  <2> HIDE DEF next
  <2>4. QED
    BY <2>2, <2>3, InsideStep
<1>9. CASE Dispatch(t)
  <2>1. PICK weight \in {0, Clip} :
          Set(t, [r EXCEPT !.done = @ + 1, !.weight = @ + weight])
    BY <1>9 DEF Dispatch
  <2> DEFINE next == [r EXCEPT !.done = @ + 1, !.weight = @ + weight]
  <2>2. Inside(t) /\ Set(t, next) /\ UNCHANGED <<store, saved, lock>>
    BY <1>9, <2>1 DEF Dispatch, Inside
  <2>3. next.messages = r.messages /\ next.ask = r.ask
    BY <1>0 DEF Turn
  <2> HIDE DEF next
  <2>4. QED
    BY <2>2, <2>3, InsideStep
<1>10. CASE EndReply(t)
  <2> DEFINE x == Metered(t)
             m == IF r.text THEN Append(x.messages, Say(TRUE, 0)) ELSE x.messages
             next == [x EXCEPT !.at = "saving", !.replied = TRUE, !.messages = m]
  <2>1. Inside(t) /\ Set(t, next) /\ UNCHANGED <<store, saved, lock>>
    BY <1>10 DEF EndReply, Inside
  <2>2. Kept(x, r)
    BY LeftRecord
  <2> HIDE DEF x
  <2>3. next.messages = m /\ next.ask = r.ask /\ x.messages = r.messages
    BY <2>2 DEF Kept, Turn
  <2>4. EndsOn(m, whole)
    <3>1. Say(TRUE, 0) \in Message /\ Say(TRUE, 0).is # "ask"
      <4>1. TRUE \in BOOLEAN /\ 0 \in 0..MaxCalls
        BY TurnAssumption
      <4>2. Say(TRUE, 0) \in Message
        BY <4>1, MessageTypes
      <4>3. QED
        BY <4>2 DEF Say
    <3>2. EndsOn(Append(r.messages, Say(TRUE, 0)), whole)
      BY <1>0, <2>1, <3>1, ReplyEndsOn
    <3>3. QED
      BY <1>0, <2>1, <2>3, <3>2
  <2> HIDE DEF next, m
  <2>5. QED
    BY <2>1, <2>3, <2>4, InsideStep
<1>11. CASE EndStep(t)
  <2> DEFINE x == Metered(t)
             s == Say(r.text, r.calls)
             q == Results(r.calls, r.weight)
             m == x.messages \o <<s, q>>
  <2>1. PICK to \in {"step", "saving"} :
          Set(t, [x EXCEPT !.at = to, !.step = @ + 1, !.messages = m])
    BY <1>11 DEF EndStep
  <2> DEFINE next == [x EXCEPT !.at = to, !.step = @ + 1, !.messages = m]
  <2>2. Inside(t) /\ Set(t, next) /\ UNCHANGED <<store, saved, lock>>
    BY <1>11, <2>1 DEF EndStep, Inside
  <2>3. Kept(x, r)
    BY LeftRecord
  <2> HIDE DEF x
  <2>4. next.messages = m /\ next.ask = r.ask /\ x.messages = r.messages
    BY <2>3 DEF Kept, Turn
  <2>5. s \in Message /\ q \in Message /\ s.is # "ask" /\ q.is # "ask"
    BY <1>0, TurnFields, MessageTypes DEF Say, Results
  <2> HIDE DEF next, s, q
  <2>6. EndsOn(m, whole)
    BY <1>0, <2>2, <2>4, <2>5, ToolsEndOn
  <2> HIDE DEF m
  <2>7. QED
    BY <2>2, <2>4, <2>6, InsideStep
<1>12. CASE Cut(t)
  <2> DEFINE x == Leave(t)
  <2>1. PICK billed \in {0, 1} : Set(t, [x EXCEPT !.at = "saving", !.billed = @ + billed])
    BY <1>12 DEF Cut
  <2> DEFINE next == [x EXCEPT !.at = "saving", !.billed = @ + billed]
  <2>2. Inside(t) /\ Set(t, next) /\ UNCHANGED <<store, saved, lock>>
    BY <1>12, <2>1 DEF Cut, Inside
  <2>3. Kept(x, r)
    BY LeftRecord
  <2> HIDE DEF x
  <2>4. next.messages = r.messages /\ next.ask = r.ask
    BY <2>3 DEF Kept, Turn
  <2> HIDE DEF next
  <2>5. QED
    BY <2>2, <2>4, InsideStep
<1>13. CASE Save(t)
  <2>1. Inside(t) /\ Set(t, Away) /\ Away.at = "away" /\ lock' = Nobody
        /\ store' = Compact(r.messages) /\ saved' = whole
    BY <1>13 DEF Save, Inside, Away
  <2>2. EndsOn(store', saved')
    BY <1>0, <2>1, CompactEndsOn
  <2>3. \A u \in Turns : ~ Inside(u)'
    <3>1. \A u \in Turns \ {t} : ~ Inside(u)
      BY <2>1 DEF Ours
    <3>2. turn'[t] = Away /\ \A u \in Turns \ {t} : turn'[u] = turn[u]
      BY <2>1 DEF Set, Invariant
    <3>3. QED
      BY <2>1, <3>1, <3>2 DEF Inside
  <2>4. QED
    BY <2>2, <2>3 DEF Ours, EndsOn
<1>14. CASE SaveFails(t)
  <2>1. Inside(t) /\ Set(t, Away) /\ UNCHANGED <<store, saved>> /\ lock' = Nobody
        /\ Away.at = "away"
    BY <1>14 DEF SaveFails, Inside, Away
  <2>2. QED
    BY <2>1, OursStep
<1>15. QED
  BY <1>1, <1>2, <1>3, <1>4, <1>5, <1>6, <1>7, <1>8, <1>9, <1>10, <1>11, <1>12, <1>13, <1>14
     DEF Proceed

LEMMA StepOurs == Invariant /\ Ours /\ [Next]_vars => Ours'
<1> SUFFICES ASSUME Invariant, Ours, [Next]_vars PROVE Ours'
  OBVIOUS
<1>1. CASE Crash
  BY <1>1 DEF Crash, Ours, Inside, Away, EndsOn
<1>2. CASE UNCHANGED vars
  BY <1>2 DEF vars, Ours, Inside, EndsOn
<1>3. QED
  BY <1>1, <1>2, ProceedOurs DEF Next

LEMMA OursHolds == Spec => []Ours
<1>1. Init => Ours
  BY InitOurs
<1>2. Invariant /\ Ours /\ [Next]_vars => Ours'
  BY StepOurs
<1>3. QED
  BY <1>1, <1>2, InvariantHolds, PTL DEF Spec

-----------------------------------------------------------------------------
(* What compact keeps. *)

\* Of a transcript that opens on an ask, compact keeps the longest suffix that fits.
LEMMA CompactKeepsLongest ==
  ASSUME NEW m \in Seq(Message), 1 \in Starts(m)
  PROVE  /\ \E i \in Starts(m) : Compact(m) = From(m, i)
         /\ Weight(Compact(m)) <= Limit \/ Cardinality(Starts(Compact(m))) = 1
         /\ \A i \in Starts(m) :
              Weight(From(m, i)) <= Limit => Len(From(m, i)) <= Len(Compact(m))
<1> DEFINE S == Starts(m)
           cuts == {i \in S \ {Min(S)} : Weight(From(m, i)) <= Limit}
<1>1. /\ Len(m) \in Nat /\ S \in SUBSET (1..Len(m)) /\ S \in SUBSET Nat
      /\ cuts \in SUBSET Nat /\ cuts \subseteq S /\ 1 \in 1..Len(m)
  BY LenProperties DEF Starts
<1>2. \A i \in S : Len(From(m, i)) = Len(m) - i + 1
  BY <1>1, FromProperties
<1>3. From(m, 1) = m
  BY SubSeqFull DEF From
<1>4. Min(S) = 1
  BY <1>1, LeastIs
<1>5. CASE Weight(m) <= Limit
  <2>1. Compact(m) = m
    BY <1>5 DEF Compact
  <2>2. QED
    BY <1>1, <1>2, <1>3, <1>5, <2>1
<1>6. CASE ~ (Weight(m) <= Limit) /\ cuts # {}
  <2>1. Compact(m) = From(m, Min(cuts))
    BY <1>6 DEF Compact
  <2>2. Min(cuts) \in cuts /\ \A i \in cuts : Min(cuts) <= i
    <3> HIDE DEF cuts
    <3>1. QED
      BY <1>1, <1>6, LeastIs
  <2>3. \A i \in S : Weight(From(m, i)) <= Limit => i \in cuts
    BY <1>3, <1>4, <1>6
  <2>4. Weight(From(m, Min(cuts))) <= Limit
    <3> DEFINE c == Min(cuts)
    <3>1. c \in cuts
      BY <2>2
    <3> HIDE DEF c
    <3>2. Weight(From(m, c)) <= Limit
      BY <3>1
    <3>3. QED
      BY <3>2 DEF c
  <2> HIDE DEF cuts
  <2>5. \A i \in S : Weight(From(m, i)) <= Limit => Len(From(m, i)) <= Len(From(m, Min(cuts)))
    <3> DEFINE c == Min(cuts)
    <3>1. c \in S /\ \A i \in S : Weight(From(m, i)) <= Limit => c <= i
      BY <1>1, <2>2, <2>3
    <3> HIDE DEF c
    <3>2. \A i \in S : Weight(From(m, i)) <= Limit => Len(From(m, i)) <= Len(From(m, c))
      BY <1>1, <1>2, <3>1
    <3>3. QED
      BY <3>2 DEF c
  <2>6. QED
    BY <1>1, <2>1, <2>2, <2>4, <2>5
<1>7. CASE ~ (Weight(m) <= Limit) /\ cuts = {}
  <2>1. Compact(m) = From(m, Max(S))
    BY <1>1, <1>7 DEF Compact
  <2>2. \A i \in S : ~ (Weight(From(m, i)) <= Limit)
    BY <1>3, <1>4, <1>7
  <2> HIDE DEF cuts
  <2>3. Max(S) \in S /\ \A i \in S : i <= Max(S)
    BY <1>1, GreatestIs
  <2>4. Cardinality(Starts(From(m, Max(S)))) = 1
    <3> DEFINE k == From(m, Max(S))
    <3>1. 1 \in Starts(k) /\ \A j \in Starts(k) : Max(S) + j - 1 \in S
      BY <2>3, SuffixStarts
    <3>2. k \in Seq(Message)
      BY <1>1, <2>3, FromProperties
    <3>3. Starts(k) \subseteq Nat \ {0}
      BY <3>2, LenProperties DEF Starts
    <3> HIDE DEF k
    <3>4. Starts(k) = {1}
      BY <1>1, <2>3, <3>1, <3>3
    <3>5. QED
      BY <3>4, FS_Singleton DEF k
  <2>5. QED
    BY <2>1, <2>2, <2>3, <2>4
<1>8. QED
  BY <1>5, <1>6, <1>7

-----------------------------------------------------------------------------
(* Theorems. *)

\* THEOREM: the turns, their transcripts and the saved one are what their types say,
\* through every end of a turn (agent.py:1650-1843).
THEOREM AgentTypes == Spec => []TypeOK
<1>1. Invariant => TypeOK
  BY DEF Invariant, TypeOK, Turn
<1>2. QED
  BY <1>1, InvariantHolds, PTL

\* THEOREM: whatever ends a turn and wherever compact cuts, a saved transcript and one that
\* is sent is one the provider accepts (agent.py:92-124, 1650-1843).
THEOREM TranscriptsAreValid == Spec => []SendsValid
<1>1. Invariant => SendsValid
  BY DEF Invariant, SendsValid, Sound, Ready
<1>2. QED
  BY <1>1, InvariantHolds, PTL

\* THEOREM: the usage that a turn reports lacks the answer it was cut at, at most
\* (agent.py:1726-1775).
THEOREM UsageIsNearlyExact == Spec => []UsageNearlyExact
<1>1. Invariant => UsageNearlyExact
  BY DEF Invariant, UsageNearlyExact, Sound
<1>2. QED
  BY <1>1, InvariantHolds, PTL

\* THEOREM: whatever a turn has of a transcript, compact keeps as many whole turns of it as
\* fit, the newest in any case (agent.py:106-123).
THEOREM CompactionKeepsMost == Spec => []CompactKeepsMost
<1>1. Invariant /\ Ours => CompactKeepsMost
  <2> SUFFICES ASSUME Invariant, Ours, NEW t \in Turns, turn[t].at \in {"step", "saving"}
               PROVE  LET whole == turn[t].messages
                          kept == Compact(whole)
                      IN  /\ \E i \in Starts(whole) : kept = From(whole, i)
                          /\ Weight(kept) <= Limit \/ Cardinality(Starts(kept)) = 1
                          /\ \A i \in Starts(whole) :
                               Weight(From(whole, i)) <= Limit =>
                                 Len(From(whole, i)) <= Len(kept)
    BY DEF CompactKeepsMost
  <2> DEFINE m == turn[t].messages
  <2>1. m \in Seq(Message) /\ Valid(m) /\ EndsOn(m, Append(saved, turn[t].ask))
    BY TurnFields DEF Invariant, Sound, Ours, Inside
  <2>2. saved \in Seq(Nat) /\ turn[t].ask \in Nat
    BY TurnFields, TurnAssumption, SeqMonotonic DEF Invariant
  <2>3. Append(saved, turn[t].ask) # <<>>
    BY <2>2
  <2> HIDE DEF m
  <2>4. Starts(m) # {}
    BY <2>1, <2>3 DEF EndsOn
  <2>5. 1 \in Starts(m)
    BY <2>1, <2>4, LenProperties, EmptySeq DEF Starts, Valid
  <2>6. QED
    BY <2>1, <2>5, CompactKeepsLongest DEF m
<1>2. QED
  BY <1>1, InvariantHolds, OursHolds, PTL

\* THEOREM: the lock around load and save keeps every turn that is saved on top of the one
\* before it; the transcript loses turns from its old end only (agent.py:1678-1721).
THEOREM SavedTurnsStay == Spec => []NoTurnLost
<1>1. Ours => NoTurnLost
  BY DEF Ours, NoTurnLost
<1>2. QED
  BY <1>1, OursHolds, PTL
================================================================================
