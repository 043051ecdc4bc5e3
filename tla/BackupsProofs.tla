----------------------------- MODULE BackupsProofs -----------------------------
(***************************************************************************)
(* Theorems of Backups for any number of cycles and any retention: what an *)
(* archive holds, that the newest reported one stays, and why a cycle      *)
(* refuses to prune.                                                       *)
(***************************************************************************)
EXTENDS Backups, TLAPS

Stages == {"idle", "waiting", "locked", "validated", "copying", "staged", "linked",
           "pruning", "deleting"}
Progress == [at : Stages, now : 0..MaxNow, content : Contents, expired : SUBSET Archives]

\* From the copy on a cycle has its content, from the link on its archive.
Copied == {"staged", "linked", "pruning", "deleting"}
Named == {"linked", "pruning", "deleting"}
Holding == {"locked", "validated", "copying"} \cup Copied

\* Between turns the ledger and the sessions agree, and the marker is there between turns.
ProductInOrder ==
  /\ product \in {"idle", "turn"} => state.quota = state.sessions
  /\ product = "turn" => state.sessions < MaxTurns
  /\ marker => product = "stopped" /\ state.quota = state.sessions

OneHolds == \A c \in Cycles : cycle[c].at \in Holding => lock = c

\* What an undisturbed cycle has read is what is still there.
ReadsOneState ==
  \A c \in Cycles :
    /\ cycle[c].at \in {"validated", "copying"} /\ ~cycle[c].content.disturbed =>
         marker /\ ~state.lease
    /\ cycle[c].at = "copying" /\ ~cycle[c].content.disturbed =>
         cycle[c].content.files.quota = state.quota /\ ~cycle[c].content.files.lease
    /\ cycle[c].at \in Copied => Consistent(cycle[c].content)

\* The content of a cycle is at least as new as the newest that was reported.
CopiesAreNew ==
  /\ kept <= state.sessions
  /\ \A c \in Cycles : cycle[c].at \in Copied =>
       /\ kept <= cycle[c].content.files.sessions
       /\ cycle[c].content.files.sessions <= state.sessions

\* The archive of a cycle is there and is not among those it deletes.
OwnArchiveStays ==
  \A c \in Cycles :
    /\ cycle[c].at \in Named =>
         \E a \in archives : SameName(a, Archive(c)) /\ (tampers = 0 => a.intact)
    /\ cycle[c].at = "deleting" => \A a \in cycle[c].expired : Expired(c, a)

\* Who is to blame for an archive that is not as it should be.
SuspectsExplained ==
  \A a \in archives :
    /\ ~a.intact => tampers > 0
    /\ a.linked => died \/ \E c \in Cycles : cycle[c].at = "linked" /\ SameName(a, Archive(c))
-----------------------------------------------------------------------------
\* TypeOK with the stages named.
Types ==
  /\ product \in {"stopped", "idle", "turn", "written"}
  /\ marker \in BOOLEAN
  /\ state \in Files
  /\ now \in 0..MaxNow
  /\ lock \in Cycles \cup {Nobody}
  /\ archives \subseteq Archives
  /\ cycle \in [Cycles -> Progress]
  /\ tampers \in 0..MaxTampers
  /\ died \in BOOLEAN
  /\ target \in Contents \cup {None}
  /\ kept \in 0..MaxTurns

LEMMA TypesAreAll == Types => TypeOK
  BY DEF Types, TypeOK, Progress, Stages

\* The types of what a cycle may become.
LEMMA BlankType == Blank \in Contents /\ Idle \in Progress
  BY BackupAssumption DEF Blank, Idle, Contents, Files, Progress, Stages, Archives

LEMMA ArchiveType ==
  ASSUME NEW c \in Cycles, Types
  PROVE  Archive(c) \in Archives
  BY DEF Types, Archive, Archives, Progress

\* A product that has just been installed.
LEMMA InitInvariants ==
  Init => /\ Types /\ ProductInOrder /\ OneHolds /\ ReadsOneState /\ CopiesAreNew
          /\ OwnArchiveStays /\ SuspectsExplained /\ CopiesConsistent /\ NewestKept
<1> SUFFICES ASSUME Init
             PROVE  /\ Types /\ ProductInOrder /\ OneHolds /\ ReadsOneState /\ CopiesAreNew
                    /\ OwnArchiveStays /\ SuspectsExplained /\ CopiesConsistent /\ NewestKept
  OBVIOUS
<1>1. Blank.files \in Files /\ Blank.files.quota = 0 /\ Blank.files.sessions = 0
  BY BackupAssumption DEF Blank, Files
<1>2. \A c \in Cycles : cycle[c].at = "idle"
  BY DEF Init, Idle
<1>3. Types
  <2>1. cycle \in [Cycles -> Progress]
    BY BlankType DEF Init
  <2>2. 0 \in 0..MaxNow /\ 0 \in 0..MaxTampers /\ 0 \in 0..MaxTurns
    BY BackupAssumption
  <2>3. QED
    BY <1>1, <2>1, <2>2 DEF Types, Init
<1>4. ProductInOrder /\ OneHolds /\ ReadsOneState
  BY <1>1, <1>2 DEF Init, ProductInOrder, OneHolds, Holding, ReadsOneState, Copied
<1>5. CopiesAreNew /\ OwnArchiveStays /\ SuspectsExplained
  BY <1>1, <1>2 DEF Init, CopiesAreNew, OwnArchiveStays, SuspectsExplained, Copied, Named
<1>6. CopiesConsistent /\ NewestKept
  BY DEF Init, CopiesConsistent, NewestKept
<1>7. QED
  BY <1>3, <1>4, <1>5, <1>6

\* A step of one cycle that gives it an admissible record.
LEMMA CycleStep ==
  ASSUME Types, NEW c \in Cycles, NEW next \in Progress, To(c, next)
  PROVE  /\ cycle' \in [Cycles -> Progress]
         /\ cycle'[c] = next
         /\ \A d \in Cycles \ {c} : cycle'[d] = cycle[d]
  BY DEF Types, To

\* What each step of a cycle makes of its record is admissible.
LEMMA NextRecords ==
  ASSUME Types, NEW c \in Cycles
  PROVE  /\ [Idle EXCEPT !.at = "waiting", !.now = now] \in Progress
         /\ \A s \in Stages : [cycle[c] EXCEPT !.at = s] \in Progress
         /\ [cycle[c] EXCEPT !.at = "copying", !.content.files.quota = state.quota,
                             !.content.files.lease = state.lease] \in Progress
         /\ [cycle[c] EXCEPT !.at = "staged", !.content.files.sessions = state.sessions]
              \in Progress
         /\ [cycle[c] EXCEPT !.at = "deleting", !.expired = {a \in archives : Expired(c, a)}]
              \in Progress
         /\ \A a : [cycle[c] EXCEPT !.expired = @ \ {a}] \in Progress
         /\ [cycle[c] EXCEPT !.content.disturbed = TRUE] \in Progress
<1>1. cycle[c] \in Progress /\ now \in 0..MaxNow /\ archives \subseteq Archives /\ state \in Files
  BY DEF Types
<1>2. [Idle EXCEPT !.at = "waiting", !.now = now] \in Progress
  BY <1>1, BlankType DEF Progress, Stages
<1>3. \A s \in Stages : [cycle[c] EXCEPT !.at = s] \in Progress
  BY <1>1 DEF Progress
<1>4. [cycle[c] EXCEPT !.at = "copying", !.content.files.quota = state.quota,
                      !.content.files.lease = state.lease] \in Progress
  BY <1>1 DEF Progress, Stages, Contents, Files
<1>5. [cycle[c] EXCEPT !.at = "staged", !.content.files.sessions = state.sessions] \in Progress
  BY <1>1 DEF Progress, Stages, Contents, Files
<1>6. [cycle[c] EXCEPT !.at = "deleting", !.expired = {a \in archives : Expired(c, a)}]
        \in Progress
  BY <1>1 DEF Progress, Stages
<1>7. \A a : [cycle[c] EXCEPT !.expired = @ \ {a}] \in Progress
  BY <1>1 DEF Progress
<1>8. [cycle[c] EXCEPT !.content.disturbed = TRUE] \in Progress
  BY <1>1 DEF Progress, Contents
<1>9. QED
  BY <1>2, <1>3, <1>4, <1>5, <1>6, <1>7, <1>8

\* Every action keeps the types.
LEMMA TypeStep == Types /\ ProductInOrder /\ [Next]_vars => Types'
<1> SUFFICES ASSUME Types, ProductInOrder, [Next]_vars
             PROVE  Types'
  OBVIOUS
<1> USE DEF productVars, directoryVars
<1>1. CASE Run
  <2>1. CASE Start
    <3>1. cycle' \in [Cycles -> Progress]
      BY <2>1, NextRecords DEF Types, Start
    <3>2. state' \in Files
      BY <2>1 DEF Types, Start, Files
    <3>3. QED
      BY <2>1, <3>1, <3>2 DEF Types, Start
  <2>2. CASE BeginTurn \/ WriteTurn \/ SettleTurn
    <3>1. state \in Files /\ MaxTurns \in Nat
      BY BackupAssumption DEF Types
    <3>2. CASE BeginTurn \/ SettleTurn
      BY <3>1, <3>2 DEF Types, BeginTurn, SettleTurn, Files
    <3>3. CASE WriteTurn
      <4>1. state.sessions + 1 \in 0..MaxTurns
        BY <3>1, <3>3 DEF WriteTurn, Files, ProductInOrder
      <4>2. QED
        BY <3>1, <3>3, <4>1 DEF Types, WriteTurn, Files
    <3>4. QED
      BY <2>2, <3>2, <3>3
  <2>3. CASE Drain \/ CrashProduct
    BY <2>3 DEF Types, Drain, CrashProduct
  <2>4. QED
    BY <1>1, <2>1, <2>2, <2>3 DEF Run
<1>2. ASSUME NEW c \in Cycles, Begin(c) \/ Die(c) \/ Lock(c) \/ Validate(c) \/ Refuse(c) \/ Fail(c)
      PROVE  Types'
  <2>1. \E next \in Progress : To(c, next)
    <3>1. /\ Idle \in Progress
          /\ [Idle EXCEPT !.at = "waiting", !.now = now] \in Progress
          /\ [cycle[c] EXCEPT !.at = "locked"] \in Progress
          /\ [cycle[c] EXCEPT !.at = "validated"] \in Progress
      BY NextRecords, BlankType DEF Stages
    <3>2. QED
      BY <1>2, <3>1 DEF Begin, Die, Lock, Validate, Refuse, Fail
  <2>2. cycle' \in [Cycles -> Progress]
    BY <2>1, CycleStep
  <2>3. QED
    BY <1>2, <2>2 DEF Types, Begin, Die, Lock, Validate, Refuse, Fail
<1>3. ASSUME NEW c \in Cycles, CopyQuota(c) \/ CopySessions(c) \/ Check(c)
      PROVE  Types'
  <2>1. \E next \in Progress : To(c, next)
    BY <1>3, NextRecords DEF CopyQuota, CopySessions, Check
  <2>2. cycle' \in [Cycles -> Progress]
    BY <2>1, CycleStep
  <2>3. QED
    BY <1>3, <2>2 DEF Types, CopyQuota, CopySessions, Check
<1>4. ASSUME NEW c \in Cycles, Link(c) \/ Unstage(c) \/ Delete(c) \/ Report(c)
      PROVE  Types'
  <2>1. \E next \in Progress : To(c, next)
    <3>1. \A s \in {"linked", "pruning"} : [cycle[c] EXCEPT !.at = s] \in Progress
      BY NextRecords DEF Stages
    <3>2. \A s \in BOOLEAN : (IF s THEN "linked" ELSE "pruning") \in {"linked", "pruning"}
      OBVIOUS
    <3>3. CASE Link(c)
      BY <3>1, <3>2, <3>3 DEF Link
    <3>4. CASE Unstage(c) \/ Report(c)
      BY <3>1, <3>4, BlankType DEF Unstage, Report
    <3>5. CASE Delete(c)
      BY <3>5, NextRecords DEF Delete
    <3>6. QED
      BY <1>4, <3>3, <3>4, <3>5
  <2>2. cycle' \in [Cycles -> Progress]
    BY <2>1, CycleStep
  <2>3. archives' \subseteq Archives
    <3>1. CASE Link(c)
      BY <3>1, ArchiveType DEF Types, Link
    <3>2. CASE Unstage(c)
      <4>1. \A a \in Archives : [a EXCEPT !.linked = FALSE] \in Archives
        BY DEF Archives
      <4>2. QED
        BY <3>2, <4>1 DEF Types, Unstage
    <3>3. CASE Delete(c) \/ Report(c)
      BY <3>3 DEF Types, Delete, Report
    <3>4. QED
      BY <1>4, <3>1, <3>2, <3>3
  <2>4. kept' \in 0..MaxTurns
    <3>1. cycle[c].content.files.sessions \in 0..MaxTurns
      BY DEF Types, Progress, Contents, Files
    <3>2. QED
      BY <1>4, <3>1 DEF Types, Link, Unstage, Delete, Report
  <2>5. QED
    BY <1>4, <2>2, <2>3, <2>4 DEF Types, Link, Unstage, Delete, Report
<1>5. CASE Tamper
  <2>1. \A a \in Archives : [a EXCEPT !.intact = FALSE] \in Archives
    BY DEF Archives
  <2>2. archives' \subseteq Archives
    BY <1>5, <2>1 DEF Types, Tamper
  <2>3. tampers' \in 0..MaxTampers
    BY <1>5, BackupAssumption DEF Types, Tamper
  <2>4. QED
    BY <1>5, <2>2, <2>3 DEF Types, Tamper
<1>6. CASE Restore
  BY <1>6 DEF Types, Restore, Archives
<1>7. CASE Tick
  BY <1>7, BackupAssumption DEF Types, Tick
<1>8. CASE UNCHANGED vars
  BY <1>8 DEF Types, vars
<1>9. QED
  BY <1>1, <1>2, <1>3, <1>4, <1>5, <1>6, <1>7, <1>8 DEF Next, Advance

\* Only the product moves the marker and its files.
LEMMA ProductStep == Types /\ ProductInOrder /\ [Next]_vars => ProductInOrder'
<1> SUFFICES ASSUME Types, ProductInOrder, [Next]_vars
             PROVE  ProductInOrder'
  OBVIOUS
<1>1. CASE UNCHANGED productVars
  BY <1>1 DEF productVars, ProductInOrder
<1>2. CASE Run
  <2>1. state \in Files /\ MaxTurns \in Nat
    BY BackupAssumption DEF Types
  <2>2. CASE Start \/ SettleTurn
    <3>1. state'.quota = state'.sessions
      BY <2>1, <2>2 DEF Start, SettleTurn, Files
    <3>2. QED
      BY <2>2, <3>1 DEF Start, SettleTurn, ProductInOrder
  <2>3. CASE BeginTurn \/ WriteTurn
    BY <2>1, <2>3 DEF BeginTurn, WriteTurn, Files, ProductInOrder
  <2>4. CASE Drain \/ CrashProduct
    BY <2>1, <2>4 DEF Drain, CrashProduct, ProductInOrder
  <2>5. QED
    BY <1>2, <2>2, <2>3, <2>4 DEF Run
<1>3. CASE Tamper \/ Restore \/ Tick \/ UNCHANGED vars
  BY <1>1, <1>3 DEF Tamper, Restore, Tick, vars, productVars
<1>4. ASSUME NEW c \in Cycles, Begin(c) \/ Advance(c) \/ Die(c)
      PROVE  ProductInOrder'
  BY <1>1, <1>4 DEF Begin, Advance, Die, Lock, Validate, CopyQuota, CopySessions, Link, Unstage,
                    Check, Refuse, Delete, Report, Fail
<1>5. QED
  BY <1>2, <1>3, <1>4 DEF Next

\* What does not move the stages of the cycles and the lock.
LEMMA StagesStay ==
  ASSUME Types, Run \/ Tamper \/ Restore \/ Tick \/ UNCHANGED vars
  PROVE  /\ lock' = lock /\ kept' = kept
         /\ \A c \in Cycles :
              /\ cycle'[c].at = cycle[c].at
              /\ cycle'[c].now = cycle[c].now
              /\ cycle'[c].expired = cycle[c].expired
              /\ cycle'[c].content.files = cycle[c].content.files
              /\ cycle[c].content.disturbed => cycle'[c].content.disturbed
              /\ cycle[c].at \notin {"locked", "validated", "copying"} =>
                   cycle'[c] = cycle[c]
<1>1. CASE Start
  <2>1. cycle \in [Cycles -> Progress]
    BY DEF Types
  <2>2. ASSUME NEW c \in Cycles
        PROVE  cycle'[c] = IF cycle[c].at \in {"locked", "validated", "copying"}
                           THEN [cycle[c] EXCEPT !.content.disturbed = TRUE] ELSE cycle[c]
    BY <1>1 DEF Start
  <2>3. QED
    BY <1>1, <2>1, <2>2 DEF Start, Progress, Contents
<1>2. CASE Run /\ ~Start
  BY <1>2 DEF Run, BeginTurn, WriteTurn, SettleTurn, Drain, CrashProduct, directoryVars
<1>3. CASE Tamper \/ Restore \/ Tick \/ UNCHANGED vars
  BY <1>3 DEF Tamper, Restore, Tick, vars, directoryVars
<1>4. QED
  BY <1>1, <1>2, <1>3

\* A cycle holds the lock from Lock on, until it is idle.
LEMMA LockStep == Types /\ OneHolds /\ [Next]_vars => OneHolds'
<1> SUFFICES ASSUME Types, OneHolds, [Next]_vars
             PROVE  OneHolds'
  OBVIOUS
<1> USE DEF OneHolds, Holding, Copied
<1>1. CASE Run \/ Tamper \/ Restore \/ Tick \/ UNCHANGED vars
  BY <1>1, StagesStay
<1>2. ASSUME NEW c \in Cycles, Begin(c) \/ Refuse(c) \/ Report(c) \/ Fail(c) \/ Die(c)
      PROVE  OneHolds'
  <2>1. \A d \in Cycles \ {c} : cycle'[d] = cycle[d]
    BY <1>2 DEF Begin, Refuse, Report, Fail, Die, To, Types
  <2>2. cycle'[c].at \in {"idle", "waiting"}
    <3>1. Idle.at = "idle" /\ [Idle EXCEPT !.at = "waiting", !.now = now].at = "waiting"
      BY DEF Idle
    <3>2. QED
      BY <1>2, <3>1 DEF Begin, Refuse, Report, Fail, Die, To, Types
  <2>3. \A d \in Cycles \ {c} : cycle[d].at \in Holding => lock' = lock
    <3>1. CASE Begin(c)
      BY <3>1 DEF Begin
    <3>2. CASE Refuse(c) \/ Report(c) \/ Fail(c)
      <4>1. lock = c
        BY <3>2 DEF Refuse, Report, Fail
      <4>2. QED
        BY <4>1
    <3>3. CASE Die(c)
      BY <3>3 DEF Die
    <3>4. QED
      BY <1>2, <3>1, <3>2, <3>3
  <2>4. QED
    BY <2>1, <2>2, <2>3
<1>3. ASSUME NEW c \in Cycles, Lock(c)
      PROVE  OneHolds'
  BY <1>3, BackupAssumption DEF Lock, To, Types
<1>4. ASSUME NEW c \in Cycles,
             \/ Validate(c) \/ CopyQuota(c) \/ CopySessions(c) \/ Link(c) \/ Unstage(c)
             \/ Check(c) \/ Delete(c)
      PROVE  OneHolds'
  <2>1. \A d \in Cycles \ {c} : cycle'[d] = cycle[d]
    BY <1>4 DEF Validate, CopyQuota, CopySessions, Link, Unstage, Check, Delete, To, Types
  <2>2. lock' = lock /\ cycle[c].at \in Holding
    BY <1>4 DEF Validate, CopyQuota, CopySessions, Link, Unstage, Check, Delete
  <2>3. QED
    BY <2>1, <2>2
<1>5. QED
  BY <1>1, <1>2, <1>3, <1>4 DEF Next, Advance

\* From the copy on a cycle keeps its content and its time.
LEMMA NamedStep ==
  ASSUME Types, NEW c \in Cycles, Link(c) \/ Unstage(c) \/ Check(c) \/ Delete(c)
  PROVE  /\ cycle[c].at \in Copied /\ cycle'[c].at \in Named
         /\ cycle'[c].content = cycle[c].content /\ cycle'[c].now = cycle[c].now
<1> USE DEF Copied, Named
<1>1. cycle \in [Cycles -> Progress] /\ cycle[c] \in Progress
  BY DEF Types
<1>2. CASE Link(c)
  <2>1. PICK s \in {"linked", "pruning"} : To(c, [cycle[c] EXCEPT !.at = s])
    BY <1>2 DEF Link
  <2>2. QED
    BY <1>1, <1>2, <2>1 DEF Link, To, Progress
<1>3. CASE Unstage(c) \/ Check(c)
  BY <1>1, <1>3 DEF Unstage, Check, To, Progress
<1>4. CASE Delete(c)
  <2>1. PICK a : To(c, [cycle[c] EXCEPT !.expired = @ \ {a}])
    BY <1>4 DEF Delete
  <2>2. QED
    BY <1>1, <1>4, <2>1 DEF Delete, To, Progress
<1>5. QED
  BY <1>2, <1>3, <1>4

\* Only the product changes what a cycle may have read, and it says so.
LEMMA ReadsOneStateStep ==
  Types /\ ProductInOrder /\ ReadsOneState /\ [Next]_vars => ReadsOneState'
<1> SUFFICES ASSUME Types, ProductInOrder, ReadsOneState, [Next]_vars
             PROVE  ReadsOneState'
  OBVIOUS
<1> USE DEF ReadsOneState, Copied, Consistent
<1>1. CASE UNCHANGED <<marker, state, cycle>>
  BY <1>1
<1>2. CASE Run
  <2>1. \A c \in Cycles :
          /\ cycle'[c].at = cycle[c].at
          /\ cycle'[c].content.files = cycle[c].content.files
          /\ cycle[c].content.disturbed => cycle'[c].content.disturbed
          /\ cycle[c].at \notin {"locked", "validated", "copying"} => cycle'[c] = cycle[c]
    BY <1>2, StagesStay
  <2>2. CASE Start
    <3>1. \A c \in Cycles :
            cycle[c].at \in {"locked", "validated", "copying"} => cycle'[c].content.disturbed
      BY <2>2 DEF Start, Types, Progress, Contents
    <3>2. QED
      BY <2>1, <3>1
  <2>3. CASE (BeginTurn \/ WriteTurn \/ SettleTurn \/ Drain \/ CrashProduct) /\ product # "stopped"
    <3>1. ~marker
      BY <2>3 DEF ProductInOrder
    <3>2. \A c \in Cycles : cycle[c].at \in {"validated", "copying"} => cycle[c].content.disturbed
      BY <3>1
    <3>3. QED
      BY <2>1, <3>2
  <2>4. QED
    BY <1>2, <2>2, <2>3 DEF Run, BeginTurn, WriteTurn, SettleTurn, Drain, CrashProduct
<1>3. CASE Tamper \/ Restore \/ Tick \/ UNCHANGED vars
  BY <1>1, <1>3 DEF Tamper, Restore, Tick, vars, productVars, directoryVars
<1>4. ASSUME NEW c \in Cycles, Begin(c) \/ Advance(c) \/ Die(c)
      PROVE  ReadsOneState'
  <2>1. /\ UNCHANGED <<marker, state>>
        /\ \A d \in Cycles \ {c} : cycle'[d] = cycle[d]
    BY <1>4 DEF Begin, Advance, Die, Lock, Validate, CopyQuota, CopySessions, Link, Unstage,
                Check, Refuse, Delete, Report, Fail, To, productVars, Types
  <2>2. cycle[c] \in Progress /\ state \in Files
    BY DEF Types
  <2>3. CASE Begin(c) \/ Refuse(c) \/ Report(c) \/ Fail(c) \/ Die(c) \/ Lock(c)
    <3>1. Idle.at = "idle" /\ [Idle EXCEPT !.at = "waiting", !.now = now].at = "waiting"
      BY DEF Idle
    <3>2. cycle'[c].at \in {"idle", "waiting", "locked"}
      BY <2>2, <2>3, <3>1 DEF Begin, Refuse, Report, Fail, Die, Lock, To, Types, Progress
    <3>3. QED
      BY <2>1, <3>2
  <2>4. CASE Validate(c)
    <3>1. cycle'[c].at = "validated" /\ marker /\ ~state.lease
      BY <2>2, <2>4 DEF Validate, Valid, To, Types, Progress
    <3>2. QED
      BY <2>1, <3>1
  <2>5. CASE CopyQuota(c)
    <3>1. /\ cycle[c].at = "validated" /\ cycle'[c].at = "copying"
          /\ cycle'[c].content.disturbed = cycle[c].content.disturbed
          /\ cycle'[c].content.files.quota = state.quota
          /\ cycle'[c].content.files.lease = state.lease
      BY <2>2, <2>5 DEF CopyQuota, To, Types, Progress, Contents, Files
    <3>2. QED
      BY <2>1, <3>1
  <2>6. CASE CopySessions(c)
    <3>1. /\ cycle[c].at = "copying" /\ cycle'[c].at = "staged"
          /\ cycle'[c].content.disturbed = cycle[c].content.disturbed
          /\ cycle'[c].content.files.quota = cycle[c].content.files.quota
          /\ cycle'[c].content.files.lease = cycle[c].content.files.lease
          /\ cycle'[c].content.files.sessions = state.sessions
      BY <2>2, <2>6 DEF CopySessions, To, Types, Progress, Contents, Files
    <3>2. QED
      BY <2>1, <3>1 DEF ProductInOrder
  <2>7. CASE Link(c) \/ Unstage(c) \/ Check(c) \/ Delete(c)
    <3>1. /\ cycle[c].at \in Copied /\ cycle'[c].at \in Copied
          /\ cycle'[c].content = cycle[c].content
      BY <2>7, NamedStep DEF Named
    <3>2. QED
      BY <2>1, <3>1
  <2>8. QED
    BY <1>4, <2>3, <2>4, <2>5, <2>6, <2>7 DEF Advance
<1>5. QED
  BY <1>2, <1>3, <1>4 DEF Next

\* An archive is made of the content of its cycle.
LEMMA CopiesStep ==
  Types /\ ReadsOneState /\ CopiesConsistent /\ [Next]_vars => CopiesConsistent'
<1> SUFFICES ASSUME Types, ReadsOneState, CopiesConsistent, [Next]_vars
             PROVE  CopiesConsistent'
  OBVIOUS
<1>1. CASE UNCHANGED <<archives, target>>
  BY <1>1 DEF CopiesConsistent, Consistent
<1>2. CASE Run \/ Tick \/ UNCHANGED vars
  BY <1>1, <1>2 DEF Run, Start, BeginTurn, WriteTurn, SettleTurn, Drain, CrashProduct, Tick, vars,
                    directoryVars
<1>3. CASE Tamper
  BY <1>3 DEF Tamper, CopiesConsistent, Consistent, productVars, Types, Archives
<1>4. CASE Restore
  BY <1>4 DEF Restore, Valid, CopiesConsistent, Consistent, directoryVars
<1>5. ASSUME NEW c \in Cycles,
             \/ Begin(c) \/ Die(c) \/ Lock(c) \/ Validate(c) \/ CopyQuota(c) \/ CopySessions(c)
             \/ Check(c) \/ Refuse(c) \/ Report(c) \/ Fail(c)
      PROVE  CopiesConsistent'
  BY <1>1, <1>5 DEF Begin, Die, Lock, Validate, CopyQuota, CopySessions, Check, Refuse, Report, Fail
<1>6. ASSUME NEW c \in Cycles, Link(c)
      PROVE  CopiesConsistent'
  <2>1. Consistent(Archive(c).content)
    BY <1>6 DEF Link, ReadsOneState, Copied, Archive
  <2>2. archives' \subseteq archives \cup {Archive(c)} /\ target' = target
    BY <1>6 DEF Link
  <2>3. QED
    BY <2>1, <2>2 DEF CopiesConsistent, Consistent
<1>7. ASSUME NEW c \in Cycles, Unstage(c)
      PROVE  CopiesConsistent'
  BY <1>7 DEF Unstage, CopiesConsistent, Consistent, Types, Archives
<1>8. ASSUME NEW c \in Cycles, Delete(c)
      PROVE  CopiesConsistent'
  BY <1>8 DEF Delete, CopiesConsistent, Consistent
<1>9. QED
  BY <1>2, <1>3, <1>4, <1>5, <1>6, <1>7, <1>8 DEF Next, Advance

\* Sessions only grow, and only the holder of the lock reports.
LEMMA NewnessStep ==
  Types /\ ProductInOrder /\ OneHolds /\ CopiesAreNew /\ [Next]_vars => CopiesAreNew'
<1> SUFFICES ASSUME Types, ProductInOrder, OneHolds, CopiesAreNew, [Next]_vars
             PROVE  CopiesAreNew'
  OBVIOUS
<1> USE DEF CopiesAreNew, Copied
<1>1. /\ kept \in Int /\ state.sessions \in Int
      /\ \A c \in Cycles : cycle[c] \in Progress /\ cycle[c].content.files.sessions \in Int
  BY BackupAssumption DEF Types, Files, Progress, Contents
<1>2. CASE Run \/ Tamper \/ Restore \/ Tick \/ UNCHANGED vars
  <2>1. state'.sessions \in Int /\ state.sessions <= state'.sessions
    <3>1. CASE Run
      <4>1. state \in Files
        BY DEF Types
      <4>2. CASE Start \/ SettleTurn
        <5>1. state'.sessions = state.sessions
          BY <4>1, <4>2 DEF Start, SettleTurn, Files
        <5>2. QED
          BY <1>1, <5>1
      <4>3. CASE BeginTurn \/ Drain \/ CrashProduct
        BY <1>1, <4>1, <4>3 DEF BeginTurn, Drain, CrashProduct, Files
      <4>4. CASE WriteTurn
        BY <1>1, <4>1, <4>4 DEF WriteTurn, Files
      <4>5. QED
        BY <3>1, <4>2, <4>3, <4>4 DEF Run
    <3>2. CASE Tamper \/ Restore \/ Tick \/ UNCHANGED vars
      BY <1>1, <3>2 DEF Tamper, Restore, Tick, vars, productVars
    <3>3. QED
      BY <1>2, <3>1, <3>2
  <2>2. QED
    BY <1>1, <1>2, <2>1, StagesStay
<1>3. ASSUME NEW c \in Cycles, Begin(c) \/ Advance(c) \/ Die(c)
      PROVE  CopiesAreNew'
  <2>1. /\ UNCHANGED state
        /\ \A d \in Cycles \ {c} : cycle'[d] = cycle[d]
    BY <1>3 DEF Begin, Advance, Die, Lock, Validate, CopyQuota, CopySessions, Link, Unstage,
                Check, Refuse, Delete, Report, Fail, To, productVars, Types
  <2>2. CASE Begin(c) \/ Refuse(c) \/ Fail(c) \/ Die(c) \/ Lock(c) \/ Validate(c) \/ CopyQuota(c)
    <3>1. Idle.at = "idle" /\ [Idle EXCEPT !.at = "waiting", !.now = now].at = "waiting"
      BY DEF Idle
    <3>2. CASE Begin(c) \/ Refuse(c) \/ Fail(c) \/ Die(c)
      <4>1. cycle'[c].at \notin Copied /\ kept' = kept
        BY <3>1, <3>2 DEF Begin, Refuse, Fail, Die, To, Types
      <4>2. QED
        BY <2>1, <4>1
    <3>3. CASE Lock(c) \/ Validate(c) \/ CopyQuota(c)
      <4>1. cycle'[c].at \notin Copied /\ kept' = kept
        <5>1. CASE Lock(c) \/ Validate(c)
          BY <1>1, <5>1 DEF Lock, Validate, To, Types, Progress
        <5>2. CASE CopyQuota(c)
          BY <1>1, <5>2 DEF CopyQuota, To, Types, Progress
        <5>3. QED
          BY <3>3, <5>1, <5>2
      <4>2. QED
        BY <2>1, <4>1
    <3>4. QED
      BY <2>2, <3>2, <3>3
  <2>3. CASE CopySessions(c)
    <3>1. cycle'[c].content.files.sessions = state.sessions /\ kept' = kept
      BY <1>1, <2>3 DEF CopySessions, To, Types, Progress, Contents, Files
    <3>2. QED
      BY <1>1, <2>1, <3>1
  <2>4. CASE Link(c) \/ Unstage(c) \/ Check(c) \/ Delete(c)
    <3>1. kept' = kept
      BY <2>4 DEF Link, Unstage, Check, Delete
    <3>2. QED
      BY <2>1, <2>4, <3>1, NamedStep
  <2>5. CASE Report(c)
    <3>1. cycle[c].at = "deleting" /\ cycle'[c] = Idle /\ kept' = cycle[c].content.files.sessions
      BY <2>5 DEF Report, To, Types
    <3>2. \A d \in Cycles \ {c} : cycle[d].at \notin Copied
      BY <3>1 DEF OneHolds, Holding
    <3>3. QED
      BY <1>1, <2>1, <3>1, <3>2 DEF Idle
  <2>6. QED
    BY <1>3, <2>2, <2>3, <2>4, <2>5 DEF Advance
<1>4. QED
  BY <1>2, <1>3 DEF Next

\* A cycle that has its archive meets only steps that keep it.
LEMMA OwnArchiveStep ==
  Types /\ OneHolds /\ OwnArchiveStays /\ [Next]_vars => OwnArchiveStays'
<1> SUFFICES ASSUME Types, OneHolds, OwnArchiveStays, [Next]_vars
             PROVE  OwnArchiveStays'
  OBVIOUS
<1> USE DEF OwnArchiveStays, Named
<1> DEFINE Own(d) == \E a \in archives : SameName(a, Archive(d)) /\ (tampers = 0 => a.intact)
<1>1. ASSUME UNCHANGED <<tampers, archives>>, NEW d \in Cycles, Own(d),
             cycle'[d].now = cycle[d].now, cycle'[d].content = cycle[d].content
      PROVE  Own(d)'
  BY <1>1 DEF Archive, SameName
<1>2. CASE Run \/ Restore \/ Tick \/ UNCHANGED vars
  <2>1. UNCHANGED <<tampers, archives>>
    BY <1>2 DEF Run, Start, BeginTurn, WriteTurn, SettleTurn, Drain, CrashProduct, Restore, Tick,
                vars, directoryVars
  <2>2. \A d \in Cycles : cycle[d].at \in Named => cycle'[d] = cycle[d]
    BY <1>2, StagesStay
  <2>3. \A d \in Cycles : cycle'[d].at = cycle[d].at
    BY <1>2, StagesStay
  <2>4. QED
    BY <1>1, <2>1, <2>2, <2>3 DEF Expired
<1>3. CASE Tamper
  <2>1. PICK b \in archives : archives' = (archives \ {b}) \cup {[b EXCEPT !.intact = FALSE]}
    BY <1>3 DEF Tamper
  <2>2. cycle' = cycle /\ tampers' # 0
    BY <1>3, BackupAssumption DEF Tamper, Types
  <2>3. b \in Archives
    BY DEF Types
  <2>4. \A d \in Cycles : Own(d) => Own(d)'
    BY <2>1, <2>2, <2>3 DEF Archives, SameName, Archive
  <2>5. QED
    BY <2>2, <2>4 DEF Expired
<1>4. ASSUME NEW c \in Cycles,
             Begin(c) \/ Lock(c) \/ Validate(c) \/ CopyQuota(c) \/ CopySessions(c)
               \/ Refuse(c) \/ Report(c) \/ Fail(c) \/ Die(c)
      PROVE  OwnArchiveStays'
  <2>1. UNCHANGED <<tampers, archives>> /\ \A d \in Cycles \ {c} : cycle'[d] = cycle[d]
    BY <1>4 DEF Begin, Lock, Validate, CopyQuota, CopySessions, Refuse, Report, Fail, Die, To, Types
  <2>2. Idle.at = "idle" /\ [Idle EXCEPT !.at = "waiting", !.now = now].at = "waiting"
    BY DEF Idle
  <2>3. cycle'[c].at \notin Named
    BY <1>4, <2>2 DEF Begin, Lock, Validate, CopyQuota, CopySessions, Refuse, Report, Fail, Die, To,
                      Types, Progress
  <2>4. \A d \in Cycles : Own(d) /\ d # c => Own(d)'
    BY <1>1, <2>1
  <2>5. QED
    BY <2>1, <2>3, <2>4 DEF Expired
<1>5. ASSUME NEW c \in Cycles, Link(c)
      PROVE  OwnArchiveStays'
  <2>1. tampers' = tampers /\ \A d \in Cycles \ {c} : cycle'[d] = cycle[d] /\ cycle[d].at \notin Named
    BY <1>5 DEF Link, To, Types, OneHolds, Holding, Copied
  <2>2. /\ cycle'[c].now = cycle[c].now /\ cycle'[c].content = cycle[c].content
        /\ cycle'[c].at # "deleting"
    BY <1>5, NamedStep DEF Link, To, Types, Progress
  <2>3. \E a \in archives' : SameName(a, Archive(c)) /\ a.intact
    BY <1>5 DEF Link, SameName, Archive
  <2>4. Archive(c)' = Archive(c)
    BY <2>2 DEF Archive
  <2>5. QED
    BY <2>1, <2>2, <2>3, <2>4 DEF SameName
<1>6. ASSUME NEW c \in Cycles, Unstage(c)
      PROVE  OwnArchiveStays'
  <2>1. tampers' = tampers /\ \A d \in Cycles \ {c} : cycle'[d] = cycle[d] /\ cycle[d].at \notin Named
    BY <1>6 DEF Unstage, To, Types, OneHolds, Holding, Copied
  <2>2. /\ cycle'[c].now = cycle[c].now /\ cycle'[c].content = cycle[c].content
        /\ cycle'[c].at = "pruning" /\ cycle[c].at = "linked"
    BY <1>6 DEF Unstage, To, Types, Progress
  <2>3. PICK a \in archives : SameName(a, Archive(c)) /\ (tampers = 0 => a.intact)
    BY <2>2
  <2>4. [a EXCEPT !.linked = FALSE] \in archives'
    BY <1>6, <2>3 DEF Unstage
  <2>5. a \in Archives
    BY DEF Types
  <2>6. SameName([a EXCEPT !.linked = FALSE], Archive(c)') /\ [a EXCEPT !.linked = FALSE].intact = a.intact
    BY <2>2, <2>3, <2>5 DEF SameName, Archive, Archives
  <2>7. QED
    BY <2>1, <2>2, <2>3, <2>4, <2>6
<1>7. ASSUME NEW c \in Cycles, Check(c)
      PROVE  OwnArchiveStays'
  <2>1. UNCHANGED <<tampers, archives>> /\ \A d \in Cycles \ {c} : cycle'[d] = cycle[d]
    BY <1>7 DEF Check, To, Types
  <2>2. /\ cycle'[c].now = cycle[c].now /\ cycle'[c].content = cycle[c].content
        /\ cycle[c].at = "pruning" /\ cycle'[c].expired = {a \in archives : Expired(c, a)}
    BY <1>7 DEF Check, To, Types, Progress
  <2>3. \A d \in Cycles : Own(d) => Own(d)'
    BY <1>1, <2>1, <2>2
  <2>4. QED
    BY <2>1, <2>2, <2>3 DEF Expired
<1>8. ASSUME NEW c \in Cycles, Delete(c)
      PROVE  OwnArchiveStays'
  <2>1. tampers' = tampers /\ \A d \in Cycles \ {c} : cycle'[d] = cycle[d] /\ cycle[d].at \notin Named
    BY <1>8 DEF Delete, To, Types, OneHolds, Holding, Copied
  <2>2. PICK x \in cycle[c].expired :
          /\ archives' = {b \in archives : ~SameName(x, b)}
          /\ To(c, [cycle[c] EXCEPT !.expired = @ \ {x}])
    BY <1>8 DEF Delete
  <2>3. /\ cycle'[c].now = cycle[c].now /\ cycle'[c].content = cycle[c].content
        /\ cycle[c].at = "deleting" /\ cycle'[c].expired \subseteq cycle[c].expired
    BY <1>8, <2>2 DEF Delete, To, Types, Progress
  <2>4. PICK a \in archives : SameName(a, Archive(c)) /\ (tampers = 0 => a.intact)
    BY <2>3
  <2>5. Expired(c, x) /\ x \in Archives /\ cycle[c].now \in Int
    BY <2>3, BackupAssumption DEF Types, Progress
  <2>6. x.created # cycle[c].now
    BY <2>5, BackupAssumption DEF Expired
  <2>7. a \in archives'
    BY <2>2, <2>4, <2>6 DEF SameName, Archive
  <2>8. Own(c)'
    BY <2>1, <2>3, <2>4, <2>7 DEF SameName, Archive
  <2>9. QED
    BY <2>1, <2>3, <2>8 DEF Expired
<1>9. QED
  BY <1>2, <1>3, <1>4, <1>5, <1>6, <1>7, <1>8 DEF Next, Advance

\* A deletion spares the archive of its cycle, which is new enough.
LEMMA NewestStep ==
  Types /\ OneHolds /\ CopiesAreNew /\ OwnArchiveStays /\ NewestKept /\ [Next]_vars => NewestKept'
<1> SUFFICES ASSUME Types, OneHolds, CopiesAreNew, OwnArchiveStays, NewestKept, [Next]_vars,
                    kept' > 0, tampers' = 0
             PROVE  \E a \in archives' : a.intact /\ a.content.files.sessions >= kept'
  BY DEF NewestKept
<1>1. /\ kept \in Int
      /\ \A a \in archives : a \in Archives /\ a.content.files.sessions \in Int
      /\ \A c \in Cycles : cycle[c] \in Progress /\ cycle[c].content.files.sessions \in Int
  BY DEF Types, Archives, Progress, Contents, Files
<1>2. CASE UNCHANGED <<archives, kept, tampers>>
  BY <1>2 DEF NewestKept
<1>3. CASE Run \/ Restore \/ Tick \/ UNCHANGED vars
  BY <1>2, <1>3 DEF Run, Start, BeginTurn, WriteTurn, SettleTurn, Drain, CrashProduct, Restore, Tick,
                    vars, directoryVars
<1>4. CASE Tamper
  BY <1>4, BackupAssumption DEF Tamper, Types
<1>5. ASSUME NEW c \in Cycles,
             Begin(c) \/ Lock(c) \/ Validate(c) \/ CopyQuota(c) \/ CopySessions(c) \/ Check(c)
               \/ Refuse(c) \/ Fail(c) \/ Die(c)
      PROVE  \E a \in archives' : a.intact /\ a.content.files.sessions >= kept'
  BY <1>2, <1>5 DEF Begin, Lock, Validate, CopyQuota, CopySessions, Check, Refuse, Fail, Die
<1>6. ASSUME NEW c \in Cycles, Link(c)
      PROVE  \E a \in archives' : a.intact /\ a.content.files.sessions >= kept'
  <2>1. archives \subseteq archives' /\ kept' = kept /\ tampers' = tampers
    BY <1>6 DEF Link
  <2>2. QED
    BY <2>1 DEF NewestKept
<1>7. ASSUME NEW c \in Cycles, Unstage(c)
      PROVE  \E a \in archives' : a.intact /\ a.content.files.sessions >= kept'
  <2>1. kept' = kept /\ tampers' = tampers
    BY <1>7 DEF Unstage
  <2>2. PICK a \in archives : a.intact /\ a.content.files.sessions >= kept
    BY <2>1 DEF NewestKept
  <2>3. [a EXCEPT !.linked = FALSE].intact /\ [a EXCEPT !.linked = FALSE].content = a.content
    BY <1>1, <2>2 DEF Archives
  <2>4. a \in archives' \/ [a EXCEPT !.linked = FALSE] \in archives'
    BY <1>7 DEF Unstage
  <2>5. QED
    BY <2>1, <2>2, <2>3, <2>4
<1>8. ASSUME NEW c \in Cycles, Delete(c)
      PROVE  \E a \in archives' : a.intact /\ a.content.files.sessions >= kept'
  <2>1. kept' = kept /\ tampers = 0 /\ cycle[c].at = "deleting"
    BY <1>8 DEF Delete
  <2>2. PICK x \in cycle[c].expired : archives' = {b \in archives : ~SameName(x, b)}
    BY <1>8 DEF Delete
  <2>3. PICK a \in archives : SameName(a, Archive(c)) /\ a.intact
    BY <2>1 DEF OwnArchiveStays, Named
  <2>4. x.created # cycle[c].now
    BY <1>1, <2>1, BackupAssumption DEF OwnArchiveStays, Expired, Progress
  <2>5. a \in archives' /\ a.content = cycle[c].content
    BY <2>2, <2>3, <2>4 DEF SameName, Archive
  <2>6. kept <= cycle[c].content.files.sessions
    BY <2>1 DEF CopiesAreNew, Copied
  <2>7. QED
    BY <1>1, <2>1, <2>3, <2>5, <2>6
<1>9. ASSUME NEW c \in Cycles, Report(c)
      PROVE  \E a \in archives' : a.intact /\ a.content.files.sessions >= kept'
  <2>1. /\ kept' = cycle[c].content.files.sessions /\ tampers = 0
        /\ cycle[c].at = "deleting" /\ archives' = archives
    BY <1>9 DEF Report
  <2>2. PICK a \in archives : SameName(a, Archive(c)) /\ a.intact
    BY <2>1 DEF OwnArchiveStays, Named
  <2>3. QED
    BY <1>1, <2>1, <2>2 DEF SameName, Archive
<1>10. QED
  BY <1>3, <1>4, <1>5, <1>6, <1>7, <1>8, <1>9 DEF Next, Advance

\* A second link is there while its cycle is between its links, or has died there.
LEMMA SuspectsStep ==
  Types /\ OneHolds /\ SuspectsExplained /\ [Next]_vars => SuspectsExplained'
<1> SUFFICES ASSUME Types, OneHolds, SuspectsExplained, [Next]_vars
             PROVE  SuspectsExplained'
  OBVIOUS
<1> USE DEF SuspectsExplained
<1> DEFINE Between(a, d) == cycle[d].at = "linked" /\ SameName(a, Archive(d))
<1>1. ASSUME archives' \subseteq archives, UNCHANGED <<tampers, died>>,
             \A d \in Cycles : cycle[d].at = "linked" => cycle'[d] = cycle[d]
      PROVE  SuspectsExplained'
  <2>1. \A a \in archives, d \in Cycles : Between(a, d) => Between(a, d)'
    BY <1>1 DEF SameName, Archive
  <2>2. QED
    BY <1>1, <2>1
<1>2. CASE Run \/ Restore \/ Tick \/ UNCHANGED vars
  <2>1. UNCHANGED <<tampers, archives, died>>
    BY <1>2 DEF Run, Start, BeginTurn, WriteTurn, SettleTurn, Drain, CrashProduct, Restore, Tick,
                vars, directoryVars
  <2>2. \A d \in Cycles : cycle[d].at = "linked" => cycle'[d] = cycle[d]
    BY <1>2, StagesStay
  <2>3. QED
    BY <1>1, <2>1, <2>2
<1>3. CASE Tamper
  <2>1. PICK b \in archives : archives' = (archives \ {b}) \cup {[b EXCEPT !.intact = FALSE]}
    BY <1>3 DEF Tamper
  <2>2. UNCHANGED <<cycle, died>> /\ tampers' > 0
    BY <1>3, BackupAssumption DEF Tamper, Types
  <2>3. b \in Archives
    BY DEF Types
  <2>4. \A a \in archives' : \E o \in archives : SameName(a, o) /\ a.linked = o.linked
    BY <2>1, <2>3 DEF Archives, SameName
  <2>5. QED
    BY <2>2, <2>4 DEF SameName, Archive
<1>4. ASSUME NEW c \in Cycles,
             \/ Begin(c) \/ Lock(c) \/ Validate(c) \/ CopyQuota(c) \/ CopySessions(c)
             \/ Check(c) \/ Refuse(c) \/ Delete(c) \/ Report(c) \/ Fail(c)
      PROVE  SuspectsExplained'
  <2>1. archives' \subseteq archives /\ UNCHANGED <<tampers, died>>
    BY <1>4 DEF Begin, Lock, Validate, CopyQuota, CopySessions, Check, Refuse, Delete, Report, Fail
  <2>2. cycle[c].at # "linked" /\ \A d \in Cycles \ {c} : cycle'[d] = cycle[d]
    BY <1>4 DEF Begin, Lock, Validate, CopyQuota, CopySessions, Check, Refuse, Delete, Report, Fail,
                To, Types
  <2>3. QED
    BY <1>1, <2>1, <2>2
<1>5. ASSUME NEW c \in Cycles, Die(c)
      PROVE  SuspectsExplained'
  <2>1. UNCHANGED <<archives, tampers>> /\ \A d \in Cycles \ {c} : cycle'[d] = cycle[d]
    BY <1>5 DEF Die, To, Types
  <2>2. CASE cycle[c].at = "linked"
    BY <1>5, <2>1, <2>2 DEF Die
  <2>3. CASE cycle[c].at # "linked"
    <3>1. died' = died
      BY <1>5, <2>3 DEF Die, Types
    <3>2. QED
      BY <1>1, <2>1, <2>3, <3>1
  <2>4. QED
    BY <2>2, <2>3
<1>6. ASSUME NEW c \in Cycles, Link(c)
      PROVE  SuspectsExplained'
  <2>1. /\ UNCHANGED <<tampers, died>> /\ cycle[c].at = "staged"
        /\ \A d \in Cycles \ {c} : cycle'[d] = cycle[d]
    BY <1>6 DEF Link, To, Types
  <2>2. CASE archives' = archives
    BY <1>1, <2>1, <2>2
  <2>3. CASE archives' # archives
    <3>1. archives' = archives \cup {Archive(c)} /\ To(c, [cycle[c] EXCEPT !.at = "linked"])
      BY <1>6, <2>3 DEF Link
    <3>2. /\ cycle'[c].at = "linked" /\ cycle'[c].now = cycle[c].now
          /\ cycle'[c].content = cycle[c].content
      BY <3>1 DEF To, Types, Progress
    <3>3. Between(Archive(c), c)'
      BY <3>2 DEF SameName, Archive
    <3>4. Archive(c)' = Archive(c) /\ Archive(c).intact
      BY <3>2 DEF Archive
    <3>5. \A a \in archives, d \in Cycles : Between(a, d) => Between(a, d)'
      BY <2>1 DEF SameName, Archive
    <3>6. QED
      BY <2>1, <3>1, <3>3, <3>4, <3>5
  <2>4. QED
    BY <2>2, <2>3
<1>7. ASSUME NEW c \in Cycles, Unstage(c)
      PROVE  SuspectsExplained'
  <2>1. UNCHANGED <<tampers, died>> /\ \A d \in Cycles \ {c} : cycle'[d] = cycle[d]
    BY <1>7 DEF Unstage, To, Types
  <2>2. \A a \in archives' :
          \/ a \in archives /\ ~SameName(a, Archive(c))
          \/ \E o \in archives : a = [o EXCEPT !.linked = FALSE]
    BY <1>7 DEF Unstage
  <2>3. \A o \in archives : ~[o EXCEPT !.linked = FALSE].linked
                            /\ [o EXCEPT !.linked = FALSE].intact = o.intact
    BY DEF Types, Archives
  <2>4. \A a, d : d \in Cycles \ {c} /\ Between(a, d) => Between(a, d)'
    BY <2>1 DEF SameName, Archive
  <2>5. QED
    BY <2>1, <2>2, <2>3, <2>4
<1>8. QED
  BY <1>2, <1>3, <1>4, <1>5, <1>6, <1>7 DEF Next, Advance

-----------------------------------------------------------------------------
\* The inductive invariant.
Invariant ==
  /\ Types /\ ProductInOrder /\ OneHolds /\ ReadsOneState /\ CopiesAreNew
  /\ OwnArchiveStays /\ SuspectsExplained /\ CopiesConsistent /\ NewestKept

LEMMA InvariantHolds == Spec => []Invariant
<1>1. Init => Invariant
  BY InitInvariants DEF Invariant
<1>2. Invariant /\ [Next]_vars => Invariant'
  BY TypeStep, ProductStep, LockStep, ReadsOneStateStep, NewnessStep, OwnArchiveStep,
     SuspectsStep, CopiesStep, NewestStep DEF Invariant
<1>3. QED
  BY <1>1, <1>2, PTL DEF Spec

\* THEOREM: the directory, the cycles and the product keep their types (state_tool.py:231-526).
THEOREM BackupTypes == Spec => []TypeOK
<1>1. Invariant => TypeOK
  BY TypesAreAll DEF Invariant
<1>2. QED
  BY <1>1, InvariantHolds, PTL

\* THEOREM: an archive, and what is restored from it, is one state of the product between
\* two turns, unless the product was started while it was read: the marker and the leases
\* that _validate_state asks for are enough (state_tool.py:118-228).
THEOREM CopiesAreConsistent == Spec => []CopiesConsistent
<1>1. Invariant => CopiesConsistent
  BY DEF Invariant
<1>2. QED
  BY <1>1, InvariantHolds, PTL

\* THEOREM: the state of the last cycle that reported success stays restorable, through any
\* number of cycles that fail, die or wait with an old clock (state_tool.py:376-440).
THEOREM NewestIsKept == Spec => []NewestKept
<1>1. Invariant => NewestKept
  BY DEF Invariant
<1>2. QED
  BY <1>1, InvariantHolds, PTL

\* THEOREM: the check before pruning never trips over a cycle at work, because the lock
\* keeps it between its links alone (state_tool.py:309-322, 376-394).
THEOREM RefusalsHaveCause == Spec => []RefusedForCause
<1>1. Invariant => RefusedForCause
  BY DEF Invariant, RefusedForCause, Suspect, SuspectsExplained, OneHolds, Holding, Copied
<1>2. QED
  BY <1>1, InvariantHolds, PTL
================================================================================
