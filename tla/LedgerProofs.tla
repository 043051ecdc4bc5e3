----------------------------- MODULE LedgerProofs -----------------------------
(***************************************************************************)
(* Theorems of QuotaStore and of SessionLifecycle, the ledger and the      *)
(* operations on it, for every number of tenants, sessions, threads, slots,*)
(* tokens and days.  The first part is about the ledger alone and uses     *)
(* nothing of the operations; the second is about both; the third is about *)
(* the store's request windows, for every limit and number of requests.    *)
(***************************************************************************)
EXTENDS SessionLifecycle, RequestWindows, FiniteSetTheorems, TLAPS

-----------------------------------------------------------------------------
(* Arithmetic and counting. *)

\* A day number is a natural number.
LEMMA DayType ==
  ASSUME NEW c \in Nat
  PROVE  DayOf(c) \in Nat
BY LimitAssumption DEF DayOf

\* Multiplication by a natural number is monotone.
LEMMA MultMonotone ==
  ASSUME NEW x \in Nat, NEW y \in Nat, NEW w \in Nat, x <= y
  PROVE  x * w <= y * w
OBVIOUS

\* The number of leases of a tenant in a finite table is a natural number.
LEMMA HeldType ==
  ASSUME NEW rows, IsFiniteSet(rows), NEW n
  PROVE  /\ Held(rows, n) \in Nat
         /\ IsFiniteSet(OfTenant(rows, n))
<1>1. OfTenant(rows, n) \in SUBSET rows
  BY DEF OfTenant
<1>2. QED
  BY <1>1, FS_Subset, FS_CardinalityType DEF Held

\* Deleting rows never raises the number of leases of a tenant.
LEMMA HeldSubset ==
  ASSUME NEW rows, IsFiniteSet(rows), NEW fewer \in SUBSET rows, NEW n
  PROVE  /\ IsFiniteSet(fewer)
         /\ Held(fewer, n) <= Held(rows, n)
<1>1. OfTenant(fewer, n) \in SUBSET OfTenant(rows, n)
  BY DEF OfTenant
<1>2. QED
  BY <1>1, FS_Subset, HeldType DEF Held

\* Inserting one row raises it by at most one.
LEMMA HeldInsert ==
  ASSUME NEW rows, IsFiniteSet(rows), NEW l, NEW n
  PROVE  /\ IsFiniteSet(rows \cup {l})
         /\ Held(rows \cup {l}, n) <= Held(rows, n) + 1
         /\ l.tenant # n => Held(rows \cup {l}, n) = Held(rows, n)
<1>1. IsFiniteSet(rows \cup {l})
  BY FS_AddElement
<1>2. CASE l.tenant = n
  <2>1. OfTenant(rows \cup {l}, n) = OfTenant(rows, n) \cup {l}
    BY <1>2 DEF OfTenant
  <2>2. /\ IsFiniteSet(OfTenant(rows, n))
        /\ Held(rows, n) \in Nat
    BY HeldType
  <2>3. Cardinality(OfTenant(rows, n) \cup {l})
          = IF l \in OfTenant(rows, n) THEN Held(rows, n) ELSE Held(rows, n) + 1
    BY <2>2, FS_AddElement DEF Held
  <2>4. Held(rows \cup {l}, n) = Cardinality(OfTenant(rows, n) \cup {l})
    BY <2>1 DEF Held
  <2>5. QED
    BY <1>1, <1>2, <2>2, <2>3, <2>4
<1>3. CASE l.tenant # n
  <2>1. OfTenant(rows \cup {l}, n) = OfTenant(rows, n)
    BY <1>3 DEF OfTenant
  <2>2. Held(rows, n) \in Nat
    BY HeldType
  <2>3. QED
    BY <1>1, <1>3, <2>1, <2>2 DEF Held
<1>4. QED
  BY <1>2, <1>3

\* Deleting at least one row of the tenant lowers it by at least one.
LEMMA HeldDelete ==
  ASSUME NEW rows, IsFiniteSet(rows), NEW l \in rows,
         NEW fewer \in SUBSET rows, l \notin fewer
  PROVE  Held(fewer, l.tenant) + 1 <= Held(rows, l.tenant)
<1> DEFINE mine == OfTenant(rows, l.tenant)
<1>1. /\ IsFiniteSet(mine)
      /\ Held(rows, l.tenant) \in Nat
      /\ l \in mine
  BY HeldType DEF OfTenant
<1>2. /\ IsFiniteSet(mine \ {l})
      /\ Cardinality(mine \ {l}) = Held(rows, l.tenant) - 1
  BY <1>1, FS_RemoveElement DEF Held
<1>3. OfTenant(fewer, l.tenant) \in SUBSET (mine \ {l})
  BY DEF OfTenant
<1>4. /\ Cardinality(OfTenant(fewer, l.tenant)) <= Cardinality(mine \ {l})
      /\ IsFiniteSet(OfTenant(fewer, l.tenant))
  BY <1>2, <1>3, FS_Subset
<1>5. Cardinality(OfTenant(fewer, l.tenant)) \in Nat
  BY <1>4, FS_CardinalityType
<1>6. QED
  BY <1>1, <1>2, <1>4, <1>5 DEF Held

-----------------------------------------------------------------------------
(* Type correctness. *)

USE DEF storeVars

LEMMA InitType == Init => TypeOK
BY FS_EmptySet, LimitAssumption
   DEF Init, TypeOK, Idle, Turn, Unregistered, UsageRow

\* The rows that survive a purge are rows of the table.
LEMMA UnexpiredType ==
  ASSUME TypeOK, NEW now
  PROVE  /\ Unexpired(now) \in SUBSET leases
         /\ IsFiniteSet(Unexpired(now))
<1>1. Unexpired(now) \in SUBSET leases
  BY DEF Unexpired
<1>2. QED
  BY <1>1, FS_Subset DEF TypeOK

LEMMA TokensType ==
  ASSUME TypeOK, NEW n \in Tenants, NEW day
  PROVE  TokensOn(n, day) \in Nat
BY DEF TypeOK, TokensOn

LEMMA UpsertType ==
  ASSUME TypeOK, NEW s \in Sessions, NEW bytes \in [Kinds -> Nat],
         NEW instant \in Nat, Upsert(s, bytes, instant)
  PROVE  usage' \in [Sessions -> UsageRow]
BY DEF Upsert, TypeOK, UsageRow, Later

LEMMA AdmitType ==
  ASSUME TypeOK, NEW t \in Turns, Admit(t)
  PROVE  TypeOK'
<1> DEFINE s == turn[t].session
           n == TenantOf[s]
           now == turn[t].now
           l == [turn |-> t, tenant |-> n, expires |-> now + LeaseTime]
<1>1. /\ s \in Sessions
      /\ n \in Tenants
      /\ now \in Nat
  BY TenantAssumption DEF TypeOK, Admit, Turn
<1>2. /\ l \in Lease
      /\ leases' = Unexpired(now) \cup {l}
  BY <1>1, LimitAssumption DEF Admit, Lease
<1>3. leases' \subseteq Lease /\ IsFiniteSet(leases')
  BY <1>2, UnexpiredType, FS_AddElement DEF TypeOK
<1>4. usage' \in [Sessions -> UsageRow]
  <2>1. usage[s].bytes \in [Kinds -> Nat]
    BY <1>1 DEF TypeOK, UsageRow
  <2>2. Upsert(s, usage[s].bytes, now)
    BY DEF Admit
  <2>3. QED
    BY <1>1, <2>1, <2>2, UpsertType
<1>5. turn' \in [Turns -> Turn] /\ \A u \in Turns : turn'[u].phase # "idle" => turn'[u].session \in Sessions
  BY <1>1 DEF TypeOK, Admit, Turn
<1>6. late' \in [Tenants -> Nat]
  BY <1>1 DEF TypeOK, Admit
<1>7. QED
  BY <1>3, <1>4, <1>5, <1>6 DEF TypeOK, Admit

LEMMA SettleType ==
  ASSUME TypeOK, NEW t \in Turns, NEW tokens \in TokenUse, Settle(t, tokens)
  PROVE  /\ clock' \in Nat
         /\ leases' \subseteq Lease /\ IsFiniteSet(leases')
         /\ tokenRow' \in [Tenants -> [day : Nat, tokens : Nat]]
         /\ turn' \in [Turns -> Turn]
         /\ \A u \in Turns : turn'[u].phase # "idle" => turn'[u].session \in Sessions
         /\ late' \in [Tenants -> Nat]
<1>1. PICK l \in leases : /\ leases' = {m \in leases : m.turn # t}
                          /\ Charge(l.tenant, tokens)
  BY DEF Settle
<1>2. leases' \in SUBSET leases
  BY <1>1
<1>3. IsFiniteSet(leases')
  BY <1>2, FS_Subset DEF TypeOK
<1>4. tokenRow' \in [Tenants -> [day : Nat, tokens : Nat]]
  <2>1. l.tenant \in Tenants
    BY DEF TypeOK, Lease
  <2>2. /\ DayOf(clock) \in Nat
        /\ TokensOn(l.tenant, DayOf(clock)) + tokens \in Nat
    BY <2>1, DayType, TokensType, UseAssumption DEF TypeOK
  <2>3. QED
    BY <1>1, <2>1, <2>2 DEF Charge, TypeOK
<1>5. QED
  BY <1>2, <1>3, <1>4 DEF Settle, TypeOK, Idle, Turn

\* Every step keeps the tables and the locals in their types.
LEMMA TypeStep == TypeOK /\ [Next]_vars => TypeOK'
<1> SUFFICES ASSUME TypeOK, [Next]_vars
             PROVE  TypeOK'
  OBVIOUS
<1>1. ASSUME NEW t \in Turns, NEW s \in Sessions, ReadClock(t, s)
      PROVE  TypeOK'
  BY <1>1 DEF ReadClock, TypeOK, Turn
<1>2. ASSUME NEW t \in Turns, Admit(t)
      PROVE  TypeOK'
  BY <1>2, AdmitType
<1>3. ASSUME NEW t \in Turns, Refuse(t) \/ SettleLapsed(t)
      PROVE  TypeOK'
  BY <1>3 DEF Refuse, SettleLapsed, TypeOK, Turn, Idle
<1>4. ASSUME NEW t \in Turns, NEW tokens \in TokenUse, SettleUnmeasured(t, tokens)
      PROVE  TypeOK'
  <2>1. Settle(t, tokens) /\ usage' = usage
    BY <1>4 DEF SettleUnmeasured
  <2>2. QED
    BY <2>1, SettleType DEF TypeOK
<1>5. ASSUME NEW t \in Turns, NEW tokens \in TokenUse, NEW f \in Footprints,
             SettleMeasured(t, tokens, f)
      PROVE  TypeOK'
  <2>1. Settle(t, tokens) /\ Upsert(turn[t].session, f, clock)
    BY <1>5 DEF SettleMeasured
  <2>2. turn[t].session \in Sessions
    BY <2>1 DEF Settle, TypeOK
  <2>3. usage' \in [Sessions -> UsageRow]
    BY <2>1, <2>2, UpsertType, ByteAssumption DEF TypeOK
  <2>4. QED
    BY <2>1, <2>3, SettleType DEF TypeOK
<1>6. ASSUME NEW s \in Sessions, RemoveSession(s)
      PROVE  TypeOK'
  BY <1>6 DEF RemoveSession, TypeOK, UsageRow, Unregistered
<1>7. ASSUME NEW m \in [Sessions -> Footprints], NEW w \in [Sessions -> 0..clock],
             Restart(m, w)
      PROVE  TypeOK'
  <2>1. leases' \subseteq Lease /\ IsFiniteSet(leases')
    BY <1>7, UnexpiredType DEF Restart, TypeOK
  <2>2. usage' \in [Sessions -> UsageRow]
    <3>1. ASSUME NEW s \in Sessions
          PROVE  [usage[s] EXCEPT !.bytes = m[s],
                                  !.activity = Later(@, w[s])] \in UsageRow
      <4>1. /\ usage[s] \in UsageRow
            /\ usage[s].activity \in Nat
            /\ w[s] \in Nat
        BY DEF TypeOK, UsageRow
      <4>2. Later(usage[s].activity, w[s]) \in Nat
        BY <4>1 DEF Later
      <4>3. m[s] \in [Kinds -> Nat]
        BY ByteAssumption
      <4>4. QED
        BY <4>1, <4>2, <4>3 DEF UsageRow
    <3>2. QED
      BY <1>7, <3>1 DEF Restart, TypeOK
  <2>3. QED
    BY <1>7, <2>1, <2>2 DEF Restart, TypeOK, Turn, Idle
<1>8. CASE Tick
  BY <1>8 DEF Tick, TypeOK
<1>9. CASE UNCHANGED vars
  BY <1>9 DEF vars, TypeOK
<1>10. QED
  BY <1>1, <1>2, <1>3, <1>4, <1>5, <1>6, <1>7, <1>8, <1>9 DEF Next

\* TYPE CORRECTNESS of the quota ledger.
THEOREM TypeCorrect == Spec => []TypeOK
BY InitType, TypeStep, PTL DEF Spec

-----------------------------------------------------------------------------
(* Concurrency and token capacity. *)

\* What makes the safety properties inductive: a clock reading is never ahead
\* of the clock, and a thread about to insert its lease has no older row.
Readings ==
  \A t \in Turns : turn[t].phase = "clocked" =>
    /\ turn[t].now <= clock
    /\ \A l \in leases : l.turn # t

LEMMA ReadingsStep == TypeOK /\ Readings /\ [Next]_vars => Readings'
<1> SUFFICES ASSUME TypeOK, Readings, [Next]_vars,
                    NEW u \in Turns, turn'[u].phase = "clocked"
             PROVE  /\ turn'[u].now <= clock'
                    /\ \A l \in leases' : l.turn # u
  BY DEF Readings
<1>1. ASSUME NEW t \in Turns, NEW s \in Sessions, ReadClock(t, s)
      PROVE  turn'[u].now <= clock' /\ \A l \in leases' : l.turn # u
  BY <1>1 DEF ReadClock, TypeOK, Readings, Turn
<1>2. ASSUME NEW t \in Turns, Admit(t)
      PROVE  turn'[u].now <= clock' /\ \A l \in leases' : l.turn # u
  <2>1. u # t /\ turn'[u] = turn[u] /\ clock' = clock
    BY <1>2 DEF Admit, TypeOK, Turn
  <2>2. \A l \in leases' : l \in leases \/ l.turn = t
    BY <1>2 DEF Admit, Unexpired
  <2>3. QED
    BY <2>1, <2>2 DEF Readings
<1>3. ASSUME NEW t \in Turns, Refuse(t) \/ SettleLapsed(t)
      PROVE  turn'[u].now <= clock' /\ \A l \in leases' : l.turn # u
  BY <1>3 DEF Refuse, SettleLapsed, TypeOK, Readings, Turn, Idle
<1>4. ASSUME NEW t \in Turns, NEW tokens \in TokenUse, Settle(t, tokens)
      PROVE  turn'[u].now <= clock' /\ \A l \in leases' : l.turn # u
  BY <1>4 DEF Settle, TypeOK, Readings, Turn, Idle
<1>5. ASSUME NEW s \in Sessions, RemoveSession(s)
      PROVE  turn'[u].now <= clock' /\ \A l \in leases' : l.turn # u
  BY <1>5 DEF RemoveSession, Readings
<1>6. ASSUME NEW m \in [Sessions -> Footprints], NEW w \in [Sessions -> 0..clock],
             Restart(m, w)
      PROVE  turn'[u].now <= clock' /\ \A l \in leases' : l.turn # u
  BY <1>6 DEF Restart, Idle
<1>7. CASE Tick
  BY <1>7 DEF Tick, Readings, TypeOK, Turn
<1>8. CASE UNCHANGED vars
  BY <1>8 DEF vars, Readings
<1>9. QED
  BY <1>1, <1>2, <1>3, <1>4, <1>5, <1>6, <1>7, <1>8
     DEF Next, SettleMeasured, SettleUnmeasured

\* Only Admit inserts a row.
LEMMA OnlyAdmitInserts ==
  ASSUME TypeOK, [Next]_vars, \A t \in Turns : ~Admit(t)
  PROVE  leases' \in SUBSET leases
BY DEF Next, vars, ReadClock, Refuse, SettleLapsed, SettleMeasured, SettleUnmeasured,
       Settle, RemoveSession, Restart, Unexpired, Tick

\* What an admission does to the number of leases of a tenant.
LEMMA AdmitCounts ==
  ASSUME TypeOK, NEW t \in Turns, Admit(t), NEW n \in Tenants
  PROVE  LET owner == TenantOf[turn[t].session]
             now == turn[t].now
         IN  /\ IsFiniteSet(leases')
             /\ Held(Unexpired(now), n) <= Held(leases, n)
             /\ Held(leases', n) <= Held(Unexpired(now), n) + 1
             /\ n # owner => Held(leases', n) <= Held(leases, n)
<1> DEFINE owner == TenantOf[turn[t].session]
           now == turn[t].now
           l == [turn |-> t, tenant |-> owner, expires |-> now + LeaseTime]
<1>1. IsFiniteSet(leases) /\ IsFiniteSet(Unexpired(now)) /\ Unexpired(now) \in SUBSET leases
  BY UnexpiredType DEF TypeOK
<1>2. leases' = Unexpired(now) \cup {l}
  BY DEF Admit
<1>3. l.tenant = owner
  OBVIOUS
<1>4. Held(Unexpired(now), n) <= Held(leases, n)
  BY <1>1, HeldSubset
<1>5. /\ IsFiniteSet(leases')
      /\ Held(leases', n) <= Held(Unexpired(now), n) + 1
      /\ n # owner => Held(leases', n) = Held(Unexpired(now), n)
  BY <1>1, <1>2, <1>3, HeldInsert
<1>6. QED
  BY <1>4, <1>5

\* An admission respects the bound.
LEMMA AdmitBounded ==
  ASSUME TypeOK, SlotsBounded, NEW t \in Turns, Admit(t)
  PROVE  SlotsBounded'
<1> DEFINE owner == TenantOf[turn[t].session]
           now == turn[t].now
<1> SUFFICES ASSUME NEW n \in Tenants
             PROVE  Held(leases', n) <= MaxTurns
  BY DEF SlotsBounded, Held, OfTenant
<1>1. Held(leases, n) \in Nat /\ Held(leases, n) <= MaxTurns
  BY HeldType DEF SlotsBounded, TypeOK
<1>2. Held(Unexpired(now), n) \in Nat /\ Held(leases', n) \in Nat
  BY UnexpiredType, HeldType, AdmitCounts
<1>3. CASE n = owner
  <2>1. Held(Unexpired(now), n) < MaxTurns
    BY <1>3 DEF Admit, Fits
  <2>2. Held(leases', n) <= Held(Unexpired(now), n) + 1
    BY AdmitCounts
  <2>3. QED
    BY <1>2, <2>1, <2>2, LimitAssumption
<1>4. CASE n # owner
  <2>1. Held(leases', n) <= Held(leases, n)
    BY <1>4, AdmitCounts
  <2>2. QED
    BY <1>1, <1>2, <2>1, LimitAssumption
<1>5. QED
  BY <1>3, <1>4

\* Fewer rows are within the bound.
LEMMA FewerBounded ==
  ASSUME TypeOK, SlotsBounded, leases' \in SUBSET leases
  PROVE  SlotsBounded'
<1> SUFFICES ASSUME NEW n \in Tenants
             PROVE  Held(leases', n) <= MaxTurns
  BY DEF SlotsBounded, Held, OfTenant
<1>1. Held(leases, n) \in Nat /\ Held(leases, n) <= MaxTurns
  BY HeldType DEF SlotsBounded, TypeOK
<1>2. Held(leases', n) <= Held(leases, n) /\ Held(leases', n) \in Nat
  BY HeldSubset, HeldType, FS_Subset DEF TypeOK
<1>3. QED
  BY <1>1, <1>2, LimitAssumption

LEMMA SlotsStep == TypeOK /\ SlotsBounded /\ [Next]_vars => SlotsBounded'
BY AdmitBounded, FewerBounded, OnlyAdmitInserts

LEMMA SlotsInit == Init => SlotsBounded
<1> SUFFICES ASSUME Init, NEW n \in Tenants
             PROVE  Held({}, n) <= MaxTurns
  BY DEF Init, SlotsBounded
<1>1. OfTenant({}, n) = {}
  BY DEF OfTenant
<1>2. QED
  BY <1>1, FS_EmptySet, LimitAssumption DEF Held

\* CONCURRENCY: for every configuration no tenant ever has more leases in the
\* table than max_concurrent_turns, however old the clock readings are.
THEOREM SlotsAreBounded == Spec => []SlotsBounded
<1>1. Init => TypeOK /\ SlotsBounded
  BY InitType, SlotsInit
<1>2. TypeOK /\ SlotsBounded /\ [Next]_vars => (TypeOK /\ SlotsBounded)'
  BY TypeStep, SlotsStep
<1>3. QED
  BY <1>1, <1>2, PTL DEF Spec

-----------------------------------------------------------------------------
(* The token bound.  A lease weighs what its turn can add to the day's       *)
(* counter at most, reservation and overshoot; in that weight the bound      *)
(* is a budget that only a stale admission raises.                           *)

Weight == TokenReservation + Overshoot

Budget(n) == TokensPerDay + MaxTurns * Overshoot + late[n] * Weight

Weighed ==
  \A n \in Tenants : TokensOn(n, DayOf(clock)) + Held(leases, n) * Weight <= Budget(n)

LEMMA WeightType ==
  /\ Overshoot \in Nat
  /\ Weight \in Nat
  /\ TokenReservation \in Nat
  /\ TokensPerDay \in Nat
  /\ MaxTurns \in Nat
  /\ \A tokens \in TokenUse : tokens \in Nat /\ tokens <= Weight
BY LimitAssumption, UseAssumption DEF Overshoot, Weight

\* The two ways of writing the bound agree.
LEMMA Regroup ==
  ASSUME NEW T \in Nat, NEW H \in Nat, NEW R \in Nat, NEW O \in Nat,
         NEW L \in Nat, NEW M \in Nat, NEW K \in Nat
  PROVE  (T + H * R <= L + (M - H) * O + K * (R + O))
           <=> (T + H * (R + O) <= L + M * O + K * (R + O))
<1>1. H * (R + O) = H * R + H * O
  OBVIOUS
<1>2. (M - H) * O = M * O - H * O
  OBVIOUS
<1>3. /\ H * R \in Nat /\ H * O \in Nat /\ M * O \in Nat /\ K * (R + O) \in Nat
  OBVIOUS
<1>4. QED
  BY <1>1, <1>2, <1>3

LEMMA WeighedIsBounded == TypeOK => (TokensBounded <=> Weighed)
<1> SUFFICES ASSUME TypeOK, NEW n \in Tenants
             PROVE  (TokensOn(n, DayOf(clock)) + Held(leases, n) * TokenReservation
                       <= TokensPerDay + (MaxTurns - Held(leases, n)) * Overshoot
                            + late[n] * (TokenReservation + Overshoot))
                    <=> (TokensOn(n, DayOf(clock)) + Held(leases, n) * Weight <= Budget(n))
  BY DEF TokensBounded, Weighed
<1>1. /\ TokensOn(n, DayOf(clock)) \in Nat
      /\ Held(leases, n) \in Nat
      /\ late[n] \in Nat
  BY TokensType, HeldType DEF TypeOK
<1>2. QED
  BY <1>1, WeightType, Regroup DEF Weight, Budget

LEMMA BudgetType ==
  ASSUME TypeOK, NEW n \in Tenants
  PROVE  /\ late[n] * Weight \in Nat
         /\ MaxTurns * Overshoot \in Nat
         /\ Budget(n) \in Nat
         /\ TokensPerDay + MaxTurns * Overshoot <= Budget(n)
<1>1. late[n] \in Nat
  BY DEF TypeOK
<1>2. late[n] * Weight \in Nat /\ MaxTurns * Overshoot \in Nat
  BY <1>1, WeightType
<1>3. QED
  BY <1>2, WeightType DEF Budget

\* Fewer leases and no more tokens: still within the budget.
LEMMA WeighedShrinks ==
  ASSUME TypeOK, TypeOK', Weighed, NEW n \in Tenants,
         leases' \in SUBSET leases, late' = late,
         TokensOn(n, DayOf(clock))' <= TokensOn(n, DayOf(clock))
  PROVE  TokensOn(n, DayOf(clock))' + Held(leases', n) * Weight <= Budget(n)'
<1> DEFINE T == TokensOn(n, DayOf(clock))
           TT == TokensOn(n, DayOf(clock))'
<1>1. T \in Nat /\ TT \in Nat
  <2>1. TypeOK => TokensOn(n, DayOf(clock)) \in Nat
    BY TokensType
  <2>2. (TypeOK => TokensOn(n, DayOf(clock)) \in Nat)'
    BY DEF TypeOK, TokensOn
  <2>3. QED
    BY <2>1, <2>2
<1>2. /\ Held(leases, n) \in Nat
      /\ Held(leases', n) \in Nat
      /\ Held(leases', n) <= Held(leases, n)
  BY HeldType, HeldSubset DEF TypeOK
<1>3. Held(leases', n) * Weight <= Held(leases, n) * Weight
  BY <1>2, MultMonotone, WeightType
<1>4. /\ Held(leases', n) * Weight \in Nat
      /\ Held(leases, n) * Weight \in Nat
  BY <1>2, WeightType
<1>5. T + Held(leases, n) * Weight <= Budget(n)
  BY DEF Weighed
<1>6. Budget(n)' = Budget(n) /\ Budget(n) \in Nat
  BY BudgetType DEF Budget, Weight, Overshoot
<1>7. TT <= T
  OBVIOUS
<1> HIDE DEF T, TT
<1>8. TT + Held(leases', n) * Weight <= Budget(n)'
  BY <1>1, <1>3, <1>4, <1>5, <1>6, <1>7
<1>9. QED
  BY <1>8 DEF TT

\* An admission stays within the budget: decided today it was checked against
\* it, decided on an ended day it brings a weight of budget with it.
LEMMA WeighedAdmit ==
  ASSUME TypeOK, TypeOK', SlotsBounded, Weighed, NEW t \in Turns, Admit(t),
         NEW n \in Tenants
  PROVE  TokensOn(n, DayOf(clock))' + Held(leases', n) * Weight <= Budget(n)'
<1> DEFINE owner == TenantOf[turn[t].session]
           now == turn[t].now
           today == DayOf(clock)
           T == TokensOn(n, today)
           kept == Held(Unexpired(now), n)
           H == Held(leases, n)
           HH == Held(leases', n)
<1>1. /\ T \in Nat /\ kept \in Nat /\ H \in Nat /\ HH \in Nat
      /\ kept <= H /\ HH <= kept + 1
      /\ n # owner => HH <= H
  BY TokensType, HeldType, UnexpiredType, AdmitCounts DEF TypeOK
<1>2. TokensOn(n, DayOf(clock))' = T
  BY DEF Admit, TokensOn, DayOf
<1>3. T + H * Weight <= Budget(n) /\ Budget(n) \in Nat /\ H * Weight \in Nat
  BY <1>1, BudgetType, WeightType DEF Weighed
<1>4. HH * Weight \in Nat
  BY <1>1, WeightType
<1>5. owner \in Tenants
  BY TenantAssumption DEF TypeOK, Admit
<1>6. CASE n # owner
  <2>1. late'[n] = late[n]
    BY <1>5, <1>6 DEF Admit, TypeOK
  <2>2. Budget(n)' = Budget(n)
    BY <2>1 DEF Budget, Weight, Overshoot
  <2>3. HH * Weight <= H * Weight
    BY <1>1, <1>6, MultMonotone, WeightType
  <2> HIDE DEF T, H, HH
  <2>4. T + HH * Weight <= Budget(n)'
    BY <1>1, <1>3, <1>4, <2>2, <2>3
  <2>5. QED
    BY <1>2, <2>4 DEF HH
<1>7. CASE n = owner /\ DayOf(now) = today
  <2>1. Budget(n)' = Budget(n)
    BY <1>7 DEF Admit, Budget, Weight, Overshoot
  <2>2. /\ kept < MaxTurns
        /\ T + (kept + 1) * TokenReservation <= TokensPerDay
    BY <1>7 DEF Admit, Fits
  <2> HIDE DEF T, kept, H, HH
  <2>3. /\ HH * TokenReservation <= (kept + 1) * TokenReservation
        /\ HH * TokenReservation \in Nat
        /\ (kept + 1) * TokenReservation \in Nat
    BY <1>1, MultMonotone, WeightType
  <2>4. /\ HH * Overshoot <= MaxTurns * Overshoot
        /\ HH * Overshoot \in Nat
    <3>1. HH <= MaxTurns
      BY <1>1, <2>2, WeightType
    <3>2. QED
      BY <1>1, <3>1, MultMonotone, WeightType
  <2>5. HH * Weight = HH * TokenReservation + HH * Overshoot
    BY <1>1, WeightType DEF Weight
  <2>6. T + HH * Weight <= TokensPerDay + MaxTurns * Overshoot
    BY <1>1, <2>2, <2>3, <2>4, <2>5, BudgetType, WeightType
  <2>7. T + HH * Weight <= Budget(n)'
    BY <1>1, <1>4, <2>1, <2>6, BudgetType, WeightType
  <2>8. QED
    BY <1>2, <2>7 DEF HH
<1>8. CASE n = owner /\ DayOf(now) # today
  <2>1. late'[n] = late[n] + 1 /\ late[n] \in Nat
    BY <1>8 DEF Admit, TypeOK
  <2>2. (late[n] + 1) * Weight = late[n] * Weight + Weight
    BY <2>1, WeightType
  <2>3. Budget(n)' = Budget(n) + Weight
    <3>1. Budget(n)' = TokensPerDay + MaxTurns * Overshoot + (late[n] + 1) * Weight
      BY <2>1 DEF Budget, Weight, Overshoot
    <3>2. QED
      BY <2>1, <2>2, <3>1, BudgetType, WeightType DEF Budget
  <2> HIDE DEF T, kept, H, HH
  <2>4. HH * Weight <= (H + 1) * Weight
    BY <1>1, MultMonotone, WeightType
  <2>5. (H + 1) * Weight = H * Weight + Weight
    BY <1>1, WeightType
  <2>6. T + HH * Weight <= Budget(n)'
    BY <1>1, <1>3, <1>4, <2>3, <2>4, <2>5, WeightType
  <2>7. QED
    BY <1>2, <2>6 DEF HH
<1>9. QED
  BY <1>6, <1>7, <1>8

\* A settlement turns the weight of its lease into at most that many tokens.
LEMMA WeighedSettle ==
  ASSUME TypeOK, TypeOK', Weighed, NEW t \in Turns, NEW tokens \in TokenUse,
         Settle(t, tokens), NEW n \in Tenants
  PROVE  TokensOn(n, DayOf(clock))' + Held(leases', n) * Weight <= Budget(n)'
<1> DEFINE today == DayOf(clock)
           T == TokensOn(n, today)
           TT == TokensOn(n, DayOf(clock))'
           H == Held(leases, n)
           HH == Held(leases', n)
<1>1. PICK l \in leases : /\ l.turn = t
                          /\ leases' = {m \in leases : m.turn # t}
                          /\ Charge(l.tenant, tokens)
                          /\ clock' = clock
                          /\ late' = late
  BY DEF Settle
<1>2. leases' \in SUBSET leases /\ l \notin leases' /\ l.tenant \in Tenants
  BY <1>1 DEF TypeOK, Lease
<1>3. CASE n # l.tenant
  <2>1. TT = T
    BY <1>1, <1>3 DEF Charge, TokensOn, DayOf, TypeOK
  <2>2. TT <= T
    BY <2>1, TokensType
  <2>3. QED
    BY <1>1, <1>2, <2>2, WeighedShrinks
<1>4. CASE n = l.tenant
  <2>1. T \in Nat /\ H \in Nat /\ HH \in Nat /\ HH + 1 <= H
    BY <1>2, <1>4, TokensType, HeldType, HeldDelete DEF TypeOK
  <2>2. tokens \in Nat /\ tokens <= Weight
    BY WeightType
  <2>3. TT = T + tokens
    <3>1. CASE tokens = 0
      BY <1>1, <1>4, <3>1, <2>1 DEF Charge, TokensOn, DayOf
    <3>2. CASE tokens # 0
      <4>1. tokenRow'[n] = [day |-> today, tokens |-> T + tokens]
        BY <1>1, <1>4, <3>2 DEF Charge, TypeOK
      <4>2. DayOf(clock)' = today
        BY <1>1 DEF DayOf
      <4>3. QED
        BY <4>1, <4>2 DEF TokensOn
    <3>3. QED
      BY <3>1, <3>2
  <2>4. T + H * Weight <= Budget(n) /\ Budget(n) \in Nat
    BY BudgetType DEF Weighed
  <2>5. Budget(n)' = Budget(n)
    BY <1>1 DEF Budget, Weight, Overshoot
  <2> HIDE DEF T, TT, H, HH
  <2>6. (HH + 1) * Weight <= H * Weight
    BY <2>1, MultMonotone, WeightType
  <2>7. /\ (HH + 1) * Weight = HH * Weight + Weight
        /\ HH * Weight \in Nat /\ H * Weight \in Nat
    BY <2>1, WeightType
  <2>8. TT + HH * Weight <= Budget(n)'
    BY <2>1, <2>2, <2>3, <2>4, <2>5, <2>6, <2>7, WeightType
  <2>9. QED
    BY <2>8 DEF TT, HH
<1>5. QED
  BY <1>3, <1>4

\* Steps that neither admit nor settle leave the counters alone; when midnight
\* passes the counter of the new day starts at zero.
LEMMA WeighedOther ==
  ASSUME TypeOK, TypeOK', Weighed, NEW n \in Tenants,
         leases' \in SUBSET leases, late' = late, tokenRow' = tokenRow,
         clock' = clock \/ clock' = clock + 1,
         clock' = clock \/ TokensOn(n, DayOf(clock))' \in {0, TokensOn(n, DayOf(clock))}
  PROVE  TokensOn(n, DayOf(clock))' + Held(leases', n) * Weight <= Budget(n)'
<1>1. TokensOn(n, DayOf(clock)) \in Nat
  BY TokensType
<1>2. clock' = clock => TokensOn(n, DayOf(clock))' = TokensOn(n, DayOf(clock))
  BY DEF TokensOn, DayOf
<1>3. TokensOn(n, DayOf(clock))' <= TokensOn(n, DayOf(clock))
  BY <1>1, <1>2
<1>4. QED
  BY <1>3, WeighedShrinks

\* Days do not go backwards.
LEMMA DayMonotone ==
  ASSUME NEW c \in Nat
  PROVE  DayOf(c) <= DayOf(c + 1)
<1> DEFINE p == c \div DayLength
           q == (c + 1) \div DayLength
<1>1. DayLength \in Nat /\ DayLength > 0
  BY LimitAssumption
<1>2. /\ p \in Int /\ q \in Int
      /\ p * DayLength <= c
      /\ c + 1 < (q + 1) * DayLength
  BY <1>1
<1>3. SUFFICES ASSUME q < p
               PROVE  FALSE
  BY <1>2 DEF DayOf
<1> HIDE DEF p, q
<1>4. (q + 1) * DayLength <= p * DayLength
  BY <1>1, <1>2, <1>3
<1>5. QED
  BY <1>1, <1>2, <1>4

\* No counter row is dated in the future.
RowsDated == \A n \in Tenants : tokenRow[n].day <= DayOf(clock)

LEMMA RowsDatedStep == TypeOK /\ RowsDated /\ [Next]_vars => RowsDated'
<1> SUFFICES ASSUME TypeOK, RowsDated, [Next]_vars, NEW n \in Tenants
             PROVE  tokenRow'[n].day <= DayOf(clock')
  BY DEF RowsDated, DayOf
<1>1. /\ tokenRow[n].day \in Nat
      /\ DayOf(clock) \in Nat
      /\ tokenRow[n].day <= DayOf(clock)
  BY DayType DEF TypeOK, RowsDated
<1>2. ASSUME NEW t \in Turns, NEW tokens \in TokenUse, Settle(t, tokens)
      PROVE  tokenRow'[n].day <= DayOf(clock')
  <2>1. /\ clock' = clock
        /\ \/ tokenRow'[n] = tokenRow[n]
           \/ tokenRow'[n].day = DayOf(clock)
    BY <1>2 DEF Settle, Charge, TypeOK
  <2>2. QED
    BY <1>1, <2>1
<1>3. CASE Tick
  <2>1. DayOf(clock) <= DayOf(clock + 1) /\ DayOf(clock + 1) \in Nat
    BY DayMonotone, DayType DEF TypeOK
  <2>2. QED
    BY <1>1, <1>3, <2>1 DEF Tick
<1>4. CASE tokenRow' = tokenRow /\ clock' = clock
  BY <1>1, <1>4
<1>5. QED
  BY <1>2, <1>3, <1>4
     DEF Next, vars, ReadClock, Admit, Refuse, SettleLapsed, SettleMeasured,
         SettleUnmeasured, RemoveSession, Restart

LEMMA WeighedStep ==
  TypeOK /\ SlotsBounded /\ RowsDated /\ Weighed /\ [Next]_vars => Weighed'
<1> SUFFICES ASSUME TypeOK, SlotsBounded, RowsDated, Weighed, [Next]_vars,
                    NEW n \in Tenants
             PROVE  TokensOn(n, DayOf(clock))' + Held(leases', n) * Weight <= Budget(n)'
  BY DEF Weighed, Held, OfTenant, Weight, Overshoot
<1>0. TypeOK'
  BY TypeStep
<1>1. ASSUME NEW t \in Turns, Admit(t)
      PROVE  TokensOn(n, DayOf(clock))' + Held(leases', n) * Weight <= Budget(n)'
  BY <1>0, <1>1, WeighedAdmit
<1>2. ASSUME NEW t \in Turns, NEW tokens \in TokenUse, Settle(t, tokens)
      PROVE  TokensOn(n, DayOf(clock))' + Held(leases', n) * Weight <= Budget(n)'
  BY <1>0, <1>2, WeighedSettle
<1>3. CASE Tick
  <2>1. /\ leases' \in SUBSET leases /\ late' = late /\ tokenRow' = tokenRow
        /\ clock' = clock + 1
    BY <1>3 DEF Tick
  <2>2. TokensOn(n, DayOf(clock))' \in {0, TokensOn(n, DayOf(clock))}
    <3>1. /\ DayOf(clock) <= DayOf(clock + 1)
          /\ tokenRow[n].day <= DayOf(clock)
          /\ DayOf(clock) \in Nat /\ DayOf(clock + 1) \in Nat /\ tokenRow[n].day \in Nat
      BY DayMonotone, DayType DEF TypeOK, RowsDated
    <3>2. TokensOn(n, DayOf(clock))'
            = IF tokenRow[n].day = DayOf(clock + 1) THEN tokenRow[n].tokens ELSE 0
      BY <2>1 DEF TokensOn, DayOf
    <3>3. tokenRow[n].day = DayOf(clock + 1) => tokenRow[n].day = DayOf(clock)
      BY <3>1
    <3>4. QED
      BY <3>2, <3>3 DEF TokensOn
  <2>3. QED
    BY <1>0, <2>1, <2>2, WeighedOther
<1>4. CASE leases' \in SUBSET leases /\ late' = late /\ tokenRow' = tokenRow /\ clock' = clock
  BY <1>0, <1>4, WeighedOther
<1>5. QED
  BY <1>1, <1>2, <1>3, <1>4
     DEF Next, vars, ReadClock, Refuse, SettleLapsed, SettleMeasured,
         SettleUnmeasured, RemoveSession, Restart, Unexpired

LEMMA WeighedInit == Init => RowsDated /\ Weighed
<1> SUFFICES ASSUME Init, NEW n \in Tenants
             PROVE  /\ tokenRow[n].day <= DayOf(clock)
                    /\ TokensOn(n, DayOf(clock)) + Held(leases, n) * Weight <= Budget(n)
  BY DEF RowsDated, Weighed
<1>1. TypeOK
  BY InitType
<1>2. DayOf(clock) \in Nat
  BY <1>1, DayType DEF TypeOK
<1>3. tokenRow[n] = [day |-> 0, tokens |-> 0]
  BY DEF Init
<1>4. TokensOn(n, DayOf(clock)) = 0
  BY <1>3 DEF TokensOn
<1>5. Held(leases, n) = 0
  <2>1. OfTenant({}, n) = {}
    BY DEF OfTenant
  <2>2. QED
    BY <2>1, FS_EmptySet DEF Init, Held
<1>6. QED
  BY <1>1, <1>2, <1>3, <1>4, <1>5, BudgetType, WeightType

\* TOKEN CAPACITY: for every configuration, the tokens of the day and the
\* reservations of the leases stay within tokens_per_day, up to the overshoot of
\* the turns in flight and one turn per admission decided on an ended day.
THEOREM TokensAreBounded == Spec => []TokensBounded
<1> DEFINE Inv == TypeOK /\ SlotsBounded /\ RowsDated /\ Weighed
<1>1. Init => Inv
  BY InitType, SlotsInit, WeighedInit
<1>2. Inv /\ [Next]_vars => Inv'
  BY TypeStep, SlotsStep, RowsDatedStep, WeighedStep
<1>3. Inv => TokensBounded
  BY WeighedIsBounded
<1>4. QED
  BY <1>1, <1>2, <1>3, PTL DEF Spec

-----------------------------------------------------------------------------
(* Leases are kept, and the ledger is a slot pool. *)

LEMMA ReadingsInit == Init => Readings
BY DEF Init, Readings, Idle

\* A purge with a reading of the clock deletes expired rows only.
LEMMA PurgedExpired ==
  ASSUME TypeOK, NEW now \in Nat, now <= clock, NEW l \in leases \ Unexpired(now)
  PROVE  l.expires <= clock
BY DEF Unexpired, TypeOK, Lease

LEMMA LeaseKeptStep ==
  ASSUME TypeOK, Readings, [Next]_vars, NEW l \in leases \ leases'
  PROVE  \/ l.expires <= clock
         \/ turn[l.turn].phase = "admitted" /\ turn'[l.turn] = Idle
<1>1. l.turn \in Turns
  BY DEF TypeOK, Lease
<1>2. ASSUME NEW t \in Turns, Admit(t)
      PROVE  l.expires <= clock
  <2>1. turn[t].now \in Nat /\ turn[t].now <= clock
    BY <1>2 DEF Admit, Readings, TypeOK, Turn
  <2>2. l \in leases \ Unexpired(turn[t].now)
    BY <1>2 DEF Admit
  <2>3. QED
    BY <2>1, <2>2, PurgedExpired
<1>3. ASSUME NEW t \in Turns, NEW tokens \in TokenUse, Settle(t, tokens)
      PROVE  turn[l.turn].phase = "admitted" /\ turn'[l.turn] = Idle
  <2>1. l.turn = t
    BY <1>3 DEF Settle
  <2>2. QED
    BY <1>3, <2>1 DEF Settle, TypeOK
<1>4. ASSUME NEW m \in [Sessions -> Footprints], NEW w \in [Sessions -> 0..clock],
             Restart(m, w)
      PROVE  l.expires <= clock
  <2>1. l \in leases \ Unexpired(clock)
    BY <1>4 DEF Restart
  <2>2. QED
    BY <2>1, PurgedExpired DEF TypeOK
<1>5. CASE leases' = leases
  BY <1>5
<1>6. QED
  BY <1>2, <1>3, <1>4, <1>5
     DEF Next, vars, ReadClock, Refuse, SettleLapsed, SettleMeasured,
         SettleUnmeasured, RemoveSession, Tick

\* NO SLOT IS STOLEN: for every configuration a lease leaves the table only
\* when it has expired or when its own turn, still running, settles it.
THEOREM LeasesAreKept == Spec => LeaseKept
<1>1. Init => TypeOK /\ Readings
  BY InitType, ReadingsInit
<1>2. TypeOK /\ Readings /\ [Next]_vars => (TypeOK /\ Readings)'
  BY TypeStep, ReadingsStep
<1>3. TypeOK /\ Readings /\ [Next]_vars
        => [\A l \in leases \ leases' :
              \/ l.expires <= clock
              \/ turn[l.turn].phase = "admitted" /\ turn'[l.turn] = Idle]_vars
  BY LeaseKeptStep
<1>4. QED
  BY <1>1, <1>2, <1>3, PTL DEF Spec, LeaseKept

\* The turns that hold or held a slot, as the refinement mapping sees them.
Running == {t \in Turns : turn[t].phase = "admitted"}

\* The two modules count alike.
LEMMA SameCount ==
  ASSUME NEW S
  PROVE  Slots!Cardinality(S) = Cardinality(S)
BY Zenon DEF Slots!Cardinality, Cardinality

\* An admission takes a slot.
LEMMA AdmitTakes ==
  ASSUME TypeOK, Readings, SlotsBounded', NEW t \in Turns, Admit(t),
         NEW n \in Tenants, n = TenantOf[turn[t].session]
  PROVE  Slots!Take(t, n)
<1> DEFINE now == turn[t].now
           l == [turn |-> t, tenant |-> n, expires |-> now + LeaseTime]
<1>1. /\ now \in Nat /\ now <= clock /\ clock \in Nat
      /\ \A m \in leases : m.turn # t
  BY DEF Admit, Readings, TypeOK, Turn
<1>2. t \notin Running
  BY DEF Running, Admit
<1>3. /\ leases \ Unexpired(now) \in SUBSET Slots!Expired
      /\ now + LeaseTime \in 0..(clock + LeaseTime)
      /\ leases' = (leases \ (leases \ Unexpired(now))) \cup {l}
  <2>1. leases \ Unexpired(now) \in SUBSET Slots!Expired
    BY <1>1, PurgedExpired DEF Slots!Expired
  <2>2. now + LeaseTime \in 0..(clock + LeaseTime)
    BY <1>1, LimitAssumption
  <2>3. leases \ (leases \ Unexpired(now)) = Unexpired(now)
    BY DEF Unexpired
  <2>4. QED
    BY <2>1, <2>2, <2>3 DEF Admit
<1>4. Slots!Cardinality(Slots!SlotsOf(n)') <= MaxTurns
  <2>1. Slots!SlotsOf(n)' = OfTenant(leases', n)
    BY DEF Slots!SlotsOf, OfTenant
  <2>2. Held(leases', n) <= MaxTurns
    BY <1>1 DEF SlotsBounded, Held, OfTenant
  <2>3. QED
    BY <2>1, <2>2, SameCount DEF Held
<1>5. Running' = Running \cup {t}
  BY DEF Running, Admit, TypeOK, Turn
<1>6. QED
  BY <1>1, <1>2, <1>3, <1>4, <1>5 DEF Slots!Take, Running, Admit

\* The end of a turn, with or without its row, gives the slot back.
LEMMA SettleGives ==
  ASSUME TypeOK, NEW t \in Turns, NEW tokens, SettleLapsed(t) \/ Settle(t, tokens)
  PROVE  Slots!Give(t)
<1>1. /\ turn[t].phase = "admitted" /\ clock' = clock
      /\ turn' = [turn EXCEPT ![t] = Idle]
      /\ leases' = {m \in leases : m.turn # t}
  BY DEF Settle, SettleLapsed
<1>2. t \in Running /\ Running' = Running \ {t}
  BY <1>1 DEF Running, TypeOK, Idle
<1>3. QED
  BY <1>1, <1>2 DEF Slots!Give, Running

\* All turns are over, and what expired may be gone.
LEMMA PurgeDies ==
  ASSUME TypeOK, Running' = {}, leases' \in {leases, Unexpired(clock)}, clock' = clock
  PROVE  Slots!Die
<1>1. leases \ leases' \in SUBSET Slots!Expired
  BY PurgedExpired DEF TypeOK, Slots!Expired
<1>2. leases' = leases \ (leases \ leases')
  BY DEF Unexpired
<1>3. QED
  BY <1>1, <1>2 DEF Slots!Die, Running

LEMMA SlotsRefinedStep ==
  TypeOK /\ Readings /\ SlotsBounded' /\ [Next]_vars => [Slots!Next]_(Slots!slotVars)
<1> SUFFICES ASSUME TypeOK, Readings, SlotsBounded', [Next]_vars
             PROVE  Slots!Next \/ UNCHANGED <<clock, leases, Running>>
  BY DEF Slots!slotVars, Running
<1>1. ASSUME NEW t \in Turns, NEW s \in Sessions, ReadClock(t, s)
      PROVE  UNCHANGED <<clock, leases, Running>>
  BY <1>1 DEF ReadClock, Running, Idle, TypeOK
<1>2. ASSUME NEW t \in Turns, Admit(t)
      PROVE  Slots!Next
  <2>1. TenantOf[turn[t].session] \in Tenants
    BY <1>2, TenantAssumption DEF Admit, TypeOK
  <2>2. QED
    BY <1>2, <2>1, AdmitTakes DEF Slots!Next
<1>3. ASSUME NEW t \in Turns, Refuse(t)
      PROVE  UNCHANGED <<clock, leases, Running>>
  BY <1>3 DEF Refuse, Running, Idle, TypeOK
<1>4. ASSUME NEW t \in Turns,
             SettleLapsed(t) \/ \E tokens \in TokenUse : Settle(t, tokens)
      PROVE  Slots!Next
  BY <1>4, SettleGives DEF Slots!Next
<1>5. ASSUME NEW m \in [Sessions -> Footprints], NEW w \in [Sessions -> 0..clock],
             Restart(m, w)
      PROVE  Slots!Next
  <2>1. Running' = {}
    BY <1>5 DEF Restart, Running, Idle
  <2>2. leases' = Unexpired(clock) /\ clock' = clock
    BY <1>5 DEF Restart
  <2>3. QED
    BY <2>1, <2>2, PurgeDies DEF Slots!Next
<1>6. CASE Tick
  BY <1>6 DEF Tick, Slots!Next, Slots!Tick, Running
<1>7. ASSUME UNCHANGED <<clock, leases, turn>>
      PROVE  UNCHANGED <<clock, leases, Running>>
  BY <1>7 DEF Running
<1>8. QED
  BY <1>1, <1>2, <1>3, <1>4, <1>5, <1>6, <1>7
     DEF Next, vars, SettleMeasured, SettleUnmeasured, RemoveSession

\* IMPLEMENTATION: for every configuration the ledger behaves like the pool of
\* slots that TurnSlots specifies.
THEOREM LedgerImplementsSlots == Spec => ImplementsTurnSlots
<1> DEFINE Inv == TypeOK /\ Readings /\ SlotsBounded
<1>1. Init => Inv /\ Slots!Init
  BY InitType, ReadingsInit, SlotsInit DEF Init, Slots!Init, Idle
<1>2. Inv /\ [Next]_vars => Inv'
  BY TypeStep, ReadingsStep, SlotsStep
<1>3. Inv /\ Inv' /\ [Next]_vars => [Slots!Next]_(Slots!slotVars)
  BY SlotsRefinedStep
<1>4. QED
  BY <1>1, <1>2, <1>3, PTL DEF Spec, ImplementsTurnSlots, Slots!Spec

-----------------------------------------------------------------------------
(* The lifecycle of sessions: its invariant. *)

\* The stages of a sweep in which it holds the lock of its session.
Holding == {"checked", "clearing", "erasing"}

\* What a turn does and where it is belong together.
Joined ==
  /\ \A t \in Turns : /\ work[t].stage = "away" => work[t].session = NoSession
                      /\ work[t].stage # "away" => work[t].session \in Sessions
  /\ \A c \in Chats : work[c].stage # "away" =>
       /\ work[c].stage # "claimed"
       /\ turn[c].phase = "admitted"
       /\ turn[c].session = work[c].session
  /\ \A j \in Jobs :
       /\ turn[j].phase # "idle" => /\ work[j].stage \in {"inside", "measured"}
                                    /\ turn[j].session = work[j].session
       /\ work[j].stage = "measured" => turn[j].phase = "admitted"
  /\ sweep.stage \in Holding => sweep.session \in Sessions

\* Nothing runs while the process is down, or refused to start.
Still ==
  mode # "up" =>
    /\ \A t \in Turns : turn[t].phase = "idle" /\ work[t].stage = "away"
    /\ \A d \in Deleters : deleting[d] = NoSession
    /\ sweep.stage = "resting"

\* The session lock is held by those who are past it, and by nobody else: a job keeps
\* it until it has settled, a chat until it has measured.
Locked ==
  /\ \A s \in Sessions, t \in Turns :
       holder[s] = t <=> /\ work[t].session = s
                         /\ \/ work[t].stage = "inside"
                            \/ work[t].stage = "measured" /\ t \in Jobs
  /\ \A s \in Sessions, d \in Deleters : holder[s] = d <=> deleting[d] = s
  /\ \A s \in Sessions :
       holder[s] = Sweeper <=> sweep.stage \in Holding /\ sweep.session = s

\* No turn outlives its limit, and the cutoff of a sweep is older than any turn.
Timely ==
  /\ \A t \in Turns : turn[t].phase # "idle" =>
       turn[t].now <= clock /\ clock <= turn[t].now + TurnLimit
  /\ sweep.stage # "resting" => sweep.cutoff <= clock - Retention

\* The row of a turn's session stays from its admission on, and is as young as the
\* turn: a job has the lock, and without deletions only the sweep removes rows.
RowStays ==
  \A t \in Turns :
    turn[t].phase = "admitted" /\ (t \in Jobs \/ Deleters = {}) =>
      /\ usage[turn[t].session].registered
      /\ turn[t].now <= usage[turn[t].session].activity

\* A row that came back after a deletion was written by a turn that was alive then, so
\* its activity lies at most one more lifetime before the turns that waited.
RowYoung ==
  \A t \in Turns :
    turn[t].phase = "admitted" /\ usage[turn[t].session].registered =>
      turn[t].now <= usage[turn[t].session].activity + TurnLimit

\* A job whose session was deleted has not got the lock, and its schedule is gone.
OrphansWait ==
  \A j \in orphans : work[j].stage = "claimed" /\ scheduled[work[j].session] = NoSchedule

\* What the sweep holds is still inactive: a job refreshes activity under the lock.
StillInactive ==
  Chats = {} /\ sweep.stage \in Holding => Inactive(sweep.session, sweep.cutoff)

\* No row, no charge.
NoRowNoCharge == \A s \in Sessions : ~ usage[s].registered => usage[s].bytes = NoFiles

\* The files of the session may differ from its row: a turn writes, or has written.
Written(s) ==
  \E t \in Turns : /\ work[t].session = s
                   /\ \/ work[t].stage = "measured"
                      \/ work[t].stage = "inside" /\ turn[t].phase = "admitted"

\* Its files may be gone before its row.
Erased(s) ==
  \/ \E d \in Deleters : deleting[d] = s
  \/ sweep.stage = "erasing" /\ sweep.session = s

\* Charged for what is on disk, and nothing else is on disk.
Charged(s) == \A k \in Kinds : files[s][k] # 0 => usage[s].bytes[k] = files[s][k]
NotCharged(s) == files[s] = NoFiles => usage[s].bytes = NoFiles

ChargedExactly ==
  Chats = {} /\ mode = "up" =>
    /\ \A s \in Sessions : ~ Written(s) => Charged(s) /\ (Erased(s) \/ NotCharged(s))
    /\ \A t \in Turns : work[t].stage = "measured" => work[t].seen = files[work[t].session]

\* Files without a row are those of a chat at work, which was admitted before the
\* row was removed.
Explained ==
  mode = "up" =>
    \A s \in Sessions : files[s] # NoFiles /\ ~ usage[s].registered =>
      \E c \in Chats : work[c].session = s /\ work[c].stage \in {"inside", "measured"}

\* Files have their row, unless both chats and deletions come to the session.
AttributedUnlessBoth == Chats = {} \/ Deleters = {} => FilesAttributed

LifeInv ==
  /\ TypeOK /\ LifeTypeOK
  /\ Joined /\ Still /\ Locked /\ Timely
  /\ RowStays /\ RowYoung /\ OrphansWait /\ StillInactive
  /\ NoRowNoCharge /\ ChargedExactly /\ AttributedUnlessBoth /\ Explained

\* The locals of a turn, and of the sweep.
Works == [stage : {"away", "claimed", "inside", "measured"},
          session : Sessions \cup {NoSession},
          seen : [Kinds -> Nat],
          claim : BOOLEAN]

Sweeps == [stage : {"resting", "looking", "checked", "clearing", "erasing"},
           session : Sessions \cup {NoSession},
           left : SUBSET Sessions,
           cutoff : Int]

\* The types of the files, by name.
Sized == files \in [Sessions -> [Kinds -> Nat]] /\ written \in [Sessions -> Nat]

\* The types of the lifecycle, by name.
Kept ==
  /\ scheduled \in [Sessions -> Nat \cup {NoSchedule}]
  /\ holder \in [Sessions -> Turns \cup Deleters \cup {Sweeper, Nobody}]
  /\ work \in [Turns -> Works]
  /\ deleting \in [Deleters -> Sessions \cup {NoSession}]
  /\ sweep \in Sweeps
  /\ mode \in {"up", "down", "refused"}
  /\ orphans \subseteq Jobs

LEMMA LifeTypesAre == LifeTypeOK <=> Sized /\ Kept
BY DEF LifeTypeOK, Sized, Kept, Works, Sweeps

\* Threads are distinct.
LEMMA Threads ==
  /\ Turns = Chats \cup Jobs
  /\ NoSession \notin Sessions
  /\ Turns \cap Deleters = {}
  /\ Sweeper \notin Turns \cup Deleters
  /\ Nobody \notin Turns \cup Deleters \cup {Sweeper}
BY ThreadAssumption, SessionAssumption DEF ThreadAssumption, SessionAssumption

LEMMA AwayIsWork ==
  /\ Away \in Works
  /\ Away.stage = "away"
  /\ Away.session = NoSession
  /\ NoFiles \in [Kinds -> Nat]
BY DEF Away, Works, NoFiles

LEMMA RestingIsSweep == Resting \in Sweeps /\ Resting.stage = "resting"
BY DEF Resting, Sweeps

LEMMA IdleIsTurn == Idle \in Turn /\ Idle.phase = "idle" /\ Idle.session = NoSession
BY DEF Idle, Turn

-----------------------------------------------------------------------------
(* What the steps of the ledger do to a turn and to a row. *)

\* The turns beside t are not concerned.
OthersTurn(t) == \A u \in Turns \ {t} : turn'[u] = turn[u]
OthersWork(t) == \A u \in Turns \ {t} : work'[u] = work[u]

LEMMA ReadClockDoes ==
  ASSUME TypeOK, NEW t \in Turns, NEW s \in Sessions, ReadClock(t, s)
  PROVE  /\ TypeOK'
         /\ turn[t].phase = "idle"
         /\ turn'[t].phase = "clocked" /\ turn'[t].session = s /\ turn'[t].now = clock
         /\ OthersTurn(t)
         /\ usage' = usage /\ clock' = clock
<1>1. TypeOK'
  BY TypeStep DEF Next
<1>2. turn \in [Turns -> Turn]
  BY DEF TypeOK
<1>3. turn' = [turn EXCEPT ![t] = [phase |-> "clocked", session |-> s, now |-> clock]]
  BY DEF ReadClock
<1> QED
  BY <1>1, <1>2, <1>3, IdleIsTurn DEF ReadClock, OthersTurn

LEMMA AdmitDoes ==
  ASSUME TypeOK, NEW t \in Turns, Admit(t)
  PROVE  LET s == turn[t].session IN
           /\ TypeOK'
           /\ s \in Sessions
           /\ turn[t].phase = "clocked"
           /\ turn'[t].phase = "admitted" /\ turn'[t].session = s
           /\ turn'[t].now = turn[t].now
           /\ OthersTurn(t)
           /\ usage'[s].registered
           /\ usage'[s].bytes = usage[s].bytes
           /\ usage'[s].activity = Later(usage[s].activity, turn[t].now)
           /\ \A r \in Sessions \ {s} : usage'[r] = usage[r]
           /\ clock' = clock
<1> DEFINE s == turn[t].session
<1>1. TypeOK'
  BY AdmitType
<1>2. /\ turn \in [Turns -> Turn]
      /\ turn[t] \in Turn
      /\ usage \in [Sessions -> UsageRow]
  BY DEF TypeOK
<1>3. turn[t].phase = "clocked" /\ s \in Sessions /\ clock' = clock
  BY DEF Admit, TypeOK
<1>4. /\ turn' = [turn EXCEPT ![t] = [turn[t] EXCEPT !.phase = "admitted"]]
      /\ usage' = [usage EXCEPT ![s] = [registered |-> TRUE, bytes |-> usage[s].bytes,
                      activity |-> Later(usage[s].activity, turn[t].now)]]
  BY <1>2 DEF Admit, Upsert
<1>5. LET next == [turn[t] EXCEPT !.phase = "admitted"] IN
        next.phase = "admitted" /\ next.session = turn[t].session /\ next.now = turn[t].now
  BY <1>2 DEF Turn
<1>6. turn'[t] = [turn[t] EXCEPT !.phase = "admitted"] /\ OthersTurn(t)
  BY <1>2, <1>4 DEF OthersTurn
<1>7. /\ usage'[s].registered
      /\ usage'[s].bytes = usage[s].bytes
      /\ usage'[s].activity = Later(usage[s].activity, turn[t].now)
      /\ \A r \in Sessions \ {s} : usage'[r] = usage[r]
  BY <1>2, <1>3, <1>4
<1> QED
  BY <1>1, <1>3, <1>5, <1>6, <1>7

LEMMA RefuseDoes ==
  ASSUME TypeOK, NEW t \in Turns, Refuse(t)
  PROVE  /\ TypeOK'
         /\ turn[t].phase = "clocked"
         /\ turn'[t].phase = "idle"
         /\ OthersTurn(t)
         /\ usage' = usage /\ clock' = clock
<1>1. TypeOK'
  BY TypeStep DEF Next
<1>2. turn \in [Turns -> Turn]
  BY DEF TypeOK
<1> QED
  BY <1>1, <1>2, IdleIsTurn DEF Refuse, OthersTurn, storeVars

\* A settlement that charges no tokens.
LEMMA SettleDoes ==
  ASSUME TypeOK, NEW t \in Turns, Settle(t, 0)
  PROVE  /\ clock' = clock /\ late' = late /\ tokenRow' = tokenRow
         /\ leases' \subseteq Lease /\ IsFiniteSet(leases')
         /\ turn' \in [Turns -> Turn]
         /\ \A u \in Turns : turn'[u].phase # "idle" => turn'[u].session \in Sessions
         /\ turn[t].phase = "admitted"
         /\ turn[t].session \in Sessions
         /\ turn'[t].phase = "idle"
         /\ OthersTurn(t)
<1>1. /\ leases' = {m \in leases : m.turn # t}
      /\ turn[t].phase = "admitted"
      /\ turn' = [turn EXCEPT ![t] = Idle]
      /\ clock' = clock /\ late' = late
      /\ tokenRow' = tokenRow
  BY DEF Settle, Charge
<1>2. leases' \in SUBSET leases
  BY <1>1
<1>3. leases' \subseteq Lease /\ IsFiniteSet(leases')
  BY <1>2, FS_Subset DEF TypeOK
<1>4. turn \in [Turns -> Turn] /\ turn[t].session \in Sessions
  BY <1>1 DEF TypeOK
<1> QED
  BY <1>1, <1>3, <1>4, IdleIsTurn DEF TypeOK, OthersTurn

LEMMA SettleUnmeasuredDoes ==
  ASSUME TypeOK, NEW t \in Turns, SettleUnmeasured(t, 0)
  PROVE  /\ TypeOK'
         /\ turn[t].phase = "admitted"
         /\ turn'[t].phase = "idle"
         /\ OthersTurn(t)
         /\ usage' = usage /\ clock' = clock
<1>1. Settle(t, 0) /\ usage' = usage
  BY DEF SettleUnmeasured
<1> QED
  BY <1>1, SettleDoes DEF TypeOK

LEMMA SettleMeasuredDoes ==
  ASSUME TypeOK, NEW t \in Turns, NEW seen \in [Kinds -> Nat], SettleMeasured(t, 0, seen)
  PROVE  LET s == turn[t].session IN
           /\ TypeOK'
           /\ s \in Sessions
           /\ turn[t].phase = "admitted"
           /\ turn'[t].phase = "idle"
           /\ OthersTurn(t)
           /\ usage'[s].registered
           /\ usage'[s].bytes = seen
           /\ usage'[s].activity = Later(usage[s].activity, clock)
           /\ \A r \in Sessions \ {s} : usage'[r] = usage[r]
           /\ clock' = clock
<1> DEFINE s == turn[t].session
<1>1. Settle(t, 0) /\ Upsert(s, seen, clock)
  BY DEF SettleMeasured
<1>2. /\ clock' = clock /\ late' = late /\ tokenRow' = tokenRow
      /\ leases' \subseteq Lease /\ IsFiniteSet(leases')
      /\ turn' \in [Turns -> Turn]
      /\ \A u \in Turns : turn'[u].phase # "idle" => turn'[u].session \in Sessions
      /\ turn[t].phase = "admitted"
      /\ s \in Sessions
      /\ turn'[t].phase = "idle"
      /\ OthersTurn(t)
  BY <1>1, SettleDoes
<1>3. usage' \in [Sessions -> UsageRow]
  BY <1>1, <1>2, UpsertType DEF TypeOK
<1>4. TypeOK'
  BY <1>2, <1>3 DEF TypeOK
<1>5. usage \in [Sessions -> UsageRow]
  BY DEF TypeOK
<1>6. /\ usage'[s].registered
      /\ usage'[s].bytes = seen
      /\ usage'[s].activity = Later(usage[s].activity, clock)
      /\ \A r \in Sessions \ {s} : usage'[r] = usage[r]
  BY <1>1, <1>2, <1>5 DEF Upsert
<1> QED
  BY <1>2, <1>4, <1>6

LEMMA RemoveDoes ==
  ASSUME TypeOK, NEW s \in Sessions, RemoveSession(s)
  PROVE  /\ TypeOK'
         /\ turn' = turn /\ clock' = clock
         /\ usage'[s].bytes = NoFiles
         /\ ~ usage'[s].registered
         /\ \A r \in Sessions \ {s} : usage'[r] = usage[r]
<1>1. TypeOK'
  BY TypeStep DEF Next
<1>2. usage \in [Sessions -> UsageRow]
  BY DEF TypeOK
<1> QED
  BY <1>1, <1>2 DEF RemoveSession, Unregistered, NoFiles

LEMMA RestartDoes ==
  ASSUME TypeOK, Sized, Restart(files, written)
  PROVE  /\ TypeOK'
         /\ \A t \in Turns : turn'[t].phase = "idle"
         /\ clock' = clock
         /\ \A s \in Sessions :
              /\ usage'[s].registered = usage[s].registered
              /\ usage'[s].bytes = IF usage[s].registered THEN files[s] ELSE usage[s].bytes
<1>1. leases' \subseteq Lease /\ IsFiniteSet(leases')
  BY UnexpiredType DEF Restart, TypeOK
<1>2. ASSUME NEW s \in Sessions
      PROVE  LET row == [usage[s] EXCEPT !.bytes = files[s],
                                         !.activity = Later(@, written[s])] IN
               row \in UsageRow /\ row.registered = usage[s].registered /\ row.bytes = files[s]
  <2>1. /\ usage[s] \in UsageRow
        /\ usage[s].activity \in Nat
        /\ written[s] \in Nat
    BY DEF TypeOK, UsageRow, Sized
  <2>2. Later(usage[s].activity, written[s]) \in Nat
    BY <2>1 DEF Later
  <2>3. files[s] \in [Kinds -> Nat]
    BY DEF Sized
  <2> QED
    BY <2>1, <2>2, <2>3 DEF UsageRow
<1>3. usage \in [Sessions -> UsageRow]
  BY DEF TypeOK
<1>4. usage' = [s \in Sessions |->
                  IF usage[s].registered
                  THEN [usage[s] EXCEPT !.bytes = files[s],
                                        !.activity = Later(usage[s].activity, written[s])]
                  ELSE usage[s]]
  BY DEF Restart
<1>5. usage' \in [Sessions -> UsageRow]
  BY <1>2, <1>3, <1>4
<1>6. turn' \in [Turns -> Turn] /\ \A t \in Turns : turn'[t].phase = "idle"
  BY IdleIsTurn DEF Restart
<1>7. TypeOK'
  BY <1>1, <1>5, <1>6 DEF Restart, TypeOK
<1>8. \A s \in Sessions :
        /\ usage'[s].registered = usage[s].registered
        /\ usage'[s].bytes = IF usage[s].registered THEN files[s] ELSE usage[s].bytes
  BY <1>2, <1>4
<1> QED
  BY <1>6, <1>7, <1>8 DEF Restart

-----------------------------------------------------------------------------
(* What the steps of the lifecycle do to a turn's locals and to the sweep. *)

LEMMA WorkMoves ==
  ASSUME Kept, NEW t \in Turns, NEW next \in Works, work' = [work EXCEPT ![t] = next]
  PROVE  work' \in [Turns -> Works] /\ work'[t] = next /\ OthersWork(t)
BY DEF Kept, OthersWork

LEMMA ChatEntersDoes ==
  ASSUME TypeOK, Kept, NEW c \in Turns, ChatEnters(c)
  PROVE  LET s == turn[c].session IN
           /\ s \in Sessions
           /\ work' \in [Turns -> Works]
           /\ work[c].stage = "away"
           /\ work'[c].stage = "inside"
           /\ work'[c].session = s
           /\ OthersWork(c)
<1> DEFINE s == turn[c].session
           next == [Away EXCEPT !.stage = "inside", !.session = s]
<1>1. s \in Sessions
  BY DEF ChatEnters, TypeOK
<1>2. next \in Works /\ next.stage = "inside" /\ next.session = s
  BY <1>1 DEF Away, Works, NoFiles
<1>3. work' = [work EXCEPT ![c] = next] /\ work[c].stage = "away"
  BY AwayIsWork DEF ChatEnters
<1> HIDE DEF next
<1> QED
  BY <1>1, <1>2, <1>3, WorkMoves

LEMMA MeasuresDoes ==
  ASSUME Sized, Kept, Joined, NEW t \in Turns, Measures(t)
  PROVE  LET s == work[t].session IN
           /\ s \in Sessions
           /\ work' \in [Turns -> Works]
           /\ work[t].stage = "inside"
           /\ work'[t].stage = "measured"
           /\ work'[t].session = s
           /\ work'[t].seen = files[s]
           /\ work'[t].claim = work[t].claim
           /\ OthersWork(t)
<1> DEFINE s == work[t].session
           next == [work[t] EXCEPT !.stage = "measured", !.seen = files[s]]
<1>1. s \in Sessions /\ work[t].stage = "inside"
  BY DEF Measures, Joined
<1>2. work[t] \in Works /\ work \in [Turns -> Works] /\ files[s] \in [Kinds -> Nat]
  BY <1>1 DEF Kept, Sized
<1>3. /\ next \in Works
      /\ next.stage = "measured"
      /\ next.session = s
      /\ next.seen = files[s]
      /\ next.claim = work[t].claim
  BY <1>2 DEF Works
<1>4. work' = [work EXCEPT ![t] = next]
  BY <1>2 DEF Measures
<1> HIDE DEF next
<1> QED
  BY <1>1, <1>3, <1>4, WorkMoves

LEMMA JobClaimsDoes ==
  ASSUME Kept, NEW j \in Turns, NEW s \in Sessions, JobClaims(j, s)
  PROVE  /\ work' \in [Turns -> Works]
         /\ work[j].stage = "away"
         /\ work[j].session = NoSession
         /\ work'[j].stage = "claimed"
         /\ work'[j].session = s
         /\ OthersWork(j)
<1> DEFINE next == [Away EXCEPT !.stage = "claimed", !.session = s, !.claim = TRUE]
<1>1. next \in Works /\ next.stage = "claimed" /\ next.session = s
  BY DEF Away, Works, NoFiles
<1>2. /\ work' = [work EXCEPT ![j] = next]
      /\ work[j].stage = "away"
      /\ work[j].session = NoSession
  BY AwayIsWork DEF JobClaims
<1> HIDE DEF next
<1> QED
  BY <1>1, <1>2, WorkMoves

LEMMA JobEntersDoes ==
  ASSUME Kept, Joined, NEW j \in Turns, JobEnters(j)
  PROVE  /\ work[j].session \in Sessions
         /\ work' \in [Turns -> Works]
         /\ work[j].stage = "claimed"
         /\ work'[j].stage = "inside"
         /\ work'[j].session = work[j].session
         /\ OthersWork(j)
<1> DEFINE next == [work[j] EXCEPT !.stage = "inside"]
<1>1. work[j] \in Works /\ work \in [Turns -> Works]
  BY DEF Kept
<1>2. next \in Works /\ next.stage = "inside" /\ next.session = work[j].session
  BY <1>1 DEF Works
<1>3. work' = [work EXCEPT ![j] = next] /\ work[j].stage = "claimed"
  BY <1>1 DEF JobEnters
<1>4. work[j].session \in Sessions
  BY <1>3 DEF Joined
<1> HIDE DEF next
<1> QED
  BY <1>2, <1>3, <1>4, WorkMoves

\* A turn that is over, one way or another.
LEMMA LeavesDoes ==
  ASSUME Kept, NEW t \in Turns, work' = [work EXCEPT ![t] = Away]
  PROVE  /\ work' \in [Turns -> Works]
         /\ work'[t].stage = "away"
         /\ work'[t].session = NoSession
         /\ OthersWork(t)
BY AwayIsWork, WorkMoves

LEMMA CompletesDoes ==
  ASSUME TypeOK, Kept, NEW j \in Turns, Completes(j)
  PROVE  /\ scheduled' \in [Sessions -> Nat \cup {NoSchedule}]
         /\ \A s \in Sessions : scheduled[s] = NoSchedule <=> scheduled'[s] = NoSchedule
<1>1. clock \in Nat /\ clock # NoSchedule
  BY DEF TypeOK, NoSchedule
<1> QED
  BY <1>1 DEF Completes, Kept

LEMMA PutScheduleDoes ==
  ASSUME TypeOK, Kept, NEW s \in Sessions, PutSchedule(s)
  PROVE  /\ scheduled' \in [Sessions -> Nat \cup {NoSchedule}]
         /\ \A r \in Sessions \ {s} : scheduled'[r] = scheduled[r]
         /\ work' \in [Turns -> Works]
         /\ \A t \in Turns : /\ work'[t].stage = work[t].stage
                             /\ work'[t].session = work[t].session
                             /\ work'[t].seen = work[t].seen
<1>1. ASSUME NEW t \in Turns
      PROVE  LET next == IF work[t].session = s
                           THEN [work[t] EXCEPT !.claim = FALSE] ELSE work[t] IN
               /\ next \in Works
               /\ next.stage = work[t].stage
               /\ next.session = work[t].session
               /\ next.seen = work[t].seen
  <2>1. work[t] \in Works
    BY DEF Kept
  <2> QED
    BY <2>1 DEF Works
<1>2. work' = [t \in Turns |->
        IF work[t].session = s THEN [work[t] EXCEPT !.claim = FALSE] ELSE work[t]]
  BY DEF PutSchedule
<1>3. /\ work' \in [Turns -> Works]
      /\ \A t \in Turns : /\ work'[t].stage = work[t].stage
                          /\ work'[t].session = work[t].session
                          /\ work'[t].seen = work[t].seen
  BY <1>1, <1>2
<1>4. scheduled' = [scheduled EXCEPT ![s] = clock] /\ clock \in Nat
  BY DEF PutSchedule, TypeOK
<1> QED
  BY <1>3, <1>4 DEF Kept

\* An erasure makes a file, or none, go.
LEMMA RemoveFileDoes ==
  ASSUME Sized, NEW s \in Sessions, NEW k \in Kinds, RemoveFile(s, k)
  PROVE  /\ Sized'
         /\ \A r \in Sessions \ {s} : files'[r] = files[r]
         /\ files'[s][k] = 0
         /\ \A m \in Kinds \ {k} : files'[s][m] = files[s][m]
<1>1. files \in [Sessions -> [Kinds -> Nat]] /\ files[s] \in [Kinds -> Nat]
  BY DEF Sized
<1>2. files' = [files EXCEPT ![s] = [files[s] EXCEPT ![k] = 0]]
  BY <1>1 DEF RemoveFile
<1>3. /\ files' \in [Sessions -> [Kinds -> Nat]]
      /\ files'[s] = [files[s] EXCEPT ![k] = 0]
      /\ \A r \in Sessions \ {s} : files'[r] = files[r]
  BY <1>1, <1>2
<1>4. written' \in [Sessions -> Nat]
  BY DEF RemoveFile, Sized
<1> QED
  BY <1>1, <1>3, <1>4 DEF Sized

LEMMA WritesDoes ==
  ASSUME TypeOK, Sized, Joined, NEW t \in Turns, NEW f \in Footprints, Writes(t, f)
  PROVE  /\ Sized'
         /\ work[t].session \in Sessions
         /\ work[t].stage = "inside"
         /\ turn[t].phase = "admitted"
         /\ \A r \in Sessions \ {work[t].session} : files'[r] = files[r]
<1>1. work[t].session \in Sessions /\ work[t].stage = "inside" /\ turn[t].phase = "admitted"
  BY DEF Writes, Joined
<1>2. f \in [Kinds -> Nat] /\ clock \in Nat
  BY ByteAssumption DEF TypeOK, ByteAssumption
<1> QED
  BY <1>1, <1>2 DEF Writes, Sized

\* The sweep.
LEMMA SweepStartsDoes ==
  ASSUME TypeOK, SweepStarts
  PROVE  sweep' \in Sweeps /\ sweep'.stage = "looking" /\ sweep'.cutoff = clock - Retention
<1>1. clock - Retention \in Int
  BY DurationAssumption DEF TypeOK, DurationAssumption
<1>2. {s \in Sessions : Inactive(s, clock - Retention)} \in SUBSET Sessions
  OBVIOUS
<1>3. sweep' = [stage |-> "looking", session |-> NoSession, cutoff |-> clock - Retention,
                left |-> {s \in Sessions : Inactive(s, clock - Retention)}]
  BY DEF SweepStarts
<1> QED
  BY <1>1, <1>2, <1>3 DEF Sweeps

LEMMA SweepLocksDoes ==
  ASSUME Kept, NEW s \in Sessions, SweepLocks(s)
  PROVE  /\ sweep' \in Sweeps
         /\ sweep'.cutoff = sweep.cutoff
         /\ sweep.stage = "looking"
         /\ Inactive(s, sweep.cutoff) => sweep'.stage = "checked" /\ sweep'.session = s
         /\ ~ Inactive(s, sweep.cutoff) => sweep'.stage = "looking"
<1>1. sweep \in Sweeps /\ sweep.stage = "looking"
  BY DEF Kept, SweepLocks
<1>2. CASE Inactive(s, sweep.cutoff)
  <2>1. sweep' = [sweep EXCEPT !.stage = "checked", !.session = s, !.left = sweep.left \ {s}]
    BY <1>1, <1>2 DEF SweepLocks, Sweeps
  <2> QED
    BY <1>1, <1>2, <2>1 DEF Sweeps
<1>3. CASE ~ Inactive(s, sweep.cutoff)
  <2>1. sweep' = [sweep EXCEPT !.left = sweep.left \ {s}]
    BY <1>1, <1>3 DEF SweepLocks, Sweeps
  <2> QED
    BY <1>1, <1>3, <2>1 DEF Sweeps
<1> QED
  BY <1>2, <1>3

LEMMA SweepAsksDoes ==
  ASSUME Kept, SweepAsks
  PROVE  /\ sweep' \in Sweeps
         /\ sweep'.cutoff = sweep.cutoff
         /\ sweep.stage = "checked"
         /\ ScheduleActive(sweep.session, sweep.cutoff) => sweep'.stage = "looking"
         /\ ~ ScheduleActive(sweep.session, sweep.cutoff) =>
              sweep'.stage = "clearing" /\ sweep'.session = sweep.session
<1>1. sweep \in Sweeps /\ sweep.stage = "checked"
  BY DEF Kept, SweepAsks
<1>2. CASE ScheduleActive(sweep.session, sweep.cutoff)
  <2>1. sweep' = [sweep EXCEPT !.stage = "looking", !.session = NoSession]
    BY <1>2 DEF SweepAsks
  <2> QED
    BY <1>1, <1>2, <2>1 DEF Sweeps
<1>3. CASE ~ ScheduleActive(sweep.session, sweep.cutoff)
  <2>1. sweep' = [sweep EXCEPT !.stage = "clearing"]
    BY <1>3 DEF SweepAsks
  <2> QED
    BY <1>1, <1>3, <2>1 DEF Sweeps
<1> QED
  BY <1>2, <1>3

LEMMA SweepSchedulesDoes ==
  ASSUME Kept, SweepSchedules
  PROVE  /\ sweep' \in Sweeps
         /\ sweep'.cutoff = sweep.cutoff
         /\ sweep.stage = "clearing"
         /\ sweep'.stage = "erasing"
         /\ sweep'.session = sweep.session
<1>1. sweep \in Sweeps
  BY DEF Kept
<1> QED
  BY <1>1 DEF SweepSchedules, Sweeps

LEMMA SweepRowDoes ==
  ASSUME Kept, SweepRow
  PROVE  /\ sweep' \in Sweeps
         /\ sweep'.cutoff = sweep.cutoff
         /\ sweep.stage = "erasing"
         /\ sweep'.stage = "looking"
<1>1. sweep \in Sweeps
  BY DEF Kept
<1> QED
  BY <1>1 DEF SweepRow, Sweeps

-----------------------------------------------------------------------------
(* Types. *)

\* An unlocking, and a locking.
LEMMA HolderMoves ==
  ASSUME Kept, NEW s \in Sessions, NEW who \in Turns \cup Deleters \cup {Sweeper, Nobody},
         holder' = [holder EXCEPT ![s] = who]
  PROVE  /\ holder' \in [Sessions -> Turns \cup Deleters \cup {Sweeper, Nobody}]
         /\ holder'[s] = who
         /\ \A r \in Sessions \ {s} : holder'[r] = holder[r]
BY DEF Kept

\* Every step keeps the types of the ledger and of the lifecycle.
LEMMA LifeTypesStep ==
  ASSUME TypeOK, Sized, Kept, Joined, [LifeNext]_allVars
  PROVE  TypeOK' /\ Sized' /\ Kept'
<1> USE DEF lifeVars
<1>0. /\ Chats \subseteq Turns /\ Jobs \subseteq Turns
      /\ \A t \in Turns : t \in Turns \cup Deleters \cup {Sweeper, Nobody}
      /\ \A d \in Deleters : d \in Turns \cup Deleters \cup {Sweeper, Nobody}
      /\ Sweeper \in Turns \cup Deleters \cup {Sweeper, Nobody}
      /\ Nobody \in Turns \cup Deleters \cup {Sweeper, Nobody}
      /\ NoSchedule \in Nat \cup {NoSchedule}
      /\ NoSession \in Sessions \cup {NoSession}
  BY Threads
<1>1. ASSUME NEW c \in Chats, ChatAcquires(c)
      PROVE  TypeOK' /\ Sized' /\ Kept'
  <2>1. TypeOK'
    BY <1>0, <1>1, ReadClockDoes, AdmitDoes, RefuseDoes DEF ChatAcquires
  <2> QED
    BY <1>1, <2>1 DEF ChatAcquires, Sized, Kept
<1>2. ASSUME NEW c \in Chats, ChatEnters(c)
      PROVE  TypeOK' /\ Sized' /\ Kept'
  <2>1. turn[c].session \in Sessions /\ work' \in [Turns -> Works]
    BY <1>0, <1>2, ChatEntersDoes
  <2>2. holder' \in [Sessions -> Turns \cup Deleters \cup {Sweeper, Nobody}]
    BY <1>0, <1>2, <2>1, HolderMoves DEF ChatEnters, Lock
  <2> QED
    BY <1>2, <2>1, <2>2 DEF ChatEnters, TypeOK, vars, Sized, Kept
<1>3. ASSUME NEW c \in Chats, ChatGivesUp(c)
      PROVE  TypeOK' /\ Sized' /\ Kept'
  <2>1. TypeOK'
    BY <1>0, <1>3, SettleUnmeasuredDoes DEF ChatGivesUp
  <2> QED
    BY <1>3, <2>1 DEF ChatGivesUp, Sized, Kept
<1>4. ASSUME NEW t \in Turns, Measures(t)
      PROVE  TypeOK' /\ Sized' /\ Kept'
  <2>1. work[t].session \in Sessions /\ work' \in [Turns -> Works]
    BY <1>4, MeasuresDoes
  <2>2. holder' \in [Sessions -> Turns \cup Deleters \cup {Sweeper, Nobody}]
    BY <1>0, <1>4, <2>1, HolderMoves DEF Measures, Unlock, Kept
  <2> QED
    BY <1>4, <2>1, <2>2 DEF Measures, TypeOK, vars, Sized, Kept
<1>5. ASSUME NEW t \in Turns, NEW f \in Footprints, Writes(t, f)
      PROVE  TypeOK' /\ Sized' /\ Kept'
  <2>1. Sized'
    BY <1>5, WritesDoes
  <2> QED
    BY <1>5, <2>1 DEF Writes, TypeOK, vars, Kept
<1>6. ASSUME NEW c \in Chats, ChatSettles(c)
      PROVE  TypeOK' /\ Sized' /\ Kept'
  <2>1. work[c].seen \in [Kinds -> Nat]
    BY <1>0 DEF Kept, Works
  <2>2. TypeOK'
    BY <1>0, <1>6, <2>1, SettleMeasuredDoes DEF ChatSettles
  <2>3. work' \in [Turns -> Works]
    BY <1>0, <1>6, LeavesDoes DEF ChatSettles
  <2> QED
    BY <1>6, <2>2, <2>3 DEF ChatSettles, Sized, Kept
<1>7. ASSUME NEW j \in Jobs, NEW s \in Sessions, JobClaims(j, s)
      PROVE  TypeOK' /\ Sized' /\ Kept'
  <2>1. work' \in [Turns -> Works]
    BY <1>0, <1>7, JobClaimsDoes
  <2> QED
    BY <1>7, <2>1 DEF JobClaims, TypeOK, vars, Sized, Kept
<1>8. ASSUME NEW j \in Jobs, JobEnters(j)
      PROVE  TypeOK' /\ Sized' /\ Kept'
  <2>1. work[j].session \in Sessions /\ work' \in [Turns -> Works]
    BY <1>0, <1>8, JobEntersDoes
  <2>2. holder' \in [Sessions -> Turns \cup Deleters \cup {Sweeper, Nobody}]
    BY <1>0, <1>8, <2>1, HolderMoves DEF JobEnters, Lock
  <2> QED
    BY <1>8, <2>1, <2>2 DEF JobEnters, TypeOK, vars, Sized, Kept
<1>9. ASSUME NEW j \in Jobs, Completes(j), work' = [work EXCEPT ![j] = Away],
             orphans' = orphans \ {j}, UNCHANGED <<files, written, deleting, sweep, mode>>,
             TypeOK', holder' \in [Sessions -> Turns \cup Deleters \cup {Sweeper, Nobody}]
      PROVE  TypeOK' /\ Sized' /\ Kept'
  <2>1. work' \in [Turns -> Works]
    BY <1>0, <1>9, LeavesDoes
  <2>2. scheduled' \in [Sessions -> Nat \cup {NoSchedule}]
    BY <1>0, <1>9, CompletesDoes
  <2> QED
    BY <1>9, <2>1, <2>2 DEF Sized, Kept
<1>10. ASSUME NEW j \in Jobs, JobSkips(j)
       PROVE  TypeOK' /\ Sized' /\ Kept'
  <2>1. TypeOK' /\ holder' \in [Sessions -> Turns \cup Deleters \cup {Sweeper, Nobody}]
    BY <1>10 DEF JobSkips, TypeOK, vars, Kept
  <2> QED
    BY <1>9, <1>10, <2>1 DEF JobSkips
<1>11. ASSUME NEW j \in Jobs, JobAcquires(j)
       PROVE  TypeOK' /\ Sized' /\ Kept'
  <2>1. work[j].session \in Sessions
    BY <1>0, <1>11 DEF JobAcquires, Joined
  <2>2. TypeOK'
    BY <1>0, <1>11, <2>1, ReadClockDoes, AdmitDoes DEF JobAcquires
  <2> QED
    BY <1>11, <2>2 DEF JobAcquires, Sized, Kept
<1>12. ASSUME NEW j \in Jobs, JobRefused(j)
       PROVE  TypeOK' /\ Sized' /\ Kept'
  <2>1. work[j].session \in Sessions
    BY <1>0, <1>12 DEF JobRefused, Joined
  <2>2. holder' \in [Sessions -> Turns \cup Deleters \cup {Sweeper, Nobody}]
    BY <1>0, <1>12, <2>1, HolderMoves DEF JobRefused, Unlock
  <2>3. TypeOK'
    BY <1>0, <1>12, RefuseDoes DEF JobRefused
  <2> QED
    BY <1>9, <1>12, <2>2, <2>3 DEF JobRefused
<1>13. ASSUME NEW j \in Jobs, JobSettles(j)
       PROVE  TypeOK' /\ Sized' /\ Kept'
  <2>1. work[j].session \in Sessions /\ work[j].seen \in [Kinds -> Nat]
    BY <1>0, <1>13 DEF JobSettles, Joined, Kept, Works
  <2>2. holder' \in [Sessions -> Turns \cup Deleters \cup {Sweeper, Nobody}]
    BY <1>0, <1>13, <2>1, HolderMoves DEF JobSettles, Unlock
  <2>3. TypeOK'
    BY <1>0, <1>13, <2>1, SettleMeasuredDoes DEF JobSettles
  <2> QED
    BY <1>9, <1>13, <2>2, <2>3 DEF JobSettles
<1>14. ASSUME NEW s \in Sessions, PutSchedule(s)
       PROVE  TypeOK' /\ Sized' /\ Kept'
  <2>1. scheduled' \in [Sessions -> Nat \cup {NoSchedule}] /\ work' \in [Turns -> Works]
    BY <1>14, PutScheduleDoes
  <2> QED
    BY <1>14, <2>1 DEF PutSchedule, TypeOK, vars, Sized, Kept
<1>15. ASSUME NEW s \in Sessions, DropSchedule(s)
       PROVE  TypeOK' /\ Sized' /\ Kept'
  <2>1. scheduled' \in [Sessions -> Nat \cup {NoSchedule}]
    BY <1>0, <1>15 DEF DropSchedule, Kept
  <2> QED
    BY <1>15, <2>1 DEF DropSchedule, TypeOK, vars, Sized, Kept
<1>16. ASSUME NEW d \in Deleters, NEW s \in Sessions, DeleteLocks(d, s)
       PROVE  TypeOK' /\ Sized' /\ Kept'
  <2>1. holder' \in [Sessions -> Turns \cup Deleters \cup {Sweeper, Nobody}]
    BY <1>0, <1>16, HolderMoves DEF DeleteLocks, Lock
  <2>2. scheduled' \in [Sessions -> Nat \cup {NoSchedule}]
    BY <1>0, <1>16 DEF DeleteLocks, Kept
  <2>3. deleting' \in [Deleters -> Sessions \cup {NoSession}]
    BY <1>0, <1>16 DEF DeleteLocks, Kept
  <2> QED
    BY <1>16, <2>1, <2>2, <2>3 DEF DeleteLocks, TypeOK, vars, Sized, Kept
<1>17. ASSUME NEW d \in Deleters, NEW k \in Kinds, DeleteFile(d, k)
       PROVE  TypeOK' /\ Sized' /\ Kept'
  <2>1. deleting[d] \in Sessions
    BY <1>17 DEF DeleteFile, Kept
  <2>2. Sized'
    BY <1>17, <2>1, RemoveFileDoes DEF DeleteFile
  <2> QED
    BY <1>17, <2>2 DEF DeleteFile, TypeOK, vars, Kept
<1>18. ASSUME NEW d \in Deleters, DeleteRow(d) \/ DeleteFails(d)
       PROVE  TypeOK' /\ Sized' /\ Kept'
  <2>1. deleting[d] \in Sessions
    BY <1>18 DEF DeleteRow, DeleteFails, Kept
  <2>2. holder' \in [Sessions -> Turns \cup Deleters \cup {Sweeper, Nobody}]
    BY <1>0, <1>18, <2>1, HolderMoves DEF DeleteRow, DeleteFails, Unlock
  <2>3. deleting' \in [Deleters -> Sessions \cup {NoSession}]
    BY <1>0, <1>18 DEF DeleteRow, DeleteFails, Kept
  <2>4. TypeOK'
    <3>1. CASE RemoveSession(deleting[d])
      BY <2>1, <3>1, RemoveDoes
    <3>2. CASE UNCHANGED vars
      BY <3>2 DEF vars, TypeOK
    <3> QED
      BY <1>18, <3>1, <3>2 DEF DeleteRow, DeleteFails
  <2>5. UNCHANGED <<files, written, scheduled, work, sweep, mode, orphans>>
    BY <1>18 DEF DeleteRow, DeleteFails
  <2> QED
    BY <2>2, <2>3, <2>4, <2>5 DEF Sized, Kept
<1>19. CASE SweepStarts
  <2>1. sweep' \in Sweeps
    BY <1>19, SweepStartsDoes
  <2> QED
    BY <1>19, <2>1 DEF SweepStarts, TypeOK, vars, Sized, Kept
<1>20. ASSUME NEW s \in Sessions, SweepLocks(s)
       PROVE  TypeOK' /\ Sized' /\ Kept'
  <2>1. sweep' \in Sweeps
    BY <1>20, SweepLocksDoes
  <2>2. holder' \in [Sessions -> Turns \cup Deleters \cup {Sweeper, Nobody}]
    BY <1>0, <1>20, HolderMoves DEF SweepLocks, Lock, Kept
  <2> QED
    BY <1>20, <2>1, <2>2 DEF SweepLocks, TypeOK, vars, Sized, Kept
<1>21. CASE SweepAsks
  <2>1. sweep' \in Sweeps
    BY <1>21, SweepAsksDoes
  <2>2. sweep.session \in Sessions
    BY <1>21 DEF SweepAsks, Joined, Holding
  <2>3. holder' \in [Sessions -> Turns \cup Deleters \cup {Sweeper, Nobody}]
    BY <1>0, <1>21, <2>2, HolderMoves DEF SweepAsks, Unlock, Kept
  <2> QED
    BY <1>21, <2>1, <2>3 DEF SweepAsks, TypeOK, vars, Sized, Kept
<1>22. CASE SweepSchedules
  <2>1. sweep' \in Sweeps
    BY <1>22, SweepSchedulesDoes
  <2>2. scheduled' \in [Sessions -> Nat \cup {NoSchedule}]
    BY <1>0, <1>22 DEF SweepSchedules, Kept
  <2> QED
    BY <1>22, <2>1, <2>2 DEF SweepSchedules, TypeOK, vars, Sized, Kept
<1>23. ASSUME NEW k \in Kinds, SweepFile(k)
       PROVE  TypeOK' /\ Sized' /\ Kept'
  <2>1. sweep.session \in Sessions
    BY <1>23 DEF SweepFile, Joined, Holding
  <2>2. Sized'
    BY <1>23, <2>1, RemoveFileDoes DEF SweepFile
  <2> QED
    BY <1>23, <2>2 DEF SweepFile, TypeOK, vars, Kept
<1>24. CASE SweepRow
  <2>1. sweep' \in Sweeps
    BY <1>24, SweepRowDoes
  <2>2. sweep.session \in Sessions
    BY <1>24 DEF SweepRow, Joined, Holding
  <2>3. holder' \in [Sessions -> Turns \cup Deleters \cup {Sweeper, Nobody}]
    BY <1>0, <1>24, <2>2, HolderMoves DEF SweepRow, Unlock
  <2>4. TypeOK'
    <3>1. CASE RemoveSession(sweep.session)
      BY <2>2, <3>1, RemoveDoes
    <3>2. CASE UNCHANGED vars
      BY <3>2 DEF vars, TypeOK
    <3> QED
      BY <1>24, <3>1, <3>2 DEF SweepRow
  <2>5. UNCHANGED <<files, written, scheduled, work, deleting, mode, orphans>>
    BY <1>24 DEF SweepRow
  <2> QED
    BY <2>1, <2>3, <2>4, <2>5 DEF Sized, Kept
<1>25. CASE SweepEnds
  <2>1. scheduled' \in [Sessions -> Nat \cup {NoSchedule}]
    BY <1>0, <1>25 DEF SweepEnds, Kept
  <2>2. sweep' \in Sweeps
    BY <1>25, RestingIsSweep DEF SweepEnds
  <2> QED
    BY <1>25, <2>1, <2>2 DEF SweepEnds, TypeOK, vars, Sized, Kept
<1>26. CASE SweepFails
  <2>1. sweep' \in Sweeps
    BY <1>26, RestingIsSweep DEF SweepFails
  <2>2. sweep.session \in Sessions
    BY <1>26 DEF SweepFails, Joined, Holding
  <2>3. holder' \in [Sessions -> Turns \cup Deleters \cup {Sweeper, Nobody}]
    BY <1>0, <1>26, <2>2, HolderMoves DEF SweepFails, Unlock
  <2> QED
    BY <1>26, <2>1, <2>3 DEF SweepFails, TypeOK, vars, Sized, Kept
<1>27. CASE Crash
  <2>1. /\ turn' \in [Turns -> Turn]
        /\ \A t \in Turns : turn'[t].phase # "idle" => turn'[t].session \in Sessions
    BY <1>27, IdleIsTurn DEF Crash
  <2>2. work' \in [Turns -> Works] /\ sweep' \in Sweeps
    BY <1>27, AwayIsWork, RestingIsSweep DEF Crash
  <2>3. /\ holder' \in [Sessions -> Turns \cup Deleters \cup {Sweeper, Nobody}]
        /\ deleting' \in [Deleters -> Sessions \cup {NoSession}]
        /\ mode' \in {"up", "down", "refused"}
        /\ orphans' \subseteq Jobs
    BY <1>0, <1>27 DEF Crash
  <2>4. UNCHANGED <<clock, leases, tokenRow, usage, late, files, written, scheduled>>
    BY <1>27 DEF Crash
  <2>5. TypeOK'
    BY <2>1, <2>4 DEF TypeOK
  <2> QED
    BY <2>2, <2>3, <2>4, <2>5 DEF Sized, Kept
<1>28. CASE Start
  <2>1. TypeOK'
    <3>1. CASE Restart(files, written)
      BY <3>1, RestartDoes
    <3>2. CASE leases' = Unexpired(clock) /\ UNCHANGED <<clock, tokenRow, usage, turn, late>>
      BY <3>2, UnexpiredType DEF TypeOK
    <3> QED
      BY <1>28, <3>1, <3>2 DEF Start
  <2>2. mode' \in {"up", "down", "refused"}
    BY <1>28 DEF Start
  <2> QED
    BY <1>28, <2>1, <2>2 DEF Start, Sized, Kept
<1>29. CASE LifeTick
  <2>1. TypeOK'
    BY <1>29, TypeStep DEF LifeTick, Next
  <2> QED
    BY <1>29, <2>1 DEF LifeTick, Sized, Kept
<1>30. CASE UNCHANGED allVars
  BY <1>30 DEF allVars, vars, TypeOK, Sized, Kept
<1> QED
  BY <1>0, <1>1, <1>2, <1>3, <1>4, <1>5, <1>6, <1>7, <1>8, <1>10, <1>11, <1>12, <1>13, <1>14,
     <1>15, <1>16, <1>17, <1>18, <1>19, <1>20, <1>21, <1>22, <1>23, <1>24, <1>25, <1>26, <1>27,
     <1>28, <1>29, <1>30
  DEF LifeNext, ChatNext, JobNext, DeleteNext, SweepNext

-----------------------------------------------------------------------------
(* The invariant, conjunct by conjunct. *)

LEMMA TwoKinds == /\ Chats \subseteq Turns /\ Jobs \subseteq Turns
                  /\ Turns = Chats \cup Jobs
                  /\ \A c \in Chats : c \notin Jobs
                  /\ \A j \in Jobs : j \notin Chats
BY ThreadAssumption DEF ThreadAssumption

\* Where a turn is follows what it does.
LEMMA JoinedStep ==
  ASSUME TypeOK, Sized, Kept, Joined, Still, [LifeNext]_allVars
  PROVE  Joined'
<1> USE TwoKinds DEF lifeVars
<1> DEFINE TurnJoined(t) ==
      /\ work'[t].stage = "away" => work'[t].session = NoSession
      /\ work'[t].stage # "away" => work'[t].session \in Sessions
      /\ t \in Chats /\ work'[t].stage # "away" => /\ work'[t].stage # "claimed"
                                                   /\ turn'[t].phase = "admitted"
                                                   /\ turn'[t].session = work'[t].session
      /\ t \in Jobs =>
           /\ turn'[t].phase # "idle" => /\ work'[t].stage \in {"inside", "measured"}
                                         /\ turn'[t].session = work'[t].session
           /\ work'[t].stage = "measured" => turn'[t].phase = "admitted"
           SweepJoined == sweep'.stage \in Holding => sweep'.session \in Sessions
<1>a. ASSUME \A t \in Turns : TurnJoined(t), SweepJoined
      PROVE  Joined'
  BY <1>a DEF Joined
<1>b. ASSUME NEW t \in Turns, turn'[t] = turn[t], work'[t] = work[t]
      PROVE  TurnJoined(t)
  BY <1>b DEF Joined
<1>c. ASSUME UNCHANGED sweep
      PROVE  SweepJoined
  BY <1>c DEF Joined
\* One turn moves, and the sweep does not.
<1>d. ASSUME NEW t \in Turns, TurnJoined(t), UNCHANGED sweep,
             OthersTurn(t) \/ UNCHANGED turn, OthersWork(t) \/ UNCHANGED work
      PROVE  Joined'
  <2>1. ASSUME NEW u \in Turns, u # t
        PROVE  TurnJoined(u)
    <3>1. turn'[u] = turn[u] /\ work'[u] = work[u]
      BY <1>d, <2>1 DEF OthersTurn, OthersWork
    <3> QED
      BY <3>1, <1>b
  <2> QED
    BY <1>a, <1>c, <1>d, <2>1
\* The sweep moves, and the turns do not.
<1>e. ASSUME SweepJoined, UNCHANGED <<turn, work>>
      PROVE  Joined'
  BY <1>a, <1>b, <1>e
<1>f. ASSUME NEW t \in Turns
      PROVE  /\ work[t].stage = "away" => work[t].session = NoSession
             /\ work[t].stage # "away" => work[t].session \in Sessions
             /\ t \in Chats /\ work[t].stage # "away" =>
                  /\ work[t].stage # "claimed"
                  /\ turn[t].phase = "admitted"
                  /\ turn[t].session = work[t].session
             /\ t \in Jobs =>
                  /\ turn[t].phase # "idle" => /\ work[t].stage \in {"inside", "measured"}
                                               /\ turn[t].session = work[t].session
                  /\ work[t].stage = "measured" => turn[t].phase = "admitted"
  BY DEF Joined
<1>g. sweep.stage \in Holding => sweep.session \in Sessions
  BY DEF Joined
<1> HIDE DEF TurnJoined, SweepJoined
<1>1. ASSUME NEW c \in Chats, ChatAcquires(c)
      PROVE  Joined'
  <2>1. UNCHANGED <<work, sweep>> /\ work[c].stage = "away" /\ work[c].session = NoSession
    BY <1>1, AwayIsWork DEF ChatAcquires
  <2>2. OthersTurn(c)
    BY <1>1, ReadClockDoes, AdmitDoes, RefuseDoes DEF ChatAcquires
  <2>3. TurnJoined(c)
    BY <2>1 DEF TurnJoined
  <2> QED
    BY <1>d, <2>1, <2>2, <2>3
<1>2. ASSUME NEW c \in Chats, ChatEnters(c)
      PROVE  Joined'
  <2>1. UNCHANGED <<turn, sweep>> /\ turn[c].phase = "admitted"
    BY <1>2 DEF ChatEnters, vars
  <2>2. /\ turn[c].session \in Sessions
        /\ work'[c].stage = "inside" /\ work'[c].session = turn[c].session
        /\ OthersWork(c)
    BY <1>2, ChatEntersDoes
  <2>3. TurnJoined(c)
    BY <2>1, <2>2 DEF TurnJoined
  <2> QED
    BY <1>d, <2>1, <2>2, <2>3
<1>3. ASSUME NEW c \in Chats, ChatGivesUp(c)
      PROVE  Joined'
  <2>1. UNCHANGED <<work, sweep>> /\ work[c].stage = "away" /\ work[c].session = NoSession
    BY <1>3, AwayIsWork DEF ChatGivesUp
  <2>2. OthersTurn(c)
    BY <1>3, SettleUnmeasuredDoes DEF ChatGivesUp
  <2>3. TurnJoined(c)
    BY <2>1 DEF TurnJoined
  <2> QED
    BY <1>d, <2>1, <2>2, <2>3
<1>4. ASSUME NEW t \in Turns, Measures(t)
      PROVE  Joined'
  <2>1. UNCHANGED <<turn, sweep>> /\ turn[t].phase = "admitted"
    BY <1>4 DEF Measures, vars
  <2>2. /\ work[t].session \in Sessions /\ work[t].stage = "inside"
        /\ work'[t].stage = "measured" /\ work'[t].session = work[t].session
        /\ OthersWork(t)
    BY <1>4, MeasuresDoes
  <2>3. TurnJoined(t)
    BY <1>f, <2>1, <2>2 DEF TurnJoined
  <2> QED
    BY <1>d, <2>1, <2>2, <2>3
<1>6. ASSUME NEW c \in Chats, ChatSettles(c)
      PROVE  Joined'
  <2>1. UNCHANGED sweep /\ work[c].seen \in [Kinds -> Nat]
    BY <1>6 DEF ChatSettles, Kept, Works
  <2>2. OthersTurn(c) /\ OthersWork(c) /\ work'[c].stage = "away" /\ work'[c].session = NoSession
    BY <1>6, <2>1, SettleMeasuredDoes, LeavesDoes DEF ChatSettles
  <2>3. TurnJoined(c)
    BY <2>2 DEF TurnJoined
  <2> QED
    BY <1>d, <2>1, <2>2, <2>3
<1>7. ASSUME NEW j \in Jobs, NEW s \in Sessions, JobClaims(j, s)
      PROVE  Joined'
  <2>1. UNCHANGED <<turn, sweep>>
    BY <1>7 DEF JobClaims, vars
  <2>2. /\ work[j].stage = "away"
        /\ work'[j].stage = "claimed" /\ work'[j].session = s
        /\ OthersWork(j)
    BY <1>7, JobClaimsDoes
  <2>3. TurnJoined(j)
    BY <1>f, <2>1, <2>2 DEF TurnJoined
  <2> QED
    BY <1>d, <2>1, <2>2, <2>3
<1>8. ASSUME NEW j \in Jobs, JobEnters(j)
      PROVE  Joined'
  <2>1. UNCHANGED <<turn, sweep>>
    BY <1>8 DEF JobEnters, vars
  <2>2. /\ work[j].session \in Sessions /\ work[j].stage = "claimed"
        /\ work'[j].stage = "inside" /\ work'[j].session = work[j].session
        /\ OthersWork(j)
    BY <1>8, JobEntersDoes
  <2>3. TurnJoined(j)
    BY <1>f, <2>1, <2>2 DEF TurnJoined
  <2> QED
    BY <1>d, <2>1, <2>2, <2>3
\* A job leaves, with its turn idle.
<1>9. ASSUME NEW j \in Jobs, work' = [work EXCEPT ![j] = Away], UNCHANGED sweep,
             turn'[j].phase = "idle", OthersTurn(j) \/ UNCHANGED turn
      PROVE  Joined'
  <2>1. work'[j].stage = "away" /\ work'[j].session = NoSession /\ OthersWork(j)
    BY <1>9, LeavesDoes
  <2>2. TurnJoined(j)
    BY <1>9, <2>1 DEF TurnJoined
  <2> QED
    BY <1>d, <1>9, <2>1, <2>2
<1>10. ASSUME NEW j \in Jobs, JobSkips(j)
       PROVE  Joined'
  <2>1. UNCHANGED <<turn, sweep>> /\ work[j].stage = "claimed" /\ work' = [work EXCEPT ![j] = Away]
    BY <1>10 DEF JobSkips, vars
  <2>2. turn[j].phase = "idle"
    BY <1>f, <2>1
  <2> QED
    BY <1>9, <2>1, <2>2
<1>11. ASSUME NEW j \in Jobs, JobAcquires(j)
       PROVE  Joined'
  <2>1. UNCHANGED <<work, sweep>> /\ work[j].stage = "inside"
    BY <1>11 DEF JobAcquires
  <2>2. OthersTurn(j) /\ turn'[j].session = work[j].session
    <3>1. CASE ReadClock(j, work[j].session)
      BY <1>f, <2>1, <3>1, ReadClockDoes
    <3>2. CASE Admit(j)
      BY <1>f, <2>1, <3>2, AdmitDoes
    <3> QED
      BY <1>11, <3>1, <3>2 DEF JobAcquires
  <2>3. TurnJoined(j)
    BY <1>f, <2>1, <2>2 DEF TurnJoined
  <2> QED
    BY <1>d, <2>1, <2>2, <2>3
<1>12. ASSUME NEW j \in Jobs, JobRefused(j)
       PROVE  Joined'
  BY <1>9, <1>12, RefuseDoes DEF JobRefused
<1>13. ASSUME NEW j \in Jobs, JobSettles(j)
       PROVE  Joined'
  <2>1. work[j].seen \in [Kinds -> Nat]
    BY DEF Kept, Works
  <2> QED
    BY <1>9, <1>13, <2>1, SettleMeasuredDoes DEF JobSettles
<1>14. ASSUME NEW s \in Sessions, PutSchedule(s)
       PROVE  Joined'
  <2>1. UNCHANGED <<turn, sweep>>
    BY <1>14 DEF PutSchedule, vars
  <2>2. \A t \in Turns : work'[t].stage = work[t].stage /\ work'[t].session = work[t].session
    BY <1>14, PutScheduleDoes
  <2>3. \A t \in Turns : TurnJoined(t)
    BY <1>f, <2>1, <2>2 DEF TurnJoined
  <2> QED
    BY <1>a, <1>c, <2>1, <2>3
\* Deletions, erasures and schedules move neither.
<1>15. ASSUME \/ \E t \in Turns, f \in Footprints : Writes(t, f)
              \/ \E s \in Sessions : DropSchedule(s)
              \/ \E d \in Deleters, s \in Sessions : DeleteLocks(d, s)
              \/ \E d \in Deleters, k \in Kinds : DeleteFile(d, k)
              \/ \E d \in Deleters : DeleteRow(d) \/ DeleteFails(d)
              \/ \E k \in Kinds : SweepFile(k)
              \/ LifeTick \/ UNCHANGED allVars
       PROVE  Joined'
  <2>1. UNCHANGED <<turn, work, sweep>>
    BY <1>15 DEF Writes, DropSchedule, DeleteLocks, DeleteFile, DeleteRow, DeleteFails, SweepFile,
                 LifeTick, Tick, RemoveSession, vars, allVars
  <2> QED
    BY <1>c, <1>e, <2>1
<1>19. CASE SweepStarts
  <2>1. UNCHANGED <<turn, work>> /\ sweep'.stage = "looking"
    BY <1>19, SweepStartsDoes DEF SweepStarts, vars
  <2> QED
    BY <1>e, <2>1 DEF SweepJoined, Holding
<1>20. ASSUME NEW s \in Sessions, SweepLocks(s)
       PROVE  Joined'
  <2>1. UNCHANGED <<turn, work>>
    BY <1>20 DEF SweepLocks, vars
  <2>2. SweepJoined
    BY <1>20, SweepLocksDoes DEF SweepJoined, Holding
  <2> QED
    BY <1>e, <2>1, <2>2
<1>21. CASE SweepAsks
  <2>1. UNCHANGED <<turn, work>>
    BY <1>21 DEF SweepAsks, vars
  <2>2. SweepJoined
    BY <1>21, <1>g, SweepAsksDoes DEF SweepJoined, Holding
  <2> QED
    BY <1>e, <2>1, <2>2
<1>22. CASE SweepSchedules
  <2>1. UNCHANGED <<turn, work>>
    BY <1>22 DEF SweepSchedules, vars
  <2>2. SweepJoined
    BY <1>22, <1>g, SweepSchedulesDoes DEF SweepJoined, Holding
  <2> QED
    BY <1>e, <2>1, <2>2
<1>24. CASE SweepRow
  <2>1. UNCHANGED <<turn, work>>
    BY <1>24 DEF SweepRow, RemoveSession, vars
  <2>2. SweepJoined
    BY <1>24, SweepRowDoes DEF SweepJoined, Holding
  <2> QED
    BY <1>e, <2>1, <2>2
<1>25. CASE SweepEnds \/ SweepFails
  <2>1. UNCHANGED <<turn, work>> /\ sweep' = Resting
    BY <1>25 DEF SweepEnds, SweepFails, vars
  <2> QED
    BY <1>e, <2>1, RestingIsSweep DEF SweepJoined, Holding
<1>27. CASE Crash
  <2>1. \A t \in Turns : /\ work'[t].stage = "away" /\ work'[t].session = NoSession
                         /\ turn'[t].phase = "idle"
    BY <1>27, AwayIsWork, IdleIsTurn DEF Crash
  <2>2. SweepJoined
    BY <1>27, RestingIsSweep DEF Crash, SweepJoined, Holding
  <2>3. \A t \in Turns : TurnJoined(t)
    BY <2>1 DEF TurnJoined
  <2> QED
    BY <1>a, <2>2, <2>3
<1>28. CASE Start
  <2>1. UNCHANGED <<work, sweep>>
    BY <1>28 DEF Start
  <2>2. \A t \in Turns : /\ work[t].stage = "away" /\ work[t].session = NoSession
                         /\ turn[t].phase = "idle" /\ turn'[t].phase = "idle"
    <3>1. \A t \in Turns : turn[t].phase = "idle" /\ work[t].stage = "away"
      BY <1>28 DEF Start, Still
    <3>2. UNCHANGED turn \/ \A t \in Turns : turn'[t].phase = "idle"
      BY <1>28, RestartDoes DEF Start
    <3> QED
      BY <1>f, <3>1, <3>2
  <2>3. \A t \in Turns : TurnJoined(t)
    BY <2>1, <2>2 DEF TurnJoined
  <2> QED
    BY <1>a, <1>c, <2>1, <2>3
<1> QED
  BY <1>1, <1>2, <1>3, <1>4, <1>6, <1>7, <1>8, <1>10, <1>11, <1>12, <1>13, <1>14, <1>15,
     <1>19, <1>20, <1>21, <1>22, <1>24, <1>25, <1>27, <1>28
  DEF LifeNext, ChatNext, JobNext, DeleteNext, SweepNext

\* The mode changes with a crash and a start only.
LEMMA ModeStays ==
  ASSUME [LifeNext]_allVars, ~ Start, ~ Crash
  PROVE  mode' = mode
<1> USE DEF lifeVars
<1>1. CASE LifeTick \/ UNCHANGED allVars
  BY <1>1 DEF LifeTick, allVars
<1>2. ASSUME NEW c \in Chats, ChatNext(c)
      PROVE  UNCHANGED mode
  BY <1>2 DEF ChatNext, ChatAcquires, ChatEnters, ChatGivesUp, ChatSettles, Measures, Writes
<1>3. ASSUME NEW j \in Jobs, JobNext(j)
      PROVE  UNCHANGED mode
  BY <1>3 DEF JobNext, JobClaims, JobEnters, JobSkips, JobAcquires, JobRefused, JobSettles,
              Measures, Writes
<1>4. ASSUME NEW d \in Deleters, DeleteNext(d)
      PROVE  UNCHANGED mode
  BY <1>4 DEF DeleteNext, DeleteLocks, DeleteFile, DeleteRow, DeleteFails
<1>5. ASSUME NEW s \in Sessions, PutSchedule(s) \/ DropSchedule(s)
      PROVE  UNCHANGED mode
  BY <1>5 DEF PutSchedule, DropSchedule
<1>6. ASSUME SweepNext
      PROVE  UNCHANGED mode
  BY <1>6 DEF SweepNext, SweepStarts, SweepLocks, SweepAsks, SweepSchedules, SweepFile, SweepRow,
              SweepEnds, SweepFails
<1> QED
  BY <1>1, <1>2, <1>3, <1>4, <1>5, <1>6 DEF LifeNext

\* A process that is down stays still, and one that goes down becomes so.
LEMMA StillStep ==
  ASSUME Still, [LifeNext]_allVars
  PROVE  Still'
<1> USE DEF lifeVars
<1>1. CASE Crash
  BY <1>1, IdleIsTurn, AwayIsWork, RestingIsSweep DEF Crash, Still
<1>2. CASE Start
  <2>1. UNCHANGED <<work, deleting, sweep>> /\ mode = "down"
    BY <1>2 DEF Start
  <2>2. UNCHANGED turn \/ \A t \in Turns : turn'[t].phase = "idle"
    BY <1>2, IdleIsTurn DEF Start, Restart
  <2> QED
    BY <2>1, <2>2 DEF Still
<1>3. CASE LifeTick \/ UNCHANGED allVars
  BY <1>3 DEF LifeTick, Tick, allVars, vars, Still
<1>4. CASE mode = "up" /\ ~ Crash
  <2>1. mode' = "up"
    BY <1>4, ModeStays DEF Start
  <2> QED
    BY <2>1 DEF Still
<1> QED
  BY <1>1, <1>2, <1>3, <1>4 DEF LifeNext

\* A thread takes a free lock and is past it then, or gives it back and is out.
LEMMA LockedStep ==
  ASSUME TypeOK, Sized, Kept, Joined, Locked, [LifeNext]_allVars
  PROVE  Locked'
<1> USE TwoKinds, Threads DEF lifeVars
<1> DEFINE Past(t, s) == /\ work[t].session = s
                         /\ \/ work[t].stage = "inside"
                            \/ work[t].stage = "measured" /\ t \in Jobs
           Past1(t, s) == /\ work'[t].session = s
                          /\ \/ work'[t].stage = "inside"
                             \/ work'[t].stage = "measured" /\ t \in Jobs
           Swept(s) == sweep.stage \in Holding /\ sweep.session = s
           Swept1(s) == sweep'.stage \in Holding /\ sweep'.session = s
<1>a. ASSUME NEW s \in Sessions
      PROVE  /\ \A t \in Turns : holder[s] = t <=> Past(t, s)
             /\ \A d \in Deleters : holder[s] = d <=> deleting[d] = s
             /\ holder[s] = Sweeper <=> Swept(s)
  BY DEF Locked
<1>b. ASSUME \A s \in Sessions :
               /\ \A t \in Turns : holder'[s] = t <=> Past1(t, s)
               /\ \A d \in Deleters : holder'[s] = d <=> deleting'[d] = s
               /\ holder'[s] = Sweeper <=> Swept1(s)
      PROVE  Locked'
  BY <1>b DEF Locked
<1>c. ASSUME UNCHANGED work
      PROVE  \A t \in Turns, s \in Sessions : Past1(t, s) <=> Past(t, s)
  BY <1>c
<1>d. ASSUME UNCHANGED sweep
      PROVE  \A s \in Sessions : Swept1(s) <=> Swept(s)
  BY <1>d
\* Another turn than t is where it was.
<1>e. ASSUME NEW t \in Turns, OthersWork(t)
      PROVE  \A u \in Turns \ {t}, s \in Sessions : Past1(u, s) <=> Past(u, s)
  BY <1>e DEF OthersWork
<1> HIDE DEF Past, Past1, Swept, Swept1
\* A turn moves, without a lock.
<1>f. ASSUME NEW t \in Turns, OthersWork(t), \A s \in Sessions : Past1(t, s) <=> Past(t, s),
             UNCHANGED <<holder, deleting, sweep>>
      PROVE  Locked'
  BY <1>a, <1>b, <1>d, <1>e, <1>f
\* A turn takes a free lock.
<1>g. ASSUME NEW t \in Turns, NEW s \in Sessions, OthersWork(t), Free(s), Lock(s, t),
             \A r \in Sessions : ~ Past(t, r), \A r \in Sessions : Past1(t, r) <=> r = s,
             UNCHANGED <<deleting, sweep>>
      PROVE  Locked'
  <2>1. holder'[s] = t /\ \A r \in Sessions \ {s} : holder'[r] = holder[r]
    BY <1>g DEF Lock, Kept
  <2> QED
    BY <1>a, <1>b, <1>d, <1>e, <1>g, <2>1 DEF Free
\* A turn gives its lock back.
<1>h. ASSUME NEW t \in Turns, NEW s \in Sessions, OthersWork(t), Unlock(s), Past(t, s),
             \A r \in Sessions : Past(t, r) => r = s, \A r \in Sessions : ~ Past1(t, r),
             UNCHANGED <<deleting, sweep>>
      PROVE  Locked'
  <2>1. holder'[s] = Nobody /\ \A r \in Sessions \ {s} : holder'[r] = holder[r]
    BY <1>h DEF Unlock, Kept
  <2> QED
    BY <1>a, <1>b, <1>d, <1>e, <1>h, <2>1
<1>1. ASSUME NEW c \in Chats, ChatEnters(c)
      PROVE  Locked'
  <2> DEFINE s == turn[c].session
  <2>1. /\ s \in Sessions /\ work[c].stage = "away"
        /\ work'[c].stage = "inside" /\ work'[c].session = s
        /\ OthersWork(c)
    BY <1>1, ChatEntersDoes
  <2>2. (\A r \in Sessions : ~ Past(c, r)) /\ \A r \in Sessions : Past1(c, r) <=> r = s
    BY <2>1 DEF Past, Past1
  <2> QED
    BY <1>1, <1>g, <2>1, <2>2 DEF ChatEnters
<1>2. ASSUME NEW t \in Turns, Measures(t)
      PROVE  Locked'
  <2> DEFINE s == work[t].session
  <2>1. /\ s \in Sessions /\ work[t].stage = "inside"
        /\ work'[t].stage = "measured" /\ work'[t].session = s
        /\ OthersWork(t)
    BY <1>2, MeasuresDoes
  <2>2. UNCHANGED <<deleting, sweep>> /\ IF t \in Chats THEN Unlock(s) ELSE UNCHANGED holder
    BY <1>2 DEF Measures
  <2>3. CASE t \in Chats
    <3>1. /\ Past(t, s) /\ \A r \in Sessions : Past(t, r) => r = s
          /\ \A r \in Sessions : ~ Past1(t, r)
      BY <2>1, <2>3 DEF Past, Past1
    <3> QED
      BY <1>h, <2>1, <2>2, <2>3, <3>1
  <2>4. CASE t \in Jobs
    <3>1. \A r \in Sessions : Past1(t, r) <=> Past(t, r)
      BY <2>1, <2>4 DEF Past, Past1
    <3> QED
      BY <1>f, <2>1, <2>2, <2>4, <3>1
  <2> QED
    BY <2>3, <2>4
<1>3. ASSUME NEW c \in Chats, ChatSettles(c)
      PROVE  Locked'
  <2>1. /\ work[c].stage = "measured" /\ UNCHANGED <<holder, deleting, sweep>>
        /\ work'[c].stage = "away" /\ OthersWork(c)
    BY <1>3, LeavesDoes DEF ChatSettles
  <2>2. \A r \in Sessions : Past1(c, r) <=> Past(c, r)
    BY <2>1 DEF Past, Past1
  <2> QED
    BY <1>f, <2>1, <2>2
<1>4. ASSUME NEW j \in Jobs, NEW s \in Sessions, JobClaims(j, s)
      PROVE  Locked'
  <2>1. /\ work[j].stage = "away" /\ work'[j].stage = "claimed" /\ OthersWork(j)
        /\ UNCHANGED <<holder, deleting, sweep>>
    BY <1>4, JobClaimsDoes DEF JobClaims
  <2>2. \A r \in Sessions : Past1(j, r) <=> Past(j, r)
    BY <2>1 DEF Past, Past1
  <2> QED
    BY <1>f, <2>1, <2>2
<1>5. ASSUME NEW j \in Jobs, JobEnters(j)
      PROVE  Locked'
  <2> DEFINE s == work[j].session
  <2>1. /\ s \in Sessions /\ work[j].stage = "claimed"
        /\ work'[j].stage = "inside" /\ work'[j].session = s
        /\ OthersWork(j)
    BY <1>5, JobEntersDoes
  <2>2. (\A r \in Sessions : ~ Past(j, r)) /\ \A r \in Sessions : Past1(j, r) <=> r = s
    BY <2>1 DEF Past, Past1
  <2> QED
    BY <1>5, <1>g, <2>1, <2>2 DEF JobEnters
<1>6. ASSUME NEW j \in Jobs, JobSkips(j)
      PROVE  Locked'
  <2>1. /\ work[j].stage = "claimed" /\ UNCHANGED <<holder, deleting, sweep>>
        /\ work'[j].stage = "away" /\ OthersWork(j)
    BY <1>6, LeavesDoes DEF JobSkips
  <2>2. \A r \in Sessions : Past1(j, r) <=> Past(j, r)
    BY <2>1 DEF Past, Past1
  <2> QED
    BY <1>f, <2>1, <2>2
<1>7. ASSUME NEW j \in Jobs, JobRefused(j) \/ JobSettles(j)
      PROVE  Locked'
  <2> DEFINE s == work[j].session
  <2>1. /\ work[j].stage \in {"inside", "measured"} /\ s \in Sessions
        /\ Unlock(s) /\ UNCHANGED <<deleting, sweep>>
        /\ work' = [work EXCEPT ![j] = Away]
    BY <1>7 DEF JobRefused, JobSettles, Joined
  <2>2. work'[j].stage = "away" /\ OthersWork(j)
    BY <2>1, LeavesDoes
  <2>3. /\ Past(j, s) /\ \A r \in Sessions : Past(j, r) => r = s
        /\ \A r \in Sessions : ~ Past1(j, r)
    BY <2>1, <2>2 DEF Past, Past1
  <2> QED
    BY <1>h, <2>1, <2>2, <2>3
<1>8. ASSUME NEW s \in Sessions, PutSchedule(s)
      PROVE  Locked'
  <2>1. \A t \in Turns : work'[t].stage = work[t].stage /\ work'[t].session = work[t].session
    BY <1>8, PutScheduleDoes
  <2>2. UNCHANGED <<holder, deleting, sweep>>
    BY <1>8 DEF PutSchedule
  <2>3. \A t \in Turns, r \in Sessions : Past1(t, r) <=> Past(t, r)
    BY <2>1 DEF Past, Past1
  <2> QED
    BY <1>a, <1>b, <1>d, <2>2, <2>3
<1>9. ASSUME NEW d \in Deleters, NEW s \in Sessions, DeleteLocks(d, s)
      PROVE  Locked'
  <2>1. UNCHANGED <<work, sweep>> /\ Free(s) /\ deleting[d] = NoSession
    BY <1>9 DEF DeleteLocks
  <2>2. holder'[s] = d /\ \A r \in Sessions \ {s} : holder'[r] = holder[r]
    BY <1>9 DEF DeleteLocks, Lock, Kept
  <2>3. deleting'[d] = s /\ \A e \in Deleters \ {d} : deleting'[e] = deleting[e]
    BY <1>9 DEF DeleteLocks, Kept
  <2> QED
    BY <1>a, <1>b, <1>c, <1>d, <2>1, <2>2, <2>3 DEF Free
<1>10. ASSUME NEW d \in Deleters, DeleteRow(d) \/ DeleteFails(d)
       PROVE  Locked'
  <2> DEFINE s == deleting[d]
  <2>1. UNCHANGED <<work, sweep>> /\ s \in Sessions
    BY <1>10 DEF DeleteRow, DeleteFails, Kept
  <2>2. holder'[s] = Nobody /\ \A r \in Sessions \ {s} : holder'[r] = holder[r]
    BY <1>10, <2>1 DEF DeleteRow, DeleteFails, Unlock, Kept
  <2>3. deleting'[d] = NoSession /\ \A e \in Deleters \ {d} : deleting'[e] = deleting[e]
    BY <1>10 DEF DeleteRow, DeleteFails, Kept
  <2>4. holder[s] = d
    BY <1>a, <2>1
  <2> QED
    BY <1>a, <1>b, <1>c, <1>d, <2>1, <2>2, <2>3, <2>4
\* The sweep moves, and nobody else.
<1>s. ASSUME UNCHANGED <<work, deleting>>,
             \A s \in Sessions : \/ holder'[s] = holder[s] /\ (Swept1(s) <=> Swept(s))
                                 \/ holder[s] = Sweeper /\ holder'[s] = Nobody /\ ~ Swept1(s)
                                 \/ Free(s) /\ holder'[s] = Sweeper /\ Swept1(s)
      PROVE  Locked'
  BY <1>a, <1>b, <1>c, <1>s DEF Free
<1>11. CASE SweepStarts
  <2>1. UNCHANGED <<work, deleting, holder>> /\ sweep.stage = "resting" /\ sweep'.stage = "looking"
    BY <1>11, SweepStartsDoes, RestingIsSweep DEF SweepStarts
  <2>2. \A s \in Sessions : Swept1(s) <=> Swept(s)
    BY <2>1 DEF Swept, Swept1, Holding
  <2> QED
    BY <1>s, <2>1, <2>2
<1>12. ASSUME NEW s \in Sessions, SweepLocks(s)
       PROVE  Locked'
  <2>1. UNCHANGED <<work, deleting>> /\ sweep.stage = "looking" /\ Free(s)
    BY <1>12 DEF SweepLocks
  <2>2. CASE Inactive(s, sweep.cutoff)
    <3>1. sweep'.stage = "checked" /\ sweep'.session = s
      BY <1>12, <2>2, SweepLocksDoes
    <3>2. holder'[s] = Sweeper /\ \A r \in Sessions \ {s} : holder'[r] = holder[r]
      BY <1>12, <2>2 DEF SweepLocks, Lock, Kept
    <3>3. Swept1(s) /\ \A r \in Sessions \ {s} : Swept1(r) <=> Swept(r)
      BY <2>1, <3>1 DEF Swept, Swept1, Holding
    <3> QED
      BY <1>s, <2>1, <3>2, <3>3
  <2>3. CASE ~ Inactive(s, sweep.cutoff)
    <3>1. sweep'.stage = "looking" /\ UNCHANGED holder
      BY <1>12, <2>3, SweepLocksDoes DEF SweepLocks
    <3>2. \A r \in Sessions : Swept1(r) <=> Swept(r)
      BY <2>1, <3>1 DEF Swept, Swept1, Holding
    <3> QED
      BY <1>s, <2>1, <3>1, <3>2
  <2> QED
    BY <2>2, <2>3
\* The sweep gives its lock back.
<1>t. ASSUME sweep.stage \in Holding, Unlock(sweep.session), sweep'.stage \notin Holding,
             UNCHANGED <<work, deleting>>
      PROVE  Locked'
  <2> DEFINE s == sweep.session
  <2>1. s \in Sessions
    BY <1>t DEF Joined
  <2>2. holder'[s] = Nobody /\ \A r \in Sessions \ {s} : holder'[r] = holder[r]
    BY <1>t, <2>1 DEF Unlock, Kept
  <2>3. Swept(s) /\ \A r \in Sessions : ~ Swept1(r) /\ (Swept(r) => r = s)
    BY <1>t DEF Swept, Swept1
  <2> QED
    BY <1>a, <1>s, <1>t, <2>1, <2>2, <2>3
<1>13. CASE SweepAsks
  <2>1. CASE ScheduleActive(sweep.session, sweep.cutoff)
    BY <1>13, <1>t, <2>1, SweepAsksDoes DEF SweepAsks, Holding
  <2>2. CASE ~ ScheduleActive(sweep.session, sweep.cutoff)
    <3>1. UNCHANGED <<work, deleting, holder>> /\ sweep.stage = "checked"
      BY <1>13, <2>2 DEF SweepAsks
    <3>2. sweep'.stage = "clearing" /\ sweep'.session = sweep.session
      BY <1>13, <2>2, SweepAsksDoes
    <3>3. \A r \in Sessions : Swept1(r) <=> Swept(r)
      BY <3>1, <3>2 DEF Swept, Swept1, Holding
    <3> QED
      BY <1>s, <3>1, <3>3
  <2> QED
    BY <2>1, <2>2
<1>14. CASE SweepSchedules
  <2>1. /\ UNCHANGED <<work, deleting, holder>> /\ sweep.stage = "clearing"
        /\ sweep'.stage = "erasing" /\ sweep'.session = sweep.session
    BY <1>14, SweepSchedulesDoes DEF SweepSchedules
  <2>2. \A r \in Sessions : Swept1(r) <=> Swept(r)
    BY <2>1 DEF Swept, Swept1, Holding
  <2> QED
    BY <1>s, <2>1, <2>2
<1>15. CASE SweepRow
  BY <1>15, <1>t, SweepRowDoes DEF SweepRow, Holding
<1>16. CASE SweepFails
  BY <1>16, <1>t, RestingIsSweep DEF SweepFails, Holding
<1>17. CASE SweepEnds
  <2>1. /\ UNCHANGED <<work, deleting, holder>> /\ sweep.stage = "looking"
        /\ sweep'.stage = "resting"
    BY <1>17, RestingIsSweep DEF SweepEnds
  <2>2. \A r \in Sessions : Swept1(r) <=> Swept(r)
    BY <2>1 DEF Swept, Swept1, Holding
  <2> QED
    BY <1>s, <2>1, <2>2
<1>18. CASE Crash
  <2>1. \A t \in Turns : work'[t].stage = "away"
    BY <1>18, AwayIsWork DEF Crash
  <2>2. /\ \A s \in Sessions : holder'[s] = Nobody
        /\ \A d \in Deleters : deleting'[d] = NoSession
    BY <1>18 DEF Crash
  <2>3. /\ \A s \in Sessions : ~ Swept1(s)
        /\ \A s \in Sessions, t \in Turns : ~ Past1(t, s)
    BY <1>18, <2>1, RestingIsSweep DEF Crash, Swept1, Past1, Holding
  <2> QED
    BY <1>b, <2>2, <2>3
\* The other steps leave the locks and those who hold them alone.
<1>19. ASSUME \/ \E c \in Chats : ChatAcquires(c) \/ ChatGivesUp(c)
              \/ \E j \in Jobs : JobAcquires(j)
              \/ \E t \in Turns, f \in Footprints : Writes(t, f)
              \/ \E s \in Sessions : DropSchedule(s)
              \/ \E d \in Deleters, k \in Kinds : DeleteFile(d, k)
              \/ \E k \in Kinds : SweepFile(k)
              \/ Start \/ LifeTick \/ UNCHANGED allVars
       PROVE  Locked'
  <2>1. UNCHANGED <<holder, work, deleting, sweep>>
    BY <1>19 DEF ChatAcquires, ChatGivesUp, JobAcquires, Writes, DropSchedule, DeleteFile,
                 SweepFile, Start, LifeTick, allVars
  <2> QED
    BY <1>a, <1>b, <1>c, <1>d, <2>1
<1> QED
  BY <1>1, <1>2, <1>3, <1>4, <1>5, <1>6, <1>7, <1>8, <1>9, <1>10, <1>11, <1>12, <1>13, <1>14,
     <1>15, <1>16, <1>17, <1>18, <1>19
  DEF LifeNext, ChatNext, JobNext, DeleteNext, SweepNext

-----------------------------------------------------------------------------
(* How the ledger moves, and how the sweep does. *)

\* A turn is admitted, or settles with what it measured.
Refreshes(t) ==
  LET s == turn[t].session IN
  /\ s \in Sessions
  /\ turn[t].phase # "idle"
  /\ usage'[s].registered
  /\ usage[s].activity <= usage'[s].activity
  /\ turn'[t].phase = "admitted" => /\ turn'[t].session = s
                                    /\ turn'[t].now <= usage'[s].activity
  /\ turn'[t].phase = "admitted" \/ clock <= usage'[s].activity
  /\ \A r \in Sessions \ {s} : usage'[r] = usage[r]

\* A turn moves alone; a job does so under its lock.
Acts(t) ==
  /\ OthersTurn(t)
  /\ clock' = clock
  /\ UNCHANGED sweep
  /\ t \in Jobs => work[t].stage \in {"inside", "measured"}
  /\ turn'[t].phase # "idle" => \/ turn'[t].now = clock
                                \/ turn[t].phase # "idle" /\ turn'[t].now = turn[t].now
  /\ \/ UNCHANGED usage /\ turn'[t].phase # "admitted"
     \/ Refreshes(t)

\* A row goes after its files, at the hands of one who has the lock.
Erases(s) ==
  /\ RemoveSession(s)
  /\ files[s] = NoFiles
  /\ \/ UNCHANGED sweep /\ \E d \in Deleters : deleting[d] = s
     \/ /\ sweep.stage = "erasing" /\ sweep.session = s
        /\ Inactive(s, sweep.cutoff)
        /\ sweep'.stage = "looking"

\* The process dies, or starts again.
Reboots ==
  /\ \A t \in Turns : turn'[t].phase = "idle"
  /\ clock' = clock
  /\ sweep'.stage = "resting"
  /\ \A s \in Sessions : /\ usage'[s].registered = usage[s].registered
                         /\ usage[s].registered \/ usage'[s].bytes = usage[s].bytes

LEMMA LaterIsLater ==
  ASSUME NEW a \in Nat, NEW b \in Nat
  PROVE  a <= Later(a, b) /\ b <= Later(a, b)
BY DEF Later

LEMMA LedgerMoves ==
  ASSUME TypeOK, Kept, Joined, Still, Sized, [LifeNext]_allVars
  PROVE  \/ UNCHANGED <<turn, usage>>
         \/ \E t \in Turns : Acts(t)
         \/ \E s \in Sessions : Erases(s)
         \/ Reboots
<1> USE TwoKinds DEF lifeVars
<1>a. ASSUME NEW s \in Sessions
      PROVE  usage[s].activity \in Nat
  BY DEF TypeOK, UsageRow
<1>b. ASSUME NEW t \in Turns
      PROVE  turn[t].now \in Nat /\ clock \in Nat
  BY DEF TypeOK, Turn
<1>1. ASSUME NEW t \in Turns, NEW s \in Sessions, ReadClock(t, s), UNCHANGED sweep,
             t \in Jobs => work[t].stage = "inside"
      PROVE  Acts(t)
  BY <1>1, ReadClockDoes DEF Acts
<1>2. ASSUME NEW t \in Turns, Admit(t), UNCHANGED sweep, t \in Jobs => work[t].stage = "inside"
      PROVE  Acts(t)
  BY <1>2, <1>a, <1>b, AdmitDoes, LaterIsLater DEF Acts, Refreshes
<1>3. ASSUME NEW t \in Turns, Refuse(t), UNCHANGED sweep, t \in Jobs => work[t].stage = "inside"
      PROVE  Acts(t)
  BY <1>3, RefuseDoes DEF Acts
<1>4. ASSUME NEW t \in Turns, SettleMeasured(t, 0, work[t].seen), UNCHANGED sweep,
             t \in Jobs => work[t].stage = "measured"
      PROVE  Acts(t)
  <2>1. work[t].seen \in [Kinds -> Nat]
    BY DEF Kept, Works
  <2> QED
    BY <1>4, <1>a, <1>b, <2>1, SettleMeasuredDoes, LaterIsLater DEF Acts, Refreshes
<1>5. ASSUME NEW t \in Turns, SettleUnmeasured(t, 0), UNCHANGED sweep, t \notin Jobs
      PROVE  Acts(t)
  BY <1>5, SettleUnmeasuredDoes DEF Acts
<1>6. ASSUME NEW c \in Chats, ChatAcquires(c) \/ ChatGivesUp(c) \/ ChatSettles(c)
      PROVE  \E t \in Turns : Acts(t)
  <2>1. UNCHANGED sweep
    BY <1>6 DEF ChatAcquires, ChatGivesUp, ChatSettles
  <2> QED
    BY <1>1, <1>2, <1>3, <1>4, <1>5, <1>6, <2>1 DEF ChatAcquires, ChatGivesUp, ChatSettles
<1>7. ASSUME NEW j \in Jobs, JobAcquires(j) \/ JobRefused(j) \/ JobSettles(j)
      PROVE  \E t \in Turns : Acts(t)
  <2>1. UNCHANGED sweep
    BY <1>7 DEF JobAcquires, JobRefused, JobSettles
  <2>2. CASE JobAcquires(j)
    <3>1. work[j].session \in Sessions /\ work[j].stage = "inside"
      BY <2>2 DEF JobAcquires, Joined
    <3> QED
      BY <1>1, <1>2, <2>1, <2>2, <3>1 DEF JobAcquires
  <2>3. CASE JobRefused(j)
    BY <1>3, <2>1, <2>3 DEF JobRefused
  <2>4. CASE JobSettles(j)
    BY <1>4, <2>1, <2>4 DEF JobSettles
  <2> QED
    BY <1>7, <2>2, <2>3, <2>4
<1>8. ASSUME NEW d \in Deleters, DeleteRow(d)
      PROVE  UNCHANGED <<turn, usage>> \/ \E s \in Sessions : Erases(s)
  <2>1. deleting[d] \in Sessions /\ UNCHANGED sweep
    BY <1>8 DEF DeleteRow, Kept
  <2> QED
    BY <1>8, <2>1 DEF DeleteRow, Erases, vars
<1>9. CASE SweepRow
  <2>1. sweep.session \in Sessions /\ sweep.stage = "erasing" /\ sweep'.stage = "looking"
    BY <1>9, SweepRowDoes DEF Joined, Holding
  <2> QED
    BY <1>9, <2>1 DEF SweepRow, Erases, vars
<1>10. CASE Crash
  BY <1>10, IdleIsTurn, RestingIsSweep DEF Crash, Reboots
<1>11. CASE Start
  <2>1. UNCHANGED sweep /\ sweep.stage = "resting"
    BY <1>11 DEF Start, Still
  <2> QED
    BY <1>11, <2>1, RestartDoes DEF Start, Reboots
<1>12. ASSUME \/ \E c \in Chats : ChatEnters(c)
              \/ \E t \in Turns : Measures(t)
              \/ \E t \in Turns, f \in Footprints : Writes(t, f)
              \/ \E j \in Jobs : JobEnters(j) \/ JobSkips(j)
              \/ \E j \in Jobs, s \in Sessions : JobClaims(j, s)
              \/ \E s \in Sessions : PutSchedule(s) \/ DropSchedule(s)
              \/ \E d \in Deleters, s \in Sessions : DeleteLocks(d, s)
              \/ \E d \in Deleters, k \in Kinds : DeleteFile(d, k)
              \/ \E d \in Deleters : DeleteFails(d)
              \/ SweepStarts \/ SweepAsks \/ SweepSchedules \/ SweepEnds \/ SweepFails
              \/ \E s \in Sessions : SweepLocks(s)
              \/ \E k \in Kinds : SweepFile(k)
              \/ LifeTick \/ UNCHANGED allVars
       PROVE  UNCHANGED <<turn, usage>>
  BY <1>12 DEF ChatEnters, Measures, Writes, JobEnters, JobSkips, JobClaims, PutSchedule,
               DropSchedule, DeleteLocks, DeleteFile, DeleteFails, SweepStarts, SweepAsks,
               SweepSchedules, SweepEnds, SweepFails, SweepLocks, SweepFile, LifeTick, Tick,
               vars, allVars
<1> QED
  BY <1>6, <1>7, <1>8, <1>9, <1>10, <1>11, <1>12
  DEF LifeNext, ChatNext, JobNext, DeleteNext, SweepNext

LEMMA SweepMoves ==
  ASSUME TypeOK, Kept, Still, [LifeNext]_allVars
  PROVE  \/ UNCHANGED sweep
         \/ sweep'.stage = "resting"
         \/ sweep'.stage = "looking" /\ sweep'.cutoff = clock - Retention /\ clock' = clock
         \/ /\ sweep.stage # "resting"
            /\ sweep'.cutoff = sweep.cutoff
            /\ clock' = clock
            /\ \/ sweep'.stage \notin Holding
               \/ /\ UNCHANGED usage
                  /\ sweep.stage \in Holding /\ sweep'.session = sweep.session
               \/ UNCHANGED usage /\ Inactive(sweep'.session, sweep.cutoff)
<1> USE DEF lifeVars
<1>1. CASE SweepStarts
  BY <1>1, SweepStartsDoes DEF SweepStarts, vars
<1>2. ASSUME NEW s \in Sessions, SweepLocks(s)
      PROVE  /\ sweep.stage # "resting"
             /\ sweep'.cutoff = sweep.cutoff
             /\ clock' = clock
             /\ \/ sweep'.stage \notin Holding
                \/ UNCHANGED usage /\ Inactive(sweep'.session, sweep.cutoff)
  BY <1>2, SweepLocksDoes DEF SweepLocks, Holding, vars
<1>3. CASE SweepAsks
  BY <1>3, SweepAsksDoes DEF SweepAsks, Holding, vars
<1>4. CASE SweepSchedules
  BY <1>4, SweepSchedulesDoes DEF SweepSchedules, Holding, vars
<1>5. CASE SweepRow
  BY <1>5, SweepRowDoes DEF SweepRow, Holding, RemoveSession, vars
<1>6. CASE SweepEnds \/ SweepFails \/ Crash
  BY <1>6, RestingIsSweep DEF SweepEnds, SweepFails, Crash
<1>7. CASE (\E k \in Kinds : SweepFile(k)) \/ Start \/ LifeTick \/ UNCHANGED allVars
  BY <1>7 DEF SweepFile, Start, LifeTick, allVars
<1>8. ASSUME NEW c \in Chats, ChatNext(c)
      PROVE  UNCHANGED sweep
  BY <1>8 DEF ChatNext, ChatAcquires, ChatEnters, ChatGivesUp, ChatSettles, Measures, Writes
<1>9. ASSUME NEW j \in Jobs, JobNext(j)
      PROVE  UNCHANGED sweep
  BY <1>9 DEF JobNext, JobClaims, JobEnters, JobSkips, JobAcquires, JobRefused, JobSettles,
              Measures, Writes
<1>10. ASSUME NEW d \in Deleters, DeleteNext(d)
       PROVE  UNCHANGED sweep
  BY <1>10 DEF DeleteNext, DeleteLocks, DeleteFile, DeleteRow, DeleteFails
<1>11. ASSUME NEW s \in Sessions, PutSchedule(s) \/ DropSchedule(s)
       PROVE  UNCHANGED sweep
  BY <1>11 DEF PutSchedule, DropSchedule
<1> QED
  BY <1>1, <1>2, <1>3, <1>4, <1>5, <1>6, <1>7, <1>8, <1>9, <1>10, <1>11 DEF LifeNext, SweepNext

\* Turns stay within their limit, and cutoffs older than any turn.
LEMMA TimelyStep ==
  ASSUME TypeOK, Sized, Kept, Joined, Still, Timely, [LifeNext]_allVars
  PROVE  Timely'
<1>a. clock \in Nat /\ TurnLimit \in Nat /\ Retention \in Nat
  BY DurationAssumption DEF TypeOK, DurationAssumption
<1>b. ASSUME NEW t \in Turns
      PROVE  turn[t].now \in Nat
  BY DEF TypeOK, Turn
<1>c. sweep.cutoff \in Int
  BY DEF Kept, Sweeps
<1>1. CASE LifeTick
  <2>1. /\ clock' = clock + 1 /\ UNCHANGED <<turn, sweep>>
        /\ \A t \in Turns : turn[t].phase # "idle" => clock < turn[t].now + TurnLimit
    BY <1>1 DEF LifeTick, Tick, lifeVars
  <2>2. ASSUME NEW t \in Turns, turn[t].phase # "idle"
        PROVE  turn[t].now <= clock' /\ clock' <= turn[t].now + TurnLimit
    BY <1>a, <1>b, <2>1, <2>2 DEF Timely
  <2>3. sweep.stage # "resting" => sweep.cutoff <= clock' - Retention
    BY <1>a, <1>c, <2>1 DEF Timely
  <2> QED
    BY <2>1, <2>2, <2>3 DEF Timely
<1>2. CASE clock' = clock
  <2>1. ASSUME NEW t \in Turns, turn'[t].phase # "idle"
        PROVE  turn'[t].now <= clock /\ clock <= turn'[t].now + TurnLimit
    <3>1. \/ turn'[t].now = clock
          \/ turn[t].phase # "idle" /\ turn'[t].now = turn[t].now
      BY <2>1, LedgerMoves DEF Acts, OthersTurn, Erases, RemoveSession, Reboots
    <3> QED
      BY <1>a, <1>b, <3>1 DEF Timely
  <2>2. sweep'.stage # "resting" => sweep'.cutoff <= clock - Retention
    BY <1>a, SweepMoves DEF Timely
  <2> QED
    BY <1>2, <2>1, <2>2 DEF Timely
<1>3. clock' = clock \/ LifeTick
  <2>1. CASE UNCHANGED vars \/ UNCHANGED allVars
    BY <2>1 DEF vars, allVars
  <2>2. CASE ~ UNCHANGED vars /\ LifeNext
    BY <2>2, RestartDoes DEF LifeNext, ChatNext, JobNext, DeleteNext, SweepNext,
      ChatAcquires, ChatEnters, ChatGivesUp, ChatSettles, Measures, Writes,
      JobClaims, JobEnters, JobSkips, JobAcquires, JobRefused, JobSettles,
      PutSchedule, DropSchedule, DeleteLocks, DeleteFile, DeleteRow, DeleteFails,
      SweepStarts, SweepLocks, SweepAsks, SweepSchedules, SweepFile, SweepRow, SweepEnds,
      SweepFails, Crash, Start,
      ReadClock, Admit, Refuse, SettleMeasured, SettleUnmeasured, Settle, RemoveSession
  <2> QED
    BY <2>1, <2>2
<1> QED
  BY <1>1, <1>2, <1>3

\* Rows stay as long as their turns, and what the sweep holds stays inactive.
LEMMA RowsStep ==
  ASSUME TypeOK, Sized, Kept, Joined, Still, Locked, Timely, RowStays, StillInactive,
         NoRowNoCharge, [LifeNext]_allVars
  PROVE  RowStays' /\ StillInactive' /\ NoRowNoCharge'
<1> USE TwoKinds, Threads
<1>a. /\ clock \in Nat /\ TurnLimit \in Nat /\ Retention \in Nat /\ TurnLimit < Retention
      /\ sweep.cutoff \in Int
  BY DurationAssumption DEF TypeOK, DurationAssumption, Kept, Sweeps
<1>b. ASSUME NEW t \in Turns
      PROVE  /\ turn[t].now \in Nat
             /\ turn[t].phase # "idle" => turn[t].session \in Sessions
  BY DEF TypeOK, Turn
<1>c. ASSUME NEW s \in Sessions
      PROVE  usage[s].activity \in Nat /\ usage'[s].activity \in Nat
  BY LifeTypesStep DEF TypeOK, UsageRow
\* The session of a job that is past its lock is held by the job.
<1>d. ASSUME NEW j \in Jobs, turn[j].phase # "idle"
      PROVE  turn[j].session \in Sessions /\ holder[turn[j].session] = j
  BY <1>b, <1>d DEF Joined, Locked
<1>e. sweep.stage \in Holding => sweep.session \in Sessions /\ holder[sweep.session] = Sweeper
  BY DEF Joined, Locked
<1>f. ASSUME NEW t \in Turns, turn[t].phase = "admitted", t \in Jobs \/ Deleters = {}
      PROVE  /\ turn[t].session \in Sessions
             /\ usage[turn[t].session].registered
             /\ turn[t].now <= usage[turn[t].session].activity
  BY <1>b, <1>f DEF RowStays
<1>g. Chats = {} /\ sweep.stage \in Holding => Inactive(sweep.session, sweep.cutoff)
  BY DEF StillInactive
<1>h. ASSUME NEW t \in Turns, NEW s \in Sessions, Erases(s),
             turn[t].phase = "admitted", t \in Jobs \/ Deleters = {}
      PROVE  turn[t].session # s
  <2>1. ASSUME NEW d \in Deleters, deleting[d] = s
        PROVE  turn[t].session # s
    BY <1>d, <1>h, <2>1 DEF Locked
  <2>2. CASE sweep.stage = "erasing" /\ sweep.session = s /\ Inactive(s, sweep.cutoff)
    <3>1. usage[s].activity <= clock - Retention
      BY <1>a, <1>c, <2>2 DEF Timely, Inactive
    <3>2. clock <= turn[t].now + TurnLimit
      BY <1>h DEF Timely
    <3> QED
      BY <1>a, <1>b, <1>c, <1>f, <1>h, <3>1, <3>2
  <2> QED
    BY <1>h, <2>1, <2>2 DEF Erases
<1>1. CASE UNCHANGED <<turn, usage>>
  <2>1. RowStays' /\ NoRowNoCharge'
    BY <1>1 DEF RowStays, NoRowNoCharge
  <2>2. StillInactive'
    BY <1>1, <1>g, SweepMoves, RestingIsSweep DEF StillInactive, Inactive, Holding
  <2> QED
    BY <2>1, <2>2
<1>2. ASSUME NEW t \in Turns, Acts(t)
      PROVE  RowStays' /\ StillInactive' /\ NoRowNoCharge'
  <2>1. CASE UNCHANGED usage /\ turn'[t].phase # "admitted"
    BY <1>2, <1>g, <2>1 DEF Acts, OthersTurn, RowStays, StillInactive, NoRowNoCharge, Inactive
  <2>2. CASE Refreshes(t)
    <3> DEFINE s == turn[t].session
    <3>1. NoRowNoCharge'
      BY <2>2 DEF Refreshes, NoRowNoCharge
    <3>2. ASSUME NEW u \in Turns, turn'[u].phase = "admitted", u \in Jobs \/ Deleters = {}
          PROVE  /\ usage'[turn'[u].session].registered
                 /\ turn'[u].now <= usage'[turn'[u].session].activity
      <4>1. CASE u = t
        BY <2>2, <3>2, <4>1 DEF Refreshes
      <4>2. CASE u # t
        <5>1. turn'[u] = turn[u]
          BY <1>2, <4>2 DEF Acts, OthersTurn
        <5>2. CASE turn[u].session = s
          BY <1>b, <1>c, <1>f, <2>2, <3>2, <5>1, <5>2 DEF Refreshes
        <5>3. CASE turn[u].session # s
          BY <1>f, <2>2, <3>2, <5>1, <5>3 DEF Refreshes
        <5> QED
          BY <5>2, <5>3
      <4> QED
        BY <4>1, <4>2
    <3>3. StillInactive'
      <4>1. UNCHANGED sweep
        BY <1>2 DEF Acts
      <4>2. Chats = {} /\ sweep.stage \in Holding => sweep.session # s
        BY <1>d, <1>e, <2>2 DEF Refreshes
      <4>3. Chats = {} /\ sweep.stage \in Holding =>
              usage'[sweep.session] = usage[sweep.session]
        BY <1>e, <2>2, <4>2 DEF Refreshes
      <4> QED
        BY <1>g, <4>1, <4>3 DEF StillInactive, Inactive
    <3> QED
      BY <3>1, <3>2, <3>3 DEF RowStays
  <2> QED
    BY <1>2, <2>1, <2>2 DEF Acts
<1>3. ASSUME NEW s \in Sessions, Erases(s)
      PROVE  RowStays' /\ StillInactive' /\ NoRowNoCharge'
  <2>1. /\ turn' = turn
        /\ usage'[s].bytes = NoFiles
        /\ \A r \in Sessions \ {s} : usage'[r] = usage[r]
    BY <1>3, RemoveDoes DEF Erases
  <2>2. NoRowNoCharge'
    BY <2>1 DEF NoRowNoCharge
  <2>3. ASSUME NEW t \in Turns, turn[t].phase = "admitted", t \in Jobs \/ Deleters = {}
        PROVE  usage'[turn[t].session] = usage[turn[t].session]
    BY <1>3, <1>b, <1>h, <2>1, <2>3
  <2>4. RowStays'
    BY <1>f, <2>1, <2>3 DEF RowStays
  <2>5. StillInactive'
    <3>1. ASSUME NEW d \in Deleters, deleting[d] = s, UNCHANGED sweep
          PROVE  StillInactive'
      <4>1. holder[s] = d
        BY <3>1 DEF Locked
      <4>2. sweep.stage \in Holding => usage'[sweep.session] = usage[sweep.session]
        BY <1>e, <2>1, <4>1
      <4> QED
        BY <1>g, <3>1, <4>2 DEF StillInactive, Inactive
    <3>2. CASE sweep'.stage = "looking"
      BY <3>2 DEF StillInactive, Holding
    <3> QED
      BY <1>3, <3>1, <3>2 DEF Erases
  <2> QED
    BY <2>2, <2>4, <2>5
<1>4. CASE Reboots
  <2>1. RowStays' /\ StillInactive'
    BY <1>4 DEF Reboots, RowStays, StillInactive, Holding
  <2>2. NoRowNoCharge'
    BY <1>4 DEF Reboots, NoRowNoCharge
  <2> QED
    BY <2>1, <2>2
<1> QED
  BY <1>1, <1>2, <1>3, <1>4, LedgerMoves

\* Whoever writes a row again is himself within his limit.
LEMMA YoungStep ==
  ASSUME TypeOK, Sized, Kept, Joined, Still, Timely, RowYoung, [LifeNext]_allVars
  PROVE  RowYoung'
<1>a. clock \in Nat /\ TurnLimit \in Nat
  BY DurationAssumption DEF TypeOK, DurationAssumption
<1>b. ASSUME NEW t \in Turns
      PROVE  /\ turn[t].now \in Nat /\ turn'[t].now \in Nat
             /\ turn[t].phase # "idle" => /\ turn[t].session \in Sessions
                                         /\ turn[t].now <= clock
                                         /\ clock <= turn[t].now + TurnLimit
  BY LifeTypesStep DEF TypeOK, Turn, Timely
<1>c. ASSUME NEW s \in Sessions
      PROVE  usage[s].activity \in Nat /\ usage'[s].activity \in Nat
  BY LifeTypesStep DEF TypeOK, UsageRow
<1>d. ASSUME NEW t \in Turns, turn[t].phase = "admitted", usage[turn[t].session].registered
      PROVE  turn[t].now <= usage[turn[t].session].activity + TurnLimit
  BY <1>d DEF RowYoung
<1>1. CASE UNCHANGED <<turn, usage>>
  BY <1>1 DEF RowYoung
<1>2. ASSUME NEW t \in Turns, Acts(t)
      PROVE  RowYoung'
  <2>1. CASE UNCHANGED usage /\ turn'[t].phase # "admitted"
    BY <1>2, <1>d, <2>1 DEF Acts, OthersTurn, RowYoung
  <2>2. CASE Refreshes(t)
    <3> DEFINE s == turn[t].session
    <3>1. s \in Sessions /\ clock <= usage'[s].activity + TurnLimit
      <4>1. CASE turn'[t].phase = "admitted"
        <5>1. turn'[t].now = clock \/ turn'[t].now = turn[t].now
          BY <1>2, <4>1 DEF Acts
        <5>2. clock <= turn'[t].now + TurnLimit
          BY <1>a, <1>b, <2>2, <5>1 DEF Refreshes
        <5>3. turn'[t].now <= usage'[s].activity /\ s \in Sessions
          BY <2>2, <4>1 DEF Refreshes
        <5> QED
          BY <1>a, <1>b, <1>c, <5>2, <5>3
      <4>2. CASE turn'[t].phase # "admitted"
        BY <1>a, <1>c, <2>2, <4>2 DEF Refreshes
      <4> QED
        BY <4>1, <4>2
    <3>2. ASSUME NEW u \in Turns, turn'[u].phase = "admitted",
                 usage'[turn'[u].session].registered
          PROVE  turn'[u].now <= usage'[turn'[u].session].activity + TurnLimit
      <4>1. CASE u = t
        BY <1>a, <1>b, <1>c, <2>2, <3>2, <4>1 DEF Refreshes
      <4>2. CASE u # t
        <5>1. turn'[u] = turn[u]
          BY <1>2, <4>2 DEF Acts, OthersTurn
        <5>2. CASE turn[u].session = s
          BY <1>a, <1>b, <1>c, <3>1, <3>2, <5>1, <5>2
        <5>3. CASE turn[u].session # s
          <6>1. usage'[turn[u].session] = usage[turn[u].session]
            BY <1>b, <2>2, <3>2, <5>1, <5>3 DEF Refreshes
          <6> QED
            BY <1>d, <3>2, <5>1, <6>1
        <5> QED
          BY <5>2, <5>3
      <4> QED
        BY <4>1, <4>2
    <3> QED
      BY <3>2 DEF RowYoung
  <2> QED
    BY <1>2, <2>1, <2>2 DEF Acts
<1>3. ASSUME NEW s \in Sessions, Erases(s)
      PROVE  RowYoung'
  <2>1. /\ turn' = turn /\ ~ usage'[s].registered
        /\ \A r \in Sessions \ {s} : usage'[r] = usage[r]
    BY <1>3, RemoveDoes DEF Erases
  <2> QED
    BY <1>b, <1>d, <2>1 DEF RowYoung
<1>4. CASE Reboots
  BY <1>4 DEF Reboots, RowYoung
<1> QED
  BY <1>1, <1>2, <1>3, <1>4, LedgerMoves

\* A job deleted with its session neither gets the lock nor finds its schedule again.
LEMMA OrphansStep ==
  ASSUME TypeOK, Sized, Kept, Joined, Locked, OrphansWait, [LifeNext]_allVars
  PROVE  OrphansWait'
<1> USE TwoKinds, Threads DEF lifeVars
<1>a. ASSUME NEW j \in orphans
      PROVE  /\ j \in Jobs
             /\ work[j].stage = "claimed"
             /\ work[j].session \in Sessions
             /\ scheduled[work[j].session] = NoSchedule
  BY DEF OrphansWait, Kept, Joined
\* A turn that is no orphan moves.
<1>b. ASSUME NEW t \in Turns, t \notin orphans', orphans' \subseteq orphans, OthersWork(t),
             \A s \in Sessions : scheduled[s] = NoSchedule => scheduled'[s] = NoSchedule
      PROVE  OrphansWait'
  BY <1>a, <1>b DEF OrphansWait, OthersWork
\* The schedules of a session go, while nobody is past its lock.
<1>c. ASSUME NEW s \in Sessions, holder[s] \notin Jobs, UNCHANGED work,
             scheduled' = [scheduled EXCEPT ![s] = NoSchedule],
             orphans' = orphans \cup {j \in Jobs : work[j].session = s}
      PROVE  OrphansWait'
  <2>1. ASSUME NEW j \in Jobs, work[j].session = s
        PROVE  work[j].stage = "claimed"
    <3>1. work[j].stage \in {"away", "claimed", "inside", "measured"}
      BY DEF Kept, Works
    <3> QED
      BY <1>c, <2>1, <3>1 DEF Locked, Joined
  <2>2. \A r \in Sessions : scheduled'[r] = IF r = s THEN NoSchedule ELSE scheduled[r]
    BY <1>c DEF Kept
  <2> QED
    BY <1>a, <1>c, <2>1, <2>2 DEF OrphansWait
<1>1. ASSUME NEW c \in Chats, ChatEnters(c) \/ ChatSettles(c)
      PROVE  OrphansWait'
  <2>1. UNCHANGED <<scheduled, orphans>> /\ c \notin orphans
    BY <1>1 DEF ChatEnters, ChatSettles, Kept
  <2>2. OthersWork(c)
    BY <1>1, ChatEntersDoes, LeavesDoes DEF ChatSettles
  <2> QED
    BY <1>b, <2>1, <2>2
<1>2. ASSUME NEW t \in Turns, Measures(t)
      PROVE  OrphansWait'
  <2>1. UNCHANGED <<scheduled, orphans>>
    BY <1>2 DEF Measures
  <2> QED
    BY <1>a, <1>b, <1>2, <2>1, MeasuresDoes
<1>3. ASSUME NEW j \in Jobs, NEW s \in Sessions, JobClaims(j, s)
      PROVE  OrphansWait'
  <2>1. UNCHANGED <<scheduled, orphans>>
    BY <1>3 DEF JobClaims
  <2> QED
    BY <1>a, <1>b, <1>3, <2>1, JobClaimsDoes
<1>4. ASSUME NEW j \in Jobs, JobEnters(j)
      PROVE  OrphansWait'
  <2>1. UNCHANGED <<scheduled, orphans>> /\ scheduled[work[j].session] # NoSchedule
    BY <1>4 DEF JobEnters
  <2> QED
    BY <1>a, <1>b, <1>4, <2>1, JobEntersDoes
<1>5. ASSUME NEW j \in Jobs, JobSkips(j) \/ JobRefused(j) \/ JobSettles(j)
      PROVE  OrphansWait'
  <2>1. orphans' = orphans \ {j} /\ Completes(j) /\ work' = [work EXCEPT ![j] = Away]
    BY <1>5 DEF JobSkips, JobRefused, JobSettles
  <2> QED
    BY <1>b, <2>1, CompletesDoes, LeavesDoes
<1>6. ASSUME NEW s \in Sessions, PutSchedule(s)
      PROVE  OrphansWait'
  <2>1. orphans' = {j \in orphans : work[j].session # s}
    BY <1>6 DEF PutSchedule
  <2>2. /\ \A r \in Sessions \ {s} : scheduled'[r] = scheduled[r]
        /\ \A t \in Turns : work'[t].stage = work[t].stage /\ work'[t].session = work[t].session
    BY <1>6, PutScheduleDoes
  <2> QED
    BY <1>a, <2>1, <2>2 DEF OrphansWait
<1>7. ASSUME NEW s \in Sessions, DropSchedule(s)
      PROVE  OrphansWait'
  BY <1>7, <1>a DEF DropSchedule, OrphansWait, Kept
<1>8. ASSUME NEW d \in Deleters, NEW s \in Sessions, DeleteLocks(d, s)
      PROVE  OrphansWait'
  BY <1>c, <1>8 DEF DeleteLocks, Free
<1>9. CASE SweepSchedules
  <2>1. sweep.session \in Sessions /\ holder[sweep.session] = Sweeper
    BY <1>9 DEF SweepSchedules, Joined, Locked, Holding
  <2> QED
    BY <1>c, <1>9, <2>1 DEF SweepSchedules
<1>10. CASE SweepEnds
  BY <1>10, <1>a DEF SweepEnds, OrphansWait
<1>11. CASE Crash
  BY <1>11 DEF Crash, OrphansWait
<1>12. ASSUME \/ \E c \in Chats : ChatAcquires(c) \/ ChatGivesUp(c)
              \/ \E j \in Jobs : JobAcquires(j)
              \/ \E t \in Turns, f \in Footprints : Writes(t, f)
              \/ \E d \in Deleters, k \in Kinds : DeleteFile(d, k)
              \/ \E d \in Deleters : DeleteRow(d) \/ DeleteFails(d)
              \/ SweepStarts \/ SweepAsks \/ SweepRow \/ SweepFails
              \/ \E s \in Sessions : SweepLocks(s)
              \/ \E k \in Kinds : SweepFile(k)
              \/ Start \/ LifeTick \/ UNCHANGED allVars
       PROVE  OrphansWait'
  <2>1. UNCHANGED <<scheduled, work, orphans>>
    BY <1>12 DEF ChatAcquires, ChatGivesUp, JobAcquires, Writes, DeleteFile, DeleteRow,
                 DeleteFails, SweepStarts, SweepAsks, SweepRow, SweepFails, SweepLocks, SweepFile,
                 Start, LifeTick, allVars
  <2> QED
    BY <2>1 DEF OrphansWait
<1> QED
  BY <1>1, <1>2, <1>3, <1>4, <1>5, <1>6, <1>7, <1>8, <1>9, <1>10, <1>11, <1>12
  DEF LifeNext, ChatNext, JobNext, DeleteNext, SweepNext

\* Files come under a turn, and go under a deletion or the sweep.
LEMMA FilesMove ==
  ASSUME TypeOK, Sized, Kept, Joined, Still, [LifeNext]_allVars
  PROVE  \/ UNCHANGED files
         \/ UNCHANGED vars /\ \E t \in Turns, f \in Footprints : Writes(t, f)
         \/ UNCHANGED vars /\ \E s \in Sessions, k \in Kinds : RemoveFile(s, k)
<1> USE TwoKinds DEF lifeVars
<1>1. ASSUME NEW t \in Turns, NEW f \in Footprints, Writes(t, f)
      PROVE  UNCHANGED vars
  BY <1>1 DEF Writes
<1>2. ASSUME NEW d \in Deleters, NEW k \in Kinds, DeleteFile(d, k)
      PROVE  UNCHANGED vars /\ \E s \in Sessions : RemoveFile(s, k)
  BY <1>2 DEF DeleteFile, Kept
<1>3. ASSUME NEW k \in Kinds, SweepFile(k)
      PROVE  UNCHANGED vars /\ \E s \in Sessions : RemoveFile(s, k)
  BY <1>3 DEF SweepFile, Joined, Holding
<1>4. ASSUME \/ \E c \in Chats : ChatAcquires(c) \/ ChatEnters(c) \/ ChatGivesUp(c) \/ ChatSettles(c)
             \/ \E t \in Turns : Measures(t)
             \/ \E j \in Jobs, s \in Sessions : JobClaims(j, s)
             \/ \E j \in Jobs : JobEnters(j) \/ JobSkips(j) \/ JobAcquires(j) \/ JobRefused(j)
                                \/ JobSettles(j)
             \/ \E s \in Sessions : PutSchedule(s) \/ DropSchedule(s)
             \/ \E d \in Deleters, s \in Sessions : DeleteLocks(d, s)
             \/ \E d \in Deleters : DeleteRow(d) \/ DeleteFails(d)
             \/ SweepStarts \/ SweepAsks \/ SweepSchedules \/ SweepRow \/ SweepEnds \/ SweepFails
             \/ \E s \in Sessions : SweepLocks(s)
             \/ Crash \/ Start \/ LifeTick \/ UNCHANGED allVars
      PROVE  UNCHANGED files
  BY <1>4 DEF ChatAcquires, ChatEnters, ChatGivesUp, ChatSettles, Measures, JobClaims, JobEnters,
              JobSkips, JobAcquires, JobRefused, JobSettles, PutSchedule, DropSchedule,
              DeleteLocks, DeleteRow, DeleteFails, SweepStarts, SweepAsks, SweepSchedules,
              SweepRow, SweepEnds, SweepFails, SweepLocks, Crash, Start, LifeTick, allVars
<1> QED
  BY <1>1, <1>2, <1>3, <1>4 DEF LifeNext, ChatNext, JobNext, DeleteNext, SweepNext

\* A file that is there makes a difference.
LEMMA SomeFile ==
  ASSUME NEW s \in Sessions, NEW k \in Kinds, files[s][k] # 0
  PROVE  files[s] # NoFiles
BY DEF NoFiles

\* Files have their row.
LEMMA AttributedStep ==
  ASSUME TypeOK, Sized, Kept, Joined, Still, RowStays, AttributedUnlessBoth, [LifeNext]_allVars
  PROVE  AttributedUnlessBoth'
<1> USE TwoKinds
<1> SUFFICES ASSUME Chats = {} \/ Deleters = {}, NEW s \in Sessions, files'[s] # NoFiles
             PROVE  usage'[s].registered
  BY DEF AttributedUnlessBoth, FilesAttributed, Attributed
<1>a. files[s] # NoFiles => usage[s].registered
  BY DEF AttributedUnlessBoth, FilesAttributed, Attributed
<1>1. CASE UNCHANGED files
  <2>1. usage[s].registered
    BY <1>1, <1>a
  <2>2. ~ Erases(s)
    BY <1>1 DEF Erases
  <2>3. ASSUME NEW r \in Sessions, Erases(r)
        PROVE  usage'[s] = usage[s]
    BY <2>2, <2>3, RemoveDoes DEF Erases
  <2>4. ASSUME NEW t \in Turns, Acts(t)
        PROVE  usage'[s].registered
    BY <2>1, <2>4 DEF Acts, Refreshes
  <2> QED
    BY <2>1, <2>3, <2>4, LedgerMoves DEF Reboots
<1>2. ASSUME UNCHANGED vars, NEW t \in Turns, NEW f \in Footprints, Writes(t, f)
      PROVE  usage'[s].registered
  <2>1. /\ work[t].stage = "inside" /\ turn[t].phase = "admitted"
        /\ \A r \in Sessions \ {work[t].session} : files'[r] = files[r]
    BY <1>2, WritesDoes
  <2>2. turn[t].session = work[t].session
    BY <2>1 DEF Joined
  <2>3. usage[work[t].session].registered
    BY <2>1, <2>2 DEF RowStays
  <2> QED
    BY <1>2, <1>a, <2>1, <2>3 DEF vars
<1>3. ASSUME UNCHANGED vars, NEW r \in Sessions, NEW k \in Kinds, RemoveFile(r, k)
      PROVE  usage'[s].registered
  <2>1. files[r] # NoFiles /\ \A q \in Sessions \ {r} : files'[q] = files[q]
    BY <1>3, SomeFile, RemoveFileDoes DEF RemoveFile
  <2> QED
    BY <1>3, <1>a, <2>1 DEF vars
<1> QED
  BY <1>1, <1>2, <1>3, FilesMove

\* A chat at work stays at work until it settles.
LEMMA ChatStays ==
  ASSUME TypeOK, Sized, Kept, Joined, [LifeNext]_allVars, ~ Crash,
         NEW c \in Chats, work[c].stage \in {"inside", "measured"}, ~ ChatSettles(c)
  PROVE  work'[c].session = work[c].session /\ work'[c].stage \in {"inside", "measured"}
<1> USE TwoKinds DEF lifeVars
<1> DEFINE Stays == /\ work'[c].session = work[c].session
                    /\ work'[c].stage \in {"inside", "measured"}
<1>a. ASSUME NEW t \in Turns, t # c, OthersWork(t)
      PROVE  Stays
  BY <1>a DEF OthersWork
<1>b. ASSUME UNCHANGED work
      PROVE  Stays
  BY <1>b
<1> HIDE DEF Stays
<1>1. ASSUME NEW d \in Chats, ChatEnters(d)
      PROVE  Stays
  BY <1>1, <1>a, ChatEntersDoes
<1>2. ASSUME NEW t \in Turns, Measures(t)
      PROVE  Stays
  <2>1. CASE t = c
    BY <1>2, <2>1, MeasuresDoes DEF Stays
  <2>2. CASE t # c
    BY <1>2, <1>a, <2>2, MeasuresDoes
  <2> QED
    BY <2>1, <2>2
<1>3. ASSUME NEW d \in Chats, ChatSettles(d)
      PROVE  Stays
  <2>1. d # c /\ work' = [work EXCEPT ![d] = Away]
    BY <1>3 DEF ChatSettles
  <2> QED
    BY <1>a, <2>1, LeavesDoes
<1>4. ASSUME NEW j \in Jobs, NEW s \in Sessions, JobClaims(j, s)
      PROVE  Stays
  BY <1>4, <1>a, JobClaimsDoes
<1>5. ASSUME NEW j \in Jobs, JobEnters(j)
      PROVE  Stays
  BY <1>5, <1>a, JobEntersDoes
<1>6. ASSUME NEW j \in Jobs, JobSkips(j) \/ JobRefused(j) \/ JobSettles(j)
      PROVE  Stays
  <2>1. work' = [work EXCEPT ![j] = Away]
    BY <1>6 DEF JobSkips, JobRefused, JobSettles
  <2> QED
    BY <1>a, <2>1, LeavesDoes
<1>7. ASSUME NEW s \in Sessions, PutSchedule(s)
      PROVE  Stays
  BY <1>7, PutScheduleDoes DEF Stays
<1>8. ASSUME \/ \E d \in Chats : ChatAcquires(d) \/ ChatGivesUp(d)
             \/ \E j \in Jobs : JobAcquires(j)
             \/ \E t \in Turns, f \in Footprints : Writes(t, f)
             \/ \E s \in Sessions : DropSchedule(s)
             \/ \E d \in Deleters : DeleteNext(d)
             \/ SweepNext \/ Start \/ LifeTick \/ UNCHANGED allVars
      PROVE  Stays
  <2>1. UNCHANGED work
    BY <1>8 DEF ChatAcquires, ChatGivesUp, JobAcquires, Writes, DropSchedule, DeleteNext,
                DeleteLocks, DeleteFile, DeleteRow, DeleteFails, SweepNext, SweepStarts, SweepAsks,
                SweepSchedules, SweepRow, SweepEnds, SweepFails, SweepLocks, SweepFile, Start,
                LifeTick, allVars
  <2> QED
    BY <1>b, <2>1
<1> QED
  BY <1>1, <1>2, <1>3, <1>4, <1>5, <1>6, <1>7, <1>8 DEF LifeNext, ChatNext, JobNext, Stays

\* Files without a row are those of a chat at work.
LEMMA ExplainedStep ==
  ASSUME TypeOK, Sized, Kept, Joined, Still, RowStays, Explained, [LifeNext]_allVars
  PROVE  Explained'
<1> USE TwoKinds
<1> SUFFICES ASSUME mode' = "up", NEW s \in Sessions,
                    files'[s] # NoFiles, ~ usage'[s].registered
             PROVE  \E c \in Chats : /\ work'[c].session = s
                                     /\ work'[c].stage \in {"inside", "measured"}
  BY DEF Explained
<1>1. ~ Start
  <2>1. ASSUME Start
        PROVE  FALSE
    <3>1. Restart(files, written) /\ Attributed(s) /\ UNCHANGED files
      BY <2>1 DEF Start
    <3> QED
      BY <3>1, RestartDoes DEF Attributed
  <2> QED
    BY <2>1
<1>2. ~ Crash
  BY DEF Crash
<1>3. mode = "up"
  BY <1>1, <1>2, ModeStays
\* The row was not there before, or a file of the session goes with it.
<1>4. ASSUME files[s] # NoFiles
      PROVE  ~ usage[s].registered
  <2>1. ASSUME NEW t \in Turns, Acts(t), usage[s].registered
        PROVE  usage'[s].registered
    BY <2>1 DEF Acts, Refreshes
  <2>2. ASSUME NEW r \in Sessions, Erases(r)
        PROVE  usage'[s] = usage[s]
    BY <1>4, <2>2, RemoveDoes DEF Erases
  <2> QED
    BY <2>1, <2>2, LedgerMoves DEF Reboots
<1>5. CASE files[s] # NoFiles
  <2>1. PICK c \in Chats : work[c].session = s /\ work[c].stage \in {"inside", "measured"}
    BY <1>3, <1>4, <1>5 DEF Explained
  <2>2. ASSUME ChatSettles(c)
        PROVE  FALSE
    <3>1. work[c].seen \in [Kinds -> Nat] /\ turn[c].session = s
      BY <2>1 DEF Joined, Kept, Works
    <3> QED
      BY <2>2, <3>1, SettleMeasuredDoes DEF ChatSettles
  <2> QED
    BY <1>2, <2>1, <2>2, ChatStays
\* A first file is written by a turn, and a job has its row.
<1>6. CASE files[s] = NoFiles
  <2>1. ASSUME NEW r \in Sessions, NEW k \in Kinds, RemoveFile(r, k)
        PROVE  files'[s] = files[s]
    BY <1>6, <2>1, SomeFile, RemoveFileDoes DEF RemoveFile
  <2>2. PICK t \in Turns, f \in Footprints : UNCHANGED vars /\ Writes(t, f)
    BY <1>6, <2>1, FilesMove
  <2>3. work[t].session = s /\ work[t].stage = "inside" /\ turn[t].phase = "admitted"
    BY <1>6, <2>2, WritesDoes
  <2>4. UNCHANGED <<usage, work>>
    BY <2>2 DEF Writes, vars
  <2>5. t \notin Jobs
    BY <2>3, <2>4 DEF RowStays, Joined
  <2> QED
    BY <2>3, <2>4, <2>5
<1> QED
  BY <1>5, <1>6

\* A session nobody writes is charged for its files.
LEMMA ChargedStep ==
  ASSUME TypeOK, Sized, Kept, Joined, Still, Locked, StillInactive, NoRowNoCharge,
         ChargedExactly, [LifeNext]_allVars
  PROVE  ChargedExactly'
<1> USE TwoKinds, Threads DEF lifeVars
<1> DEFINE Good(s) == ~ Written(s) => Charged(s) /\ (Erased(s) \/ NotCharged(s))
           Seen(t) == work[t].stage = "measured" => work[t].seen = files[work[t].session]
<1> SUFFICES ASSUME Chats = {}, mode' = "up"
             PROVE  (\A s \in Sessions : Good(s)') /\ (\A t \in Turns : Seen(t)')
  BY DEF ChargedExactly
<1>a. Turns = Jobs
  OBVIOUS
<1>b. mode = "up" => (\A s \in Sessions : Good(s)) /\ (\A t \in Turns : Seen(t))
  BY DEF ChargedExactly
<1>c. ASSUME NEW t \in Turns
      PROVE  /\ work[t].stage # "away" => work[t].session \in Sessions
             /\ work[t].stage = "measured" => turn[t].phase = "admitted"
             /\ turn[t].phase # "idle" => /\ work[t].stage \in {"inside", "measured"}
                                          /\ turn[t].session = work[t].session
             /\ work[t].stage \in {"inside", "measured"} => holder[work[t].session] = t
  BY <1>a DEF Joined, Locked
\* Whoever is charged for a session at work holds its lock.
<1>d. ASSUME NEW s \in Sessions, Written(s)
      PROVE  /\ holder[s] \in Turns
             /\ work[holder[s]].session = s
             /\ \/ work[holder[s]].stage = "measured"
                \/ work[holder[s]].stage = "inside" /\ turn[holder[s]].phase = "admitted"
  BY <1>c, <1>d DEF Written
\* Files, rows and those at work on a session stay as they are.
<1>e. ASSUME NEW s \in Sessions, mode = "up", Written(s) => Written(s)', Erased(s) => Erased(s)',
             files'[s] = files[s], usage'[s].bytes = usage[s].bytes
      PROVE  Good(s)'
  BY <1>b, <1>e DEF Charged, NotCharged
\* So do the measurements.
<1>f. ASSUME NEW t \in Turns, mode = "up",
             work'[t].stage = "measured" =>
               /\ work[t].stage = "measured"
               /\ work'[t].session = work[t].session
               /\ work'[t].seen = work[t].seen
               /\ files'[work[t].session] = files[work[t].session]
      PROVE  Seen(t)'
  BY <1>b, <1>f
<1> HIDE DEF Good, Seen
\* A job moves that was not at work on its session.
<1>g. ASSUME NEW j \in Turns, mode = "up", OthersWork(j), OthersTurn(j) \/ UNCHANGED turn,
             work[j].stage # "measured",
             work[j].stage = "inside" => turn[j].phase # "admitted",
             work'[j].stage # "measured",
             UNCHANGED <<files, deleting, sweep>>,
             \A s \in Sessions : usage'[s].bytes = usage[s].bytes
      PROVE  (\A s \in Sessions : Good(s)') /\ (\A t \in Turns : Seen(t)')
  <2>1. ASSUME NEW t \in Turns, t # j
        PROVE  work'[t] = work[t] /\ turn'[t] = turn[t]
    BY <1>g, <2>1 DEF OthersWork, OthersTurn
  <2>2. \A s \in Sessions : Written(s) => Written(s)'
    BY <1>g, <2>1 DEF Written
  <2>3. \A s \in Sessions : Erased(s) => Erased(s)'
    BY <1>g DEF Erased
  <2>4. \A t \in Turns : Seen(t)'
    BY <1>f, <1>g, <2>1
  <2> QED
    BY <1>e, <1>g, <2>2, <2>3, <2>4
\* The turns stand still.
<1>h. ASSUME mode = "up", UNCHANGED <<files, turn, work>>,
             \A s \in Sessions : usage'[s].bytes = usage[s].bytes,
             \A s \in Sessions : Erased(s) => Erased(s)'
      PROVE  (\A s \in Sessions : Good(s)') /\ (\A t \in Turns : Seen(t)')
  <2>1. \A s \in Sessions : Written(s) => Written(s)'
    BY <1>h DEF Written
  <2> QED
    BY <1>e, <1>f, <1>h, <2>1
<1>1. ASSUME NEW j \in Jobs, mode = "up", \E s \in Sessions : JobClaims(j, s)
      PROVE  (\A s \in Sessions : Good(s)') /\ (\A t \in Turns : Seen(t)')
  <2>1. /\ work[j].stage = "away" /\ work'[j].stage = "claimed" /\ OthersWork(j)
        /\ UNCHANGED <<files, turn, usage, deleting, sweep>>
    BY <1>1, JobClaimsDoes DEF JobClaims, vars
  <2> QED
    BY <1>1, <1>g, <2>1
<1>2. ASSUME NEW j \in Jobs, mode = "up", JobEnters(j)
      PROVE  (\A s \in Sessions : Good(s)') /\ (\A t \in Turns : Seen(t)')
  <2>1. /\ work[j].stage = "claimed" /\ work'[j].stage = "inside" /\ OthersWork(j)
        /\ UNCHANGED <<files, turn, usage, deleting, sweep>>
    BY <1>2, JobEntersDoes DEF JobEnters, vars
  <2> QED
    BY <1>2, <1>g, <2>1
<1>3. ASSUME NEW j \in Jobs, mode = "up", JobSkips(j)
      PROVE  (\A s \in Sessions : Good(s)') /\ (\A t \in Turns : Seen(t)')
  <2>1. /\ work[j].stage = "claimed" /\ work'[j].stage = "away" /\ OthersWork(j)
        /\ UNCHANGED <<files, turn, usage, deleting, sweep>>
    BY <1>3, LeavesDoes DEF JobSkips, vars
  <2> QED
    BY <1>3, <1>g, <2>1
<1>4. ASSUME NEW j \in Jobs, mode = "up", JobAcquires(j)
      PROVE  (\A s \in Sessions : Good(s)') /\ (\A t \in Turns : Seen(t)')
  <2>1. work[j].stage = "inside" /\ UNCHANGED <<files, work, deleting, sweep>>
    BY <1>4 DEF JobAcquires
  <2>2. /\ OthersTurn(j) /\ turn[j].phase # "admitted"
        /\ \A s \in Sessions : usage'[s].bytes = usage[s].bytes
    <3>1. CASE ReadClock(j, work[j].session)
      BY <1>c, <2>1, <3>1, ReadClockDoes
    <3>2. CASE Admit(j)
      BY <3>2, AdmitDoes
    <3> QED
      BY <1>4, <3>1, <3>2 DEF JobAcquires
  <2> QED
    BY <1>4, <1>g, <2>1, <2>2 DEF OthersWork
<1>5. ASSUME NEW j \in Jobs, mode = "up", JobRefused(j)
      PROVE  (\A s \in Sessions : Good(s)') /\ (\A t \in Turns : Seen(t)')
  <2>1. /\ work[j].stage = "inside" /\ work'[j].stage = "away" /\ OthersWork(j)
        /\ UNCHANGED <<files, deleting, sweep>>
    BY <1>5, LeavesDoes DEF JobRefused
  <2>2. turn[j].phase = "clocked" /\ OthersTurn(j) /\ UNCHANGED usage
    BY <1>5, RefuseDoes DEF JobRefused
  <2> QED
    BY <1>5, <1>g, <2>1, <2>2
<1>6. ASSUME NEW j \in Jobs, mode = "up", JobSettles(j)
      PROVE  (\A s \in Sessions : Good(s)') /\ (\A t \in Turns : Seen(t)')
  <2>0. PICK s \in Sessions : s = work[j].session
    BY <1>6, <1>c DEF JobSettles
  <2>1. /\ work[j].stage = "measured" /\ work'[j].stage = "away" /\ OthersWork(j)
        /\ UNCHANGED <<files, deleting, sweep>>
    BY <1>6, LeavesDoes DEF JobSettles
  <2>2. work[j].seen \in [Kinds -> Nat] /\ turn[j].session = s
    BY <1>c, <2>0, <2>1 DEF Kept, Works
  <2>3. /\ OthersTurn(j)
        /\ usage'[s].bytes = work[j].seen
        /\ \A r \in Sessions \ {s} : usage'[r] = usage[r]
    BY <1>6, <2>2, SettleMeasuredDoes DEF JobSettles
  <2>4. usage'[s].bytes = files'[s]
    BY <1>6, <1>b, <2>0, <2>1, <2>3 DEF Seen
  <2>5. Good(s)'
    BY <2>4 DEF Good, Charged, NotCharged
  <2>6. ASSUME NEW t \in Turns, t # j
        PROVE  work'[t] = work[t] /\ turn'[t] = turn[t]
    BY <2>1, <2>3, <2>6 DEF OthersWork, OthersTurn
  <2>7. ASSUME NEW r \in Sessions, r # s
        PROVE  Good(r)'
    <3>1. Written(r) => Written(r)'
      BY <2>0, <2>6, <2>7 DEF Written
    <3>2. Erased(r) => Erased(r)'
      BY <2>1 DEF Erased
    <3> QED
      BY <1>6, <1>e, <2>1, <2>3, <2>7, <3>1, <3>2
  <2>8. \A t \in Turns : Seen(t)'
    BY <1>6, <1>f, <2>1, <2>6
  <2> QED
    BY <2>5, <2>7, <2>8
<1>7. ASSUME NEW t \in Turns, mode = "up", Measures(t)
      PROVE  (\A s \in Sessions : Good(s)') /\ (\A u \in Turns : Seen(u)')
  <2> DEFINE s == work[t].session
  <2>1. /\ s \in Sessions /\ work[t].stage = "inside"
        /\ work'[t].stage = "measured" /\ work'[t].session = s /\ work'[t].seen = files[s]
        /\ OthersWork(t)
    BY <1>7, MeasuresDoes
  <2>2. UNCHANGED <<files, turn, usage, deleting, sweep>>
    BY <1>7 DEF Measures, vars
  <2>3. ASSUME NEW u \in Turns, u # t
        PROVE  work'[u] = work[u]
    BY <2>1, <2>3 DEF OthersWork
  <2>4. \A r \in Sessions : Written(r) => Written(r)'
    BY <2>1, <2>2, <2>3 DEF Written
  <2>5. \A r \in Sessions : Erased(r) => Erased(r)'
    BY <2>2 DEF Erased
  <2>6. Seen(t)'
    BY <2>1, <2>2 DEF Seen
  <2>7. \A u \in Turns \ {t} : Seen(u)'
    BY <1>7, <1>f, <2>2, <2>3
  <2> QED
    BY <1>7, <1>e, <2>2, <2>4, <2>5, <2>6, <2>7
\* The files of a session change at the hands of one who has its lock.
<1>i. ASSUME NEW s \in Sessions, mode = "up", Written(s) \/ Erased(s),
             UNCHANGED <<turn, work, deleting, sweep, usage>>,
             \A t \in Turns : work[t].session = s => work[t].stage # "measured",
             \A r \in Sessions \ {s} : files'[r] = files[r],
             Erased(s) => \A k \in Kinds : files'[s][k] # 0 => files'[s][k] = files[s][k]
      PROVE  (\A r \in Sessions : Good(r)') /\ (\A t \in Turns : Seen(t)')
  <2>1. \A r \in Sessions : (Written(r)' <=> Written(r)) /\ (Erased(r)' <=> Erased(r))
    BY <1>i DEF Written, Erased
  <2>2. Good(s)'
    <3>1. ASSUME ~ Written(s)
          PROVE  Charged(s)' /\ Erased(s)'
      <4>1. Charged(s) /\ Erased(s)
        BY <1>b, <1>i, <3>1 DEF Good
      <4> QED
        BY <1>i, <2>1, <4>1 DEF Charged
    <3> QED
      BY <2>1, <3>1 DEF Good
  <2>3. \A r \in Sessions \ {s} : Good(r)'
    BY <1>i, <1>e, <2>1
  <2>4. \A t \in Turns : Seen(t)'
    BY <1>i, <1>c, <1>f
  <2> QED
    BY <2>2, <2>3, <2>4
<1>8. ASSUME NEW t \in Turns, NEW f \in Footprints, mode = "up", Writes(t, f)
      PROVE  (\A s \in Sessions : Good(s)') /\ (\A u \in Turns : Seen(u)')
  <2> DEFINE s == work[t].session
  <2>1. /\ s \in Sessions /\ work[t].stage = "inside" /\ turn[t].phase = "admitted"
        /\ \A r \in Sessions \ {s} : files'[r] = files[r]
    BY <1>8, WritesDoes
  <2>2. UNCHANGED <<turn, work, deleting, sweep, usage>>
    BY <1>8 DEF Writes, vars
  <2>3. Written(s)
    BY <2>1 DEF Written
  <2>4. holder[s] = t
    BY <1>c, <2>1
  <2>5. \A u \in Turns : work[u].session = s => work[u].stage # "measured"
    BY <1>c, <2>1, <2>4
  <2>6. ~ Erased(s)
    BY <2>1, <2>4 DEF Erased, Locked, Holding
  <2> QED
    BY <1>8, <1>i, <2>1, <2>2, <2>3, <2>5, <2>6
\* An erasure, under the lock of one who is no turn.
<1>9. ASSUME NEW s \in Sessions, NEW k \in Kinds, mode = "up", RemoveFile(s, k), Erased(s),
             UNCHANGED <<vars, work, deleting, sweep>>
      PROVE  (\A r \in Sessions : Good(r)') /\ (\A t \in Turns : Seen(t)')
  <2>1. /\ \A r \in Sessions \ {s} : files'[r] = files[r]
        /\ \A m \in Kinds : files'[s][m] # 0 => files'[s][m] = files[s][m]
    BY <1>9, RemoveFileDoes
  <2>2. holder[s] \notin Turns
    BY <1>9 DEF Erased, Locked, Holding
  <2>3. \A u \in Turns : work[u].session = s => work[u].stage # "measured"
    BY <1>c, <2>2
  <2>4. UNCHANGED <<turn, usage>>
    BY <1>9 DEF vars
  <2> QED
    BY <1>9, <1>i, <2>1, <2>3, <2>4
<1>10. ASSUME NEW d \in Deleters, NEW k \in Kinds, mode = "up", DeleteFile(d, k)
       PROVE  (\A s \in Sessions : Good(s)') /\ (\A t \in Turns : Seen(t)')
  <2>1. deleting[d] \in Sessions /\ Erased(deleting[d])
    BY <1>10 DEF DeleteFile, Kept, Erased
  <2> QED
    BY <1>9, <1>10, <2>1 DEF DeleteFile
<1>11. ASSUME NEW k \in Kinds, mode = "up", SweepFile(k)
       PROVE  (\A s \in Sessions : Good(s)') /\ (\A t \in Turns : Seen(t)')
  <2>1. sweep.session \in Sessions /\ Erased(sweep.session)
    BY <1>11 DEF SweepFile, Joined, Holding, Erased
  <2> QED
    BY <1>9, <1>11, <2>1 DEF SweepFile
\* A row goes, and its files are gone.
<1>12. ASSUME NEW s \in Sessions, mode = "up", UNCHANGED <<files, turn, work>>,
              files[s] = NoFiles,
              RemoveSession(s) \/ (~ usage[s].registered /\ UNCHANGED usage),
              \A r \in Sessions \ {s} : Erased(r) => Erased(r)'
       PROVE  (\A r \in Sessions : Good(r)') /\ (\A t \in Turns : Seen(t)')
  <2>1. usage'[s].bytes = NoFiles /\ \A r \in Sessions \ {s} : usage'[r] = usage[r]
    BY <1>12, RemoveDoes DEF NoRowNoCharge
  <2>2. Good(s)'
    <3>1. files'[s] = NoFiles /\ \A k \in Kinds : files'[s][k] = 0
      BY <1>12 DEF NoFiles
    <3> QED
      BY <2>1, <3>1 DEF Good, Charged, NotCharged
  <2>3. \A r \in Sessions : Written(r) => Written(r)'
    BY <1>12 DEF Written
  <2>4. \A r \in Sessions \ {s} : Good(r)'
    BY <1>12, <1>e, <2>1, <2>3
  <2>5. \A t \in Turns : Seen(t)'
    BY <1>12, <1>f
  <2> QED
    BY <2>2, <2>4, <2>5
\* A deletion ends, and the others do not.
<1>13. ASSUME NEW d \in Deleters, deleting' = [deleting EXCEPT ![d] = NoSession], UNCHANGED sweep,
              NEW s \in Sessions, s # deleting[d], Erased(s)
       PROVE  Erased(s)'
  BY <1>13 DEF Erased, Kept
<1>14. ASSUME NEW d \in Deleters, mode = "up", DeleteRow(d)
       PROVE  (\A s \in Sessions : Good(s)') /\ (\A t \in Turns : Seen(t)')
  <2>1. /\ deleting[d] \in Sessions /\ files[deleting[d]] = NoFiles
        /\ UNCHANGED <<files, work, sweep>> /\ UNCHANGED turn
        /\ deleting' = [deleting EXCEPT ![d] = NoSession]
    BY <1>14 DEF DeleteRow, Kept, RemoveSession, vars
  <2>2. \/ RemoveSession(deleting[d])
        \/ ~ usage[deleting[d]].registered /\ UNCHANGED usage
    BY <1>14 DEF DeleteRow, vars
  <2> QED
    BY <1>12, <1>13, <1>14, <2>1, <2>2
<1>15. ASSUME NEW d \in Deleters, mode = "up", DeleteFails(d)
       PROVE  (\A s \in Sessions : Good(s)') /\ (\A t \in Turns : Seen(t)')
  <2>0. PICK s \in Sessions : s = deleting[d]
    BY <1>15 DEF DeleteFails, Kept
  <2>1. /\ files[s] # NoFiles
        /\ UNCHANGED <<files, turn, usage, work, sweep>>
        /\ deleting' = [deleting EXCEPT ![d] = NoSession]
    BY <1>15, <2>0 DEF DeleteFails, vars
  <2>2. \A r \in Sessions : Written(r) => Written(r)'
    BY <2>1 DEF Written
  <2>3. Good(s)'
    BY <1>15, <1>b, <2>1, <2>2 DEF Good, Charged, NotCharged
  <2>4. \A r \in Sessions \ {s} : Good(r)'
    BY <1>15, <1>e, <1>13, <2>0, <2>1, <2>2
  <2>5. \A t \in Turns : Seen(t)'
    BY <1>15, <1>f, <2>1
  <2> QED
    BY <2>3, <2>4, <2>5
<1>16. ASSUME NEW d \in Deleters, NEW s \in Sessions, mode = "up", DeleteLocks(d, s)
       PROVE  (\A r \in Sessions : Good(r)') /\ (\A t \in Turns : Seen(t)')
  <2>1. /\ UNCHANGED <<files, turn, usage, work, sweep>> /\ deleting[d] = NoSession
        /\ deleting' = [deleting EXCEPT ![d] = s]
    BY <1>16 DEF DeleteLocks, vars
  <2>2. \A r \in Sessions : Erased(r) => Erased(r)'
    BY <2>1 DEF Erased, Kept
  <2> QED
    BY <1>16, <1>h, <2>1, <2>2
<1>17. CASE mode = "up" /\ SweepRow
  <2> DEFINE s == sweep.session
  <2>1. /\ sweep.stage = "erasing" /\ s \in Sessions /\ files[s] = NoFiles
        /\ UNCHANGED <<files, work, deleting>>
    BY <1>17 DEF SweepRow, Joined, Holding
  <2>2. Inactive(s, sweep.cutoff)
    BY <2>1 DEF StillInactive, Holding
  <2>3. RemoveSession(s) /\ UNCHANGED turn
    BY <1>17, <2>2 DEF SweepRow, RemoveSession
  <2>4. \A r \in Sessions \ {s} : Erased(r) => Erased(r)'
    BY <2>1 DEF Erased
  <2> QED
    BY <1>12, <1>17, <2>1, <2>3, <2>4
<1>18. CASE mode = "up" /\ SweepFails
  <2>0. PICK s \in Sessions : s = sweep.session
    BY <1>18 DEF SweepFails, Joined, Holding
  <2>1. /\ sweep.stage = "erasing" /\ files[s] # NoFiles
        /\ UNCHANGED <<files, turn, usage, work, deleting>>
    BY <1>18, <2>0 DEF SweepFails, vars
  <2>2. \A r \in Sessions : Written(r) => Written(r)'
    BY <2>1 DEF Written
  <2>3. Good(s)'
    BY <1>18, <1>b, <2>1, <2>2 DEF Good, Charged, NotCharged
  <2>4. \A r \in Sessions \ {s} : Erased(r) => Erased(r)'
    BY <2>0, <2>1 DEF Erased
  <2>5. \A r \in Sessions \ {s} : Good(r)'
    BY <1>18, <1>e, <2>1, <2>2, <2>4
  <2>6. \A t \in Turns : Seen(t)'
    BY <1>18, <1>f, <2>1
  <2> QED
    BY <2>3, <2>5, <2>6
<1>19. ASSUME mode = "up", SweepStarts \/ SweepAsks \/ SweepSchedules \/ SweepEnds
                           \/ \E s \in Sessions : SweepLocks(s)
       PROVE  (\A s \in Sessions : Good(s)') /\ (\A t \in Turns : Seen(t)')
  <2>1. UNCHANGED <<files, turn, usage, work, deleting>>
    BY <1>19 DEF SweepStarts, SweepAsks, SweepSchedules, SweepEnds, SweepLocks, vars
  <2>2. sweep.stage # "erasing"
    BY <1>19, RestingIsSweep DEF SweepStarts, SweepAsks, SweepSchedules, SweepEnds, SweepLocks
  <2>3. \A s \in Sessions : Erased(s) => Erased(s)'
    BY <2>1, <2>2 DEF Erased
  <2> QED
    BY <1>19, <1>h, <2>1, <2>3
<1>20. ASSUME NEW s \in Sessions, mode = "up", PutSchedule(s)
       PROVE  (\A r \in Sessions : Good(r)') /\ (\A t \in Turns : Seen(t)')
  <2>1. \A t \in Turns : /\ work'[t].stage = work[t].stage
                         /\ work'[t].session = work[t].session
                         /\ work'[t].seen = work[t].seen
    BY <1>20, PutScheduleDoes
  <2>2. UNCHANGED <<files, turn, usage, deleting, sweep>>
    BY <1>20 DEF PutSchedule, vars
  <2>3. \A r \in Sessions : (Written(r) => Written(r)') /\ (Erased(r) => Erased(r)')
    BY <2>1, <2>2 DEF Written, Erased
  <2> QED
    BY <1>20, <1>e, <1>f, <2>1, <2>2, <2>3
<1>21. ASSUME mode = "up",
              (\E s \in Sessions : DropSchedule(s)) \/ LifeTick \/ UNCHANGED allVars
       PROVE  (\A s \in Sessions : Good(s)') /\ (\A t \in Turns : Seen(t)')
  <2>1. UNCHANGED <<files, turn, usage, work, deleting, sweep>>
    BY <1>21 DEF DropSchedule, LifeTick, Tick, vars, allVars
  <2>2. \A s \in Sessions : Erased(s) => Erased(s)'
    BY <2>1 DEF Erased
  <2> QED
    BY <1>21, <1>h, <2>1, <2>2
\* The start repairs the ledger.
<1>22. CASE Start
  <2>1. /\ \A s \in Sessions : Attributed(s)
        /\ Restart(files, written)
        /\ mode = "down"
        /\ UNCHANGED <<files, work>>
    BY <1>22 DEF Start
  <2>2. \A t \in Turns : work[t].stage = "away"
    BY <2>1 DEF Still
  <2>3. ASSUME NEW s \in Sessions
        PROVE  Good(s)'
    <3>1. CASE usage[s].registered
      <4>1. usage'[s].bytes = files'[s]
        BY <2>1, <3>1, RestartDoes
      <4> QED
        BY <4>1 DEF Good, Charged, NotCharged
    <3>2. CASE ~ usage[s].registered
      <4>1. files[s] = NoFiles
        BY <2>1, <3>2 DEF Attributed
      <4>2. usage'[s].bytes = NoFiles
        BY <2>1, <3>2, RestartDoes DEF NoRowNoCharge
      <4>3. files'[s] = NoFiles /\ \A k \in Kinds : files'[s][k] = 0
        BY <2>1, <4>1 DEF NoFiles
      <4> QED
        BY <4>2, <4>3 DEF Good, Charged, NotCharged
    <3> QED
      BY <3>1, <3>2
  <2> QED
    BY <2>1, <2>2, <2>3 DEF Seen
<1>23. mode = "up" \/ Start
  BY DEF LifeNext, LifeTick, allVars
<1>24. ~ Crash
  BY DEF Crash
<1> QED
  BY <1>1, <1>2, <1>3, <1>4, <1>5, <1>6, <1>7, <1>8, <1>10, <1>11, <1>14, <1>15, <1>16, <1>17,
     <1>18, <1>19, <1>20, <1>21, <1>22, <1>23, <1>24
  DEF LifeNext, JobNext, DeleteNext, SweepNext

-----------------------------------------------------------------------------
(* The theorems. *)

LEMMA LifeInvInit == LifeInit => LifeInv
<1> SUFFICES ASSUME LifeInit
             PROVE  LifeInv
  OBVIOUS
<1> USE TwoKinds, Threads DEF LifeInit
<1>a. /\ \A t \in Turns : /\ work[t].stage = "away" /\ work[t].session = NoSession
                          /\ turn[t].phase = "idle"
      /\ sweep.stage = "resting"
      /\ \A s \in Sessions : usage[s] = Unregistered /\ files[s] = NoFiles
  BY AwayIsWork, RestingIsSweep, IdleIsTurn DEF Init
<1>1. TypeOK
  BY InitType
<1>2. LifeTypeOK
  <2>1. Sized
    BY AwayIsWork DEF Sized
  <2>2. Kept
    BY AwayIsWork, RestingIsSweep DEF Kept
  <2> QED
    BY <2>1, <2>2, LifeTypesAre
<1>3. Joined /\ Still /\ Timely /\ RowStays /\ RowYoung /\ OrphansWait /\ StillInactive
  BY <1>a DEF Joined, Still, Timely, RowStays, RowYoung, OrphansWait, StillInactive, Holding
<1>4. Locked
  BY <1>a DEF Locked, Holding
<1>5. Unregistered.bytes = NoFiles
  BY DEF Unregistered, NoFiles
<1>6. NoRowNoCharge
  BY <1>a, <1>5 DEF NoRowNoCharge
<1>7. \A s \in Sessions : Charged(s) /\ NotCharged(s)
  BY <1>a, <1>5 DEF Charged, NotCharged, NoFiles
<1>8. ChargedExactly
  BY <1>a, <1>7 DEF ChargedExactly
<1>9. AttributedUnlessBoth
  BY <1>a DEF AttributedUnlessBoth, FilesAttributed, Attributed
<1>10. Explained
  BY <1>a DEF Explained
<1> QED
  BY <1>1, <1>2, <1>3, <1>4, <1>6, <1>8, <1>9, <1>10 DEF LifeInv

LEMMA LifeInvStep == LifeInv /\ [LifeNext]_allVars => LifeInv'
<1> SUFFICES ASSUME LifeInv, [LifeNext]_allVars
             PROVE  LifeInv'
  OBVIOUS
<1>1. /\ TypeOK /\ Sized /\ Kept
      /\ Joined /\ Still /\ Locked /\ Timely
      /\ RowStays /\ RowYoung /\ OrphansWait /\ StillInactive
      /\ NoRowNoCharge /\ ChargedExactly /\ AttributedUnlessBoth /\ Explained
  BY LifeTypesAre DEF LifeInv
<1>2. TypeOK' /\ Sized' /\ Kept'
  BY <1>1, LifeTypesStep
<1>3. LifeTypeOK'
  BY <1>2 DEF LifeTypeOK, Sized, Kept, Works, Sweeps
<1>4. Joined' /\ Still' /\ Locked' /\ Timely'
  BY <1>1, JoinedStep, StillStep, LockedStep, TimelyStep
<1>5. RowStays' /\ RowYoung' /\ StillInactive' /\ NoRowNoCharge'
  BY <1>1, RowsStep, YoungStep
<1>6. OrphansWait' /\ ChargedExactly' /\ AttributedUnlessBoth' /\ Explained'
  BY <1>1, OrphansStep, ChargedStep, AttributedStep, ExplainedStep
<1> QED
  BY <1>2, <1>3, <1>4, <1>5, <1>6 DEF LifeInv

\* The invariant of the lifecycle: who holds a session's lock, how young its row is,
\* and what it is charged, under ProductService.dispatch, ProductScheduler.tick,
\* ProductDataManager.delete and ProductRetentionMonitor.tick at once.
THEOREM LifeInvHolds == LifeSpec => []LifeInv
<1> QED
  BY LifeInvInit, LifeInvStep, PTL DEF LifeSpec

\* The files, the locks and the locals of the four operations keep their types,
\* whatever operations run and wherever the process crashes.
THEOREM LifeTypes == LifeSpec => []LifeTypeOK
<1>1. LifeInv => LifeTypeOK
  BY DEF LifeInv
<1> QED
  BY <1>1, LifeInvHolds, PTL

\* A service that only runs scheduled turns, or that is asked for no deletion, never
\* has files without a ledger row: acquire_turn writes the row before the first file,
\* remove_registered_session removes it after the last one, and no turn is as old as
\* the sweep's cutoff.
THEOREM FilesAreAttributed ==
  ASSUME Chats = {} \/ Deleters = {}
  PROVE  LifeSpec => []FilesAttributed
<1>1. LifeInv => FilesAttributed
  BY DEF LifeInv, AttributedUnlessBoth
<1> QED
  BY <1>1, LifeInvHolds, PTL

\* Whatever operations run: files without a ledger row are those of a chat that was
\* admitted before a deletion removed the row and has not settled yet.  Once every turn
\* of the session settled, settle_turn has written the row again.
THEOREM RestIsAttributed == LifeSpec => []RestAttributed
<1>1. LifeInv => RestAttributed
  BY TwoKinds DEF LifeInv, Explained, RestAttributed, AtRest, Attributed
<1> QED
  BY <1>1, LifeInvHolds, PTL

\* The row of a session with an accepted turn is not the sweep's to remove, although
\* chats are accepted without the session's lock.  With deletions, two lifetimes of a
\* turn must pass before the retention period does.
THEOREM RowsAreSpared ==
  ASSUME Deleters = {} \/ 2 * TurnLimit < Retention
  PROVE  LifeSpec => RowsSpared
<1>1. ASSUME LifeInv, [LifeNext]_allVars, NEW s \in Sessions, NEW t \in Turns,
             holder[s] = Sweeper, usage[s].registered, ~ usage'[s].registered,
             turn[t].phase = "admitted", turn[t].session = s
      PROVE  FALSE
  <2> USE TwoKinds, Threads
  <2>a. /\ TypeOK /\ Sized /\ Kept /\ Joined /\ Still /\ Locked /\ Timely
        /\ RowStays /\ RowYoung
    BY <1>1, LifeTypesAre DEF LifeInv
  <2>b. /\ clock \in Nat /\ TurnLimit \in Nat /\ Retention \in Nat
        /\ TurnLimit < Retention /\ sweep.cutoff \in Int
    BY <2>a, DurationAssumption DEF TypeOK, DurationAssumption, Kept, Sweeps
  <2>c. turn[t].now \in Nat /\ usage[s].activity \in Nat
    BY <2>a DEF TypeOK, Turn, UsageRow
  <2>1. ASSUME NEW r \in Sessions, Erases(r)
        PROVE  FALSE
    <3>1. r = s
      BY <1>1, <2>1, <2>a, RemoveDoes DEF Erases
    <3>2. ASSUME NEW d \in Deleters
          PROVE  deleting[d] # s
      BY <1>1, <2>a DEF Locked
    <3>3. sweep.stage = "erasing" /\ Inactive(s, sweep.cutoff)
      BY <2>1, <3>1, <3>2 DEF Erases
    <3>4. usage[s].activity <= clock - Retention
      BY <2>a, <2>b, <2>c, <3>3 DEF Timely, Inactive
    <3>5. clock <= turn[t].now + TurnLimit
      BY <1>1, <2>a DEF Timely
    <3>6. CASE Deleters = {}
      <4>1. turn[t].now <= usage[s].activity
        BY <1>1, <2>a, <3>6 DEF RowStays
      <4> QED
        BY <2>b, <2>c, <3>4, <3>5, <4>1
    <3>7. CASE 2 * TurnLimit < Retention
      <4>1. turn[t].now <= usage[s].activity + TurnLimit
        BY <1>1, <2>a DEF RowYoung
      <4> QED
        BY <2>b, <2>c, <3>4, <3>5, <3>7, <4>1
    <3> QED
      BY <3>6, <3>7
  <2>2. ASSUME NEW u \in Turns, Acts(u)
        PROVE  FALSE
    BY <1>1, <2>2 DEF Acts, Refreshes
  <2> QED
    BY <1>1, <2>1, <2>2, <2>a, LedgerMoves DEF Reboots
<1>2. LifeInv /\ [LifeNext]_allVars
        => \A s \in Sessions :
             (holder[s] = Sweeper /\ usage[s].registered /\ ~ usage'[s].registered)
               => \A t \in Turns : turn[t].phase = "admitted" => turn[t].session # s
  BY <1>1
<1> QED
  BY <1>2, LifeInvHolds, PTL DEF LifeSpec, RowsSpared

\* A service without chats, or without deletions, starts again after
\* every crash: verify_quota_registry finds nothing that keeps reconcile_registered
\* from repairing the ledger.
THEOREM StartsAgain ==
  ASSUME Chats = {} \/ Deleters = {}
  PROVE  LifeSpec => []CrashRepaired
<1>1. LifeInit => CrashRepaired
  BY DEF LifeInit, CrashRepaired
<1>2. LifeInv /\ CrashRepaired /\ [LifeNext]_allVars => CrashRepaired'
  <2> SUFFICES ASSUME LifeInv, CrashRepaired, [LifeNext]_allVars
               PROVE  CrashRepaired'
    OBVIOUS
  <2>1. FilesAttributed /\ TypeOK /\ Kept /\ Still
    BY LifeTypesAre DEF LifeInv, AttributedUnlessBoth
  <2>2. CASE Start
    BY <2>1, <2>2 DEF Start, FilesAttributed, CrashRepaired
  <2>3. CASE ~ Start
    BY <2>3, ModeStays DEF Crash, CrashRepaired
  <2> QED
    BY <2>2, <2>3
<1> QED
  BY <1>1, <1>2, LifeInvHolds, PTL DEF LifeSpec

\* A job whose session was deleted after claim_due has claimed it never writes files
\* back, whatever operations run: it reads its entry again under the session lock.
THEOREM NoneResurrected == LifeSpec => NotResurrected
<1>1. LifeInv /\ [LifeNext]_allVars
        => \A s \in Sessions : files'[s] # files[s] => \A j \in orphans : holder[s] # j
  BY TwoKinds DEF LifeInv, LifeTypeOK, OrphansWait, Locked
<1> QED
  BY <1>1, LifeInvHolds, PTL DEF LifeSpec, NotResurrected

\* Where every turn is a scheduled one, the sweep erases no file of a session that was
\* active after its cutoff: activity advances under the lock the sweep then holds.
THEOREM ActiveAreSpared ==
  ASSUME Chats = {}
  PROVE  LifeSpec => ActiveSpared
<1>1. LifeInv /\ [LifeNext]_allVars
        => \A s \in Sessions : (holder[s] = Sweeper /\ files'[s] # files[s])
                                 => usage[s].activity <= sweep.cutoff
  BY DEF LifeInv, Locked, StillInactive, Inactive
<1> QED
  BY <1>1, LifeInvHolds, PTL DEF LifeSpec, ActiveSpared

\* Where every turn is a scheduled one, a session nobody works on is charged for
\* exactly the files it has, through settle_turn, deletions, sweeps and crashes.
THEOREM LedgerIsExact ==
  ASSUME Chats = {}
  PROVE  LifeSpec => []LedgerExact
<1>1. LifeInv => LedgerExact
  <2> SUFFICES ASSUME LifeInv, NEW s \in Sessions, Settled(s)
               PROVE  Charged(s) /\ NotCharged(s)
    BY DEF LedgerExact, Charged, NotCharged
  <2>1. ~ Written(s)
    BY DEF Written, Settled, AtRest
  <2>2. ~ Erased(s)
    BY Threads DEF LifeInv, Locked, Erased, Holding, Settled, AtRest, Free
  <2> QED
    BY <2>1, <2>2 DEF LifeInv, ChargedExactly, Settled, AtRest
<1> QED
  BY <1>1, LifeInvHolds, PTL

-----------------------------------------------------------------------------
(* The leases under all operations. *)

\* The process dies, or starts again, the second with a purge.
Rests ==
  /\ \A t \in Turns : turn'[t].phase = "idle"
  /\ leases' \in {leases, Unexpired(clock)}
  /\ clock' = clock

\* What a step of the operations is for the leases: one of the ledger's.
LEMMA LeasesMove ==
  ASSUME TypeOK, Joined, Still, [LifeNext]_allVars
  PROVE  \/ \E t \in Turns : Admit(t) \/ Refuse(t) \/ Settle(t, 0)
         \/ \E t \in Turns, s \in Sessions : ReadClock(t, s)
         \/ Rests \/ Tick
         \/ UNCHANGED <<clock, leases, turn>>
<1> USE TwoKinds
<1>1. ASSUME NEW c \in Chats, ChatAcquires(c) \/ ChatGivesUp(c) \/ ChatSettles(c)
      PROVE  \/ Admit(c) \/ Refuse(c) \/ Settle(c, 0)
             \/ \E s \in Sessions : ReadClock(c, s)
  BY <1>1 DEF ChatAcquires, ChatGivesUp, ChatSettles, SettleUnmeasured, SettleMeasured
<1>2. ASSUME NEW j \in Jobs, JobAcquires(j) \/ JobRefused(j) \/ JobSettles(j)
      PROVE  \/ Admit(j) \/ Refuse(j) \/ Settle(j, 0)
             \/ \E s \in Sessions : ReadClock(j, s)
  BY <1>2 DEF JobAcquires, JobRefused, JobSettles, SettleMeasured, Joined
<1>3. CASE Crash
  BY <1>3, IdleIsTurn DEF Crash, Rests, storeVars
<1>4. CASE Start
  <2>1. leases' = Unexpired(clock) /\ clock' = clock
    BY <1>4, Zenon DEF Start, Restart
  <2>2. turn' = turn \/ turn' = [t \in Turns |-> Idle]
    BY <1>4, Zenon DEF Start, Restart
  <2>3. \A t \in Turns : turn[t].phase = "idle"
    BY <1>4, Zenon DEF Start, Still
  <2>4. QED
    BY <2>1, <2>2, <2>3, IdleIsTurn DEF Rests
<1>5. CASE LifeTick
  BY <1>5 DEF LifeTick
<1>6. ASSUME \/ \E d \in Deleters : DeleteRow(d)
             \/ SweepRow
             \/ \E c \in Chats : ChatEnters(c)
             \/ \E t \in Turns : Measures(t)
             \/ \E t \in Turns, f \in Footprints : Writes(t, f)
             \/ \E j \in Jobs : JobEnters(j) \/ JobSkips(j)
             \/ \E j \in Jobs, s \in Sessions : JobClaims(j, s)
             \/ \E s \in Sessions : PutSchedule(s) \/ DropSchedule(s)
             \/ \E d \in Deleters, s \in Sessions : DeleteLocks(d, s)
             \/ \E d \in Deleters, k \in Kinds : DeleteFile(d, k)
             \/ \E d \in Deleters : DeleteFails(d)
             \/ SweepStarts \/ SweepAsks \/ SweepSchedules \/ SweepEnds \/ SweepFails
             \/ \E s \in Sessions : SweepLocks(s)
             \/ \E k \in Kinds : SweepFile(k)
             \/ UNCHANGED allVars
      PROVE  UNCHANGED <<clock, leases, turn>>
  BY <1>6 DEF DeleteRow, SweepRow, RemoveSession, ChatEnters, Measures, Writes, JobEnters,
              JobSkips, JobClaims, PutSchedule, DropSchedule, DeleteLocks, DeleteFile,
              DeleteFails, SweepStarts, SweepAsks, SweepSchedules, SweepEnds, SweepFails,
              SweepLocks, SweepFile, vars, allVars
<1> QED
  BY <1>1, <1>2, <1>3, <1>4, <1>5, <1>6
  DEF LifeNext, ChatNext, JobNext, DeleteNext, SweepNext

\* A thread about to insert its lease still has no older row, and no reading of the
\* future.
LEMMA LifeReadingsStep ==
  ASSUME TypeOK, Joined, Still, Readings, [LifeNext]_allVars
  PROVE  Readings'
<1> SUFFICES ASSUME NEW u \in Turns, turn'[u].phase = "clocked"
             PROVE  /\ turn'[u].now <= clock'
                    /\ \A l \in leases' : l.turn # u
  BY DEF Readings
<1>1. ASSUME NEW t \in Turns, NEW s \in Sessions, ReadClock(t, s)
      PROVE  turn'[u].now <= clock' /\ \A l \in leases' : l.turn # u
  BY <1>1 DEF ReadClock, TypeOK, Readings, Turn, storeVars
<1>2. ASSUME NEW t \in Turns, Admit(t)
      PROVE  turn'[u].now <= clock' /\ \A l \in leases' : l.turn # u
  <2>1. u # t /\ turn'[u] = turn[u] /\ clock' = clock
    BY <1>2 DEF Admit, TypeOK, Turn
  <2>2. \A l \in leases' : l \in leases \/ l.turn = t
    BY <1>2 DEF Admit, Unexpired
  <2>3. QED
    BY <2>1, <2>2 DEF Readings
<1>3. ASSUME NEW t \in Turns, Refuse(t) \/ Settle(t, 0)
      PROVE  turn'[u].now <= clock' /\ \A l \in leases' : l.turn # u
  BY <1>3 DEF Refuse, Settle, TypeOK, Readings, Turn, Idle, storeVars
<1>4. CASE Tick
  BY <1>4 DEF Tick, Readings, TypeOK, Turn, storeVars
<1>5. CASE UNCHANGED <<clock, leases, turn>>
  BY <1>5 DEF Readings
<1>6. CASE Rests
  BY <1>6 DEF Rests
<1> QED
  BY <1>1, <1>2, <1>3, <1>4, <1>5, <1>6, LeasesMove

LEMMA LifeSlotsStep ==
  ASSUME TypeOK, Joined, Still, SlotsBounded, [LifeNext]_allVars
  PROVE  SlotsBounded'
<1>1. ASSUME NEW t \in Turns, Admit(t)
      PROVE  SlotsBounded'
  BY <1>1, AdmitBounded
<1>2. ASSUME \A t \in Turns : ~ Admit(t)
      PROVE  leases' \in SUBSET leases
  BY <1>2, LeasesMove DEF ReadClock, Refuse, Settle, Rests, Tick, Unexpired, storeVars
<1> QED
  BY <1>1, <1>2, FewerBounded

LEMMA LifeRefinedStep ==
  ASSUME TypeOK, Joined, Still, Readings, SlotsBounded', [LifeNext]_allVars
  PROVE  [Slots!Next]_(Slots!slotVars)
<1> SUFFICES Slots!Next \/ UNCHANGED <<clock, leases, Running>>
  BY DEF Slots!slotVars, Running
<1>1. ASSUME NEW t \in Turns, NEW s \in Sessions, ReadClock(t, s)
      PROVE  UNCHANGED <<clock, leases, Running>>
  BY <1>1 DEF ReadClock, Running, Idle, TypeOK, storeVars
<1>2. ASSUME NEW t \in Turns, Admit(t)
      PROVE  Slots!Next
  <2>1. TenantOf[turn[t].session] \in Tenants
    BY <1>2, TenantAssumption DEF Admit, TypeOK
  <2>2. QED
    BY <1>2, <2>1, AdmitTakes DEF Slots!Next
<1>3. ASSUME NEW t \in Turns, Refuse(t)
      PROVE  UNCHANGED <<clock, leases, Running>>
  BY <1>3 DEF Refuse, Running, Idle, TypeOK, storeVars
<1>4. ASSUME NEW t \in Turns, Settle(t, 0)
      PROVE  Slots!Next
  BY <1>4, SettleGives DEF Slots!Next
<1>5. CASE Rests
  <2>1. Running' = {}
    BY <1>5 DEF Rests, Running
  <2>2. QED
    BY <1>5, <2>1, PurgeDies DEF Rests, Slots!Next
<1>6. CASE Tick
  BY <1>6 DEF Tick, Slots!Next, Slots!Tick, Running, storeVars
<1>7. CASE UNCHANGED <<clock, leases, turn>>
  BY <1>7 DEF Running
<1> QED
  BY <1>1, <1>2, <1>3, <1>4, <1>5, <1>6, <1>7, LeasesMove

\* CONCURRENCY OF THE WHOLE: turns of callers and of the scheduler, deletions, sweeps,
\* crashes, refused and accepted starts at once are the pool of slots that TurnSlots
\* specifies, so that no tenant holds more slots than max_concurrent_turns and no
\* operation but its own end frees a slot before its time.
THEOREM LifeImplementsSlots == LifeSpec => ImplementsTurnSlots /\ []SlotsBounded
<1> DEFINE Inv == LifeInv /\ Readings /\ SlotsBounded
<1>1. LifeInit => Inv /\ Slots!Init
  BY LifeInvInit, ReadingsInit, SlotsInit DEF LifeInit, Init, Slots!Init, Idle
<1>2. Inv /\ [LifeNext]_allVars => Inv'
  BY LifeInvStep, LifeReadingsStep, LifeSlotsStep DEF LifeInv
<1>3. Inv /\ Inv' /\ [LifeNext]_allVars => [Slots!Next]_(Slots!slotVars)
  BY LifeRefinedStep DEF LifeInv
<1>4. Inv => SlotsBounded
  OBVIOUS
<1> QED
  BY <1>1, <1>2, <1>3, <1>4, PTL DEF LifeSpec, ImplementsTurnSlots, Slots!Spec

\* The lease a turn was given.
LeaseOf(t) ==
  [turn |-> t, tenant |-> TenantOf[turn[t].session], expires |-> turn[t].now + LeaseTime]

Backed == \A t \in Turns : turn[t].phase = "admitted" => LeaseOf(t) \in leases

\* A turn keeps its lease: a purge is decided with a reading of the clock, and none is past
\* the limit of a turn at work.
LEMMA BackedStep ==
  ASSUME TypeOK, Joined, Still, Timely, Backed, [LifeNext]_allVars
  PROVE  Backed'
<1> SUFFICES ASSUME NEW u \in Turns, turn'[u].phase = "admitted"
             PROVE  LeaseOf(u)' \in leases'
  BY DEF Backed
<1>1. ASSUME turn'[u] = turn[u], LeaseOf(u) \in leases => LeaseOf(u) \in leases'
      PROVE  LeaseOf(u)' \in leases'
  BY <1>1 DEF Backed, LeaseOf
<1>2. ASSUME NEW t \in Turns, Admit(t)
      PROVE  LeaseOf(u)' \in leases'
  <2>1. CASE u = t
    <3>1. turn'[u].session = turn[u].session /\ turn'[u].now = turn[u].now
      BY <1>2, <2>1 DEF Admit, TypeOK, Turn
    <3>2. QED
      BY <1>2, <2>1, <3>1 DEF Admit, LeaseOf
  <2>2. CASE u # t
    <3>1. turn'[u] = turn[u]
      BY <1>2, <2>2 DEF Admit, TypeOK
    <3>2. /\ turn[t].now \in Nat /\ turn[u].now \in Nat /\ clock \in Nat
          /\ turn[t].now <= clock /\ clock <= turn[u].now + TurnLimit
      BY <1>2, <3>1 DEF Admit, Timely, TypeOK, Turn
    <3>3. LeaseOf(u).expires > turn[t].now
      BY <3>2, DurationAssumption, LimitAssumption DEF LeaseOf
    <3>4. LeaseOf(u) \in leases => LeaseOf(u) \in leases'
      BY <1>2, <3>3 DEF Admit, Unexpired
    <3>5. QED
      BY <1>1, <3>1, <3>4
  <2>3. QED
    BY <2>1, <2>2
<1>3. ASSUME NEW t \in Turns, NEW s \in Sessions, ReadClock(t, s)
      PROVE  LeaseOf(u)' \in leases'
  <2>1. turn'[u] = turn[u] /\ leases' = leases
    BY <1>3 DEF ReadClock, TypeOK, storeVars
  <2>2. QED
    BY <1>1, <2>1
<1>4. ASSUME NEW t \in Turns, Refuse(t) \/ Settle(t, 0)
      PROVE  LeaseOf(u)' \in leases'
  <2>1. u # t /\ turn'[u] = turn[u]
    BY <1>4, IdleIsTurn DEF Refuse, Settle, TypeOK
  <2>2. LeaseOf(u) \in leases => LeaseOf(u) \in leases'
    BY <1>4, <2>1 DEF Refuse, Settle, LeaseOf, storeVars
  <2>3. QED
    BY <1>1, <2>1, <2>2
<1>5. CASE Rests
  BY <1>5 DEF Rests
<1>6. CASE Tick \/ UNCHANGED <<clock, leases, turn>>
  BY <1>1, <1>6 DEF Tick, storeVars
<1> QED
  BY <1>2, <1>3, <1>4, <1>5, <1>6, LeasesMove

\* Turns that have their leases are no more than the leases.
LEMMA BackedIsBounded ==
  ASSUME LifeInv, SlotsBounded, Backed
  PROVE  WorkBounded
<1>1. ASSUME NEW t \in Turns, turn[t].phase = "admitted"
      PROVE  \E l \in leases : l.turn = t /\ clock < l.expires
  <2>1. turn[t].now \in Nat /\ clock \in Nat /\ clock <= turn[t].now + TurnLimit
    BY <1>1 DEF LifeInv, TypeOK, Turn, Timely
  <2>2. LeaseOf(t) \in leases /\ LeaseOf(t).turn = t /\ clock < LeaseOf(t).expires
    BY <1>1, <2>1, DurationAssumption, LimitAssumption DEF Backed, LeaseOf
  <2>3. QED
    BY <2>2
<1>2. ASSUME NEW n \in Tenants
      PROVE  Cardinality(AtWork(n)) <= MaxTurns
  <2> DEFINE f == [t \in AtWork(n) |-> LeaseOf(t)]
  <2>1. \A t \in AtWork(n) : LeaseOf(t) \in OfTenant(leases, n) /\ LeaseOf(t).turn = t
    BY DEF AtWork, Backed, LeaseOf, OfTenant
  <2>2. f \in Injection(AtWork(n), OfTenant(leases, n))
    <3>1. f \in [AtWork(n) -> OfTenant(leases, n)]
      BY <2>1
    <3>2. \A t, u \in AtWork(n) : f[t] = f[u] => t = u
      BY <2>1
    <3>3. QED
      BY <3>1, <3>2 DEF Injection, IsInjective
  <2>3. IsFiniteSet(OfTenant(leases, n)) /\ Held(leases, n) \in Nat
    BY HeldType DEF LifeInv, TypeOK
  <2>4. IsFiniteSet(AtWork(n)) /\ Cardinality(AtWork(n)) <= Held(leases, n)
    BY <2>2, <2>3, FS_Injection DEF Held
  <2>5. QED
    BY <2>3, <2>4, FS_CardinalityType, LimitAssumption DEF SlotsBounded
<1> QED
  BY <1>1, <1>2 DEF WorkBounded

\* SLOTS OF THE LIVING: whatever callers, jobs, deletions, sweeps and crashes do, an
\* accepted turn has its lease until it settles, and a tenant has at most
\* max_concurrent_turns of them at work.
THEOREM WorkIsBounded == LifeSpec => []WorkBounded
<1> DEFINE Inv == LifeInv /\ SlotsBounded /\ Backed
<1>1. LifeInit => Inv
  BY LifeInvInit, SlotsInit DEF LifeInit, Init, Backed, Idle
<1>2. Inv /\ [LifeNext]_allVars => Inv'
  BY LifeInvStep, LifeSlotsStep, BackedStep DEF LifeInv
<1>3. Inv => WorkBounded
  BY BackedIsBounded
<1> QED
  BY <1>1, <1>2, <1>3, PTL DEF LifeSpec

-----------------------------------------------------------------------------
(* The request windows, another table of the same store. *)

\* A window number is a natural number.
LEMMA WindowType ==
  ASSUME NEW c \in Nat
  PROVE  Window(c) \in Nat
BY RateAssumption DEF Window

LEMMA RateInitType == RateInit => RateTypeOK
BY DEF RateInit, RateTypeOK

LEMMA RateTypeStep == RateTypeOK /\ [RateNext]_rateVars => RateTypeOK'
<1> SUFFICES ASSUME RateTypeOK, [RateNext]_rateVars
             PROVE  RateTypeOK'
  OBVIOUS
<1>1. ASSUME NEW r \in Requests, ReadMinute(r)
      PROVE  RateTypeOK'
  BY <1>1 DEF ReadMinute, RateTypeOK
<1>2. ASSUME NEW r \in Requests, AdmitRequest(r)
      PROVE  RateTypeOK'
  <2>1. reading[r] \in Nat /\ TenantOfRequest[r] \in Tenants
    BY <1>2, RateAssumption DEF AdmitRequest, RateTypeOK, NoReading
  <2>2. /\ Window(reading[r]) \in Nat
        /\ Count(TenantOfRequest[r], Window(reading[r])) \in Nat
    BY <2>1, WindowType DEF Count, RateTypeOK
  <2>3. QED
    BY <1>2, <2>1, <2>2 DEF AdmitRequest, RateTypeOK
<1>3. ASSUME NEW r \in Requests, RefuseRequest(r)
      PROVE  RateTypeOK'
  BY <1>3 DEF RefuseRequest, RateTypeOK
<1>4. CASE RateTick
  BY <1>4 DEF RateTick, RateTypeOK
<1>5. CASE UNCHANGED rateVars
  BY <1>5 DEF rateVars, RateTypeOK
<1>6. QED
  BY <1>1, <1>2, <1>3, <1>4, <1>5 DEF RateNext

\* TYPE CORRECTNESS of the request windows.
THEOREM RateTypes == RateSpec => []RateTypeOK
BY RateInitType, RateTypeStep, PTL DEF RateSpec

-----------------------------------------------------------------------------
\* What a number of late admissions may add to the window.
Extra(l) == l * (RequestLimit + 1)

\* The inductive form of the bound: what the row of the running window shows
\* and what every late admission hid account for all that was admitted.
Accounted ==
  \A n \in Tenants :
    /\ requestRow[n].count <= RequestLimit
    /\ requestRow[n].window <= Window(clock)
    /\ admitted[n] <= Count(n, Window(clock)) + Extra(lateRequests[n])

LEMMA NoneLate == Extra(0) = 0
BY RateAssumption DEF Extra

\* Adding one late admission adds RequestLimit + 1 to the allowance.
LEMMA OneMoreLate ==
  ASSUME NEW l \in Nat
  PROVE  /\ RequestLimit \in Nat
         /\ Extra(l) \in Nat
         /\ Extra(l + 1) = Extra(l) + RequestLimit + 1
BY RateAssumption DEF Extra

\* Windows do not go backwards.
LEMMA WindowMonotone ==
  ASSUME NEW c \in Nat
  PROVE  Window(c) <= Window(c + 1)
<1> DEFINE p == c \div WindowLength
           q == (c + 1) \div WindowLength
<1>1. WindowLength \in Nat /\ WindowLength > 0
  BY RateAssumption
<1>2. /\ p \in Int /\ q \in Int
      /\ p * WindowLength <= c
      /\ c + 1 < (q + 1) * WindowLength
  BY <1>1
<1>3. SUFFICES ASSUME q < p
               PROVE  FALSE
  BY <1>2 DEF Window
<1> HIDE DEF p, q
<1>4. (q + 1) * WindowLength <= p * WindowLength
  BY <1>1, <1>2, <1>3
<1>5. QED
  BY <1>1, <1>2, <1>4

\* No request has read an instant to come.
ReadingsPast == \A r \in Requests : reading[r] <= clock

LEMMA RateReadingsStep == RateTypeOK /\ ReadingsPast /\ [RateNext]_rateVars => ReadingsPast'
<1> SUFFICES ASSUME RateTypeOK, ReadingsPast, [RateNext]_rateVars, NEW q \in Requests
             PROVE  reading'[q] <= clock'
  BY DEF ReadingsPast
<1>1. clock \in Nat /\ reading[q] \in Int /\ reading[q] <= clock
  BY DEF RateTypeOK, ReadingsPast, NoReading
<1>2. CASE RateTick
  BY <1>1, <1>2 DEF RateTick
<1>3. ASSUME NEW r \in Requests, ReadMinute(r) \/ AdmitRequest(r) \/ RefuseRequest(r)
      PROVE  reading'[q] <= clock'
  BY <1>1, <1>3 DEF ReadMinute, AdmitRequest, RefuseRequest, RateTypeOK, NoReading
<1>4. QED
  BY <1>1, <1>2, <1>3 DEF RateNext, rateVars

\* An earlier instant is in no later window.
LEMMA WindowOrder ==
  ASSUME NEW c \in Nat, NEW d \in Nat, d <= c
  PROVE  Window(d) <= Window(c)
<1> DEFINE p == c \div WindowLength
           q == d \div WindowLength
<1>1. WindowLength \in Nat /\ WindowLength > 0
  BY RateAssumption
<1>2. /\ p \in Int /\ q \in Int
      /\ q * WindowLength <= d
      /\ c < (p + 1) * WindowLength
  BY <1>1
<1>3. SUFFICES ASSUME p < q
               PROVE  FALSE
  BY <1>2 DEF Window
<1> HIDE DEF p, q
<1>4. (p + 1) * WindowLength <= q * WindowLength
  BY <1>1, <1>2, <1>3
<1>5. QED
  BY <1>1, <1>2, <1>4

LEMMA AdmitAccounted ==
  ASSUME RateTypeOK, ReadingsPast, Accounted, NEW r \in Requests, AdmitRequest(r),
         NEW n \in Tenants
  PROVE  /\ requestRow'[n].count <= RequestLimit
         /\ requestRow'[n].window <= Window(clock')
         /\ admitted'[n] <= Count(n, Window(clock))' + Extra(lateRequests'[n])
<1> DEFINE window == Window(reading[r])
           today == Window(clock)
<1>1. /\ reading[r] \in Nat /\ clock \in Nat /\ reading[r] <= clock
      /\ TenantOfRequest[r] \in Tenants
      /\ clock' = clock
      /\ lateRequests[n] \in Nat /\ admitted[n] \in Nat
  BY RateAssumption DEF AdmitRequest, RateTypeOK, NoReading, ReadingsPast
<1>2. window \in Nat /\ today \in Nat /\ window <= today
  BY <1>1, WindowType, WindowOrder
<1>3. /\ Count(n, window) \in Nat /\ Count(n, today) \in Nat
      /\ requestRow[n].count \in Nat /\ requestRow[n].count <= RequestLimit
      /\ requestRow[n].window <= today
      /\ Count(n, today) <= RequestLimit
      /\ admitted[n] <= Count(n, today) + Extra(lateRequests[n])
  BY RateAssumption DEF Accounted, Count, RateTypeOK
<1>4. Extra(lateRequests[n]) \in Nat /\ RequestLimit \in Nat
  BY <1>1, OneMoreLate
<1>5. CASE n # TenantOfRequest[r]
  <2>1. requestRow'[n] = requestRow[n] /\ admitted'[n] = admitted[n] /\ lateRequests'[n] = lateRequests[n]
    BY <1>1, <1>5 DEF AdmitRequest, RateTypeOK
  <2>2. Count(n, Window(clock))' = Count(n, today)
    BY <1>1, <2>1 DEF Count, Window
  <2>3. QED
    BY <1>1, <1>3, <2>1, <2>2
<1>6. CASE n = TenantOfRequest[r]
  <2>1. /\ requestRow'[n] = [window |-> window, count |-> Count(n, window) + 1]
        /\ Count(n, window) < RequestLimit
        /\ admitted'[n] = admitted[n] + 1
        /\ lateRequests'[n] = IF window = today THEN lateRequests[n] ELSE lateRequests[n] + 1
    BY <1>1, <1>6 DEF AdmitRequest, RateTypeOK
  <2>2. requestRow'[n].count <= RequestLimit /\ requestRow'[n].window <= Window(clock')
    BY <1>1, <1>2, <1>3, <2>1, RateAssumption
  <2>3. Count(n, Window(clock))'
          = IF window = today THEN Count(n, window) + 1 ELSE 0
    BY <1>1, <2>1 DEF Count, Window
  <2>4. CASE window = today
    <3>1. admitted'[n] <= Count(n, window) + 1 + Extra(lateRequests[n])
      BY <1>1, <1>3, <1>4, <2>1, <2>4
    <3>2. QED
      BY <2>1, <2>2, <2>3, <2>4, <3>1
  <2>5. CASE window # today
    <3>1. Extra(lateRequests'[n]) = Extra(lateRequests[n]) + RequestLimit + 1
      BY <1>1, <2>1, <2>5, OneMoreLate
    <3>2. admitted'[n] <= RequestLimit + 1 + Extra(lateRequests[n])
      BY <1>1, <1>3, <1>4, <2>1
    <3>3. QED
      BY <1>1, <1>4, <2>2, <2>3, <2>5, <3>1, <3>2
  <2>6. QED
    BY <2>4, <2>5
<1>7. QED
  BY <1>5, <1>6

LEMMA AccountedStep == RateTypeOK /\ ReadingsPast /\ Accounted /\ [RateNext]_rateVars => Accounted'
<1> SUFFICES ASSUME RateTypeOK, ReadingsPast, Accounted, [RateNext]_rateVars, NEW n \in Tenants
             PROVE  /\ requestRow'[n].count <= RequestLimit
                    /\ requestRow'[n].window <= Window(clock')
                    /\ admitted'[n] <= Count(n, Window(clock))' + Extra(lateRequests'[n])
  BY DEF Accounted, Window
<1>1. ASSUME NEW r \in Requests, AdmitRequest(r)
      PROVE  /\ requestRow'[n].count <= RequestLimit
             /\ requestRow'[n].window <= Window(clock')
             /\ admitted'[n] <= Count(n, Window(clock))' + Extra(lateRequests'[n])
  BY <1>1, AdmitAccounted
<1>2. CASE RateTick
  <2>1. /\ Window(clock) \in Nat /\ Window(clock + 1) \in Nat
        /\ Window(clock) <= Window(clock + 1)
        /\ clock' = clock + 1 /\ requestRow' = requestRow
        /\ requestRow[n].window \in Nat /\ requestRow[n].count \in Nat
        /\ requestRow[n].window <= Window(clock) /\ requestRow[n].count <= RequestLimit
    BY <1>2, WindowType, WindowMonotone DEF RateTick, RateTypeOK, Accounted
  <2>2. requestRow'[n].count <= RequestLimit /\ requestRow'[n].window <= Window(clock')
    BY <2>1
  <2>3. Count(n, Window(clock))' \in Nat
    BY <2>1 DEF Count, Window
  <2>4. CASE Window(clock + 1) = Window(clock)
    <3>1. admitted' = admitted /\ lateRequests' = lateRequests
      BY <1>2, <2>4 DEF RateTick
    <3>2. Count(n, Window(clock))' = Count(n, Window(clock))
      BY <2>1, <2>4 DEF Count, Window
    <3>3. QED
      BY <2>2, <3>1, <3>2 DEF Accounted
  <2>5. CASE Window(clock + 1) # Window(clock)
    <3>1. admitted'[n] = 0 /\ lateRequests'[n] = 0
      BY <1>2, <2>5 DEF RateTick
    <3>2. QED
      BY <2>2, <2>3, <3>1, NoneLate
  <2>6. QED
    BY <2>4, <2>5
<1>3. CASE UNCHANGED <<clock, requestRow, admitted, lateRequests>>
  BY <1>3 DEF Accounted, Count, Window
<1>4. QED
  BY <1>1, <1>2, <1>3 DEF RateNext, rateVars, ReadMinute, RefuseRequest

LEMMA AccountedInit == RateInit => ReadingsPast /\ Accounted
<1> SUFFICES ASSUME RateInit
             PROVE  ReadingsPast /\ Accounted
  OBVIOUS
<1>1. Window(0) \in Nat
  BY WindowType
<1>2. QED
  BY <1>1, NoneLate, RateAssumption DEF RateInit, ReadingsPast, Accounted, Count, NoReading

LEMMA AccountedIsBounded == RateTypeOK /\ Accounted => RateBounded
<1> SUFFICES ASSUME RateTypeOK, Accounted, NEW n \in Tenants
             PROVE  admitted[n] <= RequestLimit + Extra(lateRequests[n])
  BY DEF RateBounded, Extra
<1>1. /\ lateRequests[n] \in Nat /\ admitted[n] \in Nat
      /\ Count(n, Window(clock)) \in Nat /\ Count(n, Window(clock)) <= RequestLimit
      /\ admitted[n] <= Count(n, Window(clock)) + Extra(lateRequests[n])
  BY RateAssumption DEF RateTypeOK, Accounted, Count
<1>2. Extra(lateRequests[n]) \in Nat /\ RequestLimit \in Nat
  BY <1>1, OneMoreLate
<1>3. QED
  BY <1>1, <1>2

\* RATE: for every limit and every number of requests in flight, a tenant gets at
\* most RequestLimit requests admitted per window, and at most RequestLimit + 1 more for every
\* admission that was decided with the clock of an ended window.
THEOREM RateIsBounded == RateSpec => []RateBounded
<1> DEFINE RateInv == RateTypeOK /\ ReadingsPast /\ Accounted
<1>1. RateInit => RateInv
  BY RateInitType, AccountedInit
<1>2. RateInv /\ [RateNext]_rateVars => RateInv'
  BY RateTypeStep, RateReadingsStep, AccountedStep
<1>3. RateInv => RateBounded
  BY AccountedIsBounded
<1>4. QED
  BY <1>1, <1>2, <1>3, PTL DEF RateSpec
===============================================================================
