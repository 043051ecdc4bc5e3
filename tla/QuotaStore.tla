------------------------------ MODULE QuotaStore ------------------------------
(***************************************************************************)
(* The durable quota ledger of the product host: DurableQuotaStore in      *)
(* product_service.py.  One SQLite database holds the turn leases, the     *)
(* daily token counters and the per-session usage rows; a turn reserves    *)
(* resources in acquire_turn and replaces the reservation by what it       *)
(* really used in settle_turn.                                             *)
(*                                                                         *)
(* Every method body is one BEGIN IMMEDIATE .. COMMIT transaction, hence   *)
(* one action, with one exception: acquire_turn reads the clock BEFORE it  *)
(* begins its transaction, so the instant it decides with may be old when  *)
(* the write lock is granted.  ReadClock and Admit / Refuse are the two    *)
(* halves.                                                                 *)
(*                                                                         *)
(* An element of Turns is one thread running one turn; the lease id (a     *)
(* fresh uuid) is the turn itself, so a turn may start again only when no  *)
(* row of an earlier life is left.                                         *)
(***************************************************************************)
EXTENDS StoreClock, Integers, FiniteSets

LOCAL INSTANCE FiniteSetsExt

CONSTANTS
  Sessions,          \* internal sessions; the identity contains the tenant
  TenantOf,          \* the tenant of a session
  NoSession,         \* the session of a thread that runs no turn
  Turns,             \* threads that run turns
  MaxTurns,          \* max_concurrent_turns
  LeaseTime,         \* turn_lease_s
  DayLength,         \* 86400, in clock units
  TokensPerDay,      \* tokens_per_day
  TokenReservation,  \* token_reservation_per_turn
  TokenUse,          \* what a turn may report as its usage
  MaxTurnTokens,     \* the largest of them
  Kinds,             \* the byte quotas: storage and audit
  Limit,             \* storage_bytes_per_tenant, audit_bytes_per_tenant
  Reservation,       \* storage_reservation_per_turn, audit_...
  Footprints         \* what measuring a session's files may return

ASSUME TenantAssumption == TenantOf \in [Sessions -> Tenants]

ASSUME SessionAssumption == NoSession \notin Sessions

\* __init__ rejects limits that are not positive and reservations above them.
ASSUME LimitAssumption ==
  /\ MaxTurns \in Nat \ {0}
  /\ LeaseTime \in Nat \ {0}
  /\ DayLength \in Nat \ {0}
  /\ TokensPerDay \in Nat \ {0}
  /\ TokenReservation \in 1..TokensPerDay
  /\ MaxClock \in Nat

ASSUME UseAssumption ==
  /\ MaxTurnTokens \in Nat
  /\ TokenUse \subseteq 0..MaxTurnTokens

ASSUME ByteAssumption ==
  /\ Limit \in [Kinds -> Nat \ {0}]
  /\ Reservation \in [Kinds -> Nat \ {0}]
  /\ \A k \in Kinds : Reservation[k] <= Limit[k]
  /\ Footprints \subseteq [Kinds -> Nat]

VARIABLES
  leases,    \* table turn_leases
  tokenRow,  \* table token_windows, one row per tenant
  usage,     \* table session_usage, one row per session
  turn,      \* what each thread is doing
  late       \* history: per tenant, admissions decided with an ended day

storeVars == <<leases, tokenRow, usage>>
vars == <<clock, leases, tokenRow, usage, turn, late>>

Lease == [turn : Turns, tenant : Tenants, expires : Nat]
UsageRow == [registered : BOOLEAN, bytes : [Kinds -> Nat], activity : Nat]
Unregistered ==
  [registered |-> FALSE, bytes |-> [k \in Kinds |-> 0], activity |-> 0]

Turn == [phase : {"idle", "clocked", "admitted"},
         session : Sessions \cup {NoSession},
         now : Nat]
Idle == [phase |-> "idle", session |-> NoSession, now |-> 0]

\* TYPE: the tables and the threads hold what their columns and locals hold.
TypeOK ==
  /\ clock \in Nat
  /\ leases \subseteq Lease
  /\ IsFiniteSet(leases)
  /\ tokenRow \in [Tenants -> [day : Nat, tokens : Nat]]
  /\ usage \in [Sessions -> UsageRow]
  /\ turn \in [Turns -> Turn]
  /\ \A t \in Turns : turn[t].phase # "idle" => turn[t].session \in Sessions
  /\ late \in [Tenants -> Nat]

-----------------------------------------------------------------------------
(* What the queries of acquire_turn compute. *)

DayOf(instant) == instant \div DayLength

\* The tokens a tenant is charged with on a day: a row of another day counts 0.
TokensOn(n, day) == IF tokenRow[n].day = day THEN tokenRow[n].tokens ELSE 0

\* MUTANT: the purge deletes a lease one instant before it expires.
UnexpiredEarly(now) == {l \in leases : l.expires > now + 1}

\* DELETE FROM turn_leases WHERE expires<=now
Unexpired(now) == {l \in leases : l.expires > now}

OfTenant(rows, n) == {l \in rows : l.tenant = n}
Held(rows, n) == Cardinality(OfTenant(rows, n))

\* SELECT SUM(bytes) FROM session_usage WHERE tenant=n
Recorded(n, k) ==
  MapThenSumSet(LAMBDA s : usage[s].bytes[k], {s \in Sessions : TenantOf[s] = n})

\* MUTANT: concurrency compared with > instead of >=.
FitsOneMore(n, now) ==
  LET held == Held(Unexpired(now), n) IN
  /\ held <= MaxTurns
  /\ TokensOn(n, DayOf(now)) + (held + 1) * TokenReservation <= TokensPerDay
  /\ \A k \in Kinds : Recorded(n, k) + (held + 1) * Reservation[k] <= Limit[k]

\* MUTANT: the reservations of the leases in flight are forgotten.
FitsAlone(n, now) ==
  LET held == Held(Unexpired(now), n) IN
  /\ held < MaxTurns
  /\ TokensOn(n, DayOf(now)) + TokenReservation <= TokensPerDay
  /\ \A k \in Kinds : Recorded(n, k) + Reservation[k] <= Limit[k]

\* No check of acquire_turn fails at instant now.  Every lease of the tenant
\* carries the same reservation, so their sum is a product.
Fits(n, now) ==
  LET held == Held(Unexpired(now), n) IN
  /\ held < MaxTurns
  /\ TokensOn(n, DayOf(now)) + (held + 1) * TokenReservation <= TokensPerDay
  /\ \A k \in Kinds : Recorded(n, k) + (held + 1) * Reservation[k] <= Limit[k]

Later(a, b) == IF a > b THEN a ELSE b

\* The upsert of session_usage: the row appears, or its activity advances.
Upsert(s, bytes, instant) ==
  usage' = [usage EXCEPT
    ![s] = [registered |-> TRUE, bytes |-> bytes, activity |-> Later(@.activity, instant)]]

-----------------------------------------------------------------------------
Init ==
  /\ clock = 0
  /\ leases = {}
  /\ tokenRow = [n \in Tenants |-> [day |-> 0, tokens |-> 0]]
  /\ usage = [s \in Sessions |-> Unregistered]
  /\ turn = [t \in Turns |-> Idle]
  /\ late = [n \in Tenants |-> 0]

\* acquire_turn up to BEGIN IMMEDIATE: the clock is read and a lease id drawn.
ReadClock(t, s) ==
  /\ turn[t] = Idle
  /\ \A l \in leases : l.turn # t
  /\ turn' = [turn EXCEPT ![t] = [phase |-> "clocked", session |-> s, now |-> clock]]
  /\ UNCHANGED <<clock, storeVars, late>>

\* acquire_turn, the committed transaction: expired leases go, the session is
\* registered (existing bytes stay), the lease is inserted.
Admit(t) ==
  LET s == turn[t].session
      n == TenantOf[s]
      now == turn[t].now
  IN
  /\ turn[t].phase = "clocked"
  /\ Fits(n, now)
  /\ leases' = Unexpired(now)
                 \cup {[turn |-> t, tenant |-> n, expires |-> now + LeaseTime]}
  /\ Upsert(s, usage[s].bytes, now)
  /\ turn' = [turn EXCEPT ![t].phase = "admitted"]
  /\ late' = IF DayOf(now) = DayOf(clock) THEN late
             ELSE [late EXCEPT ![n] = @ + 1]
  /\ UNCHANGED <<clock, tokenRow>>

\* acquire_turn, any of the ROLLBACKs: 429 or 507, and nothing was written.
Refuse(t) ==
  /\ turn[t].phase = "clocked"
  /\ ~Fits(TenantOf[turn[t].session], turn[t].now)
  /\ turn' = [turn EXCEPT ![t] = Idle]
  /\ UNCHANGED <<clock, storeVars, late>>

\* The charge of settle_turn: its clock is read inside the transaction.  A turn
\* that reported nothing leaves the row alone, and with it its day.
Charge(n, tokens) ==
  tokenRow' = IF tokens = 0 THEN tokenRow
              ELSE [tokenRow EXCEPT
                     ![n] = [day |-> DayOf(clock),
                             tokens |-> TokensOn(n, DayOf(clock)) + tokens]]

\* settle_turn finds its lease: the reservation becomes actual usage.
\* A turn that never measured its files (footprint None) leaves usage alone.
Settle(t, tokens) ==
  \E l \in leases :
    /\ l.turn = t
    /\ turn[t].phase = "admitted"
    /\ leases' = {m \in leases : m.turn # t}
    /\ Charge(l.tenant, tokens)
    /\ turn' = [turn EXCEPT ![t] = Idle]
    /\ UNCHANGED <<clock, late>>

SettleMeasured(t, tokens, footprint) ==
  /\ Settle(t, tokens)
  /\ Upsert(turn[t].session, footprint, clock)

SettleUnmeasured(t, tokens) ==
  /\ Settle(t, tokens)
  /\ UNCHANGED usage

\* settle_turn returns False: the lease expired and another acquire purged it.
SettleLapsed(t) ==
  /\ turn[t].phase = "admitted"
  /\ \A l \in leases : l.turn # t
  /\ turn' = [turn EXCEPT ![t] = Idle]
  /\ UNCHANGED <<clock, storeVars, late>>

\* remove_session_usage and remove_registered_session.
RemoveSession(s) ==
  /\ usage[s].registered
  /\ usage' = [usage EXCEPT ![s] = Unregistered]
  /\ UNCHANGED <<clock, leases, tokenRow, turn, late>>

\* The process dies and a new one opens the database: __init__ purges, then
\* reconcile_registered stores what it measures for every registered session:
\* the bytes, and the time of the last write if that is later than the activity.
Restart(measured, written) ==
  /\ turn' = [t \in Turns |-> Idle]
  /\ leases' = Unexpired(clock)
  /\ usage' = [s \in Sessions |->
                 IF usage[s].registered
                 THEN [usage[s] EXCEPT !.bytes = measured[s],
                                       !.activity = Later(@, written[s])]
                 ELSE usage[s]]
  /\ UNCHANGED <<clock, tokenRow, late>>

Tick ==
  /\ clock < MaxClock
  /\ clock' = clock + 1
  /\ UNCHANGED <<storeVars, turn, late>>

Next ==
  \/ \E t \in Turns, s \in Sessions : ReadClock(t, s)
  \/ \E t \in Turns : Admit(t) \/ Refuse(t) \/ SettleLapsed(t)
  \/ \E t \in Turns, tokens \in TokenUse : SettleUnmeasured(t, tokens)
  \/ \E t \in Turns, tokens \in TokenUse, f \in Footprints : SettleMeasured(t, tokens, f)
  \/ \E s \in Sessions : RemoveSession(s)
  \/ \E m \in [Sessions -> Footprints], w \in [Sessions -> 0..clock] : Restart(m, w)
  \/ Tick

Spec == Init /\ [][Next]_vars

-----------------------------------------------------------------------------
\* How far the usage of a turn may exceed what was reserved for it.
Overshoot ==
  IF MaxTurnTokens > TokenReservation THEN MaxTurnTokens - TokenReservation ELSE 0

\* SAFETY: acquire_turn never lets a tenant hold more leases than
\* max_concurrent_turns, expired ones that nobody purged yet included.
SlotsBounded == \A n \in Tenants : Held(leases, n) <= MaxTurns

\* SAFETY: what a tenant has used today plus what its leases reserve stays
\* within tokens_per_day, except for the overshoot of the turns that settled
\* after the last admission, and one whole turn for every admission that
\* acquire_turn decided with a clock value of a day that had ended.
TokensBounded ==
  \A n \in Tenants :
    TokensOn(n, DayOf(clock)) + Held(leases, n) * TokenReservation
      <= TokensPerDay
           + (MaxTurns - Held(leases, n)) * Overshoot
           + late[n] * (TokenReservation + Overshoot)

\* ACTION: a lease leaves the table only after it expired or because its own
\* turn, still running, settles it: nobody else's settlement, no acquire with an
\* old clock value and no restart may free the slot of a live turn.
LeaseKept ==
  [][\A l \in leases \ leases' :
       \/ l.expires <= clock
       \/ turn[l.turn].phase = "admitted" /\ turn'[l.turn] = Idle]_vars

\* What the operations guide promises of a deployment whose reservation covers
\* a single turn: usage of one day never exceeds tokens_per_day.
DailyQuota ==
  Overshoot = 0 =>
    \A n \in Tenants : TokensOn(n, DayOf(clock)) <= TokensPerDay

\* REFINEMENT: forgetting counters, bytes and clock readings, the ledger is the
\* slot pool of TurnSlots: bounded per tenant, a slot kept until it is given
\* back or expires, and one turn per slot.
Slots == INSTANCE TurnSlots WITH
  slots <- leases,
  running <- {t \in Turns : turn[t].phase = "admitted"}

ImplementsTurnSlots == Slots!Spec
=============================================================================
