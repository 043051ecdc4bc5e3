------------------------------ MODULE TurnSlots ------------------------------
(***************************************************************************)
(* What the product promises about concurrent turns, whatever keeps the    *)
(* books: a tenant has at most MaxTurns slots, a turn that was given one   *)
(* keeps it until it gives it back or its time is over, and the slot of a  *)
(* turn that died with its process comes back by time alone.               *)
(* The durable ledger (QuotaStore) implements this.                        *)
(***************************************************************************)
EXTENDS Integers, FiniteSets

CONSTANTS
  Tenants, Turns,
  MaxTurns,    \* max_concurrent_turns
  LeaseTime,   \* turn_lease_s
  MaxClock     \* bound of the model: the last instant

VARIABLES
  clock,
  slots,    \* who holds a slot, for whom and until when
  running   \* turns in progress that were given a slot

slotVars == <<clock, slots, running>>

Slot == [turn : Turns, tenant : Tenants, expires : Nat]
SlotsOf(n) == {l \in slots : l.tenant = n}
Expired == {l \in slots : l.expires <= clock}

Init ==
  /\ clock = 0
  /\ slots = {}
  /\ running = {}

\* A turn is given a slot that ends at most LeaseTime from now; on the way any
\* of the expired slots may be reclaimed.
Take(t, n) ==
  /\ t \notin running
  /\ \A l \in slots : l.turn # t
  /\ \E gone \in SUBSET Expired, e \in 0..(clock + LeaseTime) :
       slots' = (slots \ gone) \cup {[turn |-> t, tenant |-> n, expires |-> e]}
  /\ Cardinality(SlotsOf(n)') <= MaxTurns
  /\ running' = running \cup {t}
  /\ UNCHANGED clock

\* A running turn ends and gives back what it still holds.
Give(t) ==
  /\ t \in running
  /\ running' = running \ {t}
  /\ slots' = {l \in slots : l.turn # t}
  /\ UNCHANGED clock

\* All turns die with their process; only expired slots come back, then or later.
Die ==
  /\ running' = {}
  /\ \E gone \in SUBSET Expired : slots' = slots \ gone
  /\ UNCHANGED clock

Tick ==
  /\ clock < MaxClock
  /\ clock' = clock + 1
  /\ UNCHANGED <<slots, running>>

Next ==
  \/ \E t \in Turns, n \in Tenants : Take(t, n)
  \/ \E t \in Turns : Give(t)
  \/ Die
  \/ Tick

Spec == Init /\ [][Next]_slotVars
=============================================================================
