------------------------- MODULE SessionLifecycleMC -------------------------
(* Small instances of SessionLifecycle: one tenant, one byte quota. *)
EXTENDS SessionLifecycle, TLC

CONSTANTS a, s1, s2, c1, c2, j1, d1

MCTenantOf == [s \in Sessions |-> a]
MCTurns == Chats \cup Jobs
MCLimit == [k \in Kinds |-> 20]
MCReservation == [k \in Kinds |-> 1]
MCFootprints == [Kinds -> {1, 2}]
=============================================================================
