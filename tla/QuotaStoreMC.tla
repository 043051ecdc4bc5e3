---------------------------- MODULE QuotaStoreMC ----------------------------
(* Small instances of QuotaStore. *)
EXTENDS QuotaStore, TLC

CONSTANTS a, s1, t1, t2, t3

MCTenantOf == s1 :> a

\* One byte quota is enough: storage and audit are checked by the same code.
MCKinds == {"storage"}
MCLimit == [k \in MCKinds |-> 4]
MCReservation == [k \in MCKinds |-> 1]
MCFootprints == [MCKinds -> {1, 3}]

\* Threads are interchangeable.
MCSymmetry == Permutations(Turns)
=============================================================================
