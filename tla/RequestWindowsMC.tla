--------------------------- MODULE RequestWindowsMC ---------------------------
(* Small instances of RequestWindows. *)
EXTENDS RequestWindows, TLC

CONSTANTS a, b, r1, r2, r3

\* Two threads of one tenant and one of another.
MCTenantOf == (r1 :> a) @@ (r2 :> a) @@ (r3 :> b)
=============================================================================
