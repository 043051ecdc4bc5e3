----------------------------- MODULE SchedulesMC -----------------------------
(* Small instances of Schedules. *)
EXTENDS Schedules

CONSTANTS k1, k2, s1, s2, w1, w2
=============================================================================
