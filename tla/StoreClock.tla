------------------------------ MODULE StoreClock ------------------------------
(***************************************************************************)
(* What the tables of DurableQuotaStore have in common: the tenants they   *)
(* have rows of, and the wall clock that every worker reads for them.      *)
(***************************************************************************)
CONSTANTS
  Tenants,   \* authenticated tenants
  MaxClock   \* bound of the model: the last instant

VARIABLE clock
===============================================================================
