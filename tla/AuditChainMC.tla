----------------------------- MODULE AuditChainMC -----------------------------
(* Two sessions, with room for two records and for one. *)
EXTENDS AuditChain

CONSTANTS w1, w2

MCCalls == [s \in Sessions |-> IF s = 1 THEN {w1, w2} ELSE {w1}]
MCMaxRecords == [s \in Sessions |-> IF s = 1 THEN 2 ELSE 1]
===============================================================================
