------------------------------ MODULE AgentTurnMC -----------------------------
(* A product thread, whose turns have a deadline, and one of the research host,  *)
(* whose turns have none, on one session.                                        *)
EXTENDS AgentTurn, TLC

CONSTANTS product, research, nobody

ThreadsMC == {product, research}
TimedMC == {product}

=============================================================================
