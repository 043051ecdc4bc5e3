----------------------------- MODULE ResearchHostMC ---------------------------
(* One caller, one entry, and the thread of the memory ticks.                    *)
EXTENDS ResearchHost

CONSTANTS chat, scheduler, dreamer, nobody

TalkersMC == {chat, scheduler}

=============================================================================
