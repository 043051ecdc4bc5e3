---------------------------- MODULE ServiceDrainMC ----------------------------
\* The values of the constants for TLC.
EXTENDS ServiceDrain

=============================================================================
