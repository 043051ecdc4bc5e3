------------------------------- MODULE BackupsMC ------------------------------
(* Two managed cycles on one backup directory.                                   *)
EXTENDS Backups, TLC

CONSTANTS c1, c2, nobody

CyclesMC == {c1, c2}

Symmetry == Permutations(CyclesMC)

=============================================================================
