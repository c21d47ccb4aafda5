------------------------------ MODULE MCBackup ------------------------------
\* Two backup commands and two restores, all of them alike, over a manifest
\* that may hold one converted or one tampered entry.
EXTENDS Backup, TLC

CONSTANTS r1, r2, s1, s2

Alike == Permutations(Runs) \cup Permutations(Restores)

=============================================================================
