------------------------------ MODULE MCDirPool ------------------------------
(* Small instances of DirPool for TLC. *)
EXTENDS DirPool, TLC

ThreeBackups == 1..3
FourBackups == 1..4
Crashes == [crash |-> TRUE, manual |-> FALSE, made |-> ThreeBackups]
Manual == [crash |-> FALSE, manual |-> TRUE, made |-> FourBackups]

\* Crashes among three backups, or deletions by hand among four.
EitherSetting == {Crashes, Manual}
OnlyCrashes == {Crashes}
Symmetric == Permutations(Pools)
===============================================================================
