----------------------------- MODULE MCFileIndex -----------------------------
(* Small instances of FileIndex for TLC. *)
EXTENDS FileIndex, TLC

OneFile == {1}
ThreeFiles == 1..3
TwoClients == {1, 2}
OneClient == {1}
OneId == {1}
TwoIds == {1, 2}
FileOne == [i \in OneId |-> 1]
OuterFiles == [i \in TwoIds |-> IF i = 1 THEN 1 ELSE 3]
Symmetric == Permutations(Threads)
===============================================================================
