---------------------------- MODULE MCFileEntries ----------------------------
(* Small instances of FileEntries for TLC. *)
EXTENDS FileEntries

TwoClients == <<1, 2, 1>>

Mode(upgrade, links_fail, defrag, room) ==
    [upgrade |-> upgrade, links_fail |-> links_fail, defrag |-> defrag, room |-> room]

\* An upgraded server; one whose hard links fail; one whose index is deleted
AllModes == {Mode(TRUE, FALSE, FALSE, 5), Mode(FALSE, TRUE, FALSE, 4), Mode(FALSE, FALSE, TRUE, 4)}
Defragmented == {Mode(FALSE, FALSE, TRUE, 4)}
===============================================================================
