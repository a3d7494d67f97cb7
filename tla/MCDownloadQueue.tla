--------------------------- MODULE MCDownloadQueue ---------------------------
(* Small instances of DownloadQueue for TLC. *)
EXTENDS DownloadQueue

L(kind, share, old) == [kind |-> kind, share |-> share, old |-> old,
                        script |-> FALSE, archive |-> FALSE, inplace |-> FALSE]
Kept(l) == [l EXCEPT !.inplace = TRUE]
Script(kind, old) == [L(kind, "scripts", old) EXCEPT !.script = TRUE, !.archive = TRUE]

FileLines(share) == {L("full", share, "none"), L("meta", share, "none"),
                     L("diff", share, "some"), L("diff", share, "none")}

TwoShares(firsts) ==
    { <<L("start", "c", "none")>> \o x \o
      <<L("stop", "c", "none"), L("start", "d", "none"), y, L("stop", "d", "none")>> :
          x \in firsts, y \in {L("full", "d", "none"), L("diff", "d", "none")} }

\* Every list with two files in one share and one in the other.
Small == TwoShares(FileLines("c") \X FileLines("c"))
\* While the first file is read the second is prepared, the third waits.
Late == TwoShares({<<L("full", "c", "none"), L("diff", "c", "some"), x>> : x \in FileLines("c")})

\* A file that an earlier backup changed in place, and a script at the end of the list.
Special == { << L("start", "c", "none"), x, Kept(L("diff", "c", "some")), L("stop", "c", "none"), y >> :
                 x \in FileLines("c") \union {L("diff", "c", "error")},
          y \in {Script("full", "none"), Script("diff", "none"), Script("diff", "some")} }

\* Preparing the second or the third difference fails while others are asked for.
Failed == { <<L("start", "c", "none"), L("diff", "c", "some"), L("diff", "c", x),
              L("diff", "c", y), L("stop", "c", "none")>> :
                 x \in {"some", "error"}, y \in {"some", "error"} }

\* The end of a script comes behind a file that is read while there is room to ask for more.
Plain(l) == [l EXCEPT !.archive = FALSE]
Between(s) == { << L("start", "c", "none"), L("full", "c", "none"), L("stop", "c", "none"), s,
                   L("start", "d", "none"), L("full", "d", "none"), L("full", "d", "none"),
                   L("stop", "d", "none") >> }
Behind(s) == { << L("start", "c", "none"), L("full", "c", "none"), L("diff", "c", "some"),
                  L("diff", "c", "none"), L("stop", "c", "none"), s >> }
ScriptLists == Between(Plain(Script("full", "none"))) \union Behind(Script("full", "none"))

QueueLists == Small \union Late \union Special \union Failed \union ScriptLists

DamagedLists == Late
===============================================================================
