------------------------------- MODULE DirPool -------------------------------
(***************************************************************************)
(* Unchanged directories of incremental backups are shared: the directory  *)
(* moves into the client's pool and every backup that has it holds a       *)
(* symbolic link to it.  The table directory_links counts, per pool        *)
(* directory, the paths that lead to it; the last one to go deletes it.    *)
(*                                                                         *)
(* One client, whose backups hold a directory d with a directory s in it.  *)
(* A pooled d takes its s along, be it a directory or a link: then several *)
(* paths of several backups lead to the one place where s is.              *)
(***************************************************************************)
EXTENDS Naturals, FiniteSets

CONSTANTS Backups,       \* 1..n, in the order they are made
          Pools,         \* names of pool directories, each used once
          Settings       \* what may happen: a crash, the deletion of the newest backup
                         \* by hand, and which backups are made

ASSUME BackupsAssumption ==
    /\ Backups \subseteq Nat \ {0}
    /\ {"none", "dir"} \cap Pools = {}
    /\ Backups \cap Pools = {}
    /\ Settings \subseteq [crash : BOOLEAN, manual : BOOLEAN, made : SUBSET Backups]

VARIABLES setting,  \* one of Settings, chosen once
          status,   \* what the database says of a backup
          doomed,   \* backups whose deletion has begun
          renamed,  \* backups whose folder recovery has renamed to .startup-del
          last,     \* the backup the running one is incremental to, 0: none
          top,      \* what is at d of each backup
          sub,      \* what is at s of each real d: of a backup or of a pool directory
          pool,     \* the pool directories
          links,    \* directory_links, as committed
          tx,       \* directory_links, as the open transaction sees it
          journal,  \* directory_link_journal
          job,      \* the operation that holds the client's mutex
          up,       \* the server runs
          stale     \* a crash may have left references nothing leads to

files == <<top, sub, pool>>
tables == <<links, tx, journal>>
backups == <<status, doomed, renamed, last>>
vars == <<setting, backups, files, tables, job, up, stale>>

Paths == Backups \X {"d", "s"}
Rows == Pools \X Paths
Places == {"none", "dir"} \cup Pools
NoJob == [step |-> "none", b |-> 0, x |-> "d", p |-> "none"]

LinkSteps == {"symlink", "end_link", "commit", "rename", "link_source", "forget", "link_target",
              "undo_parents", "undo_source", "undo_below", "undo_target", "undo_journal",
              "drop_target", "drop_below"}
RemoveSteps == {"scan", "row", "empty", "nested", "rmdir", "unlink", "end_remove"}

TypeOK ==
    /\ setting \in Settings
    /\ status \in [Backups -> {"unused", "running", "done", "failed", "gone"}]
    /\ doomed \subseteq Backups
    /\ renamed \subseteq Backups
    /\ last \in Backups \cup {0}
    /\ top \in [Backups -> Places]
    /\ sub \in [Backups \cup Pools -> Places]
    /\ pool \in [Pools -> {"unused", "full", "partial", "gone"}]
    /\ links \subseteq Rows
    /\ tx \subseteq Rows
    /\ journal \subseteq Paths \X Pools
    /\ job \in [step : {"none"} \cup LinkSteps \cup RemoveSteps,
                b : Backups \cup {0}, x : {"d", "s"}, p : Pools \cup {"none"}]
    /\ up \in BOOLEAN
    /\ stale \in BOOLEAN

Init ==
    /\ setting \in Settings
    /\ status = [b \in Backups |-> "unused"]
    /\ doomed = {} /\ renamed = {} /\ last = 0
    /\ top = [b \in Backups |-> "none"]
    /\ sub = [c \in Backups \cup Pools |-> "none"]
    /\ pool = [p \in Pools |-> "unused"]
    /\ links = {} /\ tx = {} /\ journal = {}
    /\ job = NoJob
    /\ up = TRUE
    /\ stale = FALSE

-------------------------------------------------------------------------------
(***************************************************************************)
(* Paths.  The name of a backup's folder leads nowhere once it is renamed. *)
(***************************************************************************)
Home(b) == IF top[b] \in Pools THEN top[b] ELSE b

At(b, x) ==
    IF x = "d" THEN top[b]
    ELSE IF top[b] = "none" THEN "none" ELSE sub[Home(b)]

\* what os_file functions find at a path of the database
AtPath(r) == IF r[1] \in renamed THEN "none" ELSE At(r[1], r[2])

Exists(v) == v = "dir" \/ (v \in Pools /\ pool[v] \notin {"unused", "gone"})

\* put v at x of backup b (through the pool when d is a link)
Place(b, x, v) ==
    IF x = "d" THEN top' = [top EXCEPT ![b] = v] /\ UNCHANGED sub
    ELSE sub' = [sub EXCEPT ![Home(b)] = v] /\ UNCHANGED top

Below(x) == IF x = "d" THEN {"s"} ELSE {}

RowsAt(b, xs) == {r \in Rows : r[2][1] = b /\ r[2][2] \in xs}

Refcount(rows, p) == Cardinality({r \in rows : r[1] = p})

\* slip: links below the source are not looked for
NoSublinkRows(rows, src, x, b) == {}

\* reference_all_sublinks: links below the source are links below the target too
SublinkRows(rows, src, x, b) ==
    {<<r[1], <<b, "s">>>> : r \in {q \in rows : x = "d" /\ q[2] = <<src, "s">>}}

\* reference_parents: the other paths on which a pooled parent shows the source
ParentRows(rows, src, x, p) ==
    IF x = "s" /\ top[src] \in Pools
    THEN {<<p, <<r[2][1], "s">>>> :
            r \in {q \in rows : q[1] = top[src] /\ q[2][2] = "d" /\ q[2][1] # src}}
    ELSE {}

-------------------------------------------------------------------------------
(***************************************************************************)
(* A backup: every directory is linked from the last backup or copied.     *)
(***************************************************************************)
Idle == up /\ job = NoJob

\* The thread that makes backups does not wait for a deletion until it links.
BackupThread == up /\ (job = NoJob \/ job.step \in RemoveSteps)

Running(b) == status[b] = "running"

\* getLastIncrementalFileBackup: the newest that is done, whatever became of it
Newest ==
    LET done == {b \in Backups : status[b] = "done"}
    IN  IF done = {} THEN 0 ELSE CHOOSE b \in done : \A c \in done : c <= b

StartBackup(b) ==
    /\ BackupThread
    /\ b \in setting.made /\ status[b] = "unused"
    /\ \A c \in Backups : ~Running(c) /\ (c < b => status[c] # "unused")
    /\ status' = [status EXCEPT ![b] = "running"]
    /\ \/ last' = Newest
       \/ last' = 0
    /\ UNCHANGED <<doomed, renamed, files, tables, job, up, stale>>

\* The place x of b is still to be filled, in a directory of b's own.
Open(b, x) ==
    /\ Running(b)
    /\ IF x = "d" THEN top[b] = "none" ELSE top[b] = "dir" /\ sub[b] = "none"

Copy(b, x) ==
    /\ BackupThread
    /\ Open(b, x)
    /\ Place(b, x, "dir")
    /\ UNCHANGED <<backups, pool, tables, job, up, stale>>

Present(b) == top[b] # "none" /\ (top[b] = "dir" => sub[b] # "none")

FinishBackup(b) ==
    /\ BackupThread
    /\ Running(b)
    /\ Present(b)
    /\ status' = [status EXCEPT ![b] = "done"]
    /\ UNCHANGED <<doomed, renamed, last, files, tables, job, up, stale>>

FailBackup(b) ==
    /\ BackupThread
    /\ Running(b)
    /\ status' = [status EXCEPT ![b] = "failed"]
    /\ UNCHANGED <<doomed, renamed, last, files, tables, job, up, stale>>

-------------------------------------------------------------------------------
(***************************************************************************)
(* link_directory_pool, whose source is a link already.                    *)
(***************************************************************************)
Go(step) == job' = [job EXCEPT !.step = step]

LinkLinked(b, x) ==
    /\ Idle
    /\ Open(b, x)
    /\ last # 0
    /\ At(last, x) \in Pools
    /\ tx' = links \cup {<<At(last, x), <<b, x>>>>} \cup SublinkRows(links, last, x, b)
    /\ job' = [step |-> "symlink", b |-> b, x |-> x, p |-> At(last, x)]
    /\ UNCHANGED <<backups, files, links, journal, up, stale>>

LinkTargetInTx ==
    /\ job.step = "symlink"
    /\ \/ Place(job.b, job.x, job.p) /\ UNCHANGED tx
       \/ tx' = tx \ RowsAt(job.b, {job.x} \cup Below(job.x)) /\ UNCHANGED <<top, sub>>
    /\ Go("end_link")
    /\ UNCHANGED <<backups, pool, links, journal, up, stale>>

EndLink ==
    /\ job.step = "end_link"
    /\ links' = tx
    /\ tx' = {}
    /\ job' = NoJob
    /\ UNCHANGED <<backups, files, journal, up, stale>>

(***************************************************************************)
(* link_directory_pool, whose source is a directory: references first,     *)
(* then the journal entry, the move into the pool, a link in its place,    *)
(* and at last a link in the new backup.                                   *)
(***************************************************************************)
LinkPlain(b, x) ==
    /\ Idle
    /\ Open(b, x)
    /\ last # 0
    /\ At(last, x) = "dir"
    /\ \E p \in Pools :
          /\ pool[p] = "unused"
          /\ \A r \in links : r[1] # p
          /\ tx' = links \cup ParentRows(links, last, x, p)
                         \cup {<<p, <<last, x>>>>, <<p, <<b, x>>>>}
                         \cup SublinkRows(links, last, x, b)
          /\ journal' = journal \cup {<<<<last, x>>, p>>}
          /\ job' = [step |-> "commit", b |-> b, x |-> x, p |-> p]
    /\ UNCHANGED <<backups, files, links, up, stale>>

CommitRows ==
    /\ job.step = "commit"
    /\ links' = tx
    /\ tx' = {}
    /\ Go("rename")
    /\ UNCHANGED <<backups, files, journal, up, stale>>

\* The rows of the operation are taken back statement by statement, in no transaction.
UndoRows ==
    [undo_parents |-> ParentRows(links, last, job.x, job.p),
     undo_source |-> RowsAt(last, {job.x}),
     undo_below |-> RowsAt(job.b, Below(job.x)),
     undo_target |-> RowsAt(job.b, {job.x})]

AfterUndo ==
    [undo_parents |-> "undo_source", undo_source |-> "undo_below",
     undo_below |-> "undo_target", undo_target |-> "undo_journal"]

Undo ==
    /\ job.step \in DOMAIN AfterUndo
    /\ links' = links \ UndoRows[job.step]
    /\ Go(AfterUndo[job.step])
    /\ UNCHANGED <<backups, files, tx, journal, up, stale>>

UndoJournal ==
    /\ job.step = "undo_journal"
    /\ journal' = journal \ {<<<<last, job.x>>, job.p>>}
    /\ job' = NoJob
    /\ UNCHANGED <<backups, files, links, tx, up, stale>>

Rename ==
    /\ job.step = "rename"
    /\ pool' = [pool EXCEPT ![job.p] = "full"]
    /\ IF job.x = "d"
       THEN /\ top' = [top EXCEPT ![last] = "none"]
            /\ sub' = [sub EXCEPT ![job.p] = sub[last], ![last] = "none"]
       ELSE Place(last, "s", "none")
    /\ Go("link_source")
    /\ UNCHANGED <<backups, tables, up, stale>>

RenameFails ==
    /\ job.step = "rename"
    /\ Go("undo_parents")
    /\ UNCHANGED <<backups, files, tables, up, stale>>

LinkSource ==
    /\ job.step = "link_source"
    /\ Place(last, job.x, job.p)
    /\ Go("forget")
    /\ UNCHANGED <<backups, pool, tables, up, stale>>

\* The directory moves back.
LinkSourceFails ==
    /\ job.step = "link_source"
    /\ pool' = [pool EXCEPT ![job.p] = "gone"]
    /\ IF job.x = "d"
       THEN /\ top' = [top EXCEPT ![last] = "dir"]
            /\ sub' = [sub EXCEPT ![last] = sub[job.p], ![job.p] = "none"]
       ELSE Place(last, "s", "dir")
    /\ Go("undo_parents")
    /\ UNCHANGED <<backups, tables, up, stale>>

ForgetJournal ==
    /\ job.step = "forget"
    /\ journal' = journal \ {<<<<last, job.x>>, job.p>>}
    /\ Go("link_target")
    /\ UNCHANGED <<backups, files, links, tx, up, stale>>

\* slip: the references stay although the link could not be made
LinkTargetKeepsRows ==
    /\ job.step = "link_target"
    /\ Place(job.b, job.x, job.p) \/ UNCHANGED <<top, sub>>
    /\ job' = NoJob
    /\ UNCHANGED <<backups, pool, tables, up, stale>>

LinkTarget ==
    /\ job.step = "link_target"
    /\ \/ Place(job.b, job.x, job.p) /\ job' = NoJob
       \/ UNCHANGED <<top, sub>> /\ Go("drop_target")
    /\ UNCHANGED <<backups, pool, tables, up, stale>>

DropTarget ==
    /\ \/ job.step = "drop_target" /\ links' = links \ RowsAt(job.b, {job.x}) /\ Go("drop_below")
       \/ job.step = "drop_below" /\ links' = links \ RowsAt(job.b, Below(job.x)) /\ job' = NoJob
    /\ UNCHANGED <<backups, files, tx, journal, up, stale>>

-------------------------------------------------------------------------------
(***************************************************************************)
(* deleteFileBackup: the folder is deleted from below, every link on the   *)
(* way by remove_directory_link; then the database forgets the backup.     *)
(***************************************************************************)
DeleteBackup(b) ==
    /\ Idle
    /\ \/ status[b] = "done" /\ (setting.manual \/ b # Newest)
       \/ status[b] = "failed"
    /\ doomed' = doomed \cup {b}
    /\ job' = [step |-> "scan", b |-> b, x |-> "d", p |-> "none"]
    /\ UNCHANGED <<status, renamed, last, files, tables, up, stale>>

RemoveLink(b, x) ==
    /\ job' = [job EXCEPT !.step = "row", !.x = x, !.p = At(b, x)]
    /\ tx' = links
    /\ UNCHANGED <<backups, files, links, journal, up, stale>>

ScanFolder ==
    LET b == job.b
    IN  /\ job.step = "scan"
        /\ \/ top[b] \in Pools /\ RemoveLink(b, "d")
           \/ top[b] = "dir" /\ sub[b] \in Pools /\ RemoveLink(b, "s")
           \/ /\ top[b] = "dir" /\ sub[b] \notin Pools
              /\ sub' = [sub EXCEPT ![b] = "none"]
              /\ top' = IF sub[b] = "none" THEN [top EXCEPT ![b] = "none"] ELSE top
              /\ UNCHANGED <<backups, pool, tables, job, up, stale>>
           \/ /\ top[b] = "none"
              /\ status' = [status EXCEPT ![b] = "gone"]
              /\ job' = NoJob
              /\ UNCHANGED <<doomed, renamed, last, files, tables, up, stale>>

\* Does remove_directory_link find the path of x in the table?
Known(b, x) == b \notin renamed /\ \E r \in tx : r[2] = <<b, x>>

\* slip: the references below a link stay when the link goes
RemoveRowOnly ==
    LET rest == tx \ RowsAt(job.b, {job.x})
    IN  /\ job.step = "row"
        /\ tx' = rest
        /\ Go(IF Known(job.b, job.x) /\ Refcount(rest, job.p) = 0 /\ Exists(job.p)
              THEN "empty" ELSE "unlink")
        /\ UNCHANGED <<backups, files, links, journal, up, stale>>

\* slip: the last reference goes and the pool directory stays
RemoveRowKeepsPool ==
    /\ job.step = "row"
    /\ tx' = tx \ RowsAt(job.b, {job.x} \cup Below(job.x))
    /\ Go("unlink")
    /\ UNCHANGED <<backups, files, links, journal, up, stale>>

RemoveRow ==
    LET rest == tx \ RowsAt(job.b, {job.x})
    IN  /\ job.step = "row"
        /\ \/ ~Known(job.b, job.x) /\ Go("unlink") /\ UNCHANGED tx
           \/ /\ Known(job.b, job.x) /\ Refcount(rest, job.p) = 0
              /\ tx' = rest
              /\ Go(IF Exists(job.p) THEN "empty" ELSE "unlink")
           \/ /\ Known(job.b, job.x) /\ Refcount(rest, job.p) > 0
              /\ tx' = rest \ RowsAt(job.b, Below(job.x))
              /\ Go("unlink")
        /\ UNCHANGED <<backups, files, links, journal, up, stale>>

\* Nobody else refers to the pool directory: its content goes, a link in it as any link.
EmptyPool ==
    LET q == sub[job.p]
        rest == tx \ RowsAt(job.b, {"s"})
    IN  /\ job.step = "empty"
        /\ \/ /\ q \in Pools /\ Known(job.b, "s")
              /\ tx' = rest
              /\ pool' = [pool EXCEPT ![job.p] = "partial",
                                      ![q] = IF Refcount(rest, q) = 0 THEN "gone" ELSE @]
              /\ Go("nested")
           \/ /\ q \notin Pools \/ ~Known(job.b, "s")
              /\ pool' = [pool EXCEPT ![job.p] = "partial"]
              /\ Go("nested")
              /\ UNCHANGED tx
        /\ UNCHANGED <<backups, top, sub, links, journal, up, stale>>

UnlinkNested ==
    /\ job.step = "nested"
    /\ sub' = [sub EXCEPT ![job.p] = "none"]
    /\ Go("rmdir")
    /\ UNCHANGED <<backups, top, pool, tables, up, stale>>

RemovePool ==
    /\ job.step = "rmdir"
    /\ pool' = [pool EXCEPT ![job.p] = "gone"]
    /\ Go("unlink")
    /\ UNCHANGED <<backups, top, sub, tables, up, stale>>

Unlink ==
    /\ job.step = "unlink"
    /\ Place(job.b, job.x, "none")
    /\ Go("end_remove")
    /\ UNCHANGED <<backups, pool, tables, up, stale>>

EndRemove ==
    /\ job.step = "end_remove"
    /\ links' = tx
    /\ tx' = {}
    /\ Go("scan")
    /\ UNCHANGED <<backups, files, journal, up, stale>>

-------------------------------------------------------------------------------
(***************************************************************************)
(* The process dies: what is in an open transaction is lost, what was done *)
(* to the file system stays.                                               *)
(***************************************************************************)
Crash ==
    /\ setting.crash
    /\ up
    /\ up' = FALSE
    /\ stale' = TRUE
    /\ job' = NoJob
    /\ tx' = {}
    /\ UNCHANGED <<backups, files, links, journal>>

\* replay_directory_link_journal: a directory that reached the pool gets its link.
Torn == {e \in journal : AtPath(e[1]) # e[2] /\ Exists(e[2])}

\* slip: the journal is emptied and not followed
ReplayNothing == journal' = {} /\ UNCHANGED <<top, sub>>

Replay ==
    /\ top' = [b \in Backups |->
                 IF \E e \in Torn : e[1] = <<b, "d">>
                 THEN (CHOOSE e \in Torn : e[1] = <<b, "d">>)[2] ELSE top[b]]
    /\ sub' = [c \in Backups \cup Pools |->
                 IF \E e \in Torn : e[1][2] = "s" /\ Home(e[1][1]) = c
                 THEN (CHOOSE e \in Torn : e[1][2] = "s" /\ Home(e[1][1]) = c)[2] ELSE sub[c]]
    /\ journal' = {}

\* The server starts: it replays the journal, then moves unfinished backups out of the way.  That
\* takes no finished backup, whose folder and files are there and synced (the storage keeps what was
\* synced); the rename succeeds, as what it would leave behind is a deletion by hand (Careful).
Restart ==
    /\ ~up
    /\ up' = TRUE
    /\ Replay
    /\ status' = [b \in Backups |-> IF Running(b) THEN "failed" ELSE status[b]]
    /\ renamed' = renamed \cup {b \in Backups : status[b] \in {"running", "failed"}}
    /\ doomed' = doomed \cup renamed'
    /\ UNCHANGED <<last, pool, links, tx, job, stale>>

(***************************************************************************)
(* do_remove_unknown, with the server stopped: the journal is replayed;    *)
(* renamed folders go, then references whose link or pool directory does   *)
(* not exist (check_symlinks), then pool directories without a reference.  *)
(* When there is one, the rows are completed from the links found in the   *)
(* referenced pool directories first.                                      *)
(***************************************************************************)
RemoveUnknown ==
    LET kept == {r \in links : Exists(r[1]) /\ AtPath(r[2]) \in Pools}
        unused(rows) == {p \in Pools : Exists(p) /\ Refcount(rows, p) = 0}
        below == {<<sub[r[1]], <<r[2][1], "s">>>> :
                    r \in {q \in kept : q[2][2] = "d" /\ sub[q[1]] \in Pools}}
        rows == IF unused(kept) = {} THEN kept ELSE kept \cup below
    IN  /\ ~up
        /\ Torn = {}
        /\ journal' = {}
        /\ links' = rows
        /\ pool' = [p \in Pools |-> IF p \in unused(rows) THEN "gone" ELSE pool[p]]
        /\ sub' = [c \in Backups \cup Pools |-> IF c \in renamed \cup unused(rows) THEN "none" ELSE sub[c]]
        /\ top' = [b \in Backups |-> IF b \in renamed THEN "none" ELSE top[b]]
        /\ status' = [b \in Backups |-> IF b \in renamed THEN "gone" ELSE status[b]]
        /\ stale' = \E b \in Backups : status'[b] \in {"running", "failed"}
        /\ UNCHANGED <<doomed, renamed, last, tx, job, up>>

ReplayFirst ==
    /\ ~up
    /\ Torn # {}
    /\ Replay
    /\ UNCHANGED <<backups, pool, links, tx, job, up, stale>>

Step ==
    \/ \E b \in Backups :
          \/ StartBackup(b) \/ FinishBackup(b) \/ FailBackup(b) \/ DeleteBackup(b)
          \/ \E x \in {"d", "s"} : Copy(b, x) \/ LinkLinked(b, x) \/ LinkPlain(b, x)
    \/ LinkTargetInTx \/ EndLink
    \/ CommitRows \/ Rename \/ RenameFails \/ LinkSource \/ LinkSourceFails
    \/ ForgetJournal \/ LinkTarget \/ Undo \/ UndoJournal \/ DropTarget
    \/ ScanFolder \/ RemoveRow \/ EmptyPool \/ UnlinkNested \/ RemovePool \/ Unlink \/ EndRemove
    \/ Crash \/ Restart \/ ReplayFirst \/ RemoveUnknown

\* Every backup has been made and deleted.
AllGone == Idle /\ (\A b \in setting.made : status[b] = "gone") /\ UNCHANGED vars

Next == (Step /\ UNCHANGED setting) \/ AllGone

Spec == Init /\ [][Next]_vars

-------------------------------------------------------------------------------
Whole(v) == v = "dir" \/ (v \in Pools /\ pool[v] = "full")

(***************************************************************************)
(* Sharing is invisible: whatever other backups are linked, deleted or     *)
(* torn by a crash, a finished backup nobody deletes has all its content.  *)
(* (Not while its own directory is between its place and the pool.)        *)
(***************************************************************************)
Intact ==
    up /\ job.step # "link_source" =>
        \A b \in Backups : status[b] = "done" /\ b \notin doomed =>
            Whole(top[b]) /\ Whole(At(b, "s"))

(***************************************************************************)
(* Every link in a backup's folder, reached through whatever other links,  *)
(* is counted: the pool directory outlives the paths that lead to it       *)
(* (server_dir_links.cpp:385-404).                                         *)
(***************************************************************************)
LinksCounted ==
    Idle => \A r \in Paths :
        AtPath(r) \in Pools /\ Exists(AtPath(r)) => <<AtPath(r), r>> \in links

(***************************************************************************)
(* A reference never names another pool directory than the link at its     *)
(* path leads to: check_symlinks, which then redirects the link            *)
(* (server_cleanup.cpp:2304-2321), has nothing to redirect.                *)
(***************************************************************************)
RowsAgree ==
    \A r \in links : Exists(r[1]) /\ AtPath(r[2]) \in Pools => AtPath(r[2]) = r[1]

\* No pool directory is beyond the reach of the reference counts (server_cleanup.cpp:2380).
PoolsReferenced ==
    Idle => \A p \in Pools : Exists(p) => Refcount(links, p) > 0

(***************************************************************************)
(* Without a crash, and again after remove_unknown, the table is exact:    *)
(* every reference is a link that is there, so the last backup to go takes *)
(* the pool directory with it.  The directory itself may be missing only   *)
(* under a backup that is being deleted: a crash can end a deletion after  *)
(* the directory went and before its link did, and remove_unknown then     *)
(* references the link again without a look at what it leads to            *)
(* (reference_contained_directory_links, server_dir_links.cpp:500).        *)
(***************************************************************************)
LinksExact ==
    Idle /\ ~stale =>
        \A r \in links : AtPath(r[2]) = r[1] /\ (Exists(r[1]) \/ r[2][1] \in doomed)

(***************************************************************************)
(* What reference_parents asserts (server_dir_links.cpp:85): on every path *)
(* that refers to a pool directory, the directory about to be linked in it *)
(* is there.                                                               *)
(***************************************************************************)
ParentsExist ==
    \A b \in Backups : Idle /\ Open(b, "s") /\ last # 0 /\ At(last, "s") = "dir" =>
        \A r \in links : r[1] = top[last] /\ r[2][2] = "d" => AtPath(<<r[2][1], "s">>) # "none"

\* It holds as long as no crash has left references, and again after remove_unknown.
ParentsVisible == ~stale => ParentsExist
===============================================================================
