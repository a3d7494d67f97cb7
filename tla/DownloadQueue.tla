---------------------------- MODULE DownloadQueue ----------------------------
(***************************************************************************)
(* The files of an incremental backup on their way from the client.  The   *)
(* backup puts the lines of the file list into dl_queue; the download      *)
(* thread takes them from the front and, while it reads the answer for one *)
(* file, asks for the next ones on the same connection (pipelining), so    *)
(* that dl_queue, the requests the file client remembers and the requests  *)
(* on the wire have to stay in step.                                       *)
(*                                                                         *)
(* There are two connections: one for whole files (asked, wire) and one    *)
(* for differences to the file of the last backup (asked_diffs).           *)
(***************************************************************************)
EXTENDS Integers, Sequences, SequencesExt, FiniteSets, TLC

CONSTANTS Lists,         \* the file lists: sequences of lines
          Shares,        \* the directories at the top of a list, each with a snapshot
          MaxQueueSize,  \* max_queue_size
          MaxQueued,     \* maxQueuedFiles
          QueuedLow,     \* queuedFilesLow
          Width,         \* queue_size counts modulo this
          MaxFaults,     \* bound on lost connections and refused files
          DamageAhead    \* a difference may arrive damaged while others are asked for

ASSUME QueueAssumption ==
    /\ MaxQueueSize \in Nat /\ MaxQueued \in Nat \ {0} /\ QueuedLow \in Nat
    /\ Width \in Nat /\ Width > MaxQueueSize
    /\ MaxFaults \in Nat
    /\ DamageAhead \in BOOLEAN

VARIABLES list,        \* the file list of this backup
          line,        \* the line the backup is at
          step,        \* of the backup: "look", "add", "wait" or "listed"
          r_offline,   \* the backup has noticed that the client is offline, or was stopped
          skipped,     \* download_nok_ids of the backup: lines it did not queue
          dl_queue, queue_size,
          pc,          \* of the download thread
          curr,        \* the item it works on
          is_offline, skipping,
          nok, partial,  \* download_nok_ids, download_partial_ids
          loaded,      \* pairs: a line, and the line whose content was taken for it
          asked,       \* FileClient::queued
          wire,        \* whole files: requests the client has yet to answer
          astray,      \* what is read there is not an answer: "no", of the "connection", or
                       \* maybe of the part of the "file" that was read before a reconnect
          asked_diffs, \* FileClientChunked::queued_fcs
          stranded,    \* files whose temporary files could not be made: no list has them
          released,    \* the shares whose snapshot was given back
          faults       \* counted against MaxFaults

backup == <<list, line, step, r_offline, skipped>>
queue == <<dl_queue, queue_size>>
results == <<nok, partial, loaded, stranded, released>>
thread == <<pc, curr, is_offline, skipping>>
full_conn == <<asked, wire, astray>>
vars == <<backup, queue, results, thread, full_conn, asked_diffs, faults>>

-----------------------------------------------------------------------------
(* Lines and items *)

\* "full", "diff", "meta": a file, a file as a difference, only its metadata.
\* old: what preparing a difference finds, "some" old file, "none" or an "error".
LineKinds == {"start", "stop", "full", "diff", "meta"}
Line == [kind : LineKinds, share : Shares, old : {"some", "none", "error"},
         script : BOOLEAN, archive : BOOLEAN, inplace : BOOLEAN]

\* Only scripts have archives, and the list leaves a directory at its top after the files
\* in it: then its snapshot is not needed any more (what a script gives is in none).
ASSUME ListAssumption ==
    \A l \in Lists :
        /\ l \in Seq(Line)
        /\ \A i \in DOMAIN l : l[i].archive => l[i].script
        /\ \A i, j \in DOMAIN l :
              i < j /\ l[i].kind = "stop" /\ l[j].kind \in {"full", "diff", "meta"}
                 => l[j].script \/ l[j].share # l[i].share

\* The file in the archive that the script of line i packs, if its output is one (the
\* code gives all of these the id of line 0, a directory; here each has its own).
Member(i) == Len(list) + i
LineOf(id) == list[IF id > Len(list) THEN id - Len(list) ELSE id]
Ids == 1..(2 * Len(list))

Item(i) ==
    LET l == LineOf(i)
    IN [action |-> CASE l.kind = "start" -> "start" [] l.kind = "stop" -> "stop"
                     [] OTHER -> "file",
        id |-> i, full |-> l.kind # "diff" /\ i <= Len(list), meta |-> l.kind = "meta",
        script |-> l.script, script_end |-> FALSE,
        queued |-> FALSE, switched |-> FALSE, prepared |-> "no"]

Signal(a) == [action |-> a, id |-> 0, full |-> TRUE, meta |-> FALSE, script |-> FALSE,
              script_end |-> FALSE, queued |-> FALSE, switched |-> FALSE, prepared |-> "no"]

\* what a line is loaded with whose content is not known
Unknown == 0

ScriptEnd(item) == [Signal("file") EXCEPT !.id = item.id, !.script = TRUE, !.script_end = TRUE]

IsFull(item) == item.action = "file" /\ item.full
IsDiff(item) == item.action = "file" /\ ~item.full
IsBarrier(item) == item.action \in {"quit", "stop"}
Request(item) == [id |-> item.id, end |-> item.script_end]

QueueItemsFull == 1
QueueItemsChunked == 4
Weight(item) == CASE item.action # "file" -> 0
                  [] item.full -> QueueItemsFull
                  [] OTHER -> QueueItemsChunked

-----------------------------------------------------------------------------
(* Operations on dl_queue *)

\* The items at these places of q, in their order.
ItemsAt(q, places) ==
    [n \in 1..Cardinality(places) |->
        q[CHOOSE i \in places : Cardinality({h \in places : h <= i}) = n]]

\* slip: to the very front, before files that were asked for already
FrontPlace(q, afterSwitched) == 1

\* The place for a whole file: right behind the last whole file that precedes
\* the first one nobody has asked for (and that is no latecomer itself).
EarliestPlace(q, afterSwitched) ==
    LET target == SelectInSeq(q, LAMBDA it : /\ IsFull(it) /\ ~it.queued
                                             /\ ~(afterSwitched /\ it.switched))
        Queued(it) == IsFull(it) /\ it.queued
    IN CASE target > 0 -> 1 + SelectLastInSubSeq(q, 1, target - 1, IsFull)
         [] target = 0 /\ SelectInSeq(q, Queued) = 0 -> 1
         [] OTHER -> Len(q) + 1

\* slip: the ends of snapshots stay where they are
PostponeNothing(q, p) == q

\* Moves the ends of snapshots, and the end of the queue, from before place p to after it.
PostponeQuitStop(q, p) ==
    LET barriers == {i \in 1..(p - 1) : IsBarrier(q[i])}
        moved == ItemsAt(q, barriers)
    IN ItemsAt(q, (1..p) \ barriers) \o (IF p = Len(q) THEN moved ELSE Reverse(moved))
          \o SubSeq(q, p + 1, Len(q))

InsertLate(q, item) ==
    LET p == EarliestPlace(q, TRUE)
    IN PostponeQuitStop(InsertAt(q, p, [item EXCEPT !.full = TRUE, !.switched = TRUE]), p)

\* The difference at place p has no old file: the whole file is needed.
SwitchToFull(q, p) ==
    IF \E j \in p..Len(q) : IsFull(q[j]) /\ q[j].queued
    THEN InsertLate(RemoveAt(q, p), q[p])
    ELSE [q EXCEPT ![p].full = TRUE, ![p].switched = TRUE]

Shrunk(size) == (size - (QueueItemsChunked - QueueItemsFull)) % Width

\* What preparing a difference finds, as an item's field.
Found(item) == CASE LineOf(item.id).old = "some" -> "yes"
                 [] LineOf(item.id).old = "error" -> "error"
                 [] OTHER -> "none"

Unprepared(item) == IsDiff(item) /\ ~item.queued /\ item.prepared = "no"
Askable(item) == IsFull(item) /\ ~item.queued

\* getQueuedFileFull: prepares at most one difference before the first whole file.
FullPrepared ==
    LET d == SelectInSeq(dl_queue, Unprepared)
        f == SelectInSeq(dl_queue, Askable)
    IN IF d = 0 \/ (f > 0 /\ f < d) THEN queue
       ELSE IF Found(dl_queue[d]) = "none"
       THEN <<SwitchToFull(dl_queue, d), Shrunk(queue_size)>>
       ELSE <<[dl_queue EXCEPT ![d].prepared = Found(dl_queue[d])], queue_size>>

\* getQueuedFileChunked: prepares until a difference can be asked for.
AskableDiff(item) == IsDiff(item) /\ ~item.queued /\ item.prepared # "error"

PrepareNext(qs) ==
    LET q == qs[1]
        d == SelectInSeq(q, AskableDiff)
    IN IF d = 0 \/ q[d].prepared = "yes" THEN qs
       ELSE IF Found(q[d]) = "none" THEN <<SwitchToFull(q, d), Shrunk(qs[2])>>
       ELSE <<[q EXCEPT ![d].prepared = Found(q[d])], qs[2]>>

DiffPrepared ==
    LET after[n \in 0..Len(dl_queue)] == IF n = 0 THEN queue ELSE PrepareNext(after[n - 1])
    IN after[Len(dl_queue)]

\* slip: what was asked for is still marked after a reconnect
ResetNothing(q) == q

\* resetQueueFull and resetQueueChunked
ResetFull(q) == [j \in DOMAIN q |-> IF IsFull(q[j]) THEN [q[j] EXCEPT !.queued = FALSE] ELSE q[j]]
ResetDiffs(q) == [j \in DOMAIN q |-> IF IsDiff(q[j]) THEN [q[j] EXCEPT !.queued = FALSE] ELSE q[j]]

Init ==
    /\ list \in Lists
    /\ line = 1 /\ step = "look" /\ r_offline = FALSE /\ skipped = {}
    /\ dl_queue = <<>> /\ queue_size = 0
    /\ pc = "pop" /\ curr = Signal("none")
    /\ is_offline = FALSE /\ skipping = FALSE
    /\ nok = {} /\ partial = {} /\ loaded = {} /\ released = {} /\ stranded = {}
    /\ asked = <<>> /\ wire = <<>> /\ astray = "no" /\ asked_diffs = <<>>
    /\ faults = 0

-----------------------------------------------------------------------------
(* The backup *)

Push(item) ==
    /\ dl_queue' = Append(dl_queue, item)
    /\ queue_size' = (queue_size + Weight(item)) % Width

\* Before every line the backup sleeps until the queue is short enough (sleepQueue); also
\* before the line that ends the directory of the scripts, which queues nothing.
RoomLeft == queue_size <= MaxQueueSize
EndsScripts == Len(list) > 0 /\ list[Len(list)].script
LinesLeft == line <= Len(list) \/ EndsScripts

Asleep == step = "look" /\ LinesLeft /\ ~RoomLeft /\ UNCHANGED vars

Look ==
    /\ step = "look" /\ line <= Len(list) /\ RoomLeft
    /\ r_offline' = (r_offline \/ is_offline)
    /\ step' = "add"
    /\ UNCHANGED <<list, line, skipped, queue, results, thread, full_conn, asked_diffs, faults>>

\* A file that changed is not queued any more when the client is offline, unless
\* an earlier, incomplete backup changed it in place (modified_inplace_ids).
Add ==
    /\ step = "add"
    /\ \/ /\ r_offline => list[line].kind \notin {"full", "diff"} \/ list[line].inplace
          /\ Push(Item(line))
          /\ UNCHANGED skipped
       \/ /\ r_offline /\ list[line].kind \in {"full", "diff"} /\ ~list[line].inplace
          /\ skipped' = skipped \union {line}
          /\ UNCHANGED queue
    /\ line' = line + 1
    /\ step' = "look"
    /\ UNCHANGED <<list, r_offline, results, thread, full_conn, asked_diffs, faults>>

\* The administrator stops the backup, also while it sleeps (queueSkip).
AdminStops ==
    /\ step = "look" /\ LinesLeft /\ ~r_offline
    /\ r_offline' = TRUE
    /\ dl_queue' = <<Signal("skip")>> \o dl_queue
    /\ UNCHANGED <<list, line, step, skipped, queue_size, results, thread, full_conn,
                   asked_diffs, faults>>

EndOfList ==
    /\ step = "look" /\ line > Len(list)
    /\ EndsScripts => RoomLeft
    /\ Push(Signal("quit"))
    /\ step' = "wait"
    /\ UNCHANGED <<list, line, r_offline, skipped, results, thread, full_conn, asked_diffs, faults>>

\* The new file list: the lines the next backup may take as unchanged.
Wait ==
    /\ step = "wait" /\ pc = "done"
    /\ step' = "listed"
    /\ UNCHANGED <<list, line, r_offline, skipped, queue, results, thread, full_conn,
                   asked_diffs, faults>>

\* slip: lines that were never queued are listed
ListedSkipped == {i \in DOMAIN list : list[i].kind \in {"full", "diff"}} \ nok

Listed == {i \in DOMAIN list : list[i].kind \in {"full", "diff"}} \ (nok \union skipped)

-----------------------------------------------------------------------------
(* The download thread takes an item *)

Goto(where) == pc' = where /\ UNCHANGED <<curr, is_offline, skipping>>

GoOffline ==
    /\ pc' = "pop" /\ is_offline' = TRUE
    /\ UNCHANGED <<curr, skipping>>

Pop(where) ==
    /\ pc = "pop" /\ dl_queue # <<>>
    /\ curr' = Head(dl_queue)
    /\ dl_queue' = Tail(dl_queue)
    /\ queue_size' = (queue_size - Weight(Head(dl_queue))) % Width
    /\ pc' = where
    /\ UNCHANGED <<backup, is_offline, full_conn, asked_diffs, faults>>

Online == ~is_offline /\ ~skipping

TakeQuit ==
    /\ Pop("quit") /\ curr'.action = "quit"
    /\ UNCHANGED <<skipping, results>>

\* slip: the mark goes back to the front
QuitFirst ==
    /\ pc = "quit"
    /\ IF dl_queue = <<>>
       THEN Goto("done") /\ UNCHANGED dl_queue
       ELSE Goto("pop") /\ dl_queue' = <<curr>> \o dl_queue
    /\ UNCHANGED <<backup, queue_size, results, full_conn, asked_diffs, faults>>

\* The queue may have grown behind the mark: then the mark goes to its back.
Quit ==
    /\ pc = "quit"
    /\ IF dl_queue = <<>>
       THEN Goto("done") /\ UNCHANGED dl_queue
       ELSE Goto("pop") /\ dl_queue' = Append(dl_queue, curr)
    /\ UNCHANGED <<backup, queue_size, results, full_conn, asked_diffs, faults>>

TakeSkip ==
    /\ Pop("pop") /\ curr'.action = "skip"
    /\ skipping' = TRUE
    /\ UNCHANGED results

\* Offline, a difference becomes a copy of its old file, every other file is not loaded.
TakeOffline ==
    /\ ~Online
    /\ Pop("pop") /\ curr'.action \notin {"quit", "skip"}
    /\ \/ /\ IsDiff(curr') /\ Found(curr') = "yes"
          /\ partial' = partial \union {curr'.id}
          /\ UNCHANGED nok
       \/ /\ ~curr'.meta
          /\ nok' = IF curr'.action = "file" /\ ~curr'.script_end
                    THEN nok \union {curr'.id} ELSE nok
          /\ UNCHANGED partial
       \/ curr'.meta /\ UNCHANGED <<nok, partial>>
    /\ UNCHANGED <<skipping, loaded, stranded, released>>

\* START SC and STOP SC; a failure counts only when it is fatal (sc_failure_fatal).
TakeStart ==
    /\ Online
    /\ Pop("pop") /\ curr'.action = "start"
    /\ UNCHANGED <<skipping, results>>

TakeStop ==
    /\ Online
    /\ Pop("pop") /\ curr'.action = "stop"
    /\ released' = released \union {list[curr'.id].share}
    /\ UNCHANGED <<skipping, nok, partial, loaded, stranded>>

TakeFull ==
    /\ Online
    /\ Pop("get") /\ IsFull(curr')
    /\ UNCHANGED <<skipping, results>>

TakeDiff ==
    /\ Online
    /\ Pop("patch") /\ IsDiff(curr')
    /\ UNCHANGED <<skipping, results>>

-----------------------------------------------------------------------------
(* Whole files: FileClient::GetFile and FinishScript *)

\* The request was made while an earlier file was read, or it is made now.
Get ==
    /\ pc = "get"
    /\ IF asked = <<>>
       THEN wire' = Append(wire, Request(curr)) /\ UNCHANGED asked
       ELSE asked' = Tail(asked) /\ UNCHANGED wire
    /\ Goto("receive")
    /\ UNCHANGED <<backup, queue, results, astray, asked_diffs, faults>>

\* load_file has no temporary file to load into: the client is taken for offline, the
\* file is put into neither list of failed downloads.
NoTempFile ==
    /\ pc = "get" /\ ~curr.meta /\ faults < MaxFaults
    /\ faults' = faults + 1
    /\ stranded' = stranded \union {curr.id}
    /\ GoOffline
    /\ UNCHANGED <<backup, queue, nok, partial, loaded, released, full_conn, asked_diffs>>

\* fillQueue asks for further files; not while the output of a script is read.
\* Sending may fail: then the file is given back (unqueueFileFull).
FillBegin ==
    /\ pc = "receive" /\ ~curr.script /\ Len(asked) <= QueuedLow
    /\ Goto("fill")
    /\ UNCHANGED <<backup, queue, results, full_conn, asked_diffs, faults>>

Fill ==
    /\ pc = "fill" /\ Len(asked) < MaxQueued
    /\ LET prepared == FullPrepared
           f == SelectInSeq(prepared[1], Askable)
       IN /\ queue_size' = prepared[2]
          /\ \/ /\ f > 0
                /\ dl_queue' = [prepared[1] EXCEPT ![f].queued = TRUE]
                \* fillQueue sends a script end like a file: ID_SCRIPT_FINISH is not used
                /\ wire' = Append(wire, [id |-> prepared[1][f].id, end |-> FALSE])
                /\ asked' = Append(asked, Request(prepared[1][f]))
                /\ UNCHANGED <<thread, astray, faults>>
             \/ /\ f = 0
                /\ dl_queue' = prepared[1]
                /\ Goto("receive")
                /\ UNCHANGED <<full_conn, faults>>
             \/ /\ f > 0 /\ faults < MaxFaults
                /\ faults' = faults + 1
                /\ dl_queue' = prepared[1]
                /\ Goto("receive")
                /\ UNCHANGED full_conn
    /\ UNCHANGED <<backup, results, asked_diffs>>

FillEnd ==
    /\ pc = "fill"
    /\ Goto("receive")
    /\ UNCHANGED <<backup, queue, results, full_conn, asked_diffs, faults>>

\* The client answers in order, and what is read is taken for the file being loaded; it
\* is that answer unless the connection is out of step.
Answer(request) == wire # <<>> /\ request = Head(wire) /\ wire' = Tail(wire)
Content(id) == IF astray = "no" THEN id ELSE Unknown
FileRead == astray' = IF astray = "file" THEN "no" ELSE astray

\* Faults are counted, but for those that what was read out of step brings about.
Fault(expected) ==
    IF expected THEN UNCHANGED faults ELSE faults < MaxFaults /\ faults' = faults + 1

Received ==
    /\ pc = "receive" /\ ~curr.script_end
    /\ \E r \in {Head(wire)} :
          /\ Answer(r) /\ ~r.end
          /\ loaded' = IF curr.meta THEN loaded ELSE loaded \union {<<curr.id, Content(r.id)>>}
    /\ FileRead
    /\ Goto(IF curr.script THEN "script" ELSE "pop")
    /\ UNCHANGED <<backup, queue, nok, partial, released, stranded, asked, asked_diffs, faults>>

\* The client cannot open the file, or not read all of it: then what there is may be
\* kept.  After an unknown answer, or when its directory is lost, the client is taken for
\* offline; a script's failure ends the backup.
Refused ==
    /\ pc = "receive" /\ ~curr.script_end /\ Fault(astray # "no")
    /\ \E r \in {Head(wire)} :
          /\ Answer(r)
          /\ \/ /\ nok' = IF curr.meta THEN nok ELSE nok \union {curr.id}
                /\ UNCHANGED <<partial, loaded>>
             \/ /\ ~curr.meta
                /\ partial' = partial \union {curr.id}
                /\ loaded' = loaded \union {<<curr.id, Content(r.id)>>}
                /\ UNCHANGED nok
    /\ FileRead
    /\ \/ ~curr.script /\ Goto("pop")
       \/ GoOffline
    /\ UNCHANGED <<backup, queue, released, stranded, asked, asked_diffs>>

\* Reconnect: whatever was asked for is asked for again.
Reset ==
    /\ asked' = <<>>
    /\ dl_queue' = ResetFull(dl_queue)
    /\ UNCHANGED queue_size

\* A script end was asked for like a file: FinishScript waits for a byte, which may have
\* been read already.
EndAsFile == curr.script_end /\ wire # <<>> /\ ~Head(wire).end

\* The connection is lost; the file that is being loaded is asked for first, from where it was.
Reconnected ==
    /\ pc = "receive" /\ Fault(astray = "connection" \/ EndAsFile)
    /\ Reset
    /\ wire' = <<Request(curr)>>
    /\ astray' = IF astray = "no" \/ curr.script_end THEN "no" ELSE "file"
    /\ UNCHANGED <<backup, results, thread, asked_diffs>>

\* It cannot be established again: what there is of the file may be kept.  What
\* FinishScript returns is ignored.
Lost ==
    /\ pc = "receive" /\ Fault(FALSE)
    /\ Reset
    /\ wire' = <<>> /\ astray' = "no"
    /\ \/ /\ ~curr.script_end /\ ~curr.meta
          /\ partial' = partial \union {curr.id}
          /\ loaded' = loaded \union {<<curr.id, Content(curr.id)>>}
          /\ UNCHANGED nok
          /\ GoOffline
       \/ /\ ~curr.script_end
          /\ nok' = IF curr.meta THEN nok ELSE nok \union {curr.id}
          /\ UNCHANGED <<partial, loaded>>
          /\ GoOffline
       \/ /\ curr.script_end
          /\ UNCHANGED <<nok, partial, loaded>>
          /\ Goto("pop")
    /\ UNCHANGED <<backup, released, stranded, asked_diffs>>

\* ERR_HASH comes with a new connection.  A file that arrives damaged is asked for again;
\* when it has done so hash_retries times (here: counted as one fault) it is not loaded.
Corrupt ==
    /\ pc = "receive" /\ ~curr.script_end /\ ~curr.meta /\ Fault(astray # "no")
    /\ Reset
    /\ wire' = <<>> /\ astray' = "no"
    /\ \/ /\ pc' = "get"
          /\ UNCHANGED <<curr, is_offline, skipping, nok>>
       \/ /\ nok' = nok \union {curr.id}
          /\ IF curr.script THEN GoOffline ELSE Goto("pop")
    /\ UNCHANGED <<backup, partial, loaded, released, stranded, asked_diffs>>

\* After the output of a script its end is queued (queueScriptEnd): queue_size is not told.
QueueScriptEnd ==
    /\ pc = "script"
    /\ dl_queue' = InsertAt(dl_queue, EarliestPlace(dl_queue, FALSE), ScriptEnd(curr))
    /\ Goto("output")
    /\ UNCHANGED <<backup, queue_size, results, full_conn, asked_diffs, faults>>

\* What the script had to say (logScriptOutput): it may name a file of its archive,
\* which is queued at the very end, or be missing.
ScriptOutput ==
    /\ pc = "output"
    /\ \/ /\ curr.id <= Len(list) /\ LineOf(curr.id).archive
          /\ Push(Item(Member(curr.id)))
          /\ Goto("pop")
       \/ /\ Goto("pop")
          /\ UNCHANGED queue
       \/ /\ faults < MaxFaults
          /\ GoOffline
          /\ UNCHANGED queue
    /\ UNCHANGED <<backup, results, full_conn, asked_diffs, faults>>

\* FinishScript reads one byte, which is the answer to ID_SCRIPT_FINISH.  When the end was
\* asked for like a file, the rest of that answer stays on the connection, unless it has none.
ScriptFinished ==
    /\ pc = "receive" /\ curr.script_end
    /\ \E r \in {Head(wire)} :
          /\ Answer(r)
          /\ astray' \in IF r.end THEN {astray} ELSE {astray, "connection"}
    /\ Goto("pop")
    /\ UNCHANGED <<backup, queue, results, asked, asked_diffs, faults>>

-----------------------------------------------------------------------------
(* Differences: load_file_patch and FileClientChunked::GetFile *)

\* Not prepared yet: prepared now.  Without an old file the whole file is queued at
\* the front; an error takes the client for offline.
PatchPrepare ==
    /\ pc = "patch" /\ curr.prepared # "yes"
    /\ \/ /\ curr.prepared = "no" /\ Found(curr) = "none"
          /\ dl_queue' = InsertLate(dl_queue, [curr EXCEPT !.queued = FALSE])
          /\ queue_size' = (queue_size + QueueItemsFull) % Width
          /\ Goto("pop")
          /\ UNCHANGED stranded
       \/ /\ curr.prepared = "no" /\ Found(curr) = "yes"
          /\ curr' = [curr EXCEPT !.prepared = "yes"]
          /\ UNCHANGED <<queue, pc, is_offline, skipping, stranded>>
       \/ /\ curr.prepared = "error" \/ Found(curr) = "error"
          /\ stranded' = stranded \union {curr.id}
          /\ GoOffline
          /\ UNCHANGED queue
    /\ UNCHANGED <<backup, nok, partial, loaded, released, full_conn, asked_diffs, faults>>

\* The request at the front of queued_fcs is taken for this file.
Patch ==
    /\ pc = "patch" /\ curr.prepared = "yes"
    /\ asked_diffs' = IF asked_diffs = <<>> THEN <<>> ELSE Tail(asked_diffs)
    /\ Goto("difference")
    /\ UNCHANGED <<backup, queue, results, full_conn, faults>>

ResetPatch ==
    /\ asked_diffs' = <<>>
    /\ dl_queue' = ResetDiffs(dl_queue)
    /\ UNCHANGED queue_size

\* Of a difference that failed, what there is may be kept.
KeptOrNot ==
    \/ /\ partial' = partial \union {curr.id}
       /\ loaded' = loaded \union {<<curr.id, curr.id>>}
       /\ UNCHANGED nok
    \/ /\ nok' = nok \union {curr.id}
       /\ UNCHANGED <<partial, loaded>>

\* Further differences are asked for; if that fails the connection is made anew.
FillDiffs ==
    /\ pc = "difference" /\ Len(asked_diffs) < MaxQueued
    /\ LET prepared == DiffPrepared
           d == SelectInSeq(prepared[1], AskableDiff)
       IN /\ queue_size' = prepared[2]
          /\ \/ /\ d > 0
                /\ dl_queue' = [prepared[1] EXCEPT ![d].queued = TRUE]
                /\ asked_diffs' = Append(asked_diffs, prepared[1][d].id)
                /\ UNCHANGED faults
             \/ /\ d = 0
                /\ queue # prepared
                /\ dl_queue' = prepared[1]
                /\ UNCHANGED <<asked_diffs, faults>>
             \/ /\ d > 0 /\ faults < MaxFaults
                /\ faults' = faults + 1
                /\ dl_queue' = ResetDiffs(prepared[1])
                /\ asked_diffs' = <<>>
    /\ UNCHANGED <<backup, results, thread, full_conn>>

PatchReceived ==
    /\ pc = "difference"
    /\ loaded' = loaded \union {<<curr.id, curr.id>>}
    /\ Goto(IF curr.script THEN "script" ELSE "pop")
    /\ UNCHANGED <<backup, queue, nok, partial, released, stranded, full_conn, asked_diffs, faults>>

\* The client cannot open the file, or not read all of it; when a size was known
\* for it (remote_filesize) there is a new connection.
PatchRefused ==
    /\ pc = "difference" /\ faults < MaxFaults
    /\ faults' = faults + 1
    /\ ResetPatch \/ UNCHANGED <<asked_diffs, queue>>
    /\ KeptOrNot
    /\ IF curr.script THEN GoOffline ELSE Goto("pop")
    /\ UNCHANGED <<backup, released, stranded, full_conn>>

PatchReconnected ==
    /\ pc = "difference" /\ faults < MaxFaults
    /\ faults' = faults + 1
    /\ ResetPatch
    /\ UNCHANGED <<backup, results, thread, full_conn>>

PatchLost ==
    /\ pc = "difference" /\ faults < MaxFaults
    /\ faults' = faults + 1
    /\ ResetPatch
    /\ KeptOrNot
    /\ GoOffline
    /\ UNCHANGED <<backup, released, stranded, full_conn>>

\* ERR_HASH leaves the connection, and what was asked for on it, as they are.
PatchCorrupt ==
    /\ pc = "difference" /\ (DamageAhead \/ asked_diffs = <<>>)
    /\ faults < MaxFaults /\ faults' = faults + 1
    /\ \/ /\ pc' = "patch"
          /\ UNCHANGED <<curr, is_offline, skipping, nok, stranded>>
       \/ \* no temporary file can be made for the retry
          /\ stranded' = stranded \union {curr.id}
          /\ GoOffline
          /\ UNCHANGED nok
       \/ /\ nok' = nok \union {curr.id}
          /\ IF curr.script THEN GoOffline ELSE Goto("pop")
          /\ UNCHANGED stranded
    /\ UNCHANGED <<backup, queue, partial, loaded, released, full_conn, asked_diffs>>

-----------------------------------------------------------------------------
Backup == Look \/ Add \/ AdminStops \/ EndOfList \/ Wait
Take == TakeQuit \/ Quit \/ TakeSkip \/ TakeOffline \/ TakeStart \/ TakeStop \/ TakeFull \/ TakeDiff
Whole == Get \/ NoTempFile \/ FillBegin \/ Fill \/ FillEnd \/ Received \/ Refused \/ Reconnected \/ Lost
            \/ Corrupt \/ QueueScriptEnd \/ ScriptOutput \/ ScriptFinished
Difference == PatchPrepare \/ Patch \/ FillDiffs \/ PatchReceived \/ PatchRefused
            \/ PatchReconnected \/ PatchLost \/ PatchCorrupt

Done == step = "listed" /\ UNCHANGED vars

Next == Backup \/ Take \/ Whole \/ Difference \/ Asleep \/ Done

\* The backup and the thread keep running, and the client answers.  The thread
\* does not only ask for more files while answers are there to be read.
Fairness ==
    /\ WF_vars(Look \/ Add \/ EndOfList \/ Wait)
    /\ WF_vars(Take \/ Get \/ FillEnd \/ Fill \/ QueueScriptEnd \/ ScriptOutput \/ PatchPrepare \/ Patch)
    /\ SF_vars(Received \/ ScriptFinished)
    /\ WF_vars(PatchReceived)

Spec == Init /\ [][Next]_vars /\ Fairness

-----------------------------------------------------------------------------
(* Properties *)

\* What the variables hold.
TypeOK ==
    /\ list \in Lists /\ line \in 1..(Len(list) + 1)
    /\ step \in {"look", "add", "wait", "listed"}
    /\ r_offline \in BOOLEAN /\ skipped \subseteq DOMAIN list
    /\ queue_size \in 0..(Width - 1)
    /\ \A j \in DOMAIN dl_queue :
          /\ dl_queue[j].action \in {"file", "start", "stop", "quit", "skip"}
          /\ dl_queue[j].prepared \in {"no", "yes", "error"}
    /\ pc \in {"pop", "quit", "get", "receive", "fill", "script", "output", "patch", "difference", "done"}
    /\ nok \subseteq Ids /\ partial \subseteq Ids /\ loaded \subseteq Ids \X (Ids \union {Unknown})
    /\ astray \in {"no", "connection", "file"}

\* The requests the file client remembers are those of the queue, in its order, and no
\* whole file that was not asked for comes before one that was (FileClient.cpp asserts
\* queued.front().fn == remotefn).
InStep ==
    Online =>
        LET files == {j \in DOMAIN dl_queue : IsFull(dl_queue[j])}
            requested == {j \in files : dl_queue[j].queued}
            items == ItemsAt(dl_queue, requested)
        IN /\ \A i \in files, j \in requested : i < j => i \in requested
           /\ asked = (IF pc = "get" /\ asked # <<>> THEN <<Request(curr)>> ELSE <<>>)
                         \o [n \in DOMAIN items |-> Request(items[n])]

\* The same of the connection for differences (FileClientChunked.cpp asserts
\* next->remote_filename == remotefn).
DiffsInStep ==
    Online /\ pc = "patch" /\ curr.prepared # "error" /\ asked_diffs # <<>>
        => Head(asked_diffs) = curr.id

\* What is stored under a file's name is what the client sent for that file, although
\* answers carry no name and requests are repeated, withdrawn and reordered.  Only in a
\* list with scripts files are loaded of which nothing is known: those that are read after
\* a script end that was asked for like a file.
Scripted == \E i \in DOMAIN list : list[i].script
RightContent == \A p \in loaded : p[2] = p[1] \/ (p[2] = Unknown /\ Scripted)

\* A snapshot is given back only after the last file that is read from it, also for
\* files that were put back into the queue (postponeQuitStop).
SnapshotHeld ==
    \A j \in DOMAIN dl_queue :
        IsFull(dl_queue[j]) \/ IsDiff(dl_queue[j]) =>
            \/ dl_queue[j].script
            \/ LineOf(dl_queue[j].id).share \notin released

\* When the list is written every file in it was loaded or is marked as partial; only a
\* file for which no temporary file could be made may be missing.
Accounted ==
    step = "listed" => Listed \subseteq {p[1] : p \in loaded} \union partial \union stranded

\* The backup gets through its list and the thread through the queue, whatever fails,
\* unless queue_size has wrapped when a script's end left the queue empty: the backup then
\* sleeps for ever (ServerDownloadThread.cpp:105, 386-402, 1491-1501).
Overslept == dl_queue = <<>> /\ pc = "pop" /\ ~RoomLeft
Ends == <>(step = "listed") \/ <>[]Overslept

===============================================================================
