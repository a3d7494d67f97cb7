----------------------------- MODULE FileEntries -----------------------------
(***************************************************************************)
(* The table of file entries.  The entries of one content and one client   *)
(* form a doubly linked list; the file entry index names one entry of the  *)
(* list, which carries the flag pointed_to; files_incoming_stat is told    *)
(* when a client gets a content and when it has lost the last of it.       *)
(*                                                                         *)
(* Contents are those large enough to be linked (link_file_min_size).      *)
(* Operations on the table exclude each other here.                        *)
(***************************************************************************)
EXTENDS Integers, FiniteSets

CONSTANTS Contents,      \* pairs of a hash and a size
          Client,        \* the client of each backup
          MaxEntries,    \* bound on the entries that exist together
          Settings       \* what may happen to a server, see SettingType

\* An upgrade from a version whose table had no lists, hard links that fail, the maintenance
\* command that deletes the index; and how many entries may exist together.
SettingType == [upgrade : BOOLEAN, links_fail : BOOLEAN, defrag : BOOLEAN, room : 1..MaxEntries]

ASSUME EntriesAssumption ==
    /\ Settings \subseteq SettingType
    /\ DOMAIN Client \subseteq Nat \ {0}
    /\ \A b \in DOMAIN Client : Client[b] \in Nat \ {0}
    /\ MaxEntries \in Nat \ {0}

VARIABLES rows,     \* the table: a function from the ids in use
          index,    \* the file entry index, as seen through its buffers; 0: nothing
          charged,  \* files_incoming_stat: gains less losses, by client and content
          status,   \* of each backup
          job,      \* the file being added
          removal,  \* the backup whose entries are being removed
          setting   \* of this server; never changes

vars == <<rows, index, charged, status, job, removal, setting>>

Backups == DOMAIN Client
Clients == {Client[b] : b \in Backups}
Keys == Clients \X Contents

Ids == 1..MaxEntries
Fields == {"prev", "next", "pointed_to"}

\* SInMemCorrection, from <<field, id>> to the value held back: nothing yet
NoFix == [x \in {} |-> 0]

NoJob == [step |-> "none"]
NoIndex == [step |-> "rebuild"]
NoRemoval == [backup |-> 0, todo |-> {}, range |-> {}, fix |-> NoFix, before |-> NoFix]

NewInit ==
    /\ rows = [i \in {} |-> 0]
    /\ status = [b \in Backups |-> "unused"]
    /\ job = NoJob

\* After an upgrade all links are 0 and the index is missing.
UpgradeInit ==
    /\ \E n \in 0..setting.room, done \in SUBSET Backups :
          /\ rows \in [1..n -> [backup : done, content : Contents,
                               prev : {0}, next : {0}, pointed_to : {0}]]
          /\ \A i, j \in 1..n : i < j => rows[i].backup <= rows[j].backup
          /\ status = [b \in Backups |-> IF b \in done THEN "done" ELSE "unused"]
    /\ job = NoIndex

Init ==
    /\ setting \in Settings
    /\ IF setting.upgrade THEN UpgradeInit ELSE NewInit
    /\ index = [k \in Keys |-> 0]
    /\ charged = [k \in Keys |-> 0]
    /\ removal = NoRemoval

TypeOK ==
    /\ DOMAIN rows \subseteq Ids
    /\ \A i \in DOMAIN rows :
          rows[i] \in [backup : Backups, content : Contents,
                       prev : Ids \cup {0}, next : Ids \cup {0}, pointed_to : 0..1]
    /\ index \in [Keys -> Ids \cup {0}]
    /\ charged \in [Keys -> (-MaxEntries)..MaxEntries]
    /\ status \in [Backups -> {"unused", "running", "done", "doomed", "gone"}]
    /\ job.step \in {"none", "find", "link", "store", "rebuild"}
    /\ removal.backup \in Backups \cup {0}
    /\ removal.fix = NoFix \/ DOMAIN removal.fix \subseteq Fields \X Ids

-------------------------------------------------------------------------------
Key(i) == <<Client[rows[i].backup], rows[i].content>>
Entries(k) == {i \in DOMAIN rows : Key(i) = k}

\* the largest of some ids, 0 if there is none
Largest(ids) == IF ids = {} THEN 0 ELSE CHOOSE i \in ids : \A j \in ids : j <= i

\* SQLite gives out the largest id in use plus one.
NewId == Largest(DOMAIN rows) + 1

\* the function f with a value at x, new or in place of the old one
With(f, x, value) == [y \in DOMAIN f \cup {x} |-> IF y = x THEN value ELSE f[y]]

\* An UPDATE of a row that is not there changes nothing.
Set(table, i, field, value) ==
    IF i \in DOMAIN table THEN [table EXCEPT ![i][field] = value] ELSE table

\* get_all_clients_with_cache
ClientsWith(c) == {l \in Clients : index[<<l, c>>] # 0}

\* get_with_cache_prefer_client: the neighbour of another client may be overlooked
PreferClient(k) ==
    IF index[k] # 0 THEN {index[k]}
    ELSE {0} \cup {index[<<l, k[2]>>] : l \in ClientsWith(k[2])}

-------------------------------------------------------------------------------
(***************************************************************************)
(* addFileSQL: the new entry follows the entry prev of client owner, whose *)
(* next entry the caller has read; 0 and 0 when there is none to follow.   *)
(***************************************************************************)
\* What follows prev when the file is new for the client, by what its index says
OwnEntry(k, owner) == IF owner = 0 THEN 0 ELSE index[k]

\* slip: the flag stays at the entry the index no longer names
UnflagNothing(k, prev) == rows

\* The flag is taken from the entry that had it.
Unflag(k, prev) ==
    IF prev = 0 THEN rows
    ELSE IF prev \in DOMAIN rows /\ rows[prev].pointed_to = 1 THEN Set(rows, prev, "pointed_to", 0)
    ELSE Set(rows, index[k], "pointed_to", 0)

\* addFileEntryExternal
\* slip: the entry behind the new one still names the old one before it
InsertForward(table, i, row) == Set(With(table, i, row), row.prev, "next", i)

Insert(table, i, row) ==
    Set(Set(With(table, i, row), row.prev, "next", i), row.next, "prev", i)

AddEntry(b, c, prev, owner, next, update) ==
    LET k == <<Client[b], c>>
        new == owner # Client[b] \/ prev = 0
        own == IF new THEN OwnEntry(k, owner) ELSE prev
        p == IF new /\ own \notin DOMAIN rows THEN 0 ELSE own
        n == IF ~new THEN next ELSE IF p = 0 THEN 0 ELSE rows[p].next
        flagged == update \/ (new /\ p # 0 /\ rows[p].pointed_to = 1)
        i == NewId
    IN  /\ rows' = Insert(IF flagged THEN Unflag(k, p) ELSE rows, i,
                          [backup |-> b, content |-> c, prev |-> p, next |-> n,
                           pointed_to |-> IF new \/ flagged THEN 1 ELSE 0])
        /\ index' = IF new \/ flagged THEN [index EXCEPT ![k] = i] ELSE index
        /\ charged' = IF new /\ own = 0 THEN [charged EXCEPT ![k] = @ + 1] ELSE charged

-------------------------------------------------------------------------------
(***************************************************************************)
(* deleteFileSQL: the entry e, as its reader saw it, leaves its list.  Of  *)
(* the entries in range the changes are held back in fix.                  *)
(***************************************************************************)
Store(db, range, i, field, value) ==
    IF i \in range THEN [db EXCEPT !.fix = With(@, <<field, i>>, value)]
    ELSE [db EXCEPT !.rows = Set(@, i, field, value)]

\* The last entry goes: the client has lost the content.
LastEntry(db, e) ==
    [db EXCEPT !.charged[e.key] = @ - 1,
               !.index[e.key] = IF /\ e.pointed_to = 1
                                   /\ \E l \in Clients : db.index[<<l, e.key[2]>>] # 0
                                   /\ @ \in {0, e.id}
                                THEN 0 ELSE @]

\* slip: an entry in range gets the flag in the table, from where nobody reads it again
PassFlagInTable(db, e, range) ==
    LET heir == IF e.next \notin {0, e.id} THEN e.next ELSE e.prev
    IN  [Store(db, {}, heir, "pointed_to", 1) EXCEPT !.index[e.key] = heir]

\* The entry of the index goes: the index and the flag pass to a neighbour.
PassFlag(db, e, range) ==
    LET heir == IF e.next \notin {0, e.id} THEN e.next ELSE e.prev
    IN  IF heir = e.id THEN db
        ELSE [Store(db, range, heir, "pointed_to", 1) EXCEPT !.index[e.key] = heir]

\* slip: the neighbours are linked in the table while it is being read
UnlinkInTable(db, e, range) ==
    LET before == IF e.next = 0 THEN db ELSE Store(db, {}, e.next, "prev", e.prev)
    IN  IF e.prev = 0 THEN before ELSE Store(before, {}, e.prev, "next", e.next)

Unlink(db, e, range) ==
    LET before == IF e.next = 0 THEN db ELSE Store(db, range, e.next, "prev", e.prev)
    IN  IF e.prev = 0 THEN before ELSE Store(before, range, e.prev, "next", e.next)

\* slip: the end of the list is taken for the last entry
DeleteTail(db, e, range) ==
    Unlink(IF e.next = 0 THEN LastEntry(db, e)
           ELSE IF e.pointed_to = 1 THEN PassFlag(db, e, range)
           ELSE db,
           e, range)

DeleteEntry(db, e, range) ==
    Unlink(IF e.prev = 0 /\ e.next = 0 THEN LastEntry(db, e)
           ELSE IF e.pointed_to = 1 THEN PassFlag(db, e, range)
           ELSE db,
           e, range)

Database == [rows |-> rows, index |-> index, charged |-> charged, fix |-> removal.fix]

Drop(table, ids) == [i \in DOMAIN table \ ids |-> table[i]]

-------------------------------------------------------------------------------
(***************************************************************************)
(* Adding a file: findFileAndLink looks for a file with the content and    *)
(* links to it; what it finds missing it deletes from the table.           *)
(***************************************************************************)
NothingSeen == [id |-> 0, prev |-> 0, next |-> 0]

\* "hash": addFile of the hash thread; "local": link_file, with a hash from the client
StartAdd(b, c, way) ==
    /\ job = NoJob
    /\ removal = NoRemoval
    /\ status[b] = "running"
    /\ NewId <= setting.room
    /\ job' = [step |-> "find", backup |-> b, content |-> c, way |-> way, state |-> 0,
               seen |-> NothingSeen, orig |-> 0, others |-> {}, tried |-> FALSE]
    /\ UNCHANGED <<rows, index, charged, status, removal>>

\* The entry looked up is read; one of another content is not used.
Read(i, state, orig, others) ==
    IF i \in DOMAIN rows /\ rows[i].content = job.content
    THEN job' = [job EXCEPT !.step = "link", !.state = state, !.others = others,
                            !.seen = [id |-> i, prev |-> rows[i].prev, next |-> rows[i].next],
                            !.orig = IF orig THEN rows[i].prev ELSE @,
                            !.tried = TRUE]
    ELSE job' = [job EXCEPT !.step = "store", !.state = state]

FindFirst ==
    /\ job.step = "find" /\ job.state = 0
    /\ \E i \in PreferClient(<<Client[job.backup], job.content>>) : Read(i, 1, TRUE, {})
    /\ UNCHANGED <<rows, index, charged, status, removal>>

\* Along the list: forward from the first entry found, then backward from it.
FindInList ==
    /\ job.step = "find"
    /\ \/ job.state \in {1, 3} /\ job.seen.next # 0 /\ Read(job.seen.next, job.state, FALSE, job.others)
       \/ /\ job.state \in {1, 3} /\ job.seen.next = 0 /\ job.orig # 0
          /\ Read(job.orig, job.state + 1, FALSE, job.others)
       \/ job.state \in {2, 4} /\ job.seen.prev # 0 /\ Read(job.seen.prev, job.state, FALSE, job.others)
    /\ UNCHANGED <<rows, index, charged, status, removal>>

\* slip: of the first list only what follows the first entry is looked at
ListDoneForward ==
    \/ job.state \in {1, 3} /\ job.seen.next = 0
    \/ job.state \in {2, 4} /\ job.seen.prev = 0

ListDone ==
    \/ job.state \in {1, 3} /\ job.seen.next = 0 /\ job.orig = 0
    \/ job.state \in {2, 4} /\ job.seen.prev = 0

\* switch_to_all_clients: from here on one client after the other
FindOtherClients ==
    LET all == ClientsWith(job.content)
        first == CHOOSE l \in all : \A m \in all : l <= m
    IN  /\ job.step = "find" /\ job.state \in {1, 2} /\ ListDone
        /\ IF all = {} THEN Read(0, 3, FALSE, {})
           ELSE Read(index[<<first, job.content>>], 3, TRUE,
                     {<<l, index[<<l, job.content>>]>> : l \in all \ {first}})
        /\ UNCHANGED <<rows, index, charged, status, removal>>

FindNextClient ==
    /\ job.step = "find" /\ job.state \in {3, 4} /\ ListDone
    /\ IF job.others = {} THEN Read(0, job.state, FALSE, {})
       ELSE LET o == CHOOSE o \in job.others : \A q \in job.others : o[1] <= q[1]
            IN  Read(o[2], job.state, FALSE, job.others \ {o})
    /\ UNCHANGED <<rows, index, charged, status, removal>>

Found == rows[job.seen.id]
Add(update) ==
    /\ AddEntry(job.backup, job.content, job.seen.id, Client[Found.backup], job.seen.next, update)
    /\ job' = NoJob
    /\ UNCHANGED <<status, removal>>

\* A file of a backup that is being deleted is there, or it is not.
LinkFile == job.step = "link" /\ Add(FALSE)

FileMissing ==
    /\ job.step = "link"
    /\ status[Found.backup] = "doomed"
    /\ LET e == [id |-> job.seen.id, key |-> Key(job.seen.id), prev |-> job.seen.prev,
                 next |-> job.seen.next, pointed_to |-> Found.pointed_to]
           db == DeleteEntry(Database, e, {})
       IN  /\ rows' = Drop(db.rows, {e.id})
           /\ index' = db.index
           /\ charged' = db.charged
    /\ job' = [job EXCEPT !.step = "find"]
    /\ UNCHANGED <<status, removal>>

\* The link cannot be made: link_file copies the file instead, addFile stores its own.
CopyFile == job.step = "link" /\ job.way = "local" /\ Add(TRUE)

LinkRefused ==
    /\ setting.links_fail
    /\ job.step = "link"
    /\ job' = [job EXCEPT !.step = "store"]
    /\ UNCHANGED <<rows, index, charged, status, removal>>

\* Without space, or when the file cannot be written, there is no entry for it.
StoreFile ==
    /\ job.step = "store"
    /\ removal = NoRemoval
    /\ \/ job.way = "hash" /\ AddEntry(job.backup, job.content, 0, 0, 0, job.tried)
       \/ UNCHANGED <<rows, index, charged>>
    /\ job' = NoJob
    /\ UNCHANGED <<status, removal>>

\* addFileEntrySQLWithExisting: an entry for a file taken over from the last backup
AddExisting(b, c) ==
    LET k == <<Client[b], c>>
    IN  /\ job = NoJob
        /\ removal = NoRemoval
        /\ status[b] = "running"
        /\ NewId <= setting.room
        /\ \E a \in Backups : a < b /\ Client[a] = Client[b]
        /\ \E i \in PreferClient(k) :
              IF i \in DOMAIN rows
              THEN AddEntry(b, c, i, Client[rows[i].backup], rows[i].next, index[k] = 0)
              ELSE AddEntry(b, c, 0, 0, 0, TRUE)
        /\ UNCHANGED <<status, job, removal>>

-------------------------------------------------------------------------------
(***************************************************************************)
(* Backups come and go.  removeFileBackupSql reads the entries of a backup *)
(* in the order of their ids, in one transaction; it may run when a file   *)
(* is about to be stored, to make room for it.                             *)
(***************************************************************************)
StartBackup(b) ==
    /\ job # NoIndex
    /\ status[b] = "unused"
    /\ \A a \in Backups : a < b => status[a] # "unused"
    /\ status' = [status EXCEPT ![b] = "running"]
    /\ UNCHANGED <<rows, index, charged, job, removal>>

FinishBackup(b) ==
    /\ status[b] = "running"
    /\ job # NoJob => job.backup # b
    /\ status' = [status EXCEPT ![b] = "done"]
    /\ UNCHANGED <<rows, index, charged, job, removal>>

DeleteFolder(b) ==
    /\ job # NoIndex
    /\ status[b] = "done"
    /\ status' = [status EXCEPT ![b] = "doomed"]
    /\ UNCHANGED <<rows, index, charged, job, removal>>

EntriesOf(b) == {i \in DOMAIN rows : rows[i].backup = b}

BeginRemove(b) ==
    LET ids == EntriesOf(b)
    IN  /\ removal = NoRemoval
        /\ job.step \in {"none", "store"}
        /\ status[b] = "doomed"
        /\ removal' = [backup |-> b, todo |-> ids, fix |-> NoFix, before |-> rows,
                       range |-> {i \in Ids : (\E j \in ids : j <= i) /\ (\E j \in ids : i <= j)}]
        /\ UNCHANGED <<rows, index, charged, status, job>>

\* A field of a row that was read from the table, with the changes held back for it
Corrected(table, i, field) ==
    IF <<field, i>> \in DOMAIN removal.fix THEN removal.fix[<<field, i>>] ELSE table[i][field]

\* Whether the cursor shows what was written to the table since it was opened is open.
RemoveEntry ==
    /\ removal.todo # {}
    /\ \E table \in {removal.before, rows} :
       LET i == CHOOSE i \in removal.todo : \A j \in removal.todo : i <= j
           e == [id |-> i, key |-> Key(i), prev |-> Corrected(table, i, "prev"),
                 next |-> Corrected(table, i, "next"),
                 pointed_to |-> Corrected(table, i, "pointed_to")]
           db == DeleteEntry([Database EXCEPT !.fix = Drop(@, Fields \X {i})], e, removal.range)
       IN  /\ rows' = db.rows
           /\ index' = db.index
           /\ charged' = db.charged
           /\ removal' = [removal EXCEPT !.todo = @ \ {i}, !.fix = db.fix]
    /\ UNCHANGED <<status, job>>

EndRemove ==
    LET b == removal.backup
    IN  /\ b # 0 /\ removal.todo = {}
        /\ rows' = [i \in DOMAIN rows \ EntriesOf(b) |->
                      [field \in DOMAIN rows[i] |->
                          IF field \in Fields THEN Corrected(rows, i, field) ELSE rows[i][field]]]
        /\ removal' = NoRemoval
        /\ status' = [status EXCEPT ![b] = "gone"]
        /\ UNCHANGED <<index, charged, job>>

(***************************************************************************)
(* With the server stopped, defrag_database deletes the index.  At the     *)
(* next start create makes it anew from the table: the entries of each key *)
(* from the newest to the oldest, linked to one another where they were    *)
(* not linked before.  (Entries of one second may come in another order.)  *)
(***************************************************************************)
Defrag ==
    /\ setting.defrag
    /\ job = NoJob /\ removal = NoRemoval
    /\ \A b \in Backups : status[b] # "running"
    /\ index' = [k \in Keys |-> 0]
    /\ job' = NoIndex
    /\ UNCHANGED <<rows, charged, status, removal>>

\* the row that follows i in the order of the rebuild, and the one before it
Older(i) == Largest({j \in Entries(Key(i)) : j < i})
Newer(i) == Largest({j \in Entries(Key(i)) : Older(j) = i})

\* slip: rows are linked to the older one only
RebuildBackward ==
    [i \in DOMAIN rows |->
        [rows[i] EXCEPT !.prev = IF @ = 0 THEN Older(i) ELSE @,
                        !.pointed_to = IF Newer(i) = 0 THEN 1 ELSE 0]]

Rebuilt ==
    [i \in DOMAIN rows |->
        [rows[i] EXCEPT !.prev = IF @ = 0 THEN Older(i) ELSE @,
                        !.next = IF /\ @ = 0 /\ Newer(i) # 0
                                    /\ rows[Newer(i)].prev \in {0, i}
                                 THEN Newer(i) ELSE @,
                        !.pointed_to = IF Newer(i) = 0 THEN 1 ELSE 0]]

\* A crash before the mark creating_file_entry_index goes makes the next start do it again.
Rebuild ==
    /\ job = NoIndex
    /\ rows' = Rebuilt
    /\ index' = [k \in Keys |-> Largest(Entries(k))]
    /\ job' \in {NoJob, NoIndex}
    /\ UNCHANGED <<charged, status, removal>>

Step ==
    \/ \E b \in Backups :
          \/ StartBackup(b) \/ FinishBackup(b) \/ DeleteFolder(b) \/ BeginRemove(b)
          \/ \E c \in Contents :
                StartAdd(b, c, "hash") \/ StartAdd(b, c, "local") \/ AddExisting(b, c)
    \/ FindFirst \/ FindInList \/ FindOtherClients \/ FindNextClient
    \/ LinkFile \/ FileMissing \/ CopyFile \/ LinkRefused \/ StoreFile
    \/ RemoveEntry \/ EndRemove
    \/ Defrag \/ Rebuild

\* Every backup has been made and deleted.
AllGone == (\A b \in Backups : status[b] = "gone") /\ UNCHANGED vars

Next == (Step /\ UNCHANGED setting) \/ AllGone

Spec == Init /\ [][Next]_vars

-------------------------------------------------------------------------------
Quiet == removal = NoRemoval /\ job # NoIndex

(***************************************************************************)
(* The lists are doubly linked: a neighbour exists, belongs to the same    *)
(* content and client, and names the entry back.                           *)
(***************************************************************************)
Linked ==
    Quiet => \A i \in DOMAIN rows :
        /\ LET n == rows[i].next IN n # 0 => n \in Entries(Key(i)) \ {i} /\ rows[n].prev = i
        /\ LET p == rows[i].prev IN p # 0 => p \in Entries(Key(i)) \ {i} /\ rows[p].next = i

(***************************************************************************)
(* They stay so unless an index is created anew for them: whatever is      *)
(* added, linked elsewhere, taken over, found missing and removed, in      *)
(* whatever order (addFileSQL, deleteFileSQL, removeFileBackupSql).        *)
(***************************************************************************)
StayLinked == ~setting.defrag => Linked

(***************************************************************************)
(* The index, until it is created anew, names an entry of its content and  *)
(* client that carries the flag, so that deleting the entry moves or       *)
(* deletes what names it (server_hash.cpp:508, 517).                       *)
(***************************************************************************)
IndexFlagged ==
    Quiet /\ ~setting.defrag => \A k \in Keys :
        index[k] # 0 => index[k] \in Entries(k) /\ rows[index[k]].pointed_to = 1

(***************************************************************************)
(* A client is charged once for every list it has, that is for every copy  *)
(* of a content: what files_incoming_stat adds up to (addFileSQL,          *)
(* deleteFileSQL).                                                         *)
(***************************************************************************)
Charged ==
    Quiet /\ ~setting.upgrade /\ ~setting.defrag =>
        \A k \in Keys : charged[k] = Cardinality({i \in Entries(k) : rows[i].prev = 0})

(***************************************************************************)
(* Unless links fail, all entries of a content and client are one list,    *)
(* whose first entry leads to all others: from any part that has it there  *)
(* is a next entry outside.  The index names one as long as there is one,  *)
(* until an index is created anew for lists that are in order.             *)
(***************************************************************************)
OneList ==
    Quiet /\ ~setting.links_fail /\ ~setting.defrag => \A k \in Keys :
        Entries(k) # {} =>
            /\ index[k] # 0
            /\ \E i \in Entries(k) :
                  /\ rows[i].prev = 0
                  /\ \A S \in SUBSET Entries(k) : i \in S /\ S # Entries(k) =>
                        \E j \in S : rows[j].next \in Entries(k) \ S

(***************************************************************************)
(* Unless links fail, a file is stored once more only for a client that    *)
(* has none with its content: every entry of the client's list has been    *)
(* tried (findFileHash, server_hash.cpp:1078-1151).                        *)
(***************************************************************************)
SearchExhausted ==
    job.step = "store" /\ ~setting.links_fail => Entries(<<Client[job.backup], job.content>>) = {}

(***************************************************************************)
(* What the comment in addFileSQL says (server_hash.cpp:363): a file added *)
(* behind no other is new for the client, no entry has a flag to take      *)
(* away.  Where links fail there may be one for every list.                *)
(***************************************************************************)
OneFlag ==
    Quiet /\ ~setting.links_fail => \A k \in Keys :
        Cardinality({i \in Entries(k) : rows[i].pointed_to = 1}) <= 1
===============================================================================
