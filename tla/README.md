# Verification of the backup server

This directory holds TLA+ models of the server in `src/idrivebmrserver` (an image and file
backup server written in C++ on the framework in `src/*.cpp`), the TLC configurations that
check them on small instances, and proofs of the theorems that hold for every instance.
`PROJECT.json` lists the components, the runs with their properties, the mutants that show each
property can fail, the lines of source every definition stands for, the hazards and the theorems.

## 1. The system

The server keeps backups of clients on a file system. A file backup is a directory per backup; a
file that is the same as one already stored becomes a hard link to it, a directory that did not
change becomes a symbolic link into a pool. SQLite databases say what is there; an LMDB database
finds a file by its hash.

| component | state | operations | talks to |
|---|---|---|---|
| file entry index (`FileIndex`, `LMDBFileIndex`) | two buffers of pending changes, the LMDB map, its transaction and log | put, delete, look-ups, flush, writer thread, growth of the map, creation from the table | hash threads, backups, clean-up |
| table of file entries (`server_hash`, `ServerFilesDao`) | `files`: doubly linked lists of entries per client and content, flag `pointed_to`; `files_incoming_stat` | add, delete, search, removal of a backup's entries | index, clean-up, incremental backup |
| directory pool (`server_dir_links`) | pool directories, `directory_links`, `directory_link_journal`, links in backup folders | link a directory, remove a link, replay the journal | incremental backup, clean-up, start-up |
| clean-up (`server_cleanup`) | which backups exist, what to delete | delete a backup, remove unknown, make space | all storage components |
| incremental and full file backup | file lists of this and the last backup | compare, download, link, finish, resume | client, download and hash threads |
| client scheduling (`ClientMain`) | per client: due times, queue of backups, back-off | start, finish, count simultaneous backups | discovery, channels, status |
| discovery (`server.cpp`), channels | the clients, their threads | appear, vanish, ask for a backup | scheduling |
| internet clients (`InternetServiceConnector`) | connectors, spare connections per client | log in, ping, hand over a connection, time out | discovery, everything that talks to a client |
| download and hash threads (`ServerDownloadThread`) | queue of files, requests made ahead | download, prepare, hash, link | file client, table of entries |
| image backup, writer, virtual disks | pool of buffers, block caches | write, flush | client, clean-up |
| image mounting (`ImageMount`) | locks and users of images, mounts under way, the time of the last use | mount, join a mount, use, unmount | web interface, mount helper, thread pool |
| file server of the client, file client, patcher | chunk requests in flight, sessions, reconnects | request, send, reconnect, patch | download threads |
| framework: threads, pipes, databases, locks | queues, tickets, mutexes | execute, wait, read, write, lock | everything |

### What is hard, and what would make each part correct

* **Index.** Readers search two buffers under a mutex and the database after it, while a writer
  moves entries from the one to the other; flush is one flag shared by all callers; LMDB syncs no
  metadata, so a crash of the machine may undo a commit; a full map makes the transaction start
  again from a log. Correct: a look-up returns an entry that was current during the call; a flush
  keeps its promise and returns; the map on disk is always one that was there as a whole.
* **Table of entries.** Entries leave doubly linked lists in any order, together with the one the
  index names, while a cursor reads the same rows; links fail; files vanish while being linked.
  Correct: the lists are well-formed, the index names a flagged entry of its list and every entry
  of a list is reachable from it, a client is charged once per copy, nothing is stored twice.
* **Directory pool.** Rows are committed, a directory moved, two links made, in four steps over
  two databases and a file system; the process may die between any two; a shared directory may
  contain shared directories, so that several paths lead to one place. Correct: a finished backup
  keeps all its content until it is deleted itself; every link is counted; what is no longer
  referenced can be reclaimed.
* **Scheduling, discovery, channels.** Threads per client with shared maps, requests that time out,
  connections handed over. Correct: never more simultaneous backups than allowed, no backup of a
  client beside another, no lost connection, every request answered or timed out.
* **Transfers.** Files and chunks requested ahead on a connection whose answers carry no name, a queue
  that is reordered meanwhile, reconnects, cancellations. Correct: an answer is stored for the file
  it belongs to, every file of the list is loaded or known to be missing, the patched file is the
  file of the client.
* **Internet clients.** A worker and a caller share a connector that the one destroys. Correct: the
  list of spare connections has those that can be taken, nobody uses what is gone, a pipe has one
  owner, calls return and connections end.
* **Image mounting.** Requests with a limit of time leave mounts behind, which others join or wait for,
  while a thread unmounts what is old by a list it read before. Correct: what is used is mounted and
  left alone, what is mounted is recorded across crashes and goes in the end.
* **Framework.** Condition variables, recursive and shared mutexes, tickets. Correct: no lost
  wake-up, no deadlock between the lock of a database and the mutexes of the components.

## 2. The modules

| module | what it is |
|---|---|
| `IndexStore` | what the file entry index promises: a map that is read and written at once, of which a picture reaches the disk as a whole, and which a crash takes back to a picture |
| `FileIndex` | `FileIndex.cpp` with the look-ups of `LMDBFileIndex.cpp`; refines `IndexStore` |
| `LMDBTxn` | what a commit of `FileIndex` is made of: the write transaction of `LMDBFileIndex.cpp`, its log, the growth of the map and the shared lock of the environment |
| `DirPool` | `server_dir_links.cpp` with the parts of the incremental backup, the clean-up and the recovery that use it |
| `FileEntries` | the table of file entries: `addFileSQL`, `deleteFileSQL`, `findFileHash`, `findFileAndLink`, `removeFileBackupSql`, `addFileEntrySQLWithExisting`, and the creation of the index |
| `DownloadQueue` | `ServerDownloadThread.cpp` with the requests that `FileClient` and `FileClientChunked` make ahead, and what the incremental backup puts into the queue |
| `InternetConnections` | `InternetServiceConnector.cpp` and what `CServiceWorker` does with a connector |
| `ImageMount` | `ImageMount.cpp` with the tickets of `ThreadPool.cpp` and the mount helper |
| `FileIndexProofs`, `LMDBTxnProofs`, `FileEntriesProofs`, `DownloadQueueProofs`, `InternetConnectionsProofs`, `ImageMountProofs` | the theorems about the module of that name |
| `DirPoolProofs`, `DirPoolKept` | the theorems about `DirPool`: lemmas about places and tables, and the inductive invariant; what follows from it |
| `MC...` | values for the constants of the runs |

`FileIndex` and `LMDBTxn` describe one component at two depths: `FileIndex` takes a commit for one
step that succeeds, and `LMDBTxn` shows when it does (`WholeBatches`, and how it fails).
`FileEntries` uses the index as the map `IndexStore` says it is, with a look-up by neighbour that
may overlook another client's entry, as `Neighbour` of `FileIndex` does.

Operators whose comment begins with `slip:` are not part of a model. Each is a variant of the
operator after it with a mistake a programmer could have made; `PROJECT.json` says which property
it breaks.

### How state and actions correspond to the code

**`FileIndex`.** `active_cache_buffer` and `other_cache_buffer` are what the two pointers of that
name point to; `lmdb` is the committed database and `older` the one before its last commit;
`do_flush` and `do_accept` are the flags. `wpc` is the position of `FileIndex::operator()`: `top`
and `wait` at the mutex, `write` from the exchange of the pointers to the commit, `clear` before it
empties the buffer. A call of a thread is one action for each piece of code between two of its
synchronisations: `PutCall`, `Put`; `GetMissesCache`, `ReadDatabase` (the same with
`GetAllCaches`); `FlushCall`, `FlushReturn`. `seen` and `owed` are history variables: they record
what a look-up may return and a flush has to have written, and no guard reads them.

**`LMDBTxn`.** `db` and `pages` are the file; `env` the size of the open map, which all
objects share, and `map_size` the member of the writer's object; `txn` the transaction of LMDB with what it would
write (`map`), the pages it has made dirty and whether LMDB refuses it (`bad`);
`transaction_log`, `has_error` and `locked` are the members of those names; `waiting` those who ask
for the exclusive side of `mdb_env_lock`, which keeps new shared holders out
(`SharedMutex_lin.cpp`, `PTHREAD_RWLOCK_PREFER_WRITER_NONRECURSIVE_NP`). The writer is at `top`
between two batches; `change` makes the puts and deletions and the commit; `grow`, `replay`,
`recommit` are what follows a full map; `fresh` is the new transaction after an error; `stuck` is a
wait in `mdb_txn_begin` for a transaction of its own thread. `want` and `failed` are history.
Abstractions: a batch has one change per key and the log is a function (the code logs a deletion
that is repeated twice, the second finds nothing); a transaction needs a page for each stored entry
and for each change, the commit one more, so that a page is the least that can be missing. A
failure of `create_env` while growing is the end of the process (`GrowFails`): the code would go on
with an exclusive lock held and no environment.

**`DirPool`.** `top`, `sub` and `pool` are the file system: what is at the directory `d` of each
backup, at the directory `s` in each real `d`, and the pool directories. `links` is the table
`directory_links`, `tx` the same table as an open transaction sees it, `journal` the table
`directory_link_journal` of the other database. `job` is the operation that holds the client's
`dir_link_mutex`, with the step it has reached; each statement, rename or link is one step.
`Crash` may come between any two. `Restart` is `runServerRecovery`, `ReplayFirst` and
`RemoveUnknown` are the maintenance command. `doomed` and `stale` are history. `setting` never
changes: it says whether the process may die or backups are deleted by hand, and which are made.

**`FileEntries`.** `rows` is the table `files` as a function from the ids in use; `index` the file
entry index seen through its buffers; `charged` what `files_incoming_stat` adds up to; `job` a file
that is being added, with the state of `findFileHash` (1 to 4); `removal` the transaction of
`removeFileBackupSql`: the rows its cursor has to deliver, their range, `fix` the corrections held
back (`SInMemCorrection`), and `before` the rows as they were when it began. Whether the cursor
delivers a row as it was or as it is now is open (SQLite leaves it undefined). `setting` never
changes: whether the table comes from an older version, whether hard links fail, whether the index
is deleted and made anew, and how many entries there may be.

**`DownloadQueue`.** `list` is the file list of the client, `line` and `step` where the incremental
backup is in it (`look` at a line, `add` it to the queue, `wait` for the thread, `listed` when the
new list is written); `r_offline` and `skipped` are its variables. `dl_queue` and `queue_size` are
those of the thread, the latter modulo `Width`, as it is unsigned. `pc` and `curr` are the thread:
`pop` at the front of the queue, `get` to `receive` in `FileClient::GetFile`, `fill` in the callback
by which the file client asks for the next names (`getQueuedFileFull`, which prepares differences on the way),
`patch` and `difference` in `FileClientChunked::GetFile`, `script` and `output` in the download of
what a script writes. There are two connections: `asked` is `FileClient::queued`, `wire` what the client
has been asked and has not answered, `asked_diffs` is `queued_fcs`. An answer is that of the first request on the
wire, whoever takes it: `loaded` pairs the file with the one whose content was taken for it.
`Reconnected`, `Lost`, `Refused`, `Corrupt` and their twins for differences are the faults. `ScriptFinished`
reads one byte: where that is the beginning of the answer for a file (section 4), `astray` says that what is read on this
connection from then on is not an answer to what was asked, and the content taken is `Unknown`; a
new connection puts it right, but for a file whose part was read before (`"file"`).
`Asleep` is `sleepQueue`, whose loop ends only when `queue_size` is low enough.
`loaded`, `stranded` and `released` are history; `nok` and `partial` are
`download_nok_ids` and `download_partial_ids`.

**`InternetConnections`.** `conn` is the connector of each connection, a record of its members; the
state `listed` is the part of `ISS_CAPA` after the connector was put into the list, `leaving` that of a
connector whose `Run` has returned false, `gone` that of a destroyed one. `pipes`, `socket` and
`done_cond` say whether the things of that name exist, which belong to the connector, to the caller
and to the caller's stack in turn. `spares`, `entry` and `endpoint` are `client_data`; the code takes
the newest spare connection, the model any. `call` is a caller of `getConnection`: `look` for a
connection, `connect` it, `wait` with a limit, `take` the pipe, `free` the connector, `again` without
one, `have` the pipe. A worker's step is one of `Run` or `ReceivePackets`, for one of the connections it has
(`WorkerOf`; the code visits one after the other, which is one of the orders). `reading` is the connection
on which a worker has read a part of a frame and waits for the rest, as it does without a limit of time once the
client is logged in: until that comes or the connection ends it does nothing for any of its connections
(`Stuck`, `PartOfFrame`, `RestOfFrame`, `FrameLost`).

**`ImageMount`.** `mounttime` is the column of the image: `zero`, `new` or `old`, which is older than
an hour; `dir` the mountpoint: `gone`, `made` or `mounted`. `locked_images`, `mounted_images` and
`mount_processes` are the maps of those names. `running` is `ThreadPool::running` with, for each
ticket, its thread (`at`, the position in `MountImageThread`) and the one condition that is
remembered for it. `call` is a request: `get_mount_path` from `lock` to `found`, then `using`, with
`counted` between `incrImageMounted` and `decrImageMounted`; `patient` is a call without a limit of time.
`MountOver` is a helper that cannot unmount what is there, which it ignores. `round` is `operator()`: `list` the
old images, `unmount` each, then `reap` the mounts nobody has waited for. `left` is history: images
the helper failed to unmount.

## 3. The runs

| run | module | question | states |
|---|---|---|---|
| `index_threads` | `FileIndex` | Do look-ups return entries that were current during the call, does the one by neighbouring key prefer the client's own, and does flush keep its promise, with two threads, the writer and crashes? | 1.3 million |
| `index_live` | `FileIndex` | Does the look-up by neighbouring key stay within the content asked for, with entries of two others beside it? Does every flush return and every entry leave memory, and is the whole a crash-consistent map? | 92 000 |
| `lmdb_grow` | `LMDBTxn` | Is every batch committed as a whole, is a full map never an error, and does everybody go on, with LMDB failing anywhere? | 0.2 million |
| `lmdb_created` | `LMDBTxn` | violation: `OneTransaction`, after the index was created by the same process | |
| `pool` | `DirPool` | Do finished backups keep their content, and is no link or pool directory uncounted, with crashes between any two steps, or with any of four backups deleted at any time? | 0.9 million |
| `pool_parents` | `DirPool` | violation: `ParentsExist`, after a crash | |
| `entries_table` | `FileEntries` | Are the lists whole, reached by the index, charged once and searched to the end, on an upgraded server, on one whose links fail, and on one whose index is made anew? | 1.2 million |
| `entries_rebuild` | `FileEntries` | violation: `Linked`, when the index is made anew | |
| `dl_queue` | `DownloadQueue` | Are answers stored for the file they belong to, are snapshots held, is every file accounted for, and does the backup end, with one fault anywhere? | 0.5 million |
| `dl_damaged` | `DownloadQueue` | violation: `DiffsInStep`, when a difference arrives damaged | |
| `conns` | `InternetConnections` | Are the lists exact, is nothing used that was destroyed, has every pipe one owner, do calls return, and do connections end unless a client is silent in the middle of a frame? | 0.1 million |
| `mounts` | `ImageMount` | Is what is used mounted and left alone, what is mounted recorded, do requests return, and are unused images unmounted? | 0.2 million |

The fine print of single properties:

* `FlushWritesOwed` says what flush does, which is less than a caller may think: a flush raised while
  the writer is committing ends with that commit (`FileIndex.cpp:115-119`) and owes only its batch.
* `RefinesStore` lets a crash undo the last commit, since the server opens LMDB with
  `MDB_NOMETASYNC`. After the index was created in the same process the environment is open with
  `MDB_NOSYNC` and the promise is weaker; that is not a part of the model.
* The types of `LMDBTxn` are proved and in no run of their own.
* `RoomAfterGrowth` is the arithmetic behind "tried only once more": the map is doubled from what it
  was, hence one page larger at least.
* `Intact` leaves out the moment in which a directory is between its place and the pool.
* `LinksExact` and `ParentsVisible` are about a table no crash has touched since the last
  `remove_unknown`; `pool_parents` shows that the latter needs it. A backup whose deletion a crash cut
  short may keep a link whose directory is gone, and `remove_unknown` counts it
  (`server_dir_links.cpp:500`): `LinksExact` says that of no other backup.
* `StayLinked`, `IndexFlagged`, `Charged` and `OneList` leave out the server whose index is made anew:
  `entries_rebuild` shows what happens there. `OneFlag` and `SearchExhausted` survive it.
* `OneList` says that a list leads from its first entry to all others without counting steps: of
  the entries, every part that has the first one and not all has an entry whose next is outside.
* `OneFlag` does not hold when links fail: `addFileSQL` (`server_hash.cpp:363-364`) takes the flag
  from an earlier entry only where there is one to follow, so the entry that starts a second list
  leaves the first with its flag. `IndexFlagged` and `Charged` hold nevertheless.
* `Charged` is checked from a table that is not upgraded: after an upgrade `files_incoming_stat` is
  created anew and empty (`dllmain.cpp:1776`).
* `Accounted` lets a file be missing from all lists when no temporary file could be made for it
  (`stranded`): the thread takes that for a client that is offline and puts the file into none
  (`ServerDownloadThread.cpp:495`).
* `RightContent` says nothing of what is read from a connection that a script end asked for ahead has put
  out of step; such a file is loaded as `Unknown`, and only in a list with a script.
* `Ends` allows the endless sleep described in section 4 (`Overslept`).
* `ConnectionsEnd` allows a worker that waits for ever for the rest of a frame; `CallsReturn` of
  `InternetConnections` does not, as callers wait with a limit.
* `CallsReturn` of `ImageMount` starts where a request without a limit has the lock of its image, and
  both its liveness properties allow the lost wake-up described in section 4. `InUseLeftAlone` allows an
  empty directory after a crash, for the reason given there.

### Bounds, and why they are enough

* `FileIndex`: two threads and a writer give every order of a put, a look-up and a flush; buffers of
  two entries are both empty, part and full; two clients of one content are what the neighbour search
  tells apart from its own and what a look-up of all clients collects. In `index_live` there are three contents in a
  row, where the first and the last may have entries and the one between has none: a key without entry then has a
  neighbour before it, behind it, or on both sides, in each buffer and in the database. One run has several
  clients, the other several contents; that both together do no harm is proved (`PreferKeeps`).
* `LMDBTxn`: two keys give batches of one and two changes over a database of zero to two entries. A
  map of one page grows once or twice; growth happens at the first change, at the second, and at the
  commit. The map never has more than eight pages. Two readers can wait for the writer and it for
  them.
* `DirPool`: a tree of two levels has all the code distinguishes: a shared directory, one inside it
  that is a directory or a link, and one inside a directory of the backup's own. Three backups are
  needed for two of them to share what a third one links; four let a reference survive two
  deletions. With crashes there are three, with deletions by hand four. Each name of the pool is used
  once (the code makes them from random bytes), so there are as many as links can be made.
* `FileEntries`: one content is enough for what belongs to one list (entries of other contents are
  never reached, `Read` compares), three backups of two clients give the search of other clients,
  and five entries a list with a head, two inner entries, an end and one being added. Where links fail
  or the index is made anew there are four: two lists of two.
* `DownloadQueue`: two files in one share and one in another have a file that is asked for ahead, one
  that is prepared meanwhile and one behind the end of a snapshot; the file kinds are all combinations
  of whole files, metadata and differences with and without an old file; in further lists preparing one or
  two differences fails while others are asked for; two more have a script whose end comes into the queue
  while a file is read and there is room to ask for it. `MaxQueueSize` 8 is less than a
  list may weigh, so that the backup waits; `MaxQueued` 2 and `QueuedLow` 1 are the least with which the thread
  asks ahead and stops asking. One fault, or a stop by the administrator, at any moment.
* `InternetConnections`: two connections of one client and two callers are a connection taken while
  another breaks and two callers for one connection. Nothing of the code relates two clients but the worker:
  both connections have the same one, so that either may hold up the other.
* `ImageMount`: two requests for one image and the unmounting thread are three who may wait for one
  mount; a third ticket is never needed, since an image has one mount at a time and two are known at
  most. One crash ends every operation once at every point.

### Fairness

`index_live` assumes that the writer thread of the index is scheduled (`WF_vars(Writer)`). Its waits
have a time limit (`max_wait_time`), so that every step of it is enabled until it is taken. Nothing
is assumed of the threads that call the index, nor that the process stays up: a crash ends the
calls. `lmdb_grow` assumes the same of the steps of the writer and of each reader inside a call; a
batch or a call need not come. Weak fairness suffices although a lock has to be free: once somebody
asks for the exclusive lock no shared one is given, holders give theirs back, and the objects whose
constructors take the exclusive lock are constructed once per thread, so that they cannot keep the
writer out for ever. The two properties of that run are stated for a writer without error
(`[]~has_error => ...`); after one the writer may stop, which the run `lmdb_created` shows.

`dl_queue` assumes that the backup and the thread run and that the client answers, or the connection
breaks. The answer is strongly fair: the thread may ask for one more file before it reads what has
come, but the files that it can ask for come to an end (`maxQueuedFiles`), and it does not only ask.
`conns` assumes that each worker runs and that callers go on. A worker that is not waiting for the
rest of a frame looks at every connection at least every 10 ms, and at each one before it reads again
from any (`CServiceWorker::work`). Reading disables the steps of its connections, again and again if frames come in
parts; between two of them the worker has visited every connection, hence `SF_vars(Worker(c))` and not `WF`.
`GiveUp` is strongly fair, since it stands for the time that passes while a caller tries one
connection after the other. Nothing is asked of a client: it may be silent for ever, also in the middle of a frame,
and then no fairness moves its worker, whose steps are disabled for good. `mounts`
assumes that the threads run, the helper ends, and time passes; `UsesProcesses`, the steps for which
`mount_processes_mutex` has to be free, is strongly fair: the unmounting thread is the one that takes
that mutex again and again, with 60 seconds between two rounds. A request need not come, and what is
done with the image may last for ever.

### Where deadlock is not checked

In `LMDBTxn` a writer stops after an error, or the process is gone; in `ImageMount` a lost wake-up may
stop everything. The other runs check for deadlock; where all work is done (`AllGone`, `Done`) the
modules have a step that changes nothing.

## 4. What the runs found

1. **A writer that waits for itself** (`lmdb_created`, `LMDBFileIndex.cpp:446`). The object that
   creates the index lets the map grow and leaves the environment open; the writer's object is
   constructed after it with the initial size. The first time the map is full for the writer it
   doubles its own size up to what the file needs, which is the size the map had; the commit is
   tried once more and fails, `_has_error` is set for good and the batch is lost. The next commit
   that fails returns with a transaction open, and the writer's next `mdb_txn_begin` waits for it.
2. **The rebuild of the index damages lists** (`entries_rebuild`, `LMDBFileIndex.cpp:140`). A head
   of a list that is newer than its successor becomes that one's previous entry a second time. The
   maintenance command `defrag_database` leads there from a healthy database;
   `check_files_index.cpp:139` reports the result as wrong.
3. **An assertion that a crash invalidates** (`pool_parents`, `server_dir_links.cpp:85`). Recovery
   renames the folder of an unfinished backup and leaves its references, so that a path that
   `reference_parents` asserts to exist does not. Without assertions the reference is one too many,
   which `remove_unknown` takes away.
4. **A retry that takes another file's request** (`dl_damaged`, `FileClientChunked.cpp:1273`). When a
   difference fails its checksum, `GetFile` returns without a new connection, while the requests made
   ahead are still in `queued_fcs`. The retry takes the first of these for its own, which
   `FileClientChunked.cpp:153` asserts not to happen; without assertions it goes on with the patch and
   the hash files of the next file. The run `dl_queue` leaves that fault out (`DamageAhead`), and there the
   requests stay in step.

The models also show what contradicts no line of the repository, and is therefore no finding:

* *A half-deleted backup that the next one is linked to.* The row of a file backup goes last
  (`server_cleanup.cpp:2702`), so that a deletion which a crash cuts short leaves it `done` with some of
  its directories gone. When it is the newest, which only a deletion by hand takes, the next incremental
  backup shares what the deletion had begun to remove. The proof of `Intact` fails in exactly this
  case, and TLC shows it on a server that may crash and where backups are deleted by hand; the runs
  have one or the other (`Careful` in `DirPoolKept`).

* *A wake-up that is lost* (`ThreadPool.cpp:251`). `waitFor` remembers one condition for a ticket. When
  two wait for the same mount, the second replaces the first. A request with a limit of time wakes up by
  itself; one without sleeps for ever with the lock of its image; the unmounting thread sleeps for ever
  with `mount_processes_mutex`, so that all later mounts hang. `WakeUpLost` is that situation, and the
  only one in which `CallsReturn` and `UnusedUnmounted` of `ImageMount` fail.
* *The end of a script is asked for like a file* (`FileClient.cpp:1485`). When the end of a script is in the
  queue while a file is loaded, `fillQueue` sends the command that gets a file. `FinishScript` reads one byte of
  the answer (`:1976`), and the next `GetFile` reads the rest as its own answer. `InStep` is not broken by it: the
  requests are those of the queue, but the answer is not read as one. It takes, for instance, a whole file, a
  difference with an old file, one without, and then a script.
* *A silent client keeps the connections of others* (`InternetServiceConnector.cpp:251`). A connector whose client
  does not answer in time is freed by the worker. That reads without a limit of time
  (`InternetServicePipe2.cpp:140-172`, `CompressedPipe2.cpp:375-395`): a client that sends a part of a frame and
  nothing more keeps it there, and with it the connectors of all connections that worker has.
* After a crash in the middle of a mount the directory of the mount may be there and empty;
  `get_mount_path` takes it for the mount, since the image is recorded as mounted.
* An image that the helper failed to unmount is recorded as unmounted and not tried again.
* `queueScriptEnd` puts an item into the queue without adding its weight to `queue_size`, and the
  thread subtracts it (`ServerDownloadThread.cpp:402` and `:105`). In an otherwise empty queue the
  unsigned number wraps to its maximum. `sleepQueue` (`:1491-1501`), which the backup calls before every line, also
  before the one that ends the directory of the scripts (`IncrFileBackup.cpp:646-688`), then never sees room, and
  since nothing but the backup fills the queue then, the backup sleeps for ever (`Overslept`); that the
  administrator stops it does not end the sleep. `Ends` holds but for that.

## 5. What is proved

The theorems hold for every value of the constants that satisfies the assumption of the module: in
`FileIndex` any sets of threads, contents, clients and ids and any size of the buffers; in `LMDBTxn`
any finite set of keys, any readers, and whether LMDB fails or not; in `DirPool` any backups, any pool
directories, and any settings; in `InternetConnections` any connections, callers and clients; in
`ImageMount` any images and tickets, any finite set of callers and any number of crashes; in
`DownloadQueue` any lists of any length that are as the client sends them (`ListAssumption`), any limits and
any number of faults; in
`FileEntries` any contents, clients and backups, any number of entries, and any settings.

`FileIndexProofs`:

* `TypeCorrect` is inductive as it stands.
* `BuffersConsistent` proves the invariant `BufferInv`: unless the writer is in the middle of a batch
  the other buffer is empty, and after the commit each of its entries is that of the database. It is
  what makes the exchange of the buffers, the commit and the clearing invisible to `View`, hence the
  core of `ImplementsStore`: under the map `View`, `lmdb`, `older` every step is a step of
  `IndexStore` or changes nothing of it.
* `LookupsCovered` proves `LookupInv`: as long as a look-up has yet to take an entry from the
  database, what the buffers and the database hold for it is among the values seen. The database
  alone would not be inductive, for the next commit brings into it what the buffer holds now.
  `ExactReads` and `AllReads` follow.
* `FlushesCovered` proves `FlushInv`: while a flush is waiting, what it owes is in the active buffer
  of a writer that has not begun or in the batch, with the flag still up, or it is in the database.
  `FlushWrites` follows for the step in which it returns.
* `EntriesPlaced` proves `PlacedInv`: an entry in a buffer or in the database is of the content it is filed under.
  With it, and lemmas on what the neighbour search returns in each of its cases, `PreferKeeps` shows
  that a look-up by neighbour returns an entry of the content asked for, and the client's own one
  where the active buffer has it, or nothing is buffered and the database has it.

`LMDBTxnProofs`: `LogAgrees` proves `BatchInv`, the data types together with `Sound` as long as
there is no error: the transaction is the database with the log on top; what is wanted is that with
the rest of the batch on top; between batches both are empty. The log alone is not enough for
induction: after a full map the transaction is gone and the log has to be what it had. `BatchesWhole`
follows. `RoomInductive` proves `RoomInv`, which adds the sizes: the file fits into the open map; what the writer
takes the map's size to be is right, unless the environment was open before it (`Sizes`); the
transaction has as many dirty pages as its log needs, since a batch changes a key once, and the map has room for them
(`Fits`). Growing doubles the map until it holds the file, so that after it there is room for one page more, which
is what the repeated change or commit may need. Powers of two are not in the reach of the arithmetic
solver: `PowerIs` and `PowerNext` get what is needed of them from the number of subsets of a set, and `MapForIs`
what the loop of `create_env` ends with. `TypeCorrect` follows (that the pages of a transaction
stay within the map rests on the sizes), and `GrowthMakesRoom`: `RoomAfterGrowth` for a
writer that opened the environment itself. For the other, whom the run `lmdb_created` has, it
does not hold (section 4).

`DirPoolProofs`, `DirPoolKept`: `Inductive` proves the invariant `IInv`. None of the checked properties
is inductive: between the steps of an operation the directory is in the pool and its link not yet there, the
row is in a transaction and not in the table, and a crash leaves it so. What is true at every moment is
that the places *as the replay of the journal would leave them* (`seenTop`, `seenSub`) agree with the
table *as the open transaction will leave it*; `Consistent` says this of both as parameters: each link that is
seen has a row, each row the link it names or a path that leads nowhere, a pool directory is shared under one name only, and a
link inside a shared directory is counted for every path that leads to it. The rest of `IInv` says for
each operation which of its rows are in, which links are made, and what the journal still tells
(`LinkJob`, `PoolJob`, `UndoJob`, `RemoveJob`, `RemoveTx`, `Journal`), in which order backups were made (`Ages`),
and what a crash may leave behind (`Exact`). `DirPoolProofs` has first the lemmas about `Consistent` without a step in
sight, then one lemma for each group of actions and each part. From it follow
`LinksAlwaysCounted`, `AgreeingRowsAlways`, `PoolsAlwaysReferenced` and `ParentsAlwaysVisible`. `KeptInductive` adds
what keeps content (`Kept`): a finished backup that nobody deletes has everything; a running one has what it
has linked by now; what is being deleted is older than the backup that is shared from; a row names a directory that is
there. `SharingInvisible` (`Intact`) and `ExactTable` (`LinksExact`) follow, under the hypothesis
`Careful` that section 4 explains. `TypeCorrect` is the type invariant.

`InternetConnectionsProofs`: the invariant `IInv` has four parts. `Ordered` says of a connector alone
which of its flags are up together in which states; `Holds` relates a caller at each of its steps to
the connector it has; `LeftBehind` says how the last caller has left a connector that nobody holds,
which is what makes it the worker's to destroy; and the lists are exact. No part is inductive without
the others: that a connector is not destroyed under a caller follows from its flags only because a
caller sets `free_connection` as its last step. `TypeCorrect`, `SparesAlwaysExact`,
`NothingEverUsedAfterDestroy` and `AlwaysHandedOver` follow.

`ImageMountProofs`: `InUseAlwaysLeftAlone` needs that an image which is in use, or in the list of the
unmounting thread, or old, is settled: it is in no one's mount and no request is about to start one
(`Rests`). That is inductive with: a lock has one holder (`Locks`); `mounted_images` is the number of
callers that are counted (`Counts`, `Users`); a thread that runs is the one its image has in
`mount_processes` (`Processes`); who was woken, or has replaced another, waits for what it thinks
(`Notified`, `Awake`). `MountsAlwaysRecorded` needs besides that a thread inside the helper, or behind
it, has recorded its mount (`Records`). `TypeCorrect` includes that no count falls below zero.

`FileEntriesProofs`: `ListsInOrder` proves `ListInv` for every server on which `defrag_database` does
not delete the index. `AlwaysLinked` and `AlwaysFlagged` (`StayLinked`, `IndexFlagged`) follow for the
moments at which no removal is under way. Three things make it inductive. A list never runs in a circle
(`Lists`): of two entries that name each other on both sides a deletion would leave one that names
itself, though every link was answered before; it is stated over sets of entries (each has one whose
next is outside), since a chain of any length is out of reach. While a removal goes on, the
lists are those of the rows that live as the corrections held back will make them (`Good`, `Field`),
and a row in the range of the cursor is still what it was when the cursor was opened (`IsRemoval`), so
that it does not matter what SQLite shows of it. And the row a new file is to follow is as it was read
(`IsJob`). The making of the index is proved apart (`RebuildIs`): before it each row names its
neighbour in the order of the rebuild, or nothing.

`ListsCharged` proves `EntriesInv`, which adds what whole lists are counted by. Lists that do not run in
a circle begin and end (`Begins`, `Reaches`), so that they can be counted by their first entries
(`Heads`): an entry that leaves takes a first one with it only when it has no neighbour, and one
that comes adds one only when it follows none (`HeadsLeft`, `HeadsEntered`). `Counted` relates the
charges to that number, one less for a list that is older than the upgrade. Where links do not
fail, a key has one list, its index names an entry as long as there is one, and no other entry
has the flag (`Single`). That needs the search: an entry that follows nothing may be added only if
there is no entry of its key, and at the end of a search this is known because the search has passed
no entry by (`Searched`): the entry it holds is the first or the last of what is left on the
side it comes from, and stays so when it is found missing and deleted. The search in turn needs
`Single`: a list that the index did not name would not be found. `AlwaysCharged`, `AlwaysOneList`,
`AlwaysOneFlag`, `SearchComplete` and `AlwaysTyped` follow. The last three say
nothing of a server whose index is made anew, where only the runs check them.

`DownloadQueueProofs`: `QueueInStep` proves the invariant `Inv`. What is asked of the client is told by
places of the queue: `FullsAsked(q, s)` says that the items of `q` marked `queued`, listed from the front to
the back (`Enumerates`), are those of the requests `s`; `DiffsAsked` says it of differences. Such a list
needs no recursion over the queue: it grows at its end when a request is sent, loses its first place when the item is
taken, and is carried along by an operation that moves items (`Became`: where each item goes, which order
is kept, what is new). For each operation on the queue a lemma says so: an item at the end, the end of a script
behind the requests (`PutScriptEnd`), a difference that comes back as a whole file with the ends of snapshots moved
behind it (`PutLate`, `Postponed`), the difference that is prepared, however many it takes
(`PreparedOK`, `DiffPreparedOK`: each round leaves one less), marks that are set and withdrawn. What they keep
(`QueueOK`) is that nothing that was not asked for comes before what was, and that the end of a snapshot
comes after everything that is read from it (`StopsLast`). On top of it come the requests remembered (`FullsMatch`),
the answers to come, which are for the file being read and then for those remembered (`WireMatches`), the same of
differences (`DiffsMatch`), the snapshots given back, which are of shares whose end was queued
(`SharesEnded`), and where the file of each line is (`NoFileLost`). None is inductive
alone: that the answer read belongs to the file being read follows from the requests remembered, these from
the marks, and these from the order of the queue. The file that was just taken is the exception in `FullsMatch` and
`DiffsMatch`: its mark is gone from the queue and its request still at the front. While the thread is offline
nothing is asked for, and the invariant says nothing of requests. Nor does `RightContent` say anything, but that
there is a script, of what is read from a connection that a script end has put out of step (`astray`): the requests
stay in step there all the same. `RequestsInStep`,
`DifferencesInStep` (for `DamageAhead` FALSE; section 4 has the other case), `AnswersRight`, `SnapshotsHeld` and
`AllAccounted` follow.

Only model-checked: the liveness properties, as fairness is beyond the prover; in `FileEntries`
`TypeOK`, `OneFlag` and `SearchExhausted` on a server whose index `defrag_database` has deleted, where
the lists may be broken (section 4).

## 6. Assumptions, and what is not modelled

* **Index.** The iteration for the statistics (`get_next_entries_iteration`) is left out, and the
  order in which threads start (`FileIndex.cpp:47` creates the mutex in the writer thread). `FileIndex` takes
  a commit to succeed. What the code does after an error of LMDB is in `LMDBTxn` up to the wait of the
  writer for itself; that the rest of a failed batch is committed without its beginning
  (`LMDBFileIndex.cpp:266`) is not pursued. The end of the writer thread (`do_shutdown`) is left out:
  only `LMDBFileIndex::shutdownFileIndex` asks for it, which nothing calls.
* **Directory pool.** One client; two levels. Where the code offers a call with and without a
  transaction of its own, the steps are those without (`with_transaction` false in
  `link_directory_pool`). A crash is one of the process: operations on the file system that were
  done stay done. A rename back that fails is left out, and so is a rename at start that fails
  (`server.cpp:1168-1171`): the clean-up then deletes an unfinished backup at its place, which together with a crash
  is what deletion by hand together with a crash is (section 4). What start-up checks of
  finished backups (`server.cpp:1108-1125`) finds nothing to delete: the folder is there, and the mark that it
  was synced is written before the backup is done (`FullFileBackup.cpp:885`). The parallel tree of hash files
  (`.hashes`) goes through the same operations beside the backup's and is a second, independent
  instance. `remove_unknown` runs with the server stopped and is one step. In the runs, and in the
  theorems on `Intact` and `LinksExact`, backups are not deleted by hand where crashes are (section 4).
  `remove_directory_link` inside the transaction of a failed hash link
  (`IncrFileBackup.cpp:792`) is left out.
* **File entries.** Contents are large enough to be linked. Operations on the table exclude each
  other, but for a removal of entries that makes room while a file is about to be stored. The
  rebuild visits entries in the order of ids, which is that of their creation times where these
  differ. Ids are given out as SQLite does, the largest plus one. A crash within the rebuild is the
  one after the tables were exchanged (`create_files_index.cpp:206`), which repeats it.
* **Download queue.** A directory at the top of a list is left after the files in it, once, and only
  scripts have archives (`ListAssumption`; the client sends lists so). The hash retries of a whole file count as one fault. The files in a script's archive
  have ids of their own (the code gives all of them the same). Scripts are the last lines of the list,
  as the client sends them. What the hash threads do with a file, the stream of metadata and
  the hashes loaded from the client are left out.
* **Internet connections.** Before a client is logged in, frames are read as they come. The client encrypts, and
  its tokens, keys and compression are accepted or
  the attempt is one that failed. A server that shuts down is left out. `entry` is dropped at any time while
  there is no spare connection, which stands for its age.
* **Image mounting.** Requests come after the first round has read its list. A mount, a round, and the
  steps of a request beside its waits take less than the hour after which an image is old. The helper is
  that for VHD images: it unmounts what is mounted first. What becomes of a helper whose server ended is
  decided at the crash. `mount_image`, which nothing calls, and the deletion of images by the clean-up are
  left out; the latter tests `isImageLockedFromCleanup` before it deletes, and a request may come in
  between. A thread that outlives its request keeps a reference to the request's `errmsg`
  (`ImageMount.cpp:392`); strings are not modelled.
* **Not modelled**: the parts listed so under "components" of `PROJECT.json`, with the reason.
  Many are planned (below). Out of scope are the web interface, the
  Windows-only parts, vendored code (SQLite, LMDB, zlib, cryptography, which are most of the lines of
  the repository), and code that only calls the operating system.

## 7. Plan

Done: 1. `FileIndex` with `IndexStore` and its proofs; 2. `DirPool` and its proofs; 3. `FileEntries`;
4. `LMDBTxn` and its proofs; 5. `DownloadQueue` and its proofs; 6. `InternetConnections` and its proof;
7. `ImageMount` and its proof; 8. the lists of `FileEntries`, with their charges and the search, proved.

Next, in this order:

9. *Crash protocol of the index*: `create_files_index` and the marks it leaves, composed with
   `FileIndex` and `FileEntries` (an index ahead of the table, ids given out again).
10. *Concurrent hash threads and clean-up on the table*: the row read before the write transaction,
    the locks of `Database.cpp` and `dir_link_mutex`, in one order or the other.
11. *Client scheduling and discovery*: `ClientMain` (queue, back-off, simultaneous backups),
    `BackupServer` (clients appear and vanish), `server_channel` (requests that time out),
    `server_status`. Abstract specification: the limit on simultaneous backups.
12. *Transfer of one file*: the chunks of `FileClientChunked` and the `ChunkPatcher`; abstract
    specification: the patched file is the file of the client.
13. *Image backup*: `server_writer` with `bufmgr`, `CompressedFile` with `LRUMemCache`, block
    allocation of the virtual disk files; abstract specification: the disk image.
14. *Framework*: the threads of `ThreadPool`, `MemoryPipe`, `StreamPipe`, `PipeThrottler`,
    `SharedMutex`, `Database`, `ServiceWorker`, `SelectThread`, `SessionMgr`, `WalCheckpointThread`;
    abstract specification: a queue.
15. *Clean-up*: the choice of backups to delete; `treediff`; `copy_storage`.

New runs replace or take in older ones where they ask the same question, so that the whole
project stays quick to check.
