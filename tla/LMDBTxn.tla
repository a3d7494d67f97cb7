------------------------------- MODULE LMDBTxn -------------------------------
(***************************************************************************)
(* How the writer thread of the file entry index brings a batch into LMDB. *)
(* The memory map has a fixed size.  When a change or a commit does not    *)
(* fit, the transaction is thrown away, the environment is closed, opened  *)
(* again with a map of twice the size, the transaction repeated from a     *)
(* log in memory, and the change or commit tried again.  Threads that look *)
(* something up hold a shared lock while they read; the environment is     *)
(* closed, and every LMDBFileIndex constructed, under the exclusive one.   *)
(* A thread that waits for the exclusive lock keeps new readers out        *)
(* (PTHREAD_RWLOCK_PREFER_WRITER_NONRECURSIVE_NP, SharedMutex_lin.cpp:34). *)
(***************************************************************************)
EXTENDS Naturals, FiniteSets, Functions

CONSTANTS Keys,        \* keys of the index; a batch is written in their order
          EntryIds,    \* values of the index
          Readers,     \* threads with an LMDBFileIndex of their own
          Writer,      \* the writer thread
          CreatedHere, \* this process created the index and has opened the environment for it
          MayFail      \* LMDB may also fail for lack of disk space or memory

ASSUME ConstantsAssumption ==
    /\ Keys \subseteq Nat /\ IsFiniteSet(Keys)
    /\ EntryIds \subseteq Nat \ {0}
    /\ Writer \notin Readers
    /\ CreatedHere \in BOOLEAN /\ MayFail \in BOOLEAN

VARIABLES db,              \* the committed database, 0: no entry
          pages,           \* the size of its file
          env,             \* the size of the open map
          map_size,        \* what the writer's LMDBFileIndex takes it to be
          txn,             \* the writer's transaction
          transaction_log, \* the changes of the transaction; a batch has one for a key
          has_error,       \* _has_error of the writer's LMDBFileIndex, never reset
          wpc, retry,      \* where the writer is, and where it goes when it has a new transaction
          todo,            \* the changes of the batch it has yet to make
          locked,          \* its read_transaction_lock
          waiting,         \* who waits for the exclusive lock
          rpc,             \* where each reader is
          want,            \* history: the database with every batch taken so far
          failed           \* history: LMDB has failed for lack of disk space or memory

dataVars == <<db, pages>>
envVars == <<env, map_size>>
lockVars == <<locked, waiting>>
batchVars == <<todo, want>>
vars == <<dataVars, envVars, txn, transaction_log, has_error, wpc, retry, batchVars,
          lockVars, rpc, failed>>

Map == [Keys -> EntryIds \cup {0}]
Changes == UNION {[ks -> EntryIds \cup {0}] : ks \in SUBSET Keys}
NoChanges == [k \in {} |-> 0]

Stored(m) == {k \in Keys : m[k] # 0}

NoTxn == [open |-> FALSE, map |-> [k \in Keys |-> 0], dirty |-> 0, bad |-> FALSE]
NewTxn == [open |-> TRUE, map |-> db, dirty |-> 0, bad |-> FALSE]

TypeOK ==
    /\ db \in Map /\ want \in Map
    /\ {pages, env, map_size} \subseteq Nat
    /\ txn.open \in BOOLEAN /\ txn.bad \in BOOLEAN
    /\ txn.map \in Map /\ txn.dirty \in 0..env
    /\ transaction_log \in Changes
    /\ has_error \in BOOLEAN /\ failed \in BOOLEAN /\ locked \in BOOLEAN
    /\ wpc \in {"top", "start", "change", "grow", "replay", "recommit", "fresh", "stuck", "gone"}
    /\ retry \in {"top", "change", "recommit"}
    /\ wpc \in {"change", "recommit"} => txn.open /\ locked
    /\ todo \in Changes
    /\ waiting \subseteq Readers \cup {Writer}
    /\ rpc \in [Readers -> {"new", "constructing", "ready", "called", "reading"}]

(***************************************************************************)
(* Copy on write: a transaction needs a page for everything that is stored *)
(* and for every change it makes, a deletion of what is not there          *)
(* excepted (MDB_NOTFOUND); the commit needs one more for the list of free *)
(* pages.                                                                  *)
(***************************************************************************)
Over(b, m) == [k \in Keys |-> IF k \in DOMAIN b THEN b[k] ELSE m[k]]

Dirty(b) == Cardinality({k \in DOMAIN b : b[k] # 0 \/ db[k] # 0})
Needed(n) == Cardinality(Stored(db)) + n
CommitFits == txn.dirty = 0 \/ Needed(txn.dirty + 1) <= env

\* slip: the log is left aside
ReplayedNothing == NewTxn

\* replay_transaction_log in a new transaction, which a change that fails leaves unusable
Replayed ==
    [open |-> TRUE, map |-> Over(transaction_log, db), dirty |-> Dirty(transaction_log),
     bad |-> Needed(Dirty(transaction_log)) > env]

(***************************************************************************)
(* create_env: the map is doubled until it holds the file.                 *)
(***************************************************************************)
MapFor(size) ==
    CHOOSE s \in {size * 2^i : i \in 0..pages} :
        /\ s >= pages
        /\ \A i \in 0..pages : size * 2^i >= pages => s <= size * 2^i

c_initial_map_size == 1

Init ==
    /\ db \in Map
    /\ pages = Cardinality(Stored(db)) + 1
    /\ env = MapFor(c_initial_map_size)
    \* an environment that is open already keeps its size, and the writer's own size its first value
    /\ map_size = IF CreatedHere THEN c_initial_map_size ELSE env
    /\ txn = NoTxn
    /\ transaction_log = NoChanges
    /\ has_error = FALSE /\ failed = FALSE
    /\ wpc = "top" /\ retry = "top"
    /\ todo = NoChanges
    /\ locked = FALSE /\ waiting = {}
    /\ rpc = [r \in Readers |-> "new"]
    /\ want = db

-------------------------------------------------------------------------------
(***************************************************************************)
(* Readers.  The constructor of an LMDBFileIndex takes the exclusive lock; *)
(* a look-up holds the shared one.                                         *)
(***************************************************************************)
Free == ~locked /\ \A r \in Readers : rpc[r] # "reading"

ReaderStep(r, from, to) == rpc[r] = from /\ rpc' = [rpc EXCEPT ![r] = to]

writerVars == <<dataVars, envVars, txn, transaction_log, has_error, wpc, retry, batchVars,
                locked, failed>>

Construct(r) ==
    /\ ReaderStep(r, "new", "constructing")
    /\ waiting' = waiting \cup {r}
    /\ UNCHANGED writerVars

\* slip: the exclusive lock is kept
ConstructedLocked(r) ==
    /\ ReaderStep(r, "constructing", "ready")
    /\ Free
    /\ UNCHANGED <<waiting, writerVars>>

Constructed(r) ==
    /\ ReaderStep(r, "constructing", "ready")
    /\ Free
    /\ waiting' = waiting \ {r}
    /\ UNCHANGED writerVars

Call(r) == ReaderStep(r, "ready", "called") /\ UNCHANGED <<waiting, writerVars>>

Read(r) ==
    /\ ReaderStep(r, "called", "reading")
    /\ waiting = {}
    /\ UNCHANGED <<waiting, writerVars>>

Return(r) == ReaderStep(r, "reading", "ready") /\ UNCHANGED <<waiting, writerVars>>

ReaderNext(r) == Constructed(r) \/ Read(r) \/ Return(r)

-------------------------------------------------------------------------------
(***************************************************************************)
(* The writer: one batch after the other.                                  *)
(***************************************************************************)
WriterAt(from, to) == wpc = from /\ wpc' = to

Take ==
    /\ WriterAt("top", "start")
    /\ \E b \in Changes \ {NoChanges} :
          /\ todo' = b
          /\ want' = Over(b, want)
    /\ UNCHANGED <<dataVars, envVars, txn, transaction_log, has_error, retry, lockVars, rpc, failed>>

\* begin_txn: the new shared lock is taken before an old one is given back
Begin(t) ==
    /\ waiting = {}
    /\ locked' = TRUE
    /\ txn' = t

\* start_transaction; LMDB lets a thread wait for its own unfinished transaction
Start ==
    /\ wpc = "start"
    /\ IF txn.open
       THEN Begin(txn) /\ wpc' = "stuck"
       ELSE Begin(NewTxn) /\ wpc' = "change"
    /\ UNCHANGED <<dataVars, envVars, transaction_log, has_error, retry, batchVars, waiting, rpc, failed>>

Changing == wpc = "change" /\ DOMAIN todo # {}

Key == CHOOSE k \in DOMAIN todo : \A j \in DOMAIN todo : k <= j
Advance == todo' = Restrict(todo, DOMAIN todo \ {Key})

\* after an error deletions are still logged and puts are not
Logged ==
    transaction_log' =
        IF has_error' /\ todo[Key] # 0
        THEN transaction_log
        ELSE [k \in DOMAIN transaction_log \cup {Key} |->
                 IF k = Key THEN todo[Key] ELSE transaction_log[k]]

Touches == IF todo[Key] # 0 \/ txn.map[Key] # 0 THEN 1 ELSE 0
ChangeFits == Touches = 0 \/ Needed(txn.dirty + 1) <= env

\* mdb_put, mdb_del
ChangeDone ==
    /\ Changing
    /\ ~txn.bad /\ ChangeFits
    /\ txn' = [txn EXCEPT !.map = [@ EXCEPT ![Key] = todo[Key]], !.dirty = @ + Touches]
    /\ Advance /\ UNCHANGED has_error /\ Logged
    /\ UNCHANGED <<dataVars, envVars, wpc, retry, want, lockVars, rpc, failed>>

\* any other error of mdb_put or mdb_del
ChangeFails ==
    /\ Changing
    /\ MayFail /\ ~txn.bad
    /\ txn' = [txn EXCEPT !.bad = TRUE]
    /\ has_error' = TRUE /\ failed' = TRUE
    /\ Advance /\ Logged
    /\ UNCHANGED <<dataVars, envVars, wpc, retry, want, lockVars, rpc>>

\* slip: the shared lock is still held
WaitToGrowLocked(again) ==
    /\ txn' = NoTxn
    /\ UNCHANGED locked
    /\ waiting' = waiting \cup {Writer}
    /\ wpc' = "grow" /\ retry' = again

\* the transaction is over, the shared lock given back, the exclusive one asked for
WaitToGrow(again) ==
    /\ txn' = NoTxn
    /\ locked' = FALSE
    /\ waiting' = waiting \cup {Writer}
    /\ wpc' = "grow" /\ retry' = again

\* MDB_MAP_FULL
ChangeFull ==
    /\ Changing
    /\ ~txn.bad /\ ~ChangeFits /\ ~has_error
    /\ WaitToGrow("change")
    /\ UNCHANGED <<dataVars, envVars, transaction_log, has_error, batchVars, rpc, failed>>

\* MDB_MAP_FULL or MDB_BAD_TXN after an error: a new transaction, without this and the earlier changes
ChangeLost ==
    /\ Changing
    /\ txn.bad \/ ~ChangeFits
    /\ has_error
    /\ txn' = NoTxn
    /\ Advance
    /\ wpc' = "fresh" /\ retry' = "change"
    /\ UNCHANGED <<dataVars, envVars, transaction_log, has_error, want, lockVars, rpc, failed>>

Fresh ==
    /\ WriterAt("fresh", retry)
    /\ Begin(NewTxn)
    /\ UNCHANGED <<dataVars, envVars, transaction_log, has_error, retry, batchVars, waiting, rpc, failed>>

\* slip: the size is not doubled
GrownToFile == MapFor(map_size)

Grown == MapFor(2 * map_size)

\* destroy_env and create_env under the exclusive lock
Grow ==
    /\ WriterAt("grow", "replay")
    /\ Free
    /\ map_size' = Grown
    /\ env' = Grown
    /\ waiting' = waiting \ {Writer}
    /\ UNCHANGED <<dataVars, txn, transaction_log, has_error, retry, batchVars, locked, rpc, failed>>

\* create_env fails: start_transaction is called with the exclusive lock held and no environment,
\* which is undefined and taken as the end of the process
GrowFails ==
    /\ WriterAt("grow", "gone")
    /\ Free
    /\ MayFail
    /\ has_error' = TRUE /\ failed' = TRUE
    /\ env' = 0 /\ map_size' = 2 * map_size
    /\ UNCHANGED <<dataVars, txn, transaction_log, retry, batchVars, lockVars, rpc>>

Replay ==
    /\ WriterAt("replay", retry)
    /\ Begin(Replayed)
    /\ has_error' = (has_error \/ Replayed.bad)
    /\ UNCHANGED <<dataVars, envVars, transaction_log, retry, batchVars, waiting, rpc, failed>>

-------------------------------------------------------------------------------
(***************************************************************************)
(* commit_transaction_internal.  Whatever mdb_txn_commit answers, the      *)
(* transaction of LMDB is over.                                            *)
(***************************************************************************)
Committing == wpc = "change" /\ DOMAIN todo = {}

Closed ==
    /\ txn' = NoTxn
    /\ locked' = FALSE
    /\ transaction_log' = NoChanges
    /\ wpc' = "top"

Written ==
    /\ db' = txn.map
    /\ pages' = IF txn.dirty = 0 \/ Needed(txn.dirty + 1) <= pages
                THEN pages ELSE Needed(txn.dirty + 1)

Commit ==
    /\ Committing \/ wpc = "recommit"
    /\ ~txn.bad /\ CommitFits
    /\ Written
    /\ Closed
    /\ UNCHANGED <<envVars, has_error, retry, batchVars, waiting, rpc, failed>>

\* MDB_MAP_FULL, the first time
CommitFull ==
    /\ Committing
    /\ ~txn.bad /\ ~CommitFits /\ ~has_error
    /\ WaitToGrow("recommit")
    /\ UNCHANGED <<dataVars, envVars, transaction_log, has_error, batchVars, rpc, failed>>

\* MDB_MAP_FULL or MDB_BAD_TXN after an error: a new transaction is begun and left open
CommitLeft ==
    /\ Committing
    /\ txn.bad \/ ~CommitFits
    /\ has_error
    /\ txn' = NoTxn
    /\ wpc' = "fresh" /\ retry' = "top"
    /\ UNCHANGED <<dataVars, envVars, transaction_log, has_error, batchVars, lockVars, rpc, failed>>

\* the second commit has no room either, or LMDB fails otherwise
CommitFails ==
    /\ \/ wpc = "recommit" /\ (txn.bad \/ ~CommitFits) /\ UNCHANGED failed
       \/ (Committing \/ wpc = "recommit") /\ MayFail /\ ~txn.bad /\ failed' = TRUE
    /\ has_error' = TRUE
    /\ Closed
    /\ UNCHANGED <<dataVars, envVars, retry, batchVars, waiting, rpc>>

WriterNext ==
    \/ Start \/ ChangeDone \/ ChangeFails \/ ChangeFull \/ ChangeLost \/ Fresh
    \/ Grow \/ GrowFails \/ Replay
    \/ Commit \/ CommitFull \/ CommitLeft \/ CommitFails

Next ==
    \/ Take
    \/ WriterNext
    \/ \E r \in Readers : Construct(r) \/ Call(r) \/ ReaderNext(r)

Spec == Init /\ [][Next]_vars

(* The threads are scheduled; batches and look-ups come or do not come. *)
FairSpec == Spec /\ WF_vars(WriterNext) /\ \A r \in Readers : WF_vars(ReaderNext(r))

-------------------------------------------------------------------------------
(***************************************************************************)
(* Without an error the database holds every batch as a whole, however     *)
(* often the map grew and the transaction was repeated from its log        *)
(* (replay_transaction_log, LMDBFileIndex.cpp:744-757).                    *)
(***************************************************************************)
WholeBatches == wpc = "top" /\ ~has_error => db = want

(***************************************************************************)
(* Lack of room in the map alone never leads to the error state: after     *)
(* growing, the log and the change or commit that did not fit do fit,      *)
(* although the log is repeated and the commit tried again only once       *)
(* (LMDBFileIndex.cpp:460-464, :744-757).                                  *)
(***************************************************************************)
RoomAfterGrowth == has_error => failed

(***************************************************************************)
(* The writer thread has one transaction at a time (lmdb/lmdb.h:95): it    *)
(* never begins one while another of its own is open, for which LMDB would *)
(* make it wait.                                                           *)
(***************************************************************************)
OneTransaction == wpc # "stuck"

(***************************************************************************)
(* As long as there is no error, the writer finishes every batch: growing  *)
(* the map waits for readers and for other objects being constructed, and  *)
(* neither waits for the writer in turn.                                   *)
(***************************************************************************)
BatchesEnd == []~has_error => (wpc # "top" ~> wpc = "top")

(***************************************************************************)
(* As long as there is no error, every look-up returns, although a thread  *)
(* that waits for the exclusive lock keeps it out.                         *)
(***************************************************************************)
LookupsEnd == []~has_error => \A r \in Readers : rpc[r] = "called" ~> rpc[r] = "ready"
===============================================================================
