------------------------------ MODULE FileIndex ------------------------------
(***************************************************************************)
(* The file entry index: an LMDB map from (content, client) to the file    *)
(* entry that stands for it, behind two buffers.  Backup threads put into  *)
(* the active buffer; one writer thread exchanges the buffers, writes the  *)
(* other one in a single LMDB transaction and clears it.  Look-ups first   *)
(* read the buffers under the mutex and then, without it, the database.    *)
(***************************************************************************)
EXTENDS Naturals, FiniteSets

CONSTANTS Files,          \* contents (hash and size), as naturals: their order counts
          Clients,        \* client ids, naturals from 1
          EntryIds,       \* ids of rows of the files table
          FileOf,         \* the content of the row with that id
          Threads,        \* threads that use the index
          MaxBufferSize,  \* max_buffer_size
          NotCached       \* a buffer has nothing for a key

ASSUME ConstantsAssumption ==
    /\ Files \subseteq Nat
    /\ Clients \subseteq Nat \ {0}
    /\ EntryIds \subseteq Nat \ {0}
    /\ FileOf \in [EntryIds -> Files]
    /\ NotCached \notin EntryIds \cup {0}
    /\ MaxBufferSize \in Nat \ {0}

VARIABLES active_cache_buffer,  \* the buffer put_delayed writes
          other_cache_buffer,   \* the buffer the writer thread writes to LMDB
          lmdb,                 \* the committed database, 0: no entry
          older,                \* the database before its last commit
          wpc,                  \* where the writer thread is
          do_flush, do_accept,
          pc,                   \* what each thread is in the middle of
          arg,                  \* its key and value
          got,                  \* what a look-up of all clients found in the buffers
          seen,                 \* history: what each client's entry has been since the look-up began
          owed                  \* history: the keys a running flush has to write

indexVars == <<active_cache_buffer, other_cache_buffer, lmdb, older>>
threadVars == <<pc, arg, got, seen, owed>>
vars == <<indexVars, wpc, do_flush, do_accept, threadVars>>

Keys == Files \X Clients
Value == EntryIds \cup {0}
Buffer == [Keys -> Value \cup {NotCached}]
Empty == [k \in Keys |-> NotCached]

Present(m) == {k \in Keys : m[k] # NotCached}

\* map m with what the buffer b holds on top of it
Over(b, m) == [k \in Keys |-> IF b[k] # NotCached THEN b[k] ELSE m[k]]

\* What a reader that holds the mutex and the database would see.
View == Over(active_cache_buffer, Over(other_cache_buffer, lmdb))

Idle == [key |-> NotCached, value |-> 0]

BuffersTypeOK ==
    /\ active_cache_buffer \in Buffer
    /\ other_cache_buffer \in Buffer
    /\ lmdb \in [Keys -> Value]
    /\ older \in [Keys -> Value]
    /\ wpc \in {"top", "wait", "write", "clear"}
    /\ do_flush \in BOOLEAN
    /\ do_accept \in BOOLEAN

ThreadsTypeOK ==
    /\ pc \in [Threads -> {"idle", "put", "get", "get_all", "flush"}]
    /\ arg \in [Threads -> [key : Keys \cup {NotCached}, value : Value]]
    /\ \A t \in Threads : pc[t] \in {"put", "get", "get_all"} => arg[t].key \in Keys
    /\ got \in [Threads -> [Clients -> Value \cup {NotCached}]]
    /\ seen \in [Threads -> [Clients -> SUBSET Value]]
    /\ owed \in [Threads -> SUBSET Keys]

TypeOK == BuffersTypeOK /\ ThreadsTypeOK

(***************************************************************************)
(* Fresh process over the database file as it is.                          *)
(***************************************************************************)
NothingFound == [c \in Clients |-> NotCached]
NothingSeen == [c \in Clients |-> {}]

Init ==
    /\ active_cache_buffer = Empty
    /\ other_cache_buffer = Empty
    /\ lmdb = [k \in Keys |-> 0]
    /\ older = lmdb
    /\ wpc = "top"
    /\ do_flush = FALSE
    /\ do_accept = TRUE
    /\ pc = [t \in Threads |-> "idle"]
    /\ arg = [t \in Threads |-> Idle]
    /\ got = [t \in Threads |-> NothingFound]
    /\ seen = [t \in Threads |-> NothingSeen]
    /\ owed = [t \in Threads |-> {}]

-------------------------------------------------------------------------------
(***************************************************************************)
(* Look-ups by neighbour, on a buffer or on the database seen as one: the  *)
(* first key not before k, if it has the content of k, else the key just   *)
(* before that one.  Nothing is found when all keys are before k.          *)
(***************************************************************************)
Before(j, k) == j[1] < k[1] \/ (j[1] = k[1] /\ j[2] < k[2])

\* slip: the first key after k (upper_bound)
UpperBound(m, k) ==
    {j \in Present(m) : Before(k, j) /\ \A i \in Present(m) : Before(i, j) => ~Before(k, i)}

LowerBound(m, k) ==
    {j \in Present(m) : ~Before(j, k) /\ \A i \in Present(m) : Before(i, j) => Before(i, k)}

Predecessor(m, k) ==
    {j \in Present(m) : Before(j, k) /\ \A i \in Present(m) : Before(j, i) => ~Before(i, k)}

\* slip: the key just before is taken whatever its content
NeighbourOfAnyContent(m, k) ==
    LET hits == IF \E j \in LowerBound(m, k) : j[1] = k[1]
                THEN LowerBound(m, k)
                ELSE IF LowerBound(m, k) # {} THEN Predecessor(m, k) ELSE {}
    IN  IF hits = {} THEN NotCached ELSE m[CHOOSE j \in hits : TRUE]

Neighbour(m, k) ==
    LET candidates == IF \E j \in LowerBound(m, k) : j[1] = k[1]
                      THEN LowerBound(m, k)
                      ELSE IF LowerBound(m, k) # {} THEN Predecessor(m, k) ELSE {}
        hits == {j \in candidates : j[1] = k[1]}
    IN  IF hits = {} THEN NotCached ELSE m[CHOOSE j \in hits : TRUE]

\* the database as a map whose missing keys are missing
Stored == [k \in Keys |-> IF lmdb[k] = 0 THEN NotCached ELSE lmdb[k]]

\* FileIndex::get_with_cache_prefer_client with nobody writing meanwhile
PreferClient(k) ==
    LET a == Neighbour(active_cache_buffer, k)
        o == Neighbour(other_cache_buffer, k)
        d == Neighbour(Stored, k)
    IN  IF a # NotCached THEN a
        ELSE IF o # NotCached THEN o
        ELSE IF d # NotCached THEN d ELSE 0

-------------------------------------------------------------------------------
(***************************************************************************)
(* put_delayed and del_delayed (value 0).  The caller spins, without the   *)
(* mutex, while the active buffer is full or nothing is accepted.          *)
(***************************************************************************)
PutCall(t) ==
    /\ pc[t] = "idle"
    /\ \E k \in Keys, v \in Value :
          /\ v # 0 => FileOf[v] = k[1]
          /\ arg' = [arg EXCEPT ![t] = [key |-> k, value |-> v]]
    /\ pc' = [pc EXCEPT ![t] = "put"]
    /\ UNCHANGED <<indexVars, wpc, do_flush, do_accept, got, seen, owed>>

Put(t) ==
    LET k == arg[t].key
        v == arg[t].value
    IN  /\ pc[t] = "put"
        /\ Cardinality(Present(active_cache_buffer)) < MaxBufferSize
        /\ do_accept
        /\ active_cache_buffer' = [active_cache_buffer EXCEPT ![k] = v]
        /\ seen' = [u \in Threads |->
                      IF pc[u] \in {"get", "get_all"} /\ arg[u].key[1] = k[1]
                      THEN [seen[u] EXCEPT ![k[2]] = @ \cup {v}]
                      ELSE seen[u]]
        /\ owed' = [u \in Threads |-> owed[u] \ {k}]
        /\ pc' = [pc EXCEPT ![t] = "idle"]
        /\ arg' = [arg EXCEPT ![t] = Idle]
        /\ UNCHANGED <<other_cache_buffer, lmdb, older, wpc, do_flush, do_accept, got>>

(***************************************************************************)
(* get_with_cache_exact: answered under the mutex when a buffer has the    *)
(* key (no change of state); otherwise the database is read later, with    *)
(* the mutex released.                                                     *)
(***************************************************************************)
StartLookup(t, k, what, found) ==
    /\ pc[t] = "idle"
    /\ pc' = [pc EXCEPT ![t] = what]
    /\ arg' = [arg EXCEPT ![t] = [key |-> k, value |-> 0]]
    /\ got' = [got EXCEPT ![t] = found]
    /\ seen' = [seen EXCEPT ![t] = [c \in Clients |-> {View[<<k[1], c>>]}]]
    /\ UNCHANGED <<indexVars, wpc, do_flush, do_accept, owed>>

\* slip: the buffer the writer is busy with is not looked at
GetMissesActiveCache(t) ==
    \E k \in Keys :
        /\ active_cache_buffer[k] = NotCached
        /\ StartLookup(t, k, "get", NothingFound)

GetMissesCache(t) ==
    \E k \in Keys :
        /\ active_cache_buffer[k] = NotCached
        /\ other_cache_buffer[k] = NotCached
        /\ StartLookup(t, k, "get", NothingFound)

GetResult(t) == lmdb[arg[t].key]

\* slip: the buffers are merged in the wrong order
GetAllCachesSwapped(t) ==
    \E k \in Keys :
        StartLookup(t, k, "get_all",
            [c \in Clients |-> Over(other_cache_buffer, active_cache_buffer)[<<k[1], c>>]])

\* get_all_clients_with_cache: the active buffer hides the other one.
GetAllCaches(t) ==
    \E k \in Keys :
        StartLookup(t, k, "get_all",
            [c \in Clients |-> Over(active_cache_buffer, other_cache_buffer)[<<k[1], c>>]])

GetAllResult(t) ==
    [c \in Clients |-> IF got[t][c] # NotCached THEN got[t][c]
                       ELSE lmdb[<<arg[t].key[1], c>>]]

ReturnIdle(t) ==
    /\ pc' = [pc EXCEPT ![t] = "idle"]
    /\ arg' = [arg EXCEPT ![t] = Idle]
    /\ got' = [got EXCEPT ![t] = NothingFound]
    /\ seen' = [seen EXCEPT ![t] = NothingSeen]
    /\ owed' = [owed EXCEPT ![t] = {}]
    /\ UNCHANGED <<indexVars, wpc, do_flush, do_accept>>

\* The read transaction on the database; the result is GetResult or GetAllResult.
ReadDatabase(t) ==
    /\ pc[t] \in {"get", "get_all"}
    /\ ReturnIdle(t)

(***************************************************************************)
(* flush: raise do_flush and sleep until somebody has lowered it.  A flush *)
(* owes its caller the buffered keys; but when the writer is in the middle *)
(* of a batch only those of that batch, for its end lowers do_flush too.   *)
(***************************************************************************)
FlushCall(t) ==
    /\ pc[t] = "idle"
    /\ pc' = [pc EXCEPT ![t] = "flush"]
    /\ do_flush' = TRUE
    /\ owed' = [owed EXCEPT ![t] =
                  IF wpc \in {"top", "wait"} THEN Present(active_cache_buffer)
                  ELSE Present(other_cache_buffer) \ Present(active_cache_buffer)]
    /\ UNCHANGED <<indexVars, wpc, do_accept, arg, got, seen>>

FlushReturn(t) ==
    /\ pc[t] = "flush"
    /\ ~do_flush
    /\ ReturnIdle(t)

\* stop_accept, at the end of the program: every put from now on waits.
StopAccept ==
    /\ do_accept
    /\ do_accept' = FALSE
    /\ UNCHANGED <<indexVars, wpc, do_flush, threadVars>>

-------------------------------------------------------------------------------
(***************************************************************************)
(* The writer thread.  It waits while the active buffer is empty; a wait   *)
(* ends after max_wait_time whatever happened, hence at any moment.  It    *)
(* never ends: nothing calls shutdownFileIndex, so do_shutdown stays low.  *)
(***************************************************************************)
\* slip: the flush request counts as served when the batch is taken
ExchangeServesFlush ==
    /\ active_cache_buffer # Empty
    /\ active_cache_buffer' = other_cache_buffer
    /\ other_cache_buffer' = active_cache_buffer
    /\ wpc' = "write"
    /\ do_flush' = FALSE
    /\ UNCHANGED <<lmdb, older, do_accept, threadVars>>

Exchange ==
    /\ active_cache_buffer # Empty
    /\ active_cache_buffer' = other_cache_buffer
    /\ other_cache_buffer' = active_cache_buffer
    /\ wpc' = "write"
    /\ UNCHANGED <<lmdb, older, do_flush, do_accept, threadVars>>

\* slip: no time limit, only a full buffer is written
WriterTakesFullBatch ==
    /\ wpc \in {"top", "wait"}
    /\ Cardinality(Present(active_cache_buffer)) = MaxBufferSize
    /\ Exchange

WriterTakesBatch ==
    /\ wpc \in {"top", "wait"}
    /\ Exchange

\* slip: an idle writer leaves the flush request up
WriterSleeps ==
    /\ wpc \in {"top", "wait"}
    /\ active_cache_buffer = Empty
    /\ wpc' = "wait"
    /\ UNCHANGED <<indexVars, do_flush, do_accept, threadVars>>

WriterFindsNothing ==
    /\ wpc \in {"top", "wait"}
    /\ active_cache_buffer = Empty
    /\ wpc' = "wait"
    /\ do_flush' = FALSE
    /\ UNCHANGED <<indexVars, do_accept, threadVars>>

\* start_transaction, a put or del per buffered key, commit_transaction
WriterCommits ==
    /\ wpc = "write"
    /\ lmdb' = Over(other_cache_buffer, lmdb)
    /\ older' = lmdb
    /\ wpc' = "clear"
    /\ UNCHANGED <<active_cache_buffer, other_cache_buffer, do_flush, do_accept, threadVars>>

\* slip: what was put during the commit is thrown away with the batch
WriterClearsBoth ==
    /\ wpc = "clear"
    /\ active_cache_buffer' = Empty
    /\ other_cache_buffer' = Empty
    /\ do_flush' = FALSE
    /\ wpc' = "top"
    /\ UNCHANGED <<lmdb, older, do_accept, threadVars>>

WriterClears ==
    /\ wpc = "clear"
    /\ other_cache_buffer' = Empty
    /\ do_flush' = FALSE
    /\ wpc' = "top"
    /\ UNCHANGED <<active_cache_buffer, lmdb, older, do_accept, threadVars>>

(***************************************************************************)
(* The process dies and is started again.  LMDB is opened without the      *)
(* metadata sync, so when the machine dies too the last commit may be      *)
(* undone.                                                                 *)
(***************************************************************************)
Crash ==
    /\ lmdb' \in {lmdb, older}
    /\ older' = lmdb'
    /\ active_cache_buffer' = Empty
    /\ other_cache_buffer' = Empty
    /\ wpc' = "top"
    /\ do_flush' = FALSE
    /\ do_accept' = TRUE
    /\ pc' = [t \in Threads |-> "idle"]
    /\ arg' = [t \in Threads |-> Idle]
    /\ got' = [t \in Threads |-> NothingFound]
    /\ seen' = [t \in Threads |-> NothingSeen]
    /\ owed' = [t \in Threads |-> {}]

Writer == WriterTakesBatch \/ WriterFindsNothing \/ WriterCommits \/ WriterClears

Next ==
    \/ \E t \in Threads :
          \/ PutCall(t) \/ Put(t)
          \/ GetMissesCache(t) \/ GetAllCaches(t) \/ ReadDatabase(t)
          \/ FlushCall(t) \/ FlushReturn(t)
    \/ StopAccept
    \/ WriterTakesBatch \/ WriterFindsNothing \/ WriterCommits \/ WriterClears
    \/ Crash

Spec == Init /\ [][Next]_vars

\* The writer thread is always scheduled and its waits are timed.
FairSpec == Spec /\ WF_vars(Writer)

-------------------------------------------------------------------------------
(***************************************************************************)
(* get_with_cache_exact may read the database after any number of puts and *)
(* commits: it still returns what the key's entry was at some moment since *)
(* the call (FileIndex.cpp:225-243).                                       *)
(***************************************************************************)
ExactReadCurrent ==
    \A t \in Threads : pc[t] = "get" => GetResult(t) \in seen[t][arg[t].key[2]]

(***************************************************************************)
(* get_all_clients_with_cache merges buffers and database without holding  *)
(* the mutex: what it returns for each client was that client's entry at   *)
(* some moment since the call (FileIndex.cpp:186-223).                     *)
(***************************************************************************)
AllReadCurrent ==
    \A t \in Threads : pc[t] = "get_all" =>
        \A c \in Clients : GetAllResult(t)[c] \in seen[t][c]

(***************************************************************************)
(* get_with_cache_prefer_client takes a neighbouring key for the one asked *)
(* for: it never answers with the entry of another content, and answers    *)
(* with the client's own entry when the active buffer has it               *)
(* (FileIndex.cpp:267-291, LMDBFileIndex.cpp:691-742).                     *)
(***************************************************************************)
PreferKeepsContent ==
    \A k \in Keys :
        /\ PreferClient(k) # 0 => FileOf[PreferClient(k)] = k[1]
        /\ active_cache_buffer[k] # NotCached => PreferClient(k) = View[k]
        /\ active_cache_buffer = Empty /\ other_cache_buffer = Empty /\ lmdb[k] # 0
              => PreferClient(k) = lmdb[k]

(***************************************************************************)
(* When a flush may return, what it owes its caller is in the database,    *)
(* and nothing older hides it (FileIndex.cpp:317-330, 45-123).             *)
(***************************************************************************)
FlushWritesOwed ==
    \A t \in Threads : pc[t] = "flush" /\ ~do_flush =>
        \A k \in owed[t] : lmdb[k] = View[k]

\* A flush request never hangs: do_flush is lowered again (FileIndex.cpp:323).
FlushServed == do_flush ~> ~do_flush

\* What is put does not stay in memory for ever (FileIndex.cpp:50-120).
BufferDrains ==
    \A k \in Keys : active_cache_buffer[k] # NotCached ~> active_cache_buffer[k] = NotCached

(***************************************************************************)
(* The buffers are invisible: readers see one map, which reaches the disk  *)
(* batch by batch.                                                         *)
(***************************************************************************)
Store == INSTANCE IndexStore WITH
    current <- View,
    picture <- Over(other_cache_buffer, lmdb),
    syncing <- wpc = "write",
    durable <- lmdb

RefinesStore == Store!StoreSpec
===============================================================================
